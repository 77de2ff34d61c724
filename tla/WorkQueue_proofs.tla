---------------------------- MODULE WorkQueue_proofs ----------------------------
(***************************************************************************)
(* Theorems about WorkQueue, for any number of events, copies and workers, *)
(* any depth of the list and any faults.                                   *)
(***************************************************************************)
EXTENDS WorkQueue, SequenceTheorems, TLAPS

USE WorkQueueAssumption

Publish == {"idle", "push", "notify", "mark"}

-------------------------------------------------------------------------------
(* The list *)

LEMMA ContainsToSet ==
  ASSUME NEW S, NEW s \in Seq(S), NEW x
  PROVE  Contains(s, x) <=> x \in ToSet(s)
BY DEF Contains, ToSet

\* LPUSH adds an element in front of the others.
LEMMA PushedInFront ==
  ASSUME NEW S, NEW s \in Seq(S), NEW d \in S
  PROVE  /\ <<d>> \o s \in Seq(S) /\ Len(<<d>> \o s) = Len(s) + 1
         /\ ToSet(<<d>> \o s) = ToSet(s) \cup {d}
         /\ IsInjective(s) /\ ~Contains(s, d) => IsInjective(<<d>> \o s)
<1> DEFINE t == <<d>> \o s
<1>1. /\ t \in Seq(S) /\ Len(t) = Len(s) + 1 /\ t[1] = d
      /\ \A i \in 1..Len(s) : t[i + 1] = s[i]
      /\ \A i \in 1..Len(t) : i # 1 => i - 1 \in 1..Len(s) /\ t[i] = s[i - 1]
  OBVIOUS
<1> HIDE DEF t
<1>2. ToSet(t) = ToSet(s) \cup {d}
  <2>1. ASSUME NEW x \in ToSet(t) PROVE x \in ToSet(s) \cup {d}
    <3>1. PICK i \in 1..Len(t) : t[i] = x
      BY <1>1 DEF ToSet
    <3>2. CASE i = 1
      BY <1>1, <3>1, <3>2
    <3>3. CASE i # 1
      BY <1>1, <3>1, <3>3 DEF ToSet
    <3> QED BY <3>2, <3>3
  <2>2. ASSUME NEW x \in ToSet(s) PROVE x \in ToSet(t)
    <3>1. PICK i \in 1..Len(s) : s[i] = x
      BY DEF ToSet
    <3>2. i + 1 \in 1..Len(t) /\ t[i + 1] = x
      BY <1>1, <3>1
    <3> QED BY <1>1, <3>2 DEF ToSet
  <2>3. d \in ToSet(t)
    BY <1>1 DEF ToSet
  <2> QED BY <2>1, <2>2, <2>3
<1>3. ASSUME IsInjective(s), ~Contains(s, d) PROVE IsInjective(t)
  <2> SUFFICES ASSUME NEW i \in 1..Len(t), NEW j \in 1..Len(t), t[i] = t[j]
               PROVE  i = j
    BY <1>1 DEF IsInjective
  <2>1. CASE i # 1 /\ j # 1
    <3>1. i - 1 \in DOMAIN s /\ j - 1 \in DOMAIN s /\ s[i - 1] = s[j - 1]
      BY <1>1, <2>1
    <3>2. i - 1 = j - 1
      BY <1>3, <3>1 DEF IsInjective
    <3> QED BY <3>2
  <2>2. CASE i = 1 \/ j = 1
    <3>1. ASSUME NEW k \in 1..Len(t), t[k] = d PROVE k = 1
      BY <1>1, <1>3, <3>1 DEF Contains
    <3> QED BY <1>1, <2>2, <3>1
  <2> QED BY <2>1, <2>2
<1> QED BY <1>1, <1>2, <1>3 DEF t

\* RPOP takes the last element, which is then in no other place.
LEMMA PoppedBehind ==
  ASSUME NEW S, NEW s \in Seq(S), s # <<>>
  PROVE  /\ Front(s) \in Seq(S) /\ Len(Front(s)) = Len(s) - 1 /\ Len(s) > 0
         /\ ToSet(Front(s)) \subseteq ToSet(s) /\ Last(s) \in S /\ Last(s) \in ToSet(s)
         /\ IsInjective(s) => IsInjective(Front(s)) /\ ~Contains(Front(s), Last(s))
<1> DEFINE t == Front(s)
<1>1. Len(s) \in Nat /\ Len(s) > 0
  OBVIOUS
<1>2. /\ t \in Seq(S) /\ Len(t) = Len(s) - 1
      /\ \A i \in 1..Len(t) : t[i] = s[i]
  <2>1. \A i \in 1..(Len(s) - 1) : s[i] \in S
    BY <1>1
  <2> DEFINE n == Len(s) - 1
             u == SubSeq(s, 1, n)
  <2>2. n \in Nat
    BY <1>1
  <2>3. t = u
    BY DEF Front
  <2> HIDE DEF n
  <2>4. /\ u \in Seq(S) /\ Len(u) = IF 1 <= n THEN n - 1 + 1 ELSE 0
        /\ \A i \in 1..(n - 1 + 1) : u[i] = s[1 + i - 1]
    BY ONLY <2>1, <2>2, SubSeqProperties DEF n
  <2> HIDE DEF u, t
  <2>5. Len(u) = n
    BY <2>2, <2>4
  <2>6. ASSUME NEW i \in 1..n PROVE u[i] = s[i]
    <3>1. i \in 1..(n - 1 + 1) /\ 1 + i - 1 = i
      BY <2>2
    <3> QED BY <2>4, <3>1
  <2> QED BY <2>3, <2>4, <2>5, <2>6 DEF n
<1> HIDE DEF t
<1>3. Last(s) \in S /\ Last(s) \in ToSet(s)
  BY <1>1 DEF Last, ToSet
<1>4. ToSet(t) \subseteq ToSet(s)
  BY <1>1, <1>2 DEF ToSet
<1>5. IsInjective(s) => IsInjective(t) /\ ~Contains(t, Last(s))
  BY <1>1, <1>2 DEF IsInjective, Contains, Last
<1> QED BY <1>1, <1>2, <1>3, <1>4, <1>5 DEF t

LEMMA LPushed ==
  ASSUME QueueTypeOK, NEW d \in Deliveries, LPush(d)
  PROVE  /\ ready' \in Seq(Deliveries) /\ Len(ready') <= Depth
         /\ ToSet(ready') = ToSet(ready) \cup {d}
         /\ quiet' \subseteq Deliveries /\ quiet' = quiet \cup {d}
         /\ IsInjective(ready) /\ ~Contains(ready, d) => IsInjective(ready')
<1>1. ready \in Seq(Deliveries) /\ Len(ready) \in Nat /\ Len(ready) < Depth
      /\ ready' = <<d>> \o ready /\ quiet' = quiet \cup {d} /\ quiet \subseteq Deliveries
  BY DEF LPush, QueueTypeOK
<1>2. /\ <<d>> \o ready \in Seq(Deliveries) /\ Len(<<d>> \o ready) = Len(ready) + 1
      /\ ToSet(<<d>> \o ready) = ToSet(ready) \cup {d}
      /\ IsInjective(ready) /\ ~Contains(ready, d) => IsInjective(<<d>> \o ready)
  BY <1>1, PushedInFront
<1> QED BY <1>1, <1>2

LEMMA Popped ==
  ASSUME QueueTypeOK, NEW d, Pop(d)
  PROVE  /\ ready' \in Seq(Deliveries) /\ Len(ready') <= Depth
         /\ ToSet(ready') \subseteq ToSet(ready)
         /\ d \in Deliveries /\ d \in ToSet(ready)
         /\ processing' \subseteq Deliveries
         /\ IsInjective(ready) => IsInjective(ready') /\ d \notin ToSet(ready')
<1>1. ready \in Seq(Deliveries) /\ Len(ready) <= Depth /\ ready # <<>> /\ d = Last(ready)
      /\ ready' = Front(ready) /\ processing' = processing \cup {d} /\ processing \subseteq Deliveries
  BY DEF Pop, QueueTypeOK
<1>2. /\ Front(ready) \in Seq(Deliveries) /\ Len(Front(ready)) = Len(ready) - 1
      /\ ToSet(Front(ready)) \subseteq ToSet(ready)
      /\ Last(ready) \in Deliveries /\ Last(ready) \in ToSet(ready)
      /\ IsInjective(ready) => IsInjective(Front(ready)) /\ ~Contains(Front(ready), Last(ready))
  BY <1>1, PoppedBehind
<1>3. Len(ready) \in Nat
  BY <1>1
<1> QED BY <1>1, <1>2, <1>3, ContainsToSet

LEMMA UnusedChosen ==
  ASSUME NEW e \in Events, \E i \in 1..Copies : Unused(<<e, i>>)
  PROVE  /\ <<e, CHOOSE i \in 1..Copies : Unused(<<e, i>>)>> \in Deliveries
         /\ Unused(<<e, CHOOSE i \in 1..Copies : Unused(<<e, i>>)>>)
BY DEF Deliveries

-------------------------------------------------------------------------------
(* Types *)

LEMMA NotifiedTyped ==
  ASSUME QueueTypeOK, NEW ws
  PROVE  /\ Notified(ws) \in [Workers -> WorkerRow]
         /\ \A w \in Workers : /\ Notified(ws)[w].pc = worker[w].pc
                               /\ worker[w].mail => Notified(ws)[w].mail
         /\ ws = Workers => \A w \in Workers :
                              worker[w].pc = "listening" => Notified(ws)[w].mail
<1>1. ASSUME NEW w \in Workers
      PROVE  /\ Notified(ws)[w] \in WorkerRow /\ Notified(ws)[w].pc = worker[w].pc
             /\ worker[w].mail => Notified(ws)[w].mail
             /\ w \in ws /\ worker[w].pc = "listening" => Notified(ws)[w].mail
  <2>1. worker[w] \in WorkerRow
    BY DEF QueueTypeOK
  <2> QED BY <2>1 DEF Notified, WorkerRow
<1> QED BY <1>1 DEF Notified

LEMMA WorkerRowSet ==
  ASSUME NEW r \in WorkerRow, NEW pc \in {"checking", "listening"}
  PROVE  [r EXCEPT !.pc = pc] \in WorkerRow
<1>1. r.mail \in BOOLEAN
  BY DEF WorkerRow
<1>2. DOMAIN r = {"pc", "mail"}
  BY DEF WorkerRow
<1> QED BY <1>1, <1>2 DEF WorkerRow

LEMMA WorkerTyped ==
  ASSUME QueueTypeOK, NEW w \in Workers, Unsubscribe(w)
  PROVE  /\ worker' \in [Workers -> WorkerRow] /\ worker'[w].pc = "out"
         /\ \A v \in Workers \ {w} : worker'[v] = worker[v]
BY DEF QueueTypeOK, WorkerRow, Unsubscribe, Outside

LEMMA GotoArrives ==
  ASSUME QueueTypeOK, NEW w \in Workers, NEW pc, Goto(w, pc)
  PROVE  worker'[w].pc = pc /\ \A v \in Workers \ {w} : worker'[v] = worker[v]
<1>1. worker[w] \in WorkerRow /\ worker \in [Workers -> WorkerRow]
  BY DEF QueueTypeOK
<1>2. DOMAIN worker[w] = {"pc", "mail"}
  BY <1>1 DEF WorkerRow
<1> QED BY <1>1, <1>2 DEF Goto

LEMMA StoppedTyped ==
  ASSUME QueueTypeOK, NEW p \in Publishers, NEW e \in Events
  PROVE  Stopped(p, e) \in [Publishers -> [Events -> Publish]]
BY DEF QueueTypeOK, Stopped, Silent, Publish

LEMMA OutboxTyped ==
  ASSUME QueueTypeOK, NEW e \in Events, OutboxStep(e)
  PROVE  QueueTypeOK'
<1>1. event' \in [Events -> EventRow]
  BY DEF OutboxStep, Submit, SubmitAgain, BackoffElapses, DispatchGoesStale, ClaimLapses,
         BuryEvent, SetStatus, QueueTypeOK, EventRow
<1>2. publish' \in [Publishers -> [Events -> Publish]]
  BY DEF OutboxStep, Submit, SubmitAgain, BackoffElapses, DispatchGoesStale, ClaimLapses,
         BuryEvent, QueueTypeOK, Publish, Publishers
<1>3. UNCHANGED <<ready, processing, worker, task, returning, faults, quiet>>
  BY DEF OutboxStep, Submit, SubmitAgain, BackoffElapses, DispatchGoesStale, ClaimLapses, BuryEvent
<1> QED BY <1>1, <1>2, <1>3 DEF QueueTypeOK, Publish

LEMMA PublishTyped ==
  ASSUME QueueTypeOK, NEW p \in Publishers, NEW e \in Events, PublishStep(p, e)
  PROVE  QueueTypeOK'
<1>1. CASE Push(p, e)
  <2>1. PICK d \in Deliveries : LPush(d)
    BY <1>1, UnusedChosen DEF Push
  <2>2. publish' \in [Publishers -> [Events -> Publish]]
    BY <1>1 DEF Push, QueueTypeOK, Publish
  <2> QED BY <1>1, <2>1, <2>2, LPushed DEF Push, QueueTypeOK, Publish
<1>2. CASE Notify(p, e) \/ NotifySome(p, e)
  <2>1. PICK ws : worker' = Notified(ws)
    BY <1>2 DEF Notify, NotifySome
  <2>2. publish' \in [Publishers -> [Events -> Publish]]
    BY <1>2 DEF Notify, NotifySome, QueueTypeOK, Publish
  <2>3. faults' \in 0..FaultBound
    BY <1>2 DEF Notify, NotifySome, QueueTypeOK, Fault
  <2> QED BY <1>2, <2>1, <2>2, <2>3, NotifiedTyped DEF Notify, NotifySome, QueueTypeOK, Publish
<1>3. CASE MarkDispatched(p, e)
  <2>1. event' \in [Events -> EventRow] /\ publish' \in [Publishers -> [Events -> Publish]]
    <3>1. event[e] \in EventRow /\ event \in [Events -> EventRow]
      BY DEF QueueTypeOK
    <3>2. event' \in [Events -> EventRow]
      BY <1>3, <3>1 DEF MarkDispatched, EventRow
    <3> QED BY <1>3, <3>2 DEF MarkDispatched, QueueTypeOK, Publish
  <2> QED BY <1>3, <2>1 DEF MarkDispatched, QueueTypeOK, Publish
<1>4. CASE QueueFull(p, e) \/ StopPublishing(p, e)
  <2>1. faults' \in 0..FaultBound
    BY <1>4 DEF QueueFull, StopPublishing, QueueTypeOK, Fault
  <2> QED BY <1>4, <2>1, StoppedTyped DEF QueueFull, StopPublishing, QueueTypeOK, Publish
<1> QED BY <1>1, <1>2, <1>3, <1>4 DEF PublishStep

LEMMA WorkerStepTyped ==
  ASSUME QueueTypeOK, NEW w \in Workers, WorkerStep(w)
  PROVE  QueueTypeOK'
<1>1. worker' \in [Workers -> WorkerRow]
  <2>1. CASE Subscribe(w) \/ FindEmpty(w) \/ WakeUp(w)
    <3>1. worker[w] \in WorkerRow /\ worker \in [Workers -> WorkerRow]
      BY DEF QueueTypeOK
    <3>2. [worker[w] EXCEPT !.pc = "listening"] \in WorkerRow
      BY <3>1, WorkerRowSet
    <3>3. [worker[w] EXCEPT !.pc = "checking"] \in WorkerRow
      BY <3>1, WorkerRowSet
    <3>4. [pc |-> "checking", mail |-> FALSE] \in WorkerRow
      BY DEF WorkerRow
    <3> QED BY <2>1, <3>1, <3>2, <3>3, <3>4 DEF Subscribe, FindEmpty, WakeUp, Goto
  <2>2. CASE UNCHANGED worker \/ Unsubscribe(w)
    BY <2>2, WorkerTyped DEF QueueTypeOK
  <2>3. WorkerStep(w) => \/ Subscribe(w) \/ FindEmpty(w) \/ WakeUp(w)
                         \/ UNCHANGED worker \/ Unsubscribe(w)
    BY DEF WorkerStep, TakeDelivery, LosePopped, ListenTimesOut, LoseConnection, Crash
  <2> QED BY <2>1, <2>2, <2>3
<1>2. UNCHANGED <<event, publish>> /\ quiet' = quiet
  BY DEF WorkerStep, Subscribe, TakeDelivery, LosePopped, FindEmpty, WakeUp, ListenTimesOut,
         LoseConnection, Crash
<1>3. faults' \in 0..FaultBound
  BY DEF WorkerStep, Subscribe, TakeDelivery, LosePopped, FindEmpty, WakeUp, ListenTimesOut,
         LoseConnection, Crash, Fault, QueueTypeOK
<1>4. CASE TakeDelivery(w)
  <2>1. PICK d \in Deliveries : Pop(d) /\ task' = task \cup {[of |-> d, by |-> w, pc |-> "waiting"]}
    BY <1>4 DEF TakeDelivery
  <2>2. task' \subseteq Task
    BY <2>1 DEF Task, QueueTypeOK
  <2> QED BY <1>1, <1>2, <1>3, <1>4, <2>1, <2>2, Popped DEF TakeDelivery, QueueTypeOK
<1>5. CASE LosePopped(w)
  <2>1. PICK d \in Deliveries : Pop(d)
    BY <1>5 DEF LosePopped
  <2> QED BY <1>1, <1>2, <1>3, <1>5, <2>1, Popped DEF LosePopped, QueueTypeOK
<1>6. CASE Subscribe(w) \/ FindEmpty(w) \/ WakeUp(w) \/ ListenTimesOut(w) \/ LoseConnection(w) \/ Crash(w)
  <2>1. UNCHANGED <<ready, processing>> /\ task' \subseteq task /\ returning' \subseteq returning
    BY <1>6 DEF Subscribe, FindEmpty, WakeUp, ListenTimesOut, LoseConnection, Crash
  <2> QED BY <1>1, <1>2, <1>3, <2>1 DEF QueueTypeOK
<1> QED BY <1>4, <1>5, <1>6 DEF WorkerStep

LEMMA TaskStepTyped ==
  ASSUME QueueTypeOK, NEW t \in Task, TaskStep(t)
  PROVE  QueueTypeOK'
<1>1. t.of \in Deliveries /\ t.by \in Workers /\ EventOf(t.of) \in Events
  BY DEF Task, Deliveries, EventOf
<1>2. CASE ClaimDelivery(t)
  <2>1. event' \in [Events -> EventRow]
    BY <1>1, <1>2 DEF ClaimDelivery, SetStatus, QueueTypeOK, EventRow
  <2>2. task' \subseteq Task
    BY <1>2 DEF ClaimDelivery, QueueTypeOK, Task
  <2> QED BY <1>2, <2>1, <2>2 DEF ClaimDelivery, QueueTypeOK
<1>3. CASE DropDelivery(t)
  BY <1>3 DEF DropDelivery, Acknowledge, QueueTypeOK
<1>4. CASE ReturnDelivery(t)
  <2>1. LPush(t.of) /\ faults' \in 0..FaultBound
    BY <1>4 DEF ReturnDelivery, Fault, QueueTypeOK
  <2>2. returning' \subseteq Workers \X Deliveries /\ task' \subseteq Task
    BY <1>1, <1>4 DEF ReturnDelivery, QueueTypeOK
  <2> QED BY <1>1, <1>4, <2>1, <2>2, LPushed DEF ReturnDelivery, QueueTypeOK
<1>5. CASE FinishAttempt(t)
  <2>1. event' \in [Events -> EventRow]
    BY <1>1, <1>5 DEF FinishAttempt, SetStatus, QueueTypeOK, EventRow
  <2> QED BY <1>5, <2>1 DEF FinishAttempt, Acknowledge, QueueTypeOK
<1>6. CASE AbandonTask(t)
  BY <1>6 DEF AbandonTask, Fault, QueueTypeOK
<1> QED BY <1>2, <1>3, <1>4, <1>5, <1>6 DEF TaskStep

LEMMA QueueStepTyped == QueueTypeOK /\ [Next]_vars => QueueTypeOK'
<1> SUFFICES ASSUME QueueTypeOK, [Next]_vars PROVE QueueTypeOK'
  OBVIOUS
<1>1. CASE RelayScan
  <2>1. publish' \in [Publishers -> [Events -> Publish]]
    BY <1>1 DEF RelayScan, QueueTypeOK, Publish
  <2> QED BY <1>1, <2>1 DEF RelayScan, QueueTypeOK, Publish
<1>2. ASSUME NEW w \in Workers, NEW d \in Deliveries, FinishReturn(w, d) PROVE QueueTypeOK'
  BY <1>2, NotifiedTyped DEF FinishReturn, QueueTypeOK
<1>3. ASSUME NEW d \in Deliveries, ReapEntry(d) PROVE QueueTypeOK'
  BY <1>3 DEF ReapEntry, QueueTypeOK
<1>4. CASE UNCHANGED vars
  BY <1>4 DEF vars, QueueTypeOK
<1> QED BY <1>1, <1>2, <1>3, <1>4, OutboxTyped, PublishTyped, WorkerStepTyped, TaskStepTyped DEF Next

LEMMA QueueInitTyped == Init => QueueTypeOK
BY DEF Init, QueueTypeOK, EventRow, Silent, WorkerRow, Outside, Deliveries

\* The list never outgrows MAX_QUEUE_DEPTH (ENQUEUE_SCRIPT checks it, a requeue too),
\* and rows, publications, workers and tasks keep their kinds.
THEOREM QueueTypeCorrect == Spec => []QueueTypeOK
BY QueueInitTyped, QueueStepTyped, PTL DEF Spec

-------------------------------------------------------------------------------
(* One holder *)

\* OneHolder, with the list as the set of its elements.
Apart ==
  /\ IsInjective(ready)
  /\ \A t \in task : t.of \notin ToSet(ready)
  /\ \A t, u \in task : t.of = u.of => t = u

LEMMA ApartIsOneHolder == QueueTypeOK => (OneHolder <=> Apart)
BY ContainsToSet DEF OneHolder, Apart, QueueTypeOK

\* A publisher pushes a text of its own, a task the text it gives up.
LEMMA PushKeepsApart ==
  ASSUME QueueTypeOK, Apart, NEW d \in Deliveries, LPush(d), d \notin ToSet(ready),
         task' \subseteq task, \A t \in task' : t.of # d
  PROVE  Apart'
<1>1. ~Contains(ready, d)
  BY ContainsToSet DEF QueueTypeOK
<1> QED BY <1>1, LPushed DEF Apart

LEMMA PopKeepsApart ==
  ASSUME QueueTypeOK, Apart, NEW d, Pop(d),
         NEW w, task' = task \/ task' = task \cup {[of |-> d, by |-> w, pc |-> "waiting"]}
  PROVE  Apart'
<1>1. /\ ToSet(ready') \subseteq ToSet(ready) /\ d \in ToSet(ready)
      /\ IsInjective(ready') /\ d \notin ToSet(ready')
  BY Popped DEF Apart
<1>2. \A t \in task : t.of # d
  BY <1>1 DEF Apart
<1> DEFINE new == [of |-> d, by |-> w, pc |-> "waiting"]
<1>3. new.of = d /\ (task' = task \/ task' = task \cup {new})
  OBVIOUS
<1> HIDE DEF new
<1>4. \A t \in task' : t.of \notin ToSet(ready')
  BY <1>1, <1>3 DEF Apart
<1>5. \A t, u \in task' : t.of = u.of => t = u
  BY <1>2, <1>3 DEF Apart
<1> QED BY <1>1, <1>4, <1>5 DEF Apart

LEMMA StepKeepsApart == QueueTypeOK /\ Apart /\ [Next]_vars => Apart'
<1> SUFFICES ASSUME QueueTypeOK, Apart, [Next]_vars PROVE Apart'
  OBVIOUS
<1>1. ASSUME UNCHANGED ready, task' \subseteq task PROVE Apart'
  BY <1>1 DEF Apart
<1>2. ASSUME NEW e \in Events, OutboxStep(e) PROVE Apart'
  BY <1>1, <1>2 DEF OutboxStep, Submit, SubmitAgain, BackoffElapses, DispatchGoesStale,
                    ClaimLapses, BuryEvent
<1>3. ASSUME NEW p \in Publishers, NEW e \in Events, PublishStep(p, e) PROVE Apart'
  <2>1. CASE Push(p, e)
    <3>1. PICK d \in Deliveries : LPush(d) /\ Unused(d)
      BY <2>1, UnusedChosen DEF Push
    <3>2. d \notin ToSet(ready) /\ \A t \in task : t.of # d
      BY <3>1, ContainsToSet DEF Unused, Held, QueueTypeOK
    <3>3. task' = task
      BY <2>1 DEF Push
    <3> QED BY <3>1, <3>2, <3>3, PushKeepsApart
  <2>2. CASE ~Push(p, e)
    BY <1>1, <1>3, <2>2 DEF PublishStep, Notify, NotifySome, MarkDispatched, QueueFull, StopPublishing
  <2> QED BY <2>1, <2>2
<1>4. ASSUME NEW w \in Workers, WorkerStep(w) PROVE Apart'
  <2>1. CASE TakeDelivery(w)
    <3>1. PICK d \in Deliveries : Pop(d) /\ task' = task \cup {[of |-> d, by |-> w, pc |-> "waiting"]}
      BY <2>1 DEF TakeDelivery
    <3> QED BY <3>1, PopKeepsApart
  <2>2. CASE LosePopped(w)
    <3>1. PICK d \in Deliveries : Pop(d) /\ task' = task
      BY <2>2 DEF LosePopped
    <3> QED BY <3>1, PopKeepsApart
  <2>3. CASE Subscribe(w) \/ FindEmpty(w) \/ WakeUp(w) \/ ListenTimesOut(w) \/ LoseConnection(w) \/ Crash(w)
    BY <1>1, <2>3 DEF Subscribe, FindEmpty, WakeUp, ListenTimesOut, LoseConnection, Crash
  <2> QED BY <1>4, <2>1, <2>2, <2>3 DEF WorkerStep
<1>5. ASSUME NEW t \in Task, TaskStep(t) PROVE Apart'
  <2>1. CASE ClaimDelivery(t)
    <3> DEFINE u == [t EXCEPT !.pc = "running"]
    <3>1. u.of = t.of /\ t \in task /\ task' = (task \ {t}) \cup {u} /\ ready' = ready
      BY <2>1 DEF ClaimDelivery, Begin, Task
    <3> HIDE DEF u
    <3> QED BY <3>1 DEF Apart
  <2>2. CASE ReturnDelivery(t)
    <3>1. /\ t \in task /\ LPush(t.of) /\ task' = task \ {t} /\ t.of \in Deliveries
      BY <2>2 DEF ReturnDelivery, Begin, Task
    <3>2. t.of \notin ToSet(ready) /\ \A u \in task' : u.of # t.of
      BY <3>1 DEF Apart
    <3> QED BY <3>1, <3>2, PushKeepsApart
  <2>3. CASE DropDelivery(t) \/ FinishAttempt(t) \/ AbandonTask(t)
    BY <1>1, <2>3 DEF DropDelivery, FinishAttempt, AbandonTask, Acknowledge
  <2> QED BY <1>5, <2>1, <2>2, <2>3 DEF TaskStep
<1>6. ASSUME RelayScan \/ UNCHANGED vars PROVE Apart'
  BY <1>1, <1>6 DEF RelayScan, vars
<1>7. ASSUME NEW w \in Workers, NEW d \in Deliveries, FinishReturn(w, d) PROVE Apart'
  BY <1>1, <1>7 DEF FinishReturn
<1>8. ASSUME NEW d \in Deliveries, ReapEntry(d) PROVE Apart'
  BY <1>1, <1>8 DEF ReapEntry
<1> QED BY <1>2, <1>3, <1>4, <1>5, <1>6, <1>7, <1>8 DEF Next

\* Redis hands a delivery to one task at a time, although publishers, requeues,
\* lost answers and restarts move it between the list and the workers.
THEOREM OneHolderCorrect == Spec => []OneHolder
<1>1. Init => Apart
  BY DEF Init, Apart, IsInjective, ToSet
<1>2. QueueTypeOK /\ Apart => OneHolder
  BY ApartIsOneHolder
<1> QED BY QueueInitTyped, QueueStepTyped, StepKeepsApart, <1>1, <1>2, PTL DEF Spec

-------------------------------------------------------------------------------
(* No worker sleeps on work *)

\* Nobody falls asleep, and what is new in the list is in quiet.
LEMMA AwakeStaysAwake ==
  ASSUME NoSleepOnWork, ToSet(ready') \subseteq ToSet(ready) \cup quiet', quiet \subseteq quiet',
         \A w \in Workers : worker'[w].pc = "listening" /\ ~worker'[w].mail =>
                              worker[w].pc = "listening" /\ ~worker[w].mail
  PROVE  NoSleepOnWork'
BY DEF NoSleepOnWork

LEMMA StepWakes == QueueTypeOK /\ NoSleepOnWork /\ [Next]_vars => NoSleepOnWork'
<1> SUFFICES ASSUME QueueTypeOK, NoSleepOnWork, [Next]_vars PROVE NoSleepOnWork'
  OBVIOUS
<1>1. ASSUME UNCHANGED <<ready, worker, quiet>> PROVE NoSleepOnWork'
  BY <1>1 DEF NoSleepOnWork
<1>2. ASSUME NEW e \in Events, OutboxStep(e) PROVE NoSleepOnWork'
  BY <1>1, <1>2 DEF OutboxStep, Submit, SubmitAgain, BackoffElapses, DispatchGoesStale,
                    ClaimLapses, BuryEvent
<1>3. ASSUME worker' = Notified(Workers) PROVE NoSleepOnWork'
  BY <1>3, NotifiedTyped DEF NoSleepOnWork
<1>4. ASSUME NEW p \in Publishers, NEW e \in Events, PublishStep(p, e) PROVE NoSleepOnWork'
  <2>1. CASE Push(p, e)
    <3>1. PICK d \in Deliveries : LPush(d)
      BY <2>1, UnusedChosen DEF Push
    <3>2. worker' = worker
      BY <2>1 DEF Push
    <3> QED BY <3>1, <3>2, LPushed, AwakeStaysAwake
  <2>2. CASE Notify(p, e)
    BY <1>3, <2>2 DEF Notify
  <2>3. CASE NotifySome(p, e)
    <3>1. PICK ws : worker' = Notified(ws)
      BY <2>3 DEF NotifySome
    <3>2. UNCHANGED <<ready, quiet>>
      BY <2>3 DEF NotifySome
    <3> QED BY <3>1, <3>2, NotifiedTyped, AwakeStaysAwake
  <2>4. CASE MarkDispatched(p, e) \/ QueueFull(p, e) \/ StopPublishing(p, e)
    BY <1>1, <2>4 DEF MarkDispatched, QueueFull, StopPublishing
  <2> QED BY <1>4, <2>1, <2>2, <2>3, <2>4 DEF PublishStep
<1>5. ASSUME NEW w \in Workers, WorkerStep(w) PROVE NoSleepOnWork'
  <2>1. quiet' = quiet
    BY <1>5 DEF WorkerStep, Subscribe, TakeDelivery, LosePopped, FindEmpty, WakeUp, ListenTimesOut,
                LoseConnection, Crash
  <2>2. CASE TakeDelivery(w) \/ LosePopped(w)
    <3>1. PICK d \in Deliveries : Pop(d)
      BY <2>2 DEF TakeDelivery, LosePopped
    <3>2. UNCHANGED worker \/ Unsubscribe(w)
      BY <2>2 DEF TakeDelivery, LosePopped
    <3>3. \A v \in Workers : worker'[v] = worker[v] \/ worker'[v].pc = "out"
      BY <3>2, WorkerTyped
    <3> QED BY <2>1, <3>1, <3>3, Popped, AwakeStaysAwake
  <2>3. CASE FindEmpty(w)
    <3>1. ready' = ready /\ ToSet(ready) = {}
      BY <2>3 DEF FindEmpty, ToSet
    <3> QED BY <3>1 DEF NoSleepOnWork
  <2>4. CASE Subscribe(w) \/ WakeUp(w) \/ ListenTimesOut(w) \/ LoseConnection(w) \/ Crash(w)
    <3>1. ready' = ready
      BY <2>4 DEF Subscribe, WakeUp, ListenTimesOut, LoseConnection, Crash
    <3>2. \A v \in Workers : worker'[v] = worker[v] \/ worker'[v].pc # "listening"
      <4>1. CASE Unsubscribe(w)
        BY <4>1, WorkerTyped
      <4>2. CASE Subscribe(w) \/ WakeUp(w)
        <5>1. worker'[w].pc = "checking" /\ \A v \in Workers \ {w} : worker'[v] = worker[v]
          <6>1. CASE Subscribe(w)
            BY <6>1, GotoArrives DEF Subscribe
          <6>2. CASE WakeUp(w)
            BY <6>2 DEF WakeUp, QueueTypeOK
          <6> QED BY <4>2, <6>1, <6>2
        <5> QED BY <5>1
      <4> QED BY <2>4, <4>1, <4>2 DEF ListenTimesOut, LoseConnection, Crash
    <3> QED BY <2>1, <3>1, <3>2, AwakeStaysAwake
  <2> QED BY <1>5, <2>2, <2>3, <2>4 DEF WorkerStep
<1>6. ASSUME NEW t \in Task, TaskStep(t) PROVE NoSleepOnWork'
  <2>1. CASE ReturnDelivery(t)
    <3>1. LPush(t.of) /\ t.of \in Deliveries /\ worker' = worker
      BY <2>1 DEF ReturnDelivery, Task
    <3> QED BY <3>1, LPushed, AwakeStaysAwake
  <2>2. CASE ~ReturnDelivery(t)
    BY <1>1, <1>6, <2>2 DEF TaskStep, ClaimDelivery, DropDelivery, FinishAttempt, AbandonTask
  <2> QED BY <2>1, <2>2
<1>7. ASSUME RelayScan \/ UNCHANGED vars PROVE NoSleepOnWork'
  BY <1>1, <1>7 DEF RelayScan, vars
<1>8. ASSUME NEW w \in Workers, NEW d \in Deliveries, FinishReturn(w, d) PROVE NoSleepOnWork'
  BY <1>3, <1>8 DEF FinishReturn
<1>9. ASSUME NEW d \in Deliveries, ReapEntry(d) PROVE NoSleepOnWork'
  BY <1>1, <1>9 DEF ReapEntry
<1> QED BY <1>2, <1>4, <1>5, <1>6, <1>7, <1>8, <1>9 DEF Next

\* A worker that sleeps on a subscription misses no delivery: dequeue_or_wait
\* subscribes before it checks the list, so a delivery pushed after its check is
\* still to be announced to it, or its announcement was lost on the way.
THEOREM NoWorkerSleepsOnWork == Spec => []NoSleepOnWork
<1>1. Init => NoSleepOnWork
  BY DEF Init, NoSleepOnWork, Outside
<1> QED BY QueueInitTyped, QueueStepTyped, StepWakes, <1>1, PTL DEF Spec
================================================================================
