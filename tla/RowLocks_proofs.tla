---------------------------- MODULE RowLocks_proofs ----------------------------
(***************************************************************************)
(* Theorems about AttemptRows and RowLocks, for any number of attempts:    *)
(* that a job has one outcome, where the waits of its transactions may     *)
(* close, and that interleaved lock by lock they do what AttemptRows says  *)
(* they do at once.                                                        *)
(***************************************************************************)
EXTENDS RowLocks, TLAPS

-------------------------------------------------------------------------------
(* The rows of a job, each transaction at once *)

USE AttemptRowsAssumption

LEMMA UnclaimedTyped ==
  ASSUME event \in EventRow, NEW st \in {"PENDING", "PROCESSED", "FAILED"}
  PROVE  /\ Unclaimed(st) \in EventRow
         /\ Unclaimed(st).status = st
         /\ Unclaimed(st).by = NoOwner
         /\ Unclaimed(st).live = FALSE
BY DEF Unclaimed, EventRow

\* Every transaction keeps them typed and lets them end together.
LEMMA OutcomeNext ==
  ASSUME OutcomeInv, [RowsNext]_rows
  PROVE  OutcomeInv'
<1> USE DEF OutcomeInv, RowsTypeOK, EndTogether, Working, Ended
<1>1. ASSUME NEW o \in Owners, Claim(o) PROVE OutcomeInv'
  BY <1>1 DEF Claim, EventRow
<1>2. ASSUME NEW o \in Owners, Acquire(o) PROVE OutcomeInv'
  BY <1>2 DEF Acquire, Owns
<1>3. ASSUME NEW o \in Owners, Finish(o) PROVE OutcomeInv'
  BY <1>3, UnclaimedTyped DEF Finish
<1>4. ASSUME NEW o \in Owners, GiveBack(o) PROVE OutcomeInv'
  BY <1>4, UnclaimedTyped DEF GiveBack
<1>5. ASSUME NEW o \in Owners, HandBack(o) PROVE OutcomeInv'
  BY <1>5, UnclaimedTyped DEF HandBack, Owns
<1>6. ASSUME NEW o \in Owners, Release(o) PROVE OutcomeInv'
  BY <1>6 DEF Release
<1>7. ASSUME NEW o \in Owners, Beat(o) PROVE OutcomeInv'
  <2> DEFINE running == event.status = "PROCESSING"
  <2>1. event' = [event EXCEPT !.live = running] /\ session' = session
    BY <1>7 DEF Beat
  <2>2. running \in BOOLEAN OBVIOUS
  <2>3. session \in Ended => ~running OBVIOUS
  <2>4. event' \in EventRow /\ event'.status = event.status /\ event'.by = event.by
        /\ event'.live = running
    <3> HIDE DEF running
    <3> QED BY <2>1, <2>2 DEF EventRow
  <2>5. lease' \in [Owners -> {"none", "live", "expired"}]
    BY <1>7 DEF Beat
  <2> QED BY <2>1, <2>3, <2>4, <2>5
<1>8. CASE Bury BY <1>8, UnclaimedTyped DEF Bury
<1>9. CASE Lapse
  <2>1. CASE event' = [event EXCEPT !.live = FALSE] /\ UNCHANGED <<session, lease>>
    BY <2>1 DEF EventRow
  <2>2. CASE UNCHANGED <<event, session>>
            /\ \E o \in Holders : lease' = [lease EXCEPT ![o] = "expired"]
    BY <2>2 DEF Holders
  <2> QED BY <1>9, <2>1, <2>2 DEF Lapse
<1>10. CASE UNCHANGED rows BY <1>10 DEF rows
<1> QED BY <1>1, <1>2, <1>3, <1>4, <1>5, <1>6, <1>7, <1>8, <1>9, <1>10 DEF RowsNext

\* At first they are typed and open.
LEMMA OutcomeInit == RowsInit => OutcomeInv
BY DEF RowsInit, OutcomeInv, RowsTypeOK, EndTogether, EventRow, Working, Ended

\* The rows of a job stay typed and end together.
THEOREM OutcomeInvariant == RowsSpec => []OutcomeInv
BY OutcomeInit, OutcomeNext, PTL DEF RowsSpec

\* However many attempts claim, lapse, return and retry: the first outcome of a
\* job is its only one.
THEOREM JobHasOneOutcome == RowsSpec => OneOutcome
<1>1. OutcomeInv /\ [RowsNext]_rows
      => [(session \in Ended) => session' = session /\ event' = event]_rows
  <2> SUFFICES ASSUME OutcomeInv, RowsNext, session \in Ended
               PROVE  session' = session /\ event' = event
    BY DEF rows
  <2> USE DEF OutcomeInv, RowsTypeOK, EndTogether, Working, Ended
  <2>1. /\ event.status \in {"PROCESSED", "FAILED"}
        /\ event.live = FALSE /\ event \in EventRow
    BY DEF EventRow
  <2>2. ASSUME NEW o \in Owners PROVE ~Owns(o) BY <2>1 DEF Owns
  <2>3. event = [event EXCEPT !.live = FALSE] BY <2>1 DEF EventRow
  <2>4. ASSUME NEW o \in Owners, Beat(o) PROVE event' = event /\ session' = session
    <3>1. (event.status = "PROCESSING") = FALSE BY <2>1
    <3> QED BY <2>3, <2>4, <3>1 DEF Beat
  <2>5. CASE Lapse BY <2>3, <2>5 DEF Lapse
  <2>6. ~Bury BY <2>1 DEF Bury
  <2>7. ASSUME NEW o \in Owners
        PROVE  ~Claim(o) /\ ~Acquire(o) /\ ~Finish(o) /\ ~GiveBack(o) /\ ~HandBack(o)
    BY <2>1, <2>2 DEF Claim, Acquire, Finish, GiveBack, HandBack
  <2>8. ASSUME NEW o \in Owners, Release(o) PROVE event' = event /\ session' = session
    BY <2>8 DEF Release
  <2> QED BY <2>4, <2>5, <2>6, <2>7, <2>8 DEF RowsNext
<1> QED BY <1>1, OutcomeInvariant, PTL DEF RowsSpec, OneOutcome

-------------------------------------------------------------------------------
(* The same transactions, lock by lock *)

USE RowLocksAssumption

\* Transactions are told apart by their owner and by their part in its attempt.
LEMMA Transactions ==
  /\ Reaper \in Txs /\ NoTx \notin Txs
  /\ \A o \in Owners : /\ Main(o) \in Txs /\ Main(o)[1] = o /\ Main(o)[2] = "main"
                       /\ Pulse(o) \in Txs /\ Pulse(o)[1] = o /\ Pulse(o)[2] = "beat"
                       /\ Reaper # Main(o) /\ Reaper # Pulse(o)
  /\ \A o, p \in Owners : /\ Main(o) # Pulse(p)
                          /\ Main(o) = Main(p) => o = p
                          /\ Pulse(o) = Pulse(p) => o = p
  /\ \A t \in Txs : t = Reaper \/ \E o \in Owners : t = Main(o) \/ t = Pulse(o)
BY DEF Txs, Main, Pulse

\* The rows of the job are not leases.
LEMMA RowNames ==
  /\ {"event", "session", "version"} \subseteq LockRows
  /\ \A o \in Owners : /\ o \in LockRows
                       /\ o # "event" /\ o # "session" /\ o # "version"
BY DEF LockRows

\* The rows that a transaction holds, and where it stands: the rows it has
\* still to lock, and those that it holds.
Held(t) == {r \in LockRows : lock[r] = t}
Stage(t, todo, held) == tx[t].todo = todo /\ Held(t) = held

Acquiring(t) ==
  \/ Stage(t, <<"session">>, {})
  \/ \E q \in Owners : Stage(t, <<q, "version">>, {"session"})
  \/ \E qs \in SUBSET Owners : \/ Stage(t, <<"version">>, {"session"} \cup qs)
                               \/ Stage(t, <<>>, {"session", "version"} \cup qs)

Persisting(t, o) ==
  \/ Stage(t, <<"event", "session", o, "version">>, {})
  \/ Stage(t, <<"session", o, "version">>, {"event"})
  \/ Stage(t, <<o, "version">>, {"event", "session"})
  \/ Stage(t, <<"version">>, {"event", "session", o})
  \/ Stage(t, <<>>, {"event", "session", o, "version"})

Returning(t, o) ==
  \/ Stage(t, <<"event", "session", "version", o>>, {})
  \/ Stage(t, <<"session", "version", o>>, {"event"})
  \/ Stage(t, <<"version", o>>, {"event", "session"})
  \/ Stage(t, <<o>>, {"event", "session", "version"})
  \/ Stage(t, <<>>, {"event", "session", "version", o})

One(t, r) == Stage(t, <<r>>, {}) \/ Stage(t, <<>>, {r})

MainStaged(o) ==
  LET t == Main(o)
  IN \/ Open(t, "none") /\ Stage(t, <<>>, {})
     \/ Open(t, "acquire") /\ Acquiring(t)
     \/ tx[t].kind \in {"result", "failure"} /\ Persisting(t, o)
     \/ Open(t, "retry") /\ Returning(t, o)
     \/ Open(t, "handBack") /\ One(t, "event")
     \/ Open(t, "release") /\ One(t, o)

PulseStaged(o) ==
  LET t == Pulse(o)
  IN \/ Open(t, "none") /\ Stage(t, <<>>, {})
     \/ Open(t, "beatLease") /\ One(t, o)
     \/ Open(t, "beat") /\ \/ Stage(t, <<"event">>, {o})
                           \/ Stage(t, <<>>, {"event", o})

ReaperStaged ==
  \/ Open(Reaper, "none") /\ Stage(Reaper, <<>>, {})
  \/ Open(Reaper, "bury") /\ \/ Stage(Reaper, <<"session">>, {"event"})
                             \/ Stage(Reaper, <<>>, {"event", "session"})

Staged == ReaperStaged /\ \A o \in Owners : MainStaged(o) /\ PulseStaged(o)

\* What holds a row that others wait for, heartbeats left out: a transaction with
\* a lease or the version that waits holds the session as well, and nobody that
\* waits for the event holds anything.
LEMMA MainOrder ==
  ASSUME Staged, NEW t \in Txs, tx[t].todo # <<>>,
         \A o \in Owners : t # Pulse(o)
  PROVE  LET r == Head(tx[t].todo)
         IN /\ r \in LockRows
            /\ r = "event" => Held(t) = {}
            /\ Held(t) \subseteq {"event"} \/ "session" \in Held(t)
<1>1. CASE t = Reaper
  <2>1. tx[t].todo = <<"session">> /\ Held(t) = {"event"}
    BY <1>1 DEF Staged, ReaperStaged, Stage
  <2>2. Head(<<"session">>) = "session" OBVIOUS
  <2> QED BY <2>1, <2>2, RowNames
<1>2. ASSUME NEW o \in Owners, t = Main(o)
      PROVE  LET r == Head(tx[t].todo)
             IN /\ r \in LockRows
                /\ r = "event" => Held(t) = {}
                /\ Held(t) \subseteq {"event"} \/ "session" \in Held(t)
  <2>1. MainStaged(o) BY DEF Staged
  <2>2. CASE Acquiring(t)
    BY <2>2, RowNames DEF Acquiring, Stage
  <2>3. CASE Persisting(t, o)
    BY <2>3, RowNames DEF Persisting, Stage
  <2>4. CASE Returning(t, o)
    BY <2>4, RowNames DEF Returning, Stage
  <2>5. CASE One(t, "event") \/ One(t, o)
    BY <2>5, RowNames DEF One, Stage
  <2> QED BY <1>2, <2>1, <2>2, <2>3, <2>4, <2>5 DEF MainStaged, Stage
<1> QED BY <1>1, <1>2, Transactions

\* So waits without a heartbeat cannot close: who waits for a lease or the
\* version would wait for one that holds the session too, who waits for the
\* session for such a one, and who waits for the event for one that holds it.
LEMMA OrderPreventsDeadlock ==
  ASSUME Staged PROVE OnlyHeartbeatsDeadlock
<1> SUFFICES ASSUME NEW ts \in SUBSET Txs, Deadlocked(ts),
                    \A o \in Owners : Pulse(o) \notin ts
             PROVE  FALSE
  BY DEF OnlyHeartbeatsDeadlock
<1>1. ASSUME NEW t \in ts
      PROVE  /\ tx[t].todo # <<>>
             /\ Head(tx[t].todo) \in LockRows
             /\ \E u \in ts : u # t /\ Head(tx[t].todo) \in Held(u)
  <2>1. PICK u \in ts : Waits(t, u) BY DEF Deadlocked
  <2>2. tx[t].todo # <<>> /\ lock[Head(tx[t].todo)] = u /\ u # t BY <2>1 DEF Waits
  <2>3. Head(tx[t].todo) \in LockRows BY <2>2, MainOrder
  <2> QED BY <2>2, <2>3 DEF Held
<1>2. ASSUME NEW t \in ts, "session" \in Held(t)
      PROVE  FALSE
  <2>1. Head(tx[t].todo) \in Owners \cup {"version"}
    <3>1. Head(tx[t].todo) # "event" BY <1>1, <1>2, MainOrder
    <3>2. Head(tx[t].todo) # "session" BY <1>1, <1>2 DEF Held
    <3> QED BY <1>1, <3>1, <3>2 DEF LockRows
  <2>2. PICK u \in ts : u # t /\ Head(tx[t].todo) \in Held(u) BY <1>1
  <2>3. "session" \in Held(u) BY <1>1, <2>1, <2>2, MainOrder, RowNames
  <2> QED BY <1>2, <2>2, <2>3 DEF Held
<1>3. ASSUME NEW t \in ts PROVE Head(tx[t].todo) = "event"
  <2>1. PICK u \in ts : u # t /\ Head(tx[t].todo) \in Held(u) BY <1>1
  <2>2. Held(u) \subseteq {"event"} BY <1>1, <1>2, MainOrder
  <2> QED BY <2>1, <2>2
<1>4. PICK t \in ts : TRUE BY DEF Deadlocked
<1>5. PICK u \in ts : "event" \in Held(u) BY <1>1, <1>3, <1>4
<1> QED BY <1>1, <1>3, <1>5, MainOrder
-----------------------------------------------------------------------------
(* Where transactions stand *)

\* Beside the transactions of the set, nothing moves.
Others(ts) == \A t \in Txs \ ts : tx'[t] = tx[t] /\ Held(t)' = Held(t)

\* The transactions that end stand at nothing and hold nothing.
LEMMA ClosedStage ==
  ASSUME LocksTypeOK, NEW ts \in SUBSET Txs, Close(ts)
  PROVE  /\ \A t \in ts : Open(t, "none")' /\ Stage(t, <<>>, {})'
         /\ Others(ts)
         /\ tx' \in [Txs -> [kind : Kinds, todo : Seq(LockRows)]]
         /\ lock' \in [LockRows -> Txs \cup {NoTx}]
<1>1. Idle \in [kind : Kinds, todo : Seq(LockRows)] /\ Idle.kind = "none" /\ Idle.todo = <<>>
  BY DEF Idle, Kinds
<1>2. \A t \in Txs : tx'[t] = IF t \in ts THEN Idle ELSE tx[t]
  BY DEF Close
<1>3. \A r \in LockRows : lock'[r] = IF lock[r] \in ts THEN NoTx ELSE lock[r]
  BY DEF Close
<1>4. ASSUME NEW t \in Txs
      PROVE  Held(t)' = IF t \in ts THEN {} ELSE Held(t)
  BY <1>3, Transactions DEF Held
<1>5. tx' \in [Txs -> [kind : Kinds, todo : Seq(LockRows)]]
  BY <1>1 DEF Close, LocksTypeOK
<1>6. lock' \in [LockRows -> Txs \cup {NoTx}]
  BY DEF Close, LocksTypeOK
<1> QED BY <1>1, <1>2, <1>4, <1>5, <1>6 DEF Open, Stage, Others

\* A transaction that begins stands before its rows.
LEMMA BegunStage ==
  ASSUME LocksTypeOK, NEW t \in Txs, NEW k \in Kinds, NEW todo \in Seq(LockRows),
         Begin(t, k, todo)
  PROVE  /\ tx'[t].kind = k /\ tx'[t].todo = todo
         /\ \A u \in Txs \ {t} : tx'[u] = tx[u]
         /\ tx' \in [Txs -> [kind : Kinds, todo : Seq(LockRows)]]
<1> DEFINE row == [kind |-> k, todo |-> todo]
<1>1. row \in [kind : Kinds, todo : Seq(LockRows)] /\ row.kind = k /\ row.todo = todo
  OBVIOUS
<1>2. tx' = [tx EXCEPT ![t] = row] BY DEF Begin
<1> HIDE DEF row
<1> QED BY <1>1, <1>2 DEF LocksTypeOK

\* A transaction that locks its next row holds that one too.
LEMMA LockedStage ==
  ASSUME LocksTypeOK, NEW t \in Txs, LockNext(t)
  PROVE  /\ tx[t].todo # <<>>
         /\ LET r == Head(tx[t].todo)
            IN /\ r \in LockRows /\ lock[r] = NoTx
               /\ Held(t)' = Held(t) \cup {r}
               /\ lock' = [lock EXCEPT ![r] = t]
         /\ tx'[t].kind = tx[t].kind /\ tx'[t].todo = Tail(tx[t].todo)
         /\ Others({t})
         /\ tx' \in [Txs -> [kind : Kinds, todo : Seq(LockRows)]]
         /\ lock' \in [LockRows -> Txs \cup {NoTx}]
<1>1. /\ tx[t] \in [kind : Kinds, todo : Seq(LockRows)]
      /\ tx[t].todo # <<>> /\ tx[t].todo \in Seq(LockRows)
  BY DEF LocksTypeOK, LockNext
<1>2. PICK r \in LockRows : r = Head(tx[t].todo)
  BY <1>1
<1>3. lock[r] = NoTx /\ lock' = [lock EXCEPT ![r] = t]
  BY <1>2 DEF LockNext, Free
<1> DEFINE row == [tx[t] EXCEPT !.todo = Tail(tx[t].todo)]
<1>4. Tail(tx[t].todo) \in Seq(LockRows) BY <1>1
<1>5. /\ row \in [kind : Kinds, todo : Seq(LockRows)]
      /\ row.kind = tx[t].kind /\ row.todo = Tail(tx[t].todo)
  BY <1>1, <1>4
<1>6. tx' = [tx EXCEPT ![t] = row] BY DEF LockNext
<1> HIDE DEF row
<1>7. \A u \in Txs : tx'[u] = IF u = t THEN row ELSE tx[u]
  BY <1>6 DEF LocksTypeOK
<1>8. tx' \in [Txs -> [kind : Kinds, todo : Seq(LockRows)]]
  BY <1>5, <1>6 DEF LocksTypeOK
<1>9. lock' \in [LockRows -> Txs \cup {NoTx}] /\ \A q \in LockRows :
        lock'[q] = IF q = r THEN t ELSE lock[q]
  BY <1>3 DEF LocksTypeOK
<1>10. ASSUME NEW u \in Txs
       PROVE  Held(u)' = IF u = t THEN Held(u) \cup {r} ELSE Held(u)
  BY <1>3, <1>9, Transactions DEF Held
<1> QED BY <1>1, <1>2, <1>3, <1>5, <1>7, <1>8, <1>9, <1>10 DEF Others

\* A transaction that has not moved stands where it stood.
LEMMA StaysStaged ==
  ASSUME Staged, NEW ts \in SUBSET Txs, Others(ts),
         \A o \in Owners : /\ Main(o) \in ts => MainStaged(o)'
                           /\ Pulse(o) \in ts => PulseStaged(o)',
         Reaper \in ts => ReaperStaged'
  PROVE  Staged'
<1>1. ASSUME NEW t \in Txs \ ts
      PROVE  /\ \A todo, held : Stage(t, todo, held)' <=> Stage(t, todo, held)
             /\ \A k : Open(t, k)' <=> Open(t, k)
             /\ tx'[t].kind = tx[t].kind
  BY <1>1 DEF Others, Stage, Open
<1>2. ASSUME NEW o \in Owners, Main(o) \notin ts PROVE MainStaged(o)'
  <2> DEFINE t == Main(o)
  <2>1. t \in Txs \ ts BY <1>2, Transactions
  <2>2. MainStaged(o) BY DEF Staged
  <2>3. Acquiring(t) => Acquiring(t)' BY <1>1, <2>1 DEF Acquiring
  <2>4. Persisting(t, o) => Persisting(t, o)' BY <1>1, <2>1 DEF Persisting
  <2>5. Returning(t, o) => Returning(t, o)' BY <1>1, <2>1 DEF Returning
  <2>6. /\ One(t, "event") => One(t, "event")'
        /\ One(t, o) => One(t, o)'
    BY <1>1, <2>1 DEF One
  <2>7. /\ tx'[t].kind = tx[t].kind
        /\ Stage(t, <<>>, {}) => Stage(t, <<>>, {})'
    BY <1>1, <2>1
  <2> QED BY <2>2, <2>3, <2>4, <2>5, <2>6, <2>7 DEF MainStaged, Open
<1>3. ASSUME NEW o \in Owners, Pulse(o) \notin ts PROVE PulseStaged(o)'
  <2>1. Pulse(o) \in Txs \ ts BY <1>3, Transactions
  <2>2. PulseStaged(o) BY DEF Staged
  <2> QED BY <1>1, <2>1, <2>2 DEF PulseStaged, One
<1>4. ASSUME Reaper \notin ts PROVE ReaperStaged'
  <2>1. Reaper \in Txs \ ts BY <1>4, Transactions
  <2> QED BY <1>1, <2>1 DEF Staged, ReaperStaged
<1> QED BY <1>2, <1>3, <1>4 DEF Staged

\* What a transaction locks next puts it at its next stage.
LEMMA LocksStaged ==
  ASSUME LocksTypeOK, Staged, NEW t \in Txs, LockNext(t)
  PROVE  Staged'
<1>1. /\ tx[t].todo # <<>> /\ Held(t)' = Held(t) \cup {Head(tx[t].todo)}
      /\ tx'[t].kind = tx[t].kind /\ tx'[t].todo = Tail(tx[t].todo)
      /\ Others({t})
  BY LockedStage
<1>n. ~Stage(t, <<>>, {}) BY <1>1 DEF Stage
<1>r. ASSUME NEW r, One(t, r) PROVE One(t, r)'
  <2>1. Stage(t, <<r>>, {}) BY <1>r, <1>1 DEF One, Stage
  <2>2. Head(<<r>>) = r /\ Tail(<<r>>) = <<>> OBVIOUS
  <2>3. {} \cup {r} = {r} OBVIOUS
  <2>4. Stage(t, <<>>, {r})' BY <1>1, <2>1, <2>2, <2>3 DEF Stage
  <2> QED BY <2>4 DEF One
<1>3. ASSUME NEW o \in Owners, t = Main(o) PROVE MainStaged(o)'
  <2>1. MainStaged(o) BY DEF Staged
  <2>2. CASE Open(t, "acquire") /\ Acquiring(t)
    <3>1. tx[t].todo # <<"session">>
      <4>1. Head(<<"session">>) = "session" OBVIOUS
      <4> QED BY <2>2, <4>1 DEF LockNext
    <3>2. ASSUME NEW q \in Owners, Stage(t, <<q, "version">>, {"session"})
          PROVE  Acquiring(t)'
      <4>1. Head(<<q, "version">>) = q /\ Tail(<<q, "version">>) = <<"version">> OBVIOUS
      <4>2. Stage(t, <<"version">>, {"session"} \cup {q})' BY <1>1, <3>2, <4>1 DEF Stage
      <4> QED BY <4>2 DEF Acquiring
    <3>3. ASSUME NEW qs \in SUBSET Owners, Stage(t, <<"version">>, {"session"} \cup qs)
          PROVE  Acquiring(t)'
      <4>0. Head(<<"version">>) = "version" /\ Tail(<<"version">>) = <<>> OBVIOUS
      <4>1. Stage(t, <<>>, ({"session"} \cup qs) \cup {"version"})'
        BY <1>1, <3>3, <4>0 DEF Stage
      <4>2. ({"session"} \cup qs) \cup {"version"} = {"session", "version"} \cup qs
        OBVIOUS
      <4> QED BY <4>1, <4>2 DEF Acquiring
    <3>4. Acquiring(t)' BY <1>1, <2>2, <3>1, <3>2, <3>3 DEF Acquiring, Stage
    <3> QED BY <1>1, <1>3, <2>2, <3>4 DEF MainStaged, Open
  <2>3. CASE tx[t].kind \in {"result", "failure"} /\ Persisting(t, o)
    <3>1. ASSUME Stage(t, <<"event", "session", o, "version">>, {})
          PROVE  Stage(t, <<"session", o, "version">>, {"event"})'
      <4>1. {} \cup {"event"} = {"event"} OBVIOUS
      <4>2. Head(<<"event", "session", o, "version">>) = "event" /\ Tail(<<"event", "session", o, "version">>) = <<"session", o, "version">>
        OBVIOUS
      <4> QED BY <1>1, <3>1, <4>1, <4>2 DEF Stage
    <3>2. ASSUME Stage(t, <<"session", o, "version">>, {"event"})
          PROVE  Stage(t, <<o, "version">>, {"event", "session"})'
      <4>1. {"event"} \cup {"session"} = {"event", "session"} OBVIOUS
      <4>2. Head(<<"session", o, "version">>) = "session" /\ Tail(<<"session", o, "version">>) = <<o, "version">>
        OBVIOUS
      <4> QED BY <1>1, <3>2, <4>1, <4>2 DEF Stage
    <3>3. ASSUME Stage(t, <<o, "version">>, {"event", "session"})
          PROVE  Stage(t, <<"version">>, {"event", "session", o})'
      <4>1. {"event", "session"} \cup {o} = {"event", "session", o} OBVIOUS
      <4>2. Head(<<o, "version">>) = o /\ Tail(<<o, "version">>) = <<"version">>
        OBVIOUS
      <4> QED BY <1>1, <3>3, <4>1, <4>2 DEF Stage
    <3>4. ASSUME Stage(t, <<"version">>, {"event", "session", o})
          PROVE  Stage(t, <<>>, {"event", "session", o, "version"})'
      <4>1. {"event", "session", o} \cup {"version"} = {"event", "session", o, "version"} OBVIOUS
      <4>2. Head(<<"version">>) = "version" /\ Tail(<<"version">>) = <<>>
        OBVIOUS
      <4> QED BY <1>1, <3>4, <4>1, <4>2 DEF Stage
    <3>5. Persisting(t, o)' BY <1>1, <2>3, <3>1, <3>2, <3>3, <3>4 DEF Persisting, Stage
    <3> QED BY <1>1, <1>3, <2>3, <3>5 DEF MainStaged
  <2>4. CASE Open(t, "retry") /\ Returning(t, o)
    <3>1. ASSUME Stage(t, <<"event", "session", "version", o>>, {})
          PROVE  Stage(t, <<"session", "version", o>>, {"event"})'
      <4>1. {} \cup {"event"} = {"event"} OBVIOUS
      <4>2. Head(<<"event", "session", "version", o>>) = "event" /\ Tail(<<"event", "session", "version", o>>) = <<"session", "version", o>>
        OBVIOUS
      <4> QED BY <1>1, <3>1, <4>1, <4>2 DEF Stage
    <3>2. ASSUME Stage(t, <<"session", "version", o>>, {"event"})
          PROVE  Stage(t, <<"version", o>>, {"event", "session"})'
      <4>1. {"event"} \cup {"session"} = {"event", "session"} OBVIOUS
      <4>2. Head(<<"session", "version", o>>) = "session" /\ Tail(<<"session", "version", o>>) = <<"version", o>>
        OBVIOUS
      <4> QED BY <1>1, <3>2, <4>1, <4>2 DEF Stage
    <3>3. ASSUME Stage(t, <<"version", o>>, {"event", "session"})
          PROVE  Stage(t, <<o>>, {"event", "session", "version"})'
      <4>1. {"event", "session"} \cup {"version"} = {"event", "session", "version"} OBVIOUS
      <4>2. Head(<<"version", o>>) = "version" /\ Tail(<<"version", o>>) = <<o>>
        OBVIOUS
      <4> QED BY <1>1, <3>3, <4>1, <4>2 DEF Stage
    <3>4. ASSUME Stage(t, <<o>>, {"event", "session", "version"})
          PROVE  Stage(t, <<>>, {"event", "session", "version", o})'
      <4>1. {"event", "session", "version"} \cup {o} = {"event", "session", "version", o} OBVIOUS
      <4>2. Head(<<o>>) = o /\ Tail(<<o>>) = <<>>
        OBVIOUS
      <4> QED BY <1>1, <3>4, <4>1, <4>2 DEF Stage
    <3>5. Returning(t, o)' BY <1>1, <2>4, <3>1, <3>2, <3>3, <3>4 DEF Returning, Stage
    <3> QED BY <1>1, <1>3, <2>4, <3>5 DEF MainStaged, Open
  <2>5. CASE Open(t, "handBack") /\ One(t, "event")
    BY <1>1, <1>3, <1>r, <2>5 DEF MainStaged, Open
  <2>6. CASE Open(t, "release") /\ One(t, o)
    BY <1>1, <1>3, <1>r, <2>6 DEF MainStaged, Open
  <2> QED BY <1>n, <1>3, <2>1, <2>2, <2>3, <2>4, <2>5, <2>6 DEF MainStaged
<1>4. ASSUME NEW o \in Owners, t = Pulse(o) PROVE PulseStaged(o)'
  <2>1. PulseStaged(o) BY DEF Staged
  <2>2. CASE Open(t, "beatLease") /\ One(t, o)
    BY <1>1, <1>4, <1>r, <2>2 DEF PulseStaged, Open
  <2>3. CASE Open(t, "beat") /\ Stage(t, <<"event">>, {o})
    <3>1. {o} \cup {"event"} = {"event", o} OBVIOUS
    <3>0. Head(<<"event">>) = "event" /\ Tail(<<"event">>) = <<>> OBVIOUS
    <3>2. Stage(t, <<>>, {"event", o})' BY <1>1, <2>3, <3>0, <3>1 DEF Stage
    <3> QED BY <1>1, <1>4, <2>3, <3>2 DEF PulseStaged, Open
  <2> QED BY <1>1, <1>n, <1>4, <2>1, <2>2, <2>3 DEF PulseStaged, Stage
<1>5. CASE t = Reaper
  <2>1. Open(t, "bury") /\ Stage(t, <<"session">>, {"event"})
    BY <1>1, <1>5 DEF Staged, ReaperStaged, Stage
  <2>2. {"event"} \cup {"session"} = {"event", "session"} OBVIOUS
  <2>0. Head(<<"session">>) = "session" /\ Tail(<<"session">>) = <<>> OBVIOUS
  <2>3. Stage(t, <<>>, {"event", "session"})' BY <1>1, <2>0, <2>1, <2>2 DEF Stage
  <2>4. ReaperStaged' BY <1>1, <1>5, <2>1, <2>3 DEF ReaperStaged, Open
  <2> QED BY <1>1, <1>5, <2>4, StaysStaged, Transactions
<1> QED BY <1>1, <1>3, <1>4, <1>5, StaysStaged, Transactions

\* What a transaction locks first puts it at its first stage.
LEMMA BegunStaged ==
  ASSUME LocksTypeOK, Staged, NEW t \in Txs, NEW k \in Kinds, NEW todo \in Seq(LockRows),
         Begin(t, k, todo), lock' = lock
  PROVE  /\ Others({t}) /\ Open(t, k)' /\ Stage(t, todo, {})'
         /\ tx' \in [Txs -> [kind : Kinds, todo : Seq(LockRows)]]
<1>1. /\ tx'[t].kind = k /\ tx'[t].todo = todo
      /\ \A u \in Txs \ {t} : tx'[u] = tx[u]
      /\ tx' \in [Txs -> [kind : Kinds, todo : Seq(LockRows)]]
  BY BegunStage
<1>2. Held(t) = {}
  <2>1. Open(t, "none") BY DEF Begin
  <2>2. CASE t = Reaper BY <2>1, <2>2 DEF Staged, ReaperStaged, Open, Stage
  <2>3. ASSUME NEW o \in Owners, t = Main(o) PROVE Held(t) = {}
    BY <2>1, <2>3 DEF Staged, MainStaged, Open, Stage
  <2>4. ASSUME NEW o \in Owners, t = Pulse(o) PROVE Held(t) = {}
    BY <2>1, <2>4 DEF Staged, PulseStaged, Open, Stage
  <2> QED BY <2>2, <2>3, <2>4, Transactions
<1>3. \A u : Held(u)' = Held(u) BY DEF Held
<1> QED BY <1>1, <1>2, <1>3 DEF Others, Open, Stage

\* The transactions of one attempt move.
LEMMA AttemptMoves ==
  ASSUME Staged, NEW o \in Owners, NEW ts \in SUBSET {Main(o), Pulse(o)}, Others(ts),
         Main(o) \in ts => MainStaged(o)',
         Pulse(o) \in ts => PulseStaged(o)'
  PROVE  Staged'
<1>1. ts \in SUBSET Txs BY Transactions
<1>2. ASSUME NEW p \in Owners
      PROVE  /\ Main(p) \in ts => MainStaged(p)'
             /\ Pulse(p) \in ts => PulseStaged(p)'
  <2>1. (Main(p) \in ts \/ Pulse(p) \in ts) => p = o
    BY Transactions
  <2>2. p = o => (MainStaged(p)' <=> MainStaged(o)') /\ (PulseStaged(p)' <=> PulseStaged(o)')
    OBVIOUS
  <2> QED BY <2>1, <2>2
<1>3. Reaper \notin ts BY Transactions
<1> QED BY <1>1, <1>2, <1>3, StaysStaged

\* Each step takes the transactions it is about to a stage.  The reaper finds the
\* session of an event in work not ended.
LEMMA StagedNext ==
  ASSUME LocksTypeOK, OutcomeInv, Staged, [Next]_vars
  PROVE  /\ Staged'
         /\ tx' \in [Txs -> [kind : Kinds, todo : Seq(LockRows)]]
         /\ lock' \in [LockRows -> Txs \cup {NoTx}]
<1> DEFINE Good == /\ Staged'
                   /\ tx' \in [Txs -> [kind : Kinds, todo : Seq(LockRows)]]
                   /\ lock' \in [LockRows -> Txs \cup {NoTx}]
<1>t. /\ tx \in [Txs -> [kind : Kinds, todo : Seq(LockRows)]]
      /\ lock \in [LockRows -> Txs \cup {NoTx}]
  BY DEF LocksTypeOK
<1>0. ASSUME tx' = tx, lock' = lock PROVE Good
  <2>1. Others({}) BY <1>0 DEF Others, Held
  <2> QED BY <1>0, <1>t, <2>1, StaysStaged
<1>c. ASSUME NEW ts \in SUBSET Txs, Close(ts) PROVE Good
  <2>1. /\ \A t \in ts : Open(t, "none")' /\ Stage(t, <<>>, {})'
        /\ Others(ts)
        /\ tx' \in [Txs -> [kind : Kinds, todo : Seq(LockRows)]]
        /\ lock' \in [LockRows -> Txs \cup {NoTx}]
    BY <1>c, ClosedStage
  <2>2. ASSUME NEW o \in Owners
        PROVE  /\ Main(o) \in ts => MainStaged(o)'
               /\ Pulse(o) \in ts => PulseStaged(o)'
    BY <2>1 DEF MainStaged, PulseStaged
  <2>3. Reaper \in ts => ReaperStaged' BY <2>1 DEF ReaperStaged
  <2> QED BY <2>1, <2>2, <2>3, StaysStaged
<1>m. ASSUME NEW o \in Owners, NEW k \in Kinds, NEW todo \in Seq(LockRows),
             Begin(Main(o), k, todo), lock' = lock,
             \/ k = "acquire" /\ todo = <<"session">>
             \/ k = "handBack" /\ todo = <<"event">>
             \/ k \in {"result", "failure"} /\ todo = PersistOrder(o)
             \/ k = "retry" /\ todo = RetryOrder(o)
      PROVE  Good
  <2>1. Main(o) \in Txs BY Transactions
  <2>2. Open(Main(o), k)' /\ Stage(Main(o), todo, {})' BY <1>m, <2>1, BegunStaged
  <2>3. MainStaged(o)'
    BY <1>m, <2>2 DEF MainStaged, Acquiring, One, Persisting, Returning, PersistOrder,
                      RetryOrder, Open
  <2>4. /\ Others({Main(o)})
        /\ tx' \in [Txs -> [kind : Kinds, todo : Seq(LockRows)]]
    BY <1>m, <2>1, BegunStaged
  <2>5. {Main(o)} \in SUBSET {Main(o), Pulse(o)} /\ Pulse(o) \notin {Main(o)}
    BY Transactions
  <2>6. Staged' BY <2>3, <2>4, <2>5, AttemptMoves
  <2> QED BY <1>m, <1>t, <2>4, <2>6
<1>k. {"acquire", "handBack", "result", "failure", "retry", "release", "beatLease",
       "beat", "bury"} \subseteq Kinds
  BY DEF Kinds
<1>1. ASSUME NEW o \in Owners, ClaimEvent(o) \/ ExpireClaim(o) \/ ExpireLease(o) PROVE Good
  BY <1>0, <1>1 DEF ClaimEvent, ExpireClaim, ExpireLease
<1>2. ASSUME NEW o \in Owners, ReadSession(o) PROVE Good
  <2>1. <<"session">> \in Seq(LockRows) BY RowNames
  <2> QED BY <1>2, <1>m, <1>k, <2>1 DEF ReadSession
<1>3. ASSUME NEW o \in Owners, LockSession(o) PROVE Good
  <2> DEFINE t == Main(o)
  <2>1. t \in Txs /\ "session" \in LockRows BY Transactions, RowNames
  <2>2. PICK todo \in {<<q, "version">> : q \in Owners} \cup {<<"version">>} :
          tx' = [tx EXCEPT ![t].todo = todo]
    <3>1. PICK todo \in {<<q, "version">> : q \in Holders} \cup {<<"version">>} :
            tx' = [tx EXCEPT ![t].todo = todo]
      BY <1>3 DEF LockSession
    <3>2. Holders \subseteq Owners BY DEF Holders
    <3> QED BY <3>1, <3>2
  <2>3. lock' = [lock EXCEPT !["session"] = t] /\ lock["session"] = NoTx
    BY <1>3 DEF LockSession, Free
  <2>4. todo \in Seq(LockRows)
    <3>1. CASE todo = <<"version">> BY <3>1, RowNames
    <3>2. ASSUME NEW q \in Owners, todo = <<q, "version">> PROVE todo \in Seq(LockRows)
      <4>1. q \in LockRows /\ "version" \in LockRows BY RowNames
      <4> QED BY <3>2, <4>1
    <3> QED BY <3>1, <3>2
  <2>5. Open(t, "acquire") /\ Stage(t, <<"session">>, {})
    <3>1. MainStaged(o) BY DEF Staged
    <3>2. Open(t, "acquire") /\ tx[t].todo # <<>> /\ Head(tx[t].todo) = "session"
      BY <1>3 DEF LockSession, At
    <3>3. Acquiring(t) BY <3>1, <3>2 DEF MainStaged, Open
    <3>4. ASSUME NEW q \in Owners PROVE Head(<<q, "version">>) # "session"
      BY RowNames
    <3>5. Head(<<"version">>) # "session" OBVIOUS
    <3> QED BY <3>2, <3>3, <3>4, <3>5 DEF Acquiring, Stage
  <2> DEFINE row == [tx[t] EXCEPT !.todo = todo]
  <2>6. /\ row \in [kind : Kinds, todo : Seq(LockRows)]
        /\ row.kind = tx[t].kind /\ row.todo = todo
    BY <1>t, <2>1, <2>4
  <2>7. tx' = [tx EXCEPT ![t] = row] BY <2>2
  <2> HIDE DEF row
  <2>8. \A u \in Txs : /\ tx'[u] = IF u = t THEN row ELSE tx[u]
                       /\ Held(u)' = IF u = t THEN Held(u) \cup {"session"} ELSE Held(u)
    <3>1. \A r \in LockRows : lock'[r] = IF r = "session" THEN t ELSE lock[r]
      BY <1>t, <2>3
    <3> QED BY <1>t, <2>1, <2>3, <2>7, <3>1, Transactions DEF Held
  <2>9. Held(t)' = {"session"} BY <2>1, <2>5, <2>8 DEF Stage
  <2>10. Stage(t, todo, {"session"})' BY <2>1, <2>6, <2>8, <2>9 DEF Stage
  <2>11. Acquiring(t)'
    <3>1. CASE \E q \in Owners : todo = <<q, "version">>
      BY <2>10, <3>1 DEF Acquiring
    <3>2. CASE todo = <<"version">>
      <4>1. {"session"} = {"session"} \cup {} OBVIOUS
      <4>2. {} \in SUBSET Owners OBVIOUS
      <4>3. Stage(t, <<"version">>, {"session"} \cup {})'
        BY <2>10, <3>2, <4>1 DEF Stage
      <4> QED BY <4>2, <4>3 DEF Acquiring
    <3> QED BY <3>1, <3>2
  <2>12. MainStaged(o)' BY <2>1, <2>5, <2>6, <2>8, <2>11 DEF MainStaged, Open
  <2>13. Others({t}) BY <2>8 DEF Others
  <2>14. tx' \in [Txs -> [kind : Kinds, todo : Seq(LockRows)]]
    BY <1>t, <2>6, <2>7
  <2>15. lock' \in [LockRows -> Txs \cup {NoTx}]
    BY <1>t, <2>1, <2>3
  <2>16. Staged'
    <3>1. {t} \in SUBSET {t, Pulse(o)} /\ Pulse(o) \notin {t} BY Transactions
    <3> QED BY <2>12, <2>13, <3>1, AttemptMoves
  <2> QED BY <2>14, <2>15, <2>16
<1>4. ASSUME NEW o \in Owners,
             \/ RefuseLease(o) \/ AcquireRaises(o) \/ CommitAcquire(o) \/ CommitHandBack(o)
             \/ LoseOwnership(o) \/ RetriesUsedUp(o) \/ CommitResult(o) \/ CommitRetry(o)
             \/ CommitRelease(o)
      PROVE  Good
  <2>1. Close({Main(o)})
    BY <1>4 DEF RefuseLease, AcquireRaises, CommitAcquire, CommitHandBack, LoseOwnership,
                RetriesUsedUp, CommitResult, CommitRetry, CommitRelease
  <2>2. {Main(o)} \in SUBSET Txs BY Transactions
  <2> QED BY <1>c, <2>1, <2>2
<1>5. ASSUME NEW o \in Owners, StartHandBack(o) PROVE Good
  <2>1. <<"event">> \in Seq(LockRows) BY RowNames
  <2> QED BY <1>5, <1>m, <1>k, <2>1 DEF StartHandBack
<1>6. ASSUME NEW o \in Owners, StartResult(o) \/ StartFailure(o) PROVE Good
  <2>1. PersistOrder(o) \in Seq(LockRows) /\ RetryOrder(o) \in Seq(LockRows)
    BY RowNames DEF PersistOrder, RetryOrder
  <2> QED BY <1>6, <1>m, <1>k, <2>1 DEF StartResult, StartFailure
<1>7. ASSUME NEW o \in Owners, StartRelease(o) PROVE Good
  <2> DEFINE t == Main(o)
             p == Pulse(o)
  <2>1. t \in Txs /\ p \in Txs /\ t # p /\ o \in LockRows BY Transactions, RowNames
  <2>2. /\ Open(t, "none")
        /\ lock' = [r \in LockRows |-> IF lock[r] = p THEN NoTx ELSE lock[r]]
    BY <1>7 DEF StartRelease
  <2>3. /\ Idle \in [kind : Kinds, todo : Seq(LockRows)]
        /\ Idle.kind = "none" /\ Idle.todo = <<>>
    BY DEF Idle, Kinds
  <2> DEFINE rel == [kind |-> "release", todo |-> <<o>>]
  <2>4. /\ rel \in [kind : Kinds, todo : Seq(LockRows)]
        /\ rel.kind = "release" /\ rel.todo = <<o>>
    BY <1>k, <2>1
  <2>5. PICK row \in {rel, tx[t]} : tx' = [tx EXCEPT ![p] = Idle, ![t] = row]
    <3>1. CASE o \in Holders BY <1>7, <3>1 DEF StartRelease
    <3>2. CASE o \notin Holders
      <4>1. tx' = [tx EXCEPT ![p] = Idle] BY <1>7, <3>2 DEF StartRelease
      <4>2. tx' = [tx EXCEPT ![p] = Idle, ![t] = tx[t]] BY <1>t, <2>1, <4>1
      <4> QED BY <4>2
    <3> QED BY <3>1, <3>2
  <2> HIDE DEF rel
  <2>6. row \in [kind : Kinds, todo : Seq(LockRows)]
    BY <1>t, <2>1, <2>4
  <2>7. \A u \in Txs : /\ tx'[u] = IF u = t THEN row ELSE IF u = p THEN Idle ELSE tx[u]
                       /\ Held(u)' = IF u = p THEN {} ELSE Held(u)
    <3>1. \A r \in LockRows : lock'[r] = IF lock[r] = p THEN NoTx ELSE lock[r]
      BY <2>2
    <3> QED BY <1>t, <2>1, <2>5, <3>1, Transactions DEF Held
  <2>8. MainStaged(o) /\ Stage(t, <<>>, {})
    BY <2>2 DEF Staged, MainStaged, Open
  <2>9. MainStaged(o)'
    BY <2>1, <2>2, <2>4, <2>5, <2>7, <2>8 DEF MainStaged, Open, One, Stage
  <2>10. PulseStaged(o)' BY <2>1, <2>3, <2>7 DEF PulseStaged, Open, Stage
  <2>11. Others({t, p}) BY <2>7 DEF Others
  <2>12. tx' \in [Txs -> [kind : Kinds, todo : Seq(LockRows)]]
    BY <1>t, <2>1, <2>3, <2>5, <2>6
  <2>13. lock' \in [LockRows -> Txs \cup {NoTx}] BY <1>t, <2>2
  <2>14. Staged' BY <2>9, <2>10, <2>11, AttemptMoves
  <2> QED BY <2>12, <2>13, <2>14
<1>8. ASSUME NEW o \in Owners, Crash(o) PROVE Good
  <2>1. {Main(o), Pulse(o)} \in SUBSET Txs BY Transactions
  <2> QED BY <1>8, <1>c, <2>1 DEF Crash
<1>9. ASSUME NEW o \in Owners, StartBeat(o) PROVE Good
  <2>1. <<o>> \in Seq(LockRows) /\ Pulse(o) \in Txs BY RowNames, Transactions
  <2>2. Begin(Pulse(o), "beatLease", <<o>>) /\ lock' = lock BY <1>9 DEF StartBeat
  <2>3. Open(Pulse(o), "beatLease")' /\ Stage(Pulse(o), <<o>>, {})'
    BY <1>k, <2>1, <2>2, BegunStaged
  <2>4. PulseStaged(o)' BY <2>3 DEF PulseStaged, One
  <2>5. /\ Others({Pulse(o)})
        /\ tx' \in [Txs -> [kind : Kinds, todo : Seq(LockRows)]]
    BY <1>k, <2>1, <2>2, BegunStaged
  <2>6. {Pulse(o)} \in SUBSET {Main(o), Pulse(o)} /\ Main(o) \notin {Pulse(o)}
    BY Transactions
  <2>7. Staged' BY <2>4, <2>5, <2>6, AttemptMoves
  <2> QED BY <1>t, <2>2, <2>5, <2>7
<1>10. ASSUME NEW o \in Owners, BeatEvent(o) PROVE Good
  <2> DEFINE p == Pulse(o)
  <2>1. p \in Txs /\ "event" \in LockRows BY Transactions, RowNames
  <2>2. CASE Close({p}) BY <1>c, <2>1, <2>2
  <2>3. CASE lock' = lock /\ tx' = [tx EXCEPT ![p] = [kind |-> "beat", todo |-> <<"event">>]]
    <3> DEFINE row == [kind |-> "beat", todo |-> <<"event">>]
    <3>1. /\ row \in [kind : Kinds, todo : Seq(LockRows)]
          /\ row.kind = "beat" /\ row.todo = <<"event">>
      BY <1>k, <2>1
    <3>2. tx' = [tx EXCEPT ![p] = row] BY <2>3
    <3> HIDE DEF row
    <3>3. Stage(p, <<>>, {o})
      <4>1. Open(p, "beatLease") /\ tx[p].todo = <<>> BY <1>10 DEF BeatEvent, Ready
      <4> QED BY <4>1 DEF Staged, PulseStaged, Open, One, Stage
    <3>4. PulseStaged(o)' BY <1>t, <2>1, <2>3, <3>1, <3>2, <3>3 DEF PulseStaged, Open, Stage, Held
    <3>5. Others({p}) BY <1>t, <2>3, <3>2 DEF Others, Held
    <3>6. tx' \in [Txs -> [kind : Kinds, todo : Seq(LockRows)]] BY <1>t, <3>1, <3>2
    <3>7. Staged'
      <4>1. {p} \in SUBSET {Main(o), p} /\ Main(o) \notin {p} BY Transactions
      <4> QED BY <3>4, <3>5, <4>1, AttemptMoves
    <3> QED BY <1>t, <2>3, <3>6, <3>7
  <2> QED BY <1>10, <2>2, <2>3 DEF BeatEvent
<1>11. ASSUME NEW o \in Owners, CommitBeat(o) PROVE Good
  <2>1. {Pulse(o)} \in SUBSET Txs BY Transactions
  <2> QED BY <1>11, <1>c, <2>1 DEF CommitBeat
<1>12. ASSUME NEW t \in Txs, LockNext(t) PROVE Good
  BY <1>12, LocksStaged, LockedStage
<1>13. ASSUME NEW t \in Txs, BreakDeadlock(t) PROVE Good
  BY <1>13, <1>c DEF BreakDeadlock
<1>14. ASSUME StartBury PROVE Good
  <2> DEFINE row == [kind |-> "bury", todo |-> <<"session">>]
  <2>1. Reaper \in Txs /\ "event" \in LockRows /\ "session" \in LockRows
    BY Transactions, RowNames
  <2>2. session \notin Ended
    BY <1>14 DEF StartBury, OutcomeInv, EndTogether
  <2>3. tx' = [tx EXCEPT ![Reaper] = row] /\ Open(Reaper, "none")
    BY <1>14, <2>2 DEF StartBury, Begin
  <2>4. /\ row \in [kind : Kinds, todo : Seq(LockRows)]
        /\ row.kind = "bury" /\ row.todo = <<"session">>
    BY <1>k, <2>1
  <2> HIDE DEF row
  <2>5. lock' = [lock EXCEPT !["event"] = Reaper] /\ lock["event"] = NoTx
    BY <1>14 DEF StartBury, Free
  <2>6. Held(Reaper) = {}
    BY <2>3 DEF Staged, ReaperStaged, Open, Stage
  <2>7. \A u \in Txs : /\ tx'[u] = IF u = Reaper THEN row ELSE tx[u]
                       /\ Held(u)' = IF u = Reaper THEN Held(u) \cup {"event"} ELSE Held(u)
    <3>1. \A r \in LockRows : lock'[r] = IF r = "event" THEN Reaper ELSE lock[r]
      BY <1>t, <2>5
    <3> QED BY <1>t, <2>1, <2>3, <2>5, <3>1, Transactions DEF Held
  <2>8. ReaperStaged' BY <2>1, <2>4, <2>6, <2>7 DEF ReaperStaged, Open, Stage
  <2>9. Others({Reaper}) BY <2>7 DEF Others
  <2>10. tx' \in [Txs -> [kind : Kinds, todo : Seq(LockRows)]] BY <1>t, <2>3, <2>4
  <2>11. lock' \in [LockRows -> Txs \cup {NoTx}] BY <1>t, <2>1, <2>5
  <2> QED BY <2>1, <2>8, <2>9, <2>10, <2>11, StaysStaged, Transactions
<1>15. ASSUME CommitBury PROVE Good
  <2>1. {Reaper} \in SUBSET Txs BY Transactions
  <2> QED BY <1>15, <1>c, <2>1 DEF CommitBury
<1>16. ASSUME UNCHANGED vars PROVE Good BY <1>0, <1>16 DEF vars
<1>17. ASSUME NEW o \in Owners, Attempt(o) PROVE Good
  BY <1>17, <1>1, <1>2, <1>3, <1>4, <1>5, <1>6, <1>7, <1>8 DEF Attempt
<1>18. ASSUME NEW o \in Owners,
              StartBeat(o) \/ BeatEvent(o) \/ CommitBeat(o) \/ ExpireClaim(o) \/ ExpireLease(o)
       PROVE  Good
  BY <1>18, <1>1, <1>9, <1>10, <1>11
<1> HIDE DEF Good
<1>19. Good
  BY <1>12, <1>13, <1>14, <1>15, <1>16, <1>17, <1>18 DEF Next
<1> QED BY <1>19 DEF Good
-----------------------------------------------------------------------------
(* What locks protect *)

\* A transaction that has come to its end holds what it is about to change.
LEMMA ReadyHolds ==
  ASSUME Staged, NEW o \in Owners
  PROVE  LET t == Main(o)
             p == Pulse(o)
         IN /\ Ready(t, "acquire") => lock["session"] = t
            /\ Ready(t, "result") \/ Ready(t, "failure") \/ Ready(t, "retry") =>
                 lock["event"] = t /\ lock["session"] = t /\ lock[o] = t
            /\ Ready(t, "handBack") => lock["event"] = t
            /\ Ready(t, "release") => lock[o] = t
            /\ Ready(p, "beat") => lock["event"] = p /\ lock[o] = p
            /\ Ready(Reaper, "bury") => lock["event"] = Reaper /\ lock["session"] = Reaper
<1> DEFINE t == Main(o)
           p == Pulse(o)
<1>1. MainStaged(o) /\ PulseStaged(o) /\ ReaperStaged BY DEF Staged
<1>2. \A u : \A r \in LockRows : r \in Held(u) <=> lock[r] = u BY DEF Held
<1>3. ASSUME Ready(t, "acquire") PROVE lock["session"] = t
  <2>1. Acquiring(t) /\ tx[t].todo = <<>> BY <1>1, <1>3 DEF MainStaged, Ready, Open
  <2>2. "session" \in Held(t) BY <2>1 DEF Acquiring, Stage
  <2> QED BY <1>2, <2>2, RowNames
<1>4. ASSUME Ready(t, "result") \/ Ready(t, "failure")
      PROVE  lock["event"] = t /\ lock["session"] = t /\ lock[o] = t
  <2>1. Persisting(t, o) /\ tx[t].todo = <<>> BY <1>1, <1>4 DEF MainStaged, Ready, Open
  <2>2. {"event", "session", o} \subseteq Held(t) BY <2>1 DEF Persisting, Stage
  <2> QED BY <1>2, <2>2, RowNames
<1>5. ASSUME Ready(t, "retry")
      PROVE  lock["event"] = t /\ lock["session"] = t /\ lock[o] = t
  <2>1. Returning(t, o) /\ tx[t].todo = <<>> BY <1>1, <1>5 DEF MainStaged, Ready, Open
  <2>2. {"event", "session", o} \subseteq Held(t) BY <2>1 DEF Returning, Stage
  <2> QED BY <1>2, <2>2, RowNames
<1>6. ASSUME Ready(t, "handBack") PROVE lock["event"] = t
  <2>1. "event" \in Held(t) BY <1>1, <1>6 DEF MainStaged, Ready, Open, One, Stage
  <2> QED BY <1>2, <2>1, RowNames
<1>7. ASSUME Ready(t, "release") PROVE lock[o] = t
  <2>1. o \in Held(t) BY <1>1, <1>7 DEF MainStaged, Ready, Open, One, Stage
  <2> QED BY <1>2, <2>1, RowNames
<1>8. ASSUME Ready(p, "beat") PROVE lock["event"] = p /\ lock[o] = p
  <2>1. {"event", o} \subseteq Held(p) BY <1>1, <1>8 DEF PulseStaged, Ready, Open, Stage
  <2> QED BY <1>2, <2>1, RowNames
<1>9. ASSUME Ready(Reaper, "bury")
      PROVE  lock["event"] = Reaper /\ lock["session"] = Reaper
  <2>1. {"event", "session"} \subseteq Held(Reaper)
    BY <1>1, <1>9 DEF ReaperStaged, Ready, Open, Stage
  <2> QED BY <1>2, <2>1, RowNames
<1> QED BY <1>3, <1>4, <1>5, <1>6, <1>7, <1>8, <1>9

\* A transaction begins without locks.
LEMMA BeginsFree ==
  ASSUME Staged, NEW t \in Txs, Open(t, "none"), NEW r \in LockRows
  PROVE  lock[r] # t
<1>1. CASE t = Reaper BY <1>1 DEF Staged, ReaperStaged, Open, Stage, Held
<1>2. ASSUME NEW o \in Owners, t = Main(o) PROVE lock[r] # t
  BY <1>2 DEF Staged, MainStaged, Open, Stage, Held
<1>3. ASSUME NEW o \in Owners, t = Pulse(o) PROVE lock[r] # t
  BY <1>3 DEF Staged, PulseStaged, Open, Stage, Held
<1> QED BY <1>1, <1>2, <1>3, Transactions

\* Who holds a row held it before, in the same transaction, or has just locked
\* it.
HeldFrom(t, r) ==
  \/ lock[r] = t /\ (\A o \in Owners : t = Main(o) => tx'[t] = tx[t] \/ LockNext(t))
  \/ LockNext(t) /\ r = Head(tx[t].todo) /\ lock[r] = NoTx
  \/ r = "session" /\ \E o \in Owners : t = Main(o) /\ LockSession(o)
  \/ r = "event" /\ t = Reaper /\ StartBury

\* In every step.
LEMMA LocksKept ==
  ASSUME LocksTypeOK, Staged, [Next]_vars, NEW t \in Txs, NEW r \in LockRows, lock'[r] = t
  PROVE  HeldFrom(t, r)
<1>t. /\ tx \in [Txs -> [kind : Kinds, todo : Seq(LockRows)]]
      /\ lock \in [LockRows -> Txs \cup {NoTx}]
  BY DEF LocksTypeOK
<1>0. ASSUME lock' = lock, \A o \in Owners : t = Main(o) => tx'[t] = tx[t] PROVE HeldFrom(t, r)
  BY <1>0 DEF HeldFrom
<1>c. ASSUME NEW ts \in SUBSET Txs, Close(ts) PROVE HeldFrom(t, r)
  <2>1. lock[r] = t /\ t \notin ts BY <1>c, Transactions DEF Close
  <2>2. tx'[t] = tx[t] BY <1>c, <2>1 DEF Close
  <2> QED BY <2>1, <2>2 DEF HeldFrom
<1>b. ASSUME NEW u \in Txs, NEW k, NEW todo, Begin(u, k, todo), lock' = lock
      PROVE  HeldFrom(t, r)
  <2>1. CASE u = t BY <1>b, <2>1, BeginsFree DEF Begin
  <2>2. CASE u # t BY <1>0, <1>b, <1>t, <2>2 DEF Begin
  <2> QED BY <2>1, <2>2
<1>1. ASSUME NEW o \in Owners, ClaimEvent(o) \/ ExpireClaim(o) \/ ExpireLease(o)
      PROVE  HeldFrom(t, r)
  BY <1>0, <1>1 DEF ClaimEvent, ExpireClaim, ExpireLease
<1>2. ASSUME NEW o \in Owners,
             ReadSession(o) \/ StartHandBack(o) \/ StartResult(o) \/ StartFailure(o)
      PROVE  HeldFrom(t, r)
  <2>1. Main(o) \in Txs BY Transactions
  <2> QED BY <1>2, <1>b, <2>1 DEF ReadSession, StartHandBack, StartResult, StartFailure
<1>3. ASSUME NEW o \in Owners, LockSession(o) PROVE HeldFrom(t, r)
  <2>1. Main(o) \in Txs BY Transactions
  <2>2. lock' = [lock EXCEPT !["session"] = Main(o)]
        /\ \E todo : tx' = [tx EXCEPT ![Main(o)].todo = todo]
    BY <1>3 DEF LockSession
  <2>3. CASE r = "session" BY <1>3, <1>t, <2>2, <2>3 DEF HeldFrom
  <2>4. CASE r # "session" /\ t # Main(o)
    <3>1. lock[r] = t /\ tx'[t] = tx[t] BY <1>t, <2>2, <2>4
    <3> QED BY <3>1 DEF HeldFrom
  <2>5. CASE r # "session" /\ t = Main(o)
    <3>1. lock[r] = t BY <1>t, <2>2, <2>5
    <3>2. Held(t) = {}
      <4>1. Open(t, "acquire") /\ tx[t].todo # <<>> /\ Head(tx[t].todo) = "session"
        BY <1>3, <2>5 DEF LockSession, At
      <4>2. Acquiring(t) BY <2>5, <4>1 DEF Staged, MainStaged, Open
      <4>3. ASSUME NEW q \in Owners PROVE Head(<<q, "version">>) # "session"
        BY RowNames
      <4>4. Head(<<"version">>) # "session" OBVIOUS
      <4> QED BY <4>1, <4>2, <4>3, <4>4 DEF Acquiring, Stage
    <3> QED BY <3>1, <3>2 DEF Held
  <2> QED BY <2>3, <2>4, <2>5
<1>4. ASSUME NEW o \in Owners,
             \/ RefuseLease(o) \/ AcquireRaises(o) \/ CommitAcquire(o) \/ CommitHandBack(o)
             \/ LoseOwnership(o) \/ RetriesUsedUp(o) \/ CommitResult(o) \/ CommitRetry(o)
             \/ CommitRelease(o)
      PROVE  HeldFrom(t, r)
  <2>1. Close({Main(o)})
    BY <1>4 DEF RefuseLease, AcquireRaises, CommitAcquire, CommitHandBack, LoseOwnership,
                RetriesUsedUp, CommitResult, CommitRetry, CommitRelease
  <2>2. {Main(o)} \in SUBSET Txs BY Transactions
  <2> QED BY <1>c, <2>1, <2>2
<1>5. ASSUME NEW o \in Owners, StartRelease(o) PROVE HeldFrom(t, r)
  <2>1. Main(o) \in Txs /\ Pulse(o) \in Txs /\ Main(o) # Pulse(o) BY Transactions
  <2>2. /\ Open(Main(o), "none") /\ lock[r] = t /\ t # Pulse(o)
        /\ \A u \in Txs \ {Main(o), Pulse(o)} : tx'[u] = tx[u]
    BY <1>5, <1>t, <2>1, Transactions DEF StartRelease
  <2>3. t # Main(o) BY <2>1, <2>2, BeginsFree
  <2> QED BY <2>2, <2>3 DEF HeldFrom
<1>6. ASSUME NEW o \in Owners, Crash(o) PROVE HeldFrom(t, r)
  <2>1. {Main(o), Pulse(o)} \in SUBSET Txs BY Transactions
  <2> QED BY <1>6, <1>c, <2>1 DEF Crash
<1>7. ASSUME NEW o \in Owners, StartBeat(o) PROVE HeldFrom(t, r)
  <2>1. Pulse(o) \in Txs BY Transactions
  <2> QED BY <1>7, <1>b, <2>1 DEF StartBeat
<1>8. ASSUME NEW o \in Owners, BeatEvent(o) \/ CommitBeat(o) PROVE HeldFrom(t, r)
  <2>1. Pulse(o) \in Txs /\ {Pulse(o)} \in SUBSET Txs BY Transactions
  <2>2. CASE Close({Pulse(o)}) BY <1>c, <2>1, <2>2
  <2>3. CASE lock' = lock /\ \E row : tx' = [tx EXCEPT ![Pulse(o)] = row]
    BY <1>0, <1>t, <2>1, <2>3, Transactions
  <2> QED BY <1>8, <2>2, <2>3 DEF BeatEvent, CommitBeat
<1>9. ASSUME NEW u \in Txs, LockNext(u) PROVE HeldFrom(t, r)
  <2>1. /\ LET q == Head(tx[u].todo)
           IN q \in LockRows /\ lock[q] = NoTx /\ lock' = [lock EXCEPT ![q] = u]
        /\ Others({u})
    BY <1>9, LockedStage
  <2>2. CASE r = Head(tx[u].todo) BY <1>9, <1>t, <2>1, <2>2 DEF HeldFrom
  <2>3. CASE r # Head(tx[u].todo)
    <3>1. lock[r] = t BY <1>t, <2>1, <2>3
    <3>2. tx'[t] = tx[t] \/ t = u BY <2>1 DEF Others
    <3> QED BY <1>9, <3>1, <3>2 DEF HeldFrom
  <2> QED BY <2>2, <2>3
<1>10. ASSUME NEW u \in Txs, BreakDeadlock(u) PROVE HeldFrom(t, r)
  BY <1>10, <1>c DEF BreakDeadlock
<1>11. ASSUME StartBury PROVE HeldFrom(t, r)
  <2>1. Reaper \in Txs BY Transactions
  <2>2. lock' = [lock EXCEPT !["event"] = Reaper] /\ Open(Reaper, "none")
        /\ \E row : tx' = [tx EXCEPT ![Reaper] = row]
    BY <1>11 DEF StartBury, Begin
  <2>3. CASE r = "event" BY <1>11, <1>t, <2>2, <2>3 DEF HeldFrom
  <2>4. CASE r # "event"
    <3>1. lock[r] = t BY <1>t, <2>2, <2>4
    <3>2. t # Reaper BY <2>1, <2>2, <3>1, BeginsFree
    <3>3. tx'[t] = tx[t] BY <1>t, <2>2, <3>2
    <3> QED BY <3>1, <3>3 DEF HeldFrom
  <2> QED BY <2>3, <2>4
<1>12. ASSUME CommitBury PROVE HeldFrom(t, r)
  <2>1. {Reaper} \in SUBSET Txs BY Transactions
  <2> QED BY <1>12, <1>c, <2>1 DEF CommitBury
<1>13. ASSUME UNCHANGED vars PROVE HeldFrom(t, r)
  BY <1>13, <1>0 DEF vars
<1>14. ASSUME NEW o \in Owners, Attempt(o) PROVE HeldFrom(t, r)
  BY <1>14, <1>1, <1>2, <1>3, <1>4, <1>5, <1>6 DEF Attempt
<1>15. ASSUME NEW o \in Owners,
              StartBeat(o) \/ BeatEvent(o) \/ CommitBeat(o) \/ ExpireClaim(o) \/ ExpireLease(o)
       PROVE  HeldFrom(t, r)
  BY <1>15, <1>1, <1>7, <1>8
<1> QED BY <1>9, <1>10, <1>11, <1>12, <1>13, <1>14, <1>15 DEF Next
-----------------------------------------------------------------------------
(* What transactions have checked *)

\* Which transaction an attempt runs.
KindFollows(o) ==
  /\ Open(Main(o), "acquire")  => attempt[o].pc = "claimed"
  /\ Open(Main(o), "handBack") => attempt[o].pc = "refused"
  /\ tx[Main(o)].kind \in {"result", "failure", "retry"} => attempt[o].pc \in {"running", "failed"}
  /\ Open(Main(o), "release")  => attempt[o].pc = "ended"

\* What an attempt relies on without a lock: its claim lasts until it has the
\* lease, and while its event is its own nobody else holds a lease.
AttemptHolds(o) ==
  /\ attempt[o].pc \in {"claimed", "refused"} => OwnsClaim(o)
  /\ attempt[o].pc \in {"running", "failed"} /\ Owns(o) => Holders \subseteq {o}

\* What it has checked on the rows that it has locked.
Checked(o) ==
  /\ tx[Main(o)].kind \in {"result", "failure", "retry"} =>
       /\ lock["event"] = Main(o) => Owns(o)
       /\ lock["session"] = Main(o) => session = "PROCESSING"
       /\ ~Open(Main(o), "retry") /\ lock[o] = Main(o) => o \in Holders
  /\ Open(Main(o), "acquire") /\ lock["session"] = Main(o) =>
       \A q \in Holders : lock[q] = Main(o) \/ tx[Main(o)].todo = <<q, "version">>

Buries ==
  Open(Reaper, "bury") =>
    event.status = "PROCESSING" /\ ~event.live /\ event.attempts >= MaxAttempts

OneHolder == \A p, q \in Holders : p = q

LockInv ==
  /\ LocksTypeOK /\ OutcomeInv /\ Staged
  /\ OneHolder /\ Buries
  /\ \A o \in Owners : KindFollows(o) /\ AttemptHolds(o) /\ Checked(o)

\* The steps that change rows.
Changes(o) ==
  \/ ClaimEvent(o) \/ CommitAcquire(o) \/ CommitHandBack(o) \/ CommitResult(o)
  \/ CommitRetry(o) \/ CommitRelease(o) \/ CommitBeat(o) \/ ExpireClaim(o) \/ ExpireLease(o)

\* The others change none.
LEMMA Changers ==
  ASSUME [Next]_vars
  PROVE  UNCHANGED rows \/ CommitBury \/ \E o \in Owners : Changes(o)
<1>1. ASSUME NEW o \in Owners, Attempt(o) PROVE UNCHANGED rows \/ Changes(o)
  BY <1>1 DEF Attempt, Changes, rows, ReadSession, LockSession, RefuseLease, AcquireRaises,
              StartHandBack, StartResult, StartFailure, LoseOwnership, RetriesUsedUp,
              StartRelease, Crash
<1>2. ASSUME NEW o \in Owners, StartBeat(o) \/ BeatEvent(o) PROVE UNCHANGED rows
  BY <1>2 DEF StartBeat, BeatEvent, rows
<1>3. ASSUME NEW t \in Txs, LockNext(t) \/ BreakDeadlock(t) PROVE UNCHANGED rows
  BY <1>3 DEF LockNext, BreakDeadlock, rows
<1>4. ASSUME StartBury PROVE UNCHANGED rows BY <1>4 DEF StartBury, rows
<1>5. CASE UNCHANGED vars BY <1>5 DEF vars, rows
<1> QED BY <1>1, <1>2, <1>3, <1>4, <1>5 DEF Next, Changes

\* An event that is being worked on belongs to a session that is work.
LEMMA OwnedIsWork ==
  ASSUME OutcomeInv, event.status = "PROCESSING"
  PROVE  session \in Working
BY DEF OutcomeInv, RowsTypeOK, EndTogether, Working

\* Each of them is the step of AttemptRows that it stands for.
LEMMA ChangeIsAtomic ==
  ASSUME LockInv, NEW o \in Owners, Changes(o)
  PROVE  [RowsNext]_rows
<1>t. /\ LocksTypeOK /\ OutcomeInv /\ Staged
      /\ KindFollows(o) /\ AttemptHolds(o) /\ Checked(o)
      /\ lease \in [Owners -> {"none", "live", "expired"}]
  BY DEF LockInv, OutcomeInv, RowsTypeOK
<1>1. CASE ClaimEvent(o) BY <1>1 DEF ClaimEvent, RowsNext
<1>2. CASE CommitAcquire(o)
  <2>1. Open(Main(o), "acquire") /\ tx[Main(o)].todo = <<>> /\ lock["session"] = Main(o)
    BY <1>t, <1>2, ReadyHolds DEF CommitAcquire, Ready
  <2>2. Owns(o) /\ session \in Working
    BY <1>t, <2>1, OwnedIsWork DEF KindFollows, AttemptHolds, OwnsClaim, Owns
  <2>3. ASSUME NEW q \in Owners, q # o, lock[q] # Main(o) PROVE lease[q] = "none"
    <3>1. <<>> # <<q, "version">> OBVIOUS
    <3>2. q \notin Holders BY <1>t, <2>1, <2>3, <3>1 DEF Checked
    <3> QED BY <3>2 DEF Holders
  <2>4. lease' = [q \in Owners |-> IF q = o THEN "live" ELSE "none"]
    BY <1>2, <2>3 DEF CommitAcquire
  <2>5. Acquire(o) BY <1>2, <2>2, <2>4 DEF CommitAcquire, Acquire
  <2> QED BY <2>5 DEF RowsNext
<1>3. CASE CommitHandBack(o)
  <2>1. Owns(o)
    BY <1>t, <1>3 DEF CommitHandBack, Ready, KindFollows, AttemptHolds, OwnsClaim
  <2>2. HandBack(o) \/ UNCHANGED rows BY <1>3, <2>1 DEF CommitHandBack, HandBack, rows
  <2> QED BY <2>2 DEF RowsNext
<1>4. CASE CommitResult(o)
  <2>1. /\ Open(Main(o), "result") \/ Open(Main(o), "failure")
        /\ lock["event"] = Main(o) /\ lock["session"] = Main(o) /\ lock[o] = Main(o)
    BY <1>t, <1>4, ReadyHolds DEF CommitResult, Ready
  <2>2. tx[Main(o)].kind \in {"result", "failure"} /\ ~Open(Main(o), "retry")
    BY <2>1 DEF Open
  <2>3. Owns(o) /\ session = "PROCESSING" /\ o \in Holders
    BY <1>t, <2>1, <2>2 DEF Checked
  <2>4. Holders = {o} BY <1>t, <2>2, <2>3 DEF KindFollows, AttemptHolds
  <2>5. Finish(o) BY <1>4, <2>3, <2>4 DEF CommitResult, Finish
  <2> QED BY <2>5 DEF RowsNext
<1>5. CASE CommitRetry(o)
  <2>1. /\ tx[Main(o)].kind = "retry"
        /\ lock["event"] = Main(o) /\ lock["session"] = Main(o)
    BY <1>t, <1>5, ReadyHolds DEF CommitRetry, Ready, Open
  <2>2. Owns(o) /\ session = "PROCESSING" BY <1>t, <2>1 DEF Checked
  <2>3. Holders \subseteq {o} BY <1>t, <2>1, <2>2 DEF KindFollows, AttemptHolds
  <2>4. GiveBack(o) BY <1>5, <2>2, <2>3 DEF CommitRetry, GiveBack
  <2> QED BY <2>4 DEF RowsNext
<1>6. CASE CommitRelease(o)
  <2>1. CASE o \in Holders
    BY <1>6, <2>1 DEF CommitRelease, Release, RowsNext
  <2>2. CASE o \notin Holders
    <3>1. lease[o] = "none" BY <2>2 DEF Holders
    <3>2. UNCHANGED rows BY <1>t, <1>6, <3>1 DEF CommitRelease, rows
    <3> QED BY <3>2
  <2> QED BY <2>1, <2>2
<1>7. CASE CommitBeat(o)
  <2>1. o \notin Holders => lease' = lease
    <3>1. o \notin Holders => lease[o] = "none" BY DEF Holders
    <3> QED BY <1>t, <1>7, <3>1 DEF CommitBeat
  <2>2. o \in Holders => lease' = [lease EXCEPT ![o] = "live"]
    BY <1>7 DEF CommitBeat
  <2>3. Beat(o) BY <1>7, <2>1, <2>2 DEF CommitBeat, Beat
  <2> QED BY <2>3 DEF RowsNext
<1>8. CASE ExpireClaim(o) BY <1>8 DEF ExpireClaim, Lapse, RowsNext
<1>9. CASE ExpireLease(o)
  <2>1. o \in Holders BY <1>9 DEF ExpireLease, Holders
  <2>2. Lapse BY <1>9, <2>1 DEF ExpireLease, Lapse
  <2> QED BY <2>2 DEF RowsNext
<1> QED BY <1>1, <1>2, <1>3, <1>4, <1>5, <1>6, <1>7, <1>8, <1>9 DEF Changes

\* However interleaved, a step is one of AttemptRows, or none.
LEMMA StepIsAtomic ==
  ASSUME LockInv, [Next]_vars
  PROVE  [RowsNext]_rows
<1>1. CASE CommitBury
  <2>1. /\ Staged /\ OutcomeInv /\ Buries /\ Open(Reaper, "bury")
        /\ \A o \in Owners : Ready(Reaper, "bury") => lock["session"] = Reaper
    BY <1>1, ReadyHolds DEF LockInv, CommitBury, Ready
  <2>2. event.status = "PROCESSING" /\ ~event.live /\ event.attempts >= MaxAttempts
    BY <2>1 DEF Buries
  <2>3. session \in Working BY <2>1, <2>2, OwnedIsWork
  <2>4. lock["session"] = Reaper
    <3>1. ReaperStaged /\ tx[Reaper].todo = <<>> BY <1>1, <2>1 DEF Staged, CommitBury, Ready
    <3>2. "session" \in Held(Reaper) BY <2>1, <3>1 DEF ReaperStaged, Stage, Open
    <3> QED BY <3>2 DEF Held
  <2>5. Bury BY <1>1, <2>2, <2>3, <2>4 DEF CommitBury, Bury
  <2> QED BY <2>5 DEF RowsNext
<1> QED BY <1>1, Changers, ChangeIsAtomic

\* A row that stays locked is changed by nobody else, but for a claim that
\* lapses: where a holder of locks finds a lease, it is not ended either.
Kept ==
  /\ lock["event"] # NoTx /\ lock'["event"] = lock["event"] =>
       event' = event \/ (event.live /\ event' = [event EXCEPT !.live = FALSE])
  /\ lock["session"] # NoTx /\ lock'["session"] = lock["session"] =>
       session' = session /\ Holders' \subseteq Holders
  /\ \A q \in Holders : lock[q] # NoTx /\ lock'[q] = lock[q] => q \in Holders'

\* Who owns the event owned it or has just claimed it, a lease is taken in one
\* way, and a claim is lost by its attempt only.
Passed ==
  /\ \A q \in Owners : Owns(q)' => Owns(q) \/ ClaimEvent(q)
  /\ Holders' \subseteq Holders \/ \E q \in Owners : CommitAcquire(q)
  /\ \A q \in Owners : OwnsClaim(q) /\ attempt[q].pc \in {"claimed", "refused"} =>
       OwnsClaim(q)' \/ attempt'[q].pc \notin {"claimed", "refused"}

\* A commit frees the rows it has changed.
LEMMA CommitFrees ==
  ASSUME NEW t, Close({t}), NEW r \in LockRows, lock[r] = t
  PROVE  lock'[r] = NoTx
BY DEF Close

\* The commits and lapses keep both.
LEMMA ChangeKeeps ==
  ASSUME LockInv, NEW o \in Owners, Changes(o)
  PROVE  Kept /\ Passed
<1>t. /\ LocksTypeOK /\ OutcomeInv /\ Staged
      /\ KindFollows(o) /\ AttemptHolds(o) /\ Checked(o)
      /\ lease \in [Owners -> {"none", "live", "expired"}]
      /\ event \in EventRow
      /\ attempt \in [Owners -> [pc : {"idle", "claimed", "refused", "running", "failed", "ended"},
                                 seen : Working]]
  BY DEF LockInv, OutcomeInv, RowsTypeOK, LocksTypeOK
<1>r. {"event", "session"} \subseteq LockRows /\ \A q \in Owners : q \in LockRows
  BY RowNames
<1>m. Main(o) # NoTx /\ Pulse(o) # NoTx BY Transactions
<1>u. ASSUME NEW st \in {"PENDING", "PROCESSED", "FAILED"}, event' = Unclaimed(st), NEW q \in Owners
      PROVE  ~Owns(q)'
  BY <1>t, <1>u, UnclaimedTyped DEF Owns
<1>1. CASE ClaimEvent(o)
  <2>1. /\ lock["event"] = NoTx /\ session' = session /\ lease' = lease
        /\ event.status = "PENDING" \/ (event.status = "PROCESSING" /\ ~event.live)
        /\ event'.by = o /\ event'.status = "PROCESSING"
    BY <1>1 DEF ClaimEvent, Free, Claim
  <2>2. Holders' = Holders BY <2>1 DEF Holders
  <2>3. \A q \in Owners : ~OwnsClaim(q) BY <2>1 DEF OwnsClaim, Owns
  <2>4. \A q \in Owners : Owns(q)' => q = o BY <2>1 DEF Owns
  <2> QED BY <1>1, <2>1, <2>2, <2>3, <2>4 DEF Kept, Passed
<1>2. CASE CommitAcquire(o)
  <2>1. Open(Main(o), "acquire") /\ tx[Main(o)].todo = <<>> /\ lock["session"] = Main(o)
    BY <1>t, <1>2, ReadyHolds DEF CommitAcquire, Ready
  <2>2. lock'["session"] = NoTx BY <1>2, <1>r, <2>1, CommitFrees DEF CommitAcquire
  <2>3. event' = event BY <1>2 DEF CommitAcquire
  <2>4. \A q \in Owners : (Owns(q)' <=> Owns(q)) /\ (OwnsClaim(q)' <=> OwnsClaim(q))
    BY <2>3 DEF Owns, OwnsClaim
  <2>5. ASSUME NEW q \in Holders, lock[q] # NoTx, lock'[q] = lock[q] PROVE q \in Holders'
    <3>1. q \in Owners /\ lease[q] # "none" BY DEF Holders
    <3>2. lock[q] # Main(o) BY <1>2, <1>r, <2>5, <3>1, CommitFrees DEF CommitAcquire
    <3>3. lease'[q] # "none" BY <1>2, <3>1, <3>2 DEF CommitAcquire
    <3> QED BY <3>1, <3>3 DEF Holders
  <2> QED BY <1>2, <1>m, <2>1, <2>2, <2>3, <2>4, <2>5 DEF Kept, Passed
<1>3. CASE CommitHandBack(o)
  <2>1. lock["event"] = Main(o) /\ attempt[o].pc = "refused"
    BY <1>t, <1>3, ReadyHolds DEF CommitHandBack, KindFollows, Ready
  <2>2. lock'["event"] = NoTx BY <1>3, <1>r, <2>1, CommitFrees DEF CommitHandBack
  <2>3. session' = session /\ lease' = lease /\ Holders' = Holders
    BY <1>3 DEF CommitHandBack, Holders
  <2>4. event' = event \/ event' = Unclaimed("PENDING") BY <1>3 DEF CommitHandBack
  <2>5. \A q \in Owners : Owns(q)' => Owns(q)
    <3>1. CASE event' = event BY <3>1 DEF Owns
    <3>2. CASE event' = Unclaimed("PENDING") BY <1>u, <3>2
    <3> QED BY <2>4, <3>1, <3>2
  <2>6. attempt'[o].pc = "idle" BY <1>3, <1>t DEF CommitHandBack, Go
  <2>7. \A q \in Owners : OwnsClaim(q) => q = o
    BY <1>t, <2>1 DEF AttemptHolds, OwnsClaim, Owns
  <2> QED BY <1>m, <2>1, <2>2, <2>3, <2>5, <2>6, <2>7 DEF Kept, Passed
<1>4. CASE CommitResult(o) \/ CommitRetry(o)
  <2>1. /\ lock["event"] = Main(o) /\ lock["session"] = Main(o) /\ lock[o] = Main(o)
        /\ tx[Main(o)].kind \in {"result", "failure", "retry"}
    BY <1>t, <1>4, ReadyHolds DEF CommitResult, CommitRetry, Ready, Open
  <2>2. Owns(o) /\ attempt[o].pc \in {"running", "failed"}
    BY <1>t, <2>1 DEF Checked, KindFollows
  <2>3. lock'["event"] = NoTx /\ lock'["session"] = NoTx /\ lock'[o] = NoTx
    BY <1>4, <1>r, <2>1, CommitFrees DEF CommitResult, CommitRetry
  <2>4. \A q \in Owners : q # o => lease'[q] = lease[q]
    BY <1>4, <1>t DEF CommitResult, CommitRetry
  <2>5. \A q \in Owners : lease'[q] = lease[q] \/ lease'[q] = "none"
    BY <1>4, <1>t DEF CommitResult, CommitRetry
  <2>6. Holders' \subseteq Holders BY <2>5 DEF Holders
  <2>7. \A q \in Holders : q # o => q \in Holders' BY <2>4 DEF Holders
  <2>8. \A q \in Owners : ~Owns(q)' BY <1>4, <1>u DEF CommitResult, CommitRetry
  <2>9. \A q \in Owners : OwnsClaim(q) => q = o BY <2>2 DEF OwnsClaim, Owns
  <2> QED BY <1>m, <2>1, <2>2, <2>3, <2>6, <2>7, <2>8, <2>9 DEF Kept, Passed
<1>5. CASE CommitRelease(o)
  <2>1. lock[o] = Main(o) BY <1>t, <1>5, ReadyHolds DEF CommitRelease
  <2>2. lock'[o] = NoTx BY <1>5, <1>r, <2>1, CommitFrees DEF CommitRelease
  <2>3. event' = event /\ session' = session BY <1>5 DEF CommitRelease
  <2>4. \A q \in Owners : lease'[q] = IF q = o THEN "none" ELSE lease[q]
    BY <1>5, <1>t DEF CommitRelease
  <2>5. Holders' \subseteq Holders /\ \A q \in Holders : q # o => q \in Holders'
    BY <2>4 DEF Holders
  <2>6. \A q \in Owners : (Owns(q)' <=> Owns(q)) /\ (OwnsClaim(q)' <=> OwnsClaim(q))
    BY <2>3 DEF Owns, OwnsClaim
  <2> QED BY <1>m, <2>1, <2>2, <2>3, <2>5, <2>6 DEF Kept, Passed
<1>6. CASE CommitBeat(o)
  <2>1. lock["event"] = Pulse(o) BY <1>t, <1>6, ReadyHolds DEF CommitBeat
  <2>2. lock'["event"] = NoTx BY <1>6, <1>r, <2>1, CommitFrees DEF CommitBeat
  <2> DEFINE on == event.status = "PROCESSING"
  <2>3. session' = session /\ event' = [event EXCEPT !.live = on] BY <1>6 DEF CommitBeat
  <2>4. /\ event'.status = event.status /\ event'.by = event.by
        /\ event'.live = on
    <3> HIDE DEF on
    <3> QED BY <1>t, <2>3 DEF EventRow
  <2>5. Holders' = Holders
    <3>1. \A q \in Owners : lease'[q] # "none" <=> lease[q] # "none"
      BY <1>6, <1>t DEF CommitBeat, Holders
    <3> QED BY <3>1 DEF Holders
  <2>6. \A q \in Owners : Owns(q)' => Owns(q) BY <2>4 DEF Owns
  <2>7. \A q \in Owners : OwnsClaim(q) => OwnsClaim(q)' BY <2>4 DEF OwnsClaim, Owns
  <2> HIDE DEF on
  <2> QED BY <1>m, <2>1, <2>2, <2>3, <2>5, <2>6, <2>7 DEF Kept, Passed
<1>7. CASE ExpireClaim(o)
  <2>1. /\ OwnsClaim(o) /\ session' = session /\ lease' = lease
        /\ event' = [event EXCEPT !.live = FALSE] /\ attempt[o].pc \notin {"claimed", "refused"}
    BY <1>7 DEF ExpireClaim, MayLapse
  <2>2. Holders' = Holders BY <2>1 DEF Holders
  <2>3. event.live /\ event'.status = event.status /\ event'.by = event.by
    BY <1>t, <2>1 DEF OwnsClaim, EventRow
  <2>4. \A q \in Owners : Owns(q)' => Owns(q) BY <2>3 DEF Owns
  <2>5. \A q \in Owners : OwnsClaim(q) => q = o BY <2>1 DEF OwnsClaim, Owns
  <2> QED BY <2>1, <2>2, <2>3, <2>4, <2>5 DEF Kept, Passed
<1>8. CASE ExpireLease(o)
  <2>1. event' = event /\ session' = session BY <1>8 DEF ExpireLease
  <2>2. \A q \in Owners : lease'[q] # "none" <=> lease[q] # "none"
    BY <1>8, <1>t DEF ExpireLease
  <2>3. Holders' = Holders BY <2>2 DEF Holders
  <2>4. \A q \in Owners : (Owns(q)' <=> Owns(q)) /\ (OwnsClaim(q)' <=> OwnsClaim(q))
    BY <2>1 DEF Owns, OwnsClaim
  <2> QED BY <2>1, <2>3, <2>4 DEF Kept, Passed
<1> QED BY <1>1, <1>2, <1>3, <1>4, <1>5, <1>6, <1>7, <1>8 DEF Changes

\* So does every step.
LEMMA StepKeeps ==
  ASSUME LockInv, [Next]_vars
  PROVE  Kept /\ Passed
<1>1. CASE UNCHANGED rows
  <2>1. event' = event /\ session' = session /\ Holders' = Holders
    BY <1>1 DEF rows, Holders
  <2>2. \A q \in Owners : (Owns(q)' <=> Owns(q)) /\ (OwnsClaim(q)' <=> OwnsClaim(q))
    BY <2>1 DEF Owns, OwnsClaim
  <2> QED BY <2>1, <2>2 DEF Kept, Passed
<1>2. CASE CommitBury
  <2>1. Open(Reaper, "bury") /\ tx[Reaper].todo = <<>> /\ Close({Reaper})
    BY <1>2 DEF CommitBury, Ready
  <2>2. "event" \in Held(Reaper) /\ "session" \in Held(Reaper)
    BY <2>1 DEF LockInv, Staged, ReaperStaged, Stage, Open
  <2>3. lock["event"] = Reaper /\ lock["session"] = Reaper BY <2>2 DEF Held
  <2>4. lock'["event"] = NoTx /\ lock'["session"] = NoTx
    BY <2>1, <2>3, RowNames, CommitFrees
  <2>5. Holders' = Holders /\ event' = Unclaimed("FAILED") BY <1>2 DEF CommitBury, Holders
  <2>6. \A q \in Owners : ~Owns(q)'
    BY <2>5, UnclaimedTyped DEF Owns, LockInv, OutcomeInv, RowsTypeOK
  <2>7. \A q \in Owners : ~OwnsClaim(q) BY <2>1 DEF OwnsClaim, LockInv, Buries
  <2> QED BY <2>3, <2>4, <2>5, <2>6, <2>7, Transactions DEF Kept, Passed
<1> QED BY <1>1, <1>2, Changers, ChangeKeeps

\* A row is freed by the end of the transaction that holds it.
LEMMA LocksStay ==
  ASSUME LocksTypeOK, Staged, [Next]_vars, NEW t \in Txs, ~Open(t, "none"), tx'[t] = tx[t],
         NEW r \in LockRows, lock[r] = t
  PROVE  lock'[r] = t
<1>t. /\ lock \in [LockRows -> Txs \cup {NoTx}] /\ NoTx \notin Txs
      /\ tx \in [Txs -> [kind : Kinds, todo : Seq(LockRows)]]
  BY Transactions DEF LocksTypeOK
<1>c. ASSUME NEW ts, Close(ts) PROVE lock'[r] = t
  <2>1. t \notin ts BY <1>c DEF Close, Idle, Open
  <2> QED BY <1>c, <2>1 DEF Close
<1>l. ASSUME NEW s \in LockRows, lock[s] = NoTx, NEW u, lock' = [lock EXCEPT ![s] = u]
      PROVE  lock'[r] = t
  BY <1>l, <1>t
<1>1. ASSUME NEW o \in Owners, Attempt(o) PROVE lock'[r] = t
  <2>1. CASE LockSession(o)
    BY <1>l, <2>1, RowNames DEF LockSession, Free
  <2>2. CASE StartRelease(o)
    <3>1. t # Pulse(o)
      <4>1. Pulse(o) \in Txs /\ Main(o) # Pulse(o) BY Transactions
      <4>2. tx'[Pulse(o)] = Idle BY <1>t, <2>2, <4>1 DEF StartRelease
      <4> QED BY <4>2 DEF Idle, Open
    <3> QED BY <2>2, <3>1 DEF StartRelease
  <2>3. CASE \/ ClaimEvent(o) \/ ReadSession(o) \/ StartHandBack(o) \/ StartResult(o)
             \/ StartFailure(o)
    BY <2>3 DEF ClaimEvent, ReadSession, StartHandBack, StartResult, StartFailure
  <2>4. CASE \/ RefuseLease(o) \/ AcquireRaises(o) \/ CommitAcquire(o) \/ CommitHandBack(o)
             \/ LoseOwnership(o) \/ RetriesUsedUp(o) \/ CommitResult(o) \/ CommitRetry(o)
             \/ CommitRelease(o) \/ Crash(o)
    BY <1>c, <2>4 DEF RefuseLease, AcquireRaises, CommitAcquire, CommitHandBack, LoseOwnership,
                      RetriesUsedUp, CommitResult, CommitRetry, CommitRelease, Crash
  <2> QED BY <1>1, <2>1, <2>2, <2>3, <2>4 DEF Attempt
<1>2. ASSUME NEW o \in Owners,
             StartBeat(o) \/ BeatEvent(o) \/ CommitBeat(o) \/ ExpireClaim(o) \/ ExpireLease(o)
      PROVE  lock'[r] = t
  BY <1>2, <1>c DEF StartBeat, BeatEvent, CommitBeat, ExpireClaim, ExpireLease
<1>3. ASSUME NEW u \in Txs, LockNext(u) PROVE lock'[r] = t
  <2>1. PICK s \in LockRows : lock[s] = NoTx /\ lock' = [lock EXCEPT ![s] = u]
    BY <1>3, LockedStage
  <2> QED BY <1>l, <2>1
<1>4. ASSUME NEW u \in Txs, BreakDeadlock(u) PROVE lock'[r] = t
  BY <1>4, <1>c DEF BreakDeadlock
<1>5. ASSUME StartBury PROVE lock'[r] = t
  BY <1>5, <1>l, RowNames DEF StartBury, Free
<1>6. ASSUME CommitBury PROVE lock'[r] = t
  BY <1>6, <1>c DEF CommitBury
<1>7. CASE UNCHANGED vars BY <1>7 DEF vars
<1> QED BY <1>1, <1>2, <1>3, <1>4, <1>5, <1>6, <1>7 DEF Next

\* An attempt claims, then takes the lease, then works.
MovesOn(o) ==
  /\ attempt'[o].pc \in {"claimed", "refused"} =>
       attempt[o].pc \in {"claimed", "refused"} \/ ClaimEvent(o)
  /\ attempt'[o].pc \in {"running", "failed"} =>
       attempt[o].pc \in {"running", "failed"} \/ CommitAcquire(o)

AttemptType == [Owners -> [pc : {"idle", "claimed", "refused", "running", "failed", "ended"},
                           seen : Working]]

\* Only the attempt that acts moves.
LEMMA GoMoves ==
  ASSUME attempt \in AttemptType, NEW o \in Owners,
         NEW pc \in {"idle", "claimed", "refused", "running", "failed", "ended"}, Go(o, pc)
  PROVE  /\ attempt' \in AttemptType /\ attempt'[o].pc = pc
         /\ \A q \in Owners \ {o} : attempt'[q] = attempt[q]
BY DEF AttemptType, Go

\* Each of its transactions is run where the attempt stands.
LEMMA KindsFollow ==
  ASSUME LockInv, [Next]_vars, NEW o \in Owners
  PROVE  KindFollows(o)' /\ MovesOn(o) /\ attempt' \in AttemptType
<1> DEFINE Good == KindFollows(o)' /\ MovesOn(o) /\ attempt' \in AttemptType
<1>t. /\ LocksTypeOK /\ OutcomeInv /\ Staged
      /\ KindFollows(o) /\ attempt \in AttemptType
      /\ tx \in [Txs -> [kind : Kinds, todo : Seq(LockRows)]]
      /\ session \in Working \cup Ended
      /\ \A q \in Owners : Main(q) \in Txs /\ Pulse(q) \in Txs /\ Main(q) # Pulse(q)
  BY Transactions DEF LockInv, LocksTypeOK, AttemptType, RowsTypeOK
<1>s. ASSUME attempt'[o].pc = attempt[o].pc, tx'[Main(o)].kind = tx[Main(o)].kind,
             attempt' \in AttemptType
      PROVE  Good
  BY <1>s, <1>t DEF KindFollows, MovesOn, Open
<1>k. ASSUME attempt' = attempt, tx'[Main(o)].kind = tx[Main(o)].kind PROVE Good
  BY <1>k, <1>s, <1>t
<1>c. ASSUME NEW q \in Owners, Close({Main(q)}),
             NEW pc \in {"idle", "refused", "running", "failed", "ended"}, Go(q, pc),
             /\ pc = "refused" => attempt[q].pc = "claimed"
             /\ pc = "running" => CommitAcquire(q)
             /\ pc = "failed" => attempt[q].pc \in {"running", "failed"}
      PROVE  Good
  <2>1. attempt' \in AttemptType /\ attempt'[q].pc = pc
        /\ \A p \in Owners \ {q} : attempt'[p] = attempt[p]
    BY <1>c, <1>t, GoMoves
  <2>2. CASE o = q
    <3>1. tx'[Main(o)].kind = "none" BY <1>c, <1>t, <2>2 DEF Close, Idle
    <3>2. KindFollows(o)' BY <3>1 DEF KindFollows, Open
    <3> QED BY <1>c, <2>1, <2>2, <3>2 DEF MovesOn
  <2>3. CASE o # q
    <3>1. Main(o) # Main(q) BY <2>3, Transactions
    <3>2. tx'[Main(o)] = tx[Main(o)] BY <1>c, <1>t, <3>1 DEF Close
    <3> QED BY <1>s, <2>1, <2>3, <3>2
  <2> QED BY <2>2, <2>3
<1>b. ASSUME NEW q \in Owners, NEW k \in Kinds, NEW todo, Begin(Main(q), k, todo),
             attempt' \in AttemptType, \A p \in Owners : attempt'[p].pc = attempt[p].pc,
             /\ k = "acquire" => attempt[q].pc = "claimed"
             /\ k = "handBack" => attempt[q].pc = "refused"
             /\ k \in {"result", "failure", "retry"} => attempt[q].pc \in {"running", "failed"}
             /\ k = "release" => attempt[q].pc = "ended"
      PROVE  Good
  <2>1. CASE o = q
    <3>1. tx'[Main(o)].kind = k BY <1>b, <1>t, <2>1 DEF Begin
    <3> QED BY <1>b, <2>1, <3>1 DEF KindFollows, MovesOn, Open
  <2>2. CASE o # q
    <3>1. Main(o) # Main(q) BY <2>2, Transactions
    <3>2. tx'[Main(o)] = tx[Main(o)] BY <1>b, <1>t, <3>1 DEF Begin
    <3> QED BY <1>b, <1>s, <3>2
  <2> QED BY <2>1, <2>2
<1>1. ASSUME NEW q \in Owners, ClaimEvent(q) PROVE Good
  <2>1. attempt' \in AttemptType /\ attempt'[q].pc = "claimed" /\ tx' = tx
        /\ \A p \in Owners \ {q} : attempt'[p] = attempt[p]
    BY <1>1, <1>t, GoMoves DEF ClaimEvent
  <2>2. CASE o = q
    <3>1. attempt[o].pc = "idle" BY <1>1, <2>2 DEF ClaimEvent
    <3>2. KindFollows(o)' BY <1>t, <2>1, <3>1 DEF KindFollows, Open
    <3> QED BY <1>1, <2>1, <2>2, <3>2 DEF MovesOn
  <2>3. CASE o # q BY <1>s, <2>1, <2>3
  <2> QED BY <2>2, <2>3
<1>2. ASSUME NEW q \in Owners, ReadSession(q) PROVE Good
  <2>1. /\ attempt[q].pc = "claimed" /\ Begin(Main(q), "acquire", <<"session">>)
        /\ attempt' = [attempt EXCEPT ![q].seen = session]
    BY <1>2 DEF ReadSession
  <2>2. event.status = "PROCESSING"
    BY <2>1 DEF LockInv, AttemptHolds, OwnsClaim, Owns
  <2>3. session \in Working BY <1>t, <2>2, OwnedIsWork
  <2>4. attempt' \in AttemptType /\ \A p \in Owners : attempt'[p].pc = attempt[p].pc
    BY <1>t, <2>1, <2>3 DEF AttemptType
  <2>5. "acquire" \in Kinds BY DEF Kinds
  <2> QED BY <1>b, <2>1, <2>4, <2>5
<1>3. ASSUME NEW q \in Owners, LockSession(q) PROVE Good
  <2>1. attempt' = attempt /\ \E todo : tx' = [tx EXCEPT ![Main(q)].todo = todo]
    BY <1>3 DEF LockSession
  <2>2. tx'[Main(o)].kind = tx[Main(o)].kind BY <1>t, <2>1
  <2> QED BY <1>k, <2>1, <2>2
<1>4. ASSUME NEW q \in Owners,
             \/ RefuseLease(q) \/ AcquireRaises(q) \/ CommitAcquire(q) \/ CommitHandBack(q)
             \/ LoseOwnership(q) \/ RetriesUsedUp(q) \/ CommitResult(q) \/ CommitRetry(q)
             \/ CommitRelease(q)
      PROVE  Good
  <2>k. KindFollows(q) BY DEF LockInv
  <2>1. CASE RefuseLease(q)
    BY <1>c, <2>1, <2>k DEF RefuseLease, At, KindFollows
  <2>2. CASE AcquireRaises(q) \/ CommitHandBack(q) \/ CommitRelease(q)
    BY <1>c, <2>2 DEF AcquireRaises, CommitHandBack, CommitRelease
  <2>3. CASE CommitAcquire(q) BY <1>c, <2>3 DEF CommitAcquire
  <2>4. CASE LoseOwnership(q) \/ CommitResult(q) \/ CommitRetry(q)
    BY <1>c, <2>4 DEF LoseOwnership, CommitResult, CommitRetry
  <2>5. CASE RetriesUsedUp(q)
    <3>1. attempt[q].pc \in {"running", "failed"}
      BY <2>5, <2>k DEF RetriesUsedUp, At, Open, KindFollows
    <3> QED BY <1>c, <2>5, <3>1 DEF RetriesUsedUp
  <2> QED BY <1>4, <2>1, <2>2, <2>3, <2>4, <2>5
<1>5. ASSUME NEW q \in Owners, StartHandBack(q) \/ StartResult(q) \/ StartFailure(q) PROVE Good
  <2>1. attempt' \in AttemptType /\ \A p \in Owners : attempt'[p].pc = attempt[p].pc
    BY <1>5, <1>t DEF StartHandBack, StartResult, StartFailure
  <2>2. {"handBack", "result", "failure", "retry"} \subseteq Kinds BY DEF Kinds
  <2> QED BY <1>5, <1>b, <2>1, <2>2 DEF StartHandBack, StartResult, StartFailure
<1>6. ASSUME NEW q \in Owners, StartRelease(q) PROVE Good
  <2>0. Main(q) \in Txs /\ Pulse(q) \in Txs /\ Main(q) # Pulse(q) /\ Main(o) # Pulse(q)
    BY Transactions
  <2>1. CASE q \in Holders
    <3>1. /\ attempt[q].pc = "ended" /\ attempt' = attempt
          /\ tx' = [tx EXCEPT ![Pulse(q)] = Idle,
                              ![Main(q)] = [kind |-> "release", todo |-> <<q>>]]
      BY <1>6, <2>1 DEF StartRelease
    <3>2. CASE o = q
      <4>1. tx'[Main(o)].kind = "release" BY <1>t, <2>0, <3>1, <3>2
      <4> QED BY <1>t, <3>1, <3>2, <4>1 DEF KindFollows, MovesOn, Open
    <3>3. CASE o # q
      <4>1. Main(o) # Main(q) BY <3>3, Transactions
      <4>2. tx'[Main(o)] = tx[Main(o)] BY <1>t, <2>0, <3>1, <4>1
      <4> QED BY <1>k, <3>1, <4>2
    <3> QED BY <3>2, <3>3
  <2>2. CASE q \notin Holders
    <3>1. /\ Open(Main(q), "none") /\ Go(q, "idle")
          /\ tx' = [tx EXCEPT ![Pulse(q)] = Idle]
      BY <1>6, <2>2 DEF StartRelease
    <3>2. tx'[Main(o)] = tx[Main(o)] BY <1>t, <2>0, <3>1
    <3>3. attempt' \in AttemptType /\ attempt'[q].pc = "idle"
          /\ \A p \in Owners \ {q} : attempt'[p] = attempt[p]
      BY <1>t, <3>1, GoMoves
    <3>4. CASE o = q BY <3>1, <3>2, <3>3, <3>4 DEF KindFollows, MovesOn, Open
    <3>5. CASE o # q BY <1>s, <3>2, <3>3, <3>5
    <3> QED BY <3>4, <3>5
  <2> QED BY <2>1, <2>2
<1>7. ASSUME NEW q \in Owners, Crash(q) PROVE Good
  <2>1. attempt' \in AttemptType /\ attempt'[q].pc = "idle"
        /\ \A p \in Owners \ {q} : attempt'[p] = attempt[p]
    BY <1>7, <1>t, GoMoves DEF Crash
  <2>2. CASE o = q
    <3>1. tx'[Main(o)].kind = "none" BY <1>7, <1>t, <2>2 DEF Crash, Close, Idle
    <3>2. KindFollows(o)' BY <3>1 DEF KindFollows, Open
    <3> QED BY <2>1, <2>2, <3>2 DEF MovesOn
  <2>3. CASE o # q
    <3>1. Main(o) # Main(q) /\ Main(o) # Pulse(q) BY <2>3, Transactions
    <3>2. tx'[Main(o)] = tx[Main(o)] BY <1>7, <1>t, <3>1 DEF Crash, Close
    <3> QED BY <1>s, <2>1, <2>3, <3>2
  <2> QED BY <2>2, <2>3
<1>8. ASSUME NEW q \in Owners,
             StartBeat(q) \/ BeatEvent(q) \/ CommitBeat(q) \/ ExpireClaim(q) \/ ExpireLease(q)
      PROVE  Good
  <2>1. Main(o) # Pulse(q) /\ Pulse(q) \in Txs BY Transactions
  <2>2. attempt' = attempt
    BY <1>8 DEF StartBeat, BeatEvent, CommitBeat, ExpireClaim, ExpireLease
  <2>3. tx'[Main(o)] = tx[Main(o)]
    BY <1>8, <1>t, <2>1
    DEF StartBeat, BeatEvent, CommitBeat, ExpireClaim, ExpireLease, Begin, Close
  <2> QED BY <1>k, <2>2, <2>3
<1>9. ASSUME NEW u \in Txs, LockNext(u) PROVE Good
  <2>1. attempt' = attempt BY <1>9 DEF LockNext
  <2>2. tx'[Main(o)].kind = tx[Main(o)].kind BY <1>9, <1>t DEF LockNext
  <2> QED BY <1>k, <2>1, <2>2
<1>10. ASSUME NEW u \in Txs \ {Reaper}, BreakDeadlock(u) PROVE Good
  <2>1. PICK q \in Owners : u = Main(q) \/ u = Pulse(q) BY Transactions
  <2>2. CASE u = Pulse(q)
    <3>1. Main(o) # u /\ attempt' = attempt BY <1>10, <2>2, Transactions DEF BreakDeadlock
    <3>2. tx'[Main(o)] = tx[Main(o)] BY <1>10, <1>t, <3>1 DEF BreakDeadlock, Close
    <3> QED BY <1>k, <3>1, <3>2
  <2>3. CASE u = Main(q)
    <3>1. Go(q, IF Open(u, "result") THEN "failed" ELSE "ended") /\ Close({Main(q)})
      BY <1>10, <2>3, Transactions DEF BreakDeadlock
    <3>2. Open(u, "result") => attempt[q].pc \in {"running", "failed"}
      BY <2>3 DEF LockInv, KindFollows, Open
    <3>3. CASE Open(u, "result") BY <1>c, <3>1, <3>2, <3>3
    <3>4. CASE ~Open(u, "result") BY <1>c, <3>1, <3>4
    <3> QED BY <3>3, <3>4
  <2> QED BY <2>1, <2>2, <2>3
<1>11. ASSUME StartBury \/ CommitBury PROVE Good
  <2>1. Main(o) # Reaper /\ Reaper \in Txs BY Transactions
  <2>2. attempt' = attempt BY <1>11 DEF StartBury, CommitBury
  <2>3. tx'[Main(o)] = tx[Main(o)]
    BY <1>11, <1>t, <2>1 DEF StartBury, CommitBury, Begin, Close
  <2> QED BY <1>k, <2>2, <2>3
<1>12. ASSUME UNCHANGED vars PROVE Good BY <1>12, <1>k DEF vars
<1>13. ASSUME NEW q \in Owners, Attempt(q) PROVE Good
  BY <1>13, <1>1, <1>2, <1>3, <1>4, <1>5, <1>6, <1>7 DEF Attempt
<1> HIDE DEF Good
<1>14. Good BY <1>8, <1>9, <1>10, <1>11, <1>12, <1>13 DEF Next
<1> QED BY <1>14 DEF Good

\* In its own transaction an attempt only locks further rows, which it checks.
LEMMA OwnLock ==
  ASSUME LockInv, [Next]_vars, NEW o \in Owners, NEW r \in LockRows, lock'[r] = Main(o),
         ~Open(Main(o), "acquire")
  PROVE  \/ lock[r] = Main(o) /\ tx'[Main(o)].kind = tx[Main(o)].kind
         \/ LockNext(Main(o)) /\ Passes(o, tx[Main(o)].kind, r)
  <1>t. LocksTypeOK /\ Staged /\ Main(o) \in Txs BY Transactions DEF LockInv
  <1>1. HeldFrom(Main(o), r) BY <1>t, LocksKept
  <1>2. ~LockSession(o) BY DEF LockSession, At
  <1>3. \A p \in Owners : Main(o) = Main(p) => p = o BY Transactions
  <1>4. LockNext(Main(o)) => tx'[Main(o)].kind = tx[Main(o)].kind
    BY <1>t, LockedStage
  <1>5. LockNext(Main(o)) /\ r = Head(tx[Main(o)].todo) => Passes(o, tx[Main(o)].kind, r)
    BY Transactions DEF LockNext
  <1> QED BY <1>1, <1>2, <1>3, <1>4, <1>5, Transactions DEF HeldFrom

\* What has been checked under a lock stays true while it is held.
LEMMA ChecksHold ==
  ASSUME LockInv, [Next]_vars, NEW o \in Owners
  PROVE  Checked(o)'
<1> DEFINE m == Main(o)
<1>t. /\ LocksTypeOK /\ Staged /\ OneHolder /\ Checked(o) /\ Kept
      /\ m \in Txs /\ m # NoTx
      /\ tx \in [Txs -> [kind : Kinds, todo : Seq(LockRows)]]
      /\ lock \in [LockRows -> Txs \cup {NoTx}]
      /\ event \in EventRow
      /\ {"event", "session"} \subseteq LockRows /\ o \in LockRows
  BY Transactions, RowNames, StepKeeps DEF LockInv, LocksTypeOK, OutcomeInv, RowsTypeOK
<1>u. LockNext(m) => event' = event /\ session' = session /\ lease' = lease
  BY DEF LockNext
<1>1. ASSUME tx'[m].kind \in {"result", "failure", "retry"}
      PROVE  /\ lock'["event"] = m => Owns(o)'
             /\ lock'["session"] = m => session' = "PROCESSING"
             /\ ~Open(m, "retry")' /\ lock'[o] = m => o \in Holders'
  <2>1. CASE Open(m, "acquire")
    <3>1. ASSUME NEW r \in LockRows, lock'[r] = m PROVE FALSE
      <4>1. HeldFrom(m, r) BY <1>t, <3>1, LocksKept
      <4>2. tx'[m].kind # tx[m].kind BY <1>1, <2>1 DEF Open
      <4>3. ~LockNext(m) BY <1>t, <4>2, LockedStage
      <4>4. ~LockSession(o)
        <5>1. LockSession(o) => \E todo : tx' = [tx EXCEPT ![m].todo = todo]
          BY DEF LockSession
        <5> QED BY <1>t, <4>2, <5>1
      <4> QED BY <4>1, <4>2, <4>3, <4>4, Transactions DEF HeldFrom
    <3> QED BY <1>t, <3>1
  <2>2. CASE ~Open(m, "acquire")
    <3>1. ASSUME NEW r \in LockRows, lock'[r] = m
          PROVE  \/ lock[r] = m /\ tx'[m].kind = tx[m].kind
                 \/ /\ LockNext(m) /\ tx'[m].kind = tx[m].kind
                    /\ Passes(o, tx[m].kind, r)
      BY <1>t, <2>2, <3>1, OwnLock, LockedStage
    <3>2. ASSUME lock'["event"] = m PROVE Owns(o)'
      <4>1. CASE lock["event"] = m /\ tx'[m].kind = tx[m].kind
        <5>1. Owns(o) BY <1>1, <1>t, <4>1 DEF Checked
        <5>2. event' = event \/ event' = [event EXCEPT !.live = FALSE]
          BY <1>t, <3>2, <4>1 DEF Kept
        <5>3. event'.status = event.status /\ event'.by = event.by
          BY <1>t, <5>2 DEF EventRow
        <5> QED BY <5>1, <5>3 DEF Owns
      <4>2. CASE LockNext(m) /\ tx'[m].kind = tx[m].kind /\ Passes(o, tx[m].kind, "event")
        <5>1. Owns(o) BY <1>1, <4>2, RowNames DEF Passes, OwnsClaim
        <5> QED BY <1>u, <4>2, <5>1 DEF Owns
      <4> QED BY <1>t, <3>1, <3>2, <4>1, <4>2
    <3>3. ASSUME lock'["session"] = m PROVE session' = "PROCESSING"
      <4>1. CASE lock["session"] = m /\ tx'[m].kind = tx[m].kind
        BY <1>1, <1>t, <3>3, <4>1 DEF Checked, Kept
      <4>2. CASE LockNext(m) /\ tx'[m].kind = tx[m].kind /\ Passes(o, tx[m].kind, "session")
        <5>1. session = "PROCESSING" BY <1>1, <4>2, RowNames DEF Passes
        <5> QED BY <1>u, <4>2, <5>1
      <4> QED BY <1>t, <3>1, <3>3, <4>1, <4>2
    <3>4. ASSUME ~Open(m, "retry")', lock'[o] = m PROVE o \in Holders'
      <4>1. CASE lock[o] = m /\ tx'[m].kind = tx[m].kind
        <5>1. o \in Holders BY <1>1, <1>t, <3>4, <4>1 DEF Checked, Open
        <5> QED BY <1>t, <3>4, <4>1, <5>1 DEF Kept
      <4>2. CASE LockNext(m) /\ tx'[m].kind = tx[m].kind /\ Passes(o, tx[m].kind, o)
        <5>1. lease[o] = "live" BY <1>1, <3>4, <4>2, RowNames DEF Passes, Open
        <5> QED BY <1>u, <4>2, <5>1 DEF Holders
      <4> QED BY <1>t, <3>1, <3>4, <4>1, <4>2
    <3> QED BY <3>2, <3>3, <3>4
  <2> QED BY <2>1, <2>2
<1>2. ASSUME Open(m, "acquire")', lock'["session"] = m, NEW q \in Holders'
      PROVE  lock'[q] = m \/ tx'[m].todo = <<q, "version">>
  <2>0. q \in Owners /\ q \in LockRows BY RowNames DEF Holders
  <2>1. HeldFrom(m, "session") BY <1>t, <1>2, LocksKept
  <2>2. CASE lock["session"] = m /\ tx'[m] = tx[m]
    <3>1. Open(m, "acquire") /\ ~Open(m, "none") BY <1>2, <2>2 DEF Open
    <3>2. q \in Holders BY <1>2, <1>t, <2>2 DEF Kept
    <3>3. lock[q] = m => lock'[q] = m BY <1>t, <2>0, <2>2, <3>1, LocksStay
    <3> QED BY <1>t, <2>2, <3>1, <3>2, <3>3 DEF Checked
  <2>3. CASE LockNext(m)
    <3>1. /\ Open(m, "acquire")
          /\ lock[Head(tx[m].todo)] = NoTx /\ lock' = [lock EXCEPT ![Head(tx[m].todo)] = m]
          /\ Head(tx[m].todo) \in LockRows
      BY <1>2, <1>t, <2>3, LockedStage DEF Open
    <3>2. Head(tx[m].todo) # "session" BY <2>3, <3>1 DEF LockNext
    <3>3. lock["session"] = m BY <1>2, <1>t, <3>1, <3>2
    <3>4. q \in Holders BY <1>2, <1>u, <2>3 DEF Holders
    <3>5. lock[q] = m \/ tx[m].todo = <<q, "version">> BY <1>t, <3>1, <3>3, <3>4 DEF Checked
    <3>6. Head(<<q, "version">>) = q OBVIOUS
    <3> QED BY <1>t, <2>0, <3>1, <3>5, <3>6
  <2>4. CASE LockSession(o)
    <3>1. lease' = lease BY <2>4 DEF LockSession
    <3>2. q \in Holders BY <1>2, <3>1 DEF Holders
    <3>3. PICK todo \in {<<p, "version">> : p \in Holders} \cup {<<"version">>} :
            /\ todo = <<"version">> <=> Holders = {}
            /\ tx' = [tx EXCEPT ![m].todo = todo]
      BY <2>4 DEF LockSession
    <3>4. PICK p \in Holders : todo = <<p, "version">> BY <3>2, <3>3
    <3>5. p = q BY <1>t, <3>2, <3>4 DEF OneHolder
    <3>6. tx'[m].todo = todo BY <1>t, <3>3
    <3> QED BY <3>4, <3>5, <3>6
  <2> QED BY <2>1, <2>2, <2>3, <2>4, Transactions DEF HeldFrom
<1> QED BY <1>1, <1>2 DEF Checked

\* Who takes the lease owns the event, and ends every other lease.
LEMMA AcquireEnds ==
  ASSUME LockInv, NEW q \in Owners, CommitAcquire(q)
  PROVE  Owns(q) /\ Holders' \subseteq {q} /\ event' = event
<1>0. /\ Staged /\ KindFollows(q) /\ AttemptHolds(q) /\ Checked(q)
      /\ lease \in [Owners -> {"none", "live", "expired"}]
  BY DEF LockInv, OutcomeInv, RowsTypeOK
<1>1. Open(Main(q), "acquire") /\ tx[Main(q)].todo = <<>> /\ lock["session"] = Main(q)
  BY <1>0, ReadyHolds DEF CommitAcquire, Ready
<1>2. Owns(q) BY <1>0, <1>1 DEF KindFollows, AttemptHolds, OwnsClaim
<1>3. ASSUME NEW p \in Owners, p # q PROVE lease'[p] = "none"
  <2>1. <<>> # <<p, "version">> OBVIOUS
  <2>2. CASE p \in Holders
    <3>1. lock[p] = Main(q) BY <1>0, <1>1, <2>1, <2>2 DEF Checked
    <3> QED BY <1>3, <3>1 DEF CommitAcquire
  <2>3. CASE p \notin Holders
    <3>1. lease[p] = "none" BY <2>3 DEF Holders
    <3> QED BY <1>3, <3>1 DEF CommitAcquire
  <2> QED BY <2>2, <2>3
<1> QED BY <1>2, <1>3 DEF CommitAcquire, Holders

\* A claim lasts until its attempt has the lease, and nobody takes the lease of
\* an attempt that still owns the event.
LEMMA HoldsKept ==
  ASSUME LockInv, [Next]_vars, NEW o \in Owners
  PROVE  AttemptHolds(o)'
<1>t. Passed /\ MovesOn(o) /\ AttemptHolds(o)
  BY StepKeeps, KindsFollow DEF LockInv
<1>1. ASSUME attempt'[o].pc \in {"claimed", "refused"} PROVE OwnsClaim(o)'
  <2>1. CASE ClaimEvent(o) BY <2>1 DEF ClaimEvent, Claim, OwnsClaim, Owns
  <2>2. CASE attempt[o].pc \in {"claimed", "refused"}
    BY <1>1, <1>t, <2>2 DEF AttemptHolds, Passed
  <2> QED BY <1>1, <1>t, <2>1, <2>2 DEF MovesOn
<1>2. ASSUME attempt'[o].pc \in {"running", "failed"}, Owns(o)' PROVE Holders' \subseteq {o}
  <2>1. CASE CommitAcquire(o) BY <2>1, AcquireEnds
  <2>2. CASE attempt[o].pc \in {"running", "failed"} /\ ~CommitAcquire(o)
    <3>1. ~ClaimEvent(o) BY <2>2 DEF ClaimEvent
    <3>2. Owns(o) BY <1>2, <1>t, <3>1 DEF Passed
    <3>3. \A q \in Owners : ~CommitAcquire(q) BY <2>2, <3>2, AcquireEnds DEF Owns
    <3>4. Holders' \subseteq Holders BY <1>t, <3>3 DEF Passed
    <3> QED BY <1>t, <2>2, <3>2, <3>4 DEF AttemptHolds
  <2> QED BY <1>2, <1>t, <2>1, <2>2 DEF MovesOn
<1> QED BY <1>1, <1>2 DEF AttemptHolds

\* Nobody holds a lease beside another.
LEMMA OneHolderKept ==
  ASSUME LockInv, [Next]_vars
  PROVE  OneHolder'
<1>1. ASSUME NEW q \in Owners, CommitAcquire(q) PROVE OneHolder'
  BY <1>1, AcquireEnds DEF OneHolder
<1>2. CASE Holders' \subseteq Holders BY <1>2 DEF OneHolder, LockInv
<1> QED BY <1>1, <1>2, StepKeeps DEF Passed

\* The reaper fails an event that nobody can have renewed or claimed meanwhile.
LEMMA BuriesKept ==
  ASSUME LockInv, [Next]_vars
  PROVE  Buries'
<1> SUFFICES ASSUME Open(Reaper, "bury")'
             PROVE  /\ event'.status = "PROCESSING" /\ ~event'.live
                    /\ event'.attempts >= MaxAttempts
  BY DEF Buries
<1>t. /\ LocksTypeOK /\ OutcomeInv /\ Staged /\ Buries /\ Kept /\ Staged'
      /\ Reaper \in Txs /\ Reaper # NoTx /\ "event" \in LockRows
  BY Transactions, RowNames, StepKeeps, StagedNext DEF LockInv
<1>1. lock'["event"] = Reaper
  BY <1>t DEF Staged, ReaperStaged, Stage, Held, Open
<1>2. HeldFrom(Reaper, "event") BY <1>t, <1>1, LocksKept
<1>3. CASE lock["event"] = Reaper
  <2>1. Open(Reaper, "bury") BY <1>t, <1>3, BeginsFree DEF Staged, ReaperStaged
  <2>2. event' = event BY <1>1, <1>3, <1>t, <2>1 DEF Kept, Buries
  <2> QED BY <1>t, <2>1, <2>2 DEF Buries
<1>4. CASE LockNext(Reaper)
  <2>1. tx'[Reaper].kind = tx[Reaper].kind /\ event' = event
    BY <1>t, <1>4, LockedStage DEF LockNext
  <2> QED BY <1>t, <2>1 DEF Buries, Open
<1>5. CASE StartBury BY <1>5 DEF StartBury
<1>6. ~ \E o \in Owners : Reaper = Main(o) /\ LockSession(o) BY Transactions
<1> QED BY <1>2, <1>3, <1>4, <1>5, <1>6 DEF HeldFrom

\* At first nothing is locked.
LEMMA LockInvInit == Init => LockInv
<1> SUFFICES ASSUME Init PROVE LockInv OBVIOUS
<1>1. /\ RowsInit /\ lock = [r \in LockRows |-> NoTx]
      /\ tx = [t \in Txs |-> Idle]
      /\ attempt = [o \in Owners |-> [pc |-> "idle", seen |-> "QUEUED"]]
  BY DEF Init
<1>2. OutcomeInv BY <1>1, OutcomeInit
<1>3. /\ NoTx \notin Txs
      /\ \A t \in Txs : tx[t] = Idle /\ Open(t, "none") /\ Stage(t, <<>>, {})
  BY <1>1, Transactions DEF Open, Stage, Held, Idle
<1>4. LocksTypeOK
  <2>1. Idle \in [kind : Kinds, todo : Seq(LockRows)] BY DEF Idle, Kinds
  <2> QED BY <1>1, <1>2, <2>1 DEF LocksTypeOK, OutcomeInv, Working
<1>5. Staged BY <1>3, Transactions DEF Staged, ReaperStaged, MainStaged, PulseStaged
<1>6. Holders = {} /\ event.status = "PENDING" BY <1>1 DEF RowsInit, Holders
<1>7. ASSUME NEW o \in Owners PROVE KindFollows(o) /\ AttemptHolds(o) /\ Checked(o)
  <2>1. tx[Main(o)].kind = "none" BY <1>3, Transactions DEF Open
  <2>2. attempt[o].pc = "idle" BY <1>1
  <2> QED BY <2>1, <2>2 DEF KindFollows, AttemptHolds, Checked, Open
<1>8. OneHolder BY <1>6 DEF OneHolder
<1>9. Buries BY <1>3, Transactions DEF Buries, Open
<1> QED BY <1>2, <1>4, <1>5, <1>7, <1>8, <1>9 DEF LockInv

\* Each step keeps what transactions hold, have checked and rely on.
LEMMA LockInvNext ==
  ASSUME LockInv, [Next]_vars
  PROVE  LockInv'
<1>1. OutcomeInv' BY StepIsAtomic, OutcomeNext DEF LockInv
<1>2. /\ Staged'
      /\ tx' \in [Txs -> [kind : Kinds, todo : Seq(LockRows)]]
      /\ lock' \in [LockRows -> Txs \cup {NoTx}]
  BY StagedNext DEF LockInv
<1>3. ASSUME NEW o \in Owners PROVE (KindFollows(o) /\ AttemptHolds(o) /\ Checked(o))'
  BY KindsFollow, HoldsKept, ChecksHold
<1>4. attempt' \in AttemptType
  <2>1. CASE Owners = {}
    <3>1. attempt' = attempt
      <4>1. \A t \in Txs : t = Reaper BY <2>1, Transactions
      <4> QED BY <2>1, <4>1 DEF Next, vars, LockNext, StartBury, CommitBury
    <3> QED BY <3>1 DEF LockInv, LocksTypeOK, AttemptType
  <2>2. CASE Owners # {} BY <2>2, KindsFollow
  <2> QED BY <2>1, <2>2
<1>5. LocksTypeOK' BY <1>1, <1>2, <1>4 DEF LocksTypeOK, OutcomeInv, AttemptType
<1> QED BY <1>1, <1>2, <1>3, <1>5, OneHolderKept, BuriesKept DEF LockInv

\* The locks of transactions protect what they have checked to their commits
\* (job_attempt_processor.py, session_lease_repository.py, recovery_service.py).
THEOREM LocksInvariant == Spec => []LockInv
BY LockInvInit, LockInvNext, PTL DEF Spec

\* Whatever the attempts, the reaper, crashes and lapses do, transactions that
\* wait for each other for ever include a heartbeat (job_attempt_processor.py:198).
THEOREM HeartbeatsDeadlockAlone == Spec => []OnlyHeartbeatsDeadlock
<1>1. LockInv => OnlyHeartbeatsDeadlock BY OrderPreventsDeadlock DEF LockInv
<1> QED BY <1>1, LocksInvariant, PTL

\* The transactions interleave lock by lock as if each were one step of an attempt
\* that owns what it changes.
THEOREM LocksMakeAtomic == Spec => AsIfAtomic
<1>1. Init => RowsInit BY DEF Init
<1>2. LockInv /\ [Next]_vars => [RowsNext]_rows BY StepIsAtomic
<1> QED BY <1>1, <1>2, LocksInvariant, PTL DEF Spec, AsIfAtomic, RowsSpec

\* So however they interleave, a job has one outcome.
THEOREM OneOutcomeOfLocks == Spec => OneOutcome
BY LocksMakeAtomic, JobHasOneOutcome DEF AsIfAtomic
=============================================================================
