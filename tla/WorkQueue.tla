------------------------------- MODULE WorkQueue -------------------------------
(***************************************************************************)
(* The Redis list that carries deliveries and the workers that take them:  *)
(* TaskQueue, BlogWorker and the queue half of the reaper.  A publisher    *)
(* pushes a delivery and only then publishes a notification; a worker      *)
(* subscribes, checks the list, and sleeps until a notification arrives.   *)
(* WorkflowDelivery abstracts all of this to a count of deliveries that    *)
(* are claimed again and again; here is why a delivery is claimed at all.  *)
(*                                                                         *)
(* Time is untimed: an entry of the processing set may turn stale, a       *)
(* backoff elapse and a dispatch marker go stale whenever they stand.      *)
(***************************************************************************)
EXTENDS Naturals, FiniteSets, Sequences, SequencesExt

CONSTANTS
  Events,      \* workflow_outbox_events.id
  Workers,     \* worker processes
  Depth,       \* MAX_QUEUE_DEPTH
  Capacity,    \* MAX_CONCURRENT_JOBS, the worker's semaphore
  Copies,      \* bound of the model: deliveries of one event under way at once
  FaultBound   \* bound of the model: how many faults a behaviour has

ASSUME WorkQueueAssumption ==
  /\ Depth \in Nat \ {0} /\ Capacity \in Nat \ {0}
  /\ Copies \in Nat \ {0} /\ FaultBound \in Nat

\* A delivery is a JSON text of its own: every enqueue stamps enqueued_at.
\* Only the requeue of a delivery pushes the same text again.
Deliveries == Events \X (1..Copies)
EventOf(d) == d[1]
Publishers == {"api", "relay"}

VARIABLES
  event,       \* the outbox row: status, dispatched_at
  publish,     \* commit_and_dispatch and the relay, between scan and marker
  ready,       \* blogify:tasks, the newest first
  processing,  \* blogify:processing, an observation nothing is decided by
  worker,      \* BlogWorker.run: where it stands, and an unread notification
  task,        \* the _process_job tasks: delivery, worker, stage
  returning,   \* requeued deliveries whose PUBLISH and ZREM are still to come
  faults,      \* faults so far
  quiet        \* history: deliveries pushed since every listener was notified

vars == <<event, publish, ready, processing, worker, task, returning, faults, quiet>>

\* delayed: PENDING with available_at > now; lapsed: PROCESSING, claim expired.
EventRow  == [status   : {"none", "pending", "delayed", "claimed", "lapsed", "closed"},
              dispatch : {"never", "fresh", "stale"}]
Task      == [of : Deliveries, by : Workers, pc : {"waiting", "running"}]
WorkerRow == [pc : {"out"}, mail : {FALSE}] \cup
             [pc : {"checking", "listening"}, mail : BOOLEAN]

QueueTypeOK ==
  /\ event \in [Events -> EventRow]
  /\ publish \in [Publishers -> [Events -> {"idle", "push", "notify", "mark"}]]
  /\ ready \in Seq(Deliveries) /\ Len(ready) <= Depth
  /\ processing \subseteq Deliveries
  /\ worker \in [Workers -> WorkerRow]
  /\ task \subseteq Task
  /\ returning \subseteq Workers \X Deliveries
  /\ faults \in 0..FaultBound
  /\ quiet \subseteq Deliveries

Silent == [e \in Events |-> "idle"]
Outside == [pc |-> "out", mail |-> FALSE]

Init ==
  /\ event = [e \in Events |-> [status |-> "none", dispatch |-> "never"]]
  /\ publish = [p \in Publishers |-> Silent]
  /\ ready = <<>>
  /\ processing = {}
  /\ worker = [w \in Workers |-> Outside]
  /\ task = {}
  /\ returning = {}
  /\ faults = 0
  /\ quiet = {}

Fault == faults < FaultBound /\ faults' = faults + 1
-----------------------------------------------------------------------------
(* The outbox row *)

Claimable(e)    == event[e].status \in {"pending", "lapsed"}

\* Mutant: an event that was dispatched once is not dispatched again.
DispatchableOnce(e) == \/ event[e].status = "pending" /\ event[e].dispatch = "never"
                       \/ event[e].status = "lapsed"

Dispatchable(e) == \/ event[e].status = "pending" /\ event[e].dispatch \in {"never", "stale"}
                   \/ event[e].status = "lapsed"

SetStatus(e, st) == event' = [event EXCEPT ![e].status = st]

\* The row is inserted and commit_and_dispatch has committed it.
Submit(e) ==
  /\ event[e].status = "none"
  /\ SetStatus(e, "pending")
  /\ publish' = [publish EXCEPT !["api"][e] = "push"]
  /\ UNCHANGED <<ready, processing, worker, task, returning, faults, quiet>>

\* A repeated request: get_undispatched_for_aggregate ignores the backoff.
SubmitAgain(e) ==
  /\ event[e].status \in {"pending", "delayed"} /\ event[e].dispatch = "never"
  /\ publish["api"][e] = "idle"
  /\ publish' = [publish EXCEPT !["api"][e] = "push"]
  /\ UNCHANGED <<event, ready, processing, worker, task, returning, faults, quiet>>

BackoffElapses(e) ==
  /\ event[e].status = "delayed"
  /\ SetStatus(e, "pending")
  /\ UNCHANGED <<publish, ready, processing, worker, task, returning, faults, quiet>>

DispatchGoesStale(e) ==
  /\ event[e].status = "pending" /\ event[e].dispatch = "fresh"
  /\ event' = [event EXCEPT ![e].dispatch = "stale"]
  /\ UNCHANGED <<publish, ready, processing, worker, task, returning, faults, quiet>>

\* Heartbeats keep the claim of an attempt that still runs.
ClaimLapses(e) ==
  /\ event[e].status = "claimed"
  /\ ~\E t \in task : t.pc = "running" /\ EventOf(t.of) = e
  /\ SetStatus(e, "lapsed")
  /\ UNCHANGED <<publish, ready, processing, worker, task, returning, faults, quiet>>

\* fail_exhausted_expired_claims; which attempt was the last is left open.
BuryEvent(e) ==
  /\ event[e].status = "lapsed"
  /\ SetStatus(e, "closed")
  /\ UNCHANGED <<publish, ready, processing, worker, task, returning, faults, quiet>>
-----------------------------------------------------------------------------
(* Publishing: TaskQueue.enqueue between the scan and the marker *)

RelayScan ==
  /\ publish["relay"] = Silent
  /\ \E e \in Events : Dispatchable(e)
  /\ publish' = [publish EXCEPT !["relay"] =
                   [e \in Events |-> IF Dispatchable(e) THEN "push" ELSE "idle"]]
  /\ UNCHANGED <<event, ready, processing, worker, task, returning, faults, quiet>>

Held(d)   == \E t \in task : t.of = d
Unused(d) == /\ ~Contains(ready, d) /\ d \notin processing /\ ~Held(d)
             /\ ~\E w \in Workers : <<w, d>> \in returning

\* ENQUEUE_SCRIPT: LPUSH below the maximum depth.
LPush(d) ==
  /\ Len(ready) < Depth
  /\ ready' = <<d>> \o ready
  /\ quiet' = quiet \cup {d}

\* PUBLISH reaches the workers that are subscribed and no other.  Several
\* unread notifications are as good as one: each follows its own LPUSH.
Notified(ws) ==
  [w \in Workers |-> IF w \in ws /\ worker[w].pc \in {"checking", "listening"}
                     THEN [worker[w] EXCEPT !.mail = TRUE] ELSE worker[w]]

Push(p, e) ==
  /\ publish[p][e] = "push"
  /\ \E i \in 1..Copies : Unused(<<e, i>>)
  /\ LPush(<<e, CHOOSE i \in 1..Copies : Unused(<<e, i>>)>>)
  /\ publish' = [publish EXCEPT ![p][e] = "notify"]
  /\ UNCHANGED <<event, processing, worker, task, returning, faults>>

Notify(p, e) ==
  /\ publish[p][e] = "notify"
  /\ publish' = [publish EXCEPT ![p][e] = "mark"]
  /\ worker' = Notified(Workers)
  /\ quiet' = {}
  /\ UNCHANGED <<event, ready, processing, task, returning, faults>>

\* Pub/Sub delivers at most once: some listeners miss the notification.
NotifySome(p, e) ==
  /\ Fault
  /\ publish[p][e] = "notify"
  /\ publish' = [publish EXCEPT ![p][e] = "mark"]
  /\ \E ws \in SUBSET Workers : ws # Workers /\ worker' = Notified(ws)
  /\ UNCHANGED <<event, ready, processing, task, returning, quiet>>

MarkDispatched(p, e) ==
  /\ publish[p][e] = "mark"
  /\ publish' = [publish EXCEPT ![p][e] = "idle"]
  /\ event' = IF event[e].status \in {"none", "closed"} THEN event
              ELSE [event EXCEPT ![e].dispatch = "fresh"]
  /\ UNCHANGED <<ready, processing, worker, task, returning, faults, quiet>>

\* The rest of the relay's batch is dropped with the delivery that fails.
Stopped(p, e) == IF p = "relay" /\ publish[p][e] # "mark"
                 THEN [publish EXCEPT ![p] = Silent]
                 ELSE [publish EXCEPT ![p][e] = "idle"]

\* QueueFullError
QueueFull(p, e) ==
  /\ publish[p][e] = "push" /\ Len(ready) = Depth
  /\ publish' = Stopped(p, e)
  /\ UNCHANGED <<event, ready, processing, worker, task, returning, faults, quiet>>

\* Redis or the marker's transaction raises, or the process dies.
StopPublishing(p, e) ==
  /\ Fault
  /\ publish[p][e] # "idle"
  /\ publish' = Stopped(p, e)
  /\ UNCHANGED <<event, ready, processing, worker, task, returning, quiet>>
-----------------------------------------------------------------------------
(* The worker's loop: dequeue_or_wait *)

Goto(w, pc)  == worker' = [worker EXCEPT ![w].pc = pc]

Unsubscribe(w) == worker' = [worker EXCEPT ![w] = Outside]

Subscribe(w) ==
  /\ worker[w].pc = "out"
  /\ Goto(w, "checking")
  /\ UNCHANGED <<event, publish, ready, processing, task, returning, faults, quiet>>

\* DEQUEUE_SCRIPT: RPOP and ZADD at once.
Pop(d) == /\ ready # <<>> /\ d = Last(ready)
          /\ ready' = Front(ready)
          /\ processing' = processing \cup {d}

\* _start_job creates a task and waits for nothing: the worker is outside the
\* subscription again, whatever its semaphore lets run.
TakeDelivery(w) ==
  /\ worker[w].pc = "checking"
  /\ \E d \in Deliveries :
       /\ Pop(d)
       /\ task' = task \cup {[of |-> d, by |-> w, pc |-> "waiting"]}
  /\ Unsubscribe(w)
  /\ UNCHANGED <<event, publish, returning, faults, quiet>>

\* evalsha executes but its answer is lost, and dequeue evaluates the script
\* again; or the payload is one this release cannot decode, and run sleeps.
LosePopped(w) ==
  /\ Fault
  /\ worker[w].pc = "checking"
  /\ \E d \in Deliveries : Pop(d)
  /\ UNCHANGED worker \/ Unsubscribe(w)
  /\ UNCHANGED <<event, publish, task, returning, quiet>>

\* Mutant: the list is checked before the subscription stands.
ListenUnchecked(w) ==
  /\ worker[w].pc = "checking"
  /\ Goto(w, "listening")
  /\ UNCHANGED <<event, publish, ready, processing, task, returning, faults, quiet>>

FindEmpty(w) ==
  /\ worker[w].pc = "checking" /\ ready = <<>>
  /\ Goto(w, "listening")
  /\ UNCHANGED <<event, publish, ready, processing, task, returning, faults, quiet>>

WakeUp(w) ==
  /\ worker[w].pc = "listening" /\ worker[w].mail
  /\ worker' = [worker EXCEPT ![w] = [pc |-> "checking", mail |-> FALSE]]
  /\ UNCHANGED <<event, publish, ready, processing, task, returning, faults, quiet>>

\* socket_timeout: a read that waited for 30 seconds raises.
ListenTimesOut(w) ==
  /\ worker[w].pc = "listening" /\ ~worker[w].mail
  /\ Unsubscribe(w)
  /\ UNCHANGED <<event, publish, ready, processing, task, returning, faults, quiet>>

\* The connection fails, and run subscribes anew after a second.
LoseConnection(w) ==
  /\ Fault
  /\ worker[w].pc \in {"checking", "listening"}
  /\ Unsubscribe(w)
  /\ UNCHANGED <<event, publish, ready, processing, task, returning, quiet>>

\* The process dies and is started again, at once or after any time "out".
Crash(w) ==
  /\ Fault
  /\ Unsubscribe(w)
  /\ task' = {t \in task : t.by # w}
  /\ returning' = {r \in returning : r[1] # w}
  /\ UNCHANGED <<event, publish, ready, processing, quiet>>
-----------------------------------------------------------------------------
(* The tasks of a worker: one attempt each, Capacity of them at a time *)

HasRoom(w) == Cardinality({t \in task : t.by = w /\ t.pc = "running"}) < Capacity

Begin(t) == t \in task /\ t.pc = "waiting" /\ HasRoom(t.by)

ClaimDelivery(t) ==
  /\ Begin(t)
  /\ Claimable(EventOf(t.of))
  /\ SetStatus(EventOf(t.of), "claimed")
  /\ task' = (task \ {t}) \cup {[t EXCEPT !.pc = "running"]}
  /\ UNCHANGED <<publish, ready, processing, worker, returning, faults, quiet>>

\* acknowledge: ZREM of the delivery's text.
Acknowledge(t) == task' = task \ {t} /\ processing' = processing \ {t.of}

\* The event is closed, claimed by another attempt, or in its backoff.
DropDelivery(t) ==
  /\ Begin(t)
  /\ ~Claimable(EventOf(t.of))
  /\ Acknowledge(t)
  /\ UNCHANGED <<event, publish, ready, worker, returning, faults, quiet>>

\* skip_locked passed over the row another transaction had locked.
ReturnDelivery(t) ==
  /\ Fault
  /\ Begin(t)
  /\ Claimable(EventOf(t.of))
  /\ LPush(t.of)
  /\ task' = task \ {t}
  /\ returning' = returning \cup {<<t.by, t.of>>}
  /\ UNCHANGED <<event, publish, processing, worker>>

\* The requeue announces the delivery and then removes the entry of its text,
\* the one that another worker may have made of it since.
FinishReturn(w, d) ==
  /\ <<w, d>> \in returning
  /\ returning' = returning \ {<<w, d>>}
  /\ worker' = Notified(Workers)
  /\ quiet' = {}
  /\ processing' = processing \ {d}
  /\ UNCHANGED <<event, publish, ready, task, faults>>

\* The attempt closes its event or schedules its retry.
FinishAttempt(t) ==
  /\ t \in task /\ t.pc = "running"
  /\ LET e == EventOf(t.of) IN
     \/ SetStatus(e, "closed")
     \/ event' = [event EXCEPT ![e] = [status |-> "delayed", dispatch |-> "never"]]
  /\ Acknowledge(t)
  /\ UNCHANGED <<publish, ready, worker, returning, faults, quiet>>

\* An exception leaves _process before the acknowledgement: the state lookup or
\* the requeue fails, or nothing of the attempt could be recorded.
AbandonTask(t) ==
  /\ Fault
  /\ t \in task
  /\ t.pc = "waiting" => HasRoom(t.by)
  /\ task' = task \ {t}
  /\ UNCHANGED <<event, publish, ready, processing, worker, returning, quiet>>

\* Mutant: the reaper puts stale entries back, as reclaim_stale would.
ReclaimEntry(d) ==
  /\ d \in processing
  /\ processing' = processing \ {d}
  /\ LPush(d)
  /\ UNCHANGED <<event, publish, worker, task, returning, faults>>

\* _reap_queue: a stale entry is removed and not delivered again.
ReapEntry(d) ==
  /\ d \in processing
  /\ processing' = processing \ {d}
  /\ UNCHANGED <<event, publish, ready, worker, task, returning, faults, quiet>>
-----------------------------------------------------------------------------
OutboxStep(e) ==
  \/ Submit(e) \/ SubmitAgain(e) \/ BackoffElapses(e) \/ DispatchGoesStale(e)
  \/ ClaimLapses(e) \/ BuryEvent(e)

PublishStep(p, e) ==
  \/ Push(p, e) \/ Notify(p, e) \/ NotifySome(p, e) \/ MarkDispatched(p, e)
  \/ QueueFull(p, e) \/ StopPublishing(p, e)

WorkerStep(w) ==
  \/ Subscribe(w) \/ TakeDelivery(w) \/ LosePopped(w) \/ FindEmpty(w) \/ WakeUp(w)
  \/ ListenTimesOut(w) \/ LoseConnection(w) \/ Crash(w)

TaskStep(t) ==
  \/ ClaimDelivery(t) \/ DropDelivery(t) \/ ReturnDelivery(t)
  \/ FinishAttempt(t) \/ AbandonTask(t)

Next ==
  \/ \E e \in Events : OutboxStep(e)
  \/ RelayScan
  \/ \E p \in Publishers, e \in Events : PublishStep(p, e)
  \/ \E w \in Workers : WorkerStep(w)
  \/ \E t \in Task : TaskStep(t)
  \/ \E w \in Workers, d \in Deliveries : FinishReturn(w, d)
  \/ \E d \in Deliveries : ReapEntry(d)

Spec == Init /\ [][Next]_vars

\* Processes run on and are restarted, and time passes.  Nothing is owed by
\* users and faults, and nothing is assumed about a delivery being taken.
Fairness ==
  /\ WF_vars(RelayScan)
  /\ \A p \in Publishers, e \in Events :
       WF_vars(Push(p, e) \/ Notify(p, e) \/ MarkDispatched(p, e) \/ QueueFull(p, e))
  /\ \A e \in Events :
       WF_vars(BackoffElapses(e)) /\ WF_vars(DispatchGoesStale(e)) /\ WF_vars(ClaimLapses(e))
  /\ \A w \in Workers :
       /\ WF_vars(Subscribe(w) \/ TakeDelivery(w) \/ FindEmpty(w) \/ WakeUp(w))
       /\ WF_vars(ListenTimesOut(w))
  /\ \A w \in Workers :
       /\ WF_vars(\E t \in Task : t.by = w /\ (ClaimDelivery(t) \/ DropDelivery(t)))
       /\ WF_vars(\E t \in Task : t.by = w /\ FinishAttempt(t))
       /\ WF_vars(\E d \in Deliveries : FinishReturn(w, d))
  /\ WF_vars(\E d \in Deliveries : ReapEntry(d))

FairSpec == Spec /\ Fairness
-----------------------------------------------------------------------------
(* Properties *)

\* A worker that sleeps with no notification to read misses nothing: whatever
\* is in the list was pushed after it checked, and its notification is still
\* owed (or was lost on the way, which quiet remembers).  This is the gap that
\* dequeue_or_wait says its order of subscribing and checking closes.
NoSleepOnWork ==
  \A w \in Workers :
    worker[w].pc = "listening" /\ ~worker[w].mail => ToSet(ready) \subseteq quiet

\* Redis hands a delivery to one task at a time: what a task holds is neither
\* in the list nor with another task, however long the task waits or runs.
OneHolder ==
  /\ IsInjective(ready)
  /\ \A t \in task : ~Contains(ready, t.of)
  /\ \A t, u \in task : t.of = u.of => t = u

\* Every event that waits is claimed, or buried by the reaper: lost
\* notifications, full lists, lost answers, failed requeues, crashed publishers
\* and workers delay it, and no order of them leaves everyone asleep.
Delivered ==
  \A e \in Events :
    event[e].status \in {"pending", "lapsed"} ~> event[e].status \in {"claimed", "closed"}
=============================================================================
