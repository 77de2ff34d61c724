-------------------------------- MODULE RowLocks --------------------------------
(***************************************************************************)
(* The transactions of AttemptRows lock by lock.  A transaction locks rows *)
(* in the order of its statements, checks what it finds, holds the locks   *)
(* to its end, and its writes show when it commits.  Reads without FOR     *)
(* UPDATE see committed rows.  PostgreSQL aborts a transaction of a cycle  *)
(* of waits.                                                               *)
(***************************************************************************)
EXTENDS AttemptRows, Sequences

CONSTANTS
  NoTx,
  Reaper,        \* the transaction of the reaper
  AttemptBound,  \* bound of the model: an event is not claimed more often
  Faults         \* a subset of {"crash", "stall"}

\* Names of rows and of transactions are told apart.
ASSUME RowLocksAssumption ==
  /\ Owners \cap {"event", "session", "version"} = {}
  /\ Reaper \notin Owners \X {"main", "beat"}
  /\ NoTx \notin (Owners \X {"main", "beat"}) \cup {Reaper}

VARIABLES
  lock,     \* for each row, the transaction that holds it
  tx,       \* the open transactions; todo: rows they have still to lock
  attempt   \* where attempts stand; seen: the session as _acquire_lease read it

vars == <<event, session, lease, lock, tx, attempt>>

\* Each attempt runs its transactions beside those of its heartbeat task.
Main(o)  == <<o, "main">>
Pulse(o) == <<o, "beat">>
Txs      == (Owners \X {"main", "beat"}) \cup {Reaper}

\* The lease of an owner is named by the owner.
LockRows == {"event", "session", "version"} \cup Owners
Kinds == {"none", "acquire", "result", "failure", "retry", "handBack", "release",
          "beatLease", "beat", "bury"}
Idle  == [kind |-> "none", todo |-> <<>>]

LocksTypeOK ==
  /\ RowsTypeOK
  /\ lock \in [LockRows -> Txs \cup {NoTx}]
  /\ tx \in [Txs -> [kind : Kinds, todo : Seq(LockRows)]]
  /\ attempt \in [Owners -> [pc : {"idle", "claimed", "refused", "running", "failed", "ended"},
                             seen : Working]]

Init ==
  /\ RowsInit
  /\ lock = [r \in LockRows |-> NoTx]
  /\ tx = [t \in Txs |-> Idle]
  /\ attempt = [o \in Owners |-> [pc |-> "idle", seen |-> "QUEUED"]]
-----------------------------------------------------------------------------
(* Locks *)

Free(r)      == lock[r] = NoTx
Open(t, k)   == tx[t].kind = k
At(t, k, r)  == Open(t, k) /\ tx[t].todo # <<>> /\ Head(tx[t].todo) = r
Ready(t, k)  == Open(t, k) /\ tx[t].todo = <<>>
Go(o, pc)    == attempt' = [attempt EXCEPT ![o].pc = pc]

Begin(t, k, todo) ==
  /\ Open(t, "none")
  /\ tx' = [tx EXCEPT ![t] = [kind |-> k, todo |-> todo]]

\* The end of transactions, by commit or rollback, frees their rows.
Close(ts) ==
  /\ tx' = [t \in Txs |-> IF t \in ts THEN Idle ELSE tx[t]]
  /\ lock' = [r \in LockRows |-> IF lock[r] \in ts THEN NoTx ELSE lock[r]]

Waits(t, u) ==
  t # u /\ tx[t].todo # <<>> /\ lock[Head(tx[t].todo)] = u

\* Transactions that wait for each other for ever.
Deadlocked(ts) == ts # {} /\ \A t \in ts : \E u \in ts : Waits(t, u)

OwnsClaim(o) == Owns(o) /\ event.live

\* Mutant: the event is locked only when it is completed.
EventLast(o) == <<"session", o, "version", "event">>

\* _lock_attempt and get_active_for_session.
PersistOrder(o) == <<"event", "session", o, "version">>

\* _schedule_retry.
RetryOrder(o) == <<"event", "session", "version", o>>

\* Mutant: the claim is not looked at again.
PassesAnyClaim(o, k, r) ==
  \/ k \notin {"result", "failure", "retry"}
  \/ r = "session" /\ session = "PROCESSING"
  \/ r = o /\ (lease[o] = "live" \/ k = "retry")
  \/ r \in {"event", "version"}

\* What a transaction of an attempt checks on a row that it has just locked.
Passes(o, k, r) ==
  \/ k \notin {"result", "failure", "retry"}
  \/ r = "event" /\ OwnsClaim(o)
  \/ r = "session" /\ session = "PROCESSING"
  \/ r = o /\ (lease[o] = "live" \/ k = "retry")
  \/ r = "version"
-----------------------------------------------------------------------------
(* An attempt *)

\* FOR UPDATE SKIP LOCKED: a locked event is not found.
ClaimEvent(o) ==
  /\ attempt[o].pc = "idle" /\ o \notin Holders /\ event.by # o
  /\ Open(Pulse(o), "none")
  /\ event.attempts < AttemptBound
  /\ Free("event")
  /\ Claim(o)
  /\ Go(o, "claimed")
  /\ UNCHANGED <<lock, tx>>

\* The session is read before it is locked.  It is still work: see
\* OutstandingWork of WorkflowDelivery.
ReadSession(o) ==
  /\ attempt[o].pc = "claimed"
  /\ Begin(Main(o), "acquire", <<"session">>)
  /\ attempt' = [attempt EXCEPT ![o].seen = session]
  /\ UNCHANGED <<event, session, lease, lock>>

LiveElsewhere(o) == \E q \in Holders : q # o /\ lease[q] = "live"

\* The lease is read under the lock of the session; one that has expired is
\* ended, which locks it.
LockSession(o) ==
  /\ At(Main(o), "acquire", "session")
  /\ Free("session")
  /\ ~LiveElsewhere(o)
  /\ Holders # {} \/ attempt[o].seen = "QUEUED"
  /\ lock' = [lock EXCEPT !["session"] = Main(o)]
  /\ \E todo \in {<<q, "version">> : q \in Holders} \cup {<<"version">>} :
       /\ todo = <<"version">> <=> Holders = {}
       /\ tx' = [tx EXCEPT ![Main(o)].todo = todo]
  /\ UNCHANGED <<event, session, lease, attempt>>

\* Another lease is live: the claim is handed back.
RefuseLease(o) ==
  /\ At(Main(o), "acquire", "session") /\ Free("session")
  /\ LiveElsewhere(o)
  /\ Close({Main(o)})
  /\ Go(o, "refused")
  /\ UNCHANGED <<event, session, lease>>

\* The session is PROCESSING without a lease: the exception ends the attempt.
AcquireRaises(o) ==
  /\ At(Main(o), "acquire", "session") /\ Free("session")
  /\ Holders = {} /\ attempt[o].seen # "QUEUED"
  /\ Close({Main(o)})
  /\ Go(o, "idle")
  /\ UNCHANGED <<event, session, lease>>

CommitAcquire(o) ==
  /\ Ready(Main(o), "acquire")
  /\ session' = "PROCESSING"
  /\ lease' = [q \in Owners |-> IF q = o THEN "live"
                                ELSE IF lock[q] = Main(o) THEN "none" ELSE lease[q]]
  /\ Close({Main(o)})
  /\ Go(o, "running")
  /\ UNCHANGED event

\* retry reads the event unlocked, and updates it.
StartHandBack(o) ==
  /\ attempt[o].pc = "refused"
  /\ Owns(o)
  /\ Begin(Main(o), "handBack", <<"event">>)
  /\ UNCHANGED <<event, session, lease, lock, attempt>>

CommitHandBack(o) ==
  /\ Ready(Main(o), "handBack")
  /\ event' = IF event.attempts < MaxAttempts THEN Unclaimed("PENDING") ELSE event
  /\ Close({Main(o)})
  /\ Go(o, "idle")
  /\ UNCHANGED <<session, lease>>

\* The workflow has a result, has failed, or is to be repeated.
StartResult(o) ==
  /\ attempt[o].pc = "running"
  /\ \/ Begin(Main(o), "result", PersistOrder(o))
     \/ Begin(Main(o), "failure", PersistOrder(o))
     \/ Begin(Main(o), "retry", RetryOrder(o))
  /\ UNCHANGED <<event, session, lease, lock, attempt>>

StartFailure(o) ==
  /\ attempt[o].pc = "failed"
  /\ Begin(Main(o), "failure", PersistOrder(o))
  /\ UNCHANGED <<event, session, lease, lock, attempt>>

\* The next row of the order is locked, waiting for it if need be.
LockNext(t) ==
  /\ tx[t].todo # <<>>
  /\ LET r == Head(tx[t].todo) IN
     /\ Free(r)
     /\ r = "session" => /\ ~Open(t, "acquire")
                         /\ Open(t, "retry") => event.attempts < MaxAttempts
     /\ t # Reaper => Passes(t[1], tx[t].kind, r)
     /\ lock' = [lock EXCEPT ![r] = t]
  /\ tx' = [tx EXCEPT ![t].todo = Tail(@)]
  /\ UNCHANGED <<event, session, lease, attempt>>

LoseOwnership(o) ==
  /\ tx[Main(o)].todo # <<>>
  /\ LET r == Head(tx[Main(o)].todo) IN
     Free(r) /\ ~Passes(o, tx[Main(o)].kind, r)
  /\ Close({Main(o)})
  /\ Go(o, "ended")
  /\ UNCHANGED <<event, session, lease>>

\* max_attempts: the claim is kept for persist_failure.
RetriesUsedUp(o) ==
  /\ At(Main(o), "retry", "session")
  /\ event.attempts >= MaxAttempts
  /\ Close({Main(o)})
  /\ Go(o, "failed")
  /\ UNCHANGED <<event, session, lease>>

\* Mutant: the event is left for the next delivery to complete.
ResultWithoutEvent(o) ==
  /\ \/ Ready(Main(o), "result") /\ session' = "REVIEW"
     \/ Ready(Main(o), "failure") /\ session' = "FAILED"
  /\ Close({Main(o)})
  /\ Go(o, "ended")
  /\ UNCHANGED <<event, lease>>

CommitResult(o) ==
  /\ \/ /\ Ready(Main(o), "result")
        /\ session' = "REVIEW" /\ event' = Unclaimed("PROCESSED")
     \/ /\ Ready(Main(o), "failure")
        /\ session' = "FAILED" /\ event' = Unclaimed("FAILED")
  /\ Close({Main(o)})
  /\ Go(o, "ended")
  /\ UNCHANGED lease

CommitRetry(o) ==
  /\ Ready(Main(o), "retry")
  /\ event' = Unclaimed("PENDING")
  /\ session' = "QUEUED"
  /\ lease' = [lease EXCEPT ![o] = "none"]
  /\ Close({Main(o)})
  /\ Go(o, "ended")

\* The heartbeat is cancelled, then the lease is released if it is still the
\* attempt's.
StartRelease(o) ==
  /\ attempt[o].pc = "ended" /\ Open(Main(o), "none")
  /\ lock' = [r \in LockRows |-> IF lock[r] = Pulse(o) THEN NoTx ELSE lock[r]]
  /\ IF o \in Holders
     THEN /\ tx' = [tx EXCEPT ![Pulse(o)] = Idle,
                              ![Main(o)] = [kind |-> "release", todo |-> <<o>>]]
          /\ UNCHANGED attempt
     ELSE tx' = [tx EXCEPT ![Pulse(o)] = Idle] /\ Go(o, "idle")
  /\ UNCHANGED <<event, session, lease>>

CommitRelease(o) ==
  /\ Ready(Main(o), "release")
  /\ lease' = [lease EXCEPT ![o] = "none"]
  /\ Close({Main(o)})
  /\ Go(o, "idle")
  /\ UNCHANGED <<event, session>>

Crash(o) ==
  /\ "crash" \in Faults
  /\ attempt[o].pc # "idle"
  /\ Close({Main(o), Pulse(o)})
  /\ Go(o, "idle")
  /\ UNCHANGED <<event, session, lease>>
-----------------------------------------------------------------------------
(* Its heartbeat *)

StartBeat(o) ==
  /\ attempt[o].pc \in {"running", "failed"}
  /\ o \in Holders
  /\ Begin(Pulse(o), "beatLease", <<o>>)
  /\ UNCHANGED <<event, session, lease, lock, attempt>>

\* The lease is updated; the event is read unlocked, to be updated as well.
BeatEvent(o) ==
  /\ Ready(Pulse(o), "beatLease")
  /\ IF Owns(o)
     THEN /\ tx' = [tx EXCEPT ![Pulse(o)] = [kind |-> "beat", todo |-> <<"event">>]]
          /\ UNCHANGED lock
     ELSE Close({Pulse(o)})
  /\ UNCHANGED <<event, session, lease, attempt>>

CommitBeat(o) ==
  /\ Ready(Pulse(o), "beat")
  /\ lease' = [lease EXCEPT ![o] = IF o \in Holders THEN "live" ELSE "none"]
  /\ event' = [event EXCEPT !.live = event.status = "PROCESSING"]
  /\ Close({Pulse(o)})
  /\ UNCHANGED <<session, attempt>>
-----------------------------------------------------------------------------
(* The reaper, the database and time *)

\* FOR UPDATE SKIP LOCKED, then the session is read unlocked.
StartBury ==
  /\ Free("event")
  /\ event.status = "PROCESSING" /\ ~event.live /\ event.attempts >= MaxAttempts
  /\ Begin(Reaper, "bury", IF session \in Ended THEN <<>> ELSE <<"session">>)
  /\ lock' = [lock EXCEPT !["event"] = Reaper]
  /\ UNCHANGED <<event, session, lease, attempt>>

CommitBury ==
  /\ Ready(Reaper, "bury")
  /\ event' = Unclaimed("FAILED")
  /\ session' = IF lock["session"] = Reaper THEN "FAILED" ELSE session
  /\ Close({Reaper})
  /\ UNCHANGED <<lease, attempt>>

\* A result whose transaction is aborted is recorded as a failure.
BreakDeadlock(t) ==
  /\ \E ts \in SUBSET Txs : t \in ts /\ Deadlocked(ts)
  /\ Close({t})
  /\ \/ t[2] = "beat" /\ UNCHANGED attempt
     \/ t[2] = "main" /\ Go(t[1], IF Open(t, "result") THEN "failed" ELSE "ended")
  /\ UNCHANGED <<event, session, lease>>

\* While a process lives and its heartbeats commit, neither lapses, and a claim
\* lasts until its attempt has the lease.
MayLapse(o) ==
  \/ attempt[o].pc = "idle"
  \/ "stall" \in Faults /\ attempt[o].pc \notin {"claimed", "refused"}

ExpireClaim(o) ==
  /\ OwnsClaim(o) /\ MayLapse(o)
  /\ event' = [event EXCEPT !.live = FALSE]
  /\ UNCHANGED <<session, lease, lock, tx, attempt>>

ExpireLease(o) ==
  /\ lease[o] = "live" /\ MayLapse(o)
  /\ lease' = [lease EXCEPT ![o] = "expired"]
  /\ UNCHANGED <<event, session, lock, tx, attempt>>
-----------------------------------------------------------------------------
Attempt(o) ==
  \/ ClaimEvent(o) \/ ReadSession(o) \/ LockSession(o) \/ RefuseLease(o)
  \/ AcquireRaises(o) \/ CommitAcquire(o) \/ StartHandBack(o) \/ CommitHandBack(o)
  \/ StartResult(o) \/ StartFailure(o) \/ LoseOwnership(o) \/ RetriesUsedUp(o)
  \/ CommitResult(o) \/ CommitRetry(o) \/ StartRelease(o) \/ CommitRelease(o)
  \/ Crash(o)

Next ==
  \/ \E o \in Owners : \/ Attempt(o)
                       \/ StartBeat(o) \/ BeatEvent(o) \/ CommitBeat(o)
                       \/ ExpireClaim(o) \/ ExpireLease(o)
  \/ \E t \in Txs : LockNext(t)
  \/ \E t \in Txs \ {Reaper} : BreakDeadlock(t)
  \/ StartBury \/ CommitBury

Spec == Init /\ [][Next]_vars
-----------------------------------------------------------------------------
(* Properties *)

\* Transactions that wait for each other for ever include a heartbeat, which locks
\* the lease before the event: all others keep to an order, the retry that locks
\* version and lease the other way round included (job_attempt_processor.py:198).
OnlyHeartbeatsDeadlock ==
  \A ts \in SUBSET Txs : Deadlocked(ts) => \E o \in Owners : Pulse(o) \in ts

\* However their statements interleave, the transactions change the rows as if
\* each of them were one step, taken by an attempt that owns what it changes at
\* that step: what was checked under a lock or before it still holds at the
\* commit, the unlocked reads of acquire, retry, heartbeat and reaper included.
AsIfAtomic == RowsSpec
=============================================================================
