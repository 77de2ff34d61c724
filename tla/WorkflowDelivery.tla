--------------------------- MODULE WorkflowDelivery ---------------------------
(***************************************************************************)
(* Durable delivery of generation jobs: the API writes a session and an    *)
(* outbox event in one transaction, Redis carries deliveries of the event, *)
(* workers claim the event, lease the session, run the agents and persist  *)
(* the result under both, and the reaper republishes and buries events.    *)
(*                                                                         *)
(* One action is one committed transaction (or one step between two of     *)
(* them).  Time is untimed: "expired", "backoff", "live" and "dispatch"    *)
(* say on which side of now a timestamp column lies, and the actions of    *)
(* the section "Time" move it across, in the orders the constants of the   *)
(* code (claim 300s, lease 300s, renewed every 30s to 300s and 90s) allow. *)
(***************************************************************************)
EXTENDS SessionStatus, Naturals, FiniteSets

CONSTANTS
  Sessions,      \* blog_sessions.id
  Events,        \* workflow_outbox_events.id
  Owners,        \* the f"{worker_id}:{uuid4()}" an attempt claims and leases with
  NoSession, NoEvent, NoOwner,   \* NULL in the columns and fields of these types
  MaxAttempts,   \* max_attempts of retry and fail_exhausted_expired_claims
  AttemptBound,  \* bound of the model: no event is claimed more often than this
  MaxCopies,     \* bound of the model: deliveries of one event Redis holds at once
  Faults         \* the faults the environment may inject

\* crash      a worker, API or relay process dies between two of its steps
\* loss       Redis loses a delivery (restart, or a worker that dies holding it)
\* stall      a worker runs on, but its heartbeats do not commit for a while
\* slowStart  an attempt is held up between its claim and its lease
\* dbError    the transaction that records or retries a failed attempt fails itself
\* skew       a worker cannot decode the payload another release wrote
FaultKinds == {"crash", "loss", "stall", "slowStart", "dbError", "skew"}

ASSUME DeliveryAssumption ==
  /\ NoSession \notin Sessions
  /\ NoEvent \notin Events
  /\ NoOwner \notin Owners
  /\ MaxAttempts \in Nat \ {0}
  /\ AttemptBound \in Nat /\ AttemptBound >= MaxAttempts
  /\ MaxCopies \in Nat \ {0}
  /\ Faults \subseteq FaultKinds

VARIABLES
  session,   \* blog_sessions with its active blog_versions and session_reservations rows
  outbox,    \* workflow_outbox_events
  lease,     \* the one non-ended session_leases row of each session
  queue,     \* how many deliveries of each event Redis holds
  attempt,   \* the worker coroutine that runs under each owner
  publish    \* commit_and_dispatch and the relay, between commit and marker

vars == <<session, outbox, lease, queue, attempt, publish>>

NoLease    == [owner |-> NoOwner, live |-> FALSE, renewed |-> FALSE]
NoSnapshot == [status |-> Absent, phase |-> NoPhase, rev |-> 0]
Idle       == [pc |-> "idle", event |-> NoEvent, seen |-> NoSnapshot]
Publishers == {"api", "relay"}
Silent     == [e \in Events |-> "idle"]

\* status, job_phase and the status of the active version; rev is that
\* version's number; reserved: its session_reservations.released_at is NULL.
SessionRow ==
  [status : Statuses \cup {Absent}, phase : Phases \cup {NoPhase},
   version : Statuses \cup {Absent}, rev : Nat, reserved : BOOLEAN]

\* expired: locked_until <= now; backoff: available_at > now; dispatch: age of
\* dispatched_at against republish_after_seconds.
EventRow ==
  [status : {Absent, "PENDING", "PROCESSING", "PROCESSED", "FAILED"},
   session : Sessions \cup {NoSession}, phase : Phases \cup {NoPhase},
   attempts : 0..AttemptBound, owner : Owners \cup {NoOwner},
   expired : BOOLEAN, backoff : BOOLEAN,
   dispatch : {"never", "fresh", "stale"}]

\* live: lease_expires_at > now; renewed: a heartbeat replaced the first expiry.
LeaseRow == [owner : Owners \cup {NoOwner}, live : BOOLEAN, renewed : BOOLEAN]

\* Where _process stands: the event is claimed; the session row is read;
\* the lease is refused; the agents run; they raised a terminal or a
\* retryable error; the finally clause is left to run.
PreLease  == {"claimed", "read", "refused"}
Beating   == {"running", "failed", "retryable"}
Stages    == {"idle"} \cup PreLease \cup Beating \cup {"releasing"}

Snapshot  == [status : Statuses \cup {Absent}, phase : Phases \cup {NoPhase}, rev : Nat]
Attempt   == [pc : Stages, event : Events \cup {NoEvent}, seen : Snapshot]

TypeOK ==
  /\ session \in [Sessions -> SessionRow]
  /\ outbox  \in [Events -> EventRow]
  /\ lease   \in [Sessions -> LeaseRow]
  /\ queue   \in [Events -> 0..MaxCopies]
  /\ attempt \in [Owners -> Attempt]
  /\ publish \in [Publishers -> [Events -> {"idle", "enqueue", "mark"}]]

NewSession == [status |-> Absent, phase |-> NoPhase, version |-> Absent,
               rev |-> 0, reserved |-> FALSE]
NewEvent   == [status |-> Absent, session |-> NoSession, phase |-> NoPhase,
               attempts |-> 0, owner |-> NoOwner, expired |-> FALSE,
               backoff |-> FALSE, dispatch |-> "never"]

Init ==
  /\ session = [s \in Sessions |-> NewSession]
  /\ outbox  = [e \in Events |-> NewEvent]
  /\ lease   = [s \in Sessions |-> NoLease]
  /\ queue   = [e \in Events |-> 0]
  /\ attempt = [a \in Owners |-> Idle]
  /\ publish = [p \in Publishers |-> Silent]
-----------------------------------------------------------------------------
(* The outbox rows *)

Active(e)       == outbox[e].status \in {"PENDING", "PROCESSING"}
ActiveEvents(s) == {e \in Events : Active(e) /\ outbox[e].session = s}

Claimable(e) ==
  /\ ~outbox[e].backoff
  /\ \/ outbox[e].status = "PENDING"
     \/ outbox[e].status = "PROCESSING" /\ outbox[e].expired

\* Mutant: the republication of old deliveries is forgotten.
DispatchableOnce(e) ==
  /\ ~outbox[e].backoff
  /\ \/ outbox[e].status = "PENDING" /\ outbox[e].dispatch = "never"
     \/ outbox[e].status = "PROCESSING" /\ outbox[e].expired

Dispatchable(e) ==
  /\ ~outbox[e].backoff
  /\ \/ outbox[e].status = "PENDING" /\ outbox[e].dispatch \in {"never", "stale"}
     \/ outbox[e].status = "PROCESSING" /\ outbox[e].expired

Enqueued(s, ph) ==
  [NewEvent EXCEPT !.status = "PENDING", !.session = s, !.phase = ph]

Claimed(row, a) ==
  [row EXCEPT !.status = "PROCESSING", !.attempts = @ + 1, !.owner = a, !.expired = FALSE]

Rescheduled(row) ==
  [row EXCEPT !.status = "PENDING", !.backoff = TRUE, !.dispatch = "never",
              !.owner = NoOwner, !.expired = FALSE]

\* A closed row is never claimed, retried or published again; the columns only
\* those statements read are dropped with it.
Closed(row, st) ==
  [NewEvent EXCEPT !.status = st, !.session = row.session, !.phase = row.phase]

\* _owned_event: the claim is looked up by owner, expired or not.
OwnedEvent(e, a) == outbox[e].status = "PROCESSING" /\ outbox[e].owner = a
-----------------------------------------------------------------------------
(* What an attempt holds *)

EventOf(a)   == attempt[a].event
SessionOf(a) == outbox[EventOf(a)].session
JobPhase(a)  == outbox[EventOf(a)].phase

\* Mutant: the claim is not looked at again.
OwnsAnyClaim(a) == attempt[a].pc # "idle"

\* lock_current_claim
OwnsClaim(a) == OwnedEvent(EventOf(a), a) /\ ~outbox[EventOf(a)].expired

\* assert_current_lease
OwnsLease(a) == lease[SessionOf(a)].owner = a /\ lease[SessionOf(a)].live

\* Mutant: only the status of the session is checked.
OwnsProcessing(a) == session[SessionOf(a)].status = "PROCESSING"

\* _lock_attempt
OwnsAttempt(a) ==
  /\ OwnsClaim(a)
  /\ session[SessionOf(a)].status = "PROCESSING"
  /\ OwnsLease(a)

\* uuid4: no row and no running attempt carries this owner yet.  An owner
\* nothing refers to any more is as good as a new one.
Unused(a) ==
  /\ attempt[a].pc = "idle"
  /\ \A e \in Events : outbox[e].owner # a
  /\ \A s \in Sessions : lease[s].owner # a

\* _release_lease, and the release inside _schedule_retry: no expiry check.
ReleasedBy(a) == IF lease[SessionOf(a)].owner = a
                 THEN [lease EXCEPT ![SessionOf(a)] = NoLease]
                 ELSE lease

Goto(a, pc) == attempt' = [attempt EXCEPT ![a].pc = pc]
Leave(a)    == attempt' = [attempt EXCEPT ![a] = Idle]
-----------------------------------------------------------------------------
(* The API: BlogService, each handler followed by commit_and_dispatch *)

\* The event that get_undispatched_for_aggregate returns is to be published.
Dispatch(e) == publish' = [publish EXCEPT !["api"][e] = "enqueue"]

\* Insert event e for session s; the unique index on the active event of an
\* aggregate makes the insert, and so the transaction, fail otherwise.
Insert(s, e, ph) ==
  /\ outbox[e].status = Absent
  /\ ActiveEvents(s) = {}
  /\ outbox' = [outbox EXCEPT ![e] = Enqueued(s, ph)]
  /\ Dispatch(e)

CreateGeneration(s, e) ==
  /\ session[s].status = Absent
  /\ session' = [session EXCEPT ![s] =
                   [status |-> "QUEUED", phase |-> "fresh_generation",
                    version |-> "QUEUED", rev |-> 1, reserved |-> TRUE]]
  /\ Insert(s, e, "fresh_generation")
  /\ UNCHANGED <<lease, queue, attempt>>

\* A repeated Idempotency-Key finds the session; commit_and_dispatch publishes
\* its pending event again, a rescheduled one in its backoff included.
RepeatGeneration(s, e) ==
  /\ session[s].status \notin TerminalStatuses \cup {Absent}
  /\ outbox[e].session = s /\ outbox[e].status = "PENDING"
  /\ outbox[e].dispatch = "never"
  /\ publish["api"][e] = "idle"
  /\ Dispatch(e)
  /\ UNCHANGED <<session, outbox, lease, queue, attempt>>

SubmitOutlineReview(s, e) ==
  /\ session[s].status = "AWAITING_OUTLINE_REVIEW"
  /\ session' = [session EXCEPT ![s] =
                   [@ EXCEPT !.status = "QUEUED", !.version = "QUEUED",
                             !.phase = "research_phase"]]
  /\ Insert(s, e, "research_phase")
  /\ UNCHANGED <<lease, queue, attempt>>

\* create_revision_from_active: a new version row becomes the active one.
RequestRevision(s, e) ==
  /\ session[s].status = "AWAITING_FINAL_REVIEW"
  /\ session' = [session EXCEPT ![s] =
                   [@ EXCEPT !.status = "QUEUED", !.version = "QUEUED",
                             !.phase = "revision", !.rev = session[s].rev + 1]]
  /\ Insert(s, e, "revision")
  /\ UNCHANGED <<lease, queue, attempt>>

ApproveFinal(s) ==
  /\ session[s].status = "AWAITING_FINAL_REVIEW"
  /\ session' = [session EXCEPT ![s] =
                   [@ EXCEPT !.status = "COMPLETED", !.version = "COMPLETED"]]
  /\ UNCHANGED <<outbox, lease, queue, attempt, publish>>

\* Mutant: the version is not rejected with its session.
RejectSessionOnly(s) ==
  /\ session[s].status = "AWAITING_FINAL_REVIEW"
  /\ session' = [session EXCEPT ![s] =
                   [@ EXCEPT !.status = "REJECTED", !.phase = NoPhase]]
  /\ UNCHANGED <<outbox, lease, queue, attempt, publish>>

\* Mutant: any paused session can be rejected.
RejectAnyReview(s) ==
  /\ session[s].status \in ReviewStatuses
  /\ session' = [session EXCEPT ![s] =
                   [@ EXCEPT !.status = "REJECTED", !.version = "REJECTED",
                             !.phase = NoPhase]]
  /\ UNCHANGED <<outbox, lease, queue, attempt, publish>>

RejectFinal(s) ==
  /\ session[s].status = "AWAITING_FINAL_REVIEW"
  /\ session' = [session EXCEPT ![s] =
                   [@ EXCEPT !.status = "REJECTED", !.version = "REJECTED",
                             !.phase = NoPhase]]
  /\ UNCHANGED <<outbox, lease, queue, attempt, publish>>
-----------------------------------------------------------------------------
(* Publishing: the fast path of the API and the reaper's relay *)

\* get_dispatchable: one batch at a time.
RelayScan ==
  /\ publish["relay"] = Silent
  /\ \E e \in Events : Dispatchable(e)
  /\ publish' = [publish EXCEPT !["relay"] =
                   [e \in Events |-> IF Dispatchable(e) THEN "enqueue" ELSE "idle"]]
  /\ UNCHANGED <<session, outbox, lease, queue, attempt>>

Enqueue(p, e) ==
  /\ publish[p][e] = "enqueue"
  /\ queue[e] < MaxCopies
  /\ queue' = [queue EXCEPT ![e] = @ + 1]
  /\ publish' = [publish EXCEPT ![p][e] = "mark"]
  /\ UNCHANGED <<session, outbox, lease, attempt>>

MarkDispatched(p, e) ==
  /\ publish[p][e] = "mark"
  /\ outbox' = IF Active(e) THEN [outbox EXCEPT ![e].dispatch = "fresh"] ELSE outbox
  /\ publish' = [publish EXCEPT ![p][e] = "idle"]
  /\ UNCHANGED <<session, lease, queue, attempt>>

\* The queue is full, Redis or the marker's transaction fails, or the process
\* dies.  A failed enqueue ends the whole batch of the relay.
StopPublishing(p, e) ==
  /\ \/ publish[p][e] = "enqueue" /\ (queue[e] = MaxCopies \/ "crash" \in Faults)
     \/ publish[p][e] = "mark" /\ "crash" \in Faults
  /\ publish' = IF p = "relay" /\ publish[p][e] = "enqueue"
                THEN [publish EXCEPT ![p] = Silent]
                ELSE [publish EXCEPT ![p][e] = "idle"]
  /\ UNCHANGED <<session, outbox, lease, queue, attempt>>

MarkFailed(row) == [row EXCEPT !.status = "FAILED"]

\* fail_exhausted_expired_claims and mark_failed, in one transaction that opens
\* a pass of the relay (skip_locked may leave rows to a later pass).  The
\* version row and the reservation are left as they are.
ReapExhausted(e) ==
  /\ publish["relay"] = Silent
  /\ outbox[e].status = "PROCESSING" /\ outbox[e].expired
  /\ outbox[e].attempts >= MaxAttempts
  /\ outbox' = [outbox EXCEPT ![e] = Closed(@, "FAILED")]
  /\ session' = LET s == outbox[e].session IN
                IF session[s].status \in TerminalStatuses THEN session
                ELSE [session EXCEPT ![s] = MarkFailed(@)]
  /\ UNCHANGED <<lease, queue, attempt, publish>>
-----------------------------------------------------------------------------
(* A worker takes a delivery *)

\* Dequeue and claim_event; a delivery that waits for the worker's semaphore
\* is still counted in queue.
ClaimEvent(a, e) ==
  /\ Unused(a)
  /\ queue[e] > 0
  /\ Claimable(e)
  /\ outbox[e].attempts < AttemptBound
  /\ outbox' = [outbox EXCEPT ![e] = Claimed(@, a)]
  /\ queue' = [queue EXCEPT ![e] = @ - 1]
  /\ attempt' = [attempt EXCEPT ![a] = [Idle EXCEPT !.pc = "claimed", !.event = e]]
  /\ UNCHANGED <<session, lease, publish>>

\* _handle_unclaimed_delivery: a closed, claimed or delayed event is not
\* delivered again; any other delivery goes back, which changes nothing here.
DropDelivery(e) ==
  /\ queue[e] > 0
  /\ ~Claimable(e)
  /\ queue' = [queue EXCEPT ![e] = @ - 1]
  /\ UNCHANGED <<session, outbox, lease, attempt, publish>>

\* _retry_event: back to PENDING with a backoff, unless the attempts are used
\* up, when the claim stays until it expires.
RetryOwned(e, a) ==
  outbox' = IF OwnedEvent(e, a) /\ outbox[e].attempts < MaxAttempts
            THEN [outbox EXCEPT ![e] = Rescheduled(@)]
            ELSE outbox

\* _hydrate_job: retry, or fail the event; the session is not touched.
RejectPayload(a) ==
  /\ "skew" \in Faults
  /\ attempt[a].pc = "claimed"
  /\ LET e == EventOf(a) IN
     IF OwnedEvent(e, a) /\ outbox[e].attempts >= MaxAttempts
     THEN outbox' = [outbox EXCEPT ![e] = Closed(@, "FAILED")]
     ELSE RetryOwned(e, a)
  /\ Leave(a)
  /\ UNCHANGED <<session, lease, queue, publish>>

\* _acquire_lease loads the session row before it locks it.  The locked read
\* that follows returns the same object of the ORM's identity map, with the
\* values of this first read.
ReadSession(a) ==
  /\ attempt[a].pc = "claimed"
  /\ LET row == session[SessionOf(a)] IN
     attempt' = [attempt EXCEPT ![a] =
       [@ EXCEPT !.pc = "read",
                 !.seen = [status |-> row.status, phase |-> row.phase, rev |-> row.rev]]]
  /\ UNCHANGED <<session, outbox, lease, queue, publish>>

\* Mutant: a redelivery that finds its session PROCESSING is taken for done.
StillQueued(a) ==
  /\ attempt[a].seen.status = "QUEUED"
  /\ attempt[a].seen.phase = JobPhase(a)

\* valid_status and valid_phase
StillWanted(a) ==
  LET seen == attempt[a].seen IN
  /\ seen.status \in WorkStatuses
  /\ seen.status = "QUEUED" => seen.phase = JobPhase(a)

CompleteSuperseded(a) ==
  /\ attempt[a].pc = "read"
  /\ ~StillWanted(a)
  /\ outbox' = IF OwnedEvent(EventOf(a), a)
               THEN [outbox EXCEPT ![EventOf(a)] = Closed(@, "PROCESSED")]
               ELSE outbox
  /\ Leave(a)
  /\ UNCHANGED <<session, lease, queue, publish>>

\* Mutant: the claim alone is trusted.
LeaseNeverBlocks(a) == FALSE

\* Owners are fresh, so a live lease is always another attempt's.
LeaseBlocks(a) == lease[SessionOf(a)].live

RefuseLease(a) ==
  /\ attempt[a].pc = "read"
  /\ StillWanted(a)
  /\ LeaseBlocks(a)
  /\ attempt' = [attempt EXCEPT ![a] = [@ EXCEPT !.pc = "refused", !.seen = NoSnapshot]]
  /\ UNCHANGED <<session, outbox, lease, queue, publish>>

RetryRefused(a) ==
  /\ attempt[a].pc = "refused"
  /\ RetryOwned(EventOf(a), a)
  /\ Leave(a)
  /\ UNCHANGED <<session, lease, queue, publish>>

\* _validate_phase_state wants QUEUED, which an expired lease restores first.
Acquirable(a) ==
  \/ lease[SessionOf(a)].owner # NoOwner
  \/ attempt[a].seen.status = "QUEUED"

\* The ORM writes a column only where it changes the value that was read.
MarkProcessing(row, seen, ph) ==
  [row EXCEPT !.status  = "PROCESSING",
              !.phase   = IF seen.phase = ph THEN row.phase ELSE ph,
              !.version = IF seen.rev = row.rev THEN "PROCESSING" ELSE row.version]

AcquireLease(a) ==
  /\ attempt[a].pc = "read"
  /\ StillWanted(a) /\ ~LeaseBlocks(a) /\ Acquirable(a)
  /\ LET s == SessionOf(a)
     IN /\ lease' = [lease EXCEPT ![s] = [owner |-> a, live |-> TRUE, renewed |-> FALSE]]
        /\ session' = [session EXCEPT ![s] =
                         MarkProcessing(@, attempt[a].seen, JobPhase(a))]
  /\ Goto(a, "running")
  /\ UNCHANGED <<outbox, queue, publish>>

\* The ValueError of _validate_phase_state leaves _process: no acknowledgement,
\* no retry, and the claim stays until it expires.
AcquireRaises(a) ==
  /\ attempt[a].pc = "read"
  /\ StillWanted(a) /\ ~LeaseBlocks(a) /\ ~Acquirable(a)
  /\ Leave(a)
  /\ UNCHANGED <<session, outbox, lease, queue, publish>>
-----------------------------------------------------------------------------
(* A worker runs the agents and records the outcome *)

\* _job_heartbeat commits only when lease and claim are both its own; neither
\* lookup asks whether they have expired.
Heartbeat(a) ==
  /\ attempt[a].pc \in Beating
  /\ OwnedEvent(EventOf(a), a)
  /\ lease[SessionOf(a)].owner = a
  /\ outbox' = [outbox EXCEPT ![EventOf(a)].expired = FALSE]
  /\ lease' = [lease EXCEPT ![SessionOf(a)] = [@ EXCEPT !.live = TRUE, !.renewed = TRUE]]
  /\ UNCHANGED <<session, queue, attempt, publish>>

\* persist_success: session, version, reservation and event in one commit.
Checkpoint(a, st, ph, settle) ==
  /\ attempt[a].pc = "running"
  /\ OwnsAttempt(a)
  /\ LET row == session[SessionOf(a)] IN
     session' = [session EXCEPT ![SessionOf(a)] =
       [row EXCEPT !.status = st, !.version = st, !.phase = ph,
                   !.reserved = row.reserved /\ ~settle]]
  /\ outbox' = [outbox EXCEPT ![EventOf(a)] = Closed(@, "PROCESSED")]
  /\ Goto(a, "releasing")
  /\ UNCHANGED <<lease, queue, publish>>

PersistOutline(a) ==
  /\ attempt[a].pc = "running" /\ JobPhase(a) = "fresh_generation"
  /\ Checkpoint(a, "AWAITING_OUTLINE_REVIEW", session[SessionOf(a)].phase, FALSE)

PersistRejection(a) ==
  /\ attempt[a].pc = "running" /\ JobPhase(a) = "fresh_generation"
  /\ Checkpoint(a, "AGENT_REJECTED", NoPhase, TRUE)

PersistFinal(a) ==
  /\ attempt[a].pc = "running" /\ JobPhase(a) \in {"research_phase", "revision"}
  /\ Checkpoint(a, "AWAITING_FINAL_REVIEW", session[SessionOf(a)].phase, TRUE)

\* The agents, or persist_success itself, raise.
RaiseTerminal(a) ==
  /\ attempt[a].pc = "running"
  /\ Goto(a, "failed")
  /\ UNCHANGED <<session, outbox, lease, queue, publish>>

RaiseRetryable(a) ==
  /\ attempt[a].pc = "running"
  /\ Goto(a, "retryable")
  /\ UNCHANGED <<session, outbox, lease, queue, publish>>

\* WorkflowOwnershipLostError out of persist_success or persist_failure.
LoseOwnership(a) ==
  /\ attempt[a].pc \in {"running", "failed"}
  /\ ~OwnsAttempt(a)
  /\ Goto(a, "releasing")
  /\ UNCHANGED <<session, outbox, lease, queue, publish>>

\* persist_failure and release_all
PersistFailure(a) ==
  /\ attempt[a].pc = "failed"
  /\ OwnsAttempt(a)
  /\ session' = [session EXCEPT ![SessionOf(a)] =
                   [@ EXCEPT !.status = "FAILED", !.version = "FAILED", !.reserved = FALSE]]
  /\ outbox' = [outbox EXCEPT ![EventOf(a)] = Closed(@, "FAILED")]
  /\ Goto(a, "releasing")
  /\ UNCHANGED <<lease, queue, publish>>

FailureNotRecorded(a) ==
  /\ "dbError" \in Faults
  /\ attempt[a].pc = "failed"
  /\ Goto(a, "releasing")
  /\ UNCHANGED <<session, outbox, lease, queue, publish>>

\* recover_stale_processing_session accepts PROCESSING, ignores terminal
\* sessions and raises on the others.
ScheduleRetry(a) ==
  /\ attempt[a].pc = "retryable"
  /\ OwnsClaim(a)
  /\ outbox[EventOf(a)].attempts < MaxAttempts
  /\ session[SessionOf(a)].status \in {"PROCESSING"} \cup TerminalStatuses
  /\ outbox' = [outbox EXCEPT ![EventOf(a)] = Rescheduled(@)]
  /\ LET row == session[SessionOf(a)] IN
     session' = [session EXCEPT ![SessionOf(a)] =
       [row EXCEPT !.status = IF row.status = "PROCESSING" THEN "QUEUED" ELSE row.status,
                   !.version = "QUEUED"]]
  /\ lease' = ReleasedBy(a)
  /\ Goto(a, "releasing")
  /\ UNCHANGED <<queue, publish>>

\* retry declines: the failure is persisted instead.
RetriesUsedUp(a) ==
  /\ attempt[a].pc = "retryable"
  /\ OwnsClaim(a)
  /\ outbox[EventOf(a)].attempts >= MaxAttempts
  /\ Goto(a, "failed")
  /\ UNCHANGED <<session, outbox, lease, queue, publish>>

\* _schedule_retry raises, and its transaction is rolled back.
RetryRaises(a) ==
  /\ attempt[a].pc = "retryable"
  /\ \/ ~OwnsClaim(a) \/ "dbError" \in Faults
     \/ /\ outbox[EventOf(a)].attempts < MaxAttempts
        /\ session[SessionOf(a)].status \notin {"PROCESSING"} \cup TerminalStatuses
  /\ Goto(a, "releasing")
  /\ UNCHANGED <<session, outbox, lease, queue, publish>>

\* The finally clause.
ReleaseLease(a) ==
  /\ attempt[a].pc = "releasing"
  /\ lease' = ReleasedBy(a)
  /\ Leave(a)
  /\ UNCHANGED <<session, outbox, queue, publish>>

Crash(a) ==
  /\ "crash" \in Faults
  /\ attempt[a].pc # "idle"
  /\ Leave(a)
  /\ UNCHANGED <<session, outbox, lease, queue, publish>>
-----------------------------------------------------------------------------
(* Time, and Redis *)

\* The attempt that runs under owner a lets its claim or lease lapse.
Lapses(a) ==
  \/ attempt[a].pc = "idle"
  \/ attempt[a].pc \in PreLease /\ "slowStart" \in Faults
  \/ attempt[a].pc \in Beating \cup {"releasing"} /\ "stall" \in Faults

\* A renewed lease is 210s shorter than the claim renewed with it...
ExpireClaim(e) ==
  /\ outbox[e].status = "PROCESSING" /\ ~outbox[e].expired
  /\ LET a == outbox[e].owner
         l == lease[outbox[e].session]
     IN Lapses(a) /\ ~(l.owner = a /\ l.live /\ l.renewed)
  /\ outbox' = [outbox EXCEPT ![e].expired = TRUE]
  /\ UNCHANGED <<session, lease, queue, attempt, publish>>

\* ...and a lease that was never renewed was taken after the claim, for as long.
ExpireLease(s) ==
  /\ lease[s].live
  /\ LET a == lease[s].owner
     IN /\ Lapses(a)
        /\ lease[s].renewed \/ ~\E e \in Events : OwnedEvent(e, a) /\ ~outbox[e].expired
  /\ lease' = [lease EXCEPT ![s].live = FALSE]
  /\ UNCHANGED <<session, outbox, queue, attempt, publish>>

BackoffElapses(e) ==
  /\ outbox[e].backoff
  /\ outbox' = [outbox EXCEPT ![e].backoff = FALSE]
  /\ UNCHANGED <<session, lease, queue, attempt, publish>>

DispatchGoesStale(e) ==
  /\ outbox[e].status = "PENDING" /\ outbox[e].dispatch = "fresh"
  /\ outbox' = [outbox EXCEPT ![e].dispatch = "stale"]
  /\ UNCHANGED <<session, lease, queue, attempt, publish>>

LoseDelivery(e) ==
  /\ "loss" \in Faults
  /\ queue[e] > 0
  /\ queue' = [queue EXCEPT ![e] = @ - 1]
  /\ UNCHANGED <<session, outbox, lease, attempt, publish>>
-----------------------------------------------------------------------------
UserStep(s) ==
  \/ \E e \in Events : \/ CreateGeneration(s, e) \/ RepeatGeneration(s, e)
                       \/ SubmitOutlineReview(s, e) \/ RequestRevision(s, e)
  \/ ApproveFinal(s) \/ RejectFinal(s)

PublisherStep ==
  \/ RelayScan
  \/ \E p \in Publishers, e \in Events :
       Enqueue(p, e) \/ MarkDispatched(p, e) \/ StopPublishing(p, e)
  \/ \E e \in Events : ReapExhausted(e)

\* One step further in _process.
Advance(a) ==
  \/ RejectPayload(a) \/ ReadSession(a) \/ CompleteSuperseded(a)
  \/ RefuseLease(a) \/ RetryRefused(a) \/ AcquireLease(a) \/ AcquireRaises(a)
  \/ PersistOutline(a) \/ PersistRejection(a) \/ PersistFinal(a)
  \/ RaiseTerminal(a) \/ RaiseRetryable(a) \/ LoseOwnership(a)
  \/ PersistFailure(a) \/ FailureNotRecorded(a)
  \/ ScheduleRetry(a) \/ RetriesUsedUp(a) \/ RetryRaises(a)
  \/ ReleaseLease(a)

WorkerStep(a) ==
  \/ \E e \in Events : ClaimEvent(a, e)
  \/ Advance(a) \/ Heartbeat(a) \/ Crash(a)

TimeStep ==
  \/ \E e \in Events : \/ ExpireClaim(e) \/ BackoffElapses(e) \/ DispatchGoesStale(e)
                       \/ LoseDelivery(e) \/ DropDelivery(e)
  \/ \E s \in Sessions : ExpireLease(s)

Next ==
  \/ \E s \in Sessions : UserStep(s)
  \/ PublisherStep
  \/ \E a \in Owners : WorkerStep(a)
  \/ TimeStep

Spec == Init /\ [][Next]_vars

\* The relay and every started attempt go on, and time passes.  A delivery is
\* enqueued, claimed, and an exhausted event found, if that stays possible
\* again and again: processes are restarted and Redis does not lose every
\* delivery.  Users, heartbeats, crashes and losses are owed nothing.
Fairness ==
  /\ WF_vars(RelayScan)
  /\ \A p \in Publishers, e \in Events :
       /\ WF_vars(Enqueue(p, e) \/ MarkDispatched(p, e) \/ StopPublishing(p, e))
       /\ SF_vars(Enqueue(p, e))
  /\ \A e \in Events :
       /\ SF_vars(\E a \in Owners : ClaimEvent(a, e))
       /\ SF_vars(ReapExhausted(e))
       /\ WF_vars(DropDelivery(e))
       /\ WF_vars(ExpireClaim(e)) /\ WF_vars(BackoffElapses(e))
       /\ WF_vars(DispatchGoesStale(e))
  /\ \A s \in Sessions : WF_vars(ExpireLease(s))
  /\ \A a \in Owners : WF_vars(Advance(a))

FairSpec == Spec /\ Fairness
-----------------------------------------------------------------------------
(* Properties *)

\* A session that is QUEUED or PROCESSING owes exactly one job, whose event is
\* pending or claimed and is of the session's phase, and no other session has
\* one: work is neither lost (a stranded session) nor left over (a review whose
\* continuation the unique index would refuse).
WorkHasEvent ==
  \A s \in Sessions : session[s].status \in WorkStatuses => ActiveEvents(s) # {}

EventHasWork ==
  \A e \in Events : Active(e) =>
    /\ outbox[e].session \in Sessions
    /\ session[outbox[e].session].status \in WorkStatuses
    /\ session[outbox[e].session].phase = outbox[e].phase

OneEventPerSession ==
  \A e, f \in Events :
    Active(e) /\ Active(f) /\ outbox[e].session = outbox[f].session => e = f

OutstandingWork == WorkHasEvent /\ EventHasWork /\ OneEventPerSession

\* Every row and every running attempt refers to rows that exist.
Linked ==
  /\ \A e \in Events : outbox[e].status # Absent => outbox[e].session \in Sessions
  /\ \A a \in Owners : attempt[a].pc # "idle" =>
       EventOf(a) \in Events /\ outbox[EventOf(a)].status # Absent

\* Until it has its lease, an attempt's claim is current...
ClaimIsHeld ==
  \A a \in Owners : attempt[a].pc \in PreLease => OwnsClaim(a)

\* ...so what it read of the session is work for its event.
ReadIsWanted ==
  \A a \in Owners : attempt[a].pc = "read" => StillWanted(a)

\* An attempt whose claim was not taken over goes on with the version it read:
\* nobody revises a session that has an active event.
HydratedFromActive ==
  \A a \in Owners :
    attempt[a].pc \in {"read", "running"} /\ OwnedEvent(EventOf(a), a) =>
      attempt[a].seen.rev = session[SessionOf(a)].rev

\* Why work stays outstanding until it is done, as one inductive invariant:
\* with claims that outlast the start of an attempt, whoever takes the lease
\* works for the one active event of the session, on its active version.
DeliveryInv ==
  /\ TypeOK /\ Linked
  /\ OutstandingWork /\ ClaimIsHeld /\ ReadIsWanted
  /\ HydratedFromActive

\* While heartbeats commit, no two attempts run the agents for one session at
\* the same time, however often Redis delivers and workers crash.
SoleRunner ==
  \A a, b \in Owners :
    /\ attempt[a].pc \in Beating /\ attempt[b].pc \in Beating
    /\ SessionOf(a) = SessionOf(b)
    => a = b

\* An attempt that may still persist works for the session as it is: on the
\* version it was hydrated from and in the phase the session is in.
OwnerIsCurrent ==
  \A a \in Owners :
    attempt[a].pc = "running" /\ OwnsAttempt(a) =>
      /\ attempt[a].seen.rev = session[SessionOf(a)].rev
      /\ JobPhase(a) = session[SessionOf(a)].phase

\* The status, version, phase and reservation of a session whose workflow has
\* ended never change again.
TerminalIsFinal ==
  [][\A s \in Sessions :
       session[s].status \in TerminalStatuses => session'[s] = session[s]]_vars

\* A session moves only along _valid_transitions, or back to the queue when its
\* attempt is to be repeated: the code that sets a status without
\* validate_transition breaks no rule that validate_transition would enforce.
TransitionsAllowed ==
  [][\A s \in Sessions :
       LET from == session[s].status
           to   == session'[s].status
       IN \/ from = Absent /\ to \in {Absent, "QUEUED"}
          \/ from # Absent /\ MayMove(from, to)
          \/ from = "PROCESSING" /\ to = "QUEUED"]_vars

\* The active version has the status of its session, except that the reaper
\* fails a session and leaves its version where the last attempt put it.  (An
\* attempt that reads a session and marks it a review later, under slowStart,
\* would leave the version of the revision QUEUED.)
VersionMirrorsSession ==
  \A s \in Sessions :
    \/ session[s].version = session[s].status
    \/ session[s].status = "FAILED" /\ session[s].version \in WorkStatuses

\* Every session that waits for a worker is worked off: it reaches a review or
\* an end, whatever crashes, however often deliveries are lost and attempts
\* fail on the way.
Settles ==
  \A s \in Sessions :
    session[s].status \in WorkStatuses ~> session[s].status \notin WorkStatuses

\* The outbox protocol implements the lifecycle of a session: the jobs a
\* session owes are the phases of its active events.
Lifecycle == INSTANCE SessionLifecycle WITH
  status <- [s \in Sessions |-> session[s].status],
  phase  <- [s \in Sessions |-> session[s].phase],
  jobs   <- [s \in Sessions |-> {outbox[e].phase : e \in ActiveEvents(s)}]

ImplementsLifecycle == Lifecycle!Spec
=============================================================================
