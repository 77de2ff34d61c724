------------------------ MODULE WorkflowDelivery_proofs ------------------------
(***************************************************************************)
(* Theorems about WorkflowDelivery, for all sets of sessions, events and   *)
(* owners and all bounds.                                                  *)
(***************************************************************************)
EXTENDS WorkflowDelivery, TLAPS

Typed == TypeOK /\ Linked

\* The enumerations and the marks on rows, in every step of the proofs.
USE DEF Beating, PreLease, Stages, Absent, NoPhase, Phases, Publishers,
        MarkProcessing, MarkFailed
-----------------------------------------------------------------------------
(* What the operators on outbox rows return *)

LEMMA NewEventRow == NewEvent \in EventRow
  BY DeliveryAssumption DEF NewEvent, EventRow

LEMMA EnqueuedRow ==
  ASSUME NEW s \in Sessions, NEW ph \in Phases
  PROVE  /\ Enqueued(s, ph) \in EventRow
         /\ Enqueued(s, ph).status = "PENDING"
         /\ Enqueued(s, ph).session = s
         /\ Enqueued(s, ph).phase = ph
  BY NewEventRow DEF Enqueued, EventRow

LEMMA ClaimedRow ==
  ASSUME NEW row \in EventRow, NEW a \in Owners, row.attempts < AttemptBound
  PROVE  /\ Claimed(row, a) \in EventRow
         /\ Claimed(row, a).status = "PROCESSING"
         /\ Claimed(row, a).session = row.session
         /\ Claimed(row, a).phase = row.phase
         /\ Claimed(row, a).owner = a
         /\ ~Claimed(row, a).expired
<1>1. row.attempts + 1 \in 0..AttemptBound
  BY DeliveryAssumption DEF EventRow
<1> QED BY <1>1 DEF Claimed, EventRow

LEMMA RescheduledRow ==
  ASSUME NEW row \in EventRow
  PROVE  /\ Rescheduled(row) \in EventRow
         /\ Rescheduled(row).status = "PENDING"
         /\ Rescheduled(row).session = row.session
         /\ Rescheduled(row).phase = row.phase
  BY DEF Rescheduled, EventRow

LEMMA ClosedRow ==
  ASSUME NEW row \in EventRow, NEW st \in {"PROCESSED", "FAILED"}
  PROVE  /\ Closed(row, st) \in EventRow
         /\ Closed(row, st).status = st
         /\ Closed(row, st).session = row.session
         /\ Closed(row, st).phase = row.phase
  BY NewEventRow DEF Closed, EventRow
-----------------------------------------------------------------------------
(* Type correctness *)

LEMMA TypedInit == ASSUME Init PROVE Typed
  BY DeliveryAssumption, NewEventRow
  DEF Init, Typed, TypeOK, Linked, NewSession, NewEvent, NoLease, Idle, Silent,
      NoSnapshot, SessionRow, EventRow, LeaseRow, Attempt, Snapshot, EventOf

LEMMA InsertTyped ==
  ASSUME Typed, NEW s \in Sessions, NEW e \in Events, NEW ph \in Phases,
         Insert(s, e, ph), UNCHANGED <<lease, queue, attempt>>,
         session' \in [Sessions -> SessionRow]
  PROVE  Typed'
<1>1. outbox' \in [Events -> EventRow]
  BY EnqueuedRow DEF Typed, TypeOK, Insert
<1>2. publish' \in [Publishers -> [Events -> {"idle", "enqueue", "mark"}]]
  BY DEF Typed, TypeOK, Insert, Dispatch
<1>3. TypeOK'
  BY <1>1, <1>2 DEF Typed, TypeOK
<1>4. outbox'[e].status # Absent /\ outbox'[e].session = s
  BY EnqueuedRow DEF Typed, TypeOK, Insert
<1>5. \A f \in Events : f # e => outbox'[f] = outbox[f]
  BY DEF Typed, TypeOK, Insert
<1>6. Linked'
  BY <1>4, <1>5 DEF Typed, Linked, EventOf
<1> QED BY <1>3, <1>6 DEF Typed

\* A step keeps the types of the outbox and of the attempts, and what refers
\* to what.
OutboxKept ==
  /\ outbox' \in [Events -> EventRow]
  /\ \A e \in Events : /\ (outbox'[e].status = Absent) <=> (outbox[e].status = Absent)
                       /\ outbox'[e].session = outbox[e].session

AttemptsKept ==
  /\ attempt' \in [Owners -> Attempt]
  /\ \A a \in Owners : attempt'[a].pc # "idle" =>
       attempt[a].pc # "idle" /\ attempt'[a].event = attempt[a].event

LEMMA OutboxSame == ASSUME Typed, UNCHANGED outbox PROVE OutboxKept
  BY DEF Typed, TypeOK, OutboxKept

LEMMA AttemptsSame == ASSUME Typed, UNCHANGED attempt PROVE AttemptsKept
  BY DEF Typed, TypeOK, AttemptsKept

LEMMA OutboxStep ==
  ASSUME Typed, NEW e, NEW row, outbox' = [outbox EXCEPT ![e] = row],
         e \in Events => /\ row \in EventRow
                         /\ (row.status = Absent) <=> (outbox[e].status = Absent)
                         /\ row.session = outbox[e].session
  PROVE  OutboxKept
<1>1. outbox \in [Events -> EventRow]
  BY DEF Typed, TypeOK
<1>2. outbox' \in [Events -> EventRow]
  BY <1>1
<1>3. ASSUME NEW f \in Events
      PROVE  /\ (outbox'[f].status = Absent) <=> (outbox[f].status = Absent)
             /\ outbox'[f].session = outbox[f].session
  <2>1. CASE f = e
    BY <1>1, <2>1
  <2>2. CASE f # e
    BY <1>1, <2>2
  <2> QED BY <2>1, <2>2
<1> QED BY <1>2, <1>3 DEF OutboxKept

LEMMA GotoStep ==
  ASSUME Typed, NEW a \in Owners, NEW pc \in Stages, attempt[a].pc # "idle", Goto(a, pc)
  PROVE  AttemptsKept
  BY DEF Typed, TypeOK, AttemptsKept, Goto, Attempt

LEMMA LeaveStep ==
  ASSUME Typed, NEW a \in Owners, Leave(a)
  PROVE  AttemptsKept
<1>1. Idle \in Attempt /\ Idle.pc = "idle"
  BY DEF Attempt, Idle, NoSnapshot, Snapshot, Stages
<1>2. attempt' = [attempt EXCEPT ![a] = Idle]
  BY DEF Leave
<1> QED BY <1>1, <1>2 DEF Typed, TypeOK, AttemptsKept

\* An attempt that keeps its event goes on with a new record.
LEMMA AttemptStep ==
  ASSUME Typed, NEW a \in Owners, attempt[a].pc # "idle",
         NEW row \in Attempt, row.event = attempt[a].event,
         attempt' = [attempt EXCEPT ![a] = row]
  PROVE  AttemptsKept
  BY DEF Typed, TypeOK, AttemptsKept

LEMMA SessionRowStep ==
  ASSUME Typed, NEW s, NEW row, s \in Sessions => row \in SessionRow,
         session' = [session EXCEPT ![s] = row]
  PROVE  session' \in [Sessions -> SessionRow]
  BY DEF Typed, TypeOK

LEMMA LeaseRowStep ==
  ASSUME Typed, NEW s, NEW row \in LeaseRow, lease' = [lease EXCEPT ![s] = row]
  PROVE  lease' \in [Sessions -> LeaseRow]
  BY DEF Typed, TypeOK

LEMMA LinkedStep ==
  ASSUME Typed, OutboxKept, AttemptsKept
  PROVE  Linked'
  BY DEF Typed, Linked, EventOf, OutboxKept, AttemptsKept

\* What is left to show of a step that creates no references.
LEMMA TypedStep ==
  ASSUME Typed, OutboxKept, AttemptsKept,
         session' \in [Sessions -> SessionRow],
         lease' \in [Sessions -> LeaseRow],
         queue' \in [Events -> 0..MaxCopies],
         publish' \in [Publishers -> [Events -> {"idle", "enqueue", "mark"}]]
  PROVE  Typed'
<1>1. Linked'
  BY LinkedStep
<1> QED BY <1>1 DEF Typed, TypeOK, OutboxKept, AttemptsKept

LEMMA SessionStep ==
  ASSUME Typed, session' \in [Sessions -> SessionRow],
         UNCHANGED <<outbox, lease, queue, attempt, publish>>
  PROVE  Typed'
  BY TypedStep, OutboxSame, AttemptsSame DEF Typed, TypeOK

LEMMA TypedUser ==
  ASSUME Typed, NEW s \in Sessions, UserStep(s)
  PROVE  Typed'
<1> USE DEF Statuses
<1>0. session \in [Sessions -> SessionRow]
  BY DEF Typed, TypeOK
<1>1. ASSUME NEW e \in Events, CreateGeneration(s, e) PROVE Typed'
  <2>1. session' \in [Sessions -> SessionRow]
    BY <1>0, <1>1 DEF CreateGeneration, SessionRow
  <2> QED BY <1>1, <2>1, InsertTyped DEF CreateGeneration
<1>2. ASSUME NEW e \in Events, RepeatGeneration(s, e) PROVE Typed'
  BY <1>2, TypedStep, OutboxSame, AttemptsSame DEF RepeatGeneration, Dispatch, Typed, TypeOK
<1>3. ASSUME NEW e \in Events, SubmitOutlineReview(s, e) PROVE Typed'
  <2>1. session' \in [Sessions -> SessionRow]
    <3>1. [session[s] EXCEPT !.status = "QUEUED", !.version = "QUEUED",
                             !.phase = "research_phase"] \in SessionRow
      BY <1>0 DEF SessionRow
    <3> QED BY <1>0, <1>3, <3>1 DEF SubmitOutlineReview
  <2> QED BY <1>3, <2>1, InsertTyped DEF SubmitOutlineReview
<1>4. ASSUME NEW e \in Events, RequestRevision(s, e) PROVE Typed'
  <2>1. session' \in [Sessions -> SessionRow]
    <3> DEFINE row == [session[s] EXCEPT !.status = "QUEUED", !.version = "QUEUED",
                                         !.phase = "revision", !.rev = session[s].rev + 1]
    <3>1. row \in SessionRow
      <4>1. session[s] \in SessionRow /\ session[s].rev + 1 \in Nat
        BY <1>0 DEF SessionRow
      <4> QED BY <4>1 DEF SessionRow
    <3>2. session' = [session EXCEPT ![s] = row]
      BY <1>4 DEF RequestRevision
    <3> HIDE DEF row
    <3> QED BY <1>0, <3>1, <3>2
  <2> QED BY <1>4, <2>1, InsertTyped DEF RequestRevision
<1>5. CASE ApproveFinal(s)
  <2>1. session' \in [Sessions -> SessionRow]
    BY <1>0, <1>5, ZenonT(60) DEF ApproveFinal, SessionRow
  <2> QED BY <1>5, <2>1, SessionStep DEF ApproveFinal
<1>6. CASE RejectFinal(s)
  <2>1. session' \in [Sessions -> SessionRow]
    <3>1. [session[s] EXCEPT !.status = "REJECTED", !.version = "REJECTED",
                             !.phase = NoPhase] \in SessionRow
      BY <1>0 DEF SessionRow
    <3> QED BY <1>0, <1>6, <3>1 DEF RejectFinal
  <2> QED BY <1>6, <2>1, SessionStep DEF RejectFinal
<1> QED BY <1>1, <1>2, <1>3, <1>4, <1>5, <1>6 DEF UserStep

LEMMA TypedPublisher == ASSUME Typed, PublisherStep PROVE Typed'
<1>1. CASE RelayScan
  <2>1. publish' \in [Publishers -> [Events -> {"idle", "enqueue", "mark"}]]
    BY <1>1 DEF RelayScan, Typed, TypeOK
  <2> QED BY <1>1, <2>1, TypedStep, OutboxSame, AttemptsSame DEF RelayScan, Typed, TypeOK
<1>2. ASSUME NEW p \in Publishers, NEW e \in Events, Enqueue(p, e) PROVE Typed'
  <2>1. publish' \in [Publishers -> [Events -> {"idle", "enqueue", "mark"}]]
    BY <1>2 DEF Enqueue, Typed, TypeOK
  <2>2. queue' \in [Events -> 0..MaxCopies]
    BY <1>2, DeliveryAssumption DEF Enqueue, Typed, TypeOK
  <2> QED BY <1>2, <2>1, <2>2, TypedStep, OutboxSame, AttemptsSame DEF Enqueue, Typed, TypeOK
<1>3. ASSUME NEW p \in Publishers, NEW e \in Events, MarkDispatched(p, e) PROVE Typed'
  <2>1. publish' \in [Publishers -> [Events -> {"idle", "enqueue", "mark"}]]
    BY <1>3 DEF MarkDispatched, Typed, TypeOK
  <2>2. OutboxKept
    <3>1. CASE Active(e)
      <4> DEFINE row == [outbox[e] EXCEPT !.dispatch = "fresh"]
      <4>1. row \in EventRow /\ row.status = outbox[e].status /\ row.session = outbox[e].session
        BY DEF Typed, TypeOK, EventRow
      <4>2. outbox' = [outbox EXCEPT ![e] = row]
        BY <1>3, <3>1 DEF MarkDispatched
      <4> QED BY <4>1, <4>2, OutboxStep
    <3>2. CASE ~Active(e)
      BY <1>3, <3>2, OutboxSame DEF MarkDispatched
    <3> QED BY <3>1, <3>2
  <2> QED BY <1>3, <2>1, <2>2, TypedStep, AttemptsSame DEF MarkDispatched, Typed, TypeOK
<1>4. ASSUME NEW p \in Publishers, NEW e \in Events, StopPublishing(p, e) PROVE Typed'
  <2>1. publish' \in [Publishers -> [Events -> {"idle", "enqueue", "mark"}]]
    BY <1>4 DEF StopPublishing, Silent, Typed, TypeOK
  <2> QED BY <1>4, <2>1, TypedStep, OutboxSame, AttemptsSame DEF StopPublishing, Typed, TypeOK
<1>5. ASSUME NEW e \in Events, ReapExhausted(e) PROVE Typed'
  <2>1. OutboxKept
    BY <1>5, ClosedRow, OutboxStep DEF ReapExhausted, Typed, TypeOK
  <2>2. session' \in [Sessions -> SessionRow]
    <3> DEFINE s == outbox[e].session
               row == [session[s] EXCEPT !.status = "FAILED"]
    <3>1. s \in Sessions => row \in SessionRow
      BY DEF Typed, TypeOK, SessionRow, Statuses
    <3>2. session' = session \/ session' = [session EXCEPT ![s] = row]
      BY <1>5 DEF ReapExhausted
    <3> HIDE DEF s, row
    <3> QED BY <3>1, <3>2 DEF Typed, TypeOK
  <2> QED BY <1>5, <2>1, <2>2, TypedStep, AttemptsSame DEF ReapExhausted, Typed, TypeOK
<1> QED BY <1>1, <1>2, <1>3, <1>4, <1>5 DEF PublisherStep

LEMMA TypedTime == ASSUME Typed, TimeStep PROVE Typed'
<1>0. outbox \in [Events -> EventRow]
  BY DEF Typed, TypeOK
<1>1. ASSUME NEW e \in Events, ExpireClaim(e) PROVE Typed'
  <2>1. OutboxKept
    <3> DEFINE row == [outbox[e] EXCEPT !.expired = TRUE]
    <3>1. row \in EventRow /\ row.status = outbox[e].status /\ row.session = outbox[e].session
      BY <1>0, ZenonT(60) DEF EventRow
    <3>2. outbox' = [outbox EXCEPT ![e] = row]
      BY <1>1 DEF ExpireClaim
    <3> HIDE DEF row
    <3> QED BY <3>1, <3>2, OutboxStep
  <2> QED BY <1>1, <2>1, TypedStep, AttemptsSame DEF ExpireClaim, Typed, TypeOK
<1>2. ASSUME NEW e \in Events, BackoffElapses(e) PROVE Typed'
  <2>1. OutboxKept
    <3> DEFINE row == [outbox[e] EXCEPT !.backoff = FALSE]
    <3>1. row \in EventRow /\ row.status = outbox[e].status /\ row.session = outbox[e].session
      BY <1>0, ZenonT(60) DEF EventRow
    <3>2. outbox' = [outbox EXCEPT ![e] = row]
      BY <1>2 DEF BackoffElapses
    <3> HIDE DEF row
    <3> QED BY <3>1, <3>2, OutboxStep
  <2> QED BY <1>2, <2>1, TypedStep, AttemptsSame DEF BackoffElapses, Typed, TypeOK
<1>3. ASSUME NEW e \in Events, DispatchGoesStale(e) PROVE Typed'
  <2>1. OutboxKept
    <3> DEFINE row == [outbox[e] EXCEPT !.dispatch = "stale"]
    <3>1. row \in EventRow /\ row.status = outbox[e].status /\ row.session = outbox[e].session
      BY <1>0 DEF EventRow
    <3>2. outbox' = [outbox EXCEPT ![e] = row]
      BY <1>3 DEF DispatchGoesStale
    <3> HIDE DEF row
    <3> QED BY <3>1, <3>2, OutboxStep
  <2> QED BY <1>3, <2>1, TypedStep, AttemptsSame DEF DispatchGoesStale, Typed, TypeOK
<1>4. ASSUME NEW e \in Events, LoseDelivery(e) \/ DropDelivery(e) PROVE Typed'
  <2>1. queue' \in [Events -> 0..MaxCopies]
    BY <1>4, DeliveryAssumption DEF LoseDelivery, DropDelivery, Typed, TypeOK
  <2> QED BY <1>4, <2>1, TypedStep, OutboxSame, AttemptsSame
          DEF LoseDelivery, DropDelivery, Typed, TypeOK
<1>5. ASSUME NEW s \in Sessions, ExpireLease(s) PROVE Typed'
  <2>1. lease' \in [Sessions -> LeaseRow]
    <3> DEFINE row == [lease[s] EXCEPT !.live = FALSE]
    <3>1. row \in LeaseRow
      BY DEF Typed, TypeOK, LeaseRow
    <3>2. lease' = [lease EXCEPT ![s] = row]
      BY <1>5 DEF ExpireLease
    <3> HIDE DEF row
    <3> QED BY <3>1, <3>2, LeaseRowStep
  <2> QED BY <1>5, <2>1, TypedStep, OutboxSame, AttemptsSame DEF ExpireLease, Typed, TypeOK
<1> QED BY <1>1, <1>2, <1>3, <1>4, <1>5 DEF TimeStep

\* An attempt under way refers to an event, and the event to a session.
LEMMA AttemptRefers ==
  ASSUME Typed, NEW a \in Owners, attempt[a].pc # "idle"
  PROVE  /\ EventOf(a) \in Events
         /\ outbox[EventOf(a)] \in EventRow
         /\ outbox[EventOf(a)].status # Absent
         /\ SessionOf(a) \in Sessions
         /\ session[SessionOf(a)] \in SessionRow
  BY DEF Typed, TypeOK, Linked, EventOf, SessionOf

LEMMA RetryOwnedKeeps ==
  ASSUME Typed, NEW e \in Events, NEW a \in Owners, RetryOwned(e, a)
  PROVE  OutboxKept
<1>1. outbox[e] \in EventRow
  BY DEF Typed, TypeOK
<1>2. CASE OwnedEvent(e, a) /\ outbox[e].attempts < MaxAttempts
  <2>1. outbox' = [outbox EXCEPT ![e] = Rescheduled(outbox[e])]
    BY <1>2 DEF RetryOwned
  <2>2. outbox[e].status # Absent
    BY <1>2 DEF OwnedEvent
  <2> QED BY <1>1, <2>1, <2>2, RescheduledRow, OutboxStep
<1>3. CASE ~(OwnedEvent(e, a) /\ outbox[e].attempts < MaxAttempts)
  BY <1>3, OutboxSame DEF RetryOwned
<1> QED BY <1>2, <1>3

LEMMA ClosingKeeps ==
  ASSUME Typed, NEW e \in Events, outbox[e].status # Absent,
         NEW st \in {"PROCESSED", "FAILED"}, outbox' = [outbox EXCEPT ![e] = Closed(@, st)]
  PROVE  OutboxKept
<1>1. outbox[e] \in EventRow
  BY DEF Typed, TypeOK
<1>2. /\ Closed(outbox[e], st) \in EventRow
      /\ Closed(outbox[e], st).status = st
      /\ Closed(outbox[e], st).session = outbox[e].session
  BY <1>1, ClosedRow
<1> QED BY <1>2, OutboxStep

LEMMA ReleasedTyped ==
  ASSUME Typed, NEW a, lease' = ReleasedBy(a)
  PROVE  lease' \in [Sessions -> LeaseRow]
  BY DEF Typed, TypeOK, ReleasedBy, NoLease, LeaseRow

\* Taking a delivery, up to the lease.
LEMMA TypedStart ==
  ASSUME Typed, NEW a \in Owners,
         \/ \E e \in Events : ClaimEvent(a, e)
         \/ RejectPayload(a) \/ ReadSession(a) \/ CompleteSuperseded(a)
         \/ RefuseLease(a) \/ RetryRefused(a) \/ AcquireLease(a) \/ AcquireRaises(a)
  PROVE  Typed'
<1>1. ASSUME NEW e \in Events, ClaimEvent(a, e) PROVE Typed'
  <2>1. OutboxKept
    <3>1. outbox[e] \in EventRow /\ outbox[e].attempts < AttemptBound
      BY <1>1 DEF ClaimEvent, Typed, TypeOK
    <3>2. outbox[e].status # Absent
      BY <1>1 DEF ClaimEvent, Claimable
    <3>3. outbox' = [outbox EXCEPT ![e] = Claimed(outbox[e], a)]
      BY <1>1 DEF ClaimEvent
    <3> QED BY <3>1, <3>2, <3>3, ClaimedRow, OutboxStep
  <2>2. queue' \in [Events -> 0..MaxCopies]
    <3>1. queue[e] \in 0..MaxCopies /\ queue[e] > 0 /\ MaxCopies \in Nat
      BY <1>1, DeliveryAssumption DEF ClaimEvent, Typed, TypeOK
    <3>2. queue[e] - 1 \in 0..MaxCopies
      BY <3>1
    <3> QED BY <1>1, <3>2 DEF ClaimEvent, Typed, TypeOK
  <2>3. attempt' \in [Owners -> Attempt]
    <3> DEFINE row == [Idle EXCEPT !.pc = "claimed", !.event = e]
    <3>1. row \in Attempt
      BY DEF Attempt, Idle, NoSnapshot, Snapshot, Stages, PreLease
    <3>2. attempt' = [attempt EXCEPT ![a] = row]
      BY <1>1 DEF ClaimEvent
    <3> HIDE DEF row
    <3> QED BY <3>1, <3>2 DEF Typed, TypeOK
  <2>4. \A b \in Owners :
          /\ b # a => attempt'[b] = attempt[b]
          /\ b = a => attempt'[b].event = e
    BY <1>1 DEF ClaimEvent, Typed, TypeOK, Idle
  <2>5. outbox'[e].status # Absent
    BY <1>1, <2>1 DEF ClaimEvent, Claimable, OutboxKept
  <2>6. Linked'
    BY <2>1, <2>4, <2>5 DEF Typed, Linked, OutboxKept, EventOf
  <2> QED BY <1>1, <2>1, <2>2, <2>3, <2>6 DEF ClaimEvent, Typed, TypeOK, OutboxKept
<1>2. CASE RejectPayload(a)
  <2>1. attempt[a].pc # "idle"
    BY <1>2 DEF RejectPayload
  <2>2. OutboxKept
    BY <1>2, <2>1, AttemptRefers, RetryOwnedKeeps, ClosingKeeps DEF RejectPayload
  <2> QED BY <1>2, <2>2, LeaveStep, TypedStep DEF RejectPayload, Typed, TypeOK
<1>3. CASE ReadSession(a)
  <2>1. attempt[a].pc # "idle"
    BY <1>3 DEF ReadSession
  <2>2. session[SessionOf(a)] \in SessionRow
    BY <2>1, AttemptRefers
  <2>3. AttemptsKept
    <3> DEFINE r   == session[SessionOf(a)]
               cut == [status |-> r.status, phase |-> r.phase, rev |-> r.rev]
               row == [attempt[a] EXCEPT !.pc = "read", !.seen = cut]
    <3>1. cut \in Snapshot
      BY <2>2 DEF SessionRow, Snapshot
    <3>2. attempt[a] \in Attempt
      BY DEF Typed, TypeOK
    <3>3. attempt' = [attempt EXCEPT ![a] = row]
      BY <1>3 DEF ReadSession
    <3> HIDE DEF cut
    <3>4. row \in Attempt /\ row.event = attempt[a].event
      BY <3>1, <3>2 DEF Attempt, Stages, PreLease
    <3> HIDE DEF row
    <3> QED BY <2>1, <3>3, <3>4, AttemptStep
  <2> QED BY <1>3, <2>3, OutboxSame, TypedStep DEF ReadSession, Typed, TypeOK
<1>4. CASE CompleteSuperseded(a)
  <2>1. attempt[a].pc # "idle"
    BY <1>4 DEF CompleteSuperseded
  <2>2. OutboxKept
    BY <1>4, <2>1, AttemptRefers, ClosingKeeps, OutboxSame DEF CompleteSuperseded
  <2> QED BY <1>4, <2>2, LeaveStep, TypedStep DEF CompleteSuperseded, Typed, TypeOK
<1>5. CASE RefuseLease(a)
  <2>1. AttemptsKept
    <3> DEFINE row == [attempt[a] EXCEPT !.pc = "refused", !.seen = NoSnapshot]
    <3>1. attempt[a] \in Attempt /\ attempt[a].pc # "idle"
      BY <1>5 DEF RefuseLease, Typed, TypeOK
    <3>2. attempt' = [attempt EXCEPT ![a] = row]
      BY <1>5 DEF RefuseLease
    <3>3. row \in Attempt /\ row.event = attempt[a].event
      BY <3>1 DEF Attempt, Stages, PreLease, NoSnapshot, Snapshot
    <3> HIDE DEF row
    <3> QED BY <3>1, <3>2, <3>3, AttemptStep
  <2> QED BY <1>5, <2>1, OutboxSame, TypedStep DEF RefuseLease, Typed, TypeOK
<1>6. CASE RetryRefused(a)
  <2>1. attempt[a].pc # "idle"
    BY <1>6 DEF RetryRefused
  <2>2. OutboxKept
    BY <1>6, <2>1, AttemptRefers, RetryOwnedKeeps DEF RetryRefused
  <2> QED BY <1>6, <2>2, LeaveStep, TypedStep DEF RetryRefused, Typed, TypeOK
<1>7. CASE AcquireLease(a)
  <2>1. attempt[a].pc # "idle"
    BY <1>7 DEF AcquireLease
  <2>2. AttemptsKept
    BY <1>7, <2>1, GotoStep DEF AcquireLease
  <2>3. lease' \in [Sessions -> LeaseRow]
    <3> DEFINE row == [owner |-> a, live |-> TRUE, renewed |-> FALSE]
    <3>1. row \in LeaseRow
      BY DEF LeaseRow
    <3>2. lease' = [lease EXCEPT ![SessionOf(a)] = row]
      BY <1>7 DEF AcquireLease
    <3> HIDE DEF row
    <3> QED BY <3>1, <3>2, LeaseRowStep
  <2>4. session' \in [Sessions -> SessionRow]
    <3> DEFINE s == SessionOf(a)
               ph == JobPhase(a)
               row == [session[s] EXCEPT
                         !.status  = "PROCESSING",
                         !.phase   = IF attempt[a].seen.phase = ph THEN session[s].phase ELSE ph,
                         !.version = IF attempt[a].seen.rev = session[s].rev
                                     THEN "PROCESSING" ELSE session[s].version]
    <3>1. row \in SessionRow
      <4>1. session[s] \in SessionRow /\ ph \in Phases \cup {NoPhase}
        BY <2>1, AttemptRefers DEF EventRow, JobPhase
      <4> HIDE DEF s, ph
      <4> QED BY <4>1 DEF SessionRow, Statuses
    <3>2. session' = [session EXCEPT ![s] = row]
      BY <1>7 DEF AcquireLease
    <3> HIDE DEF s, row
    <3> QED BY <3>1, <3>2 DEF Typed, TypeOK
  <2> QED BY <1>7, <2>2, <2>3, <2>4, OutboxSame, TypedStep DEF AcquireLease, Typed, TypeOK
<1>8. CASE AcquireRaises(a)
  BY <1>8, LeaveStep, OutboxSame, TypedStep DEF AcquireRaises, Typed, TypeOK
<1> QED BY <1>1, <1>2, <1>3, <1>4, <1>5, <1>6, <1>7, <1>8

LEMMA CheckpointTyped ==
  ASSUME Typed, NEW a \in Owners, NEW st \in Statuses, NEW ph, NEW settle \in BOOLEAN,
         SessionOf(a) \in Sessions => ph \in Phases \cup {NoPhase},
         Checkpoint(a, st, ph, settle)
  PROVE  Typed'
<1>1. attempt[a].pc # "idle"
  BY DEF Checkpoint
<1>2. OutboxKept
  BY <1>1, AttemptRefers, ClosingKeeps DEF Checkpoint
<1>3. AttemptsKept
  BY <1>1, GotoStep DEF Checkpoint
<1>4. session' \in [Sessions -> SessionRow]
  <2> DEFINE row == [session[SessionOf(a)] EXCEPT
                       !.status = st, !.version = st, !.phase = ph,
                       !.reserved = session[SessionOf(a)].reserved /\ ~settle]
  <2>1. row \in SessionRow
    <3>1. session[SessionOf(a)] \in SessionRow /\ ph \in Phases \cup {NoPhase}
      BY <1>1, AttemptRefers
    <3> QED BY <3>1 DEF SessionRow
  <2>2. session' = [session EXCEPT ![SessionOf(a)] = row]
    BY DEF Checkpoint
  <2> HIDE DEF row
  <2> QED BY <2>1, <2>2 DEF Typed, TypeOK
<1> QED BY <1>2, <1>3, <1>4, TypedStep DEF Checkpoint, Typed, TypeOK

\* Steps of an attempt that only go on to pc.
LEMMA TypedGoto ==
  ASSUME Typed, NEW a \in Owners, NEW pc \in Stages, attempt[a].pc # "idle",
         Goto(a, pc), UNCHANGED <<session, outbox, lease, queue, publish>>
  PROVE  Typed'
  BY GotoStep, OutboxSame, TypedStep DEF Typed, TypeOK

\* Running the agents and recording the outcome.
LEMMA TypedFinish ==
  ASSUME Typed, NEW a \in Owners,
         \/ Heartbeat(a) \/ PersistOutline(a) \/ PersistRejection(a) \/ PersistFinal(a)
         \/ RaiseTerminal(a) \/ RaiseRetryable(a) \/ LoseOwnership(a)
         \/ PersistFailure(a) \/ FailureNotRecorded(a)
         \/ ScheduleRetry(a) \/ RetriesUsedUp(a) \/ RetryRaises(a)
         \/ ReleaseLease(a) \/ Crash(a)
  PROVE  Typed'
<1>1. CASE Heartbeat(a)
  <2>1. EventOf(a) \in Events /\ outbox[EventOf(a)] \in EventRow
    BY <1>1, AttemptRefers DEF Heartbeat
  <2>2. OutboxKept
    <3> DEFINE row == [outbox[EventOf(a)] EXCEPT !.expired = FALSE]
    <3>1. /\ row \in EventRow
          /\ row.status = outbox[EventOf(a)].status
          /\ row.session = outbox[EventOf(a)].session
      BY <2>1 DEF EventRow
    <3>2. outbox' = [outbox EXCEPT ![EventOf(a)] = row]
      BY <1>1 DEF Heartbeat
    <3> HIDE DEF row
    <3> QED BY <2>1, <3>1, <3>2, OutboxStep
  <2>3. lease' \in [Sessions -> LeaseRow]
    <3> DEFINE row == [lease[SessionOf(a)] EXCEPT !.live = TRUE, !.renewed = TRUE]
    <3>1. SessionOf(a) \in Sessions
      BY <1>1, AttemptRefers DEF Heartbeat, Beating
    <3>2. row \in LeaseRow
      BY <3>1 DEF Typed, TypeOK, LeaseRow
    <3>3. lease' = [lease EXCEPT ![SessionOf(a)] = row]
      BY <1>1 DEF Heartbeat
    <3> HIDE DEF row
    <3> QED BY <3>2, <3>3, LeaseRowStep
  <2> QED BY <1>1, <2>2, <2>3, AttemptsSame, TypedStep DEF Heartbeat, Typed, TypeOK
<1>2. CASE PersistOutline(a) \/ PersistRejection(a) \/ PersistFinal(a)
  <2>1. SessionOf(a) \in Sessions => session[SessionOf(a)].phase \in Phases \cup {NoPhase}
    BY DEF Typed, TypeOK, SessionRow
  <2> QED BY <1>2, <2>1, CheckpointTyped
          DEF PersistOutline, PersistRejection, PersistFinal, Statuses
<1>3. CASE \/ RaiseTerminal(a) \/ RaiseRetryable(a) \/ LoseOwnership(a)
           \/ FailureNotRecorded(a) \/ RetriesUsedUp(a) \/ RetryRaises(a)
  BY <1>3, TypedGoto DEF RaiseTerminal, RaiseRetryable, LoseOwnership,
                         FailureNotRecorded, RetriesUsedUp, RetryRaises
<1>4. CASE PersistFailure(a)
  <2>1. attempt[a].pc # "idle"
    BY <1>4 DEF PersistFailure
  <2>2. OutboxKept
    BY <1>4, <2>1, AttemptRefers, ClosingKeeps DEF PersistFailure
  <2>3. AttemptsKept
    BY <1>4, <2>1, GotoStep DEF PersistFailure
  <2>4. session' \in [Sessions -> SessionRow]
    <3> DEFINE s   == SessionOf(a)
               row == [session[s] EXCEPT !.status = "FAILED", !.version = "FAILED",
                                         !.reserved = FALSE]
    <3>1. s \in Sessions => row \in SessionRow
      BY ZenonT(60) DEF Typed, TypeOK, SessionRow, Statuses
    <3>2. session' = [session EXCEPT ![s] = row]
      BY <1>4 DEF PersistFailure
    <3> HIDE DEF s, row
    <3> QED BY <3>1, <3>2, SessionRowStep
  <2> QED BY <1>4, <2>2, <2>3, <2>4, TypedStep DEF PersistFailure, Typed, TypeOK
<1>5. CASE ScheduleRetry(a)
  <2>1. attempt[a].pc # "idle"
    BY <1>5 DEF ScheduleRetry
  <2>2. OutboxKept
    <3>1. outbox' = [outbox EXCEPT ![EventOf(a)] = Rescheduled(outbox[EventOf(a)])]
      BY <1>5 DEF ScheduleRetry
    <3> QED BY <2>1, <3>1, AttemptRefers, RescheduledRow, OutboxStep
  <2>3. AttemptsKept
    BY <1>5, <2>1, GotoStep DEF ScheduleRetry
  <2>4. session' \in [Sessions -> SessionRow]
    <3> DEFINE s == SessionOf(a)
               row == [session[s] EXCEPT
                         !.status = IF session[s].status = "PROCESSING"
                                    THEN "QUEUED" ELSE session[s].status,
                         !.version = "QUEUED"]
    <3>1. s \in Sessions => row \in SessionRow
      BY DEF Typed, TypeOK, SessionRow, Statuses
    <3>2. session' = [session EXCEPT ![s] = row]
      BY <1>5 DEF ScheduleRetry
    <3> HIDE DEF s, row
    <3> QED BY <3>1, <3>2 DEF Typed, TypeOK
  <2>5. lease' \in [Sessions -> LeaseRow]
    BY <1>5, ReleasedTyped DEF ScheduleRetry
  <2> QED BY <1>5, <2>2, <2>3, <2>4, <2>5, TypedStep DEF ScheduleRetry, Typed, TypeOK
<1>6. CASE ReleaseLease(a)
  <2>1. lease' \in [Sessions -> LeaseRow]
    BY <1>6, ReleasedTyped DEF ReleaseLease
  <2> QED BY <1>6, <2>1, LeaveStep, OutboxSame, TypedStep DEF ReleaseLease, Typed, TypeOK
<1>7. CASE Crash(a)
  BY <1>7, LeaveStep, OutboxSame, TypedStep DEF Crash, Typed, TypeOK
<1> QED BY <1>1, <1>2, <1>3, <1>4, <1>5, <1>6, <1>7

LEMMA TypedNext == ASSUME Typed, [Next]_vars PROVE Typed'
<1>1. CASE UNCHANGED vars
  BY <1>1, SessionStep DEF vars, Typed, TypeOK
<1>2. ASSUME NEW a \in Owners, WorkerStep(a) PROVE Typed'
  BY <1>2, TypedStart, TypedFinish DEF WorkerStep, Advance
<1> QED BY <1>1, <1>2, TypedUser, TypedPublisher, TypedTime DEF Next

\* Type correctness: every column, lease, delivery count and attempt of every
\* reachable state of the delivery protocol has a value of its type, an attempt
\* count within its bound included.
THEOREM TypeCorrect == Spec => []TypeOK
<1>1. Spec => []Typed
  BY TypedInit, TypedNext, PTL DEF Spec
<1>2. Typed => TypeOK
  BY DEF Typed
<1> QED BY <1>1, <1>2, PTL
-----------------------------------------------------------------------------
(* Outstanding work *)

\* The argument: a session in work and its one active event begin together (a
\* user's step) and end together (a checkpoint, a failure or the reaper); every
\* other step keeps both, because whoever takes the lease still holds the
\* claim of that event.

Held(e, a) == OwnedEvent(e, a) /\ ~outbox[e].expired

\* How a step treats events and sessions, as far as work is concerned.
EventKept(e) ==
  /\ Active(e)' <=> Active(e)
  /\ outbox'[e].session = outbox[e].session
  /\ outbox'[e].phase = outbox[e].phase

SessionKept(s) ==
  /\ session'[s].status \in WorkStatuses <=> session[s].status \in WorkStatuses
  /\ session[s].status \in WorkStatuses => session'[s].phase = session[s].phase

LEMMA WorkKept ==
  ASSUME OutstandingWork,
         \A e \in Events : EventKept(e),
         \A s \in Sessions : SessionKept(s)
  PROVE  OutstandingWork'
<1> USE DEF EventKept, SessionKept
<1>1. WorkHasEvent'
  BY DEF OutstandingWork, WorkHasEvent, ActiveEvents
<1>2. EventHasWork'
  BY DEF OutstandingWork, EventHasWork
<1>3. OneEventPerSession'
  BY DEF OutstandingWork, OneEventPerSession
<1> QED BY <1>1, <1>2, <1>3 DEF OutstandingWork

LEMMA WorkBegun ==
  ASSUME OutstandingWork, NEW s \in Sessions, NEW e \in Events,
         ActiveEvents(s) = {}, ~Active(e), Active(e)',
         outbox'[e].session = s, outbox'[e].phase = session'[s].phase,
         session'[s].status \in WorkStatuses,
         \A f \in Events \ {e} : EventKept(f),
         \A r \in Sessions \ {s} : SessionKept(r)
  PROVE  OutstandingWork'
<1> USE DEF EventKept, SessionKept
<1>1. WorkHasEvent'
  BY DEF OutstandingWork, WorkHasEvent, ActiveEvents
<1>2. EventHasWork'
  BY DEF OutstandingWork, EventHasWork, ActiveEvents
<1>3. OneEventPerSession'
  BY DEF OutstandingWork, OneEventPerSession, ActiveEvents
<1> QED BY <1>1, <1>2, <1>3 DEF OutstandingWork

LEMMA WorkDone ==
  ASSUME OutstandingWork, NEW e \in Events, Active(e), ~Active(e)',
         session'[outbox[e].session].status \notin WorkStatuses,
         \A f \in Events \ {e} : EventKept(f),
         \A r \in Sessions \ {outbox[e].session} : SessionKept(r)
  PROVE  OutstandingWork'
<1> USE DEF EventKept, SessionKept
<1>1. WorkHasEvent'
  BY DEF OutstandingWork, WorkHasEvent, ActiveEvents
<1>2. EventHasWork'
  BY DEF OutstandingWork, EventHasWork, OneEventPerSession
<1>3. OneEventPerSession'
  BY DEF OutstandingWork, OneEventPerSession
<1> QED BY <1>1, <1>2, <1>3 DEF OutstandingWork

\* A claim of an attempt that has no lease yet stays as it is.
LEMMA ClaimsKept ==
  ASSUME ClaimIsHeld,
         \A b \in Owners : attempt'[b].pc \in PreLease =>
           /\ attempt[b].pc \in PreLease
           /\ attempt'[b].event = attempt[b].event
           /\ Held(EventOf(b), b) => Held(EventOf(b), b)'
  PROVE  ClaimIsHeld'
  BY DEF ClaimIsHeld, OwnsClaim, Held, OwnedEvent, EventOf

LEMMA ReadsKept ==
  ASSUME ReadIsWanted,
         \A b \in Owners : attempt'[b].pc = "read" =>
           /\ attempt'[b] = attempt[b]
           /\ outbox'[EventOf(b)].phase = outbox[EventOf(b)].phase
  PROVE  ReadIsWanted'
  BY DEF ReadIsWanted, StillWanted, EventOf, JobPhase

Rest == OutstandingWork /\ ClaimIsHeld /\ ReadIsWanted

LEMMA InvInit == ASSUME Init PROVE Rest
  BY DEF Init, Rest, OutstandingWork, WorkHasEvent, EventHasWork, OneEventPerSession, Active,
         ActiveEvents, ClaimIsHeld, ReadIsWanted, NewSession, NewEvent, Idle, WorkStatuses

LEMMA RowWritten ==
  ASSUME Typed, NEW e \in Events, NEW row, outbox' = [outbox EXCEPT ![e] = row]
  PROVE  /\ outbox'[e] = row
         /\ \A f \in Events \ {e} : outbox'[f] = outbox[f]
  BY DEF Typed, TypeOK

LEMMA SessionWritten ==
  ASSUME Typed, NEW s \in Sessions, NEW row, session' = [session EXCEPT ![s] = row]
  PROVE  /\ session'[s] = row
         /\ \A r \in Sessions \ {s} : session'[r] = session[r]
  BY DEF Typed, TypeOK

\* A step that leaves the attempts alone, keeps the phases of events, and
\* keeps the claims of attempts without a lease.
LEMMA AttemptsAside ==
  ASSUME ClaimIsHeld, ReadIsWanted, UNCHANGED attempt,
         \A b \in Owners : attempt[b].pc \in PreLease =>
           /\ outbox'[EventOf(b)].phase = outbox[EventOf(b)].phase
           /\ Held(EventOf(b), b) => Held(EventOf(b), b)'
  PROVE  ClaimIsHeld' /\ ReadIsWanted'
  BY ClaimsKept, ReadsKept

LEMMA OutboxAside ==
  ASSUME ClaimIsHeld, ReadIsWanted, UNCHANGED <<outbox, attempt>>
  PROVE  ClaimIsHeld' /\ ReadIsWanted'
  BY AttemptsAside DEF Held, OwnedEvent, EventOf

LEMMA RestInsert ==
  ASSUME Typed, Rest, NEW s \in Sessions, NEW e \in Events, NEW ph \in Phases, NEW row,
         Insert(s, e, ph), session' = [session EXCEPT ![s] = row],
         row.status = "QUEUED", row.phase = ph, UNCHANGED attempt
  PROVE  Rest'
<1>1. /\ outbox[e].status = Absent
      /\ ActiveEvents(s) = {}
      /\ outbox' = [outbox EXCEPT ![e] = Enqueued(s, ph)]
  BY DEF Insert
<1>2. /\ outbox'[e] = Enqueued(s, ph)
      /\ \A f \in Events \ {e} : outbox'[f] = outbox[f]
  BY <1>1, RowWritten
<1>3. /\ session'[s] = row
      /\ \A r \in Sessions \ {s} : session'[r] = session[r]
  BY SessionWritten
<1>4. OutstandingWork'
  <2>1. /\ ~Active(e) /\ Active(e)'
        /\ outbox'[e].session = s
        /\ outbox'[e].phase = session'[s].phase
    BY <1>1, <1>2, <1>3, EnqueuedRow DEF Active
  <2>2. session'[s].status \in WorkStatuses
    BY <1>3 DEF WorkStatuses
  <2>3. /\ \A f \in Events \ {e} : EventKept(f)
        /\ \A r \in Sessions \ {s} : SessionKept(r)
    BY <1>2, <1>3 DEF EventKept, SessionKept, Active
  <2> QED BY <1>1, <2>1, <2>2, <2>3, WorkBegun DEF Rest
<1>5. \A b \in Owners : attempt[b].pc \in PreLease => EventOf(b) \in Events \ {e}
  BY <1>1, AttemptRefers
<1>6. ClaimIsHeld' /\ ReadIsWanted'
  BY <1>2, <1>5, AttemptsAside DEF Rest, Held, OwnedEvent, EventOf
<1> QED BY <1>4, <1>6 DEF Rest

LEMMA RestUser ==
  ASSUME Typed, Rest, NEW s \in Sessions, UserStep(s)
  PROVE  Rest'
<1>1. ASSUME NEW e \in Events,
             CreateGeneration(s, e) \/ SubmitOutlineReview(s, e) \/ RequestRevision(s, e)
      PROVE  Rest'
  <2>1. CASE CreateGeneration(s, e)
    BY <2>1, RestInsert DEF CreateGeneration
  <2>2. CASE SubmitOutlineReview(s, e)
    <3>1. session[s] \in SessionRow
      BY DEF Typed, TypeOK
    <3> QED BY <2>2, <3>1, RestInsert DEF SubmitOutlineReview, SessionRow
  <2>3. CASE RequestRevision(s, e)
    <3>1. session[s] \in SessionRow
      BY DEF Typed, TypeOK
    <3> QED BY <2>3, <3>1, RestInsert DEF RequestRevision, SessionRow
  <2> QED BY <1>1, <2>1, <2>2, <2>3
<1>2. ASSUME NEW e \in Events, RepeatGeneration(s, e) PROVE Rest'
  BY <1>2, WorkKept, OutboxAside
     DEF RepeatGeneration, Rest, EventKept, SessionKept, Active
<1>3. CASE ApproveFinal(s) \/ RejectFinal(s)
  <2>1. UNCHANGED <<outbox, attempt>>
    BY <1>3 DEF ApproveFinal, RejectFinal
  <2>2. \A r \in Sessions : SessionKept(r)
    <3>1. session[s] \in SessionRow
      BY DEF Typed, TypeOK
    <3> DEFINE done == [session[s] EXCEPT !.status = "COMPLETED", !.version = "COMPLETED"]
               dead == [session[s] EXCEPT !.status = "REJECTED", !.version = "REJECTED",
                                          !.phase = NoPhase]
               row  == IF ApproveFinal(s) THEN done ELSE dead
    <3>2. row.status \notin WorkStatuses
      <4>1. done.status = "COMPLETED" /\ dead.status = "REJECTED"
        BY <3>1 DEF SessionRow
      <4> QED BY <4>1 DEF WorkStatuses
    <3>5. session' = [session EXCEPT ![s] = row]
      BY <1>3 DEF ApproveFinal, RejectFinal
    <3> HIDE DEF row
    <3>3. session[s].status = "AWAITING_FINAL_REVIEW"
      BY <1>3 DEF ApproveFinal, RejectFinal
    <3>4. session'[s] = row /\ \A r \in Sessions \ {s} : session'[r] = session[r]
      BY <3>5, SessionWritten
    <3> QED BY <3>2, <3>3, <3>4 DEF SessionKept, WorkStatuses
  <2> QED BY <2>1, <2>2, WorkKept, OutboxAside DEF Rest, EventKept, Active
<1> QED BY <1>1, <1>2, <1>3 DEF UserStep

\* Steps that write no session and keep what matters of one outbox row.
LEMMA RestRow ==
  ASSUME Typed, Rest, NEW e \in Events, NEW row,
         outbox' = [outbox EXCEPT ![e] = row], UNCHANGED <<session, attempt>>,
         row.status \in {"PENDING", "PROCESSING"} <=> Active(e),
         row.session = outbox[e].session, row.phase = outbox[e].phase,
         \A b \in Owners : attempt[b].pc \in PreLease /\ Held(e, b) =>
           row.status = "PROCESSING" /\ row.owner = b /\ ~row.expired
  PROVE  Rest'
<1>1. /\ outbox'[e] = row
      /\ \A f \in Events \ {e} : outbox'[f] = outbox[f]
  BY RowWritten
<1>2. OutstandingWork'
  BY <1>1, WorkKept DEF Rest, EventKept, SessionKept, Active
<1>3. ClaimIsHeld' /\ ReadIsWanted'
  <2>1. \A b \in Owners : attempt[b].pc \in PreLease => EventOf(b) \in Events
    BY AttemptRefers
  <2> QED BY <1>1, <2>1, AttemptsAside DEF Rest, Held, OwnedEvent, EventOf
<1> QED BY <1>2, <1>3 DEF Rest

LEMMA RestSame ==
  ASSUME Typed, Rest, UNCHANGED <<session, outbox, attempt>>
  PROVE  Rest'
  BY WorkKept, OutboxAside DEF Rest, EventKept, SessionKept, Active

\* What closes the one active event of a session and takes it out of work.
LEMMA RestClosed ==
  ASSUME Typed, Rest, NEW e \in Events, Active(e), NEW st \in {"PROCESSED", "FAILED"}, NEW row,
         outbox' = [outbox EXCEPT ![e] = Closed(@, st)],
         session' = [session EXCEPT ![outbox[e].session] = row],
         row.status \notin WorkStatuses,
         \A b \in Owners : attempt'[b].pc \in PreLease =>
           attempt'[b] = attempt[b] /\ ~Held(e, b)
  PROVE  Rest'
<1>1. outbox[e].session \in Sessions /\ outbox[e] \in EventRow
  BY DEF Rest, OutstandingWork, EventHasWork, Typed, TypeOK
<1>2. /\ outbox'[e].status = st
      /\ outbox'[e].phase = outbox[e].phase
      /\ \A f \in Events \ {e} : outbox'[f] = outbox[f]
  <2>1. outbox' = [outbox EXCEPT ![e] = Closed(outbox[e], st)]
    OBVIOUS
  <2>2. outbox'[e] = Closed(outbox[e], st) /\ \A f \in Events \ {e} : outbox'[f] = outbox[f]
    BY <2>1, RowWritten
  <2> QED BY <1>1, <2>2, ClosedRow
<1>3. /\ session'[outbox[e].session] = row
      /\ \A r \in Sessions \ {outbox[e].session} : session'[r] = session[r]
  BY <1>1, SessionWritten
<1>4. OutstandingWork'
  <2>1. /\ ~Active(e)'
        /\ \A f \in Events \ {e} : EventKept(f)
        /\ \A r \in Sessions \ {outbox[e].session} : SessionKept(r)
    BY <1>2, <1>3 DEF Active, EventKept, SessionKept
  <2> QED BY <1>3, <2>1, WorkDone DEF Rest
<1>5. \A b \in Owners : attempt'[b].pc \in PreLease =>
        EventOf(b) \in Events /\ attempt'[b] = attempt[b] /\ ~Held(e, b)
  BY AttemptRefers
<1>6. ClaimIsHeld'
  BY <1>2, <1>5, ClaimsKept DEF Rest, Held, OwnedEvent, EventOf
<1>7. ReadIsWanted'
  BY <1>2, <1>5, ReadsKept DEF Rest
<1> QED BY <1>4, <1>6, <1>7 DEF Rest

LEMMA RestPublisher == ASSUME Typed, Rest, PublisherStep PROVE Rest'
<1>1. CASE RelayScan
  BY <1>1, RestSame DEF RelayScan
<1>2. ASSUME NEW p \in Publishers, NEW e \in Events,
             Enqueue(p, e) \/ StopPublishing(p, e)
      PROVE  Rest'
  BY <1>2, RestSame DEF Enqueue, StopPublishing
<1>3. ASSUME NEW p \in Publishers, NEW e \in Events, MarkDispatched(p, e) PROVE Rest'
  <2>1. CASE Active(e)
    <3> DEFINE row == [outbox[e] EXCEPT !.dispatch = "fresh"]
    <3>1. outbox[e] \in EventRow
      BY DEF Typed, TypeOK
    <3>2. /\ row.status = outbox[e].status
          /\ row.session = outbox[e].session
          /\ row.phase = outbox[e].phase
          /\ row.owner = outbox[e].owner
          /\ row.expired = outbox[e].expired
      BY <3>1 DEF EventRow
    <3>3. outbox' = [outbox EXCEPT ![e] = row]
      BY <1>3, <2>1 DEF MarkDispatched
    <3> HIDE DEF row
    <3>4. row.status \in {"PENDING", "PROCESSING"} <=> Active(e)
      BY <3>2 DEF Active
    <3>5. \A b \in Owners : Held(e, b) =>
            row.status = "PROCESSING" /\ row.owner = b /\ ~row.expired
      BY <3>2 DEF Held, OwnedEvent
    <3>6. UNCHANGED <<session, attempt>>
      BY <1>3 DEF MarkDispatched
    <3> QED BY <3>2, <3>3, <3>4, <3>5, <3>6, RestRow
  <2>2. CASE ~Active(e)
    BY <1>3, <2>2, RestSame DEF MarkDispatched
  <2> QED BY <2>1, <2>2
<1>4. ASSUME NEW e \in Events, ReapExhausted(e) PROVE Rest'
  <2>1. Active(e) /\ outbox[e].expired
    BY <1>4 DEF ReapExhausted, Active
  <2>2. session[outbox[e].session].status \notin TerminalStatuses
    BY <2>1 DEF Rest, OutstandingWork, EventHasWork, WorkStatuses, TerminalStatuses
  <2>3. outbox[e].session \in Sessions /\ session[outbox[e].session] \in SessionRow
    BY <2>1 DEF Rest, OutstandingWork, EventHasWork, Typed, TypeOK
  <2> DEFINE row == [session[outbox[e].session] EXCEPT !.status = "FAILED"]
  <2>4. session' = [session EXCEPT ![outbox[e].session] = row]
    BY <1>4, <2>2 DEF ReapExhausted
  <2>5. row.status \notin WorkStatuses
    BY <2>3 DEF SessionRow, WorkStatuses
  <2>6. outbox' = [outbox EXCEPT ![e] = Closed(@, "FAILED")] /\ UNCHANGED attempt
    BY <1>4 DEF ReapExhausted
  <2> HIDE DEF row
  <2> QED BY <2>1, <2>4, <2>5, <2>6, RestClosed DEF Held
<1> QED BY <1>1, <1>2, <1>3, <1>4 DEF PublisherStep

LEMMA RestTime == ASSUME Typed, Rest, TimeStep, "slowStart" \notin Faults PROVE Rest'
<1>0. outbox \in [Events -> EventRow]
  BY DEF Typed, TypeOK
<1>1. ASSUME NEW e \in Events, ExpireClaim(e) PROVE Rest'
  <2> DEFINE row == [outbox[e] EXCEPT !.expired = TRUE]
  <2>1. /\ row.status = outbox[e].status
        /\ row.session = outbox[e].session
        /\ row.phase = outbox[e].phase
    BY <1>0 DEF EventRow
  <2>2. outbox' = [outbox EXCEPT ![e] = row] /\ UNCHANGED <<session, attempt>>
    BY <1>1 DEF ExpireClaim
  <2>3. attempt[outbox[e].owner].pc \notin PreLease
    BY <1>1 DEF ExpireClaim, Lapses
  <2> HIDE DEF row
  <2> QED BY <2>1, <2>2, <2>3, RestRow DEF Active, Held, OwnedEvent
<1>2. ASSUME NEW e \in Events, BackoffElapses(e) \/ DispatchGoesStale(e) PROVE Rest'
  <2>1. PICK row : /\ outbox' = [outbox EXCEPT ![e] = row]
                   /\ row.status = outbox[e].status
                   /\ row.session = outbox[e].session
                   /\ row.phase = outbox[e].phase
                   /\ row.owner = outbox[e].owner
                   /\ row.expired = outbox[e].expired
    BY <1>0, <1>2 DEF BackoffElapses, DispatchGoesStale, EventRow
  <2>2. UNCHANGED <<session, attempt>>
    BY <1>2 DEF BackoffElapses, DispatchGoesStale
  <2>3. row.status \in {"PENDING", "PROCESSING"} <=> Active(e)
    BY <2>1 DEF Active
  <2>4. \A b \in Owners : Held(e, b) =>
          row.status = "PROCESSING" /\ row.owner = b /\ ~row.expired
    BY <2>1 DEF Held, OwnedEvent
  <2> QED BY <2>1, <2>2, <2>3, <2>4, RestRow
<1>3. ASSUME NEW e \in Events, LoseDelivery(e) \/ DropDelivery(e) PROVE Rest'
  BY <1>3, RestSame DEF LoseDelivery, DropDelivery
<1>4. ASSUME NEW s \in Sessions, ExpireLease(s) PROVE Rest'
  BY <1>4, RestSame DEF ExpireLease
<1> QED BY <1>1, <1>2, <1>3, <1>4 DEF TimeStep

\* Steps of attempt a that neither begin nor end any work.
LEMMA RestAttempt ==
  ASSUME Typed, Rest, NEW a \in Owners,
         \A e \in Events : EventKept(e),
         \A s \in Sessions : SessionKept(s),
         attempt'[a].pc \notin PreLease,
         \A b \in Owners \ {a} : attempt'[b] = attempt[b],
         \A e \in Events, b \in Owners \ {a} : Held(e, b) => Held(e, b)'
  PROVE  Rest'
<1>1. OutstandingWork'
  BY WorkKept DEF Rest
<1>2. \A b \in Owners : attempt'[b].pc \in PreLease =>
        b # a /\ attempt'[b] = attempt[b] /\ EventOf(b) \in Events
  BY AttemptRefers
<1>3. ClaimIsHeld'
  BY <1>2, ClaimsKept DEF Rest, Held, OwnedEvent, EventOf
<1>4. ReadIsWanted'
  BY <1>2, ReadsKept DEF Rest, EventKept
<1> QED BY <1>1, <1>3, <1>4 DEF Rest

\* An attempt's own row is held by no other attempt.
LEMMA OwnRow ==
  ASSUME Typed, NEW a \in Owners, NEW e \in Events, OwnedEvent(e, a), NEW row,
         outbox' = [outbox EXCEPT ![e] = row]
  PROVE  \A f \in Events, b \in Owners \ {a} : Held(f, b) => Held(f, b)'
  BY RowWritten DEF Held, OwnedEvent

LEMMA MovedOn ==
  ASSUME Typed, NEW a \in Owners, NEW pc, Goto(a, pc)
  PROVE  attempt'[a].pc = pc /\ \A b \in Owners \ {a} : attempt'[b] = attempt[b]
  BY DEF Typed, TypeOK, Goto, Attempt

LEMMA Left ==
  ASSUME Typed, NEW a \in Owners, Leave(a)
  PROVE  attempt'[a].pc = "idle" /\ \A b \in Owners \ {a} : attempt'[b] = attempt[b]
  BY DEF Typed, TypeOK, Leave, Idle

LEMMA RowsSame ==
  ASSUME UNCHANGED <<session, outbox>>
  PROVE  /\ \A e \in Events : EventKept(e)
         /\ \A s \in Sessions : SessionKept(s)
         /\ \A e \in Events, b \in Owners : Held(e, b) => Held(e, b)'
  BY DEF EventKept, SessionKept, Active, Held, OwnedEvent

LEMMA RescheduledKept ==
  ASSUME Typed, NEW a \in Owners, NEW e \in Events, OwnedEvent(e, a),
         outbox' = [outbox EXCEPT ![e] = Rescheduled(@)]
  PROVE  /\ \A f \in Events : EventKept(f)
         /\ \A f \in Events, b \in Owners \ {a} : Held(f, b) => Held(f, b)'
<1>1. outbox' = [outbox EXCEPT ![e] = Rescheduled(outbox[e])]
  OBVIOUS
<1>2. outbox[e] \in EventRow
  BY DEF Typed, TypeOK
<1>3. outbox'[e] = Rescheduled(outbox[e]) /\ \A f \in Events \ {e} : outbox'[f] = outbox[f]
  BY <1>1, RowWritten
<1>4. \A f \in Events : EventKept(f)
  BY <1>2, <1>3, RescheduledRow DEF EventKept, Active, OwnedEvent
<1> QED BY <1>1, <1>4, OwnRow

LEMMA RestStart ==
  ASSUME Typed, Rest, NEW a \in Owners, "skew" \notin Faults,
         \/ \E e \in Events : ClaimEvent(a, e)
         \/ RejectPayload(a) \/ ReadSession(a) \/ CompleteSuperseded(a)
         \/ RefuseLease(a) \/ RetryRefused(a) \/ AcquireLease(a) \/ AcquireRaises(a)
  PROVE  Rest'
<1>1. ASSUME NEW e \in Events, ClaimEvent(a, e) PROVE Rest'
  <2>1. outbox[e] \in EventRow /\ outbox[e].attempts < AttemptBound /\ Claimable(e)
    BY <1>1 DEF ClaimEvent, Typed, TypeOK
  <2>2. outbox' = [outbox EXCEPT ![e] = Claimed(outbox[e], a)] /\ UNCHANGED session
    BY <1>1 DEF ClaimEvent
  <2>3. outbox'[e] = Claimed(outbox[e], a) /\ \A f \in Events \ {e} : outbox'[f] = outbox[f]
    BY <2>2, RowWritten
  <2>4. /\ attempt'[a].pc = "claimed" /\ attempt'[a].event = e
        /\ \A b \in Owners \ {a} : attempt'[b] = attempt[b]
    BY <1>1 DEF ClaimEvent, Typed, TypeOK, Idle
  <2>5. OutstandingWork'
    BY <2>1, <2>2, <2>3, ClaimedRow, WorkKept
       DEF Rest, EventKept, SessionKept, Active, Claimable
  <2>6. \A b \in Owners \ {a} : attempt[b].pc \in PreLease => EventOf(b) \in Events \ {e}
    BY <2>1, AttemptRefers DEF Rest, ClaimIsHeld, OwnsClaim, OwnedEvent, Claimable
  <2>7. ClaimIsHeld'
    BY <2>1, <2>3, <2>4, <2>6, ClaimedRow DEF Rest, ClaimIsHeld, OwnsClaim, OwnedEvent, EventOf
  <2>8. ReadIsWanted'
    BY <2>3, <2>4, <2>6, ReadsKept DEF Rest
  <2> QED BY <2>5, <2>7, <2>8 DEF Rest
<1>2. CASE RejectPayload(a)
  BY <1>2 DEF RejectPayload
<1>3. CASE ReadSession(a)
  <2>1. attempt[a].pc = "claimed" /\ UNCHANGED <<session, outbox>>
    BY <1>3 DEF ReadSession
  <2>2. /\ attempt'[a].pc = "read"
        /\ attempt'[a].event = attempt[a].event
        /\ attempt'[a].seen.status = session[SessionOf(a)].status
        /\ attempt'[a].seen.phase = session[SessionOf(a)].phase
        /\ \A b \in Owners \ {a} : attempt'[b] = attempt[b]
    BY <1>3 DEF ReadSession, Typed, TypeOK, Attempt
  <2>3. OutstandingWork'
    BY <2>1, RowsSame, WorkKept DEF Rest
  <2>4. ClaimIsHeld'
    BY <2>1, <2>2, ClaimsKept DEF Rest, Held, OwnedEvent, EventOf
  <2>5. EventOf(a) \in Events /\ Active(EventOf(a))
    BY <2>1, AttemptRefers DEF Rest, ClaimIsHeld, OwnsClaim, OwnedEvent, Active
  <2>6. /\ session[SessionOf(a)].status \in WorkStatuses
        /\ session[SessionOf(a)].phase = JobPhase(a)
    BY <2>5 DEF Rest, OutstandingWork, EventHasWork, SessionOf, JobPhase
  <2>7. ReadIsWanted'
    BY <2>1, <2>2, <2>6 DEF Rest, ReadIsWanted, StillWanted, EventOf, JobPhase
  <2> QED BY <2>3, <2>4, <2>7 DEF Rest
<1>4. CASE CompleteSuperseded(a)
  BY <1>4 DEF CompleteSuperseded, Rest, ReadIsWanted
<1>5. CASE RefuseLease(a)
  <2>1. attempt[a].pc = "read" /\ UNCHANGED <<session, outbox>>
    BY <1>5 DEF RefuseLease
  <2>2. /\ attempt'[a].pc = "refused"
        /\ attempt'[a].event = attempt[a].event
        /\ \A b \in Owners \ {a} : attempt'[b] = attempt[b]
    BY <1>5 DEF RefuseLease, Typed, TypeOK, Attempt
  <2>3. OutstandingWork'
    BY <2>1, RowsSame, WorkKept DEF Rest
  <2>4. ClaimIsHeld'
    BY <2>1, <2>2, ClaimsKept DEF Rest, Held, OwnedEvent, EventOf
  <2>5. ReadIsWanted'
    BY <2>1, <2>2, ReadsKept DEF Rest
  <2> QED BY <2>3, <2>4, <2>5 DEF Rest
<1>6. CASE RetryRefused(a)
  <2>1. EventOf(a) \in Events /\ Leave(a) /\ RetryOwned(EventOf(a), a) /\ UNCHANGED session
    BY <1>6, AttemptRefers DEF RetryRefused
  <2>2. CASE UNCHANGED outbox
    BY <2>1, <2>2, RowsSame, Left, RestAttempt
  <2>3. CASE /\ OwnedEvent(EventOf(a), a)
             /\ outbox' = [outbox EXCEPT ![EventOf(a)] = Rescheduled(@)]
    BY <2>1, <2>3, RescheduledKept, Left, RestAttempt DEF SessionKept
  <2> QED BY <2>1, <2>2, <2>3 DEF RetryOwned
<1>7. CASE AcquireLease(a)
  <2>1. attempt[a].pc = "read" /\ Goto(a, "running") /\ UNCHANGED outbox
    BY <1>7 DEF AcquireLease
  <2>2. /\ EventOf(a) \in Events /\ Active(EventOf(a))
        /\ SessionOf(a) \in Sessions
        /\ session[SessionOf(a)] \in SessionRow
    BY <2>1, AttemptRefers DEF Rest, ClaimIsHeld, OwnsClaim, OwnedEvent, Active
  <2>3. /\ session[SessionOf(a)].status \in WorkStatuses
        /\ session[SessionOf(a)].phase = JobPhase(a)
    BY <2>2 DEF Rest, OutstandingWork, EventHasWork, SessionOf, JobPhase
  <2> DEFINE old == session[SessionOf(a)]
             row == [old EXCEPT
                       !.status  = "PROCESSING",
                       !.phase   = IF attempt[a].seen.phase = JobPhase(a)
                                   THEN old.phase ELSE JobPhase(a),
                       !.version = IF attempt[a].seen.rev = old.rev
                                   THEN "PROCESSING" ELSE old.version]
  <2>4. /\ session' = [session EXCEPT ![SessionOf(a)] = row]
        /\ row.status = "PROCESSING"
        /\ row.phase = old.phase
    <3>1. session' = [session EXCEPT ![SessionOf(a)] = row]
      BY <1>7 DEF AcquireLease
    <3>2. row.status = "PROCESSING" /\ row.phase = old.phase
      BY <2>2, <2>3 DEF SessionRow
    <3> QED BY <3>1, <3>2
  <2> HIDE DEF row
  <2>5. \A s \in Sessions : SessionKept(s)
    BY <2>2, <2>3, <2>4, SessionWritten DEF SessionKept, WorkStatuses
  <2>6. /\ \A e \in Events : EventKept(e)
        /\ \A e \in Events, b \in Owners : Held(e, b) => Held(e, b)'
    BY <2>1 DEF EventKept, Active, Held, OwnedEvent
  <2> QED BY <2>1, <2>5, <2>6, MovedOn, RestAttempt
<1>8. CASE AcquireRaises(a)
  BY <1>8, RowsSame, Left, RestAttempt DEF AcquireRaises
<1> QED BY <1>1, <1>2, <1>3, <1>4, <1>5, <1>6, <1>7, <1>8

\* persist_success and persist_failure: the event is closed, and the session
\* leaves work.
LEMMA RestOutcome ==
  ASSUME Typed, Rest, NEW a \in Owners, attempt[a].pc # "idle", OwnsAttempt(a),
         NEW st \in {"PROCESSED", "FAILED"}, NEW row,
         outbox' = [outbox EXCEPT ![EventOf(a)] = Closed(@, st)],
         session' = [session EXCEPT ![SessionOf(a)] = row],
         row.status \notin WorkStatuses, Goto(a, "releasing")
  PROVE  Rest'
<1>1. /\ EventOf(a) \in Events /\ Active(EventOf(a))
      /\ outbox[EventOf(a)].session = SessionOf(a)
  BY AttemptRefers DEF OwnsAttempt, OwnsClaim, OwnedEvent, Active, SessionOf
<1>2. outbox[EventOf(a)].owner = a
  BY DEF OwnsAttempt, OwnsClaim, OwnedEvent
<1>3. \A b \in Owners : attempt'[b].pc \in PreLease =>
        attempt'[b] = attempt[b] /\ ~Held(EventOf(a), b)
  BY <1>2, MovedOn DEF Held, OwnedEvent
<1> QED BY <1>1, <1>3, RestClosed

LEMMA RestCheckpoint ==
  ASSUME Typed, Rest, NEW a \in Owners, NEW st \in Statuses \ WorkStatuses, NEW ph,
         NEW settle, Checkpoint(a, st, ph, settle)
  PROVE  Rest'
<1> DEFINE row == [session[SessionOf(a)] EXCEPT
                     !.status = st, !.version = st, !.phase = ph,
                     !.reserved = session[SessionOf(a)].reserved /\ ~settle]
<1>1. /\ attempt[a].pc # "idle" /\ OwnsAttempt(a)
      /\ outbox' = [outbox EXCEPT ![EventOf(a)] = Closed(@, "PROCESSED")]
      /\ session' = [session EXCEPT ![SessionOf(a)] = row]
      /\ Goto(a, "releasing")
  BY DEF Checkpoint
<1>2. row.status = st
  BY <1>1, AttemptRefers DEF SessionRow
<1> HIDE DEF row
<1> QED BY <1>1, <1>2, RestOutcome

LEMMA RestFinish ==
  ASSUME Typed, Rest, NEW a \in Owners,
         \/ Heartbeat(a) \/ PersistOutline(a) \/ PersistRejection(a) \/ PersistFinal(a)
         \/ RaiseTerminal(a) \/ RaiseRetryable(a) \/ LoseOwnership(a)
         \/ PersistFailure(a) \/ FailureNotRecorded(a)
         \/ ScheduleRetry(a) \/ RetriesUsedUp(a) \/ RetryRaises(a)
         \/ ReleaseLease(a) \/ Crash(a)
  PROVE  Rest'
<1>1. CASE Heartbeat(a)
  <2> DEFINE e == EventOf(a)
             row == [outbox[e] EXCEPT !.expired = FALSE]
  <2>1. /\ e \in Events /\ outbox[e] \in EventRow /\ OwnedEvent(e, a)
        /\ outbox' = [outbox EXCEPT ![e] = row]
        /\ attempt[a].pc \notin PreLease
        /\ UNCHANGED <<session, attempt>>
    BY <1>1, AttemptRefers DEF Heartbeat
  <2>2. \A f \in Events : EventKept(f)
    <3>1. row.status = outbox[e].status /\ row.session = outbox[e].session
                                       /\ row.phase = outbox[e].phase
      BY <2>1 DEF EventRow
    <3> HIDE DEF e, row
    <3> QED BY <2>1, <3>1, RowWritten DEF EventKept, Active
  <2> HIDE DEF e, row
  <2> QED BY <2>1, <2>2, OwnRow, RestAttempt DEF SessionKept
<1>2. CASE PersistOutline(a) \/ PersistRejection(a) \/ PersistFinal(a)
  BY <1>2, RestCheckpoint
     DEF PersistOutline, PersistRejection, PersistFinal, Statuses, WorkStatuses
<1>3. CASE \/ RaiseTerminal(a) \/ RaiseRetryable(a) \/ LoseOwnership(a)
           \/ FailureNotRecorded(a) \/ RetriesUsedUp(a) \/ RetryRaises(a)
  <2>1. /\ Goto(a, "failed") \/ Goto(a, "retryable") \/ Goto(a, "releasing")
        /\ UNCHANGED <<session, outbox>>
    BY <1>3 DEF RaiseTerminal, RaiseRetryable, LoseOwnership,
                FailureNotRecorded, RetriesUsedUp, RetryRaises
  <2>2. /\ attempt'[a].pc \notin PreLease
        /\ \A b \in Owners \ {a} : attempt'[b] = attempt[b]
    BY <2>1, MovedOn
  <2> QED BY <2>1, <2>2, RowsSame, RestAttempt
<1>4. CASE PersistFailure(a)
  <2> DEFINE row == [session[SessionOf(a)] EXCEPT
                       !.status = "FAILED", !.version = "FAILED", !.reserved = FALSE]
  <2>1. /\ attempt[a].pc # "idle" /\ OwnsAttempt(a)
        /\ outbox' = [outbox EXCEPT ![EventOf(a)] = Closed(@, "FAILED")]
        /\ session' = [session EXCEPT ![SessionOf(a)] = row]
        /\ Goto(a, "releasing")
    BY <1>4 DEF PersistFailure
  <2>2. row.status \notin WorkStatuses
    BY <2>1, AttemptRefers DEF SessionRow, WorkStatuses
  <2> HIDE DEF row
  <2> QED BY <2>1, <2>2, RestOutcome
<1>5. CASE ScheduleRetry(a)
  <2>1. /\ EventOf(a) \in Events /\ OwnedEvent(EventOf(a), a) /\ Active(EventOf(a))
        /\ SessionOf(a) \in Sessions /\ session[SessionOf(a)] \in SessionRow
        /\ outbox' = [outbox EXCEPT ![EventOf(a)] = Rescheduled(@)]
        /\ Goto(a, "releasing")
    BY <1>5, AttemptRefers DEF ScheduleRetry, OwnsClaim, OwnedEvent, Active
  <2>2. session[SessionOf(a)].status \in WorkStatuses
    BY <2>1 DEF Rest, OutstandingWork, EventHasWork, SessionOf
  <2> DEFINE old == session[SessionOf(a)]
             row == [old EXCEPT
                       !.status = IF old.status = "PROCESSING" THEN "QUEUED" ELSE old.status,
                       !.version = "QUEUED"]
  <2>3. session' = [session EXCEPT ![SessionOf(a)] = row]
    BY <1>5 DEF ScheduleRetry
  <2>4. row.status \in WorkStatuses /\ row.phase = old.phase
    BY <2>1, <2>2 DEF SessionRow, WorkStatuses
  <2> HIDE DEF row
  <2>5. \A s \in Sessions : SessionKept(s)
    BY <2>1, <2>2, <2>3, <2>4, SessionWritten DEF SessionKept
  <2>6. /\ \A f \in Events : EventKept(f)
        /\ \A f \in Events, b \in Owners \ {a} : Held(f, b) => Held(f, b)'
    BY <2>1, RescheduledKept
  <2>7. /\ attempt'[a].pc \notin PreLease
        /\ \A b \in Owners \ {a} : attempt'[b] = attempt[b]
    BY <2>1, MovedOn
  <2> QED BY <2>5, <2>6, <2>7, RestAttempt
<1>6. CASE ReleaseLease(a) \/ Crash(a)
  BY <1>6, RowsSame, Left, RestAttempt DEF ReleaseLease, Crash
<1> QED BY <1>1, <1>2, <1>3, <1>4, <1>5, <1>6

LEMMA RestNext ==
  ASSUME Typed, Rest, [Next]_vars, "slowStart" \notin Faults, "skew" \notin Faults
  PROVE  Rest'
<1>1. CASE UNCHANGED vars
  BY <1>1, RestSame DEF vars
<1>2. ASSUME NEW a \in Owners, WorkerStep(a) PROVE Rest'
  BY <1>2, RestStart, RestFinish DEF WorkerStep, Advance
<1> QED BY <1>1, <1>2, RestUser, RestPublisher, RestTime DEF Next

-----------------------------------------------------------------------------
(* What a step does to a row of the outbox, an attempt and a session *)

\* An event stays with its session and phase, and only a claim gives it an owner.
RowFollows(e) ==
  /\ outbox[e].status # Absent => /\ outbox'[e].session = outbox[e].session
                                  /\ outbox'[e].phase = outbox[e].phase
  /\ \A b \in Owners : OwnedEvent(e, b)' => OwnedEvent(e, b) \/ attempt'[b].pc = "claimed"

LEMMA RowsUntouched == ASSUME UNCHANGED outbox, NEW e \in Events PROVE RowFollows(e)
  BY DEF RowFollows, OwnedEvent

LEMMA RowTouched ==
  ASSUME Typed, NEW e \in Events, NEW row, outbox' = [outbox EXCEPT ![e] = row],
         outbox[e].status # Absent => /\ row.session = outbox[e].session
                                      /\ row.phase = outbox[e].phase,
         row.status = "PROCESSING" =>
           \/ outbox[e].status = "PROCESSING" /\ row.owner = outbox[e].owner
           \/ attempt'[row.owner].pc = "claimed",
         NEW f \in Events
  PROVE  RowFollows(f)
  BY RowWritten DEF RowFollows, OwnedEvent

\* Closing, rescheduling and the steps that change one column.
LEMMA RowClosed ==
  ASSUME Typed, NEW e \in Events, NEW st \in {"PROCESSED", "FAILED"},
         outbox' = [outbox EXCEPT ![e] = Closed(@, st)], NEW f \in Events
  PROVE  RowFollows(f)
<1>1. outbox[e] \in EventRow
  BY DEF Typed, TypeOK
<1>2. /\ Closed(outbox[e], st).status = st
      /\ Closed(outbox[e], st).session = outbox[e].session
      /\ Closed(outbox[e], st).phase = outbox[e].phase
  BY <1>1, ClosedRow
<1>3. outbox' = [outbox EXCEPT ![e] = Closed(outbox[e], st)]
  OBVIOUS
<1> QED BY <1>2, <1>3, RowTouched

LEMMA RowRescheduled ==
  ASSUME Typed, NEW e \in Events,
         outbox' = [outbox EXCEPT ![e] = Rescheduled(@)], NEW f \in Events
  PROVE  RowFollows(f)
<1>1. outbox[e] \in EventRow
  BY DEF Typed, TypeOK
<1>2. /\ Rescheduled(outbox[e]).status = "PENDING"
      /\ Rescheduled(outbox[e]).session = outbox[e].session
      /\ Rescheduled(outbox[e]).phase = outbox[e].phase
  BY <1>1, RescheduledRow
<1>3. outbox' = [outbox EXCEPT ![e] = Rescheduled(outbox[e])]
  OBVIOUS
<1> QED BY <1>2, <1>3, RowTouched

LEMMA RowTicks ==
  ASSUME Typed, NEW e \in Events, NEW f \in Events,
         \/ outbox' = [outbox EXCEPT ![e].expired = TRUE]
         \/ outbox' = [outbox EXCEPT ![e].expired = FALSE]
         \/ outbox' = [outbox EXCEPT ![e].backoff = FALSE]
         \/ outbox' = [outbox EXCEPT ![e].dispatch = "fresh"]
         \/ outbox' = [outbox EXCEPT ![e].dispatch = "stale"]
  PROVE  RowFollows(f)
<1>1. outbox[e] \in EventRow
  BY DEF Typed, TypeOK
<1>2. PICK row : /\ outbox' = [outbox EXCEPT ![e] = row]
                 /\ row.status = outbox[e].status
                 /\ row.session = outbox[e].session
                 /\ row.phase = outbox[e].phase
                 /\ row.owner = outbox[e].owner
  BY <1>1 DEF EventRow
<1> QED BY <1>2, RowTouched

LEMMA RowInserted ==
  ASSUME Typed, NEW s \in Sessions, NEW e \in Events, NEW ph \in Phases,
         Insert(s, e, ph), NEW f \in Events
  PROVE  RowFollows(f)
<1>1. outbox' = [outbox EXCEPT ![e] = Enqueued(s, ph)] /\ outbox[e].status = Absent
  BY DEF Insert
<1>2. Enqueued(s, ph).status = "PENDING"
  BY EnqueuedRow
<1> QED BY <1>1, <1>2, RowTouched

LEMMA RowsFollow == ASSUME Typed, Next, NEW f \in Events PROVE RowFollows(f)
<1>1. ASSUME NEW s \in Sessions, UserStep(s) PROVE RowFollows(f)
  BY <1>1, RowInserted, RowsUntouched
     DEF UserStep, CreateGeneration, RepeatGeneration, SubmitOutlineReview, RequestRevision,
         ApproveFinal, RejectFinal
<1>2. CASE PublisherStep
  <2>1. ASSUME NEW p \in Publishers, NEW e \in Events, MarkDispatched(p, e)
        PROVE  RowFollows(f)
    BY <2>1, RowTicks, RowsUntouched DEF MarkDispatched
  <2>2. ASSUME NEW e \in Events, ReapExhausted(e) PROVE RowFollows(f)
    BY <2>2, RowClosed DEF ReapExhausted
  <2>3. CASE \/ RelayScan
             \/ \E p \in Publishers, e \in Events : Enqueue(p, e) \/ StopPublishing(p, e)
    BY <2>3, RowsUntouched DEF RelayScan, Enqueue, StopPublishing
  <2> QED BY <1>2, <2>1, <2>2, <2>3 DEF PublisherStep
<1>3. CASE TimeStep
  BY <1>3, RowTicks, RowsUntouched
     DEF TimeStep, ExpireClaim, BackoffElapses, DispatchGoesStale, LoseDelivery,
         DropDelivery, ExpireLease
<1>4. ASSUME NEW a \in Owners, NEW e \in Events, ClaimEvent(a, e) PROVE RowFollows(f)
  <2>1. outbox[e] \in EventRow /\ outbox[e].attempts < AttemptBound
    BY <1>4 DEF ClaimEvent, Typed, TypeOK
  <2>2. outbox' = [outbox EXCEPT ![e] = Claimed(outbox[e], a)]
    BY <1>4 DEF ClaimEvent
  <2>3. attempt'[a].pc = "claimed"
    BY <1>4 DEF ClaimEvent, Typed, TypeOK, Idle
  <2> QED BY <2>1, <2>2, <2>3, ClaimedRow, RowTouched
<1>5. ASSUME NEW a \in Owners, Advance(a) \/ Heartbeat(a) \/ Crash(a) PROVE RowFollows(f)
  <2>1. attempt[a].pc # "idle" => EventOf(a) \in Events
    BY AttemptRefers
  <2>2. CASE RejectPayload(a) \/ RetryRefused(a)
    BY <2>1, <2>2, RowClosed, RowRescheduled, RowsUntouched
       DEF RejectPayload, RetryRefused, RetryOwned
  <2>3. CASE CompleteSuperseded(a)
    BY <2>1, <2>3, RowClosed, RowsUntouched DEF CompleteSuperseded
  <2>4. CASE \/ PersistOutline(a) \/ PersistRejection(a) \/ PersistFinal(a)
             \/ PersistFailure(a)
    BY <2>1, <2>4, RowClosed
       DEF PersistOutline, PersistRejection, PersistFinal, Checkpoint, PersistFailure
  <2>5. CASE ScheduleRetry(a)
    BY <2>1, <2>5, RowRescheduled DEF ScheduleRetry
  <2>6. CASE Heartbeat(a)
    BY <2>1, <2>6, RowTicks DEF Heartbeat
  <2>7. CASE \/ ReadSession(a) \/ RefuseLease(a) \/ AcquireLease(a) \/ AcquireRaises(a)
             \/ RaiseTerminal(a) \/ RaiseRetryable(a) \/ LoseOwnership(a)
             \/ FailureNotRecorded(a) \/ RetriesUsedUp(a) \/ RetryRaises(a)
             \/ ReleaseLease(a) \/ Crash(a)
    BY <2>7, RowsUntouched
       DEF ReadSession, RefuseLease, AcquireLease, AcquireRaises, RaiseTerminal,
           RaiseRetryable, LoseOwnership, FailureNotRecorded, RetriesUsedUp, RetryRaises,
           ReleaseLease, Crash
  <2> QED BY <1>5, <2>2, <2>3, <2>4, <2>5, <2>6, <2>7 DEF Advance
<1> QED BY <1>1, <1>2, <1>3, <1>4, <1>5 DEF Next, WorkerStep

\* An attempt reads once, and beats from its lease on, for the same event.
AttemptFollows(b) ==
  /\ attempt'[b].pc = "read" => ReadSession(b) \/ attempt'[b] = attempt[b]
  /\ attempt'[b].pc = "running" => AcquireLease(b) \/ attempt[b].pc = "running"
  /\ attempt'[b].pc \in Beating => /\ AcquireLease(b) \/ attempt[b].pc \in Beating
                                   /\ attempt'[b].event = attempt[b].event
                                   /\ attempt'[b].seen = attempt[b].seen

LEMMA AttemptSame ==
  ASSUME NEW b \in Owners, attempt'[b] = attempt[b]
  PROVE  AttemptFollows(b)
  BY DEF AttemptFollows

LEMMA AttemptGone ==
  ASSUME NEW b \in Owners, attempt'[b].pc \notin {"read"} \cup Beating
  PROVE  AttemptFollows(b)
  BY DEF AttemptFollows

LEMMA WorkerFollows ==
  ASSUME Typed, NEW a \in Owners, WorkerStep(a), NEW b \in Owners
  PROVE  AttemptFollows(b)
<1>0. attempt \in [Owners -> Attempt]
  BY DEF Typed, TypeOK
<1>1. ASSUME NEW e \in Events, ClaimEvent(a, e) PROVE AttemptFollows(b)
  <2>1. attempt'[a].pc = "claimed" /\ (b # a => attempt'[b] = attempt[b])
    BY <1>0, <1>1 DEF ClaimEvent, Idle
  <2> QED BY <2>1, AttemptSame, AttemptGone
<1>2. CASE \/ RejectPayload(a) \/ CompleteSuperseded(a) \/ RetryRefused(a)
           \/ AcquireRaises(a) \/ ReleaseLease(a) \/ Crash(a)
  <2>1. Leave(a)
    BY <1>2 DEF RejectPayload, CompleteSuperseded, RetryRefused, AcquireRaises,
                ReleaseLease, Crash
  <2>2. attempt'[a].pc = "idle" /\ (b # a => attempt'[b] = attempt[b])
    BY <2>1, Left
  <2> QED BY <2>2, AttemptSame, AttemptGone
<1>3. CASE ReadSession(a)
  <2>1. attempt'[a].pc = "read" /\ (b # a => attempt'[b] = attempt[b])
    BY <1>0, <1>3 DEF ReadSession, Attempt
  <2>2. AttemptFollows(a)
    BY <1>3, <2>1 DEF AttemptFollows
  <2> QED BY <2>1, <2>2, AttemptSame
<1>4. CASE RefuseLease(a)
  <2>1. attempt'[a].pc = "refused" /\ (b # a => attempt'[b] = attempt[b])
    BY <1>0, <1>4 DEF RefuseLease, Attempt
  <2> QED BY <2>1, AttemptSame, AttemptGone
<1>5. CASE AcquireLease(a)
  <2>1. Goto(a, "running")
    BY <1>5 DEF AcquireLease
  <2>2. /\ attempt'[a].pc = "running"
        /\ attempt'[a].event = attempt[a].event
        /\ attempt'[a].seen = attempt[a].seen
        /\ b # a => attempt'[b] = attempt[b]
    BY <1>0, <2>1 DEF Goto, Attempt
  <2>3. AttemptFollows(a)
    BY <1>5, <2>2 DEF AttemptFollows
  <2> QED BY <2>2, <2>3, AttemptSame
<1>6. CASE RaiseTerminal(a) \/ RaiseRetryable(a) \/ RetriesUsedUp(a)
  <2>1. /\ Goto(a, "failed") \/ Goto(a, "retryable")
        /\ attempt[a].pc \in Beating
    BY <1>6 DEF RaiseTerminal, RaiseRetryable, RetriesUsedUp
  <2>2. /\ attempt'[a].pc \in {"failed", "retryable"}
        /\ attempt'[a].event = attempt[a].event
        /\ attempt'[a].seen = attempt[a].seen
        /\ b # a => attempt'[b] = attempt[b]
    BY <1>0, <2>1 DEF Goto, Attempt
  <2>3. AttemptFollows(a)
    BY <2>1, <2>2 DEF AttemptFollows
  <2> QED BY <2>2, <2>3, AttemptSame
<1>7. CASE \/ PersistOutline(a) \/ PersistRejection(a) \/ PersistFinal(a)
           \/ LoseOwnership(a) \/ PersistFailure(a) \/ FailureNotRecorded(a)
           \/ ScheduleRetry(a) \/ RetryRaises(a)
  <2>1. Goto(a, "releasing")
    BY <1>7 DEF PersistOutline, PersistRejection, PersistFinal, Checkpoint, LoseOwnership,
                PersistFailure, FailureNotRecorded, ScheduleRetry, RetryRaises
  <2>2. attempt'[a].pc = "releasing" /\ (b # a => attempt'[b] = attempt[b])
    BY <2>1, MovedOn
  <2> QED BY <2>2, AttemptSame, AttemptGone
<1>8. CASE Heartbeat(a)
  BY <1>8, AttemptSame DEF Heartbeat
<1> QED BY <1>1, <1>2, <1>3, <1>4, <1>5, <1>6, <1>7, <1>8 DEF WorkerStep, Advance

LEMMA AttemptsFollow == ASSUME Typed, Next, NEW b \in Owners PROVE AttemptFollows(b)
<1>1. ASSUME NEW s \in Sessions, UserStep(s) PROVE UNCHANGED attempt
  BY <1>1 DEF UserStep, CreateGeneration, RepeatGeneration, SubmitOutlineReview,
              RequestRevision, ApproveFinal, RejectFinal
<1>2. CASE PublisherStep
  BY <1>2, AttemptSame
     DEF PublisherStep, RelayScan, Enqueue, MarkDispatched, StopPublishing, ReapExhausted
<1>3. CASE TimeStep
  BY <1>3, AttemptSame
     DEF TimeStep, ExpireClaim, BackoffElapses, DispatchGoesStale, LoseDelivery,
         DropDelivery, ExpireLease
<1>4. ASSUME NEW a \in Owners, WorkerStep(a) PROVE AttemptFollows(b)
  BY <1>4, WorkerFollows
<1> QED BY <1>1, <1>2, <1>3, <1>4, AttemptSame DEF Next
-----------------------------------------------------------------------------
(* The attempts go on with the active version *)

LEMMA HydratedInit == ASSUME Init PROVE HydratedFromActive
  BY DEF Init, HydratedFromActive, Idle

\* The session row of an attempt that holds its claim is one in work.
LEMMA ClaimedWork ==
  ASSUME Typed, OutstandingWork, NEW a \in Owners, attempt[a].pc # "idle",
         OwnedEvent(EventOf(a), a)
  PROVE  /\ SessionOf(a) \in Sessions
         /\ session[SessionOf(a)] \in SessionRow
         /\ session[SessionOf(a)].status \in WorkStatuses
         /\ session[SessionOf(a)].phase = JobPhase(a)
  BY AttemptRefers
     DEF OutstandingWork, EventHasWork, Active, OwnedEvent, SessionOf, JobPhase

\* One step of the lifecycle of a session, from its row to the row written.
Advances(old, new) ==
  \/ old.status = Absent /\ new.status = "QUEUED" /\ new.phase = "fresh_generation"
  \/ /\ old.status = "AWAITING_OUTLINE_REVIEW"
     /\ new.status = "QUEUED" /\ new.phase = "research_phase"
  \/ old.status = "AWAITING_FINAL_REVIEW" /\ new.status = "QUEUED" /\ new.phase = "revision"
  \/ /\ old.status = "AWAITING_FINAL_REVIEW"
     /\ new.status = "COMPLETED" /\ new.phase = old.phase
  \/ /\ old.status = "AWAITING_FINAL_REVIEW"
     /\ new.status = "REJECTED" /\ new.phase = NoPhase
  \/ old.status \in WorkStatuses /\ new.status = "PROCESSING" /\ new.phase = old.phase
  \/ old.status = "PROCESSING" /\ new.status = "QUEUED" /\ new.phase = old.phase
  \/ /\ old.status = "PROCESSING" /\ old.phase = "fresh_generation"
     /\ \/ new.status = "AWAITING_OUTLINE_REVIEW" /\ new.phase = old.phase
        \/ new.status = "AGENT_REJECTED" /\ new.phase = NoPhase
  \/ /\ old.status = "PROCESSING" /\ old.phase \in {"research_phase", "revision"}
     /\ new.status = "AWAITING_FINAL_REVIEW" /\ new.phase = old.phase
  \/ old.status \in WorkStatuses /\ new.status = "FAILED" /\ new.phase = old.phase

\* What a step may write to a session.
Rewrites(old, new) ==
  /\ Advances(old, new)
  /\ old.status \in WorkStatuses => new.rev = old.rev
  /\ \/ new.version = new.status
     \/ new.status = "FAILED" /\ new.version = old.version

SessionsFollow ==
  \/ UNCHANGED session
  \/ \E s \in Sessions, row \in SessionRow :
       session' = [session EXCEPT ![s] = row] /\ Rewrites(session[s], row)

LEMMA SessionsUntouched == ASSUME UNCHANGED session PROVE SessionsFollow
  BY DEF SessionsFollow

LEMMA RewriteFollows ==
  ASSUME NEW s \in Sessions, NEW row, session' = [session EXCEPT ![s] = row],
         row \in SessionRow, Rewrites(session[s], row)
  PROVE  SessionsFollow
  BY DEF SessionsFollow

LEMMA UserFollows ==
  ASSUME Typed, NEW s \in Sessions, UserStep(s)
  PROVE  SessionsFollow
<1>0. session[s] \in SessionRow
  BY DEF Typed, TypeOK
<1>1. ASSUME NEW e \in Events, CreateGeneration(s, e) PROVE SessionsFollow
  <2> DEFINE row == [status |-> "QUEUED", phase |-> "fresh_generation",
                     version |-> "QUEUED", rev |-> 1, reserved |-> TRUE]
  <2>1. session' = [session EXCEPT ![s] = row] /\ session[s].status = Absent
    BY <1>1 DEF CreateGeneration
  <2>2. row \in SessionRow /\ Rewrites(session[s], row)
    BY <2>1 DEF Rewrites, Advances, SessionRow, Statuses, WorkStatuses
  <2> HIDE DEF row
  <2> QED BY <2>1, <2>2, RewriteFollows
<1>2. ASSUME NEW e \in Events, SubmitOutlineReview(s, e) PROVE SessionsFollow
  <2> DEFINE row == [session[s] EXCEPT !.status = "QUEUED", !.version = "QUEUED",
                                       !.phase = "research_phase"]
  <2>1. /\ session' = [session EXCEPT ![s] = row]
        /\ session[s].status = "AWAITING_OUTLINE_REVIEW"
    BY <1>2 DEF SubmitOutlineReview
  <2>2. row \in SessionRow /\ Rewrites(session[s], row)
    BY <1>0, <2>1 DEF Rewrites, Advances, SessionRow, Statuses, WorkStatuses
  <2> HIDE DEF row
  <2> QED BY <2>1, <2>2, RewriteFollows
<1>3. ASSUME NEW e \in Events, RequestRevision(s, e) PROVE SessionsFollow
  <2> DEFINE row == [session[s] EXCEPT !.status = "QUEUED", !.version = "QUEUED",
                                       !.phase = "revision", !.rev = session[s].rev + 1]
  <2>1. /\ session' = [session EXCEPT ![s] = row]
        /\ session[s].status = "AWAITING_FINAL_REVIEW"
    BY <1>3 DEF RequestRevision
  <2>2. session[s].rev + 1 \in Nat
    BY <1>0 DEF SessionRow
  <2>3. row \in SessionRow /\ Rewrites(session[s], row)
    BY <1>0, <2>1, <2>2 DEF Rewrites, Advances, SessionRow, Statuses, WorkStatuses
  <2> HIDE DEF row
  <2> QED BY <2>1, <2>3, RewriteFollows
<1>4. CASE ApproveFinal(s)
  <2> DEFINE row == [session[s] EXCEPT !.status = "COMPLETED", !.version = "COMPLETED"]
  <2>1. /\ session' = [session EXCEPT ![s] = row]
        /\ session[s].status = "AWAITING_FINAL_REVIEW"
    BY <1>4 DEF ApproveFinal
  <2>2. row \in SessionRow /\ Rewrites(session[s], row)
    BY <1>0, <2>1 DEF Rewrites, Advances, SessionRow, Statuses, WorkStatuses
  <2> HIDE DEF row
  <2> QED BY <2>1, <2>2, RewriteFollows
<1>5. CASE RejectFinal(s)
  <2> DEFINE row == [session[s] EXCEPT !.status = "REJECTED", !.version = "REJECTED",
                                       !.phase = NoPhase]
  <2>1. /\ session' = [session EXCEPT ![s] = row]
        /\ session[s].status = "AWAITING_FINAL_REVIEW"
    BY <1>5 DEF RejectFinal
  <2>2. row \in SessionRow /\ Rewrites(session[s], row)
    BY <1>0, <2>1 DEF Rewrites, Advances, SessionRow, Statuses, WorkStatuses
  <2> HIDE DEF row
  <2> QED BY <2>1, <2>2, RewriteFollows
<1>6. ASSUME NEW e \in Events, RepeatGeneration(s, e) PROVE SessionsFollow
  BY <1>6, SessionsUntouched DEF RepeatGeneration
<1> QED BY <1>1, <1>2, <1>3, <1>4, <1>5, <1>6 DEF UserStep

LEMMA ReapFollows ==
  ASSUME Typed, Rest, NEW e \in Events, ReapExhausted(e)
  PROVE  SessionsFollow
<1>1. Active(e)
  BY DEF ReapExhausted, Active
<1> DEFINE s   == outbox[e].session
           row == [session[s] EXCEPT !.status = "FAILED"]
<1>2. s \in Sessions /\ session[s] \in SessionRow /\ session[s].status \in WorkStatuses
  BY <1>1 DEF Rest, OutstandingWork, EventHasWork, Typed, TypeOK
<1>3. session' = [session EXCEPT ![s] = row]
  BY <1>2 DEF ReapExhausted, WorkStatuses, TerminalStatuses
<1>4. row \in SessionRow /\ Rewrites(session[s], row)
  BY <1>2 DEF Rewrites, Advances, SessionRow, Statuses, WorkStatuses
<1> HIDE DEF s, row
<1> QED BY <1>2, <1>3, <1>4, RewriteFollows

LEMMA AcquireFollows ==
  ASSUME Typed, Rest, HydratedFromActive, NEW a \in Owners, AcquireLease(a)
  PROVE  SessionsFollow
<1>1. attempt[a].pc = "read" /\ OwnedEvent(EventOf(a), a)
  BY DEF AcquireLease, Rest, ClaimIsHeld, OwnsClaim
<1> DEFINE s   == SessionOf(a)
           row == [session[s] EXCEPT
                     !.status  = "PROCESSING",
                     !.phase   = IF attempt[a].seen.phase = JobPhase(a)
                                 THEN session[s].phase ELSE JobPhase(a),
                     !.version = IF attempt[a].seen.rev = session[s].rev
                                 THEN "PROCESSING" ELSE session[s].version]
<1>2. /\ s \in Sessions /\ session[s] \in SessionRow
      /\ session[s].status \in WorkStatuses
      /\ session[s].phase = JobPhase(a)
  BY <1>1, ClaimedWork DEF Rest
<1>3. attempt[a].seen.rev = session[s].rev
  BY <1>1 DEF HydratedFromActive
<1>4. session' = [session EXCEPT ![s] = row]
  BY DEF AcquireLease
<1>5. row = [session[s] EXCEPT !.status = "PROCESSING", !.phase = session[s].phase,
                               !.version = "PROCESSING"]
  BY <1>2, <1>3
<1> HIDE DEF s, row
<1>6. row \in SessionRow /\ Rewrites(session[s], row)
  BY <1>2, <1>5 DEF Rewrites, Advances, SessionRow, Statuses, WorkStatuses
<1> QED BY <1>2, <1>4, <1>6, RewriteFollows

\* The three results of persist_success.
CheckpointRow(row, st, ph, settle) ==
  [row EXCEPT !.status = st, !.version = st, !.phase = ph,
              !.reserved = row.reserved /\ ~settle]

LEMMA CheckpointFollows ==
  ASSUME Typed, Rest, NEW a \in Owners, NEW st \in Statuses, NEW ph \in Phases \cup {NoPhase},
         NEW settle \in BOOLEAN, Checkpoint(a, st, ph, settle),
         \/ /\ JobPhase(a) = "fresh_generation"
            /\ \/ st = "AWAITING_OUTLINE_REVIEW" /\ ph = session[SessionOf(a)].phase
               \/ st = "AGENT_REJECTED" /\ ph = NoPhase
         \/ /\ JobPhase(a) \in {"research_phase", "revision"}
            /\ st = "AWAITING_FINAL_REVIEW" /\ ph = session[SessionOf(a)].phase
  PROVE  SessionsFollow
<1> DEFINE s == SessionOf(a)
           row == CheckpointRow(session[s], st, ph, settle)
<1>1. /\ attempt[a].pc # "idle" /\ OwnsAttempt(a)
      /\ session' = [session EXCEPT ![s] = row]
  BY DEF Checkpoint, CheckpointRow
<1>2. /\ s \in Sessions /\ session[s] \in SessionRow
      /\ session[s].status = "PROCESSING"
      /\ session[s].phase = JobPhase(a)
  BY <1>1, ClaimedWork DEF Rest, OwnsAttempt, OwnsClaim
<1>3. (session[s].reserved /\ ~settle) \in BOOLEAN
  BY <1>2 DEF SessionRow
<1>4. /\ row \in SessionRow
      /\ row.status = st /\ row.version = st /\ row.phase = ph /\ row.rev = session[s].rev
  BY <1>2, <1>3 DEF SessionRow, CheckpointRow
<1> HIDE DEF row
<1>5. Rewrites(session[s], row)
  BY <1>2, <1>4 DEF Rewrites, Advances
<1> QED BY <1>1, <1>2, <1>4, <1>5, RewriteFollows

LEMMA FinishFollows ==
  ASSUME Typed, Rest, NEW a \in Owners,
         \/ PersistOutline(a) \/ PersistRejection(a) \/ PersistFinal(a)
         \/ PersistFailure(a) \/ ScheduleRetry(a)
  PROVE  SessionsFollow
<1>1. CASE PersistOutline(a) \/ PersistRejection(a) \/ PersistFinal(a)
  <2>1. session[SessionOf(a)].phase \in Phases \cup {NoPhase}
    BY <1>1, AttemptRefers
       DEF PersistOutline, PersistRejection, PersistFinal, SessionRow
  <2>2. CASE PersistOutline(a)
    BY <2>1, <2>2, CheckpointFollows DEF PersistOutline, Statuses
  <2>3. CASE PersistRejection(a)
    BY <2>3, CheckpointFollows DEF PersistRejection, Statuses
  <2>4. CASE PersistFinal(a)
    BY <2>1, <2>4, CheckpointFollows DEF PersistFinal, Statuses
  <2> QED BY <1>1, <2>2, <2>3, <2>4
<1>2. CASE PersistFailure(a)
  <2> DEFINE s   == SessionOf(a)
             row == [session[s] EXCEPT !.status = "FAILED", !.version = "FAILED",
                                       !.reserved = FALSE]
  <2>1. session' = [session EXCEPT ![s] = row] /\ attempt[a].pc # "idle" /\ OwnsAttempt(a)
    BY <1>2 DEF PersistFailure
  <2>2. /\ s \in Sessions /\ session[s] \in SessionRow
        /\ session[s].status = "PROCESSING"
    BY <2>1, AttemptRefers DEF OwnsAttempt
  <2>3. row \in SessionRow /\ Rewrites(session[s], row)
    BY <2>2 DEF Rewrites, Advances, SessionRow, Statuses, WorkStatuses
  <2> HIDE DEF s, row
  <2> QED BY <2>1, <2>2, <2>3, RewriteFollows
<1>3. CASE ScheduleRetry(a)
  <2> DEFINE s   == SessionOf(a)
             old == session[s]
             row == [old EXCEPT
                       !.status = IF old.status = "PROCESSING" THEN "QUEUED" ELSE old.status,
                       !.version = "QUEUED"]
  <2>1. session' = [session EXCEPT ![s] = row] /\ attempt[a].pc # "idle" /\ OwnsClaim(a)
    BY <1>3 DEF ScheduleRetry
  <2>2. s \in Sessions /\ session[s] \in SessionRow /\ session[s].status \in WorkStatuses
    BY <2>1, ClaimedWork DEF Rest, OwnsClaim
  <2>3. session[s].status = "PROCESSING"
    BY <1>3, <2>2 DEF ScheduleRetry, WorkStatuses, TerminalStatuses
  <2>4. row \in SessionRow /\ Rewrites(session[s], row)
    BY <2>2, <2>3 DEF Rewrites, Advances, SessionRow, Statuses, WorkStatuses
  <2> HIDE DEF s, row
  <2> QED BY <2>1, <2>2, <2>4, RewriteFollows
<1> QED BY <1>1, <1>2, <1>3

LEMMA SessionsFollowNext ==
  ASSUME Typed, Rest, HydratedFromActive, [Next]_vars
  PROVE  SessionsFollow
<1>1. CASE UNCHANGED vars
  BY <1>1, SessionsUntouched DEF vars
<1>2. ASSUME NEW s \in Sessions, UserStep(s) PROVE SessionsFollow
  BY <1>2, UserFollows
<1>3. CASE PublisherStep
  BY <1>3, ReapFollows, SessionsUntouched
     DEF PublisherStep, RelayScan, Enqueue, MarkDispatched, StopPublishing
<1>4. CASE TimeStep
  BY <1>4, SessionsUntouched
     DEF TimeStep, ExpireClaim, BackoffElapses, DispatchGoesStale, LoseDelivery,
         DropDelivery, ExpireLease
<1>5. ASSUME NEW a \in Owners, WorkerStep(a) PROVE SessionsFollow
  <2>1. CASE AcquireLease(a)
    BY <2>1, AcquireFollows
  <2>2. CASE \/ PersistOutline(a) \/ PersistRejection(a) \/ PersistFinal(a)
             \/ PersistFailure(a) \/ ScheduleRetry(a)
    BY <2>2, FinishFollows
  <2>3. CASE \/ \E e \in Events : ClaimEvent(a, e)
             \/ RejectPayload(a) \/ ReadSession(a) \/ CompleteSuperseded(a)
             \/ RefuseLease(a) \/ RetryRefused(a) \/ AcquireRaises(a)
             \/ Heartbeat(a) \/ RaiseTerminal(a) \/ RaiseRetryable(a) \/ LoseOwnership(a)
             \/ FailureNotRecorded(a) \/ RetriesUsedUp(a) \/ RetryRaises(a)
             \/ ReleaseLease(a) \/ Crash(a)
    BY <2>3, SessionsUntouched
       DEF ClaimEvent, RejectPayload, ReadSession, CompleteSuperseded, RefuseLease,
           RetryRefused, AcquireRaises, Heartbeat, RaiseTerminal, RaiseRetryable,
           LoseOwnership, FailureNotRecorded, RetriesUsedUp, RetryRaises, ReleaseLease, Crash
  <2> QED BY <1>5, <2>1, <2>2, <2>3 DEF WorkerStep, Advance
<1> QED BY <1>1, <1>2, <1>3, <1>4, <1>5 DEF Next

\* The version an attempt read stays the active one while its claim is its own.
LEMMA HydratedNext ==
  ASSUME Typed, Rest, HydratedFromActive, [Next]_vars
  PROVE  HydratedFromActive'
<1>1. CASE UNCHANGED vars
  BY <1>1 DEF vars, HydratedFromActive, OwnedEvent, EventOf, SessionOf
<1>2. CASE Next
  <2> SUFFICES ASSUME NEW a \in Owners, attempt'[a].pc \in {"read", "running"},
                      NEW e, e = attempt'[a].event, OwnedEvent(e, a)'
               PROVE  attempt'[a].seen.rev = session'[outbox'[e].session].rev
    BY DEF HydratedFromActive, EventOf, SessionOf, OwnedEvent
  <2>1. AttemptFollows(a)
    BY <1>2, AttemptsFollow
  <2>2. CASE ReadSession(a)
    <3>1. /\ attempt'[a].event = attempt[a].event
          /\ attempt'[a].seen.rev = session[SessionOf(a)].rev
      BY <2>2 DEF ReadSession, Typed, TypeOK, Attempt
    <3> QED BY <2>2, <3>1 DEF ReadSession, SessionOf, EventOf
  <2>3. CASE ~ReadSession(a)
    <3>1. /\ attempt[a].pc \in {"read", "running"}
          /\ attempt'[a].event = attempt[a].event
          /\ attempt'[a].seen = attempt[a].seen
      BY <2>1, <2>3 DEF AttemptFollows, AcquireLease
    <3>2. EventOf(a) \in Events /\ outbox[EventOf(a)].status # Absent
      BY <3>1, AttemptRefers
    <3>3. RowFollows(EventOf(a))
      BY <1>2, <3>2, RowsFollow
    <3>4. e = EventOf(a) /\ OwnedEvent(e, a) /\ outbox'[e].session = SessionOf(a)
      BY <3>1, <3>2, <3>3 DEF RowFollows, EventOf, SessionOf
    <3>5. attempt[a].seen.rev = session[SessionOf(a)].rev
      BY <3>1, <3>4 DEF HydratedFromActive
    <3>6. SessionOf(a) \in Sessions /\ session[SessionOf(a)].status \in WorkStatuses
      BY <3>1, <3>4, ClaimedWork DEF Rest
    <3>7. session'[SessionOf(a)].rev = session[SessionOf(a)].rev
      BY <3>6, SessionsFollowNext, SessionWritten DEF SessionsFollow, Rewrites
    <3> QED BY <3>1, <3>4, <3>5, <3>7 DEF EventOf
  <2> QED BY <2>2, <2>3
<1> QED BY <1>1, <1>2
-----------------------------------------------------------------------------
(* The inductive invariant *)

Core == Typed /\ Rest /\ HydratedFromActive

LEMMA CoreInvariant ==
  ASSUME "slowStart" \notin Faults, "skew" \notin Faults
  PROVE  Spec => []Core
<1>1. Init => Core
  BY TypedInit, InvInit, HydratedInit DEF Core
<1>2. Core /\ [Next]_vars => Core'
  BY TypedNext, RestNext, HydratedNext DEF Core
<1> QED BY <1>1, <1>2, PTL DEF Spec

\* The inductive invariant, when no attempt is held up between its claim and
\* its lease for as long as a claim lasts and every payload can be decoded.
THEOREM DeliveryInvariant ==
  ASSUME "slowStart" \notin Faults, "skew" \notin Faults
  PROVE  Spec => []DeliveryInv
<1>1. Core => DeliveryInv
  BY DEF Core, Typed, Rest, DeliveryInv
<1> QED BY <1>1, CoreInvariant, PTL

\* Work is neither lost nor left over: whatever crashes, stalls or is lost, a
\* session in work has one active event of its phase, and no other session has
\* one.
THEOREM WorkStaysOutstanding ==
  ASSUME "slowStart" \notin Faults, "skew" \notin Faults
  PROVE  Spec => []OutstandingWork
<1>1. Core => OutstandingWork
  BY DEF Core, Rest
<1> QED BY <1>1, CoreInvariant, PTL

\* No result is persisted over a review or a later version: an attempt that
\* persist_success lets through was hydrated from the active version and works
\* in the phase the session is in.
THEOREM PersistsCurrentWork ==
  ASSUME "slowStart" \notin Faults, "skew" \notin Faults
  PROVE  Spec => []OwnerIsCurrent
<1>1. Core => OwnerIsCurrent
  <2> SUFFICES ASSUME Core, NEW a \in Owners, attempt[a].pc = "running", OwnsAttempt(a)
               PROVE  /\ attempt[a].seen.rev = session[SessionOf(a)].rev
                      /\ JobPhase(a) = session[SessionOf(a)].phase
    BY DEF OwnerIsCurrent
  <2>1. OwnedEvent(EventOf(a), a)
    BY DEF OwnsAttempt, OwnsClaim
  <2> QED BY <2>1, ClaimedWork DEF Core, Rest, HydratedFromActive
<1> QED BY <1>1, CoreInvariant, PTL
-----------------------------------------------------------------------------
(* The life of a session *)

\* What a step does to each session.
LEMMA EachSession ==
  ASSUME Core, [Next]_vars, NEW s \in Sessions
  PROVE  session'[s] = session[s] \/ Rewrites(session[s], session'[s])
<1>1. Typed /\ SessionsFollow
  BY SessionsFollowNext DEF Core
<1>2. CASE UNCHANGED session
  BY <1>2
<1>3. CASE \E r \in Sessions, row \in SessionRow :
             session' = [session EXCEPT ![r] = row] /\ Rewrites(session[r], row)
  BY <1>1, <1>3, SessionWritten
<1> QED BY <1>1, <1>2, <1>3 DEF SessionsFollow

\* A zombie, a late retry or the reaper never touches a session whose workflow
\* has ended: every write to its row comes from a user's step on a review or
\* from whoever holds the claim of an active event, which it no longer has.
THEOREM EndedStaysEnded ==
  ASSUME "slowStart" \notin Faults, "skew" \notin Faults
  PROVE  Spec => TerminalIsFinal
<1>1. Core /\ [Next]_vars =>
        [\A s \in Sessions :
           session[s].status \in TerminalStatuses => session'[s] = session[s]]_vars
  <2> SUFFICES ASSUME Core, [Next]_vars, NEW s \in Sessions,
                      session[s].status \in TerminalStatuses
               PROVE  session'[s] = session[s]
    OBVIOUS
  <2> QED BY EachSession DEF Rewrites, Advances, TerminalStatuses, WorkStatuses
<1> QED BY <1>1, CoreInvariant, PTL DEF Spec, TerminalIsFinal

\* The transition table is kept by every writer, those that bypass
\* validate_transition (retry, lease, reaper, review) included; only a retry
\* takes a session back from PROCESSING to QUEUED.
THEOREM TableIsKept ==
  ASSUME "slowStart" \notin Faults, "skew" \notin Faults
  PROVE  Spec => TransitionsAllowed
<1> DEFINE Allowed(s) ==
             LET from == session[s].status
                 to   == session'[s].status
             IN \/ from = Absent /\ to \in {Absent, "QUEUED"}
                \/ from # Absent /\ MayMove(from, to)
                \/ from = "PROCESSING" /\ to = "QUEUED"
<1>1. Core /\ [Next]_vars => [\A s \in Sessions : Allowed(s)]_vars
  <2> SUFFICES ASSUME Core, [Next]_vars, NEW s \in Sessions
               PROVE  Allowed(s)
    OBVIOUS
  <2>1. CASE session'[s] = session[s]
    BY <2>1 DEF MayMove
  <2>2. CASE Rewrites(session[s], session'[s])
    BY <2>2 DEF Rewrites, Advances, MayMove, ValidTransitions, WorkStatuses
  <2> QED BY <2>1, <2>2, EachSession
<1> QED BY <1>1, CoreInvariant, PTL DEF Spec, TransitionsAllowed

\* A version is never left behind by its session, over all reviews, retries and
\* revisions, except by the reaper.
THEOREM VersionFollowsSession ==
  ASSUME "slowStart" \notin Faults, "skew" \notin Faults
  PROVE  Spec => []VersionMirrorsSession
<1>1. Init => VersionMirrorsSession
  BY DEF Init, VersionMirrorsSession, NewSession
<1>2. Core /\ VersionMirrorsSession /\ [Next]_vars => VersionMirrorsSession'
  <2> SUFFICES ASSUME Core, VersionMirrorsSession, [Next]_vars, NEW s \in Sessions
               PROVE  \/ session'[s].version = session'[s].status
                      \/ /\ session'[s].status = "FAILED"
                         /\ session'[s].version \in WorkStatuses
    BY DEF VersionMirrorsSession
  <2>1. \/ session[s].version = session[s].status
        \/ session[s].status = "FAILED" /\ session[s].version \in WorkStatuses
    BY DEF VersionMirrorsSession
  <2>2. CASE session'[s] = session[s]
    BY <2>1, <2>2
  <2>3. CASE Rewrites(session[s], session'[s])
    BY <2>1, <2>3 DEF Rewrites, Advances, WorkStatuses
  <2> QED BY <2>2, <2>3, EachSession
<1> QED BY <1>1, <1>2, CoreInvariant, PTL DEF Spec
-----------------------------------------------------------------------------
(* The refinement of SessionLifecycle *)

\* The jobs a session owes follow from its status and phase.
LEMMA JobsOwed ==
  ASSUME Core, NEW s \in Sessions
  PROVE  {outbox[e].phase : e \in ActiveEvents(s)}
           = IF session[s].status \in WorkStatuses THEN {session[s].phase} ELSE {}
<1>1. OutstandingWork
  BY DEF Core, Rest
<1>2. \A e \in ActiveEvents(s) : /\ session[s].status \in WorkStatuses
                                 /\ outbox[e].phase = session[s].phase
  BY <1>1 DEF OutstandingWork, EventHasWork, ActiveEvents
<1>3. CASE session[s].status \in WorkStatuses
  <2>1. PICK e \in Events : e \in ActiveEvents(s)
    BY <1>1, <1>3 DEF OutstandingWork, WorkHasEvent, ActiveEvents
  <2> QED BY <1>2, <1>3, <2>1
<1>4. CASE session[s].status \notin WorkStatuses
  BY <1>2, <1>4
<1> QED BY <1>3, <1>4

\* The state functions the abstract variables stand for.
StatusOf == [s \in Sessions |-> session[s].status]
PhaseOf  == [s \in Sessions |-> session[s].phase]
JobsOf   == [s \in Sessions |-> {outbox[e].phase : e \in ActiveEvents(s)}]

OwedBy(row) == IF row.status \in WorkStatuses THEN {row.phase} ELSE {}

LEMMA JobsAreOwed == Core => JobsOf = [s \in Sessions |-> OwedBy(session[s])]
  BY JobsOwed DEF JobsOf, OwedBy

LEMMA JobsAreOwedNext == Core' => (JobsOf = [s \in Sessions |-> OwedBy(session[s])])'
  BY JobsAreOwed, PTL

\* A step of the protocol is a step of the lifecycle of one session, or none.
LEMMA LifecycleStep ==
  ASSUME Core, Core', [Next]_vars
  PROVE  [Lifecycle!Next]_(Lifecycle!vars)
<1>1. /\ JobsOf = [s \in Sessions |-> OwedBy(session[s])]
      /\ JobsOf' = [s \in Sessions |-> OwedBy(session'[s])]
  BY JobsAreOwed, JobsAreOwedNext DEF OwedBy
<1>2. /\ session \in [Sessions -> SessionRow]
      /\ SessionsFollow
  BY SessionsFollowNext DEF Core, Typed, TypeOK
<1>3. CASE UNCHANGED session
  <2>1. /\ UNCHANGED StatusOf
        /\ UNCHANGED PhaseOf
        /\ UNCHANGED JobsOf
    BY <1>1, <1>3 DEF StatusOf, PhaseOf
  <2> QED BY <2>1 DEF Lifecycle!vars, StatusOf, PhaseOf, JobsOf
<1>4. ASSUME NEW s \in Sessions, NEW row \in SessionRow,
             session' = [session EXCEPT ![s] = row], Rewrites(session[s], row)
      PROVE  [Lifecycle!Next]_(Lifecycle!vars)
  <2>1. /\ StatusOf' = [StatusOf EXCEPT ![s] = row.status]
        /\ PhaseOf' = [PhaseOf EXCEPT ![s] = row.phase]
        /\ JobsOf' = [JobsOf EXCEPT ![s] = OwedBy(row)]
    BY <1>1, <1>2, <1>4 DEF StatusOf, PhaseOf
  <2>2. /\ StatusOf[s] = session[s].status
        /\ PhaseOf[s] = session[s].phase
        /\ JobsOf[s] = OwedBy(session[s])
    BY <1>1 DEF StatusOf, PhaseOf
  <2>3. ASSUME NEW from, session[s].status \in from
        PROVE  Lifecycle!Move(s, from, row.status, row.phase, OwedBy(row))
    BY <2>1, <2>2, <2>3 DEF Lifecycle!Move, StatusOf, PhaseOf, JobsOf
  <2>4. session[s].status \in WorkStatuses => Lifecycle!Owes(s)
    BY <2>2 DEF Lifecycle!Owes, OwedBy, PhaseOf, JobsOf
  <2>5. /\ row.status = "QUEUED" => OwedBy(row) = {row.phase}
        /\ row.status = "PROCESSING" => OwedBy(row) = {row.phase}
        /\ row.status \notin WorkStatuses => OwedBy(row) = {}
        /\ session[s].status \in WorkStatuses => OwedBy(session[s]) = {session[s].phase}
    BY DEF OwedBy, WorkStatuses
  <2>6. Advances(session[s], row)
    BY <1>4 DEF Rewrites
  <2>7. Lifecycle!Next \/ (row.status = session[s].status /\ row.phase = session[s].phase)
    <3>1. ASSUME /\ session[s].status = Absent
                 /\ row.status = "QUEUED" /\ row.phase = "fresh_generation"
          PROVE  Lifecycle!Submit(s)
      BY <2>2, <2>3, <2>4, <2>5, <3>1
         DEF Lifecycle!Submit, Lifecycle!Absent, WorkStatuses, PhaseOf
    <3>2. ASSUME /\ session[s].status = "AWAITING_OUTLINE_REVIEW"
                 /\ row.status = "QUEUED" /\ row.phase = "research_phase"
          PROVE  Lifecycle!ReviewOutline(s)
      BY <2>2, <2>3, <2>4, <2>5, <3>2
         DEF Lifecycle!ReviewOutline, WorkStatuses, PhaseOf
    <3>3. ASSUME /\ session[s].status = "AWAITING_FINAL_REVIEW"
                 /\ row.status = "QUEUED" /\ row.phase = "revision"
          PROVE  Lifecycle!Revise(s)
      BY <2>2, <2>3, <2>4, <2>5, <3>3
         DEF Lifecycle!Revise, WorkStatuses, PhaseOf
    <3>4. ASSUME /\ session[s].status = "AWAITING_FINAL_REVIEW"
                 /\ row.status = "COMPLETED" /\ row.phase = session[s].phase
          PROVE  Lifecycle!Approve(s)
      BY <2>2, <2>3, <2>4, <2>5, <3>4
         DEF Lifecycle!Approve, WorkStatuses, PhaseOf
    <3>5. ASSUME /\ session[s].status = "AWAITING_FINAL_REVIEW"
                 /\ row.status = "REJECTED" /\ row.phase = NoPhase
          PROVE  Lifecycle!Reject(s)
      BY <2>2, <2>3, <2>4, <2>5, <3>5
         DEF Lifecycle!Reject, Lifecycle!NoPhase, WorkStatuses, PhaseOf
    <3>6. ASSUME /\ session[s].status = "QUEUED"
                 /\ row.status = "PROCESSING" /\ row.phase = session[s].phase
          PROVE  Lifecycle!Start(s)
      <4>1. OwedBy(row) = JobsOf[s] /\ row.phase = PhaseOf[s]
        BY <2>2, <2>5, <3>6 DEF WorkStatuses
      <4>2. Lifecycle!Move(s, {"QUEUED"}, "PROCESSING", PhaseOf[s], JobsOf[s])
        BY <2>1, <2>2, <3>6, <4>1 DEF Lifecycle!Move, StatusOf, PhaseOf, JobsOf
      <4>3. Lifecycle!Owes(s)
        BY <2>4, <3>6 DEF WorkStatuses
      <4> QED BY <4>2, <4>3 DEF Lifecycle!Start, PhaseOf, JobsOf
    <3>7. ASSUME /\ session[s].status = "PROCESSING"
                 /\ row.status = "QUEUED" /\ row.phase = session[s].phase
          PROVE  Lifecycle!GiveBack(s)
      <4>1. OwedBy(row) = JobsOf[s] /\ row.phase = PhaseOf[s]
        BY <2>2, <2>5, <3>7 DEF WorkStatuses
      <4>2. Lifecycle!Move(s, {"PROCESSING"}, "QUEUED", PhaseOf[s], JobsOf[s])
        BY <2>1, <2>2, <3>7, <4>1 DEF Lifecycle!Move, StatusOf, PhaseOf, JobsOf
      <4>3. Lifecycle!Owes(s)
        BY <2>4, <3>7 DEF WorkStatuses
      <4> QED BY <4>2, <4>3 DEF Lifecycle!GiveBack, PhaseOf, JobsOf
    <3>8. ASSUME /\ session[s].status = "PROCESSING" /\ session[s].phase = "fresh_generation"
                 /\ \/ row.status = "AWAITING_OUTLINE_REVIEW" /\ row.phase = session[s].phase
                    \/ row.status = "AGENT_REJECTED" /\ row.phase = NoPhase
          PROVE  Lifecycle!FinishOutline(s)
      BY <2>2, <2>3, <2>4, <2>5, <3>8
         DEF Lifecycle!FinishOutline, Lifecycle!NoPhase, WorkStatuses, PhaseOf
    <3>9. ASSUME /\ session[s].status = "PROCESSING"
                 /\ session[s].phase \in {"research_phase", "revision"}
                 /\ row.status = "AWAITING_FINAL_REVIEW" /\ row.phase = session[s].phase
          PROVE  Lifecycle!FinishDraft(s)
      BY <2>2, <2>3, <2>4, <2>5, <3>9
         DEF Lifecycle!FinishDraft, WorkStatuses, PhaseOf
    <3>10. ASSUME /\ session[s].status \in WorkStatuses
                 /\ row.status = "FAILED" /\ row.phase = session[s].phase
          PROVE  Lifecycle!Fail(s)
      BY <2>2, <2>3, <2>4, <2>5, <3>10
         DEF Lifecycle!Fail, Lifecycle!WorkStatuses, WorkStatuses, PhaseOf
    <3> QED BY <2>6, <3>1, <3>2, <3>3, <3>4, <3>5, <3>6, <3>7, <3>8, <3>9, <3>10
            DEF Advances, WorkStatuses, Lifecycle!Next
  <2>8. CASE row.status = session[s].status /\ row.phase = session[s].phase
    BY <2>1, <2>2, <2>8, ZenonT(60) DEF Lifecycle!vars, StatusOf, PhaseOf, JobsOf, OwedBy
  <2> QED BY <2>7, <2>8
<1> QED BY <1>2, <1>3, <1>4 DEF SessionsFollow

\* The outbox, its leases, the workers and the reaper implement the lifecycle:
\* seen from a session, each job is taken up, given back or finished once, in
\* the phase that the session is in, and nothing else moves it.
THEOREM LifecycleImplemented ==
  ASSUME "slowStart" \notin Faults, "skew" \notin Faults
  PROVE  Spec => ImplementsLifecycle
<1>1. Init => Lifecycle!Init
  BY DEF Init, NewSession, NewEvent, ActiveEvents, Active, Lifecycle!Init,
         Lifecycle!Absent, Lifecycle!NoPhase
<1>2. Core /\ Core' /\ [Next]_vars => [Lifecycle!Next]_(Lifecycle!vars)
  BY LifecycleStep
<1> QED BY <1>1, <1>2, CoreInvariant, PTL DEF Spec, ImplementsLifecycle, Lifecycle!Spec
-----------------------------------------------------------------------------
(* One runner *)

\* Who beats holds the live lease of its session.
RunnersLease == \A a \in Owners : attempt[a].pc \in Beating => OwnsLease(a)

\* A live lease stays with an attempt that goes on beating, when no heartbeat
\* fails to commit for as long as a lease lasts.
LEMMA LeaseKept ==
  ASSUME Typed, Next, "stall" \notin Faults, NEW s \in Sessions, NEW b \in Owners,
         lease[s].owner = b, lease[s].live,
         attempt[b].pc \in Beating, attempt'[b].pc \in Beating
  PROVE  lease'[s].owner = b /\ lease'[s].live
<1>0. lease \in [Sessions -> LeaseRow]
  BY DEF Typed, TypeOK
<1>1. ASSUME NEW r \in Sessions, UserStep(r) PROVE UNCHANGED lease
  BY <1>1 DEF UserStep, CreateGeneration, RepeatGeneration, SubmitOutlineReview,
              RequestRevision, ApproveFinal, RejectFinal
<1>2. CASE PublisherStep
  BY <1>2 DEF PublisherStep, RelayScan, Enqueue, MarkDispatched, StopPublishing, ReapExhausted
<1>3. ASSUME NEW r \in Sessions, ExpireLease(r)
      PROVE  lease'[s].owner = b /\ lease'[s].live
  <2>1. r # s
    BY <1>3 DEF ExpireLease, Lapses
  <2> QED BY <1>0, <1>3, <2>1 DEF ExpireLease
<1>4. ASSUME NEW e \in Events,
             \/ ExpireClaim(e) \/ BackoffElapses(e) \/ DispatchGoesStale(e)
             \/ LoseDelivery(e) \/ DropDelivery(e)
      PROVE  UNCHANGED lease
  BY <1>4 DEF ExpireClaim, BackoffElapses, DispatchGoesStale, LoseDelivery, DropDelivery
<1>5. ASSUME NEW a \in Owners, AcquireLease(a)
      PROVE  lease'[s].owner = b /\ lease'[s].live
  <2>1. SessionOf(a) # s /\ SessionOf(a) \in Sessions
    BY <1>5, AttemptRefers DEF AcquireLease, LeaseBlocks
  <2>2. PICK row : lease' = [lease EXCEPT ![SessionOf(a)] = row]
    BY <1>5 DEF AcquireLease
  <2> QED BY <1>0, <2>1, <2>2
<1>6. ASSUME NEW a \in Owners, Heartbeat(a)
      PROVE  lease'[s].owner = b /\ lease'[s].live
  <2> DEFINE r == SessionOf(a)
  <2>1. lease' = [lease EXCEPT ![r] = [@ EXCEPT !.live = TRUE, !.renewed = TRUE]]
    BY <1>6 DEF Heartbeat
  <2> HIDE DEF r
  <2>2. CASE r = s
    BY <1>0, <2>1, <2>2 DEF LeaseRow
  <2>3. CASE r # s
    BY <1>0, <2>1, <2>3
  <2> QED BY <2>2, <2>3
<1>7. ASSUME NEW a \in Owners, ScheduleRetry(a) \/ ReleaseLease(a)
      PROVE  lease'[s].owner = b /\ lease'[s].live
  <2>1. lease' = ReleasedBy(a) /\ (Goto(a, "releasing") \/ Leave(a))
    BY <1>7 DEF ScheduleRetry, ReleaseLease
  <2>2. attempt'[a].pc \notin Beating
    BY <2>1, MovedOn, Left
  <2>3. a # b
    BY <2>2
  <2> QED BY <1>0, <2>1, <2>3 DEF ReleasedBy
<1>8. ASSUME NEW a \in Owners,
             \/ \E e \in Events : ClaimEvent(a, e)
             \/ RejectPayload(a) \/ ReadSession(a) \/ CompleteSuperseded(a)
             \/ RefuseLease(a) \/ RetryRefused(a) \/ AcquireRaises(a)
             \/ PersistOutline(a) \/ PersistRejection(a) \/ PersistFinal(a)
             \/ PersistFailure(a) \/ RaiseTerminal(a) \/ RaiseRetryable(a)
             \/ LoseOwnership(a) \/ FailureNotRecorded(a) \/ RetriesUsedUp(a)
             \/ RetryRaises(a) \/ Crash(a)
      PROVE  UNCHANGED lease
  BY <1>8
     DEF ClaimEvent, RejectPayload, ReadSession, CompleteSuperseded, RefuseLease,
         RetryRefused, AcquireRaises, PersistOutline, PersistRejection, PersistFinal,
         Checkpoint, PersistFailure, RaiseTerminal, RaiseRetryable, LoseOwnership,
         FailureNotRecorded, RetriesUsedUp, RetryRaises, Crash
<1> QED BY <1>1, <1>2, <1>3, <1>4, <1>5, <1>6, <1>7, <1>8
        DEF Next, WorkerStep, Advance, TimeStep

LEMMA RunnersLeaseNext ==
  ASSUME Typed, RunnersLease, [Next]_vars, "stall" \notin Faults
  PROVE  RunnersLease'
<1>1. CASE UNCHANGED vars
  BY <1>1 DEF vars, RunnersLease, OwnsLease, SessionOf, EventOf
<1>2. CASE Next
  <2> SUFFICES ASSUME NEW a \in Owners, attempt'[a].pc \in Beating,
                      NEW e, e = attempt'[a].event, NEW s, s = outbox'[e].session
               PROVE  lease'[s].owner = a /\ lease'[s].live
    BY DEF RunnersLease, OwnsLease, SessionOf, EventOf
  <2>1. /\ AcquireLease(a) \/ attempt[a].pc \in Beating
        /\ e = EventOf(a)
    BY <1>2, AttemptsFollow DEF AttemptFollows, EventOf
  <2>2. attempt[a].pc # "idle"
    BY <2>1 DEF AcquireLease
  <2>3. s = SessionOf(a) /\ s \in Sessions
    BY <1>2, <2>1, <2>2, AttemptRefers, RowsFollow DEF RowFollows, SessionOf
  <2>4. CASE AcquireLease(a)
    BY <2>3, <2>4 DEF AcquireLease, Typed, TypeOK
  <2>5. CASE attempt[a].pc \in Beating
    BY <1>2, <2>3, <2>5, LeaseKept DEF RunnersLease, OwnsLease
  <2> QED BY <2>1, <2>4, <2>5
<1> QED BY <1>1, <1>2

\* While heartbeats commit, the lease alone keeps the agents of a session to one
\* attempt: under crashes, losses, duplicated deliveries, claims that lapse
\* before the lease is taken, and failing database writes.
THEOREM OneRunner ==
  ASSUME "stall" \notin Faults
  PROVE  Spec => []SoleRunner
<1>1. Init => Typed /\ RunnersLease
  BY TypedInit DEF Init, RunnersLease, Idle
<1>2. Typed /\ RunnersLease /\ [Next]_vars => (Typed /\ RunnersLease)'
  BY TypedNext, RunnersLeaseNext
<1>3. RunnersLease => SoleRunner
  BY DEF RunnersLease, SoleRunner, OwnsLease
<1> QED BY <1>1, <1>2, <1>3, PTL DEF Spec
=============================================================================
