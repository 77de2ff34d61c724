--------------------------- MODULE SessionLifecycle ---------------------------
(***************************************************************************)
(* What the workflow backend promises about a blog session, with the       *)
(* outbox, the leases, Redis, the workers and the reaper left out: a       *)
(* session owes at most one job, the job is the one its status and phase   *)
(* announce, a finished job moves the session on exactly once, and nothing *)
(* moves a session whose workflow has ended.                               *)
(*                                                                         *)
(* WorkflowDelivery implements this specification.                         *)
(***************************************************************************)
EXTENDS SessionStatus

CONSTANT Sessions     \* the blog sessions

VARIABLES
  status,             \* the status of each session, Absent before creation
  phase,              \* the phase of its current or last job
  jobs                \* the phases of the jobs it still owes

vars == <<status, phase, jobs>>

Init ==
  /\ status = [s \in Sessions |-> Absent]
  /\ phase  = [s \in Sessions |-> NoPhase]
  /\ jobs   = [s \in Sessions |-> {}]

\* Session s moves from one of the statuses `from` to `to`, is then in phase
\* ph and owes the jobs js.
Move(s, from, to, ph, js) ==
  /\ status[s] \in from
  /\ status' = [status EXCEPT ![s] = to]
  /\ phase'  = [phase  EXCEPT ![s] = ph]
  /\ jobs'   = [jobs   EXCEPT ![s] = js]

\* The user asks for a blog, or answers a review in a way that needs work.
Submit(s)      == Move(s, {Absent}, "QUEUED", "fresh_generation", {"fresh_generation"})
ReviewOutline(s) ==
  Move(s, {"AWAITING_OUTLINE_REVIEW"}, "QUEUED", "research_phase", {"research_phase"})
Revise(s)      == Move(s, {"AWAITING_FINAL_REVIEW"}, "QUEUED", "revision", {"revision"})

\* The user ends the workflow.
Approve(s)     == Move(s, {"AWAITING_FINAL_REVIEW"}, "COMPLETED", phase[s], {})
Reject(s)      == Move(s, {"AWAITING_FINAL_REVIEW"}, "REJECTED", NoPhase, {})

\* The one job of the session is taken up, given back, or finished.
Owes(s)        == jobs[s] = {phase[s]}
Start(s)       == Owes(s) /\ Move(s, {"QUEUED"}, "PROCESSING", phase[s], jobs[s])
GiveBack(s)    == Owes(s) /\ Move(s, {"PROCESSING"}, "QUEUED", phase[s], jobs[s])
FinishOutline(s) ==
  /\ Owes(s) /\ phase[s] = "fresh_generation"
  /\ \/ Move(s, {"PROCESSING"}, "AWAITING_OUTLINE_REVIEW", phase[s], {})
     \/ Move(s, {"PROCESSING"}, "AGENT_REJECTED", NoPhase, {})
FinishDraft(s) ==
  /\ Owes(s) /\ phase[s] \in {"research_phase", "revision"}
  /\ Move(s, {"PROCESSING"}, "AWAITING_FINAL_REVIEW", phase[s], {})
Fail(s)        == Owes(s) /\ Move(s, WorkStatuses, "FAILED", phase[s], {})

Next ==
  \E s \in Sessions :
    \/ Submit(s) \/ ReviewOutline(s) \/ Revise(s) \/ Approve(s) \/ Reject(s)
    \/ Start(s) \/ GiveBack(s) \/ FinishOutline(s) \/ FinishDraft(s) \/ Fail(s)

Spec == Init /\ [][Next]_vars
=============================================================================
