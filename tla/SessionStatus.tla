---------------------------- MODULE SessionStatus ----------------------------
(***************************************************************************)
(* The enumerations of models/orm_models.py that every other module        *)
(* speaks: the statuses of a blog session with their transition table, and *)
(* the phases of a job.                                                    *)
(***************************************************************************)

\* BlogJobPhase, the three segments a session is generated in.
Phases == {"fresh_generation", "research_phase", "revision"}

\* A session row holds "none" (NULL) before creation and after rejections.
NoPhase == "none"

\* "absent" is not a status: it stands for a row that is not inserted yet.
Absent == "absent"

Statuses ==
  {"QUEUED", "PROCESSING", "AWAITING_OUTLINE_REVIEW", "AWAITING_FINAL_REVIEW",
   "COMPLETED", "FAILED", "REJECTED", "AGENT_REJECTED", "CANCELLED"}

TerminalStatuses ==
  {"COMPLETED", "FAILED", "REJECTED", "AGENT_REJECTED", "CANCELLED"}

\* hitl_states: the workflow is paused for a human.
ReviewStatuses == {"AWAITING_OUTLINE_REVIEW", "AWAITING_FINAL_REVIEW"}

\* The workflow itself, not the user, owes the next step.
WorkStatuses == {"QUEUED", "PROCESSING"}

\* _valid_transitions, as a relation.
ValidTransitions ==
     {"QUEUED"} \X {"PROCESSING", "FAILED", "CANCELLED"}
  \cup {"PROCESSING"} \X {"AWAITING_OUTLINE_REVIEW", "AWAITING_FINAL_REVIEW",
                          "FAILED", "AGENT_REJECTED", "CANCELLED"}
  \cup {"AWAITING_OUTLINE_REVIEW"} \X {"QUEUED", "FAILED", "CANCELLED"}
  \cup {"AWAITING_FINAL_REVIEW"} \X {"COMPLETED", "QUEUED", "FAILED",
                                     "REJECTED", "CANCELLED"}

\* validate_transition: staying put is always allowed.
MayMove(from, to) == from = to \/ <<from, to>> \in ValidTransitions
=============================================================================
