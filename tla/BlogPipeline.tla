------------------------------ MODULE BlogPipeline ------------------------------
(***************************************************************************)
(* What a run of the agents reads and writes: the workflow graphs, the     *)
(* runner that seeds them from a snapshot, the checkpoint that stores      *)
(* their result, and the versions a session goes through.  Claims, leases  *)
(* and statuses are the matter of WorkflowDelivery; here one attempt runs  *)
(* at a time and may fail, be retried or be lost at any point.             *)
(*                                                                         *)
(* Documents are tokens that say where they come from: an outline by whom, *)
(* a text by which run, agent and iteration, a review and the evidence by  *)
(* which run.                                                              *)
(***************************************************************************)
EXTENDS Naturals, Sequences, SessionStatus

CONSTANTS
  None,           \* {} or "" or NULL: what Python's `or` passes over
  Silent,         \* agents that may end without any text
  MaxRefinements, \* MAX_REFINEMENT_ITERATIONS
  MaxVersions,    \* bound of the model: versions of the session
  MaxRuns         \* bound of the model: attempts, retries included

Agents == {"intent", "outline", "research", "writer", "editor"}

ASSUME PipelineAssumption ==
  /\ Silent \subseteq Agents
  /\ MaxRefinements \in Nat \ {0}
  /\ MaxVersions \in Nat \ {0} /\ MaxRuns \in Nat

VARIABLES
  session,   \* status, active version, and the copies kept on blog_sessions
  versions,  \* blog_versions by version_number
  job,       \* the phase of the session's outbox event
  run,       \* the attempt: place in the graph, hydrated job, session state
  runs,      \* attempts so far
  booked,    \* agent_runs that are COMPLETED, with the run they were written by
  kept,      \* history: the runs whose result was stored, with what they used
  agreed,    \* history: the outline the user approved
  asked      \* history: the user's last feedback

vars == <<session, versions, job, run, runs, booked, kept, agreed, asked>>

Else(x, y) == IF x # None THEN x ELSE y
Opt(S) == S \cup {None}

RunIds    == 1..MaxRuns
Reason    == 0                      \* an error text in place of a feedback
Outlines  == [by : {"agent", "user"}, run : RunIds]
Texts     == [by : {"writer", "editor"}, run : RunIds, iter : 1..MaxRefinements]
Reviews   == [run : RunIds, iter : 1..MaxRefinements, final : Opt(Texts)]
Feedbacks == 0..(MaxVersions + 1)

\* SESSION_STATE_KEYS, without topic, audience and tone, which never change.
Snapshot == [intent : Opt({"clear", "blocked"}), outline : Opt(Outlines),
             approved : Opt(Outlines), feedback : Opt(Feedbacks),
             research : Opt(RunIds), draft : Opt(Texts), review : Opt(Reviews)]

\* What is absent is no review.
ASSUME NoneAssumption == None \notin Reviews

\* The keys that live in one invocation only: what the editor last wrote and
\* how often the writer and the editor have been through their cycle.
State == [kept : Snapshot, raw : Opt(Reviews), iterations : 0..MaxRefinements]

VersionRow == [outline : Opt(Outlines), approved : Opt(Outlines), research : Opt(RunIds),
               draft : Opt(Texts), final : Opt(Texts), review : Opt(Reviews),
               feedback : Opt(Feedbacks), snapshot : Snapshot]

AgentRun == [version : 1..MaxVersions, stage : Agents, run : RunIds]

Stages == {"idle", "end"} \cup Agents

PipelineTypeOK ==
  /\ session \in [status : Statuses, active : 1..MaxVersions,
                  outline : Opt(Outlines), final : Opt(Texts)]
  /\ versions \in Seq(VersionRow) /\ Len(versions) \in 1..MaxVersions
  /\ job \in Phases
  /\ run \in [pc : Stages, approved : Opt(Outlines), feedback : Opt(Feedbacks),
              state : State, used : SUBSET Agents]
  /\ runs \in 0..MaxRuns
  /\ booked \subseteq AgentRun
  /\ kept \subseteq [version : 1..MaxVersions, run : RunIds, used : SUBSET Agents]
  /\ agreed \in Opt(Outlines) /\ asked \in Opt(Feedbacks)

EmptySnapshot == [intent |-> None, outline |-> None, approved |-> None, feedback |-> None,
                  research |-> None, draft |-> None, review |-> None]
EmptyVersion  == [outline |-> None, approved |-> None, research |-> None, draft |-> None,
                  final |-> None, review |-> None, feedback |-> None,
                  snapshot |-> EmptySnapshot]

Idle == [pc |-> "idle", approved |-> None, feedback |-> None, used |-> {},
         state |-> [kept |-> EmptySnapshot, raw |-> None, iterations |-> 0]]

\* create_generation has inserted the session, its first version and its event.
Init ==
  /\ session = [status |-> "QUEUED", active |-> 1, outline |-> None, final |-> None]
  /\ versions = <<EmptyVersion>>
  /\ job = "fresh_generation"
  /\ run = Idle
  /\ runs = 0
  /\ booked = {} /\ kept = {}
  /\ agreed = None /\ asked = None

Active == versions[session.active]
Latest == versions[Len(versions)]
-----------------------------------------------------------------------------
(* Starting a run: acquire_lease and WorkflowRunner.run *)

\* _validate_phase_state
Resumable(v) ==
  /\ job = "research_phase" => v.approved # None \/ v.outline # None
  /\ job = "revision" => v.draft # None \/ v.final # None

\* Mutant: the session service outlives its run, and the snapshot is laid over
\* the state that is there.
SeedShared(v) == [run.state EXCEPT !.kept = v.snapshot]

\* _ensure_session: every run has an InMemorySessionService of its own.
Seed(v) == [kept |-> v.snapshot, raw |-> None, iterations |-> 0]

FirstStage == IF job = "fresh_generation" THEN "intent" ELSE "research"

StartRun ==
  /\ run.pc = "idle" /\ session.status \in WorkStatuses
  /\ runs < MaxRuns
  /\ Resumable(Active)
  /\ runs' = runs + 1
  /\ session' = [session EXCEPT !.status = "PROCESSING"]
  /\ run' = [pc |-> FirstStage, approved |-> Else(Active.approved, Active.outline),
             feedback |-> Active.feedback, state |-> Seed(Active), used |-> {}]
  /\ UNCHANGED <<versions, job, booked, kept, agreed, asked>>

\* persist_failure
EndFailed ==
  /\ session' = [session EXCEPT !.status = "FAILED"]
  /\ versions' = [versions EXCEPT ![session.active].feedback = Reason]
  /\ run' = [run EXCEPT !.pc = "idle"]
  /\ UNCHANGED <<job, runs, booked, kept, agreed, asked>>

\* NormalizationError: what an agent wrote, or its silence, is not what its
\* schema asks for.  It is never repaired, and never tried again.
RefuseOutput ==
  /\ run.pc \in Agents \ {"writer"}
  /\ EndFailed

\* A provider fails for good, or the result lacks what its phase owes.
FailRun ==
  /\ run.pc # "idle"
  /\ EndFailed

\* _is_transient_downstream_error: the event is scheduled again.
RetryRun ==
  /\ run.pc \in Agents
  /\ session' = [session EXCEPT !.status = "QUEUED"]
  /\ run' = [run EXCEPT !.pc = "idle"]
  /\ UNCHANGED <<versions, job, runs, booked, kept, agreed, asked>>

\* The worker dies or its claim is taken over: nothing of the run is stored.
LoseRun ==
  /\ run.pc # "idle"
  /\ run' = [run EXCEPT !.pc = "idle"]
  /\ UNCHANGED <<session, versions, job, runs, booked, kept, agreed, asked>>
-----------------------------------------------------------------------------
(* The graph: each agent with the node that normalizes what it wrote *)

Speaks(agent) == {TRUE} \cup IF agent \in Silent THEN {FALSE} ELSE {}

\* _extract_usage: what an agent spent is attributed to its stage.
Went(agent, next, st) ==
  /\ run.pc = agent
  /\ run' = [run EXCEPT !.pc = next, !.state = st, !.used = @ \cup {agent}]
  /\ UNCHANGED <<session, versions, job, runs, booked, kept, agreed, asked>>

\* The edges of the graphs that lead on from a stage.
Follows == [outline |-> "end", research |-> "writer", writer |-> "editor"]

Intents == {"clear", "blocked"}
RouteAfterIntent(intent) == IF intent = "clear" THEN "outline" ELSE "end"

ClassifyIntent ==
  \E intent \in Intents :
    Went("intent", RouteAfterIntent(intent), [run.state EXCEPT !.kept.intent = intent])

WriteOutline ==
  Went("outline", Follows.outline, [run.state EXCEPT !.kept.outline = [by |-> "agent", run |-> runs]])

\* research_topic: a search, then deep research if there is a client; what it
\* cut off to ten sources no longer matches its count.
SearchEnds == {"results", "nothing", "noClient"}
DeepEnds   == {"matching", "longer", "failed"}

ToolPayload(search, deep) ==
  CASE search = "results"                        -> "evidence"
    [] search = "nothing" /\ deep = "matching"   -> "evidence"
    [] OTHER                                     -> "refused"

\* normalize_research_node prefers the tool's payload, even one without sources.
Evidence(called, search, deep, grounded) ==
  IF called THEN ToolPayload(search, deep) = "evidence" ELSE grounded

Research ==
  \E called \in BOOLEAN, search \in SearchEnds, deep \in DeepEnds, grounded \in Speaks("research") :
    /\ Evidence(called, search, deep, grounded)
    /\ Went("research", Follows.research, [run.state EXCEPT !.kept.research = runs])

\* A writer that writes nothing leaves blog_draft as it is.
WriteDraft ==
  \E written \in Speaks("writer") :
    Went("writer", Follows.writer,
         IF written
           THEN [run.state EXCEPT !.kept.draft =
                   [by |-> "writer", run |-> runs, iter |-> run.state.iterations + 1]]
           ELSE run.state)

Polished == [by |-> "editor", run |-> runs, iter |-> run.state.iterations + 1]

\* EditorReviewSchema: an approval has a final text, a rejection has none.
Verdicts ==
  { [run |-> runs, iter |-> run.state.iterations + 1, final |-> f] : f \in {Polished, None} }

\* _raw_text: a silent editor's earlier words stand, if there are any.
Judged == Verdicts \cup IF "editor" \in Silent /\ run.state.raw # None THEN {run.state.raw} ELSE {}

\* _validate_editor_citations lets a rejection pass unread.
Cited(review, astray) == review.final # None => ~astray

\* Mutant: the cycle is not counted.
Uncounted(st) == st

Counted(st) == [st EXCEPT !.iterations = @ + 1]

RouteAfterEditor(st) ==
  IF st.kept.review.final # None \/ st.iterations >= MaxRefinements THEN "end" ELSE "writer"

EditDraft ==
  \E review \in Judged, astray \in BOOLEAN :
    /\ Cited(review, astray)
    /\ LET st == Counted([run.state EXCEPT !.raw = review, !.kept.review = review])
       IN  Went("editor", RouteAfterEditor(st), st)
-----------------------------------------------------------------------------
(* The checkpoint: WorkflowResultPersister.persist_success *)

Result == run.state.kept

\* Stages are named with the version they were run for.
Completed(stage) == [version |-> session.active, stage |-> stage, run |-> runs]
Recorded(stage)  == \E b \in booked : b.version = session.active /\ b.stage = stage

\* Mutant: stages are named without their version.
BookNameless(used) ==
  booked \cup { Completed(s) : s \in { t \in used : ~\E b \in booked : b.stage = t } }

\* _commit_usage: a stage of a version that is COMPLETED is passed over.
Book(used) == booked \cup { Completed(s) : s \in { t \in used : ~Recorded(t) } }

\* sync_active_version_fields and update_status.
Synced(status, v) ==
  [status |-> status, active |-> session.active,
   outline |-> Else(v.outline, session.outline), final |-> Else(v.final, session.final)]

Checkpoint(status, v) ==
  /\ run.pc = "end"
  /\ session' = Synced(status, v)
  /\ versions' = [versions EXCEPT ![session.active] = v]
  /\ run' = [run EXCEPT !.pc = "idle"]
  /\ booked' = Book(run.used)
  /\ kept' = kept \cup {[version |-> session.active, run |-> runs, used |-> run.used]}
  /\ UNCHANGED <<job, runs, agreed, asked>>

\* _build_state_snapshot
SnapshotOf(feedback) ==
  [Result EXCEPT !.feedback = feedback,
                 !.approved = IF job = "fresh_generation" THEN run.approved
                              ELSE Else(Result.outline, run.approved)]

PersistRejection ==
  /\ job = "fresh_generation" /\ Result.intent = "blocked"
  /\ Checkpoint("AGENT_REJECTED", [Active EXCEPT !.feedback = Reason,
                                                 !.snapshot = SnapshotOf(Reason)])

PersistOutline ==
  /\ job = "fresh_generation" /\ Result.intent # "blocked" /\ Result.outline # None
  /\ Checkpoint("AWAITING_OUTLINE_REVIEW",
       [outline |-> Result.outline, approved |-> Active.approved, research |-> Result.research,
        draft |-> Result.draft, final |-> None, review |-> Result.review,
        feedback |-> Else(run.feedback, Active.feedback), snapshot |-> SnapshotOf(run.feedback)])

\* _populate_result: the editor's text, or else the draft.
FinalContent == IF Result.review # None THEN Else(Result.review.final, Result.draft)
                ELSE Result.draft

PersistFinal ==
  /\ job # "fresh_generation" /\ FinalContent # None
  /\ Checkpoint("AWAITING_FINAL_REVIEW",
       [outline |-> Else(Result.outline, Active.outline),
        approved |-> Else(SnapshotOf(run.feedback).approved, Active.approved),
        research |-> Result.research, draft |-> Result.draft, final |-> FinalContent,
        review |-> Result.review, feedback |-> Else(run.feedback, Active.feedback),
        snapshot |-> SnapshotOf(run.feedback)])
-----------------------------------------------------------------------------
(* The reviews: BlogService *)

\* Mutant: the approved outline does not become the current one.
ReviewedAside(o, f) ==
  [Active.snapshot EXCEPT !.approved = o, !.feedback = f]

\* submit_outline_review writes the outline it was sent into all its places.
ReviewedSnapshot(o, f) ==
  [Active.snapshot EXCEPT !.outline = o, !.approved = o, !.feedback = f]

SubmitOutlineReview ==
  /\ session.status = "AWAITING_OUTLINE_REVIEW"
  /\ \E o \in {Active.outline, [by |-> "user", run |-> runs]}, f \in {None, 1} :
       /\ versions' = [versions EXCEPT ![session.active] =
                         [@ EXCEPT !.outline = o, !.approved = o, !.feedback = f,
                                   !.snapshot = ReviewedSnapshot(o, f)]]
       /\ session' = [session EXCEPT !.status = "QUEUED", !.outline = o]
       /\ agreed' = o /\ asked' = f
  /\ job' = "research_phase"
  /\ UNCHANGED <<run, runs, booked, kept>>

\* Mutant: the feedback is stored with the version and not in its snapshot.
RevisedUnasked(f) == [Active.snapshot EXCEPT !.review = None]

RevisedSnapshot(f) == [Active.snapshot EXCEPT !.feedback = f, !.review = None]

\* Mutant: the revision is made of the version itself.
RevisionInPlace(f) ==
  [versions EXCEPT ![session.active] =
     [@ EXCEPT !.feedback = f, !.snapshot = RevisedSnapshot(f)]]

\* create_revision_from_active copies the reviewed version.
WithRevision(f) ==
  Append(versions, [Active EXCEPT !.feedback = f, !.snapshot = RevisedSnapshot(f)])

RequestRevision ==
  /\ session.status = "AWAITING_FINAL_REVIEW"
  /\ Len(versions) < MaxVersions
  /\ LET f == session.active + 1 IN
       /\ versions' = WithRevision(f)
       /\ asked' = f
  /\ session' = [session EXCEPT !.status = "QUEUED", !.active = Len(versions')]
  /\ job' = "revision"
  /\ UNCHANGED <<run, runs, booked, kept, agreed>>

CloseReview ==
  /\ session.status = "AWAITING_FINAL_REVIEW"
  /\ \E end \in {"COMPLETED", "REJECTED"} : session' = [session EXCEPT !.status = end]
  /\ UNCHANGED <<versions, job, run, runs, booked, kept, agreed, asked>>
-----------------------------------------------------------------------------
RunStep ==
  \/ ClassifyIntent \/ WriteOutline \/ Research \/ WriteDraft \/ EditDraft
  \/ PersistRejection \/ PersistOutline \/ PersistFinal

Next ==
  \/ StartRun \/ RefuseOutput \/ FailRun \/ RetryRun \/ LoseRun
  \/ RunStep
  \/ SubmitOutlineReview \/ RequestRevision \/ CloseReview

Spec == Init /\ [][Next]_vars

\* A run goes on, or fails where it cannot.
FairSpec == Spec /\ WF_vars(RunStep \/ FailRun)
-----------------------------------------------------------------------------
(* What BlogReadService shows of it *)

ShownOutline == Else(Active.approved, Active.outline)
ShownContent == Else(Latest.final, session.final)

(* Properties *)

\* The outline the user approved is the one every later run writes from, and
\* the one that is shown and stored in each of its places, through retries,
\* lost runs and revisions: "The approved outline carries over unchanged".
OutlineKept ==
  agreed # None =>
    /\ Active.outline = agreed /\ Active.approved = agreed
    /\ Active.snapshot.outline = agreed /\ Active.snapshot.approved = agreed
    /\ session.outline = agreed /\ ShownOutline = agreed
    /\ run.pc # "idle" => run.state.kept.outline = agreed /\ run.state.kept.approved = agreed

\* The agents of a run are given the user's last feedback and no older one.
FeedbackReaches ==
  run.pc # "idle" => run.state.kept.feedback = asked /\ run.feedback = asked

\* What waits for the final review is the newest version, and evidence, draft,
\* review and text of it come from one run, made for it and for no other: its
\* text is what the editor made of the last draft, or else the draft itself after
\* the last iteration (whose review may be the one of an earlier draft, when the
\* editor has since fallen silent).
ReviewedIsCurrent ==
  session.status = "AWAITING_FINAL_REVIEW" =>
    LET v == Latest IN
    /\ session.active = Len(versions)
    /\ ShownContent = v.final /\ session.final = v.final
    /\ \E k \in kept : /\ k.version = session.active
                       /\ v.research = k.run /\ v.review.run = k.run
                       /\ v.draft.run = k.run /\ v.final.run = k.run
    /\ v.final = Else(v.review.final, v.draft)
    /\ IF v.review.final # None THEN v.review.iter = v.draft.iter
       ELSE v.draft.iter = MaxRefinements

\* What the agents of a stored run used is booked once, under the version the
\* run was made for, however often that work was tried.
BookedOnce ==
  /\ \A k \in kept : \A s \in k.used : [version |-> k.version, stage |-> s, run |-> k.run] \in booked
  /\ \A b, c \in booked : b.version = c.version /\ b.stage = c.stage => b = c

\* The text a version was stored with, and the evidence and review beside it,
\* are never replaced: not by a review, and not by the run of a revision, which
\* has a version of its own.
Documents(v) == <<v.outline, v.approved, v.research, v.draft, v.final, v.review>>
VersionsFrozen ==
  [][ \A k \in kept : "editor" \in k.used =>
        Documents(versions'[k.version]) = Documents(versions[k.version]) ]_vars

\* The writer and the editor do not go on for ever.
RunEnds == run.pc # "idle" ~> run.pc = "idle"
=============================================================================
