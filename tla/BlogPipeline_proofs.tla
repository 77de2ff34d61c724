-------------------------- MODULE BlogPipeline_proofs --------------------------
(***************************************************************************)
(* Theorems about BlogPipeline, for any number of versions, of runs and of *)
(* iterations of the writer and the editor, and any agents that may fall   *)
(* silent.                                                                 *)
(***************************************************************************)
EXTENDS BlogPipeline, TLAPS

USE PipelineAssumption DEF AgentRun, Completed, Recorded, Synced

\* The types, and what keeps them: the active version exists, a run has a
\* number, and an agent's turn comes before the last iteration is counted.
PipelineInv ==
  /\ PipelineTypeOK
  /\ session.active \in DOMAIN versions
  /\ runs = 0 => run.pc = "idle" /\ session.status = "QUEUED"
  /\ run.pc \in Agents => run.state.iterations < MaxRefinements

\* Where the approved outline lies between two steps of the session: no agent
\* is asked for an outline again, and none works during a review.
OutlineInv ==
  /\ OutlineKept
  /\ run.pc # "idle" => session.status = "PROCESSING"
  /\ agreed # None => job # "fresh_generation" /\ run.pc \notin {"intent", "outline"}

LEMMA ActiveTyped ==
  ASSUME PipelineInv
  PROVE  /\ Active \in VersionRow
         /\ session.active \in 1..MaxVersions
         /\ session.active \in DOMAIN versions
BY DEF PipelineInv, PipelineTypeOK, Active

LEMMA RunTyped ==
  ASSUME PipelineInv, run.pc # "idle"
  PROVE  runs \in RunIds
BY DEF PipelineInv, PipelineTypeOK, RunIds

\* A version is written in its place.
LEMMA VersionStored ==
  ASSUME PipelineInv, NEW v \in VersionRow,
         versions' = [versions EXCEPT ![session.active] = v]
  PROVE  /\ versions' \in Seq(VersionRow)
         /\ Len(versions') = Len(versions)
         /\ DOMAIN versions' = DOMAIN versions
         /\ versions'[session.active] = v
BY ActiveTyped DEF PipelineInv, PipelineTypeOK

\* A version is added behind the others.
LEMMA VersionAdded ==
  ASSUME NEW s \in Seq(VersionRow), NEW v \in VersionRow
  PROVE  /\ Append(s, v) \in Seq(VersionRow)
         /\ Len(Append(s, v)) = Len(s) + 1
         /\ Len(Append(s, v)) \in DOMAIN Append(s, v)
         /\ Append(s, v)[Len(Append(s, v))] = v
OBVIOUS

LEMMA OptElse ==
  ASSUME NEW S, NEW x \in Opt(S), NEW y \in Opt(S)
  PROVE  Else(x, y) \in Opt(S)
BY DEF Else, Opt

LEMMA InitTyped == Init => PipelineInv
<1> SUFFICES ASSUME Init PROVE PipelineInv
  OBVIOUS
<1>1. EmptyVersion \in VersionRow /\ EmptySnapshot \in Snapshot
  BY DEF EmptyVersion, EmptySnapshot, VersionRow, Snapshot, Opt
<1>2. Idle \in [pc : Stages, approved : Opt(Outlines), feedback : Opt(Feedbacks),
                state : State, used : SUBSET Agents]
  BY <1>1 DEF Idle, State, Stages, Opt
<1>3. session \in [status : Statuses, active : 1..MaxVersions,
                   outline : Opt(Outlines), final : Opt(Texts)]
  BY DEF Init, Statuses, Opt
<1>4. versions \in Seq(VersionRow) /\ Len(versions) = 1 /\ DOMAIN versions = 1..1
  BY <1>1 DEF Init
<1> QED
  BY <1>2, <1>3, <1>4 DEF Init, PipelineInv, PipelineTypeOK, Phases, Opt, Idle, Agents

-------------------------------------------------------------------------------
(* Starts and ends of a run *)

LEMMA StartTyped ==
  ASSUME PipelineInv, StartRun
  PROVE  PipelineInv'
<1> USE DEF StartRun
<1>1. runs \in Nat /\ runs' = runs + 1 /\ runs' \in RunIds /\ runs' # 0
  BY DEF PipelineInv, PipelineTypeOK, RunIds
<1>2. Else(Active.approved, Active.outline) \in Opt(Outlines)
  BY ActiveTyped, OptElse DEF VersionRow
<1>3. Seed(Active) \in State /\ Seed(Active).iterations = 0
  BY ActiveTyped DEF Seed, State, VersionRow, Opt
<1>4. FirstStage \in Stages
  BY DEF FirstStage, Stages, Agents
<1>5. run' \in [pc : Stages, approved : Opt(Outlines), feedback : Opt(Feedbacks),
                state : State, used : SUBSET Agents]
  BY <1>2, <1>3, <1>4, ActiveTyped DEF VersionRow
<1>6. session' \in [status : Statuses, active : 1..MaxVersions,
                    outline : Opt(Outlines), final : Opt(Texts)]
      /\ session'.active = session.active
  BY DEF PipelineInv, PipelineTypeOK, Statuses
<1>7. run'.state.iterations = 0
  BY <1>3
<1> QED BY <1>1, <1>5, <1>6, <1>7 DEF PipelineInv, PipelineTypeOK, RunIds

\* The end of a run that is not stored, whatever becomes of the session.
LEMMA IdleTyped ==
  ASSUME PipelineInv, run' = [run EXCEPT !.pc = "idle"]
  PROVE  /\ run' \in [pc : Stages, approved : Opt(Outlines), feedback : Opt(Feedbacks),
                      state : State, used : SUBSET Agents]
         /\ run'.pc = "idle" /\ run'.pc \notin Agents
BY DEF PipelineInv, PipelineTypeOK, Stages, Agents

LEMMA EndTyped ==
  ASSUME PipelineInv, run.pc # "idle", EndFailed \/ RetryRun \/ LoseRun
  PROVE  PipelineInv'
<1>1. run' = [run EXCEPT !.pc = "idle"] /\ UNCHANGED <<job, runs, booked, kept, agreed, asked>>
  BY DEF EndFailed, RetryRun, LoseRun
<1>2. session' \in [status : Statuses, active : 1..MaxVersions,
                    outline : Opt(Outlines), final : Opt(Texts)]
      /\ session'.active = session.active
  BY DEF EndFailed, RetryRun, LoseRun, PipelineInv, PipelineTypeOK, Statuses
<1>3. /\ versions' \in Seq(VersionRow) /\ Len(versions') = Len(versions)
      /\ DOMAIN versions' = DOMAIN versions
  <2>1. CASE EndFailed
    <3> DEFINE v == [Active EXCEPT !.feedback = Reason]
    <3>1. v \in VersionRow
      BY ActiveTyped DEF VersionRow, Reason, Opt, Feedbacks
    <3>2. versions' = [versions EXCEPT ![session.active] = v]
      BY <2>1 DEF EndFailed, Active
    <3> HIDE DEF v
    <3> QED BY <3>1, <3>2, VersionStored
  <2>2. CASE RetryRun \/ LoseRun
    BY <2>2 DEF RetryRun, LoseRun, PipelineInv, PipelineTypeOK
  <2> QED BY <2>1, <2>2
<1>4. runs # 0
  BY DEF PipelineInv
<1> QED BY <1>1, <1>2, <1>3, <1>4, IdleTyped DEF PipelineInv, PipelineTypeOK

-------------------------------------------------------------------------------
(* The agents *)

LEMMA WentTyped ==
  ASSUME PipelineInv, NEW agent \in Agents, NEW next \in Stages, NEW st \in State,
         next \in Agents => st.iterations < MaxRefinements,
         Went(agent, next, st)
  PROVE  PipelineInv'
<1>1. run' \in [pc : Stages, approved : Opt(Outlines), feedback : Opt(Feedbacks),
                state : State, used : SUBSET Agents]
      /\ run'.pc = next /\ run'.state = st
  BY DEF Went, PipelineInv, PipelineTypeOK
<1>2. runs # 0
  BY DEF Went, PipelineInv, Agents
<1>3. UNCHANGED <<session, versions, job, runs, booked, kept, agreed, asked>>
  BY DEF Went
<1> QED BY <1>1, <1>2, <1>3 DEF PipelineInv, PipelineTypeOK

\* What an agent adds to the session state.
LEMMA StateTyped ==
  ASSUME PipelineInv, run.pc \in Agents
  PROVE  /\ run.state \in State
         /\ run.state.iterations \in 0..(MaxRefinements - 1)
         /\ runs \in RunIds
BY RunTyped DEF PipelineInv, PipelineTypeOK, State, Agents

LEMMA AgentsTyped ==
  ASSUME PipelineInv, ClassifyIntent \/ WriteOutline \/ Research \/ WriteDraft
  PROVE  PipelineInv'
<1>1. CASE ClassifyIntent
  <2>1. PICK intent \in Intents :
          Went("intent", RouteAfterIntent(intent), [run.state EXCEPT !.kept.intent = intent])
    BY <1>1 DEF ClassifyIntent
  <2>2. run.pc \in Agents BY <2>1 DEF Went, Agents
  <2> DEFINE st == [run.state EXCEPT !.kept.intent = intent]
  <2>3. st \in State /\ st.iterations = run.state.iterations
    BY <2>2, StateTyped DEF State, Snapshot, Intents, Opt
  <2>4. RouteAfterIntent(intent) \in Stages BY DEF RouteAfterIntent, Stages, Agents
  <2>5. Went("intent", RouteAfterIntent(intent), st) /\ "intent" \in Agents
    BY <2>1 DEF Agents
  <2> HIDE DEF st
  <2> QED BY <2>2, <2>3, <2>4, <2>5, StateTyped, WentTyped
<1>2. CASE WriteOutline
  <2>1. run.pc = "outline" BY <1>2 DEF WriteOutline, Went
  <2> DEFINE st == [run.state EXCEPT !.kept.outline = [by |-> "agent", run |-> runs]]
  <2>2. st \in State
    BY <2>1, StateTyped DEF State, Snapshot, Outlines, Opt, Agents
  <2>3. Went("outline", "end", st) BY <1>2 DEF WriteOutline, Follows
  <2> HIDE DEF st
  <2> QED BY <2>2, <2>3, WentTyped DEF Stages, Agents
<1>3. CASE Research
  <2>1. Went("research", "writer", [run.state EXCEPT !.kept.research = runs])
    BY <1>3 DEF Research, Follows
  <2>2. run.pc \in Agents BY <2>1 DEF Went, Agents
  <2> DEFINE st == [run.state EXCEPT !.kept.research = runs]
  <2>3. st \in State /\ st.iterations = run.state.iterations
    BY <2>2, StateTyped DEF State, Snapshot, Opt
  <2>4. Went("research", "writer", st) BY <2>1
  <2> HIDE DEF st
  <2> QED BY <2>2, <2>3, <2>4, StateTyped, WentTyped DEF Stages, Agents
<1>4. CASE WriteDraft
  <2> DEFINE d == [by |-> "writer", run |-> runs, iter |-> run.state.iterations + 1]
             st == [run.state EXCEPT !.kept.draft = d]
  <2>1. Went("writer", "editor", st) \/ Went("writer", "editor", run.state)
    BY <1>4 DEF WriteDraft, Follows
  <2>2. run.pc \in Agents BY <2>1 DEF Went, Agents
  <2>3. d \in Texts BY <2>2, StateTyped DEF Texts
  <2>4. st \in State /\ st.iterations = run.state.iterations
    <3> HIDE DEF d
    <3> QED BY <2>2, <2>3, StateTyped DEF State, Snapshot, Opt
  <2> HIDE DEF st
  <2> QED BY <2>1, <2>2, <2>4, StateTyped, WentTyped DEF Stages, Agents
<1> QED BY <1>1, <1>2, <1>3, <1>4

LEMMA EditorTyped ==
  ASSUME PipelineInv, EditDraft
  PROVE  PipelineInv'
<1> DEFINE judged(review) == [run.state EXCEPT !.raw = review, !.kept.review = review]
<1>1. PICK review \in Judged :
        Went("editor", RouteAfterEditor(Counted(judged(review))), Counted(judged(review)))
  BY DEF EditDraft
<1>2. run.pc \in Agents /\ run.pc = "editor"
  BY <1>1 DEF Went, Agents
<1>3. review \in Reviews
  <2>1. Polished \in Texts
    BY <1>2, StateTyped DEF Polished, Texts
  <2>2. Verdicts \subseteq Reviews
    BY <1>2, <2>1, StateTyped DEF Verdicts, Reviews, Opt
  <2>3. run.state.raw # None => run.state.raw \in Reviews
    BY <1>2, StateTyped DEF State, Opt
  <2> QED BY <2>2, <2>3 DEF Judged
<1> DEFINE st == Counted(judged(review))
<1>4. st \in State /\ st.iterations = run.state.iterations + 1
  <2>1. judged(review) \in State /\ judged(review).iterations = run.state.iterations
    BY <1>2, <1>3, StateTyped DEF State, Snapshot, Opt
  <2> HIDE DEF judged
  <2>2. run.state.iterations + 1 \in 0..MaxRefinements
    BY <1>2, StateTyped
  <2> QED BY <2>1, <2>2 DEF Counted, State
<1>5. RouteAfterEditor(st) \in Stages
      /\ (RouteAfterEditor(st) \in Agents => st.iterations < MaxRefinements)
  <2>1. st.iterations \in Nat BY <1>2, <1>4, StateTyped
  <2> HIDE DEF st
  <2> QED BY <2>1 DEF RouteAfterEditor, Stages, Agents
<1>6. Went("editor", RouteAfterEditor(st), st) /\ "editor" \in Agents
  BY <1>1 DEF Agents
<1> HIDE DEF st
<1> QED BY <1>4, <1>5, <1>6, WentTyped

-------------------------------------------------------------------------------
(* The checkpoint *)

\* Whatever result is stored in the active version, and however the session ends up.
LEMMA CheckpointTyped ==
  ASSUME PipelineInv, NEW status \in Statuses, NEW v \in VersionRow, Checkpoint(status, v)
  PROVE  PipelineInv'
<1> USE DEF Checkpoint
<1>1. run.pc # "idle" /\ run' = [run EXCEPT !.pc = "idle"] /\ runs \in RunIds /\ runs # 0
  BY RunTyped DEF PipelineInv
<1>2. session' \in [status : Statuses, active : 1..MaxVersions,
                    outline : Opt(Outlines), final : Opt(Texts)]
      /\ session'.active = session.active
  <2>1. /\ Else(v.outline, session.outline) \in Opt(Outlines)
        /\ Else(v.final, session.final) \in Opt(Texts)
    BY OptElse DEF PipelineInv, PipelineTypeOK, VersionRow
  <2> QED BY <2>1, ActiveTyped
<1>3. /\ versions' \in Seq(VersionRow) /\ Len(versions') = Len(versions)
      /\ DOMAIN versions' = DOMAIN versions
  BY VersionStored
<1>4. run.used \in SUBSET Agents
  BY DEF PipelineInv, PipelineTypeOK
<1>5. booked' \subseteq [version : 1..MaxVersions, stage : Agents, run : RunIds]
  BY <1>1, <1>4, ActiveTyped DEF Book, PipelineInv, PipelineTypeOK
<1>6. kept' \subseteq [version : 1..MaxVersions, run : RunIds, used : SUBSET Agents]
  BY <1>1, <1>4, ActiveTyped DEF PipelineInv, PipelineTypeOK
<1>7. UNCHANGED <<job, runs, agreed, asked>>
  OBVIOUS
<1>8. PipelineTypeOK'
  <2>1. /\ run' \in [pc : Stages, approved : Opt(Outlines), feedback : Opt(Feedbacks),
                     state : State, used : SUBSET Agents]
        /\ versions' \in Seq(VersionRow) /\ Len(versions') \in 1..MaxVersions
    BY <1>1, <1>3, IdleTyped DEF PipelineInv, PipelineTypeOK
  <2> HIDE DEF Checkpoint
  <2> QED BY <1>2, <1>5, <1>6, <1>7, <2>1 DEF PipelineInv, PipelineTypeOK
<1> QED BY <1>1, <1>2, <1>3, <1>7, <1>8, ActiveTyped, IdleTyped DEF PipelineInv

LEMMA ResultTyped ==
  ASSUME PipelineInv, NEW f \in Opt(Feedbacks)
  PROVE  Result \in Snapshot /\ SnapshotOf(f) \in Snapshot
<1>1. Result \in Snapshot
  BY DEF PipelineInv, PipelineTypeOK, Result, State
<1>2. Else(Result.outline, run.approved) \in Opt(Outlines) /\ run.approved \in Opt(Outlines)
  BY <1>1, OptElse DEF PipelineInv, PipelineTypeOK, Snapshot
<1> QED BY <1>1, <1>2 DEF SnapshotOf, Snapshot

LEMMA PersistTyped ==
  ASSUME PipelineInv, PersistRejection \/ PersistOutline \/ PersistFinal
  PROVE  PipelineInv'
<1>1. /\ run.feedback \in Opt(Feedbacks) /\ Reason \in Opt(Feedbacks)
      /\ Else(run.feedback, Active.feedback) \in Opt(Feedbacks)
  <2>1. Reason \in Opt(Feedbacks) BY DEF Feedbacks, Reason, Opt
  <2>2. run.feedback \in Opt(Feedbacks) BY DEF PipelineInv, PipelineTypeOK
  <2>3. Active.feedback \in Opt(Feedbacks) BY ActiveTyped DEF VersionRow
  <2> QED BY <2>1, <2>2, <2>3, OptElse
<1>2. Result \in Snapshot /\ SnapshotOf(run.feedback) \in Snapshot /\ SnapshotOf(Reason) \in Snapshot
  BY <1>1, ResultTyped
<1>3. Active \in VersionRow
  BY ActiveTyped
<1>4. {"AGENT_REJECTED", "AWAITING_OUTLINE_REVIEW", "AWAITING_FINAL_REVIEW"} \subseteq Statuses
  BY DEF Statuses
<1>5. CASE PersistRejection
  <2> DEFINE v == [Active EXCEPT !.feedback = Reason, !.snapshot = SnapshotOf(Reason)]
  <2>1. v \in VersionRow BY <1>1, <1>2, <1>3 DEF VersionRow
  <2>2. Checkpoint("AGENT_REJECTED", v) BY <1>5 DEF PersistRejection
  <2> HIDE DEF v
  <2> QED BY <1>4, <2>1, <2>2, CheckpointTyped
<1>6. CASE PersistOutline
  <2> DEFINE v == [outline |-> Result.outline, approved |-> Active.approved,
                   research |-> Result.research, draft |-> Result.draft, final |-> None,
                   review |-> Result.review, feedback |-> Else(run.feedback, Active.feedback),
                   snapshot |-> SnapshotOf(run.feedback)]
  <2>1. v \in VersionRow BY <1>1, <1>2, <1>3 DEF VersionRow, Snapshot, Opt
  <2>2. Checkpoint("AWAITING_OUTLINE_REVIEW", v) BY <1>6 DEF PersistOutline
  <2> HIDE DEF v
  <2> QED BY <1>4, <2>1, <2>2, CheckpointTyped
<1>7. CASE PersistFinal
  <2> DEFINE v == [outline |-> Else(Result.outline, Active.outline),
                   approved |-> Else(SnapshotOf(run.feedback).approved, Active.approved),
                   research |-> Result.research, draft |-> Result.draft,
                   final |-> FinalContent, review |-> Result.review,
                   feedback |-> Else(run.feedback, Active.feedback),
                   snapshot |-> SnapshotOf(run.feedback)]
  <2>1. FinalContent \in Opt(Texts)
    BY <1>2, OptElse DEF FinalContent, Snapshot, Reviews, Opt
  <2>2. /\ Else(Result.outline, Active.outline) \in Opt(Outlines)
        /\ Else(SnapshotOf(run.feedback).approved, Active.approved) \in Opt(Outlines)
    BY <1>2, <1>3, OptElse DEF Snapshot, VersionRow
  <2>3. v \in VersionRow BY <1>1, <1>2, <2>1, <2>2 DEF VersionRow, Snapshot
  <2>4. Checkpoint("AWAITING_FINAL_REVIEW", v) BY <1>7 DEF PersistFinal
  <2> HIDE DEF v
  <2> QED BY <1>4, <2>3, <2>4, CheckpointTyped
<1> QED BY <1>5, <1>6, <1>7

-------------------------------------------------------------------------------
(* The reviews *)

LEMMA SubmitTyped ==
  ASSUME PipelineInv, SubmitOutlineReview
  PROVE  PipelineInv'
<1> USE DEF SubmitOutlineReview
<1>1. PICK o \in {Active.outline, [by |-> "user", run |-> runs]}, f \in {None, 1} :
         /\ versions' = [versions EXCEPT ![session.active] =
                           [@ EXCEPT !.outline = o, !.approved = o, !.feedback = f,
                                     !.snapshot = ReviewedSnapshot(o, f)]]
         /\ session' = [session EXCEPT !.status = "QUEUED", !.outline = o]
         /\ agreed' = o /\ asked' = f
  OBVIOUS
<1>2. runs # 0 /\ runs \in RunIds
  BY DEF PipelineInv, PipelineTypeOK, RunIds
<1>3. o \in Opt(Outlines)
  BY <1>2, ActiveTyped DEF VersionRow, Outlines, Opt
<1>4. f \in Opt(Feedbacks)
  BY DEF Feedbacks, Opt
<1> DEFINE v == [Active EXCEPT !.outline = o, !.approved = o, !.feedback = f,
                               !.snapshot = ReviewedSnapshot(o, f)]
<1>5. v \in VersionRow
  <2>1. ReviewedSnapshot(o, f) \in Snapshot
    BY <1>3, <1>4, ActiveTyped DEF ReviewedSnapshot, Snapshot, VersionRow
  <2> QED BY <1>3, <1>4, <2>1, ActiveTyped DEF VersionRow
<1>6. versions' = [versions EXCEPT ![session.active] = v]
  BY <1>1 DEF Active
<1>7. /\ versions' \in Seq(VersionRow) /\ Len(versions') = Len(versions)
      /\ DOMAIN versions' = DOMAIN versions
  <2> HIDE DEF v
  <2> QED BY <1>5, <1>6, VersionStored
<1>8. session' \in [status : Statuses, active : 1..MaxVersions,
                    outline : Opt(Outlines), final : Opt(Texts)]
      /\ session'.active = session.active
  BY <1>1, <1>3 DEF PipelineInv, PipelineTypeOK, Statuses
<1>9. job' \in Phases /\ UNCHANGED <<run, runs, booked, kept>>
  BY DEF Phases
<1>10. agreed' \in Opt(Outlines) /\ asked' \in Opt(Feedbacks)
  BY <1>1, <1>3, <1>4
<1> HIDE DEF SubmitOutlineReview
<1> QED BY <1>2, <1>7, <1>8, <1>9, <1>10 DEF PipelineInv, PipelineTypeOK

LEMMA RevisionTyped ==
  ASSUME PipelineInv, RequestRevision
  PROVE  /\ PipelineInv'
         /\ Active' = [Active EXCEPT !.feedback = session.active + 1,
                                      !.snapshot = RevisedSnapshot(session.active + 1)]
<1> USE DEF RequestRevision
<1> DEFINE f == session.active + 1
           v == [Active EXCEPT !.feedback = f, !.snapshot = RevisedSnapshot(f)]
<1>1. versions' = Append(versions, v) /\ asked' = f
      /\ session' = [session EXCEPT !.status = "QUEUED", !.active = Len(versions')]
  BY DEF WithRevision
<1>2. runs # 0
  BY DEF PipelineInv
<1>3. f \in Opt(Feedbacks)
  BY ActiveTyped DEF Feedbacks, Opt
<1>4. v \in VersionRow
  <2> HIDE DEF f
  <2>1. RevisedSnapshot(f) \in Snapshot
    BY <1>3, ActiveTyped DEF RevisedSnapshot, Snapshot, VersionRow, Opt
  <2> QED BY <1>3, <2>1, ActiveTyped DEF VersionRow
<1>5. /\ versions' \in Seq(VersionRow) /\ Len(versions') = Len(versions) + 1
      /\ Len(versions') \in 1..MaxVersions
      /\ Len(versions') \in DOMAIN versions' /\ versions'[Len(versions')] = v
  <2> HIDE DEF v
  <2>1. versions \in Seq(VersionRow) /\ Len(versions) \in 1..MaxVersions /\ Len(versions) < MaxVersions
    BY DEF PipelineInv, PipelineTypeOK
  <2>2. versions' = Append(versions, v)
    BY <1>1
  <2> HIDE DEF RequestRevision
  <2> QED BY <1>4, <2>1, <2>2, VersionAdded
<1>6. session' \in [status : Statuses, active : 1..MaxVersions,
                    outline : Opt(Outlines), final : Opt(Texts)]
      /\ session'.active = Len(versions')
  BY <1>1, <1>5 DEF PipelineInv, PipelineTypeOK, Statuses
<1>7. job' \in Phases /\ UNCHANGED <<run, runs, booked, kept, agreed>>
  BY DEF Phases
<1>8. Active' = v
  BY <1>5, <1>6 DEF Active
<1> HIDE DEF RequestRevision
<1>9. PipelineInv'
  <2> HIDE DEF v, f
  <2> QED BY <1>1, <1>2, <1>3, <1>5, <1>6, <1>7 DEF PipelineInv, PipelineTypeOK
<1> QED BY <1>8, <1>9

LEMMA CloseTyped ==
  ASSUME PipelineInv, CloseReview
  PROVE  PipelineInv'
<1>1. PICK end \in {"COMPLETED", "REJECTED"} : session' = [session EXCEPT !.status = end]
  BY DEF CloseReview
<1>2. session' \in [status : Statuses, active : 1..MaxVersions,
                    outline : Opt(Outlines), final : Opt(Texts)]
      /\ session'.active = session.active
  BY <1>1 DEF PipelineInv, PipelineTypeOK, Statuses
<1>3. runs # 0
  BY DEF CloseReview, PipelineInv
<1> QED BY <1>2, <1>3 DEF CloseReview, PipelineInv, PipelineTypeOK

-------------------------------------------------------------------------------
LEMMA StepTyped == PipelineInv /\ [Next]_vars => PipelineInv'
<1> SUFFICES ASSUME PipelineInv, [Next]_vars PROVE PipelineInv'
  OBVIOUS
<1>1. CASE StartRun
  BY <1>1, StartTyped
<1>2. CASE RefuseOutput \/ FailRun \/ RetryRun \/ LoseRun
  <2>1. run.pc # "idle" /\ (EndFailed \/ RetryRun \/ LoseRun)
    BY <1>2 DEF RefuseOutput, FailRun, RetryRun, LoseRun, Agents
  <2> QED BY <2>1, EndTyped
<1>3. CASE RunStep
  BY <1>3, AgentsTyped, EditorTyped, PersistTyped DEF RunStep
<1>4. CASE SubmitOutlineReview \/ RequestRevision \/ CloseReview
  BY <1>4, SubmitTyped, RevisionTyped, CloseTyped
<1>5. CASE UNCHANGED vars
  BY <1>5 DEF vars, PipelineInv, PipelineTypeOK
<1> QED BY <1>1, <1>2, <1>3, <1>4, <1>5 DEF Next

\* Every document, version, run and booking keeps its kind.
THEOREM PipelineTypeCorrect == Spec => []PipelineTypeOK
<1>1. PipelineInv => PipelineTypeOK
  BY DEF PipelineInv
<1> QED BY InitTyped, StepTyped, <1>1, PTL DEF Spec

-------------------------------------------------------------------------------
(* The approved outline *)

\* The places of the active version and of the session that hold the outline.
Holds(o) ==
  /\ Active.outline = o /\ Active.approved = o
  /\ Active.snapshot.outline = o /\ Active.snapshot.approved = o
  /\ session.outline = o

LEMMA HoldsKept ==
  ASSUME agreed # None
  PROVE  OutlineKept <=>
           /\ Holds(agreed)
           /\ run.pc # "idle" => /\ run.state.kept.outline = agreed
                                 /\ run.state.kept.approved = agreed
BY DEF OutlineKept, Holds, ShownOutline, Else

\* A run of an approved outline starts from its snapshot, and at the research.
LEMMA StartKeeps ==
  ASSUME PipelineInv, OutlineInv, StartRun
  PROVE  OutlineInv'
<1>1. UNCHANGED <<versions, job, agreed>> /\ session' = [session EXCEPT !.status = "PROCESSING"]
  BY DEF StartRun
<1>2. Active' = Active /\ session'.outline = session.outline /\ session'.status = "PROCESSING"
  BY <1>1 DEF Active, PipelineInv, PipelineTypeOK
<1>3. run'.pc = FirstStage /\ run'.state.kept = Active.snapshot
  BY DEF StartRun, Seed
<1>4. ASSUME agreed # None
      PROVE  OutlineKept' /\ job' # "fresh_generation" /\ run'.pc \notin {"intent", "outline"}
  <2>1. Holds(agreed) /\ job # "fresh_generation"
    BY <1>4, HoldsKept DEF OutlineInv
  <2>2. Holds(agreed)' /\ run'.state.kept.outline = agreed' /\ run'.state.kept.approved = agreed'
    BY <1>1, <1>2, <1>3, <2>1 DEF Holds
  <2>3. OutlineKept'
    BY <1>1, <1>2, <2>2 DEF OutlineKept, Holds, ShownOutline, Else
  <2> QED BY <1>1, <1>3, <2>1, <2>3 DEF FirstStage
<1> QED BY <1>1, <1>2, <1>4 DEF OutlineInv, OutlineKept

\* The end of a run that is not stored leaves every outline where it is.
LEMMA EndKeeps ==
  ASSUME PipelineInv, OutlineInv, EndFailed \/ RetryRun \/ LoseRun
  PROVE  OutlineInv'
<1>1. run'.pc = "idle" /\ UNCHANGED <<job, agreed>>
  BY DEF EndFailed, RetryRun, LoseRun, PipelineInv, PipelineTypeOK
<1>2. session'.outline = session.outline /\ session'.active = session.active
  BY DEF EndFailed, RetryRun, LoseRun, PipelineInv, PipelineTypeOK
<1>3. /\ Active'.outline = Active.outline /\ Active'.approved = Active.approved
      /\ Active'.snapshot = Active.snapshot
  <2>1. CASE EndFailed
    <3> DEFINE v == [Active EXCEPT !.feedback = Reason]
    <3>1. v \in VersionRow /\ v.outline = Active.outline /\ v.approved = Active.approved
          /\ v.snapshot = Active.snapshot
      BY ActiveTyped DEF VersionRow, Reason, Opt, Feedbacks
    <3>2. versions' = [versions EXCEPT ![session.active] = v]
      BY <2>1 DEF EndFailed, Active
    <3> HIDE DEF v
    <3>3. Active' = v
      BY <1>2, <3>1, <3>2, VersionStored DEF Active
    <3> QED BY <3>1, <3>3
  <2>2. CASE RetryRun \/ LoseRun
    BY <1>2, <2>2 DEF RetryRun, LoseRun, Active
  <2> QED BY <2>1, <2>2
<1>4. ASSUME agreed # None PROVE OutlineKept'
  <2>1. Holds(agreed)
    BY <1>4, HoldsKept DEF OutlineInv
  <2> QED BY <1>1, <1>2, <1>3, <2>1 DEF OutlineKept, Holds, ShownOutline, Else
<1> QED BY <1>1, <1>4 DEF OutlineInv, OutlineKept

\* After the approval no agent writes an outline: research, draft and review
\* lie beside it in the session state.
LEMMA AgentsKeep ==
  ASSUME PipelineInv, OutlineInv,
         ClassifyIntent \/ WriteOutline \/ Research \/ WriteDraft \/ EditDraft
  PROVE  OutlineInv'
<1>1. UNCHANGED <<session, versions, job, agreed>> /\ run.pc # "idle"
  BY DEF ClassifyIntent, WriteOutline, Research, WriteDraft, EditDraft, Went
<1>2. session'.status = "PROCESSING" /\ Active' = Active
  BY <1>1 DEF OutlineInv, Active
<1>3. ASSUME agreed # None
      PROVE  OutlineKept' /\ run'.pc \notin {"intent", "outline"}
  <2>1. /\ Holds(agreed)
        /\ run.state.kept.outline = agreed /\ run.state.kept.approved = agreed
    BY <1>1, <1>3, HoldsKept DEF OutlineInv
  <2>2. Research \/ WriteDraft \/ EditDraft
    BY <1>3 DEF OutlineInv, ClassifyIntent, WriteOutline, Went
  <2>3. run \in [pc : Stages, approved : Opt(Outlines), feedback : Opt(Feedbacks),
                 state : State, used : SUBSET Agents]
    BY DEF PipelineInv, PipelineTypeOK
  <2>4. run.state \in State /\ run.state.kept \in Snapshot
    BY <2>3 DEF State
  <2>5. /\ run'.pc \in {"writer", "editor", "end"}
        /\ run'.state.kept.outline = run.state.kept.outline
        /\ run'.state.kept.approved = run.state.kept.approved
    <3>1. CASE Research
      BY <2>3, <2>4, <3>1 DEF Research, Went, Follows, State, Snapshot
    <3>2. CASE WriteDraft
      <4> DEFINE d == [by |-> "writer", run |-> runs, iter |-> run.state.iterations + 1]
      <4>1. Went("writer", "editor", [run.state EXCEPT !.kept.draft = d])
            \/ Went("writer", "editor", run.state)
        BY <3>2 DEF WriteDraft, Follows
      <4> HIDE DEF d
      <4> DEFINE st == [run.state EXCEPT !.kept.draft = d]
      <4>2. /\ st.kept.outline = run.state.kept.outline
            /\ st.kept.approved = run.state.kept.approved
        BY <2>4 DEF State, Snapshot
      <4>3. Went("writer", "editor", st) \/ Went("writer", "editor", run.state)
        BY <4>1
      <4> HIDE DEF st
      <4> QED BY <2>3, <4>2, <4>3 DEF Went
    <3>3. CASE EditDraft
      <4>1. PICK review \in Judged :
              LET st == Counted([run.state EXCEPT !.raw = review, !.kept.review = review])
              IN  Went("editor", RouteAfterEditor(st), st)
        BY <3>3 DEF EditDraft
      <4> DEFINE st == Counted([run.state EXCEPT !.raw = review, !.kept.review = review])
      <4>2. /\ st.kept.outline = run.state.kept.outline
            /\ st.kept.approved = run.state.kept.approved
        BY <2>4 DEF Counted, State, Snapshot
      <4>3. RouteAfterEditor(st) \in {"writer", "end"}
        BY DEF RouteAfterEditor
      <4>4. Went("editor", RouteAfterEditor(st), st)
        BY <4>1
      <4> HIDE DEF st
      <4> QED BY <2>3, <4>2, <4>3, <4>4 DEF Went
    <3> QED BY <2>2, <3>1, <3>2, <3>3
  <2>6. Holds(agreed)'
    BY <1>1, <1>2, <2>1 DEF Holds
  <2> QED BY <1>1, <2>1, <2>5, <2>6 DEF OutlineKept, Holds, ShownOutline, Else
<1> QED BY <1>1, <1>2, <1>3 DEF OutlineInv, OutlineKept

\* The checkpoint of a first run comes before any approval, and that of a later
\* one writes the outline its run was given.
LEMMA PersistKeeps ==
  ASSUME PipelineInv, OutlineInv, PersistRejection \/ PersistOutline \/ PersistFinal
  PROVE  OutlineInv'
<1>1. run'.pc = "idle" /\ UNCHANGED <<job, agreed>> /\ run.pc # "idle"
  BY DEF PersistRejection, PersistOutline, PersistFinal, Checkpoint, PipelineInv, PipelineTypeOK
<1>2. ASSUME agreed # None PROVE OutlineKept'
  <2>1. PersistFinal /\ job # "fresh_generation"
    BY <1>2 DEF OutlineInv, PersistRejection, PersistOutline
  <2>2. /\ Result.outline = agreed /\ Result \in Snapshot
        /\ SnapshotOf(run.feedback) \in Snapshot
    <3>1. run.feedback \in Opt(Feedbacks)
      BY DEF PipelineInv, PipelineTypeOK
    <3>2. Result \in Snapshot /\ SnapshotOf(run.feedback) \in Snapshot
      BY <3>1, ResultTyped
    <3>3. run.state.kept.outline = agreed
      BY <1>1, <1>2, HoldsKept DEF OutlineInv
    <3> QED BY <3>2, <3>3 DEF Result
  <2>3. SnapshotOf(run.feedback).outline = agreed /\ SnapshotOf(run.feedback).approved = agreed
    BY <1>2, <2>1, <2>2 DEF SnapshotOf, Else, Snapshot
  <2>4. PICK v : /\ Checkpoint("AWAITING_FINAL_REVIEW", v)
                 /\ v.outline = Else(Result.outline, Active.outline)
                 /\ v.approved = Else(SnapshotOf(run.feedback).approved, Active.approved)
                 /\ v.snapshot = SnapshotOf(run.feedback)
    BY <2>1 DEF PersistFinal
  <2>5. /\ v.outline = agreed /\ v.approved = agreed
        /\ v.snapshot.outline = agreed /\ v.snapshot.approved = agreed
    BY <1>2, <2>2, <2>3, <2>4 DEF Else
  <2>6. session'.active = session.active /\ session'.outline = agreed
        /\ versions' = [versions EXCEPT ![session.active] = v]
    BY <1>2, <2>4, <2>5 DEF Checkpoint, Else
  <2>7. Active' = v
    BY <2>6, ActiveTyped DEF Active, PipelineInv, PipelineTypeOK
  <2> QED BY <1>1, <1>2, <2>5, <2>6, <2>7 DEF OutlineKept, ShownOutline, Else
<1> QED BY <1>1, <1>2 DEF OutlineInv, OutlineKept

\* The approval writes the outline to all its places.
LEMMA SubmitKeeps ==
  ASSUME PipelineInv, OutlineInv, SubmitOutlineReview
  PROVE  OutlineInv'
<1>1. run.pc = "idle" /\ run' = run /\ job' = "research_phase"
  BY DEF SubmitOutlineReview, OutlineInv
<1>2. PICK o, f :
         /\ versions' = [versions EXCEPT ![session.active] =
                           [@ EXCEPT !.outline = o, !.approved = o, !.feedback = f,
                                     !.snapshot = ReviewedSnapshot(o, f)]]
         /\ session' = [session EXCEPT !.status = "QUEUED", !.outline = o]
         /\ agreed' = o
  BY DEF SubmitOutlineReview
<1> DEFINE v == [Active EXCEPT !.outline = o, !.approved = o, !.feedback = f,
                               !.snapshot = ReviewedSnapshot(o, f)]
<1>3. /\ v.outline = o /\ v.approved = o
      /\ v.snapshot.outline = o /\ v.snapshot.approved = o
  BY ActiveTyped DEF VersionRow, ReviewedSnapshot, Snapshot
<1>4. versions' = [versions EXCEPT ![session.active] = v]
  BY <1>2 DEF Active
<1>5. session'.outline = o /\ session'.active = session.active
  BY <1>2 DEF PipelineInv, PipelineTypeOK
<1> HIDE DEF v
<1>6. Active' = v
  BY <1>4, <1>5, ActiveTyped DEF Active, PipelineInv, PipelineTypeOK
<1>7. OutlineKept'
  BY <1>1, <1>2, <1>3, <1>5, <1>6 DEF OutlineKept, ShownOutline, Else
<1> QED BY <1>1, <1>7 DEF OutlineInv

\* A revision is a copy of the reviewed version, its outlines included.
LEMMA RevisionKeeps ==
  ASSUME PipelineInv, OutlineInv, RequestRevision
  PROVE  OutlineInv'
<1>1. run.pc = "idle" /\ run' = run /\ job' = "revision" /\ agreed' = agreed
  BY DEF RequestRevision, OutlineInv
<1>2. session'.outline = session.outline
  BY DEF RequestRevision, PipelineInv, PipelineTypeOK
<1>3. /\ Active'.outline = Active.outline /\ Active'.approved = Active.approved
      /\ Active'.snapshot.outline = Active.snapshot.outline
      /\ Active'.snapshot.approved = Active.snapshot.approved
  <2> DEFINE f == session.active + 1
  <2>1. Active' = [Active EXCEPT !.feedback = f, !.snapshot = RevisedSnapshot(f)]
    BY RevisionTyped
  <2> HIDE DEF f
  <2>2. Active \in VersionRow /\ Active.snapshot \in Snapshot
    BY ActiveTyped DEF VersionRow
  <2>3. /\ RevisedSnapshot(f).outline = Active.snapshot.outline
        /\ RevisedSnapshot(f).approved = Active.snapshot.approved
    BY <2>2 DEF RevisedSnapshot, Snapshot
  <2> QED BY <2>1, <2>2, <2>3 DEF VersionRow
<1>4. ASSUME agreed # None PROVE OutlineKept'
  <2>1. Holds(agreed)
    BY <1>4, HoldsKept DEF OutlineInv
  <2> QED BY <1>1, <1>2, <1>3, <2>1 DEF OutlineKept, Holds, ShownOutline, Else
<1> QED BY <1>1, <1>4 DEF OutlineInv, OutlineKept

LEMMA CloseKeeps ==
  ASSUME PipelineInv, OutlineInv, CloseReview \/ UNCHANGED vars
  PROVE  OutlineInv'
<1>1. UNCHANGED <<versions, job, run, agreed>> /\ (session'.status = session.status \/ run.pc = "idle")
  BY DEF CloseReview, vars, OutlineInv
<1>2. session'.outline = session.outline /\ session'.active = session.active
  BY DEF CloseReview, vars, PipelineInv, PipelineTypeOK
<1>3. Active' = Active
  BY <1>1, <1>2 DEF Active
<1> QED BY <1>1, <1>2, <1>3 DEF OutlineInv, OutlineKept, ShownOutline, Else

LEMMA StepKeeps == PipelineInv /\ OutlineInv /\ [Next]_vars => OutlineInv'
<1> SUFFICES ASSUME PipelineInv, OutlineInv, [Next]_vars PROVE OutlineInv'
  OBVIOUS
<1>1. CASE StartRun
  BY <1>1, StartKeeps
<1>2. CASE RefuseOutput \/ FailRun \/ RetryRun \/ LoseRun
  <2>1. EndFailed \/ RetryRun \/ LoseRun
    BY <1>2 DEF RefuseOutput, FailRun
  <2> QED BY <2>1, EndKeeps
<1>3. CASE RunStep
  BY <1>3, AgentsKeep, PersistKeeps DEF RunStep
<1>4. CASE SubmitOutlineReview \/ RequestRevision
  BY <1>4, SubmitKeeps, RevisionKeeps
<1>5. CASE CloseReview \/ UNCHANGED vars
  BY <1>5, CloseKeeps
<1> QED BY <1>1, <1>2, <1>3, <1>4, <1>5 DEF Next

\* The outline the user approved is the one every later run is given, and the
\* one stored and shown in each of its places, whatever fails or is revised:
\* _hydrate_job, _build_state_snapshot and create_revision_from_active carry it
\* over, for any number of runs and versions.
THEOREM OutlineIsKept == Spec => []OutlineKept
<1>1. Init => OutlineInv
  BY DEF Init, OutlineInv, OutlineKept, Idle
<1>2. OutlineInv => OutlineKept
  BY DEF OutlineInv
<1> QED BY InitTyped, StepTyped, StepKeeps, <1>1, <1>2, PTL DEF Spec

-------------------------------------------------------------------------------
(* The bookings *)

\* The stages an event's runs go through.
StagesOf(phase) ==
  IF phase = "fresh_generation" THEN {"intent", "outline"} ELSE {"research", "writer", "editor"}

\* Before the result of an event is stored, none of its stages is booked for the
\* version it is made for: a version is given to the outline, to the first text
\* or to one revision, and the outline's stages are not those of a text.
BookInv ==
  /\ BookedOnce
  /\ session.active = Len(versions)
  /\ \A b \in booked : b.version <= session.active
  /\ run.pc # "idle" => /\ session.status = "PROCESSING"
                        /\ run.pc \in StagesOf(job) \cup {"end"}
                        /\ run.used \subseteq StagesOf(job)
  /\ session.status \in WorkStatuses =>
       \A b \in booked : b.version = session.active => b.stage \notin StagesOf(job)
  /\ session.status = "AWAITING_OUTLINE_REVIEW" =>
       \A b \in booked : b.version = session.active => b.stage \in {"intent", "outline"}
  /\ job = "fresh_generation" => \A b \in booked : b.stage \in {"intent", "outline"}

LEMMA RunsBook ==
  ASSUME PipelineInv, BookInv, StartRun \/ EndFailed \/ RetryRun \/ LoseRun
  PROVE  BookInv'
<1>1. UNCHANGED <<booked, kept, job>>
  BY DEF StartRun, EndFailed, RetryRun, LoseRun
<1>2. session'.active = session.active /\ Len(versions') = Len(versions)
  BY DEF StartRun, EndFailed, RetryRun, LoseRun, PipelineInv, PipelineTypeOK
<1>3. session'.status \in WorkStatuses => session.status \in WorkStatuses
  <2>1. RetryRun => session.status = "PROCESSING"
    BY DEF RetryRun, BookInv, Agents
  <2> QED
    BY <2>1 DEF StartRun, EndFailed, RetryRun, LoseRun, PipelineInv, PipelineTypeOK, WorkStatuses
<1>4. session'.status = "AWAITING_OUTLINE_REVIEW" => session' = session
  BY DEF StartRun, EndFailed, RetryRun, LoseRun, PipelineInv, PipelineTypeOK
<1>5. run'.pc # "idle" => /\ session'.status = "PROCESSING"
                          /\ run'.pc \in StagesOf(job) /\ run'.used = {}
  BY DEF StartRun, EndFailed, RetryRun, LoseRun, PipelineInv, PipelineTypeOK, FirstStage, StagesOf
<1>6. BookedOnce'
  BY <1>1 DEF BookInv, BookedOnce
<1> QED BY <1>1, <1>2, <1>3, <1>4, <1>5, <1>6 DEF BookInv

LEMMA AgentsBook ==
  ASSUME PipelineInv, BookInv,
         ClassifyIntent \/ WriteOutline \/ Research \/ WriteDraft \/ EditDraft
  PROVE  BookInv'
<1>1. PICK agent, next, st :
        /\ agent \in Agents /\ next \in Stages
        /\ Went(agent, next, st)
        /\ next \in (IF agent \in {"intent", "outline"} THEN {"outline", "end"}
                                                       ELSE {"writer", "editor", "end"})
  <2>1. CASE ClassifyIntent
    BY <2>1 DEF ClassifyIntent, RouteAfterIntent, Agents, Stages
  <2>2. CASE WriteOutline
    BY <2>2 DEF WriteOutline, Follows, Agents, Stages
  <2>3. CASE Research
    BY <2>3 DEF Research, Follows, Agents, Stages
  <2>4. CASE WriteDraft
    BY <2>4 DEF WriteDraft, Follows, Agents, Stages
  <2>5. CASE EditDraft
    <3>1. PICK st : Went("editor", RouteAfterEditor(st), st)
      BY <2>5 DEF EditDraft
    <3>2. RouteAfterEditor(st) \in {"writer", "end"}
      BY DEF RouteAfterEditor
    <3> QED BY <3>1, <3>2 DEF Agents, Stages
  <2> QED BY <2>1, <2>2, <2>3, <2>4, <2>5
<1>2. UNCHANGED <<session, versions, job, booked, kept>> /\ run.pc = agent
  BY <1>1 DEF Went
<1>3. agent \in StagesOf(job) /\ run.used \subseteq StagesOf(job) /\ session.status = "PROCESSING"
  BY <1>1, <1>2 DEF BookInv, Agents
<1>4. run'.pc = next /\ run'.used = run.used \cup {agent}
  BY <1>1 DEF Went, PipelineInv, PipelineTypeOK
<1>5. next \in StagesOf(job) \cup {"end"}
  BY <1>1, <1>3 DEF StagesOf
<1>6. BookedOnce'
  BY <1>2 DEF BookInv, BookedOnce
<1> QED BY <1>2, <1>3, <1>4, <1>5, <1>6 DEF BookInv

\* What a checkpoint books is new to the version.
LEMMA BookNew ==
  ASSUME PipelineInv, BookInv, run.pc = "end",
         booked' = Book(run.used),
         kept' = kept \cup {[version |-> session.active, run |-> runs, used |-> run.used]}
  PROVE  /\ BookedOnce'
         /\ booked' = booked \cup { [version |-> session.active, stage |-> s, run |-> runs] :
                                       s \in run.used }
<1>1. /\ run.used \subseteq StagesOf(job)
      /\ \A b \in booked : b.version = session.active => b.stage \notin StagesOf(job)
  BY DEF BookInv, WorkStatuses
<1>2. { t \in run.used : ~\E b \in booked : b.version = session.active /\ b.stage = t } = run.used
  BY <1>1
<1> DEFINE new == { [version |-> session.active, stage |-> s, run |-> runs] : s \in run.used }
<1>3. booked' = booked \cup new
  BY <1>2 DEF Book
<1>4. \A s \in run.used : [version |-> session.active, stage |-> s, run |-> runs] \in booked'
  BY <1>3
<1>5. \A b \in new : /\ b.version = session.active /\ b.stage \in run.used
                     /\ b = [version |-> session.active, stage |-> b.stage, run |-> runs]
  OBVIOUS
<1> HIDE DEF new
<1>6. \A k \in kept' : \A s \in k.used : [version |-> k.version, stage |-> s, run |-> k.run] \in booked'
  <2> SUFFICES ASSUME NEW k \in kept', NEW s \in k.used
               PROVE  [version |-> k.version, stage |-> s, run |-> k.run] \in booked'
    OBVIOUS
  <2>1. CASE k \in kept
    BY <1>3, <2>1 DEF BookInv, BookedOnce
  <2>2. CASE k = [version |-> session.active, run |-> runs, used |-> run.used]
    BY <1>4, <2>2
  <2> QED BY <2>1, <2>2
<1>7. \A b, c \in booked' : b.version = c.version /\ b.stage = c.stage => b = c
  BY <1>1, <1>3, <1>5 DEF BookInv, BookedOnce
<1> QED BY <1>3, <1>6, <1>7 DEF BookedOnce, new

LEMMA PersistBooks ==
  ASSUME PipelineInv, BookInv, PersistRejection \/ PersistOutline \/ PersistFinal
  PROVE  BookInv'
<1>1. PICK status, v :
        /\ Checkpoint(status, v)
        /\ status \notin WorkStatuses
        /\ status = "AWAITING_OUTLINE_REVIEW" => job = "fresh_generation"
  BY DEF PersistRejection, PersistOutline, PersistFinal, WorkStatuses
<1>2. /\ session'.status = status /\ session'.active = session.active
      /\ run.pc = "end" /\ run'.pc = "idle" /\ job' = job
      /\ Len(versions') = Len(versions)
  BY <1>1 DEF Checkpoint, PipelineInv, PipelineTypeOK
<1>3. /\ BookedOnce'
      /\ booked' = booked \cup { [version |-> session.active, stage |-> s, run |-> runs] :
                                    s \in run.used }
  BY <1>1, BookNew DEF Checkpoint
<1>4. session.status = "PROCESSING" /\ run.used \subseteq StagesOf(job)
  BY <1>2 DEF BookInv
<1>5. \A b \in booked' : b.version <= session.active
  BY <1>3, ActiveTyped DEF BookInv
<1>6. session'.status = "AWAITING_OUTLINE_REVIEW" =>
        \A b \in booked' : b.version = session.active => b.stage \in {"intent", "outline"}
  <2> SUFFICES ASSUME session'.status = "AWAITING_OUTLINE_REVIEW",
                      NEW b \in booked', b.version = session.active
               PROVE  b.stage \in {"intent", "outline"}
    OBVIOUS
  <2>1. run.used \subseteq {"intent", "outline"}
    BY <1>1, <1>2, <1>4 DEF StagesOf
  <2>2. CASE b \in booked
    BY <1>1, <1>2, <2>2 DEF BookInv
  <2>3. CASE b \notin booked
    BY <1>3, <2>1, <2>3
  <2> QED BY <2>2, <2>3
<1>7. job' = "fresh_generation" => \A b \in booked' : b.stage \in {"intent", "outline"}
  BY <1>2, <1>3, <1>4 DEF BookInv, StagesOf
<1> QED BY <1>1, <1>2, <1>3, <1>5, <1>6, <1>7 DEF BookInv

LEMMA ReviewsBook ==
  ASSUME PipelineInv, BookInv,
         SubmitOutlineReview \/ RequestRevision \/ CloseReview \/ UNCHANGED vars
  PROVE  BookInv'
<1>1. UNCHANGED <<run, booked, kept>>
  BY DEF SubmitOutlineReview, RequestRevision, CloseReview, vars
<1>2. BookedOnce'
  BY <1>1 DEF BookInv, BookedOnce
<1>3. CASE SubmitOutlineReview
  <2>1. /\ session'.active = session.active /\ Len(versions') = Len(versions)
        /\ job' = "research_phase" /\ session'.status = "QUEUED" /\ run.pc = "idle"
    BY <1>3 DEF SubmitOutlineReview, BookInv, PipelineInv, PipelineTypeOK
  <2>2. \A b \in booked : b.version = session.active => b.stage \in {"intent", "outline"}
    BY <1>3 DEF SubmitOutlineReview, BookInv
  <2> QED BY <1>1, <1>2, <2>1, <2>2 DEF BookInv, StagesOf
<1>4. CASE RequestRevision
  <2>1. /\ session'.status = "QUEUED" /\ run.pc = "idle" /\ job' = "revision"
        /\ session'.active = Len(versions') /\ Len(versions') = Len(versions) + 1
    BY <1>4 DEF RequestRevision, WithRevision, BookInv, PipelineInv, PipelineTypeOK
  <2>2. \A b \in booked : b.version \in Nat /\ b.version <= Len(versions)
    BY DEF BookInv, PipelineInv, PipelineTypeOK
  <2>3. Len(versions) \in Nat
    BY DEF PipelineInv, PipelineTypeOK
  <2>4. \A b \in booked : b.version < session'.active /\ b.version # session'.active
    BY <2>1, <2>2, <2>3
  <2>5. \A b \in booked : b.version <= session'.active
    BY <2>1, <2>2, <2>3
  <2> QED BY <1>1, <1>2, <2>1, <2>4, <2>5 DEF BookInv
<1>5. CASE CloseReview
  <2>1. /\ session'.status \in {"COMPLETED", "REJECTED"} /\ run.pc = "idle"
        /\ session'.active = session.active /\ versions' = versions /\ job' = job
    BY <1>5 DEF CloseReview, BookInv, PipelineInv, PipelineTypeOK
  <2> QED BY <1>1, <1>2, <2>1 DEF BookInv, WorkStatuses
<1>6. CASE UNCHANGED vars
  BY <1>2, <1>6 DEF vars, BookInv
<1> QED BY <1>3, <1>4, <1>5, <1>6

LEMMA StepBooks == PipelineInv /\ BookInv /\ [Next]_vars => BookInv'
<1> SUFFICES ASSUME PipelineInv, BookInv, [Next]_vars PROVE BookInv'
  OBVIOUS
<1>1. CASE StartRun \/ RefuseOutput \/ FailRun \/ RetryRun \/ LoseRun
  <2>1. StartRun \/ EndFailed \/ RetryRun \/ LoseRun
    BY <1>1 DEF RefuseOutput, FailRun
  <2> QED BY <2>1, RunsBook
<1>2. CASE RunStep
  BY <1>2, AgentsBook, PersistBooks DEF RunStep
<1>3. CASE SubmitOutlineReview \/ RequestRevision \/ CloseReview \/ UNCHANGED vars
  BY <1>3, ReviewsBook
<1> QED BY <1>1, <1>2, <1>3 DEF Next

\* A version whose editor has been stored is not written to again.
LEMMA StepFreezes ==
  ASSUME PipelineInv, BookInv, [Next]_vars,
         NEW k \in kept, "editor" \in k.used
  PROVE  Documents(versions'[k.version]) = Documents(versions[k.version])
<1>1. PICK b \in booked : b.version = k.version /\ b.stage = "editor"
  <2>1. [version |-> k.version, stage |-> "editor", run |-> k.run] \in booked
    BY DEF BookInv, BookedOnce
  <2> QED BY <2>1
<1>2. k.version \in Nat /\ k.version <= Len(versions) /\ k.version \in DOMAIN versions
  BY <1>1 DEF BookInv, PipelineInv, PipelineTypeOK
<1>3. job # "fresh_generation"
  BY <1>1 DEF BookInv
<1>4. session.status \in WorkStatuses \cup {"AWAITING_OUTLINE_REVIEW"} => k.version # session.active
  BY <1>1, <1>3 DEF BookInv, StagesOf
<1>5. CASE RefuseOutput \/ FailRun
  <2>1. versions' = [versions EXCEPT ![session.active].feedback = Reason]
    BY <1>5 DEF RefuseOutput, FailRun, EndFailed
  <2>2. CASE k.version = session.active
    <3>1. versions'[k.version] = [Active EXCEPT !.feedback = Reason]
      BY <1>2, <2>1, <2>2 DEF Active, PipelineInv, PipelineTypeOK
    <3> QED BY <2>2, <3>1, ActiveTyped DEF Documents, VersionRow, Active
  <2>3. CASE k.version # session.active
    BY <1>2, <2>1, <2>3 DEF PipelineInv, PipelineTypeOK
  <2> QED BY <2>2, <2>3
<1>6. CASE PersistRejection \/ PersistOutline \/ PersistFinal
  <2>1. PICK v : versions' = [versions EXCEPT ![session.active] = v]
    BY <1>6 DEF PersistRejection, PersistOutline, PersistFinal, Checkpoint
  <2>2. session.status = "PROCESSING"
    BY <1>6 DEF PersistRejection, PersistOutline, PersistFinal, Checkpoint, BookInv
  <2> QED BY <1>2, <1>4, <2>1, <2>2 DEF WorkStatuses, PipelineInv, PipelineTypeOK
<1>7. CASE SubmitOutlineReview
  <2>1. PICK v : versions' = [versions EXCEPT ![session.active] = v]
    BY <1>7 DEF SubmitOutlineReview
  <2> QED BY <1>2, <1>4, <1>7, <2>1 DEF SubmitOutlineReview, PipelineInv, PipelineTypeOK
<1>8. CASE RequestRevision
  <2>1. PICK v : versions' = Append(versions, v)
    BY <1>8 DEF RequestRevision, WithRevision
  <2> QED BY <1>2, <2>1 DEF PipelineInv, PipelineTypeOK
<1>9. CASE StartRun \/ RetryRun \/ LoseRun \/ CloseReview \/ UNCHANGED vars
  BY <1>9 DEF StartRun, RetryRun, LoseRun, CloseReview, vars
<1>10. CASE ClassifyIntent \/ WriteOutline \/ Research \/ WriteDraft \/ EditDraft
  BY <1>10 DEF ClassifyIntent, WriteOutline, Research, WriteDraft, EditDraft, Went
<1> QED BY <1>5, <1>6, <1>7, <1>8, <1>9, <1>10 DEF Next, RunStep

\* A text the editor has let through, and what lies beside it, is never replaced:
\* submit_outline_review, persist_success and persist_failure write to the active
\* version, which by then waits for its review or has given way to a revision.
THEOREM VersionsAreFrozen == Spec => VersionsFrozen
<1>1. Init => BookInv
  BY DEF Init, BookInv, BookedOnce, Idle
<1>2. PipelineInv /\ BookInv /\ [Next]_vars =>
        [\A k \in kept : "editor" \in k.used =>
           Documents(versions'[k.version]) = Documents(versions[k.version])]_vars
  BY StepFreezes
<1> QED BY InitTyped, StepTyped, StepBooks, <1>1, <1>2, PTL DEF Spec, VersionsFrozen

\* What the agents of a stored run spent is booked, and booked once: _commit_usage
\* never passes over a stage because an earlier attempt, the outline's run or
\* another revision left it COMPLETED.
THEOREM StagesBookedOnce == Spec => []BookedOnce
<1>1. Init => BookInv
  BY DEF Init, BookInv, BookedOnce, Idle
<1>2. BookInv => BookedOnce
  BY DEF BookInv
<1> QED BY InitTyped, StepTyped, StepBooks, <1>1, <1>2, PTL DEF Spec

-------------------------------------------------------------------------------
(* The feedback *)

\* While the workflow owes a result, the active version and its snapshot hold
\* what the user asked for last: a failure that overwrites it is the last one.
FeedbackInv ==
  /\ FeedbackReaches
  /\ run.pc # "idle" => session.status = "PROCESSING"
  /\ session.status \in WorkStatuses => Active.feedback = asked /\ Active.snapshot.feedback = asked

\* The agents leave the feedback of their run alone.
LEMMA AgentsHear ==
  ASSUME PipelineInv,
         ClassifyIntent \/ WriteOutline \/ Research \/ WriteDraft \/ EditDraft
  PROVE  /\ UNCHANGED <<session, versions, asked>>
         /\ run.pc # "idle" /\ run'.feedback = run.feedback
         /\ run'.state.kept.feedback = run.state.kept.feedback
<1>1. run.state.kept \in Snapshot /\ run.state \in State
  BY DEF PipelineInv, PipelineTypeOK, State
<1>2. PICK agent, next, st :
        Went(agent, next, st) /\ st.kept.feedback = run.state.kept.feedback /\ agent \in Agents
  <2>1. CASE ClassifyIntent
    BY <1>1, <2>1 DEF ClassifyIntent, State, Snapshot, Agents
  <2>2. CASE WriteOutline
    BY <1>1, <2>2 DEF WriteOutline, State, Snapshot, Agents
  <2>3. CASE Research
    BY <1>1, <2>3 DEF Research, State, Snapshot, Agents
  <2>4. CASE WriteDraft
    <3> DEFINE d == [by |-> "writer", run |-> runs, iter |-> run.state.iterations + 1]
               st == [run.state EXCEPT !.kept.draft = d]
    <3>1. Went("writer", Follows.writer, st) \/ Went("writer", Follows.writer, run.state)
      BY <2>4 DEF WriteDraft
    <3>2. st.kept.feedback = run.state.kept.feedback
      BY <1>1 DEF State, Snapshot
    <3> HIDE DEF st
    <3> QED BY <3>1, <3>2 DEF Agents
  <2>5. CASE EditDraft
    <3>1. PICK review \in Judged :
            LET st == Counted([run.state EXCEPT !.raw = review, !.kept.review = review])
            IN  Went("editor", RouteAfterEditor(st), st)
      BY <2>5 DEF EditDraft
    <3> DEFINE st == Counted([run.state EXCEPT !.raw = review, !.kept.review = review])
    <3>2. st.kept.feedback = run.state.kept.feedback
      BY <1>1 DEF Counted, State, Snapshot
    <3>3. Went("editor", RouteAfterEditor(st), st)
      BY <3>1
    <3> HIDE DEF st
    <3> QED BY <3>2, <3>3 DEF Agents
  <2> QED BY <2>1, <2>2, <2>3, <2>4, <2>5
<1> QED BY <1>2 DEF Went, Agents, PipelineInv, PipelineTypeOK

LEMMA StepHears == PipelineInv /\ FeedbackInv /\ [Next]_vars => FeedbackInv'
<1> SUFFICES ASSUME PipelineInv, FeedbackInv, [Next]_vars PROVE FeedbackInv'
  OBVIOUS
<1>1. CASE StartRun
  <2>1. UNCHANGED <<versions, asked>> /\ session' = [session EXCEPT !.status = "PROCESSING"]
        /\ session.status \in WorkStatuses
    BY <1>1 DEF StartRun
  <2>2. Active' = Active /\ session'.status = "PROCESSING"
    BY <2>1 DEF Active, PipelineInv, PipelineTypeOK
  <2>3. run'.feedback = Active.feedback /\ run'.state.kept = Active.snapshot
    BY <1>1 DEF StartRun, Seed
  <2> QED BY <2>1, <2>2, <2>3 DEF FeedbackInv, FeedbackReaches
<1>2. CASE RefuseOutput \/ FailRun \/ PersistRejection \/ PersistOutline \/ PersistFinal
  <2>1. run'.pc = "idle" /\ session'.status \notin WorkStatuses
    BY <1>2 DEF RefuseOutput, FailRun, EndFailed, PersistRejection, PersistOutline, PersistFinal,
                Checkpoint, WorkStatuses, PipelineInv, PipelineTypeOK
  <2> QED BY <2>1 DEF FeedbackInv, FeedbackReaches
<1>3. CASE RetryRun \/ LoseRun
  <2>1. run'.pc = "idle" /\ UNCHANGED <<versions, asked>> /\ session'.active = session.active
    BY <1>3 DEF RetryRun, LoseRun, PipelineInv, PipelineTypeOK
  <2>2. session.status = "PROCESSING"
    BY <1>3 DEF RetryRun, LoseRun, FeedbackInv, Agents
  <2>3. Active' = Active
    BY <2>1 DEF Active
  <2> QED BY <2>1, <2>2, <2>3 DEF FeedbackInv, FeedbackReaches, WorkStatuses
<1>4. CASE ClassifyIntent \/ WriteOutline \/ Research \/ WriteDraft \/ EditDraft
  <2>1. Active' = Active
    BY <1>4, AgentsHear DEF Active
  <2> QED BY <1>4, <2>1, AgentsHear DEF FeedbackInv, FeedbackReaches
<1>5. CASE SubmitOutlineReview
  <2>1. run.pc = "idle" /\ run' = run
    BY <1>5 DEF SubmitOutlineReview, FeedbackInv
  <2>2. PICK o, f :
          /\ versions' = [versions EXCEPT ![session.active] =
                            [@ EXCEPT !.outline = o, !.approved = o, !.feedback = f,
                                      !.snapshot = ReviewedSnapshot(o, f)]]
          /\ session' = [session EXCEPT !.status = "QUEUED", !.outline = o]
          /\ asked' = f
    BY <1>5 DEF SubmitOutlineReview
  <2> DEFINE v == [Active EXCEPT !.outline = o, !.approved = o, !.feedback = f,
                                 !.snapshot = ReviewedSnapshot(o, f)]
  <2>3. v.feedback = f /\ v.snapshot.feedback = f
    BY ActiveTyped DEF VersionRow, ReviewedSnapshot, Snapshot
  <2>4. versions' = [versions EXCEPT ![session.active] = v] /\ session'.active = session.active
    BY <2>2 DEF Active, PipelineInv, PipelineTypeOK
  <2> HIDE DEF v
  <2>5. Active' = v
    BY <2>4, ActiveTyped DEF Active, PipelineInv, PipelineTypeOK
  <2> QED BY <2>1, <2>2, <2>3, <2>5 DEF FeedbackInv, FeedbackReaches
<1>6. CASE RequestRevision
  <2>1. run.pc = "idle" /\ run' = run /\ asked' = session.active + 1
    BY <1>6 DEF RequestRevision, FeedbackInv
  <2>2. Active'.feedback = asked' /\ Active'.snapshot.feedback = asked'
    BY <1>6, <2>1, RevisionTyped, ActiveTyped DEF VersionRow, Snapshot, RevisedSnapshot
  <2> QED BY <2>1, <2>2 DEF FeedbackInv, FeedbackReaches
<1>7. CASE CloseReview
  <2>1. run'.pc = "idle" /\ session'.status \notin WorkStatuses
    BY <1>7 DEF CloseReview, FeedbackInv, WorkStatuses, PipelineInv, PipelineTypeOK
  <2> QED BY <2>1 DEF FeedbackInv, FeedbackReaches
<1>8. CASE UNCHANGED vars
  BY <1>8 DEF vars, FeedbackInv, FeedbackReaches, Active
<1> QED BY <1>1, <1>2, <1>3, <1>4, <1>5, <1>6, <1>7, <1>8 DEF Next, RunStep

\* Every run is given the feedback of the last review and no older one, although
\* _hydrate_job reads it from the version and the agents from its snapshot, and
\* although persist_failure writes an error in its place.
THEOREM FeedbackIsCurrent == Spec => []FeedbackReaches
<1>1. Init => FeedbackInv
  BY DEF Init, FeedbackInv, FeedbackReaches, Idle, Active, EmptyVersion, EmptySnapshot
<1>2. FeedbackInv => FeedbackReaches
  BY DEF FeedbackInv
<1> QED BY InitTyped, StepTyped, StepHears, <1>1, <1>2, PTL DEF Spec
-------------------------------------------------------------------------------
(* The text that is reviewed *)

\* A draft of this run, of the iteration.
DraftOf(i) == [by |-> "writer", run |-> runs, iter |-> i]

\* The editor has rejected what it has read so far, if anything.
Rejected == run.state.raw # None => run.state.raw.run = runs /\ run.state.raw.final = None

\* What the editor leaves: an approval of the last draft, or the last rejection.
Concluded ==
  LET review == run.state.kept.review
  IN /\ run.state.kept.draft = DraftOf(run.state.iterations)
     /\ review \in Reviews /\ review.run = runs
     /\ IF review.final # None
        THEN review.iter = run.state.iterations /\ review.final.run = runs
        ELSE run.state.iterations = MaxRefinements

\* Behind each agent of a run lies what it and those before it have written.
Written ==
  /\ job = "fresh_generation" => run.pc \in {"idle", "intent", "outline", "end"}
  /\ job # "fresh_generation" => run.pc \notin {"intent", "outline"}
  /\ run.pc = "research" => run.state.raw = None
  /\ run.pc \in {"writer", "editor"} => run.state.kept.research = runs /\ Rejected
  /\ run.pc = "editor" => run.state.kept.draft = DraftOf(run.state.iterations + 1)
  /\ run.pc = "end" /\ job # "fresh_generation" =>
       run.state.kept.research = runs /\ Concluded

ReviewInv ==
  /\ ReviewedIsCurrent /\ Written
  /\ session.active = Len(versions)
  /\ run.pc # "idle" => session.status = "PROCESSING"

\* Each agent writes behind the others, and no later run is begun meanwhile.
LEMMA StepWrites ==
  ASSUME "writer" \notin Silent, PipelineInv, Written, [Next]_vars,
         run.pc # "idle" => session.status = "PROCESSING"
  PROVE  Written'
<1>t. /\ run \in [pc : Stages, approved : Opt(Outlines), feedback : Opt(Feedbacks),
                  state : State, used : SUBSET Agents]
      /\ run.state \in State /\ run.state.kept \in Snapshot
  BY DEF PipelineInv, PipelineTypeOK, State
<1>0. ASSUME run'.pc = "idle" PROVE Written'
  BY <1>0 DEF Written
<1>1. CASE StartRun
  <2>1. run'.pc = FirstStage /\ run'.state.raw = None /\ job' = job
    BY <1>1 DEF StartRun, Seed
  <2> QED BY <2>1 DEF FirstStage, Written
<1>2. CASE \/ RefuseOutput \/ FailRun \/ RetryRun \/ LoseRun
           \/ PersistRejection \/ PersistOutline \/ PersistFinal
  BY <1>0, <1>2, <1>t DEF RefuseOutput, FailRun, EndFailed, RetryRun, LoseRun, PersistRejection,
                          PersistOutline, PersistFinal, Checkpoint
<1>3. CASE ClassifyIntent
  <2>1. PICK intent \in Intents :
          Went("intent", RouteAfterIntent(intent), [run.state EXCEPT !.kept.intent = intent])
    BY <1>3 DEF ClassifyIntent
  <2>2. run.pc = "intent" /\ run'.pc \in {"outline", "end"} /\ job' = job
    BY <1>t, <2>1 DEF Went, RouteAfterIntent
  <2> QED BY <2>2 DEF Written
<1>4. CASE WriteOutline
  <2>1. run.pc = "outline" /\ run'.pc = "end" /\ job' = job
    BY <1>4, <1>t DEF WriteOutline, Went, Follows
  <2> QED BY <2>1 DEF Written
<1>5. CASE Research
  <2>1. /\ run.pc = "research" /\ run'.pc = "writer" /\ job' = job /\ runs' = runs
        /\ run'.state = [run.state EXCEPT !.kept.research = runs]
    BY <1>5, <1>t DEF Research, Went, Follows
  <2>2. run'.state.kept.research = runs' /\ run'.state.raw = run.state.raw
    BY <1>t, <2>1 DEF State, Snapshot
  <2> QED BY <2>1, <2>2 DEF Written, Rejected
<1>6. CASE WriteDraft
  <2> DEFINE d == DraftOf(run.state.iterations + 1)
  <2>1. /\ run.pc = "writer" /\ run'.pc = "editor" /\ job' = job /\ runs' = runs
        /\ run'.state = [run.state EXCEPT !.kept.draft = d]
    BY <1>6, <1>t DEF WriteDraft, Went, Follows, Speaks, DraftOf
  <2>2. /\ run'.state.kept.draft = d /\ run'.state.kept.research = run.state.kept.research
        /\ run'.state.raw = run.state.raw /\ run'.state.iterations = run.state.iterations
    <3> HIDE DEF d
    <3> QED BY <1>t, <2>1 DEF State, Snapshot
  <2>3. run'.state.kept.draft = [by |-> "writer", run |-> runs', iter |-> run'.state.iterations + 1]
    BY <2>1, <2>2 DEF DraftOf
  <2> HIDE DEF d
  <2> QED BY <2>1, <2>2, <2>3 DEF Written, Rejected, DraftOf
<1>7. CASE EditDraft
  <2> DEFINE judged(review) == [run.state EXCEPT !.raw = review, !.kept.review = review]
  <2>1. PICK review \in Judged :
          Went("editor", RouteAfterEditor(Counted(judged(review))), Counted(judged(review)))
    BY <1>7 DEF EditDraft
  <2>2. run.pc = "editor" /\ job' = job /\ runs' = runs /\ run.pc \in Agents
    BY <2>1 DEF Went, Agents
  <2>3. run.state.iterations \in 0..(MaxRefinements - 1) /\ runs \in RunIds
    BY <2>2, StateTyped
  <2>4. /\ review \in Reviews /\ review.run = runs
        /\ review.final # None =>
             review.iter = run.state.iterations + 1 /\ review.final.run = runs
    <3>1. Polished \in Texts /\ Polished.run = runs
      BY <2>3 DEF Polished, Texts
    <3>2. CASE review \in Verdicts
      <4>1. PICK f \in {Polished, None} :
              review = [run |-> runs, iter |-> run.state.iterations + 1, final |-> f]
        BY <3>2 DEF Verdicts
      <4> QED BY <2>3, <3>1, <4>1 DEF Reviews, Opt
    <3>3. CASE review = run.state.raw /\ run.state.raw # None
      BY <1>t, <2>2, <3>3 DEF Written, Rejected, State, Opt
    <3> QED BY <3>2, <3>3 DEF Judged
  <2> DEFINE st == Counted(judged(review))
  <2>5. /\ st.iterations = run.state.iterations + 1 /\ st.raw = review /\ st.kept.review = review
        /\ st.kept.draft = run.state.kept.draft /\ st.kept.research = run.state.kept.research
    <3>1. /\ judged(review).iterations = run.state.iterations
          /\ judged(review).raw = review /\ judged(review).kept.review = review
          /\ judged(review).kept.draft = run.state.kept.draft
          /\ judged(review).kept.research = run.state.kept.research
          /\ judged(review) \in State
      BY <1>t, <2>4 DEF State, Snapshot, Opt
    <3> HIDE DEF judged
    <3> QED BY <3>1 DEF Counted, State
  <2>6. run'.state = st /\ run'.pc = RouteAfterEditor(st)
    BY <1>t, <2>1 DEF Went
  <2> HIDE DEF st
  <2>7. run.state.kept.draft = DraftOf(st.iterations) /\ st.kept.research = runs
    BY <2>2, <2>5 DEF Written
  <2>8. CASE run'.pc = "end"
    <3>1. review.final # None \/ st.iterations >= MaxRefinements
      BY <2>5, <2>6, <2>8 DEF RouteAfterEditor
    <3>2. IF review.final # None THEN review.iter = st.iterations /\ review.final.run = runs
                                 ELSE st.iterations = MaxRefinements
      BY <2>3, <2>4, <2>5, <3>1
    <3>3. Concluded'
      BY <2>2, <2>4, <2>5, <2>6, <2>7, <3>2 DEF Concluded, DraftOf
    <3> QED BY <2>2, <2>6, <2>5, <2>7, <2>8, <3>3 DEF Written
  <2>9. CASE run'.pc # "end"
    <3>1. run'.pc = "writer" /\ review.final = None
      BY <2>5, <2>6, <2>9 DEF RouteAfterEditor
    <3>2. Rejected' BY <2>2, <2>4, <2>5, <2>6, <3>1 DEF Rejected
    <3> QED BY <2>2, <2>5, <2>6, <2>7, <3>1, <3>2 DEF Written
  <2> QED BY <2>8, <2>9
<1>8. CASE SubmitOutlineReview \/ RequestRevision
  <2>1. run.pc = "idle" /\ run' = run
    BY <1>8 DEF SubmitOutlineReview, RequestRevision
  <2> QED BY <1>0, <2>1
<1>9. CASE CloseReview \/ UNCHANGED vars
  <2>1. run' = run /\ job' = job /\ runs' = runs BY <1>9 DEF CloseReview, vars
  <2> QED BY <2>1 DEF Written, Rejected, Concluded, DraftOf
<1> QED BY <1>1, <1>2, <1>3, <1>4, <1>5, <1>6, <1>7, <1>8, <1>9 DEF Next, RunStep

\* What the last of them left is what the version is stored with.
LEMMA FinalIsCurrent ==
  ASSUME PipelineInv, ReviewInv, PersistFinal
  PROVE  ReviewedIsCurrent'
<1> DEFINE v == [outline |-> Else(Result.outline, Active.outline),
                 approved |-> Else(SnapshotOf(run.feedback).approved, Active.approved),
                 research |-> Result.research, draft |-> Result.draft,
                 final |-> FinalContent, review |-> Result.review,
                 feedback |-> Else(run.feedback, Active.feedback),
                 snapshot |-> SnapshotOf(run.feedback)]
<1>1. Checkpoint("AWAITING_FINAL_REVIEW", v) /\ job # "fresh_generation" /\ FinalContent # None
  BY DEF PersistFinal
<1>2. Result.research = runs /\ Concluded
  BY <1>1 DEF Checkpoint, ReviewInv, Written, Result
<1>3. /\ v.research = runs /\ v.draft = DraftOf(run.state.iterations)
      /\ v.review = run.state.kept.review /\ v.review.run = runs
      /\ v.final = FinalContent
      /\ IF v.review.final # None THEN v.review.iter = v.draft.iter
                                  ELSE v.draft.iter = MaxRefinements
  BY <1>2 DEF Concluded, DraftOf, Result
<1>4. v.final = Else(v.review.final, v.draft)
  BY <1>2, <1>3, NoneAssumption DEF FinalContent, Concluded, Result
<1>5. v.draft.run = runs /\ v.final.run = runs
  BY <1>2, <1>3, <1>4 DEF Else, Concluded, DraftOf
<1>6. /\ session'.active = session.active /\ session'.final = Else(v.final, session.final)
      /\ versions' = [versions EXCEPT ![session.active] = v]
      /\ [version |-> session.active, run |-> runs, used |-> run.used] \in kept'
  BY <1>1 DEF Checkpoint
<1> HIDE DEF v
<1>7. /\ Len(versions') = Len(versions) /\ session.active = Len(versions)
      /\ versions'[session.active] = v
  BY <1>6, ActiveTyped DEF ReviewInv, PipelineInv, PipelineTypeOK
<1>8. Latest' = v /\ session'.final = v.final /\ ShownContent' = v.final
  BY <1>1, <1>3, <1>6, <1>7 DEF Latest, ShownContent, Else
<1> DEFINE k == [version |-> session.active, run |-> runs, used |-> run.used]
<1>9. k \in kept' /\ k.version = session'.active /\ k.run = runs
  BY <1>6
<1> HIDE DEF k
<1> QED BY <1>3, <1>4, <1>5, <1>6, <1>7, <1>8, <1>9 DEF ReviewedIsCurrent

\* Nothing else touches what waits for the review.
LEMMA StepReviews ==
  ASSUME "writer" \notin Silent, PipelineInv, ReviewInv, [Next]_vars
  PROVE  ReviewInv'
<1>1. Written' BY StepWrites DEF ReviewInv
<1>t. session \in [status : Statuses, active : 1..MaxVersions,
                   outline : Opt(Outlines), final : Opt(Texts)]
      /\ versions \in Seq(VersionRow)
      /\ run \in [pc : Stages, approved : Opt(Outlines), feedback : Opt(Feedbacks),
                  state : State, used : SUBSET Agents]
  BY DEF PipelineInv, PipelineTypeOK
<1> DEFINE Rest == /\ session'.active = Len(versions')
                   /\ run'.pc # "idle" => session'.status = "PROCESSING"
                   /\ ReviewedIsCurrent'
<1>2. ASSUME session'.status # "AWAITING_FINAL_REVIEW" PROVE ReviewedIsCurrent'
  BY <1>2 DEF ReviewedIsCurrent
<1>3. ASSUME StartRun PROVE Rest
  BY <1>2, <1>3, <1>t DEF StartRun, ReviewInv
<1>4. ASSUME RefuseOutput \/ FailRun \/ RetryRun \/ LoseRun PROVE Rest
  <2>1. /\ run.pc # "idle" /\ run'.pc = "idle" /\ session'.active = session.active
        /\ session'.status \in {"FAILED", "QUEUED", session.status}
        /\ Len(versions') = Len(versions)
    BY <1>4, <1>t DEF RefuseOutput, FailRun, EndFailed, RetryRun, LoseRun, Agents
  <2> QED BY <1>2, <2>1 DEF ReviewInv
<1>5. ASSUME ClassifyIntent \/ WriteOutline \/ Research \/ WriteDraft \/ EditDraft PROVE Rest
  <2>1. run.pc # "idle" /\ session' = session /\ versions' = versions
    BY <1>5, AgentsHear
  <2> QED BY <1>2, <2>1 DEF ReviewInv
<1>6. ASSUME PersistRejection \/ PersistOutline PROVE Rest
  <2>1. /\ run'.pc = "idle" /\ session'.active = session.active
        /\ session'.status \in {"AGENT_REJECTED", "AWAITING_OUTLINE_REVIEW"}
        /\ Len(versions') = Len(versions)
    BY <1>6, <1>t DEF PersistRejection, PersistOutline, Checkpoint
  <2> QED BY <1>2, <2>1 DEF ReviewInv
<1>7. ASSUME PersistFinal PROVE Rest
  <2>1. /\ run'.pc = "idle" /\ session'.active = session.active
        /\ Len(versions') = Len(versions)
    BY <1>7, <1>t DEF PersistFinal, Checkpoint
  <2> QED BY <1>7, <2>1, FinalIsCurrent DEF ReviewInv
<1>8. ASSUME SubmitOutlineReview PROVE Rest
  <2>1. /\ run.pc = "idle" /\ run' = run /\ session'.active = session.active
        /\ session'.status = "QUEUED" /\ Len(versions') = Len(versions)
    BY <1>8, <1>t DEF SubmitOutlineReview, ReviewInv
  <2> QED BY <1>2, <2>1 DEF ReviewInv
<1>9. ASSUME RequestRevision PROVE Rest
  <2>1. /\ run.pc = "idle" /\ run' = run /\ session'.active = Len(versions')
        /\ session'.status = "QUEUED"
    BY <1>9, <1>t DEF RequestRevision, ReviewInv
  <2> QED BY <1>2, <2>1
<1>10. ASSUME CloseReview PROVE Rest
  <2>1. /\ run.pc = "idle" /\ run' = run /\ versions' = versions
        /\ session'.active = session.active /\ session'.status \in {"COMPLETED", "REJECTED"}
    BY <1>10, <1>t DEF CloseReview, ReviewInv
  <2> QED BY <1>2, <2>1 DEF ReviewInv
<1>11. ASSUME UNCHANGED vars PROVE Rest
  BY <1>11 DEF vars, ReviewInv, ReviewedIsCurrent, Latest, ShownContent
<1> HIDE DEF Rest
<1>12. Rest
  BY <1>3, <1>4, <1>5, <1>6, <1>7, <1>8, <1>9, <1>10, <1>11 DEF Next, RunStep
<1> QED BY <1>1, <1>12 DEF ReviewInv, Rest

\* While the writer always writes, what is reviewed is the newest version, and
\* its evidence, draft, review and text come from one run made for it
\* (workflow_result_persister.py, persist_success).
THEOREM ReviewedComesFromOneRun ==
  ASSUME "writer" \notin Silent
  PROVE  Spec => []ReviewedIsCurrent
<1>1. Init => ReviewInv
  BY DEF Init, ReviewInv, ReviewedIsCurrent, Written, Idle, EmptyVersion
<1>2. ReviewInv => ReviewedIsCurrent BY DEF ReviewInv
<1>3. PipelineInv /\ ReviewInv /\ [Next]_vars => ReviewInv' BY StepReviews
<1> QED BY InitTyped, StepTyped, <1>1, <1>2, <1>3, PTL DEF Spec
================================================================================
