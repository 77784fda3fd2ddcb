----------------------------- MODULE PartsProofs -----------------------------
(***************************************************************************)
(* Proofs about the components that stand alone: the hierarchy of goals,   *)
(* the background jobs of the web server, the search of a stage, the       *)
(* context of a run and the edits of a file.                               *)
(***************************************************************************)
EXTENDS GoalHierarchy, ServerRun, StageSearch, ContextBudget, StageEdit,
        SequenceTheorems, FiniteSetTheorems, WellFoundedInduction, TLAPS

-----------------------------------------------------------------------------
(***************************************************************************)
(* Proofs about GoalHierarchy: types, and that no order of creations,      *)
(* moves and imports makes a cycle, for any set of goals.                  *)
(*                                                                         *)
(* The invariant is inductive with the types.  A set S of goals that is    *)
(* closed under `parent' after a step was closed before it, with two       *)
(* exceptions.  If the step made a goal g, nobody had it for a parent, and *)
(* S without g was closed.  If it moved g under p, then the walk from p    *)
(* never leaves S, because it does not meet g; but it ended at a root.     *)
(***************************************************************************)

\* The walk from p stays in any set that contains p and, for each of its
\* members that the walk can meet, the parent.
LEMMA WalkStays ==
    ASSUME NEW up \in [Goals -> Goals \cup {NoGoal}], NEW p \in Goals,
           NEW S \in SUBSET Goals, p \in S,
           \A x \in S \cap Walk(up, p) : up[x] \in S \cup {NoGoal}
    PROVE  Walk(up, p) \subseteq S
<1> DEFINE C == Walk(up, p)
           T == S \cap C
<1>1. p \in C
    BY DEF Walk, Closed
<1>2. ASSUME NEW x \in C, up[x] # NoGoal
      PROVE  up[x] \in C
    <2>1. x \in Goals /\ up[x] \in Goals
        BY <1>2 DEF Walk
    <2>2. \A R \in Closed(up, p) : x \in R
        BY DEF Walk
    <2>3. \A R \in Closed(up, p) : up[x] \in R
        BY <2>2, <1>2 DEF Closed
    <2> QED
        BY <2>1, <2>3 DEF Walk
<1>3. \A x \in T : up[x] \in T \cup {NoGoal}
    BY <1>2
<1>4. T \in Closed(up, p)
    BY <1>1, <1>3 DEF Closed
<1>5. C \subseteq T
    BY <1>4 DEF Walk
<1> QED
    BY <1>5

\* The tables hold rows of their types, and parents are goals with a row.
THEOREM HierarchyTypeCorrect == HierarchySpec => []HierarchyTypeOK
<1>1. HierarchyInit => HierarchyTypeOK
    BY DEF HierarchyInit, HierarchyTypeOK
<1>2. HierarchyTypeOK /\ [HierarchyNext]_hierarchyVars => HierarchyTypeOK'
    <2> SUFFICES ASSUME HierarchyTypeOK, [HierarchyNext]_hierarchyVars
                 PROVE  HierarchyTypeOK'
        OBVIOUS
    <2> USE NoGoalAssumption DEF HierarchyTypeOK
    <2>1. ASSUME NEW g \in Goals, NEW p \in Goals \cup {NoGoal}, CreateGoalUnder(g, p)
          PROVE  HierarchyTypeOK'
        BY <2>1 DEF CreateGoalUnder
    <2>2. ASSUME NEW g \in Goals, NEW p \in Goals \cup {NoGoal}, MoveGoal(g, p)
          PROVE  HierarchyTypeOK'
        BY <2>2 DEF MoveGoal, MayMove
    <2>3. ASSUME NEW g \in Goals, NEW h \in Goals, NEW r \in Relationships, LinkGoal(g, h, r)
          PROVE  HierarchyTypeOK'
        BY <2>3 DEF LinkGoal
    <2>4. ASSUME ImportHierarchy
          PROVE  HierarchyTypeOK'
        <3>1. PICK rows \in SUBSET Goals, linked \in {{}} \cup {{l} : l \in Link} :
                \E up \in [Goals -> rows \cup {NoGoal}] :
                    /\ \A g \in Goals \ rows : up[g] = NoGoal
                    /\ Importable(rows, up, linked)
                    /\ known' = rows
                    /\ parent' = up
                    /\ links' = linked
            BY <2>4 DEF ImportHierarchy
        <3>2. PICK up \in [Goals -> rows \cup {NoGoal}] :
                    /\ \A g \in Goals \ rows : up[g] = NoGoal
                    /\ Importable(rows, up, linked)
                    /\ known' = rows
                    /\ parent' = up
                    /\ links' = linked
            BY <3>1
        <3>3. linked \subseteq [goal: rows, related: rows, relationship: Relationships]
            BY <3>2 DEF Importable, Link
        <3> QED
            BY <3>2, <3>3
    <2>5. CASE UNCHANGED hierarchyVars
        BY <2>5 DEF hierarchyVars
    <2> QED
        BY <2>1, <2>2, <2>3, <2>4, <2>5 DEF HierarchyNext
<1> QED
    BY <1>1, <1>2, PTL DEF HierarchySpec

\* A new goal has no children.
LEMMA CreateKeepsForest ==
    ASSUME HierarchyTypeOK, HierarchyIsForest,
           NEW g \in Goals, NEW p \in Goals \cup {NoGoal}, CreateGoalUnder(g, p)
    PROVE  HierarchyIsForest'
<1> SUFFICES ASSUME NEW S \in SUBSET Goals, \A x \in S : parent'[x] \in S
             PROVE  S = {}
    BY DEF HierarchyIsForest
<1>1. /\ parent' = [parent EXCEPT ![g] = p]
      /\ parent \in [Goals -> Goals \cup {NoGoal}]
      /\ \A x \in Goals : parent[x] # g
    BY NoGoalAssumption DEF CreateGoalUnder, HierarchyTypeOK
<1>2. p # g
    BY NoGoalAssumption DEF CreateGoalUnder
<1>3. \A x \in S \ {g} : parent[x] \in S \ {g}
    BY <1>1
<1>4. S \ {g} = {}
    BY <1>3 DEF HierarchyIsForest
<1>5. g \notin S
    BY <1>1, <1>2, <1>4
<1> QED
    BY <1>4, <1>5

\* The walk from the new parent ends and does not meet the moved goal.
LEMMA MoveKeepsForest ==
    ASSUME HierarchyTypeOK, HierarchyIsForest,
           NEW g \in Goals, NEW p \in Goals \cup {NoGoal}, MoveGoal(g, p)
    PROVE  HierarchyIsForest'
<1> SUFFICES ASSUME NEW S \in SUBSET Goals, \A x \in S : parent'[x] \in S
             PROVE  S = {}
    BY DEF HierarchyIsForest
<1>1. /\ parent' = [parent EXCEPT ![g] = p]
      /\ parent \in [Goals -> Goals \cup {NoGoal}]
    BY DEF MoveGoal, HierarchyTypeOK
<1>2. CASE g \notin S
    BY <1>1, <1>2 DEF HierarchyIsForest
<1>3. CASE g \in S
    <2>1. p \in S /\ p \in Goals
        BY <1>1, <1>3
    <2>2. WalkEnds(parent, p) /\ g \notin Walk(parent, p)
        BY <2>1, NoGoalAssumption DEF MoveGoal, MayMove
    <2>3. \A x \in S \cap Walk(parent, p) : parent[x] \in S \cup {NoGoal}
        BY <1>1, <2>2
    <2>4. Walk(parent, p) \subseteq S
        BY <1>1, <2>1, <2>3, WalkStays
    <2>5. PICK r \in Walk(parent, p) : parent[r] = NoGoal
        BY <2>2 DEF WalkEnds
    <2>6. r \in S /\ r # g
        BY <2>2, <2>4, <2>5
    <2>7. parent'[r] = NoGoal
        BY <1>1, <2>5, <2>6
    <2> QED
        BY <2>6, <2>7, NoGoalAssumption
<1> QED
    BY <1>2, <1>3

\* The walk from every imported goal ends.
LEMMA ImportKeepsForest ==
    ASSUME ImportHierarchy
    PROVE  HierarchyIsForest'
<1>1. PICK rows \in SUBSET Goals, up \in [Goals -> Goals \cup {NoGoal}] :
        /\ \A g \in Goals \ rows : up[g] = NoGoal
        /\ \A g \in rows : WalkEnds(up, g)
        /\ parent' = up
    BY DEF ImportHierarchy, Importable
<1> SUFFICES ASSUME NEW S \in SUBSET Goals, NEW g \in S, \A x \in S : up[x] \in S
             PROVE  FALSE
    BY <1>1 DEF HierarchyIsForest
<1>2. g \in rows
    BY <1>1, NoGoalAssumption
<1>3. Walk(up, g) \subseteq S
    BY WalkStays
<1>4. PICK r \in Walk(up, g) : up[r] = NoGoal
    BY <1>1, <1>2 DEF WalkEnds
<1> QED
    BY <1>3, <1>4, NoGoalAssumption

\* No order of creations, moves and imports makes a cycle of goals.
THEOREM HierarchyIsForestHolds == HierarchySpec => []HierarchyIsForest
<1>1. HierarchyInit => HierarchyIsForest
    BY NoGoalAssumption DEF HierarchyInit, HierarchyIsForest
<1>2. HierarchyTypeOK /\ HierarchyIsForest /\ [HierarchyNext]_hierarchyVars
        => HierarchyIsForest'
    <2> SUFFICES ASSUME HierarchyTypeOK, HierarchyIsForest, [HierarchyNext]_hierarchyVars
                 PROVE  HierarchyIsForest'
        OBVIOUS
    <2>1. ASSUME NEW g \in Goals, NEW h \in Goals, NEW r \in Relationships, LinkGoal(g, h, r)
          PROVE  HierarchyIsForest'
        BY <2>1 DEF LinkGoal, HierarchyIsForest
    <2>2. CASE UNCHANGED hierarchyVars
        BY <2>2 DEF hierarchyVars, HierarchyIsForest
    <2> QED
        BY <2>1, <2>2, CreateKeepsForest, MoveKeepsForest, ImportKeepsForest DEF HierarchyNext
<1> QED
    BY <1>1, <1>2, HierarchyTypeCorrect, PTL DEF HierarchySpec

-----------------------------------------------------------------------------
(***************************************************************************)
(* The proof that the web server never runs a goal twice at a time, for    *)
(* any sets of goals and jobs and any order of starts and cancellations.   *)
(*                                                                         *)
(* LocalRunner.start looks only at the job table, while the property is    *)
(* about threads.  The invariant ties them: from its creation until its    *)
(* outcome is recorded a thread's job is active (JobOutlivesThread), so a  *)
(* second thread would need a second active job of the goal, which start   *)
(* refuses and no cancellation or outcome brings about (OneActiveJob).     *)
(***************************************************************************)

JobRow ==
    [goal: JobGoals, status: ActiveStates \cup Outcomes,
     worker: BOOLEAN, cancel_requested: BOOLEAN]
BeforeOutcome ==
    {"opening", "created", "signalling", "entering", "serving", "rpc", "recording", "failing"}
ThreadRow ==
    [pc: {"none", "closing", "over"} \cup BeforeOutcome,
     cancel_event: BOOLEAN, result: Outcomes]

ServerTypeOK ==
    /\ jobs \in [Jobs -> JobRow \cup {NoJob}]
    /\ threads \in [Jobs -> ThreadRow]
    /\ cancelling \subseteq Jobs
    /\ answered \subseteq Jobs

\* A thread has a job, and until it has recorded an outcome an active one.
JobOutlivesThread ==
    \A j \in Jobs :
        /\ threads[j].pc # "none" => jobs[j] # NoJob
        /\ threads[j].pc \in BeforeOutcome => jobs[j].status \in ActiveStates

\* What start checks: at most one job of a goal is active.
OneActiveJob ==
    \A j, k \in Jobs :
        /\ jobs[j].status \in ActiveStates
        /\ jobs[k].status \in ActiveStates
        /\ jobs[j].goal = jobs[k].goal
        => j = k

ServerInv == ServerTypeOK /\ JobOutlivesThread /\ OneActiveJob

-----------------------------------------------------------------------------

\* What a job and a thread look like, by the marks that stand for none.
LEMMA ServerShapes ==
    ASSUME ServerTypeOK, NEW j \in Jobs
    PROVE  /\ jobs[j] # NoJob <=> jobs[j] \in JobRow
           /\ jobs[j].status \in ActiveStates => jobs[j] # NoJob
           /\ threads[j].pc \in {"none", "closing", "over"} \cup BeforeOutcome
           /\ threads[j].cancel_event \in BOOLEAN /\ threads[j].result \in Outcomes
  BY DEF ServerTypeOK, NoJob, JobRow, ThreadRow, ActiveStates, Outcomes

\* A step of a thread that leaves the job table alone and starts no thread.
LEMMA ThreadStep ==
    ASSUME ServerInv, NEW j \in Jobs, NEW row \in ThreadRow,
           threads' = [threads EXCEPT ![j] = row],
           row.pc # "none" => jobs[j] # NoJob,
           row.pc \in BeforeOutcome => jobs[j].status \in ActiveStates,
           UNCHANGED jobs, cancelling' \subseteq Jobs, answered' \subseteq Jobs
    PROVE  ServerInv'
  <1>1. ServerTypeOK'
    BY DEF ServerInv, ServerTypeOK
  <1>2. threads'[j] = row /\ \A k \in Jobs : k # j => threads'[k] = threads[k]
    BY DEF ServerInv, ServerTypeOK
  <1>3. JobOutlivesThread'
    BY <1>2 DEF ServerInv, JobOutlivesThread
  <1> QED
    BY <1>1, <1>3 DEF ServerInv, OneActiveJob

\* A step that changes one job without making it active, and its thread.
LEMMA JobStep ==
    ASSUME ServerInv, NEW j \in Jobs, NEW job \in JobRow, NEW row \in ThreadRow,
           jobs[j] # NoJob, job.goal = jobs[j].goal,
           job.status \in ActiveStates => jobs[j].status \in ActiveStates,
           row.pc \in BeforeOutcome => job.status \in ActiveStates,
           jobs' = [jobs EXCEPT ![j] = job], threads' = [threads EXCEPT ![j] = row],
           UNCHANGED <<cancelling, answered>>
    PROVE  ServerInv'
  <1>1. ServerTypeOK'
    BY DEF ServerInv, ServerTypeOK
  <1>2. /\ threads'[j] = row /\ jobs'[j] = job
        /\ \A k \in Jobs : k # j => threads'[k] = threads[k] /\ jobs'[k] = jobs[k]
    BY DEF ServerInv, ServerTypeOK
  <1>3. job # NoJob
    BY DEF JobRow, NoJob, ActiveStates, Outcomes
  <1>4. JobOutlivesThread'
    BY <1>2, <1>3 DEF ServerInv, JobOutlivesThread
  <1>5. OneActiveJob'
    BY <1>2 DEF ServerInv, OneActiveJob
  <1> QED
    BY <1>1, <1>4, <1>5 DEF ServerInv

\* A job starts only if no other of the goal is active (LocalRunner.start).
LEMMA StartJobInv ==
    ASSUME ServerInv, NEW j \in Jobs, NEW g \in JobGoals, StartJob(j, g)
    PROVE  ServerInv'
  <1> DEFINE job == [goal |-> g, status |-> "running",
                     worker |-> FALSE, cancel_requested |-> FALSE]
  <1>1. /\ jobs' = [jobs EXCEPT ![j] = job] /\ job \in JobRow
        /\ UNCHANGED <<cancelling, answered>>
    BY DEF StartJob, JobRow, ActiveStates
  <1>2. threads' = [threads EXCEPT ![j] = [threads[j] EXCEPT !.pc = "opening"]]
    BY DEF StartJob, ThreadGoto
  <1>3. [threads[j] EXCEPT !.pc = "opening"] \in ThreadRow
    BY DEF ServerInv, ServerTypeOK, ThreadRow, BeforeOutcome
  <1>4. ServerTypeOK'
    BY <1>1, <1>2, <1>3 DEF ServerInv, ServerTypeOK
  <1>5. /\ jobs'[j] = job /\ job # NoJob
        /\ \A k \in Jobs : k # j => threads'[k] = threads[k] /\ jobs'[k] = jobs[k]
    BY <1>1, <1>2 DEF ServerInv, ServerTypeOK, NoJob
  <1>6. JobOutlivesThread'
    BY <1>5 DEF ServerInv, JobOutlivesThread, ActiveStates
  <1>7. \A k \in Jobs : k # j => ~(jobs'[k].status \in ActiveStates /\ jobs'[k].goal = g)
    BY <1>5 DEF StartJob
  <1>8. OneActiveJob'
    BY <1>5, <1>7 DEF ServerInv, OneActiveJob
  <1> QED
    BY <1>4, <1>6, <1>8 DEF ServerInv

\* A cancelled job stays active: it is marked, and its thread goes on.
LEMMA CancelGoalInv ==
    ASSUME ServerInv, NEW g \in JobGoals, CancelGoal(g)
    PROVE  ServerInv'
  <1>1. UNCHANGED <<threads, answered>> /\ cancelling' \subseteq Jobs
    BY DEF CancelGoal, Cancellable
  <1>2. ASSUME NEW j \in Jobs
        PROVE  /\ jobs'[j] \in JobRow \cup {NoJob}
               /\ jobs'[j] = NoJob <=> jobs[j] = NoJob
               /\ jobs'[j].status \in ActiveStates <=> jobs[j].status \in ActiveStates
               /\ jobs'[j].status \in ActiveStates => jobs'[j].goal = jobs[j].goal
    <2>1. CASE j \in Cancellable(g)
      <3>1. jobs[j].status = "running" /\ jobs[j] \in JobRow
        BY <2>1, ServerShapes DEF Cancellable, ServerInv, ActiveStates
      <3>2. jobs'[j] = [jobs[j] EXCEPT !.cancel_requested = TRUE, !.status = "cancelling"]
        BY <2>1 DEF CancelGoal
      <3>3. jobs'[j] \in JobRow /\ jobs'[j].status = "cancelling" /\ jobs'[j].goal = jobs[j].goal
        BY <3>1, <3>2 DEF JobRow, ActiveStates
      <3> QED
        BY <3>1, <3>3 DEF ActiveStates, NoJob
    <2>2. CASE j \notin Cancellable(g)
      BY <2>2 DEF CancelGoal, ServerInv, ServerTypeOK
    <2> QED
      BY <2>1, <2>2
  <1>3. jobs' = [j \in Jobs |-> jobs'[j]]
    BY DEF CancelGoal
  <1>4. ServerTypeOK'
    BY <1>1, <1>2, <1>3 DEF ServerInv, ServerTypeOK
  <1>5. JobOutlivesThread'
    BY <1>1, <1>2 DEF ServerInv, JobOutlivesThread
  <1>6. OneActiveJob'
    BY <1>2 DEF ServerInv, OneActiveJob
  <1> QED
    BY <1>4, <1>5, <1>6 DEF ServerInv

\* A signal changes the flag of a thread, and no job.
LEMMA SignalInv ==
    ASSUME ServerInv, NEW j \in Jobs, Signal(j)
    PROVE  ServerInv'
  <1>1. cancelling' \subseteq Jobs /\ answered' \subseteq Jobs /\ UNCHANGED jobs
    BY DEF Signal, ServerInv, ServerTypeOK
  <1> DEFINE row == threads'[j]
  <1>2. /\ threads' = [threads EXCEPT ![j] = row] /\ row.pc = threads[j].pc
        /\ row.result = threads[j].result
        /\ row = [threads[j] EXCEPT !.cancel_event = row.cancel_event]
        /\ row.cancel_event = (threads[j].cancel_event \/ jobs[j].worker)
    BY DEF Signal, ServerInv, ServerTypeOK, ThreadRow
  <1>3. row.cancel_event \in BOOLEAN
    BY <1>2, Zenon
  <1>4. row \in ThreadRow
    BY <1>2, <1>3 DEF ServerInv, ServerTypeOK, ThreadRow
  <1>5. /\ row.pc # "none" => jobs[j] # NoJob
        /\ row.pc \in BeforeOutcome => jobs[j].status \in ActiveStates
    BY <1>2 DEF ServerInv, JobOutlivesThread
  <1> HIDE DEF row
  <1> QED
    BY <1>1, <1>2, <1>4, <1>5, ThreadStep

\* A thread goes on to pc with the cancel event and the result given.
LEMMA GotoInv ==
    ASSUME ServerInv, NEW j \in Jobs, threads[j].pc \in BeforeOutcome,
           NEW row \in ThreadRow, row.pc \in BeforeOutcome,
           threads' = [threads EXCEPT ![j] = row], UNCHANGED <<jobs, cancelling, answered>>
    PROVE  ServerInv'
  <1>1. jobs[j].status \in ActiveStates /\ jobs[j] # NoJob
    BY ServerShapes DEF ServerInv, JobOutlivesThread
  <1>2. cancelling' \subseteq Jobs /\ answered' \subseteq Jobs
    BY DEF ServerInv, ServerTypeOK
  <1> QED
    BY <1>1, <1>2, ThreadStep

\* A thread that goes on touches no job but its own.
LEMMA AdvanceInv ==
    ASSUME ServerInv, NEW j \in Jobs, Advance(j) \/ AdmitRpc(j) \/ EndRun(j)
    PROVE  ServerInv'
  <1>0. threads[j] \in ThreadRow /\ (jobs[j] # NoJob => jobs[j] \in JobRow)
    BY ServerShapes DEF ServerInv, ServerTypeOK
  <1>1. ASSUME NEW pc \in BeforeOutcome, ThreadGoto(j, pc), threads[j].pc \in BeforeOutcome,
               UNCHANGED <<jobs, cancelling, answered>>
        PROVE  ServerInv'
    <2>1. threads' = [threads EXCEPT ![j] = [threads[j] EXCEPT !.pc = pc]]
      BY <1>1 DEF ThreadGoto
    <2>2. [threads[j] EXCEPT !.pc = pc] \in ThreadRow
          /\ [threads[j] EXCEPT !.pc = pc].pc = pc
      BY <1>0 DEF ThreadRow
    <2> QED
      BY <1>1, <2>1, <2>2, GotoInv
  <1>2. CASE Open(j) \/ AdmitRpc(j) \/ AnswerRpc(j)
    BY <1>1, <1>2 DEF Open, AdmitRpc, AnswerRpc, ThreadAt, BeforeOutcome
  <1>3. CASE SignalSelf(j)
    <2>1. [threads[j] EXCEPT !.pc = "entering", !.cancel_event = TRUE] \in ThreadRow
          /\ [threads[j] EXCEPT !.pc = "entering", !.cancel_event = TRUE].pc = "entering"
      BY <1>0 DEF ThreadRow, BeforeOutcome
    <2> QED
      BY <1>3, <2>1, GotoInv DEF SignalSelf, ThreadAt, BeforeOutcome
  <1>4. CASE EnterRun(j)
    <2>1. [threads[j] EXCEPT !.pc = "serving", !.cancel_event = FALSE] \in ThreadRow
          /\ [threads[j] EXCEPT !.pc = "serving", !.cancel_event = FALSE].pc = "serving"
      BY <1>0 DEF ThreadRow, BeforeOutcome
    <2> QED
      BY <1>4, <2>1, GotoInv DEF EnterRun, ThreadAt, BeforeOutcome
  <1>5. CASE EndRun(j)
    <2>1. CASE ThreadGoto(j, "failing")
      BY <1>1, <1>5, <2>1 DEF EndRun, ThreadAt, BeforeOutcome
    <2>2. CASE \E result \in Outcomes : threads' = [threads EXCEPT ![j] =
                    [@ EXCEPT !.pc = "recording", !.result = result]]
      <3>1. PICK result \in Outcomes : threads' = [threads EXCEPT ![j] =
                    [threads[j] EXCEPT !.pc = "recording", !.result = result]]
        BY <2>2
      <3>2. [threads[j] EXCEPT !.pc = "recording", !.result = result] \in ThreadRow
            /\ [threads[j] EXCEPT !.pc = "recording", !.result = result].pc = "recording"
        BY <1>0 DEF ThreadRow, BeforeOutcome
      <3> QED
        BY <1>5, <3>1, <3>2, GotoInv DEF EndRun, ThreadAt, BeforeOutcome
    <2> QED
      BY <1>5, <2>1, <2>2 DEF EndRun
  <1>6. CASE Publish(j)
    <2> DEFINE pc == IF jobs[j].cancel_requested THEN "signalling" ELSE "entering"
               row == [threads[j] EXCEPT !.pc = pc]
               job == [jobs[j] EXCEPT !.worker = TRUE]
    <2>1. jobs[j].status \in ActiveStates /\ jobs[j] \in JobRow /\ jobs[j] # NoJob
      BY <1>0, <1>6 DEF Publish, ThreadAt, BeforeOutcome, ServerInv, JobOutlivesThread
    <2>2. row \in ThreadRow /\ job \in JobRow /\ job.goal = jobs[j].goal
          /\ job.status = jobs[j].status
      BY <1>0, <2>1 DEF ThreadRow, JobRow, BeforeOutcome
    <2>3. jobs' = [jobs EXCEPT ![j] = job] /\ threads' = [threads EXCEPT ![j] = row]
          /\ UNCHANGED <<cancelling, answered>>
      BY <1>6 DEF Publish, ThreadGoto
    <2> HIDE DEF row, job
    <2> QED
      BY <2>1, <2>2, <2>3, JobStep
  <1>7. ASSUME NEW status \in Outcomes, Settle(j, status), threads[j].pc \in BeforeOutcome
        PROVE  ServerInv'
    <2> DEFINE row == [threads[j] EXCEPT !.pc = "closing"]
               job == [jobs[j] EXCEPT !.status = status]
    <2>1. jobs[j].status \in ActiveStates /\ jobs[j] \in JobRow /\ jobs[j] # NoJob
      BY <1>0, <1>7, ServerShapes DEF ServerInv, JobOutlivesThread
    <2>2. row \in ThreadRow /\ row.pc \notin BeforeOutcome
          /\ job \in JobRow /\ job.goal = jobs[j].goal
      BY <1>0, <2>1 DEF ThreadRow, JobRow, BeforeOutcome
    <2>3. jobs' = [jobs EXCEPT ![j] = job] /\ threads' = [threads EXCEPT ![j] = row]
          /\ UNCHANGED <<cancelling, answered>>
      BY <1>7 DEF Settle, ThreadGoto
    <2> HIDE DEF row, job
    <2> QED
      BY <2>1, <2>2, <2>3, JobStep
  <1>8. CASE Record(j) \/ RecordFailure(j)
    <2>1. threads[j].result \in Outcomes
      BY <1>0 DEF ThreadRow
    <2> QED
      BY <1>7, <1>8, <2>1 DEF Record, RecordFailure, ThreadAt, BeforeOutcome, Outcomes
  <1>9. CASE Close(j)
    <2> DEFINE row == [threads[j] EXCEPT !.pc = "over"]
               job == [jobs[j] EXCEPT !.worker = FALSE]
    <2>1. jobs[j] # NoJob /\ jobs[j] \in JobRow
      BY <1>0, <1>9 DEF Close, ThreadAt, ServerInv, JobOutlivesThread
    <2>2. row \in ThreadRow /\ row.pc \notin BeforeOutcome
          /\ job \in JobRow /\ job.goal = jobs[j].goal /\ job.status = jobs[j].status
      BY <1>0, <2>1 DEF ThreadRow, JobRow, BeforeOutcome
    <2>3. jobs' = [jobs EXCEPT ![j] = job] /\ threads' = [threads EXCEPT ![j] = row]
          /\ UNCHANGED <<cancelling, answered>>
      BY <1>9 DEF Close, ThreadGoto
    <2> HIDE DEF row, job
    <2> QED
      BY <2>1, <2>2, <2>3, JobStep
  <1> QED
    BY <1>2, <1>3, <1>4, <1>5, <1>6, <1>8, <1>9 DEF Advance

-----------------------------------------------------------------------------

\* The inductive invariant holds in every reachable state.
THEOREM ServerInvariant == ServerSpec => []ServerInv
  <1>1. ServerInit => ServerInv
    BY DEF ServerInit, ServerInv, ServerTypeOK, JobOutlivesThread, OneActiveJob,
           NoJob, NoThread, ThreadRow, BeforeOutcome, ActiveStates, Outcomes
  <1>2. ServerInv /\ [ServerNext]_serverVars => ServerInv'
    <2> SUFFICES ASSUME ServerInv, [ServerNext]_serverVars PROVE ServerInv'
      OBVIOUS
    <2>1. CASE UNCHANGED serverVars
      BY <2>1 DEF serverVars, ServerInv, ServerTypeOK, JobOutlivesThread, OneActiveJob
    <2> QED
      BY <2>1, StartJobInv, CancelGoalInv, SignalInv, AdvanceInv DEF ServerNext
  <1> QED
    BY <1>1, <1>2, PTL DEF ServerSpec

\* No two threads are ever inside a run of the same goal.
THEOREM OneRunPerGoalHolds == ServerSpec => []OneRunPerGoal
  <1>1. ServerInv => OneRunPerGoal
    BY DEF ServerInv, JobOutlivesThread, OneActiveJob, OneRunPerGoal, InRun, BeforeOutcome
  <1> QED
    BY <1>1, ServerInvariant, PTL

-----------------------------------------------------------------------------
(***************************************************************************)
(* Proofs about StageSearch: a search that says it is complete has told    *)
(* every steady file below its scope, however the tree, its windows and    *)
(* the changes of other processes are chosen.                              *)
(*                                                                         *)
(* The invariant is about a search in progress.  While nothing was left    *)
(* out and nothing cut off, each file it owes (in its scope from beginning *)
(* to end, and a file now) is listed already, or lies below the path of a  *)
(* step still to do; after the walk, a file that holds the pattern is a    *)
(* match or still to be read.  A step of the walk replaces its path by the *)
(* children that exist, and only a directory has any; the first time one   *)
(* is skipped the search says why, and owes nothing any more.  A change to *)
(* the tree takes the path, and all below it, out of what is steady.       *)
(*                                                                         *)
(* Names is a recursive function.  What it yields is proved with Induct,   *)
(* induction for a set of numbers, from the smallest number outside it.    *)
(***************************************************************************)

EntryRow == [kind: {"absent", "file", "binary", "link", "directory"}, size: Nat, hit: BOOLEAN]
Steps ==
  [step: {"scan"}, path: Directories, depth: Nat]
    \cup [step: {"stat", "open"}, path: TreePaths, depth: Nat]
OpenedRow == [path: TreePaths, entry: EntryRow]
Reasons == {"entry_limit", "file_limit", "file_size_limit", "scan_bytes_limit", "result_limit",
            "depth", "blocked", "races", "errors", "symlinks", "invalid_utf8"}
SearchRow ==
  [at: {"walk", "read", "done"}, tool: {"discover", "search"}, scope: TreePaths \cup {Root},
   entries: Nat, bytes: Nat, todo: Seq(Steps), opened: Seq(OpenedRow), unread: Seq(OpenedRow),
   matches: SUBSET TreePaths, excluded: SUBSET Reasons, truncated: BOOLEAN]

SearchTypeOK ==
  /\ tree \in [TreePaths -> EntryRow]
  /\ \A p \in TreePaths : tree[p].kind = "directory" => p \in Directories
  /\ search \in SearchRow \cup {NoSearch}
  /\ steady \subseteq TreePaths
  /\ changes \in Nat

Dirs == {d \in Directories : IsDirectory(d)}
Owed(scope) == {p \in steady \cap Below(Dirs, scope) : tree[p].kind = "file"}

Listed(s, p) == \E i \in 1..Len(s.opened) : s.opened[i].path = p
Ahead(s, p) == \E i \in 1..Len(s.todo) : p \in Below(Dirs, s.todo[i].path)
Unread(s, p) == \E i \in 1..Len(s.unread) : s.unread[i].path = p
Genuine(files) ==
  \A i \in 1..Len(files) : files[i].path \in steady => files[i].entry = tree[files[i].path]

\* What a complete search s has done, or is going to do, about the file p.
Told(s, p) ==
  /\ Listed(s, p) \/ (s.at = "walk" /\ Ahead(s, p))
  /\ s.at # "walk" /\ s.tool = "search" /\ tree[p].hit => p \in s.matches \/ Unread(s, p)
Complete(s) == ~s.truncated /\ s.excluded = {}
Sound(s) ==
  /\ Len(s.opened) <= MaxFiles /\ s.bytes <= MaxScanBytes
  /\ Genuine(s.opened) /\ Genuine(s.unread)
  /\ s.at = "done" /\ s.tool = "search" => s.unread = <<>>
  /\ Complete(s) => \A p \in Owed(s.scope) : Told(s, p)

SearchInv == SearchTypeOK /\ (search # NoSearch => Sound(search))

-----------------------------------------------------------------------------
(* Numbers and queues.                                                     *)

\* A set of numbers has a smallest member.
LEMMA Smallest ==
  ASSUME NEW T \in SUBSET Nat, T # {}
  PROVE  \E m \in T : \A k \in T : m <= k
  <1> DEFINE R == OpToRel(<, Nat)
  <1>1. IsWellFoundedOn(R, Nat)
    BY NatLessThanWellFounded
  <1>2. \A k, m \in Nat : <<k, m>> \in R <=> k < m
    BY DEF OpToRel
  <1> HIDE DEF R
  <1>3. PICK m \in T : \A k \in T : <<k, m>> \notin R
    BY <1>1, WFMin
  <1>4. ASSUME NEW k \in T
        PROVE  m <= k
    <2>1. k \in Nat /\ m \in Nat /\ <<k, m>> \notin R
      BY <1>3
    <2>2. ~(k < m)
      BY <1>2, <2>1
    <2> QED
      BY <2>1, <2>2
  <1> QED
    BY <1>4

\* Induction over the numbers, for a set.
LEMMA Induct ==
  ASSUME NEW A \in SUBSET Nat, 0 \in A, \A n \in A : n + 1 \in A
  PROVE  A = Nat
  <1> SUFFICES ASSUME A # Nat PROVE FALSE
    OBVIOUS
  <1>1. PICK m \in Nat \ A : \A k \in Nat \ A : m <= k
    BY Smallest
  <1>2. m # 0 /\ m - 1 \in Nat /\ m - 1 \in A
    BY <1>1
  <1> QED
    BY <1>1, <1>2

\* w is s followed by t.
Joins(w, s, t) ==
  /\ Len(w) = Len(s) + Len(t) /\ Len(s) \in Nat /\ Len(t) \in Nat
  /\ \A i \in 1..Len(s) : i \in 1..Len(w) /\ w[i] = s[i]
  /\ \A i \in 1..Len(t) : Len(s) + i \in 1..Len(w) /\ w[Len(s) + i] = t[i]
  /\ \A i \in 1..Len(w) :
        \/ i \in 1..Len(s)
        \/ i > Len(s) /\ i - Len(s) \in 1..Len(t) /\ w[i] = t[i - Len(s)]

\* Two queues one after the other.
LEMMA Extended ==
  ASSUME NEW S, NEW s \in Seq(S), NEW t \in Seq(S)
  PROVE  s \o t \in Seq(S) /\ Joins(s \o t, s, t)
  <1>1. Len(s) \in Nat /\ Len(t) \in Nat
    BY LenProperties
  <1> QED
    BY <1>1, ConcatProperties DEF Joins

\* A queue without its head.
LEMMA Shortened ==
  ASSUME NEW S, NEW s \in Seq(S), s # <<>>
  PROVE  /\ Tail(s) \in Seq(S) /\ Len(Tail(s)) = Len(s) - 1 /\ Len(s) \in Nat \ {0}
         /\ Head(s) = s[1] /\ 1 \in 1..Len(s) /\ Head(s) \in S
         /\ \A i \in 1..Len(Tail(s)) : i + 1 \in 1..Len(s) /\ Tail(s)[i] = s[i + 1]
         /\ \A i \in 1..Len(s) : i = 1 \/ i - 1 \in 1..Len(Tail(s))
  <1>1. Len(s) \in Nat /\ Len(s) # 0
    BY LenProperties, EmptySeq
  <1>2. Tail(s) \in Seq(S) /\ Len(Tail(s)) = Len(s) - 1 /\ Head(s) \in S /\ Head(s) = s[1]
    BY HeadTailProperties
  <1>3. \A i \in 1..Len(Tail(s)) : Tail(s)[i] = s[i + 1]
    BY HeadTailProperties
  <1> QED
    BY <1>1, <1>2, <1>3

\* A queue with one more at its end.
LEMMA OneMore ==
  ASSUME NEW S, NEW s \in Seq(S), NEW e \in S
  PROVE  /\ Append(s, e) \in Seq(S) /\ Len(Append(s, e)) = Len(s) + 1 /\ Len(s) \in Nat
         /\ \A i \in 1..Len(s) : i \in 1..Len(Append(s, e)) /\ Append(s, e)[i] = s[i]
         /\ Append(s, e)[Len(s) + 1] = e
         /\ \A i \in 1..Len(Append(s, e)) : i \in 1..Len(s) \/ i = Len(s) + 1
  BY AppendProperties, LenProperties

-----------------------------------------------------------------------------
(* The tree.                                                               *)

Kids(d) == ToSet(Children[d])

Chain(D, q, p) ==
  \/ p = q
  \/ q \in D /\ p \in Kids(q)
  \/ q \in D /\ \E c \in Kids(q) : c \in D /\ p \in Kids(c)
  \/ q \in D /\ \E c \in Kids(q) : c \in D /\ \E d \in Kids(c) : d \in D /\ p \in Kids(d)

\* One level down.
LEMMA DownIs ==
  ASSUME NEW D, NEW A, NEW p
  PROVE  p \in Down(D, A) <=> p \in A \/ \E d \in A : d \in D /\ p \in Kids(d)
  BY DEF Down, Kids

\* Below is a chain of at most three levels.
LEMMA BelowIsChain ==
  ASSUME NEW D, NEW q, NEW p
  PROVE  p \in Below(D, q) <=> Chain(D, q, p)
  <1> DEFINE A == Down(D, {q})
             B == Down(D, A)
  <1>1. \A x : x \in A <=> x = q \/ (q \in D /\ x \in Kids(q))
    BY DownIs
  <1> HIDE DEF A
  <1>2. \A x : x \in B <=> x \in A \/ \E d \in A : d \in D /\ x \in Kids(d)
    BY DownIs
  <1>3. Below(D, q) = Down(D, B)
    BY DEF Below, A
  <1> HIDE DEF B
  <1>4. p \in Below(D, q) <=> p \in B \/ \E d \in B : d \in D /\ p \in Kids(d)
    BY <1>3, DownIs
  <1>5. \A x : x \in B <=> \/ x = q \/ (q \in D /\ x \in Kids(q))
                           \/ q \in D /\ \E c \in Kids(q) : c \in D /\ x \in Kids(c)
    BY <1>1, <1>2
  <1> QED
    BY <1>4, <1>5 DEF Chain

\* What is below a directory and not itself is below one of its children.
LEMMA Into ==
  ASSUME NEW D, NEW q, NEW p \in Below(D, q), p # q
  PROVE  q \in D /\ \E c \in Kids(q) : p \in Below(D, c)
  <1>1. Chain(D, q, p)
    BY BelowIsChain
  <1>2. q \in D /\ \E c \in Kids(q) : Chain(D, c, p)
    BY <1>1 DEF Chain
  <1> QED
    BY <1>2, BelowIsChain

\* A change at x moves nothing that is not below x.
LEMMA StillBelow ==
  ASSUME NEW D, NEW E, NEW x, D \subseteq Directories, \A d : d # x => (d \in D <=> d \in E),
         NEW q, NEW p, p \in Below(D, q), p \notin Below(Directories, x)
  PROVE  p \in Below(E, q)
  <1>1. Chain(D, q, p) /\ ~Chain(Directories, x, p)
    BY BelowIsChain
  <1>2. Chain(E, q, p)
    <2>1. CASE p = q
      BY <2>1 DEF Chain
    <2>2. CASE q \in D /\ p \in Kids(q)
      BY <1>1, <2>2 DEF Chain
    <2>3. CASE q \in D /\ \E c \in Kids(q) : c \in D /\ p \in Kids(c)
      <3>1. PICK c \in Kids(q) : c \in D /\ p \in Kids(c)
        BY <2>3
      <3>2. q # x /\ c # x
        BY <1>1, <2>3, <3>1 DEF Chain
      <3> QED
        BY <2>3, <3>1, <3>2 DEF Chain
    <2>4. CASE q \in D /\ \E c \in Kids(q) : c \in D /\ \E d \in Kids(c) : d \in D /\ p \in Kids(d)
      <3>1. PICK c \in Kids(q) : c \in D /\ \E d \in Kids(c) : d \in D /\ p \in Kids(d)
        BY <2>4
      <3>2. PICK d \in Kids(c) : d \in D /\ p \in Kids(d)
        BY <3>1
      <3>3. q # x /\ c # x /\ d # x
        BY <1>1, <2>4, <3>1, <3>2 DEF Chain
      <3> QED
        BY <2>4, <3>1, <3>2, <3>3 DEF Chain
    <2> QED
      BY <1>1, <2>1, <2>2, <2>3, <2>4 DEF Chain
  <1> QED
    BY <1>2, BelowIsChain

\* The children of a directory are paths of the tree, in their order.
LEMMA KidsAre ==
  ASSUME NEW d \in Directories
  PROVE  /\ Children[d] \in Seq(TreePaths) /\ Kids(d) \subseteq TreePaths
         /\ Kids(d) = {Children[d][i] : i \in 1..Len(Children[d])}
  <1>1. Children[d] \in Seq(TreePaths)
    BY SearchAssumption
  <1>2. DOMAIN Children[d] = 1..Len(Children[d])
    BY <1>1, LenProperties
  <1>3. Kids(d) = {Children[d][i] : i \in 1..Len(Children[d])}
    BY <1>2 DEF Kids, ToSet
  <1> QED
    BY <1>1, <1>3, ElementOfSeq

\* What f computes at k, from what it has at k - 1.
Picks(f, s, k) ==
  IF k = 0 THEN <<>>
  ELSE IF tree[s[k]].kind = "absent" THEN f[k - 1]
  ELSE Append(f[k - 1], s[k])
Lists(f, s, n) == f = [k \in 0..n |-> Picks(f, s, k)]

\* A list of names, at each of its places.
LEMMA Picked ==
  ASSUME NEW f, NEW s, NEW n \in Nat, Lists(f, s, n), NEW k \in 0..n
  PROVE  f[k] = Picks(f, s, k)
  <1> DEFINE g == [i \in 0..n |-> Picks(f, s, i)]
  <1>1. f = g
    BY DEF Lists
  <1>2. g[k] = Picks(f, s, k)
    OBVIOUS
  <1> HIDE DEF g
  <1> QED
    BY <1>1, <1>2

\* There is a list of names up to any place.
LEMMA ListsUpTo ==
  ASSUME NEW s, NEW N \in Nat
  PROVE  \E f : Lists(f, s, N)
  <1> DEFINE A == {n \in Nat : \E f : Lists(f, s, n)}
  <1>1. 0 \in A
    <2> DEFINE f == [k \in 0..0 |-> <<>>]
    <2>1. Lists(f, s, 0)
      BY DEF Lists, Picks
    <2> QED
      BY <2>1
  <1>2. ASSUME NEW n \in A
        PROVE  n + 1 \in A
    <2>1. PICK f : Lists(f, s, n)
      OBVIOUS
    <2> DEFINE e == Picks(f, s, n + 1)
               g == [k \in 0..(n + 1) |-> IF k = n + 1 THEN e ELSE f[k]]
    <2>2. ASSUME NEW k \in 0..(n + 1)
          PROVE  g[k] = Picks(g, s, k)
      <3>1. CASE k = n + 1
        BY <3>1 DEF Picks
      <3>2. CASE k # n + 1
        <4>1. k \in 0..n /\ f[k] = Picks(f, s, k)
          BY <2>1, <3>2, Picked
        <4>2. g[k] = f[k] /\ (k # 0 => g[k - 1] = f[k - 1])
          BY <4>1
        <4> QED
          BY <4>1, <4>2 DEF Picks
      <3> QED
        BY <3>1, <3>2
    <2> HIDE DEF e
    <2>3. Lists(g, s, n + 1)
      BY <2>2 DEF Lists
    <2> QED
      BY <2>3
  <1> HIDE DEF A
  <1>3. A = Nat
    BY <1>1, <1>2, Induct DEF A
  <1> QED
    BY <1>3 DEF A

\* The names of a directory are those of its children that are there.
LEMMA NamesAre ==
  ASSUME NEW d \in Directories
  PROVE  /\ Names(d) \in Seq(TreePaths) /\ Len(Names(d)) \in Nat
         /\ \A c \in Kids(d) : tree[c].kind # "absent" =>
               \E i \in 1..Len(Names(d)) : Names(d)[i] = c
  <1> DEFINE s == Children[d]
             N == Len(s)
             upTo == CHOOSE f : f = [k \in 0..N |->
                       IF k = 0 THEN <<>>
                       ELSE IF tree[s[k]].kind = "absent" THEN f[k - 1]
                       ELSE Append(f[k - 1], s[k])]
  <1>1. s \in Seq(TreePaths) /\ N \in Nat /\ Kids(d) = {s[i] : i \in 1..N}
    BY KidsAre, LenProperties
  <1>a. \A i \in 1..N : s[i] \in TreePaths
    BY <1>1, ElementOfSeq
  <1>2. Names(d) = upTo[N]
    BY Zenon DEF Names
  <1>3. Lists(upTo, s, N)
    BY <1>1, ListsUpTo, ZenonT(30) DEF Lists, Picks
  <1> HIDE DEF s, N, upTo
  <1> DEFINE A == {k \in Nat : k <= N =>
                     /\ upTo[k] \in Seq(TreePaths)
                     /\ \A j \in 1..k : tree[s[j]].kind # "absent" =>
                           \E i \in 1..Len(upTo[k]) : upTo[k][i] = s[j]}
  <1>4. 0 \in A
    <2>1. upTo[0] = <<>>
      BY <1>1, <1>3, Picked DEF Picks
    <2>2. upTo[0] \in Seq(TreePaths)
      BY <2>1
    <2>3. \A j \in 1..0 : FALSE
      OBVIOUS
    <2> QED
      BY <2>2, <2>3
  <1>5. ASSUME NEW k \in A
        PROVE  k + 1 \in A
    <2> SUFFICES ASSUME k + 1 <= N
                 PROVE  /\ upTo[k + 1] \in Seq(TreePaths)
                        /\ \A j \in 1..(k + 1) : tree[s[j]].kind # "absent" =>
                              \E i \in 1..Len(upTo[k + 1]) : upTo[k + 1][i] = s[j]
      OBVIOUS
    <2>1. /\ k \in Nat /\ upTo[k] \in Seq(TreePaths)
          /\ \A j \in 1..k : tree[s[j]].kind # "absent" =>
                \E i \in 1..Len(upTo[k]) : upTo[k][i] = s[j]
      BY <1>1
    <2>2. upTo[k + 1] = IF tree[s[k + 1]].kind = "absent" THEN upTo[k] ELSE Append(upTo[k], s[k + 1])
      <3>1. upTo[k + 1] = Picks(upTo, s, k + 1)
        BY <1>1, <1>3, <2>1, Picked
      <3> QED
        BY <2>1, <3>1 DEF Picks
    <2>3. s[k + 1] \in TreePaths
      BY <1>1, <1>a, <2>1
    <2> HIDE DEF A
    <2> DEFINE u == upTo[k]
               v == upTo[k + 1]
    <2>4. CASE tree[s[k + 1]].kind = "absent"
      <3>1. v = u
        BY <2>2, <2>4
      <3>2. \A j \in 1..(k + 1) : tree[s[j]].kind # "absent" => j \in 1..k
        BY <2>1, <2>4
      <3> HIDE DEF u, v
      <3>3. /\ u \in Seq(TreePaths)
            /\ \A j \in 1..k : tree[s[j]].kind # "absent" =>
                  \E i \in 1..Len(u) : u[i] = s[j]
        BY <2>1 DEF u
      <3>4. /\ v \in Seq(TreePaths)
            /\ \A j \in 1..(k + 1) : tree[s[j]].kind # "absent" =>
                  \E i \in 1..Len(v) : v[i] = s[j]
        BY <3>1, <3>2, <3>3
      <3> QED
        BY <3>4 DEF v
    <2>5. CASE tree[s[k + 1]].kind # "absent"
      <3>1. v = Append(u, s[k + 1])
        BY <2>2, <2>5
      <3>2. /\ u \in Seq(TreePaths)
            /\ \A j \in 1..k : tree[s[j]].kind # "absent" =>
                  \E i \in 1..Len(u) : u[i] = s[j]
        BY <2>1
      <3> HIDE DEF u, v
      <3>3. /\ v \in Seq(TreePaths) /\ Len(v) = Len(u) + 1 /\ Len(u) \in Nat
            /\ \A i \in 1..Len(u) : i \in 1..Len(v) /\ v[i] = u[i]
            /\ v[Len(u) + 1] = s[k + 1]
        BY <2>3, <3>1, <3>2, OneMore
      <3>4. ASSUME NEW j \in 1..(k + 1), tree[s[j]].kind # "absent"
            PROVE  \E i \in 1..Len(v) : v[i] = s[j]
        <4>1. CASE j = k + 1
          BY <3>3, <4>1
        <4>2. CASE j # k + 1
          <5>1. j \in 1..k
            BY <2>1, <4>2
          <5>2. PICK i \in 1..Len(u) : u[i] = s[j]
            BY <3>2, <3>4, <5>1
          <5> QED
            BY <3>3, <5>2
        <4> QED
          BY <4>1, <4>2
      <3> QED
        BY <3>3, <3>4 DEF v
    <2> QED
      BY <2>4, <2>5
  <1> HIDE DEF A
  <1>6. A = Nat
    BY <1>4, <1>5, Induct DEF A
  <1>7. /\ upTo[N] \in Seq(TreePaths)
        /\ \A j \in 1..N : tree[s[j]].kind # "absent" =>
              \E i \in 1..Len(upTo[N]) : upTo[N][i] = s[j]
    BY <1>1, <1>6 DEF A
  <1> QED
    BY <1>1, <1>2, <1>7, LenProperties

-----------------------------------------------------------------------------
(* Steps.                                                                  *)

\* A search that goes on in the same tree.
Same == UNCHANGED <<tree, steady, changes>>

\* A step that leaves the tree alone and the search sound keeps the invariant.
LEMMA SoundInv ==
  ASSUME SearchTypeOK, Same, NEW row \in SearchRow, search' = row, Sound(row)
  PROVE  SearchInv'
  <1>1. SearchTypeOK'
    BY DEF SearchTypeOK, Same
  <1>2. Dirs' = Dirs /\ tree' = tree /\ steady' = steady /\ search' = row
    BY DEF Same, Dirs, IsDirectory
  <1>3. Owed(row.scope)' = Owed(row.scope)
    BY <1>2 DEF Owed
  <1>4. \A p : Told(row, p)' <=> Told(row, p)
    BY <1>2 DEF Told, Listed, Ahead, Unread
  <1>5. Genuine(row.opened)' /\ Genuine(row.unread)'
    BY <1>2 DEF Genuine, Sound
  <1>6. Sound(row)'
    BY <1>3, <1>4, <1>5 DEF Sound, Complete
  <1> QED
    BY <1>1, <1>2, <1>6 DEF SearchInv

\* A call that is in progress.
LEMMA InProgress ==
  ASSUME SearchInv, search.at \in {"walk", "read"}
  PROVE  search # NoSearch /\ search \in SearchRow /\ Sound(search) /\ SearchTypeOK
  BY DEF SearchInv, SearchTypeOK, NoSearch

\* A search begins with its scope to do (discover, search).
LEMMA BeginInv ==
  ASSUME SearchInv, NEW kind \in {"discover", "search"}, NEW p \in TreePaths \cup {Root},
         BeginSearch(kind, p)
  PROVE  SearchInv'
  <1> DEFINE step == Step(IF IsDirectory(p) THEN "scan" ELSE "stat", p, 0)
  <1>1. p # Root => p \in TreePaths
    OBVIOUS
  <1>2. step \in Steps
    <2>1. IsDirectory(p) => p \in Directories
      BY SearchAssumption DEF SearchInv, SearchTypeOK, IsDirectory
    <2>2. ~IsDirectory(p) => p \in TreePaths
      BY DEF IsDirectory
    <2> QED
      BY <2>1, <2>2 DEF Step, Steps
  <1>3. <<step>> \in Seq(Steps) /\ Len(<<step>>) = 1 /\ <<step>>[1] = step /\ step.path = p
    BY <1>2 DEF Step
  <1> HIDE DEF step
  <1>4. PICK todo : todo = <<step>>
    OBVIOUS
  <1> DEFINE row == [at |-> "walk", tool |-> kind, scope |-> p, entries |-> 0, bytes |-> 0,
                     todo |-> todo, opened |-> <<>>, unread |-> <<>>, matches |-> {},
                     excluded |-> {}, truncated |-> FALSE]
  <1>5. search' = row /\ tree' = tree /\ changes' = changes /\ steady' = TreePaths
    BY <1>4 DEF BeginSearch, step
  <1>6. row \in SearchRow
    <2>1. <<>> \in Seq(OpenedRow) /\ todo \in Seq(Steps)
      BY <1>3, <1>4
    <2> QED
      BY <2>1 DEF SearchRow
  <1>7. SearchTypeOK'
    BY <1>5, <1>6 DEF SearchTypeOK, SearchInv
  <1>8. Dirs' = Dirs
    BY <1>5 DEF Dirs, IsDirectory
  <1>9. \A x \in Owed(p)' : Told(row, x)'
    <2>1. ASSUME NEW x \in Owed(p)'
          PROVE  Told(row, x)'
      <3>1. x \in Below(Dirs, p)
        BY <1>8 DEF Owed
      <3>2. Ahead(row, x)'
        BY <1>3, <1>4, <1>8, <3>1 DEF Ahead
      <3> QED
        BY <3>2 DEF Told
    <2> QED
      BY <2>1
  <1>10. Genuine(<<>>)'
    BY DEF Genuine
  <1>11. /\ row.opened = <<>> /\ row.bytes = 0 /\ row.unread = <<>> /\ row.scope = p
         /\ Len(row.opened) <= MaxFiles /\ row.bytes <= MaxScanBytes
    BY SearchAssumption
  <1>12. Sound(row)'
    BY <1>9, <1>10, <1>11 DEF Sound
  <1> QED
    BY <1>5, <1>7, <1>12 DEF SearchInv

\* Leaving something out, and counting it, asks for nothing more.
LEMMA LeftOutInv ==
  ASSUME SearchInv, Same, search.at = "walk", search.todo # <<>>,
         NEW reason \in Reasons, Excluded(reason) \/ Truncated(reason)
  PROVE  SearchInv'
  <1>1. search \in SearchRow /\ Sound(search) /\ SearchTypeOK
    BY InProgress
  <1>2. PICK todo \in Seq(Steps), truncated \in BOOLEAN :
          search' = [search EXCEPT !.excluded = @ \cup {reason}, !.truncated = truncated,
                                   !.todo = todo]
    <2>1. Tail(search.todo) \in Seq(Steps) /\ <<>> \in Seq(Steps)
      BY <1>1, Shortened DEF SearchRow
    <2>2. CASE Excluded(reason)
      <3>1. search' = [search EXCEPT !.excluded = @ \cup {reason}, !.truncated = search.truncated,
                                     !.todo = Tail(search.todo)]
        BY <1>1, <2>2 DEF Excluded, SearchRow
      <3> QED
        BY <1>1, <2>1, <3>1 DEF SearchRow
    <2>3. CASE Truncated(reason)
      BY <2>1, <2>3 DEF Truncated
    <2> QED
      BY <2>2, <2>3
  <1> DEFINE row == [search EXCEPT !.excluded = @ \cup {reason}, !.truncated = truncated,
                                   !.todo = todo]
  <1>3. row \in SearchRow
    BY <1>1 DEF SearchRow
  <1>4. /\ row.opened = search.opened /\ row.bytes = search.bytes /\ row.unread = search.unread
        /\ row.at = "walk" /\ row.excluded # {}
    BY <1>1 DEF SearchRow
  <1>5. Sound(row)
    BY <1>1, <1>4 DEF Sound, Complete
  <1> QED
    BY <1>1, <1>2, <1>3, <1>5, SoundInv

\* What the first step of the walk is.
LEMMA TheStep ==
  ASSUME SearchInv, search.at = "walk", search.todo # <<>>
  PROVE  /\ Now \in Steps /\ Now = search.todo[1] /\ 1 \in 1..Len(search.todo)
         /\ Now.step = "scan" => Now.path \in Directories
         /\ Now.step # "scan" => Now.path \in TreePaths /\ Now.path # Root
         /\ Now.depth \in Nat
  <1>1. search.todo \in Seq(Steps)
    BY InProgress DEF SearchRow
  <1>2. Now \in Steps /\ Now = search.todo[1] /\ 1 \in 1..Len(search.todo)
    BY <1>1, Shortened DEF Now
  <1> QED
    BY <1>2, SearchAssumption DEF Steps

\* The walk goes on with t for its first step: every file below that step is
\* listed now, or below a step of t.
LEMMA GoesOnInv ==
  ASSUME SearchInv, Same, search.at = "walk", search.todo # <<>>,
         NEW t \in Seq(Steps), NEW row \in SearchRow, search' = row,
         row.todo = t \o Tail(search.todo), row.at = "walk", row.scope = search.scope,
         row.excluded = search.excluded, row.truncated = search.truncated,
         Len(row.opened) <= MaxFiles, row.bytes <= MaxScanBytes,
         Genuine(row.opened), Genuine(row.unread),
         \A p \in TreePaths : Listed(search, p) => Listed(row, p),
         \A p \in Owed(search.scope) : p \in Below(Dirs, Now.path) =>
            Listed(row, p) \/ \E i \in 1..Len(t) : p \in Below(Dirs, t[i].path)
  PROVE  SearchInv'
  <1>1. search \in SearchRow /\ Sound(search) /\ SearchTypeOK
    BY InProgress
  <1>2. /\ Tail(search.todo) \in Seq(Steps)
        /\ \A i \in 1..Len(search.todo) :
              \/ search.todo[i] = Now
              \/ \E j \in 1..Len(Tail(search.todo)) : Tail(search.todo)[j] = search.todo[i]
    <2>1. search.todo \in Seq(Steps)
      BY <1>1 DEF SearchRow
    <2> DEFINE s == search.todo
               u == Tail(search.todo)
    <2>2. /\ u \in Seq(Steps) /\ Len(s) \in Nat /\ Head(s) = s[1]
          /\ \A i \in 1..Len(u) : i + 1 \in 1..Len(s) /\ u[i] = s[i + 1]
          /\ \A i \in 1..Len(s) : i = 1 \/ i - 1 \in 1..Len(u)
      BY <2>1, Shortened
    <2>3. Now = s[1]
      BY <2>2 DEF Now
    <2> HIDE DEF s, u
    <2>4. ASSUME NEW i \in 1..Len(s), i # 1
          PROVE  \E j \in 1..Len(u) : u[j] = s[i]
      <3>1. i - 1 \in 1..Len(u)
        BY <2>2, <2>4
      <3>2. u[i - 1] = s[(i - 1) + 1] /\ (i - 1) + 1 = i
        BY <2>2, <3>1
      <3> QED
        BY <3>1, <3>2
    <2>5. /\ u \in Seq(Steps)
          /\ \A i \in 1..Len(s) : s[i] = Now \/ \E j \in 1..Len(u) : u[j] = s[i]
      BY <2>2, <2>3, <2>4
    <2> QED
      BY <2>5 DEF s, u
  <1>3. Joins(row.todo, t, Tail(search.todo))
    BY <1>2, Extended
  <1>4. ASSUME Complete(row), NEW p \in Owed(row.scope)
        PROVE  Told(row, p)
    <2>1. p \in Owed(search.scope) /\ p \in TreePaths /\ Complete(search)
      BY <1>1, <1>4 DEF Owed, Complete, SearchTypeOK
    <2>2. Listed(search, p) \/ Ahead(search, p)
      BY <1>1, <2>1 DEF Sound, Told
    <2>3. CASE Listed(search, p)
      BY <2>1, <2>3 DEF Told
    <2>4. CASE Ahead(search, p)
      <3>1. PICK i \in 1..Len(search.todo) : p \in Below(Dirs, search.todo[i].path)
        BY <2>4 DEF Ahead
      <3>2. CASE search.todo[i] = Now
        <4>1. CASE Listed(row, p)
          BY <4>1 DEF Told
        <4>2. CASE \E j \in 1..Len(t) : p \in Below(Dirs, t[j].path)
          <5>1. PICK j \in 1..Len(t) : p \in Below(Dirs, t[j].path)
            BY <4>2
          <5>2. j \in 1..Len(row.todo) /\ row.todo[j] = t[j]
            BY <1>3 DEF Joins
          <5> QED
            BY <5>1, <5>2 DEF Told, Ahead
        <4> QED
          BY <2>1, <3>1, <3>2, <4>1, <4>2
      <3>3. CASE \E j \in 1..Len(Tail(search.todo)) : Tail(search.todo)[j] = search.todo[i]
        <4>1. PICK j \in 1..Len(Tail(search.todo)) : Tail(search.todo)[j] = search.todo[i]
          BY <3>3
        <4>2. Len(t) + j \in 1..Len(row.todo) /\ row.todo[Len(t) + j] = search.todo[i]
          BY <1>3, <4>1 DEF Joins
        <4> QED
          BY <3>1, <4>2 DEF Told, Ahead
      <3> QED
        BY <1>2, <3>2, <3>3
    <2> QED
      BY <2>2, <2>3, <2>4
  <1>5. Sound(row)
    BY <1>4 DEF Sound
  <1> QED
    BY <1>1, <1>5, SoundInv

\* A file that is owed is the step's own, or below one of its children that
\* are there.
LEMMA OwedBelow ==
  ASSUME SearchTypeOK, NEW scope, NEW q \in Directories, NEW p \in Owed(scope),
         IsDirectory(q), p \in Below(Dirs, q)
  PROVE  \E c \in Kids(q) : p \in Below(Dirs, c) /\ tree[c].kind # "absent"
  <1>1. p \in TreePaths /\ tree[p].kind = "file"
    BY DEF Owed, SearchTypeOK
  <1>2. p # q
    BY <1>1, SearchAssumption DEF IsDirectory
  <1>3. PICK c \in Kids(q) : p \in Below(Dirs, c)
    BY <1>2, Into
  <1>4. c \in TreePaths /\ c # Root
    BY KidsAre, SearchAssumption
  <1>5. CASE c = p
    BY <1>1, <1>3, <1>5
  <1>6. CASE c # p
    <2>1. c \in Dirs
      BY <1>3, <1>6, Into
    <2> QED
      BY <1>3, <1>4, <2>1 DEF Dirs, IsDirectory
  <1> QED
    BY <1>5, <1>6

\* A scan has every name of the directory still to do, or the search ends with
\* too many entries (_snapshot_directory).
LEMMA ScanInv ==
  ASSUME SearchInv, ScanDirectory
  PROVE  SearchInv'
  <1>1. Same /\ search.at = "walk" /\ search.todo # <<>> /\ Now.step = "scan"
    BY DEF ScanDirectory, Walking, Same
  <1>2. search \in SearchRow /\ Sound(search) /\ SearchTypeOK
    BY <1>1, InProgress
  <1>3. Now.path \in Directories /\ Now.depth \in Nat
    BY <1>1, TheStep
  <1>4. CASE ~IsDirectory(Now.path) /\ Now.path = search.scope
    <2>1. search' = NoSearch
      BY <1>4 DEF ScanDirectory
    <2> QED
      BY <1>1, <1>2, <2>1 DEF SearchInv, SearchTypeOK, Same
  <1>5. CASE ~IsDirectory(Now.path) /\ Now.path # search.scope
    <2>1. PICK reason \in Reasons : Excluded(reason)
      BY <1>5 DEF ScanDirectory, Reasons
    <2> QED
      BY <1>1, <2>1, LeftOutInv
  <1>6. CASE IsDirectory(Now.path) /\ search.entries + Len(Names(Now.path)) > MaxEntries
    <2>1. Truncated("entry_limit")
      BY <1>6 DEF ScanDirectory, BeyondEntries
    <2> QED
      BY <1>1, <2>1, LeftOutInv DEF Reasons
  <1>7. CASE IsDirectory(Now.path) /\ ~(search.entries + Len(Names(Now.path)) > MaxEntries)
    <2> DEFINE names == Names(Now.path)
               t == [i \in DOMAIN names |-> Step("stat", names[i], Now.depth)]
               row == [search EXCEPT !.entries = @ + Len(names), !.todo = t \o Tail(@)]
    <2>1. search' = row
      BY <1>7 DEF ScanDirectory
    <2>2. /\ names \in Seq(TreePaths) /\ Len(names) \in Nat
          /\ DOMAIN names = 1..Len(names)
          /\ \A i \in 1..Len(names) : names[i] \in TreePaths
          /\ \A c \in Kids(Now.path) : tree[c].kind # "absent" =>
               \E i \in 1..Len(names) : names[i] = c
      BY <1>3, NamesAre, LenProperties, ElementOfSeq
    <2> HIDE DEF names
    <2>3. t \in Seq(Steps) /\ Len(t) = Len(names)
      <3>1. \A i \in 1..Len(names) : Step("stat", names[i], Now.depth) \in Steps
        BY <1>3, <2>2 DEF Step, Steps
      <3>2. t \in [1..Len(names) -> Steps]
        BY <2>2, <3>1
      <3> QED
        BY <2>2, <3>2, IsASeq, LenProperties
    <2>4. \A i \in 1..Len(t) : t[i].path = names[i]
      BY <2>2, <2>3 DEF Step
    <2> HIDE DEF t
    <2>5. Tail(search.todo) \in Seq(Steps) /\ t \o Tail(search.todo) \in Seq(Steps)
      <3>1. Tail(search.todo) \in Seq(Steps)
        BY <1>1, <1>2, Shortened DEF SearchRow
      <3> QED
        BY <2>3, <3>1, Extended
    <2>6. row \in SearchRow
      <3>1. PICK u \in Seq(Steps) : u = t \o Tail(search.todo)
        BY <2>5
      <3>2. PICK n \in Nat : n = search.entries + Len(names)
        BY <1>2, <2>2 DEF SearchRow
      <3>3. [search EXCEPT !.entries = n, !.todo = u] \in SearchRow
        BY <1>2 DEF SearchRow
      <3> QED
        BY <3>1, <3>2, <3>3
    <2>7. /\ row.todo = t \o Tail(search.todo) /\ row.at = "walk" /\ row.scope = search.scope
          /\ row.excluded = search.excluded /\ row.truncated = search.truncated
          /\ row.opened = search.opened /\ row.bytes = search.bytes
          /\ row.unread = search.unread
      BY <1>1, <1>2 DEF SearchRow
    <2>8. ASSUME NEW p \in Owed(search.scope), p \in Below(Dirs, Now.path)
          PROVE  \E i \in 1..Len(t) : p \in Below(Dirs, t[i].path)
      <3>1. PICK c \in Kids(Now.path) : p \in Below(Dirs, c) /\ tree[c].kind # "absent"
        BY <1>2, <1>3, <1>7, <2>8, OwedBelow
      <3>2. PICK i \in 1..Len(names) : names[i] = c
        BY <2>2, <3>1
      <3> QED
        BY <2>3, <2>4, <3>1, <3>2
    <2> HIDE DEF row
    <2>9. \A p : Listed(search, p) => Listed(row, p)
      BY <2>7 DEF Listed
    <2>10. /\ Len(row.opened) <= MaxFiles /\ row.bytes <= MaxScanBytes
           /\ Genuine(row.opened) /\ Genuine(row.unread)
      BY <1>2, <2>7 DEF Sound
    <2> QED
      BY <1>1, <2>1, <2>3, <2>6, <2>7, <2>8, <2>9, <2>10, GoesOnInv
  <1> QED
    BY <1>4, <1>5, <1>6, <1>7

\* Below what is no directory there is nothing.
LEMMA OnlyItself ==
  ASSUME NEW q \in TreePaths, tree[q].kind # "directory", NEW p \in Below(Dirs, q)
  PROVE  p = q
  <1>1. q # Root
    BY SearchAssumption
  <1> QED
    BY <1>1, Into DEF Dirs, IsDirectory

\* An entry that is looked at is left out with a reason, opened, or scanned.
LEMMA StatInv ==
  ASSUME SearchInv, StatEntry
  PROVE  SearchInv'
  <1> DEFINE entry == tree[Now.path]
  <1>1. Same /\ search.at = "walk" /\ search.todo # <<>> /\ Now.step = "stat"
    BY DEF StatEntry, Walking, Same
  <1>2. search \in SearchRow /\ Sound(search) /\ SearchTypeOK
    BY <1>1, InProgress
  <1>3. Now.path \in TreePaths /\ Now.path # Root /\ Now.depth \in Nat /\ Now \in Steps
    BY <1>1, TheStep
  <1>4. entry \in EntryRow /\ (entry.kind = "directory" => Now.path \in Directories)
    BY <1>2, <1>3 DEF SearchTypeOK
  <1> DEFINE goesOn(step, depth) ==
               search' = [search EXCEPT !.todo = <<Step(step, Now.path, depth)>> \o Tail(@)]
  <1>5. \/ \E reason \in Reasons : Excluded(reason) \/ Truncated(reason)
        \/ entry.kind = "directory" /\ goesOn("scan", Now.depth + 1)
        \/ IsFile(entry) /\ search' = [search EXCEPT !.todo[1].step = "open"]
    <2> HIDE DEF goesOn
    <2>1. LimitMet(entry.size) \subseteq Reasons
      BY DEF LimitMet, Reasons
    <2>2. {"blocked", "races", "symlinks", "depth"} \subseteq Reasons
      BY DEF Reasons
    <2>3. \/ \E reason \in Reasons : Excluded(reason) \/ Truncated(reason)
          \/ /\ entry.kind = "directory"
             /\ search' = [search EXCEPT !.todo =
                             <<Step("scan", Now.path, Now.depth + 1)>> \o Tail(@)]
          \/ IsFile(entry) /\ search' = [search EXCEPT !.todo[1].step = "open"]
      BY <1>4, <2>1, <2>2 DEF StatEntry, IsFile, EntryRow
    <2> QED
      BY <2>3 DEF goesOn
  <1>6. CASE \E reason \in Reasons : Excluded(reason) \/ Truncated(reason)
    BY <1>1, <1>6, LeftOutInv
  <1>7. ASSUME NEW step \in Steps, step.path = Now.path,
               search' = [search EXCEPT !.todo = <<step>> \o Tail(@)]
        PROVE  SearchInv'
    <2> DEFINE t == <<step>>
               row == [search EXCEPT !.todo = t \o Tail(@)]
    <2>1. t \in Seq(Steps) /\ 1 \in 1..Len(t) /\ t[1] = step
      BY <1>7
    <2> HIDE DEF t
    <2>2. Tail(search.todo) \in Seq(Steps) /\ t \o Tail(search.todo) \in Seq(Steps)
      <3>1. Tail(search.todo) \in Seq(Steps)
        BY <1>1, <1>2, Shortened DEF SearchRow
      <3> QED
        BY <2>1, <3>1, Extended
    <2>3. row \in SearchRow
      BY <1>2, <2>2 DEF SearchRow
    <2>4. /\ row.todo = t \o Tail(search.todo) /\ row.at = "walk" /\ row.scope = search.scope
          /\ row.excluded = search.excluded /\ row.truncated = search.truncated
          /\ row.opened = search.opened /\ row.bytes = search.bytes
          /\ row.unread = search.unread
      BY <1>1, <1>2 DEF SearchRow
    <2>5. search' = row
      BY <1>7 DEF t
    <2> HIDE DEF row
    <2>6. \A p : Listed(search, p) => Listed(row, p)
      BY <2>4 DEF Listed
    <2>7. /\ Len(row.opened) <= MaxFiles /\ row.bytes <= MaxScanBytes
          /\ Genuine(row.opened) /\ Genuine(row.unread)
      BY <1>2, <2>4 DEF Sound
    <2>8. \A p \in Owed(search.scope) : p \in Below(Dirs, Now.path) =>
             \E i \in 1..Len(t) : p \in Below(Dirs, t[i].path)
      BY <1>7, <2>1
    <2> QED
      BY <1>1, <2>1, <2>3, <2>4, <2>5, <2>6, <2>7, <2>8, GoesOnInv
  <1>8. CASE entry.kind = "directory" /\ goesOn("scan", Now.depth + 1)
    <2>1. Step("scan", Now.path, Now.depth + 1) \in Steps
          /\ Step("scan", Now.path, Now.depth + 1).path = Now.path
      BY <1>3, <1>4, <1>8 DEF Step, Steps
    <2> QED
      BY <1>7, <1>8, <2>1
  <1>9. CASE search' = [search EXCEPT !.todo[1].step = "open"]
    <2> DEFINE step == [Now EXCEPT !.step = "open"]
    <2>1. step \in Steps /\ step.path = Now.path
      BY <1>1, <1>3 DEF Steps
    <2>2. [search.todo EXCEPT ![1] = step] = <<step>> \o Tail(search.todo)
      <3> DEFINE s == search.todo
                 u == Tail(search.todo)
                 v == [s EXCEPT ![1] = step]
                 w == <<step>> \o u
      <3>1. s \in Seq(Steps)
        BY <1>2 DEF SearchRow
      <3>2. /\ u \in Seq(Steps) /\ Len(u) = Len(s) - 1 /\ Len(s) \in Nat \ {0}
            /\ \A i \in 1..Len(u) : i + 1 \in 1..Len(s) /\ u[i] = s[i + 1]
            /\ \A i \in 1..Len(s) : i = 1 \/ i - 1 \in 1..Len(u)
        BY <1>1, <3>1, Shortened
      <3> HIDE DEF u
      <3>3. <<step>> \in Seq(Steps) /\ Len(<<step>>) = 1 /\ <<step>>[1] = step
        BY <2>1
      <3>4. /\ w \in Seq(Steps) /\ Len(w) = 1 + Len(u)
            /\ w[1] = step /\ \A i \in 1..Len(u) : w[1 + i] = u[i]
        <4>1. w \in Seq(Steps) /\ Joins(w, <<step>>, u)
          BY <3>2, <3>3, Extended
        <4> HIDE DEF w
        <4> QED
          BY <3>3, <4>1 DEF Joins
      <3>5. v \in [1..Len(s) -> Steps] /\ w \in [1..Len(s) -> Steps]
        <4> HIDE DEF w, s
        <4>1. s \in [1..Len(s) -> Steps] /\ w \in [1..Len(w) -> Steps]
          BY <3>1, <3>4, LenProperties
        <4>2. Len(w) = Len(s)
          BY <3>2, <3>4
        <4> HIDE DEF step
        <4> QED
          BY <2>1, <4>1, <4>2
      <3>6. ASSUME NEW i \in 1..Len(s)
            PROVE  v[i] = w[i]
        <4>1. CASE i = 1
          BY <3>1, <3>4, <4>1, LenProperties
        <4>2. CASE i # 1
          <5>1. i - 1 \in 1..Len(u) /\ 1 + (i - 1) = i /\ (i - 1) + 1 = i
            BY <3>2, <4>2
          <5>2. w[1 + (i - 1)] = u[i - 1] /\ u[i - 1] = s[(i - 1) + 1]
            BY <3>2, <3>4, <5>1
          <5>3. v[i] = s[i]
            BY <3>1, <4>2, LenProperties
          <5> QED
            BY <5>1, <5>2, <5>3
        <4> QED
          BY <4>1, <4>2
      <3> HIDE DEF v, w, s
      <3>7. v = w
        BY <3>5, <3>6
      <3> QED
        BY <3>7 DEF v, w, s, u
    <2>3. Now = search.todo[1] /\ 1 \in 1..Len(search.todo)
      BY <1>1, TheStep
    <2>4. search' = [search EXCEPT !.todo = <<step>> \o Tail(@)]
      BY <1>9, <2>2, <2>3
    <2> HIDE DEF step
    <2> QED
      BY <1>7, <2>1, <2>4
  <1> QED
    BY <1>5, <1>6, <1>8, <1>9

\* A file that is opened is listed, or left out with a reason.
LEMMA OpenInv ==
  ASSUME SearchInv, OpenFile
  PROVE  SearchInv'
  <1> DEFINE entry == tree[Now.path]
  <1>1. Same /\ search.at = "walk" /\ search.todo # <<>> /\ Now.step = "open"
    BY DEF OpenFile, Walking, Same
  <1>2. search \in SearchRow /\ Sound(search) /\ SearchTypeOK
    BY <1>1, InProgress
  <1>3. Now.path \in TreePaths /\ entry \in EntryRow
    BY <1>1, <1>2, TheStep DEF SearchTypeOK
  <1> DEFINE entered == [path |-> Now.path, entry |-> entry]
  <1>4. \/ \E reason \in Reasons : Excluded(reason) \/ Truncated(reason)
        \/ /\ IsFile(entry) /\ LimitMet(entry.size) = {}
           /\ search' = [search EXCEPT !.todo = Tail(@), !.bytes = @ + entry.size,
                                       !.opened = Append(@, entered)]
    <2>1. LimitMet(entry.size) \subseteq Reasons
      BY DEF LimitMet, Reasons
    <2>2. {"races", "errors"} \subseteq Reasons
      BY DEF Reasons
    <2> QED
      BY <1>3, <2>1, <2>2 DEF OpenFile, IsFile, EntryRow
  <1>5. CASE \E reason \in Reasons : Excluded(reason) \/ Truncated(reason)
    BY <1>1, <1>5, LeftOutInv
  <1>6. CASE /\ IsFile(entry) /\ LimitMet(entry.size) = {}
             /\ search' = [search EXCEPT !.todo = Tail(@), !.bytes = @ + entry.size,
                                         !.opened = Append(@, entered)]
    <2>0. /\ Tail(search.todo) \in Seq(Steps) /\ search.opened \in Seq(OpenedRow)
          /\ search.bytes \in Nat /\ entry.size \in Nat /\ entered \in OpenedRow
      BY <1>1, <1>2, <1>3, Shortened DEF SearchRow, EntryRow, OpenedRow
    <2>1. PICK opened : opened = Append(search.opened, entered)
      OBVIOUS
    <2>2. /\ opened \in Seq(OpenedRow) /\ Len(opened) = Len(search.opened) + 1
          /\ Len(search.opened) \in Nat
          /\ \A i \in 1..Len(search.opened) : i \in 1..Len(opened) /\ opened[i] = search.opened[i]
          /\ opened[Len(search.opened) + 1] = entered
          /\ \A i \in 1..Len(opened) : i \in 1..Len(search.opened) \/ i = Len(search.opened) + 1
      BY <2>0, <2>1, OneMore
    <2>3. PICK bytes \in Nat : bytes = search.bytes + entry.size
      BY <2>0
    <2>4. PICK todo \in Seq(Steps) : todo = Tail(search.todo)
      BY <2>0
    <2> DEFINE row == [search EXCEPT !.todo = todo, !.bytes = bytes, !.opened = opened]
    <2>5. search' = row
      BY <1>6, <2>1, <2>3, <2>4
    <2>6. row \in SearchRow
      BY <1>2, <2>2 DEF SearchRow
    <2>7. /\ row.todo = todo /\ row.at = "walk" /\ row.scope = search.scope
          /\ row.excluded = search.excluded /\ row.truncated = search.truncated
          /\ row.opened = opened /\ row.bytes = bytes /\ row.unread = search.unread
      BY <1>1, <1>2 DEF SearchRow
    <2>8. Len(opened) <= MaxFiles /\ bytes <= MaxScanBytes
      <3>1. ~(Len(search.opened) >= MaxFiles) /\ ~(search.bytes + entry.size > MaxScanBytes)
        BY <1>6 DEF LimitMet
      <3>2. MaxFiles \in Nat /\ MaxScanBytes \in Nat
        BY SearchAssumption
      <3> QED
        BY <2>0, <2>2, <2>3, <3>1, <3>2
    <2> HIDE DEF row
    <2>9. Genuine(opened) /\ Genuine(search.unread)
      <3>1. Genuine(search.opened) /\ Genuine(search.unread)
        BY <1>2 DEF Sound
      <3>2. entered.entry = tree[entered.path]
        OBVIOUS
      <3> HIDE DEF entered
      <3>3. ASSUME NEW i \in 1..Len(opened), opened[i].path \in steady
            PROVE  opened[i].entry = tree[opened[i].path]
        <4>1. CASE i \in 1..Len(search.opened)
          BY <2>2, <3>1, <3>3, <4>1 DEF Genuine
        <4>2. CASE i = Len(search.opened) + 1
          BY <2>2, <3>2, <4>2
        <4> QED
          BY <2>2, <4>1, <4>2
      <3> QED
        BY <3>1, <3>3 DEF Genuine
    <2>10. \A p : Listed(search, p) => Listed(row, p)
      BY <2>2, <2>7 DEF Listed
    <2>11. ASSUME NEW p \in Owed(search.scope), p \in Below(Dirs, Now.path)
           PROVE  Listed(row, p)
      <3>1. p = Now.path
        BY <1>3, <1>6, <2>11, OnlyItself DEF IsFile
      <3>2. Len(search.opened) + 1 \in 1..Len(opened)
        BY <2>2
      <3> QED
        BY <2>2, <2>7, <3>1, <3>2 DEF Listed
    <2>12. PICK t \in Seq(Steps) : t = <<>>
      <3>1. <<>> \in Seq(Steps)
        OBVIOUS
      <3> QED
        BY <3>1
    <2>13. row.todo = t \o Tail(search.todo)
      BY <2>0, <2>4, <2>7, <2>12
    <2> QED
      BY <1>1, <2>5, <2>6, <2>7, <2>8, <2>9, <2>10, <2>11, <2>13, GoesOnInv
  <1> QED
    BY <1>4, <1>5, <1>6

\* At the end of the walk nothing is ahead: all that is owed is listed.
LEMMA EndWalkInv ==
  ASSUME SearchInv, EndWalk
  PROVE  SearchInv'
  <1>1. Same /\ search.at = "walk" /\ search.todo = <<>>
    BY DEF EndWalk, Same
  <1>2. search \in SearchRow /\ Sound(search) /\ SearchTypeOK
    BY <1>1, InProgress
  <1> DEFINE row == [search EXCEPT !.at = IF search.tool = "discover" THEN "done" ELSE "read",
                                   !.unread = search.opened]
  <1>3. search' = row /\ row \in SearchRow
    BY <1>2 DEF EndWalk, SearchRow
  <1>4. /\ row.at = IF search.tool = "discover" THEN "done" ELSE "read"
        /\ row.unread = search.opened /\ row.opened = search.opened /\ row.scope = search.scope
        /\ row.tool = search.tool /\ row.bytes = search.bytes
        /\ row.excluded = search.excluded /\ row.truncated = search.truncated
    BY <1>2 DEF SearchRow
  <1> HIDE DEF row
  <1>5. ASSUME Complete(row), NEW p \in Owed(row.scope)
        PROVE  Told(row, p)
    <2>1. Listed(search, p) \/ Ahead(search, p)
      BY <1>1, <1>2, <1>4, <1>5 DEF Sound, Told, Complete
    <2>2. ~Ahead(search, p)
      <3>1. \A i \in 1..Len(search.todo) : FALSE
        BY <1>1
      <3> QED
        BY <3>1 DEF Ahead
    <2> QED
      BY <1>4, <2>1, <2>2 DEF Told, Listed, Unread
  <1>6. Sound(row)
    <2>1. /\ Len(row.opened) <= MaxFiles /\ row.bytes <= MaxScanBytes
          /\ Genuine(row.opened) /\ Genuine(row.unread)
      BY <1>2, <1>4 DEF Sound
    <2>2. ~(row.at = "done" /\ row.tool = "search")
      BY <1>4
    <2> QED
      BY <1>5, <2>1, <2>2 DEF Sound
  <1> QED
    BY <1>1, <1>2, <1>3, <1>6, SoundInv

\* A search ends when every listed file was read.
LEMMA EndSearchInv ==
  ASSUME SearchInv, EndSearch
  PROVE  SearchInv'
  <1>1. Same /\ search.at = "read" /\ search.unread = <<>>
    BY DEF EndSearch, Same
  <1>2. search \in SearchRow /\ Sound(search) /\ SearchTypeOK
    BY <1>1, InProgress
  <1> DEFINE row == [search EXCEPT !.at = "done"]
  <1>3. search' = row /\ row \in SearchRow
    BY <1>2 DEF EndSearch, SearchRow
  <1>4. /\ row.at = "done"
        /\ row.unread = <<>> /\ row.opened = search.opened /\ row.scope = search.scope
        /\ row.tool = search.tool /\ row.bytes = search.bytes /\ row.matches = search.matches
        /\ row.excluded = search.excluded /\ row.truncated = search.truncated
    BY <1>1, <1>2 DEF SearchRow
  <1> HIDE DEF row
  <1>5. ASSUME Complete(row), NEW p \in Owed(row.scope)
        PROVE  Told(row, p)
    <2>1. Told(search, p)
      BY <1>1, <1>2, <1>4, <1>5 DEF Sound, Complete
    <2> QED
      BY <1>1, <1>4, <2>1 DEF Told, Listed, Unread
  <1>6. Sound(row)
    BY <1>1, <1>2, <1>4, <1>5 DEF Sound
  <1> QED
    BY <1>1, <1>2, <1>3, <1>6, SoundInv

\* A file that is read is a match if it holds the pattern, or left out with a
\* reason if it is no longer what was opened.
LEMMA ReadInv ==
  ASSUME SearchInv, ReadFile
  PROVE  SearchInv'
  <1> DEFINE next == Head(search.unread)
             u == Tail(search.unread)
  <1>1. Same /\ search.at = "read" /\ search.unread # <<>>
    BY DEF ReadFile, Same
  <1>2. search \in SearchRow /\ Sound(search) /\ SearchTypeOK
    BY <1>1, InProgress
  <1>3. /\ u \in Seq(OpenedRow) /\ next \in OpenedRow /\ search.unread[1] = next
        /\ 1 \in 1..Len(search.unread) /\ Len(search.unread) \in Nat
        /\ \A i \in 1..Len(u) : i + 1 \in 1..Len(search.unread) /\ u[i] = search.unread[i + 1]
        /\ \A i \in 1..Len(search.unread) : i = 1 \/ i - 1 \in 1..Len(u)
    BY <1>1, <1>2, Shortened DEF SearchRow
  <1>4. next.path \in TreePaths /\ next.entry \in EntryRow
    BY <1>3 DEF OpenedRow
  <1>5. PICK entry \in EntryRow :
          /\ entry = next.entry \/ entry = tree[next.path]
          /\ \/ \E reason \in Reasons :
                  search' = [search EXCEPT !.unread = u, !.excluded = @ \cup {reason}]
             \/ LET found == search.matches \cup {p \in {next.path} : entry.hit}
                IN  \/ search' = [search EXCEPT !.matches = found, !.unread = <<>>, !.truncated = TRUE,
                                                !.excluded = @ \cup {"result_limit"}]
                    \/ search' = [search EXCEPT !.matches = found, !.unread = u]
    <2>1. PICK e \in {next.entry} \cup {e \in {tree[next.path]} : IsFile(e)} :
            \/ search' = [search EXCEPT !.unread = u, !.excluded = @ \cup {"races"}]
            \/ search' = [search EXCEPT !.unread = u, !.excluded = @ \cup {"invalid_utf8"}]
            \/ LET found == search.matches \cup {p \in {next.path} : e.hit}
               IN  \/ search' = [search EXCEPT !.matches = found, !.unread = <<>>, !.truncated = TRUE,
                                               !.excluded = @ \cup {"result_limit"}]
                   \/ search' = [search EXCEPT !.matches = found, !.unread = u]
      <3> HIDE DEF u, next
      <3> QED
        BY DEF ReadFile, u, next
    <2>2. e \in EntryRow
      BY <1>2, <1>4, <2>1 DEF SearchTypeOK
    <2>3. {"races", "invalid_utf8"} \subseteq Reasons
      BY DEF Reasons
    <2> HIDE DEF u, next
    <2> QED
      BY <2>1, <2>2, <2>3
  <1>6. next.path \in steady => entry = tree[next.path]
    BY <1>2, <1>3, <1>5 DEF Sound, Genuine
  <1>7. Genuine(u) /\ Genuine(<<>>)
    <2> HIDE DEF u
    <2>1. Genuine(search.unread)
      BY <1>2 DEF Sound
    <2>2. Genuine(u)
      BY <1>3, <2>1 DEF Genuine
    <2>3. Genuine(<<>>)
      BY DEF Genuine
    <2> QED
      BY <2>2, <2>3
  <1> HIDE DEF u, next
  <1> DEFINE found == search.matches \cup {p \in {next.path} : entry.hit}
  <1>8. found \in SUBSET TreePaths
    BY <1>2, <1>4 DEF SearchRow
  <1>9. ASSUME NEW row \in SearchRow, search' = row, row.excluded # {},
               row.opened = search.opened, row.bytes = search.bytes, row.at = "read",
               Genuine(row.unread)
        PROVE  SearchInv'
    <2>1. Sound(row)
      BY <1>2, <1>9 DEF Sound, Complete
    <2> QED
      BY <1>1, <1>2, <1>9, <2>1, SoundInv
  <1>10. CASE \E reason \in Reasons :
                search' = [search EXCEPT !.unread = u, !.excluded = @ \cup {reason}]
    <2>1. PICK reason \in Reasons :
                search' = [search EXCEPT !.unread = u, !.excluded = @ \cup {reason}]
      BY <1>10
    <2> DEFINE row == [search EXCEPT !.unread = u, !.excluded = @ \cup {reason}]
    <2>2. /\ row \in SearchRow /\ row.excluded # {} /\ row.at = "read" /\ row.unread = u
          /\ row.opened = search.opened /\ row.bytes = search.bytes
      BY <1>1, <1>2, <1>3 DEF SearchRow
    <2> QED
      BY <1>7, <1>9, <2>1, <2>2
  <1>11. CASE search' = [search EXCEPT !.matches = found, !.unread = <<>>, !.truncated = TRUE,
                                       !.excluded = @ \cup {"result_limit"}]
    <2> DEFINE row == [search EXCEPT !.matches = found, !.unread = <<>>, !.truncated = TRUE,
                                     !.excluded = @ \cup {"result_limit"}]
    <2> HIDE DEF found
    <2>1. "result_limit" \in Reasons /\ <<>> \in Seq(OpenedRow)
      BY DEF Reasons
    <2>2. /\ row \in SearchRow /\ row.excluded # {} /\ row.at = "read" /\ row.unread = <<>>
          /\ row.opened = search.opened /\ row.bytes = search.bytes
      BY <1>1, <1>2, <1>8, <2>1 DEF SearchRow
    <2> QED
      BY <1>7, <1>9, <1>11, <2>2
  <1>12. CASE search' = [search EXCEPT !.matches = found, !.unread = u]
    <2> DEFINE row == [search EXCEPT !.matches = found, !.unread = u]
    <2> HIDE DEF found
    <2>1. row \in SearchRow
      BY <1>2, <1>3, <1>8 DEF SearchRow
    <2>2. /\ row.at = "read" /\ row.unread = u /\ row.matches = found
          /\ row.opened = search.opened /\ row.bytes = search.bytes /\ row.scope = search.scope
          /\ row.tool = search.tool
          /\ row.truncated = search.truncated /\ row.excluded = search.excluded
      BY <1>1, <1>2 DEF SearchRow
    <2>3. search' = row
      BY <1>12
    <2> HIDE DEF row
    <2>4. ASSUME Complete(row), NEW p \in Owed(row.scope)
          PROVE  Told(row, p)
      <3>1. Told(search, p) /\ p \in steady
        BY <1>2, <2>2, <2>4 DEF Sound, Complete, Owed
      <3>2. Listed(row, p)
        BY <1>1, <2>2, <3>1 DEF Told, Listed
      <3>3. ASSUME search.tool = "search", tree[p].hit
            PROVE  p \in found \/ \E i \in 1..Len(u) : u[i].path = p
        <4>1. p \in search.matches \/ Unread(search, p)
          BY <1>1, <3>1, <3>3 DEF Told
        <4>2. CASE p \in search.matches
          BY <4>2 DEF found
        <4>3. CASE Unread(search, p)
          <5>1. PICK i \in 1..Len(search.unread) : search.unread[i].path = p
            BY <4>3 DEF Unread
          <5>2. CASE i = 1
            <6>1. p = next.path
              BY <1>3, <5>1, <5>2
            <6>2. entry.hit
              BY <1>6, <3>1, <3>3, <6>1
            <6> QED
              BY <6>1, <6>2 DEF found
          <5>3. CASE i # 1
            <6>1. i - 1 \in 1..Len(u)
              BY <1>3, <5>3
            <6>2. u[i - 1] = search.unread[(i - 1) + 1] /\ (i - 1) + 1 = i
              BY <1>3, <6>1
            <6> QED
              BY <5>1, <6>1, <6>2
          <5> QED
            BY <5>2, <5>3
        <4> QED
          BY <4>1, <4>2, <4>3
      <3> QED
        BY <2>2, <3>2, <3>3 DEF Told, Unread
    <2>5. Sound(row)
      <3>1. /\ Len(row.opened) <= MaxFiles /\ row.bytes <= MaxScanBytes
            /\ Genuine(row.opened) /\ Genuine(row.unread)
        BY <1>2, <1>7, <2>2 DEF Sound
      <3> QED
        BY <2>2, <2>4, <3>1 DEF Sound
    <2> QED
      BY <1>1, <1>2, <2>1, <2>3, <2>5, SoundInv
  <1> QED
    BY <1>5, <1>10, <1>11, <1>12

\* A change concerns only what it takes out of steady.
LEMMA ChangeInv ==
  ASSUME SearchInv, NEW x \in TreePaths, NEW entry \in NewEntries,
         entry.kind = "directory" => x \in Directories, ChangeTree(x, entry)
  PROVE  SearchInv'
  <1>1. /\ tree' = [tree EXCEPT ![x] = entry] /\ steady' = steady \ Below(Directories, x)
        /\ changes' = changes + 1 /\ search' = search
    BY DEF ChangeTree
  <1>2. entry \in EntryRow
    <2>1. Nothing \in EntryRow /\ Binary \in EntryRow
      BY DEF EntryRow, Nothing, Binary
    <2>2. Other("link") \in EntryRow /\ Other("directory") \in EntryRow
      BY DEF EntryRow, Nothing, Other
    <2>3. \A size \in 1..3 : File(size, TRUE) \in EntryRow
      BY DEF EntryRow, File
    <2> QED
      BY <2>1, <2>2, <2>3 DEF NewEntries
  <1>3. SearchTypeOK'
    <2>1. tree' \in [TreePaths -> EntryRow]
      BY <1>1, <1>2 DEF SearchInv, SearchTypeOK
    <2>2. \A p \in TreePaths : tree'[p].kind = "directory" => p \in Directories
      BY <1>1 DEF SearchInv, SearchTypeOK
    <2>3. steady' \subseteq TreePaths /\ changes' \in Nat /\ search' \in SearchRow \cup {NoSearch}
      BY <1>1 DEF SearchInv, SearchTypeOK
    <2> QED
      BY <2>1, <2>2, <2>3 DEF SearchTypeOK
  <1>4. \A p \in TreePaths : p # x => tree'[p] = tree[p]
    BY <1>1 DEF SearchInv, SearchTypeOK
  <1>5. x \in Below(Directories, x)
    BY BelowIsChain DEF Chain
  <1>6. /\ Dirs \subseteq Directories /\ Dirs' \subseteq Directories
        /\ \A d : d # x => (d \in Dirs <=> d \in Dirs')
    <2>1. ASSUME NEW d, d # x
          PROVE  d \in Dirs <=> d \in Dirs'
      <3>1. CASE d = Root
        BY <3>1 DEF Dirs, IsDirectory
      <3>2. CASE d # Root /\ d \in TreePaths
        BY <1>4, <2>1, <3>2 DEF Dirs, IsDirectory
      <3>3. CASE d \notin TreePaths
        BY <1>1, <2>1, <3>3 DEF Dirs, IsDirectory, SearchInv, SearchTypeOK
      <3> QED
        BY <3>1, <3>2, <3>3
    <2> QED
      BY <2>1 DEF Dirs
  <1>7. \A p \in steady' : p \notin Below(Directories, x) /\ p \in steady /\ p # x /\ tree'[p] = tree[p]
    BY <1>1, <1>4, <1>5 DEF SearchInv, SearchTypeOK
  <1>8. \A q : \A p \in steady' : p \in Below(Dirs, q) <=> p \in Below(Dirs', q)
    BY <1>6, <1>7, StillBelow
  <1>9. ASSUME search # NoSearch
        PROVE  Sound(search)'
    <2>1. Sound(search)
      BY <1>9 DEF SearchInv
    <2>2. Genuine(search.opened)' /\ Genuine(search.unread)'
      BY <1>1, <1>7, <2>1 DEF Genuine, Sound
    <2>3. ASSUME Complete(search), NEW p \in Owed(search.scope)'
          PROVE  Told(search, p)'
      <3>1. p \in steady' /\ p \in Below(Dirs', search.scope) /\ tree'[p].kind = "file"
        BY <1>1, <2>3 DEF Owed
      <3>2. p \in Owed(search.scope)
        BY <1>7, <1>8, <3>1 DEF Owed
      <3>3. Told(search, p) /\ tree'[p] = tree[p]
        BY <1>7, <2>1, <2>3, <3>1, <3>2 DEF Sound
      <3>4. Ahead(search, p) => Ahead(search, p)'
        BY <1>1, <1>8, <3>1 DEF Ahead
      <3> QED
        BY <1>1, <3>3, <3>4 DEF Told, Listed, Unread
    <2> QED
      BY <1>1, <2>1, <2>2, <2>3 DEF Sound, Complete
  <1> QED
    BY <1>1, <1>3, <1>9 DEF SearchInv

\* The invariant holds at first.
LEMMA SearchStart ==
  ASSUME SearchInit
  PROVE  SearchInv
  <1>1. tree \in [TreePaths -> EntryRow]
    BY SearchAssumption DEF SearchInit, EntryRow
  <1>2. \A p \in TreePaths : tree[p].kind = "directory" => p \in Directories
    BY SearchAssumption DEF SearchInit
  <1> QED
    BY <1>1, <1>2 DEF SearchInit, SearchInv, SearchTypeOK

\* Every step keeps the invariant.
LEMMA SearchStep ==
  ASSUME SearchInv, [SearchNext]_searchVars
  PROVE  SearchInv'
  <1>1. CASE UNCHANGED searchVars
    <2>1. Same /\ search' = search
      BY <1>1 DEF searchVars, Same
    <2>2. CASE search = NoSearch
      BY <2>1, <2>2 DEF SearchInv, SearchTypeOK, Same
    <2>3. CASE search # NoSearch
      BY <2>1, <2>3, SoundInv DEF SearchInv, SearchTypeOK
    <2> QED
      BY <2>2, <2>3
  <1> QED
    BY <1>1, BeginInv, ScanInv, StatInv, OpenInv, EndWalkInv, ReadInv, EndSearchInv, ChangeInv
       DEF SearchNext

\* In every reachable state a search that has left out nothing has told every
\* file it owes, or is still going to (sandbox.py, the walk and its queue).
THEOREM SearchInvariant == SearchSpec => []SearchInv
  BY SearchStart, SearchStep, PTL DEF SearchSpec

\* A search that is done and reports neither an exclusion nor a truncation has
\* listed every steady file of its scope, and matched every one that holds the
\* pattern; it never exceeds its own limits (sandbox.py discover and search).
THEOREM SearchTellsWhatItMissedHolds == SearchSpec => []SearchTellsWhatItMissed
  <1>1. ASSUME SearchInv
        PROVE  SearchTellsWhatItMissed
    <2> SUFFICES ASSUME search.at = "done"
                 PROVE  LET listed == {f.path : f \in ToSet(search.opened)} IN
                        /\ Len(search.opened) <= MaxFiles /\ search.bytes <= MaxScanBytes
                        /\ (~search.truncated /\ search.excluded = {}) =>
                            \A p \in steady \cap Below(Dirs, search.scope) :
                              tree[p].kind = "file" =>
                                /\ p \in listed
                                /\ search.tool = "search" /\ tree[p].hit => p \in search.matches
      BY DEF SearchTellsWhatItMissed, Dirs
    <2>1. search \in SearchRow /\ Sound(search)
      BY <1>1 DEF SearchInv, SearchTypeOK, NoSearch
    <2>2. \A p : Listed(search, p) => p \in {f.path : f \in ToSet(search.opened)}
      <3>1. DOMAIN search.opened = 1..Len(search.opened)
        BY <2>1, LenProperties DEF SearchRow
      <3> QED
        BY <3>1 DEF Listed, ToSet
    <2>3. search.tool = "search" => \A p : ~Unread(search, p)
      <3>1. \A i \in 1..Len(<<>>) : FALSE
        OBVIOUS
      <3> QED
        BY <2>1, <3>1 DEF Sound, Unread
    <2>4. ASSUME Complete(search), NEW p \in Owed(search.scope)
          PROVE  /\ p \in {f.path : f \in ToSet(search.opened)}
                 /\ search.tool = "search" /\ tree[p].hit => p \in search.matches
      BY <2>1, <2>2, <2>3, <2>4 DEF Sound, Told
    <2> QED
      BY <2>1, <2>4 DEF Sound, Complete, Owed
  <1> QED
    BY <1>1, SearchInvariant, PTL

-----------------------------------------------------------------------------
(***************************************************************************)
(* Proofs about ContextBudget: what the model is shown is qualified and    *)
(* fits, for any products, sizes, windows and limits.                      *)
(*                                                                         *)
(* A set of products is `together' if it has, with each, the inputs it     *)
(* names and what qualifies it.  A bundle is the least such set with its   *)
(* product: it grows in every round or is complete, and as many rounds as  *)
(* there are products are enough (a round that is not complete has more    *)
(* products than rounds were made).  Such sets can be joined, so that      *)
(* every addition, which is all of a bundle or none, leaves one; and an    *)
(* addition fits, or changes nothing.  A run is refused for what is        *)
(* required only, and any other choice of products that are together has   *)
(* at least those tokens.                                                  *)
(*                                                                         *)
(* The four recursions of the module (rounds, sums, additions, receipts)   *)
(* are instances of one lemma, Recursion; what they compute is proved step *)
(* by step with InductUpTo.                                                *)
(***************************************************************************)

ProductRow == [kind: {"claim"} \cup Qualifications, inputs: SUBSET Nat, size: Nat]
Works == UNION {ProductsOf(n) : n \in Nat}
ContextRow ==
  [at: {"open", "stopped"}, work: SUBSET Nat, observed: SUBSET Nat, listed: SUBSET Nat,
   tokens: Nat, required: Nat, turns: Nat]

\* A set of products without which none of its members is shown.
Together(products, S) == \A i \in S : Inputs(products, i) \cup Qualifiers(products, i) \subseteq S
Required(products) == {i \in DOMAIN products : products[i].kind \in RequiredKinds}

ContextTypeOK ==
  /\ goalWork \in [products: Works, invocations: Invocations]
  /\ budget \in [limit: Nat, target: Nat]
  /\ context \in ContextRow \cup {NoContext, [at |-> "compiling"], [at |-> "refused"]}

\* What was shown at first, as it was compiled, and what every request keeps.
ContextInv ==
  /\ ContextTypeOK
  /\ context.at = "open" =>
      /\ Admitted(context.tokens)
      /\ Required(goalWork.products) \subseteq context.work
      /\ context.work \subseteq DOMAIN goalWork.products
      /\ Together(goalWork.products, context.work)
      /\ context.turns = 0 =>
          /\ context.tokens >= context.required
          /\ context.tokens = context.required \/ Fits(context.tokens, context.required)
  /\ context.at = "refused" =>
      ~Admitted(RequestSize + SizeOf(goalWork.products, RequiredWork(goalWork.products)))

-----------------------------------------------------------------------------
(* Recursion over the numbers up to n.                                     *)

\* Induction up to n, for a set.
LEMMA InductUpTo ==
  ASSUME NEW n \in Nat, NEW A \in SUBSET (0 .. n), 0 \in A,
         \A k \in 1 .. n : k - 1 \in A => k \in A
  PROVE  A = 0 .. n
  <1> DEFINE B == {k \in Nat : k <= n => k \in A}
  <1>1. 0 \in B
    OBVIOUS
  <1>2. ASSUME NEW k \in B
        PROVE  k + 1 \in B
    <2> SUFFICES ASSUME k + 1 <= n PROVE k + 1 \in A
      OBVIOUS
    <2>1. k \in A /\ k + 1 \in 1 .. n /\ (k + 1) - 1 = k
      OBVIOUS
    <2> QED
      BY <2>1
  <1>3. B \in SUBSET Nat
    OBVIOUS
  <1> HIDE DEF B
  <1>4. B = Nat
    BY <1>1, <1>2, <1>3, Induct
  <1>5. \A k \in 0 .. n : k \in A
    BY <1>4 DEF B
  <1> QED
    BY <1>5

\* f begins with v and goes on as g says.
Follows(f, v, g, n) == f[0] = v /\ \A k \in 1 .. n : f[k] = g[<<k, f[k - 1]>>]

\* What is said step by step is a function.
LEMMA Recursion ==
  ASSUME NEW V, NEW v \in V, NEW g \in [Nat \X V -> V], NEW n \in Nat
  PROVE  \E f \in [0 .. n -> V] : Follows(f, v, g, n)
  <1> DEFINE A == {m \in Nat : \E f \in [0 .. m -> V] : Follows(f, v, g, m)}
  <1>1. 0 \in A
    <2> DEFINE f == [k \in 0 .. 0 |-> v]
    <2>1. f \in [0 .. 0 -> V] /\ Follows(f, v, g, 0)
      BY DEF Follows
    <2> QED
      BY <2>1
  <1>2. ASSUME NEW m \in A
        PROVE  m + 1 \in A
    <2>1. m \in Nat
      OBVIOUS
    <2>2. PICK f \in [0 .. m -> V] : Follows(f, v, g, m)
      OBVIOUS
    <2> DEFINE h == [k \in 0 .. m + 1 |-> IF k <= m THEN f[k] ELSE g[<<m + 1, f[m]>>]]
    <2>3. f[m] \in V
      BY <2>1
    <2>4. g[<<m + 1, f[m]>>] \in V
      BY <2>1, <2>3
    <2>5. h \in [0 .. m + 1 -> V]
      BY <2>1, <2>4
    <2>6. h[0] = v
      BY <2>1, <2>2 DEF Follows
    <2>7. ASSUME NEW k \in 1 .. m + 1
          PROVE  h[k] = g[<<k, h[k - 1]>>]
      <3>1. h[k - 1] = f[k - 1]
        BY <2>1
      <3>2. CASE k <= m
        <4>1. k \in 1 .. m /\ h[k] = f[k]
          BY <2>1, <3>2
        <4> QED
          BY <2>2, <3>1, <4>1 DEF Follows
      <3>3. CASE k = m + 1
        <4>1. k - 1 = m /\ h[k] = g[<<m + 1, f[m]>>]
          BY <2>1, <3>3
        <4> QED
          BY <3>1, <3>3, <4>1
      <3> QED
        BY <2>1, <3>2, <3>3
    <2>8. Follows(h, v, g, m + 1)
      BY <2>6, <2>7 DEF Follows
    <2> HIDE DEF h
    <2> QED
      BY <2>1, <2>5, <2>8
  <1>3. A \in SUBSET Nat
    OBVIOUS
  <1> HIDE DEF A
  <1>4. n \in A
    BY <1>1, <1>2, <1>3, Induct
  <1> QED
    BY <1>4 DEF A

-----------------------------------------------------------------------------
(* Sums of tokens.                                                         *)

\* A sequence of texts, each with its tokens.
Measured(sizes) == Len(sizes) \in Nat /\ \A k \in 1 .. Len(sizes) : sizes[k].size \in Nat

Sums(f, sizes, members) ==
  /\ f \in [0 .. Len(sizes) -> Nat]
  /\ f[0] = 0
  /\ \A k \in 1 .. Len(sizes) :
        f[k] = f[k - 1] + (IF k \in members THEN sizes[k].size ELSE 0)
  /\ SizeOf(sizes, members) = f[Len(sizes)]

\* SizeOf is a sum, place by place.
LEMMA SizeOfIsSum ==
  ASSUME NEW sizes, Measured(sizes), NEW members
  PROVE  \E f : Sums(f, sizes, members)
  <1> DEFINE n == Len(sizes)
             IsUpTo(f) == f = [k \in 0 .. n |-> IF k = 0 THEN 0
                                ELSE f[k - 1] + (IF k \in members THEN sizes[k].size ELSE 0)]
             upTo == CHOOSE f : IsUpTo(f)
             own(k) == IF k \in 1 .. n /\ k \in members THEN sizes[k].size ELSE 0
             g == [x \in Nat \X Nat |-> x[2] + own(x[1])]
  <1>1. n \in Nat /\ \A k \in 1 .. n : sizes[k].size \in Nat
    BY DEF Measured
  <1>2. \A k \in Nat : own(k) \in Nat
    BY <1>1
  <1> HIDE DEF own
  <1>3. g \in [Nat \X Nat -> Nat]
    BY <1>2
  <1>4. \A k \in Nat, x \in Nat : g[<<k, x>>] = x + own(k)
    OBVIOUS
  <1>5. \A k \in 1 .. n : own(k) = IF k \in members THEN sizes[k].size ELSE 0
    BY DEF own
  <1> HIDE DEF g, n
  <1>6. PICK f \in [0 .. n -> Nat] : Follows(f, 0, g, n)
    BY <1>1, <1>3, Recursion
  <1>7. \A k \in 1 .. n : k \in Nat /\ k - 1 \in 0 .. n /\ f[k - 1] \in Nat
    BY <1>1, <1>6
  <1>8. \A k \in 1 .. n : f[k] = f[k - 1] + (IF k \in members THEN sizes[k].size ELSE 0)
    BY <1>4, <1>5, <1>6, <1>7 DEF Follows
  <1>9. f[0] = 0
    BY <1>6 DEF Follows
  <1>10. IsUpTo(f)
    <2> DEFINE h == [k \in 0 .. n |-> IF k = 0 THEN 0
                       ELSE f[k - 1] + (IF k \in members THEN sizes[k].size ELSE 0)]
    <2>1. ASSUME NEW k \in 0 .. n
          PROVE  f[k] = h[k]
      <3>1. k = 0 \/ k \in 1 .. n
        BY <1>1
      <3> QED
        BY <1>8, <1>9, <3>1
    <2>2. f = h
      BY <1>6, <2>1
    <2> QED
      BY <2>2
  <1>11. SizeOf(sizes, members) = upTo[n]
    BY Zenon DEF SizeOf, n
  <1> HIDE DEF IsUpTo
  <1>12. IsUpTo(upTo)
    BY <1>10, Zenon
  <1> HIDE DEF upTo
  <1>13. upTo = [k \in 0 .. n |-> IF k = 0 THEN 0
                   ELSE upTo[k - 1] + (IF k \in members THEN sizes[k].size ELSE 0)]
    BY <1>12 DEF IsUpTo
  <1>14. upTo[0] = 0
    BY <1>1, <1>13
  <1>15. ASSUME NEW k \in 1 .. n
         PROVE  upTo[k] = upTo[k - 1] + (IF k \in members THEN sizes[k].size ELSE 0)
    <2>1. k \in 0 .. n /\ k # 0
      BY <1>1
    <2>2. upTo[k] = IF k = 0 THEN 0
                    ELSE upTo[k - 1] + (IF k \in members THEN sizes[k].size ELSE 0)
      BY <1>13, <2>1
    <2> QED
      BY <2>1, <2>2
  <1>16. upTo \in [0 .. n -> Nat]
    <2> DEFINE A == {k \in 0 .. n : upTo[k] \in Nat}
    <2>1. 0 \in A
      BY <1>1, <1>14
    <2>2. ASSUME NEW k \in 1 .. n, k - 1 \in A
          PROVE  k \in A
      <3>1. upTo[k - 1] \in Nat
        BY <2>2
      <3>2. sizes[k].size \in Nat
        BY <1>1
      <3>3. upTo[k] = upTo[k - 1] + (IF k \in members THEN sizes[k].size ELSE 0)
        BY <1>15
      <3>4. upTo[k] \in Nat
        BY <3>1, <3>2, <3>3
      <3> QED
        BY <1>1, <3>4
    <2> HIDE DEF A
    <2>3. A = 0 .. n
      <3>1. A \in SUBSET (0 .. n)
        BY DEF A
      <3> QED
        BY <1>1, <2>1, <2>2, <3>1, InductUpTo
    <2>4. \A k \in 0 .. n : upTo[k] \in Nat
      BY <2>3 DEF A
    <2> QED
      BY <1>13, <2>4
  <1> QED
    BY <1>11, <1>14, <1>15, <1>16 DEF Sums, n

\* The tokens of some texts are a number.
LEMMA SizeOfType ==
  ASSUME NEW sizes, Measured(sizes), NEW members
  PROVE  SizeOf(sizes, members) \in Nat
  <1>1. PICK f : Sums(f, sizes, members)
    BY SizeOfIsSum
  <1>2. Len(sizes) \in Nat
    BY DEF Measured
  <1> QED
    BY <1>1, <1>2 DEF Sums

\* More products are more tokens.
LEMMA MoreIsLarger ==
  ASSUME NEW sizes, Measured(sizes), NEW S, NEW T, S \subseteq T
  PROVE  SizeOf(sizes, S) <= SizeOf(sizes, T)
  <1>1. PICK f : Sums(f, sizes, S)
    BY SizeOfIsSum
  <1>2. PICK g : Sums(g, sizes, T)
    BY SizeOfIsSum
  <1> DEFINE n == Len(sizes)
             A == {k \in 0 .. n : f[k] <= g[k]}
  <1>3. n \in Nat /\ \A k \in 1 .. n : sizes[k].size \in Nat
    BY DEF Measured
  <1>4. /\ f \in [0 .. n -> Nat] /\ f[0] = 0 /\ SizeOf(sizes, S) = f[n]
        /\ \A k \in 1 .. n : f[k] = f[k - 1] + (IF k \in S THEN sizes[k].size ELSE 0)
    BY <1>1 DEF Sums
  <1>5. /\ g \in [0 .. n -> Nat] /\ g[0] = 0 /\ SizeOf(sizes, T) = g[n]
        /\ \A k \in 1 .. n : g[k] = g[k - 1] + (IF k \in T THEN sizes[k].size ELSE 0)
    BY <1>2 DEF Sums
  <1> HIDE DEF n
  <1>6. 0 \in A
    BY <1>3, <1>4, <1>5
  <1>7. ASSUME NEW k \in 1 .. n, k - 1 \in A
        PROVE  k \in A
    <2>1. f[k - 1] \in Nat /\ g[k - 1] \in Nat /\ f[k - 1] <= g[k - 1] /\ sizes[k].size \in Nat
      BY <1>3, <1>4, <1>5, <1>7
    <2>2. f[k] = f[k - 1] + (IF k \in S THEN sizes[k].size ELSE 0)
      BY <1>4
    <2>3. g[k] = g[k - 1] + (IF k \in T THEN sizes[k].size ELSE 0)
      BY <1>5
    <2>4. k \in S => k \in T
      OBVIOUS
    <2>5. f[k] <= g[k]
      BY <2>1, <2>2, <2>3, <2>4
    <2> QED
      BY <1>3, <2>5
  <1> HIDE DEF A
  <1>8. A = 0 .. n
    <2>1. A \in SUBSET (0 .. n)
      BY DEF A
    <2> QED
      BY <1>3, <1>6, <1>7, <2>1, InductUpTo
  <1>9. n \in A
    BY <1>3, <1>8
  <1>10. f[n] <= g[n]
    BY <1>9 DEF A
  <1> QED
    BY <1>4, <1>5, <1>10
-----------------------------------------------------------------------------
(* Bundles.                                                                *)

\* Products are a sequence, and name what came before them.
LEMMA WorksAre ==
  ASSUME NEW products \in Works
  PROVE  /\ Len(products) \in Nat /\ DOMAIN products = 1 .. Len(products)
         /\ \A i \in DOMAIN products :
              /\ products[i].size \in Nat
              /\ products[i].inputs \in SUBSET (0 .. Len(products))
         /\ Measured(products)
  <1>1. PICK n \in Nat : products \in ProductsOf(n)
    BY DEF Works
  <1> DEFINE Row == [kind: {"claim"} \cup Qualifications, inputs: SUBSET (0 .. n), size: Sizes]
  <1>2. products \in [1 .. n -> Row]
    BY <1>1 DEF ProductsOf
  <1>3. DOMAIN products = 1 .. n
    BY <1>2
  <1>4. products \in Seq(Row)
    <2> HIDE DEF Row
    <2> QED
      BY <1>2, SeqDef
  <1>5. Len(products) \in Nat /\ DOMAIN products = 1 .. Len(products)
    BY <1>4, LenProperties
  <1>6. Len(products) = n
    BY <1>3, <1>5
  <1>7. Sizes \subseteq Nat
    BY ContextAssumption
  <1>8. ASSUME NEW i \in DOMAIN products
        PROVE  products[i].size \in Nat /\ products[i].inputs \in SUBSET (0 .. n)
    <2>1. products[i] \in Row
      BY <1>2, <1>3
    <2> QED
      BY <2>1, <1>7
  <1> HIDE DEF Row
  <1> QED
    BY <1>3, <1>5, <1>6, <1>8 DEF Measured

\* What belongs to recorded products is recorded.
LEMMA RelatedType ==
  ASSUME NEW products \in Works, NEW found \in SUBSET DOMAIN products, NEW start
  PROVE  Related(products, found, start) \in SUBSET DOMAIN products
  <1>1. ASSUME NEW i \in found
        PROVE  Inputs(products, i) \cup Qualifiers(products, i) \subseteq DOMAIN products
    <2>1. products[i].inputs \in SUBSET (0 .. Len(products))
      BY WorksAre
    <2>2. Len(products) \in Nat /\ DOMAIN products = 1 .. Len(products)
      BY WorksAre
    <2>3. Inputs(products, i) \subseteq DOMAIN products
      BY <2>1, <2>2 DEF Inputs, Gone
    <2>4. Qualifiers(products, i) \subseteq DOMAIN products
      BY DEF Qualifiers
    <2> QED
      BY <2>3, <2>4
  <1> QED
    BY <1>1 DEF Related

\* Products are together if nothing related is missing.
LEMMA TogetherIs ==
  ASSUME NEW products, NEW S, NEW start
  PROVE  Together(products, S) <=> Related(products, S, start) \subseteq S
  BY DEF Together, Related

\* What is related to some of the products that are together is among them.
LEMMA RelatedInside ==
  ASSUME NEW products, NEW S, NEW T, NEW start, S \subseteq T, Together(products, T)
  PROVE  Related(products, S, start) \subseteq T
  BY DEF Together, Related

Rounds(f, products, start) ==
  /\ f \in [0 .. Len(products) -> SUBSET DOMAIN products]
  /\ f[0] = {start}
  /\ \A k \in 1 .. Len(products) : f[k] = f[k - 1] \cup Related(products, f[k - 1], start)
  /\ Bundle(products, start) = f[Len(products)]

\* A bundle is what its rounds have gathered.
LEMMA BundleIsRounds ==
  ASSUME NEW products \in Works, NEW start \in DOMAIN products
  PROVE  \E f : Rounds(f, products, start)
  <1> DEFINE n == Len(products)
             V == SUBSET DOMAIN products
             IsRound(f) == f = [k \in 0 .. n |-> IF k = 0 THEN {start}
                                  ELSE f[k - 1] \cup Related(products, f[k - 1], start)]
             round == CHOOSE f : IsRound(f)
             g == [x \in Nat \X V |-> x[2] \cup Related(products, x[2], start)]
  <1>1. n \in Nat
    BY WorksAre
  <1>2. {start} \in V
    OBVIOUS
  <1>3. \A x \in V : x \cup Related(products, x, start) \in V
    BY RelatedType
  <1>4. g \in [Nat \X V -> V] /\ \A k \in Nat, x \in V :
           g[<<k, x>>] = x \cup Related(products, x, start)
    <2>1. \A y \in Nat \X V : y[2] \in V
      OBVIOUS
    <2> HIDE DEF V
    <2> QED
      BY <1>3, <2>1
  <1> HIDE DEF g, n, V
  <1>5. PICK f \in [0 .. n -> V] : Follows(f, {start}, g, n)
    BY <1>1, <1>2, <1>4, Recursion
  <1>6. \A k \in 1 .. n : k \in Nat /\ k - 1 \in 0 .. n /\ f[k - 1] \in V
    BY <1>1, <1>5
  <1>7. \A k \in 1 .. n : f[k] = f[k - 1] \cup Related(products, f[k - 1], start)
    BY <1>4, <1>5, <1>6 DEF Follows
  <1>8. f[0] = {start}
    BY <1>5 DEF Follows
  <1>9. IsRound(f)
    <2> DEFINE h == [k \in 0 .. n |-> IF k = 0 THEN {start}
                       ELSE f[k - 1] \cup Related(products, f[k - 1], start)]
    <2>1. ASSUME NEW k \in 0 .. n
          PROVE  f[k] = h[k]
      <3>1. k = 0 \/ k \in 1 .. n
        BY <1>1
      <3> QED
        BY <1>7, <1>8, <3>1
    <2>2. f = h
      BY <1>5, <2>1
    <2> QED
      BY <2>2
  <1>10. Bundle(products, start) = round[n]
    BY Zenon DEF Bundle, n
  <1> HIDE DEF IsRound
  <1>11. IsRound(round)
    BY <1>9, Zenon
  <1> HIDE DEF round
  <1>12. round = [k \in 0 .. n |-> IF k = 0 THEN {start}
                    ELSE round[k - 1] \cup Related(products, round[k - 1], start)]
    BY <1>11 DEF IsRound
  <1>13. round[0] = {start}
    BY <1>1, <1>12
  <1>14. ASSUME NEW k \in 1 .. n
         PROVE  round[k] = round[k - 1] \cup Related(products, round[k - 1], start)
    <2>1. k \in 0 .. n /\ k # 0
      BY <1>1
    <2>2. round[k] = IF k = 0 THEN {start}
                     ELSE round[k - 1] \cup Related(products, round[k - 1], start)
      BY <1>12, <2>1
    <2> QED
      BY <2>1, <2>2
  <1>15. round \in [0 .. n -> V]
    <2> DEFINE A == {k \in 0 .. n : round[k] \in V}
    <2>1. 0 \in A
      <3>1. round[0] \in V
        BY <1>2, <1>13, Zenon
      <3>2. 0 \in 0 .. n
        BY <1>1
      <3> QED
        BY <3>1, <3>2
    <2>2. ASSUME NEW k \in 1 .. n, k - 1 \in A
          PROVE  k \in A
      BY <1>1, <1>3, <1>14, <2>2
    <2>3. A \in SUBSET (0 .. n)
      OBVIOUS
    <2> HIDE DEF A
    <2>4. A = 0 .. n
      BY <1>1, <2>1, <2>2, <2>3, InductUpTo
    <2>5. \A k \in 0 .. n : round[k] \in V
      BY <2>4 DEF A
    <2> QED
      BY <1>12, <2>5
  <1> QED
    BY <1>10, <1>13, <1>14, <1>15 DEF Rounds, n, V

\* A bundle is closed, and no smaller closed set has the product it starts from.
LEMMA BundleIsClosure ==
  ASSUME NEW products \in Works, NEW start \in DOMAIN products
  PROVE  /\ Bundle(products, start) \in SUBSET DOMAIN products
         /\ start \in Bundle(products, start)
         /\ Together(products, Bundle(products, start))
         /\ \A T : start \in T /\ Together(products, T) => Bundle(products, start) \subseteq T
  <1>1. PICK f : Rounds(f, products, start)
    BY BundleIsRounds
  <1> DEFINE n == Len(products)
  <1>2. n \in Nat /\ DOMAIN products = 1 .. n
    BY WorksAre
  <1>3. /\ f \in [0 .. n -> SUBSET DOMAIN products] /\ f[0] = {start}
        /\ Bundle(products, start) = f[n]
        /\ \A k \in 1 .. n : f[k] = f[k - 1] \cup Related(products, f[k - 1], start)
    BY <1>1 DEF Rounds
  <1> HIDE DEF n
  <1>4. \A k \in 0 .. n : IsFiniteSet(f[k]) /\ Cardinality(f[k]) \in Nat /\ Cardinality(f[k]) <= n
    <2>1. IsFiniteSet(1 .. n) /\ Cardinality(1 .. n) <= n
      BY <1>2, FS_Interval
    <2>2. \A k \in 0 .. n : f[k] \in SUBSET (1 .. n)
      BY <1>2, <1>3
    <2>3. \A k \in 0 .. n : IsFiniteSet(f[k]) /\ Cardinality(f[k]) <= Cardinality(1 .. n)
      BY <2>1, <2>2, FS_Subset
    <2>4. Cardinality(1 .. n) \in Nat
      BY <2>1, FS_CardinalityType
    <2>5. \A k \in 0 .. n : Cardinality(f[k]) \in Nat
      BY <2>3, FS_CardinalityType
    <2> QED
      BY <1>2, <2>1, <2>3, <2>4, <2>5
  <1>5. \A k \in 1 .. n : k - 1 \in 0 .. n /\ k \in 0 .. n
    BY <1>2
  <1>6. start \in f[n]
    <2> DEFINE A == {k \in 0 .. n : start \in f[k]}
    <2>1. 0 \in A
      BY <1>2, <1>3
    <2>2. ASSUME NEW k \in 1 .. n, k - 1 \in A
          PROVE  k \in A
      BY <1>3, <1>5, <2>2
    <2>3. A \in SUBSET (0 .. n)
      OBVIOUS
    <2> HIDE DEF A
    <2>4. A = 0 .. n
      BY <1>2, <2>1, <2>2, <2>3, InductUpTo
    <2> QED
      BY <1>2, <2>4 DEF A
  <1>7. Together(products, f[n])
    <2> DEFINE A == {k \in 0 .. n : Cardinality(f[k]) >= k + 1 \/ Together(products, f[k])}
    <2>1. 0 \in A
      <3>1. Cardinality(f[0]) = 1
        BY <1>3, FS_Singleton
      <3> QED
        BY <1>2, <3>1
    <2>2. ASSUME NEW k \in 1 .. n, k - 1 \in A
          PROVE  k \in A
      <3>1. f[k] = f[k - 1] \cup Related(products, f[k - 1], start)
        BY <1>3
      <3>2. CASE Together(products, f[k - 1])
        <4>1. f[k] = f[k - 1]
          BY <3>1, <3>2, TogetherIs
        <4> QED
          BY <1>5, <3>2, <4>1
      <3>3. CASE ~Together(products, f[k - 1])
        <4>1. Cardinality(f[k - 1]) >= k
          <5>1. Cardinality(f[k - 1]) >= (k - 1) + 1
            BY <2>2, <3>3
          <5>2. (k - 1) + 1 = k
            BY <1>2
          <5> QED
            BY <5>1, <5>2
        <4>2. PICK x \in Related(products, f[k - 1], start) : x \notin f[k - 1]
          BY <3>3, TogetherIs
        <4> DEFINE C == f[k - 1] \cup {x}
        <4>3. Cardinality(C) = Cardinality(f[k - 1]) + 1 /\ IsFiniteSet(C)
          BY <1>4, <1>5, <4>2, FS_AddElement
        <4>4. C \in SUBSET f[k]
          BY <3>1
        <4>5. Cardinality(C) <= Cardinality(f[k])
          BY <1>4, <1>5, <4>4, FS_Subset
        <4>6. Cardinality(f[k]) >= k + 1
          BY <1>4, <1>5, <4>1, <4>3, <4>5
        <4> QED
          BY <1>5, <4>6
      <3> QED
        BY <3>2, <3>3
    <2>3. A \in SUBSET (0 .. n)
      OBVIOUS
    <2> HIDE DEF A
    <2>4. A = 0 .. n
      BY <1>2, <2>1, <2>2, <2>3, InductUpTo
    <2>5. Cardinality(f[n]) >= n + 1 \/ Together(products, f[n])
      BY <1>2, <2>4 DEF A
    <2>6. n \in 0 .. n
      BY <1>2
    <2> QED
      BY <1>2, <1>4, <2>5, <2>6
  <1>8. ASSUME NEW T, start \in T, Together(products, T)
        PROVE  f[n] \subseteq T
    <2> DEFINE A == {k \in 0 .. n : f[k] \subseteq T}
    <2>1. 0 \in A
      BY <1>2, <1>3, <1>8
    <2>2. ASSUME NEW k \in 1 .. n, k - 1 \in A
          PROVE  k \in A
      <3>1. f[k - 1] \subseteq T
        BY <2>2
      <3>2. Related(products, f[k - 1], start) \subseteq T
        BY <1>8, <3>1, RelatedInside
      <3> QED
        BY <1>3, <1>5, <3>1, <3>2
    <2>3. A \in SUBSET (0 .. n)
      OBVIOUS
    <2> HIDE DEF A
    <2>4. A = 0 .. n
      BY <1>2, <2>1, <2>2, <2>3, InductUpTo
    <2> QED
      BY <1>2, <2>4 DEF A
  <1>9. f[n] \in SUBSET DOMAIN products
    BY <1>2, <1>3
  <1> QED
    BY <1>3, <1>6, <1>7, <1>8, <1>9

\* What is required is the least closed set with the required products.
LEMMA RequiredIsClosure ==
  ASSUME NEW products \in Works
  PROVE  /\ RequiredWork(products) \in SUBSET DOMAIN products
         /\ Required(products) \subseteq RequiredWork(products)
         /\ Together(products, RequiredWork(products))
         /\ \A T : Required(products) \subseteq T /\ Together(products, T)
                      => RequiredWork(products) \subseteq T
  <1>1. RequiredWork(products) = UNION {Bundle(products, i) : i \in Required(products)}
    BY DEF RequiredWork, Required
  <1>2. Required(products) \subseteq DOMAIN products
    BY DEF Required
  <1>3. \A i \in Required(products) :
          /\ Bundle(products, i) \in SUBSET DOMAIN products
          /\ i \in Bundle(products, i)
          /\ Together(products, Bundle(products, i))
          /\ \A T : i \in T /\ Together(products, T) => Bundle(products, i) \subseteq T
    BY <1>2, BundleIsClosure
  <1>4. Together(products, RequiredWork(products))
    BY <1>1, <1>3 DEF Together
  <1> QED
    BY <1>1, <1>3, <1>4
-----------------------------------------------------------------------------
(* Additions.                                                              *)

Kept(U) == [tokens: Nat, kept: SUBSET U]
Offers(U, sizes) == [1 .. Len(sizes) -> SUBSET U]

\* What one place adds to what is there.
Grown(d, k, entry, sizes, offers, required) ==
  LET addition == offers[Len(sizes) + 1 - k] \ d.kept
  IN  Keep(Keep(d, entry, {}, required), SizeOf(sizes, addition), addition, required)

\* e is d, or d with an addition that fits.
Fitting(d, e, required) ==
  e.tokens >= d.tokens /\ (e.tokens = d.tokens \/ Fits(e.tokens, required))

\* Two additions, one after the other, are an addition.
LEMMA FittingOn ==
  ASSUME NEW U, NEW c \in Kept(U), NEW d \in Kept(U), NEW e \in Kept(U), NEW required,
         Fitting(c, d, required), Fitting(d, e, required)
  PROVE  Fitting(c, e, required)
  <1>1. c.tokens \in Nat /\ d.tokens \in Nat /\ e.tokens \in Nat
    BY DEF Kept
  <1>2. c.tokens <= d.tokens /\ d.tokens <= e.tokens
    BY DEF Fitting
  <1>3. e.tokens >= c.tokens
    BY <1>1, <1>2
  <1>4. e.tokens = c.tokens \/ Fits(e.tokens, required)
    BY Zenon DEF Fitting
  <1> QED
    BY <1>3, <1>4 DEF Fitting

\* An addition is kept and fits, or changes nothing (optional_fits).
LEMMA KeepFits ==
  ASSUME NEW U, NEW d \in Kept(U), NEW size \in Nat, NEW addition \in SUBSET U, NEW required,
         NEW e, e = Keep(d, size, addition, required)
  PROVE  /\ e \in Kept(U)
         /\ e.kept = d.kept \/ e.kept = d.kept \cup addition
         /\ Fitting(d, e, required)
  <1>1. d.tokens \in Nat /\ d.kept \in SUBSET U
    BY DEF Kept
  <1>2. d.tokens + size \in Nat /\ d.kept \cup addition \in SUBSET U
    BY <1>1
  <1> DEFINE more == [tokens |-> d.tokens + size, kept |-> d.kept \cup addition]
  <1>3. more \in Kept(U) /\ more.tokens = d.tokens + size /\ more.kept = d.kept \cup addition
    BY <1>2 DEF Kept
  <1> HIDE DEF more
  <1>4. CASE Fits(d.tokens + size, required)
    <2>1. e = more
      BY <1>4 DEF Keep, more
    <2>2. e.tokens >= d.tokens
      BY <1>1, <1>3, <2>1
    <2> QED
      BY <1>3, <1>4, <2>1, <2>2 DEF Fitting
  <1>5. CASE ~Fits(d.tokens + size, required)
    <2>1. e = d
      BY <1>5 DEF Keep
    <2>2. d.tokens >= d.tokens
      BY <1>1
    <2> QED
      BY <2>1, <2>2 DEF Fitting
  <1> QED
    BY <1>4, <1>5

\* What place k adds is all of what it offers, or nothing.
LEMMA GrownFits ==
  ASSUME NEW U, NEW d \in Kept(U), NEW entry \in Nat, NEW sizes, Measured(sizes),
         NEW offers \in Offers(U, sizes), NEW k \in 1 .. Len(sizes), NEW required,
         NEW e, e = Grown(d, k, entry, sizes, offers, required)
  PROVE  /\ e \in Kept(U)
         /\ e.kept = d.kept \/ e.kept = d.kept \cup offers[Len(sizes) + 1 - k]
         /\ Fitting(d, e, required)
         /\ Len(sizes) + 1 - k \in 1 .. Len(sizes)
  <1> DEFINE offer == offers[Len(sizes) + 1 - k]
             addition == offer \ d.kept
             size == SizeOf(sizes, addition)
             nothing == {}
             c == Keep(d, entry, nothing, required)
  <1>1. Len(sizes) + 1 - k \in 1 .. Len(sizes)
    BY DEF Measured
  <1>2. offer \in SUBSET U
    BY <1>1 DEF Offers
  <1>3. size \in Nat
    BY SizeOfType
  <1>4. e = Keep(c, size, addition, required)
    BY DEF Grown
  <1> HIDE DEF size
  <1>5. c \in Kept(U) /\ c.kept = d.kept /\ Fitting(d, c, required)
    <2>1. nothing \in SUBSET U /\ \A x : x \cup nothing = x
      OBVIOUS
    <2> HIDE DEF nothing
    <2>2. /\ c \in Kept(U) /\ (c.kept = d.kept \/ c.kept = d.kept \cup nothing)
          /\ Fitting(d, c, required)
      BY <2>1, KeepFits
    <2> QED
      BY <2>1, <2>2
  <1> HIDE DEF c, offer
  <1>6. addition \in SUBSET U
    BY <1>2
  <1>7. d.kept \cup addition = d.kept \cup offer
    OBVIOUS
  <1> HIDE DEF addition
  <1>8. /\ e \in Kept(U) /\ (e.kept = c.kept \/ e.kept = c.kept \cup addition)
        /\ Fitting(c, e, required)
    BY <1>3, <1>4, <1>5, <1>6, KeepFits
  <1>9. Fitting(d, e, required)
    BY <1>5, <1>8, FittingOn
  <1> QED
    BY <1>1, <1>5, <1>7, <1>8, <1>9 DEF offer

Additions(f, m, U, from, entry, sizes, offers, window, required) ==
  /\ m \in 0 .. Len(sizes)
  /\ f \in [0 .. m -> Kept(U)]
  /\ f[0] = from
  /\ \A k \in 1 .. m : f[k] = Grown(f[k - 1], k, entry, sizes, offers, required)
  /\ Accumulate(from, entry, sizes, offers, window, required) = f[m]

\* Accumulate is one addition after the other.
LEMMA AccumulateIsAdditions ==
  ASSUME NEW U, NEW from \in Kept(U), NEW entry \in Nat, NEW sizes, Measured(sizes),
         NEW offers \in Offers(U, sizes), NEW window \in Nat, NEW required
  PROVE  \E f, m : Additions(f, m, U, from, entry, sizes, offers, window, required)
  <1> DEFINE n == Len(sizes)
             m == Smaller(window, n)
             V == Kept(U)
             own(d, k) == Grown(d, k, entry, sizes, offers, required)
             IsDone(f) == f = [k \in 0 .. m |-> IF k = 0 THEN from ELSE own(f[k - 1], k)]
             done == CHOOSE f : IsDone(f)
             g == [x \in Nat \X V |-> IF x[1] \in 1 .. m THEN own(x[2], x[1]) ELSE from]
  <1>1. n \in Nat
    BY DEF Measured
  <1>2. m \in Nat /\ m <= n
    BY <1>1 DEF Smaller
  <1>3. \A k \in 1 .. m, d \in V : own(d, k) \in V
    <2>1. \A k \in 1 .. m : k \in 1 .. Len(sizes)
      BY <1>1, <1>2
    <2> HIDE DEF m
    <2> QED
      BY <2>1, GrownFits
  <1>4. Accumulate(from, entry, sizes, offers, window, required) = done[m]
    BY Zenon DEF Accumulate, Grown
  <1> HIDE DEF own, m, V
  <1>5. g \in [Nat \X V -> V] /\ \A k \in 1 .. m, d \in V : g[<<k, d>>] = own(d, k)
    <2>1. \A y \in Nat \X V : y[2] \in V
      OBVIOUS
    <2>2. from \in V
      BY DEF V
    <2>3. \A k \in 1 .. m : k \in Nat
      OBVIOUS
    <2> QED
      BY <1>3, <2>1, <2>2, <2>3
  <1> HIDE DEF g, n
  <1>6. PICK f \in [0 .. m -> V] : Follows(f, from, g, m)
    BY <1>2, <1>5, Recursion DEF V
  <1>7. \A k \in 1 .. m : k - 1 \in 0 .. m /\ f[k - 1] \in V
    BY <1>2, <1>6
  <1>8. \A k \in 1 .. m : f[k] = own(f[k - 1], k)
    BY <1>5, <1>6, <1>7 DEF Follows
  <1>9. f[0] = from
    BY <1>6 DEF Follows
  <1>10. IsDone(f)
    <2> DEFINE h == [k \in 0 .. m |-> IF k = 0 THEN from ELSE own(f[k - 1], k)]
    <2>1. ASSUME NEW k \in 0 .. m
          PROVE  f[k] = h[k]
      <3>1. k = 0 \/ k \in 1 .. m
        BY <1>2
      <3> QED
        BY <1>8, <1>9, <3>1
    <2>2. f = h
      BY <1>6, <2>1
    <2> QED
      BY <2>2
  <1> HIDE DEF IsDone
  <1>11. IsDone(done)
    BY <1>10, Zenon
  <1> HIDE DEF done
  <1>12. done = [k \in 0 .. m |-> IF k = 0 THEN from ELSE own(done[k - 1], k)]
    BY <1>11 DEF IsDone
  <1>13. done[0] = from
    BY <1>2, <1>12
  <1>14. ASSUME NEW k \in 1 .. m
         PROVE  done[k] = own(done[k - 1], k)
    <2>1. k \in 0 .. m /\ k # 0
      BY <1>2
    <2>2. done[k] = IF k = 0 THEN from ELSE own(done[k - 1], k)
      BY <1>12, <2>1
    <2> QED
      BY <2>1, <2>2
  <1>15. done \in [0 .. m -> V]
    <2> DEFINE A == {k \in 0 .. m : done[k] \in V}
    <2>1. 0 \in A
      <3>1. done[0] \in V
        BY <1>13 DEF V
      <3>2. 0 \in 0 .. m
        BY <1>2
      <3> QED
        BY <3>1, <3>2
    <2>2. ASSUME NEW k \in 1 .. m, k - 1 \in A
          PROVE  k \in A
      <3>1. done[k] \in V
        BY <1>3, <1>14, <2>2
      <3>2. k \in 0 .. m
        BY <1>2
      <3> QED
        BY <3>1, <3>2
    <2>3. A \in SUBSET (0 .. m)
      OBVIOUS
    <2> HIDE DEF A
    <2>4. A = 0 .. m
      BY <1>2, <2>1, <2>2, <2>3, InductUpTo
    <2>5. \A k \in 0 .. m : done[k] \in V
      BY <2>4 DEF A
    <2> QED
      BY <1>12, <2>5
  <1>16. m \in 0 .. Len(sizes)
    BY <1>1, <1>2 DEF n
  <1>17. Additions(done, m, U, from, entry, sizes, offers, window, required)
    BY <1>4, <1>13, <1>14, <1>15, <1>16 DEF Additions, own, V
  <1> QED
    BY <1>17

\* What is in F from the beginning, with every offer, and with two of its members.
Suits(from, sizes, offers, F) ==
  /\ from.kept \in F
  /\ \A i \in 1 .. Len(sizes) : offers[i] \in F
  /\ \A S, T \in F : S \cup T \in F
Empty(tokens) == [tokens |-> tokens, kept |-> {}]

\* Whatever is true of what there was and of every offer, and of two that are
\* taken together, is true of what is kept; and all of it fits.
LEMMA AccumulateKeeps ==
  ASSUME NEW U, NEW from \in Kept(U), NEW entry \in Nat, NEW sizes, Measured(sizes),
         NEW offers \in Offers(U, sizes), NEW window \in Nat, NEW required,
         NEW F, Suits(from, sizes, offers, F),
         NEW e, e = Accumulate(from, entry, sizes, offers, window, required)
  PROVE  /\ e \in Kept(U)
         /\ from.kept \subseteq e.kept /\ e.kept \in F
         /\ Fitting(from, e, required)
  <1>1. PICK f, m : Additions(f, m, U, from, entry, sizes, offers, window, required)
    BY AccumulateIsAdditions
  <1>2. /\ m \in 0 .. Len(sizes) /\ f \in [0 .. m -> Kept(U)] /\ f[0] = from
        /\ \A k \in 1 .. m : f[k] = Grown(f[k - 1], k, entry, sizes, offers, required)
        /\ Accumulate(from, entry, sizes, offers, window, required) = f[m]
    BY <1>1 DEF Additions
  <1>3. Len(sizes) \in Nat /\ m \in Nat /\ m <= Len(sizes)
    BY <1>2 DEF Measured
  <1> DEFINE Good(d) == from.kept \subseteq d.kept /\ d.kept \in F /\ Fitting(from, d, required)
             A == {k \in 0 .. m : Good(f[k])}
  <1>4. 0 \in A
    <2>1. from.tokens \in Nat
      BY DEF Kept
    <2>2. Fitting(from, f[0], required)
      BY <1>2, <2>1 DEF Fitting
    <2>3. Good(f[0])
      BY <1>2, <2>2 DEF Suits
    <2> QED
      BY <1>3, <2>3
  <1>5. ASSUME NEW k \in 1 .. m, k - 1 \in A
        PROVE  k \in A
    <2> DEFINE d == f[k - 1]
               offer == offers[Len(sizes) + 1 - k]
    <2>1. k \in 1 .. Len(sizes) /\ k \in 0 .. m /\ k - 1 \in 0 .. m
      BY <1>3
    <2>2. d \in Kept(U) /\ Good(d)
      BY <1>2, <1>5, <2>1
    <2>3. f[k] = Grown(d, k, entry, sizes, offers, required)
      BY <1>2
    <2> HIDE DEF d, Good
    <2>4. /\ f[k].kept = d.kept \/ f[k].kept = d.kept \cup offer
          /\ Fitting(d, f[k], required)
          /\ Len(sizes) + 1 - k \in 1 .. Len(sizes)
      BY <2>1, <2>2, <2>3, GrownFits
    <2>5. offer \in F
      BY <2>4 DEF Suits
    <2>6. from.kept \subseteq d.kept /\ d.kept \in F /\ Fitting(from, d, required)
      BY <2>2 DEF Good
    <2>7. d.kept \cup offer \in F
      BY <2>5, <2>6 DEF Suits
    <2>8. Fitting(from, f[k], required)
      <3>1. f[k] \in Kept(U)
        BY <1>2, <2>1
      <3> QED
        BY <2>2, <2>4, <2>6, <3>1, FittingOn
    <2>9. Good(f[k])
      BY <2>4, <2>6, <2>7, <2>8 DEF Good
    <2> QED
      BY <2>1, <2>9
  <1>6. A \in SUBSET (0 .. m)
    OBVIOUS
  <1> HIDE DEF A
  <1>7. A = 0 .. m
    BY <1>3, <1>4, <1>5, <1>6, InductUpTo
  <1>8. m \in 0 .. m
    BY <1>3
  <1>9. Good(f[m]) /\ f[m] \in Kept(U)
    BY <1>2, <1>7, <1>8 DEF A
  <1> QED
    BY <1>2, <1>9

\* Places one by one, of which nothing is there yet.
LEMMA PlacesFit ==
  ASSUME NEW sizes, Measured(sizes), NEW tokens \in Nat, NEW entry \in Nat,
         NEW offers \in Offers(Nat, sizes), NEW window \in Nat, NEW required, NEW e,
         e = Accumulate(Empty(tokens), entry, sizes, offers, window, required)
  PROVE  /\ e.tokens \in Nat /\ e.kept \in SUBSET Nat
         /\ e.tokens >= tokens /\ (e.tokens = tokens \/ Fits(e.tokens, required))
  <1> DEFINE from == Empty(tokens)
             N == Nat
             F == SUBSET N
  <1>1. from \in Kept(N) /\ from.kept \in F /\ from.tokens = tokens
    BY DEF Kept, Empty
  <1>2. \A i \in 1 .. Len(sizes) : offers[i] \in F
    BY DEF Offers
  <1>3. \A S, T \in F : S \cup T \in F
    OBVIOUS
  <1>4. offers \in Offers(N, sizes) /\ Suits(from, sizes, offers, F)
    BY <1>1, <1>2, <1>3 DEF Suits
  <1> HIDE DEF from, F, N
  <1>5. e = Accumulate(from, entry, sizes, offers, window, required)
    BY DEF from
  <1>6. e \in Kept(N) /\ Fitting(from, e, required)
    BY <1>1, <1>4, <1>5, AccumulateKeeps
  <1> QED
    BY <1>1, <1>6 DEF Kept, Fitting, N

\* Places one by one are offers.
LEMMA SinglesAreOffers ==
  ASSUME NEW s, DOMAIN s = 1 .. Len(s), Len(s) \in Nat
  PROVE  Singles(s) \in Offers(Nat, s)
  BY DEF Singles, Offers

\* Invocations are a sequence, and so are the receipts of each.
LEMMA InvocationsAre ==
  ASSUME NEW previous \in Invocations
  PROVE  /\ Len(previous) \in Nat /\ DOMAIN previous = 1 .. Len(previous)
         /\ Measured(previous)
         /\ \A i \in 1 .. Len(previous) :
              LET receipts == previous[i].receipts
              IN  /\ Len(receipts) \in Nat /\ DOMAIN receipts = 1 .. Len(receipts)
                  /\ Measured(receipts)
  <1> DEFINE Row == [size: Sizes, receipts: Receipts]
  <1>1. \E n \in Nat : previous \in [1 .. n -> Row]
    <2>1. PICK n \in 0 .. MaxInvocations : previous \in [1 .. n -> Row]
      BY Zenon DEF Invocations
    <2>2. n \in Nat
      BY ContextAssumption
    <2> QED
      BY <2>1, <2>2
  <1>2. \A r \in Row : r.size \in Nat /\ r.receipts \in Receipts
    BY ContextAssumption
  <1> HIDE DEF Row
  <1>3. previous \in Seq(Row)
    BY <1>1, SeqDef
  <1>4. Len(previous) \in Nat /\ DOMAIN previous = 1 .. Len(previous)
    BY <1>3, LenProperties
  <1>5. \A i \in 1 .. Len(previous) : previous[i] \in Row
    BY <1>1, <1>4
  <1>6. ASSUME NEW receipts \in Receipts
        PROVE  /\ Len(receipts) \in Nat /\ DOMAIN receipts = 1 .. Len(receipts)
               /\ Measured(receipts)
    <2>1. CASE receipts = <<>>
      BY <2>1 DEF Measured
    <2>2. CASE \E k \in Sizes : receipts = <<[size |-> k]>>
      <3>1. PICK k \in Sizes : receipts = <<[size |-> k]>>
        BY <2>2
      <3>2. k \in Nat
        BY ContextAssumption
      <3>3. Len(receipts) = 1 /\ DOMAIN receipts = 1 .. 1 /\ receipts[1] = [size |-> k]
        BY <3>1
      <3> QED
        BY <3>2, <3>3 DEF Measured
    <2> QED
      BY <2>1, <2>2 DEF Receipts
  <1> QED
    BY <1>2, <1>4, <1>5, <1>6 DEF Measured

\* The receipts of invocations are additions like any other.
LEMMA ReceiptsFit ==
  ASSUME NEW previous \in Invocations, NEW tokens \in Nat, NEW required, NEW e,
         e = AfterReceipts(tokens, previous, required)
  PROVE  e \in Nat /\ e >= tokens /\ (e = tokens \/ Fits(e, required))
  <1> DEFINE n == Len(previous)
             m == Smaller(ObservedWindow, n)
             own(t, k) ==
                LET receipts == previous[n + 1 - k].receipts
                IN  Accumulate([tokens |-> t, kept |-> {}], 1, receipts,
                               Singles(receipts), ReceiptWindow, required).tokens
             IsAfter(f) == f = [k \in 0 .. m |-> IF k = 0 THEN tokens ELSE own(f[k - 1], k)]
             after == CHOOSE f : IsAfter(f)
             g == [x \in Nat \X Nat |-> IF x[1] \in 1 .. m THEN own(x[2], x[1]) ELSE 0]
  <1>1. n \in Nat
    BY InvocationsAre
  <1>2. m \in Nat /\ m <= n
    BY <1>1, ContextAssumption DEF Smaller
  <1> HIDE DEF m
  <1>3. ASSUME NEW k \in 1 .. m, NEW t \in Nat
        PROVE  /\ own(t, k) \in Nat /\ own(t, k) >= t
               /\ own(t, k) = t \/ Fits(own(t, k), required)
    <2> DEFINE receipts == previous[n + 1 - k].receipts
               c == Accumulate(Empty(t), 1, receipts,
                               Singles(receipts), ReceiptWindow, required)
    <2>1. n + 1 - k \in 1 .. n
      BY <1>1, <1>2
    <2>2. Len(receipts) \in Nat /\ DOMAIN receipts = 1 .. Len(receipts) /\ Measured(receipts)
      BY <2>1, InvocationsAre
    <2>3. ReceiptWindow \in Nat /\ 1 \in Nat
      BY ContextAssumption
    <2> HIDE DEF receipts, n
    <2>4. Singles(receipts) \in Offers(Nat, receipts)
      BY <2>2, SinglesAreOffers
    <2>5. c.tokens \in Nat /\ c.tokens >= t /\ (c.tokens = t \/ Fits(c.tokens, required))
      BY <2>2, <2>3, <2>4, PlacesFit
    <2> QED
      BY <2>5 DEF receipts, n, Empty
  <1>4. e = after[m]
    BY Zenon DEF AfterReceipts, m
  <1> HIDE DEF own, n
  <1>5. g \in [Nat \X Nat -> Nat] /\ \A k \in 1 .. m, t \in Nat : g[<<k, t>>] = own(t, k)
    BY <1>3
  <1> HIDE DEF g
  <1>6. PICK f \in [0 .. m -> Nat] : Follows(f, tokens, g, m)
    BY <1>2, <1>5, Recursion
  <1>7. \A k \in 1 .. m : k - 1 \in 0 .. m /\ f[k - 1] \in Nat
    BY <1>2, <1>6
  <1>8. \A k \in 1 .. m : f[k] = own(f[k - 1], k)
    BY <1>5, <1>6, <1>7 DEF Follows
  <1>9. f[0] = tokens
    BY <1>6 DEF Follows
  <1>10. IsAfter(f)
    <2> DEFINE h == [k \in 0 .. m |-> IF k = 0 THEN tokens ELSE own(f[k - 1], k)]
    <2>1. ASSUME NEW k \in 0 .. m
          PROVE  f[k] = h[k]
      <3>1. k = 0 \/ k \in 1 .. m
        BY <1>2
      <3> QED
        BY <1>8, <1>9, <3>1
    <2>2. f = h
      BY <1>6, <2>1
    <2> QED
      BY <2>2
  <1> HIDE DEF IsAfter
  <1>11. IsAfter(after)
    BY <1>10, Zenon
  <1> HIDE DEF after
  <1>12. after = [k \in 0 .. m |-> IF k = 0 THEN tokens ELSE own(after[k - 1], k)]
    BY <1>11 DEF IsAfter
  <1> DEFINE Good(t) == t \in Nat /\ t >= tokens /\ (t = tokens \/ Fits(t, required))
             A == {k \in 0 .. m : Good(after[k])}
  <1>13. 0 \in A
    <2>1. after[0] = tokens /\ 0 \in 0 .. m
      BY <1>2, <1>12
    <2> QED
      BY <2>1
  <1>14. ASSUME NEW k \in 1 .. m, k - 1 \in A
         PROVE  k \in A
    <2>1. k \in 0 .. m /\ k # 0
      BY <1>2
    <2>2. after[k] = IF k = 0 THEN tokens ELSE own(after[k - 1], k)
      BY <1>12, <2>1
    <2>3. after[k] = own(after[k - 1], k)
      BY <2>1, <2>2
    <2>4. Good(after[k - 1])
      BY <1>14
    <2>5. /\ after[k] \in Nat /\ after[k] >= after[k - 1]
          /\ after[k] = after[k - 1] \/ Fits(after[k], required)
      BY <1>3, <2>3, <2>4
    <2>6. Good(after[k])
      BY <2>4, <2>5
    <2> QED
      BY <2>1, <2>6
  <1>15. A \in SUBSET (0 .. m)
    OBVIOUS
  <1> HIDE DEF A
  <1>16. A = 0 .. m
    BY <1>2, <1>13, <1>14, <1>15, InductUpTo
  <1>17. m \in 0 .. m
    BY <1>2
  <1> QED
    BY <1>4, <1>16, <1>17 DEF A

-----------------------------------------------------------------------------
(* The context as it is compiled.                                          *)

\* A compiled context is admitted, closed, and beyond what is required only
\* within the target.
LEMMA CompiledIsQualified ==
  ASSUME goalWork \in [products: Works, invocations: Invocations],
         budget \in [limit: Nat, target: Nat]
  PROVE  LET products == goalWork.products
             start == RequestSize + SizeOf(products, RequiredWork(products))
         IN  IF ~Admitted(start) THEN Compiled = [at |-> "refused"]
             ELSE /\ Compiled \in ContextRow
                  /\ Compiled.at = "open" /\ Compiled.turns = 0 /\ Compiled.required = start
                  /\ Admitted(Compiled.tokens)
                  /\ Compiled.tokens >= start
                  /\ Compiled.tokens = start \/ Fits(Compiled.tokens, start)
                  /\ Required(products) \subseteq Compiled.work
                  /\ Compiled.work \subseteq DOMAIN products
                  /\ Together(products, Compiled.work)
  <1> DEFINE products == goalWork.products
             previous == goalWork.invocations
             required == RequiredWork(products)
             start == RequestSize + SizeOf(products, required)
             bundles == [i \in DOMAIN products |-> Bundle(products, i)]
             work == Accumulate([tokens |-> start, kept |-> required], 0, products,
                         bundles, WorkWindow, start)
             observed == Accumulate([tokens |-> work.tokens, kept |-> {}], 0, previous,
                             Singles(previous), ObservedWindow, start)
             after == AfterReceipts(observed.tokens, previous, start)
             entries == [i \in DOMAIN products |-> [size |-> 1]]
             unseen == [i \in DOMAIN products |-> {i} \ work.kept]
             listed == Accumulate([tokens |-> after, kept |-> {}], 0, entries,
                           unseen, DirectoryWindow, start)
  <1>1. products \in Works /\ previous \in Invocations
    OBVIOUS
  <1>2. /\ WorkWindow \in Nat /\ ObservedWindow \in Nat /\ DirectoryWindow \in Nat
        /\ RequestSize \in Nat /\ 0 \in Nat
    BY ContextAssumption
  <1>3. /\ Len(products) \in Nat /\ DOMAIN products = 1 .. Len(products) /\ Measured(products)
        /\ Len(previous) \in Nat /\ DOMAIN previous = 1 .. Len(previous) /\ Measured(previous)
    BY <1>1, WorksAre, InvocationsAre
  <1>4. Compiled = IF ~Admitted(start) THEN [at |-> "refused"]
                   ELSE [at |-> "open", work |-> work.kept, observed |-> observed.kept,
                         listed |-> listed.kept, tokens |-> listed.tokens,
                         required |-> start, turns |-> 0]
    BY DEF Compiled
  <1> HIDE DEF products, previous
  <1>5. /\ required \in SUBSET DOMAIN products
        /\ Required(products) \subseteq required
        /\ Together(products, required)
    BY <1>1, RequiredIsClosure
  <1>6. start \in Nat
    BY <1>2, <1>3, SizeOfType
  <1> HIDE DEF required, start
  <1>7. /\ work.tokens \in Nat /\ work.kept \in SUBSET DOMAIN products
        /\ Required(products) \subseteq work.kept /\ Together(products, work.kept)
        /\ work.tokens >= start /\ (work.tokens = start \/ Fits(work.tokens, start))
    <2> DEFINE from == [tokens |-> start, kept |-> required]
               D == DOMAIN products
               F == {S \in SUBSET D : Together(products, S)}
    <2>1. from \in Kept(D) /\ from.kept = required /\ from.tokens = start
      BY <1>5, <1>6 DEF Kept
    <2>2. \A i \in D : Bundle(products, i) \in F
      BY <1>1, BundleIsClosure
    <2>3. bundles \in Offers(D, products)
      BY <1>3, <2>2 DEF Offers
    <2>4. \A i \in 1 .. Len(products) : bundles[i] \in F
      BY <1>3, <2>2
    <2>5. \A S, T \in F : S \cup T \in F
      BY DEF Together
    <2>6. required \in F
      BY <1>5
    <2>7. \A S \in F : S \in SUBSET D /\ Together(products, S)
      OBVIOUS
    <2>8. Suits(from, products, bundles, F)
      BY <2>1, <2>4, <2>5, <2>6 DEF Suits
    <2> DEFINE zero == 0
    <2>9. zero \in Nat
      OBVIOUS
    <2> HIDE DEF from, bundles, F, work, zero
    <2>10. work = Accumulate(from, zero, products, bundles, WorkWindow, start)
      BY DEF work, from, zero
    <2>11. /\ work \in Kept(D) /\ from.kept \subseteq work.kept /\ work.kept \in F
          /\ Fitting(from, work, start)
      BY <1>2, <1>3, <2>1, <2>3, <2>8, <2>9, <2>10, AccumulateKeeps, SMTT(20)
    <2>12. work.tokens \in Nat
      BY <2>11 DEF Kept
    <2> QED
      BY <1>5, <2>1, <2>7, <2>11, <2>12 DEF Fitting
  <1> HIDE DEF work, bundles
  <1>8. /\ observed.tokens \in Nat /\ observed.kept \in SUBSET Nat
        /\ observed.tokens >= work.tokens
        /\ observed.tokens = work.tokens \/ Fits(observed.tokens, start)
    <2>1. Singles(previous) \in Offers(Nat, previous)
      BY <1>3, SinglesAreOffers
    <2> HIDE DEF observed
    <2>2. observed = Accumulate(Empty(work.tokens), 0, previous,
                         Singles(previous), ObservedWindow, start)
      BY DEF observed, Empty
    <2> QED
      BY <1>2, <1>3, <1>7, <2>1, <2>2, PlacesFit
  <1> HIDE DEF observed
  <1>9. /\ after \in Nat /\ after >= observed.tokens
        /\ after = observed.tokens \/ Fits(after, start)
    BY <1>1, <1>8, ReceiptsFit
  <1> HIDE DEF after
  <1>10. /\ listed.tokens \in Nat /\ listed.kept \in SUBSET Nat
         /\ listed.tokens >= after /\ (listed.tokens = after \/ Fits(listed.tokens, start))
    <2>1. entries \in Seq([size: Nat]) /\ DOMAIN entries = 1 .. Len(products)
      <3>1. entries \in [1 .. Len(products) -> [size: Nat]]
        BY <1>3
      <3> DEFINE Row == [size: Nat]
      <3> HIDE DEF entries, Row
      <3>2. entries \in Seq(Row)
        <4>1. entries \in [1 .. Len(products) -> Row]
          BY <3>1 DEF Row
        <4> QED
          BY <1>3, <4>1, SeqDef
      <3>3. DOMAIN entries = 1 .. Len(products)
        BY <3>1
      <3> QED
        BY <3>2, <3>3 DEF Row
    <2>2. Len(entries) = Len(products)
      <3> HIDE DEF entries
      <3>1. Len(entries) \in Nat /\ DOMAIN entries = 1 .. Len(entries)
        BY <2>1, LenProperties
      <3> QED
        BY <1>3, <2>1, <3>1
    <2>3. Measured(entries)
      BY <1>3, <2>2 DEF Measured
    <2>4. unseen \in Offers(Nat, entries)
      BY <1>3, <2>2 DEF Offers
    <2> HIDE DEF entries, unseen, listed
    <2>5. listed = Accumulate(Empty(after), 0, entries, unseen, DirectoryWindow, start)
      BY DEF listed, Empty
    <2> QED
      BY <1>2, <1>9, <2>3, <2>4, <2>5, PlacesFit
  <1> HIDE DEF listed
  <1>11. listed.tokens >= start /\ (listed.tokens = start \/ Fits(listed.tokens, start))
    BY <1>6, <1>7, <1>8, <1>9, <1>10
  <1>12. CASE ~Admitted(start)
    BY <1>4, <1>12 DEF start, required, products
  <1>13. CASE Admitted(start)
    <2> DEFINE c == [at |-> "open", work |-> work.kept, observed |-> observed.kept,
                     listed |-> listed.kept, tokens |-> listed.tokens,
                     required |-> start, turns |-> 0]
    <2>1. Compiled = c
      BY <1>4, <1>13
    <2>2. work.kept \in SUBSET Nat
      BY <1>3, <1>7
    <2>3. c \in ContextRow
      BY <1>6, <1>8, <1>10, <2>2 DEF ContextRow
    <2>4. /\ c.at = "open" /\ c.turns = 0 /\ c.required = start /\ c.work = work.kept
          /\ c.tokens = listed.tokens
      OBVIOUS
    <2>5. Admitted(listed.tokens)
      BY <1>11, <1>13 DEF Fits
    <2> HIDE DEF c
    <2> QED
      BY <1>7, <1>11, <1>13, <2>1, <2>3, <2>4, <2>5 DEF start, required, products
  <1> QED
    BY <1>12, <1>13

-----------------------------------------------------------------------------
(* The run.                                                                *)

\* The invariant holds before a goal has work.
LEMMA ContextInitHolds == ContextInit => ContextInv
  <1> SUFFICES ASSUME ContextInit PROVE ContextInv
    OBVIOUS
  <1>1. <<>> \in Works
    <2>1. 0 \in Nat /\ <<>> \in ProductsOf(0)
      BY DEF ProductsOf
    <2> QED
      BY <2>1 DEF Works
  <1>2. <<>> \in Invocations
    <2>1. 0 \in 0 .. MaxInvocations
      BY ContextAssumption
    <2>2. <<>> \in [1 .. 0 -> [size: Sizes, receipts: Receipts]]
      OBVIOUS
    <2> QED
      BY <2>1, <2>2 DEF Invocations
  <1>3. /\ goalWork = [products |-> <<>>, invocations |-> <<>>]
        /\ budget = [limit |-> 0, target |-> 0]
        /\ context = [at |-> "none"] /\ NoContext = [at |-> "none"]
    BY DEF ContextInit, NoContext
  <1>4. ContextTypeOK
    BY <1>1, <1>2, <1>3 DEF ContextTypeOK
  <1>5. context.at = "none"
    BY <1>3
  <1> QED
    BY <1>4, <1>5 DEF ContextInv

\* A goal with its work and the limits of a run are of their types.
LEMMA CompileKeeps ==
  ASSUME ContextInv, Compile
  PROVE  ContextInv'
  <1>1. goalWork' \in [products: Works, invocations: Invocations]
    <2>1. PICK n \in 0 .. MaxProducts, previous \in Invocations : \E products \in ProductsOf(n) :
             goalWork' = [products |-> products, invocations |-> previous]
      BY DEF Compile
    <2>2. PICK products \in ProductsOf(n) :
             goalWork' = [products |-> products, invocations |-> previous]
      BY <2>1
    <2>3. n \in Nat
      BY ContextAssumption
    <2>4. products \in Works
      BY <2>2, <2>3 DEF Works
    <2> QED
      BY <2>2, <2>4
  <1>2. budget' \in [limit: Nat, target: Nat]
    BY ContextAssumption DEF Compile
  <1>3. context' = [at |-> "compiling"] /\ context'.at = "compiling"
    BY DEF Compile
  <1>4. ContextTypeOK'
    BY <1>1, <1>2, <1>3 DEF ContextTypeOK
  <1> QED
    BY <1>3, <1>4 DEF ContextInv

\* compile_context leaves a qualified context, or refuses.
LEMMA CompileContextKeeps ==
  ASSUME ContextInv, CompileContext
  PROVE  ContextInv'
  <1> DEFINE products == goalWork.products
             start == RequestSize + SizeOf(products, RequiredWork(products))
  <1>1. /\ goalWork \in [products: Works, invocations: Invocations]
        /\ budget \in [limit: Nat, target: Nat]
    BY DEF ContextInv, ContextTypeOK
  <1>2. context' = Compiled /\ goalWork' = goalWork /\ budget' = budget
    BY DEF CompileContext
  <1>3. CASE ~Admitted(start)
    <2>1. context' = [at |-> "refused"] /\ context'.at = "refused"
      BY <1>1, <1>2, <1>3, CompiledIsQualified
    <2>2. ContextTypeOK'
      BY <1>1, <1>2, <2>1 DEF ContextTypeOK
    <2>3. ~Admitted(start)'
      BY <1>2, <1>3 DEF Admitted, Total
    <2> QED
      BY <2>1, <2>2, <2>3 DEF ContextInv
  <1>4. CASE Admitted(start)
    <2>1. /\ context' \in ContextRow /\ context'.at = "open" /\ context'.turns = 0
          /\ context'.required = start /\ Admitted(context'.tokens)
          /\ context'.tokens >= start
          /\ context'.tokens = start \/ Fits(context'.tokens, start)
          /\ Required(products) \subseteq context'.work
          /\ context'.work \subseteq DOMAIN products
          /\ Together(products, context'.work)
      BY <1>1, <1>2, <1>4, CompiledIsQualified
    <2>2. ContextTypeOK'
      BY <1>1, <1>2, <2>1 DEF ContextTypeOK
    <2> HIDE DEF products, start
    <2>3. /\ context'.tokens >= context'.required
          /\ context'.tokens = context'.required \/ Fits(context'.tokens, context'.required)
      BY <2>1
    <2>4. products' = products
      BY <1>2 DEF products
    <2>5. /\ Admitted(context.tokens)' /\ context'.tokens >= context'.required
          /\ context'.tokens = context'.required \/ Fits(context.tokens, context.required)'
      BY <1>2, <2>1, <2>3 DEF Admitted, Fits
    <2> QED
      BY <1>2, <2>1, <2>2, <2>4, <2>5 DEF ContextInv, products
  <1> QED
    BY <1>3, <1>4

\* A later request is admitted with what it adds, or stops the run
\* (_prepare_request); the saved work that is shown stays as it is.
LEMMA NextRequestKeeps ==
  ASSUME ContextInv, NEW size \in Sizes, NEW window \in ContextLimits, NextRequest(size, window)
  PROVE  ContextInv'
  <1>1. context.at = "open" /\ goalWork' = goalWork /\ budget' = budget
    BY DEF NextRequest
  <1>2. ContextTypeOK /\ context \in ContextRow
    BY <1>1 DEF ContextInv, ContextTypeOK, NoContext
  <1>3. size \in Nat
    BY ContextAssumption
  <1>4. /\ Required(goalWork.products) \subseteq context.work
        /\ context.work \subseteq DOMAIN goalWork.products
        /\ Together(goalWork.products, context.work)
    BY <1>1 DEF ContextInv
  <1>5. CASE /\ Admitted(context.tokens + size)
             /\ context' = [context EXCEPT !.tokens = @ + size, !.turns = @ + 1]
    <2> DEFINE more == context.tokens + size
               later == context.turns + 1
    <2>1. more \in Nat /\ later \in Nat /\ later # 0
      BY <1>2, <1>3 DEF ContextRow
    <2> HIDE DEF more, later
    <2>2. /\ context' \in ContextRow /\ context'.at = "open" /\ context'.turns = later
          /\ context'.tokens = more /\ context'.work = context.work
      <3>1. context' = [context EXCEPT !.tokens = more, !.turns = later]
        BY <1>5 DEF more, later
      <3> QED
        BY <1>1, <1>2, <2>1, <3>1 DEF ContextRow
    <2>3. context'.turns # 0
      BY <2>1, <2>2
    <2>4. Admitted(context.tokens)'
      BY <1>1, <1>5, <2>2 DEF Admitted, more
    <2>5. ContextTypeOK'
      BY <1>1, <1>2, <2>2 DEF ContextTypeOK
    <2> QED
      BY <1>1, <1>4, <2>2, <2>3, <2>4, <2>5 DEF ContextInv
  <1>6. CASE context' = [context EXCEPT !.at = "stopped"]
    <2>1. context' \in ContextRow /\ context'.at = "stopped"
      BY <1>2, <1>6 DEF ContextRow
    <2>2. ContextTypeOK'
      BY <1>1, <1>2, <2>1 DEF ContextTypeOK
    <2> QED
      BY <2>1, <2>2 DEF ContextInv
  <1> QED
    BY <1>5, <1>6 DEF NextRequest

\* In every reachable state an open context is admitted, has what is required,
\* and is together; a refused one had too much that is required (compile_context).
THEOREM ContextInvariant == ContextSpec => []ContextInv
  <1>1. ContextInit => ContextInv
    BY ContextInitHolds
  <1>2. ContextInv /\ [ContextNext]_contextVars => ContextInv'
    <2> SUFFICES ASSUME ContextInv, [ContextNext]_contextVars PROVE ContextInv'
      OBVIOUS
    <2>1. CASE Compile
      BY <2>1, CompileKeeps
    <2>2. CASE CompileContext
      BY <2>2, CompileContextKeeps
    <2>3. CASE \E size \in Sizes, window \in ContextLimits : NextRequest(size, window)
      BY <2>3, NextRequestKeeps
    <2>4. CASE UNCHANGED contextVars
      BY <2>4 DEF contextVars, ContextInv, ContextTypeOK, Admitted, Fits, Total
    <2> QED
      BY <2>1, <2>2, <2>3, <2>4 DEF ContextNext
  <1> QED
    BY <1>1, <1>2, PTL DEF ContextSpec

\* The invariant is enough.
LEMMA ContextInvSuffices == ContextInv => ContextIsQualified
  <1> SUFFICES ASSUME ContextInv PROVE ContextIsQualified
    OBVIOUS
  <1> DEFINE products == goalWork.products
             required == {i \in DOMAIN products : products[i].kind \in RequiredKinds}
  <1>1. products \in Works /\ budget \in [limit: Nat, target: Nat]
    BY DEF ContextInv, ContextTypeOK
  <1>2. required = Required(products)
    BY DEF Required
  <1>3. ASSUME context.at = "open"
        PROVE  /\ Total(context.tokens) <= budget.limit
               /\ required \subseteq context.work
               /\ \A i \in context.work :
                    /\ products[i].inputs \ {Gone} \subseteq context.work
                    /\ \A j \in DOMAIN products :
                         products[j].kind \in Qualifications /\ i \in products[j].inputs
                            => j \in context.work
               /\ context.turns = 0 /\ context.tokens > budget.target
                     => context.tokens = context.required
    <2>1. /\ Admitted(context.tokens) /\ Required(products) \subseteq context.work
          /\ Together(products, context.work)
          /\ context.turns = 0
               => /\ context.tokens >= context.required
                  /\ context.tokens = context.required \/ Fits(context.tokens, context.required)
      BY <1>3 DEF ContextInv
    <2>2. context \in ContextRow
      BY <1>3 DEF ContextInv, ContextTypeOK, NoContext
    <2>3. context.tokens \in Nat /\ context.required \in Nat
          /\ budget.limit \in Nat /\ budget.target \in Nat
      BY <1>1, <2>2 DEF ContextRow
    <2>4. ASSUME context.turns = 0, context.tokens > budget.target
          PROVE  context.tokens = context.required
      <3>1. CASE Fits(context.tokens, context.required)
        <4>1. context.tokens <= (IF budget.target > context.required THEN budget.target
                                 ELSE context.required)
          BY <3>1 DEF Fits
        <4> QED
          BY <2>1, <2>3, <2>4, <4>1
      <3> QED
        BY <2>1, <2>4, <3>1
    <2>5. Total(context.tokens) <= budget.limit
      BY <2>1 DEF Admitted
    <2>6. ASSUME NEW i \in context.work
          PROVE  /\ products[i].inputs \ {Gone} \subseteq context.work
                 /\ \A j \in DOMAIN products :
                      products[j].kind \in Qualifications /\ i \in products[j].inputs
                         => j \in context.work
      BY <2>1 DEF Together, Inputs, Qualifiers
    <2> QED
      BY <1>2, <2>1, <2>4, <2>5, <2>6
  <1>4. ASSUME context.at = "refused", NEW S \in SUBSET DOMAIN products,
               required \subseteq S,
               \A i \in S : Inputs(products, i) \cup Qualifiers(products, i) \subseteq S
        PROVE  Total(RequestSize + SizeOf(products, S)) > budget.limit
    <2> DEFINE needed == SizeOf(products, RequiredWork(products))
               shown == SizeOf(products, S)
    <2>1. ~(Total(RequestSize + needed) <= budget.limit)
      BY <1>4 DEF ContextInv, Admitted
    <2>2. RequiredWork(products) \subseteq S
      BY <1>1, <1>2, <1>4, RequiredIsClosure DEF Together
    <2>3. Measured(products)
      BY <1>1, WorksAre
    <2>4. needed <= shown /\ needed \in Nat /\ shown \in Nat
      BY <2>2, <2>3, MoreIsLarger, SizeOfType
    <2>5. RequestSize \in Nat /\ ToolsSize \in Nat /\ Reserve \in Nat /\ budget.limit \in Nat
      <3>1. RequestSize \in Nat /\ Reserve \in Nat
        BY ContextAssumption
      <3>2. ToolsSize \in Nat
        BY ContextAssumption
      <3> QED
        BY <1>1, <3>1, <3>2
    <2> HIDE DEF needed, shown, products
    <2>6. ~(RequestSize + needed + ToolsSize + Reserve <= budget.limit)
      BY <2>1 DEF Total
    <2>7. RequestSize + shown + ToolsSize + Reserve > budget.limit
      BY <2>4, <2>5, <2>6
    <2>8. Total(RequestSize + shown) > budget.limit
      BY <2>7 DEF Total
    <2> QED
      BY <2>8 DEF shown, products
  <1> QED
    BY <1>3, <1>4 DEF ContextIsQualified

\* No context shows a product without its recorded inputs and qualifications,
\* leaves out a requirement, or exceeds the hard budget, and optional work is
\* never why a run is refused (context.py compile_context and admit).
THEOREM ContextIsQualifiedHolds == ContextSpec => []ContextIsQualified
  BY ContextInvariant, ContextInvSuffices, PTL

-----------------------------------------------------------------------------
(***************************************************************************)
(* Proofs about StageEdit: an edit puts all its replacements at once into  *)
(* the text that was read, for any texts and any edits of a call, whatever *)
(* others write to the file in between.                                    *)
(*                                                                         *)
(* The invariant is about a call in progress: the text it is about to      *)
(* write is what its spans mean in the text it was made for, which is the  *)
(* one that was read; and after the last check the file is that text, or   *)
(* somebody has written since.  It is kept by every step but the first of  *)
(* an edit without a look at the text.                                     *)
(*                                                                         *)
(* That first step is about data.  Sorting is possible because, in a total *)
(* order of a finite set, the ranks are the numbers up to its size; spans  *)
(* that are sorted and do not overlap one by one lie one behind the other. *)
(* The text that means all spans at once grows character by character, the *)
(* one that the code builds span by span and from the back; between two    *)
(* spans, and after the last one, the first grows by what the second has   *)
(* copied of the original.                                                 *)
(***************************************************************************)

-----------------------------------------------------------------------------
(* Places in an order.                                                     *)

\* The number of members up to k.
Rank(B, le, k) == Cardinality({j \in B : <<j, k>> \in le})

\* In a finite set with a total order the ranks are the numbers up to its size.
LEMMA Ranked ==
  ASSUME NEW B, IsFiniteSet(B), NEW le \in SUBSET (B \X B),
         \A j \in B : <<j, j>> \in le,
         \A j, k \in B : <<j, k>> \in le \/ <<k, j>> \in le,
         \A j, k \in B : <<j, k>> \in le /\ <<k, j>> \in le => j = k,
         \A i, j, k \in B : <<i, j>> \in le /\ <<j, k>> \in le => <<i, k>> \in le
  PROVE  /\ Cardinality(B) \in Nat
         /\ \A k \in B : Rank(B, le, k) \in 1 .. Cardinality(B)
         /\ \A j, k \in B : <<j, k>> \in le <=> Rank(B, le, j) <= Rank(B, le, k)
         /\ \A n \in 1 .. Cardinality(B) : \E k \in B : Rank(B, le, k) = n
  <1> DEFINE up(k) == {j \in B : <<j, k>> \in le}
             r == [k \in B |-> Rank(B, le, k)]
  <1>1. Cardinality(B) \in Nat
    BY FS_CardinalityType
  <1>2. ASSUME NEW k \in B
        PROVE  /\ IsFiniteSet(up(k)) /\ Rank(B, le, k) = Cardinality(up(k))
               /\ Rank(B, le, k) \in 1 .. Cardinality(B)
    <2>1. up(k) \in SUBSET B /\ k \in up(k)
      OBVIOUS
    <2>2. Rank(B, le, k) = Cardinality(up(k))
      BY DEF Rank
    <2> HIDE DEF up
    <2>3. IsFiniteSet(up(k)) /\ Cardinality(up(k)) <= Cardinality(B)
      BY <2>1, FS_Subset
    <2>4. Cardinality(up(k)) \in Nat /\ Cardinality(up(k)) # 0
      BY <2>1, <2>3, FS_CardinalityType, FS_EmptySet
    <2> QED
      BY <1>1, <2>2, <2>3, <2>4
  <1>3. ASSUME NEW j \in B, NEW k \in B, <<j, k>> \in le
        PROVE  Rank(B, le, j) <= Rank(B, le, k)
    <2>1. up(j) \in SUBSET up(k)
      BY <1>3
    <2> HIDE DEF up
    <2> QED
      BY <1>2, <2>1, FS_Subset
  <1>4. ASSUME NEW j \in B, NEW k \in B, <<j, k>> \notin le
        PROVE  Rank(B, le, k) < Rank(B, le, j)
    <2>1. up(k) \in SUBSET up(j) /\ j \in up(j) /\ j \notin up(k)
      BY <1>4
    <2> HIDE DEF up
    <2>2. Cardinality(up(k)) <= Cardinality(up(j)) /\ Cardinality(up(k)) # Cardinality(up(j))
      BY <1>2, <2>1, FS_Subset
    <2> QED
      BY <1>1, <1>2, <2>2
  <1> HIDE DEF up
  <1>5. \A j, k \in B : <<j, k>> \in le <=> Rank(B, le, j) <= Rank(B, le, k)
    <2> SUFFICES ASSUME NEW j \in B, NEW k \in B
                 PROVE  <<j, k>> \in le <=> Rank(B, le, j) <= Rank(B, le, k)
      OBVIOUS
    <2>1. Rank(B, le, j) \in Int /\ Rank(B, le, k) \in Int
      BY <1>1, <1>2
    <2> QED
      BY <1>3, <1>4, <2>1
  <1>6. r \in [B -> 1 .. Cardinality(B)]
    BY <1>2
  <1>7. ASSUME NEW j \in B, NEW k \in B, r[j] = r[k]
        PROVE  j = k
    <2>1. Rank(B, le, j) = Rank(B, le, k) /\ Rank(B, le, j) \in Int
      BY <1>1, <1>2, <1>7
    <2>2. <<j, k>> \in le /\ <<k, j>> \in le
      BY <1>5, <2>1
    <2> QED
      BY <2>2
  <1>8. r \in Injection(B, 1 .. Cardinality(B))
    BY <1>6, <1>7 DEF Injection, IsInjective
  <1>9. IsFiniteSet(1 .. Cardinality(B)) /\ Cardinality(1 .. Cardinality(B)) = Cardinality(B)
    BY <1>1, FS_Interval
  <1> HIDE DEF r
  <1>10. r \in Surjection(B, 1 .. Cardinality(B))
    BY <1>8, <1>9, FS_Injection
  <1>11. \A n \in 1 .. Cardinality(B) : \E k \in B : r[k] = n
    BY <1>10 DEF Surjection
  <1> QED
    BY <1>1, <1>2, <1>5, <1>11 DEF r

-----------------------------------------------------------------------------
(* Lines and positions.                                                    *)

\* A line ends within the text, and the last one with it.
LEMMA LineEnds ==
  ASSUME NEW S, NEW t \in Seq(S)
  PROVE  /\ LineCount(t) \in Nat /\ Len(t) \in Nat
         /\ \A n \in Nat : LineEnd(t, n) \in 0 .. Len(t)
         /\ LineEnd(t, LineCount(t)) = Len(t)
         /\ t = <<>> => LineCount(t) = 0 /\ Len(t) = 0
  <1> DEFINE B == Breaks(t)
             le == {p \in B \X B : p[1] <= p[2]}
             upTo(k) == {j \in B : j <= k}
  <1>1. Len(t) \in Nat /\ DOMAIN t = 1 .. Len(t)
    BY LenProperties
  <1>2. B \subseteq 1 .. Len(t)
    BY <1>1 DEF Breaks
  <1>3. IsFiniteSet(B)
    <2>1. IsFiniteSet(1 .. Len(t)) /\ B \in SUBSET (1 .. Len(t))
      BY <1>1, <1>2, FS_Interval
    <2> HIDE DEF B
    <2> QED
      BY <2>1, FS_Subset
  <1>4. t = <<>> => Len(t) = 0 /\ B = {}
    <2>1. t = <<>> => Len(t) = 0
      BY EmptySeq
    <2> QED
      BY <1>1, <1>2, <2>1
  <1>5. t # <<>> => Len(t) \in 1 .. Len(t)
    <2>1. t # <<>> => Len(t) # 0
      BY EmptySeq
    <2> QED
      BY <1>1, <2>1
  <1>6. EndsInBreak(t) => t # <<>> /\ Len(t) \in B
    BY <1>1, <1>5 DEF EndsInBreak, Last, Breaks
  <1>7. /\ Cardinality(B) \in Nat
        /\ \A n \in 1 .. Cardinality(B) : \E k \in B : Cardinality(upTo(k)) = n
        /\ \A j, k \in B : Cardinality(upTo(j)) = Cardinality(upTo(k)) => j = k
    <2>1. \A k \in B : {j \in B : <<j, k>> \in le} = upTo(k)
      OBVIOUS
    <2>2. \A k \in B : Rank(B, le, k) = Cardinality(upTo(k))
      BY <2>1 DEF Rank
    <2>3. \A j \in B : j \in Int
      BY <1>2
    <2>4. \A j, k \in B : <<j, k>> \in le <=> j <= k
      OBVIOUS
    <2>5. le \in SUBSET (B \X B)
      OBVIOUS
    <2> HIDE DEF B, le, upTo
    <2>6. \A j \in B : <<j, j>> \in le
      BY <2>3, <2>4
    <2>7. \A j, k \in B : <<j, k>> \in le \/ <<k, j>> \in le
      <3> SUFFICES ASSUME NEW j \in B, NEW k \in B PROVE <<j, k>> \in le \/ <<k, j>> \in le
        OBVIOUS
      <3>1. j \in Int /\ k \in Int /\ (<<j, k>> \in le <=> j <= k) /\ (<<k, j>> \in le <=> k <= j)
        BY <2>3, <2>4
      <3> QED
        BY <3>1
    <2>8. \A j, k \in B : <<j, k>> \in le /\ <<k, j>> \in le => j = k
      BY <2>3, <2>4
    <2>9. \A i, j, k \in B : <<i, j>> \in le /\ <<j, k>> \in le => <<i, k>> \in le
      BY <2>3, <2>4
    <2>10. /\ Cardinality(B) \in Nat
           /\ \A k \in B : Rank(B, le, k) \in 1 .. Cardinality(B)
           /\ \A j, k \in B : <<j, k>> \in le <=> Rank(B, le, j) <= Rank(B, le, k)
           /\ \A n \in 1 .. Cardinality(B) : \E k \in B : Rank(B, le, k) = n
      BY <1>3, <2>5, <2>6, <2>7, <2>8, <2>9, Ranked
    <2>11. ASSUME NEW j \in B, NEW k \in B, Cardinality(upTo(j)) = Cardinality(upTo(k))
           PROVE  j = k
      <3>1. Rank(B, le, j) = Rank(B, le, k) /\ Rank(B, le, j) \in Int
        BY <2>2, <2>10, <2>11
      <3>2. <<j, k>> \in le /\ <<k, j>> \in le
        BY <2>10, <3>1
      <3> QED
        BY <2>8, <3>2
    <2> QED
      BY <2>2, <2>10, <2>11
  <1>8. LineCount(t) = Cardinality(B) + (IF t = <<>> \/ EndsInBreak(t) THEN 0 ELSE 1)
    BY DEF LineCount
  <1>9. ASSUME NEW n \in Nat
        PROVE  /\ n = 0 => LineEnd(t, n) = 0
               /\ n # 0 /\ n > Cardinality(B) => LineEnd(t, n) = Len(t)
               /\ n # 0 /\ ~(n > Cardinality(B)) =>
                    LineEnd(t, n) \in B /\ Cardinality(upTo(LineEnd(t, n))) = n
    <2>1. n = 0 => LineEnd(t, n) = 0
      BY DEF LineEnd
    <2>2. n # 0 /\ n > Cardinality(B) => LineEnd(t, n) = Len(t)
      BY DEF LineEnd
    <2>3. ASSUME n # 0, ~(n > Cardinality(B))
          PROVE  LineEnd(t, n) \in B /\ Cardinality(upTo(LineEnd(t, n))) = n
      <3>1. LineEnd(t, n) = CHOOSE k \in B : Cardinality(upTo(k)) = n
        BY <2>3 DEF LineEnd
      <3> HIDE DEF B, upTo
      <3>2. n \in 1 .. Cardinality(B)
        BY <1>7, <2>3
      <3>3. \E k \in B : Cardinality(upTo(k)) = n
        BY <1>7, <3>2
      <3> QED
        BY <3>1, <3>3
    <2> QED
      BY <2>1, <2>2, <2>3
  <1>10. ASSUME EndsInBreak(t)
         PROVE  LineEnd(t, Cardinality(B)) = Len(t)
    <2>1. Len(t) \in B /\ upTo(Len(t)) = B
      BY <1>2, <1>6, <1>10
    <2>2. Cardinality(upTo(Len(t))) = Cardinality(B)
      BY <2>1
    <2> HIDE DEF B, upTo
    <2>3. Cardinality(B) # 0
      BY <1>3, <2>1, FS_EmptySet
    <2>4. LineEnd(t, Cardinality(B)) \in B /\ Cardinality(upTo(LineEnd(t, Cardinality(B)))) = Cardinality(B)
      BY <1>7, <1>9, <2>3
    <2> QED
      BY <1>7, <2>1, <2>2, <2>4
  <1>11. t = <<>> => LineCount(t) = 0
    BY <1>3, <1>4, <1>8, FS_EmptySet
  <1> HIDE DEF B, upTo, le
  <1>12. LineCount(t) \in Nat
    BY <1>7, <1>8
  <1>13. ASSUME NEW n \in Nat
         PROVE  LineEnd(t, n) \in 0 .. Len(t)
    <2>1. LineEnd(t, n) \in {0, Len(t)} \cup B
      BY <1>9
    <2>2. \A e \in {0, Len(t)} \cup B : e \in 0 .. Len(t)
      <3>1. 0 \in 0 .. Len(t) /\ Len(t) \in 0 .. Len(t)
        BY <1>1
      <3>2. \A e \in 1 .. Len(t) : e \in 0 .. Len(t)
        BY <1>1
      <3> QED
        BY <1>2, <3>1, <3>2
    <2> QED
      BY <2>1, <2>2
  <1>14. LineEnd(t, LineCount(t)) = Len(t)
    <2>1. CASE t = <<>>
      BY <1>4, <1>9, <1>11, <2>1
    <2>2. CASE t # <<>> /\ EndsInBreak(t)
      BY <1>7, <1>8, <1>10, <2>2
    <2>3. CASE t # <<>> /\ ~EndsInBreak(t)
      BY <1>7, <1>8, <1>9, <2>3
    <2> QED
      BY <2>1, <2>2, <2>3
  <1> QED
    BY <1>1, <1>4, <1>11, <1>12, <1>13, <1>14

\* A position lies in the text.
LEMMA PositionsInText ==
  ASSUME NEW S, NEW t \in Seq(S), NEW line \in Nat \ {0}, NEW column \in Nat \ {0}
  PROVE  TextPosition(t, line, column) \subseteq 0 .. Len(t)
  <1>1. /\ LineCount(t) \in Nat /\ Len(t) \in Nat
        /\ \A n \in Nat : LineEnd(t, n) \in 0 .. Len(t)
    BY LineEnds
  <1> DEFINE before == LineEnd(t, line - 1)
  <1>2. LineEnd(t, line) \in 0 .. Len(t) /\ before \in 0 .. Len(t)
    <2>1. line \in Nat /\ line - 1 \in Nat
      OBVIOUS
    <2> QED
      BY <1>1, <2>1
  <1>3. BodyLength(t, line) = LineEnd(t, line) - before - (IF line <= Cardinality(Breaks(t)) THEN 1 ELSE 0)
    BY DEF BodyLength
  <1> HIDE DEF before
  <1>4. CASE t = <<>>
    BY <1>1, <1>4 DEF TextPosition
  <1>5. CASE t # <<>> /\ line = LineCount(t) + 1
    BY <1>1, <1>5 DEF TextPosition
  <1>6. CASE t # <<>> /\ line # LineCount(t) + 1 /\ line > LineCount(t) + 1
    BY <1>6 DEF TextPosition
  <1>7. CASE t # <<>> /\ line # LineCount(t) + 1 /\ ~(line > LineCount(t) + 1)
    <2>1. TextPosition(t, line, column) =
            IF column > BodyLength(t, line) + 1 THEN {} ELSE {before + column - 1}
      BY <1>7 DEF TextPosition, before
    <2>2. BodyLength(t, line) \in Int /\ before + BodyLength(t, line) <= Len(t)
      <3> DEFINE end == LineEnd(t, line)
      <3>1. end \in 0 .. Len(t)
        BY <1>2
      <3>2. BodyLength(t, line) = end - before - (IF line <= Cardinality(Breaks(t)) THEN 1 ELSE 0)
        BY <1>3
      <3>3. Len(t) \in Nat
        BY <1>1
      <3> HIDE DEF end
      <3> QED
        BY <1>2, <3>1, <3>2, <3>3
    <2>3. ~(column > BodyLength(t, line) + 1) => before + column - 1 \in 0 .. Len(t)
      BY <1>1, <1>2, <2>2
    <2> QED
      BY <2>1, <2>3
  <1> QED
    BY <1>4, <1>5, <1>6, <1>7

\* The first column of a line is where the line before it ends.
LEMMA LineStarts ==
  ASSUME NEW S, NEW t \in Seq(S), NEW line \in Nat \ {0}, NEW a,
         TextPosition(t, line, 1) = {a}
  PROVE  a = LineEnd(t, line - 1) /\ line <= LineCount(t) + 1
  <1>1. /\ LineCount(t) \in Nat /\ Len(t) \in Nat
        /\ \A n \in Nat : LineEnd(t, n) \in 0 .. Len(t)
        /\ LineEnd(t, LineCount(t)) = Len(t)
        /\ t = <<>> => LineCount(t) = 0 /\ Len(t) = 0
    BY LineEnds
  <1>2. LineEnd(t, line - 1) \in Nat /\ LineEnd(t, line - 1) + 1 - 1 = LineEnd(t, line - 1)
    <2>1. line - 1 \in Nat
      OBVIOUS
    <2>2. LineEnd(t, line - 1) \in 0 .. Len(t)
      BY <1>1, <2>1
    <2> QED
      BY <1>1, <2>2
  <1>3. CASE t = <<>>
    BY <1>1, <1>3 DEF TextPosition
  <1>4. CASE t # <<>> /\ line = LineCount(t) + 1
    <2>1. {a} = IF 1 = 1 /\ EndsInBreak(t) THEN {Len(t)} ELSE {}
      BY <1>4 DEF TextPosition
    <2>2. a = Len(t)
      BY <2>1
    <2>3. line - 1 = LineCount(t) /\ line <= LineCount(t) + 1
      <3>1. LineCount(t) \in Nat
        BY <1>1
      <3> QED
        BY <1>4, <3>1
    <2>4. LineEnd(t, line - 1) = Len(t)
      BY <1>1, <2>3
    <2> QED
      BY <2>2, <2>3, <2>4
  <1>5. CASE t # <<>> /\ line # LineCount(t) + 1 /\ line > LineCount(t) + 1
    <2>1. {a} = {}
      BY <1>5 DEF TextPosition
    <2> QED
      BY <2>1
  <1>6. CASE t # <<>> /\ line # LineCount(t) + 1 /\ ~(line > LineCount(t) + 1)
    <2>1. {a} = IF 1 > BodyLength(t, line) + 1 THEN {} ELSE {LineEnd(t, line - 1) + 1 - 1}
      BY <1>6 DEF TextPosition
    <2>2. a = LineEnd(t, line - 1)
      BY <1>2, <2>1
    <2> QED
      BY <1>1, <1>6, <2>2
  <1> QED
    BY <1>3, <1>4, <1>5, <1>6

\* What Sandbox.read shows of the text it hashes.
Shown(r) ==
  /\ r.first \in Nat \ {0}
  /\ \E last \in Nat : r.first <= last
        /\ r.last = IF last < LineCount(r.hash) THEN last ELSE LineCount(r.hash)
  /\ r.content = IF r.first <= LineCount(r.hash)
                 THEN SubSeq(r.hash, LineEnd(r.hash, r.first - 1) + 1, LineEnd(r.hash, r.last))
                 ELSE <<>>

\* From the first column shown to the first one after it is what was shown.
LEMMA ShownIsTaken ==
  ASSUME NEW S, NEW r, r.hash \in Seq(S), Shown(r), NEW a, NEW b,
         TextPosition(r.hash, r.first, 1) = {a}, TextPosition(r.hash, r.last + 1, 1) = {b}
  PROVE  SubSeq(r.hash, a + 1, b) = r.content
  <1> DEFINE t == r.hash
  <1>1. /\ LineCount(t) \in Nat /\ Len(t) \in Nat
        /\ \A n \in Nat : LineEnd(t, n) \in 0 .. Len(t)
        /\ LineEnd(t, LineCount(t)) = Len(t)
    BY LineEnds
  <1>2. /\ r.first \in Nat \ {0} /\ r.last \in Nat
        /\ r.last = LineCount(t) \/ (r.first <= r.last /\ r.last < LineCount(t))
    BY <1>1 DEF Shown
  <1>3. a = LineEnd(t, r.first - 1) /\ r.first <= LineCount(t) + 1
    BY <1>2, LineStarts
  <1>4. b = LineEnd(t, r.last)
    <2>1. r.last + 1 \in Nat \ {0} /\ (r.last + 1) - 1 = r.last
      BY <1>2
    <2> QED
      BY <2>1, LineStarts
  <1>5. CASE r.first <= LineCount(t)
    BY <1>3, <1>4, <1>5 DEF Shown
  <1>6. CASE ~(r.first <= LineCount(t))
    <2>1. r.first - 1 = LineCount(t) /\ r.last = LineCount(t)
      <3> DEFINE c == LineCount(t)
      <3>1. r.first <= c + 1 /\ c \in Nat /\ ~(r.first <= c)
        BY <1>1, <1>3, <1>6
      <3>2. r.last = c \/ (r.first <= r.last /\ r.last < c)
        BY <1>2
      <3> HIDE DEF c
      <3>3. r.first - 1 = c /\ r.last = c
        BY <1>2, <3>1, <3>2
      <3> QED
        BY <3>3 DEF c
    <2>2. a = Len(t) /\ b = Len(t)
      BY <1>1, <1>3, <1>4, <2>1
    <2>3. SubSeq(t, a + 1, b) = <<>>
      BY <1>1, <2>2, SubSeqEmpty
    <2> QED
      BY <1>6, <2>3 DEF Shown
  <1> QED
    BY <1>5, <1>6

-----------------------------------------------------------------------------
(* Spans and their order.                                                  *)

Characters == UNION {ToSet(u) : u \in EditTexts \cup Replacements}
SpanRow(t) == {s \in [start: 0 .. Len(t), end: 0 .. Len(t), replacement: Seq(Characters)] :
                s.start <= s.end}

LEMMA TextsAreSequences ==
  /\ EditTexts \subseteq Seq(Characters)
  /\ Replacements \subseteq Seq(Characters)
  /\ {MaxLine, MaxColumn, MaxEditCount, MaxStamp} \subseteq Nat
  <1>1. \A t \in EditTexts \cup Replacements : t \in Seq(Characters)
    BY EditAssumption, Zenon DEF Characters
  <1> QED
    BY <1>1, EditAssumption

\* An edit means a span of the text.
LEMMA SpansInText ==
  ASSUME NEW t \in EditTexts, NEW e \in EditRequests, NEW s \in Spans(t, e)
  PROVE  s \in SpanRow(t)
  <1>1. t \in Seq(Characters) /\ Len(t) \in Nat
    BY TextsAreSequences, LenProperties
  <1>2. CASE e \in [kind: {"range"}, from: Positions, to: Positions, replacement: Replacements]
    <2>1. e.kind = "range" /\ e.replacement \in Seq(Characters)
      BY <1>2, TextsAreSequences
    <2>2. /\ e.from[1] \in Nat \ {0} /\ e.from[2] \in Nat \ {0}
          /\ e.to[1] \in Nat \ {0} /\ e.to[2] \in Nat \ {0}
      <3>1. MaxLine \in Nat /\ MaxColumn \in Nat
        BY TextsAreSequences
      <3>2. e.from \in Positions /\ e.to \in Positions
        BY <1>2
      <3>3. \A p \in Positions : p[1] \in Nat \ {0} /\ p[2] \in Nat \ {0}
        BY <3>1 DEF Positions
      <3> QED
        BY <3>2, <3>3
    <2>3. PICK a \in TextPosition(t, e.from[1], e.from[2]),
               b \in {k \in TextPosition(t, e.to[1], e.to[2]) :
                        \A l \in TextPosition(t, e.from[1], e.from[2]) : l <= k} :
            s = [start |-> a, end |-> b, replacement |-> e.replacement]
      BY <2>1 DEF Spans
    <2>4. a \in 0 .. Len(t)
      BY <1>1, <2>2, PositionsInText
    <2>5. b \in 0 .. Len(t)
      BY <1>1, <2>2, PositionsInText
    <2>6. a <= b
      OBVIOUS
    <2> QED
      BY <2>1, <2>3, <2>4, <2>5, <2>6 DEF SpanRow
  <1>3. CASE e \in [kind: {"anchor"}, old: Anchors, replacement: Replacements]
    <2>1. e.kind # "range" /\ e.replacement \in Seq(Characters) /\ e.old \in Anchors
      BY <1>3, TextsAreSequences
    <2>2. Len(e.old) \in Nat
      <3>1. PICK u \in EditTexts : \E i, j \in DOMAIN u : e.old = SubSeq(u, i, j)
        BY <2>1 DEF Anchors
      <3>2. PICK i \in DOMAIN u, j \in DOMAIN u : e.old = SubSeq(u, i, j)
        BY <3>1
      <3>3. u \in Seq(Characters) /\ Len(u) \in Nat /\ DOMAIN u = 1 .. Len(u)
        BY TextsAreSequences, LenProperties
      <3>4. i \in Int /\ j \in Int /\ \A k \in i .. j : u[k] \in Characters
        <4>1. i \in 1 .. Len(u) /\ j \in 1 .. Len(u)
          BY <3>3
        <4>2. \A k \in i .. j : k \in 1 .. Len(u)
          BY <3>3, <4>1
        <4> QED
          BY <3>3, <4>1, <4>2, ElementOfSeq
      <3>5. SubSeq(u, i, j) \in Seq(Characters)
        BY <3>4, SubSeqProperties
      <3> QED
        BY <3>2, <3>5, LenProperties
    <2>3. PICK k \in Occurrences(t, e.old) :
            s = [start |-> k, end |-> k + Len(e.old), replacement |-> e.replacement]
      BY <2>1 DEF Spans
    <2>4. k \in 0 .. Len(t) /\ k + Len(e.old) <= Len(t)
      BY DEF Occurrences
    <2>5. k + Len(e.old) \in 0 .. Len(t) /\ k <= k + Len(e.old)
      BY <1>1, <2>2, <2>4
    <2> QED
      BY <2>1, <2>3, <2>4, <2>5 DEF SpanRow
  <1> QED
    BY <1>2, <1>3 DEF EditRequests

\* Sorting keeps the spans, and puts each before those that come after it.
LEMMA OrderedSorts ==
  ASSUME NEW t, Len(t) \in Nat, NEW n \in Nat, NEW spans \in [1 .. n -> SpanRow(t)]
  PROVE  /\ Ordered(spans) \in [1 .. n -> SpanRow(t)]
         /\ ToSet(Ordered(spans)) = ToSet(spans)
         /\ \A i, j \in 1 .. n : i < j => Before(Ordered(spans)[i], Ordered(spans)[j])
  <1> DEFINE N == 1 .. n
             first(i, j) == \/ spans[i].start < spans[j].start
                            \/ spans[i].start = spans[j].start /\ spans[i].end < spans[j].end
                            \/ /\ spans[i].start = spans[j].start /\ spans[i].end = spans[j].end
                               /\ i <= j
             le == {p \in N \X N : first(p[1], p[2])}
             Sorts(p) == \A i, j \in DOMAIN spans : i < j => Before(spans[p[i]], spans[p[j]])
             rank(i) == Rank(N, le, i)
             p == [m \in N |-> CHOOSE i \in N : rank(i) = m]
  <1>1. IsFiniteSet(N) /\ Cardinality(N) = n
    BY FS_Interval
  <1>2. \A i \in N : i \in Int /\ spans[i].start \in Int /\ spans[i].end \in Int
    <2>1. \A s \in SpanRow(t) : s.start \in Int /\ s.end \in Int
      BY DEF SpanRow
    <2> QED
      BY <2>1
  <1>3. \A i, j \in N : <<i, j>> \in le <=> first(i, j)
    OBVIOUS
  <1>4. le \in SUBSET (N \X N)
    OBVIOUS
  <1>5. DOMAIN spans = N
    OBVIOUS
  <1> HIDE DEF N, le
  <1>6. ASSUME NEW i \in N, NEW j \in N
        PROVE  /\ <<i, i>> \in le
               /\ <<i, j>> \in le \/ <<j, i>> \in le
               /\ <<i, j>> \in le /\ <<j, i>> \in le => i = j
               /\ <<i, j>> \in le => Before(spans[i], spans[j])
    <2>1. /\ i \in Int /\ spans[i].start \in Int /\ spans[i].end \in Int
          /\ j \in Int /\ spans[j].start \in Int /\ spans[j].end \in Int
      BY <1>2
    <2>2. /\ <<i, i>> \in le <=> first(i, i)
          /\ <<i, j>> \in le <=> first(i, j)
          /\ <<j, i>> \in le <=> first(j, i)
      BY <1>3
    <2> QED
      BY <2>1, <2>2 DEF Before
  <1>7. ASSUME NEW i \in N, NEW j \in N, NEW k \in N, <<i, j>> \in le, <<j, k>> \in le
        PROVE  <<i, k>> \in le
    <2>1. /\ i \in Int /\ spans[i].start \in Int /\ spans[i].end \in Int
          /\ j \in Int /\ spans[j].start \in Int /\ spans[j].end \in Int
          /\ k \in Int /\ spans[k].start \in Int /\ spans[k].end \in Int
      BY <1>2
    <2>2. first(i, j) /\ first(j, k) /\ (<<i, k>> \in le <=> first(i, k))
      BY <1>3, <1>7
    <2>3. spans[i].start < spans[k].start \/ spans[i].start = spans[k].start
      BY <2>1, <2>2
    <2>4. spans[i].start = spans[k].start =>
            spans[i].start = spans[j].start /\ spans[j].start = spans[k].start
      BY <2>1, <2>2
    <2>5. spans[i].start = spans[k].start =>
            spans[i].end < spans[k].end \/ (spans[i].end = spans[k].end /\ i <= k)
      BY <2>1, <2>2, <2>4
    <2> QED
      BY <2>2, <2>3, <2>5
  <1> HIDE DEF first
  <1>8. /\ \A k \in N : rank(k) \in 1 .. n
        /\ \A j, k \in N : <<j, k>> \in le <=> rank(j) <= rank(k)
        /\ \A m \in 1 .. n : \E k \in N : rank(k) = m
    <2>1. \A j \in N : <<j, j>> \in le
      BY <1>6
    <2>2. \A j, k \in N : <<j, k>> \in le \/ <<k, j>> \in le
      BY <1>6
    <2>3. \A j, k \in N : <<j, k>> \in le /\ <<k, j>> \in le => j = k
      BY <1>6
    <2>4. \A i, j, k \in N : <<i, j>> \in le /\ <<j, k>> \in le => <<i, k>> \in le
      BY <1>7
    <2>5. /\ Cardinality(N) \in Nat
          /\ \A k \in N : Rank(N, le, k) \in 1 .. Cardinality(N)
          /\ \A j, k \in N : <<j, k>> \in le <=> Rank(N, le, j) <= Rank(N, le, k)
          /\ \A m \in 1 .. Cardinality(N) : \E k \in N : Rank(N, le, k) = m
      BY <1>1, <1>4, <2>1, <2>2, <2>3, <2>4, Ranked
    <2> QED
      BY <1>1, <2>5
  <1> HIDE DEF rank
  <1>9. \A m \in N : p[m] \in N /\ rank(p[m]) = m
    BY <1>8 DEF N
  <1>10. p \in [N -> N]
    BY <1>9
  <1>11. \A i \in N : rank(i) \in N /\ p[rank(i)] = i
    <2> SUFFICES ASSUME NEW i \in N PROVE rank(i) \in N /\ p[rank(i)] = i
      OBVIOUS
    <2>1. rank(i) \in N /\ rank(i) \in Int
      BY <1>8 DEF N
    <2>2. p[rank(i)] \in N /\ rank(p[rank(i)]) = rank(i)
      BY <1>9, <2>1
    <2>3. <<p[rank(i)], i>> \in le /\ <<i, p[rank(i)]>> \in le
      BY <1>8, <2>1, <2>2
    <2> QED
      BY <1>6, <2>1, <2>2, <2>3
  <1>12. ASSUME NEW i \in N, NEW j \in N, i < j
         PROVE  Before(spans[p[i]], spans[p[j]])
    <2>1. p[i] \in N /\ p[j] \in N /\ rank(p[i]) = i /\ rank(p[j]) = j /\ i \in Int /\ j \in Int
      BY <1>2, <1>9
    <2>2. <<p[j], p[i]>> \in le <=> rank(p[j]) <= rank(p[i])
      BY <1>8, <2>1
    <2>3. <<p[j], p[i]>> \notin le
      BY <1>12, <2>1, <2>2
    <2> QED
      BY <1>6, <2>1, <2>3
  <1> HIDE DEF p
  <1>13. p \in Bijection(N, N)
    <2>1. ASSUME NEW i \in N, NEW j \in N, p[i] = p[j]
          PROVE  i = j
      BY <1>9, <2>1
    <2>2. \A i \in N : \E m \in N : p[m] = i
      BY <1>11
    <2> QED
      BY <1>10, <2>1, <2>2 DEF Bijection, Injection, Surjection, IsInjective
  <1>14. Sorts(p)
    BY <1>5, <1>12
  <1> DEFINE place == CHOOSE q \in Bijection(DOMAIN spans, DOMAIN spans) : Sorts(q)
  <1>15. Ordered(spans) = [i \in DOMAIN spans |-> spans[place[i]]]
    BY DEF Ordered
  <1> HIDE DEF Sorts
  <1>16. place \in Bijection(N, N) /\ Sorts(place)
    BY <1>5, <1>13, <1>14
  <1> HIDE DEF place
  <1>17. place \in [N -> N] /\ \A i \in N : \E m \in N : place[m] = i
    BY <1>16 DEF Bijection, Injection, Surjection
  <1>18. /\ DOMAIN Ordered(spans) = N
         /\ \A i \in N : Ordered(spans)[i] = spans[place[i]] /\ spans[place[i]] \in SpanRow(t)
    BY <1>5, <1>15, <1>17 DEF N
  <1>19. Ordered(spans) \in [1 .. n -> SpanRow(t)]
    BY <1>5, <1>15, <1>18 DEF N
  <1>20. ToSet(Ordered(spans)) = ToSet(spans)
    <2>1. \A i \in N : Ordered(spans)[i] \in ToSet(spans)
      BY <1>5, <1>17, <1>18 DEF ToSet
    <2>2. \A i \in N : spans[i] \in ToSet(Ordered(spans))
      <3> SUFFICES ASSUME NEW i \in N PROVE spans[i] \in ToSet(Ordered(spans))
        OBVIOUS
      <3>1. PICK m \in N : place[m] = i
        BY <1>17
      <3> QED
        BY <1>18, <3>1 DEF ToSet
    <2> QED
      BY <1>5, <1>18, <2>1, <2>2 DEF ToSet
  <1>21. \A i, j \in N : i < j => Before(Ordered(spans)[i], Ordered(spans)[j])
    BY <1>5, <1>16, <1>18 DEF Sorts
  <1> QED
    BY <1>19, <1>20, <1>21 DEF N

\* Spans one behind the other.
Laid(t, o) ==
  /\ Len(o) \in Nat
  /\ \A i \in 1 .. Len(o) : o[i] \in SpanRow(t)
  /\ \A i, j \in 1 .. Len(o) : i < j => o[i].end <= o[j].start /\ o[i].start < o[j].start

\* Adjacent spans that do not overlap lie one behind the other.
LEMMA OrderedAreLaid ==
  ASSUME NEW t, Len(t) \in Nat, NEW n \in Nat, NEW o \in [1 .. n -> SpanRow(t)],
         \A i, j \in 1 .. n : i < j => Before(o[i], o[j]), ~Overlap(o)
  PROVE  Laid(t, o) /\ Len(o) = n
  <1>1. o \in Seq(SpanRow(t)) /\ Len(o) = n
    <2>1. o \in Seq(SpanRow(t))
      BY SeqDef
    <2>2. DOMAIN o = 1 .. n /\ DOMAIN o = 1 .. Len(o) /\ Len(o) \in Nat
      BY <2>1, LenProperties
    <2> QED
      BY <2>1, <2>2
  <1>2. \A i \in 1 .. n : o[i].start \in Int /\ o[i].end \in Int /\ o[i].start <= o[i].end
    BY DEF SpanRow
  <1>3. ASSUME NEW i \in 1 .. n, NEW j \in 1 .. n, i < j
        PROVE  o[i].end <= o[j].start /\ o[i].start < o[j].start
    <2> DEFINE k == i + 1
    <2>1. i \in 1 .. Len(o) - 1 /\ k \in 1 .. n /\ i < k
      BY <1>1, <1>3
    <2>2. ~(o[k].start < o[i].end \/ (o[i].start = o[k].start /\ o[i].end = o[k].start))
      BY <2>1 DEF Overlap
    <2>3. Before(o[i], o[k])
      BY <2>1
    <2>4. k = j \/ (k < j /\ Before(o[k], o[j]))
      BY <1>3, <2>1
    <2> HIDE DEF k
    <2>5. /\ o[i].start \in Int /\ o[i].end \in Int /\ o[i].start <= o[i].end
          /\ o[k].start \in Int /\ o[k].end \in Int /\ o[k].start <= o[k].end
          /\ o[j].start \in Int /\ o[j].end \in Int
      BY <1>2, <2>1
    <2>6. o[i].end <= o[k].start /\ o[i].start < o[k].start
      BY <2>2, <2>3, <2>5 DEF Before
    <2>7. o[k].start <= o[j].start
      BY <2>4, <2>5 DEF Before
    <2> QED
      BY <2>5, <2>6, <2>7
  <1> QED
    BY <1>1, <1>3 DEF Laid

-----------------------------------------------------------------------------
(* The two ways of putting replacements in.                                *)

\* f is the text that means all the spans at once, character by character.
Grows(f, t, spans) ==
  /\ f \in [0 .. Len(t) -> Seq(Characters)]
  /\ f[0] = Inserted(spans, 0)
  /\ \A k \in 1 .. Len(t) : f[k] = f[k - 1] \o Remains(t, spans, k) \o Inserted(spans, k)

\* b is the text as the code rebuilds it, span by span and from the back.
Built == [text: Seq(Characters), cursor: Nat]
Shrinks(b, t, o) ==
  /\ b \in [0 .. Len(o) -> Built]
  /\ b[0] = [text |-> <<>>, cursor |-> Len(t)]
  /\ \A k \in 1 .. Len(o) : b[k] = Put(t, b[k - 1], o[Len(o) + 1 - k])

Texted(spans) == \A s \in spans : s.replacement \in Seq(Characters)

\* What is inserted and kept is made of characters.
LEMMA PiecesAreTexts ==
  ASSUME NEW t \in Seq(Characters), NEW spans, Texted(spans),
         NEW k \in Nat
  PROVE  /\ Inserted(spans, k) \in Seq(Characters)
         /\ k \in 1 .. Len(t) => Remains(t, spans, k) \in Seq(Characters)
  <1>1. <<>> \in Seq(Characters)
    BY EmptySeq
  <1>2. Inserted(spans, k) \in Seq(Characters)
    <2> DEFINE here == {s \in spans : s.start = k}
    <2>1. CASE here = {}
      BY <1>1, <2>1 DEF Inserted
    <2>2. CASE here # {}
      <3>1. Inserted(spans, k) = (CHOOSE s \in here : TRUE).replacement
        BY <2>2 DEF Inserted
      <3>2. (CHOOSE s \in here : TRUE) \in here
        BY <2>2
      <3> QED
        BY <3>1, <3>2 DEF Texted
    <2> QED
      BY <2>1, <2>2
  <1>3. ASSUME k \in 1 .. Len(t)
        PROVE  Remains(t, spans, k) \in Seq(Characters)
    <2>1. t[k] \in Characters
      BY <1>3, ElementOfSeq
    <2>2. <<t[k]>> \in Seq(Characters)
      BY <2>1
    <2> QED
      BY <1>1, <2>2 DEF Remains
  <1> QED
    BY <1>2, <1>3

\* Simultaneous grows character by character.
LEMMA SimultaneousGrows ==
  ASSUME NEW t \in Seq(Characters), NEW spans, Texted(spans)
  PROVE  \E f : Grows(f, t, spans) /\ Simultaneous(t, spans) = f[Len(t)]
  <1> DEFINE n == Len(t)
             V == Seq(Characters)
             kept(k) == Remains(t, spans, k)
             in(k) == Inserted(spans, k)
             IsUpTo(f) == f = [k \in 0 .. n |-> IF k = 0 THEN Inserted(spans, 0)
                                ELSE f[k - 1] \o Remains(t, spans, k) \o Inserted(spans, k)]
             upTo == CHOOSE f : IsUpTo(f)
             g == [x \in Nat \X V |-> IF x[1] \in 1 .. n THEN x[2] \o kept(x[1]) \o in(x[1]) ELSE x[2]]
  <1>1. n \in Nat
    BY LenProperties
  <1>2. /\ in(0) \in V
        /\ \A k \in 1 .. n : kept(k) \in V /\ in(k) \in V
    BY <1>1, PiecesAreTexts
  <1> HIDE DEF n, V, kept, in
  <1>3. ASSUME NEW x \in V, NEW k \in 1 .. n
        PROVE  x \o kept(k) \o in(k) \in V
    <2>1. x \o kept(k) \in V
      BY <1>2, ConcatProperties DEF V
    <2> QED
      BY <1>2, <2>1, ConcatProperties DEF V
  <1>4. g \in [Nat \X V -> V]
    BY <1>3
  <1>5. ASSUME NEW k \in 1 .. n, NEW x \in V
        PROVE  g[<<k, x>>] = x \o kept(k) \o in(k)
    <2> DEFINE e == <<k, x>>
    <2>1. e \in Nat \X V /\ e[1] = k /\ e[2] = x
      OBVIOUS
    <2> HIDE DEF e
    <2>2. g[e] = e[2] \o kept(e[1]) \o in(e[1])
      BY <2>1
    <2>3. g[e] = x \o kept(k) \o in(k)
      BY <2>1, <2>2
    <2> QED
      BY <2>3 DEF e
  <1> HIDE DEF g
  <1>6. PICK f \in [0 .. n -> V] : Follows(f, in(0), g, n)
    BY <1>1, <1>2, <1>4, Recursion
  <1>7. \A k \in 1 .. n : k - 1 \in 0 .. n /\ f[k - 1] \in V
    BY <1>1, <1>6
  <1>8. \A k \in 1 .. n : f[k] = f[k - 1] \o kept(k) \o in(k)
    BY <1>5, <1>6, <1>7 DEF Follows
  <1>9. f[0] = in(0)
    BY <1>6 DEF Follows
  <1> DEFINE step(h, k) == IF k = 0 THEN in(0) ELSE h[k - 1] \o kept(k) \o in(k)
  <1>10. IsUpTo(f)
    <2>1. ASSUME NEW k \in 0 .. n
          PROVE  f[k] = step(f, k)
      <3>1. k = 0 \/ k \in 1 .. n
        BY <1>1
      <3> QED
        BY <1>8, <1>9, <3>1
    <2> HIDE DEF step
    <2>2. f = [k \in 0 .. n |-> step(f, k)]
      BY <1>6, <2>1
    <2> QED
      BY <2>2, Zenon DEF step, kept, in
  <1>11. Simultaneous(t, spans) = upTo[n]
    BY Zenon DEF Simultaneous, n
  <1>12. IsUpTo(upTo)
    <2> HIDE DEF IsUpTo
    <2> QED
      BY <1>10, Zenon
  <1> HIDE DEF upTo
  <1>13. upTo = [k \in 0 .. n |-> step(upTo, k)]
    BY <1>12, Zenon DEF kept, in
  <1> HIDE DEF step
  <1>14. DOMAIN upTo = 0 .. n /\ \A k \in 0 .. n : upTo[k] = step(upTo, k)
    BY <1>13
  <1>15. upTo[0] = in(0)
    BY <1>1, <1>14 DEF step
  <1>16. ASSUME NEW k \in 1 .. n
         PROVE  upTo[k] = upTo[k - 1] \o kept(k) \o in(k)
    <2>1. k \in 0 .. n /\ k # 0
      BY <1>1
    <2> QED
      BY <1>14, <2>1 DEF step
  <1>17. \A k \in 0 .. n : upTo[k] \in V
    <2> DEFINE A == {k \in 0 .. n : upTo[k] \in V}
    <2>1. 0 \in A
      BY <1>1, <1>2, <1>15
    <2>2. ASSUME NEW k \in 1 .. n, k - 1 \in A
          PROVE  k \in A
      <3>1. upTo[k - 1] \in V
        BY <2>2
      <3>2. upTo[k] \in V
        BY <1>3, <1>16, <3>1
      <3> QED
        BY <1>1, <3>2
    <2>3. A \in SUBSET (0 .. n)
      OBVIOUS
    <2> HIDE DEF A
    <2>4. A = 0 .. n
      BY <1>1, <2>1, <2>2, <2>3, InductUpTo
    <2> QED
      BY <2>4 DEF A
  <1>18. upTo \in [0 .. n -> V]
    BY <1>13, <1>14, <1>17
  <1>19. Grows(upTo, t, spans)
    BY <1>15, <1>16, <1>18 DEF Grows, n, V, kept, in
  <1> QED
    BY <1>11, <1>19 DEF n

\* A span put before what is built.
LEMMA PutBuilds ==
  ASSUME NEW t \in Seq(Characters), NEW done \in Built, done.cursor <= Len(t),
         NEW s \in SpanRow(t)
  PROVE  /\ SubSeq(t, s.end + 1, done.cursor) \in Seq(Characters)
         /\ Put(t, done, s) \in Built
         /\ Put(t, done, s).cursor = s.start /\ s.start <= Len(t)
         /\ Put(t, done, s).text =
              s.replacement \o SubSeq(t, s.end + 1, done.cursor) \o done.text
  <1> DEFINE q == SubSeq(t, s.end + 1, done.cursor)
  <1>1. Len(t) \in Nat
    BY LenProperties
  <1>2. /\ s.start \in Nat /\ s.start <= Len(t) /\ s.end \in Nat
        /\ s.replacement \in Seq(Characters)
    BY <1>1 DEF SpanRow
  <1>3. done.cursor \in Nat /\ done.text \in Seq(Characters)
    BY DEF Built
  <1>4. q \in Seq(Characters)
    <2>1. \A i \in s.end + 1 .. done.cursor : i \in 1 .. Len(t)
      BY <1>1, <1>2, <1>3
    <2>2. \A i \in s.end + 1 .. done.cursor : t[i] \in Characters
      BY <2>1, ElementOfSeq
    <2>3. s.end + 1 \in Int /\ done.cursor \in Int
      BY <1>2, <1>3
    <2> QED
      BY <2>2, <2>3, SubSeqProperties
  <1> HIDE DEF q
  <1>5. s.replacement \o q \in Seq(Characters)
    BY <1>2, <1>4, ConcatProperties
  <1>6. s.replacement \o q \o done.text \in Seq(Characters)
    BY <1>3, <1>5, ConcatProperties
  <1>7. Put(t, done, s) = [text |-> s.replacement \o q \o done.text, cursor |-> s.start]
    BY DEF Put, q
  <1>8. Put(t, done, s) \in Built
    BY <1>2, <1>6, <1>7 DEF Built
  <1>9. Put(t, done, s).cursor = s.start /\ Put(t, done, s).text = s.replacement \o q \o done.text
    <2> DEFINE w == s.replacement \o q \o done.text
    <2>1. Put(t, done, s) = [text |-> w, cursor |-> s.start]
      BY <1>7
    <2> HIDE DEF w
    <2>2. [text |-> w, cursor |-> s.start].cursor = s.start /\ [text |-> w, cursor |-> s.start].text = w
      OBVIOUS
    <2>3. Put(t, done, s).cursor = s.start /\ Put(t, done, s).text = w
      BY <2>1, <2>2, ZenonT(30)
    <2> QED
      BY <2>3 DEF w
  <1> QED
    BY <1>2, <1>4, <1>8, <1>9 DEF q

\* Rebuilt shrinks span by span.
LEMMA RebuiltShrinks ==
  ASSUME NEW t \in Seq(Characters), NEW o, Laid(t, o)
  PROVE  \E b : /\ Shrinks(b, t, o)
                /\ Rebuilt(t, o) = SubSeq(t, 1, b[Len(o)].cursor) \o b[Len(o)].text
  <1> DEFINE n == Len(o)
             V == {d \in Built : d.cursor <= Len(t)}
             v == [text |-> <<>>, cursor |-> Len(t)]
             put(k, d) == Put(t, d, o[n + 1 - k])
             IsBack(f) == f = [k \in 0 .. n |-> IF k = 0 THEN [text |-> <<>>, cursor |-> Len(t)]
                                ELSE Put(t, f[k - 1], o[n + 1 - k])]
             back == CHOOSE f : IsBack(f)
             g == [x \in Nat \X V |-> IF x[1] \in 1 .. n THEN put(x[1], x[2]) ELSE x[2]]
  <1>1. n \in Nat /\ Len(t) \in Nat
    BY LenProperties DEF Laid
  <1>2. v \in V
    BY <1>1, EmptySeq DEF Built
  <1>3. ASSUME NEW k \in 1 .. n, NEW d \in V
        PROVE  put(k, d) \in V
    <2>1. n + 1 - k \in 1 .. n
      BY <1>1
    <2>2. o[n + 1 - k] \in SpanRow(t)
      BY <2>1 DEF Laid
    <2> QED
      BY <2>2, PutBuilds
  <1> HIDE DEF V, put, n, v
  <1>4. g \in [Nat \X V -> V]
    BY <1>3
  <1>5. \A k \in 1 .. n, x \in V : g[<<k, x>>] = put(k, x)
    BY <1>1
  <1> HIDE DEF g
  <1>6. PICK f \in [0 .. n -> V] : Follows(f, v, g, n)
    BY <1>1, <1>2, <1>4, Recursion
  <1>7. \A k \in 1 .. n : k - 1 \in 0 .. n /\ f[k - 1] \in V
    BY <1>1, <1>6
  <1>8. \A k \in 1 .. n : f[k] = put(k, f[k - 1])
    BY <1>5, <1>6, <1>7 DEF Follows
  <1>9. f[0] = v
    BY <1>6 DEF Follows
  <1> DEFINE step(h, k) == IF k = 0 THEN v ELSE put(k, h[k - 1])
  <1>10. IsBack(f)
    <2>1. ASSUME NEW k \in 0 .. n
          PROVE  f[k] = step(f, k)
      <3>1. k = 0 \/ k \in 1 .. n
        BY <1>1
      <3> QED
        BY <1>8, <1>9, <3>1
    <2> HIDE DEF step
    <2>2. f = [k \in 0 .. n |-> step(f, k)]
      BY <1>6, <2>1
    <2> QED
      BY <2>2, Zenon DEF step, put, v
  <1>11. Rebuilt(t, o) = SubSeq(t, 1, back[n].cursor) \o back[n].text
    BY Zenon DEF Rebuilt, n
  <1>12. IsBack(back)
    <2> HIDE DEF IsBack
    <2> QED
      BY <1>10, Zenon
  <1> HIDE DEF back
  <1>13. back = [k \in 0 .. n |-> step(back, k)]
    BY <1>12, Zenon DEF put, v
  <1> HIDE DEF step
  <1>14. DOMAIN back = 0 .. n /\ \A k \in 0 .. n : back[k] = step(back, k)
    BY <1>13
  <1>15. back[0] = v
    BY <1>1, <1>14 DEF step
  <1>16. ASSUME NEW k \in 1 .. n
         PROVE  back[k] = put(k, back[k - 1])
    <2>1. k \in 0 .. n /\ k # 0
      BY <1>1
    <2> QED
      BY <1>14, <2>1 DEF step
  <1>17. \A k \in 0 .. n : back[k] \in V
    <2> DEFINE A == {k \in 0 .. n : back[k] \in V}
    <2>1. 0 \in A
      BY <1>1, <1>2, <1>15
    <2>2. ASSUME NEW k \in 1 .. n, k - 1 \in A
          PROVE  k \in A
      <3>1. back[k - 1] \in V
        BY <2>2
      <3>2. back[k] \in V
        BY <1>3, <1>16, <3>1
      <3> QED
        BY <1>1, <3>2
    <2>3. A \in SUBSET (0 .. n)
      OBVIOUS
    <2> HIDE DEF A
    <2>4. A = 0 .. n
      BY <1>1, <2>1, <2>2, <2>3, InductUpTo
    <2> QED
      BY <2>4 DEF A
  <1>18. back \in [0 .. n -> Built]
    <2>1. \A k \in 0 .. n : back[k] \in Built
      BY <1>17 DEF V
    <2> QED
      BY <1>13, <2>1
  <1>19. Shrinks(back, t, o)
    BY <1>15, <1>16, <1>18 DEF Shrinks, n, put, v
  <1> QED
    BY <1>11, <1>19 DEF n

\* Pieces one after the other, put together from either side.
ThreeLeft(p, r, q) == (p \o r) \o q
ThreeRight(p, r, q) == p \o (r \o q)
FourLeft(p, r, q, w) == ((p \o r) \o q) \o w
FourRight(p, r, q, w) == p \o ((r \o q) \o w)

LEMMA JoinThree ==
  ASSUME NEW p \in Seq(Characters), NEW r \in Seq(Characters), NEW q \in Seq(Characters)
  PROVE  ThreeLeft(p, r, q) = ThreeRight(p, r, q)
  <1>1. (p \o r) \o q = p \o (r \o q)
    BY ConcatAssociative
  <1> QED
    BY <1>1, Zenon DEF ThreeLeft, ThreeRight

LEMMA JoinFour ==
  ASSUME NEW p \in Seq(Characters), NEW r \in Seq(Characters), NEW q \in Seq(Characters),
         NEW w \in Seq(Characters)
  PROVE  FourLeft(p, r, q, w) = FourRight(p, r, q, w)
  <1> DEFINE x == r \o q
  <1>1. x \in Seq(Characters)
    BY ConcatProperties
  <1>2. ThreeLeft(p, r, q) = ThreeRight(p, r, q)
    BY JoinThree
  <1>3. (p \o r) \o q = p \o x
    BY <1>2, Zenon DEF ThreeLeft, ThreeRight
  <1> HIDE DEF x
  <1>4. ThreeLeft(p, x, w) = ThreeRight(p, x, w)
    BY <1>1, JoinThree
  <1>5. (p \o x) \o w = p \o (x \o w)
    BY <1>4, Zenon DEF ThreeLeft, ThreeRight
  <1> QED
    BY <1>3, <1>5, Zenon DEF FourLeft, FourRight, x

\* One more character of a stretch, a part that was taken out aside.
LEMMA StretchByOne ==
  ASSUME NEW S, NEW t \in Seq(S), NEW e \in Nat, NEW c \in 1 .. Len(t), e <= c - 1 \/ c <= e
  PROVE  /\ SubSeq(t, e + 1, c - 1) \in Seq(S)
         /\ SubSeq(t, e + 1, c) =
              SubSeq(t, e + 1, c - 1) \o (IF c <= e THEN <<>> ELSE <<t[c]>>)
  <1>1. Len(t) \in Nat
    BY LenProperties
  <1>2. SubSeq(t, e + 1, c - 1) \in Seq(S)
    <2>1. \A i \in e + 1 .. c - 1 : i \in 1 .. Len(t)
      BY <1>1
    <2>2. \A i \in e + 1 .. c - 1 : t[i] \in S
      BY <2>1, ElementOfSeq
    <2> QED
      BY <2>2, SubSeqProperties
  <1>3. CASE c <= e
    <2>1. SubSeq(t, e + 1, c) = <<>> /\ SubSeq(t, e + 1, c - 1) = <<>>
      BY <1>1, <1>3, SubSeqEmpty
    <2>2. <<>> \o <<>> = <<>>
      BY <1>2, <2>1, ConcatEmptySeq
    <2> QED
      BY <1>2, <1>3, <2>1, <2>2
  <1>4. CASE ~(c <= e)
    <2>1. e + 1 \in 1 .. Len(t) /\ c \in e + 1 .. Len(t)
      BY <1>1, <1>4
    <2>2. SubSeq(t, e + 1, c) = SubSeq(t, e + 1, c - 1) \o <<t[c]>>
      BY <2>1, SubSeqRecursiveSecond
    <2> QED
      BY <1>2, <1>4, <2>2
  <1> QED
    BY <1>3, <1>4

\* The text before what is inserted at k.
UpTo(f, t, spans, k) == IF k = 0 THEN <<>> ELSE f[k - 1] \o Remains(t, spans, k)

LEMMA GrowsByPieces ==
  ASSUME NEW t \in Seq(Characters), NEW spans, Texted(spans),
         NEW f, Grows(f, t, spans), NEW k \in 0 .. Len(t)
  PROVE  /\ UpTo(f, t, spans, k) \in Seq(Characters)
         /\ f[k] = UpTo(f, t, spans, k) \o Inserted(spans, k)
  <1>1. Len(t) \in Nat
    BY LenProperties
  <1>2. k \in Nat
    BY <1>1
  <1>3. Inserted(spans, k) \in Seq(Characters)
    BY <1>2, PiecesAreTexts
  <1>4. CASE k = 0
    <2>1. UpTo(f, t, spans, k) = <<>> /\ f[k] = Inserted(spans, k)
      BY <1>4 DEF UpTo, Grows
    <2> QED
      BY <1>3, <2>1, EmptySeq, ConcatEmptySeq
  <1>5. CASE k # 0
    <2>1. k \in 1 .. Len(t) /\ k - 1 \in 0 .. Len(t)
      BY <1>1, <1>5
    <2>2. f[k - 1] \in Seq(Characters) /\ Remains(t, spans, k) \in Seq(Characters)
      BY <1>2, <2>1, PiecesAreTexts DEF Grows
    <2>3. UpTo(f, t, spans, k) = f[k - 1] \o Remains(t, spans, k)
      BY <1>5 DEF UpTo
    <2>4. f[k] = f[k - 1] \o Remains(t, spans, k) \o Inserted(spans, k)
      BY <2>1 DEF Grows
    <2> QED
      BY <2>2, <2>3, <2>4, ConcatProperties
  <1> QED
    BY <1>4, <1>5

\* From a on and before limit nothing is inserted, and what is taken out ends at e.
Quiet(t, spans, a, e, limit) ==
  \A c \in a + 1 .. limit :
     /\ c < limit => Inserted(spans, c) = <<>>
     /\ Remains(t, spans, c) = IF c <= e THEN <<>> ELSE <<t[c]>>

\* What stands there is a part of the original.
Reaches(f, t, spans, a, e, limit) ==
  (IF limit = a THEN f[a] ELSE UpTo(f, t, spans, limit)) = f[a] \o SubSeq(t, e + 1, limit)

\* There the text grows by a part of the original.
LEMMA Stretch ==
  ASSUME NEW t \in Seq(Characters), NEW spans, Texted(spans),
         NEW f, Grows(f, t, spans),
         NEW limit \in 0 .. Len(t), NEW a \in 0 .. limit, NEW e \in Nat, a <= e,
         Quiet(t, spans, a, e, limit)
  PROVE  Reaches(f, t, spans, a, e, limit)
  <1> DEFINE x == f[a]
             m == limit - a
             up(c) == IF c = a THEN x ELSE UpTo(f, t, spans, c)
             A == {d \in 0 .. m : up(a + d) = x \o SubSeq(t, e + 1, a + d)}
  <1>1. Len(t) \in Nat /\ limit \in Nat /\ a \in Nat /\ m \in Nat
    BY LenProperties
  <1>2. x \in Seq(Characters)
    <2>1. a \in 0 .. Len(t)
      BY <1>1
    <2> QED
      BY <2>1 DEF Grows
  <1>3. 0 \in A
    <2>1. SubSeq(t, e + 1, a) = <<>>
      BY <1>1, SubSeqEmpty
    <2>2. x \o <<>> = x
      BY <1>2, ConcatEmptySeq
    <2>3. a + 0 = a /\ 0 \in 0 .. m
      BY <1>1
    <2> QED
      BY <2>1, <2>2, <2>3
  <1>4. ASSUME NEW d \in 1 .. m, d - 1 \in A
        PROVE  d \in A
    <2> DEFINE c == a + d
               q == SubSeq(t, e + 1, c - 1)
    <2>0. d \in Int /\ 1 <= d /\ d <= limit - a /\ limit <= Len(t)
      BY <1>1
    <2> DEFINE len == Len(t)
    <2>1. /\ c \in 1 .. Len(t) /\ c \in a + 1 .. limit /\ c \in Nat /\ c # a
          /\ c - 1 \in 0 .. Len(t) /\ c - 1 = a + (d - 1) /\ (c - 1 = a \/ c - 1 \in a + 1 .. limit)
          /\ c - 1 < limit /\ (e <= c - 1 \/ c <= e) /\ d \in 0 .. m
      <3>1. len \in Nat /\ limit \in Nat /\ a \in Nat /\ limit <= len /\ d \in Int /\ 1 <= d
            /\ d <= limit - a
        BY <1>1, <2>0
      <3> HIDE DEF len
      <3>2. c \in 1 .. len /\ c \in a + 1 .. limit /\ c \in Nat /\ c # a /\ d \in 0 .. m
        BY <3>1
      <3>3. c - 1 \in 0 .. len /\ c - 1 = a + (d - 1) /\ c - 1 < limit /\ (e <= c - 1 \/ c <= e)
        BY <3>1
      <3>4. c - 1 = a \/ c - 1 \in a + 1 .. limit
        BY <3>1
      <3> QED
        BY <3>2, <3>3, <3>4 DEF len
    <2>2. up(c - 1) = x \o q
      BY <1>4, <2>1
    <2> HIDE DEF c, x, q
    <2>3. f[c - 1] = up(c - 1)
      <3>1. CASE c - 1 = a
        BY <3>1 DEF x
      <3>2. CASE c - 1 # a
        <4>1. Inserted(spans, c - 1) = <<>>
          BY <2>1, <3>2 DEF Quiet
        <4>2. /\ UpTo(f, t, spans, c - 1) \in Seq(Characters)
              /\ f[c - 1] = UpTo(f, t, spans, c - 1) \o Inserted(spans, c - 1)
          BY <2>1, GrowsByPieces
        <4> QED
          BY <3>2, <4>1, <4>2, ConcatEmptySeq
      <3> QED
        BY <3>1, <3>2
    <2>4. /\ q \in Seq(Characters)
          /\ SubSeq(t, e + 1, c) = q \o (IF c <= e THEN <<>> ELSE <<t[c]>>)
      BY <2>1, StretchByOne DEF q
    <2>5. Remains(t, spans, c) \in Seq(Characters) /\ SubSeq(t, e + 1, c) = q \o Remains(t, spans, c)
      BY <2>1, <2>4, PiecesAreTexts DEF Quiet
    <2>6. up(c) = f[c - 1] \o Remains(t, spans, c)
      BY <2>1 DEF UpTo
    <2>7. up(c) = (x \o q) \o Remains(t, spans, c)
      BY <2>2, <2>3, <2>6
    <2>8. up(c) = x \o SubSeq(t, e + 1, c)
      <3> DEFINE kept == Remains(t, spans, c)
      <3>1. x \in Seq(Characters)
        BY <1>2 DEF x
      <3>2. kept \in Seq(Characters) /\ q \in Seq(Characters)
        BY <2>4, <2>5
      <3>3. up(c) = (x \o q) \o kept /\ SubSeq(t, e + 1, c) = q \o kept
        BY <2>5, <2>7
      <3> HIDE DEF kept, up
      <3>4. ThreeLeft(x, q, kept) = ThreeRight(x, q, kept)
        BY <3>1, <3>2, JoinThree
      <3> QED
        BY <3>3, <3>4, Zenon DEF ThreeLeft, ThreeRight
    <2> QED
      BY <2>1, <2>8 DEF c, x
  <1>5. A \in SUBSET (0 .. m)
    OBVIOUS
  <1> HIDE DEF A
  <1>6. A = 0 .. m
    BY <1>1, <1>3, <1>4, <1>5, InductUpTo
  <1>7. m \in A /\ a + m = limit
    BY <1>1, <1>6
  <1> QED
    BY <1>7 DEF A, Reaches

SpansOf(o) == {o[i] : i \in 1 .. Len(o)}
Pieces(t, o, spans) ==
  /\ Texted(spans)
  /\ \A i \in 1 .. Len(o) : Inserted(spans, o[i].start) = o[i].replacement
  /\ \A k \in Nat : (\A i \in 1 .. Len(o) : o[i].start # k) => Inserted(spans, k) = <<>>
  /\ \A k \in 1 .. Len(t), e \in Nat :
       (k <= e <=> \E i \in 1 .. Len(o) : o[i].start < k /\ k <= o[i].end)
         => Remains(t, spans, k) = IF k <= e THEN <<>> ELSE <<t[k]>>

\* What the spans of a list insert and take out.
LEMMA LaidPieces ==
  ASSUME NEW t \in Seq(Characters), NEW o, Laid(t, o), NEW spans, spans = SpansOf(o)
  PROVE  Pieces(t, o, spans)
  <1>0. spans = {o[i] : i \in 1 .. Len(o)}
    BY DEF SpansOf
  <1>1. Texted(spans)
    <2> SUFFICES ASSUME NEW s \in spans PROVE s.replacement \in Seq(Characters)
      BY DEF Texted
    <2>1. s \in SpanRow(t)
      BY <1>0 DEF Laid
    <2> QED
      BY <2>1 DEF SpanRow
  <1>2. ASSUME NEW i \in 1 .. Len(o)
        PROVE  Inserted(spans, o[i].start) = o[i].replacement
    <2> DEFINE here == {s \in spans : s.start = o[i].start}
    <2>1. o[i] \in here
      BY <1>0
    <2>2. ASSUME NEW s \in here
          PROVE  s = o[i]
      <3>1. PICK j \in 1 .. Len(o) : s = o[j]
        BY <1>0
      <3>2. o[i].start \in Int /\ o[j].start = o[i].start
        BY <3>1 DEF Laid, SpanRow
      <3>3. ~(i < j) /\ ~(j < i)
        BY <3>2 DEF Laid
      <3>4. i = j
        BY <3>3
      <3> QED
        BY <3>1, <3>4
    <2>3. Inserted(spans, o[i].start) = (CHOOSE s \in here : TRUE).replacement
      BY <2>1 DEF Inserted
    <2> HIDE DEF here
    <2>4. (CHOOSE s \in here : TRUE) = o[i]
      BY <2>1, <2>2
    <2> QED
      BY <2>3, <2>4
  <1>3. ASSUME NEW k \in Nat, \A i \in 1 .. Len(o) : o[i].start # k
        PROVE  Inserted(spans, k) = <<>>
    <2>1. {s \in spans : s.start = k} = {}
      BY <1>0, <1>3
    <2> QED
      BY <2>1 DEF Inserted
  <1>4. ASSUME NEW k \in 1 .. Len(t), NEW e \in Nat,
               k <= e <=> \E i \in 1 .. Len(o) : o[i].start < k /\ k <= o[i].end
        PROVE  Remains(t, spans, k) = IF k <= e THEN <<>> ELSE <<t[k]>>
    <2>1. (\E s \in spans : s.start < k /\ k <= s.end)
            <=> \E i \in 1 .. Len(o) : o[i].start < k /\ k <= o[i].end
      BY <1>0
    <2> QED
      BY <1>4, <2>1 DEF Remains
  <1> QED
    BY <1>1, <1>2, <1>3, <1>4 DEF Pieces

Limit(t, o, i) == IF i = Len(o) THEN Len(t) ELSE o[i + 1].start
Bridges(f, t, spans, o, i, limit) ==
  (IF limit = o[i].start THEN f[limit] ELSE UpTo(f, t, spans, limit)) =
      UpTo(f, t, spans, o[i].start) \o o[i].replacement \o SubSeq(t, o[i].end + 1, limit)

\* Between two spans, and after the last one, the original goes on.
LEMMA AfterSpan ==
  ASSUME NEW t \in Seq(Characters), NEW o, Laid(t, o),
         NEW spans, spans = SpansOf(o), NEW f, Grows(f, t, spans),
         NEW i \in 1 .. Len(o), NEW limit \in 0 .. Len(t), limit = Limit(t, o, i)
  PROVE  Bridges(f, t, spans, o, i, limit)
  <1> DEFINE a == o[i].start
             e == o[i].end
  <1>1. Len(o) \in Nat /\ Len(t) \in Nat
    BY LenProperties DEF Laid
  <1>2. \A j \in 1 .. Len(o) : /\ o[j].start \in 0 .. Len(t) /\ o[j].end \in 0 .. Len(t)
                               /\ o[j].start <= o[j].end
    BY DEF Laid, SpanRow
  <1>3. a \in 0 .. limit /\ e \in Nat /\ a <= e /\ a \in 0 .. Len(t) /\ a \in Nat /\ limit \in Nat
    <2>1. CASE i = Len(o)
      BY <1>1, <1>2, <2>1 DEF Limit
    <2>2. CASE i # Len(o)
      <3>1. i + 1 \in 1 .. Len(o) /\ i < i + 1
        BY <1>1, <2>2
      <3>2. a < o[i + 1].start
        BY <3>1 DEF Laid
      <3> QED
        BY <1>1, <1>2, <2>2, <3>1, <3>2 DEF Limit
    <2> QED
      BY <2>1, <2>2
  <1>4. ASSUME NEW j \in 1 .. Len(o), j # i
        PROVE  (j < i /\ o[j].start < a /\ o[j].end <= a) \/ o[j].start >= limit
    <2>1. CASE j < i
      BY <2>1 DEF Laid
    <2>2. CASE i < j
      <3>1. i # Len(o) /\ i + 1 \in 1 .. Len(o) /\ (j = i + 1 \/ i + 1 < j)
        BY <1>1, <2>2
      <3>2. j = i + 1 \/ o[i + 1].start < o[j].start
        BY <3>1 DEF Laid
      <3>3. o[i + 1].start \in Int /\ o[j].start \in Int
        BY <1>2, <3>1
      <3> QED
        BY <3>1, <3>2, <3>3 DEF Limit
    <2> QED
      BY <1>4, <2>1, <2>2
  <1>5. /\ Texted(spans)
        /\ Inserted(spans, a) = o[i].replacement
        /\ \A k \in Nat : (\A j \in 1 .. Len(o) : o[j].start # k) => Inserted(spans, k) = <<>>
        /\ \A k \in 1 .. Len(t), x \in Nat :
              (k <= x <=> \E j \in 1 .. Len(o) : o[j].start < k /\ k <= o[j].end)
                => Remains(t, spans, k) = IF k <= x THEN <<>> ELSE <<t[k]>>
    <2>1. Pieces(t, o, spans)
      BY LaidPieces
    <2> QED
      BY <2>1 DEF Pieces
  <1>6. ASSUME NEW c \in a + 1 .. limit, c < limit
        PROVE  Inserted(spans, c) = <<>>
    <2>1. c \in Nat /\ a < c
      BY <1>3
    <2>2. ASSUME NEW j \in 1 .. Len(o)
          PROVE  o[j].start # c
      <3>1. o[j].start \in Int
        BY <1>2
      <3>2. CASE j = i
        BY <2>1, <3>2
      <3>3. CASE j # i
        BY <1>3, <1>4, <1>6, <2>1, <3>1, <3>3
      <3> QED
        BY <3>2, <3>3
    <2> QED
      BY <1>5, <2>1, <2>2
  <1>7. ASSUME NEW c \in a + 1 .. limit
        PROVE  Remains(t, spans, c) = IF c <= e THEN <<>> ELSE <<t[c]>>
    <2>1. c \in 1 .. Len(t) /\ c \in Nat /\ a < c /\ c <= limit
      BY <1>1, <1>3
    <2>2. ASSUME NEW j \in 1 .. Len(o), o[j].start < c, c <= o[j].end
          PROVE  c <= e
      <3>1. o[j].start \in Int /\ o[j].end \in Int
        BY <1>2
      <3>2. CASE j = i
        BY <2>2, <3>2
      <3>3. CASE j # i
        BY <1>3, <1>4, <2>1, <2>2, <3>1, <3>3
      <3> QED
        BY <3>2, <3>3
    <2>3. c <= e <=> \E j \in 1 .. Len(o) : o[j].start < c /\ c <= o[j].end
      BY <2>1, <2>2
    <2> QED
      BY <1>3, <1>5, <2>1, <2>3
  <1>8. Reaches(f, t, spans, a, e, limit)
    <2>1. Texted(spans)
      BY <1>5
    <2> HIDE DEF a, e
    <2>2. Quiet(t, spans, a, e, limit)
      BY <1>6, <1>7 DEF Quiet
    <2> QED
      BY <1>3, <2>1, <2>2, Stretch
  <1>9. f[a] = UpTo(f, t, spans, a) \o o[i].replacement
    <2>1. Texted(spans) /\ Inserted(spans, a) = o[i].replacement
      BY <1>5
    <2> HIDE DEF a
    <2>2. f[a] = UpTo(f, t, spans, a) \o Inserted(spans, a)
      BY <1>3, <2>1, GrowsByPieces
    <2> QED
      BY <2>1, <2>2
  <1> QED
    BY <1>8, <1>9, Zenon DEF Reaches, Bridges

\* Before the first span the original stands.
LEMMA BeforeSpans ==
  ASSUME NEW t \in Seq(Characters), NEW o, Laid(t, o), Len(o) # 0,
         NEW spans, spans = SpansOf(o), NEW f, Grows(f, t, spans)
  PROVE  UpTo(f, t, spans, o[1].start) = SubSeq(t, 1, o[1].start)
  <1> DEFINE limit == o[1].start
  <1>1. Len(o) \in Nat /\ Len(t) \in Nat /\ 1 \in 1 .. Len(o)
    BY LenProperties DEF Laid
  <1>2. \A j \in 1 .. Len(o) : o[j].start \in 0 .. Len(t) /\ o[j].end \in 0 .. Len(t)
    BY DEF Laid, SpanRow
  <1>3. limit \in 0 .. Len(t) /\ limit \in Nat
    BY <1>1, <1>2
  <1>4. \A j \in 1 .. Len(o) : o[j].start >= limit
    <2> SUFFICES ASSUME NEW j \in 1 .. Len(o) PROVE o[j].start >= limit
      OBVIOUS
    <2>1. o[j].start \in Int /\ (j = 1 \/ 1 < j)
      BY <1>2
    <2>2. j = 1 \/ limit < o[j].start
      BY <1>1, <2>1 DEF Laid
    <2> QED
      BY <1>3, <2>1, <2>2
  <1>5. /\ Texted(spans)
        /\ \A k \in Nat : (\A j \in 1 .. Len(o) : o[j].start # k) => Inserted(spans, k) = <<>>
        /\ \A k \in 1 .. Len(t), x \in Nat :
              (k <= x <=> \E j \in 1 .. Len(o) : o[j].start < k /\ k <= o[j].end)
                => Remains(t, spans, k) = IF k <= x THEN <<>> ELSE <<t[k]>>
    <2>1. Pieces(t, o, spans)
      BY LaidPieces
    <2> QED
      BY <2>1 DEF Pieces
  <1>6. CASE limit = 0
    <2>1. SubSeq(t, 1, limit) = <<>>
      BY <1>6, SubSeqEmpty
    <2> QED
      BY <1>6, <2>1 DEF UpTo
  <1>7. CASE limit # 0
    <2>1. ASSUME NEW c \in 0 .. limit, c < limit
          PROVE  Inserted(spans, c) = <<>>
      <3>1. c \in Nat
        OBVIOUS
      <3>2. ASSUME NEW j \in 1 .. Len(o)
            PROVE  o[j].start # c
        BY <1>2, <1>3, <1>4, <2>1, <3>1
      <3> QED
        BY <1>5, <3>1, <3>2
    <2>2. ASSUME NEW c \in 1 .. limit
          PROVE  Remains(t, spans, c) = IF c <= 0 THEN <<>> ELSE <<t[c]>>
      <3>1. c \in 1 .. Len(t) /\ ~(c <= 0) /\ c <= limit
        BY <1>1, <1>3
      <3>2. ASSUME NEW j \in 1 .. Len(o)
            PROVE  ~(o[j].start < c)
        BY <1>2, <1>3, <1>4, <3>1
      <3>3. c <= 0 <=> \E j \in 1 .. Len(o) : o[j].start < c /\ c <= o[j].end
        BY <3>1, <3>2
      <3> QED
        BY <1>5, <3>1, <3>3
    <2>3. Quiet(t, spans, 0, 0, limit)
      <3> SUFFICES ASSUME NEW c \in 1 .. limit
                   PROVE  /\ c < limit => Inserted(spans, c) = <<>>
                          /\ Remains(t, spans, c) = IF c <= 0 THEN <<>> ELSE <<t[c]>>
        BY DEF Quiet
      <3>1. c \in 0 .. limit
        OBVIOUS
      <3> QED
        BY <2>1, <2>2, <3>1
    <2>4. Texted(spans)
      BY <1>5
    <2>5. 0 \in 0 .. limit /\ 0 \in Nat /\ 0 <= 0
      BY <1>3
    <2> HIDE DEF limit
    <2>6. Reaches(f, t, spans, 0, 0, limit)
      BY <1>3, <2>3, <2>4, <2>5, Stretch
    <2>7. f[0] = <<>>
      <3>1. Inserted(spans, 0) = <<>>
        BY <1>3, <1>7, <2>1, <2>5
      <3> QED
        BY <3>1 DEF Grows
    <2>8. SubSeq(t, 1, limit) \in Seq(Characters)
      <3>1. \A k \in 1 .. limit : k \in 1 .. Len(t)
        BY <1>1, <1>3
      <3>2. \A k \in 1 .. limit : t[k] \in Characters
        BY <3>1, ElementOfSeq
      <3> QED
        BY <1>3, <3>2, SubSeqProperties
    <2>9. <<>> \o SubSeq(t, 1, limit) = SubSeq(t, 1, limit)
      BY <2>8, ConcatEmptySeq
    <2>10. 0 + 1 = 1
      OBVIOUS
    <2>11. UpTo(f, t, spans, limit) = f[0] \o SubSeq(t, 1, limit)
      BY <1>7, <2>6, <2>10 DEF Reaches
    <2> QED
      BY <2>7, <2>9, <2>11 DEF limit
  <1> QED
    BY <1>6, <1>7

\* Putting the replacements in from the back is putting them in at once.
LEMMA RebuiltIsSimultaneous ==
  ASSUME NEW t \in Seq(Characters), NEW o, Laid(t, o), Len(o) # 0,
         NEW spans, spans = SpansOf(o)
  PROVE  Rebuilt(t, o) = Simultaneous(t, spans) /\ Rebuilt(t, o) \in Seq(Characters)
  <1> DEFINE n == Len(o)
  <1>1. n \in Nat /\ n # 0 /\ Len(t) \in Nat
    BY LenProperties DEF Laid
  <1>2. /\ Texted(spans)
        /\ \A i \in 1 .. Len(o) : Inserted(spans, o[i].start) = o[i].replacement
        /\ \A k \in Nat : (\A i \in 1 .. Len(o) : o[i].start # k) => Inserted(spans, k) = <<>>
    <2>1. Pieces(t, o, spans)
      BY LaidPieces
    <2> QED
      BY <2>1 DEF Pieces
  <1>3. \A i \in 1 .. n : /\ o[i] \in SpanRow(t) /\ o[i].start \in 0 .. Len(t)
                          /\ o[i].end \in 0 .. Len(t) /\ o[i].start <= o[i].end
                          /\ o[i].replacement \in Seq(Characters)
    BY DEF Laid, SpanRow
  <1>4. PICK f : Grows(f, t, spans) /\ Simultaneous(t, spans) = f[Len(t)]
    BY <1>2, SimultaneousGrows
  <1>5. PICK b : Shrinks(b, t, o) /\ Rebuilt(t, o) = SubSeq(t, 1, b[n].cursor) \o b[n].text
    BY RebuiltShrinks
  <1> DEFINE up(k) == UpTo(f, t, spans, k)
             all == f[Len(t)]
             Done(k) == IF k = 0 THEN b[k].cursor = Len(t) /\ b[k].text = <<>>
                        ELSE b[k].cursor = o[n + 1 - k].start /\ all = up(b[k].cursor) \o b[k].text
             A == {k \in 0 .. n : Done(k)}
  <1>6. 0 \in A
    <2>1. Done(0)
      BY <1>5 DEF Shrinks
    <2> QED
      BY <1>1, <2>1
  <1>7. ASSUME NEW k \in 1 .. n, k - 1 \in A
        PROVE  k \in A
    <2> DEFINE i == n + 1 - k
               d == b[k - 1]
               s == o[i]
               q == SubSeq(t, s.end + 1, d.cursor)
    <2>1. i \in 1 .. n /\ k - 1 \in 0 .. n /\ k \in 0 .. n /\ k # 0
      BY <1>1
    <2>2. d \in Built /\ b[k] = Put(t, d, s)
      BY <1>5, <2>1 DEF Shrinks
    <2>3. Done(k - 1)
      BY <1>7
    <2>4. d.cursor = (IF i = n THEN Len(t) ELSE o[i + 1].start) /\ d.cursor \in 0 .. Len(t)
      <3>1. CASE k = 1
        BY <1>1, <2>3, <3>1
      <3>2. CASE k # 1
        <4>1. k - 1 # 0 /\ n + 1 - (k - 1) = i + 1 /\ i # n /\ i + 1 \in 1 .. n
          BY <1>1, <2>1, <3>2
        <4>2. d.cursor = o[i + 1].start
          BY <2>3, <4>1
        <4> QED
          BY <1>3, <4>1, <4>2
      <3> QED
        BY <3>1, <3>2
    <2>5. s \in SpanRow(t) /\ s.start \in 0 .. Len(t) /\ s.replacement \in Seq(Characters)
      BY <1>3, <2>1
    <2>6. /\ q \in Seq(Characters)
          /\ b[k].cursor = s.start /\ b[k].text = s.replacement \o q \o d.text
      <3>1. d.cursor <= Len(t)
        BY <1>1, <2>4
      <3> HIDE DEF d, s
      <3>2. /\ SubSeq(t, s.end + 1, d.cursor) \in Seq(Characters)
            /\ Put(t, d, s).cursor = s.start
            /\ Put(t, d, s).text = s.replacement \o SubSeq(t, s.end + 1, d.cursor) \o d.text
        BY <2>2, <2>5, <3>1, PutBuilds
      <3> QED
        BY <2>2, <3>2
    <2>7. (IF d.cursor = s.start THEN f[d.cursor] ELSE up(d.cursor)) =
             up(s.start) \o s.replacement \o q
      <3> DEFINE limit == d.cursor
      <3>1. limit \in 0 .. Len(t) /\ limit = Limit(t, o, i)
        BY <2>4 DEF Limit
      <3>2. i \in 1 .. Len(o)
        BY <2>1
      <3> HIDE DEF limit, i
      <3>3. Bridges(f, t, spans, o, i, limit)
        BY <1>4, <3>1, <3>2, AfterSpan
      <3> QED
        BY <3>3, Zenon DEF limit, Bridges
    <2>8. d.text \in Seq(Characters)
      BY <2>2 DEF Built
    <2>9. up(s.start) \in Seq(Characters)
      <3> DEFINE a == s.start
      <3>1. a \in 0 .. Len(t) /\ Texted(spans)
        BY <1>2, <2>5
      <3> HIDE DEF a
      <3>2. UpTo(f, t, spans, a) \in Seq(Characters)
        BY <1>4, <3>1, GrowsByPieces, ZenonT(30)
      <3> QED
        BY <3>2 DEF a
    <2>10. all = (up(s.start) \o s.replacement \o q) \o d.text
      <3>1. CASE k = 1
        <4>1. d.cursor = Len(t) /\ d.text = <<>> /\ i = n
          BY <1>1, <2>3, <3>1
        <4>2. all = IF d.cursor = s.start THEN f[d.cursor] ELSE up(d.cursor)
          <5>1. CASE d.cursor = s.start
            BY <4>1, <5>1
          <5>2. CASE d.cursor # s.start
            <6>1. ASSUME NEW j \in 1 .. Len(o)
                  PROVE  o[j].start # Len(t)
              <7>1. j = n \/ j < n
                BY <1>1
              <7>2. j = n \/ o[j].start < o[n].start
                BY <1>1, <7>1 DEF Laid
              <7>3. o[j].start \in 0 .. Len(t) /\ o[n].start \in 0 .. Len(t)
                BY <1>1, <1>3
              <7> QED
                BY <1>1, <4>1, <5>2, <7>2, <7>3
            <6>2. Inserted(spans, Len(t)) = <<>>
              BY <1>1, <1>2, <6>1
            <6>3. Len(t) \in 0 .. Len(t)
              BY <1>1
            <6>4. up(Len(t)) \in Seq(Characters) /\ all = up(Len(t)) \o Inserted(spans, Len(t))
              BY <1>2, <1>4, <6>3, GrowsByPieces
            <6>5. all = up(Len(t))
              BY <6>2, <6>4, ConcatEmptySeq
            <6> QED
              BY <4>1, <5>2, <6>5
          <5> QED
            BY <5>1, <5>2
        <4>3. up(s.start) \o s.replacement \o q \in Seq(Characters)
          <5>1. up(s.start) \o s.replacement \in Seq(Characters)
            BY <2>5, <2>9, ConcatProperties
          <5> QED
            BY <2>6, <5>1, ConcatProperties
        <4> HIDE DEF all, up, q, d, s
        <4>4. all = up(s.start) \o s.replacement \o q
          BY <2>7, <4>2, Zenon
        <4> QED
          BY <4>1, <4>3, <4>4, ConcatEmptySeq
      <3>2. CASE k # 1
        <4>1. k - 1 # 0 /\ i + 1 \in 1 .. n /\ i # n /\ i < i + 1
          BY <1>1, <2>1, <3>2
        <4>2. d.cursor = o[i + 1].start
          BY <2>4, <4>1
        <4>3. s.start < o[i + 1].start
          BY <2>1, <4>1 DEF Laid
        <4>4. d.cursor # s.start
          <5>1. s.start \in Int /\ o[i + 1].start \in Int
            BY <1>3, <2>1, <4>1
          <5> QED
            BY <4>2, <4>3, <5>1
        <4>5. all = up(d.cursor) \o d.text
          BY <2>3, <4>1
        <4> QED
          BY <2>7, <4>4, <4>5, Zenon
      <3> QED
        BY <3>1, <3>2
    <2>11. all = up(b[k].cursor) \o b[k].text
      <3> HIDE DEF all, up, q, d, s
      <3> DEFINE p == up(s.start)
                 r == s.replacement
                 w == d.text
      <3>1. /\ p \in Seq(Characters) /\ r \in Seq(Characters)
            /\ q \in Seq(Characters) /\ w \in Seq(Characters)
        BY <2>5, <2>6, <2>8, <2>9
      <3>2. all = ((p \o r) \o q) \o w /\ b[k].cursor = s.start /\ b[k].text = (r \o q) \o w
        BY <2>6, <2>10
      <3>3. up(b[k].cursor) = p
        BY <2>6
      <3> HIDE DEF p, r, w
      <3>4. FourLeft(p, r, q, w) = FourRight(p, r, q, w)
        BY <3>1, JoinFour, ZenonT(30)
      <3> QED
        BY <3>2, <3>3, <3>4, Zenon DEF FourLeft, FourRight
    <2>12. b[k].cursor = o[n + 1 - k].start
      BY <2>6
    <2> QED
      BY <2>1, <2>11, <2>12
  <1>8. A \in SUBSET (0 .. n)
    OBVIOUS
  <1> HIDE DEF A
  <1>9. A = 0 .. n
    BY <1>1, <1>6, <1>7, <1>8, InductUpTo
  <1>10. n \in A /\ n + 1 - n = 1 /\ n \in 0 .. n /\ 1 \in 1 .. Len(o)
    BY <1>1, <1>9
  <1>11. b[n].cursor = o[1].start /\ all = up(o[1].start) \o b[n].text
    BY <1>1, <1>10 DEF A
  <1>12. up(o[1].start) = SubSeq(t, 1, o[1].start)
    BY <1>1, <1>4, BeforeSpans
  <1>13. all \in Seq(Characters)
    <2>1. Len(t) \in 0 .. Len(t)
      BY <1>1
    <2> QED
      BY <1>4, <2>1 DEF Grows
  <1> QED
    BY <1>4, <1>5, <1>11, <1>12, <1>13

\* What a call of edits makes of a text is what the edits mean at once.
LEMMA EditedMeans ==
  ASSUME NEW t \in EditTexts, NEW edits \in EditLists, NEW result \in Edited(t, edits)
  PROVE  result.text = Simultaneous(t, result.spans) /\ result.text \in Seq(Characters)
  <1> DEFINE spans == [i \in DOMAIN edits |-> CHOOSE s \in Spans(t, edits[i]) : TRUE]
             o == Ordered(spans)
  <1>1. t \in Seq(Characters) /\ Len(t) \in Nat /\ MaxEditCount \in Nat
    BY TextsAreSequences, LenProperties
  <1>2. PICK n \in 1 .. MaxEditCount : edits \in [1 .. n -> EditRequests]
    BY DEF EditLists
  <1>3. n \in Nat /\ n # 0 /\ DOMAIN edits = 1 .. n
    BY <1>1, <1>2
  <1>4. /\ \A i \in DOMAIN edits : Spans(t, edits[i]) # {}
        /\ ~Overlap(o)
        /\ result = [spans |-> ToSet(spans), text |-> Rebuilt(t, o)]
    <2>1. Edited(t, edits) = IF (\E i \in DOMAIN edits : Spans(t, edits[i]) = {}) \/ Overlap(o)
                             THEN {} ELSE {[spans |-> ToSet(spans), text |-> Rebuilt(t, o)]}
      BY Zenon DEF Edited
    <2> HIDE DEF spans, o
    <2> QED
      BY <2>1
  <1>5. spans \in [1 .. n -> SpanRow(t)]
    <2>1. ASSUME NEW i \in 1 .. n
          PROVE  (CHOOSE s \in Spans(t, edits[i]) : TRUE) \in SpanRow(t)
      <3>1. Spans(t, edits[i]) # {} /\ edits[i] \in EditRequests
        BY <1>2, <1>3, <1>4, <2>1
      <3>2. (CHOOSE s \in Spans(t, edits[i]) : TRUE) \in Spans(t, edits[i])
        BY <3>1
      <3> QED
        BY <3>1, <3>2, SpansInText
    <2> QED
      BY <1>3, <2>1
  <1> HIDE DEF spans
  <1>6. /\ o \in [1 .. n -> SpanRow(t)]
        /\ ToSet(o) = ToSet(spans)
        /\ \A i, j \in 1 .. n : i < j => Before(o[i], o[j])
    BY <1>1, <1>3, <1>5, OrderedSorts
  <1> HIDE DEF o
  <1>7. Laid(t, o) /\ Len(o) = n
    BY <1>1, <1>3, <1>4, <1>6, OrderedAreLaid
  <1>8. ToSet(o) = SpansOf(o)
    BY <1>6, <1>7 DEF ToSet, SpansOf
  <1>9. /\ Rebuilt(t, o) = Simultaneous(t, SpansOf(o))
        /\ Rebuilt(t, o) \in Seq(Characters)
    BY <1>1, <1>3, <1>7, RebuiltIsSimultaneous
  <1>10. result.spans = SpansOf(o) /\ result.text = Rebuilt(t, o)
    BY <1>4, <1>6, <1>8
  <1> QED
    BY <1>9, <1>10

-----------------------------------------------------------------------------
(* Steps.                                                                  *)

FileRow == [text: Seq(Characters), stamp: Nat]
Writing == {w \in [at: {"writing"}, text: Seq(Characters), done: Nat] : w.done <= Len(w.text)}
Stages == {"computed", "written", "checked"}

\* An edit whose text is what its spans mean in the text it was made for.
Meant(e) ==
  /\ e.at \in Stages
  /\ e = [at |-> e.at, expected |-> e.expected, spans |-> e.spans, output |-> e.output,
          late |-> e.late]
  /\ e.expected \in FileRow /\ e.late \in BOOLEAN
  /\ e.output \in Seq(Characters)
  /\ e.output = Simultaneous(e.expected.text, e.spans)

EditInv ==
  /\ file \in FileRow
  /\ \A r \in read : r.hash \in Seq(Characters) /\ Shown(r)
  /\ \A r, s \in read : r = s
  /\ tool = Idle \/ tool \in Writing \/ Meant(tool)
  /\ Meant(tool) => \A r \in read : r.hash = tool.expected.text
  /\ tool.at = "checked" => file = tool.expected \/ tool.late

LEMMA BusyTools ==
  /\ Idle.at = "idle" /\ ~Meant(Idle)
  /\ \A w \in Writing : w.at = "writing" /\ ~Meant(w)
  /\ \A e : Meant(e) => e.at \in Stages
  BY DEF Idle, Writing, Meant, Stages

LEMMA EditInitially == EditInit => EditInv
  <1> SUFFICES ASSUME EditInit PROVE EditInv
    OBVIOUS
  <1>1. file \in FileRow
    <2>1. PICK t \in EditTexts : file = [text |-> t, stamp |-> 0]
      BY DEF EditInit
    <2>2. t \in Seq(Characters)
      BY TextsAreSequences
    <2> QED
      BY <2>1, <2>2 DEF FileRow
  <1> QED
    BY <1>1, BusyTools DEF EditInit, EditInv

\* A step that leaves the tool idle and shows nothing new.
LEMMA EndsIdle ==
  ASSUME EditInv, tool' = Idle, file' \in FileRow, UNCHANGED read
  PROVE  EditInv'
  BY BusyTools DEF EditInv, Idle

LEMMA ReadLinesKeeps ==
  ASSUME EditInv, NEW first \in 1 .. MaxLine, NEW last \in 1 .. MaxLine, ReadLines(first, last)
  PROVE  EditInv'
  <1> DEFINE t == file.text
             end == IF last < LineCount(t) THEN last ELSE LineCount(t)
             r == [hash |-> t, first |-> first, last |-> end,
                   content |-> IF first <= LineCount(t)
                               THEN SubSeq(t, LineEnd(t, first - 1) + 1, LineEnd(t, end))
                               ELSE <<>>]
  <1>1. MaxLine \in Nat
    BY TextsAreSequences
  <1>2. first \in Nat \ {0} /\ last \in Nat /\ first <= last
    BY <1>1 DEF ReadLines
  <1>3. read' = {r} /\ UNCHANGED <<file, tool>> /\ tool = Idle
    BY DEF ReadLines
  <1>4. t \in Seq(Characters)
    BY DEF EditInv, FileRow
  <1> HIDE DEF t
  <1>5. r.hash = t /\ r.first = first /\ r.last = end
        /\ r.content = IF first <= LineCount(t)
                       THEN SubSeq(t, LineEnd(t, first - 1) + 1, LineEnd(t, end)) ELSE <<>>
    OBVIOUS
  <1> HIDE DEF r
  <1>6. Shown(r)
    BY <1>2, <1>5 DEF Shown
  <1>7. /\ \A x \in read' : x.hash \in Seq(Characters) /\ Shown(x)
        /\ \A x, y \in read' : x = y
    BY <1>3, <1>4, <1>5, <1>6
  <1>8. tool' = Idle /\ file' \in FileRow
    BY <1>3 DEF EditInv
  <1> QED
    BY <1>7, <1>8, BusyTools DEF EditInv, Idle

LEMMA WriteToolKeeps ==
  ASSUME EditInv, NEW text \in EditTexts, WriteTool(text)
  PROVE  EditInv'
  <1>1. text \in Seq(Characters) /\ Len(text) \in Nat /\ <<>> \in Seq(Characters)
    BY TextsAreSequences, LenProperties, EmptySeq
  <1>2. file' \in FileRow
    <2>1. file.stamp \in Nat
      BY DEF EditInv, FileRow
    <2> QED
      BY <1>1, <2>1 DEF WriteTool, Changed, FileRow
  <1>3. tool' \in Writing
    BY <1>1 DEF WriteTool, Writing
  <1>4. UNCHANGED read
    BY DEF WriteTool
  <1>5. ~Meant(tool') /\ tool'.at # "checked"
    BY <1>3, BusyTools
  <1> QED
    BY <1>2, <1>3, <1>4, <1>5 DEF EditInv

LEMMA WritePieceKeeps ==
  ASSUME EditInv, NEW n \in 0 .. 2, WritePiece(n)
  PROVE  EditInv'
  <1>1. tool \in Writing
    BY BusyTools DEF EditInv, WritePiece, Stages
  <1>2. /\ tool.text \in Seq(Characters) /\ tool.done \in Nat /\ Len(tool.text) \in Nat
        /\ tool.done + n \in Nat /\ tool.done + n <= Len(tool.text)
    <2>1. tool.text \in Seq(Characters) /\ tool.done \in Nat
      BY <1>1 DEF Writing
    <2>2. Len(tool.text) \in Nat
      BY <2>1, LenProperties
    <2> QED
      BY <2>1, <2>2 DEF WritePiece
  <1>3. file' \in FileRow
    <2> DEFINE m == tool.done + n
               piece == SubSeq(tool.text, 1, m)
    <2>1. \A i \in 1 .. m : i \in 1 .. Len(tool.text)
      BY <1>2
    <2>2. \A i \in 1 .. m : tool.text[i] \in Characters
      BY <1>2, <2>1, ElementOfSeq
    <2>3. piece \in Seq(Characters)
      BY <1>2, <2>2, SubSeqProperties
    <2>4. file' = [file EXCEPT !.text = piece]
      BY DEF WritePiece
    <2> HIDE DEF piece
    <2> QED
      BY <2>3, <2>4 DEF EditInv, FileRow
  <1>4. UNCHANGED read
    BY DEF WritePiece
  <1>5. CASE tool.done + n = Len(tool.text)
    <2>1. tool' = Idle
      BY <1>5 DEF WritePiece
    <2> QED
      BY <1>3, <1>4, <2>1, EndsIdle
  <1>6. CASE tool.done + n # Len(tool.text)
    <2>1. tool' = [tool EXCEPT !.done = tool.done + n]
      BY <1>6 DEF WritePiece
    <2>2. tool' \in Writing
      BY <1>1, <1>2, <2>1 DEF Writing
    <2>3. ~Meant(tool') /\ tool'.at # "checked"
      BY <2>2, BusyTools
    <2> QED
      BY <1>3, <1>4, <2>2, <2>3 DEF EditInv
  <1> QED
    BY <1>5, <1>6

LEMMA BeginEditKeeps ==
  ASSUME EditInv, BeginEdit
  PROVE  EditInv'
  <1>1. PICK edits \in EditLists : \E result \in Edited(file.text, edits) :
           tool' = [at |-> "computed", expected |-> file, spans |-> result.spans,
                    output |-> result.text, late |-> FALSE]
    BY DEF BeginEdit
  <1>2. PICK result \in Edited(file.text, edits) :
           tool' = [at |-> "computed", expected |-> file, spans |-> result.spans,
                    output |-> result.text, late |-> FALSE]
    BY <1>1
  <1>3. file.text \in EditTexts /\ UNCHANGED <<file, read>> /\ file \in FileRow
    BY DEF BeginEdit, EditInv
  <1>4. result.text = Simultaneous(file.text, result.spans) /\ result.text \in Seq(Characters)
    BY <1>3, EditedMeans
  <1>5. /\ tool'.at = "computed" /\ tool'.expected = file /\ tool'.spans = result.spans
        /\ tool'.output = result.text /\ tool'.late = FALSE
    BY <1>2
  <1>6. Meant(tool')
    BY <1>2, <1>3, <1>4, <1>5 DEF Meant, Stages
  <1>7. \A r \in read : r.hash = file.text
    <2>1. PICK r \in read : file.text = r.hash
      BY DEF BeginEdit
    <2> QED
      BY <2>1 DEF EditInv
  <1>8. tool'.at # "checked"
    BY <1>5
  <1> QED
    BY <1>3, <1>5, <1>6, <1>7, <1>8 DEF EditInv

\* The call goes on to its next stage.
LEMMA NextStage ==
  ASSUME EditInv, Meant(tool), NEW stage \in Stages, tool' = [tool EXCEPT !.at = stage],
         UNCHANGED <<file, read>>, stage = "checked" => file = tool.expected
  PROVE  EditInv'
  <1>1. /\ tool'.at = stage /\ tool'.expected = tool.expected /\ tool'.spans = tool.spans
        /\ tool'.output = tool.output /\ tool'.late = tool.late
        /\ tool' = [at |-> stage, expected |-> tool.expected, spans |-> tool.spans,
                    output |-> tool.output, late |-> tool.late]
    BY DEF Meant
  <1>2. Meant(tool')
    BY <1>1 DEF Meant
  <1> QED
    BY <1>1, <1>2 DEF EditInv

LEMMA VerifyEditKeeps ==
  ASSUME EditInv, VerifyEdit
  PROVE  EditInv'
  <1>1. file' \in FileRow /\ UNCHANGED <<file, read>>
    BY DEF VerifyEdit, EditInv
  <1>2. CASE file = tool.expected
    <2>1. Meant(tool) /\ tool' = [tool EXCEPT !.at = "written"] /\ "written" \in Stages
      BY <1>2, BusyTools DEF VerifyEdit, EditInv, Stages
    <2> QED
      BY <1>1, <2>1, NextStage
  <1>3. CASE file # tool.expected
    <2>1. tool' = Idle
      BY <1>3 DEF VerifyEdit
    <2> QED
      BY <1>1, <2>1, EndsIdle
  <1> QED
    BY <1>2, <1>3

LEMMA CheckEditKeeps ==
  ASSUME EditInv, CheckEdit
  PROVE  EditInv'
  <1>1. file' \in FileRow /\ UNCHANGED <<file, read>>
    BY DEF CheckEdit, EditInv
  <1>2. CASE file = tool.expected
    <2>1. Meant(tool) /\ tool' = [tool EXCEPT !.at = "checked"] /\ "checked" \in Stages
      BY <1>2, BusyTools DEF CheckEdit, EditInv, Stages
    <2> QED
      BY <1>1, <1>2, <2>1, NextStage
  <1>3. CASE file # tool.expected
    <2>1. tool' = Idle
      BY <1>3 DEF CheckEdit
    <2> QED
      BY <1>1, <2>1, EndsIdle
  <1> QED
    BY <1>2, <1>3

LEMMA ReplaceFileKeeps ==
  ASSUME EditInv, ReplaceFile
  PROVE  EditInv'
  <1>1. Meant(tool)
    BY BusyTools DEF EditInv, ReplaceFile
  <1>2. file' \in FileRow
    <2>1. file.stamp + 1 \in Nat /\ tool.output \in Seq(Characters)
      BY <1>1 DEF EditInv, FileRow, Meant
    <2>2. file' = [text |-> tool.output, stamp |-> file.stamp + 1]
      BY DEF ReplaceFile
    <2> QED
      BY <2>1, <2>2 DEF FileRow
  <1>3. tool' = Idle
    BY DEF ReplaceFile
  <1>4. CASE UNCHANGED read
    BY <1>2, <1>3, <1>4, EndsIdle
  <1>5. CASE read' = {EditAnswer(tool.output)}
    <2> DEFINE t == tool.output
               r == EditAnswer(t)
    <2>1. t \in Seq(Characters)
      BY <1>1 DEF Meant
    <2>2. LineCount(t) \in Nat
      BY <2>1, LineEnds
    <2>3. /\ r.hash = t /\ r.first = LineCount(t) + 1 /\ r.last = LineCount(t)
          /\ r.content = <<>> /\ read' = {r}
      BY <1>5 DEF EditAnswer
    <2> HIDE DEF t, r
    <2>4. r.first \in Nat \ {0} /\ ~(r.first <= LineCount(t)) /\ ~(r.first < LineCount(t))
      BY <2>2, <2>3
    <2>5. Shown(r)
      BY <2>2, <2>3, <2>4 DEF Shown
    <2>6. \A x \in read' : x.hash \in Seq(Characters) /\ Shown(x)
      BY <2>1, <2>3, <2>5
    <2> QED
      BY <1>2, <1>3, <2>3, <2>6, BusyTools DEF EditInv, Idle
  <1> QED
    BY <1>4, <1>5 DEF ReplaceFile

LEMMA WriteBesideKeeps ==
  ASSUME EditInv, NEW text \in EditTexts, WriteBeside(text)
  PROVE  EditInv'
  <1>1. file' \in FileRow
    <2>1. file.stamp + 1 \in Nat /\ text \in Seq(Characters)
      BY TextsAreSequences DEF EditInv, FileRow
    <2> QED
      BY <2>1 DEF WriteBeside, Changed, FileRow
  <1>2. UNCHANGED read
    BY DEF WriteBeside
  <1>3. CASE tool.at = "checked"
    <2>1. Meant(tool) /\ tool' = [tool EXCEPT !.late = TRUE]
      BY <1>3, BusyTools DEF EditInv, WriteBeside
    <2>2. /\ tool'.at = tool.at /\ tool'.expected = tool.expected /\ tool'.spans = tool.spans
          /\ tool'.output = tool.output /\ tool'.late = TRUE
          /\ tool' = [at |-> tool.at, expected |-> tool.expected, spans |-> tool.spans,
                      output |-> tool.output, late |-> TRUE]
      BY <2>1 DEF Meant
    <2>3. Meant(tool')
      BY <2>1, <2>2 DEF Meant
    <2> QED
      BY <1>1, <1>2, <2>1, <2>2, <2>3 DEF EditInv
  <1>4. CASE tool.at # "checked"
    <2>1. UNCHANGED tool
      BY <1>4 DEF WriteBeside
    <2> QED
      BY <1>1, <1>2, <1>4, <2>1 DEF EditInv
  <1> QED
    BY <1>3, <1>4

\* A step of the file and its tools keeps the invariant.
LEMMA EditStep ==
  ASSUME EditInv, [EditNext]_editVars
  PROVE  EditInv'
  <1>1. CASE \E first, last \in 1 .. MaxLine : ReadLines(first, last)
    BY <1>1, ReadLinesKeeps
  <1>2. CASE \E t \in EditTexts : WriteTool(t)
    BY <1>2, WriteToolKeeps
  <1>3. CASE \E t \in EditTexts : WriteBeside(t)
    BY <1>3, WriteBesideKeeps
  <1>4. CASE \E n \in 0 .. 2 : WritePiece(n)
    BY <1>4, WritePieceKeeps
  <1>5. CASE BeginEdit
    BY <1>5, BeginEditKeeps
  <1>6. CASE VerifyEdit
    BY <1>6, VerifyEditKeeps
  <1>7. CASE CheckEdit
    BY <1>7, CheckEditKeeps
  <1>8. CASE ReplaceFile
    BY <1>8, ReplaceFileKeeps
  <1>9. CASE InterruptTool \/ DieInTool
    <2>1. tool' = Idle /\ UNCHANGED <<file, read>>
      BY <1>9 DEF InterruptTool, DieInTool
    <2>2. file' \in FileRow
      BY <2>1 DEF EditInv
    <2> QED
      BY <2>1, <2>2, EndsIdle
  <1>10. CASE UNCHANGED editVars
    BY <1>10 DEF editVars, EditInv
  <1> QED
    BY <1>1, <1>2, <1>3, <1>4, <1>5, <1>6, <1>7, <1>8, <1>9, <1>10 DEF EditNext

\* Every state of EditSpec has the invariant: a text about to be written is
\* what its edits mean in the text that was read (Sandbox.edit).
THEOREM EditInvariant == EditSpec => []EditInv
  <1>1. EditInv /\ [EditNext]_editVars => EditInv'
    BY EditStep
  <1> QED
    BY <1>1, EditInitially, PTL DEF EditSpec

\* Only os.replace ends a checked call with the file changed.
LEMMA OnlyReplaceChanges ==
  ASSUME EditInv, [EditNext]_editVars, tool.at = "checked", tool' = Idle, file' # file
  PROVE  ReplaceFile
  <1>1. tool # Idle /\ Meant(tool)
    BY BusyTools DEF EditInv
  <1>2. ~\E first, last \in 1 .. MaxLine : ReadLines(first, last)
    BY <1>1 DEF ReadLines
  <1>3. ~\E t \in EditTexts : WriteTool(t)
    BY <1>1 DEF WriteTool
  <1>4. ~\E t \in EditTexts : WriteBeside(t)
    <2> SUFFICES ASSUME NEW t \in EditTexts, WriteBeside(t) PROVE FALSE
      OBVIOUS
    <2>1. tool' = [tool EXCEPT !.late = TRUE]
      BY DEF WriteBeside
    <2>2. tool'.at = "checked"
      BY <1>1, <2>1 DEF Meant
    <2> QED
      BY <2>2, BusyTools
  <1>5. ~\E n \in 0 .. 2 : WritePiece(n)
    BY DEF WritePiece
  <1>6. ~BeginEdit /\ ~VerifyEdit /\ ~CheckEdit
    BY <1>1 DEF BeginEdit, VerifyEdit, CheckEdit
  <1>7. ~InterruptTool /\ ~DieInTool
    BY DEF InterruptTool, DieInTool
  <1>8. ~UNCHANGED editVars
    BY DEF editVars
  <1> QED
    BY <1>2, <1>3, <1>4, <1>5, <1>6, <1>7, <1>8 DEF EditNext

\* An edit puts all its replacements at once into the text that was read,
\* overwrites what others wrote only after its last check, and takes away, of
\* the lines that were shown, exactly what was shown: for any texts, any
\* number of edits, and any interleaving with other writers (Sandbox.edit).
THEOREM EditsMeanWhatWasReadHolds == EditSpec => EditsMeanWhatWasRead
  <1> DEFINE t == tool.expected.text
             Replaces ==
               (tool.at = "checked" /\ tool' = Idle /\ file' # file) =>
                 /\ file'.text = Simultaneous(t, tool.spans)
                 /\ file = tool.expected \/ tool.late
                 /\ \A r \in read, s \in tool.spans :
                      /\ TextPosition(t, r.first, 1) = {s.start}
                      /\ TextPosition(t, r.last + 1, 1) = {s.end}
                      => SubSeq(t, s.start + 1, s.end) = r.content
  <1>1. ASSUME EditInv, [EditNext]_editVars
        PROVE  Replaces
    <2> SUFFICES ASSUME tool.at = "checked", tool' = Idle, file' # file
                 PROVE  /\ file'.text = Simultaneous(t, tool.spans)
                        /\ file = tool.expected \/ tool.late
                        /\ \A r \in read, s \in tool.spans :
                             /\ TextPosition(t, r.first, 1) = {s.start}
                             /\ TextPosition(t, r.last + 1, 1) = {s.end}
                             => SubSeq(t, s.start + 1, s.end) = r.content
      OBVIOUS
    <2>1. ReplaceFile
      BY <1>1, OnlyReplaceChanges
    <2>2. Meant(tool)
      BY <1>1, BusyTools DEF EditInv
    <2>3. file'.text = Simultaneous(t, tool.spans)
      BY <2>1, <2>2 DEF ReplaceFile, Meant
    <2>4. file = tool.expected \/ tool.late
      BY <1>1 DEF EditInv
    <2>5. ASSUME NEW r \in read, NEW s \in tool.spans,
                 TextPosition(t, r.first, 1) = {s.start},
                 TextPosition(t, r.last + 1, 1) = {s.end}
          PROVE  SubSeq(t, s.start + 1, s.end) = r.content
      <3>1. r.hash = t /\ r.hash \in Seq(Characters) /\ Shown(r)
        BY <1>1, <2>2 DEF EditInv
      <3>2. /\ TextPosition(r.hash, r.first, 1) = {s.start}
            /\ TextPosition(r.hash, r.last + 1, 1) = {s.end}
        BY <2>5, <3>1
      <3>3. SubSeq(r.hash, s.start + 1, s.end) = r.content
        BY <3>1, <3>2, ShownIsTaken
      <3> QED
        BY <3>1, <3>3
    <2> QED
      BY <2>3, <2>4, <2>5
  <1> QED
    BY <1>1, EditInvariant, PTL DEF EditSpec, EditsMeanWhatWasRead
=============================================================================
