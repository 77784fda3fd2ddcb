--------------------------- MODULE WorkerRunProofs ---------------------------
(***************************************************************************)
(* Proofs about WorkerRun, for any number of controllers, goals and        *)
(* assignments and any bounds: what controllers do to the store is what    *)
(* RunLedger allows, the context a model was shown is the one its          *)
(* invocation is recorded under, and no invocation is left running.        *)
(*                                                                         *)
(* RowInv ties the local state of one controller to the tables; no step    *)
(* of another controller or of the human disturbs it (RowStays), because   *)
(* counters never go back and rows keep their owners.  The fence of a run  *)
(* lies between the snapshot of its assignment and the counters of its     *)
(* goal, so when invoke finds the two equal, the fence equals both.        *)
(***************************************************************************)
EXTENDS WorkerRun, RunLedgerProofs

\* The bound of the model on the input version; invoke's caller stays under it.
InputsBounded ==
    \A g \in Goals : Known(goals[g]) => goals[g].input_version \in 0..MaxInput

Attempting == {"started", "compiled"} \cup Serving
Compiled == {"compiled"} \cup Serving
Holding == Serving \cup Ending \cup Fencing
Preparing == {"assigned", "started", "compiled"}

\* The invocation of the controller is not running any more, or it has none.
Ended(wk) ==
    wk.invocation # NoInvocation => invocations[wk.invocation].status # "running"

RowInv(wk) ==
    /\ wk.pc # "idle" =>
          /\ wk.assignment \in Assignments /\ Known(assignments[wk.assignment])
          /\ assignments[wk.assignment].goal = wk.goal
    /\ wk.pc \in Attempting => wk.run # 0
    /\ wk.run # 0 => wk.run \in RunIds
    /\ wk.pc \in Preparing => wk.invocation = NoInvocation
    /\ wk.pc \in Compiled =>
          /\ NotAhead(assignments[wk.assignment], wk.fence)
          /\ NotAhead(wk.fence, goals[wk.goal])
    /\ wk.invocation # NoInvocation =>
          /\ Known(invocations[wk.invocation])
          /\ invocations[wk.invocation].assignment = wk.assignment
          /\ SnapshotOf(invocations[wk.invocation]) = wk.fence
          /\ invocations[wk.invocation].goal = wk.goal
    /\ wk.pc = "binding" => wk.invocation # NoInvocation
    /\ wk.pc \in {"preparing", "invoking"} => wk.invocation = NoInvocation \/ wk.done
    /\ wk.done \/ wk.pc = "recording" => Ended(wk)
    /\ wk.pc = "cancelling" /\ wk.invocation \notin wk.open => Ended(wk)
    /\ \A attempt \in wk.attempts : attempt[1] \in RunIds

\* The controller has yet to finish invocation i.
Owns(wk, i) == wk.invocation = i /\ ~wk.done /\ wk.pc \in Holding

WorkerInv ==
    /\ LedgerInv
    /\ InputsBounded
    /\ WorkerTypeOK
    /\ \A w \in Workers : RowInv(workers[w])
    /\ InvocationsHaveOwners

-----------------------------------------------------------------------------
(* Rows.                                                                   *)

LEMMA WorkerShapes ==
    ASSUME NEW wk \in WorkerRow
    PROVE  /\ wk.pc \in ProgramCounters /\ wk.goal \in Goals
           /\ wk.assignment \in Assignments \cup {NoAssignment}
           /\ wk.run \in Nat /\ wk.fence \in Snapshot
           /\ wk.invocation \in Invocations \cup {NoInvocation}
           /\ wk.done \in BOOLEAN /\ wk.outcome \in FinishStatuses
           /\ wk.interrupted \in BOOLEAN /\ wk.open \subseteq Invocations
           /\ wk.attempts \subseteq Nat \X (Invocations \cup {NoInvocation})
  BY DEF WorkerRow

LEMMA BlankShapes ==
    ASSUME NEW g \in Goals
    PROVE  /\ Blank(g) \in WorkerRow /\ Blank(g).pc = "idle" /\ Blank(g).goal = g
           /\ Blank(g).run = 0 /\ Blank(g).invocation = NoInvocation
           /\ Blank(g).attempts = {} /\ ~Blank(g).done
           /\ RowInv(Blank(g))
  <1>1. Blank(g) \in WorkerRow
    BY DEF Blank, WorkerRow, ProgramCounters, NoSnapshot, Snapshot, FinishStatuses
  <1>2. /\ Blank(g).pc = "idle" /\ Blank(g).goal = g
        /\ Blank(g).run = 0 /\ Blank(g).invocation = NoInvocation
        /\ Blank(g).attempts = {} /\ ~Blank(g).done
    BY DEF Blank
  <1> QED
    BY <1>1, <1>2 DEF RowInv, Attempting, Compiled, Serving, Preparing

LEMMA FenceStays ==
    ASSUME NEW fence \in Snapshot, NEW s \in GoalRow, NEW t \in GoalRow,
           NotAhead(fence, s), NotAhead(s, t)
    PROVE  NotAhead(fence, t)
  BY DEF NotAhead, Snapshot, GoalRow

LEMMA FenceSqueeze ==
    ASSUME NEW row \in AssignmentRow, NEW fence \in Snapshot, NEW goal \in GoalRow,
           NotAhead(row, fence), NotAhead(fence, goal), SameVersions(row, goal)
    PROVE  SnapshotOf(goal) = fence /\ SnapshotOf(row) = fence
  <1>1. /\ fence.revision = goal.revision /\ fence.input_version = goal.input_version
        /\ fence.authority_version = goal.authority_version
        /\ fence.revision = row.revision /\ fence.input_version = row.input_version
        /\ fence.authority_version = row.authority_version
    BY DEF NotAhead, SameVersions, AssignmentRow, Snapshot, GoalRow
  <1> QED
    BY <1>1 DEF SnapshotOf, Snapshot

\* A step of the tables does not disturb what a controller relies on.
LEMMA RowStays ==
    ASSUME LedgerInv, LedgerInv', LedgerPersistence, NEW wk \in WorkerRow, RowInv(wk)
    PROVE  RowInv(wk)'
  <1>0. Persistence /\ RunIds \subseteq RunIds' /\ TypeOK /\ TypeOK' /\ SnapshotsInherited
    BY DEF LedgerPersistence, LedgerInv, AuthorityInv
  <1>1. wk.invocation # NoInvocation =>
          /\ Known(invocations'[wk.invocation])
          /\ invocations'[wk.invocation].assignment = wk.assignment
          /\ SnapshotOf(invocations'[wk.invocation]) = wk.fence
          /\ invocations'[wk.invocation].goal = wk.goal
    <2> SUFFICES ASSUME wk.invocation # NoInvocation
                 PROVE  /\ Known(invocations'[wk.invocation])
                        /\ invocations'[wk.invocation].assignment = wk.assignment
                        /\ SnapshotOf(invocations'[wk.invocation]) = wk.fence
                        /\ invocations'[wk.invocation].goal = wk.goal
      OBVIOUS
    <2>1. wk.invocation \in Invocations /\ Known(invocations[wk.invocation])
          /\ SnapshotOf(invocations[wk.invocation]) = wk.fence
      BY WorkerShapes DEF RowInv
    <2>2. SnapshotOf(invocations'[wk.invocation]) = SnapshotOf(invocations[wk.invocation])
      BY <1>0, <2>1 DEF Persistence, SameVersions, SnapshotOf
    <2> QED
      BY <1>0, <2>1, <2>2 DEF RowInv, Persistence
  <1>2. wk.pc # "idle" =>
          /\ wk.assignment \in Assignments /\ Known(assignments'[wk.assignment])
          /\ assignments'[wk.assignment].goal = wk.goal
    BY <1>0 DEF RowInv, Persistence
  <1>3. Ended(wk) => Ended(wk)'
    BY WorkerShapes DEF Ended, RowInv, LedgerPersistence
  <1>4. wk.pc \in Compiled =>
          /\ NotAhead(assignments'[wk.assignment], wk.fence)
          /\ NotAhead(wk.fence, goals'[wk.goal])
    <2> SUFFICES ASSUME wk.pc \in Compiled
                 PROVE  /\ NotAhead(assignments'[wk.assignment], wk.fence)
                        /\ NotAhead(wk.fence, goals'[wk.goal])
      OBVIOUS
    <2>1. wk.pc # "idle"
      BY DEF Compiled, Serving
    <2>2. /\ wk.assignment \in Assignments /\ Known(assignments[wk.assignment])
          /\ wk.goal \in Goals /\ Known(goals[wk.goal])
      BY <1>0, <2>1, WorkerShapes DEF RowInv, SnapshotsInherited
    <2>3. NotAhead(assignments[wk.assignment], wk.fence) /\ NotAhead(wk.fence, goals[wk.goal])
      BY DEF RowInv
    <2>4. goals[wk.goal] \in GoalRow /\ NotAhead(goals[wk.goal], goals'[wk.goal])
      BY <1>0, <2>2, RowShapes DEF Persistence
    <2>5. goals'[wk.goal] \in GoalRow
      BY <1>0, <2>2 DEF Persistence, TypeOK, Known, NoRow
    <2>6. NotAhead(wk.fence, goals'[wk.goal])
      BY <2>3, <2>4, <2>5, WorkerShapes, FenceStays
    <2>7. NotAhead(assignments'[wk.assignment], wk.fence)
      BY <1>0, <2>2, <2>3 DEF Persistence, SameVersions, NotAhead
    <2> QED
      BY <2>6, <2>7
  <1> QED
    BY <1>0, <1>1, <1>2, <1>3, <1>4 DEF RowInv

LEMMA InputsStayBounded ==
    ASSUME InputsBounded, TypeOK, [LedgerNext]_ledgerVars
    PROVE  InputsBounded'
  <1>1. ASSUME NEW g \in Goals, GoalStep(g)
        PROVE  InputsBounded'
    <2>1. \A h \in Goals : h # g => goals'[h] = goals[h]
      BY <1>1 DEF GoalStep, CreateGoal, Request, PauseForInterruption, ReopenForRun, Revise,
                  Assign, TypeOK
    <2>2. Known(goals[g]) => goals[g] \in GoalRow /\ goals[g].input_version \in 0..MaxInput
      BY RowShapes DEF InputsBounded
    <2>3. \A h \in Goals : Known(goals[h]) => goals[h].input_version \in Nat
      BY RowShapes DEF GoalRow
    <2>4. CASE CreateGoal(g)
      BY <2>1, <2>4, BoundsAssumption DEF CreateGoal, TypeOK, InputsBounded
    <2>5. ASSUME NEW control \in Controls, Request(g, control)
          PROVE  InputsBounded'
      <3>1. goals[g] \in GoalRow /\ goals[g].input_version < MaxInput /\ goals[g].input_version \in Nat
        BY <2>2, <2>3, <2>5 DEF Request
      <3>2. goals'[g].input_version = goals[g].input_version + 1
        BY <2>5, <3>1 DEF Request, TypeOK, GoalRow
      <3> QED
        BY <2>1, <3>1, <3>2, BoundsAssumption DEF InputsBounded
    <2>6. CASE PauseForInterruption(g)
      <3>1. goals'[g].input_version = goals[g].input_version /\ Known(goals[g])
        BY <2>2, <2>6 DEF PauseForInterruption, TypeOK, GoalRow
      <3> QED
        BY <2>1, <2>2, <3>1 DEF InputsBounded
    <2>7. CASE ReopenForRun(g)
      <3>1. goals'[g].input_version = goals[g].input_version /\ Known(goals[g])
        BY <2>2, <2>7 DEF ReopenForRun, TypeOK, GoalRow
      <3> QED
        BY <2>1, <2>2, <3>1 DEF InputsBounded
    <2>8. ASSUME NEW r \in 1..MaxRevision, Revise(g, r)
          PROVE  InputsBounded'
      <3>1. goals[g] \in GoalRow /\ goals[g].input_version < MaxInput /\ goals[g].input_version \in Nat
        BY <2>2, <2>3, <2>8 DEF Revise
      <3>2. goals'[g].input_version = goals[g].input_version + 1
        BY <2>8, <3>1 DEF Revise, TypeOK, GoalRow
      <3> QED
        BY <2>1, <3>1, <3>2, BoundsAssumption DEF InputsBounded
    <2>9. ASSUME NEW a \in Assignments, Assign(g, a)
          PROVE  InputsBounded'
      BY <2>9 DEF Assign, InputsBounded
    <2> QED
      BY <1>1, <2>4, <2>5, <2>6, <2>7, <2>8, <2>9 DEF GoalStep
  <1>2. CASE ImportLedger
    <2>1. \A g \in Goals : Known(goals[g]) => goals[g] \in GoalRow
      BY RowShapes
    <2>2. \A g \in Goals : IF Known(goals[g])
                           THEN goals'[g].input_version = goals[g].input_version
                           ELSE ~Known(goals'[g])
      BY <1>2, <2>1 DEF ImportLedger, ImportAuthority, GoalRow, Known, NoRow
    <2> QED
      BY <2>2 DEF InputsBounded
  <1>3. ASSUME UNCHANGED goals
        PROVE  InputsBounded'
    BY <1>3 DEF InputsBounded
  <1> QED
    BY <1>1, <1>2, <1>3
       DEF LedgerNext, ledgerVars, authorityVars, Invoke, Finish, StartRun, RunStep,
           RecordAdmission, BindInvocation, FinishRun, RememberLocalStage

-----------------------------------------------------------------------------
(* The step of one controller: its own row, and what it may change.        *)

Counters ==
    /\ interrupts' \in 0..MaxInterrupts
    /\ crashes' \in 0..MaxCrashes
    /\ gave_up' \in BOOLEAN
    /\ drafting' \subseteq Assignments /\ writing' \subseteq Invocations
    /\ abandoned' \subseteq Invocations
    /\ writing \subseteq writing' /\ abandoned \subseteq abandoned'

\* What a step of the tables brings to every controller's row.
LEMMA TableStep ==
    ASSUME WorkerInv, [LedgerNext]_ledgerVars
    PROVE  /\ LedgerInv' /\ LedgerPersistence /\ InputsBounded'
           /\ \A wk \in WorkerRow : RowInv(wk) => RowInv(wk)'
  BY NextLedgerInv, InputsStayBounded, RowStays DEF WorkerInv, LedgerInv, AuthorityInv

LEMMA OldRow ==
    ASSUME WorkerInv, NEW w \in Workers
    PROVE  /\ workers[w] \in WorkerRow /\ RowInv(workers[w])
           /\ \A row : workers' = [workers EXCEPT ![w] = row] =>
                 /\ workers'[w] = row
                 /\ \A v \in Workers : v # w => workers'[v] = workers[v]
                 /\ row \in WorkerRow => workers' \in [Workers -> WorkerRow]
  BY DEF WorkerInv, WorkerTypeOK

LEMMA SameCounters ==
    ASSUME WorkerInv, UNCHANGED environment
    PROVE  Counters
  BY DEF WorkerInv, WorkerTypeOK, environment, drafts, Counters

LEMMA OneStep ==
    ASSUME WorkerInv, NEW w \in Workers, [LedgerNext]_ledgerVars, Counters,
           NEW row \in WorkerRow, workers' = [workers EXCEPT ![w] = row], RowInv(row)',
           \A i \in Invocations \ abandoned' :
               invocations'[i].status = "running"
               /\ (~Known(invocations[i]) \/ Owns(workers[w], i)) => Owns(row, i)
    PROVE  WorkerInv'
  <1>1. /\ LedgerInv' /\ LedgerPersistence /\ InputsBounded'
        /\ \A wk \in WorkerRow : RowInv(wk) => RowInv(wk)'
    BY TableStep
  <1>2. /\ workers'[w] = row /\ workers' \in [Workers -> WorkerRow]
        /\ \A v \in Workers : v # w => workers'[v] = workers[v]
    BY OldRow
  <1>3. WorkerTypeOK'
    BY <1>1, <1>2 DEF WorkerTypeOK, Counters, LedgerInv
  <1>4. ASSUME NEW v \in Workers
        PROVE  RowInv(workers[v])'
    <2>1. CASE v = w
      BY <1>2, <2>1 DEF RowInv, Ended, NotAhead, SnapshotOf, Known
    <2>2. CASE v # w
      <3>1. PICK wk \in WorkerRow : wk = workers[v] /\ RowInv(wk)
        BY OldRow
      <3>2. RowInv(wk)' /\ workers'[v] = wk
        BY <1>1, <1>2, <2>2, <3>1
      <3> QED
        BY <3>2 DEF RowInv, Ended, NotAhead, SnapshotOf, Known
    <2> QED
      BY <2>1, <2>2
  <1>5. ASSUME NEW i \in Invocations \ abandoned', invocations'[i].status = "running"
        PROVE  i \in writing' \/ \E v \in Workers : Owns(workers'[v], i)
    <2>1. CASE ~Known(invocations[i])
      BY <1>2, <1>5, <2>1
    <2>2. CASE Known(invocations[i])
      <3>1. invocations[i].status = "running" /\ i \notin abandoned
        BY <1>1, <1>5, <2>2 DEF LedgerPersistence, Counters
      <3>2. CASE i \in writing
        BY <3>2 DEF Counters
      <3>3. ASSUME NEW v \in Workers, Owns(workers[v], i)
            PROVE  Owns(workers'[v], i)
        BY <1>2, <1>5, <3>3
      <3> QED
        BY <3>1, <3>2, <3>3 DEF WorkerInv, InvocationsHaveOwners, Owns, Holding
    <2> QED
      BY <2>1, <2>2
  <1>6. InvocationsHaveOwners'
    BY <1>5 DEF InvocationsHaveOwners, Owns, Holding
  <1> QED
    BY <1>1, <1>3, <1>4, <1>6 DEF WorkerInv

\* A step outside the controllers: whatever runs was running and keeps its
\* owner, or is a draft's, or is abandoned.
LEMMA OutsideStep ==
    ASSUME WorkerInv, [LedgerNext]_ledgerVars,
           UNCHANGED <<workers, interrupts, crashes, gave_up>>,
           drafting' \subseteq Assignments, writing' \subseteq Invocations,
           abandoned' \subseteq Invocations,
           \A i \in Invocations \ abandoned' : invocations'[i].status = "running" =>
               \/ i \in writing'
               \/ invocations[i].status = "running" /\ i \notin writing \cup abandoned
    PROVE  WorkerInv'
  <1>1. /\ LedgerInv' /\ InputsBounded' /\ workers \in [Workers -> WorkerRow]
        /\ \A wk \in WorkerRow : RowInv(wk) => RowInv(wk)'
    BY TableStep DEF WorkerInv, WorkerTypeOK
  <1>2. ASSUME NEW v \in Workers
        PROVE  RowInv(workers[v])'
    <2>1. PICK wk \in WorkerRow : wk = workers[v] /\ RowInv(wk)
      BY OldRow
    <2>2. RowInv(wk)' /\ workers'[v] = wk
      BY <1>1, <2>1
    <2> QED
      BY <2>2 DEF RowInv, Ended, NotAhead, SnapshotOf, Known
  <1>3. WorkerTypeOK'
    BY <1>1 DEF WorkerInv, WorkerTypeOK, LedgerInv
  <1>4. InvocationsHaveOwners'
    BY DEF WorkerInv, InvocationsHaveOwners
  <1> QED
    BY <1>1, <1>2, <1>3, <1>4 DEF WorkerInv

\* The parts of a row that a mere change of the program counter keeps.
SameRun(wk, row) ==
    /\ row.goal = wk.goal /\ row.assignment = wk.assignment /\ row.run = wk.run
    /\ row.fence = wk.fence /\ row.invocation = wk.invocation /\ row.done = wk.done

LEMMA MoveStep ==
    ASSUME WorkerInv, NEW w \in Workers, [LedgerNext]_ledgerVars, Counters,
           NEW wk \in WorkerRow, wk = workers[w],
           NEW row \in WorkerRow, workers' = [workers EXCEPT ![w] = row], SameRun(wk, row),
           \A i \in Invocations : Known(invocations'[i]) => Known(invocations[i]),
           \A attempt \in row.attempts \ wk.attempts : attempt[1] \in RunIds,
           wk.pc # "idle", row.pc # "binding", row.pc \notin Preparing,
           row.pc \in Attempting => wk.pc \in Attempting,
           row.pc \in Compiled => wk.pc \in Compiled,
           row.pc \in {"preparing", "invoking"} => ~Unfinished(w),
           row.pc = "recording" => Ended(wk)',
           row.pc = "cancelling" /\ wk.invocation \notin row.open => Ended(wk)',
           row.pc \notin Holding /\ wk.pc \in Holding
               /\ (wk.invocation \in abandoned' => wk.done) => Ended(wk)'
    PROVE  WorkerInv'
  <1>1. RowInv(wk)
    BY OldRow
  <1>2. RowInv(wk)' /\ RunIds \subseteq RunIds'
    BY <1>1, TableStep DEF LedgerPersistence
  <1>3. RowInv(row)'
    <2>1. row.done \/ row.pc = "recording" => Ended(row)'
      BY <1>2 DEF RowInv, SameRun, Ended
    <2>2. row.pc = "cancelling" /\ row.invocation \notin row.open => Ended(row)'
      BY DEF SameRun, Ended
    <2>3. row.pc \in {"preparing", "invoking"} => row.invocation = NoInvocation \/ row.done
      BY DEF SameRun, Unfinished
    <2>4. row.pc \in Compiled =>
             /\ NotAhead(assignments'[row.assignment], row.fence)
             /\ NotAhead(row.fence, goals'[row.goal])
      BY <1>2 DEF RowInv, SameRun
    <2>5. row.invocation # NoInvocation =>
             /\ Known(invocations'[row.invocation])
             /\ invocations'[row.invocation].assignment = row.assignment
             /\ SnapshotOf(invocations'[row.invocation]) = row.fence
             /\ invocations'[row.invocation].goal = row.goal
      BY <1>2 DEF RowInv, SameRun
    <2>6. /\ row.assignment \in Assignments /\ Known(assignments'[row.assignment])
          /\ assignments'[row.assignment].goal = row.goal
          /\ row.pc \in Attempting => row.run # 0
          /\ row.run # 0 => row.run \in RunIds'
          /\ \A attempt \in row.attempts : attempt[1] \in RunIds'
      BY <1>2 DEF RowInv, SameRun
    <2> QED
      BY <2>1, <2>2, <2>3, <2>4, <2>5, <2>6 DEF RowInv
  <1>4. ASSUME NEW i \in Invocations \ abandoned', invocations'[i].status = "running",
               ~Known(invocations[i]) \/ Owns(wk, i)
        PROVE  Owns(row, i)
    <2>1. Owns(wk, i)
      BY <1>4 DEF Known
    <2>2. ~Ended(wk)'
      BY <1>4, <2>1, LedgerAssumption DEF Owns, Ended
    <2>3. row.pc \in Holding
      BY <1>4, <2>1, <2>2 DEF Owns
    <2> QED
      BY <2>1, <2>3 DEF Owns, SameRun
  <1> QED
    BY <1>3, <1>4, OneStep

\* Going on to pc, with an outcome or without, leaves the rest of the row.
LEMMA GotoShape ==
    ASSUME WorkerInv, NEW w \in Workers, NEW pc \in ProgramCounters, Goto(w, pc)
    PROVE  \E row \in WorkerRow :
              /\ workers' = [workers EXCEPT ![w] = row] /\ row.pc = pc
              /\ SameRun(workers[w], row) /\ row.open = workers[w].open
              /\ row.attempts = workers[w].attempts
  <1> DEFINE row == [workers[w] EXCEPT !.pc = pc]
  <1>1. workers[w] \in WorkerRow
    BY OldRow
  <1>2. /\ row \in WorkerRow /\ row.pc = pc /\ SameRun(workers[w], row)
        /\ row.open = workers[w].open /\ row.attempts = workers[w].attempts
    BY <1>1 DEF WorkerRow, SameRun
  <1>3. workers' = [workers EXCEPT ![w] = row]
    BY DEF Goto
  <1> HIDE DEF row
  <1> QED
    BY <1>2, <1>3

LEMMA StopShape ==
    ASSUME WorkerInv, NEW w \in Workers, NEW outcome \in FinishStatuses, Stop(w, outcome)
    PROVE  \E row \in WorkerRow :
              /\ workers' = [workers EXCEPT ![w] = row] /\ row.pc = "stopping"
              /\ SameRun(workers[w], row) /\ row.open = workers[w].open
              /\ row.attempts = workers[w].attempts
  <1> DEFINE row == [workers[w] EXCEPT !.pc = "stopping", !.outcome = outcome]
  <1>1. workers[w] \in WorkerRow
    BY OldRow
  <1>2. /\ row \in WorkerRow /\ row.pc = "stopping" /\ SameRun(workers[w], row)
        /\ row.open = workers[w].open /\ row.attempts = workers[w].attempts
    BY <1>1 DEF WorkerRow, SameRun, ProgramCounters, Ending
  <1>3. workers' = [workers EXCEPT ![w] = row]
    BY DEF Stop
  <1> HIDE DEF row
  <1> QED
    BY <1>2, <1>3

\* Going on to another program counter, under the conditions that guard it.
LEMMA GotoStep ==
    ASSUME WorkerInv, NEW w \in Workers, [LedgerNext]_ledgerVars, Counters,
           NEW wk \in WorkerRow, wk = workers[w], NEW pc \in ProgramCounters, Goto(w, pc),
           \A i \in Invocations : Known(invocations'[i]) => Known(invocations[i]),
           wk.pc # "idle", pc # "binding", pc # "cancelling", pc \notin Preparing,
           pc \in Attempting => wk.pc \in Attempting,
           pc \in Compiled => wk.pc \in Compiled,
           pc \in {"preparing", "invoking"} => ~Unfinished(w),
           pc = "recording" => Ended(wk)',
           pc \notin Holding /\ wk.pc \in Holding
               /\ (wk.invocation \in abandoned' => wk.done) => Ended(wk)'
    PROVE  WorkerInv'
  <1>1. PICK row \in WorkerRow :
              /\ workers' = [workers EXCEPT ![w] = row] /\ row.pc = pc
              /\ SameRun(wk, row) /\ row.attempts = wk.attempts
    BY GotoShape
  <1> QED
    BY <1>1, MoveStep

LEMMA StopStep ==
    ASSUME WorkerInv, NEW w \in Workers, [LedgerNext]_ledgerVars, UNCHANGED invocations,
           UNCHANGED environment,
           NEW outcome \in FinishStatuses, Stop(w, outcome), workers[w].pc # "idle"
    PROVE  WorkerInv'
  <1>0. PICK wk \in WorkerRow : wk = workers[w]
    BY OldRow
  <1>1. PICK row \in WorkerRow :
              /\ workers' = [workers EXCEPT ![w] = row] /\ row.pc = "stopping"
              /\ SameRun(wk, row) /\ row.attempts = wk.attempts
    BY <1>0, StopShape
  <1>2. Counters
    BY SameCounters
  <1> QED
    BY <1>0, <1>1, <1>2, MoveStep
       DEF Attempting, Compiled, Serving, Ending, Holding, Preparing

-----------------------------------------------------------------------------
(* The beginning of a run.                                                 *)

LEMMA BeginInv ==
    ASSUME WorkerInv, NEW w \in Workers, NEW g \in Goals, NEW a \in Assignments, Begin(w, g, a)
    PROVE  WorkerInv' /\ [LedgerNext]_ledgerVars
  <1> DEFINE new == [Blank(g) EXCEPT !.pc = "assigned", !.assignment = a]
  <1>1. LedgerNext /\ Counters /\ UNCHANGED invocations
    BY SameCounters DEF Begin, LedgerNext, GoalStep, Assign
  <1>2. PICK row \in WorkerRow : row = new
    <2>1. PICK blank \in WorkerRow : blank = Blank(g)
      BY BlankShapes
    <2>2. "assigned" \in ProgramCounters
      BY DEF ProgramCounters
    <2>3. [blank EXCEPT !.pc = "assigned", !.assignment = a] \in WorkerRow
      BY <2>2 DEF WorkerRow
    <2> QED
      BY <2>1, <2>3
  <1>3. /\ row.pc = "assigned" /\ row.assignment = a /\ row.goal = g /\ row.run = 0
        /\ row.invocation = NoInvocation /\ row.attempts = {} /\ ~row.done
    BY <1>2 DEF Blank
  <1>4. workers' = [workers EXCEPT ![w] = row] /\ workers[w].pc = "idle"
    BY <1>2 DEF Begin, At
  <1>5. Known(assignments'[a]) /\ assignments'[a].goal = g
    BY DEF Begin, Assign, Known
  <1>6. RowInv(row)'
    BY <1>3, <1>5 DEF RowInv, Attempting, Compiled, Serving, Ended, Preparing
  <1>7. \A i \in Invocations : ~Owns(workers[w], i)
    BY <1>4 DEF Owns, Holding, Serving, Ending, Fencing
  <1> QED
    BY <1>1, <1>4, <1>6, <1>7, OneStep DEF Known

LEMMA StartAttemptInv ==
    ASSUME WorkerInv, NEW w \in Workers, StartAttempt(w)
    PROVE  WorkerInv' /\ [LedgerNext]_ledgerVars
  <1>1. PICK wk \in WorkerRow : wk = workers[w] /\ RowInv(wk) /\ wk.pc = "assigned"
    BY OldRow DEF StartAttempt, At
  <1>2. wk.assignment \in Assignments /\ wk.goal \in Goals
    BY <1>1, WorkerShapes DEF RowInv
  <1>3. Counters
    BY SameCounters DEF StartAttempt
  <1>4. ASSUME StartRun(wk.goal, wk.assignment),
               workers' = [workers EXCEPT ![w] = [wk EXCEPT !.pc = "started", !.run = Len(runs) + 1]]
        PROVE  WorkerInv' /\ [LedgerNext]_ledgerVars
    <2>1. LedgerNext /\ UNCHANGED invocations
      BY <1>2, <1>4 DEF LedgerNext, StartRun, authorityVars
    <2>2. Len(runs) \in Nat /\ Len(runs) + 1 \in RunIds'
      BY <1>2, <1>4, StartRunInv, RunShapes DEF WorkerInv, LedgerInv
    <2>3. PICK row \in WorkerRow : row = [wk EXCEPT !.pc = "started", !.run = Len(runs) + 1]
      <3>1. "started" \in ProgramCounters /\ Len(runs) + 1 \in Nat
        BY <2>2 DEF ProgramCounters
      <3>2. [wk EXCEPT !.pc = "started", !.run = Len(runs) + 1] \in WorkerRow
        BY <3>1 DEF WorkerRow
      <3> QED
        BY <3>2
    <2>4. row.pc = "started" /\ row.run = Len(runs) + 1 /\ row.goal = wk.goal
          /\ row.assignment = wk.assignment /\ row.fence = wk.fence
          /\ row.invocation = wk.invocation /\ row.done = wk.done
          /\ row.attempts = wk.attempts
      BY <2>3 DEF WorkerRow
    <2>5. RowInv(wk)'
      BY <1>1, <2>1, TableStep
    <2>6. RowInv(row)'
      BY <1>1, <2>2, <2>4, <2>5 DEF RowInv, Attempting, Compiled, Serving, Ended, Preparing
    <2>7. \A i \in Invocations : ~Owns(workers[w], i)
      BY <1>1 DEF Owns, Holding, Serving, Ending, Fencing
    <2> QED
      BY <1>3, <1>4, <2>1, <2>3, <2>6, <2>7, OneStep DEF Known
  <1>5. ASSUME Fail(w), UNCHANGED ledgerVars
        PROVE  WorkerInv' /\ [LedgerNext]_ledgerVars
    BY <1>1, <1>5, StopStep DEF StartAttempt, Fail, FinishStatuses, ledgerVars, authorityVars
  <1> QED
    BY <1>1, <1>4, <1>5 DEF StartAttempt

LEMMA ReadGoalInv ==
    ASSUME WorkerInv, NEW w \in Workers, ReadGoal(w)
    PROVE  WorkerInv' /\ [LedgerNext]_ledgerVars
  <1>1. PICK wk \in WorkerRow : wk = workers[w] /\ RowInv(wk) /\ wk.pc = "started"
    BY OldRow DEF ReadGoal, At
  <1>2. [LedgerNext]_ledgerVars /\ Counters /\ UNCHANGED <<authorityVars, RunIds>>
    BY SameCounters DEF ReadGoal, ledgerVars, ledgerTables, RunIds
  <1>3. CASE Stop(w, "interrupted") \/ Stop(w, "cancelled")
    BY <1>1, <1>2, <1>3, StopStep DEF ReadGoal, FinishStatuses, authorityVars
  <1>4. CASE workers' = [workers EXCEPT ![w] =
                [@ EXCEPT !.pc = "compiled", !.fence = SnapshotOf(GoalRead(w))]]
    <2>1. /\ wk.assignment \in Assignments /\ Known(assignments[wk.assignment])
          /\ assignments[wk.assignment].goal = wk.goal /\ wk.goal \in Goals
      BY <1>1, WorkerShapes DEF RowInv
    <2>2. NotAhead(assignments[wk.assignment], goals[wk.goal]) /\ goals[wk.goal] \in GoalRow
      BY <2>1, RowShapes DEF WorkerInv, LedgerInv, AuthorityInv, SnapshotsInherited
    <2>3. PICK fence \in Snapshot : fence = SnapshotOf(goals[wk.goal])
      BY <2>2 DEF Snapshot, SnapshotOf, GoalRow
    <2>4. NotAhead(assignments[wk.assignment], fence) /\ NotAhead(fence, goals[wk.goal])
      BY <2>2, <2>3 DEF NotAhead, SnapshotOf, GoalRow
    <2>5. PICK row \in WorkerRow : row = [wk EXCEPT !.pc = "compiled", !.fence = fence]
      BY DEF WorkerRow, ProgramCounters
    <2>6. row.pc = "compiled" /\ row.run = wk.run /\ row.goal = wk.goal
          /\ row.assignment = wk.assignment /\ row.fence = fence
          /\ row.invocation = wk.invocation /\ row.done = wk.done
          /\ row.attempts = wk.attempts
      BY <2>5 DEF WorkerRow
    <2>7. workers' = [workers EXCEPT ![w] = row]
      BY <1>1, <1>4, <2>3, <2>5 DEF GoalRead
    <2>8. RowInv(row)'
      BY <1>1, <1>2, <2>4, <2>6
         DEF RowInv, Attempting, Compiled, Serving, Ended, Preparing, authorityVars
    <2>9. \A i \in Invocations : ~Owns(workers[w], i)
      BY <1>1 DEF Owns, Holding, Serving, Ending, Fencing
    <2> QED
      BY <1>2, <2>7, <2>8, <2>9, OneStep DEF Known, authorityVars
  <1> QED
    BY <1>3, <1>4 DEF ReadGoal

\* The run of a controller that has recorded one.
LEMMA RunOfRow ==
    ASSUME WorkerInv, NEW wk \in WorkerRow, RowInv(wk), wk.pc \in Attempting
    PROVE  wk.run \in RunIds
  BY DEF RowInv

LEMMA AdmitRunInv ==
    ASSUME WorkerInv, NEW w \in Workers, AdmitRun(w)
    PROVE  WorkerInv' /\ [LedgerNext]_ledgerVars
  <1>1. PICK wk \in WorkerRow : wk = workers[w] /\ RowInv(wk) /\ wk.pc = "compiled"
    BY OldRow DEF AdmitRun, At
  <1>2. Counters
    BY SameCounters DEF AdmitRun
  <1>3. wk.run \in RunIds
    BY <1>1, RunOfRow DEF Attempting
  <1>4. [LedgerNext]_ledgerVars /\ UNCHANGED invocations
    BY <1>1, <1>3 DEF AdmitRun, LedgerNext, RunStep, RecordAdmission, ledgerVars, authorityVars
  <1>5. CASE Goto(w, "serving")
    <2>1. "serving" \in ProgramCounters
      BY DEF ProgramCounters, Serving
    <2> QED
      BY <1>1, <1>2, <1>4, <1>5, <2>1, GotoStep
         DEF Attempting, Compiled, Serving, Holding, Preparing
  <1>6. ASSUME NEW outcome \in FinishStatuses, Stop(w, outcome)
        PROVE  WorkerInv'
    BY <1>1, <1>4, <1>6, StopStep DEF AdmitRun
  <1> QED
    BY <1>4, <1>5, <1>6 DEF AdmitRun, Fail, FinishStatuses

-----------------------------------------------------------------------------
(* Serving the agent.                                                      *)

LEMMA PrepareRequestInv ==
    ASSUME WorkerInv, NEW w \in Workers, PrepareRequest(w)
    PROVE  WorkerInv' /\ [LedgerNext]_ledgerVars
  <1>1. PICK wk \in WorkerRow : wk = workers[w] /\ RowInv(wk) /\ wk.pc = "serving"
    BY OldRow DEF PrepareRequest, At
  <1>2. Counters
    BY SameCounters DEF PrepareRequest
  <1>3. wk.run \in RunIds
    BY <1>1, RunOfRow DEF Attempting, Serving
  <1>4. [LedgerNext]_ledgerVars /\ UNCHANGED invocations
    BY <1>1, <1>3 DEF PrepareRequest, LedgerNext, RunStep, RecordAdmission, authorityVars
  <1>5. "preparing" \in ProgramCounters
    BY DEF ProgramCounters, Serving
  <1> QED
    BY <1>1, <1>2, <1>4, <1>5, GotoStep
       DEF PrepareRequest, Attempting, Compiled, Serving, Holding, Preparing

LEMMA CheckFenceInv ==
    ASSUME WorkerInv, NEW w \in Workers, CheckFence(w)
    PROVE  WorkerInv' /\ [LedgerNext]_ledgerVars
  <1>1. PICK wk \in WorkerRow : wk = workers[w] /\ RowInv(wk) /\ wk.pc = "preparing"
    BY OldRow DEF CheckFence, At
  <1>2. Counters /\ [LedgerNext]_ledgerVars /\ UNCHANGED invocations
    BY SameCounters DEF CheckFence, ledgerVars, authorityVars
  <1>3. ~Unfinished(w)
    BY <1>1 DEF RowInv, Unfinished
  <1>4. PICK pc \in {"serving", "invoking"} : Goto(w, pc)
    BY DEF CheckFence
  <1>5. pc \in ProgramCounters
    BY DEF ProgramCounters, Serving
  <1> QED
    BY <1>1, <1>2, <1>3, <1>4, <1>5, GotoStep
       DEF Attempting, Compiled, Serving, Holding, Preparing

\* An accepted request is recorded under the fence of the run: the goal's
\* counters equal the snapshot of the assignment, and the fence is between.
LEMMA InvokeTurnInv ==
    ASSUME WorkerInv, NEW w \in Workers, InvokeTurn(w)
    PROVE  WorkerInv' /\ [LedgerNext]_ledgerVars
  <1>1. PICK wk \in WorkerRow : wk = workers[w] /\ RowInv(wk) /\ wk.pc = "invoking"
    BY OldRow DEF InvokeTurn, At
  <1>2. /\ wk.assignment \in Assignments /\ Known(assignments[wk.assignment])
        /\ assignments[wk.assignment].goal = wk.goal /\ wk.goal \in Goals
        /\ NotAhead(assignments[wk.assignment], wk.fence)
        /\ NotAhead(wk.fence, goals[wk.goal]) /\ wk.fence \in Snapshot
        /\ wk.invocation = NoInvocation \/ wk.done
        /\ Ended(wk) /\ wk.run # 0
    BY <1>1, WorkerShapes DEF RowInv, Compiled, Serving, Attempting, Ended
  <1>3. Counters
    BY SameCounters DEF InvokeTurn
  <1>4. ASSUME NEW i \in Invocations,
               Invoke(wk.goal, wk.assignment, i, wk.fence.input_version),
               workers' = [workers EXCEPT ![w] =
                    [wk EXCEPT !.pc = "binding", !.invocation = i, !.done = FALSE]],
               UNCHANGED ledgerTables
        PROVE  WorkerInv' /\ [LedgerNext]_ledgerVars
    <2>1. wk.fence.input_version \in 0..MaxInput
      BY <1>2, <1>4 DEF WorkerInv, InputsBounded, Invoke
    <2>2. LedgerNext
      BY <1>2, <1>4, <2>1 DEF LedgerNext
    <2>3. /\ assignments[wk.assignment] \in AssignmentRow /\ goals[wk.goal] \in GoalRow
          /\ SameVersions(assignments[wk.assignment], goals[wk.goal])
      BY <1>2, <1>4, RowShapes DEF Invoke, WorkerInv, LedgerInv, AuthorityInv
    <2>4. SnapshotOf(goals[wk.goal]) = wk.fence
      BY <1>2, <2>3, FenceSqueeze
    <2>5. /\ Known(invocations'[i]) /\ invocations'[i].assignment = wk.assignment
          /\ invocations'[i].goal = wk.goal /\ SnapshotOf(invocations'[i]) = wk.fence
          /\ ~Known(invocations[i])
          /\ \A j \in Invocations : j # i => invocations'[j] = invocations[j]
      BY <1>4, <2>4 DEF Invoke, Known, SnapshotOf, WorkerInv, LedgerInv, AuthorityInv, TypeOK
    <2>6. RowInv(wk)'
      BY <1>1, <2>2, TableStep
    <2>7. PICK row \in WorkerRow :
             row = [wk EXCEPT !.pc = "binding", !.invocation = i, !.done = FALSE]
      <3>1. "binding" \in ProgramCounters
        BY DEF ProgramCounters, Serving
      <3>2. [wk EXCEPT !.pc = "binding", !.invocation = i, !.done = FALSE] \in WorkerRow
        BY <3>1 DEF WorkerRow
      <3> QED
        BY <3>2
    <2>8. row.pc = "binding" /\ row.run = wk.run /\ row.goal = wk.goal
          /\ row.assignment = wk.assignment /\ row.fence = wk.fence
          /\ row.invocation = i /\ ~row.done /\ row.attempts = wk.attempts
      BY <2>7 DEF WorkerRow
    <2>9. RowInv(row)'
      BY <1>1, <1>2, <2>5, <2>6, <2>8, LedgerAssumption
         DEF RowInv, Attempting, Compiled, Serving, Preparing
    <2>10. \A j \in Invocations : ~Owns(wk, j)
      BY <1>2, LedgerAssumption DEF Owns
    <2>11. Owns(row, i)
      BY <2>8 DEF Owns, Holding, Serving
    <2> QED
      BY <1>1, <1>3, <1>4, <2>2, <2>5, <2>7, <2>9, <2>10, <2>11, OneStep DEF Known
  <1>5. CASE Goto(w, "serving") /\ UNCHANGED ledgerVars
    <2>1. "serving" \in ProgramCounters
      BY DEF ProgramCounters, Serving
    <2> QED
      BY <1>1, <1>3, <1>5, <2>1, GotoStep
         DEF Attempting, Compiled, Serving, Holding, Preparing, ledgerVars, authorityVars
  <1> QED
    BY <1>1, <1>4, <1>5 DEF InvokeTurn

LEMMA BindTurnInv ==
    ASSUME WorkerInv, NEW w \in Workers, BindTurn(w)
    PROVE  WorkerInv' /\ [LedgerNext]_ledgerVars
  <1>1. PICK wk \in WorkerRow : wk = workers[w] /\ RowInv(wk) /\ wk.pc = "binding"
    BY OldRow DEF BindTurn, At
  <1>2. Counters
    BY SameCounters DEF BindTurn
  <1>3. wk.run \in RunIds /\ wk.invocation \in Invocations
    BY <1>1, RunOfRow, WorkerShapes DEF Attempting, Serving, RowInv
  <1>4. [LedgerNext]_ledgerVars /\ UNCHANGED invocations
    <2>1. CASE BindInvocation(wk.run, wk.invocation)
      BY <1>3, <2>1 DEF LedgerNext, RunStep, BindInvocation, authorityVars
    <2>2. CASE UNCHANGED ledgerVars
      BY <2>2 DEF ledgerVars, authorityVars
    <2> QED
      BY <1>1, <2>1, <2>2 DEF BindTurn
  <1>5. "serving" \in ProgramCounters /\ Goto(w, "serving")
    BY DEF ProgramCounters, Serving, BindTurn
  <1> QED
    BY <1>1, <1>2, <1>4, <1>5, GotoStep DEF Attempting, Compiled, Serving, Holding, Preparing

\* Finishing an invocation makes none and changes no other.
LEMMA FinishEffect ==
    ASSUME WorkerInv, NEW i \in Invocations, NEW status \in FinishStatuses, Finish(i, status)
    PROVE  /\ invocations'[i].status # "running"
           /\ \A j \in Invocations : j # i => invocations'[j] = invocations[j]
           /\ \A j \in Invocations : Known(invocations'[j]) => Known(invocations[j])
           /\ UNCHANGED ledgerTables => [LedgerNext]_ledgerVars
  <1>1. invocations[i] \in InvocationRow
    BY RowShapes DEF Finish, Known, WorkerInv, LedgerInv, AuthorityInv
  <1>2. invocations'[i] = [invocations[i] EXCEPT !.status = status]
    BY DEF Finish, WorkerInv, LedgerInv, AuthorityInv, TypeOK
  <1>3. \A j \in Invocations : j # i => invocations'[j] = invocations[j]
    BY DEF Finish, WorkerInv, LedgerInv, AuthorityInv, TypeOK
  <1>4. invocations'[i].status = status /\ status # "running"
    BY <1>1, <1>2 DEF InvocationRow, FinishStatuses
  <1>5. Known(invocations[i])
    BY DEF Finish, Known
  <1> QED
    BY <1>3, <1>4, <1>5 DEF LedgerNext

LEMMA EndTurnInv ==
    ASSUME WorkerInv, NEW w \in Workers, NEW status \in {"finished", "failed", "cancelled"},
           EndTurn(w, status)
    PROVE  WorkerInv' /\ [LedgerNext]_ledgerVars
  <1>1. PICK wk \in WorkerRow : wk = workers[w] /\ RowInv(wk) /\ wk.pc = "serving"
    BY OldRow DEF EndTurn, At
  <1>2. Counters
    BY SameCounters DEF EndTurn
  <1>3. /\ status \in FinishStatuses /\ wk.invocation \in Invocations
        /\ wk.invocation # NoInvocation
    BY <1>1, WorkerShapes DEF FinishStatuses, EndTurn, Unfinished
  <1>4. ASSUME [LedgerNext]_ledgerVars,
               workers' = [workers EXCEPT ![w] = [wk EXCEPT !.done = TRUE]],
               invocations'[wk.invocation].status # "running",
               \A j \in Invocations : Known(invocations'[j]) => Known(invocations[j])
        PROVE  WorkerInv'
    <2>1. PICK row \in WorkerRow : row = [wk EXCEPT !.done = TRUE]
      <3>1. [wk EXCEPT !.done = TRUE] \in WorkerRow
        BY DEF WorkerRow
      <3> QED
        BY <3>1
    <2>2. row.pc = "serving" /\ row.run = wk.run /\ row.goal = wk.goal
          /\ row.assignment = wk.assignment /\ row.fence = wk.fence
          /\ row.invocation = wk.invocation /\ row.done /\ row.attempts = wk.attempts
      BY <1>1, <2>1 DEF WorkerRow
    <2>3. RowInv(wk)'
      BY <1>1, <1>4, TableStep
    <2>4. RowInv(row)'
      BY <1>1, <1>4, <2>2, <2>3
         DEF RowInv, Ended, Attempting, Compiled, Serving, Preparing
    <2>5. ASSUME NEW i \in Invocations, invocations'[i].status = "running",
                 ~Known(invocations[i]) \/ Owns(wk, i)
          PROVE  FALSE
      BY <1>4, <2>5 DEF Owns, Known
    <2> QED
      BY <1>1, <1>2, <1>4, <2>1, <2>4, <2>5, OneStep
  <1>5. CASE /\ Finish(wk.invocation, status) /\ UNCHANGED ledgerTables
             /\ workers' = [workers EXCEPT ![w] = [wk EXCEPT !.done = TRUE]]
    BY <1>3, <1>4, <1>5, FinishEffect
  <1>6. CASE /\ invocations[wk.invocation].status # "running" /\ UNCHANGED ledgerVars
             /\ workers' = [workers EXCEPT ![w] = [wk EXCEPT !.done = TRUE]]
    BY <1>3, <1>4, <1>6 DEF ledgerVars, authorityVars
  <1>7. CASE UNCHANGED ledgerVars /\ Fail(w)
    BY <1>1, <1>7, StopStep DEF EndTurn, Fail, FinishStatuses, ledgerVars, authorityVars
  <1> QED
    BY <1>1, <1>5, <1>6, <1>7 DEF EndTurn

LEMMA StopServingInv ==
    ASSUME WorkerInv, NEW w \in Workers, NEW outcome \in FinishStatuses,
           StopServing(w, outcome)
    PROVE  WorkerInv' /\ [LedgerNext]_ledgerVars
  BY StopStep DEF StopServing, At, ledgerVars, authorityVars

-----------------------------------------------------------------------------
(* The end of a run.                                                       *)

LEMMA FinishTurnInv ==
    ASSUME WorkerInv, NEW w \in Workers, FinishTurn(w)
    PROVE  WorkerInv' /\ [LedgerNext]_ledgerVars
  <1>1. PICK wk \in WorkerRow : wk = workers[w] /\ RowInv(wk) /\ wk.pc = "stopping"
    BY OldRow DEF FinishTurn, At
  <1>2. Counters
    BY SameCounters DEF FinishTurn
  <1>3. {"recording", "remembering"} \subseteq ProgramCounters
    BY DEF ProgramCounters, Ending
  <1>4. CASE /\ Unfinished(w) /\ Finish(wk.invocation, wk.outcome)
             /\ UNCHANGED ledgerTables /\ Goto(w, "recording")
    <2>1. wk.invocation \in Invocations /\ wk.outcome \in FinishStatuses
      BY <1>1, <1>4, WorkerShapes DEF Unfinished
    <2>2. Ended(wk)'
      BY <1>4, <2>1, FinishEffect DEF Ended
    <2> QED
      BY <1>1, <1>2, <1>3, <1>4, <2>1, <2>2, FinishEffect, GotoStep
         DEF Attempting, Compiled, Serving, Ending, Holding, Preparing
  <1>5. CASE /\ ~(Unfinished(w) /\ invocations[wk.invocation].status = "running")
             /\ UNCHANGED ledgerVars
             /\ Goto(w, "recording") \/ Goto(w, "remembering")
    <2>1. Ended(wk) /\ UNCHANGED invocations
      BY <1>1, <1>5 DEF Ended, Unfinished, RowInv, ledgerVars, authorityVars
    <2>2. Ended(wk)'
      BY <2>1 DEF Ended
    <2> QED
      BY <1>1, <1>2, <1>3, <1>5, <2>1, <2>2, GotoStep
         DEF Attempting, Compiled, Serving, Ending, Holding, Preparing
  <1> QED
    BY <1>1, <1>4, <1>5 DEF FinishTurn

LEMMA RecordEndInv ==
    ASSUME WorkerInv, NEW w \in Workers, RecordEnd(w)
    PROVE  WorkerInv' /\ [LedgerNext]_ledgerVars
  <1>1. PICK wk \in WorkerRow : wk = workers[w] /\ RowInv(wk) /\ wk.pc = "recording"
    BY OldRow DEF RecordEnd, At
  <1>2. Counters
    BY SameCounters DEF RecordEnd
  <1>3. [LedgerNext]_ledgerVars /\ UNCHANGED invocations
    <2>1. CASE wk.run # 0 /\ FinishRun(wk.run, wk.outcome, wk.invocation)
      <3>1. /\ wk.run \in RunIds /\ wk.outcome \in FinishStatuses
            /\ wk.invocation \in Invocations \cup {NoInvocation}
        BY <1>1, <2>1, WorkerShapes DEF RowInv
      <3> QED
        BY <2>1, <3>1 DEF LedgerNext, RunStep, FinishRun, authorityVars
    <2>2. CASE UNCHANGED ledgerVars
      BY <2>2 DEF ledgerVars, authorityVars
    <2> QED
      BY <1>1, <2>1, <2>2 DEF RecordEnd
  <1>4. Ended(wk)'
    BY <1>1, <1>3 DEF RowInv, Ended
  <1>5. PICK pc \in {"fencing", "remembering"} : Goto(w, pc)
    BY DEF RecordEnd
  <1>6. pc \in ProgramCounters
    BY DEF ProgramCounters, Fencing
  <1> QED
    BY <1>1, <1>2, <1>3, <1>4, <1>5, <1>6, GotoStep
       DEF Attempting, Compiled, Serving, Fencing, Holding, Preparing

\* A controller that starts again relies on nothing.
LEMMA BlankStep ==
    ASSUME WorkerInv, NEW w \in Workers, [LedgerNext]_ledgerVars, Counters,
           UNCHANGED invocations, \A i \in Invocations \ abandoned' : ~Owns(workers[w], i),
           workers' = [workers EXCEPT ![w] = Blank(workers[w].goal)]
    PROVE  WorkerInv'
  <1>1. PICK wk \in WorkerRow : wk = workers[w] /\ wk.goal \in Goals
    BY OldRow, WorkerShapes
  <1>2. PICK row \in WorkerRow : row = Blank(wk.goal) /\ RowInv(row)
    BY <1>1, BlankShapes
  <1>3. RowInv(row)'
    BY <1>2, TableStep
  <1>4. workers' = [workers EXCEPT ![w] = row]
    BY <1>1, <1>2
  <1> QED
    BY <1>3, <1>4, OneStep DEF Owns, Known

LEMMA RememberStageInv ==
    ASSUME WorkerInv, NEW w \in Workers, Remember(w)
    PROVE  WorkerInv' /\ [LedgerNext]_ledgerVars
  <1>1. PICK wk \in WorkerRow : wk = workers[w] /\ RowInv(wk) /\ wk.pc = "remembering"
    BY OldRow DEF Remember, At
  <1>2. Counters
    BY SameCounters DEF Remember
  <1>3. wk.assignment \in Assignments /\ w \in Stages
    BY <1>1, WorkerAssumption DEF RowInv
  <1>4. [LedgerNext]_ledgerVars /\ UNCHANGED invocations
    <2>1. CASE RememberLocalStage(wk.assignment, w)
      BY <1>3, <2>1 DEF LedgerNext, RememberLocalStage, authorityVars
    <2>2. CASE UNCHANGED ledgerVars
      BY <2>2 DEF ledgerVars, authorityVars
    <2> QED
      BY <1>1, <2>1, <2>2 DEF Remember
  <1>5. workers' = [workers EXCEPT ![w] = Blank(workers[w].goal)]
    BY DEF Remember
  <1> QED
    BY <1>1, <1>2, <1>4, <1>5, BlankStep DEF Owns, Holding, Serving, Ending, Fencing

-----------------------------------------------------------------------------
(* Ctrl-C and death.                                                       *)

LEMMA InterruptInv ==
    ASSUME WorkerInv, NEW w \in Workers, Interrupt(w)
    PROVE  WorkerInv' /\ [LedgerNext]_ledgerVars
  <1>1. PICK wk \in WorkerRow : wk = workers[w] /\ RowInv(wk)
    BY OldRow
  <1>2. [LedgerNext]_ledgerVars /\ UNCHANGED invocations
    BY DEF Interrupt, ledgerVars, authorityVars
  <1>3. Counters
    <2>1. interrupts \in 0..MaxInterrupts /\ crashes \in 0..MaxCrashes /\ gave_up \in BOOLEAN
      BY DEF WorkerInv, WorkerTypeOK
    <2>2. interrupts < MaxInterrupts /\ interrupts' = interrupts + 1
          /\ UNCHANGED <<crashes, gave_up, drafting, writing, abandoned>>
      BY DEF Interrupt, drafts
    <2>3. drafting \subseteq Assignments /\ writing \subseteq Invocations
          /\ abandoned \subseteq Invocations
      BY DEF WorkerInv, WorkerTypeOK
    <2> QED
      BY <2>1, <2>2, <2>3, WorkerAssumption DEF Counters
  <1>4. PICK row \in WorkerRow :
            /\ workers' = [workers EXCEPT ![w] = row] /\ SameRun(wk, row)
            /\ row.attempts = wk.attempts /\ row.pc \in {"stopping", "fencing"}
            /\ wk.pc # "idle"
    <2>1. ASSUME NEW pc \in {"stopping", "fencing"}, NEW outcome \in FinishStatuses
          PROVE  LET row == [wk EXCEPT !.pc = pc, !.outcome = outcome, !.interrupted = TRUE]
                 IN  row \in WorkerRow /\ row.pc = pc /\ SameRun(wk, row)
                     /\ row.attempts = wk.attempts
      <3>1. pc \in ProgramCounters
        BY DEF ProgramCounters, Ending, Fencing
      <3> QED
        BY <3>1 DEF WorkerRow, SameRun
    <2>2. wk.outcome \in FinishStatuses /\ "cancelled" \in FinishStatuses
      BY WorkerShapes DEF FinishStatuses
    <2>3. CASE /\ wk.pc \in {"assigned", "started", "compiled"} \cup Serving
               /\ workers' = [workers EXCEPT ![w] = [@ EXCEPT !.pc = "stopping",
                                   !.outcome = "cancelled", !.interrupted = TRUE]]
      BY <1>1, <2>1, <2>2, <2>3 DEF Serving
    <2>4. CASE /\ wk.pc \in Ending
               /\ workers' = [workers EXCEPT ![w] = [@ EXCEPT !.pc = "fencing",
                                                              !.interrupted = TRUE]]
      <3>1. [wk EXCEPT !.pc = "fencing", !.interrupted = TRUE]
              = [wk EXCEPT !.pc = "fencing", !.outcome = wk.outcome, !.interrupted = TRUE]
        BY DEF WorkerRow
      <3> QED
        BY <1>1, <2>1, <2>2, <2>4, <3>1 DEF Ending
    <2> QED
      BY <1>1, <2>3, <2>4 DEF Interrupt
  <1> QED
    BY <1>1, <1>2, <1>3, <1>4, MoveStep
       DEF Attempting, Compiled, Serving, Ending, Fencing, Holding, Preparing

LEMMA FenceReadInv ==
    ASSUME WorkerInv, NEW w \in Workers, FenceRead(w)
    PROVE  WorkerInv' /\ [LedgerNext]_ledgerVars
  <1> DEFINE open == {i \in Invocations : invocations[i].status = "running"
                                          /\ invocations[i].goal = workers[w].goal}
             attempts == {<<r, runs[r].invocation>> :
                             r \in {s \in RunIds : runs[s].status = "running"
                                                   /\ runs[s].goal = workers[w].goal}}
  <1>1. PICK wk \in WorkerRow : wk = workers[w] /\ RowInv(wk) /\ wk.pc = "fencing"
    BY OldRow DEF FenceRead, At
  <1>2. Counters /\ [LedgerNext]_ledgerVars /\ UNCHANGED invocations
    BY SameCounters DEF FenceRead, ledgerVars, authorityVars
  <1>3. /\ open \subseteq Invocations
        /\ attempts \subseteq Nat \X (Invocations \cup {NoInvocation})
        /\ \A attempt \in attempts : attempt[1] \in RunIds
    BY RunShapes DEF WorkerInv, LedgerInv
  <1>4. "cancelling" \in ProgramCounters
    BY DEF ProgramCounters, Fencing
  <1>5. workers' = [workers EXCEPT ![w] =
            [wk EXCEPT !.pc = "cancelling", !.open = open, !.attempts = attempts]]
    BY <1>1 DEF FenceRead
  <1>6. \A i \in Invocations \ open :
            invocations[i].status = "running" => invocations[i].goal # wk.goal
    BY <1>1
  <1> HIDE DEF open, attempts
  <1>7. PICK row \in WorkerRow :
            /\ row = [wk EXCEPT !.pc = "cancelling", !.open = open, !.attempts = attempts]
            /\ row.pc = "cancelling" /\ row.open = open /\ row.attempts = attempts
            /\ SameRun(wk, row)
    <2>1. [wk EXCEPT !.pc = "cancelling", !.open = open, !.attempts = attempts] \in WorkerRow
      BY <1>3, <1>4 DEF WorkerRow
    <2> QED
      BY <2>1 DEF WorkerRow, SameRun
  <1>8. wk.invocation \notin open => Ended(wk)'
    BY <1>1, <1>2, <1>6, WorkerShapes DEF RowInv, Ended
  <1> QED
    BY <1>1, <1>2, <1>3, <1>5, <1>7, <1>8, MoveStep
       DEF Attempting, Compiled, Serving, Ending, Fencing, Holding, Preparing

LEMMA FenceInvocationInv ==
    ASSUME WorkerInv, NEW w \in Workers, NEW i \in Invocations, FenceInvocation(w, i)
    PROVE  WorkerInv' /\ [LedgerNext]_ledgerVars
  <1>1. PICK wk \in WorkerRow : wk = workers[w] /\ RowInv(wk) /\ wk.pc = "cancelling"
    BY OldRow DEF FenceInvocation, At
  <1>2. /\ [LedgerNext]_ledgerVars
        /\ \A j \in Invocations : Known(invocations'[j]) => Known(invocations[j])
    <2>1. CASE Finish(i, "cancelled") /\ UNCHANGED ledgerTables
      BY <2>1, FinishEffect DEF FinishStatuses
    <2>2. CASE UNCHANGED ledgerVars
      BY <2>2 DEF ledgerVars, authorityVars
    <2> QED
      BY <2>1, <2>2 DEF FenceInvocation
  <1>3. RowInv(wk)'
    BY <1>1, <1>2, TableStep
  <1>4. ASSUME invocations'[i].status # "running", UNCHANGED <<gave_up, abandoned>>,
               workers' = [workers EXCEPT ![w].open = @ \ {i}]
        PROVE  WorkerInv'
    <2>1. PICK row \in WorkerRow :
              /\ row = [wk EXCEPT !.open = wk.open \ {i}]
              /\ row.pc = "cancelling" /\ row.open = wk.open \ {i}
              /\ row.attempts = wk.attempts /\ SameRun(wk, row)
      <3>1. [wk EXCEPT !.open = wk.open \ {i}] \in WorkerRow
        BY DEF WorkerRow
      <3> QED
        BY <1>1, <3>1 DEF WorkerRow, SameRun
    <2>2. wk.invocation \notin wk.open \ {i} => Ended(wk)'
      BY <1>1, <1>3, <1>4 DEF RowInv, Ended
    <2>3. Counters
      BY <1>4, SameCounters DEF FenceInvocation, environment
    <2>4. workers' = [workers EXCEPT ![w] = row]
      BY <1>1, <1>4, <2>1
    <2> QED
      BY <1>1, <1>2, <2>1, <2>2, <2>3, <2>4, MoveStep
         DEF Attempting, Compiled, Serving, Ending, Fencing, Holding, Preparing
  <1>5. CASE Finish(i, "cancelled") /\ UNCHANGED <<gave_up, abandoned>>
             /\ workers' = [workers EXCEPT ![w].open = @ \ {i}]
    BY <1>2, <1>4, <1>5, FinishEffect DEF FinishStatuses
  <1>6. CASE /\ invocations[i].status # "running" /\ UNCHANGED ledgerVars
             /\ UNCHANGED <<gave_up, abandoned>>
             /\ workers' = [workers EXCEPT ![w].open = @ \ {i}]
    BY <1>4, <1>6 DEF ledgerVars, authorityVars
  <1>7. CASE /\ Goto(w, "remembering") /\ gave_up' = TRUE /\ UNCHANGED ledgerVars
             /\ abandoned' = abandoned \cup LeftBy(w)
    <2>1. Counters
      <3>1. interrupts \in 0..MaxInterrupts /\ crashes \in 0..MaxCrashes
            /\ UNCHANGED <<interrupts, crashes, drafting, writing>>
            /\ drafting \subseteq Assignments /\ writing \subseteq Invocations
            /\ abandoned \subseteq Invocations
        BY DEF WorkerInv, WorkerTypeOK, FenceInvocation, drafts
      <3>2. LeftBy(w) \subseteq Invocations
        BY DEF LeftBy
      <3> QED
        BY <1>7, <3>1, <3>2 DEF Counters
    <2>2. "remembering" \in ProgramCounters
      BY DEF ProgramCounters
    <2>3. (wk.invocation \in abandoned' => wk.done) => Ended(wk)'
      <3> SUFFICES ASSUME wk.invocation # NoInvocation, ~wk.done
                   PROVE  wk.invocation \in abandoned'
        BY <1>3 DEF RowInv, Ended
      <3>1. wk.invocation \in Invocations
        BY WorkerShapes
      <3>2. wk.invocation \in LeftBy(w)
        BY <1>1, <3>1 DEF LeftBy, Unfinished
      <3> QED
        BY <1>7, <3>2
    <2> QED
      BY <1>1, <1>2, <1>7, <2>1, <2>2, <2>3, GotoStep
         DEF Attempting, Compiled, Serving, Ending, Fencing, Holding, Preparing
  <1> QED
    BY <1>2, <1>5, <1>6, <1>7 DEF FenceInvocation

LEMMA FenceAttemptInv ==
    ASSUME WorkerInv, NEW w \in Workers, NEW attempt \in workers[w].attempts,
           FenceAttempt(w, attempt)
    PROVE  WorkerInv' /\ [LedgerNext]_ledgerVars
  <1>1. PICK wk \in WorkerRow : wk = workers[w] /\ RowInv(wk) /\ wk.pc = "cancelling"
                                /\ wk.open = {}
    BY OldRow DEF FenceAttempt, At
  <1>2. Counters
    BY SameCounters DEF FenceAttempt
  <1>3. attempt[1] \in RunIds /\ attempt[2] \in Invocations \cup {NoInvocation}
    BY <1>1, WorkerShapes DEF RowInv
  <1>4. [LedgerNext]_ledgerVars /\ UNCHANGED invocations
    <2>1. CASE FinishRun(attempt[1], "cancelled", attempt[2])
      BY <1>3, <2>1 DEF LedgerNext, RunStep, FinishRun, FinishStatuses, authorityVars
    <2>2. CASE UNCHANGED ledgerVars
      BY <2>2 DEF ledgerVars, authorityVars
    <2> QED
      BY <2>1, <2>2 DEF FenceAttempt
  <1>5. PICK row \in WorkerRow :
            /\ row = [wk EXCEPT !.attempts = wk.attempts \ {attempt}]
            /\ row.pc = "cancelling" /\ row.open = {}
            /\ row.attempts = wk.attempts \ {attempt} /\ SameRun(wk, row)
    <2>1. [wk EXCEPT !.attempts = wk.attempts \ {attempt}] \in WorkerRow
      BY DEF WorkerRow
    <2> QED
      BY <1>1, <2>1 DEF WorkerRow, SameRun
  <1>6. workers' = [workers EXCEPT ![w] = row]
    BY <1>1, <1>5 DEF FenceAttempt
  <1>7. Ended(wk)'
    BY <1>1, <1>4 DEF RowInv, Ended
  <1> QED
    BY <1>1, <1>2, <1>4, <1>5, <1>6, <1>7, MoveStep
       DEF Attempting, Compiled, Serving, Ending, Fencing, Holding, Preparing

LEMMA FencePauseInv ==
    ASSUME WorkerInv, NEW w \in Workers, FencePause(w)
    PROVE  WorkerInv' /\ [LedgerNext]_ledgerVars
  <1>1. PICK wk \in WorkerRow : wk = workers[w] /\ RowInv(wk) /\ wk.pc = "cancelling"
                                /\ wk.open = {}
    BY OldRow DEF FencePause, At
  <1>2. Counters
    BY SameCounters DEF FencePause
  <1>3. [LedgerNext]_ledgerVars /\ UNCHANGED invocations
    <2>1. CASE PauseForInterruption(wk.goal) /\ UNCHANGED ledgerTables
      BY <2>1, WorkerShapes DEF LedgerNext, GoalStep, PauseForInterruption
    <2>2. CASE UNCHANGED ledgerVars
      BY <2>2 DEF ledgerVars, authorityVars
    <2> QED
      BY <1>1, <2>1, <2>2 DEF FencePause
  <1>4. Ended(wk)'
    BY <1>1, <1>3 DEF RowInv, Ended
  <1>5. "remembering" \in ProgramCounters /\ Goto(w, "remembering")
    BY DEF ProgramCounters, FencePause
  <1> QED
    BY <1>1, <1>2, <1>3, <1>4, <1>5, GotoStep
       DEF Attempting, Compiled, Serving, Holding, Preparing

\* Whatever a controller still has to finish is what its end leaves behind.
LEMMA LeftIsOwned ==
    ASSUME NEW w \in Workers, NEW i \in Invocations, Owns(workers[w], i)
    PROVE  i \in LeftBy(w)
  BY LedgerAssumption DEF Owns, LeftBy, Unfinished

LEMMA CrashInv ==
    ASSUME WorkerInv, NEW w \in Workers, Crash(w)
    PROVE  WorkerInv' /\ [LedgerNext]_ledgerVars
  <1>1. /\ interrupts \in 0..MaxInterrupts /\ crashes \in 0..MaxCrashes /\ gave_up \in BOOLEAN
        /\ drafting \subseteq Assignments /\ writing \subseteq Invocations
        /\ abandoned \subseteq Invocations
    BY DEF WorkerInv, WorkerTypeOK
  <1>2. /\ crashes < MaxCrashes /\ crashes' = crashes + 1
        /\ abandoned' = abandoned \cup LeftBy(w)
        /\ UNCHANGED <<interrupts, gave_up, drafting, writing>>
    BY DEF Crash, drafts
  <1>3. LeftBy(w) \subseteq Invocations
    BY DEF LeftBy
  <1>4. Counters
    BY <1>1, <1>2, <1>3, WorkerAssumption DEF Counters
  <1>5. [LedgerNext]_ledgerVars /\ UNCHANGED invocations
    BY DEF Crash, ledgerVars, authorityVars
  <1>6. \A i \in Invocations \ abandoned' : ~Owns(workers[w], i)
    BY <1>2, LeftIsOwned
  <1> QED
    BY <1>4, <1>5, <1>6, BlankStep DEF Crash

-----------------------------------------------------------------------------
(* The human, drafts written by hand, and the move of the store.           *)

LEMMA HumanInv ==
    ASSUME WorkerInv, NEW g \in Goals,
           \/ Human(g)
           \/ CreateGoal(g) /\ UNCHANGED <<ledgerTables, workers, environment>>
    PROVE  WorkerInv' /\ [LedgerNext]_ledgerVars
  <1>1. GoalStep(g) /\ UNCHANGED <<ledgerTables, workers, environment>>
    BY DEF Human, GoalStep
  <1>2. UNCHANGED invocations
    BY DEF Human, CreateGoal, Request, ReopenForRun, Revise
  <1>3. LedgerNext
    BY <1>1 DEF LedgerNext
  <1>4. UNCHANGED <<interrupts, crashes, gave_up, drafting, writing, abandoned>>
    BY <1>1 DEF environment, drafts
  <1>5. /\ drafting \subseteq Assignments /\ writing \subseteq Invocations
        /\ abandoned \subseteq Invocations
    BY DEF WorkerInv, WorkerTypeOK
  <1> QED
    BY <1>1, <1>2, <1>3, <1>4, <1>5, OutsideStep

LEMMA DraftInv ==
    ASSUME WorkerInv,
           \/ \E g \in Goals, a \in Assignments : AssignDraft(g, a)
           \/ \E a \in Assignments : InvokeDraft(a) \/ DropDraft(a)
           \/ \E i \in Invocations : FinishDraft(i) \/ AbandonDraft(i)
    PROVE  WorkerInv' /\ [LedgerNext]_ledgerVars
  <1>1. /\ drafting \subseteq Assignments /\ writing \subseteq Invocations
        /\ abandoned \subseteq Invocations
        /\ LedgerInv /\ TypeOK /\ SnapshotsInherited
    BY DEF WorkerInv, WorkerTypeOK, LedgerInv, AuthorityInv
  <1>2. ASSUME NEW g \in Goals, NEW a \in Assignments, AssignDraft(g, a)
        PROVE  WorkerInv' /\ [LedgerNext]_ledgerVars
    <2>1. LedgerNext /\ UNCHANGED invocations
      BY <1>2 DEF AssignDraft, Assign, LedgerNext, GoalStep
    <2> QED
      BY <1>1, <1>2, <2>1, OutsideStep DEF AssignDraft
  <1>3. ASSUME NEW a \in Assignments, InvokeDraft(a)
        PROVE  WorkerInv' /\ [LedgerNext]_ledgerVars
    <2>1. PICK g : g = assignments[a].goal
      OBVIOUS
    <2>2. PICK i \in Invocations :
              Invoke(g, a, i, goals[g].input_version) /\ writing' = writing \cup {i}
      BY <1>3, <2>1 DEF InvokeDraft
    <2>3. g \in Goals
      BY <1>1, <2>1, <2>2, RowShapes DEF Invoke, AssignmentRow
    <2>4. goals[g].input_version \in 0..MaxInput
      BY <2>2, <2>3 DEF WorkerInv, InputsBounded, Invoke
    <2>5. LedgerNext
      BY <1>3, <2>2, <2>3, <2>4 DEF InvokeDraft, LedgerNext
    <2>6. \A j \in Invocations : j # i => invocations'[j] = invocations[j]
      BY <1>1, <2>2 DEF Invoke, TypeOK
    <2>7. \A j \in writing : j \in writing'
      BY <2>2
    <2>8. drafting' \subseteq Assignments /\ writing' \subseteq Invocations
          /\ UNCHANGED <<workers, interrupts, crashes, gave_up, abandoned>>
      BY <1>1, <1>3, <2>2 DEF InvokeDraft
    <2> QED
      BY <1>1, <2>2, <2>5, <2>6, <2>7, <2>8, OutsideStep
  <1>4. ASSUME NEW a \in Assignments, DropDraft(a)
        PROVE  WorkerInv' /\ [LedgerNext]_ledgerVars
    <2>1. [LedgerNext]_ledgerVars /\ UNCHANGED invocations
      BY <1>4 DEF DropDraft, ledgerVars, authorityVars
    <2> QED
      BY <1>1, <1>4, <2>1, OutsideStep DEF DropDraft
  <1>5. ASSUME NEW i \in Invocations, FinishDraft(i)
        PROVE  WorkerInv' /\ [LedgerNext]_ledgerVars
    <2>1. /\ [LedgerNext]_ledgerVars /\ invocations'[i].status # "running"
          /\ \A j \in Invocations : j # i => invocations'[j] = invocations[j]
      <3>1. CASE Finish(i, "finished") /\ UNCHANGED ledgerTables
        BY <3>1, FinishEffect DEF FinishStatuses
      <3>2. CASE invocations[i].status # "running" /\ UNCHANGED ledgerVars
        BY <3>2 DEF ledgerVars, authorityVars
      <3> QED
        BY <1>5, <3>1, <3>2 DEF FinishDraft
    <2> QED
      BY <1>1, <1>5, <2>1, OutsideStep DEF FinishDraft
  <1>6. ASSUME NEW i \in Invocations, AbandonDraft(i)
        PROVE  WorkerInv' /\ [LedgerNext]_ledgerVars
    <2>1. [LedgerNext]_ledgerVars /\ UNCHANGED invocations
      BY <1>6 DEF AbandonDraft, ledgerVars, authorityVars
    <2> QED
      BY <1>1, <1>6, <2>1, OutsideStep DEF AbandonDraft
  <1> QED
    BY <1>2, <1>3, <1>4, <1>5, <1>6

\* Where the record arrives nobody goes on with anything: all that was running
\* had an owner or was abandoned before.
LEMMA MoveStoreInv ==
    ASSUME WorkerInv, MoveStore
    PROVE  WorkerInv' /\ [LedgerNext]_ledgerVars
  <1>1. LedgerNext /\ UNCHANGED invocations
    BY DEF MoveStore, LedgerNext, ImportLedger, ImportAuthority
  <1>2. /\ LedgerInv' /\ InputsBounded'
        /\ \A wk \in WorkerRow : RowInv(wk) => RowInv(wk)'
    BY <1>1, TableStep
  <1>3. ASSUME NEW w \in Workers
        PROVE  workers'[w] \in WorkerRow /\ RowInv(workers[w])'
    <2>1. PICK wk \in WorkerRow : wk = workers[w] /\ wk.goal \in Goals
      BY OldRow, WorkerShapes
    <2>2. PICK row \in WorkerRow : row = Blank(wk.goal) /\ RowInv(row)
      BY <2>1, BlankShapes
    <2>3. RowInv(row)' /\ workers'[w] = row
      BY <1>2, <2>1, <2>2 DEF MoveStore
    <2> QED
      BY <2>3 DEF RowInv, Ended, NotAhead, SnapshotOf, Known
  <1>4. workers' \in [Workers -> WorkerRow]
    BY <1>3 DEF MoveStore
  <1>5. /\ abandoned' = abandoned \cup writing \cup UNION {LeftBy(w) : w \in Workers}
        /\ drafting' = {} /\ writing' = {} /\ UNCHANGED <<interrupts, crashes, gave_up>>
    BY DEF MoveStore
  <1>6. abandoned' \subseteq Invocations
    BY <1>5 DEF LeftBy, WorkerInv, WorkerTypeOK
  <1>7. WorkerTypeOK'
    BY <1>2, <1>4, <1>5, <1>6 DEF WorkerInv, WorkerTypeOK, LedgerInv
  <1>8. ASSUME NEW i \in Invocations \ abandoned', invocations'[i].status = "running"
        PROVE  FALSE
    <2>1. i \notin abandoned \cup writing /\ invocations[i].status = "running"
      BY <1>1, <1>5, <1>8
    <2>2. PICK w \in Workers : Owns(workers[w], i)
      BY <2>1 DEF WorkerInv, InvocationsHaveOwners, Owns, Holding
    <2> QED
      BY <1>5, <1>8, <2>2, LeftIsOwned
  <1>9. InvocationsHaveOwners'
    BY <1>8 DEF InvocationsHaveOwners
  <1> QED
    BY <1>1, <1>2, <1>3, <1>7, <1>9 DEF WorkerInv

\* Every step keeps the invariant, and does to the store what the ledger does.
LEMMA NextWorkerInv ==
    ASSUME WorkerInv, [WorkerNext]_workerVars
    PROVE  WorkerInv' /\ [LedgerNext]_ledgerVars
  <1>1. ASSUME NEW w \in Workers, Proceed(w)
        PROVE  WorkerInv' /\ [LedgerNext]_ledgerVars
    BY <1>1, StartAttemptInv, ReadGoalInv, AdmitRunInv, CheckFenceInv, InvokeTurnInv,
       BindTurnInv, FinishTurnInv, RecordEndInv, RememberStageInv, FenceReadInv,
       FencePauseInv, FenceInvocationInv, FenceAttemptInv
       DEF Proceed
  <1>2. ASSUME NEW w \in Workers, EndService(w)
        PROVE  WorkerInv' /\ [LedgerNext]_ledgerVars
    BY <1>2, StopServingInv DEF EndService
  <1>3. CASE UNCHANGED workerVars
    BY <1>3, OutsideStep DEF workerVars, ledgerVars, authorityVars, environment, drafts,
                             WorkerInv, WorkerTypeOK, InvocationsHaveOwners
  <1>4. CASE \E g \in Goals :
                 \/ CreateGoal(g) /\ UNCHANGED <<ledgerTables, workers, environment>>
                 \/ Human(g)
    <2> SUFFICES ASSUME NEW g \in Goals,
                        \/ Human(g)
                        \/ CreateGoal(g) /\ UNCHANGED <<ledgerTables, workers, environment>>
                 PROVE  WorkerInv' /\ [LedgerNext]_ledgerVars
      BY <1>4
    <2> QED
      BY HumanInv
  <1>5. CASE \/ \E g \in Goals, a \in Assignments : AssignDraft(g, a)
             \/ \E a \in Assignments : InvokeDraft(a) \/ DropDraft(a)
             \/ \E i \in Invocations : FinishDraft(i) \/ AbandonDraft(i)
    BY <1>5, DraftInv
  <1>6. CASE \E w \in Workers, g \in Goals, a \in Assignments : Begin(w, g, a)
    BY <1>6, BeginInv
  <1>7. ASSUME NEW w \in Workers,
               \/ PrepareRequest(w) \/ Interrupt(w) \/ Crash(w)
               \/ \E status \in {"finished", "failed", "cancelled"} : EndTurn(w, status)
        PROVE  WorkerInv' /\ [LedgerNext]_ledgerVars
    BY <1>7, PrepareRequestInv, EndTurnInv, InterruptInv, CrashInv
  <1> QED
    <2>1. CASE MoveStore
      BY <2>1, MoveStoreInv
    <2>2. CASE \E w \in Workers :
                  \/ Proceed(w)
                  \/ PrepareRequest(w)
                  \/ \E status \in {"finished", "failed", "cancelled"} : EndTurn(w, status)
                  \/ EndService(w)
                  \/ Interrupt(w)
                  \/ Crash(w)
      BY <2>2, <1>1, <1>2, <1>7
    <2> QED
      BY <2>1, <2>2, <1>3, <1>4, <1>5, <1>6 DEF WorkerNext

LEMMA InitWorkerInv == WorkerInit => WorkerInv
  <1> SUFFICES ASSUME WorkerInit PROVE WorkerInv
    OBVIOUS
  <1>1. LedgerInv
    BY InitLedgerInv DEF WorkerInit
  <1>2. /\ \A g \in Goals : ~Known(goals[g])
        /\ \A i \in Invocations : invocations[i].status # "running"
    BY DEF WorkerInit, LedgerInit, Init, NoRow, Known
  <1>3. \A w \in Workers : workers[w] \in WorkerRow /\ RowInv(workers[w])
    <2> SUFFICES ASSUME NEW w \in Workers
                 PROVE  workers[w] \in WorkerRow /\ RowInv(workers[w])
      OBVIOUS
    <2>1. PICK g \in Goals : workers[w] = Blank(g)
      BY DEF WorkerInit
    <2> QED
      BY <2>1, BlankShapes
  <1>4. workers \in [Workers -> WorkerRow]
    BY <1>3 DEF WorkerInit
  <1>5. WorkerTypeOK
    <2>1. interrupts \in 0..MaxInterrupts /\ crashes \in 0..MaxCrashes
      BY WorkerAssumption DEF WorkerInit
    <2>2. /\ gave_up \in BOOLEAN
          /\ drafting \subseteq Assignments /\ writing \subseteq Invocations
          /\ abandoned \subseteq Invocations
      BY DEF WorkerInit
    <2> QED
      BY <1>1, <1>4, <2>1, <2>2 DEF WorkerTypeOK, LedgerInv
  <1>6. InputsBounded /\ InvocationsHaveOwners
    BY <1>2 DEF InputsBounded, InvocationsHaveOwners
  <1> QED
    BY <1>1, <1>3, <1>5, <1>6 DEF WorkerInv

-----------------------------------------------------------------------------
(* The results.                                                            *)

\* What ties each controller's local state to the tables is invariant.
THEOREM WorkerInvariant == WorkerSpec => []WorkerInv
  <1>1. WorkerInv /\ [WorkerNext]_workerVars => WorkerInv'
    BY NextWorkerInv
  <1> QED
    BY <1>1, InitWorkerInv, PTL DEF WorkerSpec

\* The ledger's tables and the controllers hold values of their own type.
THEOREM WorkerTypeCorrect == WorkerSpec => []WorkerTypeOK
  <1>1. WorkerInv => WorkerTypeOK
    BY DEF WorkerInv
  <1> QED
    BY <1>1, WorkerInvariant, PTL

\* What the model is shown is what its request is recorded under.
THEOREM ContextMatchesInvocationHolds == WorkerSpec => []ContextMatchesInvocation
  <1>1. WorkerInv => ContextMatchesInvocation
    BY DEF WorkerInv, RowInv, ContextMatchesInvocation
  <1> QED
    BY <1>1, WorkerInvariant, PTL

\* No invocation is left running but those whose own controller or draft ended
\* without finishing it.
THEOREM InvocationsHaveOwnersHolds == WorkerSpec => []InvocationsHaveOwners
  <1>1. WorkerInv => InvocationsHaveOwners
    BY DEF WorkerInv
  <1> QED
    BY <1>1, WorkerInvariant, PTL

\* The controllers, the human and the import together implement the ledger:
\* each of their steps is a transaction RunLedger allows, or leaves it alone.
THEOREM WorkersUseLedger == WorkerSpec => LedgerSpec
  <1>1. WorkerInit => LedgerInit
    BY DEF WorkerInit
  <1>2. WorkerInv /\ [WorkerNext]_workerVars => [LedgerNext]_ledgerVars
    BY NextWorkerInv
  <1> QED
    BY <1>1, <1>2, WorkerInvariant, PTL DEF WorkerSpec, LedgerSpec

\* Whatever the controllers do, runs stay bound to the work they were made for.
THEOREM WorkersKeepRunsBound == WorkerSpec => []RunsAreBound
  BY WorkersUseLedger, LedgerRunsAreBound, PTL

\* Whatever the controllers do, a replaced run never moves recovery back.
THEOREM WorkersMoveRecoveryForward == WorkerSpec => RecoveryMovesForward
  BY WorkersUseLedger, LedgerRecoveryMovesForward, PTL
=============================================================================
