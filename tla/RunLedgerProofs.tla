--------------------------- MODULE RunLedgerProofs ---------------------------
(***************************************************************************)
(* Proofs about RunLedger, for any sets of goals, assignments, invocations *)
(* and stages and any bounds: types, that runs and recovery references     *)
(* stay bound to their assignment, and that recovery only moves forward.   *)
(*                                                                         *)
(* RunsAreBound is inductive with the invariant of the authority tables,   *)
(* whose rows never change their owner.  Recovery moves forward because    *)
(* remember_local_stage writes only for the live assignment, a goal has    *)
(* one (OneActiveAssignment), and the reference names an assignment of     *)
(* its goal: another one that it replaces is fenced.                       *)
(***************************************************************************)
EXTENDS RunLedger, GoalAuthorityProofs, SequenceTheorems

LedgerInv ==
    /\ AuthorityInv
    /\ LedgerTypeOK
    /\ RunsAreBound

\* The two halves of RunsAreBound, row by row.
RunBound(r) ==
    /\ Known(assignments[runs[r].assignment])
    /\ assignments[runs[r].assignment].goal = runs[r].goal
    /\ runs[r].invocation # NoInvocation => BelongsTo(runs[r].invocation, r)
RecoveryBound(g) ==
    recovery[g] # NoRecovery =>
        /\ Known(assignments[recovery[g].assignment])
        /\ assignments[recovery[g].assignment].goal = g
        /\ RunsOf(recovery[g].assignment) \cup InvocationsOf(recovery[g].assignment) # {}

\* What every step does to what is recorded: no run is lost, and no
\* invocation begins to run again.
LedgerPersistence ==
    /\ Persistence
    /\ RunIds \subseteq RunIds'
    /\ \A i \in Invocations : Known(invocations[i]) =>
          (invocations'[i].status = "running" => invocations[i].status = "running")

-----------------------------------------------------------------------------
(* Rows.                                                                   *)

LEMMA RunShapes ==
    ASSUME LedgerTypeOK
    PROVE  /\ RunIds = 1..Len(runs) /\ Len(runs) \in Nat
           /\ runs = [r \in RunIds |-> runs[r]]
           /\ \A r \in RunIds :
                 /\ r \in Nat /\ r # 0 /\ runs[r] \in RunRow
                 /\ runs[r].goal \in Goals /\ runs[r].assignment \in Assignments
                 /\ runs[r].invocation \in Invocations \cup {NoInvocation}
  <1>1. runs \in Seq(RunRow)
    BY DEF LedgerTypeOK
  <1>2. RunIds = 1..Len(runs) /\ Len(runs) \in Nat /\ runs \in [1..Len(runs) -> RunRow]
    BY <1>1, LenProperties DEF RunIds
  <1> QED
    BY <1>2 DEF RunRow, RunIds

LEMMA RecoveryShapes ==
    ASSUME LedgerTypeOK, NEW g \in Goals, recovery[g] # NoRecovery
    PROVE  recovery[g] \in RecoveryRow /\ recovery[g].assignment \in Assignments
  BY DEF LedgerTypeOK, RecoveryRow

LEMMA BoundByRow ==
    /\ RunsAreBound <=> /\ \A r \in RunIds : RunBound(r)
                        /\ \A g \in Goals : RecoveryBound(g)
    /\ RunsAreBound' <=> /\ \A r \in RunIds' : RunBound(r)'
                         /\ \A g \in Goals : RecoveryBound(g)'
  BY DEF RunsAreBound, RunBound, RecoveryBound

\* A step of the authority tables lets no invocation run again.
LEMMA RunningStays ==
    ASSUME TypeOK, [Next]_authorityVars, NEW i \in Invocations, Known(invocations[i]),
           invocations'[i].status = "running"
    PROVE  invocations[i].status = "running"
  <1>1. CASE UNCHANGED invocations
    BY <1>1
  <1>2. ASSUME NEW g \in Goals, GoalStep(g)
        PROVE  UNCHANGED invocations
    BY <1>2 DEF GoalStep, CreateGoal, Request, PauseForInterruption, ReopenForRun, Revise, Assign
  <1>3. ASSUME NEW g \in Goals, NEW a \in Assignments, NEW j \in Invocations,
               NEW v \in 0..MaxInput, Invoke(g, a, j, v)
        PROVE  invocations'[i] = invocations[i]
    BY <1>3 DEF Invoke, TypeOK
  <1>4. ASSUME NEW j \in Invocations, NEW status \in FinishStatuses, Finish(j, status)
        PROVE  invocations[i].status = "running"
    BY <1>4 DEF Finish, TypeOK
  <1> QED
    BY <1>1, <1>2, <1>3, <1>4 DEF Next, authorityVars, ImportAuthority

\* What is bound stays bound while the tables of authority move on.
LEMMA BindingStays ==
    ASSUME LedgerInv, Persistence
    PROVE  /\ \A r \in RunIds :
                 /\ Known(assignments'[runs[r].assignment])
                 /\ assignments'[runs[r].assignment].goal = runs[r].goal
                 /\ runs[r].invocation # NoInvocation =>
                       /\ Known(invocations'[runs[r].invocation])
                       /\ invocations'[runs[r].invocation].goal = runs[r].goal
                       /\ invocations'[runs[r].invocation].assignment = runs[r].assignment
           /\ \A g \in Goals : recovery[g] # NoRecovery =>
                 /\ Known(assignments'[recovery[g].assignment])
                 /\ assignments'[recovery[g].assignment].goal = g
           /\ \A a : InvocationsOf(a) \subseteq InvocationsOf(a)'
  <1>1. ASSUME NEW r \in RunIds
        PROVE  /\ Known(assignments'[runs[r].assignment])
               /\ assignments'[runs[r].assignment].goal = runs[r].goal
               /\ runs[r].invocation # NoInvocation =>
                       /\ Known(invocations'[runs[r].invocation])
                       /\ invocations'[runs[r].invocation].goal = runs[r].goal
                       /\ invocations'[runs[r].invocation].assignment = runs[r].assignment
    <2>1. runs[r].assignment \in Assignments /\ runs[r].invocation \in Invocations \cup {NoInvocation}
      BY RunShapes DEF LedgerInv
    <2> QED
      BY <2>1 DEF LedgerInv, RunsAreBound, BelongsTo, Persistence
  <1>2. ASSUME NEW g \in Goals, recovery[g] # NoRecovery
        PROVE  /\ Known(assignments'[recovery[g].assignment])
               /\ assignments'[recovery[g].assignment].goal = g
    BY <1>2, RecoveryShapes DEF LedgerInv, RunsAreBound, Persistence
  <1>3. ASSUME NEW a, NEW i \in InvocationsOf(a)
        PROVE  i \in InvocationsOf(a)'
    BY <1>3 DEF InvocationsOf, Persistence
  <1> QED
    BY <1>1, <1>2, <1>3

-----------------------------------------------------------------------------
(* One lemma for each kind of step.                                        *)

LEMMA AuthorityStep ==
    ASSUME LedgerInv, [Next]_authorityVars, UNCHANGED ledgerTables
    PROVE  LedgerInv' /\ LedgerPersistence
  <1>1. AuthorityInv' /\ Persistence
    BY NextInv, NextPersistence DEF LedgerInv, AuthorityInv
  <1>2. LedgerTypeOK' /\ RunIds' = RunIds
    BY DEF LedgerInv, LedgerTypeOK, ledgerTables, RunIds
  <1>3. RunsAreBound'
    <2>1. \A a : RunsOf(a)' = RunsOf(a)
      BY DEF ledgerTables, RunsOf, RunIds
    <2>2. UNCHANGED <<runs, recovery>>
      BY DEF ledgerTables
    <2>3. \A g \in Goals : recovery[g] # NoRecovery =>
             RunsOf(recovery[g].assignment) \cup InvocationsOf(recovery[g].assignment) # {}
      BY DEF LedgerInv, RunsAreBound
    <2> QED
      BY <1>1, <1>2, <2>1, <2>2, <2>3, BindingStays DEF RunsAreBound, BelongsTo
  <1>4. LedgerPersistence
    BY <1>1, <1>2, RunningStays DEF LedgerPersistence, LedgerInv, AuthorityInv
  <1> QED
    BY <1>1, <1>2, <1>3, <1>4 DEF LedgerInv

\* The authority tables are left alone.
LEMMA SameAuthority ==
    ASSUME LedgerInv, UNCHANGED authorityVars, RunIds \subseteq RunIds'
    PROVE  AuthorityInv' /\ Persistence /\ LedgerPersistence
  <1>1. AuthorityInv' /\ Persistence
    BY NextInv, StutterPersistence DEF LedgerInv, AuthorityInv
  <1> QED
    BY <1>1 DEF LedgerPersistence, authorityVars

\* One run gets another row with the same owners.
LEMMA RunRowStep ==
    ASSUME LedgerInv, NEW r \in RunIds, NEW row \in RunRow,
           row.goal = runs[r].goal, row.assignment = runs[r].assignment,
           row.invocation # NoInvocation =>
               /\ Known(invocations[row.invocation])
               /\ invocations[row.invocation].goal = row.goal
               /\ invocations[row.invocation].assignment = row.assignment,
           runs' = [runs EXCEPT ![r] = row], UNCHANGED authorityVars
    PROVE  /\ AuthorityInv' /\ runs' \in Seq(RunRow) /\ RunIds' = RunIds /\ LedgerPersistence
           /\ \A a : RunsOf(a)' = RunsOf(a)
           /\ \A s \in RunIds : RunBound(s)'
  <1>1. runs \in Seq(RunRow) /\ RunIds = 1..Len(runs)
    BY RunShapes DEF LedgerInv, LedgerTypeOK
  <1>2. runs' \in Seq(RunRow)
    BY <1>1, ExceptSeq
  <1>3. /\ RunIds' = RunIds /\ runs'[r] = row
        /\ \A s \in RunIds : s # r => runs'[s] = runs[s]
    BY <1>1 DEF RunIds
  <1>4. AuthorityInv' /\ LedgerPersistence
    BY <1>3, SameAuthority
  <1>5. \A a : RunsOf(a)' = RunsOf(a)
    BY <1>3 DEF RunsOf
  <1>6. ASSUME NEW s \in RunIds
        PROVE  RunBound(s)'
    <2>1. CASE s = r
      <3>1. Known(assignments[row.assignment]) /\ assignments[row.assignment].goal = row.goal
        BY DEF LedgerInv, RunsAreBound
      <3> QED
        BY <1>3, <2>1, <3>1 DEF RunBound, BelongsTo, authorityVars
    <2>2. CASE s # r
      <3>1. runs'[s] = runs[s] /\ UNCHANGED <<assignments, invocations>>
        BY <1>3, <2>2 DEF authorityVars
      <3> QED
        BY <1>6, <3>1 DEF LedgerInv, RunsAreBound, RunBound, BelongsTo
    <2> QED
      BY <2>1, <2>2
  <1> QED
    BY <1>2, <1>3, <1>4, <1>5, <1>6

\* ... and the recovery references stay.
LEMMA RunStepInv ==
    ASSUME LedgerInv, NEW r \in RunIds, RunStep(r)
    PROVE  LedgerInv' /\ LedgerPersistence
  <1>1. /\ runs[r] \in RunRow
        /\ runs[r].invocation # NoInvocation => BelongsTo(runs[r].invocation, r)
    BY RunShapes DEF LedgerInv, RunsAreBound
  <1>2. PICK row \in RunRow :
            /\ row.goal = runs[r].goal /\ row.assignment = runs[r].assignment
            /\ row.invocation # NoInvocation => BelongsTo(row.invocation, r)
            /\ runs' = [runs EXCEPT ![r] = row] /\ UNCHANGED <<authorityVars, recovery>>
    <2>1. CASE RecordAdmission(r)
      <3>1. [runs[r] EXCEPT !.admitted = TRUE] \in RunRow
        BY <1>1 DEF RunRow
      <3>2. /\ [runs[r] EXCEPT !.admitted = TRUE].goal = runs[r].goal
            /\ [runs[r] EXCEPT !.admitted = TRUE].assignment = runs[r].assignment
            /\ [runs[r] EXCEPT !.admitted = TRUE].invocation = runs[r].invocation
        BY <1>1 DEF RunRow
      <3> QED
        BY <1>1, <2>1, <3>1, <3>2 DEF RecordAdmission
    <2>2. ASSUME NEW i \in Invocations, BindInvocation(r, i)
          PROVE  \E row \in RunRow :
                    /\ row.goal = runs[r].goal /\ row.assignment = runs[r].assignment
                    /\ row.invocation # NoInvocation => BelongsTo(row.invocation, r)
                    /\ runs' = [runs EXCEPT ![r] = row] /\ UNCHANGED <<authorityVars, recovery>>
      <3> DEFINE new == [runs[r] EXCEPT !.invocation = i]
      <3>1. new \in RunRow /\ new.goal = runs[r].goal /\ new.assignment = runs[r].assignment
            /\ new.invocation = i
        BY <1>1 DEF RunRow
      <3>2. BelongsTo(i, r) /\ runs' = [runs EXCEPT ![r] = new]
            /\ UNCHANGED <<authorityVars, recovery>>
        BY <2>2 DEF BindInvocation
      <3> HIDE DEF new
      <3> QED
        BY <3>1, <3>2
    <2>3. ASSUME NEW status \in FinishStatuses, NEW i \in Invocations \cup {NoInvocation},
                 FinishRun(r, status, i)
          PROVE  \E row \in RunRow :
                    /\ row.goal = runs[r].goal /\ row.assignment = runs[r].assignment
                    /\ row.invocation # NoInvocation => BelongsTo(row.invocation, r)
                    /\ runs' = [runs EXCEPT ![r] = row] /\ UNCHANGED <<authorityVars, recovery>>
      <3> DEFINE inv == IF i = NoInvocation THEN runs[r].invocation ELSE i
                 new == [runs[r] EXCEPT !.status = status, !.invocation = inv]
      <3>1. inv \in Invocations \cup {NoInvocation}
            /\ (inv # NoInvocation => BelongsTo(inv, r))
        BY <1>1, <2>3 DEF RunRow, FinishRun
      <3>2. runs' = [runs EXCEPT ![r] = new] /\ UNCHANGED <<authorityVars, recovery>>
        BY <2>3 DEF FinishRun
      <3> HIDE DEF inv
      <3>3. new \in RunRow /\ new.goal = runs[r].goal /\ new.assignment = runs[r].assignment
            /\ new.invocation = inv
        BY <1>1, <3>1 DEF RunRow
      <3> HIDE DEF new
      <3> QED
        BY <3>1, <3>2, <3>3
    <2> QED
      BY <2>1, <2>2, <2>3 DEF RunStep
  <1>3. /\ AuthorityInv' /\ runs' \in Seq(RunRow) /\ RunIds' = RunIds /\ LedgerPersistence
        /\ \A a : RunsOf(a)' = RunsOf(a)
        /\ \A s \in RunIds : RunBound(s)'
    <2>1. row.invocation # NoInvocation =>
             /\ Known(invocations[row.invocation])
             /\ invocations[row.invocation].goal = row.goal
             /\ invocations[row.invocation].assignment = row.assignment
      BY <1>2 DEF BelongsTo
    <2> QED
      BY <1>2, <2>1, RunRowStep
  <1>4. LedgerTypeOK'
    BY <1>2, <1>3 DEF LedgerInv, LedgerTypeOK
  <1>5. RunsAreBound'
    <2>1. UNCHANGED <<assignments, invocations, recovery>>
      BY <1>2 DEF authorityVars
    <2>2. \A a : InvocationsOf(a)' = InvocationsOf(a)
      BY <2>1 DEF InvocationsOf
    <2> QED
      BY <1>3, <2>1, <2>2, BoundByRow DEF LedgerInv, RecoveryBound
  <1> QED
    BY <1>3, <1>4, <1>5 DEF LedgerInv

LEMMA StartRunInv ==
    ASSUME LedgerInv, NEW g \in Goals, NEW a \in Assignments, StartRun(g, a)
    PROVE  LedgerInv' /\ LedgerPersistence /\ Len(runs) + 1 \in RunIds'
  <1> DEFINE row == [goal |-> g, assignment |-> a, invocation |-> NoInvocation,
                     status |-> "running", admitted |-> FALSE, stage |-> NoStage]
             n == Len(runs) + 1
  <1>1. runs \in Seq(RunRow) /\ RunIds = 1..Len(runs) /\ Len(runs) \in Nat
    BY RunShapes DEF LedgerInv, LedgerTypeOK
  <1>2. /\ row \in RunRow /\ row.goal = g /\ row.assignment = a
        /\ row.invocation = NoInvocation
    BY DEF RunRow
  <1>3. /\ runs' = Append(runs, row) /\ Known(assignments[a]) /\ assignments[a].goal = g
        /\ UNCHANGED authorityVars /\ UNCHANGED recovery
    BY DEF StartRun
  <1> HIDE DEF row
  <1>4. /\ runs' \in Seq(RunRow) /\ Len(runs') = n /\ runs'[n] = row
        /\ \A r \in 1..Len(runs) : runs'[r] = runs[r]
    BY <1>1, <1>2, <1>3
  <1>5. RunIds' = 1..n
    BY <1>4, LenProperties DEF RunIds
  <1>6. RunIds \subseteq RunIds' /\ n \in RunIds' /\ RunIds' \ RunIds = {n}
    BY <1>1, <1>5
  <1>7. AuthorityInv' /\ LedgerPersistence
    BY <1>3, <1>6, SameAuthority
  <1>8. LedgerTypeOK'
    BY <1>3, <1>4 DEF LedgerInv, LedgerTypeOK
  <1>9. UNCHANGED <<assignments, invocations>>
    BY <1>3 DEF authorityVars
  <1>10. ASSUME NEW r \in RunIds'
         PROVE  RunBound(r)'
    <2>1. CASE r = n
      BY <1>2, <1>3, <1>4, <1>9, <2>1 DEF RunBound
    <2>2. CASE r \in RunIds
      <3>1. runs'[r] = runs[r] /\ RunBound(r)
        BY <1>1, <1>4, <2>2, BoundByRow DEF LedgerInv
      <3> QED
        BY <1>9, <3>1 DEF RunBound, BelongsTo
    <2> QED
      BY <1>6, <2>1, <2>2
  <1>11. ASSUME NEW h \in Goals
         PROVE  RecoveryBound(h)'
    <2>1. \A b : RunsOf(b) \subseteq RunsOf(b)'
      BY <1>1, <1>4, <1>6 DEF RunsOf
    <2>2. \A b : InvocationsOf(b)' = InvocationsOf(b)
      BY <1>9 DEF InvocationsOf
    <2>3. RecoveryBound(h)
      BY BoundByRow DEF LedgerInv
    <2> QED
      BY <1>3, <1>9, <2>1, <2>2, <2>3 DEF RecoveryBound
  <1> QED
    BY <1>6, <1>7, <1>8, <1>10, <1>11, BoundByRow DEF LedgerInv

LEMMA RememberInv ==
    ASSUME LedgerInv, NEW a \in Assignments, NEW stage \in Stages, RememberLocalStage(a, stage)
    PROVE  LedgerInv' /\ LedgerPersistence
  <1> DEFINE r == Latest(a)
             new == [runs[r] EXCEPT !.stage = stage]
             reference == [assignment |-> a, stage |-> stage]
  <1>1. /\ Known(assignments[a]) /\ RunsOf(a) \cup InvocationsOf(a) # {}
        /\ UNCHANGED authorityVars /\ UNCHANGED <<assignments, invocations>>
        /\ recovery' = [recovery EXCEPT ![assignments[a].goal] = reference]
    BY DEF RememberLocalStage, authorityVars
  <1>2. runs' = runs \/ runs' = [runs EXCEPT ![r] = new]
    BY DEF RememberLocalStage
  <1>3. /\ AuthorityInv' /\ runs' \in Seq(RunRow) /\ RunIds' = RunIds /\ LedgerPersistence
        /\ \A b : RunsOf(b)' = RunsOf(b)
        /\ \A s \in RunIds : RunBound(s)'
    <2>1. CASE r \in RunIds /\ runs' = [runs EXCEPT ![r] = new]
      <3>1. runs[r] \in RunRow /\ RunBound(r)
        BY <2>1, RunShapes, BoundByRow DEF LedgerInv
      <3>2. /\ new \in RunRow /\ new.goal = runs[r].goal
            /\ new.assignment = runs[r].assignment /\ new.invocation = runs[r].invocation
        BY <3>1 DEF RunRow
      <3>3. new.invocation # NoInvocation =>
               /\ Known(invocations[new.invocation])
               /\ invocations[new.invocation].goal = new.goal
               /\ invocations[new.invocation].assignment = new.assignment
        BY <3>1, <3>2 DEF RunBound, BelongsTo
      <3> HIDE DEF new, r
      <3> QED
        BY <1>1, <2>1, <3>2, <3>3, RunRowStep
    <2>2. CASE r \notin RunIds \/ runs' = runs
      <3>1. runs = [s \in RunIds |-> runs[s]]
        BY RunShapes DEF LedgerInv
      <3>2. runs' = runs
        BY <1>2, <2>2, <3>1 DEF RunIds
      <3>3. RunIds' = RunIds /\ \A b : RunsOf(b)' = RunsOf(b)
        BY <3>2 DEF RunIds, RunsOf
      <3>4. \A s \in RunIds : RunBound(s)'
        BY <1>1, <3>2, BoundByRow DEF LedgerInv, RunBound, BelongsTo
      <3> QED
        BY <1>1, <3>2, <3>3, <3>4, SameAuthority DEF LedgerInv, LedgerTypeOK
    <2> QED
      BY <1>2, <2>1, <2>2
  <1>4. assignments[a].goal \in Goals
    BY <1>1, RowShapes DEF LedgerInv, AuthorityInv, AssignmentRow
  <1>5. reference \in RecoveryRow /\ reference.assignment = a
    BY DEF RecoveryRow
  <1>6. /\ recovery'[assignments[a].goal] = reference
        /\ \A g \in Goals : g # assignments[a].goal => recovery'[g] = recovery[g]
    BY <1>1, <1>4 DEF LedgerInv, LedgerTypeOK
  <1>7. LedgerTypeOK'
    BY <1>1, <1>3, <1>5 DEF LedgerInv, LedgerTypeOK
  <1>8. ASSUME NEW g \in Goals
        PROVE  RecoveryBound(g)'
    <2>1. \A b : InvocationsOf(b)' = InvocationsOf(b)
      BY <1>1 DEF InvocationsOf
    <2>2. CASE g = assignments[a].goal
      BY <1>1, <1>3, <1>5, <1>6, <2>1, <2>2 DEF RecoveryBound
    <2>3. CASE g # assignments[a].goal
      BY <1>1, <1>3, <1>6, <2>1, <2>3, BoundByRow DEF LedgerInv, RecoveryBound
    <2> QED
      BY <2>2, <2>3
  <1> QED
    BY <1>3, <1>7, <1>8, BoundByRow DEF LedgerInv

LEMMA ImportLedgerInv ==
    ASSUME LedgerInv, ImportLedger
    PROVE  LedgerInv' /\ LedgerPersistence
  <1>1. [Next]_authorityVars /\ UNCHANGED invocations
    BY DEF ImportLedger, Next, ImportAuthority
  <1>2. AuthorityInv' /\ Persistence
    BY <1>1, NextInv, NextPersistence DEF LedgerInv, AuthorityInv
  <1>3. RunIds' = RunIds /\ RunIds = 1..Len(runs) /\ Len(runs) \in Nat
    BY RunShapes DEF ImportLedger, LedgerInv, RunIds
  <1>4. ASSUME NEW r \in RunIds
        PROVE  /\ runs'[r] \in RunRow /\ runs'[r].goal = runs[r].goal
               /\ runs'[r].assignment = runs[r].assignment
               /\ runs'[r].invocation = runs[r].invocation
    <2>1. runs[r] \in RunRow
      BY RunShapes DEF LedgerInv
    <2>2. runs'[r] = [runs[r] EXCEPT
              !.status = IF runs[r].status = "running" THEN "interrupted" ELSE runs[r].status,
              !.stage = NoStage]
      BY DEF ImportLedger
    <2> QED
      BY <2>1, <2>2 DEF RunRow, FinishStatuses
  <1>5. runs' \in Seq(RunRow)
    <2>1. runs' = [r \in 1..Len(runs) |-> runs'[r]]
      BY <1>3 DEF ImportLedger
    <2>2. runs' \in [1..Len(runs) -> RunRow]
      BY <1>3, <1>4, <2>1
    <2> QED
      BY <1>3, <2>2, SeqDef
  <1>6. recovery' = [g \in Goals |-> NoRecovery]
    BY DEF ImportLedger
  <1>7. \A r \in RunIds : RunBound(r)'
    BY <1>2, <1>3, <1>4, BindingStays DEF RunBound, BelongsTo
  <1>8. RunsAreBound'
    BY <1>3, <1>6, <1>7, BoundByRow DEF RecoveryBound
  <1> QED
    BY <1>1, <1>2, <1>3, <1>5, <1>6, <1>8 DEF LedgerInv, LedgerTypeOK, LedgerPersistence

-----------------------------------------------------------------------------

LEMMA NextLedgerInv ==
    ASSUME LedgerInv, [LedgerNext]_ledgerVars
    PROVE  LedgerInv' /\ LedgerPersistence
  <1>1. ASSUME NEW g \in Goals, GoalStep(g), UNCHANGED ledgerTables
        PROVE  LedgerInv' /\ LedgerPersistence
    BY <1>1, AuthorityStep DEF Next
  <1>2. ASSUME NEW g \in Goals, NEW a \in Assignments, NEW i \in Invocations,
               NEW v \in 0..MaxInput, Invoke(g, a, i, v), UNCHANGED ledgerTables
        PROVE  LedgerInv' /\ LedgerPersistence
    BY <1>2, AuthorityStep DEF Next
  <1>3. ASSUME NEW i \in Invocations, NEW status \in FinishStatuses,
               Finish(i, status), UNCHANGED ledgerTables
        PROVE  LedgerInv' /\ LedgerPersistence
    BY <1>3, AuthorityStep DEF Next
  <1>4. CASE UNCHANGED ledgerVars
    BY <1>4, AuthorityStep DEF ledgerVars
  <1> QED
    BY <1>1, <1>2, <1>3, <1>4, StartRunInv, RunStepInv, RememberInv, ImportLedgerInv
       DEF LedgerNext

LEMMA InitLedgerInv == LedgerInit => LedgerInv
  <1> SUFFICES ASSUME LedgerInit PROVE LedgerInv
    OBVIOUS
  <1>1. AuthorityInv
    BY InitInv DEF LedgerInit
  <1>2. runs \in Seq(RunRow) /\ RunIds = {}
    BY EmptySeq DEF LedgerInit, RunIds
  <1> QED
    BY <1>1, <1>2 DEF LedgerInit, LedgerInv, LedgerTypeOK, RunsAreBound

\* The step form of RecoveryMovesForward.
ForwardStep ==
    \A g \in Goals :
        recovery[g] # NoRecovery /\ recovery'[g] # recovery[g] =>
           \/ recovery'[g] = NoRecovery
           \/ recovery'[g].assignment = recovery[g].assignment
           \/ /\ assignments[recovery[g].assignment].status = "fenced"
              /\ assignments'[recovery[g].assignment].status = "fenced"

LEMMA NextForward ==
    ASSUME LedgerInv, [LedgerNext]_ledgerVars
    PROVE  ForwardStep
  <1>1. ASSUME UNCHANGED recovery
        PROVE  ForwardStep
    BY <1>1 DEF ForwardStep
  <1>2. CASE ImportLedger
    BY <1>2 DEF ImportLedger, ForwardStep
  <1>3. ASSUME NEW a \in Assignments, NEW stage \in Stages, RememberLocalStage(a, stage)
        PROVE  ForwardStep
    <2> SUFFICES ASSUME NEW g \in Goals, recovery[g] # NoRecovery, recovery'[g] # recovery[g]
                 PROVE  \/ recovery'[g].assignment = recovery[g].assignment
                        \/ /\ assignments[recovery[g].assignment].status = "fenced"
                           /\ assignments'[recovery[g].assignment].status = "fenced"
      BY DEF ForwardStep
    <2>1. /\ assignments[a].status = "active" /\ UNCHANGED assignments
          /\ recovery' = [recovery EXCEPT ![assignments[a].goal] =
                  [assignment |-> a, stage |-> stage]]
      BY <1>3 DEF RememberLocalStage, authorityVars
    <2>2. g = assignments[a].goal /\ recovery'[g].assignment = a
      BY <2>1 DEF LedgerInv, LedgerTypeOK
    <2> DEFINE b == recovery[g].assignment
    <2>3. b \in Assignments /\ Known(assignments[b]) /\ assignments[b].goal = g
      BY RecoveryShapes DEF LedgerInv, RunsAreBound
    <2>4. b # a => assignments[b].status # "active"
      BY <2>1, <2>2, <2>3 DEF LedgerInv, AuthorityInv, OneActiveAssignment
    <2>5. assignments[b].status \in {"active", "fenced"}
      BY <2>3, RowShapes DEF LedgerInv, AuthorityInv, AssignmentRow
    <2> QED
      BY <2>1, <2>2, <2>4, <2>5
  <1>4. ASSUME NEW r \in RunIds, RunStep(r)
        PROVE  UNCHANGED recovery
    BY <1>4 DEF RunStep, RecordAdmission, BindInvocation, FinishRun
  <1> QED
    BY <1>1, <1>2, <1>3, <1>4 DEF LedgerNext, ledgerVars, ledgerTables, StartRun

\* The ledger's invariant holds in every reachable state.
THEOREM LedgerInvariant == LedgerSpec => []LedgerInv
  <1>1. LedgerInv /\ [LedgerNext]_ledgerVars => LedgerInv'
    BY NextLedgerInv
  <1> QED
    BY <1>1, InitLedgerInv, PTL DEF LedgerSpec

\* Runs and recovery references stay bound to the work they were made for.
THEOREM LedgerRunsAreBound == LedgerSpec => []RunsAreBound
  <1>1. LedgerInv => RunsAreBound
    BY DEF LedgerInv
  <1> QED
    BY <1>1, LedgerInvariant, PTL

\* A replaced run never moves a goal's recovery reference back.
THEOREM LedgerRecoveryMovesForward == LedgerSpec => RecoveryMovesForward
  <1>1. LedgerInv /\ [LedgerNext]_ledgerVars => [ForwardStep]_ledgerVars
    BY NextForward
  <1> QED
    BY <1>1, LedgerInvariant, PTL DEF LedgerSpec, RecoveryMovesForward, ForwardStep
=============================================================================
