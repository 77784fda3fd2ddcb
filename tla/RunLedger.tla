----------------------------- MODULE RunLedger -----------------------------
(***************************************************************************)
(* Run attempts and the recovery reference of goal_native/store.py, on top *)
(* of the authority tables.                                                *)
(*                                                                         *)
(* A run attempt is made under an assignment before the first invocation,  *)
(* so that a run that never reaches the model is recorded too.  The        *)
(* recovery reference of a goal (local_stages) names the stage directory   *)
(* of the last stopped work; it is local to the machine and never exported.*)
(*                                                                         *)
(* Left out of a run row: limits, diagnostic, assistant text, rounds and   *)
(* the content of the admission (no guard reads them).  `runs' is the      *)
(* table in the order of its rows (created_at, id).                        *)
(***************************************************************************)
EXTENDS GoalAuthority, Sequences

CONSTANTS
    Stages,         \* stage directory names
    NoStage,        \* no stage remembered
    NoInvocation,   \* run_attempts.invocation_id NULL
    MaxRuns         \* bound on the number of run attempts

ASSUME LedgerAssumption ==
    /\ NoStage \notin Stages
    /\ NoInvocation \notin Invocations
    /\ MaxRuns \in Nat

VARIABLES
    runs,           \* the run_attempts table, in creation order
    recovery        \* recovery[g]: the local_stages row of g, or NoRecovery

ledgerTables == <<runs, recovery>>
ledgerVars == <<authorityVars, ledgerTables>>

-----------------------------------------------------------------------------

RunRow ==
    [goal: Goals, assignment: Assignments,
     invocation: Invocations \cup {NoInvocation},
     status: {"running"} \cup FinishStatuses,
     admitted: BOOLEAN, stage: Stages \cup {NoStage}]

RecoveryRow == [assignment: Assignments, stage: Stages]
NoRecovery == [stage |-> NoStage]

RunIds == DOMAIN runs
RunsOf(a) == {r \in RunIds : runs[r].assignment = a}
Latest(a) == CHOOSE r \in RunsOf(a) : \A s \in RunsOf(a) : s <= r
InvocationsOf(a) ==
    {i \in Invocations : Known(invocations[i]) /\ invocations[i].assignment = a}

\* The fence of bind_run_invocation and finish_run.
BelongsTo(i, r) ==
    /\ Known(invocations[i])
    /\ invocations[i].goal = runs[r].goal
    /\ invocations[i].assignment = runs[r].assignment

\* start_run compares snapshots; it does not look at the goal's status.
StartRun(g, a) ==
    /\ Len(runs) < MaxRuns
    /\ Known(goals[g])
    /\ Known(assignments[a])
    /\ assignments[a].goal = g
    /\ AssignmentCurrent(a)
    /\ runs' = Append(runs, [goal |-> g, assignment |-> a, invocation |-> NoInvocation,
                             status |-> "running", admitted |-> FALSE, stage |-> NoStage])
    /\ UNCHANGED <<authorityVars, recovery>>

RecordAdmission(r) ==
    /\ runs[r].status = "running"
    /\ runs' = [runs EXCEPT ![r] = [@ EXCEPT !.admitted = TRUE]]
    /\ UNCHANGED <<authorityVars, recovery>>

BindInvocation(r, i) ==
    /\ BelongsTo(i, r)
    /\ runs[r].status = "running"
    /\ runs' = [runs EXCEPT ![r] = [@ EXCEPT !.invocation = i]]
    /\ UNCHANGED <<authorityVars, recovery>>

\* The first finish wins; a later one returns the row as it is.  Without an
\* invocation the row keeps the one it has (COALESCE).
FinishRun(r, status, i) ==
    /\ runs[r].status = "running"
    /\ i # NoInvocation => BelongsTo(i, r)
    /\ runs' = [runs EXCEPT ![r] =
            [@ EXCEPT !.status = status,
                      !.invocation = IF i = NoInvocation THEN runs[r].invocation ELSE i]]
    /\ UNCHANGED <<authorityVars, recovery>>

\* When remember_local_stage refuses with an error.
StillRunning(a) ==
    \/ \E i \in InvocationsOf(a) : invocations[i].status = "running"
    \/ RunsOf(a) # {} /\ runs[Latest(a)].status = "running"

\* Mutant of RememberLocalStage: a replaced controller may write as well.
RememberReplacedStage(a, stage) ==
    /\ Known(assignments[a])
    /\ ~StillRunning(a)
    /\ RunsOf(a) # {} \/ InvocationsOf(a) # {}
    /\ runs' = IF RunsOf(a) # {}
               THEN [runs EXCEPT ![Latest(a)] = [@ EXCEPT !.stage = stage]]
               ELSE runs
    /\ recovery' = [recovery EXCEPT ![assignments[a].goal] =
            [assignment |-> a, stage |-> stage]]
    /\ UNCHANGED authorityVars

\* Mutant of RememberLocalStage: nothing needs to have run.
RememberUnstarted(a, stage) ==
    /\ Known(assignments[a])
    /\ assignments[a].status = "active"
    /\ ~StillRunning(a)
    /\ runs' = IF RunsOf(a) # {}
               THEN [runs EXCEPT ![Latest(a)] = [@ EXCEPT !.stage = stage]]
               ELSE runs
    /\ recovery' = [recovery EXCEPT ![assignments[a].goal] =
            [assignment |-> a, stage |-> stage]]
    /\ UNCHANGED authorityVars

\* A replaced assignment returns False, and so does one that never ran.
RememberLocalStage(a, stage) ==
    /\ Known(assignments[a])
    /\ assignments[a].status = "active"
    /\ ~StillRunning(a)
    /\ RunsOf(a) # {} \/ InvocationsOf(a) # {}
    /\ runs' = IF RunsOf(a) # {}
               THEN [runs EXCEPT ![Latest(a)] = [@ EXCEPT !.stage = stage]]
               ELSE runs
    /\ recovery' = [recovery EXCEPT ![assignments[a].goal] =
            [assignment |-> a, stage |-> stage]]
    /\ UNCHANGED authorityVars

\* A run that was going on when the store was exported is interrupted
\* (imported_unfinished); stages stay behind.
ImportLedger ==
    /\ ImportAuthority
    /\ runs' = [r \in RunIds |->
            [runs[r] EXCEPT !.status = IF runs[r].status = "running" THEN "interrupted"
                                                                   ELSE runs[r].status,
                            !.stage = NoStage]]
    /\ recovery' = [g \in Goals |-> NoRecovery]

-----------------------------------------------------------------------------

LedgerInit ==
    /\ Init
    /\ runs = <<>>
    /\ recovery = [g \in Goals |-> NoRecovery]

RunStep(r) ==
    \/ RecordAdmission(r)
    \/ \E i \in Invocations : BindInvocation(r, i)
    \/ \E status \in FinishStatuses, i \in Invocations \cup {NoInvocation} :
            FinishRun(r, status, i)

LedgerNext ==
    \/ \E g \in Goals : GoalStep(g) /\ UNCHANGED ledgerTables
    \/ \E g \in Goals, a \in Assignments, i \in Invocations, v \in 0..MaxInput :
            Invoke(g, a, i, v) /\ UNCHANGED ledgerTables
    \/ \E i \in Invocations, status \in FinishStatuses :
            Finish(i, status) /\ UNCHANGED ledgerTables
    \/ \E g \in Goals, a \in Assignments : StartRun(g, a)
    \/ \E r \in RunIds : RunStep(r)
    \/ \E a \in Assignments, stage \in Stages : RememberLocalStage(a, stage)
    \/ ImportLedger

LedgerSpec == LedgerInit /\ [][LedgerNext]_ledgerVars

-----------------------------------------------------------------------------
(* Properties.                                                             *)

\* The run and recovery tables hold rows of their own type.
LedgerTypeOK ==
    /\ runs \in Seq(RunRow)
    /\ recovery \in [Goals -> RecoveryRow \cup {NoRecovery}]

\* Every run belongs to the goal of its assignment and names only an
\* invocation made under that assignment, and a goal's recovery reference
\* names work of that goal: what import_data checks of an exported run.
RunsAreBound ==
    /\ \A r \in RunIds :
          /\ Known(assignments[runs[r].assignment])
          /\ assignments[runs[r].assignment].goal = runs[r].goal
          /\ runs[r].invocation # NoInvocation => BelongsTo(runs[r].invocation, r)
    /\ \A g \in Goals : recovery[g] # NoRecovery =>
          /\ Known(assignments[recovery[g].assignment])
          /\ assignments[recovery[g].assignment].goal = g
          /\ RunsOf(recovery[g].assignment) \cup InvocationsOf(recovery[g].assignment) # {}

\* A replaced run never moves recovery back: when the reference of a goal
\* passes from one assignment to another, the former is fenced for good.
RecoveryMovesForward ==
    [][\A g \in Goals :
          recovery[g] # NoRecovery /\ recovery'[g] # recovery[g] =>
             \/ recovery'[g] = NoRecovery
             \/ recovery'[g].assignment = recovery[g].assignment
             \/ /\ assignments[recovery[g].assignment].status = "fenced"
                /\ assignments'[recovery[g].assignment].status = "fenced"
      ]_ledgerVars
=============================================================================
