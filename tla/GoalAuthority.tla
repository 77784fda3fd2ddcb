--------------------------- MODULE GoalAuthority ---------------------------
(***************************************************************************)
(* The authority tables of goal_native/store.py: goals, assignments and    *)
(* invocations, and the fences between them.                               *)
(*                                                                         *)
(* Every public method of Store that writes these tables runs inside one   *)
(* BEGIN IMMEDIATE transaction under the store's lock (Store._transaction),*)
(* so each is one atomic action, and an exception rolls it back: a call    *)
(* that raises is a call that takes no step.  Several controllers (the     *)
(* CLI, the server, a worker) call the methods in any order.               *)
(*                                                                         *)
(* A goal carries three counters.  An assignment copies them when it is    *)
(* made and an invocation copies them when it starts; a copy that no       *)
(* longer equals the goal's counters is stale, and every check of          *)
(* authority compares the copy with the goal (Fresh).                      *)
(*                                                                         *)
(* Left out: the outcome, criteria and constraints of a goal, the requests *)
(* and events tables (append-only, read by no guard), and the identity of  *)
(* rows, a fresh uuid4, which is an unused member of a constant set.       *)
(***************************************************************************)
EXTENDS Naturals

CONSTANTS
    Goals,          \* goal identities
    Assignments,    \* assignment identities
    Invocations,    \* invocation identities
    MaxRevision,    \* bound on goals.revision
    MaxInput,       \* bound on goals.input_version
    MaxAuthority    \* bound on goals.authority_version

ASSUME BoundsAssumption ==
    /\ MaxRevision \in Nat
    /\ MaxInput \in Nat
    /\ MaxAuthority \in Nat

VARIABLES
    goals,          \* goals[g]: a goal row, or NoRow before create_goal
    assignments,    \* assignments[a]: an assignment row, or NoRow
    invocations     \* invocations[i]: an invocation row, or NoRow

authorityVars == <<goals, assignments, invocations>>

-----------------------------------------------------------------------------
(* Rows.                                                                   *)

NoRow == [status |-> "absent"]

Controls == {"none", "pause", "cancel", "draft", "resume", "allow_effects"}
FinishStatuses == {"finished", "failed", "cancelled", "interrupted"}
Stopped == {"paused", "cancelled"}

GoalRow ==
    [revision: Nat, input_version: Nat, authority_version: Nat,
     status: {"draft", "active", "paused", "cancelled"},
     effects_allowed: BOOLEAN]

AssignmentRow ==
    [goal: Goals, revision: Nat, input_version: Nat, authority_version: Nat,
     status: {"active", "fenced"}]

InvocationRow ==
    [goal: Goals, assignment: Assignments,
     revision: Nat, input_version: Nat, authority_version: Nat,
     status: {"running"} \cup FinishStatuses]

Known(row) == row.status # "absent"

\* The comparison of snapshots every fence makes, key by key.
SameVersions(row, other) ==
    /\ row.revision = other.revision
    /\ row.input_version = other.input_version
    /\ row.authority_version = other.authority_version

\* The goal's counters have reached or passed those of the row.
NotAhead(row, goal) ==
    /\ row.revision <= goal.revision
    /\ row.input_version <= goal.input_version
    /\ row.authority_version <= goal.authority_version

AssignmentCurrent(a) ==
    /\ Known(assignments[a])
    /\ assignments[a].status = "active"
    /\ SameVersions(assignments[a], goals[assignments[a].goal])

\* Mutant of Fresh: the replacement is noticed, a change of versions is not.
FreshByAssignment(i) ==
    LET inv == invocations[i] IN
    /\ Known(inv)
    /\ goals[inv.goal].status \notin Stopped
    /\ assignments[inv.assignment].status = "active"

\* _assert_invocation_fresh: what approve, commit and accept require of the
\* invocation a product came from (it may have finished).
Fresh(i) ==
    LET inv == invocations[i] IN
    /\ Known(inv)
    /\ goals[inv.goal].status \notin Stopped
    /\ SameVersions(inv, goals[inv.goal])
    /\ assignments[inv.assignment].status = "active"

\* assert_invocation_current: what a tool dispatch requires.
Current(i) == invocations[i].status = "running" /\ Fresh(i)

-----------------------------------------------------------------------------
(* Human and controller operations on a goal.                              *)

CreateGoal(g) ==
    /\ ~Known(goals[g])
    /\ MaxRevision >= 1 /\ MaxAuthority >= 1
    /\ goals' = [goals EXCEPT ![g] =
            [revision |-> 1, input_version |-> 0, authority_version |-> 1,
             status |-> "draft", effects_allowed |-> FALSE]]
    /\ UNCHANGED <<assignments, invocations>>

\* Mutant of StatusAfter: the control itself becomes the status.
StatusVerbatim(status, control) ==
    IF control \in {"none", "allow_effects"} THEN status ELSE control

StatusAfter(status, control) ==
    CASE control = "pause"  -> "paused"
      [] control = "cancel" -> "cancelled"
      [] control = "draft"  -> "draft"
      [] control = "resume" -> "active"
      [] OTHER              -> status

EffectsAfter(allowed, control) ==
    \/ control = "allow_effects"
    \/ control \in {"none", "resume"} /\ allowed

\* Mutant of Request: a cancelled goal can be resumed.
RequestAfterCancel(g, control) ==
    LET goal == goals[g]
        step == IF control = "none" THEN 0 ELSE 1
    IN  /\ Known(goal)
        /\ goal.input_version < MaxInput
        /\ goal.authority_version + step <= MaxAuthority
        /\ goals' = [goals EXCEPT ![g] =
                [goal EXCEPT !.input_version = goal.input_version + 1,
                             !.authority_version = goal.authority_version + step,
                             !.status = StatusAfter(goal.status, control),
                             !.effects_allowed = EffectsAfter(goal.effects_allowed, control)]]
        /\ UNCHANGED <<assignments, invocations>>

Request(g, control) ==
    LET goal == goals[g]
        step == IF control = "none" THEN 0 ELSE 1
    IN  /\ Known(goal)
        /\ goal.status # "cancelled"
        /\ goal.input_version < MaxInput
        /\ goal.authority_version + step <= MaxAuthority
        /\ goals' = [goals EXCEPT ![g] =
                [goal EXCEPT !.input_version = goal.input_version + 1,
                             !.authority_version = goal.authority_version + step,
                             !.status = StatusAfter(goal.status, control),
                             !.effects_allowed = EffectsAfter(goal.effects_allowed, control)]]
        /\ UNCHANGED <<assignments, invocations>>

\* Mutant of PauseForInterruption: the authority counter stays.
PauseKeepsVersion(g) ==
    /\ Known(goals[g])
    /\ goals[g].status # "cancelled"
    /\ goals' = [goals EXCEPT ![g] =
            [@ EXCEPT !.status = "paused", !.effects_allowed = FALSE]]
    /\ UNCHANGED <<assignments, invocations>>

\* A cancelled goal is returned as it is: no step.
PauseForInterruption(g) ==
    LET goal == goals[g] IN
    /\ Known(goal)
    /\ goal.status # "cancelled"
    /\ goal.authority_version < MaxAuthority
    /\ goals' = [goals EXCEPT ![g] =
            [goal EXCEPT !.status = "paused",
                         !.effects_allowed = FALSE,
                         !.authority_version = goal.authority_version + 1]]
    /\ UNCHANGED <<assignments, invocations>>

\* Mutant of ReopenForRun: withdrawing effects alone does not count.
ReopenCountsPauses(g) ==
    LET goal == goals[g]
        step == IF goal.status = "paused" THEN 1 ELSE 0
    IN  /\ Known(goal)
        /\ goal.status # "cancelled"
        /\ goal.authority_version + step <= MaxAuthority
        /\ goals' = [goals EXCEPT ![g] =
                [goal EXCEPT !.status = IF goal.status = "paused" THEN "active"
                                                                  ELSE goal.status,
                             !.effects_allowed = FALSE,
                             !.authority_version = goal.authority_version + step]]
        /\ UNCHANGED <<assignments, invocations>>

\* The counter advances only when something about the authority changed.
ReopenForRun(g) ==
    LET goal == goals[g]
        step == IF goal.status = "paused" \/ goal.effects_allowed THEN 1 ELSE 0
    IN  /\ Known(goal)
        /\ goal.status # "cancelled"
        /\ goal.authority_version + step <= MaxAuthority
        /\ goals' = [goals EXCEPT ![g] =
                [goal EXCEPT !.status = IF goal.status = "paused" THEN "active"
                                                                  ELSE goal.status,
                             !.effects_allowed = FALSE,
                             !.authority_version = goal.authority_version + step]]
        /\ UNCHANGED <<assignments, invocations>>

\* Compare-and-set on the revision; the authority counter stays.
Revise(g, expected_revision) ==
    LET goal == goals[g] IN
    /\ Known(goal)
    /\ goal.status # "cancelled"
    /\ goal.revision = expected_revision
    /\ goal.revision < MaxRevision
    /\ goal.input_version < MaxInput
    /\ goals' = [goals EXCEPT ![g] =
            [goal EXCEPT !.revision = expected_revision + 1,
                         !.input_version = goal.input_version + 1]]
    /\ UNCHANGED <<assignments, invocations>>

-----------------------------------------------------------------------------
(* Assignments and invocations.                                            *)

\* Mutant of Assign: the predecessor stays active.
AssignBeside(g, a) ==
    LET goal == goals[g] IN
    /\ Known(goal)
    /\ goal.status \notin Stopped
    /\ ~Known(assignments[a])
    /\ assignments' = [assignments EXCEPT ![a] =
            [goal |-> g, revision |-> goal.revision,
             input_version |-> goal.input_version,
             authority_version |-> goal.authority_version,
             status |-> "active"]]
    /\ UNCHANGED <<goals, invocations>>

\* Replacement fences every assignment of the goal that is still active.
Assign(g, a) ==
    LET goal == goals[g] IN
    /\ Known(goal)
    /\ goal.status \notin Stopped
    /\ ~Known(assignments[a])
    /\ assignments' = [b \in Assignments |->
            IF b = a
            THEN [goal |-> g, revision |-> goal.revision,
                  input_version |-> goal.input_version,
                  authority_version |-> goal.authority_version,
                  status |-> "active"]
            ELSE IF assignments[b].status = "active" /\ assignments[b].goal = g
            THEN [assignments[b] EXCEPT !.status = "fenced"]
            ELSE assignments[b]]
    /\ UNCHANGED <<goals, invocations>>

\* Mutant of Invoke: neither the assignment's snapshot nor the caller's input
\* version is compared with the goal.
InvokeUnchecked(g, a, i, expected_input_version) ==
    LET goal == goals[g] IN
    /\ Known(goal)
    /\ goal.status \notin Stopped
    /\ Known(assignments[a])
    /\ assignments[a].goal = g
    /\ assignments[a].status = "active"
    /\ ~Known(invocations[i])
    /\ invocations' = [invocations EXCEPT ![i] =
            [goal |-> g, assignment |-> a, revision |-> goal.revision,
             input_version |-> goal.input_version,
             authority_version |-> goal.authority_version,
             status |-> "running"]]
    /\ UNCHANGED <<goals, assignments>>

\* expected_input_version is what the caller read of the goal earlier.
Invoke(g, a, i, expected_input_version) ==
    LET goal == goals[g] IN
    /\ Known(goal)
    /\ goal.status \notin Stopped
    /\ Known(assignments[a])
    /\ assignments[a].goal = g
    /\ assignments[a].status = "active"
    /\ goal.input_version = expected_input_version
    /\ SameVersions(assignments[a], goal)
    /\ ~Known(invocations[i])
    /\ invocations' = [invocations EXCEPT ![i] =
            [goal |-> g, assignment |-> a, revision |-> goal.revision,
             input_version |-> goal.input_version,
             authority_version |-> goal.authority_version,
             status |-> "running"]]
    /\ UNCHANGED <<goals, assignments>>

\* Finishing again with the same status and result returns the row, with
\* another raises: neither is a step.
Finish(i, status) ==
    /\ invocations[i].status = "running"
    /\ invocations' = [invocations EXCEPT ![i] = [@ EXCEPT !.status = status]]
    /\ UNCHANGED <<goals, assignments>>

\* export followed by import_data into an empty state directory, which from
\* then on is the store: no effect authority and no live assignment survive,
\* while counters, statuses and invocation rows are carried over as they are.
ImportAuthority ==
    /\ goals' = [g \in Goals |->
            IF Known(goals[g]) THEN [goals[g] EXCEPT !.effects_allowed = FALSE]
                               ELSE NoRow]
    /\ assignments' = [a \in Assignments |->
            IF Known(assignments[a]) THEN [assignments[a] EXCEPT !.status = "fenced"]
                                     ELSE NoRow]
    /\ UNCHANGED invocations

-----------------------------------------------------------------------------

Init ==
    /\ goals = [g \in Goals |-> NoRow]
    /\ assignments = [a \in Assignments |-> NoRow]
    /\ invocations = [i \in Invocations |-> NoRow]

GoalStep(g) ==
    \/ CreateGoal(g)
    \/ \E control \in Controls : Request(g, control)
    \/ PauseForInterruption(g)
    \/ ReopenForRun(g)
    \/ \E expected_revision \in 1..MaxRevision : Revise(g, expected_revision)
    \/ \E a \in Assignments : Assign(g, a)

Next ==
    \/ \E g \in Goals : GoalStep(g)
    \/ \E g \in Goals, a \in Assignments, i \in Invocations, v \in 0..MaxInput :
            Invoke(g, a, i, v)
    \/ \E i \in Invocations, status \in FinishStatuses : Finish(i, status)
    \/ ImportAuthority

Spec == Init /\ [][Next]_authorityVars

-----------------------------------------------------------------------------
(* Properties.                                                             *)

\* Every table holds rows of its own type.
TypeOK ==
    /\ goals \in [Goals -> GoalRow \cup {NoRow}]
    /\ assignments \in [Assignments -> AssignmentRow \cup {NoRow}]
    /\ invocations \in [Invocations -> InvocationRow \cup {NoRow}]

\* Two controllers that assign the same goal one after the other never both
\* hold a live assignment: at most one assignment of a goal is active.
OneActiveAssignment ==
    \A a, b \in Assignments :
        /\ assignments[a].status = "active"
        /\ assignments[b].status = "active"
        /\ assignments[a].goal = assignments[b].goal
        => a = b

\* Every snapshot belongs to an existing goal and was once that goal's own
\* counters, so it is never ahead of them; an invocation carries exactly the
\* snapshot of the assignment it runs under (what import_data later checks).
SnapshotsInherited ==
    /\ \A a \in Assignments : Known(assignments[a]) =>
            /\ Known(goals[assignments[a].goal])
            /\ NotAhead(assignments[a], goals[assignments[a].goal])
    /\ \A i \in Invocations : Known(invocations[i]) =>
            LET asg == assignments[invocations[i].assignment] IN
            /\ Known(asg)
            /\ asg.goal = invocations[i].goal
            /\ SameVersions(invocations[i], asg)

\* A live assignment whose snapshot still equals the goal's counters implies
\* the goal is neither paused nor cancelled.  start_run compares snapshots and
\* never looks at the status: this is why it cannot start a stopped goal.
CurrentIsRunnable ==
    \A a \in Assignments :
        AssignmentCurrent(a) => goals[assignments[a].goal].status \notin Stopped

\* No step changes what a goal permits (its status or effect authority) under
\* a live assignment without advancing the authority counter; import, which
\* withdraws the authority and keeps the counter, leaves no live assignment.
AuthorityEpoch ==
    [][\A g \in Goals :
          Known(goals[g]) /\ (\/ goals'[g].status # goals[g].status
                              \/ goals'[g].effects_allowed # goals[g].effects_allowed)
          => \/ goals'[g].authority_version > goals[g].authority_version
             \/ \A a \in Assignments :
                    ~(assignments'[a].status = "active" /\ assignments'[a].goal = g)
      ]_authorityVars

\* An invocation that lost its authority never gets it back: pausing and
\* resuming, a new assignment, a revision or a reopening never make a stale
\* invocation acceptable to approve, commit or accept again.
StaleForever ==
    [][\A i \in Invocations : Known(invocations[i]) /\ ~Fresh(i) => ~Fresh(i)']_authorityVars

\* Cancelling is final: a cancelled goal keeps its row, and gets no further
\* assignment or invocation.
CancelIsFinal ==
    [][\A g \in Goals : goals[g].status = "cancelled" =>
          /\ goals'[g] = goals[g]
          /\ \A a \in Assignments : assignments'[a].status = "active"
                                    /\ assignments'[a].goal = g
                                    => assignments'[a] = assignments[a]
          /\ \A i \in Invocations : Known(invocations'[i]) /\ invocations'[i].goal = g
                                    => Known(invocations[i])
      ]_authorityVars
=============================================================================
