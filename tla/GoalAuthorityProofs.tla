------------------------ MODULE GoalAuthorityProofs ------------------------
(***************************************************************************)
(* Proofs about GoalAuthority, for any sets of goals, assignments and      *)
(* invocations and any bounds.                                             *)
(*                                                                         *)
(* The inductive invariant is the conjunction of the four state            *)
(* properties: all need TypeOK, and CurrentIsRunnable needs                *)
(* SnapshotsInherited as well (a copy is never ahead of its goal, so a     *)
(* counter that advances leaves it behind).                                *)
(***************************************************************************)
EXTENDS GoalAuthority, TLAPS

AuthorityInv ==
    /\ TypeOK
    /\ OneActiveAssignment
    /\ SnapshotsInherited
    /\ CurrentIsRunnable

\* What one goal operation does to the goals table, whichever it is: another
\* goal keeps its row, no counter goes back, and a change of status or effect
\* authority advances the authority counter unless the goal is new; and who
\* cancels withdraws the effect authority.
GoalOnlyStep(g) ==
    /\ UNCHANGED <<assignments, invocations>>
    /\ goals'[g] \in GoalRow
    /\ goals' = [goals EXCEPT ![g] = goals'[g]]
    /\ goals'[g].status = "cancelled" => ~goals'[g].effects_allowed
    /\ Known(goals[g]) =>
          /\ goals[g].status # "cancelled"
          /\ NotAhead(goals[g], goals'[g])
          /\ \/ goals'[g].authority_version > goals[g].authority_version
             \/ /\ goals'[g].status = goals[g].status
                /\ goals'[g].effects_allowed = goals[g].effects_allowed

LEMMA RowShapes ==
    ASSUME TypeOK
    PROVE  /\ \A g \in Goals : Known(goals[g]) <=> goals[g] \in GoalRow
           /\ \A a \in Assignments : Known(assignments[a]) <=> assignments[a] \in AssignmentRow
           /\ \A i \in Invocations : Known(invocations[i]) <=> invocations[i] \in InvocationRow
  BY DEF TypeOK, Known, NoRow, GoalRow, AssignmentRow, InvocationRow, FinishStatuses

LEMMA GoalStepCases ==
    ASSUME TypeOK, NEW g \in Goals, GoalStep(g)
    PROVE  GoalOnlyStep(g) \/ \E a \in Assignments : Assign(g, a)
  <1> DEFINE goal == goals[g]
             next == goals'[g]
  <1>0. ASSUME Known(goal)
        PROVE  /\ goal \in GoalRow
               /\ goal.revision \in Nat /\ goal.input_version \in Nat
               /\ goal.authority_version \in Nat
               /\ goal.revision + 1 \in Nat /\ goal.input_version + 1 \in Nat
               /\ goal.authority_version + 1 \in Nat
               /\ goal.status \in {"draft", "active", "paused", "cancelled"}
               /\ goal.effects_allowed \in BOOLEAN
    <2>1. goal \in GoalRow
      BY <1>0, RowShapes
    <2> QED
      BY <2>1 DEF GoalRow
  <1>1. CASE CreateGoal(g)
    BY <1>1 DEF CreateGoal, GoalOnlyStep, TypeOK, GoalRow
  <1>2. ASSUME NEW control \in Controls, Request(g, control)
        PROVE  GoalOnlyStep(g)
    <2> DEFINE st == StatusAfter(goal.status, control)
               eff == EffectsAfter(goal.effects_allowed, control)
               auth == goal.authority_version + (IF control = "none" THEN 0 ELSE 1)
    <2>1. Known(goal) /\ goal.status # "cancelled"
      BY <1>2 DEF Request
    <2>2. st \in {"draft", "active", "paused", "cancelled"}
      BY <1>0, <2>1 DEF StatusAfter
    <2>3. eff \in BOOLEAN /\ auth \in Nat
      BY <1>0, <2>1 DEF EffectsAfter
    <2>4. next = [goal EXCEPT !.input_version = goal.input_version + 1,
                              !.authority_version = auth,
                              !.status = st, !.effects_allowed = eff]
      BY <1>2 DEF Request, TypeOK
    <2>5. /\ next \in GoalRow
          /\ next.revision = goal.revision
          /\ next.input_version = goal.input_version + 1
          /\ next.authority_version = auth
          /\ next.status = st /\ next.effects_allowed = eff
      BY <1>0, <2>1, <2>2, <2>3, <2>4 DEF GoalRow
    <2>6. control = "none" => st = goal.status /\ eff = goal.effects_allowed
      BY <1>0, <2>1 DEF StatusAfter, EffectsAfter
    <2>7. goals' = [goals EXCEPT ![g] = next] /\ UNCHANGED <<assignments, invocations>>
      BY <1>2, <2>4 DEF Request
    <2>8. st = "cancelled" => ~eff
      BY <2>1 DEF StatusAfter, EffectsAfter, Controls
    <2> QED
      BY <1>0, <2>1, <2>5, <2>6, <2>7, <2>8 DEF GoalOnlyStep, NotAhead
  <1>3. CASE PauseForInterruption(g)
    <2>1. Known(goal) /\ goal.status # "cancelled"
      BY <1>3 DEF PauseForInterruption
    <2>2. next = [goal EXCEPT !.status = "paused", !.effects_allowed = FALSE,
                              !.authority_version = goal.authority_version + 1]
      BY <1>3 DEF PauseForInterruption, TypeOK
    <2>3. /\ next \in GoalRow
          /\ next.revision = goal.revision
          /\ next.input_version = goal.input_version
          /\ next.authority_version = goal.authority_version + 1
          /\ next.status = "paused"
      BY <1>0, <2>1, <2>2 DEF GoalRow
    <2>4. goals' = [goals EXCEPT ![g] = next] /\ UNCHANGED <<assignments, invocations>>
      BY <1>3, <2>2 DEF PauseForInterruption
    <2> QED
      BY <1>0, <2>1, <2>3, <2>4 DEF GoalOnlyStep, NotAhead
  <1>4. CASE ReopenForRun(g)
    <2> DEFINE moved == goal.status = "paused" \/ goal.effects_allowed
               st == IF goal.status = "paused" THEN "active" ELSE goal.status
               auth == goal.authority_version + (IF moved THEN 1 ELSE 0)
    <2>1. Known(goal) /\ goal.status # "cancelled"
      BY <1>4 DEF ReopenForRun
    <2>2. auth \in Nat /\ st \in {"draft", "active", "paused", "cancelled"}
      BY <1>0, <2>1
    <2>3. next = [goal EXCEPT !.status = st, !.effects_allowed = FALSE,
                              !.authority_version = auth]
      BY <1>4 DEF ReopenForRun, TypeOK
    <2>4. /\ next \in GoalRow
          /\ next.revision = goal.revision
          /\ next.input_version = goal.input_version
          /\ next.authority_version = auth
          /\ next.status = st /\ next.effects_allowed = FALSE
      BY <1>0, <2>1, <2>2, <2>3 DEF GoalRow
    <2>5. goals' = [goals EXCEPT ![g] = next] /\ UNCHANGED <<assignments, invocations>>
      BY <1>4, <2>3 DEF ReopenForRun
    <2>6. NotAhead(goal, next)
      BY <1>0, <2>1, <2>4 DEF NotAhead
    <2>7. CASE moved
      <3>1. next.authority_version > goal.authority_version
        BY <1>0, <2>1, <2>4, <2>7
      <3> QED
        BY <2>1, <2>4, <2>5, <2>6, <3>1 DEF GoalOnlyStep
    <2>8. CASE ~moved
      <3>1. next.status = goal.status /\ next.effects_allowed = goal.effects_allowed
        BY <1>0, <2>1, <2>4, <2>8
      <3> QED
        BY <2>1, <2>4, <2>5, <2>6, <3>1 DEF GoalOnlyStep
    <2> QED
      BY <2>7, <2>8
  <1>5. ASSUME NEW expected_revision \in 1..MaxRevision, Revise(g, expected_revision)
        PROVE  GoalOnlyStep(g)
    <2>1. Known(goal) /\ goal.status # "cancelled" /\ expected_revision = goal.revision
      BY <1>5 DEF Revise
    <2>2. next = [goal EXCEPT !.revision = goal.revision + 1,
                              !.input_version = goal.input_version + 1]
      BY <1>5, <2>1 DEF Revise, TypeOK
    <2>3. /\ next \in GoalRow
          /\ next.revision = goal.revision + 1
          /\ next.input_version = goal.input_version + 1
          /\ next.authority_version = goal.authority_version
          /\ next.status = goal.status
          /\ next.effects_allowed = goal.effects_allowed
      BY <1>0, <2>1, <2>2 DEF GoalRow
    <2>4. goals' = [goals EXCEPT ![g] = next] /\ UNCHANGED <<assignments, invocations>>
      BY <1>5, <2>1, <2>2 DEF Revise
    <2> QED
      BY <1>0, <2>1, <2>3, <2>4 DEF GoalOnlyStep, NotAhead
  <1> QED
    BY <1>1, <1>2, <1>3, <1>4, <1>5 DEF GoalStep

\* What every step does to what exists: counters never go back, rows of
\* assignments and invocations keep their owner and their snapshot, and a
\* fenced assignment stays fenced.
Persistence ==
    /\ \A g \in Goals : Known(goals[g]) =>
          Known(goals'[g]) /\ NotAhead(goals[g], goals'[g])
    /\ \A a \in Assignments : Known(assignments[a]) =>
          /\ Known(assignments'[a])
          /\ assignments'[a].goal = assignments[a].goal
          /\ SameVersions(assignments'[a], assignments[a])
          /\ assignments'[a].status = "active" => assignments[a].status = "active"
    /\ \A i \in Invocations : Known(invocations[i]) =>
          /\ Known(invocations'[i])
          /\ invocations'[i].goal = invocations[i].goal
          /\ invocations'[i].assignment = invocations[i].assignment
          /\ SameVersions(invocations'[i], invocations[i])

LEMMA NotAheadReflexive ==
    ASSUME NEW row \in GoalRow
    PROVE  NotAhead(row, row)
  BY DEF NotAhead, GoalRow

LEMMA GoalOnlyPersistence ==
    ASSUME TypeOK, NEW g \in Goals, GoalOnlyStep(g)
    PROVE  TypeOK' /\ Persistence
  <1>1. TypeOK'
    BY DEF GoalOnlyStep, TypeOK
  <1>2. ASSUME NEW h \in Goals, Known(goals[h])
        PROVE  Known(goals'[h]) /\ NotAhead(goals[h], goals'[h])
    <2>1. CASE h = g
      BY <1>2, <2>1 DEF GoalOnlyStep, Known, GoalRow
    <2>2. CASE h # g
      BY <1>2, <2>2, RowShapes, NotAheadReflexive DEF GoalOnlyStep, TypeOK
    <2> QED
      BY <2>1, <2>2
  <1> QED
    BY <1>1, <1>2 DEF Persistence, GoalOnlyStep, SameVersions

LEMMA AssignPersistence ==
    ASSUME TypeOK, NEW g \in Goals, NEW a \in Assignments, Assign(g, a)
    PROVE  TypeOK' /\ Persistence
  <1>1. goals[g] \in GoalRow
    BY RowShapes DEF Assign
  <1>2. ASSUME NEW b \in Assignments
        PROVE  /\ assignments'[b] \in AssignmentRow \cup {NoRow}
               /\ Known(assignments[b]) =>
                     /\ Known(assignments'[b])
                     /\ assignments'[b].goal = assignments[b].goal
                     /\ SameVersions(assignments'[b], assignments[b])
                     /\ assignments'[b].status = "active" => assignments[b].status = "active"
    <2>1. CASE b = a
      BY <1>1, <2>1 DEF Assign, TypeOK, AssignmentRow, GoalRow
    <2>2. CASE b # a /\ assignments[b].status = "active" /\ assignments[b].goal = g
      <3>1. assignments[b] \in AssignmentRow
        BY <2>2, RowShapes DEF Known
      <3>2. assignments'[b] = [assignments[b] EXCEPT !.status = "fenced"]
        BY <2>2 DEF Assign
      <3> QED
        BY <3>1, <3>2 DEF AssignmentRow, Known, SameVersions
    <2>3. CASE b # a /\ ~(assignments[b].status = "active" /\ assignments[b].goal = g)
      BY <2>3 DEF Assign, TypeOK, SameVersions
    <2> QED
      BY <2>1, <2>2, <2>3
  <1>3. assignments' \in [Assignments -> AssignmentRow \cup {NoRow}]
    <2>1. assignments' = [b \in Assignments |-> assignments'[b]]
      BY DEF Assign
    <2> QED
      BY <1>2, <2>1
  <1> QED
    BY <1>2, <1>3, RowShapes, NotAheadReflexive DEF Assign, TypeOK, Persistence, SameVersions
LEMMA InvokePersistence ==
    ASSUME TypeOK, NEW g \in Goals, NEW a \in Assignments, NEW i \in Invocations,
           NEW v \in 0..MaxInput, Invoke(g, a, i, v)
    PROVE  TypeOK' /\ Persistence
  <1>1. goals[g] \in GoalRow
    BY RowShapes DEF Invoke
  <1>2. invocations'[i] \in InvocationRow
    BY <1>1 DEF Invoke, TypeOK, InvocationRow, GoalRow
  <1>3. TypeOK'
    BY <1>2 DEF Invoke, TypeOK
  <1> QED
    BY <1>3, RowShapes, NotAheadReflexive DEF Invoke, TypeOK, Persistence, SameVersions

LEMMA FinishPersistence ==
    ASSUME TypeOK, NEW i \in Invocations, NEW status \in FinishStatuses, Finish(i, status)
    PROVE  TypeOK' /\ Persistence
  <1>1. invocations[i] \in InvocationRow
    BY RowShapes DEF Finish, Known
  <1>2. invocations'[i] = [invocations[i] EXCEPT !.status = status]
    BY DEF Finish, TypeOK
  <1>3. /\ invocations'[i] \in InvocationRow
        /\ invocations'[i].goal = invocations[i].goal
        /\ invocations'[i].assignment = invocations[i].assignment
        /\ SameVersions(invocations'[i], invocations[i])
    BY <1>1, <1>2 DEF InvocationRow, SameVersions
  <1>4. Known(invocations'[i])
    BY <1>3 DEF InvocationRow, FinishStatuses, Known
  <1>5. TypeOK'
    BY <1>3 DEF Finish, TypeOK
  <1> QED
    BY <1>3, <1>4, <1>5, RowShapes, NotAheadReflexive DEF Finish, TypeOK, Persistence, SameVersions

LEMMA ImportPersistence ==
    ASSUME TypeOK, ImportAuthority
    PROVE  TypeOK' /\ Persistence
  <1>1. ASSUME NEW g \in Goals
        PROVE  /\ goals'[g] \in GoalRow \cup {NoRow}
               /\ Known(goals[g]) => Known(goals'[g]) /\ NotAhead(goals[g], goals'[g])
    <2>1. CASE Known(goals[g])
      <3>1. goals[g] \in GoalRow
        BY <2>1, RowShapes
      <3>2. goals'[g] = [goals[g] EXCEPT !.effects_allowed = FALSE]
        BY <2>1 DEF ImportAuthority
      <3>3. /\ goals'[g] \in GoalRow
            /\ goals'[g].revision = goals[g].revision
            /\ goals'[g].input_version = goals[g].input_version
            /\ goals'[g].authority_version = goals[g].authority_version
        BY <3>1, <3>2 DEF GoalRow
      <3> QED
        BY <3>1, <3>3 DEF GoalRow, Known, NotAhead
    <2>2. CASE ~Known(goals[g])
      BY <2>2 DEF ImportAuthority
    <2> QED
      BY <2>1, <2>2
  <1>2. ASSUME NEW a \in Assignments
        PROVE  /\ assignments'[a] \in AssignmentRow \cup {NoRow}
               /\ Known(assignments[a]) =>
                     /\ Known(assignments'[a])
                     /\ assignments'[a].goal = assignments[a].goal
                     /\ SameVersions(assignments'[a], assignments[a])
                     /\ assignments'[a].status # "active"
    <2>1. CASE Known(assignments[a])
      <3>1. assignments[a] \in AssignmentRow
        BY <2>1, RowShapes
      <3>2. assignments'[a] = [assignments[a] EXCEPT !.status = "fenced"]
        BY <2>1 DEF ImportAuthority
      <3> QED
        BY <3>1, <3>2 DEF AssignmentRow, Known, SameVersions
    <2>2. CASE ~Known(assignments[a])
      BY <2>2 DEF ImportAuthority
    <2> QED
      BY <2>1, <2>2
  <1>3. goals' = [g \in Goals |-> goals'[g]] /\ assignments' = [a \in Assignments |-> assignments'[a]]
    BY DEF ImportAuthority
  <1>4. TypeOK'
    BY <1>1, <1>2, <1>3 DEF ImportAuthority, TypeOK
  <1> QED
    BY <1>1, <1>2, <1>4 DEF ImportAuthority, Persistence, SameVersions

LEMMA StutterPersistence ==
    ASSUME TypeOK, UNCHANGED authorityVars
    PROVE  TypeOK' /\ Persistence
  BY RowShapes, NotAheadReflexive DEF authorityVars, TypeOK, Persistence, SameVersions

LEMMA NextPersistence ==
    ASSUME TypeOK, [Next]_authorityVars
    PROVE  TypeOK' /\ Persistence
  <1>1. ASSUME NEW g \in Goals, GoalStep(g)
        PROVE  TypeOK' /\ Persistence
    BY <1>1, GoalStepCases, GoalOnlyPersistence, AssignPersistence
  <1> QED
    BY <1>1, InvokePersistence, FinishPersistence, ImportPersistence, StutterPersistence DEF Next

-----------------------------------------------------------------------------
(* The three state properties, one step at a time.                         *)

LEMMA InitInv == Init => AuthorityInv
  BY DEF Init, AuthorityInv, TypeOK, OneActiveAssignment, SnapshotsInherited,
         CurrentIsRunnable, AssignmentCurrent, Known, NoRow

LEMMA NotAheadTransitive ==
    ASSUME NEW r \in AssignmentRow, NEW s \in GoalRow, NEW t \in GoalRow,
           NotAhead(r, s), NotAhead(s, t)
    PROVE  NotAhead(r, t)
  BY DEF NotAhead, AssignmentRow, GoalRow

\* An assignment row that is in the table after a step was there before, or
\* is the one Assign made.
LEMMA AssignmentOrigin ==
    ASSUME TypeOK, [Next]_authorityVars, NEW a \in Assignments,
           Known(assignments'[a]), ~Known(assignments[a])
    PROVE  \E g \in Goals : Assign(g, a)
  <1>1. ASSUME NEW g \in Goals, GoalOnlyStep(g)
        PROVE  FALSE
    BY <1>1 DEF GoalOnlyStep
  <1>2. ASSUME NEW g \in Goals, NEW b \in Assignments, Assign(g, b), b # a
        PROVE  FALSE
    BY <1>2 DEF Assign, Known, TypeOK, AssignmentRow
  <1>3. CASE ImportAuthority
    BY <1>3 DEF ImportAuthority, Known, NoRow
  <1>4. ASSUME UNCHANGED assignments
        PROVE  FALSE
    BY <1>4
  <1>5. ASSUME NEW g \in Goals, GoalStep(g)
        PROVE  \E h \in Goals : Assign(h, a)
    BY <1>1, <1>2, <1>5, GoalStepCases
  <1> QED
    BY <1>3, <1>4, <1>5 DEF Next, authorityVars, Invoke, Finish
LEMMA InvocationOrigin ==
    ASSUME TypeOK, [Next]_authorityVars, NEW i \in Invocations,
           Known(invocations'[i]), ~Known(invocations[i])
    PROVE  \E g \in Goals, a \in Assignments, v \in 0..MaxInput : Invoke(g, a, i, v)
  <1>1. ASSUME UNCHANGED invocations
        PROVE  FALSE
    BY <1>1
  <1>2. ASSUME NEW g \in Goals, GoalStep(g)
        PROVE  FALSE
    BY <1>1, <1>2, GoalStepCases DEF GoalOnlyStep, Assign
  <1>3. ASSUME NEW j \in Invocations, NEW status \in FinishStatuses, Finish(j, status)
        PROVE  FALSE
    BY <1>3 DEF Finish, Known, TypeOK, NoRow
  <1>4. ASSUME NEW g \in Goals, NEW a \in Assignments, NEW j \in Invocations,
               NEW v \in 0..MaxInput, Invoke(g, a, j, v), j # i
        PROVE  FALSE
    BY <1>4 DEF Invoke, TypeOK
  <1> QED
    BY <1>1, <1>2, <1>3, <1>4 DEF Next, authorityVars, ImportAuthority

\* The step form of AuthorityEpoch.
EpochStep ==
    \A g \in Goals :
        Known(goals[g]) /\ (\/ goals'[g].status # goals[g].status
                            \/ goals'[g].effects_allowed # goals[g].effects_allowed)
        => \/ goals'[g].authority_version > goals[g].authority_version
           \/ \A a \in Assignments :
                  ~(assignments'[a].status = "active" /\ assignments'[a].goal = g)

LEMMA NextEpoch ==
    ASSUME TypeOK, [Next]_authorityVars
    PROVE  EpochStep
  <1>1. ASSUME NEW g \in Goals, GoalOnlyStep(g)
        PROVE  EpochStep
    BY <1>1 DEF GoalOnlyStep, EpochStep, TypeOK
  <1>2. CASE UNCHANGED goals
    BY <1>2 DEF EpochStep
  <1>3. CASE ImportAuthority
    <2>1. ASSUME NEW a \in Assignments
          PROVE  assignments'[a].status # "active"
      <3>1. CASE Known(assignments[a])
        <4>1. assignments[a] \in AssignmentRow
          BY <3>1, RowShapes
        <4>2. assignments'[a] = [assignments[a] EXCEPT !.status = "fenced"]
          BY <1>3, <3>1 DEF ImportAuthority
        <4> QED
          BY <4>1, <4>2 DEF AssignmentRow
      <3>2. CASE ~Known(assignments[a])
        BY <1>3, <3>2 DEF ImportAuthority, NoRow
      <3> QED
        BY <3>1, <3>2
    <2> QED
      BY <2>1 DEF EpochStep
  <1>4. ASSUME NEW g \in Goals, GoalStep(g)
        PROVE  EpochStep
    BY <1>1, <1>2, <1>4, GoalStepCases DEF Assign
  <1> QED
    BY <1>2, <1>3, <1>4 DEF Next, authorityVars, Invoke, Finish

LEMMA NextOneActive ==
    ASSUME TypeOK, OneActiveAssignment, [Next]_authorityVars
    PROVE  OneActiveAssignment'
  <1> SUFFICES ASSUME NEW a \in Assignments, NEW b \in Assignments,
                      assignments'[a].status = "active",
                      assignments'[b].status = "active",
                      assignments'[a].goal = assignments'[b].goal
               PROVE  a = b
    BY DEF OneActiveAssignment
  <1>0. Persistence /\ Known(assignments'[a]) /\ Known(assignments'[b])
    BY NextPersistence DEF Known
  <1>1. CASE Known(assignments[a]) /\ Known(assignments[b])
    BY <1>0, <1>1 DEF Persistence, OneActiveAssignment
  <1>2. ASSUME NEW c \in Assignments, NEW d \in Assignments, NEW g \in Goals, Assign(g, c),
               assignments'[c].status = "active", assignments'[d].status = "active",
               assignments'[c].goal = assignments'[d].goal
        PROVE  c = d
    <2> SUFFICES ASSUME c # d PROVE FALSE
      OBVIOUS
    <2>1. assignments'[c].goal = g
      BY <1>2 DEF Assign
    <2>2. CASE assignments[d].status = "active" /\ assignments[d].goal = g
      <3>1. assignments[d] \in AssignmentRow
        BY <2>2, RowShapes DEF Known
      <3>2. assignments'[d] = [assignments[d] EXCEPT !.status = "fenced"]
        BY <1>2, <2>2 DEF Assign
      <3> QED
        BY <1>2, <3>1, <3>2 DEF AssignmentRow
    <2>3. CASE ~(assignments[d].status = "active" /\ assignments[d].goal = g)
      BY <1>2, <2>1, <2>3 DEF Assign
    <2> QED
      BY <2>2, <2>3
  <1>3. CASE ~Known(assignments[a])
    BY <1>0, <1>2, <1>3, AssignmentOrigin
  <1>4. CASE ~Known(assignments[b])
    BY <1>0, <1>2, <1>4, AssignmentOrigin
  <1> QED
    BY <1>1, <1>3, <1>4

LEMMA NextSnapshots ==
    ASSUME TypeOK, SnapshotsInherited, [Next]_authorityVars
    PROVE  SnapshotsInherited'
  <1>0. TypeOK' /\ Persistence
    BY NextPersistence
  <1>1. ASSUME NEW a \in Assignments, Known(assignments'[a])
        PROVE  /\ Known(goals'[assignments'[a].goal])
               /\ NotAhead(assignments'[a], goals'[assignments'[a].goal])
    <2>1. CASE Known(assignments[a])
      <3> DEFINE g == assignments[a].goal
      <3>1. /\ assignments[a] \in AssignmentRow /\ g \in Goals
            /\ Known(goals[g]) /\ NotAhead(assignments[a], goals[g])
        BY <2>1, RowShapes DEF SnapshotsInherited, AssignmentRow
      <3>2. Known(goals'[g]) /\ NotAhead(goals[g], goals'[g])
        BY <1>0, <3>1 DEF Persistence
      <3>3. goals[g] \in GoalRow /\ goals'[g] \in GoalRow
        BY <1>0, <3>1, <3>2, RowShapes DEF TypeOK, Known, NoRow
      <3>4. NotAhead(assignments[a], goals'[g])
        BY <3>1, <3>2, <3>3, NotAheadTransitive
      <3>5. assignments'[a].goal = g /\ SameVersions(assignments'[a], assignments[a])
        BY <1>0, <2>1 DEF Persistence
      <3> QED
        BY <3>2, <3>4, <3>5 DEF NotAhead, SameVersions
    <2>2. CASE ~Known(assignments[a])
      <3>1. PICK g \in Goals : Assign(g, a)
        BY <1>1, <2>2, AssignmentOrigin
      <3>2. goals[g] \in GoalRow
        BY <3>1, RowShapes DEF Assign
      <3> QED
        BY <3>1, <3>2 DEF Assign, NotAhead, GoalRow
    <2> QED
      BY <2>1, <2>2
  <1>2. ASSUME NEW i \in Invocations, Known(invocations'[i])
        PROVE  /\ Known(assignments'[invocations'[i].assignment])
               /\ assignments'[invocations'[i].assignment].goal = invocations'[i].goal
               /\ SameVersions(invocations'[i], assignments'[invocations'[i].assignment])
    <2>1. CASE Known(invocations[i])
      <3> DEFINE a == invocations[i].assignment
      <3>1. a \in Assignments
        BY <2>1, RowShapes DEF InvocationRow
      <3>2. /\ Known(assignments[a])
            /\ assignments[a].goal = invocations[i].goal
            /\ SameVersions(invocations[i], assignments[a])
        BY <2>1 DEF SnapshotsInherited
      <3> QED
        BY <1>0, <2>1, <3>1, <3>2 DEF Persistence, SameVersions
    <2>2. CASE ~Known(invocations[i])
      <3>1. PICK g \in Goals, a \in Assignments, v \in 0..MaxInput : Invoke(g, a, i, v)
        BY <1>2, <2>2, InvocationOrigin
      <3> QED
        BY <3>1 DEF Invoke, SameVersions, TypeOK
    <2> QED
      BY <2>1, <2>2
  <1> QED
    BY <1>1, <1>2 DEF SnapshotsInherited
LEMMA SameVersionsSqueeze ==
    ASSUME NEW r \in AssignmentRow, NEW s \in GoalRow, NEW t \in GoalRow,
           NotAhead(r, s), NotAhead(s, t), SameVersions(r, t)
    PROVE  SameVersions(r, s) /\ SameVersions(s, t)
  BY DEF NotAhead, SameVersions, AssignmentRow, GoalRow

\* A snapshot that equals the counters after a step equalled them before it.
LEMMA CurrentBefore ==
    ASSUME TypeOK, SnapshotsInherited, [Next]_authorityVars,
           NEW a \in Assignments, Known(assignments[a]),
           SameVersions(assignments'[a], goals'[assignments'[a].goal])
    PROVE  LET g == assignments[a].goal IN
           /\ g \in Goals /\ Known(goals[g]) /\ goals[g] \in GoalRow /\ goals'[g] \in GoalRow
           /\ assignments'[a].goal = g
           /\ SameVersions(assignments[a], goals[g])
           /\ SameVersions(goals[g], goals'[g])
  <1> DEFINE g == assignments[a].goal
  <1>0. TypeOK' /\ Persistence
    BY NextPersistence
  <1>1. /\ assignments[a] \in AssignmentRow /\ g \in Goals
        /\ Known(goals[g]) /\ NotAhead(assignments[a], goals[g])
    BY RowShapes DEF SnapshotsInherited, AssignmentRow
  <1>2. Known(goals'[g]) /\ NotAhead(goals[g], goals'[g])
    BY <1>0, <1>1 DEF Persistence
  <1>3. goals[g] \in GoalRow /\ goals'[g] \in GoalRow
    BY <1>0, <1>1, <1>2, RowShapes DEF TypeOK, Known, NoRow
  <1>4. assignments'[a].goal = g /\ SameVersions(assignments'[a], assignments[a])
    BY <1>0 DEF Persistence
  <1>5. SameVersions(assignments[a], goals'[g])
    BY <1>4 DEF SameVersions
  <1> QED
    BY <1>1, <1>2, <1>3, <1>4, <1>5, SameVersionsSqueeze

LEMMA NextRunnable ==
    ASSUME TypeOK, SnapshotsInherited, CurrentIsRunnable, [Next]_authorityVars
    PROVE  CurrentIsRunnable'
  <1> SUFFICES ASSUME NEW a \in Assignments, Known(assignments'[a]),
                      assignments'[a].status = "active",
                      SameVersions(assignments'[a], goals'[assignments'[a].goal])
               PROVE  goals'[assignments'[a].goal].status \notin Stopped
    BY DEF CurrentIsRunnable, AssignmentCurrent
  <1>1. CASE Known(assignments[a])
    <2> DEFINE g == assignments[a].goal
    <2>1. /\ g \in Goals /\ Known(goals[g])
          /\ goals[g] \in GoalRow /\ goals'[g] \in GoalRow
          /\ assignments'[a].goal = g
          /\ SameVersions(assignments[a], goals[g])
          /\ SameVersions(goals[g], goals'[g])
      BY <1>1, CurrentBefore
    <2>2. assignments[a].status = "active"
      BY <1>1, NextPersistence DEF Persistence
    <2>3. goals[g].status \notin Stopped
      BY <1>1, <2>1, <2>2 DEF CurrentIsRunnable, AssignmentCurrent
    <2>4. ~(goals'[g].authority_version > goals[g].authority_version)
      BY <2>1 DEF SameVersions, GoalRow
    <2>5. goals'[g].status = goals[g].status
      BY <2>1, <2>4, NextEpoch DEF EpochStep
    <2> QED
      BY <2>1, <2>3, <2>5
  <1>2. CASE ~Known(assignments[a])
    <2>1. PICK g \in Goals : Assign(g, a)
      BY <1>2, AssignmentOrigin
    <2> QED
      BY <2>1 DEF Assign
  <1> QED
    BY <1>1, <1>2

\* What makes CancelIsFinal inductive: an import withdraws the effect
\* authority of every goal, and a cancelled one has none left.
CancelledIsBare ==
    \A g \in Goals : goals[g].status = "cancelled" => goals[g].effects_allowed = FALSE

LEMMA NextBare ==
    ASSUME TypeOK, CancelledIsBare, [Next]_authorityVars
    PROVE  CancelledIsBare'
  <1>1. ASSUME NEW g \in Goals, GoalOnlyStep(g)
        PROVE  CancelledIsBare'
    BY <1>1 DEF GoalOnlyStep, CancelledIsBare, TypeOK, GoalRow
  <1>2. CASE UNCHANGED goals
    BY <1>2 DEF CancelledIsBare
  <1>3. CASE ImportAuthority
    <2>1. ASSUME NEW g \in Goals, goals'[g].status = "cancelled"
          PROVE  goals'[g].effects_allowed = FALSE
      <3>1. Known(goals[g])
        BY <1>3, <2>1 DEF ImportAuthority, NoRow
      <3>2. goals'[g] = [goals[g] EXCEPT !.effects_allowed = FALSE] /\ goals[g] \in GoalRow
        BY <1>3, <3>1, RowShapes DEF ImportAuthority
      <3> QED
        BY <3>2 DEF GoalRow
    <2> QED
      BY <2>1 DEF CancelledIsBare
  <1>4. ASSUME NEW g \in Goals, GoalStep(g)
        PROVE  CancelledIsBare'
    BY <1>1, <1>2, <1>4, GoalStepCases DEF Assign
  <1> QED
    BY <1>2, <1>3, <1>4 DEF Next, authorityVars, Invoke, Finish

\* The step form of CancelIsFinal.
FinalStep ==
    \A g \in Goals : goals[g].status = "cancelled" =>
        /\ goals'[g] = goals[g]
        /\ \A a \in Assignments : assignments'[a].status = "active"
                                  /\ assignments'[a].goal = g
                                  => assignments'[a] = assignments[a]
        /\ \A i \in Invocations : Known(invocations'[i]) /\ invocations'[i].goal = g
                                  => Known(invocations[i])

LEMMA NextFinal ==
    ASSUME TypeOK, CancelledIsBare, [Next]_authorityVars
    PROVE  FinalStep
  <1> SUFFICES ASSUME NEW g \in Goals, goals[g].status = "cancelled"
               PROVE  /\ goals'[g] = goals[g]
                      /\ \A a \in Assignments : assignments'[a].status = "active"
                                                /\ assignments'[a].goal = g
                                                => assignments'[a] = assignments[a]
                      /\ \A i \in Invocations : Known(invocations'[i]) /\ invocations'[i].goal = g
                                                => Known(invocations[i])
    BY DEF FinalStep
  <1>0. Known(goals[g]) /\ goals[g] \in GoalRow
    BY RowShapes DEF Known
  <1>1. ASSUME NEW i \in Invocations, Known(invocations'[i]), invocations'[i].goal = g
        PROVE  Known(invocations[i])
    <2> SUFFICES ASSUME ~Known(invocations[i]) PROVE FALSE
      OBVIOUS
    <2>1. PICK h \in Goals, a \in Assignments, v \in 0..MaxInput : Invoke(h, a, i, v)
      BY <1>1, InvocationOrigin
    <2>2. h = g
      BY <1>1, <2>1 DEF Invoke, TypeOK
    <2> QED
      BY <2>1, <2>2 DEF Invoke, Stopped
  <1>2. ASSUME NEW h \in Goals, GoalOnlyStep(h)
        PROVE  goals'[g] = goals[g] /\ UNCHANGED assignments
    <2>1. h # g
      BY <1>0, <1>2 DEF GoalOnlyStep
    <2> QED
      BY <1>2, <2>1 DEF GoalOnlyStep, TypeOK
  <1>3. ASSUME NEW h \in Goals, NEW b \in Assignments, Assign(h, b)
        PROVE  /\ goals'[g] = goals[g]
               /\ \A a \in Assignments : assignments'[a].status = "active"
                                         /\ assignments'[a].goal = g
                                         => assignments'[a] = assignments[a]
    <2>1. h # g
      BY <1>3 DEF Assign, Stopped
    <2>2. ASSUME NEW a \in Assignments, assignments'[a].status = "active", assignments'[a].goal = g
          PROVE  assignments'[a] = assignments[a]
      <3>1. a # b
        BY <1>3, <2>1, <2>2 DEF Assign
      <3>2. CASE assignments[a].status = "active" /\ assignments[a].goal = h
        <4>1. assignments[a] \in AssignmentRow
          BY <3>2, RowShapes DEF Known
        <4>2. assignments'[a] = [assignments[a] EXCEPT !.status = "fenced"]
          BY <1>3, <3>1, <3>2 DEF Assign
        <4> QED
          BY <2>2, <4>1, <4>2 DEF AssignmentRow
      <3>3. CASE ~(assignments[a].status = "active" /\ assignments[a].goal = h)
        BY <1>3, <3>1, <3>3 DEF Assign
      <3> QED
        BY <3>2, <3>3
    <2> QED
      BY <1>3, <2>2 DEF Assign
  <1>4. CASE ImportAuthority
    <2>1. goals'[g] = [goals[g] EXCEPT !.effects_allowed = FALSE]
      BY <1>0, <1>4 DEF ImportAuthority
    <2>2. goals'[g] = goals[g]
      BY <1>0, <2>1 DEF CancelledIsBare, GoalRow
    <2>3. ASSUME NEW a \in Assignments
          PROVE  assignments'[a].status # "active"
      <3>1. CASE Known(assignments[a])
        <4>1. assignments[a] \in AssignmentRow
          BY <3>1, RowShapes
        <4>2. assignments'[a] = [assignments[a] EXCEPT !.status = "fenced"]
          BY <1>4, <3>1 DEF ImportAuthority
        <4> QED
          BY <4>1, <4>2 DEF AssignmentRow
      <3>2. CASE ~Known(assignments[a])
        BY <1>4, <3>2 DEF ImportAuthority, NoRow
      <3> QED
        BY <3>1, <3>2
    <2> QED
      BY <1>1, <2>2, <2>3
  <1>5. ASSUME NEW h \in Goals, GoalStep(h)
        PROVE  /\ goals'[g] = goals[g]
               /\ \A a \in Assignments : assignments'[a].status = "active"
                                         /\ assignments'[a].goal = g
                                         => assignments'[a] = assignments[a]
    BY <1>2, <1>3, <1>5, GoalStepCases
  <1>6. CASE UNCHANGED <<goals, assignments>>
    BY <1>1, <1>6
  <1> QED
    BY <1>1, <1>4, <1>5, <1>6 DEF Next, authorityVars, Invoke, Finish

-----------------------------------------------------------------------------
(* Theorems.                                                               *)

LEMMA NextInv ==
    ASSUME AuthorityInv, [Next]_authorityVars
    PROVE  AuthorityInv'
  BY NextPersistence, NextOneActive, NextSnapshots, NextRunnable DEF AuthorityInv

\* The inductive invariant holds in every reachable state.
THEOREM AuthorityInvariant == Spec => []AuthorityInv
  BY InitInv, NextInv, PTL DEF Spec

\* Every table holds rows of its own type.
THEOREM TypeCorrectness == Spec => []TypeOK
  <1>1. AuthorityInv => TypeOK
    BY DEF AuthorityInv
  <1> QED
    BY <1>1, AuthorityInvariant, PTL

\* A goal never has two live assignments, whatever controllers assign it.
THEOREM OneActiveAssignmentHolds == Spec => []OneActiveAssignment
  <1>1. AuthorityInv => OneActiveAssignment
    BY DEF AuthorityInv
  <1> QED
    BY <1>1, AuthorityInvariant, PTL

\* Snapshots are inherited and never ahead of their goal.
THEOREM SnapshotsInheritedHolds == Spec => []SnapshotsInherited
  <1>1. AuthorityInv => SnapshotsInherited
    BY DEF AuthorityInv
  <1> QED
    BY <1>1, AuthorityInvariant, PTL

\* A current assignment is an assignment of a goal that may run.
THEOREM CurrentIsRunnableHolds == Spec => []CurrentIsRunnable
  <1>1. AuthorityInv => CurrentIsRunnable
    BY DEF AuthorityInv
  <1> QED
    BY <1>1, AuthorityInvariant, PTL

\* No change of what a goal permits leaves a live assignment under the old
\* authority counter.
THEOREM AuthorityEpochHolds == Spec => AuthorityEpoch
  <1>1. TypeOK /\ [Next]_authorityVars => [EpochStep]_authorityVars
    BY NextEpoch
  <1> QED
    BY <1>1, TypeCorrectness, PTL DEF Spec, AuthorityEpoch, EpochStep

\* A stale invocation stays stale: if it is fresh after a step it was fresh
\* before, since its snapshot would have been squeezed between the counters.
LEMMA FreshBefore ==
    ASSUME AuthorityInv, [Next]_authorityVars, NEW i \in Invocations,
           Known(invocations[i]), Fresh(i)'
    PROVE  Fresh(i)
  <1> DEFINE inv == invocations[i]
             a == inv.assignment
  <1>0. TypeOK /\ SnapshotsInherited /\ CurrentIsRunnable
    BY DEF AuthorityInv
  <1>1. /\ a \in Assignments /\ Known(assignments[a])
        /\ assignments[a].goal = inv.goal
        /\ SameVersions(inv, assignments[a])
    BY <1>0, RowShapes DEF SnapshotsInherited, InvocationRow
  <1>2. /\ invocations'[i].goal = inv.goal /\ invocations'[i].assignment = a
        /\ SameVersions(invocations'[i], inv)
        /\ assignments'[a].goal = assignments[a].goal
        /\ SameVersions(assignments'[a], assignments[a])
        /\ assignments'[a].status = "active" => assignments[a].status = "active"
    BY <1>0, <1>1, NextPersistence DEF Persistence
  <1>3. /\ SameVersions(invocations'[i], goals'[inv.goal])
        /\ assignments'[a].status = "active"
    BY <1>2 DEF Fresh
  <1>4. SameVersions(assignments'[a], goals'[assignments'[a].goal])
    BY <1>1, <1>2, <1>3 DEF SameVersions
  <1>5. SameVersions(assignments[a], goals[inv.goal])
    BY <1>0, <1>1, <1>4, CurrentBefore
  <1>6. goals[inv.goal].status \notin Stopped
    BY <1>0, <1>1, <1>2, <1>3, <1>5 DEF CurrentIsRunnable, AssignmentCurrent
  <1> QED
    BY <1>1, <1>2, <1>3, <1>5, <1>6 DEF Fresh, SameVersions

\* An invocation that lost its authority never gets it back.
THEOREM StaleForeverHolds == Spec => StaleForever
  <1>1. AuthorityInv /\ [Next]_authorityVars =>
            [\A i \in Invocations : Known(invocations[i]) /\ ~Fresh(i) => ~Fresh(i)']_authorityVars
    BY FreshBefore
  <1> QED
    BY <1>1, AuthorityInvariant, PTL DEF Spec, StaleForever

\* A cancelled goal keeps its row and gets no further work.
THEOREM CancelIsFinalHolds == Spec => CancelIsFinal
  <1>1. Init => CancelledIsBare
    BY DEF Init, CancelledIsBare, NoRow
  <1>2. TypeOK /\ CancelledIsBare /\ [Next]_authorityVars => CancelledIsBare'
    BY NextBare
  <1>3. TypeOK /\ CancelledIsBare /\ [Next]_authorityVars => [FinalStep]_authorityVars
    BY NextFinal
  <1> QED
    BY <1>1, <1>2, <1>3, TypeCorrectness, PTL DEF Spec, CancelIsFinal, FinalStep
=============================================================================
