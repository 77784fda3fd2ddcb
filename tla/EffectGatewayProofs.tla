------------------------ MODULE EffectGatewayProofs ------------------------
(***************************************************************************)
(* Proofs about EffectGateway, for any sets of goals, artifacts, effects   *)
(* and targets and any bounds: its state properties, and that it           *)
(* implements CommitPromise.                                               *)
(*                                                                         *)
(* The inductive invariant is the conjunction of the state properties      *)
(* with the invariant of the authority tables.  They hold each other up:   *)
(* Commit leaves no gap because an undelivered operation has no history    *)
(* row (DeliveredIsRecorded); Reconcile never takes its second branch,     *)
(* because a destination names only recorded operations (Importable); and  *)
(* an import fits because snapshots are never ahead (AuthorityInv).        *)
(***************************************************************************)
EXTENDS EffectGateway, GoalAuthorityProofs

GatewayInv ==
    /\ AuthorityInv
    /\ GatewayTypeOK
    /\ HistoryExplainsDestination
    /\ DeliveredIsRecorded
    /\ Importable

effectTables == <<effects, destinations, history>>
productTables == <<artifacts, evidence, acceptances>>

-----------------------------------------------------------------------------
(* Rows.                                                                   *)

LEMMA EffectShapes ==
    ASSUME GatewayTypeOK, NEW f \in Effects
    PROVE  /\ effects[f] # NoEffect <=> effects[f] \in EffectRow
           /\ effects[f] # NoEffect <=> effects[f].state # "absent"
           /\ effects[f] # NoEffect <=> effects[f].state \in EffectStates
           /\ effects[f] # NoEffect =>
                 /\ effects[f].evidence \in EvidenceRow
                 /\ Candidate(f) \in ArtifactRow
                 /\ Candidate(f).invocation \in Invocations
                 /\ Candidate(f).content \in Contents
                 /\ effects[f].target \in Targets
                 /\ effects[f].expected_version \in Nat
  BY DEF GatewayTypeOK, NoEffect, EffectRow, EffectStates, Candidate, EvidenceRow, ArtifactRow

LEMMA HistoryShapes ==
    ASSUME GatewayTypeOK, NEW f \in Effects
    PROVE  /\ history[f].version \in Nat
           /\ Recorded(f) => history[f] \in HistoryRow
  BY DEF GatewayTypeOK, NoHistory, HistoryRow, Recorded

LEMMA DestinationShapes ==
    ASSUME GatewayTypeOK, NEW t \in Targets
    PROVE  /\ destinations[t].version \in Nat
           /\ destinations[t].content \in Contents
           /\ destinations[t].operation \in Effects \cup {NoOperation}
  BY DEF GatewayTypeOK, DestinationRow

\* The history row that commit writes has the type of one.
LEMMA DeliveryShapes ==
    ASSUME GatewayTypeOK, NEW f \in Effects, effects[f] # NoEffect
    PROVE  /\ DeliveryRow(f) \in HistoryRow
           /\ DeliveryRow(f).target = effects[f].target
           /\ DeliveryRow(f).version = effects[f].expected_version + 1
           /\ DeliveryRow(f).version > 0
           /\ DeliveryRow(f).content = Candidate(f).content
  BY EffectShapes DEF DeliveryRow, HistoryRow

\* An operation with a history row is a delivered effect.
LEMMA RecordedEffect ==
    ASSUME GatewayTypeOK, DeliveredIsRecorded, NEW f \in Effects, Recorded(f)
    PROVE  /\ effects[f] # NoEffect
           /\ effects[f].state \notin {"absent", "prepared", "approved"}
           /\ history[f] = DeliveryRow(f)
           /\ history[f].target = effects[f].target
           /\ history[f].version = effects[f].expected_version + 1
  <1>1. effects[f].state \notin {"absent", "prepared", "approved"} /\ history[f] = DeliveryRow(f)
    BY DEF DeliveredIsRecorded
  <1>2. effects[f] # NoEffect
    BY <1>1, EffectShapes
  <1> QED
    BY <1>1, <1>2, DeliveryShapes

-----------------------------------------------------------------------------
(* Every step of the gateway is a step of the authority tables, or leaves  *)
(* them alone.                                                             *)

LEMMA StepsAuthority ==
    ASSUME [GatewayNext]_gatewayVars
    PROVE  [Next]_authorityVars
  <1>1. ASSUME NEW g \in Goals, GoalStep(g)
        PROVE  Next
    BY <1>1 DEF Next
  <1>2. ASSUME NEW i \in Invocations, NEW status \in FinishStatuses, Finish(i, status)
        PROVE  Next
    BY <1>2 DEF Next
  <1>3. ASSUME NEW g \in Goals, NEW a \in Assignments, NEW i \in Invocations,
               NEW v \in 0..MaxInput, InvokeWithContext(g, a, i, v)
        PROVE  Next
    BY <1>3 DEF Next, InvokeWithContext
  <1>4. CASE ImportStore
    BY <1>4 DEF Next, ImportStore
  <1>5. ASSUME NEW f \in Effects, EffectStep(f)
        PROVE  UNCHANGED authorityVars
    BY <1>5 DEF EffectStep, PrepareEffect, Approve, Commit, Reconcile
  <1>6. ASSUME NEW g \in Goals, NEW ev \in evidence, NEW r \in 1..MaxRevision, Accept(g, ev, r)
        PROVE  UNCHANGED authorityVars
    BY <1>6 DEF Accept
  <1>7. ASSUME NEW artifact \in artifacts, NEW passed \in BOOLEAN, NEW trusted \in BOOLEAN,
               Verify(artifact, passed, trusted)
        PROVE  UNCHANGED authorityVars
    BY <1>7 DEF Verify
  <1>8. ASSUME NEW i \in Invocations, NEW content \in Contents, SaveArtifact(i, content)
        PROVE  UNCHANGED authorityVars
    BY <1>8 DEF SaveArtifact
  <1>9. CASE UNCHANGED gatewayVars
    BY <1>9 DEF gatewayVars
  <1> QED
    BY <1>1, <1>2, <1>3, <1>4, <1>5, <1>6, <1>7, <1>8, <1>9 DEF GatewayNext

LEMMA StepsAuthorityInv ==
    ASSUME AuthorityInv, [Next]_authorityVars
    PROVE  AuthorityInv' /\ Persistence
  BY NextInv, NextPersistence DEF AuthorityInv

-----------------------------------------------------------------------------
(* Steps that leave effects, destinations and history alone: operations on *)
(* goals, and new artifacts, evidence and acceptances.                     *)

\* What an import asks of an acceptance stays true: its evidence is kept, the
\* invocation keeps its snapshot, and the goal's revision does not go back.
LEMMA AcceptanceStays ==
    ASSUME GatewayInv, [Next]_authorityVars, evidence \subseteq evidence',
           NEW acc \in acceptances
    PROVE  AcceptanceImports(acc)'
  <1> DEFINE i == acc.evidence.artifact.invocation
             g == invocations[i].goal
  <1>0. AuthorityInv' /\ Persistence /\ TypeOK /\ TypeOK'
    BY StepsAuthorityInv DEF GatewayInv, AuthorityInv
  <1>1. acc.evidence \in evidence /\ Trustworthy(acc.evidence)
    BY DEF GatewayInv, Importable, AcceptanceImports
  <1>2. i \in Invocations /\ Known(invocations[i])
    BY <1>1 DEF GatewayInv, GatewayTypeOK, Importable, EvidenceImports, ArtifactImports,
                EvidenceRow, ArtifactRow
  <1>3. invocations[i].revision = acc.revision /\ acc.revision <= goals[g].revision
    BY DEF GatewayInv, Importable, AcceptanceImports
  <1>4. invocations'[i].revision = acc.revision /\ invocations'[i].goal = g
    BY <1>0, <1>2, <1>3 DEF Persistence, SameVersions
  <1>5. g \in Goals /\ Known(goals[g])
    <2>1. g \in Goals /\ invocations[i].assignment \in Assignments
      BY <1>0, <1>2, RowShapes DEF InvocationRow
    <2> QED
      BY <1>2, <2>1 DEF GatewayInv, AuthorityInv, SnapshotsInherited
  <1>6. goals[g].revision <= goals'[g].revision
    BY <1>0, <1>5 DEF Persistence, NotAhead
  <1>7. acc.revision <= goals'[g].revision
    <2>1. goals[g] \in GoalRow /\ goals'[g] \in GoalRow
      BY <1>0, <1>5, RowShapes DEF Persistence, TypeOK, Known, NoRow
    <2>2. acc.revision \in Nat
      BY DEF GatewayInv, GatewayTypeOK, AcceptanceRow
    <2> QED
      BY <1>3, <1>6, <2>1, <2>2 DEF GoalRow
  <1> QED
    BY <1>1, <1>4, <1>7 DEF AcceptanceImports

LEMMA ProductStep ==
    ASSUME GatewayInv, [Next]_authorityVars, UNCHANGED effectTables,
           artifacts \subseteq artifacts', evidence \subseteq evidence',
           \A artifact \in artifacts' \ artifacts :
               artifact \in ArtifactRow /\ Known(invocations'[artifact.invocation]),
           \A ev \in evidence' \ evidence : ev \in EvidenceRow /\ ev.artifact \in artifacts',
           \A acc \in acceptances' \ acceptances :
               acc \in AcceptanceRow /\ AcceptanceImports(acc)'
    PROVE  GatewayInv'
  <1>0. AuthorityInv' /\ Persistence
    BY StepsAuthorityInv DEF GatewayInv
  <1>1. GatewayTypeOK'
    BY DEF GatewayInv, GatewayTypeOK, effectTables
  <1>2. HistoryExplainsDestination' /\ DeliveredIsRecorded'
    BY DEF GatewayInv, effectTables, HistoryExplainsDestination, DeliveredIsRecorded,
           Recorded, DeliveryRow, Candidate
  <1>3. ASSUME NEW artifact \in artifacts'
        PROVE  ArtifactImports(artifact)'
    <2>1. CASE artifact \in artifacts
      <3>1. artifact.invocation \in Invocations /\ Known(invocations[artifact.invocation])
        BY <2>1 DEF GatewayInv, GatewayTypeOK, ArtifactRow, Importable, ArtifactImports
      <3> QED
        BY <1>0, <3>1 DEF Persistence, ArtifactImports
    <2> QED
      BY <1>3, <2>1 DEF ArtifactImports
  <1>4. \A ev \in evidence' : EvidenceImports(ev)'
    BY DEF GatewayInv, Importable, EvidenceImports
  <1>5. \A t \in Targets : DestinationImports(t)'
    BY DEF GatewayInv, Importable, DestinationImports, effectTables
  <1>6. \A f \in Effects : effects'[f] # NoEffect => EffectImports(f)'
    BY DEF GatewayInv, Importable, EffectImports, effectTables
  <1>7. \A f \in Effects : Recorded(f)' => HistoryImports(f)'
    BY DEF GatewayInv, Importable, HistoryImports, effectTables, Recorded, DeliveryRow, Candidate
  <1>8. \A acc \in acceptances' : AcceptanceImports(acc)'
    BY AcceptanceStays
  <1>9. SnapshotsInherited'
    BY <1>0 DEF AuthorityInv
  <1> QED
    BY <1>0, <1>1, <1>2, <1>3, <1>4, <1>5, <1>6, <1>7, <1>8, <1>9 DEF GatewayInv, Importable

LEMMA ProductSteps ==
    ASSUME GatewayInv, [GatewayNext]_gatewayVars, UNCHANGED effectTables
    PROVE  GatewayInv' /\ artifacts \subseteq artifacts' /\ evidence \subseteq evidence'
  <1>0. [Next]_authorityVars /\ TypeOK
    BY StepsAuthority DEF GatewayInv, AuthorityInv
  <1> DEFINE Goal == GatewayInv' /\ artifacts \subseteq artifacts' /\ evidence \subseteq evidence'
  <1>1. CASE UNCHANGED productTables
    BY <1>0, <1>1, ProductStep DEF productTables
  <1>2. ASSUME NEW g \in Goals, NEW a \in Assignments, NEW i \in Invocations,
               NEW v \in 0..MaxInput, InvokeWithContext(g, a, i, v)
        PROVE  Goal
    <2>1. Known(invocations'[i])
      BY <1>0, <1>2 DEF InvokeWithContext, Invoke, TypeOK, Known
    <2>2. [invocation |-> i, content |-> ContextContent] \in ArtifactRow
      BY GatewayAssumption DEF ArtifactRow
    <2> QED
      BY <1>0, <1>2, <2>1, <2>2, ProductStep DEF InvokeWithContext
  <1>3. ASSUME NEW i \in Invocations, NEW content \in Contents, SaveArtifact(i, content)
        PROVE  Goal
    <2>1. Known(invocations'[i])
      BY <1>3 DEF SaveArtifact, authorityVars
    <2>2. [invocation |-> i, content |-> content] \in ArtifactRow
      BY DEF ArtifactRow
    <2> QED
      BY <1>0, <1>3, <2>1, <2>2, ProductStep DEF SaveArtifact
  <1>4. ASSUME NEW artifact \in artifacts, NEW passed \in BOOLEAN, NEW trusted \in BOOLEAN,
               Verify(artifact, passed, trusted)
        PROVE  Goal
    <2> DEFINE ev == [artifact |-> artifact, passed |-> passed, trusted |-> trusted]
    <2>1. ev \in EvidenceRow /\ ev.artifact \in artifacts'
      BY <1>4 DEF Verify, EvidenceRow, GatewayInv, GatewayTypeOK
    <2>2. UNCHANGED <<artifacts, acceptances>> /\ evidence' = evidence \cup {ev}
      BY <1>4 DEF Verify
    <2> QED
      BY <1>0, <2>1, <2>2, ProductStep
  <1>5. ASSUME NEW g \in Goals, NEW ev \in evidence, NEW r \in 1..MaxRevision, Accept(g, ev, r)
        PROVE  Goal
    <2> DEFINE acc == [evidence |-> ev, revision |-> r]
    <2>1. UNCHANGED <<artifacts, evidence>> /\ acceptances' = acceptances \cup {acc}
      BY <1>5 DEF Accept
    <2>2. acc \in AcceptanceRow
      BY BoundsAssumption DEF AcceptanceRow, GatewayInv, GatewayTypeOK
    <2>3. AcceptanceImports(acc)'
      <3> DEFINE i == ev.artifact.invocation
      <3>1. /\ Trustworthy(ev) /\ Fresh(i) /\ invocations[i].goal = g
            /\ goals[g].revision = r /\ UNCHANGED <<goals, invocations, evidence>>
        BY <1>5 DEF Accept, authorityVars
      <3>2. invocations[i].revision = r
        BY <3>1 DEF Fresh, SameVersions
      <3>3. acc.revision <= goals[g].revision
        BY <3>1
      <3> QED
        BY <3>1, <3>2, <3>3 DEF AcceptanceImports
    <2> QED
      BY <1>0, <2>1, <2>2, <2>3, ProductStep
  <1>6. ASSUME NEW f \in Effects, EffectStep(f)
        PROVE  UNCHANGED productTables
    BY <1>6 DEF EffectStep, PrepareEffect, Approve, Commit, Reconcile, productTables
  <1> QED
    BY <1>1, <1>2, <1>3, <1>4, <1>5, <1>6
       DEF GatewayNext, gatewayVars, gatewayTables, productTables, ImportStore

-----------------------------------------------------------------------------
(* Steps of one effect.                                                    *)

\* What approve, commit and a reconciliation change of the effect's row.
SameProposal(f) ==
    /\ effects'[f].evidence = effects[f].evidence
    /\ effects'[f].target = effects[f].target
    /\ effects'[f].expected_version = effects[f].expected_version

LEMMA SameDelivery ==
    ASSUME NEW f \in Effects, SameProposal(f)
    PROVE  DeliveryRow(f)' = DeliveryRow(f) /\ Candidate(f)' = Candidate(f)
  BY DEF SameProposal, DeliveryRow, Candidate

LEMMA PrepareInv ==
    ASSUME GatewayInv, NEW f \in Effects, NEW ev \in evidence, NEW t \in Targets,
           NEW v \in 0..Cardinality(Effects), PrepareEffect(f, ev, t, v)
    PROVE  GatewayInv'
  <1>0. GatewayTypeOK /\ DeliveredIsRecorded /\ HistoryExplainsDestination /\ Importable
    BY DEF GatewayInv
  <1>1. /\ effects[f] = NoEffect /\ destinations[t].version = v /\ v \in Nat
        /\ UNCHANGED authorityVars /\ UNCHANGED productTables
        /\ UNCHANGED <<destinations, history>>
    BY <1>0, DestinationShapes DEF PrepareEffect, productTables
  <1>2. AuthorityInv' /\ SnapshotsInherited'
    BY <1>1 DEF GatewayInv, authorityVars, AuthorityInv, TypeOK, OneActiveAssignment,
                SnapshotsInherited, CurrentIsRunnable, AssignmentCurrent
  <1>3. effects' = [effects EXCEPT ![f] = [evidence |-> ev, target |-> t,
                        expected_version |-> v, state |-> "prepared"]]
    BY DEF PrepareEffect
  <1>4. /\ effects'[f] \in EffectRow /\ effects'[f].evidence = ev
        /\ effects'[f].expected_version = v /\ effects'[f].target = t
        /\ effects'[f].state = "prepared"
    BY <1>0, <1>1, <1>3 DEF GatewayTypeOK, EffectRow, EffectStates
  <1>5. \A h \in Effects : h # f => effects'[h] = effects[h]
    BY <1>0, <1>3 DEF GatewayTypeOK
  <1>6. ~Recorded(f) /\ ~Recorded(f)'
    BY <1>0, <1>1 DEF DeliveredIsRecorded, Recorded, NoEffect
  <1>7. GatewayTypeOK'
    BY <1>0, <1>1, <1>3, <1>4 DEF GatewayTypeOK, productTables
  <1>8. HistoryExplainsDestination'
    BY <1>0, <1>1 DEF HistoryExplainsDestination, Recorded
  <1>9. DeliveredIsRecorded'
    BY <1>0, <1>1, <1>4, <1>5, <1>6 DEF DeliveredIsRecorded, Recorded, DeliveryRow, Candidate
  <1>10. \A h \in Effects : effects'[h] # NoEffect => EffectImports(h)'
    <2>1. EffectImports(f)'
      BY <1>1, <1>4 DEF EffectImports, productTables
    <2> QED
      BY <1>0, <1>1, <1>5, <2>1 DEF Importable, EffectImports, productTables
  <1>11. \A h \in Effects : Recorded(h)' => HistoryImports(h)'
    <2>1. ASSUME NEW h \in Effects, Recorded(h)'
          PROVE  HistoryImports(h)'
      <3>1. h # f /\ Recorded(h) /\ HistoryImports(h)
        BY <1>0, <1>1, <1>6, <2>1 DEF Importable, Recorded
      <3> QED
        BY <1>1, <1>5, <3>1 DEF HistoryImports, Recorded, DeliveryRow, Candidate
    <2> QED
      BY <2>1
  <1>12. Importable'
    BY <1>0, <1>1, <1>2, <1>10, <1>11
       DEF Importable, authorityVars, productTables, ArtifactImports, EvidenceImports,
           DestinationImports, AcceptanceImports
  <1> QED
    BY <1>2, <1>7, <1>8, <1>9, <1>12 DEF GatewayInv

\* A step that changes the state of one effect to what its history tells.
LEMMA StateStep ==
    ASSUME GatewayInv, NEW f \in Effects, effects[f] # NoEffect,
           NEW st \in EffectStates,
           effects' = [effects EXCEPT ![f] = [effects[f] EXCEPT !.state = st]],
           UNCHANGED <<authorityVars, productTables, destinations, history>>,
           st \in {"committed", "unresolved"} => Recorded(f),
           st \in {"prepared", "approved"} => ~Recorded(f)
    PROVE  GatewayInv'
  <1>0. GatewayTypeOK /\ DeliveredIsRecorded /\ HistoryExplainsDestination /\ Importable
    BY DEF GatewayInv
  <1>1. AuthorityInv' /\ SnapshotsInherited'
    BY DEF GatewayInv, authorityVars, AuthorityInv, TypeOK, OneActiveAssignment,
           SnapshotsInherited, CurrentIsRunnable, AssignmentCurrent
  <1>2. effects'[f] = [effects[f] EXCEPT !.state = st] /\ effects[f] \in EffectRow
    BY <1>0, EffectShapes DEF GatewayTypeOK
  <1>3. effects'[f] \in EffectRow /\ SameProposal(f) /\ effects'[f].state = st
    BY <1>2 DEF EffectRow, SameProposal
  <1>4. \A h \in Effects : h # f => effects'[h] = effects[h]
    BY <1>0 DEF GatewayTypeOK
  <1>5. \A h \in Effects : SameProposal(h)
    BY <1>3, <1>4 DEF SameProposal
  <1>6. \A h \in Effects : DeliveryRow(h)' = DeliveryRow(h)
    BY <1>5, SameDelivery
  <1>7. \A h \in Effects : Recorded(h)' <=> Recorded(h)
    BY DEF Recorded
  <1>8. GatewayTypeOK'
    BY <1>0, <1>3 DEF GatewayTypeOK, productTables
  <1>9. HistoryExplainsDestination'
    BY <1>0 DEF HistoryExplainsDestination, Recorded
  <1>10. DeliveredIsRecorded'
    <2>1. st # "absent"
      BY DEF EffectStates
    <2> QED
      BY <1>0, <1>3, <1>4, <1>6, <1>7, <2>1 DEF DeliveredIsRecorded
  <1>11. \A h \in Effects : effects'[h] # NoEffect => EffectImports(h)'
    <2>1. EffectImports(f)'
      BY <1>0, <1>3 DEF Importable, EffectImports, SameProposal, productTables
    <2> QED
      BY <1>0, <1>4, <2>1 DEF Importable, EffectImports, productTables
  <1>12. ASSUME NEW h \in Effects, Recorded(h)'
         PROVE  HistoryImports(h)'
    <2>1. Recorded(h) /\ HistoryImports(h)
      BY <1>0, <1>7, <1>12 DEF Importable
    <2>2. effects'[h].state \in {"committed", "unresolved", "imported"}
      BY <1>3, <1>4, <2>1 DEF HistoryImports, EffectStates
    <2> QED
      BY <1>6, <2>1, <2>2 DEF HistoryImports, Recorded
  <1>13. Importable'
    BY <1>0, <1>1, <1>11, <1>12
       DEF Importable, authorityVars, productTables, ArtifactImports, EvidenceImports,
           DestinationImports, AcceptanceImports
  <1> QED
    BY <1>1, <1>8, <1>9, <1>10, <1>13 DEF GatewayInv

LEMMA ApproveInv ==
    ASSUME GatewayInv, NEW f \in Effects, Approve(f)
    PROVE  GatewayInv'
  <1>1. effects[f] # NoEffect /\ ~Recorded(f)
    BY EffectShapes DEF GatewayInv, Approve, DeliveredIsRecorded
  <1> QED
    BY <1>1, StateStep DEF Approve, EffectStates, productTables

\* Only a delivery whose response was lost is reconciled, and the lookup
\* finds its history row: a destination names recorded operations only.
LEMMA ReconcileMeans ==
    ASSUME GatewayInv, NEW f \in Effects, Reconcile(f)
    PROVE  /\ effects[f].state = "unresolved" /\ effects[f] # NoEffect
           /\ Recorded(f)
           /\ UNCHANGED <<authorityVars, productTables, destinations, history>>
           /\ effects' = [effects EXCEPT ![f] = [effects[f] EXCEPT !.state = "committed"]]
  <1>0. GatewayTypeOK /\ DeliveredIsRecorded /\ Importable
    BY DEF GatewayInv
  <1>1. effects[f] # NoEffect
    BY <1>0, EffectShapes DEF Reconcile
  <1> DEFINE t == effects[f].target
  <1>2. Recorded(f)
    <2> SUFFICES ASSUME StandsAt(f) PROVE Recorded(f)
      BY DEF Reconcile
    <2>1. t \in Targets /\ effects[f].expected_version \in Nat
      BY <1>0, <1>1, EffectShapes
    <2>2. destinations[t].version = effects[f].expected_version + 1
          /\ destinations[t].operation = f
      BY DEF StandsAt
    <2>3. DestinationImports(t) /\ destinations[t].version # 0
      BY <1>0, <2>1, <2>2 DEF Importable
    <2>4. history[destinations[t].operation] =
              [target |-> t, version |-> destinations[t].version,
               content |-> destinations[t].content]
      BY <2>3 DEF DestinationImports
    <2>5. history[f].version = destinations[t].version
      BY <2>2, <2>4
    <2> QED
      BY <2>1, <2>2, <2>5 DEF Recorded
  <1>3. effects[f].state = "unresolved"
    BY <1>0, <1>2 DEF Reconcile, DeliveredIsRecorded
  <1>4. history' = history
    BY <1>0, <1>2 DEF Reconcile, GatewayTypeOK
  <1> QED
    BY <1>1, <1>2, <1>3, <1>4 DEF Reconcile, productTables

LEMMA ReconcileInv ==
    ASSUME GatewayInv, NEW f \in Effects, Reconcile(f)
    PROVE  GatewayInv'
  BY ReconcileMeans, StateStep DEF EffectStates

-----------------------------------------------------------------------------
(* The delivery.                                                           *)

\* What a commit does: an approved, undelivered effect whose target stands at
\* the expected version gets the next version and a history row of its own;
\* every other effect, target and history row stays.
Delivery(f, lose_response) ==
    /\ effects[f] # NoEffect /\ effects[f].state = "approved" /\ ~Recorded(f)
    /\ effects[f].target \in Targets /\ effects[f].expected_version \in Nat
    /\ destinations[effects[f].target].version = effects[f].expected_version
    /\ UNCHANGED <<authorityVars, productTables>>
    /\ effects'[f] \in EffectRow
    /\ effects'[f].state = IF lose_response THEN "unresolved" ELSE "committed"
    /\ \A h \in Effects : SameProposal(h) /\ DeliveryRow(h)' = DeliveryRow(h)
    /\ \A h \in Effects : h # f =>
          effects'[h] = effects[h] /\ history'[h] = history[h]
    /\ history'[f] = DeliveryRow(f) /\ Recorded(f)'
    /\ destinations'[effects[f].target] =
          [version |-> effects[f].expected_version + 1,
           content |-> Candidate(f).content, operation |-> f]
    /\ \A u \in Targets : u # effects[f].target => destinations'[u] = destinations[u]
    /\ destinations' \in [Targets -> DestinationRow]
    /\ history' \in [Effects -> HistoryRow \cup {NoHistory}]
    /\ effects' \in [Effects -> EffectRow \cup {NoEffect}]

LEMMA CommitMeans ==
    ASSUME GatewayInv, NEW f \in Effects, NEW lose_response \in BOOLEAN,
           Commit(f, lose_response)
    PROVE  Delivery(f, lose_response)
  <1>0. GatewayTypeOK /\ DeliveredIsRecorded /\ Importable
    BY DEF GatewayInv
  <1> DEFINE t == effects[f].target
             n == effects[f].expected_version
             st == IF lose_response THEN "unresolved" ELSE "committed"
             delivered == [version |-> n + 1, content |-> Candidate(f).content, operation |-> f]
  <1>1. effects[f].state = "approved" /\ effects[f] # NoEffect /\ ~Recorded(f)
    BY <1>0, EffectShapes DEF Commit, DeliveredIsRecorded
  <1>2. /\ t \in Targets /\ n \in Nat /\ destinations[t].version = n
        /\ Candidate(f).content \in Contents /\ effects[f] \in EffectRow
    BY <1>0, <1>1, EffectShapes DEF Commit, Permitted
  <1>3. /\ destinations' = [destinations EXCEPT ![t] = delivered]
        /\ history' = [history EXCEPT ![f] = DeliveryRow(f)]
        /\ effects' = [effects EXCEPT ![f] = [effects[f] EXCEPT !.state = st]]
        /\ UNCHANGED <<authorityVars, productTables>>
    BY DEF Commit, productTables
  <1>4. delivered \in DestinationRow
    BY <1>2 DEF DestinationRow
  <1>5. effects'[f] \in EffectRow /\ effects'[f].state = st /\ SameProposal(f)
    <2>1. effects'[f] = [effects[f] EXCEPT !.state = st]
      BY <1>0, <1>3 DEF GatewayTypeOK
    <2> QED
      BY <1>2, <2>1 DEF EffectRow, EffectStates, SameProposal
  <1>6. \A h \in Effects : h # f => effects'[h] = effects[h] /\ history'[h] = history[h]
    BY <1>0, <1>3 DEF GatewayTypeOK
  <1>7. \A h \in Effects : SameProposal(h) /\ DeliveryRow(h)' = DeliveryRow(h)
    BY <1>5, <1>6, SameDelivery DEF SameProposal
  <1>8. DeliveryRow(f) \in HistoryRow /\ DeliveryRow(f).version > 0
    BY <1>0, <1>1, DeliveryShapes
  <1>9. history'[f] = DeliveryRow(f) /\ Recorded(f)'
    BY <1>0, <1>3, <1>8 DEF GatewayTypeOK, Recorded
  <1>10. /\ destinations'[t] = delivered /\ destinations' \in [Targets -> DestinationRow]
         /\ \A u \in Targets : u # t => destinations'[u] = destinations[u]
    BY <1>0, <1>2, <1>3, <1>4 DEF GatewayTypeOK
  <1>11. /\ history' \in [Effects -> HistoryRow \cup {NoHistory}]
         /\ effects' \in [Effects -> EffectRow \cup {NoEffect}]
    BY <1>0, <1>3, <1>5, <1>8 DEF GatewayTypeOK
  <1> QED
    BY <1>1, <1>2, <1>3, <1>5, <1>6, <1>7, <1>9, <1>10, <1>11 DEF Delivery

LEMMA CommitInv ==
    ASSUME GatewayInv, NEW f \in Effects, NEW lose_response \in BOOLEAN,
           Commit(f, lose_response)
    PROVE  GatewayInv'
  <1>0. GatewayTypeOK /\ DeliveredIsRecorded /\ HistoryExplainsDestination /\ Importable
    BY DEF GatewayInv
  <1> DEFINE t == effects[f].target
             n == effects[f].expected_version
  <1>a. Delivery(f, lose_response)
    BY CommitMeans
  <1>1. /\ effects[f] # NoEffect /\ effects[f].state = "approved" /\ ~Recorded(f)
        /\ t \in Targets /\ n \in Nat /\ destinations[t].version = n
        /\ UNCHANGED <<authorityVars, productTables>>
    BY <1>a DEF Delivery
  <1>2. /\ effects'[f] # NoEffect /\ effects'[f].state \in {"committed", "unresolved"}
        /\ \A h \in Effects : SameProposal(h) /\ DeliveryRow(h)' = DeliveryRow(h)
        /\ \A h \in Effects : h # f =>
              /\ effects'[h] = effects[h] /\ history'[h] = history[h]
              /\ Recorded(h)' <=> Recorded(h)
    BY <1>a DEF Delivery, Recorded, NoEffect, EffectRow, EffectStates
  <1>3. /\ history'[f] = DeliveryRow(f) /\ Recorded(f)'
        /\ DeliveryRow(f).target = t /\ DeliveryRow(f).version = n + 1
        /\ DeliveryRow(f).content = Candidate(f).content
    BY <1>0, <1>1, <1>a, DeliveryShapes DEF Delivery
  <1>4. /\ destinations'[t].version = n + 1 /\ destinations'[t].operation = f
        /\ destinations'[t].content = Candidate(f).content
        /\ \A u \in Targets : u # t => destinations'[u] = destinations[u]
    BY <1>a DEF Delivery
  <1>5. GatewayTypeOK'
    BY <1>0, <1>1, <1>a DEF Delivery, GatewayTypeOK, productTables
  <1>6. AuthorityInv' /\ SnapshotsInherited'
    BY <1>1 DEF GatewayInv, authorityVars, AuthorityInv, TypeOK, OneActiveAssignment,
                SnapshotsInherited, CurrentIsRunnable, AssignmentCurrent
  <1>7. HistoryExplainsDestination'
    <2> SUFFICES ASSUME NEW u \in Targets
                 PROVE  /\ \A h \in Effects : Recorded(h)' /\ history'[h].target = u
                               => history'[h].version \in 1..destinations'[u].version
                        /\ \A k \in 1..destinations'[u].version :
                             \E h \in Effects :
                               /\ Recorded(h)' /\ history'[h].target = u
                               /\ history'[h].version = k
                               /\ \A l \in Effects :
                                    Recorded(l)' /\ history'[l].target = u
                                    /\ history'[l].version = k => l = h
                               /\ k = destinations'[u].version =>
                                    /\ destinations'[u].operation = h
                                    /\ destinations'[u].content = history'[h].content
      BY DEF HistoryExplainsDestination
    <2>1. \A h \in Effects : Recorded(h) /\ history[h].target = u
              => history[h].version \in 1..destinations[u].version
      BY <1>0 DEF HistoryExplainsDestination
    <2>2. \A k \in 1..destinations[u].version :
             \E h \in Effects :
               /\ Recorded(h) /\ history[h].target = u /\ history[h].version = k
               /\ \A l \in Effects : Recorded(l) /\ history[l].target = u
                                     /\ history[l].version = k => l = h
               /\ k = destinations[u].version =>
                    /\ destinations[u].operation = h
                    /\ destinations[u].content = history[h].content
      BY <1>0 DEF HistoryExplainsDestination
    <2>3. CASE u # t
      <3>1. destinations'[u] = destinations[u]
        BY <1>4, <2>3
      <3>2. \A h \in Effects : Recorded(h)' /\ history'[h].target = u
                => h # f /\ Recorded(h) /\ history'[h] = history[h]
        BY <1>2, <1>3, <2>3
      <3>3. \A h \in Effects : Recorded(h) => h # f /\ Recorded(h)' /\ history'[h] = history[h]
        BY <1>1, <1>2
      <3> QED
        BY <2>1, <2>2, <3>1, <3>2, <3>3
    <2>4. CASE u = t
      <3>1. \A h \in Effects : Recorded(h)' /\ h # f => Recorded(h) /\ history'[h] = history[h]
        BY <1>2
      <3>2. \A h \in Effects : Recorded(h) => h # f /\ Recorded(h)' /\ history'[h] = history[h]
        BY <1>1, <1>2
      <3>3. ASSUME NEW h \in Effects, Recorded(h)', history'[h].target = u
            PROVE  history'[h].version \in 1..(n + 1) /\ (h # f => history'[h].version \in 1..n)
        <4>1. CASE h = f
          BY <1>1, <1>3, <4>1
        <4>2. CASE h # f
          BY <1>1, <2>1, <2>4, <3>1, <3>3, <4>2
        <4> QED
          BY <4>1, <4>2
      <3>4. ASSUME NEW k \in 1..n
            PROVE  \E h \in Effects :
                     /\ Recorded(h)' /\ history'[h].target = u /\ history'[h].version = k
                     /\ \A l \in Effects : Recorded(l)' /\ history'[l].target = u
                                           /\ history'[l].version = k => l = h
        <4>1. PICK h \in Effects :
                 /\ Recorded(h) /\ history[h].target = u /\ history[h].version = k
                 /\ \A l \in Effects : Recorded(l) /\ history[l].target = u
                                       /\ history[l].version = k => l = h
          BY <1>1, <2>2, <2>4
        <4>2. Recorded(h)' /\ history'[h].target = u /\ history'[h].version = k
          BY <3>2, <4>1
        <4>3. ASSUME NEW l \in Effects, Recorded(l)', history'[l].target = u,
                     history'[l].version = k
              PROVE  l = h
          <5>1. l # f
            BY <1>1, <1>3, <4>3
          <5> QED
            BY <3>1, <4>1, <4>3, <5>1
        <4> QED
          BY <4>2, <4>3
      <3>5. /\ Recorded(f)' /\ history'[f].target = u /\ history'[f].version = n + 1
            /\ \A l \in Effects : Recorded(l)' /\ history'[l].target = u
                                  /\ history'[l].version = n + 1 => l = f
            /\ destinations'[u].operation = f
            /\ destinations'[u].content = history'[f].content
        BY <1>1, <1>3, <1>4, <2>4, <3>3
      <3>6. destinations'[u].version = n + 1
        BY <1>4, <2>4
      <3>7. \A k \in 1..(n + 1) : k = n + 1 \/ (k \in 1..n /\ k # n + 1)
        BY <1>1
      <3> QED
        BY <3>3, <3>4, <3>5, <3>6, <3>7
    <2> QED
      BY <2>3, <2>4
  <1>8. DeliveredIsRecorded'
    BY <1>0, <1>2, <1>3 DEF DeliveredIsRecorded
  <1>9. \A u \in Targets : destinations[u].version \in Nat
                           /\ destinations'[u].version \in Nat
                           /\ destinations[u].version <= destinations'[u].version
    BY <1>0, <1>1, <1>4, DestinationShapes
  <1>10. ASSUME NEW h \in Effects, effects'[h] # NoEffect
         PROVE  EffectImports(h)'
    <2>1. effects[h] # NoEffect /\ EffectImports(h) /\ SameProposal(h)
      BY <1>0, <1>1, <1>2, <1>10 DEF Importable
    <2>2. effects[h].target \in Targets /\ effects[h].expected_version \in Nat
      BY <1>0, <2>1, EffectShapes
    <2> QED
      BY <1>1, <1>9, <2>1, <2>2 DEF EffectImports, SameProposal, productTables
  <1>11. ASSUME NEW h \in Effects, Recorded(h)'
         PROVE  HistoryImports(h)'
    <2>1. effects'[h].state \in {"committed", "unresolved", "imported"}
      BY <1>0, <1>2, <1>11 DEF Importable, HistoryImports
    <2>2. history'[h] = DeliveryRow(h)'
      BY <1>2, <1>3, <1>8, <1>11 DEF DeliveredIsRecorded
    <2>3. ASSUME NEW l \in Effects, Recorded(l)', history'[l].target = history'[h].target,
                 history'[l].version = history'[h].version
          PROVE  l = h
      <3>1. history'[h].target \in Targets
        BY <1>5, <1>11, HistoryShapes DEF GatewayTypeOK, HistoryRow, NoHistory, Recorded
      <3>2. history'[h].version \in 1..destinations'[history'[h].target].version
        BY <1>7, <1>11, <3>1 DEF HistoryExplainsDestination
      <3> QED
        BY <1>7, <1>11, <2>3, <3>1, <3>2 DEF HistoryExplainsDestination
    <2> QED
      BY <2>1, <2>2, <2>3 DEF HistoryImports
  <1>12. ASSUME NEW u \in Targets
         PROVE  DestinationImports(u)'
    <2>1. CASE u = t
      <3>1. history'[f] = [target |-> t, version |-> n + 1, content |-> Candidate(f).content]
        BY <1>3 DEF DeliveryRow
      <3>2. destinations'[t].version # 0
        BY <1>1, <1>4
      <3> QED
        BY <1>4, <2>1, <3>1, <3>2 DEF DestinationImports
    <2>2. CASE u # t
      <3>1. DestinationImports(u) /\ destinations'[u] = destinations[u]
        BY <1>0, <1>4, <2>2 DEF Importable
      <3>2. CASE destinations[u].version = 0
        BY <3>1, <3>2 DEF DestinationImports
      <3>3. CASE destinations[u].version # 0
        <4> DEFINE h == destinations[u].operation
        <4>1. h \in Effects /\ history[h] = [target |-> u, version |-> destinations[u].version,
                                             content |-> destinations[u].content]
          BY <3>1, <3>3 DEF DestinationImports
        <4>2. Recorded(h)
          <5>1. destinations[u].version > 0
            BY <1>9, <3>3
          <5> QED
            BY <4>1, <5>1 DEF Recorded
        <4>3. history'[h] = history[h]
          BY <1>1, <1>2, <4>1, <4>2
        <4> QED
          BY <3>1, <3>3, <4>1, <4>3 DEF DestinationImports
      <3> QED
        BY <3>2, <3>3
    <2> QED
      BY <2>1, <2>2
  <1>13. Importable'
    BY <1>0, <1>1, <1>6, <1>10, <1>11, <1>12
       DEF Importable, authorityVars, productTables, ArtifactImports, EvidenceImports,
           AcceptanceImports
  <1> QED
    BY <1>5, <1>6, <1>7, <1>8, <1>13 DEF GatewayInv

-----------------------------------------------------------------------------
(* The import, the initial state, and every step.                          *)

\* Import makes every effect a record of the past and touches nothing else of
\* the gateway.
LEMMA ImportMeans ==
    ASSUME GatewayInv, ImportStore
    PROVE  /\ [Next]_authorityVars
           /\ UNCHANGED <<productTables, destinations, history>>
           /\ effects' \in [Effects -> EffectRow \cup {NoEffect}]
           /\ \A f \in Effects :
                 /\ effects[f] = NoEffect => effects'[f] = NoEffect
                 /\ effects[f] # NoEffect =>
                       /\ effects'[f] # NoEffect /\ effects'[f] \in EffectRow
                       /\ effects'[f].state = "imported" /\ SameProposal(f)
                       /\ DeliveryRow(f)' = DeliveryRow(f)
  <1>1. [Next]_authorityVars /\ UNCHANGED <<productTables, destinations, history>>
    BY DEF ImportStore, Next, productTables
  <1>2. ASSUME NEW f \in Effects
        PROVE  /\ effects[f] = NoEffect => effects'[f] = NoEffect
               /\ effects[f] # NoEffect =>
                     /\ effects'[f] # NoEffect /\ effects'[f] \in EffectRow
                     /\ effects'[f].state = "imported" /\ SameProposal(f)
                     /\ DeliveryRow(f)' = DeliveryRow(f)
    <2>1. CASE effects[f] = NoEffect
      BY <2>1 DEF ImportStore
    <2>2. CASE effects[f] # NoEffect
      <3>1. effects[f] \in EffectRow
        BY <2>2, EffectShapes DEF GatewayInv
      <3>2. effects'[f] = [effects[f] EXCEPT !.state = "imported"]
        BY <2>2 DEF ImportStore
      <3>3. effects'[f] \in EffectRow /\ effects'[f].state = "imported" /\ SameProposal(f)
        BY <3>1, <3>2 DEF EffectRow, EffectStates, SameProposal
      <3>4. effects'[f] # NoEffect
        BY <3>3 DEF NoEffect
      <3> QED
        BY <2>2, <3>3, <3>4, SameDelivery
    <2> QED
      BY <2>1, <2>2
  <1>3. effects' = [f \in Effects |-> effects'[f]]
    BY DEF ImportStore
  <1>4. effects' \in [Effects -> EffectRow \cup {NoEffect}]
    BY <1>2, <1>3
  <1> QED
    BY <1>1, <1>2, <1>4

LEMMA ImportInv ==
    ASSUME GatewayInv, ImportStore
    PROVE  GatewayInv'
  <1>0. GatewayTypeOK /\ DeliveredIsRecorded /\ HistoryExplainsDestination /\ Importable
    BY DEF GatewayInv
  <1>1. [Next]_authorityVars /\ UNCHANGED <<productTables, destinations, history>>
    BY ImportMeans
  <1>2. \A f \in Effects :
           /\ effects[f] = NoEffect => effects'[f] = NoEffect
           /\ effects[f] # NoEffect =>
                 /\ effects'[f] # NoEffect /\ effects'[f] \in EffectRow
                 /\ effects'[f].state = "imported" /\ SameProposal(f)
                 /\ DeliveryRow(f)' = DeliveryRow(f)
    BY ImportMeans
  <1>3. AuthorityInv' /\ Persistence /\ SnapshotsInherited'
    BY <1>1, StepsAuthorityInv DEF GatewayInv, AuthorityInv
  <1>4. \A f \in Effects : Recorded(f)' <=> Recorded(f)
    BY <1>1 DEF Recorded
  <1>5. GatewayTypeOK'
    BY <1>0, <1>1, ImportMeans DEF GatewayTypeOK, productTables
  <1>6. HistoryExplainsDestination'
    BY <1>0, <1>1 DEF HistoryExplainsDestination, Recorded
  <1>7. \A f \in Effects : Recorded(f) =>
           effects[f] # NoEffect /\ history[f] = DeliveryRow(f) /\ HistoryImports(f)
    BY <1>0, RecordedEffect DEF Importable
  <1>8. DeliveredIsRecorded'
    BY <1>0, <1>1, <1>2, <1>4, <1>7 DEF DeliveredIsRecorded, NoEffect
  <1>9. ASSUME NEW artifact \in artifacts'
        PROVE  ArtifactImports(artifact)'
    <2>1. artifact.invocation \in Invocations /\ Known(invocations[artifact.invocation])
      BY <1>0, <1>1, <1>9 DEF GatewayTypeOK, ArtifactRow, Importable, ArtifactImports, productTables
    <2> QED
      BY <1>3, <2>1 DEF Persistence, ArtifactImports
  <1>10. ASSUME NEW f \in Effects, effects'[f] # NoEffect
         PROVE  EffectImports(f)'
    <2>1. effects[f] # NoEffect /\ SameProposal(f) /\ EffectImports(f)
      BY <1>0, <1>2, <1>10 DEF Importable
    <2> QED
      BY <1>1, <2>1 DEF EffectImports, SameProposal, productTables
  <1>11. ASSUME NEW f \in Effects, Recorded(f)'
         PROVE  HistoryImports(f)'
    <2>1. Recorded(f) /\ effects[f] # NoEffect /\ HistoryImports(f)
      BY <1>4, <1>7, <1>11
    <2>2. effects'[f].state = "imported" /\ DeliveryRow(f)' = DeliveryRow(f)
      BY <1>2, <2>1
    <2> QED
      BY <1>1, <2>1, <2>2 DEF HistoryImports, Recorded
  <1>12. \A acc \in acceptances' : AcceptanceImports(acc)'
    BY <1>1, AcceptanceStays DEF productTables
  <1>13. Importable'
    BY <1>0, <1>1, <1>3, <1>9, <1>10, <1>11, <1>12
       DEF Importable, EvidenceImports, DestinationImports, productTables
  <1> QED
    BY <1>3, <1>5, <1>6, <1>8, <1>13 DEF GatewayInv

LEMMA InitGatewayInv ==
    ASSUME GatewayInit
    PROVE  GatewayInv
  <1>1. AuthorityInv
    BY InitInv DEF GatewayInit
  <1>2. GatewayTypeOK
    BY GatewayAssumption DEF GatewayInit, GatewayTypeOK, DestinationRow
  <1>3. \A f \in Effects : ~Recorded(f) /\ effects[f] = NoEffect
    BY DEF GatewayInit, Recorded, NoHistory
  <1>4. \A t \in Targets : destinations[t].version = 0
    BY DEF GatewayInit
  <1>5. HistoryExplainsDestination
    BY <1>3, <1>4 DEF HistoryExplainsDestination
  <1>6. DeliveredIsRecorded
    BY <1>3 DEF DeliveredIsRecorded, NoEffect
  <1>7. Importable
    BY <1>1, <1>3 DEF GatewayInit, Importable, AuthorityInv, DestinationImports
  <1> QED
    BY <1>1, <1>2, <1>5, <1>6, <1>7 DEF GatewayInv

LEMMA NextGatewayInv ==
    ASSUME GatewayInv, [GatewayNext]_gatewayVars
    PROVE  GatewayInv'
  <1>1. CASE UNCHANGED effectTables
    BY <1>1, ProductSteps
  <1>2. ASSUME NEW f \in Effects, EffectStep(f)
        PROVE  GatewayInv'
    BY <1>2, PrepareInv, ApproveInv, CommitInv, ReconcileInv DEF EffectStep
  <1>3. CASE ImportStore
    BY <1>3, ImportInv
  <1> QED
    BY <1>1, <1>2, <1>3
       DEF GatewayNext, gatewayVars, gatewayTables, effectTables,
           InvokeWithContext, SaveArtifact, Verify, Accept

\* The inductive invariant holds in every reachable state of the gateway.
THEOREM GatewayInvariant == GatewaySpec => []GatewayInv
  BY InitGatewayInv, NextGatewayInv, PTL DEF GatewaySpec

\* Every gateway table holds rows of its own type.
THEOREM GatewayTypeCorrect == GatewaySpec => []GatewayTypeOK
  <1>1. GatewayInv => GatewayTypeOK
    BY DEF GatewayInv
  <1> QED
    BY <1>1, GatewayInvariant, PTL

\* The history of every target is gapless and without rivals, and explains
\* what the destination shows, however many effects compete for it.
THEOREM HistoryExplainsDestinationHolds == GatewaySpec => []HistoryExplainsDestination
  <1>1. GatewayInv => HistoryExplainsDestination
    BY DEF GatewayInv
  <1> QED
    BY <1>1, GatewayInvariant, PTL

\* A lost response never loses the record of a delivery, and nothing that was
\* not delivered has one.
THEOREM DeliveredIsRecordedHolds == GatewaySpec => []DeliveredIsRecorded
  <1>1. GatewayInv => DeliveredIsRecorded
    BY DEF GatewayInv
  <1> QED
    BY <1>1, GatewayInvariant, PTL

\* import_data accepts the export of every reachable store.
THEOREM ImportAcceptsHolds == GatewaySpec => []ImportAccepts
  <1>1. GatewayInv => ImportAccepts
    BY DEF GatewayInv, ImportAccepts
  <1> QED
    BY <1>1, GatewayInvariant, PTL

-----------------------------------------------------------------------------
(* The refinement of CommitPromise.  The mapping reads the stage of an     *)
(* effect off seven tables, so nearly every operation of the store may     *)
(* move it.  What makes the steps map is that permission never comes back: *)
(* PermittedBefore shows that an effect permitted after a step was         *)
(* permitted before it, so that the operations on goals and products only  *)
(* withdraw.                                                               *)

-----------------------------------------------------------------------------
(* Permission never comes back.                                            *)

\* What a proposed effect rests on is recorded: its evidence, the artifact
\* that was checked and the invocation that produced it.
LEMMA ProvenanceRecorded ==
    ASSUME GatewayInv, NEW f \in Effects, effects[f] # NoEffect
    PROVE  /\ effects[f].evidence \in evidence
           /\ Candidate(f) \in artifacts
           /\ Candidate(f).invocation \in Invocations
           /\ Known(invocations[Candidate(f).invocation])
           /\ effects[f].target \in Targets
           /\ effects[f].expected_version \in Nat
           /\ effects[f].expected_version <= destinations[effects[f].target].version
  <1>1. effects[f].evidence \in evidence
        /\ effects[f].expected_version <= destinations[effects[f].target].version
    BY DEF GatewayInv, Importable, EffectImports
  <1>2. Candidate(f) \in artifacts
    BY <1>1 DEF GatewayInv, Importable, EvidenceImports, Candidate
  <1>3. Known(invocations[Candidate(f).invocation])
    BY <1>2 DEF GatewayInv, Importable, ArtifactImports
  <1> QED
    BY <1>1, <1>2, <1>3, EffectShapes DEF GatewayInv

\* A step that makes an effect's invocation fresh, or keeps it so, does not
\* give its goal the authority it did not have: who allows effects advances
\* the authority counter and makes the invocation stale.
LEMMA AuthorityBefore ==
    ASSUME AuthorityInv, [Next]_authorityVars, NEW i \in Invocations,
           Known(invocations[i]), Fresh(i)', goals'[invocations'[i].goal].effects_allowed
    PROVE  Fresh(i) /\ goals[invocations[i].goal].effects_allowed
  <1> DEFINE g == invocations[i].goal
             a == invocations[i].assignment
  <1>0. TypeOK /\ SnapshotsInherited /\ Persistence /\ EpochStep
    BY StepsAuthorityInv, NextEpoch DEF AuthorityInv
  <1>1. Fresh(i)
    BY FreshBefore
  <1>2. invocations'[i].goal = g /\ invocations'[i].assignment = a
        /\ SameVersions(invocations'[i], invocations[i])
    BY <1>0 DEF Persistence
  <1>3. g \in Goals /\ a \in Assignments
    BY <1>0, RowShapes DEF InvocationRow
  <1>4. Known(assignments[a]) /\ assignments[a].goal = g /\ Known(goals[g])
    BY <1>0, <1>3 DEF SnapshotsInherited
  <1>5. assignments'[a].status = "active" /\ assignments'[a].goal = g
    BY <1>0, <1>2, <1>3, <1>4 DEF Persistence, Fresh
  <1>6. goals'[g].authority_version = goals[g].authority_version
    BY <1>1, <1>2 DEF Fresh, SameVersions
  <1>7. goals[g].authority_version \in Nat
    BY <1>0, <1>3, <1>4, RowShapes DEF GoalRow
  <1>8. ~(goals'[g].authority_version > goals[g].authority_version)
    BY <1>6, <1>7
  <1>9. goals'[g].effects_allowed = goals[g].effects_allowed
    BY <1>0, <1>3, <1>4, <1>5, <1>8 DEF EpochStep
  <1>10. goals'[g].effects_allowed
    BY <1>2
  <1> QED
    BY <1>1, <1>9, <1>10

LEMMA PermittedBefore ==
    ASSUME GatewayInv, [Next]_authorityVars, NEW f \in Effects,
           effects[f] # NoEffect, SameProposal(f),
           \A t \in Targets : /\ destinations'[t].version \in Nat
                              /\ destinations[t].version <= destinations'[t].version,
           Permitted(f)'
    PROVE  Permitted(f)
  <1>1. /\ effects[f].evidence \in evidence /\ Candidate(f) \in artifacts
        /\ Candidate(f).invocation \in Invocations
        /\ Known(invocations[Candidate(f).invocation])
        /\ effects[f].target \in Targets /\ effects[f].expected_version \in Nat
        /\ effects[f].expected_version <= destinations[effects[f].target].version
    BY ProvenanceRecorded
  <1>2. PICK i \in Invocations : i = Candidate(f).invocation
    BY <1>1
  <1>3. effects'[f].evidence = effects[f].evidence /\ i = effects'[f].evidence.artifact.invocation
    BY <1>2 DEF SameProposal, Candidate
  <1>4. Trustworthy(effects[f].evidence)
    BY <1>3 DEF Permitted, Trustworthy
  <1>5. Fresh(i)' /\ goals'[invocations'[i].goal].effects_allowed
    BY <1>3 DEF Permitted, Fresh, Candidate, GoalOf
  <1>6. Fresh(i) /\ goals[invocations[i].goal].effects_allowed
    BY <1>1, <1>2, <1>5, AuthorityBefore DEF GatewayInv
  <1>7. destinations[effects[f].target].version = effects[f].expected_version
    <2>1. destinations'[effects[f].target].version = effects[f].expected_version
      BY DEF Permitted, SameProposal
    <2>2. destinations[effects[f].target].version \in Nat
      BY <1>1, DestinationShapes DEF GatewayInv
    <2> QED
      BY <1>1, <2>1, <2>2
  <1> QED
    BY <1>1, <1>2, <1>4, <1>6, <1>7 DEF Permitted, GoalOf

-----------------------------------------------------------------------------
(* How the stage of an effect moves.                                       *)

LEMMA StageCases ==
    ASSUME GatewayInv, NEW f \in Effects
    PROVE  /\ Stage(f) \in {"none", "open", "void", "delivered"}
           /\ Stage(f) = "none" <=> effects[f] = NoEffect
           /\ Stage(f) = "delivered" <=> Recorded(f)
           /\ Stage(f) = "open" <=>
                 effects[f].state \in {"prepared", "approved"} /\ Permitted(f)
  <1>1. ASSUME Recorded(f)
        PROVE  effects[f] # NoEffect /\ effects[f].state \notin {"prepared", "approved"}
    BY <1>1, RecordedEffect DEF GatewayInv
  <1>2. effects[f] = NoEffect => effects[f].state \notin {"prepared", "approved"}
    BY DEF NoEffect
  <1> QED
    BY <1>1, <1>2 DEF Stage

\* An effect that is not delivered by a step keeps its stage or is withdrawn.
LEMMA StageStays ==
    ASSUME GatewayInv, GatewayInv', [Next]_authorityVars, NEW f \in Effects,
           effects[f] # NoEffect, effects'[f] # NoEffect, SameProposal(f),
           history'[f] = history[f],
           effects'[f].state \in {"prepared", "approved"} =>
               effects[f].state \in {"prepared", "approved"},
           \A t \in Targets : destinations[t].version <= destinations'[t].version
    PROVE  Stage(f)' = Stage(f) \/ (Stage(f) = "open" /\ Stage(f)' = "void")
  <1>1. Recorded(f)' <=> Recorded(f)
    BY DEF Recorded
  <1>2. \A t \in Targets : destinations'[t].version \in Nat
    BY DEF GatewayInv, GatewayTypeOK, DestinationRow
  <1>3. Permitted(f)' => Permitted(f)
    BY <1>2, PermittedBefore
  <1>4. /\ Stage(f) \in {"none", "open", "void", "delivered"}
        /\ Stage(f) # "none"
        /\ Stage(f) = "delivered" <=> Recorded(f)
        /\ Stage(f) = "open" <=>
              effects[f].state \in {"prepared", "approved"} /\ Permitted(f)
    BY StageCases
  <1>5. Stage(f)' = IF Recorded(f)' THEN "delivered"
                    ELSE IF effects'[f].state \in {"prepared", "approved"} /\ Permitted(f)'
                    THEN "open" ELSE "void"
    BY DEF Stage
  <1> QED
    BY <1>1, <1>3, <1>4, <1>5

\* An effect untouched by a step of another effect that leaves its target
\* alone keeps its stage.
LEMMA StageSame ==
    ASSUME NEW f \in Effects, effects'[f] = effects[f], history'[f] = history[f],
           effects[f] # NoEffect =>
               destinations'[effects[f].target].version = destinations[effects[f].target].version,
           UNCHANGED <<authorityVars, productTables>>
    PROVE  Stage(f)' = Stage(f)
  <1>1. Recorded(f)' <=> Recorded(f)
    BY DEF Recorded
  <1>2. effects[f] # NoEffect => (Permitted(f)' <=> Permitted(f))
    BY DEF Permitted, Trustworthy, Candidate, GoalOf, Fresh, SameVersions,
           productTables, authorityVars
  <1> QED
    BY <1>1, <1>2 DEF Stage

-----------------------------------------------------------------------------
(* Every step is one the promise allows.                                   *)

PromiseStep == [Promise!PromiseNext]_(Promise!promiseVars)

\* A step that only withdraws.
LEMMA Withdrawals ==
    ASSUME \A f \in Effects :
               /\ Stage(f)' = Stage(f) \/ (Stage(f) = "open" /\ Stage(f)' = "void")
               /\ effects'[f] = NoEffect <=> effects[f] = NoEffect
               /\ effects[f] # NoEffect => effects'[f].target = effects[f].target
               /\ effects'[f].state = "unresolved" <=> effects[f].state = "unresolved",
           UNCHANGED <<destinations, history>>
    PROVE  PromiseStep
  <1> DEFINE W == {f \in Effects : Stage(f) = "open" /\ Stage(f)' = "void"}
  <1>1. [f \in Effects |-> Stage(f)]' =
            [f \in Effects |-> IF f \in W THEN "void" ELSE [h \in Effects |-> Stage(h)][f]]
    OBVIOUS
  <1>2. \A f \in W : [h \in Effects |-> Stage(h)][f] = "open"
    OBVIOUS
  <1>3. [f \in Effects |-> IF effects[f] = NoEffect THEN NoOperation ELSE effects[f].target]'
            = [f \in Effects |-> IF effects[f] = NoEffect THEN NoOperation
                                                       ELSE effects[f].target]
    OBVIOUS
  <1>4. {f \in Effects : effects[f].state = "unresolved"}'
            = {f \in Effects : effects[f].state = "unresolved"}
    OBVIOUS
  <1>5. W \in SUBSET Effects
    OBVIOUS
  <1> HIDE DEF W
  <1>6. Promise!Withdraw(W)
    BY <1>1, <1>2, <1>3, <1>4 DEF Promise!Withdraw
  <1> QED
    BY <1>5, <1>6 DEF PromiseStep, Promise!PromiseNext

LEMMA QuietPromise ==
    ASSUME GatewayInv, [GatewayNext]_gatewayVars, UNCHANGED effectTables
    PROVE  PromiseStep
  <1>1. GatewayInv' /\ [Next]_authorityVars
    BY NextGatewayInv, StepsAuthority
  <1>2. \A t \in Targets : destinations[t].version <= destinations'[t].version
    BY DestinationShapes DEF GatewayInv, effectTables
  <1>3. ASSUME NEW f \in Effects
        PROVE  Stage(f)' = Stage(f) \/ (Stage(f) = "open" /\ Stage(f)' = "void")
    <2>1. CASE effects[f] = NoEffect
      BY <2>1 DEF Stage, effectTables
    <2>2. CASE effects[f] # NoEffect
      BY <1>1, <1>2, <2>2, StageStays DEF effectTables, SameProposal
    <2> QED
      BY <2>1, <2>2
  <1> QED
    BY <1>3, Withdrawals DEF effectTables

LEMMA ApprovePromise ==
    ASSUME GatewayInv, NEW f \in Effects, Approve(f)
    PROVE  PromiseStep
  <1>1. /\ GatewayInv' /\ UNCHANGED <<authorityVars, productTables, destinations, history>>
        /\ effects[f].state = "prepared"
        /\ effects' = [effects EXCEPT ![f] = [effects[f] EXCEPT !.state = "approved"]]
    BY ApproveInv DEF Approve, productTables
  <1>2. effects[f] # NoEffect /\ effects[f] \in EffectRow
    BY <1>1, EffectShapes DEF GatewayInv
  <1>3. SameProposal(f) /\ effects'[f].state = "approved" /\ effects'[f] # NoEffect
    <2>1. effects'[f] = [effects[f] EXCEPT !.state = "approved"]
      BY <1>1 DEF GatewayInv, GatewayTypeOK
    <2>2. SameProposal(f) /\ effects'[f].state = "approved"
      BY <1>2, <2>1 DEF EffectRow, SameProposal
    <2> QED
      BY <2>2 DEF NoEffect
  <1>4. \A h \in Effects : h # f => effects'[h] = effects[h]
    BY <1>1 DEF GatewayInv, GatewayTypeOK
  <1>5. \A t \in Targets : destinations[t].version <= destinations'[t].version
    BY <1>1, DestinationShapes DEF GatewayInv
  <1>6. Stage(f)' = Stage(f) \/ (Stage(f) = "open" /\ Stage(f)' = "void")
    BY <1>1, <1>2, <1>3, <1>5, StageStays
  <1>7. \A h \in Effects : h # f => Stage(h)' = Stage(h)
    BY <1>1, <1>4, StageSame
  <1>8. effects'[f].target = effects[f].target
    BY <1>3 DEF SameProposal
  <1> QED
    BY <1>1, <1>2, <1>3, <1>4, <1>6, <1>7, <1>8, Withdrawals

\* The promise's variables, named for the proofs of single steps.
stages == [f \in Effects |-> Stage(f)]
aims == [f \in Effects |-> IF effects[f] = NoEffect THEN NoOperation ELSE effects[f].target]
doubts == {f \in Effects : effects[f].state = "unresolved"}

LEMMA PreparePromise ==
    ASSUME GatewayInv, NEW f \in Effects, NEW ev \in evidence, NEW t \in Targets,
           NEW v \in 0..Cardinality(Effects), PrepareEffect(f, ev, t, v)
    PROVE  PromiseStep
  <1>1. /\ effects[f] = NoEffect
        /\ UNCHANGED <<authorityVars, productTables, destinations, history>>
        /\ effects' = [effects EXCEPT ![f] = [evidence |-> ev, target |-> t,
                          expected_version |-> v, state |-> "prepared"]]
    BY DEF PrepareEffect, productTables
  <1>2. effects'[f].target = t /\ effects'[f].state = "prepared" /\ effects'[f] # NoEffect
    BY <1>1 DEF GatewayInv, GatewayTypeOK, NoEffect
  <1>3. \A h \in Effects : h # f => effects'[h] = effects[h]
    BY <1>1 DEF GatewayInv, GatewayTypeOK
  <1>4. Stage(f) = "none" /\ Stage(f)' \in {"open", "void"}
    <2>1. ~Recorded(f)
      BY <1>1 DEF GatewayInv, DeliveredIsRecorded, NoEffect
    <2>2. ~Recorded(f)'
      BY <1>1, <2>1 DEF Recorded
    <2> QED
      BY <1>1, <1>2, <2>2 DEF Stage
  <1>5. \A h \in Effects : h # f => Stage(h)' = Stage(h)
    BY <1>1, <1>3, StageSame
  <1>6. stages[f] = "none" /\ \E s \in {"open", "void"} : stages' = [stages EXCEPT ![f] = s]
    <2>1. stages' = [stages EXCEPT ![f] = Stage(f)']
      BY <1>5 DEF stages
    <2> QED
      BY <1>4, <2>1 DEF stages
  <1>7. aims' = [aims EXCEPT ![f] = t]
    BY <1>2, <1>3 DEF aims
  <1>8. doubts' = doubts
    <2>1. effects[f].state # "unresolved" /\ effects'[f].state # "unresolved"
      BY <1>1, <1>2 DEF NoEffect
    <2> QED
      BY <1>3, <2>1 DEF doubts
  <1>9. Promise!Offer(f, t)
    BY <1>1, <1>6, <1>7, <1>8 DEF Promise!Offer, stages, aims, doubts
  <1> QED
    BY <1>9 DEF PromiseStep, Promise!PromiseNext

LEMMA ReconcilePromise ==
    ASSUME GatewayInv, NEW f \in Effects, Reconcile(f)
    PROVE  PromiseStep
  <1>1. /\ effects[f].state = "unresolved" /\ effects[f] # NoEffect /\ Recorded(f)
        /\ UNCHANGED <<authorityVars, productTables, destinations, history>>
        /\ effects' = [effects EXCEPT ![f] = [effects[f] EXCEPT !.state = "committed"]]
    BY ReconcileMeans
  <1>2. /\ effects'[f].state = "committed" /\ effects'[f].target = effects[f].target
        /\ effects'[f] # NoEffect
    <2>1. effects[f] \in EffectRow
      BY <1>1, EffectShapes DEF GatewayInv
    <2>2. effects'[f] = [effects[f] EXCEPT !.state = "committed"]
      BY <1>1 DEF GatewayInv, GatewayTypeOK
    <2>3. effects'[f].state = "committed" /\ effects'[f].target = effects[f].target
      BY <2>1, <2>2 DEF EffectRow
    <2> QED
      BY <2>3 DEF NoEffect
  <1>3. \A h \in Effects : h # f => effects'[h] = effects[h]
    BY <1>1 DEF GatewayInv, GatewayTypeOK
  <1>4. Stage(f)' = Stage(f)
    <2>1. Recorded(f)'
      BY <1>1 DEF Recorded
    <2> QED
      BY <1>1, <1>2, <2>1 DEF Stage
  <1>5. \A h \in Effects : h # f => Stage(h)' = Stage(h)
    BY <1>1, <1>3, StageSame
  <1>6. stages' = stages
    BY <1>4, <1>5 DEF stages
  <1>7. aims' = aims
    BY <1>1, <1>2, <1>3 DEF aims
  <1>8. f \in doubts /\ doubts' = doubts \ {f}
    BY <1>1, <1>2, <1>3 DEF doubts
  <1>9. Promise!Resolve(f)
    BY <1>1, <1>6, <1>7, <1>8 DEF Promise!Resolve, stages, aims, doubts
  <1> QED
    BY <1>9 DEF PromiseStep, Promise!PromiseNext

LEMMA ImportPromise ==
    ASSUME GatewayInv, ImportStore
    PROVE  PromiseStep
  <1>1. /\ UNCHANGED <<productTables, destinations, history>>
        /\ \A f \in Effects :
              /\ effects[f] = NoEffect => effects'[f] = NoEffect
              /\ effects[f] # NoEffect =>
                    /\ effects'[f] # NoEffect /\ effects'[f].state = "imported"
                    /\ effects'[f].target = effects[f].target
    BY ImportMeans DEF SameProposal
  <1>2. ASSUME NEW f \in Effects
        PROVE  Stage(f)' = IF Stage(f) = "open" THEN "void" ELSE Stage(f)
    <2>1. Recorded(f)' <=> Recorded(f)
      BY <1>1 DEF Recorded
    <2>2. CASE effects[f] = NoEffect
      BY <1>1, <2>2 DEF Stage
    <2>3. CASE effects[f] # NoEffect
      BY <1>1, <2>1, <2>3 DEF Stage
    <2> QED
      BY <2>2, <2>3
  <1>3. stages' = [f \in Effects |-> IF stages[f] = "open" THEN "void" ELSE stages[f]]
    BY <1>2 DEF stages
  <1>4. aims' = aims
    BY <1>1 DEF aims
  <1>5. doubts' = {}
    <2>1. \A f \in Effects : effects'[f].state # "unresolved"
      BY <1>1 DEF NoEffect
    <2> QED
      BY <2>1 DEF doubts
  <1>6. Promise!Archive
    BY <1>1, <1>3, <1>4, <1>5 DEF Promise!Archive, stages, aims, doubts
  <1> QED
    BY <1>6 DEF PromiseStep, Promise!PromiseNext

\* The other effects at a delivery: those that were open for the same target
\* asked for the version that is gone.
LEMMA RivalsVoid ==
    ASSUME GatewayInv, GatewayInv', NEW f \in Effects, NEW lose_response \in BOOLEAN,
           Delivery(f, lose_response), NEW h \in Effects, h # f
    PROVE  Stage(h)' = IF Stage(h) = "open" /\ effects[h].target = effects[f].target
                       THEN "void" ELSE Stage(h)
  <1>1. /\ effects'[h] = effects[h] /\ history'[h] = history[h]
        /\ UNCHANGED <<authorityVars, productTables>>
        /\ effects[f].expected_version \in Nat /\ effects[f].target \in Targets
        /\ destinations[effects[f].target].version = effects[f].expected_version
        /\ destinations'[effects[f].target].version = effects[f].expected_version + 1
        /\ \A u \in Targets : u # effects[f].target => destinations'[u] = destinations[u]
    BY DEF Delivery
  <1>2. CASE effects[h] = NoEffect
    BY <1>1, <1>2 DEF Stage
  <1>3. CASE effects[h] # NoEffect /\ effects[h].target # effects[f].target
    <2>1. effects[h].target \in Targets
      BY <1>3, EffectShapes DEF GatewayInv
    <2> QED
      BY <1>1, <1>3, <2>1, StageSame
  <1>4. CASE effects[h] # NoEffect /\ effects[h].target = effects[f].target
    <2>1. Recorded(h)' <=> Recorded(h)
      BY <1>1 DEF Recorded
    <2>2. Permitted(h) => ~Permitted(h)'
      <3>1. Permitted(h) => effects[h].expected_version = effects[f].expected_version
        BY <1>1, <1>4 DEF Permitted
      <3>2. Permitted(h)' => effects[h].expected_version = effects[f].expected_version + 1
        BY <1>1, <1>4 DEF Permitted
      <3> QED
        BY <1>1, <3>1, <3>2
    <2>3. Permitted(h)' => Permitted(h)
      <3>1. [Next]_authorityVars /\ SameProposal(h)
        BY <1>1 DEF SameProposal
      <3>2. \A t \in Targets : /\ destinations'[t].version \in Nat
                               /\ destinations[t].version <= destinations'[t].version
        BY <1>1, DestinationShapes DEF GatewayInv
      <3> QED
        BY <1>4, <3>1, <3>2, PermittedBefore
    <2> QED
      BY <1>1, <1>4, <2>1, <2>2, <2>3 DEF Stage
  <1> QED
    BY <1>2, <1>3, <1>4

LEMMA DeliverPromise ==
    ASSUME GatewayInv, NEW f \in Effects, NEW lose_response \in BOOLEAN,
           Commit(f, lose_response)
    PROVE  PromiseStep
  <1> DEFINE t == effects[f].target
             n == effects[f].expected_version
  <1>1. GatewayInv' /\ Delivery(f, lose_response)
    BY CommitInv, CommitMeans
  <1>2. /\ effects[f] # NoEffect /\ effects[f].state = "approved" /\ ~Recorded(f)
        /\ t \in Targets /\ n \in Nat /\ destinations[t].version = n
        /\ effects'[f] \in EffectRow /\ effects'[f].target = t
        /\ effects'[f].state = IF lose_response THEN "unresolved" ELSE "committed"
        /\ Recorded(f)' /\ history'[f] = DeliveryRow(f)
        /\ destinations'[t].version = n + 1
    BY <1>1 DEF Delivery, SameProposal
  <1>3. \A h \in Effects : h # f => effects'[h] = effects[h] /\ history'[h] = history[h]
    BY <1>1 DEF Delivery
  <1>4. \A u \in Targets : u # t => destinations'[u] = destinations[u]
    BY <1>1 DEF Delivery
  <1>5. effects'[f] # NoEffect
    BY <1>2 DEF EffectRow, EffectStates, NoEffect
  <1>6. Stage(f) = "open" /\ Stage(f)' = "delivered"
    BY <1>2, <1>5 DEF Stage, Commit
  <1>7. aims[f] = t /\ aims' = aims
    BY <1>2, <1>3, <1>5 DEF aims
  <1>8. \A h \in Effects : h # f =>
           Stage(h)' = IF Stage(h) = "open" /\ aims[h] = aims[f] THEN "void" ELSE Stage(h)
    <2>1. \A h \in Effects : h # f =>
             Stage(h)' = IF Stage(h) = "open" /\ effects[h].target = t THEN "void" ELSE Stage(h)
      BY <1>1, RivalsVoid
    <2>2. \A h \in Effects : Stage(h) = "open" => aims[h] = effects[h].target
      BY DEF Stage, aims
    <2> QED
      BY <1>7, <2>1, <2>2
  <1>9. stages' = [p \in Effects |->
            IF p = f THEN "delivered"
            ELSE IF stages[p] = "open" /\ aims[p] = aims[f] THEN "void"
            ELSE stages[p]]
    BY <1>6, <1>8 DEF stages
  <1>10. doubts' = IF lose_response THEN doubts \cup {f} ELSE doubts
    <2>1. \A h \in Effects : h # f => (h \in doubts' <=> h \in doubts)
      BY <1>3 DEF doubts
    <2>2. f \notin doubts
      BY <1>2 DEF doubts
    <2>3. CASE lose_response
      BY <1>2, <2>1, <2>3 DEF doubts
    <2>4. CASE ~lose_response
      BY <1>2, <2>1, <2>2, <2>4 DEF doubts
    <2> QED
      BY <2>3, <2>4
  <1> DEFINE versions == [u \in Targets |-> destinations[u].version]
             places == [h \in Effects |-> history[h].version]
  <1>11. versions' = [versions EXCEPT ![aims[f]] = versions[aims[f]] + 1]
    BY <1>2, <1>4, <1>7
  <1>12. places' = [places EXCEPT ![f] = versions[aims[f]] + 1]
    <2>1. history'[f].version = n + 1
      BY <1>2 DEF DeliveryRow
    <2> QED
      BY <1>2, <1>3, <1>7, <2>1
  <1>13. stages[f] = "open"
    BY <1>6 DEF stages
  <1>14. Promise!Deliver(f, lose_response)
    BY <1>7, <1>9, <1>10, <1>11, <1>12, <1>13 DEF Promise!Deliver, stages, aims, doubts
  <1> QED
    BY <1>14 DEF PromiseStep, Promise!PromiseNext

-----------------------------------------------------------------------------

LEMMA NextPromise ==
    ASSUME GatewayInv, [GatewayNext]_gatewayVars
    PROVE  PromiseStep
  <1>1. CASE UNCHANGED effectTables
    BY <1>1, QuietPromise
  <1>2. ASSUME NEW f \in Effects, EffectStep(f)
        PROVE  PromiseStep
    BY <1>2, PreparePromise, ApprovePromise, DeliverPromise, ReconcilePromise DEF EffectStep
  <1>3. CASE ImportStore
    BY <1>3, ImportPromise
  <1> QED
    BY <1>1, <1>2, <1>3
       DEF GatewayNext, gatewayVars, gatewayTables, effectTables,
           InvokeWithContext, SaveArtifact, Verify, Accept

LEMMA InitPromise ==
    ASSUME GatewayInit
    PROVE  Promise!PromiseInit
  <1>1. \A f \in Effects : effects[f] = NoEffect /\ history[f] = NoHistory
    BY DEF GatewayInit
  <1>2. \A f \in Effects : Stage(f) = "none" /\ effects[f].state # "unresolved"
                           /\ history[f].version = 0
    BY <1>1 DEF Stage, NoEffect, NoHistory
  <1>3. \A t \in Targets : destinations[t].version = 0
    BY DEF GatewayInit
  <1> QED
    BY <1>1, <1>2, <1>3 DEF Promise!PromiseInit

\* The gateway implements its promise: whatever happens to goals, evidence and
\* other effects, an effect that is void stays undelivered, deliveries of a
\* target come one after another, each voids its rivals, and only a delivery
\* that happened is ever in doubt.
THEOREM KeepsPromiseHolds == GatewaySpec => KeepsPromise
  <1>1. GatewayInit => Promise!PromiseInit
    BY InitPromise
  <1>2. GatewayInv /\ [GatewayNext]_gatewayVars
            => [Promise!PromiseNext]_(Promise!promiseVars)
    BY NextPromise DEF PromiseStep
  <1> QED
    BY <1>1, <1>2, GatewayInvariant, PTL DEF GatewaySpec, KeepsPromise, Promise!PromiseSpec
=============================================================================
