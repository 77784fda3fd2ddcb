--------------------------- MODULE EffectGateway ---------------------------
(***************************************************************************)
(* The whole of goal_native/store.py that decides what leaves the system:  *)
(* the authority tables (GoalAuthority) together with artifacts, evidence, *)
(* effects, destinations, their history, and acceptances.                  *)
(*                                                                         *)
(* Each action is one transaction.  approve, commit, reconcile and accept  *)
(* may be called by anybody, in any order and again: a call that raises or *)
(* returns the row as it is takes no step.                                 *)
(*                                                                         *)
(* Rows and their identity.  An artifact is content-addressed, so the row  *)
(* is its own identity; kind, name, inputs, limitations and trust are in   *)
(* the hash and read by no guard, so they are left out.  An evidence row   *)
(* is what the guards read of it: its artifact and two booleans.  An       *)
(* effect's id stands for its operation_id too (both are minted together), *)
(* and its candidate_content is its artifact's content.  A destination     *)
(* without a row and one at version 0 are the same to every guard.         *)
(***************************************************************************)
EXTENDS GoalAuthority, FiniteSets

CONSTANTS
    Contents,       \* artifact contents
    EmptyContent,   \* the content of a destination at version 0
    ContextContent, \* the content of the context artifact invoke writes
    Targets,        \* destinations
    Effects,        \* effect identities, which are also operation identities
    NoOperation,    \* operation_id NULL
    MaxEvidence     \* bound on the number of distinct evidence rows

ASSUME GatewayAssumption ==
    /\ EmptyContent \in Contents
    /\ ContextContent \in Contents
    /\ NoOperation \notin Effects
    /\ MaxEvidence \in Nat

VARIABLES
    artifacts,      \* the set of artifact rows
    evidence,       \* the set of evidence rows
    effects,        \* effects[f]: an effect row, or NoEffect
    destinations,   \* destinations[t]: version, content and last operation
    history,        \* history[f]: the destination_history row of operation f
    acceptances     \* the set of acceptance rows

gatewayTables == <<artifacts, evidence, effects, destinations, history, acceptances>>
gatewayVars == <<authorityVars, gatewayTables>>

-----------------------------------------------------------------------------
(* Rows.                                                                   *)

ArtifactRow == [invocation: Invocations, content: Contents]
EvidenceRow == [artifact: ArtifactRow, passed: BOOLEAN, trusted: BOOLEAN]

EffectStates == {"prepared", "approved", "committed", "unresolved", "imported"}
EffectRow ==
    [evidence: EvidenceRow, target: Targets, expected_version: Nat, state: EffectStates]
NoEffect == [state |-> "absent"]

DestinationRow ==
    [version: Nat, content: Contents, operation: Effects \cup {NoOperation}]
HistoryRow == [target: Targets, version: Nat, content: Contents]
NoHistory == [version |-> 0]
AcceptanceRow == [evidence: EvidenceRow, revision: Nat]

Trustworthy(ev) == ev.passed /\ ev.trusted
Recorded(f) == history[f].version > 0

Candidate(f) == effects[f].evidence.artifact
GoalOf(f) == invocations[Candidate(f).invocation].goal

\* Mutant of Permitted: the destination may have moved on.
PermittedAnyVersion(f) ==
    /\ effects[f].evidence \in evidence
    /\ Candidate(f) \in artifacts
    /\ Trustworthy(effects[f].evidence)
    /\ Fresh(Candidate(f).invocation)
    /\ goals[GoalOf(f)].effects_allowed

\* _effect_context: what approve and commit require at the moment of the call.
\* Provenance is the join of effect, artifact and evidence rows.
Permitted(f) ==
    /\ effects[f].evidence \in evidence
    /\ Candidate(f) \in artifacts
    /\ Trustworthy(effects[f].evidence)
    /\ Fresh(Candidate(f).invocation)
    /\ goals[GoalOf(f)].effects_allowed
    /\ destinations[effects[f].target].version = effects[f].expected_version

\* What commit writes to destination_history for operation f.
DeliveryRow(f) ==
    [target |-> effects[f].target, version |-> effects[f].expected_version + 1,
     content |-> Candidate(f).content]

\* The destination still stands where operation f left it.
StandsAt(f) ==
    LET destination == destinations[effects[f].target] IN
    /\ destination.operation = f
    /\ destination.version = effects[f].expected_version + 1
    /\ destination.content = Candidate(f).content

-----------------------------------------------------------------------------
(* Artifacts and evidence.  Neither is fenced: a finished or stale         *)
(* invocation may still add products and checks, which then prove nothing. *)

InvokeWithContext(g, a, i, expected_input_version) ==
    /\ Invoke(g, a, i, expected_input_version)
    /\ artifacts' = artifacts \cup {[invocation |-> i, content |-> ContextContent]}
    /\ UNCHANGED <<evidence, effects, destinations, history, acceptances>>

SaveArtifact(i, content) ==
    /\ Known(invocations[i])
    /\ artifacts' = artifacts \cup {[invocation |-> i, content |-> content]}
    /\ UNCHANGED authorityVars
    /\ UNCHANGED <<evidence, effects, destinations, history, acceptances>>

Verify(artifact, passed, trusted) ==
    /\ artifact \in artifacts
    /\ Cardinality(evidence) < MaxEvidence
    /\ evidence' = evidence \cup
            {[artifact |-> artifact, passed |-> passed, trusted |-> trusted]}
    /\ UNCHANGED authorityVars
    /\ UNCHANGED <<artifacts, effects, destinations, history, acceptances>>

-----------------------------------------------------------------------------
(* The effect gateway.                                                     *)

\* Preparing does not ask for effects_allowed; approving does.
PrepareEffect(f, ev, target, expected_version) ==
    /\ effects[f] = NoEffect
    /\ ev \in evidence
    /\ Trustworthy(ev)
    /\ Fresh(ev.artifact.invocation)
    /\ destinations[target].version = expected_version
    /\ effects' = [effects EXCEPT ![f] =
            [evidence |-> ev, target |-> target,
             expected_version |-> expected_version, state |-> "prepared"]]
    /\ UNCHANGED authorityVars
    /\ UNCHANGED <<artifacts, evidence, destinations, history, acceptances>>

\* Approving an approved effect checks its context again and writes nothing.
Approve(f) ==
    /\ effects[f].state = "prepared"
    /\ Permitted(f)
    /\ effects' = [effects EXCEPT ![f] = [@ EXCEPT !.state = "approved"]]
    /\ UNCHANGED authorityVars
    /\ UNCHANGED <<artifacts, evidence, destinations, history, acceptances>>

\* Mutant of Commit: the history row is written with the response.
CommitRecordsAnswered(f, lose_response) ==
    /\ effects[f].state = "approved"
    /\ Permitted(f)
    /\ destinations' = [destinations EXCEPT ![effects[f].target] =
            [version |-> effects[f].expected_version + 1,
             content |-> Candidate(f).content, operation |-> f]]
    /\ history' = IF lose_response THEN history
                                   ELSE [history EXCEPT ![f] = DeliveryRow(f)]
    /\ effects' = [effects EXCEPT ![f] =
            [@ EXCEPT !.state = IF lose_response THEN "unresolved" ELSE "committed"]]
    /\ UNCHANGED authorityVars
    /\ UNCHANGED <<artifacts, evidence, acceptances>>

\* The compare-and-set of the destination, the history row and the state are
\* one transaction; only the response may be lost afterwards.
Commit(f, lose_response) ==
    /\ effects[f].state = "approved"
    /\ Permitted(f)
    /\ destinations' = [destinations EXCEPT ![effects[f].target] =
            [version |-> effects[f].expected_version + 1,
             content |-> Candidate(f).content, operation |-> f]]
    /\ history' = [history EXCEPT ![f] = DeliveryRow(f)]
    /\ effects' = [effects EXCEPT ![f] =
            [@ EXCEPT !.state = IF lose_response THEN "unresolved" ELSE "committed"]]
    /\ UNCHANGED authorityVars
    /\ UNCHANGED <<artifacts, evidence, acceptances>>

\* Mutant of Reconcile: a state of its own that no other operation knows.
ReconcileApart(f) ==
    /\ effects[f].state \in {"prepared", "approved", "unresolved"}
    /\ IF Recorded(f) THEN history[f] = DeliveryRow(f) ELSE StandsAt(f)
    /\ history' = [history EXCEPT ![f] = DeliveryRow(f)]
    /\ effects' = [effects EXCEPT ![f] = [@ EXCEPT !.state = "reconciled"]]
    /\ UNCHANGED authorityVars
    /\ UNCHANGED <<artifacts, evidence, destinations, acceptances>>

\* Looks the operation up, first in the history, then (a store older than the
\* history table) at the destination itself; anything else writes nothing.
Reconcile(f) ==
    /\ effects[f].state \in {"prepared", "approved", "unresolved"}
    /\ IF Recorded(f) THEN history[f] = DeliveryRow(f) ELSE StandsAt(f)
    /\ history' = [history EXCEPT ![f] = DeliveryRow(f)]
    /\ effects' = [effects EXCEPT ![f] = [@ EXCEPT !.state = "committed"]]
    /\ UNCHANGED authorityVars
    /\ UNCHANGED <<artifacts, evidence, destinations, acceptances>>

\* Mutant of Accept: evidence of a failed or untrusted check is enough.
AcceptAnyEvidence(g, ev, expected_revision) ==
    LET i == ev.artifact.invocation IN
    /\ Known(goals[g])
    /\ goals[g].revision = expected_revision
    /\ ev \in evidence
    /\ ev.artifact \in artifacts
    /\ invocations[i].goal = g
    /\ Fresh(i)
    /\ acceptances' = acceptances \cup {[evidence |-> ev, revision |-> expected_revision]}
    /\ UNCHANGED authorityVars
    /\ UNCHANGED <<artifacts, evidence, effects, destinations, history>>

Accept(g, ev, expected_revision) ==
    LET i == ev.artifact.invocation IN
    /\ Known(goals[g])
    /\ goals[g].revision = expected_revision
    /\ ev \in evidence
    /\ ev.artifact \in artifacts
    /\ invocations[i].goal = g
    /\ Fresh(i)
    /\ Trustworthy(ev)
    /\ acceptances' = acceptances \cup {[evidence |-> ev, revision |-> expected_revision]}
    /\ UNCHANGED authorityVars
    /\ UNCHANGED <<artifacts, evidence, effects, destinations, history>>

-----------------------------------------------------------------------------
(* export and import_data into an empty directory.  import_data refuses a  *)
(* record with a row that does not fit the rows it refers to; these are    *)
(* its conditions, table by table.                                         *)

ArtifactImports(artifact) == Known(invocations[artifact.invocation])

EvidenceImports(ev) == ev.artifact \in artifacts

DestinationImports(t) ==
    LET destination == destinations[t] IN
    IF destination.version = 0
    THEN destination.operation = NoOperation /\ destination.content = EmptyContent
    ELSE /\ destination.operation \in Effects
         /\ history[destination.operation] =
                [target |-> t, version |-> destination.version,
                 content |-> destination.content]

EffectImports(f) ==
    /\ effects[f].evidence \in evidence
    /\ effects[f].expected_version <= destinations[effects[f].target].version

HistoryImports(f) ==
    /\ effects[f].state \in {"committed", "unresolved", "imported"}
    /\ history[f] = DeliveryRow(f)
    /\ \A h \in Effects :
          Recorded(h) /\ history[h].target = history[f].target
          /\ history[h].version = history[f].version => h = f

AcceptanceImports(acc) ==
    LET inv == invocations[acc.evidence.artifact.invocation] IN
    /\ acc.evidence \in evidence
    /\ Trustworthy(acc.evidence)
    /\ inv.revision = acc.revision
    /\ acc.revision <= goals[inv.goal].revision

Importable ==
    /\ SnapshotsInherited
    /\ \A artifact \in artifacts : ArtifactImports(artifact)
    /\ \A ev \in evidence : EvidenceImports(ev)
    /\ \A t \in Targets : DestinationImports(t)
    /\ \A f \in Effects : effects[f] # NoEffect => EffectImports(f)
    /\ \A f \in Effects : Recorded(f) => HistoryImports(f)
    /\ \A acc \in acceptances : AcceptanceImports(acc)

\* Every effect becomes a record of the past; destinations and their history
\* are kept.
ImportStore ==
    /\ Importable
    /\ ImportAuthority
    /\ effects' = [f \in Effects |->
            IF effects[f] = NoEffect THEN NoEffect
            ELSE [effects[f] EXCEPT !.state = "imported"]]
    /\ UNCHANGED <<artifacts, evidence, destinations, history, acceptances>>

-----------------------------------------------------------------------------

GatewayInit ==
    /\ Init
    /\ artifacts = {}
    /\ evidence = {}
    /\ effects = [f \in Effects |-> NoEffect]
    /\ destinations = [t \in Targets |->
            [version |-> 0, content |-> EmptyContent, operation |-> NoOperation]]
    /\ history = [f \in Effects |-> NoHistory]
    /\ acceptances = {}

EffectStep(f) ==
    \/ \E ev \in evidence, t \in Targets, v \in 0..Cardinality(Effects) :
            PrepareEffect(f, ev, t, v)
    \/ Approve(f)
    \/ \E lose_response \in BOOLEAN : Commit(f, lose_response)
    \/ Reconcile(f)

GatewayNext ==
    \/ \E g \in Goals : GoalStep(g) /\ UNCHANGED gatewayTables
    \/ \E i \in Invocations, status \in FinishStatuses :
            Finish(i, status) /\ UNCHANGED gatewayTables
    \/ \E g \in Goals, a \in Assignments, i \in Invocations, v \in 0..MaxInput :
            InvokeWithContext(g, a, i, v)
    \/ \E i \in Invocations, content \in Contents : SaveArtifact(i, content)
    \/ \E artifact \in artifacts, passed, trusted \in BOOLEAN :
            Verify(artifact, passed, trusted)
    \/ \E f \in Effects : EffectStep(f)
    \/ \E g \in Goals, ev \in evidence, r \in 1..MaxRevision : Accept(g, ev, r)
    \/ ImportStore

GatewaySpec == GatewayInit /\ [][GatewayNext]_gatewayVars

-----------------------------------------------------------------------------
(* Properties.                                                             *)

\* Every gateway table holds rows of its own type.
GatewayTypeOK ==
    /\ artifacts \subseteq ArtifactRow
    /\ evidence \subseteq EvidenceRow
    /\ effects \in [Effects -> EffectRow \cup {NoEffect}]
    /\ destinations \in [Targets -> DestinationRow]
    /\ history \in [Effects -> HistoryRow \cup {NoHistory}]
    /\ acceptances \subseteq AcceptanceRow

\* The history of a target is gapless and without rivals: every version from 1
\* to the present one was produced by exactly one operation, and the
\* destination shows what the last of them wrote.  So the UNIQUE constraint of
\* destination_history never fires, and no delivery overwrites an unseen one.
HistoryExplainsDestination ==
    \A t \in Targets :
        /\ \A f \in Effects : Recorded(f) /\ history[f].target = t
                => history[f].version \in 1..destinations[t].version
        /\ \A n \in 1..destinations[t].version :
              \E f \in Effects :
                 /\ Recorded(f) /\ history[f].target = t /\ history[f].version = n
                 /\ \A h \in Effects :
                       Recorded(h) /\ history[h].target = t /\ history[h].version = n
                       => h = f
                 /\ n = destinations[t].version =>
                       /\ destinations[t].operation = f
                       /\ destinations[t].content = history[f].content

\* Losing the response of a commit never loses the delivery: an effect is
\* recorded in the history exactly when it was delivered, whatever became of
\* the destination since, so reconcile always has the row it looks for; and
\* no effect that is still prepared or approved has left a trace.
DeliveredIsRecorded ==
    \A f \in Effects :
        /\ effects[f].state \in {"committed", "unresolved"} => Recorded(f)
        /\ effects[f].state \in {"absent", "prepared", "approved"} => ~Recorded(f)
        /\ Recorded(f) => history[f] = DeliveryRow(f)

\* import_data accepts the export of every store that can arise: no order of
\* operations, imports included, leaves a store whose record it refuses.
ImportAccepts == Importable

\* The gateway keeps its promise (CommitPromise): an effect is open while it
\* is proposed and permitted, void when it is proposed or archived without a
\* delivery, and delivered when the history has its operation.
Stage(f) ==
    IF effects[f] = NoEffect THEN "none"
    ELSE IF Recorded(f) THEN "delivered"
    ELSE IF effects[f].state \in {"prepared", "approved"} /\ Permitted(f) THEN "open"
    ELSE "void"

Promise == INSTANCE CommitPromise WITH
    Offers <- Effects,
    NoTarget <- NoOperation,
    stage <- [f \in Effects |-> Stage(f)],
    aim <- [f \in Effects |-> IF effects[f] = NoEffect THEN NoOperation
                                                       ELSE effects[f].target],
    place <- [f \in Effects |-> history[f].version],
    length <- [t \in Targets |-> destinations[t].version],
    doubt <- {f \in Effects : effects[f].state = "unresolved"}

\* Every behaviour of the gateway is one the promise allows.
KeepsPromise == Promise!PromiseSpec
=============================================================================
