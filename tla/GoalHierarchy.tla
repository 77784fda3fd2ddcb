--------------------------- MODULE GoalHierarchy ---------------------------
(***************************************************************************)
(* The tree of goals and the links between them (goal_native/store.py:     *)
(* create_goal, move_goal, link_goal and the part of import_data that      *)
(* restores them).                                                         *)
(*                                                                         *)
(* Like the other methods of Store each is one transaction, and a call     *)
(* that raises takes no step.  A move walks the ancestors of the new       *)
(* parent inside its transaction; nothing else keeps the rows of several   *)
(* moves from forming a cycle together, because a foreign key only says    *)
(* that the parent exists.  None of these methods changes a counter of     *)
(* GoalAuthority, and no guard there reads a parent or a link.             *)
(***************************************************************************)
EXTENDS Naturals, FiniteSets

CONSTANTS
    Goals,          \* goal identities
    NoGoal,         \* the null parent_id
    MaxLinks        \* bound on the rows of goal_links

ASSUME NoGoalAssumption == NoGoal \notin Goals /\ MaxLinks \in Nat

VARIABLES
    known,          \* the goals that have a row
    parent,         \* parent[g]: goals.parent_id, NoGoal without a row
    links           \* the rows of goal_links

hierarchyVars == <<known, parent, links>>

-----------------------------------------------------------------------------

Relationships == {"prerequisite", "repair", "replacement"}
Link == [goal: Goals, related: Goals, relationship: Relationships]

\* The sets of goals that contain g and the parent of each of their members.
Closed(up, g) ==
    {S \in SUBSET Goals : g \in S /\ \A x \in S : up[x] \in S \cup {NoGoal}}

\* What `while cursor is not None' visits from g: the smallest of them.
Walk(up, g) == {x \in Goals : \A S \in Closed(up, g) : x \in S}

\* The walk ends, instead of coming back to a goal it has seen.
WalkEnds(up, g) == \E x \in Walk(up, g) : up[x] = NoGoal

-----------------------------------------------------------------------------

CreateGoalUnder(g, p) ==
    /\ g \notin known
    /\ p \in known \cup {NoGoal}
    /\ known' = known \cup {g}
    /\ parent' = [parent EXCEPT ![g] = p]
    /\ UNCHANGED links

\* Mutant of MayMove: only the goal's own children are refused.
MayMoveUnlessChild(g, p) == p # g /\ (p = NoGoal \/ (p \in known /\ parent[p] # g))

\* The checks of move_goal.
MayMove(g, p) ==
    \/ p = NoGoal
    \/ /\ p \in known /\ p # g
       /\ WalkEnds(parent, p)
       /\ g \notin Walk(parent, p)

MoveGoal(g, p) ==
    /\ g \in known
    /\ MayMove(g, p)
    /\ parent' = [parent EXCEPT ![g] = p]
    /\ UNCHANGED <<known, links>>

\* A link that exists already is returned and not made twice.
LinkGoal(g, h, relationship) ==
    /\ {g, h} \subseteq known
    /\ g # h
    /\ links' = links \cup {[goal |-> g, related |-> h, relationship |-> relationship]}
    /\ Cardinality(links') <= MaxLinks
    /\ UNCHANGED <<known, parent>>

\* import_data into an empty store, from a file that anyone may have written:
\* parents and linked goals must be among the imported ones, and the walk from
\* every goal must end.
Importable(rows, up, linked) ==
    /\ \A g \in rows : up[g] \in rows \cup {NoGoal} /\ WalkEnds(up, g)
    /\ \A l \in linked : {l.goal, l.related} \subseteq rows /\ l.goal # l.related

ImportHierarchy ==
    /\ known = {}
    /\ \E rows \in SUBSET Goals, linked \in {{}} \cup {{l} : l \in Link} :
        \E up \in [Goals -> rows \cup {NoGoal}] :
            /\ \A g \in Goals \ rows : up[g] = NoGoal
            /\ Importable(rows, up, linked)
            /\ known' = rows
            /\ parent' = up
            /\ links' = linked

-----------------------------------------------------------------------------

HierarchyInit ==
    /\ known = {}
    /\ parent = [g \in Goals |-> NoGoal]
    /\ links = {}

HierarchyNext ==
    \/ \E g \in Goals, p \in Goals \cup {NoGoal} : CreateGoalUnder(g, p) \/ MoveGoal(g, p)
    \/ \E g, h \in Goals, relationship \in Relationships : LinkGoal(g, h, relationship)
    \/ ImportHierarchy

HierarchySpec == HierarchyInit /\ [][HierarchyNext]_hierarchyVars

-----------------------------------------------------------------------------
(* Properties.                                                             *)

HierarchyTypeOK ==
    /\ known \subseteq Goals
    /\ parent \in [Goals -> Goals \cup {NoGoal}]
    /\ \A g \in known : parent[g] \in known \cup {NoGoal}
    /\ \A g \in Goals \ known : parent[g] = NoGoal
    /\ links \subseteq [goal: known, related: known, relationship: Relationships]

\* move_goal refuses a move that "would create a hierarchy cycle", and no order
\* of creations, moves and imports makes one: among any goals there is one
\* whose parent is not among them.
HierarchyIsForest ==
    \A S \in SUBSET Goals : S # {} => \E g \in S : parent[g] \notin S
=============================================================================
