------------------------------ MODULE MCParts ------------------------------
(* TLC instance of four components that share no variable and no fairness: *)
(* a behaviour is one of a single part, the others stay where they begin.  *)
EXTENDS GoalHierarchy, StageEdit, StageSearch, ContextBudget

VARIABLE part

Texts == {<<>>, <<"a">>, <<"a", "/">>, <<"a", "/", "b">>, <<"a", "b">>, <<"/", "/">>}
Puts == {<<>>, <<"x">>}

InDirectory == [d \in Directories |->
    CASE d = "root" -> <<"a", "d", "k", "z">>
      [] d = "d" -> <<"b", "e">>
      [] d = "e" -> <<"c">>]

\* k is a blocked name; e is a directory below d, or absent.
Tree(a, z, b, nested) ==
    [p \in {"a", "d", "k", "z", "b", "e", "c"} |->
        CASE p = "a" -> a [] p = "z" -> z [] p = "b" -> b
          [] p = "d" -> Other("directory")
          [] p = "k" -> Nothing
          [] p = "e" -> IF nested THEN Other("directory") ELSE Nothing
          [] p = "c" -> IF nested THEN File(1, TRUE) ELSE Nothing]
Trees == {Tree(a, z, b, nested) :
    a \in {File(1, TRUE), File(2, TRUE), Nothing}, z \in {File(1, TRUE), Binary},
    b \in {File(1, TRUE), File(2, TRUE)}, nested \in BOOLEAN}

PartsInit ==
    /\ part \in {"hierarchy", "edit", "search", "context"}
    /\ HierarchyInit /\ EditInit /\ SearchInit /\ ContextInit
    /\ part # "edit" => file.text = <<>>
    /\ part # "search" => tree = Tree(Nothing, Binary, File(1, TRUE), FALSE)

PartsNext ==
    /\ UNCHANGED part
    /\ \/ part = "hierarchy" /\ HierarchyNext
          /\ UNCHANGED <<editVars, searchVars, contextVars>>
       \/ part = "edit" /\ EditNext
          /\ UNCHANGED <<hierarchyVars, searchVars, contextVars>>
       \/ part = "search" /\ SearchNext
          /\ UNCHANGED <<hierarchyVars, editVars, contextVars>>
       \/ part = "context" /\ ContextNext
          /\ UNCHANGED <<hierarchyVars, editVars, searchVars>>

PartsSpec == PartsInit /\ [][PartsNext]_<<part, hierarchyVars, editVars, searchVars, contextVars>>
=============================================================================
