-------------------------- MODULE MCEffectGateway --------------------------
(* TLC instance of EffectGateway: identities are interchangeable.          *)
EXTENDS EffectGateway, TLC

Symmetry == Permutations(Goals) \cup Permutations(Assignments)
            \cup Permutations(Invocations) \cup Permutations(Effects)
            \cup Permutations(Targets)
=============================================================================
