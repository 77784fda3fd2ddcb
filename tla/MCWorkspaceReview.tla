------------------------- MODULE MCWorkspaceReview -------------------------
(* TLC instance of WorkspaceReview.                                        *)
EXTENDS WorkspaceReview, TLC

Symmetry == Permutations(Stages)

\* One export is followed, not what comes after it.
UntilExport == output.kind = "none"
=============================================================================
