------------------------- MODULE MCRequirementStore -------------------------
(* A finite instance of RequirementStore for TLC.                          *)
EXTENDS RequirementStore, TLC

OneKind == {"update"}

Symmetric ==
  Permutations(Requirements) \cup Permutations(Operations)
    \cup Permutations(Digests)
=============================================================================
