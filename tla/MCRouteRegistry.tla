-------------------------- MODULE MCRouteRegistry ---------------------------
(* Finite instances of RouteRegistry for TLC.                              *)
EXTENDS RouteRegistry, TLC

AllMethods == Creates \cup Updates \cup Moves

\* move_plugin, which does not recheck its target, left out.
RecheckingMethods == AllMethods \ {"move_plugin"}

Symmetric ==
  Permutations(Callers) \cup Permutations(Routes)
    \cup Permutations(Codes) \cup Permutations(Projects)
=============================================================================
