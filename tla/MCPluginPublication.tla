------------------------ MODULE MCPluginPublication -------------------------
(* Finite instances of PluginPublication for TLC.                          *)
EXTENDS PluginPublication, TLC

AllFaults == {"crash", "disk"}
Crashes == {"crash"}

Symmetric ==
  Permutations(Publishers) \cup Permutations(Routes) \cup Permutations(Projects)
    \cup Permutations(Digests) \cup Permutations(Workspaces)
=============================================================================
