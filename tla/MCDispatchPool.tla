--------------------------- MODULE MCDispatchPool ---------------------------
(* Finite instances of DispatchPool for TLC.  The liveness runs use no     *)
(* symmetry.                                                               *)
EXTENDS DispatchPool
=============================================================================
