------------------------ MODULE MCImplementationTask ------------------------
(* Finite instances of ImplementationTask for TLC.                         *)
EXTENDS ImplementationTask, TLC

AllKinds == {"create", "update", "move"}

AllRequests == {"create", "move", "revise", "retry", "implement",
                "link", "edit", "rebase", "put"}

AllFaults == {"generation", "storage", "activation", "crash", "shutdown", "collision"}

\* Two requirements, one of which moves the route of the other.
RequestsWithMoves == {"create", "move", "revise", "retry", "put"}

\* No route moves, and nothing fails after an activation, or goes on after it was failed.
RequestsInPlace == AllRequests \ {"move"}
FaultsBeforeActivation == AllFaults \ {"activation", "shutdown", "collision"}

\* The store answers.
FaultsButStorage == AllFaults \ {"storage"}

\* An operation fails, its requirement is implemented, the operation is retried.
RequestsRetried == {"create", "retry", "implement"}
GenerationFails == {"generation"}

Symmetric ==
  Permutations(Requirements) \cup Permutations(Operations) \cup Permutations(Tasks)
    \cup Permutations(Routes) \cup Permutations(Digests)
=============================================================================
