----------------------------- MODULE MCPluginCall -----------------------------
EXTENDS PluginCall, TLC

\* The uses of one call.
UsesOfOneCall == [u \in Uses |-> CHOOSE c \in Calls : TRUE]
=============================================================================
