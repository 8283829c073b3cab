---------------------------- MODULE MCPiGeneration ----------------------------
EXTENDS PiGeneration
=============================================================================
