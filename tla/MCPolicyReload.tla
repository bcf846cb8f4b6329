---------------------------- MODULE MCPolicyReload ---------------------------
(* Small instances of PolicyReload for TLC.                                *)
EXTENDS PolicyReload

CONSTANTS a1, a2
==============================================================================
