---------------------------- MODULE MCPreflight -----------------------------
(* Small instances of Preflight for TLC.                                   *)
EXTENDS Preflight

CONSTANTS a1, a2
=============================================================================
