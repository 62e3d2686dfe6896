---------------------------- MODULE MCE2BWorkspace ----------------------------
(* Small instances of E2BWorkspace for TLC.                                   *)
EXTENDS E2BWorkspace, TLC

CONSTANTS e1, e2

OneEach == [ref \in Refs |-> 1]
=============================================================================
