----------------------------- MODULE MCExternalHost ----------------------------
(* Small instances of ExternalHost for TLC.                                   *)
EXTENDS ExternalHost, TLC

CONSTANTS a1, a2

CallSymmetry == Permutations(Calls)
=============================================================================
