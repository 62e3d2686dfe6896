----------------------------- MODULE MCCoreLoop -----------------------------
(* Small instances of CoreLoop for TLC.                                    *)
EXTENDS CoreLoop

CONSTANT k1
=============================================================================
