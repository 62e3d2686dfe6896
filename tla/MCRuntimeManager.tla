-------------------------- MODULE MCRuntimeManager --------------------------
(* A small instance of RuntimeManager for TLC.                             *)
EXTENDS RuntimeManager, TLC

CONSTANTS c1, s1, s2, w1

\* Two messages of one conversation, in one workspace, which has a lock of its own.
Pair == s1 :> c1 @@ s2 :> c1
Shared == s1 :> w1 @@ s2 :> w1
=============================================================================
