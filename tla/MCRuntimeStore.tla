--------------------------- MODULE MCRuntimeStore ---------------------------
(* Small instances of RuntimeStore for TLC.                                *)
EXTENDS RuntimeReplay, TLC

CONSTANTS c1, c2, w1, w2, l1, k1, k2, k3, t1, t2

\* One conversation.
OneWorkspace == c1 :> w1
OneLock == c1 :> l1

\* Two conversations on one host directory: workspace IDs of their own, one lock.
HostDirectory == c1 :> w1 @@ c2 :> w2
HostDirectoryLock == [c \in {c1, c2} |-> l1]

CallSymmetry == Permutations(Calls)
KeySymmetry == Permutations(Keys)
=============================================================================
