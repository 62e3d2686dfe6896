---------------------------- MODULE RunContract ----------------------------
(***************************************************************************)
(* What one run owes the store that records it, without hooks, tools,      *)
(* turns or cancellation: tool calls are requested together, a result is   *)
(* recorded for each in the order of the request, the next calls are       *)
(* requested only when no result is missing, and a run that answers leaves *)
(* none behind.  RuntimeStore!FinishRun relies on the last point.          *)
(***************************************************************************)
EXTENDS Naturals

CONSTANT Calls      (* pairs of a turn and a position in it                *)

VARIABLES
  outstanding,      (* requested, without a result                         *)
  resolved,         (* with a result                                       *)
  verdict           (* what the run returned                               *)

Init ==
  /\ outstanding = {}
  /\ resolved = {}
  /\ verdict = "none"

Request(C) ==
  /\ verdict = "none" /\ outstanding = {}
  /\ C # {} /\ C \cap resolved = {}
  /\ outstanding' = C
  /\ UNCHANGED <<resolved, verdict>>

Resolve(c) ==
  /\ verdict = "none"
  /\ c \in outstanding
  /\ \A d \in outstanding : c[2] <= d[2]
  /\ outstanding' = outstanding \ {c}
  /\ resolved' = resolved \cup {c}
  /\ UNCHANGED verdict

Answer ==
  /\ verdict = "none" /\ outstanding = {}
  /\ verdict' = "answered"
  /\ UNCHANGED <<outstanding, resolved>>

Fail ==
  /\ verdict = "none"
  /\ verdict' = "failed"
  /\ UNCHANGED <<outstanding, resolved>>

Next ==
  \/ \E C \in SUBSET Calls : Request(C)
  \/ \E c \in Calls : Resolve(c)
  \/ Answer
  \/ Fail

Spec == Init /\ [][Next]_<<outstanding, resolved, verdict>>
=============================================================================
