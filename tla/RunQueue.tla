------------------------------ MODULE RunQueue ------------------------------
(***************************************************************************)
(* What the runtime store promises (the contract of runtime.Store and the  *)
(* scheduling invariants of ADR-0012), without logs, tool calls, processes *)
(* or crashes: a queue of submissions, each of which waits, runs once and  *)
(* ends once with one outcome, under exclusive workspace locks, with holds *)
(* that keep the runs of one workspace waiting.                            *)
(***************************************************************************)
CONSTANTS
  Submissions,    (* everything that can be submitted                      *)
  Workspaces,     (* what can be held                                      *)
  LockFor,        (* of each submission: the lock its run owns             *)
  WorkspaceFor    (* of each submission: the workspace it runs in          *)

VARIABLES
  state,          (* of each submission                                    *)
  held            (* workspaces whose runs must wait                       *)

queueVars == <<state, held>>

Outcomes == {"completed", "failed", "stopped"}
States   == {"absent", "queued", "running"} \cup Outcomes

Init ==
  /\ state = [s \in Submissions |-> "absent"]
  /\ held = {}

Submit(s) ==
  /\ state[s] = "absent"
  /\ state' = [state EXCEPT ![s] = "queued"]
  /\ UNCHANGED held

MayBegin(s) ==
  /\ \A u \in Submissions : state[u] = "running" => LockFor[u] # LockFor[s]
  /\ WorkspaceFor[s] \notin held

Begin(s) ==
  /\ state[s] = "queued"
  /\ MayBegin(s)
  /\ state' = [state EXCEPT ![s] = "running"]
  /\ UNCHANGED held

End(s, outcome) ==
  /\ state[s] = "running"
  /\ state' = [state EXCEPT ![s] = outcome]
  /\ UNCHANGED held

Hold(w) ==
  /\ w \notin held
  /\ \A u \in Submissions : state[u] = "running" => WorkspaceFor[u] # w
  /\ held' = held \cup {w}
  /\ UNCHANGED state

(* One restore ends, or a restart drops all of them.                       *)
Release(W) ==
  /\ held' = held \ W
  /\ UNCHANGED state

Next ==
  \/ \E s \in Submissions :
       Submit(s) \/ Begin(s) \/ \E outcome \in Outcomes : End(s, outcome)
  \/ \E w \in Workspaces : Hold(w)
  \/ \E W \in SUBSET Workspaces : Release(W)

Spec == Init /\ [][Next]_queueVars

-----------------------------------------------------------------------------
QueueTypeOK ==
  /\ state \in [Submissions -> States]
  /\ held \subseteq Workspaces

(* Two submissions that need the same lock never run at the same time, and *)
(* none runs in a workspace that is held.                                  *)
Exclusive ==
  /\ \A s, u \in Submissions :
       state[s] = "running" /\ state[u] = "running" /\ s # u => LockFor[s] # LockFor[u]
  /\ \A s \in Submissions : state[s] = "running" => WorkspaceFor[s] \notin held
=============================================================================
