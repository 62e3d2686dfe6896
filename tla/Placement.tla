------------------------------ MODULE Placement ------------------------------
(***************************************************************************)
(* Where a conversation works.  Manager.CreateConversation fixes its       *)
(* workspace ID and its lock from the client's selection, the agent's      *)
(* workspace policy and the server's sandbox; the two settings may be      *)
(* others after a restart.  A run is claimed under the lock, and the       *)
(* runner decides which files it works on.                                 *)
(***************************************************************************)
CONSTANTS
  Ids,                (* conversation IDs                                  *)
  Paths,              (* what clients name as a host workspace             *)
  Dirs,               (* directories of the host                           *)
  Leads,              (* filepath.EvalSymlinks: where a path leads         *)
  Within,             (* pairs of directories, the first below the second  *)
  Root,               (* the workspace root                                *)
  StateDir,           (* the server's state directory                      *)
  AgentDir,           (* the agent's own workspace, in the state directory *)
  AgentWorkspaceID,   (* the workspace ID of that one                      *)
  HasCredentials,     (* a GitHub App is configured                        *)
  Configurations,     (* settings the server is started with, one by one   *)
  None                (* no path, no directory or no conversation          *)

Policies  == {"agent", "per_conversation"}
Sandboxes == {"seatbelt", "e2b"}

(* Directories form a tree, and conversation IDs are random.               *)
ASSUME PlacementAssumption ==
  /\ Leads \in [Paths -> Dirs \cup {None}]
  /\ {Root, StateDir, AgentDir} \subseteq Dirs
  /\ Within \subseteq Dirs \X Dirs
  /\ \A d \in Dirs : <<d, d>> \in Within
  /\ \A d, e, f \in Dirs : <<d, e>> \in Within /\ <<d, f>> \in Within => <<e, f>> \in Within \/ <<f, e>> \in Within
  /\ \A d, e, f \in Dirs : <<d, e>> \in Within /\ <<e, f>> \in Within => <<d, f>> \in Within
  /\ <<AgentDir, StateDir>> \in Within
  /\ AgentWorkspaceID \notin Ids /\ None \notin Ids \cup Paths \cup Dirs
  /\ HasCredentials \in BOOLEAN /\ Configurations \subseteq [policy : Policies, sandbox : Sandboxes]

(* ConversationOptions.  A Git plan is "invalid" when half of it is        *)
(* missing or ValidatePlan refuses it.                                     *)
Selection ==
  [path : Paths \cup {None}, git : {"none", "invalid", "plan"}, all : BOOLEAN,
   env : {"default"} \cup Sandboxes]

VARIABLES
  serving,        (* the process is up                                     *)
  policy,         (* Agent.WorkspacePolicy                                 *)
  sandbox,        (* the one environment the server is configured with     *)
  conversation,   (* table conversations                                   *)
  run             (* of each conversation: its run                         *)

settings  == <<policy, sandbox>>
placement == <<serving, settings, conversation, run>>

Created == {c \in Ids : conversation[c] # None}

Overlap(d, e) == <<d, e>> \in Within \/ <<e, d>> \in Within

-----------------------------------------------------------------------------
(* validateWorkspaceOutsideState.                                          *)
(* Mutant: a workspace around the state directory is seen, not one in it.  *)
NotAround(d) == <<StateDir, d>> \notin Within

OutsideState(d) == ~Overlap(d, StateDir)

(* validateConversationWorkspace, of the directory a path leads to.        *)
Usable(d) == d # None /\ <<d, Root>> \in Within /\ OutsideState(d)

(* The checks of CreateConversation and PrepareConversation.               *)
Accepts(sel) ==
  /\ sel.env \in {"default", sandbox}
  /\ policy = "agent" => sel.path = None /\ sel.git = "none" /\ ~sel.all
  /\ policy = "per_conversation" =>
       /\ sel.git # "invalid"
       /\ sel.git = "plan" => sandbox = "e2b" /\ sel.path = None
       /\ sel.git = "none" => sel.path # None /\ Usable(Leads[sel.path])
       /\ sel.all => sandbox = "e2b" /\ HasCredentials

HostDirectory(sel) == IF sel.path = None THEN None ELSE Leads[sel.path]

LockOf(c, sel) ==
  CASE policy = "agent" -> AgentWorkspaceID
    [] policy # "agent" /\ (sandbox = "e2b" \/ sel.git = "plan") -> c
    [] OTHER -> HostDirectory(sel)

Placed(c, sel) ==
  [agent |-> policy = "agent", env |-> sandbox, dir |-> HostDirectory(sel),
   workspaceID |-> IF policy = "agent" THEN AgentWorkspaceID ELSE c,
   lock |-> LockOf(c, sel)]

(* NewID: which unused ID it is does not matter.                           *)
Fresh(c) == c = CHOOSE d \in Ids : conversation[d] = None

CreateConversation(c, sel) ==
  /\ serving
  /\ conversation[c] = None /\ Fresh(c)
  /\ Accepts(sel)
  /\ conversation' = [conversation EXCEPT ![c] = Placed(c, sel)]
  /\ UNCHANGED <<serving, settings, run>>

-----------------------------------------------------------------------------
(* ClaimRunnable: one run of a conversation and of a lock.                 *)
MayClaim(c) ==
  \A d \in Ids : run[d] # "none" => conversation[d].lock # conversation[c].lock

(* agentRunner.Run refuses a run of another environment, and checks a host *)
(* workspace again.                                                        *)
Executable(c) ==
  /\ conversation[c].env = sandbox
  /\ conversation[c].dir # None => Usable(conversation[c].dir)

(* What the runner checks changes only with the process, so it is decided  *)
(* here whether the claimed run will reach the files or fail.              *)
ClaimRun(c) ==
  /\ serving
  /\ conversation[c] # None /\ MayClaim(c)
  /\ run' = [run EXCEPT ![c] = IF Executable(c) THEN "working" ELSE "refused"]
  /\ UNCHANGED <<serving, settings, conversation>>

EndRun(c) ==
  /\ run[c] # "none"
  /\ run' = [run EXCEPT ![c] = "none"]
  /\ UNCHANGED <<serving, settings, conversation>>

(* The process dies, and starts again, perhaps with other settings.        *)
Crash ==
  /\ serving
  /\ serving' = FALSE
  /\ run' = [c \in Ids |-> "none"]
  /\ UNCHANGED <<settings, conversation>>

Restart ==
  /\ ~serving
  /\ serving' = TRUE
  /\ \E s \in Configurations : policy' = s.policy /\ sandbox' = s.sandbox
  /\ UNCHANGED <<conversation, run>>

PlacementInit ==
  /\ serving = TRUE
  /\ \E s \in Configurations : policy = s.policy /\ sandbox = s.sandbox
  /\ conversation = [c \in Ids |-> None]
  /\ run = [c \in Ids |-> "none"]

-----------------------------------------------------------------------------
PlacedAt ==
  [agent : BOOLEAN, env : Sandboxes, dir : Dirs \cup {None},
   workspaceID : Ids \cup {AgentWorkspaceID}, lock : Ids \cup Dirs \cup {AgentWorkspaceID}]

PlacementTypeOK ==
  /\ serving \in BOOLEAN /\ policy \in Policies /\ sandbox \in Sandboxes
  /\ conversation \in [Ids -> PlacedAt \cup {None}]
  /\ run \in [Ids -> {"none", "refused", "working"}]

(* Where a working run works: a directory of the host, or a remote         *)
(* workspace.                                                              *)
Place(c) ==
  IF conversation[c].env = "e2b" THEN <<"remote", conversation[c].workspaceID>>
  ELSE <<"host", IF conversation[c].agent THEN AgentDir ELSE conversation[c].dir>>

(* Conversations that share a workspace share its lock: what the store's   *)
(* exclusion of runs and restores takes for granted.                       *)
SharedWorkspaceSharesLock ==
  \A c, d \in Created :
    conversation[c].workspaceID = conversation[d].workspaceID => conversation[c].lock = conversation[d].lock

(* Two runs never work in one directory, whatever paths named it, nor in   *)
(* one remote workspace; and no run reaches the agent's workspace from a   *)
(* directory around it or in it.  A client's directory inside another      *)
(* client's has a lock of its own: such runs may meet.                     *)
DirectoriesExclusive ==
  \A c, d \in Ids : c # d /\ run[c] = "working" /\ run[d] = "working" =>
    /\ Place(c) # Place(d)
    /\ Place(c) = <<"host", AgentDir>> /\ conversation[d].env = "seatbelt" => ~Overlap(conversation[d].dir, AgentDir)

(* A lock goes with a workspace, and keeps its directory to one run.       *)
PlacementInv == PlacementTypeOK /\ SharedWorkspaceSharesLock /\ DirectoriesExclusive
=============================================================================
