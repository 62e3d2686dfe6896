----------------------------- MODULE E2BWorkspace -----------------------------
(* One workspace placed in E2B sandboxes (environment/e2b): the start of a    *)
(* session, its heartbeat and its close, the restore of a checkpoint, the     *)
(* janitor, and what they share: the workspace's row of                       *)
(* execution_environments, its checkpoint history and archives, the           *)
(* provider's lock and active map. Every call to E2B, to the store and to the *)
(* archive directory is a step of its own, may fail, and may be the last one  *)
(* before a crash. Workspaces share only the stripe of a mutex.               *)
EXTENDS Retention

CONSTANTS
  Edits,        (* contents a run can leave behind, other than the base       *)
  ActiveFor, IdleFor, RecoverFor, Grace,  (* timeout, idleTimeout,            *)
                (* checkpointRecoveryTimeout and the minute added to both     *)
  MaxTime, MaxBoxes, MaxEntries, MaxFaults, MaxCrashes  (* bounds             *)

ASSUME E2BAssumption ==
  /\ "base" \notin Edits /\ "blank" \notin Edits
  /\ ActiveFor \in Nat /\ IdleFor \in Nat /\ RecoverFor \in Nat /\ Grace \in Nat
  /\ MaxTime \in Nat /\ MaxBoxes \in Nat /\ MaxEntries \in Nat
  /\ MaxFaults \in Nat /\ MaxCrashes \in Nat

Refs == Edits \union {"base"}       \* archives are named by their content
Contents == Refs \union {"blank"}
NoRow == [status |-> "none"]
Idle == "idle"

VARIABLES
  clock,
  git,          (* the workspace's strategy is git/v1: it never changes       *)
  box,          (* the sandboxes E2B was asked for: alive, content, ttl, and  *)
                (* whether edited since placed or last checkpointed (a fact   *)
                (* of the sandbox the program cannot see)                     *)
  row,          (* the workspace's row of execution_environments              *)
  workspace,    (* whether its row of workspaces exists                       *)
  history,      (* its rows of workspace_checkpoints                          *)
  archives,     (* the archives of its checkpoint directory                   *)
  active,       (* Provider.active has an entry for the workspace             *)
  lock,         (* who holds the workspace's lock                             *)
  pc, mine, failed, until,   (* the run: its step, sandbox, closeErr and      *)
                (* recoveryUntil                                              *)
  beat,         (* the session's heartbeat                                    *)
  restore,      (* the restore of a checkpoint, holding the reservation       *)
  rec,          (* the call of RecordWorkspaceCheckpoint of a run or restore  *)
  sweep,        (* the janitor's listed row and step                          *)
  faults, crashes

disk == <<row, workspace, history, archives>>
run == <<pc, mine, failed, until>>
bounds == <<faults, crashes>>
vars == <<clock, git, box, disk, active, lock, run, beat, restore, rec, sweep, bounds>>

Free == "free"
NoRecord == [stage |-> "none"]
NoRestore == [step |-> "none"]
NoSweep == [step |-> "none"]

Entry(ref, kind, from) == [ref |-> ref, kind |-> kind, from |-> from]

Init ==
  /\ clock = 0 /\ git \in BOOLEAN /\ box = <<>>
  /\ row = NoRow /\ workspace = FALSE /\ history = {} /\ archives = {}
  /\ active = FALSE /\ lock = Free
  /\ pc = "none" /\ mine = 0 /\ failed = FALSE /\ until = 0
  /\ beat = "off" /\ restore = NoRestore /\ sweep = NoSweep
  /\ rec = [a \in {"run", "restore"} |-> NoRecord]
  /\ faults = 0 /\ crashes = 0

-----------------------------------------------------------------------------
(* Calls that can fail: the bound makes failures rare, not impossible.        *)
Works == UNCHANGED <<bounds, git>>
Fails == faults < MaxFaults /\ faults' = faults + 1 /\ UNCHANGED <<crashes, git>>

Alive(b) == b \in DOMAIN box /\ box[b].alive

(* setSandboxTimeout, killSandbox: a failed kill may have been carried out.   *)
SetTimeout(b, ttl) == Alive(b) /\ box' = [box EXCEPT ![b].ttl = ttl]
Kill(b) == box' = [box EXCEPT ![b].alive = FALSE]
KillOrNot(b) == Kill(b) \/ UNCHANGED box

(* The states of a session as its provider saves them.                        *)
ActiveRow(b) == [status |-> "active", box |-> b, idleUntil |-> 0, expires |-> clock + ActiveFor]
RecoveryRow(b, end) == [status |-> "recovery", box |-> b, idleUntil |-> 0, expires |-> end]
IdleRow(b) == [status |-> Idle, box |-> b, idleUntil |-> clock + IdleFor,
               expires |-> clock + IdleFor + Grace]

(* PutWorkspaceCheckpoint installs an archive whole, under the digest of its  *)
(* content, and may have when it fails; WorkspaceCheckpoint verifies it.      *)
Put(ref) == archives' = archives \union {ref}
PutOrNot(ref) == Put(ref) \/ UNCHANGED archives
Intact(ref) == ref \in archives

(* The workspace of a sandbox as an archive that validated: it would restore. *)
Archived(b) == box[b].content

SaveRow(r) == row' = r /\ UNCHANGED <<workspace, history, archives>>

(* DeleteEnvironmentState names the sandbox, so it spares a successor's row.  *)
DeleteRow(b) ==
  /\ row' = IF row # NoRow /\ row.box = b THEN NoRow ELSE row
  /\ UNCHANGED <<workspace, history, archives>>

(* Mutant: only an active row keeps the next start away.                      *)
HeldByRun == row # NoRow /\ row.status = "active" /\ clock < row.expires

Held == row # NoRow /\ row.status # Idle /\ clock < row.expires

-----------------------------------------------------------------------------
(* RecordWorkspaceCheckpoint and the pruning it ends with, as called by a run *)
(* or a restore. Only the append decides its outcome.                         *)
Record(a, entry) == rec' = [rec EXCEPT ![a] = [stage |-> "append", entry |-> entry]]
To(a, stage) == rec' = [rec EXCEPT ![a].stage = stage]
Recorded(a) == rec[a].stage = "done"
RecordFailed(a) == rec[a].stage = "failed"
Clear(a) == rec' = [rec EXCEPT ![a] = NoRecord]

Rest == <<clock, box, row, workspace, active, lock, run, beat, restore, sweep>>

Unchanging(entry) ==
  entry.kind = "run" /\ history # {} /\ Current(history).ref = entry.ref

RecordAppend(a) ==
  /\ rec[a].stage = "append"
  /\ LET e == rec[a].entry
         seq == IF history = {} THEN 1 ELSE Current(history).seq + 1
     IN  \/ /\ Unchanging(e)
            /\ Works /\ To(a, "done") /\ UNCHANGED history
         \/ /\ ~Unchanging(e) /\ seq <= MaxEntries
            /\ history' = history \union {[seq |-> seq, ref |-> e.ref, kind |-> e.kind,
                                           from |-> e.from, day |-> clock]}
            /\ Works /\ To(a, "read")
         \/ Fails /\ To(a, "failed") /\ UNCHANGED history
  /\ UNCHANGED <<Rest, archives>>

(* pruneWorkspaceCheckpoints decides on the history it reads once; what it    *)
(* keeps of the archives comes from the same reading.                         *)
PruneRead(a) ==
  /\ rec[a].stage = "read"
  /\ \/ /\ Works
        /\ LET doomed == ExpiredCheckpoints(history, Current(history).day)
           IN  rec' = [rec EXCEPT ![a] =
                 [stage |-> IF doomed = {} THEN "prune" ELSE "delete", doomed |-> doomed,
                  keep |-> Archives({e \in history : e.seq \notin doomed})]]
     \/ Fails /\ To(a, "done")
  /\ UNCHANGED <<Rest, history, archives>>

(* DeleteWorkspaceCheckpoints spares the highest seq whatever it is asked.    *)
PruneDelete(a) ==
  /\ rec[a].stage = "delete"
  /\ \/ /\ history' = {e \in history : e.seq \notin rec[a].doomed \/ e.seq = Current(history).seq}
        /\ Works /\ To(a, "prune")
     \/ Fails /\ To(a, "done") /\ UNCHANGED history
  /\ UNCHANGED <<Rest, archives>>

(* A failing PruneWorkspaceCheckpoints has removed some of the archives.      *)
PruneArchives(a) ==
  /\ rec[a].stage = "prune"
  /\ \/ archives' = archives \intersect rec[a].keep /\ Works
     \/ \E gone \in SUBSET (archives \ rec[a].keep) : archives' = archives \ gone /\ Fails
  /\ To(a, "done")
  /\ UNCHANGED <<Rest, history>>

RecordStep(a) == RecordAppend(a) \/ PruneRead(a) \/ PruneDelete(a) \/ PruneArchives(a)

-----------------------------------------------------------------------------
(* Provider.Start, holding the workspace's lock throughout.                   *)
Others == <<clock, active, beat, restore, sweep>>

Goto(step) == pc' = step /\ UNCHANGED <<mine, failed, until>>
LeaveStart == pc' = "none" /\ mine' = 0 /\ lock' = Free /\ UNCHANGED <<failed, until>>
KeepLock == UNCHANGED lock

(* loadOrCreateWorkspace: a recorded workspace has its current checkpoint, or *)
(* its base is recovered from the seed archive its record names; otherwise it *)
(* is seeded. A Git workspace without one is checked out in the sandbox.      *)
StartRun ==
  /\ pc = "none" /\ restore = NoRestore
  /\ lock = Free /\ ~active
  /\ lock' = "run"
  /\ \/ /\ git \/ history # {}
        /\ Goto("acquire") /\ UNCHANGED rec
     \/ /\ ~git /\ history = {} /\ workspace /\ Intact("base")
        /\ Goto("base") /\ Record("run", Entry("base", "base", 0))
     \/ /\ ~git /\ history = {} /\ (~workspace \/ ~Intact("base"))
        /\ Goto("put") /\ UNCHANGED rec
  /\ Works
  /\ UNCHANGED <<Others, disk, box>>

(* The base: seedWorkspace before there is a sandbox, provisionGitWorkspace   *)
(* from the checkout in it, whose failure removes the sandbox.                *)
NoBase == IF git THEN Goto("cleanup") /\ KeepLock ELSE LeaveStart

PutBase ==
  /\ pc = "put"
  /\ \/ Put("base") /\ Works /\ Goto("save") /\ KeepLock
     \/ PutOrNot("base") /\ Fails /\ NoBase
  /\ UNCHANGED <<Others, box, row, workspace, history, rec>>

SaveWorkspaceState == workspace' = TRUE

SaveWorkspace ==
  /\ pc = "save"
  /\ \/ SaveWorkspaceState /\ Works /\ Goto("base") /\ KeepLock /\ Record("run", Entry("base", "base", 0))
     \/ Fails /\ NoBase /\ UNCHANGED <<workspace, rec>>
  /\ UNCHANGED <<Others, box, row, history, archives>>

BaseRecorded ==
  /\ pc = "base"
  /\ \/ Recorded("run") /\ Goto(IF git THEN "publish" ELSE "acquire") /\ KeepLock
     \/ RecordFailed("run") /\ NoBase
  /\ Clear("run") /\ Works
  /\ UNCHANGED <<Others, disk, box>>

(* acquireSandbox. What a row that is neither held nor reusable names is      *)
(* removed first: an expired session's sandbox, or an idle one of another     *)
(* template or network.                                                       *)
Blocked ==
  /\ pc = "acquire" /\ Held
  /\ LeaveStart /\ Works
  /\ UNCHANGED <<Others, disk, box, rec>>

Reusable == row # NoRow /\ row.status = Idle

Reconnect ==
  /\ pc = "acquire" /\ Reusable
  /\ \/ /\ SetTimeout(row.box, clock + ActiveFor)
        /\ pc' = "claim" /\ mine' = row.box /\ KeepLock
        /\ Works /\ UNCHANGED <<failed, until, row>>
     \/ /\ ~Alive(row.box)
        /\ row' = NoRow /\ Goto("create") /\ KeepLock /\ Works /\ UNCHANGED box
     \/ Fails /\ LeaveStart /\ UNCHANGED <<row, box>>
  /\ UNCHANGED <<Others, workspace, history, archives, rec>>

ClaimSandbox ==
  /\ pc = "claim"
  /\ \/ SaveRow(ActiveRow(mine)) /\ Works /\ Goto("connect") /\ KeepLock
     \/ Fails /\ LeaveStart /\ UNCHANGED disk
  /\ UNCHANGED <<Others, box, rec>>

Discard ==
  /\ pc = "acquire" /\ row # NoRow /\ ~Held
  /\ \/ Kill(row.box) /\ Works /\ Goto("forget") /\ KeepLock
     \/ KillOrNot(row.box) /\ Fails /\ LeaveStart
  /\ UNCHANGED <<Others, disk, rec>>

Forget ==
  /\ pc = "forget"
  /\ \/ DeleteRow(row.box) /\ Works /\ Goto("create") /\ KeepLock
     \/ Fails /\ LeaveStart /\ UNCHANGED disk
  /\ UNCHANGED <<Others, box, rec>>

(* One created although the call failed is nobody's, until its timeout.       *)
NewSandbox == [alive |-> TRUE, content |-> "blank", edited |-> FALSE, ttl |-> clock + ActiveFor]

CreateSandbox ==
  /\ pc = "create" \/ (pc = "acquire" /\ row = NoRow)
  /\ Len(box) < MaxBoxes
  /\ \/ /\ box' = Append(box, NewSandbox)
        /\ pc' = "place" /\ mine' = Len(box') /\ UNCHANGED <<failed, until>>
        /\ Works /\ KeepLock
     \/ Fails /\ LeaveStart /\ UNCHANGED box
  /\ UNCHANGED <<Others, disk, rec>>

(* placeWorkspace: the current checkpoint, whose archive must still be there  *)
(* and intact, or the first checkout of the repository.                       *)
Place(content) == Alive(mine) /\ box' = [box EXCEPT ![mine].content = content]

PlaceFails ==
  /\ \/ Fails
     \/ Works /\ (~Alive(mine) \/ (history # {} /\ ~Intact(Current(history).ref)))
  /\ Goto("cleanup") /\ UNCHANGED box

PlaceWorkspace ==
  /\ pc = "place"
  /\ \/ /\ history # {} /\ Intact(Current(history).ref)
        /\ Place(Current(history).ref) /\ Works /\ Goto("publish")
     \/ PlaceFails
  /\ KeepLock /\ UNCHANGED <<Others, disk, rec>>

(* provisionGitWorkspace up to the archive of the checkout, which PutBase,    *)
(* SaveWorkspace and BaseRecorded make the workspace's base.                  *)
CheckOut ==
  /\ pc = "place" /\ history = {}
  /\ Place("base") /\ Works /\ Goto("put")
  /\ KeepLock /\ UNCHANGED <<Others, disk, rec>>

Publish ==
  /\ pc = "publish"
  /\ \/ SaveRow(ActiveRow(mine)) /\ Works /\ Goto("connect")
     \/ Fails /\ Goto("cleanup") /\ UNCHANGED disk
  /\ KeepLock /\ UNCHANGED <<Others, box, rec>>

(* The directories are copied in and the hands started: only then does the    *)
(* session exist. Any failure, and a canceled start, removes the sandbox.     *)
Connect ==
  /\ pc = "connect"
  /\ \/ Alive(mine) /\ Works /\ pc' = "open" /\ active' = TRUE
        /\ beat' = "on" /\ lock' = Free
     \/ (Fails \/ (Works /\ ~Alive(mine))) /\ pc' = "cleanup" /\ UNCHANGED <<active, beat, lock>>
  /\ UNCHANGED <<clock, restore, sweep, mine, failed, until, disk, box, rec>>

Cleanup ==
  /\ pc = "cleanup"
  /\ \/ Kill(mine) /\ Works /\ Goto("clean row") /\ KeepLock
     \/ KillOrNot(mine) /\ Fails /\ LeaveStart
  /\ UNCHANGED <<Others, disk, rec>>

CleanupRow ==
  /\ pc = "clean row"
  /\ \/ DeleteRow(mine) /\ Works
     \/ Fails /\ UNCHANGED disk
  /\ LeaveStart /\ UNCHANGED <<Others, box, rec>>

StartStep ==
  \/ StartRun \/ PutBase \/ SaveWorkspace \/ BaseRecorded
  \/ Blocked \/ Reconnect \/ ClaimSandbox \/ Discard \/ Forget \/ CreateSandbox
  \/ PlaceWorkspace \/ CheckOut \/ Publish \/ Connect \/ Cleanup \/ CleanupRow

-----------------------------------------------------------------------------
(* The open session: the agent's tools edit the workspace, the heartbeat      *)
(* extends the sandbox and then its row.                                      *)
Session == <<clock, lock, restore, sweep>>

Edit(content) ==
  /\ pc = "open" /\ Alive(mine)
  /\ box' = [box EXCEPT ![mine].content = content, ![mine].edited = TRUE]
  /\ Works
  /\ UNCHANGED <<Session, active, run, beat, disk, rec>>

BeatExtend ==
  /\ beat = "on" /\ pc = "open"
  /\ SetTimeout(mine, clock + ActiveFor)
  /\ beat' = "saving" /\ Works
  /\ UNCHANGED <<Session, active, run, disk, rec>>

BeatSave ==
  /\ beat = "saving"
  /\ \/ SaveRow(ActiveRow(mine)) /\ Works
     \/ UNCHANGED disk /\ (Fails \/ (pc = "closing" /\ Works))   \* canceled by Close
  /\ beat' = "on"
  /\ UNCHANGED <<Session, active, run, box, rec>>

(* Close: the hands end, the heartbeat is waited for, and the sandbox is      *)
(* reserved for recovery before anything else is tried.                       *)
CloseBegins ==
  /\ pc = "open"
  /\ pc' = "closing"
  /\ (Works /\ UNCHANGED failed) \/ (Fails /\ failed' = TRUE)
  /\ UNCHANGED <<Session, active, mine, until, beat, box, disk, rec>>

(* Mutant: Close cancels the heartbeat without waiting for its save.          *)
CancelHeartbeat ==
  /\ pc = "closing" /\ beat \in {"on", "saving"}
  /\ beat' = (IF beat = "on" THEN "off" ELSE beat)
  /\ pc' = "reserve" /\ until' = clock + RecoverFor
  /\ Works
  /\ UNCHANGED <<Session, active, mine, failed, box, disk, rec>>

StopHeartbeat ==
  /\ pc = "closing" /\ beat = "on"
  /\ beat' = "off" /\ pc' = "reserve" /\ until' = clock + RecoverFor
  /\ Works
  /\ UNCHANGED <<Session, active, mine, failed, box, disk, rec>>

Closing == <<Session, active, beat, mine, until>>

(* reserveRecovery tries both of its calls: the row first, the timeout next.  *)
ReserveRow(step, next) ==
  /\ pc = step /\ pc' = next
  /\ \/ SaveRow(RecoveryRow(mine, until)) /\ Works /\ UNCHANGED failed
     \/ Fails /\ failed' = TRUE /\ UNCHANGED disk
  /\ UNCHANGED <<Closing, box, rec>>

ReserveTimeout(step, next) ==
  /\ pc = step
  /\ \/ SetTimeout(mine, until + Grace) /\ Works /\ UNCHANGED failed
     \/ (Fails \/ (Works /\ ~Alive(mine))) /\ failed' = TRUE /\ UNCHANGED box
  /\ pc' = IF failed' THEN "hold" ELSE next
  /\ UNCHANGED <<Closing, disk, rec>>

Reserve == ReserveRow("reserve", "extend") \/ ReserveTimeout("extend", "archive")

(* The checkpoint: archived in the sandbox, downloaded, validated and put.    *)
Archive ==
  /\ pc = "archive"
  /\ \/ /\ Alive(mine) /\ Put(Archived(mine))
        /\ Record("run", Entry(Archived(mine), "run", 0))
        /\ Works /\ pc' = "record" /\ UNCHANGED failed
     \/ /\ Alive(mine) /\ PutOrNot(Archived(mine)) /\ Fails
        /\ pc' = "hold" /\ failed' = TRUE /\ UNCHANGED rec
     \/ /\ ~Alive(mine) /\ UNCHANGED archives /\ Works
        /\ pc' = "hold" /\ failed' = TRUE /\ UNCHANGED rec
  /\ UNCHANGED <<Closing, box, row, workspace, history>>

(* Mutant: the outcome of the append is not looked at.                        *)
CheckpointAssumed ==
  /\ pc = "record"
  /\ Recorded("run") \/ RecordFailed("run")
  /\ pc' = "shorten" /\ UNCHANGED <<failed, box>>
  /\ Clear("run") /\ Works
  /\ UNCHANGED <<Closing, disk>>

CheckpointRecorded ==
  /\ pc = "record"
  /\ \/ /\ Recorded("run") /\ pc' = "shorten" /\ UNCHANGED failed
        /\ box' = [box EXCEPT ![mine].edited = FALSE]
     \/ RecordFailed("run") /\ pc' = "hold" /\ failed' = TRUE /\ UNCHANGED box
  /\ Clear("run") /\ Works
  /\ UNCHANGED <<Closing, disk>>

Shorten ==
  /\ pc = "shorten"
  /\ \/ SetTimeout(mine, clock + IdleFor + Grace) /\ Works /\ pc' = "idle" /\ UNCHANGED failed
     \/ (Fails \/ (Works /\ ~Alive(mine))) /\ pc' = "hold" /\ failed' = TRUE /\ UNCHANGED box
  /\ UNCHANGED <<Closing, disk, rec>>

SaveIdle ==
  /\ pc = "idle"
  /\ \/ SaveRow(IdleRow(mine)) /\ Works /\ pc' = "leave" /\ UNCHANGED failed
     \/ Fails /\ pc' = "hold" /\ failed' = TRUE /\ UNCHANGED disk
  /\ UNCHANGED <<Closing, box, rec>>

(* Whatever failed, the sandbox is reserved again for the original window.    *)
Hold ==
  \/ ReserveRow("hold", "hold timeout")
  \/ /\ pc = "hold timeout" /\ pc' = "leave"
     /\ (SetTimeout(mine, until + Grace) /\ Works) \/ (UNCHANGED box /\ (Fails \/ (Works /\ ~Alive(mine))))
     /\ UNCHANGED <<Closing, failed, disk, rec>>

LeaveSession ==
  /\ pc = "leave"
  /\ active' = FALSE /\ Works
  /\ pc' = "none" /\ mine' = 0 /\ failed' = FALSE /\ until' = 0
  /\ UNCHANGED <<Session, beat, box, disk, rec>>

SessionStep ==
  \/ \E content \in Edits : Edit(content)
  \/ BeatExtend \/ BeatSave \/ CloseBegins \/ StopHeartbeat
  \/ Reserve \/ Archive \/ CheckpointRecorded \/ Shorten \/ SaveIdle \/ Hold \/ LeaveSession

-----------------------------------------------------------------------------
(* History.RestoreWorkspace, called while the reservation keeps runs away:    *)
(* the provider drops the retained sandbox, then the restore is recorded.     *)
Quiet == <<clock, active, run, beat, sweep>>

RestoreBegins(e) ==
  /\ pc = "none" /\ restore = NoRestore
  /\ workspace
  /\ restore' = [step |-> "check", ref |-> e.ref, seq |-> e.seq]
  /\ Works
  /\ UNCHANGED <<Quiet, lock, box, disk, rec>>

RestoreOver == restore' = NoRestore
RestoreAt(step) == restore' = [restore EXCEPT !.step = step]
RecordRestore == RestoreAt("record") /\ Record("restore", Entry(restore.ref, "restore", restore.seq))

(* Mutant: the idle sandbox survives the restore.                             *)
RestoreCheckOnly ==
  /\ restore.step = "check" /\ lock = Free /\ ~active
  /\ IF Held \/ ~Intact(restore.ref) THEN RestoreOver /\ UNCHANGED rec ELSE RecordRestore
  /\ Works
  /\ UNCHANGED <<Quiet, lock, box, disk>>

RestoreCheck ==
  /\ restore.step = "check" /\ lock = Free /\ ~active
  /\ \/ /\ (Works /\ (Held \/ ~Intact(restore.ref))) \/ Fails
        /\ RestoreOver /\ UNCHANGED <<lock, rec>>
     \/ /\ ~Held /\ Intact(restore.ref) /\ row = NoRow
        /\ RecordRestore /\ Works /\ UNCHANGED lock
     \/ /\ ~Held /\ Intact(restore.ref) /\ row # NoRow
        /\ RestoreAt("kill") /\ lock' = "restore" /\ Works /\ UNCHANGED rec
  /\ UNCHANGED <<Quiet, box, disk>>

RestoreKill ==
  /\ restore.step = "kill"
  /\ \/ Kill(row.box) /\ Works /\ RestoreAt("forget") /\ UNCHANGED lock
     \/ KillOrNot(row.box) /\ Fails /\ RestoreOver /\ lock' = Free
  /\ UNCHANGED <<Quiet, disk, rec>>

RestoreForget ==
  /\ restore.step = "forget"
  /\ \/ DeleteRow(row.box) /\ Works /\ RecordRestore
     \/ Fails /\ RestoreOver /\ UNCHANGED <<disk, rec>>
  /\ lock' = Free
  /\ UNCHANGED <<Quiet, box>>

RestoreEnds ==
  /\ restore.step = "record"
  /\ Recorded("restore") \/ RecordFailed("restore")
  /\ RestoreOver /\ Clear("restore") /\ Works
  /\ UNCHANGED <<Quiet, lock, box, disk>>

RestoreStep ==
  \/ \E e \in history : RestoreBegins(e)
  \/ RestoreCheck \/ RestoreKill \/ RestoreForget \/ RestoreEnds

-----------------------------------------------------------------------------
(* The janitor acts on rows it listed earlier: what it decides by is the      *)
(* listing, the lock and the active map, not the row as it is now.            *)
Expired == row # NoRow /\ ((row.status = Idle /\ row.idleUntil <= clock) \/ row.expires <= clock)

Maintenance == <<clock, active, run, beat, restore>>

SweepLists ==
  /\ sweep = NoSweep /\ Expired
  /\ sweep' = [step |-> "listed", row |-> row]
  /\ Works
  /\ UNCHANGED <<Maintenance, lock, box, disk, rec>>

SweepTakes ==
  /\ sweep.step = "listed"
  /\ IF lock = Free /\ ~active
     THEN sweep' = [sweep EXCEPT !.step = "kill"] /\ lock' = "sweep"
     ELSE sweep' = NoSweep /\ UNCHANGED lock
  /\ Works
  /\ UNCHANGED <<Maintenance, box, disk, rec>>

SweepKills ==
  /\ sweep.step = "kill"
  /\ \/ Kill(sweep.row.box) /\ Works /\ sweep' = [sweep EXCEPT !.step = "forget"] /\ UNCHANGED lock
     \/ KillOrNot(sweep.row.box) /\ Fails /\ sweep' = NoSweep /\ lock' = Free
  /\ UNCHANGED <<Maintenance, disk, rec>>

SweepForgets ==
  /\ sweep.step = "forget"
  /\ (DeleteRow(sweep.row.box) /\ Works) \/ (Fails /\ UNCHANGED disk)
  /\ sweep' = NoSweep /\ lock' = Free
  /\ UNCHANGED <<Maintenance, box, rec>>

SweepStep == SweepLists \/ SweepTakes \/ SweepKills \/ SweepForgets

-----------------------------------------------------------------------------
(* E2B ends a sandbox at its timeout. A sweep does not live as long as the    *)
(* shortest of the timeouts: its context ends after fifteen seconds.          *)
Tick ==
  /\ clock < MaxTime
  /\ sweep.step \in {"none", "listed"}
  /\ sweep' = NoSweep
  /\ clock' = clock + 1
  /\ box' = [b \in DOMAIN box |-> [box[b] EXCEPT !.alive = @ /\ clock' < box[b].ttl]]
  /\ UNCHANGED <<disk, active, lock, run, beat, restore, rec, bounds, git>>

(* The server dies and another is started: what is in memory is gone, the     *)
(* reservation of a restore with it.                                          *)
Crash ==
  /\ crashes < MaxCrashes
  /\ crashes' = crashes + 1
  /\ active' = FALSE /\ lock' = Free /\ pc' = "none" /\ beat' = "off"
  /\ restore' = NoRestore /\ sweep' = NoSweep
  /\ rec' = [a \in {"run", "restore"} |-> NoRecord]
  /\ mine' = 0 /\ failed' = FALSE /\ until' = 0
  /\ UNCHANGED <<clock, git, box, disk, faults>>

Next ==
  \/ StartStep \/ SessionStep \/ RestoreStep \/ SweepStep
  \/ \E a \in {"run", "restore"} : RecordStep(a)
  \/ Tick \/ Crash

Spec == Init /\ [][Next]_vars

-----------------------------------------------------------------------------
Unsaved(b) == box[b].alive /\ box[b].edited

(* Every checkpoint a restore can name has its archive, the base is among     *)
(* them, and a restore entry's source is too: pruning, interrupted anywhere,  *)
(* and whoever appends next, never leaves an entry that cannot be placed.     *)
Restorable ==
  /\ \A e \in history :
       /\ e.ref \in archives
       /\ e.from # 0 => \E f \in history : f.seq = e.from /\ f.seq < e.seq
  /\ history # {} => \E e \in history : e.kind = "base" /\ \A f \in history : e.seq <= f.seq

(* A session that opens finds the workspace as its current checkpoint has it, *)
(* in a new sandbox or a kept one, after any restore, failure or restart.     *)
OpensCurrent ==
  [][pc # "open" /\ pc' = "open" => box'[mine].content = Current(history).ref]_vars

(* Edits that no checkpoint holds are in the sandbox the workspace's row      *)
(* names as active or in recovery: the next run cannot take it for clean.     *)
EditsReserved ==
  \A b \in DOMAIN box : Unsaved(b) => row # NoRow /\ row.box = b /\ row.status # Idle

(* pons itself ends a sandbox with such edits only once its row has expired,  *)
(* except the janitor on an older listing of the row.                         *)
EndsUnsaved(b) == b \in DOMAIN box /\ Unsaved(b) /\ ~box'[b].alive /\ clock' = clock
StaleSweep == sweep.step = "kill" /\ sweep.row # row
UnsavedKept ==
  [][\A b \in DOMAIN box : EndsUnsaved(b) => row.expires <= clock \/ StaleSweep]_vars

(* provider.go: "A failed metadata write may leave an active record instead   *)
(* of a recovery record. Neither may be replaced before its recorded expiry." *)
RecoveryHonored ==
  [][\A b \in DOMAIN box : EndsUnsaved(b) => row.expires <= clock]_vars

(* Only a start, or the heartbeat of a session that Close has not overtaken,  *)
(* makes the row active: no late heartbeat undoes a reservation or an idle row. *)
HeartbeatEnds ==
  [][row' # row /\ row'.status = "active" => pc \in {"claim", "publish", "open", "closing"}]_vars
=============================================================================
