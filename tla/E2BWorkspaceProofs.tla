-------------------------- MODULE E2BWorkspaceProofs --------------------------
(* What E2BWorkspace promises about unsaved edits and about checkpoints, for  *)
(* any timeouts, bounds, contents and retention. The first inductive          *)
(* invariant says who may touch the workspace's row at each step of a run, a  *)
(* restore and a sweep, and that the sandbox such a step is about to give     *)
(* away or remove holds no edits that a checkpoint has not. The second, on    *)
(* top of it, relates the history, the archives and the sandboxes' contents   *)
(* at each step of recording and pruning.                                     *)
EXTENDS E2BWorkspace, FiniteSetTheorems, SequenceTheorems, TLAPS

Starting == {"put", "save", "base", "acquire", "claim", "forget", "create",
             "place", "publish", "connect", "cleanup", "clean row"}
Serving == {"open", "closing", "reserve", "extend", "archive", "record",
            "shorten", "idle", "hold", "hold timeout", "leave"}

Rows == [status : {"active", "recovery", Idle}, box : Nat, idleUntil : Nat, expires : Nat]

SandboxFields == {"alive", "content", "edited", "ttl"}

BoxesTyped ==
  /\ Len(box) \in Nat /\ DOMAIN box = 1..Len(box)
  /\ box = [b \in DOMAIN box |-> box[b]]
  /\ \A b \in DOMAIN box : SandboxFields \subseteq DOMAIN box[b]

Typed ==
  /\ clock \in Nat /\ until \in Nat /\ mine \in Nat
  /\ git \in BOOLEAN /\ active \in BOOLEAN
  /\ row \in Rows \union {NoRow}
  /\ pc \in Starting \union Serving \union {"none"}
  /\ lock \in {Free, "run", "restore", "sweep"}
  /\ beat \in {"off", "on", "saving"}
  /\ restore = NoRestore
     \/ ("step" \in DOMAIN restore /\ restore.step \in {"check", "kill", "forget", "record"})
  /\ sweep \in [step : {"listed", "kill", "forget"}, row : Rows] \union {NoSweep}
  /\ BoxesTyped

(* The lock and the active map: a run that starts holds the one, one that has *)
(* started is in the other, and neither leaves room for a removal.            *)
Exclusive ==
  /\ pc \in Starting <=> lock = "run"
  /\ active <=> pc \in Serving
  /\ lock \in {"restore", "sweep"} \/ restore # NoRestore => pc = "none"
  /\ restore.step \in {"kill", "forget"} => lock = "restore"
  /\ sweep.step \in {"kill", "forget"} => lock = "sweep"
  /\ beat # "off" => pc \in {"open", "closing"}

(* The sandboxes with edits that no checkpoint holds.                         *)
Dirty == {b \in DOMAIN box : Unsaved(b)}

(* The checkout of a Git workspace, before its base is recorded.              *)
CheckedOut == git /\ pc \in {"put", "save", "base"}

(* What a run knows of the row, and of the sandbox it is about to give away.  *)
RunKnows ==
  /\ pc \in {"create", "place", "publish"} \/ CheckedOut => row = NoRow
  /\ pc = "claim" => row # NoRow /\ row.status = Idle /\ row.box = mine
  /\ pc = "connect" \/ pc \in Serving \ {"leave"} =>
       row # NoRow /\ row.status # Idle /\ row.box = mine
  /\ pc = "forget" => row # NoRow /\ row.box \notin Dirty
  /\ pc \in {"claim", "place", "publish", "connect", "cleanup", "clean row", "shorten", "idle"}
     \/ CheckedOut => mine \notin Dirty

Lapsed(r) == r.status = Idle \/ r.expires <= clock

(* What a restore knows of the row, and the janitor of the one it listed.     *)
RestoreKnows ==
  /\ restore.step \in {"kill", "forget"} => row # NoRow
  /\ restore.step = "kill" => Lapsed(row)
  /\ restore.step = "forget" => row.box \notin Dirty

SweepKnows ==
  /\ sweep.step \in {"listed", "kill"} => Lapsed(sweep.row)
  /\ sweep.step = "forget" => sweep.row.box \notin Dirty

WorkspaceInv ==
  Typed /\ Exclusive /\ RunKnows /\ RestoreKnows /\ SweepKnows /\ EditsReserved

(* What a step ends of them, and what it may never do.                        *)
Lost == {b \in Dirty : ~box'[b].alive}

KeepsUnsaved == Lost # {} /\ clock' = clock => row.expires <= clock \/ StaleSweep
KeepsQuiet == row' # row /\ row'.status = "active" => pc \in {"claim", "publish", "open", "closing"}

Sound == WorkspaceInv' /\ KeepsUnsaved /\ KeepsQuiet

-----------------------------------------------------------------------------
(* A new sandbox is the last of the sequence and has no edits.                *)
LEMMA BoxAdded ==
  ASSUME BoxesTyped, box' = Append(box, NewSandbox)
  PROVE  /\ BoxesTyped' /\ Dirty' \subseteq Dirty /\ Lost = {}
         /\ Len(box') \in Nat /\ Len(box') \notin Dirty'
<1> DEFINE S == {box[b] : b \in DOMAIN box} \union {NewSandbox}
<1>1. box \in [1..Len(box) -> S] /\ Len(box) \in Nat
  BY DEF BoxesTyped
<1>2. box \in Seq(S)
  BY <1>1
<1>3. /\ box' \in Seq(S) /\ Len(box') = Len(box) + 1
      /\ \A b \in 1..Len(box) : box'[b] = box[b]
      /\ box'[Len(box) + 1] = NewSandbox
  <2> HIDE DEF S
  <2>1. NewSandbox \in S
    BY DEF S
  <2>2. QED
    BY <1>2, <2>1, AppendProperties
<1>4. box' \in [1..Len(box') -> S] /\ Len(box') \in Nat
  <2> HIDE DEF S
  <2>1. QED
    BY <1>3, LenProperties
<1>5. \A b \in DOMAIN box' : b = Len(box) + 1 \/ b \in 1..Len(box)
  BY <1>1, <1>3, <1>4
<1>6. SandboxFields \subseteq DOMAIN NewSandbox /\ NewSandbox.edited = FALSE
  BY DEF NewSandbox, SandboxFields
<1>7. BoxesTyped'
  <2>1. \A b \in DOMAIN box' : SandboxFields \subseteq DOMAIN box'[b]
    BY <1>1, <1>3, <1>5, <1>6 DEF BoxesTyped
  <2>2. QED
    BY <1>4, <2>1 DEF BoxesTyped, SandboxFields
<1>8. Dirty' \subseteq Dirty
  BY <1>1, <1>3, <1>5, <1>6 DEF Dirty, Unsaved
<1>9. Lost = {} /\ Len(box') \notin Dirty'
  BY <1>1, <1>3, <1>6 DEF Lost, Dirty, Unsaved
<1>10. QED
  BY <1>4, <1>7, <1>8, <1>9

(* Any other step leaves the sequence as long as it was.                      *)
LEMMA BoxesReshaped ==
  ASSUME BoxesTyped, box' = [b \in DOMAIN box |-> box'[b]],
         \A b \in DOMAIN box : SandboxFields \subseteq DOMAIN box'[b]
  PROVE  BoxesTyped' /\ DOMAIN box' = DOMAIN box
<1> DEFINE S == {box'[b] : b \in DOMAIN box}
<1>1. box' \in [1..Len(box) -> S] /\ Len(box) \in Nat
  BY DEF BoxesTyped
<1>2. box' \in Seq(S)
  BY <1>1
<1>3. Len(box') \in Nat /\ DOMAIN box' = 1..Len(box')
  <2> HIDE DEF S
  <2>1. QED
    BY <1>2, LenProperties
<1>4. DOMAIN box' = DOMAIN box
  BY <1>1 DEF BoxesTyped
<1>5. QED
  BY <1>3, <1>4 DEF BoxesTyped, SandboxFields

(* Killing a sandbox loses its edits and no others.                           *)
LEMMA BoxKilled ==
  ASSUME BoxesTyped, NEW b, Kill(b)
  PROVE  BoxesTyped' /\ Dirty' \subseteq Dirty /\ b \notin Dirty' /\ Lost \subseteq Dirty \intersect {b}
<1>1. BoxesTyped' /\ DOMAIN box' = DOMAIN box
  <2>1. \A x \in DOMAIN box : SandboxFields \subseteq DOMAIN box'[x]
    BY DEF BoxesTyped, SandboxFields, Kill
  <2>2. QED
    BY <2>1, BoxesReshaped DEF Kill
<1>2. \A x \in DOMAIN box : x # b => box'[x] = box[x]
  BY DEF Kill
<1>3. b \in DOMAIN box => box'[b].alive = FALSE
  BY DEF BoxesTyped, SandboxFields, Kill
<1>4. QED
  BY <1>1, <1>2, <1>3 DEF Lost, Dirty, Unsaved

(* Steps that change neither life nor edits.                                  *)
LEMMA BoxKept ==
  ASSUME BoxesTyped,
         \/ UNCHANGED box
         \/ \E b, ttl : SetTimeout(b, ttl)
         \/ \E content : Place(content)
  PROVE  BoxesTyped' /\ Dirty' \subseteq Dirty /\ Lost = {}
<1>1. CASE UNCHANGED box
  BY <1>1 DEF BoxesTyped, Lost, Dirty, Unsaved
<1>2. CASE ~UNCHANGED box
  <2>1. /\ box' = [x \in DOMAIN box |-> box'[x]]
        /\ \A x \in DOMAIN box : /\ SandboxFields \subseteq DOMAIN box'[x]
                                 /\ box'[x].alive = box[x].alive /\ box'[x].edited = box[x].edited
    BY <1>2 DEF BoxesTyped, SandboxFields, SetTimeout, Place
  <2>2. BoxesTyped' /\ DOMAIN box' = DOMAIN box
    BY <2>1, BoxesReshaped
  <2>3. QED
    BY <2>1, <2>2 DEF Lost, Dirty, Unsaved
<1>3. QED
  BY <1>1, <1>2

-----------------------------------------------------------------------------
(* Edits stay reserved while none appear and the row either stays or goes on  *)
(* naming the sandbox that has them.                                          *)
LEMMA Reserved ==
  ASSUME BoxesTyped'
  PROVE  EditsReserved' <=> \A b \in Dirty' : row' # NoRow /\ row'.box = b /\ row'.status # Idle
BY DEF EditsReserved, Dirty

(* The same of the present state: the saved row names any unsaved edits.      *)
LEMMA ReservedNow ==
  ASSUME WorkspaceInv
  PROVE  \A b \in Dirty : row # NoRow /\ row.box = b /\ row.status # Idle
BY DEF WorkspaceInv, EditsReserved, Dirty

(* While a run is anywhere no restore is, and no sweep removes anything.      *)
LEMMA RunAlone ==
  ASSUME WorkspaceInv, pc # "none"
  PROVE  restore = NoRestore /\ sweep.step \notin {"kill", "forget"} /\ lock \in {Free, "run"}
BY DEF WorkspaceInv, Typed, Exclusive

(* So a step of a run has only the row and the sandboxes to answer for.       *)
LEMMA RunStepSound ==
  ASSUME WorkspaceInv, pc # "none", UNCHANGED <<clock, restore, sweep>>,
         Typed', Exclusive', RunKnows', KeepsUnsaved, KeepsQuiet,
         \A b \in Dirty' : row' # NoRow /\ row'.box = b /\ row'.status # Idle
  PROVE  Sound
<1>1. RestoreKnows' /\ SweepKnows'
  BY RunAlone DEF WorkspaceInv, RestoreKnows, SweepKnows, Lapsed, NoRestore
<1>2. EditsReserved'
  BY Reserved DEF Typed
<1>3. QED
  BY <1>1, <1>2 DEF Sound, WorkspaceInv

(* The rows a run saves are its own.                                          *)
LEMMA ActiveSaved ==
  ASSUME Typed, NEW b \in Nat
  PROVE  /\ ActiveRow(b) \in Rows /\ ActiveRow(b) # NoRow
         /\ ActiveRow(b).box = b /\ ActiveRow(b).status = "active"
<1>1. clock + ActiveFor \in Nat
  BY E2BAssumption DEF Typed
<1>2. QED
  BY <1>1 DEF ActiveRow, Rows, NoRow

(* reserveRecovery's row.                                                     *)
LEMMA RecoverySaved ==
  ASSUME Typed, NEW b \in Nat, NEW end \in Nat
  PROVE  /\ RecoveryRow(b, end) \in Rows /\ RecoveryRow(b, end) # NoRow
         /\ RecoveryRow(b, end).box = b /\ RecoveryRow(b, end).status = "recovery"
BY DEF RecoveryRow, Rows, NoRow

(* closeSession's idle row.                                                   *)
LEMMA IdleSaved ==
  ASSUME Typed, NEW b \in Nat
  PROVE  /\ IdleRow(b) \in Rows /\ IdleRow(b) # NoRow
         /\ IdleRow(b).box = b /\ IdleRow(b).status = Idle
<1>1. clock + IdleFor \in Nat /\ clock + IdleFor + Grace \in Nat
  BY E2BAssumption DEF Typed
<1>2. QED
  BY <1>1 DEF IdleRow, Rows, NoRow

(* A reservation ends at a time.                                              *)
LEMMA RecoveryEnds ==
  ASSUME Typed PROVE clock + RecoverFor \in Nat
<1>1. clock \in Nat /\ RecoverFor \in Nat
  BY E2BAssumption DEF Typed
<1>2. QED
  BY <1>1

(* What loadState returns of a saved row.                                     *)
LEMMA RowFields ==
  ASSUME Typed, row # NoRow
  PROVE  row \in Rows /\ row.box \in Nat /\ row.expires \in Nat
BY DEF Typed, Rows

(* A start holds the lock until it fails.                                     *)
StartMoves ==
  /\ UNCHANGED <<clock, git, active, until, beat, restore, sweep>>
  /\ (pc' \in Starting /\ UNCHANGED lock) \/ (pc' = "none" /\ lock' = Free)

(* Who holds what, over one step of Start or its cleanup.                     *)
LEMMA StartPreserves ==
  ASSUME WorkspaceInv, pc \in Starting, StartMoves, BoxesTyped',
         mine' \in Nat, row' \in Rows \union {NoRow}
  PROVE  Typed' /\ Exclusive'
<1>1. Typed'
  BY DEF WorkspaceInv, Typed, StartMoves
<1>2. Exclusive'
  <2>1. lock = "run" /\ ~active /\ beat = "off" /\ restore = NoRestore
    BY RunAlone DEF WorkspaceInv, Exclusive, Typed, Starting, Serving
  <2>2. sweep.step \notin {"kill", "forget"}
    BY <2>1, RunAlone DEF Starting
  <2>3. QED
    BY <2>1, <2>2 DEF Exclusive, StartMoves, Starting, Serving, Free, NoRestore
<1>3. QED
  BY <1>1, <1>2

(* A start that is refused, fails or is canceled leaves no edits unreserved.  *)
LEMMA StartSound ==
  ASSUME WorkspaceInv, StartStep, pc # "none" PROVE Sound
<1> USE DEF Goto, KeepLock, LeaveStart, Works, Fails, bounds
<1>1. CASE PutBase
  <2>1. /\ pc = "put" /\ StartMoves
        /\ pc' \in {"save", "none"} \/ (git /\ pc' = "cleanup")
        /\ UNCHANGED row /\ mine' = IF pc' = "none" THEN 0 ELSE mine
    BY <1>1 DEF PutBase, NoBase, disk, StartMoves, Starting, Others
  <2>2. BoxesTyped' /\ Dirty' \subseteq Dirty /\ Lost = {}
    BY <1>1, BoxKept DEF PutBase, NoBase, disk, WorkspaceInv, Typed
  <2>3. mine' \in Nat /\ row' \in Rows \union {NoRow}
    BY <2>1, 0 \in Nat DEF WorkspaceInv, Typed
  <2>4. Typed' /\ Exclusive'
    BY <2>1, <2>2, <2>3, StartPreserves DEF Starting
  <2>5. RunKnows'
    BY <2>1, <2>2, <2>3 DEF WorkspaceInv, Typed, RunKnows, CheckedOut, Starting, Serving, StartMoves, Idle
  <2>6. \A b \in Dirty' : row' # NoRow /\ row'.box = b /\ row'.status # Idle
    BY <2>1, <2>2, ReservedNow DEF WorkspaceInv, Typed, RunKnows, CheckedOut, Idle
  <2>7. KeepsUnsaved /\ KeepsQuiet
    BY <2>1, <2>2, ReservedNow DEF WorkspaceInv, RunKnows, KeepsUnsaved, KeepsQuiet, NoRow
  <2>8. QED
    BY <2>1, <2>4, <2>5, <2>6, <2>7, RunStepSound DEF StartMoves
<1>2. CASE SaveWorkspace
  <2>1. /\ pc = "save" /\ StartMoves
        /\ pc' \in {"base", "none"} \/ (git /\ pc' = "cleanup")
        /\ UNCHANGED row /\ mine' = IF pc' = "none" THEN 0 ELSE mine
    BY <1>2 DEF SaveWorkspace, NoBase, StartMoves, Starting, Others
  <2>2. BoxesTyped' /\ Dirty' \subseteq Dirty /\ Lost = {}
    BY <1>2, BoxKept DEF SaveWorkspace, NoBase, WorkspaceInv, Typed
  <2>3. mine' \in Nat /\ row' \in Rows \union {NoRow}
    BY <2>1, 0 \in Nat DEF WorkspaceInv, Typed
  <2>4. Typed' /\ Exclusive'
    BY <2>1, <2>2, <2>3, StartPreserves DEF Starting
  <2>5. RunKnows'
    BY <2>1, <2>2, <2>3 DEF WorkspaceInv, Typed, RunKnows, CheckedOut, Starting, Serving, StartMoves, Idle
  <2>6. \A b \in Dirty' : row' # NoRow /\ row'.box = b /\ row'.status # Idle
    BY <2>1, <2>2, ReservedNow DEF WorkspaceInv, Typed, RunKnows, CheckedOut, Idle
  <2>7. KeepsUnsaved /\ KeepsQuiet
    BY <2>1, <2>2, ReservedNow DEF WorkspaceInv, RunKnows, KeepsUnsaved, KeepsQuiet, NoRow
  <2>8. QED
    BY <2>1, <2>4, <2>5, <2>6, <2>7, RunStepSound DEF StartMoves
<1>3. CASE BaseRecorded
  <2>1. /\ pc = "base" /\ StartMoves
        /\ pc' \in {IF git THEN "publish" ELSE "acquire", "none"} \/ (git /\ pc' = "cleanup")
        /\ UNCHANGED row /\ mine' = IF pc' = "none" THEN 0 ELSE mine
    BY <1>3 DEF BaseRecorded, NoBase, disk, StartMoves, Starting, Others
  <2>2. BoxesTyped' /\ Dirty' \subseteq Dirty /\ Lost = {}
    BY <1>3, BoxKept DEF BaseRecorded, NoBase, disk, WorkspaceInv, Typed
  <2>3. mine' \in Nat /\ row' \in Rows \union {NoRow}
    BY <2>1, 0 \in Nat DEF WorkspaceInv, Typed
  <2>4. Typed' /\ Exclusive'
    BY <2>1, <2>2, <2>3, StartPreserves DEF Starting
  <2>5. RunKnows'
    BY <2>1, <2>2, <2>3 DEF WorkspaceInv, Typed, RunKnows, CheckedOut, Starting, Serving, StartMoves, Idle
  <2>6. \A b \in Dirty' : row' # NoRow /\ row'.box = b /\ row'.status # Idle
    BY <2>1, <2>2, ReservedNow DEF WorkspaceInv, Typed, RunKnows, CheckedOut, Idle
  <2>7. KeepsUnsaved /\ KeepsQuiet
    BY <2>1, <2>2, ReservedNow DEF WorkspaceInv, RunKnows, KeepsUnsaved, KeepsQuiet, NoRow
  <2>8. QED
    BY <2>1, <2>4, <2>5, <2>6, <2>7, RunStepSound DEF StartMoves
<1>4. CASE Blocked
  <2>1. /\ pc = "acquire" /\ StartMoves
        /\ pc' = "none" /\ mine' = 0 /\ UNCHANGED row
    BY <1>4 DEF Blocked, disk, StartMoves, Starting, Others
  <2>2. BoxesTyped' /\ Dirty' \subseteq Dirty /\ Lost = {}
    BY <1>4, BoxKept DEF Blocked, disk, WorkspaceInv, Typed
  <2>3. mine' \in Nat /\ row' \in Rows \union {NoRow}
    BY <2>1, 0 \in Nat DEF WorkspaceInv, Typed
  <2>4. Typed' /\ Exclusive'
    BY <2>1, <2>2, <2>3, StartPreserves DEF Starting
  <2>5. RunKnows'
    BY <2>1, <2>2, <2>3 DEF WorkspaceInv, Typed, RunKnows, CheckedOut, Starting, Serving, StartMoves, Idle
  <2>6. \A b \in Dirty' : row' # NoRow /\ row'.box = b /\ row'.status # Idle
    BY <2>1, <2>2, ReservedNow DEF WorkspaceInv, Typed, RunKnows, CheckedOut, Idle
  <2>7. KeepsUnsaved /\ KeepsQuiet
    BY <2>1, <2>2, ReservedNow DEF WorkspaceInv, RunKnows, KeepsUnsaved, KeepsQuiet, NoRow
  <2>8. QED
    BY <2>1, <2>4, <2>5, <2>6, <2>7, RunStepSound DEF StartMoves
<1>5. CASE Reconnect
  <2>1. /\ pc = "acquire" /\ StartMoves
        /\ row # NoRow /\ row.status = Idle
        /\ \/ pc' = "claim" /\ mine' = row.box /\ UNCHANGED row
           \/ pc' = "create" /\ UNCHANGED mine /\ row' = NoRow
           \/ pc' = "none" /\ mine' = 0 /\ UNCHANGED row
    BY <1>5 DEF Reconnect, Reusable, disk, StartMoves, Starting, Others
  <2>2. BoxesTyped' /\ Dirty' \subseteq Dirty /\ Lost = {}
    BY <1>5, BoxKept DEF Reconnect, Reusable, disk, WorkspaceInv, Typed
  <2>3. mine' \in Nat /\ row' \in Rows \union {NoRow}
    BY <2>1, RowFields, 0 \in Nat DEF WorkspaceInv, Typed
  <2>4. Typed' /\ Exclusive'
    BY <2>1, <2>2, <2>3, StartPreserves DEF Starting
  <2>5. RunKnows'
    BY <2>1, <2>2, ReservedNow, <2>3 DEF WorkspaceInv, Typed, RunKnows, CheckedOut, Starting, Serving, StartMoves, Idle
  <2>6. \A b \in Dirty' : row' # NoRow /\ row'.box = b /\ row'.status # Idle
    BY <2>1, <2>2, ReservedNow DEF WorkspaceInv, Typed, RunKnows, CheckedOut, Idle
  <2>7. KeepsUnsaved /\ KeepsQuiet
    BY <2>1, <2>2, ReservedNow DEF WorkspaceInv, RunKnows, KeepsUnsaved, KeepsQuiet, NoRow
  <2>8. QED
    BY <2>1, <2>4, <2>5, <2>6, <2>7, RunStepSound DEF StartMoves
<1>6. CASE ClaimSandbox
  <2>1. /\ pc = "claim" /\ StartMoves
        /\ \/ pc' = "connect" /\ UNCHANGED mine /\ row' = ActiveRow(mine)
           \/ pc' = "none" /\ mine' = 0 /\ UNCHANGED row
    BY <1>6 DEF ClaimSandbox, SaveRow, disk, StartMoves, Starting, Others
  <2>2. BoxesTyped' /\ Dirty' \subseteq Dirty /\ Lost = {}
    BY <1>6, BoxKept DEF ClaimSandbox, SaveRow, disk, WorkspaceInv, Typed
  <2>3. mine' \in Nat /\ row' \in Rows \union {NoRow}
    BY <2>1, ActiveSaved, 0 \in Nat DEF WorkspaceInv, Typed
  <2>4. Typed' /\ Exclusive'
    BY <2>1, <2>2, <2>3, StartPreserves DEF Starting
  <2>5. RunKnows'
    BY <2>1, <2>2, ActiveSaved, <2>3 DEF WorkspaceInv, Typed, RunKnows, CheckedOut, Starting, Serving, StartMoves, Idle
  <2>6. \A b \in Dirty' : row' # NoRow /\ row'.box = b /\ row'.status # Idle
    BY <2>1, <2>2, ActiveSaved, ReservedNow DEF WorkspaceInv, Typed, RunKnows, CheckedOut, Idle
  <2>7. KeepsUnsaved /\ KeepsQuiet
    BY <2>1, <2>2, ReservedNow DEF WorkspaceInv, RunKnows, KeepsUnsaved, KeepsQuiet, NoRow
  <2>8. QED
    BY <2>1, <2>4, <2>5, <2>6, <2>7, RunStepSound DEF StartMoves
<1>7. CASE Discard
  <2>1. /\ pc = "acquire" /\ StartMoves
        /\ row # NoRow /\ ~Held /\ UNCHANGED row
        /\ \/ pc' = "forget" /\ UNCHANGED mine
           \/ pc' = "none" /\ mine' = 0
    BY <1>7 DEF Discard, disk, StartMoves, Starting, Others
  <2>2. /\ BoxesTyped' /\ Dirty' \subseteq Dirty /\ Lost \subseteq Dirty \intersect {row.box}
        /\ row.box \notin Dirty' \/ pc' = "none"
    BY <1>7, BoxKilled, BoxKept DEF Discard, disk, KillOrNot, Goto, LeaveStart, WorkspaceInv, Typed
  <2>3. mine' \in Nat /\ row' \in Rows \union {NoRow}
    BY <2>1, RowFields, 0 \in Nat DEF WorkspaceInv, Typed
  <2>4. Typed' /\ Exclusive'
    BY <2>1, <2>2, <2>3, StartPreserves DEF Starting
  <2>5. RunKnows'
    BY <2>1, <2>2, ReservedNow, <2>3 DEF WorkspaceInv, Typed, RunKnows, CheckedOut, Starting, Serving, StartMoves, Idle
  <2>6. \A b \in Dirty' : row' # NoRow /\ row'.box = b /\ row'.status # Idle
    BY <2>1, <2>2, ReservedNow DEF WorkspaceInv, Typed, RunKnows, CheckedOut, Idle
  <2>7. KeepsUnsaved /\ KeepsQuiet
    BY <2>1, <2>2, ReservedNow, RowFields DEF WorkspaceInv, RunKnows, KeepsUnsaved, KeepsQuiet, NoRow, Held, Typed
  <2>8. QED
    BY <2>1, <2>4, <2>5, <2>6, <2>7, RunStepSound DEF StartMoves
<1>8. CASE Forget
  <2>1. /\ pc = "forget" /\ StartMoves
        /\ \/ pc' = "create" /\ UNCHANGED mine /\ row' = NoRow
           \/ pc' = "none" /\ mine' = 0 /\ UNCHANGED row
    BY <1>8 DEF Forget, DeleteRow, disk, StartMoves, Starting, Others
  <2>2. BoxesTyped' /\ Dirty' \subseteq Dirty /\ Lost = {}
    BY <1>8, BoxKept DEF Forget, DeleteRow, disk, WorkspaceInv, Typed
  <2>3. mine' \in Nat /\ row' \in Rows \union {NoRow}
    BY <2>1, 0 \in Nat DEF WorkspaceInv, Typed
  <2>4. Typed' /\ Exclusive'
    BY <2>1, <2>2, <2>3, StartPreserves DEF Starting
  <2>5. RunKnows'
    BY <2>1, <2>2, <2>3 DEF WorkspaceInv, Typed, RunKnows, CheckedOut, Starting, Serving, StartMoves, Idle
  <2>6. \A b \in Dirty' : row' # NoRow /\ row'.box = b /\ row'.status # Idle
    BY <2>1, <2>2, ReservedNow DEF WorkspaceInv, Typed, RunKnows, CheckedOut, Idle
  <2>7. KeepsUnsaved /\ KeepsQuiet
    BY <2>1, <2>2, ReservedNow DEF WorkspaceInv, RunKnows, KeepsUnsaved, KeepsQuiet, NoRow
  <2>8. QED
    BY <2>1, <2>4, <2>5, <2>6, <2>7, RunStepSound DEF StartMoves
<1>9. CASE CreateSandbox
  <2>1. /\ pc = "create" \/ (pc = "acquire" /\ row = NoRow)
        /\ StartMoves /\ UNCHANGED row
        /\ \/ pc' = "place" /\ mine' = Len(box')
           \/ pc' = "none" /\ mine' = 0
    BY <1>9 DEF CreateSandbox, disk, StartMoves, Starting, Others
  <2>2. /\ BoxesTyped' /\ Dirty' \subseteq Dirty /\ Lost = {}
        /\ pc' = "place" => Len(box') \in Nat /\ Len(box') \notin Dirty'
    BY <1>9, BoxAdded, BoxKept DEF CreateSandbox, disk, WorkspaceInv, Typed
  <2>3. mine' \in Nat /\ row' \in Rows \union {NoRow}
    BY <2>1, <2>2, 0 \in Nat DEF WorkspaceInv, Typed
  <2>4. Typed' /\ Exclusive'
    BY <2>1, <2>2, <2>3, StartPreserves DEF Starting
  <2>5. RunKnows'
    BY <2>1, <2>2, <2>3 DEF WorkspaceInv, Typed, RunKnows, CheckedOut, Starting, Serving, StartMoves, Idle
  <2>6. \A b \in Dirty' : row' # NoRow /\ row'.box = b /\ row'.status # Idle
    BY <2>1, <2>2, ReservedNow DEF WorkspaceInv, Typed, RunKnows, CheckedOut, Idle
  <2>7. KeepsUnsaved /\ KeepsQuiet
    BY <2>1, <2>2, ReservedNow DEF WorkspaceInv, RunKnows, KeepsUnsaved, KeepsQuiet, NoRow
  <2>8. QED
    BY <2>1, <2>4, <2>5, <2>6, <2>7, RunStepSound DEF StartMoves
<1>10. CASE PlaceWorkspace
  <2>1. /\ pc = "place" /\ StartMoves
        /\ pc' \in {"publish", "cleanup"}
        /\ UNCHANGED <<mine, row>>
    BY <1>10 DEF PlaceWorkspace, PlaceFails, disk, StartMoves, Starting, Others
  <2>2. BoxesTyped' /\ Dirty' \subseteq Dirty /\ Lost = {}
    BY <1>10, BoxKept DEF PlaceWorkspace, PlaceFails, disk, WorkspaceInv, Typed
  <2>3. mine' \in Nat /\ row' \in Rows \union {NoRow}
    BY <2>1, 0 \in Nat DEF WorkspaceInv, Typed
  <2>4. Typed' /\ Exclusive'
    BY <2>1, <2>2, <2>3, StartPreserves DEF Starting
  <2>5. RunKnows'
    BY <2>1, <2>2, <2>3 DEF WorkspaceInv, Typed, RunKnows, CheckedOut, Starting, Serving, StartMoves, Idle
  <2>6. \A b \in Dirty' : row' # NoRow /\ row'.box = b /\ row'.status # Idle
    BY <2>1, <2>2, ReservedNow DEF WorkspaceInv, Typed, RunKnows, CheckedOut, Idle
  <2>7. KeepsUnsaved /\ KeepsQuiet
    BY <2>1, <2>2, ReservedNow DEF WorkspaceInv, RunKnows, KeepsUnsaved, KeepsQuiet, NoRow
  <2>8. QED
    BY <2>1, <2>4, <2>5, <2>6, <2>7, RunStepSound DEF StartMoves
<1>11. CASE CheckOut
  <2>1. /\ pc = "place" /\ StartMoves
        /\ pc' = "put"
        /\ UNCHANGED <<mine, row>>
    BY <1>11 DEF CheckOut, disk, StartMoves, Starting, Others
  <2>2. BoxesTyped' /\ Dirty' \subseteq Dirty /\ Lost = {}
    BY <1>11, BoxKept DEF CheckOut, disk, WorkspaceInv, Typed
  <2>3. mine' \in Nat /\ row' \in Rows \union {NoRow}
    BY <2>1, 0 \in Nat DEF WorkspaceInv, Typed
  <2>4. Typed' /\ Exclusive'
    BY <2>1, <2>2, <2>3, StartPreserves DEF Starting
  <2>5. RunKnows'
    BY <2>1, <2>2, <2>3 DEF WorkspaceInv, Typed, RunKnows, CheckedOut, Starting, Serving, StartMoves, Idle
  <2>6. \A b \in Dirty' : row' # NoRow /\ row'.box = b /\ row'.status # Idle
    BY <2>1, <2>2, ReservedNow DEF WorkspaceInv, Typed, RunKnows, CheckedOut, Idle
  <2>7. KeepsUnsaved /\ KeepsQuiet
    BY <2>1, <2>2, ReservedNow DEF WorkspaceInv, RunKnows, KeepsUnsaved, KeepsQuiet, NoRow
  <2>8. QED
    BY <2>1, <2>4, <2>5, <2>6, <2>7, RunStepSound DEF StartMoves
<1>12. CASE Publish
  <2>1. /\ pc = "publish" /\ StartMoves
        /\ UNCHANGED mine
        /\ \/ pc' = "connect" /\ row' = ActiveRow(mine)
           \/ pc' = "cleanup" /\ UNCHANGED row
    BY <1>12 DEF Publish, SaveRow, disk, StartMoves, Starting, Others
  <2>2. BoxesTyped' /\ Dirty' \subseteq Dirty /\ Lost = {}
    BY <1>12, BoxKept DEF Publish, SaveRow, disk, WorkspaceInv, Typed
  <2>3. mine' \in Nat /\ row' \in Rows \union {NoRow}
    BY <2>1, ActiveSaved, 0 \in Nat DEF WorkspaceInv, Typed
  <2>4. Typed' /\ Exclusive'
    BY <2>1, <2>2, <2>3, StartPreserves DEF Starting
  <2>5. RunKnows'
    BY <2>1, <2>2, ActiveSaved, <2>3 DEF WorkspaceInv, Typed, RunKnows, CheckedOut, Starting, Serving, StartMoves, Idle
  <2>6. \A b \in Dirty' : row' # NoRow /\ row'.box = b /\ row'.status # Idle
    BY <2>1, <2>2, ActiveSaved, ReservedNow DEF WorkspaceInv, Typed, RunKnows, CheckedOut, Idle
  <2>7. KeepsUnsaved /\ KeepsQuiet
    BY <2>1, <2>2, ReservedNow DEF WorkspaceInv, RunKnows, KeepsUnsaved, KeepsQuiet, NoRow
  <2>8. QED
    BY <2>1, <2>4, <2>5, <2>6, <2>7, RunStepSound DEF StartMoves
<1>13. CASE Cleanup
  <2>1. /\ pc = "cleanup" /\ StartMoves
        /\ UNCHANGED row
        /\ \/ pc' = "clean row" /\ UNCHANGED mine
           \/ pc' = "none" /\ mine' = 0
    BY <1>13 DEF Cleanup, disk, StartMoves, Starting, Others
  <2>2. /\ BoxesTyped' /\ Dirty' \subseteq Dirty /\ Lost \subseteq Dirty \intersect {mine}
        /\ mine \notin Dirty' \/ pc' = "none"
    BY <1>13, BoxKilled, BoxKept DEF Cleanup, disk, KillOrNot, Goto, LeaveStart, WorkspaceInv, Typed
  <2>3. mine' \in Nat /\ row' \in Rows \union {NoRow}
    BY <2>1, 0 \in Nat DEF WorkspaceInv, Typed
  <2>4. Typed' /\ Exclusive'
    BY <2>1, <2>2, <2>3, StartPreserves DEF Starting
  <2>5. RunKnows'
    BY <2>1, <2>2, <2>3 DEF WorkspaceInv, Typed, RunKnows, CheckedOut, Starting, Serving, StartMoves, Idle
  <2>6. \A b \in Dirty' : row' # NoRow /\ row'.box = b /\ row'.status # Idle
    BY <2>1, <2>2, ReservedNow DEF WorkspaceInv, Typed, RunKnows, CheckedOut, Idle
  <2>7. KeepsUnsaved /\ KeepsQuiet
    BY <2>1, <2>2, ReservedNow DEF WorkspaceInv, RunKnows, KeepsUnsaved, KeepsQuiet, NoRow
  <2>8. QED
    BY <2>1, <2>4, <2>5, <2>6, <2>7, RunStepSound DEF StartMoves
<1>14. CASE CleanupRow
  <2>1. /\ pc = "clean row" /\ StartMoves
        /\ pc' = "none" /\ mine' = 0
        /\ row' \in {row, NoRow} /\ (row' # row => row.box = mine)
    BY <1>14 DEF CleanupRow, DeleteRow, disk, StartMoves, Starting, Others
  <2>2. BoxesTyped' /\ Dirty' \subseteq Dirty /\ Lost = {}
    BY <1>14, BoxKept DEF CleanupRow, DeleteRow, disk, WorkspaceInv, Typed
  <2>3. mine' \in Nat /\ row' \in Rows \union {NoRow}
    BY <2>1, 0 \in Nat DEF WorkspaceInv, Typed
  <2>4. Typed' /\ Exclusive'
    BY <2>1, <2>2, <2>3, StartPreserves DEF Starting
  <2>5. RunKnows'
    BY <2>1, <2>2, <2>3 DEF WorkspaceInv, Typed, RunKnows, CheckedOut, Starting, Serving, StartMoves, Idle
  <2>6. \A b \in Dirty' : row' # NoRow /\ row'.box = b /\ row'.status # Idle
    BY <2>1, <2>2, ReservedNow DEF WorkspaceInv, Typed, RunKnows, CheckedOut, Idle
  <2>7. KeepsUnsaved /\ KeepsQuiet
    <3>1. NoRow.status # "active"
      BY DEF NoRow
    <3>2. QED
      BY <2>1, <2>2, <3>1 DEF KeepsUnsaved, KeepsQuiet
  <2>8. QED
    BY <2>1, <2>4, <2>5, <2>6, <2>7, RunStepSound DEF StartMoves
<1>15. CASE Connect
  <2>1. /\ pc = "connect" /\ UNCHANGED <<clock, git, mine, until, row, restore, sweep>>
        /\ \/ pc' = "open" /\ active' = TRUE /\ beat' = "on" /\ lock' = Free
           \/ pc' = "cleanup" /\ UNCHANGED <<active, beat, lock>>
    BY <1>15 DEF Connect, disk
  <2>2. BoxesTyped' /\ Dirty' \subseteq Dirty /\ Lost = {}
    BY <1>15, BoxKept DEF Connect, WorkspaceInv, Typed
  <2>3. Typed' /\ Exclusive'
    <3>1. Typed'
      <4>1. active' \in BOOLEAN /\ lock' \in {Free, "run", "restore", "sweep"}
        BY <2>1 DEF WorkspaceInv, Typed
      <4>2. beat' \in {"off", "on", "saving"}
        BY <2>1 DEF WorkspaceInv, Typed
      <4>3. pc' \in Starting \union Serving \union {"none"}
        BY <2>1 DEF Starting, Serving
      <4>4. QED
        BY <2>1, <2>2, <4>1, <4>2, <4>3 DEF WorkspaceInv, Typed
    <3>2. Exclusive'
      <4>1. lock = "run" /\ ~active /\ beat = "off"
        BY <2>1 DEF WorkspaceInv, Typed, Exclusive, Starting, Serving
      <4>2. restore = NoRestore /\ sweep.step \notin {"kill", "forget"}
        BY <2>1, RunAlone
      <4>3. /\ restore'.step = "none" /\ sweep'.step \notin {"kill", "forget"}
            /\ lock' \notin {"restore", "sweep"}
            /\ pc' \in Starting <=> lock' = "run"
            /\ beat' # "off" => pc' = "open"
        BY <2>1, <4>1, <4>2 DEF Starting, Free, NoRestore
      <4>4. active' <=> pc' \in Serving
        <5>1. CASE pc' = "open"
          BY <2>1, <5>1 DEF Serving
        <5>2. CASE pc' = "cleanup"
          BY <2>1, <4>1, <5>2 DEF Serving
        <5>3. QED
          BY <2>1, <5>1, <5>2
      <4>5. QED
        BY <2>1, <4>2, <4>3, <4>4 DEF Exclusive
    <3>3. QED
      BY <3>1, <3>2
  <2>4. RunKnows'
    BY <2>1, <2>2 DEF WorkspaceInv, RunKnows, CheckedOut, Serving
  <2>5. \A b \in Dirty' : row' # NoRow /\ row'.box = b /\ row'.status # Idle
    BY <2>1, <2>2, ReservedNow
  <2>6. KeepsUnsaved /\ KeepsQuiet
    BY <2>1, <2>2 DEF KeepsUnsaved, KeepsQuiet
  <2>7. QED
    BY <2>1, <2>3, <2>4, <2>5, <2>6, RunStepSound
<1>16. QED
  BY <1>1, <1>2, <1>3, <1>4, <1>5, <1>6, <1>7, <1>8, <1>9, <1>10, <1>11, <1>12, <1>13, <1>14, <1>15 DEF StartStep, StartRun

(* A start begins with the lock free and no session.                          *)
LEMMA StartRunSound ==
  ASSUME WorkspaceInv, StartRun PROVE Sound
<1>1. /\ pc = "none" /\ restore = NoRestore /\ lock = Free /\ ~active
      /\ pc' \in {"acquire", "base", "put"} /\ (git => pc' = "acquire") /\ lock' = "run"
      /\ UNCHANGED <<clock, git, active, mine, until, beat, restore, sweep, row, box>>
  BY DEF StartRun, Goto, Others, Works, disk
<1>2. BoxesTyped' /\ Dirty' \subseteq Dirty /\ Lost = {}
  BY <1>1, BoxKept DEF WorkspaceInv, Typed
<1>3. Typed'
  BY <1>1, <1>2 DEF WorkspaceInv, Typed, Starting
<1>4. beat = "off" /\ sweep.step \notin {"kill", "forget"}
  BY <1>1 DEF WorkspaceInv, Typed, Exclusive, Free
<1>5. Exclusive'
  BY <1>1, <1>4 DEF WorkspaceInv, Exclusive, Starting, Serving, NoRestore
<1>6. RunKnows' /\ RestoreKnows' /\ SweepKnows'
  BY <1>1, <1>2, <1>4 DEF WorkspaceInv, RunKnows, RestoreKnows, SweepKnows, Lapsed, CheckedOut,
                          Starting, Serving, NoRestore
<1>7. EditsReserved'
  BY <1>1, <1>2, Reserved, ReservedNow
<1>8. QED
  BY <1>1, <1>2, <1>3, <1>5, <1>6, <1>7 DEF Sound, WorkspaceInv, KeepsUnsaved, KeepsQuiet

-----------------------------------------------------------------------------
(* A session that goes on has the row, and makes it active or reserved.       *)
SessionMoves ==
  /\ pc \in Serving \ {"leave"} /\ pc' \in Serving
  /\ UNCHANGED <<clock, git, lock, restore, sweep, active, mine>>
  /\ until' \in Nat /\ beat' \in {"off", "on", "saving"}
  /\ beat' # "off" => pc' \in {"open", "closing"}
  /\ \/ row' = row
     \/ row' = ActiveRow(mine) /\ pc \in {"open", "closing"}
     \/ row' = RecoveryRow(mine, until)

(* One step of an open session or of Close keeps all that is promised.        *)
LEMMA SessionGoesOn ==
  ASSUME WorkspaceInv, SessionMoves,
         BoxesTyped', Dirty' \subseteq Dirty \union {mine}, Lost = {},
         pc' \in {"shorten", "idle"} => mine \notin Dirty'
  PROVE  Sound
<1> USE DEF SessionMoves
<1>1. pc # "none" /\ pc \notin Starting /\ pc' \notin Starting /\ pc' # "none"
  BY DEF Serving, Starting
<1>2. mine \in Nat /\ until \in Nat /\ row # NoRow /\ row.status # Idle /\ row.box = mine
  BY DEF WorkspaceInv, Typed, RunKnows
<1>3. row' \in Rows /\ row' # NoRow /\ row'.status # Idle /\ row'.box = mine
  BY <1>2, ActiveSaved, RecoverySaved, RowFields DEF WorkspaceInv, Idle
<1>4. Typed'
  BY <1>3 DEF WorkspaceInv, Typed
<1>5. Exclusive'
  BY <1>1, RunAlone DEF WorkspaceInv, Exclusive, NoRestore, Free
<1>6. RunKnows'
  BY <1>1, <1>3 DEF RunKnows, CheckedOut, Starting, Serving
<1>7. \A b \in Dirty' : row' # NoRow /\ row'.box = b /\ row'.status # Idle
  BY <1>2, <1>3, ReservedNow
<1>8. KeepsUnsaved /\ KeepsQuiet
  BY <1>2, RecoverySaved DEF WorkspaceInv, KeepsUnsaved, KeepsQuiet
<1>9. QED
  BY <1>1, <1>4, <1>5, <1>6, <1>7, <1>8, RunStepSound

(* Edits are the session's own, and a recorded checkpoint holds them.         *)
LEMMA BoxEdited ==
  ASSUME BoxesTyped, NEW content, box' = [box EXCEPT ![mine].content = content, ![mine].edited = TRUE]
  PROVE  BoxesTyped' /\ Dirty' \subseteq Dirty \union {mine} /\ Lost = {}
<1>1. /\ box' = [x \in DOMAIN box |-> box'[x]]
      /\ \A x \in DOMAIN box : /\ SandboxFields \subseteq DOMAIN box'[x]
                               /\ box'[x].alive = box[x].alive
                               /\ x # mine => box'[x].edited = box[x].edited
  BY DEF BoxesTyped, SandboxFields
<1>2. BoxesTyped' /\ DOMAIN box' = DOMAIN box
  BY <1>1, BoxesReshaped
<1>3. QED
  BY <1>1, <1>2 DEF Lost, Dirty, Unsaved

(* A recorded archive clears the edits of its sandbox.                        *)
LEMMA BoxSaved ==
  ASSUME BoxesTyped, box' = [box EXCEPT ![mine].edited = FALSE]
  PROVE  BoxesTyped' /\ Dirty' \subseteq Dirty /\ mine \notin Dirty' /\ Lost = {}
<1>1. /\ box' = [x \in DOMAIN box |-> box'[x]]
      /\ \A x \in DOMAIN box : /\ SandboxFields \subseteq DOMAIN box'[x]
                               /\ box'[x].alive = box[x].alive
                               /\ box'[x].edited = IF x = mine THEN FALSE ELSE box[x].edited
  BY DEF BoxesTyped, SandboxFields
<1>2. BoxesTyped' /\ DOMAIN box' = DOMAIN box
  BY <1>1, BoxesReshaped
<1>3. mine \in DOMAIN box => box'[mine].edited = FALSE
  BY <1>1
<1>4. QED
  BY <1>1, <1>2, <1>3 DEF Lost, Dirty, Unsaved

(* An open session and its close, up to the idle row.                         *)
LEMMA SessionSound ==
  ASSUME WorkspaceInv, SessionStep PROVE Sound
<1> USE DEF SessionMoves, Serving, Session, Closing, Works, Fails, disk, run, bounds
<1>0. /\ BoxesTyped /\ mine \in Nat /\ until \in Nat /\ clock + RecoverFor \in Nat
      /\ beat \in {"off", "on", "saving"} /\ (beat # "off" => pc \in {"open", "closing"})
  <2>1. Typed
    BY DEF WorkspaceInv
  <2>2. QED
    BY <2>1, RecoveryEnds DEF WorkspaceInv, Typed, Exclusive
<1>1. CASE BeatExtend
  <2>1. SessionMoves
    BY <1>0, <1>1 DEF BeatExtend
  <2>2. BoxesTyped' /\ Dirty' \subseteq Dirty /\ Lost = {}
    BY <1>0, <1>1, BoxKept DEF BeatExtend
  <2>3. pc' \in {"shorten", "idle"} => mine \notin Dirty'
    BY <1>1, <2>2 DEF BeatExtend, WorkspaceInv, RunKnows
  <2>4. QED
    BY <2>1, <2>2, <2>3, SessionGoesOn
<1>2. CASE BeatSave
  <2>1. SessionMoves
    BY <1>0, <1>2 DEF BeatSave, SaveRow
  <2>2. BoxesTyped' /\ Dirty' \subseteq Dirty /\ Lost = {}
    BY <1>0, <1>2, BoxKept DEF BeatSave, SaveRow
  <2>3. pc' \in {"shorten", "idle"} => mine \notin Dirty'
    BY <1>2, <2>2 DEF BeatSave, SaveRow, WorkspaceInv, RunKnows
  <2>4. QED
    BY <2>1, <2>2, <2>3, SessionGoesOn
<1>3. CASE CloseBegins
  <2>1. SessionMoves
    BY <1>0, <1>3 DEF CloseBegins
  <2>2. BoxesTyped' /\ Dirty' \subseteq Dirty /\ Lost = {}
    BY <1>0, <1>3, BoxKept DEF CloseBegins
  <2>3. pc' \in {"shorten", "idle"} => mine \notin Dirty'
    BY <1>3, <2>2 DEF CloseBegins, WorkspaceInv, RunKnows
  <2>4. QED
    BY <2>1, <2>2, <2>3, SessionGoesOn
<1>4. CASE StopHeartbeat
  <2>1. SessionMoves
    BY <1>0, <1>4 DEF StopHeartbeat
  <2>2. BoxesTyped' /\ Dirty' \subseteq Dirty /\ Lost = {}
    BY <1>0, <1>4, BoxKept DEF StopHeartbeat
  <2>3. pc' \in {"shorten", "idle"} => mine \notin Dirty'
    BY <1>4, <2>2 DEF StopHeartbeat, WorkspaceInv, RunKnows
  <2>4. QED
    BY <2>1, <2>2, <2>3, SessionGoesOn
<1>5. CASE ReserveRow("reserve", "extend")
  <2>1. SessionMoves
    BY <1>0, <1>5 DEF ReserveRow, SaveRow
  <2>2. BoxesTyped' /\ Dirty' \subseteq Dirty /\ Lost = {}
    BY <1>0, <1>5, BoxKept DEF ReserveRow, SaveRow
  <2>3. pc' \in {"shorten", "idle"} => mine \notin Dirty'
    BY <1>5, <2>2 DEF ReserveRow, SaveRow, WorkspaceInv, RunKnows
  <2>4. QED
    BY <2>1, <2>2, <2>3, SessionGoesOn
<1>6. CASE ReserveTimeout("extend", "archive")
  <2>1. SessionMoves
    BY <1>0, <1>6 DEF ReserveTimeout
  <2>2. BoxesTyped' /\ Dirty' \subseteq Dirty /\ Lost = {}
    BY <1>0, <1>6, BoxKept DEF ReserveTimeout
  <2>3. pc' \in {"shorten", "idle"} => mine \notin Dirty'
    BY <1>6, <2>2 DEF ReserveTimeout, WorkspaceInv, RunKnows
  <2>4. QED
    BY <2>1, <2>2, <2>3, SessionGoesOn
<1>7. CASE Archive
  <2>1. SessionMoves
    BY <1>0, <1>7 DEF Archive
  <2>2. BoxesTyped' /\ Dirty' \subseteq Dirty /\ Lost = {}
    BY <1>0, <1>7, BoxKept DEF Archive
  <2>3. pc' \in {"shorten", "idle"} => mine \notin Dirty'
    BY <1>7, <2>2 DEF Archive, WorkspaceInv, RunKnows
  <2>4. QED
    BY <2>1, <2>2, <2>3, SessionGoesOn
<1>8. CASE Shorten
  <2>1. SessionMoves
    BY <1>0, <1>8 DEF Shorten
  <2>2. BoxesTyped' /\ Dirty' \subseteq Dirty /\ Lost = {}
    BY <1>0, <1>8, BoxKept DEF Shorten
  <2>3. pc' \in {"shorten", "idle"} => mine \notin Dirty'
    BY <1>8, <2>2 DEF Shorten, WorkspaceInv, RunKnows
  <2>4. QED
    BY <2>1, <2>2, <2>3, SessionGoesOn
<1>9. CASE Hold
  <2>1. SessionMoves
    BY <1>0, <1>9 DEF Hold, ReserveRow, SaveRow
  <2>2. BoxesTyped' /\ Dirty' \subseteq Dirty /\ Lost = {}
    BY <1>0, <1>9, BoxKept DEF Hold, ReserveRow, SaveRow
  <2>3. pc' \in {"shorten", "idle"} => mine \notin Dirty'
    BY <1>9, <2>2 DEF Hold, ReserveRow, SaveRow, WorkspaceInv, RunKnows
  <2>4. QED
    BY <2>1, <2>2, <2>3, SessionGoesOn
<1>10. ASSUME NEW content \in Edits, Edit(content) PROVE Sound
  <2>1. SessionMoves /\ pc' = "open"
    BY <1>0, <1>10 DEF Edit
  <2>2. BoxesTyped' /\ Dirty' \subseteq Dirty \union {mine} /\ Lost = {}
    BY <1>0, <1>10, BoxEdited DEF Edit
  <2>3. QED
    BY <2>1, <2>2, SessionGoesOn
<1>11. CASE CheckpointRecorded
  <2>1. SessionMoves
    BY <1>0, <1>11 DEF CheckpointRecorded
  <2>2. /\ BoxesTyped' /\ Dirty' \subseteq Dirty /\ Lost = {}
        /\ pc' \in {"shorten", "idle"} => mine \notin Dirty'
    BY <1>0, <1>11, BoxSaved, BoxKept DEF CheckpointRecorded
  <2>3. QED
    BY <2>1, <2>2, SessionGoesOn
<1>12. CASE SaveIdle
  <2>1. BoxesTyped' /\ Dirty' \subseteq Dirty /\ Lost = {}
    BY <1>0, <1>12, BoxKept DEF SaveIdle
  <2>2. CASE row' = row
    <3>1. SessionMoves /\ pc' \notin {"shorten", "idle"}
      BY <1>0, <1>12, <2>2 DEF SaveIdle
    <3>2. QED
      BY <2>1, <3>1, SessionGoesOn
  <2>3. CASE row' # row
    <3>1. /\ pc = "idle" /\ pc' = "leave" /\ row' = IdleRow(mine)
          /\ UNCHANGED <<clock, git, lock, restore, sweep, active, mine, until, beat>>
      BY <1>12, <2>3 DEF SaveIdle, SaveRow
    <3>2. row' \in Rows /\ row'.status = Idle
      BY <1>0, <3>1, IdleSaved DEF WorkspaceInv
    <3>3. Dirty = {}
      BY <3>1, ReservedNow DEF WorkspaceInv, RunKnows
    <3>4. Typed'
      BY <2>1, <3>1, <3>2 DEF WorkspaceInv, Typed
    <3>5. Exclusive'
      BY <3>1, RunAlone DEF WorkspaceInv, Exclusive, Starting, NoRestore, Free
    <3>6. RunKnows'
      BY <3>1 DEF RunKnows, CheckedOut
    <3>7. KeepsUnsaved /\ KeepsQuiet
      BY <2>1, <3>2 DEF KeepsUnsaved, KeepsQuiet, Idle
    <3>8. QED
      BY <2>1, <3>1, <3>3, <3>4, <3>5, <3>6, <3>7, RunStepSound
  <2>4. QED
    BY <2>2, <2>3
<1>13. CASE LeaveSession
  <2>1. /\ pc = "leave" /\ pc' = "none" /\ active' = FALSE /\ mine' = 0 /\ until' = 0
        /\ UNCHANGED <<clock, git, lock, restore, sweep, beat, row, box>>
    BY <1>13 DEF LeaveSession
  <2>2. BoxesTyped' /\ Dirty' \subseteq Dirty /\ Lost = {}
    BY <1>0, <2>1, BoxKept
  <2>3. Typed'
    BY <2>1, <2>2 DEF WorkspaceInv, Typed
  <2>4. Exclusive'
    <3>1. lock = Free /\ beat = "off" /\ restore = NoRestore /\ sweep.step \notin {"kill", "forget"}
      BY <2>1, RunAlone DEF WorkspaceInv, Exclusive, Starting
    <3>2. QED
      BY <2>1, <3>1 DEF Exclusive, Starting, NoRestore, Free
  <2>5. RunKnows'
    BY <2>1 DEF RunKnows, CheckedOut
  <2>6. \A b \in Dirty' : row' # NoRow /\ row'.box = b /\ row'.status # Idle
    BY <2>1, <2>2, ReservedNow
  <2>7. QED
    BY <2>1, <2>2, <2>3, <2>4, <2>5, <2>6, RunStepSound DEF KeepsUnsaved, KeepsQuiet
<1>14. QED
  BY <1>1, <1>2, <1>3, <1>4, <1>5, <1>6, <1>7, <1>8, <1>9, <1>10, <1>11, <1>12, <1>13 DEF SessionStep, Reserve

-----------------------------------------------------------------------------
(* While a restore is under way no run is; the restore that removes a sandbox *)
(* has the lock, and the janitor does not.                                    *)
RestoreMoves ==
  /\ pc = "none"
  /\ UNCHANGED <<clock, git, active, pc, mine, until, beat, sweep>>
  /\ restore' = NoRestore
     \/ ("step" \in DOMAIN restore' /\ restore'.step \in {"check", "kill", "forget", "record"})
  /\ restore'.step \in {"kill", "forget"} => lock' = "restore"
  /\ \/ UNCHANGED lock
     \/ lock \in {Free, "restore"} /\ lock' \in {Free, "restore"}
  /\ row' \in {row, NoRow}

(* One step of RestoreState keeps all that is promised: it removes the row    *)
(* only when no edits are left in its sandbox.                                *)
LEMMA RestoreGoesOn ==
  ASSUME WorkspaceInv, RestoreMoves, RestoreKnows', BoxesTyped', Dirty' \subseteq Dirty,
         Lost # {} => row.expires <= clock,
         row' = row \/ Dirty' = {}
  PROVE  Sound
<1> USE DEF RestoreMoves
<1>1. Typed'
  BY DEF WorkspaceInv, Typed, Free
<1>2. Exclusive'
  <2>1. ~active /\ beat = "off" /\ pc \notin Starting /\ pc \notin Serving /\ lock # "run"
    BY DEF WorkspaceInv, Typed, Exclusive, Starting, Serving
  <2>2. sweep.step \in {"kill", "forget"} => lock = "sweep"
    BY DEF WorkspaceInv, Exclusive
  <2>3. QED
    BY <2>1, <2>2 DEF Exclusive, Free
<1>3. RunKnows' /\ SweepKnows'
  BY DEF WorkspaceInv, RunKnows, SweepKnows, Lapsed, CheckedOut, Serving
<1>4. \A b \in Dirty' : row' # NoRow /\ row'.box = b /\ row'.status # Idle
  BY ReservedNow
<1>5. EditsReserved'
  BY <1>4, Reserved
<1>6. KeepsUnsaved /\ KeepsQuiet
  <2>1. NoRow.status # "active"
    BY DEF NoRow
  <2>2. QED
    BY <2>1 DEF KeepsUnsaved, KeepsQuiet
<1>7. QED
  BY <1>1, <1>2, <1>3, <1>5, <1>6 DEF Sound, WorkspaceInv

(* RestoreState refuses a row in use, kills the sandbox, then forgets it.     *)
LEMMA RestoreSound ==
  ASSUME WorkspaceInv, RestoreStep PROVE Sound
<1> USE DEF Quiet, RestoreOver, RestoreAt, RecordRestore, Works, Fails, disk, run, bounds
<1>0. BoxesTyped /\ (row = NoRow \/ row \in Rows)
  BY DEF WorkspaceInv, Typed
<1>1. ASSUME NEW e \in history, RestoreBegins(e) PROVE Sound
  <2>1. RestoreMoves /\ RestoreKnows' /\ row' = row /\ box' = box
    BY <1>1 DEF RestoreBegins, RestoreMoves, RestoreKnows, NoRestore
  <2>2. QED
    BY <1>0, <2>1, BoxKept, RestoreGoesOn
<1>2. CASE RestoreCheck
  <2>1. row' = row /\ box' = box /\ lock = Free /\ pc = "none"
    BY <1>2 DEF RestoreCheck, WorkspaceInv, Exclusive, NoRestore
  <2>2. RestoreMoves
    BY <1>2, <2>1 DEF RestoreCheck, RestoreMoves, WorkspaceInv, Typed, NoRestore
  <2>3. RestoreKnows'
    <3>1. restore'.step = "kill" => row # NoRow /\ ~Held
      BY <1>2 DEF RestoreCheck, WorkspaceInv, Typed, NoRestore
    <3>2. restore'.step # "forget"
      BY <1>2 DEF RestoreCheck, WorkspaceInv, Typed, NoRestore
    <3>3. row # NoRow /\ ~Held => Lapsed(row)
      BY RowFields DEF Held, Lapsed, WorkspaceInv, Typed
    <3>4. UNCHANGED clock
      BY <1>2 DEF RestoreCheck
    <3>5. QED
      BY <2>1, <3>1, <3>2, <3>3, <3>4 DEF RestoreKnows, Lapsed
  <2>4. QED
    BY <1>0, <2>1, <2>2, <2>3, BoxKept, RestoreGoesOn
<1>3. CASE RestoreKill
  <2>1. /\ restore.step = "kill" /\ pc = "none" /\ lock = "restore" /\ row' = row
        /\ row # NoRow /\ Lapsed(row)
    BY <1>3 DEF RestoreKill, WorkspaceInv, Exclusive, RestoreKnows, NoRestore
  <2>2. BoxesTyped' /\ Dirty' \subseteq Dirty /\ Lost \subseteq Dirty \intersect {row.box}
    BY <1>0, <1>3, BoxKilled, BoxKept DEF RestoreKill, KillOrNot
  <2>3. RestoreMoves
    BY <1>3, <2>1 DEF RestoreKill, RestoreMoves, WorkspaceInv, Typed, NoRestore
  <2>4. RestoreKnows'
    <3>1. restore'.step = "forget" => row.box \notin Dirty'
      BY <1>0, <1>3, BoxKilled DEF RestoreKill, NoRestore
    <3>2. restore'.step # "kill"
      BY <1>3 DEF RestoreKill, WorkspaceInv, Typed, NoRestore
    <3>3. QED
      BY <2>1, <3>1, <3>2 DEF RestoreKnows
  <2>5. Lost # {} => row.expires <= clock
    BY <2>1, <2>2, ReservedNow DEF Lapsed
  <2>6. QED
    BY <2>1, <2>2, <2>3, <2>4, <2>5, RestoreGoesOn
<1>4. CASE RestoreForget
  <2>1. /\ restore.step = "forget" /\ pc = "none" /\ lock = "restore" /\ lock' = Free
        /\ box' = box /\ row' \in {row, NoRow} /\ row.box \notin Dirty
    BY <1>4 DEF RestoreForget, DeleteRow, WorkspaceInv, Exclusive, RestoreKnows, NoRestore
  <2>2. BoxesTyped' /\ Dirty' \subseteq Dirty /\ Lost = {}
    BY <1>0, <2>1, BoxKept
  <2>3. RestoreMoves /\ restore'.step \notin {"kill", "forget"}
    BY <1>4, <2>1 DEF RestoreForget, RestoreMoves, WorkspaceInv, Typed, NoRestore
  <2>4. Dirty = {}
    BY <2>1, ReservedNow
  <2>5. QED
    BY <2>2, <2>3, <2>4, RestoreGoesOn DEF RestoreKnows
<1>5. CASE RestoreEnds
  <2>1. row' = row /\ box' = box /\ restore' = NoRestore /\ pc = "none"
    BY <1>5 DEF RestoreEnds, WorkspaceInv, Exclusive, NoRestore
  <2>2. RestoreMoves /\ RestoreKnows'
    BY <1>5, <2>1 DEF RestoreEnds, RestoreMoves, RestoreKnows, NoRestore
  <2>3. QED
    BY <1>0, <2>1, <2>2, BoxKept, RestoreGoesOn
<1>6. QED
  BY <1>1, <1>2, <1>3, <1>4, <1>5 DEF RestoreStep

-----------------------------------------------------------------------------
(* The janitor may list a row at any time, and removes under the lock.        *)
SweepMoves ==
  /\ UNCHANGED <<clock, git, active, pc, mine, until, beat, restore>>
  /\ sweep' \in [step : {"listed", "kill", "forget"}, row : Rows] \union {NoSweep}
  /\ sweep'.step \in {"kill", "forget"} => lock' = "sweep"
  /\ \/ UNCHANGED lock
     \/ lock = Free /\ lock' = "sweep" /\ ~active
     \/ lock = "sweep" /\ lock' = Free
  /\ row' = row \/ (row' = NoRow /\ lock = "sweep")

(* One step of the janitor keeps all that is promised.                        *)
LEMMA SweepGoesOn ==
  ASSUME WorkspaceInv, SweepMoves, SweepKnows', BoxesTyped', Dirty' \subseteq Dirty, KeepsUnsaved,
         \A b \in Dirty' : row' # NoRow /\ row'.box = b /\ row'.status # Idle
  PROVE  Sound
<1> USE DEF SweepMoves
<1>1. Typed'
  BY DEF WorkspaceInv, Typed, Free
<1>2. lock = "sweep" \/ lock' = "sweep" => pc = "none" /\ restore.step \notin {"kill", "forget"}
  BY DEF WorkspaceInv, Typed, Exclusive, Free, NoRestore
<1>3. Exclusive'
  BY <1>2 DEF WorkspaceInv, Exclusive, Starting, Serving, Free
<1>4. RunKnows' /\ RestoreKnows'
  BY <1>2 DEF WorkspaceInv, RunKnows, RestoreKnows, Lapsed, CheckedOut, Serving
<1>5. EditsReserved'
  BY Reserved
<1>6. KeepsQuiet
  <2>1. NoRow.status # "active"
    BY DEF NoRow
  <2>2. QED
    BY <2>1 DEF KeepsQuiet
<1>7. QED
  BY <1>1, <1>3, <1>4, <1>5, <1>6 DEF Sound, WorkspaceInv

(* maintain takes the lock, kills a lapsed sandbox, then forgets its row.     *)
LEMMA SweepSound ==
  ASSUME WorkspaceInv, SweepStep PROVE Sound
<1> USE DEF Maintenance, Works, Fails, disk, run, bounds, NoSweep
<1>0. /\ BoxesTyped /\ (row = NoRow \/ row \in Rows)
      /\ sweep.step # "none" => sweep \in [step : {"listed", "kill", "forget"}, row : Rows]
      /\ sweep.step \in {"kill", "forget"} => lock = "sweep"
  BY DEF WorkspaceInv, Typed, Exclusive
<1>1. CASE SweepLists
  <2>1. row' = row /\ box' = box /\ SweepMoves /\ row # NoRow /\ sweep'.row = row /\ sweep'.step = "listed"
    BY <1>0, <1>1 DEF SweepLists, SweepMoves, Expired
  <2>2. SweepKnows'
    BY <1>1, <2>1 DEF SweepLists, SweepKnows, Expired, Lapsed
  <2>3. BoxesTyped' /\ Dirty' \subseteq Dirty /\ Lost = {}
    BY <1>0, <2>1, BoxKept
  <2>4. QED
    BY <2>1, <2>2, <2>3, ReservedNow, SweepGoesOn DEF KeepsUnsaved
<1>2. CASE SweepTakes
  <2>1. row' = row /\ box' = box /\ SweepMoves
    BY <1>0, <1>2 DEF SweepTakes, SweepMoves
  <2>2. SweepKnows'
    BY <1>0, <1>2 DEF SweepTakes, WorkspaceInv, SweepKnows, Lapsed
  <2>3. BoxesTyped' /\ Dirty' \subseteq Dirty /\ Lost = {}
    BY <1>0, <2>1, BoxKept
  <2>4. QED
    BY <2>1, <2>2, <2>3, ReservedNow, SweepGoesOn DEF KeepsUnsaved
<1>3. CASE SweepKills
  <2>1. row' = row /\ sweep.step = "kill" /\ lock = "sweep" /\ SweepMoves
    BY <1>0, <1>3 DEF SweepKills, SweepMoves
  <2>2. BoxesTyped' /\ Dirty' \subseteq Dirty /\ Lost \subseteq Dirty \intersect {sweep.row.box}
    BY <1>0, <1>3, BoxKilled, BoxKept DEF SweepKills, KillOrNot
  <2>3. SweepKnows'
    <3>1. sweep'.step = "forget" => sweep'.row = sweep.row /\ sweep.row.box \notin Dirty'
      BY <1>0, <1>3, <2>1, BoxKilled DEF SweepKills
    <3>2. sweep'.step \notin {"listed", "kill"}
      BY <1>0, <1>3, <2>1 DEF SweepKills
    <3>3. QED
      BY <3>1, <3>2 DEF SweepKnows
  <2>4. KeepsUnsaved
    BY <2>1, <2>2, ReservedNow DEF KeepsUnsaved, StaleSweep, WorkspaceInv, SweepKnows, Lapsed
  <2>5. QED
    BY <2>1, <2>2, <2>3, <2>4, ReservedNow, SweepGoesOn
<1>4. CASE SweepForgets
  <2>1. /\ sweep.step = "forget" /\ lock = "sweep" /\ lock' = Free /\ sweep' = NoSweep /\ box' = box
        /\ row' = row \/ (row' = NoRow /\ row.box = sweep.row.box)
    BY <1>0, <1>4 DEF SweepForgets, DeleteRow
  <2>2. SweepMoves /\ SweepKnows'
    BY <1>4, <2>1 DEF SweepForgets, SweepMoves, SweepKnows
  <2>3. BoxesTyped' /\ Dirty' \subseteq Dirty /\ Lost = {}
    BY <1>0, <2>1, BoxKept
  <2>4. \A b \in Dirty' : row' # NoRow /\ row'.box = b /\ row'.status # Idle
    BY <2>1, <2>3, ReservedNow DEF WorkspaceInv, SweepKnows
  <2>5. QED
    BY <2>2, <2>3, <2>4, SweepGoesOn DEF KeepsUnsaved
<1>5. QED
  BY <1>1, <1>2, <1>3, <1>4 DEF SweepStep

-----------------------------------------------------------------------------
(* Time only ends sandboxes and lets rows lapse.                              *)
LEMMA TickSound ==
  ASSUME WorkspaceInv, Tick PROVE Sound
<1>1. /\ clock' = clock + 1 /\ sweep' = NoSweep /\ sweep.step \in {"none", "listed"}
      /\ box' = [b \in DOMAIN box |-> [box[b] EXCEPT !.alive = @ /\ clock' < box[b].ttl]]
      /\ UNCHANGED <<git, row, active, lock, pc, mine, until, beat, restore>>
  BY DEF Tick, disk, run
<1>2. BoxesTyped' /\ Dirty' \subseteq Dirty
  <2>1. \A x \in DOMAIN box : /\ SandboxFields \subseteq DOMAIN box'[x]
                              /\ box'[x].alive => box[x].alive
                              /\ box'[x].edited = box[x].edited
    BY <1>1 DEF WorkspaceInv, Typed, BoxesTyped, SandboxFields
  <2>2. BoxesTyped' /\ DOMAIN box' = DOMAIN box
    BY <1>1, <2>1, BoxesReshaped DEF WorkspaceInv, Typed
  <2>3. QED
    BY <2>1, <2>2 DEF Dirty, Unsaved
<1>3. clock \in Nat /\ clock' \in Nat
  BY <1>1 DEF WorkspaceInv, Typed
<1>4. Typed' /\ Exclusive'
  BY <1>1, <1>2, <1>3 DEF WorkspaceInv, Typed, Exclusive, NoSweep
<1>5. RunKnows'
  BY <1>1, <1>2 DEF WorkspaceInv, RunKnows, CheckedOut
<1>6. RestoreKnows' /\ SweepKnows'
  <2>1. row # NoRow /\ Lapsed(row) => Lapsed(row)'
    BY <1>1, <1>3, RowFields DEF WorkspaceInv, Lapsed
  <2>2. QED
    BY <1>1, <1>2, <2>1 DEF WorkspaceInv, RestoreKnows, SweepKnows, NoSweep
<1>7. EditsReserved'
  BY <1>1, <1>2, Reserved, ReservedNow
<1>8. KeepsUnsaved /\ KeepsQuiet
  BY <1>1, <1>3 DEF KeepsUnsaved, KeepsQuiet
<1>9. QED
  BY <1>2, <1>4, <1>5, <1>6, <1>7, <1>8 DEF Sound, WorkspaceInv

(* A crash forgets who was doing what, and leaves the row.                    *)
LEMMA CrashSound ==
  ASSUME WorkspaceInv, Crash PROVE Sound
<1>1. /\ active' = FALSE /\ lock' = Free /\ pc' = "none" /\ beat' = "off"
      /\ restore' = NoRestore /\ sweep' = NoSweep /\ mine' = 0 /\ until' = 0
      /\ UNCHANGED <<clock, git, box, row>>
  BY DEF Crash, disk
<1>2. BoxesTyped' /\ Dirty' \subseteq Dirty /\ Lost = {}
  BY <1>1, BoxKept DEF WorkspaceInv, Typed
<1>3. Typed'
  BY <1>1, <1>2 DEF WorkspaceInv, Typed
<1>4. Exclusive'
  BY <1>1 DEF Exclusive, Starting, Serving, Free, NoRestore, NoSweep
<1>5. RunKnows' /\ RestoreKnows' /\ SweepKnows'
  BY <1>1 DEF RunKnows, RestoreKnows, SweepKnows, CheckedOut, Serving, NoRestore, NoSweep
<1>6. EditsReserved'
  BY <1>1, <1>2, Reserved, ReservedNow
<1>7. QED
  BY <1>1, <1>2, <1>3, <1>4, <1>5, <1>6 DEF Sound, WorkspaceInv, KeepsUnsaved, KeepsQuiet

(* Recording a checkpoint changes the history and the archives alone.         *)
LEMMA RecordSound ==
  ASSUME WorkspaceInv,
         UNCHANGED <<clock, git, box, row, active, lock, pc, mine, until, beat, restore, sweep>>
  PROVE  Sound
<1>1. BoxesTyped' /\ Dirty' \subseteq Dirty /\ Lost = {}
  BY BoxKept DEF WorkspaceInv, Typed
<1>2. Typed' /\ Exclusive'
  BY <1>1 DEF WorkspaceInv, Typed, Exclusive
<1>3. RunKnows' /\ RestoreKnows' /\ SweepKnows'
  BY <1>1 DEF WorkspaceInv, RunKnows, RestoreKnows, SweepKnows, CheckedOut, Lapsed
<1>4. EditsReserved'
  BY <1>1, Reserved, ReservedNow
<1>5. QED
  BY <1>1, <1>2, <1>3, <1>4 DEF Sound, WorkspaceInv, KeepsUnsaved, KeepsQuiet

(* A new workspace has no row, no sandbox and no session.                     *)
LEMMA WorkspaceInit == Init => WorkspaceInv
<1> SUFFICES ASSUME Init PROVE WorkspaceInv
  OBVIOUS
<1>1. BoxesTyped /\ Dirty = {}
  BY DEF Init, BoxesTyped, Dirty
<1>2. Typed
  BY <1>1 DEF Init, Typed
<1>3. Exclusive
  BY DEF Init, Exclusive, Starting, Serving, Free, NoRestore, NoSweep
<1>4. RunKnows /\ RestoreKnows /\ SweepKnows
  BY DEF Init, RunKnows, RestoreKnows, SweepKnows, CheckedOut, Serving, NoRestore, NoSweep
<1>5. EditsReserved
  BY <1>1 DEF EditsReserved, Dirty
<1>6. QED
  BY <1>2, <1>3, <1>4, <1>5 DEF WorkspaceInv

(* Every step of start, session, restore, sweep, recording, time and crash.   *)
LEMMA WorkspaceStep == WorkspaceInv /\ [Next]_vars => Sound
<1> SUFFICES ASSUME WorkspaceInv, [Next]_vars PROVE Sound
  OBVIOUS
<1>1. CASE StartStep
  <2>1. CASE pc # "none"
    BY <1>1, <2>1, StartSound
  <2>2. CASE pc = "none"
    <3>1. StartRun
      BY <1>1, <2>2 DEF StartStep, PutBase, SaveWorkspace, BaseRecorded, Blocked, Reconnect, ClaimSandbox,
         Discard, Forget, CreateSandbox, PlaceWorkspace, CheckOut, Publish, Connect, Cleanup, CleanupRow
    <3>2. QED
      BY <3>1, StartRunSound
  <2>3. QED
    BY <2>1, <2>2
<1>2. CASE SessionStep
  BY <1>2, SessionSound
<1>3. CASE RestoreStep
  BY <1>3, RestoreSound
<1>4. CASE SweepStep
  BY <1>4, SweepSound
<1>5. ASSUME NEW a \in {"run", "restore"}, RecordStep(a) PROVE Sound
  <2>1. UNCHANGED <<clock, git, box, row, active, lock, pc, mine, until, beat, restore, sweep>>
    BY <1>5 DEF RecordStep, RecordAppend, PruneRead, PruneDelete, PruneArchives, Rest, run, Works, Fails
  <2>2. QED
    BY <2>1, RecordSound
<1>6. CASE Tick
  BY <1>6, TickSound
<1>7. CASE Crash
  BY <1>7, CrashSound
<1>8. CASE UNCHANGED vars
  BY <1>8, RecordSound DEF vars, disk, run
<1>9. QED
  BY <1>1, <1>2, <1>3, <1>4, <1>5, <1>6, <1>7, <1>8 DEF Next

-----------------------------------------------------------------------------
(* The inductive invariant holds of every workspace.                          *)
THEOREM WorkspaceInvariant == Spec => []WorkspaceInv
<1>1. WorkspaceInv /\ [Next]_vars => WorkspaceInv'
  BY WorkspaceStep DEF Sound
<1>2. QED
  BY WorkspaceInit, <1>1, PTL DEF Spec

(* reserveRecovery, the rows a start saves and the order of Close: edits that *)
(* no checkpoint holds are always in the sandbox that the row reserves.       *)
THEOREM EditsStayReserved == Spec => []EditsReserved
<1>1. WorkspaceInv => EditsReserved
  BY DEF WorkspaceInv
<1>2. QED
  BY <1>1, WorkspaceInvariant, PTL

(* Nothing but a sweep with an old listing ends a sandbox that holds edits    *)
(* before its row has expired: not acquireSandbox, a failed start or a        *)
(* restore, whatever fails in between.                                        *)
THEOREM UnsavedSandboxKept == Spec => UnsavedKept
<1>1. WorkspaceInv /\ [Next]_vars =>
        [\A b \in DOMAIN box : EndsUnsaved(b) => row.expires <= clock \/ StaleSweep]_vars
  <2> SUFFICES ASSUME WorkspaceInv, [Next]_vars, NEW b \in DOMAIN box, EndsUnsaved(b)
               PROVE  row.expires <= clock \/ StaleSweep
    OBVIOUS
  <2>1. b \in Lost /\ clock' = clock
    BY DEF EndsUnsaved, Lost, Dirty
  <2>2. KeepsUnsaved
    BY WorkspaceStep DEF Sound
  <2>3. QED
    BY <2>1, <2>2 DEF KeepsUnsaved
<1>2. QED
  BY <1>1, WorkspaceInvariant, PTL DEF Spec, UnsavedKept

(* The heartbeat is waited for before Close reserves the sandbox: nothing     *)
(* makes the row active again after that.                                     *)
THEOREM HeartbeatSilenced == Spec => HeartbeatEnds
<1>1. WorkspaceInv /\ [Next]_vars =>
        [row' # row /\ row'.status = "active" => pc \in {"claim", "publish", "open", "closing"}]_vars
  BY WorkspaceStep DEF Sound, KeepsQuiet
<1>2. QED
  BY <1>1, WorkspaceInvariant, PTL DEF Spec, HeartbeatEnds

-----------------------------------------------------------------------------
(* Checkpoints. A second invariant, on top of the first: what the history and *)
(* the archives owe each other while a checkpoint is recorded and old ones    *)
(* are pruned, and which sandboxes are as the current checkpoint has them.    *)

Actors == {"run", "restore"}
Stages == {"none", "append", "read", "delete", "prune", "done", "failed"}
Appended == {"read", "delete", "prune", "done"}

(* The rows of the history: one current among them, all of them restorable.   *)
Ledger ==
  /\ \A e \in history : e.seq \in Nat \ {0}
  /\ \A e, f \in history : e.seq = f.seq => e = f
  /\ history # {} => \E e \in history : \A f \in history : f.seq <= e.seq
  /\ Restorable

(* What a checkpoint that is being recorded may count on, and what pruning    *)
(* decided to let go.                                                         *)
Appendable(e) ==
  /\ e.ref \in archives
  /\ e.from # 0 => \E f \in history : f.seq = e.from
  /\ history = {} => e.kind = "base"

Prunable(doomed, keep) ==
  /\ Current(history).seq \notin doomed
  /\ \A e \in history : e.seq \notin doomed =>
       /\ e.ref \in keep
       /\ \A f \in history : f.seq = e.from => f.seq \notin doomed
  /\ \A e \in history : e.kind = "base" => e.seq \notin doomed

Recording(a) ==
  /\ "stage" \in DOMAIN rec[a] /\ rec[a].stage \in Stages
  /\ rec[a].stage = "append" => Appendable(rec[a].entry)
  /\ rec[a].stage \in Appended => history # {}
  /\ rec[a].stage \in {"delete", "prune"} => {"doomed", "keep"} \subseteq DOMAIN rec[a]
  /\ rec[a].stage = "delete" => Prunable(rec[a].doomed, rec[a].keep)
  /\ rec[a].stage = "prune" => \A e \in history : e.ref \in rec[a].keep

(* Only one of a run and a restore records.                                   *)
Recorders ==
  /\ rec = [a \in Actors |-> rec[a]]
  /\ \A a \in Actors : Recording(a)
  /\ rec["run"].stage # "none" => pc \in {"base", "record"}
  /\ rec["restore"].stage # "none" => restore # NoRestore /\ restore.step = "record"

(* A restore goes by an entry that is still there.                            *)
RestoreNames ==
  restore # NoRestore =>
    /\ {"step", "ref", "seq"} \subseteq DOMAIN restore
    /\ restore.step # "record" => \E f \in history : f.seq = restore.seq /\ f.ref = restore.ref
    /\ restore.step = "record" => row = NoRow

(* A sandbox as the current checkpoint has it.                                *)
Holds(b, ref) == b \in DOMAIN box /\ box[b].content = ref
Shows(b) == history # {} /\ Holds(b, Current(history).ref)

(* Where a workspace has its history, and which sandboxes are as its current  *)
(* checkpoint: one that is kept idle, one that a run is about to open and one *)
(* whose checkpoint was recorded.                                             *)
RowShows == row # NoRow => history # {} /\ (row.status = Idle => Shows(row.box))

RunShows ==
  /\ pc \in {"put", "save"} => history = {}
  /\ pc = "save" => "base" \in archives
  /\ pc = "place" \/ pc \in Serving => mine \in DOMAIN box
  /\ pc \in Serving => history # {}
  /\ pc \in {"claim", "publish", "connect", "shorten", "idle"} => Shows(mine)
  /\ CheckedOut => Holds(mine, "base")
  /\ CheckedOut /\ rec["run"].stage \in Appended => Shows(mine)
  /\ pc = "base" /\ rec["run"].stage = "append" => history = {} /\ rec["run"].entry.ref = "base"
  /\ pc = "record" /\ rec["run"].stage = "append" => Holds(mine, rec["run"].entry.ref)
  /\ pc = "record" /\ rec["run"].stage \in Appended => Shows(mine)

CheckpointInv == Ledger /\ Recorders /\ RestoreNames /\ RowShows /\ RunShows

(* The current checkpoint: the only one with the highest seq.                 *)
LEMMA CurrentIs ==
  ASSUME Ledger, history # {}
  PROVE  /\ Current(history) \in history /\ Current(history).seq \in Nat \ {0}
         /\ \A f \in history : f.seq <= Current(history).seq
<1>1. \E e \in history : \A f \in history : f.seq <= e.seq
  BY DEF Ledger
<1>2. Current(history) \in history /\ \A f \in history : f.seq <= Current(history).seq
  BY <1>1 DEF Current
<1>3. QED
  BY <1>2 DEF Ledger

(* Deleting others does not make another one current.                         *)
LEMMA CurrentStays ==
  ASSUME Ledger, history # {}, NEW h, h \subseteq history, Current(history) \in h
  PROVE  Current(h) = Current(history)
<1>1. Current(history) \in history /\ \A f \in history : f.seq <= Current(history).seq
  BY CurrentIs
<1>2. \E e \in h : \A f \in h : f.seq <= e.seq
  BY <1>1
<1>3. Current(h) \in h /\ \A f \in h : f.seq <= Current(h).seq
  BY <1>2 DEF Current
<1>4. Current(h).seq <= Current(history).seq /\ Current(history).seq <= Current(h).seq
  BY <1>1, <1>3
<1>5. Current(h).seq \in Nat /\ Current(history).seq \in Nat
  BY <1>1, <1>3 DEF Ledger
<1>6. Current(h).seq = Current(history).seq
  BY <1>4, <1>5
<1>7. QED
  BY <1>1, <1>3, <1>6 DEF Ledger

(* An entry with a higher seq is current.                                     *)
LEMMA CurrentNext ==
  ASSUME Ledger, NEW n, n.seq \in Nat, \A f \in history : f.seq < n.seq
  PROVE  Current(history \union {n}) = n
<1> DEFINE h == history \union {n}
<1>1. \A f \in h : f.seq \in Nat /\ f.seq <= n.seq
  BY DEF Ledger
<1>2. \E e \in h : \A f \in h : f.seq <= e.seq
  BY <1>1
<1>3. Current(h) \in h /\ \A f \in h : f.seq <= Current(h).seq
  BY <1>2 DEF Current
<1>4. n \in h /\ n.seq <= Current(h).seq
  BY <1>3
<1>5. Current(h) \notin history
  <2>1. ASSUME Current(h) \in history PROVE FALSE
    <3>1. Current(h).seq < n.seq /\ Current(h).seq \in Nat
      BY <2>1 DEF Ledger
    <3>2. QED
      BY <3>1, <1>4
  <2>2. QED
    BY <2>1
<1>6. QED
  BY <1>3, <1>5

(* ExpiredCheckpoints lets go neither of the current entry, nor of the base,  *)
(* nor of what a restore it keeps restored.                                   *)
LEMMA Retained ==
  ASSUME Ledger, history # {}, NEW today
  PROVE  LET kept == KeptCheckpoints(history, today)
         IN  /\ kept \subseteq history
             /\ Current(history) \in kept
             /\ Base(history) \subseteq kept
             /\ \A e \in kept, f \in history : f.seq = e.from => f \in kept
<1> DEFINE wanted == Recent(history) \union Base(history) \union NewestOfDay(history, today)
           left == applyByteBudget(history, wanted)
           kept == KeptCheckpoints(history, today)
<1>1. kept = WithSources(history, left)
  BY DEF KeptCheckpoints
<1>2. Current(history) \in history /\ \A f \in history : f.seq <= Current(history).seq
  BY CurrentIs
<1>3. Current(history) \in Recent(history)
  <2>1. \A f \in history : ~(f.seq > Current(history).seq)
    BY <1>2 DEF Ledger
  <2>2. {f \in history : f.seq > Current(history).seq} = {}
    BY <2>1
  <2>3. Cardinality({f \in history : f.seq > Current(history).seq}) = 0
    BY <2>2, FS_EmptySet
  <2>4. 0 < RetainRecent
    BY RetentionAssumption
  <2>5. QED
    BY <1>2, <2>3, <2>4 DEF Recent
<1>4. Current(history).ref \notin Dropped(history, wanted)
  BY DEF Dropped, Unprotected
<1>5. \A e \in Base(history) : e.ref \notin Dropped(history, wanted)
  BY DEF Dropped, Unprotected, Archives
<1>6. Current(history) \in left /\ Base(history) \subseteq left
  BY <1>3, <1>4, <1>5 DEF applyByteBudget
<1>7. left \subseteq history
  BY DEF applyByteBudget, Recent, Base, NewestOfDay
<1> HIDE DEF left, kept
<1>8. kept \subseteq history /\ left \subseteq kept
  BY <1>1, <1>7 DEF WithSources
<1>9. ASSUME NEW e \in kept, NEW f \in history, f.seq = e.from PROVE f \in kept
  <2>1. ASSUME NEW more \in SUBSET history, left \subseteq more, SourcesIn(history, more)
        PROVE  f \in more
    <3>1. e \in more
      BY <1>1, <2>1 DEF WithSources
    <3>2. QED
      BY <1>9, <2>1, <3>1 DEF SourcesIn
  <2>2. QED
    BY <1>1, <2>1 DEF WithSources
<1>10. QED
  BY <1>6, <1>8, <1>9 DEF kept

-----------------------------------------------------------------------------
(* Steps that record nothing.                                                 *)

ledger == <<history, archives, rec>>

(* Timeouts, kills and new sandboxes change no content.                       *)
SameContents ==
  /\ DOMAIN box \subseteq DOMAIN box'
  /\ \A b \in DOMAIN box : box'[b].content = box[b].content

(* What they leave alone.                                                     *)
LEMMA ContentsStay ==
  ASSUME BoxesTyped
  PROVE  /\ box' = box => SameContents
         /\ \A b, ttl : SetTimeout(b, ttl) => SameContents
         /\ \A b : Kill(b) \/ KillOrNot(b) => SameContents
         /\ \A x : box' = Append(box, x) => SameContents /\ Len(box') \in DOMAIN box'
         /\ \A b : box' = [box EXCEPT ![b].edited = FALSE] => SameContents
<1>1. /\ Len(box) \in Nat /\ DOMAIN box = 1..Len(box) /\ box = [b \in DOMAIN box |-> box[b]]
      /\ \A b \in DOMAIN box : SandboxFields \subseteq DOMAIN box[b]
  BY DEF BoxesTyped
<1>2. \A b \in DOMAIN box : {"alive", "content", "edited", "ttl"} \subseteq DOMAIN box[b]
  BY <1>1 DEF SandboxFields
<1>3. \A b, ttl : SetTimeout(b, ttl) => SameContents
  BY <1>1, <1>2 DEF SetTimeout, SameContents
<1>4. \A b : Kill(b) \/ KillOrNot(b) => SameContents
  BY <1>1, <1>2 DEF Kill, KillOrNot, SameContents
<1>5. \A b : box' = [box EXCEPT ![b].edited = FALSE] => SameContents
  BY <1>1, <1>2 DEF SameContents
<1>6. ASSUME NEW x, box' = Append(box, x) PROVE SameContents /\ Len(box') \in DOMAIN box'
  <2>1. box \in Seq({box[b] : b \in DOMAIN box} \union {x})
    BY <1>1, IsASeq
  <2>2. /\ Len(box') = Len(box) + 1 /\ DOMAIN box' = 1..(Len(box) + 1)
        /\ \A b \in 1..Len(box) : box'[b] = box[b]
    BY <1>6, <2>1
  <2>3. QED
    BY <1>1, <2>2 DEF SameContents
<1>7. QED
  BY <1>3, <1>4, <1>5, <1>6 DEF SameContents

(* A sandbox as the current checkpoint has it stays one.                      *)
LEMMA ShowsStays ==
  ASSUME SameContents, UNCHANGED history, NEW b
  PROVE  /\ Shows(b) => Shows(b)'
         /\ \A ref : Holds(b, ref) => Holds(b, ref)'
BY DEF SameContents, Shows, Holds

(* A step that records nothing keeps the first two parts.                     *)
LEMMA Steady ==
  ASSUME CheckpointInv, UNCHANGED ledger,
         rec["run"].stage # "none" => pc' = pc,
         rec["restore"].stage # "none" => restore' = restore,
         RestoreNames', RowShows', RunShows'
  PROVE  CheckpointInv'
<1>1. Ledger'
  BY DEF CheckpointInv, Ledger, Restorable, ledger
<1>2. \A a \in Actors : Recording(a)'
  BY DEF CheckpointInv, Recorders, Recording, Appendable, Prunable, ledger
<1>3. Recorders'
  BY <1>2 DEF CheckpointInv, Recorders, ledger
<1>4. QED
  BY <1>1, <1>3 DEF CheckpointInv

(* The steps of Start at which nothing is owed.                               *)
Plain == {"none", "acquire", "forget", "create", "cleanup", "clean row"}
Showing == {"claim", "publish", "connect", "shorten", "idle"}

(* Where a step of a run may lead that records nothing.                       *)
RowMoves ==
  \/ row' = row
  \/ row' = NoRow
  \/ history # {} /\ (row'.status = Idle => Shows(row'.box))

RunMoves ==
  \/ pc' \in Plain
  \/ pc' = "place" /\ mine' \in DOMAIN box'
  \/ pc' \in Showing /\ Shows(mine')
  \/ pc' \in Serving \ (Showing \union {"record"}) /\ history # {} /\ mine' \in DOMAIN box

(* Such a step of a run.                                                      *)
LEMMA RunSteady ==
  ASSUME WorkspaceInv, CheckpointInv, pc # "none", pc \notin {"base", "record"},
         UNCHANGED <<ledger, restore, git>>, SameContents, RowMoves, RunMoves
  PROVE  CheckpointInv'
<1>1. /\ rec["run"].stage = "none" /\ restore = NoRestore /\ restore' = NoRestore
      /\ history' = history /\ archives' = archives /\ rec' = rec
  BY RunAlone DEF CheckpointInv, Recorders, ledger
<1>2. RestoreNames'
  BY <1>1 DEF RestoreNames
<1>3. RowShows'
  <2>1. row' # NoRow => history # {}
    BY DEF RowMoves, CheckpointInv, RowShows
  <2>2. row' # NoRow /\ row'.status = Idle => Shows(row'.box)
    BY DEF RowMoves, CheckpointInv, RowShows
  <2>3. \A b : Shows(b) => Shows(b)'
    BY <1>1, ShowsStays
  <2>4. \A b : Shows(b)' <=> history' # {} /\ b \in DOMAIN box' /\ box'[b].content = Current(history').ref
    BY DEF Shows, Holds
  <2>5. row' # NoRow /\ row'.status = Idle =>
          history' # {} /\ row'.box \in DOMAIN box' /\ box'[row'.box].content = Current(history').ref
    BY <2>2, <2>3, <2>4
  <2>6. QED
    BY <2>1, <2>5, <1>1 DEF RowShows, Shows, Holds
<1>4. RunShows'
  <2>1. pc' \notin {"put", "save", "base", "record"}
    BY DEF RunMoves, Plain, Showing, Serving
  <2>2. pc' \in Showing =>
          history' # {} /\ mine' \in DOMAIN box' /\ box'[mine'].content = Current(history').ref
    <3>1. ASSUME pc' \in Showing
          PROVE  history' # {} /\ mine' \in DOMAIN box' /\ box'[mine'].content = Current(history').ref
      <4>1. Shows(mine')
        BY <3>1 DEF RunMoves, Plain, Showing, Serving
      <4>2. history # {} /\ mine' \in DOMAIN box /\ box[mine'].content = Current(history).ref
        BY <4>1 DEF Shows, Holds
      <4>3. QED
        BY <4>2, <1>1 DEF SameContents
    <3>2. QED
      BY <3>1
  <2>3. pc' \in Serving \ Showing => history' # {} /\ mine' \in DOMAIN box'
    BY <1>1 DEF RunMoves, Plain, Showing, Serving, SameContents
  <2>4. pc' = "place" => mine' \in DOMAIN box'
    BY DEF RunMoves, Plain, Showing, Serving
  <2>5. QED
    BY <2>1, <2>2, <2>3, <2>4 DEF RunShows, CheckedOut, Shows, Holds, Showing, Serving
<1>5. QED
  BY <1>1, <1>2, <1>3, <1>4, Steady DEF CheckpointInv, Recorders, RestoreNames

(* A step that is not of a run, and may only remove the row.                  *)
LEMMA OtherSteady ==
  ASSUME CheckpointInv, UNCHANGED <<ledger, git, pc, mine>>, SameContents, row' \in {row, NoRow},
         rec["restore"].stage # "none" => restore' = restore, RestoreNames'
  PROVE  CheckpointInv'
<1>1. history' = history /\ archives' = archives /\ rec' = rec /\ git' = git /\ pc' = pc /\ mine' = mine
  BY DEF ledger
<1>2. \A b : Shows(b) => history' # {} /\ b \in DOMAIN box' /\ box'[b].content = Current(history').ref
  BY <1>1, ShowsStays DEF Shows, Holds
<1>3. \A b, ref : Holds(b, ref) => b \in DOMAIN box' /\ box'[b].content = ref
  BY <1>1, ShowsStays DEF Shows, Holds
<1>4. RowShows'
  <2>1. row' # NoRow => row' = row /\ row # NoRow
    OBVIOUS
  <2>2. QED
    BY <1>1, <1>2, <2>1 DEF CheckpointInv, RowShows, Shows, Holds
<1>5. RunShows'
  <2>1. /\ pc' \in {"put", "save"} => history' = {}
        /\ pc' = "save" => "base" \in archives'
        /\ pc' = "place" \/ pc' \in Serving => mine' \in DOMAIN box'
        /\ pc' \in Serving => history' # {}
    BY <1>1 DEF CheckpointInv, RunShows, SameContents
  <2>2. \/ pc \in {"claim", "publish", "connect", "shorten", "idle"}
        \/ (CheckedOut \/ pc = "record") /\ rec["run"].stage \in Appended
        => history' # {} /\ mine' \in DOMAIN box' /\ box'[mine'].content = Current(history').ref
    BY <1>1, <1>2 DEF CheckpointInv, RunShows
  <2>3. /\ CheckedOut => mine' \in DOMAIN box' /\ box'[mine'].content = "base"
        /\ pc = "record" /\ rec["run"].stage = "append" =>
             mine' \in DOMAIN box' /\ box'[mine'].content = rec["run"].entry.ref
    BY <1>1, <1>3 DEF CheckpointInv, RunShows
  <2>4. pc = "base" /\ rec["run"].stage = "append" => history = {} /\ rec["run"].entry.ref = "base"
    BY DEF CheckpointInv, RunShows
  <2>5. QED
    BY <1>1, <2>1, <2>2, <2>3, <2>4 DEF RunShows, CheckedOut, Shows, Holds
<1>6. QED
  BY <1>1, <1>4, <1>5, Steady DEF ledger

(* A start that neither records nor fills a sandbox. What it reconnects to is *)
(* a kept sandbox, and what it opens one that was placed or kept.             *)
LEMMA StartSteady ==
  ASSUME WorkspaceInv, CheckpointInv,
         \/ Blocked \/ Reconnect \/ ClaimSandbox \/ Discard \/ Forget \/ CreateSandbox
         \/ Publish \/ Connect \/ Cleanup \/ CleanupRow \/ (PlaceWorkspace /\ UNCHANGED box)
  PROVE  CheckpointInv'
<1> USE DEF Goto, KeepLock, LeaveStart, Works, Fails, ledger
<1>0. BoxesTyped
  BY DEF WorkspaceInv, Typed
<1>1. CASE Blocked
  <2>1. /\ pc = "acquire" /\ pc' = "none" /\ row' = row /\ box' = box
        /\ UNCHANGED <<ledger, restore, git>>
    BY <1>1 DEF Blocked, Others, disk
  <2>2. QED
    BY <2>1, <1>0, ContentsStay, RunSteady DEF RowMoves, RunMoves, Plain
<1>2. CASE Reconnect
  <2>1. /\ pc = "acquire" /\ row # NoRow /\ row.status = Idle
        /\ UNCHANGED <<ledger, restore, git>>
        /\ \/ pc' = "claim" /\ mine' = row.box /\ row' = row /\ SetTimeout(row.box, clock + ActiveFor)
           \/ pc' = "create" /\ row' = NoRow /\ box' = box
           \/ pc' = "none" /\ row' = row /\ box' = box
    BY <1>2 DEF Reconnect, Reusable, Others
  <2>2. SameContents
    BY <2>1, <1>0, ContentsStay
  <2>3. RowMoves
    BY <2>1 DEF RowMoves
  <2>4. Shows(row.box)
    BY <2>1 DEF CheckpointInv, RowShows
  <2>5. RunMoves
    BY <2>1, <2>4 DEF RunMoves, Plain, Showing
  <2>6. QED
    BY <2>1, <2>2, <2>3, <2>5, RunSteady
<1>3. CASE ClaimSandbox \/ Publish
  <2>1. /\ pc \in {"claim", "publish"} /\ UNCHANGED <<ledger, restore, git, box>>
        /\ \/ pc' = "connect" /\ mine' = mine /\ row' = ActiveRow(mine)
           \/ pc' \in Plain /\ row' = row
    BY <1>3 DEF ClaimSandbox, Publish, SaveRow, Others, disk, Plain
  <2>2. SameContents
    BY <2>1, <1>0, ContentsStay
  <2>3. Shows(mine) /\ history # {}
    BY <2>1 DEF CheckpointInv, RunShows, Shows
  <2>4. RowMoves
    BY <2>1, <2>3 DEF RowMoves, ActiveRow, Idle
  <2>5. RunMoves
    BY <2>1, <2>3 DEF RunMoves, Showing
  <2>6. QED
    BY <2>1, <2>2, <2>4, <2>5, RunSteady
<1>4. CASE Discard \/ Cleanup
  <2>1. /\ pc \in {"acquire", "cleanup"} /\ pc' \in Plain /\ row' = row
        /\ UNCHANGED <<ledger, restore, git>>
    BY <1>4 DEF Discard, Cleanup, Others, disk, Plain
  <2>2. SameContents
    BY <1>4, <1>0, ContentsStay DEF Discard, Cleanup
  <2>3. QED
    BY <2>1, <2>2, RunSteady DEF RowMoves, RunMoves
<1>5. CASE Forget \/ CleanupRow
  <2>1. /\ pc \in {"forget", "clean row"} /\ pc' \in Plain /\ row' \in {row, NoRow}
        /\ UNCHANGED <<ledger, restore, git, box>>
    BY <1>5 DEF Forget, CleanupRow, DeleteRow, Others, disk, Plain
  <2>2. SameContents
    BY <2>1, <1>0, ContentsStay
  <2>3. QED
    BY <2>1, <2>2, RunSteady DEF RowMoves, RunMoves
<1>6. CASE CreateSandbox
  <2>1. /\ pc \in {"create", "acquire"} /\ row' = row /\ UNCHANGED <<ledger, restore, git>>
        /\ \/ pc' = "place" /\ mine' = Len(box') /\ box' = Append(box, NewSandbox)
           \/ pc' = "none" /\ box' = box
    BY <1>6 DEF CreateSandbox, Others, disk
  <2>2. SameContents /\ (pc' = "place" => mine' \in DOMAIN box')
    BY <2>1, <1>0, ContentsStay
  <2>3. QED
    BY <2>1, <2>2, RunSteady DEF RowMoves, RunMoves, Plain
<1>7. CASE Connect
  <2>1. /\ pc = "connect" /\ pc' \in {"open", "cleanup"} /\ mine' = mine /\ row' = row
        /\ UNCHANGED <<ledger, restore, git, box>>
    BY <1>7 DEF Connect, disk
  <2>2. SameContents
    BY <2>1, <1>0, ContentsStay
  <2>3. history # {} /\ mine \in DOMAIN box
    BY <2>1 DEF CheckpointInv, RunShows, Shows, Holds
  <2>4. QED
    BY <2>1, <2>2, <2>3, RunSteady DEF RowMoves, RunMoves, Plain, Serving, Showing
<1>8. CASE PlaceWorkspace /\ UNCHANGED box
  <2>1. /\ pc = "place" /\ pc' \in {"publish", "cleanup"} /\ mine' = mine /\ row' = row
        /\ UNCHANGED <<ledger, restore, git, box>>
        /\ pc' = "publish" => history # {} /\ Place(Current(history).ref)
    BY <1>8 DEF PlaceWorkspace, PlaceFails, Others, disk
  <2>2. SameContents
    BY <2>1, <1>0, ContentsStay
  <2>3. pc' = "publish" => Shows(mine)
    BY <2>1, <1>0 DEF Place, Alive, Shows, Holds, BoxesTyped, SandboxFields
  <2>4. QED
    BY <2>1, <2>2, <2>3, RunSteady DEF RowMoves, RunMoves, Plain, Showing
<1>9. QED
  BY <1>1, <1>2, <1>3, <1>4, <1>5, <1>6, <1>7, <1>8

(* Steps that change what a sandbox contains: no row keeps that one as clean. *)
LEMMA FilledSteady ==
  ASSUME WorkspaceInv, CheckpointInv, PlaceWorkspace \/ CheckOut \/ \E content \in Edits : Edit(content)
  PROVE  CheckpointInv'
<1> USE DEF Goto, KeepLock, Works, Fails, ledger
<1>0. /\ BoxesTyped
      /\ \A b \in DOMAIN box : "content" \in DOMAIN box[b]
  BY DEF WorkspaceInv, Typed, BoxesTyped, SandboxFields
<1>1. ASSUME pc \in {"place", "open"}, UNCHANGED <<ledger, restore, git, row, mine>>,
             row = NoRow \/ row.status # Idle, RunShows'
      PROVE  CheckpointInv'
  <2>1. rec["run"].stage = "none" /\ restore = NoRestore /\ restore' = NoRestore
    BY <1>1, RunAlone DEF CheckpointInv, Recorders
  <2>2. RestoreNames'
    BY <2>1 DEF RestoreNames
  <2>3. RowShows'
    BY <1>1 DEF CheckpointInv, RowShows
  <2>4. QED
    BY <1>1, <2>1, <2>2, <2>3, Steady
<1>2. CASE PlaceWorkspace
  <2>1. CASE UNCHANGED box
    BY <1>2, <2>1, StartSteady
  <2>2. CASE box' # box
    <3>1. /\ pc = "place" /\ pc' = "publish" /\ history # {} /\ Place(Current(history).ref)
          /\ UNCHANGED <<ledger, restore, git, row, mine>>
      BY <1>2, <2>2 DEF PlaceWorkspace, PlaceFails, Others, disk
    <3>2. row = NoRow
      BY <3>1 DEF WorkspaceInv, RunKnows
    <3>3. /\ history' = history /\ mine' = mine /\ mine \in DOMAIN box'
          /\ box'[mine].content = Current(history).ref
      BY <3>1, <1>0 DEF Place, Alive
    <3>4. RunShows'
      BY <3>1, <3>3 DEF RunShows, CheckedOut, Shows, Holds, Serving
    <3>5. QED
      BY <1>1, <3>1, <3>2, <3>4
  <2>3. QED
    BY <2>1, <2>2
<1>3. CASE CheckOut
  <2>1. /\ pc = "place" /\ pc' = "put" /\ history = {} /\ Place("base")
        /\ UNCHANGED <<ledger, restore, git, row, mine>>
    BY <1>3 DEF CheckOut, Others, disk
  <2>2. row = NoRow /\ rec["run"].stage = "none"
    BY <2>1 DEF WorkspaceInv, RunKnows, CheckpointInv, Recorders
  <2>3. history' = history /\ mine' = mine /\ mine \in DOMAIN box' /\ box'[mine].content = "base"
    BY <2>1, <1>0 DEF Place, Alive
  <2>4. RunShows'
    BY <2>1, <2>2, <2>3 DEF RunShows, CheckedOut, Shows, Holds, Serving, Appended
  <2>5. QED
    BY <1>1, <2>1, <2>2, <2>4
<1>4. ASSUME NEW content \in Edits, Edit(content) PROVE CheckpointInv'
  <2>1. /\ pc = "open" /\ pc' = "open" /\ DOMAIN box' = DOMAIN box
        /\ UNCHANGED <<ledger, restore, git, row, mine>>
    BY <1>4 DEF Edit, Session, run, disk
  <2>2. row # NoRow /\ row.status # Idle
    BY <2>1 DEF WorkspaceInv, RunKnows, Serving
  <2>3. history' # {} /\ mine' \in DOMAIN box'
    BY <2>1 DEF CheckpointInv, RunShows, Serving
  <2>4. RunShows'
    BY <2>1, <2>3 DEF RunShows, CheckedOut
  <2>5. QED
    BY <1>1, <2>1, <2>2, <2>4
<1>5. QED
  BY <1>2, <1>3, <1>4

(* The steps of a session that record nothing. What it leaves idle is as its  *)
(* checkpoint has it.                                                         *)
LEMMA SessionSteady ==
  ASSUME WorkspaceInv, CheckpointInv,
         \/ BeatExtend \/ BeatSave \/ CloseBegins \/ StopHeartbeat \/ Reserve
         \/ Shorten \/ SaveIdle \/ Hold \/ LeaveSession
  PROVE  CheckpointInv'
<1> USE DEF Works, Fails, ledger
<1>0. BoxesTyped
  BY DEF WorkspaceInv, Typed
<1>1. pc \in Serving => history # {} /\ mine \in DOMAIN box
  BY DEF CheckpointInv, RunShows
<1>2. CASE BeatExtend \/ BeatSave
  <2>1. /\ pc \in {"open", "closing"} /\ pc' = pc /\ mine' = mine
        /\ UNCHANGED <<ledger, restore, git>>
        /\ row' = row \/ row' = ActiveRow(mine)
        /\ box' = box \/ SetTimeout(mine, clock + ActiveFor)
    BY <1>2 DEF BeatExtend, BeatSave, SaveRow, Session, run, disk, WorkspaceInv, Exclusive
  <2>2. SameContents
    BY <2>1, <1>0, ContentsStay
  <2>3. RowMoves
    <3>1. history # {} /\ ActiveRow(mine).status # Idle
      BY <2>1, <1>1 DEF ActiveRow, Idle, Serving
    <3>2. QED
      BY <2>1, <3>1 DEF RowMoves
  <2>4. QED
    BY <2>1, <2>2, <2>3, <1>1, RunSteady DEF RunMoves, Serving, Showing
<1>3. CASE CloseBegins \/ StopHeartbeat
  <2>1. /\ pc \in {"open", "closing"} /\ pc' \in {"closing", "reserve"} /\ mine' = mine
        /\ UNCHANGED <<ledger, restore, git, row, box>>
    BY <1>3 DEF CloseBegins, StopHeartbeat, Session, disk
  <2>2. SameContents
    BY <2>1, <1>0, ContentsStay
  <2>3. QED
    BY <2>1, <2>2, <1>1, RunSteady DEF RowMoves, RunMoves, Serving, Showing
<1>4. CASE Reserve \/ Hold
  <2>1. /\ pc \in {"reserve", "extend", "hold", "hold timeout"} /\ mine' = mine
        /\ pc' \in {"extend", "archive", "hold", "hold timeout", "leave"}
        /\ UNCHANGED <<ledger, restore, git>>
        /\ row' = row \/ row' = RecoveryRow(mine, until)
        /\ box' = box \/ SetTimeout(mine, until + Grace)
    BY <1>4 DEF Reserve, Hold, ReserveRow, ReserveTimeout, SaveRow, Closing, Session, disk
  <2>2. SameContents
    BY <2>1, <1>0, ContentsStay
  <2>3. RowMoves
    <3>1. history # {} /\ RecoveryRow(mine, until).status # Idle
      BY <2>1, <1>1 DEF RecoveryRow, Idle, Serving
    <3>2. QED
      BY <2>1, <3>1 DEF RowMoves
  <2>4. QED
    BY <2>1, <2>2, <2>3, <1>1, RunSteady DEF RunMoves, Serving, Showing
<1>5. CASE Shorten \/ SaveIdle
  <2>1. /\ pc \in {"shorten", "idle"} /\ mine' = mine /\ pc' \in {"idle", "hold", "leave"}
        /\ UNCHANGED <<ledger, restore, git>>
        /\ row' = row \/ row' = IdleRow(mine)
        /\ box' = box \/ SetTimeout(mine, clock + IdleFor + Grace)
    BY <1>5 DEF Shorten, SaveIdle, SaveRow, Closing, Session, disk
  <2>2. SameContents
    BY <2>1, <1>0, ContentsStay
  <2>3. Shows(mine)
    BY <2>1 DEF CheckpointInv, RunShows
  <2>4. RowMoves
    <3>1. history # {} /\ IdleRow(mine).box = mine
      BY <2>1, <1>1 DEF IdleRow, Serving
    <3>2. QED
      BY <2>1, <2>3, <3>1 DEF RowMoves
  <2>5. QED
    BY <2>1, <2>2, <2>3, <2>4, <1>1, RunSteady DEF RunMoves, Serving, Showing
<1>6. CASE LeaveSession
  <2>1. /\ pc = "leave" /\ pc' = "none" /\ UNCHANGED <<ledger, restore, git, row, box>>
    BY <1>6 DEF LeaveSession, Session, disk
  <2>2. SameContents
    BY <2>1, <1>0, ContentsStay
  <2>3. QED
    BY <2>1, <2>2, RunSteady DEF RowMoves, RunMoves, Plain
<1>7. QED
  BY <1>2, <1>3, <1>4, <1>5, <1>6

-----------------------------------------------------------------------------
(* Recording begins and ends.                                                 *)

(* What a record that is over, or has just begun, owes.                       *)
LEMMA RecordingIs ==
  ASSUME NEW a \in Actors
  PROVE  /\ rec'[a] = NoRecord => Recording(a)'
         /\ \A e : rec'[a] = [stage |-> "append", entry |-> e] /\ e.ref \in archives'
                   /\ (e.from # 0 => \E f \in history' : f.seq = e.from)
                   /\ (history' = {} => e.kind = "base")
                   => Recording(a)'
<1>1. rec'[a] = NoRecord => Recording(a)'
  BY DEF Recording, NoRecord, Stages, Appended
<1>2. ASSUME NEW e, rec'[a] = [stage |-> "append", entry |-> e], e.ref \in archives',
             e.from # 0 => \E f \in history' : f.seq = e.from, history' = {} => e.kind = "base"
      PROVE  Recording(a)'
  <2>1. "stage" \in DOMAIN rec'[a] /\ rec'[a].stage = "append" /\ rec'[a].entry = e
    BY <1>2
  <2>2. QED
    BY <1>2, <2>1 DEF Recording, Appendable, Stages, Appended
<1>3. QED
  BY <1>1, <1>2

(* A run's steps that put archives, or begin or end a record.                 *)
LEMMA RunRecords ==
  ASSUME CheckpointInv, restore = NoRestore, UNCHANGED <<history, restore, row>>,
         archives \subseteq archives', SameContents,
         rec' = [rec EXCEPT !["run"] = rec'["run"]], Recording("run")',
         rec'["run"].stage # "none" => pc' \in {"base", "record"}, RunShows'
  PROVE  CheckpointInv'
<1>1. Ledger'
  BY DEF CheckpointInv, Ledger, Restorable
<1>2. rec["restore"].stage = "none" /\ "stage" \in DOMAIN rec["restore"] /\ rec = [a \in Actors |-> rec[a]]
  BY DEF CheckpointInv, Recorders, Recording, Actors
<1>3. rec'["restore"] = rec["restore"] /\ rec' = [a \in Actors |-> rec'[a]]
  BY <1>2 DEF Actors
<1>4. Recording("restore")'
  BY <1>2, <1>3 DEF Recording, Stages, Appended
<1>5. Recorders'
  BY <1>2, <1>3, <1>4 DEF Recorders, Actors
<1>6. RestoreNames'
  BY DEF RestoreNames
<1>7. RowShows'
  BY ShowsStays DEF CheckpointInv, RowShows
<1>8. QED
  BY <1>1, <1>5, <1>6, <1>7 DEF CheckpointInv

(* Those steps.                                                               *)
LEMMA RunRecordSteady ==
  ASSUME WorkspaceInv, CheckpointInv,
         StartRun \/ PutBase \/ SaveWorkspace \/ BaseRecorded \/ Archive \/ CheckpointRecorded
  PROVE  CheckpointInv'
<1> USE DEF Goto, KeepLock, LeaveStart, Works, Fails
<1>0. /\ BoxesTyped /\ "run" \in Actors
      /\ rec["run"].stage # "none" => pc \in {"base", "record"}
      /\ rec = [a \in Actors |-> rec[a]]
  BY DEF WorkspaceInv, Typed, CheckpointInv, Recorders, Actors
<1> DEFINE Begins(e) == rec' = [rec EXCEPT !["run"] = [stage |-> "append", entry |-> e]]
<1>1. ASSUME NEW e, Begins(e) PROVE /\ rec' = [rec EXCEPT !["run"] = rec'["run"]]
                                    /\ rec'["run"] = [stage |-> "append", entry |-> e]
  BY <1>0, <1>1 DEF Actors
<1>2. rec' = [rec EXCEPT !["run"] = NoRecord] =>
        rec' = [rec EXCEPT !["run"] = rec'["run"]] /\ rec'["run"] = NoRecord
  BY <1>0 DEF Actors
<1>3. UNCHANGED rec => rec' = [rec EXCEPT !["run"] = rec'["run"]] /\ rec'["run"] = rec["run"]
  BY <1>0 DEF Actors
<1>4. NoRecord.stage = "none"
  BY DEF NoRecord
<1>5. UNCHANGED rec /\ rec["run"].stage = "none" => Recording("run")'
  BY <1>0 DEF CheckpointInv, Recorders, Recording, Appended
<1> HIDE DEF Begins
<1> DEFINE base == Entry("base", "base", 0)
<1>6. base.ref = "base" /\ base.kind = "base" /\ base.from = 0
  BY DEF Entry
<1>7. CASE StartRun
  <2>1. /\ pc = "none" /\ restore = NoRestore /\ UNCHANGED <<history, archives, restore, row, box, git>>
        /\ \/ pc' = "acquire" /\ UNCHANGED rec
           \/ pc' = "put" /\ ~git /\ history = {} /\ UNCHANGED rec
           \/ pc' = "base" /\ ~git /\ history = {} /\ "base" \in archives /\ Begins(base)
    BY <1>7 DEF StartRun, Record, Intact, Others, disk, Begins
  <2>2. SameContents
    BY <2>1, <1>0, ContentsStay
  <2>3. CASE pc' = "base"
    <3>1. Begins(base) /\ history = {} /\ ~git /\ "base" \in archives
      BY <2>1, <2>3
    <3>2. rec' = [rec EXCEPT !["run"] = rec'["run"]] /\ rec'["run"] = [stage |-> "append", entry |-> base]
      BY <1>1, <3>1
    <3>3. rec'["run"].stage = "append" /\ rec'["run"].entry = base
      BY <3>2
    <3>4. Recording("run")'
      <4> HIDE DEF base
      <4>1. QED
        BY <3>1, <3>2, <2>1, <1>0, <1>6, RecordingIs
    <3>5. RunShows'
      BY <2>1, <2>3, <3>1, <3>3, <1>6 DEF RunShows, CheckedOut, Serving, Appended
    <3>6. QED
      BY <2>1, <2>2, <2>3, <3>2, <3>4, <3>5, RunRecords
  <2>4. CASE pc' # "base"
    <3>1. /\ UNCHANGED rec /\ rec["run"].stage = "none" /\ Recording("run")'
          /\ rec' = [rec EXCEPT !["run"] = rec'["run"]] /\ rec'["run"].stage = "none"
      BY <2>1, <2>4, <1>0, <1>3, <1>5
    <3>2. RunShows'
      BY <2>1, <2>4, <3>1 DEF RunShows, CheckedOut, Serving, Appended
    <3>3. QED
      BY <2>1, <2>2, <3>1, <3>2, RunRecords
  <2>5. QED
    BY <2>3, <2>4
<1>8. CASE PutBase
  <2>1. /\ pc = "put" /\ UNCHANGED <<history, rec, restore, row, box, git>>
        /\ archives \subseteq archives'
        /\ \/ pc' = "save" /\ "base" \in archives' /\ mine' = mine
           \/ pc' \in {"none", "cleanup"}
    BY <1>8 DEF PutBase, Put, PutOrNot, NoBase, Others
  <2>2. SameContents /\ restore = NoRestore
    BY <2>1, <1>0, ContentsStay, RunAlone
  <2>3. /\ rec["run"].stage = "none" /\ Recording("run")'
        /\ rec' = [rec EXCEPT !["run"] = rec'["run"]] /\ rec'["run"].stage = "none"
    BY <2>1, <1>0, <1>3, <1>5
  <2>4. history = {} /\ (git => mine \in DOMAIN box /\ box[mine].content = "base")
    BY <2>1 DEF CheckpointInv, RunShows, CheckedOut, Holds
  <2>5. RunShows'
    BY <2>1, <2>3, <2>4 DEF RunShows, CheckedOut, Serving, Appended, Holds
  <2>6. QED
    BY <2>1, <2>2, <2>3, <2>5, RunRecords
<1>9. CASE SaveWorkspace
  <2>1. /\ pc = "save" /\ UNCHANGED <<history, archives, restore, row, box, git>>
        /\ \/ pc' = "base" /\ mine' = mine /\ Begins(base)
           \/ pc' \in {"none", "cleanup"} /\ UNCHANGED rec
    BY <1>9 DEF SaveWorkspace, NoBase, Record, Others, Begins
  <2>2. SameContents /\ restore = NoRestore
    BY <2>1, <1>0, ContentsStay, RunAlone
  <2>3. /\ history = {} /\ "base" \in archives /\ rec["run"].stage = "none"
        /\ git => mine \in DOMAIN box /\ box[mine].content = "base"
    BY <2>1 DEF CheckpointInv, RunShows, Recorders, CheckedOut, Holds
  <2>4. CASE pc' = "base"
    <3>1. rec' = [rec EXCEPT !["run"] = rec'["run"]] /\ rec'["run"] = [stage |-> "append", entry |-> base]
      BY <1>1, <2>1, <2>4
    <3>2. rec'["run"].stage = "append" /\ rec'["run"].entry = base
      BY <3>1
    <3>3. Recording("run")'
      <4> HIDE DEF base
      <4>1. QED
        BY <2>3, <3>1, <2>1, <1>0, <1>6, RecordingIs
    <3>4. RunShows'
      BY <2>1, <2>3, <2>4, <3>2, <1>6 DEF RunShows, CheckedOut, Serving, Appended, Holds
    <3>5. QED
      BY <2>1, <2>2, <2>4, <3>1, <3>3, <3>4, RunRecords
  <2>5. CASE pc' # "base"
    <3>1. /\ pc' \in {"none", "cleanup"} /\ Recording("run")'
          /\ rec' = [rec EXCEPT !["run"] = rec'["run"]] /\ rec'["run"].stage = "none"
      BY <2>1, <2>3, <2>5, <1>3, <1>5
    <3>2. RunShows'
      BY <3>1 DEF RunShows, CheckedOut, Serving, Appended
    <3>3. QED
      BY <2>1, <2>2, <3>1, <3>2, RunRecords
  <2>6. QED
    BY <2>4, <2>5
<1>10. CASE BaseRecorded
  <2>1. /\ pc = "base" /\ UNCHANGED <<history, archives, restore, row, box, git>>
        /\ rec' = [rec EXCEPT !["run"] = NoRecord]
        /\ \/ pc' = "publish" /\ git /\ rec["run"].stage = "done" /\ mine' = mine
           \/ pc' \in {"acquire", "none", "cleanup"}
    BY <1>10 DEF BaseRecorded, NoBase, Recorded, Clear, Others, disk
  <2>2. SameContents /\ restore = NoRestore
    BY <2>1, <1>0, ContentsStay, RunAlone
  <2>3. /\ rec' = [rec EXCEPT !["run"] = rec'["run"]] /\ Recording("run")' /\ rec'["run"].stage = "none"
    BY <2>1, <1>0, <1>2, <1>4, RecordingIs
  <2>4. pc' = "publish" => Shows(mine)
    BY <2>1 DEF CheckpointInv, RunShows, CheckedOut, Appended
  <2>5. RunShows'
    BY <2>1, <2>3, <2>4 DEF RunShows, CheckedOut, Serving, Appended, Shows, Holds
  <2>6. QED
    BY <2>1, <2>2, <2>3, <2>5, RunRecords
<1>11. CASE Archive
  <2> DEFINE saved == Entry(Archived(mine), "run", 0)
  <2>1. saved.ref = box[mine].content /\ saved.from = 0
    BY DEF Entry, Archived
  <2>2. /\ pc = "archive" /\ UNCHANGED <<history, restore, row, box, git, mine>>
        /\ archives \subseteq archives'
        /\ \/ pc' = "record" /\ Archived(mine) \in archives' /\ Begins(saved)
           \/ pc' = "hold" /\ UNCHANGED rec
    BY <1>11 DEF Archive, Put, PutOrNot, Record, Closing, Session, Begins
  <2>3. SameContents /\ restore = NoRestore
    BY <2>2, <1>0, ContentsStay, RunAlone
  <2>4. history # {} /\ mine \in DOMAIN box /\ rec["run"].stage = "none"
    BY <2>2, <1>0 DEF CheckpointInv, RunShows, Serving
  <2> HIDE DEF saved
  <2>5. CASE pc' = "record"
    <3>1. rec' = [rec EXCEPT !["run"] = rec'["run"]] /\ rec'["run"] = [stage |-> "append", entry |-> saved]
      BY <1>1, <2>2, <2>5
    <3>2. rec'["run"].stage = "append" /\ rec'["run"].entry = saved
      BY <3>1
    <3>3. Recording("run")'
      <4>1. saved.ref \in archives' /\ history' # {} /\ saved.from = 0
        BY <2>1, <2>2, <2>4, <2>5 DEF Archived
      <4>2. QED
        BY <3>1, <4>1, <1>0, RecordingIs
    <3>4. RunShows'
      BY <2>1, <2>2, <2>4, <2>5, <3>2 DEF RunShows, CheckedOut, Serving, Appended, Holds
    <3>5. QED
      BY <2>2, <2>3, <2>5, <3>1, <3>3, <3>4, RunRecords
  <2>6. CASE pc' # "record"
    <3>1. /\ pc' = "hold" /\ Recording("run")'
          /\ rec' = [rec EXCEPT !["run"] = rec'["run"]] /\ rec'["run"].stage = "none"
      BY <2>2, <2>4, <2>6, <1>3, <1>5
    <3>2. RunShows'
      BY <2>2, <2>4, <3>1 DEF RunShows, CheckedOut, Serving, Appended
    <3>3. QED
      BY <2>2, <2>3, <3>1, <3>2, RunRecords
  <2>7. QED
    BY <2>5, <2>6
<1>12. CASE CheckpointRecorded
  <2>1. /\ pc = "record" /\ UNCHANGED <<history, archives, restore, row, git, mine>>
        /\ rec' = [rec EXCEPT !["run"] = NoRecord]
        /\ \/ pc' = "shorten" /\ rec["run"].stage = "done"
           \/ pc' = "hold"
        /\ box' = box \/ box' = [box EXCEPT ![mine].edited = FALSE]
    BY <1>12 DEF CheckpointRecorded, Recorded, Clear, Closing, Session, disk
  <2>2. SameContents /\ restore = NoRestore
    BY <2>1, <1>0, ContentsStay, RunAlone
  <2>3. /\ rec' = [rec EXCEPT !["run"] = rec'["run"]] /\ Recording("run")' /\ rec'["run"].stage = "none"
    BY <2>1, <1>0, <1>2, <1>4, RecordingIs
  <2>4. /\ history # {} /\ mine \in DOMAIN box
        /\ pc' = "shorten" => box[mine].content = Current(history).ref
    BY <2>1 DEF CheckpointInv, RunShows, Serving, Appended, Shows, Holds
  <2>5. mine \in DOMAIN box' /\ (pc' = "shorten" => box'[mine].content = Current(history).ref)
    BY <2>2, <2>4 DEF SameContents
  <2>6. RunShows'
    BY <2>1, <2>3, <2>4, <2>5 DEF RunShows, CheckedOut, Serving, Appended, Shows, Holds
  <2>7. QED
    BY <2>1, <2>2, <2>3, <2>6, RunRecords
<1>13. QED
  BY <1>7, <1>8, <1>9, <1>10, <1>11, <1>12

-----------------------------------------------------------------------------
(* While a restore is on, no run is: only its own record and name matter.     *)
LEMMA RestoreSteady ==
  ASSUME CheckpointInv, pc = "none", UNCHANGED <<history, archives, pc>>, SameContents,
         row' \in {row, NoRow}, rec' = [rec EXCEPT !["restore"] = rec'["restore"]],
         Recording("restore")',
         rec'["restore"].stage # "none" => restore' # NoRestore /\ restore'.step = "record",
         RestoreNames'
  PROVE  CheckpointInv'
<1>1. Ledger'
  BY DEF CheckpointInv, Ledger, Restorable
<1>2. rec["run"].stage = "none" /\ "stage" \in DOMAIN rec["run"] /\ rec = [a \in Actors |-> rec[a]]
  BY DEF CheckpointInv, Recorders, Recording, Actors
<1>3. rec'["run"] = rec["run"] /\ rec' = [a \in Actors |-> rec'[a]]
  BY <1>2 DEF Actors
<1>4. Recording("run")'
  BY <1>2, <1>3 DEF Recording, Stages, Appended
<1>5. Recorders'
  BY <1>2, <1>3, <1>4 DEF Recorders, Actors
<1>6. RowShows'
  <2>1. row' # NoRow => row' = row /\ row # NoRow
    OBVIOUS
  <2>2. QED
    BY <2>1, ShowsStays DEF CheckpointInv, RowShows
<1>7. RunShows'
  BY DEF RunShows, CheckedOut, Serving
<1>8. QED
  BY <1>1, <1>5, <1>6, <1>7 DEF CheckpointInv

(* History.RestoreWorkspace: when the restore is recorded, the row is gone.   *)
LEMMA RestoreKeeps ==
  ASSUME WorkspaceInv, CheckpointInv, RestoreStep
  PROVE  CheckpointInv'
<1> USE DEF Works, Fails
<1>0. /\ BoxesTyped /\ "restore" \in Actors /\ "run" \in Actors
      /\ rec = [a \in Actors |-> rec[a]] /\ Recording("restore")
      /\ restore # NoRestore => pc = "none"
      /\ rec["restore"].stage # "none" => restore # NoRestore /\ restore.step = "record"
  BY DEF WorkspaceInv, Typed, Exclusive, CheckpointInv, Recorders, Actors
<1>1. NoRestore.step = "none"
  BY DEF NoRestore
<1>2. ASSUME UNCHANGED <<rec, history, archives>>
      PROVE  rec' = [rec EXCEPT !["restore"] = rec'["restore"]] /\ Recording("restore")'
  BY <1>0, <1>2 DEF Actors, Recording, Appendable, Prunable
<1>3. restore' = NoRestore => RestoreNames'
  BY DEF RestoreNames
<1> DEFINE entry == Entry(restore.ref, "restore", restore.seq)
<1>4. entry.ref = restore.ref /\ entry.from = restore.seq
  BY DEF Entry
<1>5. ASSUME restore # NoRestore, restore.step # "record", RecordRestore,
             UNCHANGED <<history, archives>>, restore.ref \in archives, row' = NoRow
      PROVE  /\ rec' = [rec EXCEPT !["restore"] = rec'["restore"]] /\ Recording("restore")'
             /\ restore' # NoRestore /\ restore'.step = "record" /\ RestoreNames'
  <2>1. /\ {"step", "ref", "seq"} \subseteq DOMAIN restore
        /\ \E f \in history : f.seq = restore.seq /\ f.ref = restore.ref
    BY <1>5 DEF CheckpointInv, RestoreNames
  <2>2. restore' = [restore EXCEPT !.step = "record"]
    BY <1>5 DEF RecordRestore, RestoreAt
  <2>3. /\ restore'.step = "record" /\ restore' # NoRestore
        /\ {"step", "ref", "seq"} \subseteq DOMAIN restore'
    BY <2>1, <2>2, <1>1
  <2>4. RestoreNames'
    BY <1>5, <2>3 DEF RestoreNames
  <2>5. rec' = [rec EXCEPT !["restore"] = [stage |-> "append", entry |-> entry]]
    BY <1>5 DEF RecordRestore, Record
  <2> HIDE DEF entry
  <2>6. /\ rec' = [rec EXCEPT !["restore"] = rec'["restore"]]
        /\ rec'["restore"] = [stage |-> "append", entry |-> entry]
    BY <2>5, <1>0 DEF Actors
  <2>7. entry.ref \in archives' /\ (\E f \in history' : f.seq = entry.from) /\ history' # {}
    BY <1>4, <1>5, <2>1
  <2>8. Recording("restore")'
    BY <1>0, <2>6, <2>7, RecordingIs
  <2>9. QED
    BY <2>3, <2>4, <2>6, <2>8
<1>6. ASSUME NEW e \in history, RestoreBegins(e) PROVE CheckpointInv'
  <2>1. /\ pc = "none" /\ restore = NoRestore
        /\ UNCHANGED <<history, archives, pc, rec, row, box>>
        /\ restore' = [step |-> "check", ref |-> e.ref, seq |-> e.seq]
    BY <1>6 DEF RestoreBegins, Quiet, run, disk
  <2>2. SameContents
    BY <2>1, <1>0, ContentsStay
  <2>3. /\ {"step", "ref", "seq"} \subseteq DOMAIN restore' /\ restore'.step = "check"
        /\ restore'.ref = e.ref /\ restore'.seq = e.seq
    BY <2>1
  <2>4. RestoreNames'
    BY <1>6, <2>1, <2>3 DEF RestoreNames
  <2>5. rec["restore"].stage = "none"
    BY <2>1, <1>0
  <2>6. QED
    BY <1>2, <2>1, <2>2, <2>4, <2>5, RestoreSteady
<1>7. CASE RestoreCheck
  <2>1. /\ restore.step = "check" /\ UNCHANGED <<history, archives, pc, row, box>>
        /\ \/ restore' = NoRestore /\ UNCHANGED rec
           \/ row = NoRow /\ RecordRestore /\ restore.ref \in archives
           \/ restore' = [restore EXCEPT !.step = "kill"] /\ UNCHANGED rec
    BY <1>7 DEF RestoreCheck, RestoreOver, RestoreAt, Intact, Quiet, run, disk
  <2>2. SameContents /\ restore # NoRestore /\ pc = "none" /\ rec["restore"].stage = "none"
    BY <2>1, <1>0, <1>1, ContentsStay
  <2>3. CASE row = NoRow /\ RecordRestore /\ restore.ref \in archives
    BY <1>5, <2>1, <2>2, <2>3, RestoreSteady
  <2>4. CASE restore' = NoRestore /\ UNCHANGED rec
    BY <1>2, <1>3, <2>1, <2>2, <2>4, RestoreSteady
  <2>5. CASE restore' = [restore EXCEPT !.step = "kill"] /\ UNCHANGED rec
    <3>1. /\ {"step", "ref", "seq"} \subseteq DOMAIN restore
          /\ \E f \in history : f.seq = restore.seq /\ f.ref = restore.ref
      BY <2>1, <2>2 DEF CheckpointInv, RestoreNames
    <3>2. /\ {"step", "ref", "seq"} \subseteq DOMAIN restore' /\ restore'.step = "kill"
          /\ restore'.ref = restore.ref /\ restore'.seq = restore.seq
      BY <3>1, <2>5
    <3>3. RestoreNames'
      BY <2>1, <3>1, <3>2 DEF RestoreNames
    <3>4. QED
      BY <1>2, <2>1, <2>2, <2>5, <3>3, RestoreSteady
  <2>6. QED
    BY <2>1, <2>3, <2>4, <2>5
<1>8. CASE RestoreKill
  <2>1. /\ restore.step = "kill" /\ UNCHANGED <<history, archives, pc, row, rec>>
        /\ Kill(row.box) \/ KillOrNot(row.box)
        /\ restore' = NoRestore \/ restore' = [restore EXCEPT !.step = "forget"]
    BY <1>8 DEF RestoreKill, RestoreOver, RestoreAt, Quiet, run, disk
  <2>2. SameContents /\ restore # NoRestore /\ pc = "none" /\ rec["restore"].stage = "none"
    BY <2>1, <1>0, <1>1, ContentsStay
  <2>3. RestoreNames'
    <3>1. CASE restore' = NoRestore
      BY <3>1, <1>3
    <3>2. CASE restore' = [restore EXCEPT !.step = "forget"]
      <4>1. /\ {"step", "ref", "seq"} \subseteq DOMAIN restore
            /\ \E f \in history : f.seq = restore.seq /\ f.ref = restore.ref
        BY <2>1, <2>2 DEF CheckpointInv, RestoreNames
      <4>2. /\ {"step", "ref", "seq"} \subseteq DOMAIN restore' /\ restore'.step = "forget"
            /\ restore'.ref = restore.ref /\ restore'.seq = restore.seq
        BY <3>2, <4>1
      <4>3. QED
        BY <2>1, <4>1, <4>2 DEF RestoreNames
    <3>3. QED
      BY <2>1, <3>1, <3>2
  <2>4. QED
    BY <1>2, <2>1, <2>2, <2>3, RestoreSteady
<1>9. CASE RestoreForget
  <2>1. /\ restore.step = "forget" /\ UNCHANGED <<history, archives, pc, box>>
        /\ \/ row' = NoRow /\ RecordRestore
           \/ row' = row /\ restore' = NoRestore /\ UNCHANGED rec
    BY <1>9 DEF RestoreForget, RestoreOver, DeleteRow, Quiet, run, disk, WorkspaceInv, RestoreKnows
  <2>2. SameContents /\ restore # NoRestore /\ pc = "none" /\ rec["restore"].stage = "none"
    BY <2>1, <1>0, <1>1, ContentsStay
  <2>3. CASE row' = NoRow /\ RecordRestore
    <3>1. restore.ref \in archives
      BY <2>1, <2>2 DEF CheckpointInv, RestoreNames, Ledger, Restorable
    <3>2. QED
      BY <1>5, <2>1, <2>2, <2>3, <3>1, RestoreSteady
  <2>4. CASE row' = row /\ restore' = NoRestore /\ UNCHANGED rec
    BY <1>2, <1>3, <2>1, <2>2, <2>4, RestoreSteady
  <2>5. QED
    BY <2>1, <2>3, <2>4
<1>10. CASE RestoreEnds
  <2>1. /\ restore.step = "record" /\ UNCHANGED <<history, archives, pc, row, box>>
        /\ restore' = NoRestore /\ rec' = [rec EXCEPT !["restore"] = NoRecord]
    BY <1>10 DEF RestoreEnds, RestoreOver, Clear, Quiet, run, disk
  <2>2. SameContents /\ restore # NoRestore /\ pc = "none"
    BY <2>1, <1>0, <1>1, ContentsStay
  <2>3. rec' = [rec EXCEPT !["restore"] = rec'["restore"]] /\ rec'["restore"] = NoRecord
    BY <2>1, <1>0 DEF Actors
  <2>4. Recording("restore")' /\ rec'["restore"].stage = "none"
    BY <2>3, <1>0, RecordingIs DEF NoRecord
  <2>5. QED
    BY <1>3, <2>1, <2>2, <2>3, <2>4, RestoreSteady
<1>11. QED
  BY <1>6, <1>7, <1>8, <1>9, <1>10 DEF RestoreStep

(* The janitor removes sandboxes and rows; E2B ends sandboxes at their time.  *)
LEMMA SweepKeeps ==
  ASSUME WorkspaceInv, CheckpointInv, SweepStep \/ Tick
  PROVE  CheckpointInv'
<1>0. BoxesTyped
  BY DEF WorkspaceInv, Typed
<1>1. UNCHANGED <<ledger, git, pc, mine, restore>> /\ row' \in {row, NoRow}
  BY DEF SweepStep, SweepLists, SweepTakes, SweepKills, SweepForgets, Tick, DeleteRow,
     Maintenance, run, disk, Works, Fails, ledger
<1>2. SameContents
  <2>1. CASE SweepStep
    <3>1. box' = box \/ \E b : Kill(b) \/ KillOrNot(b)
      BY <2>1 DEF SweepStep, SweepLists, SweepTakes, SweepKills, SweepForgets, disk
    <3>2. QED
      BY <3>1, <1>0, ContentsStay
  <2>2. CASE Tick
    <3>1. \A b \in DOMAIN box : "content" \in DOMAIN box[b]
      BY <1>0 DEF BoxesTyped, SandboxFields
    <3>2. QED
      BY <2>2, <3>1 DEF Tick, SameContents
  <2>3. QED
    BY <2>1, <2>2
<1>3. RestoreNames'
  BY <1>1 DEF CheckpointInv, RestoreNames, ledger
<1>4. QED
  BY <1>1, <1>2, <1>3, OtherSteady

(* A crash forgets who was recording; the disk is as it was.                  *)
LEMMA CrashKeeps ==
  ASSUME CheckpointInv, Crash
  PROVE  CheckpointInv'
<1>1. /\ UNCHANGED <<history, archives, row, box>> /\ pc' = "none" /\ restore' = NoRestore
      /\ rec' = [a \in Actors |-> NoRecord]
  BY DEF Crash, disk, Actors
<1>2. Ledger'
  BY <1>1 DEF CheckpointInv, Ledger, Restorable
<1>3. \A a \in Actors : rec'[a] = NoRecord
  BY <1>1
<1>4. \A a \in Actors : Recording(a)'
  BY <1>3, RecordingIs
<1>5. Recorders'
  BY <1>1, <1>3, <1>4 DEF Recorders, NoRecord, Actors
<1>6. RestoreNames' /\ RowShows'
  BY <1>1 DEF CheckpointInv, RestoreNames, RowShows, Shows, Holds
<1>7. RunShows'
  BY <1>1 DEF RunShows, CheckedOut, Serving
<1>8. QED
  BY <1>2, <1>5, <1>6, <1>7 DEF CheckpointInv

-----------------------------------------------------------------------------
(* RecordWorkspaceCheckpoint goes on: the other actor is not recording.       *)
LEMMA RecordSteady ==
  ASSUME WorkspaceInv, CheckpointInv, NEW a \in Actors, rec[a].stage # "none",
         UNCHANGED <<box, row, pc, mine, restore, git>>, Ledger',
         rec' = [rec EXCEPT ![a] = rec'[a]], Recording(a)', rec'[a].stage \notin {"none", "append"},
         history # {} => history' # {},
         rec[a].stage = "append" \/ (history # {} /\ Current(history') = Current(history)),
         rec'[a].stage \in Appended /\ (CheckedOut \/ pc = "record") =>
           history' # {} /\ Holds(mine, Current(history').ref)
  PROVE  CheckpointInv'
<1>1. /\ rec = [x \in Actors |-> rec[x]]
      /\ a = "run" => pc \in {"base", "record"} /\ restore = NoRestore
      /\ a = "restore" => pc = "none" /\ restore # NoRestore /\ restore.step = "record" /\ row = NoRow
  BY RunAlone DEF WorkspaceInv, Exclusive, CheckpointInv, Recorders, RestoreNames
<1>2. ASSUME NEW b \in Actors, b # a
      PROVE  rec[b].stage = "none" /\ "stage" \in DOMAIN rec[b]
  BY <1>1, <1>2 DEF CheckpointInv, Recorders, Recording, Actors
<1>3. /\ rec' = [x \in Actors |-> rec'[x]]
      /\ \A b \in Actors : b # a => rec'[b] = rec[b]
  BY <1>1
<1>4. ASSUME NEW b \in Actors PROVE Recording(b)'
  <2>1. CASE b = a
    BY <2>1
  <2>2. CASE b # a
    <3>1. rec'[b].stage = "none" /\ "stage" \in DOMAIN rec'[b]
      BY <1>2, <1>3, <2>2
    <3>2. QED
      BY <3>1 DEF Recording, Stages, Appended
  <2>3. QED
    BY <2>1, <2>2
<1>5. Recorders'
  <2>1. rec'["run"].stage # "none" => a = "run"
    BY <1>2, <1>3 DEF Actors
  <2>2. rec'["restore"].stage # "none" => a = "restore"
    BY <1>2, <1>3 DEF Actors
  <2>3. QED
    BY <1>1, <1>3, <1>4, <2>1, <2>2 DEF Recorders
<1>6. RestoreNames'
  BY <1>1 DEF CheckpointInv, RestoreNames, Actors
<1>7. RowShows'
  <2>1. CASE row = NoRow
    BY <2>1 DEF RowShows
  <2>2. CASE row # NoRow /\ pc = "record"
    <3>1. row.status # Idle /\ history # {}
      BY <2>2 DEF WorkspaceInv, RunKnows, Serving, CheckpointInv, RowShows
    <3>2. QED
      BY <3>1 DEF RowShows
  <2>3. CASE row # NoRow /\ pc # "record"
    <3>1. history # {} /\ (row.status = Idle => Shows(row.box))
      BY <2>3 DEF CheckpointInv, RowShows
    <3>2. a = "run" /\ pc = "base"
      BY <1>1, <2>3 DEF Actors
    <3>3. rec[a].stage # "append"
      BY <3>1, <3>2 DEF CheckpointInv, RunShows
    <3>4. Current(history') = Current(history)
      BY <3>3
    <3>5. QED
      BY <3>1, <3>4 DEF RowShows, Shows, Holds
  <2>4. QED
    BY <2>1, <2>2, <2>3
<1>8. RunShows'
  <2>1. CASE a = "restore"
    BY <1>1, <2>1 DEF RunShows, CheckedOut, Serving
  <2>2. CASE a = "run"
    <3>1. /\ pc' = pc /\ pc \in {"base", "record"} /\ mine' = mine /\ box' = box /\ git' = git
          /\ rec'["run"].stage # "append"
      BY <1>1, <2>2
    <3>2. /\ CheckedOut => mine \in DOMAIN box /\ box[mine].content = "base"
          /\ pc = "record" => mine \in DOMAIN box /\ history # {}
      BY DEF CheckpointInv, RunShows, Holds, Serving
    <3>3. rec'["run"].stage \in Appended /\ (CheckedOut \/ pc = "record") =>
            history' # {} /\ mine \in DOMAIN box /\ box[mine].content = Current(history').ref
      BY <2>2 DEF Holds
    <3>4. pc = "record" => history' # {}
      BY <3>2
    <3>5. CheckedOut' <=> CheckedOut
      BY <3>1 DEF CheckedOut
    <3>6. CASE pc = "base"
      BY <3>1, <3>2, <3>3, <3>5, <3>6 DEF RunShows, Shows, Holds, Serving
    <3>7. CASE pc = "record"
      <4>1. ~CheckedOut
        BY <3>7 DEF CheckedOut
      <4>2. QED
        BY <3>1, <3>2, <3>3, <3>4, <3>5, <3>7, <4>1 DEF RunShows, Shows, Holds, Serving
    <3>8. QED
      BY <3>1, <3>6, <3>7
  <2>3. QED
    BY <2>1, <2>2 DEF Actors
<1>9. QED
  BY <1>5, <1>6, <1>7, <1>8 DEF CheckpointInv

(* A record's next stage: all else that it knows stays.                       *)
LEMMA StageMoves ==
  ASSUME CheckpointInv, NEW a \in Actors, NEW stage, To(a, stage)
  PROVE  /\ rec' = [rec EXCEPT ![a] = rec'[a]] /\ rec'[a].stage = stage
         /\ "stage" \in DOMAIN rec'[a] /\ DOMAIN rec'[a] = DOMAIN rec[a]
         /\ "keep" \in DOMAIN rec[a] => rec'[a].keep = rec[a].keep
<1>1. rec = [x \in Actors |-> rec[x]] /\ "stage" \in DOMAIN rec[a]
  BY DEF CheckpointInv, Recorders, Recording
<1>2. rec'[a] = [rec[a] EXCEPT !.stage = stage] /\ rec' = [rec EXCEPT ![a] = rec'[a]]
  BY <1>1 DEF To
<1>3. QED
  BY <1>1, <1>2

(* A record that is over, whichever way.                                      *)
LEMMA RecordOver ==
  ASSUME CheckpointInv, NEW a \in Actors, NEW stage \in {"done", "failed", "read"}, To(a, stage),
         stage # "failed" => history' # {}
  PROVE  Recording(a)'
<1>1. rec'[a].stage = stage /\ "stage" \in DOMAIN rec'[a]
  BY StageMoves
<1>2. QED
  BY <1>1 DEF Recording, Stages, Appended

(* Who shows the current checkpoint goes on doing so while it is current.     *)
LEMMA StillShown ==
  ASSUME CheckpointInv, NEW a \in Actors, rec[a].stage \in Appended, UNCHANGED <<box, mine>>,
         WorkspaceInv, Current(history') = Current(history), history' # {}, CheckedOut \/ pc = "record"
  PROVE  history' # {} /\ Holds(mine, Current(history').ref)
<1>1. a = "run"
  BY DEF Appended, Actors, CheckpointInv, Recorders, CheckedOut, WorkspaceInv, Exclusive
<1>2. Shows(mine)
  BY <1>1 DEF CheckpointInv, RunShows
<1>3. QED
  BY <1>2 DEF Shows, Holds

(* The append: what is recorded has its archive and its source, and becomes   *)
(* current; a base comes first, and a sandbox whose content is recorded shows *)
(* the current checkpoint.                                                    *)
LEMMA AppendKeeps ==
  ASSUME WorkspaceInv, CheckpointInv, NEW a \in Actors, RecordAppend(a)
  PROVE  CheckpointInv'
<1> USE DEF Works, Fails
<1> DEFINE e == rec[a].entry
           seq == IF history = {} THEN 1 ELSE Current(history).seq + 1
           new == [seq |-> seq, ref |-> e.ref, kind |-> e.kind, from |-> e.from, day |-> clock]
<1>1. /\ rec[a].stage = "append" /\ UNCHANGED <<box, row, pc, mine, restore, git, archives>>
      /\ \/ Unchanging(e) /\ To(a, "done") /\ UNCHANGED history
         \/ history' = history \union {new} /\ To(a, "read")
         \/ To(a, "failed") /\ UNCHANGED history
  BY DEF RecordAppend, Rest, run
<1>2. /\ e.ref \in archives /\ (e.from # 0 => \E f \in history : f.seq = e.from)
      /\ history = {} => e.kind = "base"
  BY <1>1 DEF CheckpointInv, Recorders, Recording, Appendable
<1>3. ASSUME CheckedOut \/ pc = "record" PROVE Holds(mine, e.ref)
  <2>1. a = "run"
    BY <1>1, <1>3 DEF Actors, CheckpointInv, Recorders, CheckedOut, WorkspaceInv, Exclusive
  <2>2. CASE pc = "record"
    BY <1>1, <2>1, <2>2 DEF CheckpointInv, RunShows
  <2>3. CASE CheckedOut
    <3>1. pc = "base"
      BY <1>1, <2>1, <2>3 DEF CheckpointInv, Recorders, CheckedOut
    <3>2. e.ref = "base" /\ Holds(mine, "base")
      BY <1>1, <2>1, <2>3, <3>1 DEF CheckpointInv, RunShows
    <3>3. QED
      BY <3>2
  <2>4. QED
    BY <1>3, <2>2, <2>3
<1>4. UNCHANGED history => Ledger'
  BY <1>1 DEF CheckpointInv, Ledger, Restorable
<1>5. CASE Unchanging(e) /\ To(a, "done") /\ UNCHANGED history
  <2>1. history # {} /\ Current(history).ref = e.ref
    BY <1>5 DEF Unchanging
  <2>2. rec' = [rec EXCEPT ![a] = rec'[a]] /\ rec'[a].stage = "done"
    BY <1>5, StageMoves
  <2>3. Recording(a)'
    BY <1>5, <2>1, RecordOver
  <2> HIDE DEF e
  <2>4. CheckedOut \/ pc = "record" => history' # {} /\ Holds(mine, Current(history').ref)
    BY <1>3, <1>5, <2>1
  <2>5. QED
    BY <1>1, <1>4, <1>5, <2>1, <2>2, <2>3, <2>4, RecordSteady
<1>6. CASE To(a, "failed") /\ UNCHANGED history
  <2>1. rec' = [rec EXCEPT ![a] = rec'[a]] /\ rec'[a].stage = "failed"
    BY <1>6, StageMoves
  <2>2. Recording(a)'
    BY <1>6, RecordOver
  <2>3. rec'[a].stage \notin Appended
    BY <2>1 DEF Appended
  <2>4. QED
    BY <1>1, <1>4, <1>6, <2>1, <2>2, <2>3, RecordSteady
<1>7. CASE history' = history \union {new} /\ To(a, "read")
  <2>1. Ledger
    BY DEF CheckpointInv
  <2>2. seq \in Nat \ {0} /\ \A f \in history : f.seq < seq /\ f.seq \in Nat
    <3>1. CASE history = {}
      BY <3>1
    <3>2. CASE history # {}
      <4>1. Current(history).seq \in Nat /\ \A f \in history : f.seq <= Current(history).seq /\ f.seq \in Nat
        BY <2>1, <3>2, CurrentIs DEF Ledger
      <4>2. QED
        BY <3>2, <4>1
    <3>3. QED
      BY <3>1, <3>2
  <2> HIDE DEF seq
  <2>3. /\ new.seq = seq /\ new.ref = e.ref /\ new.kind = e.kind /\ new.from = e.from
        /\ new \in history' /\ history \subseteq history' /\ history' # {}
        /\ \A f \in history' : f \in history \/ f = new
    BY <1>7
  <2> HIDE DEF new, e
  <2>4. Current(history') = new
    BY <1>7, <2>1, <2>2, <2>3, CurrentNext
  <2>5. Restorable'
    <3>1. ASSUME NEW x \in history'
          PROVE  x.ref \in archives' /\ (x.from # 0 => \E f \in history' : f.seq = x.from /\ f.seq < x.seq)
      <4>1. CASE x \in history
        BY <1>1, <2>1, <2>3, <4>1 DEF Ledger, Restorable
      <4>2. CASE x = new
        BY <1>1, <1>2, <2>2, <2>3, <4>2
      <4>3. QED
        BY <2>3, <4>1, <4>2
    <3>2. \E x \in history' : x.kind = "base" /\ \A f \in history' : x.seq <= f.seq
      <4>1. CASE history = {}
        BY <1>2, <2>2, <2>3, <4>1
      <4>2. CASE history # {}
        <5>1. PICK x \in history : x.kind = "base" /\ \A f \in history : x.seq <= f.seq
          BY <2>1, <4>2 DEF Ledger, Restorable
        <5>2. x.seq \in Nat /\ x.seq < new.seq /\ new.seq \in Nat
          BY <2>2, <2>3, <5>1
        <5>3. QED
          BY <2>3, <5>1, <5>2
      <4>3. QED
        BY <4>1, <4>2
    <3>3. QED
      BY <3>1, <3>2 DEF Restorable
  <2>6. Ledger'
    <3>1. \A x \in history' : x.seq \in Nat \ {0} /\ x.seq <= new.seq
      BY <2>1, <2>2, <2>3 DEF Ledger
    <3>2. \A x, y \in history' : x.seq = y.seq => x = y
      <4>1. \A f \in history : f.seq # new.seq
        BY <2>2, <2>3
      <4>2. QED
        BY <2>1, <2>3, <4>1 DEF Ledger
    <3>3. QED
      BY <2>3, <2>5, <3>1, <3>2 DEF Ledger
  <2>7. rec' = [rec EXCEPT ![a] = rec'[a]] /\ rec'[a].stage = "read"
    BY <1>7, StageMoves
  <2>8. Recording(a)'
    BY <1>7, <2>3, RecordOver
  <2>9. CheckedOut \/ pc = "record" => history' # {} /\ Holds(mine, Current(history').ref)
    BY <1>3, <2>3, <2>4
  <2>10. QED
    BY <1>1, <2>3, <2>6, <2>7, <2>8, <2>9, RecordSteady
<1>8. QED
  BY <1>1, <1>5, <1>6, <1>7

(* pruneWorkspaceCheckpoints' reading: what it will delete leaves an entry    *)
(* that is current, the base, and every source of a restore that stays.       *)
LEMMA PruneReadKeeps ==
  ASSUME WorkspaceInv, CheckpointInv, NEW a \in Actors, PruneRead(a)
  PROVE  CheckpointInv'
<1> USE DEF Works, Fails
<1> DEFINE today == Current(history).day
           kept == KeptCheckpoints(history, today)
           doomed == ExpiredCheckpoints(history, today)
           keep == Archives({e \in history : e.seq \notin doomed})
           read == [stage |-> IF doomed = {} THEN "prune" ELSE "delete", doomed |-> doomed, keep |-> keep]
<1>1. /\ rec[a].stage = "read" /\ UNCHANGED <<box, row, pc, mine, restore, git, history, archives>>
      /\ rec' = [rec EXCEPT ![a] = read] \/ To(a, "done")
  BY DEF PruneRead, Rest, run
<1>2. Ledger /\ history # {} /\ rec = [x \in Actors |-> rec[x]]
  BY <1>1 DEF CheckpointInv, Recorders, Recording, Appended
<1>3. Ledger'
  BY <1>1, <1>2 DEF Ledger, Restorable
<1>4. CheckedOut \/ pc = "record" => history' # {} /\ Holds(mine, Current(history').ref)
  BY <1>1, <1>2, StillShown DEF Appended
<1>5. CASE To(a, "done")
  <2>1. rec' = [rec EXCEPT ![a] = rec'[a]] /\ rec'[a].stage = "done"
    BY <1>5, StageMoves
  <2>2. Recording(a)'
    BY <1>1, <1>2, <1>5, RecordOver
  <2>3. QED
    BY <1>1, <1>2, <1>3, <1>4, <2>1, <2>2, RecordSteady
<1>6. CASE rec' = [rec EXCEPT ![a] = read]
  <2>1. /\ kept \subseteq history /\ Current(history) \in kept /\ Base(history) \subseteq kept
        /\ \A e \in kept, f \in history : f.seq = e.from => f \in kept
    BY <1>2, Retained
  <2>2. doomed = {e.seq : e \in history \ kept}
    BY DEF ExpiredCheckpoints
  <2> HIDE DEF kept, doomed
  <2>3. \A e \in history : e.seq \notin doomed <=> e \in kept
    BY <1>2, <2>2 DEF Ledger
  <2>4. \A e \in history : e.seq \notin doomed => e.ref \in keep
    BY DEF Archives
  <2> HIDE DEF keep
  <2>5. Prunable(doomed, keep)
    BY <2>1, <2>3, <2>4 DEF Prunable, Base
  <2>6. doomed = {} => \A e \in history : e.ref \in keep
    BY <2>4
  <2>7. /\ {"stage", "doomed", "keep"} \subseteq DOMAIN read /\ read.doomed = doomed /\ read.keep = keep
        /\ read.stage \in {"prune", "delete"} /\ (read.stage = "prune" => doomed = {})
    OBVIOUS
  <2> HIDE DEF read
  <2>8. rec'[a] = read /\ rec' = [rec EXCEPT ![a] = rec'[a]]
    BY <1>2, <1>6
  <2>9. Recording(a)'
    BY <1>1, <1>2, <2>5, <2>6, <2>7, <2>8 DEF Recording, Prunable, Stages, Appended
  <2>10. rec'[a].stage \notin {"none", "append"}
    BY <2>7, <2>8
  <2>11. QED
    BY <1>1, <1>2, <1>3, <1>4, <2>8, <2>9, <2>10, RecordSteady
<1>7. QED
  BY <1>1, <1>5, <1>6

(* DeleteWorkspaceCheckpoints.                                                *)
LEMMA PruneDeleteKeeps ==
  ASSUME WorkspaceInv, CheckpointInv, NEW a \in Actors, PruneDelete(a)
  PROVE  CheckpointInv'
<1> USE DEF Works, Fails
<1> DEFINE doomed == rec[a].doomed
<1>1. /\ rec[a].stage = "delete" /\ UNCHANGED <<box, row, pc, mine, restore, git, archives>>
      /\ \/ /\ history' = {e \in history : e.seq \notin doomed \/ e.seq = Current(history).seq}
            /\ To(a, "prune")
         \/ To(a, "done") /\ UNCHANGED history
  BY DEF PruneDelete, Rest, run
<1>2. /\ Ledger /\ history # {} /\ {"doomed", "keep"} \subseteq DOMAIN rec[a]
      /\ Prunable(doomed, rec[a].keep)
  BY <1>1 DEF CheckpointInv, Recorders, Recording, Appended
<1>3. Current(history) \in history
  BY <1>2, CurrentIs
<1>4. CASE To(a, "done") /\ UNCHANGED history
  <2>1. rec' = [rec EXCEPT ![a] = rec'[a]] /\ rec'[a].stage = "done"
    BY <1>4, StageMoves
  <2>2. Recording(a)'
    BY <1>2, <1>4, RecordOver
  <2>3. Ledger'
    BY <1>1, <1>2, <1>4 DEF Ledger, Restorable
  <2>4. CheckedOut \/ pc = "record" => history' # {} /\ Holds(mine, Current(history').ref)
    BY <1>1, <1>2, <1>4, StillShown DEF Appended
  <2>5. QED
    BY <1>1, <1>2, <1>4, <2>1, <2>2, <2>3, <2>4, RecordSteady
<1>5. CASE /\ history' = {e \in history : e.seq \notin doomed \/ e.seq = Current(history).seq}
           /\ To(a, "prune")
  <2> HIDE DEF doomed
  <2>1. /\ Current(history).seq \notin doomed
        /\ \A e \in history : e.seq \notin doomed =>
             /\ e.ref \in rec[a].keep
             /\ \A f \in history : f.seq = e.from => f.seq \notin doomed
        /\ \A e \in history : e.kind = "base" => e.seq \notin doomed
    BY <1>2 DEF Prunable
  <2>2. history' \subseteq history /\ \A e \in history : e \in history' <=> e.seq \notin doomed
    BY <1>5, <2>1
  <2>3. Current(history) \in history' /\ Current(history') = Current(history)
    <3>1. Current(history) \in history'
      BY <1>3, <2>1, <2>2
    <3>2. QED
      BY <1>2, <2>2, <3>1, CurrentStays
  <2>4. Restorable'
    <3>1. \A e \in history' :
            e.ref \in archives' /\ (e.from # 0 => \E f \in history' : f.seq = e.from /\ f.seq < e.seq)
      BY <1>1, <1>2, <2>1, <2>2 DEF Ledger, Restorable
    <3>2. \E e \in history' : e.kind = "base" /\ \A f \in history' : e.seq <= f.seq
      BY <1>2, <2>1, <2>2 DEF Ledger, Restorable
    <3>3. QED
      BY <3>1, <3>2 DEF Restorable
  <2>5. Ledger'
    <3>1. \A f \in history' : f.seq <= Current(history).seq
      BY <1>2, <2>2, CurrentIs
    <3>2. QED
      BY <1>2, <2>2, <2>3, <2>4, <3>1 DEF Ledger
  <2>6. /\ rec' = [rec EXCEPT ![a] = rec'[a]] /\ rec'[a].stage = "prune"
        /\ DOMAIN rec'[a] = DOMAIN rec[a] /\ "stage" \in DOMAIN rec'[a] /\ rec'[a].keep = rec[a].keep
    BY <1>2, <1>5, StageMoves
  <2>7. Recording(a)'
    BY <1>2, <2>1, <2>2, <2>3, <2>6 DEF Recording, Stages, Appended
  <2>8. CheckedOut \/ pc = "record" => history' # {} /\ Holds(mine, Current(history').ref)
    BY <1>1, <2>3, StillShown DEF Appended
  <2>9. QED
    BY <1>1, <1>2, <2>3, <2>5, <2>6, <2>7, <2>8, RecordSteady
<1>6. QED
  BY <1>1, <1>4, <1>5

(* PruneWorkspaceCheckpoints removes no archive that an entry names.          *)
LEMMA PruneArchivesKeeps ==
  ASSUME WorkspaceInv, CheckpointInv, NEW a \in Actors, PruneArchives(a)
  PROVE  CheckpointInv'
<1> USE DEF Works, Fails
<1>1. /\ rec[a].stage = "prune" /\ UNCHANGED <<box, row, pc, mine, restore, git, history>>
      /\ archives \intersect rec[a].keep \subseteq archives' /\ To(a, "done")
  BY DEF PruneArchives, Rest, run
<1>2. Ledger /\ history # {} /\ \A e \in history : e.ref \in rec[a].keep
  BY <1>1 DEF CheckpointInv, Recorders, Recording, Appended
<1>3. Ledger'
  BY <1>1, <1>2 DEF Ledger, Restorable
<1>4. rec' = [rec EXCEPT ![a] = rec'[a]] /\ rec'[a].stage = "done"
  BY <1>1, StageMoves
<1>5. Recording(a)'
  BY <1>1, <1>2, RecordOver
<1>6. CheckedOut \/ pc = "record" => history' # {} /\ Holds(mine, Current(history').ref)
  BY <1>1, <1>2, StillShown DEF Appended
<1>7. QED
  BY <1>1, <1>2, <1>3, <1>4, <1>5, <1>6, RecordSteady

-----------------------------------------------------------------------------
(* A new workspace has no history, and nobody records.                        *)
LEMMA CheckpointInit == Init => CheckpointInv
<1> SUFFICES ASSUME Init PROVE CheckpointInv
  OBVIOUS
<1>1. Ledger
  BY DEF Init, Ledger, Restorable
<1>2. Recorders
  BY DEF Init, Recorders, Recording, Actors, Stages, Appended, NoRecord
<1>3. RestoreNames /\ RowShows
  BY DEF Init, RestoreNames, RowShows
<1>4. RunShows
  BY DEF Init, RunShows, CheckedOut, Serving
<1>5. QED
  BY <1>1, <1>2, <1>3, <1>4 DEF CheckpointInv

(* Every step keeps the history, the archives and the sandboxes in accord.    *)
LEMMA CheckpointStep == WorkspaceInv /\ CheckpointInv /\ [Next]_vars => CheckpointInv'
<1> SUFFICES ASSUME WorkspaceInv, CheckpointInv, [Next]_vars PROVE CheckpointInv'
  OBVIOUS
<1>1. CASE StartStep
  BY <1>1, StartSteady, FilledSteady, RunRecordSteady DEF StartStep
<1>2. CASE SessionStep
  BY <1>2, SessionSteady, FilledSteady, RunRecordSteady DEF SessionStep
<1>3. CASE RestoreStep
  BY <1>3, RestoreKeeps
<1>4. CASE SweepStep \/ Tick
  BY <1>4, SweepKeeps
<1>5. ASSUME NEW a \in {"run", "restore"}, RecordStep(a) PROVE CheckpointInv'
  BY <1>5, AppendKeeps, PruneReadKeeps, PruneDeleteKeeps, PruneArchivesKeeps DEF RecordStep, Actors
<1>6. CASE Crash
  BY <1>6, CrashKeeps
<1>7. CASE UNCHANGED vars
  BY <1>7 DEF vars, disk, run, CheckpointInv, Ledger, Restorable, Recorders, Recording, Appendable,
     Prunable, RestoreNames, RowShows, RunShows, CheckedOut, Shows, Holds
<1>8. QED
  BY <1>1, <1>2, <1>3, <1>4, <1>5, <1>6, <1>7 DEF Next

(* Only Connect opens a session.                                              *)
LEMMA OpenedByConnect ==
  ASSUME Next, pc # "open", pc' = "open" PROVE Connect
<1>1. CASE StartStep
  BY <1>1 DEF StartStep, StartRun, PutBase, SaveWorkspace, BaseRecorded, NoBase, Blocked, Reconnect,
     ClaimSandbox, Discard, Forget, CreateSandbox, PlaceWorkspace, PlaceFails, CheckOut, Publish,
     Cleanup, CleanupRow, Goto, LeaveStart
<1>2. CASE SessionStep
  BY <1>2 DEF SessionStep, Edit, BeatExtend, BeatSave, CloseBegins, StopHeartbeat, Reserve, ReserveRow,
     ReserveTimeout, Archive, CheckpointRecorded, Shorten, SaveIdle, Hold, LeaveSession, run
<1>3. CASE RestoreStep \/ SweepStep \/ (\E a \in {"run", "restore"} : RecordStep(a)) \/ Tick \/ Crash
  BY <1>3 DEF RestoreStep, RestoreBegins, RestoreCheck, RestoreKill, RestoreForget, RestoreEnds, Quiet,
     SweepStep, SweepLists, SweepTakes, SweepKills, SweepForgets, Maintenance, RecordStep, RecordAppend,
     PruneRead, PruneDelete, PruneArchives, Rest, Tick, Crash, run
<1>4. QED
  BY <1>1, <1>2, <1>3 DEF Next

(* The history, the archives and the sandboxes agree in every state.          *)
THEOREM CheckpointInvariant == Spec => []CheckpointInv
BY CheckpointInit, CheckpointStep, WorkspaceInvariant, PTL DEF Spec

(* RecordWorkspaceCheckpoint, ExpiredCheckpoints and the pruning: whatever    *)
(* fails or is interrupted, and whoever records next, every entry of the      *)
(* history can be restored, and the base is among them.                       *)
THEOREM CheckpointsRestorable == Spec => []Restorable
<1>1. CheckpointInv => Restorable
  BY DEF CheckpointInv, Ledger
<1>2. QED
  BY <1>1, CheckpointInvariant, PTL

(* Provider.Start: the sandbox a session opens on, new or kept, holds the     *)
(* workspace as its current checkpoint has it.                                *)
THEOREM OpensOnCurrent == Spec => OpensCurrent
<1>1. CheckpointInv /\ [Next]_vars =>
        [pc # "open" /\ pc' = "open" => box'[mine].content = Current(history).ref]_vars
  <2> SUFFICES ASSUME CheckpointInv, Next, pc # "open", pc' = "open"
               PROVE  box'[mine].content = Current(history).ref
    BY DEF vars, run
  <2>1. pc = "connect" /\ box' = box
    BY OpenedByConnect DEF Connect
  <2>2. QED
    BY <2>1 DEF CheckpointInv, RunShows, Shows, Holds
<1>2. QED
  BY <1>1, CheckpointInvariant, PTL DEF Spec, OpensCurrent
=============================================================================
