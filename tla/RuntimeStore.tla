---------------------------- MODULE RuntimeStore ----------------------------
(***************************************************************************)
(* The durable runtime store (runtime/sqlite/store.go, rebuild.go): the    *)
(* conversation event logs, and the operational indexes `submissions`,     *)
(* `runs`, `tool_calls` and `workspace_reservations` that decide which     *)
(* accepted message may run.                                               *)
(*                                                                         *)
(* Every operation is one immediate, serialised SQLite transaction, so it  *)
(* is one action.  The process that uses the store can crash between any   *)
(* two of them.  Opening the store again rebuilds the indexes from the     *)
(* logs, and the Manager then fails every run that was still executing,    *)
(* one transaction per run, before it serves anything.                     *)
(***************************************************************************)
EXTENDS Naturals, Sequences, FiniteSets

CONSTANTS
  Conversations,  (* conversation IDs                                      *)
  Keys,           (* idempotency keys clients choose                       *)
  Calls,          (* tool call IDs a provider gives the calls of a run     *)
  Workspaces,     (* workspace IDs, what a restore reserves                *)
  Locks,          (* workspace locks, what a run holds                     *)
  WorkspaceOf,    (* conversations.workspace_id, fixed at creation         *)
  LockOf,         (* conversations.workspace_lock, fixed at creation       *)
  MaxTime,        (* bound: distinct wall clock readings of Accept         *)
  MaxAccepted,    (* bound: accepted submissions                           *)
  MaxNotes        (* bound: agent and progress entries of one conversation *)

(***************************************************************************)
(* Manager.CreateConversation gives a conversation its own workspace ID,   *)
(* or the agent's, which is then its lock as well: conversations that      *)
(* share a workspace share its lock.                                       *)
(***************************************************************************)
ASSUME WorkspaceAssumption ==
  /\ WorkspaceOf \in [Conversations -> Workspaces]
  /\ LockOf \in [Conversations -> Locks]
  /\ \A c, d \in Conversations :
       WorkspaceOf[c] = WorkspaceOf[d] => LockOf[c] = LockOf[d]

ASSUME BoundAssumption ==
  MaxTime \in Nat /\ MaxAccepted \in Nat /\ MaxNotes \in Nat

(***************************************************************************)
(* A submission is named by the immutable columns of its row; a run by its *)
(* submission and a number that is fresh for it (newID draws fresh IDs).   *)
(***************************************************************************)
Submission == [conv : Conversations, key : Keys, at : 1..MaxTime]
Run        == [sub : Submission, n : Nat]

TerminalStatus   == {"completed", "failed", "stopped"}
SubmissionStatus == {"queued", "running"} \cup TerminalStatus
RunStatus        == {"running"} \cup TerminalStatus
ToolOutcome      == {"completed", "failed", "denied", "interrupted"}
CallStatus       == {"requested"} \cup ToolOutcome

-----------------------------------------------------------------------------
(* The log entries.  A Committed entry without calls is a final answer; an *)
(* Outcome entry stands for the outcome events of all the calls resolved   *)
(* in one transaction; an Ended entry is run.completed, run.failed or      *)
(* run.stopped; a Note is an agent.* or environment.progress event.        *)
Accepted(s)           == [type |-> "input.accepted", sub |-> s]
Admitted(r)           == [type |-> "input.admitted", run |-> r]
Started(r)            == [type |-> "run.started", run |-> r]
Committed(r, S)       == [type |-> "assistant.output.committed", run |-> r, calls |-> S]
Outcome(r, S, status) == [type |-> "tool.outcome.recorded", run |-> r, calls |-> S, status |-> status]
Ended(r, status)      == [type |-> "run.ended", run |-> r, status |-> status]
Note(r)               == [type |-> "note", run |-> r]

Event ==
  [type : {"input.accepted"}, sub : Submission]
    \cup [type : {"input.admitted", "run.started", "note"}, run : Run]
    \cup [type : {"assistant.output.committed"}, run : Run, calls : SUBSET Calls]
    \cup [type : {"tool.outcome.recorded"}, run : Run, calls : SUBSET Calls, status : ToolOutcome]
    \cup [type : {"run.ended"}, run : Run, status : TerminalStatus]

VARIABLES
  conversations,  (* table conversations                                   *)
  log,            (* table events: the log of each conversation            *)
  submission,     (* table submissions: status of each accepted ID         *)
  run,            (* table runs: status of each run ID                     *)
  call,           (* table tool_calls: status of each (run, call) key      *)
  reserved,       (* table workspace_reservations                          *)
  clock,          (* latest wall clock reading                             *)
  process,        (* "down", "recovering" (in Manager.New) or "open"       *)
  workers,        (* runs whose work goroutine is alive                    *)
  restores        (* workspaces whose RestoreWorkspace call is alive       *)

tables == <<submission, run, call>>
vars   == <<conversations, log, submission, run, call, reserved, clock, process, workers, restores>>

-----------------------------------------------------------------------------
EmptyTable == [x \in {} |-> "queued"]

(* INSERT or UPDATE of the rows S of a table.                              *)
Write(table, S, value) ==
  [x \in DOMAIN table \cup S |-> IF x \in S THEN value ELSE table[x]]

LogAppend(c, events) == log' = [log EXCEPT ![c] = @ \o events]

SubmissionIs(s, status) == s \in DOMAIN submission /\ submission[s] = status
RunIs(r, status)        == r \in DOMAIN run /\ run[r] = status
RequestedCalls(r) == {k \in Calls : <<r, k>> \in DOMAIN call /\ call[<<r, k>>] = "requested"}

(***************************************************************************)
(* What the logs say of the indexes.  rebuildIndexes clears the three      *)
(* tables and replays the logs entry by entry in one transaction; these    *)
(* operators say what that leaves in them (module RuntimeReplay replays    *)
(* the same logs entry by entry, with every check of replayIndexEvent, and *)
(* compares).                                                              *)
(***************************************************************************)
Logged == UNION {{log[c][i] : i \in DOMAIN log[c]} : c \in Conversations}
LoggedOf(type) == {e \in Logged : e.type = type}

StatusFrom(entries, otherwise) ==
  IF entries = {} THEN otherwise ELSE (CHOOSE e \in entries : TRUE).status

(* Mutant: the replay does not know run.stopped.                           *)
EndsWithoutStops(s) == {e \in LoggedOf("run.ended") : e.run.sub = s /\ e.status # "stopped"}

EndsOf(r)      == {e \in LoggedOf("run.ended") : e.run = r}
EndsFor(s)     == {e \in LoggedOf("run.ended") : e.run.sub = s}
StartsFor(s)   == {e \in LoggedOf("run.started") : e.run.sub = s}
OutcomesOf(p)  == {e \in LoggedOf("tool.outcome.recorded") : e.run = p[1] /\ p[2] \in e.calls}
RequestsOf(p)  == {e \in LoggedOf("assistant.output.committed") : e.run = p[1] /\ p[2] \in e.calls}

LoggedSubmissions == {e.sub : e \in LoggedOf("input.accepted")}
LoggedRuns        == {e.run : e \in LoggedOf("run.started")}
LoggedCalls       == {p \in LoggedRuns \X Calls : RequestsOf(p) # {}}

SubmissionIndex ==
  [s \in LoggedSubmissions |->
     StatusFrom(EndsFor(s), IF StartsFor(s) = {} THEN "queued" ELSE "running")]
RunIndex  == [r \in LoggedRuns |-> StatusFrom(EndsOf(r), "running")]
CallIndex == [p \in LoggedCalls |-> StatusFrom(OutcomesOf(p), "requested")]

-----------------------------------------------------------------------------
Init ==
  /\ conversations = {}
  /\ log = [c \in Conversations |-> <<>>]
  /\ submission = EmptyTable /\ run = EmptyTable /\ call = EmptyTable
  /\ reserved = {}
  /\ clock = 0
  /\ process = "open"
  /\ workers = {}
  /\ restores = {}

CreateConversation(c) ==
  /\ process = "open"
  /\ c \notin conversations
  /\ conversations' = conversations \cup {c}
  /\ UNCHANGED <<log, tables, reserved, clock, process, workers, restores>>

(***************************************************************************)
(* A second submission under a key the conversation already has answers    *)
(* with the first one's ID and changes nothing.  The wall clock does not   *)
(* go back, but two acceptances can read the same microsecond.             *)
(***************************************************************************)
(* Mutant: a key is looked up among the waiting submissions only.          *)
WaitingDuplicate(c, k) == \E s \in DOMAIN submission : SubmissionIs(s, "queued") /\ s.conv = c /\ s.key = k

Duplicate(c, k) == \E s \in DOMAIN submission : s.conv = c /\ s.key = k

Accept(c, k, t) ==
  LET s == [conv |-> c, key |-> k, at |-> t]
  IN /\ process = "open"
     /\ c \in conversations
     /\ ~Duplicate(c, k)
     /\ t >= clock
     /\ Cardinality(DOMAIN submission) < MaxAccepted
     /\ submission' = Write(submission, {s}, "queued")
     /\ LogAppend(c, <<Accepted(s)>>)
     /\ clock' = t
     /\ UNCHANGED <<conversations, run, call, reserved, process, workers, restores>>

(***************************************************************************)
(* ClaimRunnable: of the queued submissions whose conversation and         *)
(* workspace lock have no running submission and whose workspace is not    *)
(* reserved, one that was accepted first (ties go by the random ID).       *)
(***************************************************************************)
ConversationBusy(c) == \E a \in DOMAIN submission : submission[a] = "running" /\ a.conv = c
LockBusy(l) == \E a \in DOMAIN submission : submission[a] = "running" /\ LockOf[a.conv] = l

(* Mutant: exclusion by conversation only.                                 *)
EligibleByConversation(s) ==
  /\ SubmissionIs(s, "queued")
  /\ ~ConversationBusy(s.conv)
  /\ WorkspaceOf[s.conv] \notin reserved

Eligible(s) ==
  /\ SubmissionIs(s, "queued")
  /\ ~ConversationBusy(s.conv)
  /\ ~LockBusy(LockOf[s.conv])
  /\ WorkspaceOf[s.conv] \notin reserved

(* Mutant: the last accepted submission first.                             *)
NewestEligible(s) == \A u \in DOMAIN submission : Eligible(u) => s.at >= u.at

OldestEligible(s) == \A u \in DOMAIN submission : Eligible(u) => s.at <= u.at

NextRun(s) == [sub |-> s, n |-> Cardinality({r \in DOMAIN run : r.sub = s}) + 1]

(* Mutant: the two entries of a claim in the wrong order.                  *)
ClaimStartingFirst(s) ==
  LET r == NextRun(s)
  IN /\ process = "open"
     /\ Eligible(s) /\ OldestEligible(s)
     /\ submission' = Write(submission, {s}, "running")
     /\ run' = Write(run, {r}, "running")
     /\ LogAppend(s.conv, <<Started(r), Admitted(r)>>)
     /\ workers' = workers \cup {r}
     /\ UNCHANGED <<conversations, call, reserved, clock, process, restores>>

ClaimRunnable(s) ==
  LET r == NextRun(s)
  IN /\ process = "open"
     /\ Eligible(s)
     /\ OldestEligible(s)
     /\ submission' = Write(submission, {s}, "running")
     /\ run' = Write(run, {r}, "running")
     /\ LogAppend(s.conv, <<Admitted(r), Started(r)>>)
     /\ workers' = workers \cup {r}
     /\ UNCHANGED <<conversations, call, reserved, clock, process, restores>>

-----------------------------------------------------------------------------
(* What the work goroutine of a claimed run, and what it runs, records.    *)

(* CommitAssistantTurn does not look at the run's status; a call ID the    *)
(* run already has is a primary key conflict, and nothing is committed.    *)
CommitAssistantTurn(r, S) ==
  /\ r \in workers
  /\ S # {}
  /\ \A k \in S : <<r, k>> \notin DOMAIN call
  /\ call' = Write(call, {<<r, k>> : k \in S}, "requested")
  /\ LogAppend(r.sub.conv, <<Committed(r, S)>>)
  /\ UNCHANGED <<conversations, submission, run, reserved, clock, process, workers, restores>>

(* ToolCompleted (completed or failed) and ToolDenied.                     *)
ToolFinished(r, k, status) ==
  /\ r \in workers
  /\ k \in RequestedCalls(r)
  /\ call' = Write(call, {<<r, k>>}, status)
  /\ LogAppend(r.sub.conv, <<Outcome(r, {k}, status)>>)
  /\ UNCHANGED <<conversations, submission, run, reserved, clock, process, workers, restores>>

(* AppendAgentEvent and AppendEnvironmentProgress: of the run operations,  *)
(* the two that can be called at any time and check the run's status.      *)
NotesIn(c) == Cardinality({i \in DOMAIN log[c] : log[c][i].type = "note"})

(* Mutant: any run of the conversation, ended or not.                      *)
MayNoteAlways(r) == r \in DOMAIN run

MayNote(r) == RunIs(r, "running")

AppendNote(r) ==
  /\ process = "open"
  /\ r \in DOMAIN run /\ MayNote(r)
  /\ NotesIn(r.sub.conv) < MaxNotes
  /\ LogAppend(r.sub.conv, <<Note(r)>>)
  /\ UNCHANGED <<conversations, tables, reserved, clock, process, workers, restores>>

(* FinishRun updates its two rows whatever they hold.  The worker calls it *)
(* when Core.Run returned no error, and Core.Run records a result for      *)
(* every call of a turn before it starts another turn or returns.          *)
ResolvedBefore(r) == RequestedCalls(r) = {}

FinishRun(r) ==
  /\ r \in workers
  /\ ResolvedBefore(r)
  /\ submission' = Write(submission, {r.sub}, "completed")
  /\ run' = Write(run, {r}, "completed")
  /\ LogAppend(r.sub.conv, <<Committed(r, {}), Ended(r, "completed")>>)
  /\ workers' = workers \ {r}
  /\ UNCHANGED <<conversations, call, reserved, clock, process, restores>>

(* endRun: FailRun and StopRun.  Calls still requested are resolved as     *)
(* interrupted in the same transaction.                                    *)
(* Mutant: the calls are updated, their outcomes are not logged.           *)
SilentInterruption(r) == <<>>

Interruption(r) ==
  IF RequestedCalls(r) = {} THEN <<>> ELSE <<Outcome(r, RequestedCalls(r), "interrupted")>>

(* Mutant: the run ends, its calls stay requested.                         *)
EndRunLeavingCalls(r, status) ==
  /\ submission' = Write(submission, {r.sub}, status)
  /\ run' = Write(run, {r}, status)
  /\ LogAppend(r.sub.conv, <<Ended(r, status)>>)
  /\ UNCHANGED call

EndRun(r, status) ==
  /\ call' = Write(call, {<<r, k>> : k \in RequestedCalls(r)}, "interrupted")
  /\ submission' = Write(submission, {r.sub}, status)
  /\ run' = Write(run, {r}, status)
  /\ LogAppend(r.sub.conv, Interruption(r) \o <<Ended(r, status)>>)

FailRun(r) ==
  /\ r \in workers
  /\ EndRun(r, "failed")
  /\ workers' = workers \ {r}
  /\ UNCHANGED <<conversations, reserved, clock, process, restores>>

StopRun(r) ==
  /\ r \in workers
  /\ EndRun(r, "stopped")
  /\ workers' = workers \ {r}
  /\ UNCHANGED <<conversations, reserved, clock, process, restores>>

(* The terminal transaction failed: work reports it and returns, and the   *)
(* run stays running in the store until the next start.                    *)
EndNotPersisted(r) ==
  /\ r \in workers
  /\ workers' = workers \ {r}
  /\ UNCHANGED <<conversations, log, tables, reserved, clock, process, restores>>

-----------------------------------------------------------------------------
(* Manager.RestoreWorkspace: reserve, restore, release.                    *)
WorkspaceBusy(w) == \E a \in DOMAIN submission : submission[a] = "running" /\ WorkspaceOf[a.conv] = w

ReserveWorkspace(w) ==
  /\ process = "open"
  /\ ~WorkspaceBusy(w)
  /\ w \notin reserved
  /\ reserved' = reserved \cup {w}
  /\ restores' = restores \cup {w}
  /\ UNCHANGED <<conversations, log, tables, clock, process, workers>>

ReleaseWorkspace(w) ==
  /\ w \in restores
  /\ reserved' = reserved \ {w}
  /\ restores' = restores \ {w}
  /\ UNCHANGED <<conversations, log, tables, clock, process, workers>>

(* Both attempts at the release failed: the row stays until a restart.     *)
ReleaseFailed(w) ==
  /\ w \in restores
  /\ restores' = restores \ {w}
  /\ UNCHANGED <<conversations, log, tables, reserved, clock, process, workers>>

-----------------------------------------------------------------------------
(* The process dies between two transactions, and starts again.            *)
Crash ==
  /\ process # "down"
  /\ process' = "down"
  /\ workers' = {} /\ restores' = {}
  /\ UNCHANGED <<conversations, log, tables, reserved, clock>>

(* Open rebuilds the indexes from the logs in one transaction.             *)
Open ==
  /\ process = "down"
  /\ process' = "recovering"
  /\ submission' = SubmissionIndex
  /\ run' = RunIndex
  /\ call' = CallIndex
  /\ UNCHANGED <<conversations, log, reserved, clock, workers, restores>>

(* RecoverRunning clears the reservations, then fails each running run in  *)
(* a transaction of its own; only then does New start the scheduler.       *)
ClearReservations ==
  /\ process = "recovering"
  /\ reserved # {}
  /\ reserved' = {}
  /\ UNCHANGED <<conversations, log, tables, clock, process, workers, restores>>

(* Mutant: recovery puts the interrupted submission back in the queue.     *)
RecoverByRetry(r) ==
  /\ process = "recovering"
  /\ reserved = {}
  /\ RunIs(r, "running")
  /\ call' = Write(call, {<<r, k>> : k \in RequestedCalls(r)}, "interrupted")
  /\ submission' = Write(submission, {r.sub}, "queued")
  /\ run' = Write(run, {r}, "failed")
  /\ LogAppend(r.sub.conv, Interruption(r) \o <<Ended(r, "failed")>>)
  /\ UNCHANGED <<conversations, reserved, clock, process, workers, restores>>

RecoverRun(r) ==
  /\ process = "recovering"
  /\ reserved = {}
  /\ RunIs(r, "running")
  /\ EndRun(r, "failed")
  /\ UNCHANGED <<conversations, reserved, clock, process, workers, restores>>

Serve ==
  /\ process = "recovering"
  /\ reserved = {}
  /\ \A r \in DOMAIN run : run[r] # "running"
  /\ process' = "open"
  /\ UNCHANGED <<conversations, log, tables, reserved, clock, workers, restores>>

-----------------------------------------------------------------------------
WorkerStep(r) ==
  \/ \E S \in SUBSET Calls : CommitAssistantTurn(r, S)
  \/ \E k \in Calls, status \in {"completed", "failed", "denied"} : ToolFinished(r, k, status)
  \/ FinishRun(r)
  \/ FailRun(r)
  \/ StopRun(r)
  \/ EndNotPersisted(r)

Next ==
  \/ \E c \in Conversations : CreateConversation(c)
  \/ \E c \in Conversations, k \in Keys, t \in 1..MaxTime : Accept(c, k, t)
  \/ \E s \in DOMAIN submission : ClaimRunnable(s)
  \/ \E r \in workers : WorkerStep(r)
  \/ \E r \in DOMAIN run : AppendNote(r)
  \/ \E w \in Workspaces : ReserveWorkspace(w) \/ ReleaseWorkspace(w) \/ ReleaseFailed(w)
  \/ Crash
  \/ Open
  \/ ClearReservations
  \/ \E r \in DOMAIN run : RecoverRun(r)
  \/ Serve

Spec == Init /\ [][Next]_vars

-----------------------------------------------------------------------------
TypeOK ==
  /\ conversations \subseteq Conversations
  /\ log \in [Conversations -> Seq(Event)]
  /\ DOMAIN submission \subseteq Submission
  /\ submission \in [DOMAIN submission -> SubmissionStatus]
  /\ DOMAIN run \subseteq Run
  /\ run \in [DOMAIN run -> RunStatus]
  /\ DOMAIN call \subseteq Run \X Calls
  /\ call \in [DOMAIN call -> CallStatus]
  /\ reserved \subseteq Workspaces /\ restores \subseteq Workspaces
  /\ clock \in 0..MaxTime
  /\ process \in {"down", "recovering", "open"}
  /\ workers \subseteq Run

(* ADR-0012, invariants 1 and 2: at most one active run owns a             *)
(* conversation, and at most one owns a workspace lock, whatever mix of    *)
(* claims, endings, crashes and rebuilds led here.                         *)
OneRunPerLock ==
  \A s, u \in DOMAIN submission :
    submission[s] = "running" /\ submission[u] = "running" /\ s # u
      => s.conv # u.conv /\ LockOf[s.conv] # LockOf[u.conv]

(* While a restore (or the row a restore left behind) reserves a           *)
(* workspace, no run of any of its conversations is active: ReserveWorkspace *)
(* and ClaimRunnable check each other's table.                             *)
ReservationExcludesRuns ==
  \A s \in DOMAIN submission :
    submission[s] = "running" => WorkspaceOf[s.conv] \notin reserved

(* The exclusion of ADR-0012: of runs among themselves, and of runs and    *)
(* restores.                                                               *)
RunsExclude == OneRunPerLock /\ ReservationExcludesRuns

(* Every accepted message is claimed at most once, and the status clients  *)
(* read from its submission is that of its run.                            *)
ClaimedOnce ==
  /\ \A r, q \in DOMAIN run : r.sub = q.sub => r = q
  /\ \A r \in DOMAIN run : SubmissionIs(r.sub, run[r])
  /\ \A s \in DOMAIN submission :
       submission[s] # "queued" => \E r \in DOMAIN run : r.sub = s

(* A call that is still requested belongs to a run that is still running:  *)
(* no ending, and no recovery after a crash, strands a call.               *)
NoStrandedCall ==
  \A p \in DOMAIN call :
    p[1] \in DOMAIN run /\ (call[p] = "requested" => run[p[1]] = "running")

(* The indexes are at all times what a rebuild would make of the logs:     *)
(* opening the store after a crash at any point changes no row.            *)
RebuildExact ==
  submission = SubmissionIndex /\ run = RunIndex /\ call = CallIndex

(* In a conversation's log every entry of a run lies after the run's start *)
(* and before its end, whoever was still writing when the run ended.       *)
RunEntriesBracketed ==
  \A c \in Conversations : \A i \in DOMAIN log[c] :
    log[c][i].type \notin {"input.accepted", "input.admitted", "run.started"} =>
      /\ \E j \in 1..(i - 1) : log[c][j] = Started(log[c][i].run)
      /\ \A j \in 1..(i - 1) : log[c][j].type = "run.ended" => log[c][j].run # log[c][i].run

(* Messages of a conversation are admitted in the order of their accepted  *)
(* times: none is claimed while an earlier one still waits.                *)
NoOvertaking ==
  \A c \in Conversations : \A i, j \in DOMAIN log[c] :
    /\ log[c][i].type = "run.started"
    /\ log[c][j].type = "input.accepted"
    /\ log[c][j].sub.at < log[c][i].run.sub.at
    => \E h \in 1..(i - 1) : log[c][h].type = "run.started" /\ log[c][h].run.sub = log[c][j].sub

(* A key names one accepted message of its conversation, across retries,   *)
(* crashes and rebuilds (the client may send it any number of times).      *)
KeyNamesOneSubmission ==
  \A s, u \in DOMAIN submission : s.conv = u.conv /\ s.key = u.key => s = u

(* What a client was told of an ended run never changes: not by a late     *)
(* writer, not by a rebuild, not by the recovery that fails running runs.  *)
EndIsFinal ==
  [][\A s \in DOMAIN submission :
       submission[s] \in TerminalStatus => s \in DOMAIN submission' /\ submission'[s] = submission[s]]_vars

-----------------------------------------------------------------------------
(* The store implements the queue: crashes, rebuilds, tool calls and notes *)
(* are stutters, a restart releases the reservations, and its recovery is  *)
(* the end of a run like any other.                                        *)
QueueState == [s \in Submission |-> IF s \in DOMAIN submission THEN submission[s] ELSE "absent"]

Queue == INSTANCE RunQueue WITH
  Submissions <- Submission,
  LockFor <- [s \in Submission |-> LockOf[s.conv]],
  WorkspaceFor <- [s \in Submission |-> WorkspaceOf[s.conv]],
  state <- QueueState, held <- reserved

ImplementsQueue == Queue!Spec
=============================================================================
