--------------------------- MODULE RuntimeManager ---------------------------
(***************************************************************************)
(* The process that serves the store (runtime/manager.go, scheduler.go,    *)
(* workspaces.go): one scheduler goroutine that turns wakeups and repair   *)
(* ticks into claims, one goroutine per claimed run, and the client calls  *)
(* that submit, stop, restore and close.  Manager.mu and a conversation's  *)
(* mutex are held over one step each; the claim publication lock and the   *)
(* wait group are held over several and are state.                         *)
(*                                                                         *)
(* The store is the queue of module RunQueue, which RuntimeStore           *)
(* implements.  A submission is claimed at most once, so it also names its *)
(* run, and the goroutine that works on it.                                *)
(***************************************************************************)
EXTENDS Naturals, FiniteSets

CONSTANTS
  Conversations,
  Submissions,
  Workspaces,
  ConvOf,         (* of each submission: its conversation                  *)
  LockFor,        (* of each submission: its conversation's workspace lock *)
  WorkspaceFor,   (* of each submission: its conversation's workspace ID   *)
  NoRun,          (* no submission: an empty entry of the registry         *)
  MaxConcurrent,  (* Config.MaxConcurrent                                  *)
  Restored,       (* bound: workspaces a client restores, once each        *)
  MaxErrors       (* bound: store calls that fail                          *)

ASSUME ManagerAssumption ==
  /\ ConvOf \in [Submissions -> Conversations]
  /\ NoRun \notin Submissions
  /\ Restored \subseteq Workspaces
  /\ MaxConcurrent \in Nat \ {0} /\ MaxErrors \in Nat
  /\ \A s, u \in Submissions :
       /\ ConvOf[s] = ConvOf[u] => LockFor[s] = LockFor[u] /\ WorkspaceFor[s] = WorkspaceFor[u]
       /\ WorkspaceFor[s] \in Workspaces

VARIABLES
  state, held,    (* the store: see RunQueue                               *)
  sched,          (* where the scheduler goroutine is                      *)
  claimed,        (* the claim it holds, from ClaimRunnable to go work     *)
  wake,           (* the one buffered value of m.wake                      *)
  active,         (* m.active: reserved slots                              *)
  running,        (* m.wg                                                  *)
  runs,           (* m.runs: the registered run of each conversation       *)
  stopped,        (* runs whose activeRun.stopped is or was set            *)
  worker,         (* where the goroutine of each run is                    *)
  outcome,        (* what it will record                                   *)
  submit,         (* where the SubmitInput call of each submission is      *)
  restore,        (* where the RestoreWorkspace call of a workspace is     *)
  closer,         (* where the Close call is                               *)
  errors          (* failed store calls so far                             *)

store == <<state, held>>
lives == <<worker, outcome>>
vars  == <<state, held, sched, claimed, wake, active, running, runs, stopped, worker, outcome,
           submit, restore, closer, errors>>

Store == INSTANCE RunQueue

(* m.closed, and with it m.ctx: Close sets one and cancels the other in    *)
(* one critical section.                                                   *)
Closed == closer # "idle"

(* The claim publication lock: the scheduler writes, clients read.         *)
(* Mutant: the lock is released as soon as the claim is durable.           *)
LockedToClaim == sched = "claim"

WriteLocked == sched \in {"claim", "register", "publish"}
ReadLocked  == \E s \in Submissions : submit[s] \in {"entered", "accepted"}

(* The context of a run: a child of m.ctx that StopRun cancels.            *)
Cancelled(s) == Closed \/ s \in stopped

StoreFails == errors < MaxErrors /\ errors' = errors + 1

-----------------------------------------------------------------------------
(* Manager.New: the store holds what earlier processes left, recovered;    *)
(* the scheduler is started and notified.                                  *)
Init ==
  /\ state \in [Submissions -> {"absent", "queued"}]
  /\ held = {}
  /\ sched = "select"
  /\ claimed = NoRun
  /\ wake = TRUE
  /\ active = 0
  /\ running = 1
  /\ runs = [c \in Conversations |-> NoRun]
  /\ stopped = {}
  /\ worker = [s \in Submissions |-> "none"]
  /\ outcome = [s \in Submissions |-> "none"]
  /\ submit = [s \in Submissions |-> "none"]
  /\ restore = [w \in Restored |-> "none"]
  /\ closer = "idle"
  /\ errors = 0

-----------------------------------------------------------------------------
(* The scheduler: the select of schedule, then the loop of dispatch.       *)
elsewhere == <<stopped, lives, submit, restore, closer>>

Wakeup ==
  /\ sched = "select" /\ wake
  /\ wake' = FALSE
  /\ sched' = "reserve"
  /\ UNCHANGED <<store, claimed, active, running, runs, elsewhere, errors>>

RepairTick ==
  /\ sched = "select"
  /\ sched' = "reserve"
  /\ UNCHANGED <<store, claimed, wake, active, running, runs, elsewhere, errors>>

(* Mutant: the queue is emptied first.                                     *)
SchedulerDrains ==
  /\ sched = "select" /\ Closed
  /\ \A s \in Submissions : state[s] # "queued"
  /\ sched' = "gone"
  /\ running' = running - 1
  /\ UNCHANGED <<store, claimed, wake, active, runs, elsewhere, errors>>

SchedulerQuits ==
  /\ sched = "select" /\ Closed
  /\ sched' = "gone"
  /\ running' = running - 1
  /\ UNCHANGED <<store, claimed, wake, active, runs, elsewhere, errors>>

ReserveSlot ==
  /\ sched = "reserve"
  /\ ~Closed /\ active < MaxConcurrent
  /\ active' = active + 1
  /\ sched' = "lock"
  /\ UNCHANGED <<store, claimed, wake, running, runs, elsewhere, errors>>

NoSlot ==
  /\ sched = "reserve"
  /\ Closed \/ active >= MaxConcurrent
  /\ sched' = "select"
  /\ UNCHANGED <<store, claimed, wake, active, running, runs, elsewhere, errors>>

LockPublication ==
  /\ sched = "lock"
  /\ ~ReadLocked
  /\ sched' = "claim"
  /\ UNCHANGED <<store, claimed, wake, active, running, runs, elsewhere, errors>>

ClaimRunnable(s) ==
  /\ sched = "claim"
  /\ Store!Begin(s)
  /\ claimed' = s
  /\ sched' = "register"
  /\ UNCHANGED <<wake, active, running, runs, elsewhere, errors>>

(* Nothing is runnable, the call was cancelled, or the store failed: the   *)
(* lock and then the slot are given back, without a wakeup (one step: only *)
(* the scheduler takes slots).                                             *)
(* Mutant: the slot is kept.                                               *)
NoClaimKeepingSlot ==
  /\ sched = "claim"
  /\ \/ UNCHANGED errors /\ (Closed \/ \A s \in Submissions : ~(state[s] = "queued" /\ Store!MayBegin(s)))
     \/ StoreFails
  /\ sched' = "select"
  /\ UNCHANGED <<store, claimed, wake, active, running, runs, elsewhere>>

NoClaim ==
  /\ sched = "claim"
  /\ \/ UNCHANGED errors /\ (Closed \/ \A s \in Submissions : ~(state[s] = "queued" /\ Store!MayBegin(s)))
     \/ StoreFails
  /\ active' = active - 1
  /\ sched' = "select"
  /\ UNCHANGED <<store, claimed, wake, running, runs, elsewhere>>

Register ==
  /\ sched = "register"
  /\ runs' = [runs EXCEPT ![ConvOf[claimed]] = claimed]
  /\ sched' = "publish"
  /\ UNCHANGED <<store, claimed, wake, active, running, elsewhere, errors>>

(* run.started reaches the subscribers; the publication lock is released.  *)
Publish ==
  /\ sched = "publish"
  /\ sched' = "launch"
  /\ UNCHANGED <<store, claimed, wake, active, running, runs, elsewhere, errors>>

Launch ==
  /\ sched = "launch"
  /\ running' = running + 1
  /\ worker' = [worker EXCEPT ![claimed] = "executing"]
  /\ claimed' = NoRun
  /\ sched' = "reserve"
  /\ UNCHANGED <<store, wake, active, runs, stopped, outcome, submit, restore, closer, errors>>

-----------------------------------------------------------------------------
(* The goroutine of a claimed run.                                         *)
around == <<sched, claimed, stopped, submit, restore, closer>>

(* The runner answers or fails, cancelled or not; a revision that cannot   *)
(* be resolved fails before it starts.                                     *)
RunnerReturns(s, result) ==
  /\ worker[s] = "executing"
  /\ outcome' = [outcome EXCEPT ![s] = result]
  /\ worker' = [worker EXCEPT ![s] = "returned"]
  /\ UNCHANGED <<store, around, wake, active, running, runs, errors>>

(* Under m.mu: read activeRun.stopped, delete the entry.                   *)
(* Mutant: an error is a failure, stopped or not.                          *)
EndedUnasked(s) == IF outcome[s] = "answer" THEN "completed" ELSE "failed"

Ended(s) ==
  CASE outcome[s] = "answer" -> "completed"
    [] outcome[s] = "error" /\ s \in stopped -> "stopped"
    [] outcome[s] = "error" /\ s \notin stopped -> "failed"

Deregister(s) ==
  /\ worker[s] = "returned"
  /\ outcome' = [outcome EXCEPT ![s] = Ended(s)]
  /\ runs' = [runs EXCEPT ![ConvOf[s]] = NoRun]
  /\ worker' = [worker EXCEPT ![s] = "ending"]
  /\ UNCHANGED <<store, around, wake, active, running, errors>>

(* FinishRun, FailRun or StopRun.  A failure is reported and nothing else. *)
Record(s) ==
  /\ worker[s] = "ending"
  /\ \/ Store!End(s, outcome[s]) /\ UNCHANGED errors
     \/ StoreFails /\ UNCHANGED store
  /\ worker' = [worker EXCEPT ![s] = "recorded"]
  /\ UNCHANGED <<around, outcome, wake, active, running, runs>>

(* The deferred releaseSlot(true), in its two steps, and then wg.Done.     *)
(* Mutant: the wakeup is sent before the slot is free.                     *)
ReleaseLate(s) ==
  \/ /\ worker[s] = "recorded"
     /\ wake' = TRUE
     /\ worker' = [worker EXCEPT ![s] = "released"]
     /\ UNCHANGED <<store, around, outcome, active, running, runs, errors>>
  \/ /\ worker[s] = "released"
     /\ active' = active - 1
     /\ worker' = [worker EXCEPT ![s] = "notified"]
     /\ UNCHANGED <<store, around, outcome, wake, running, runs, errors>>

ReleaseSlot(s) ==
  \/ /\ worker[s] = "recorded"
     /\ active' = active - 1
     /\ worker' = [worker EXCEPT ![s] = "released"]
     /\ UNCHANGED <<store, around, outcome, wake, running, runs, errors>>
  \/ /\ worker[s] = "released"
     /\ wake' = TRUE
     /\ worker' = [worker EXCEPT ![s] = "notified"]
     /\ UNCHANGED <<store, around, outcome, active, running, runs, errors>>

WorkerDone(s) ==
  /\ worker[s] = "notified"
  /\ running' = running - 1
  /\ worker' = [worker EXCEPT ![s] = "gone"]
  /\ UNCHANGED <<store, around, outcome, wake, active, runs, errors>>

-----------------------------------------------------------------------------
(* The calls of clients.                                                   *)
process == <<sched, claimed, active, runs, lives>>

(* SubmitInput: the publication lock for reading and the check that the    *)
(* Manager is open; the transaction; the wakeup, and the lock is released. *)
SubmitEnters(s) ==
  /\ submit[s] = "none" /\ state[s] = "absent"
  /\ ~WriteLocked
  /\ ~Closed
  /\ submit' = [submit EXCEPT ![s] = "entered"]
  /\ UNCHANGED <<store, process, wake, running, stopped, restore, closer, errors>>

SubmitAccepts(s) ==
  /\ submit[s] = "entered"
  /\ Store!Submit(s)
  /\ submit' = [submit EXCEPT ![s] = "accepted"]
  /\ UNCHANGED <<process, wake, running, stopped, restore, closer, errors>>

(* The store refuses, or the client went away.                             *)
SubmitFails(s) ==
  /\ submit[s] = "entered"
  /\ submit' = [submit EXCEPT ![s] = "done"]
  /\ UNCHANGED <<store, process, wake, running, stopped, restore, closer, errors>>

SubmitNotifies(s) ==
  /\ submit[s] = "accepted"
  /\ wake' = TRUE
  /\ submit' = [submit EXCEPT ![s] = "done"]
  /\ UNCHANGED <<store, process, running, stopped, restore, closer, errors>>

(* StopRun of a conversation that has a registered run.  It looks at the   *)
(* closed flag earlier, so a Close can come between.                       *)
StopRun(c) ==
  /\ runs[c] # NoRun
  /\ stopped' = stopped \cup {runs[c]}
  /\ UNCHANGED <<store, process, wake, running, submit, restore, closer, errors>>

(* RestoreWorkspace.  The Add comes in one critical section with the check *)
(* of the closed flag.                                                     *)
(* Mutant: the check is left to the store.                                 *)
RestoreUnchecked(w) ==
  /\ restore[w] = "none"
  /\ running' = running + 1
  /\ restore' = [restore EXCEPT ![w] = "entered"]
  /\ UNCHANGED <<store, process, wake, submit, stopped, closer, errors>>

RestoreEnters(w) ==
  /\ restore[w] = "none"
  /\ ~Closed
  /\ running' = running + 1
  /\ restore' = [restore EXCEPT ![w] = "entered"]
  /\ UNCHANGED <<store, process, wake, submit, stopped, closer, errors>>

RestoreReserves(w) ==
  /\ restore[w] = "entered"
  /\ Store!Hold(w)
  /\ restore' = [restore EXCEPT ![w] = "restoring"]
  /\ UNCHANGED <<process, wake, running, submit, stopped, closer, errors>>

(* A run is active in the workspace, or the call was cancelled.            *)
RestoreRefused(w) ==
  /\ restore[w] = "entered"
  /\ Closed \/ \E s \in Submissions : state[s] = "running" /\ WorkspaceFor[s] = w
  /\ restore' = [restore EXCEPT ![w] = "leaving"]
  /\ UNCHANGED <<store, process, wake, running, submit, stopped, closer, errors>>

(* The provider is done, or was cancelled: the release, and its wakeup     *)
(* whether the release succeeded or failed twice.                          *)
RestoreReleases(w) ==
  /\ restore[w] = "restoring"
  /\ \/ Store!Release({w}) /\ UNCHANGED errors
     \/ StoreFails /\ UNCHANGED store
  /\ restore' = [restore EXCEPT ![w] = "released"]
  /\ UNCHANGED <<process, wake, running, submit, stopped, closer>>

RestoreNotifies(w) ==
  /\ restore[w] = "released"
  /\ wake' = TRUE
  /\ restore' = [restore EXCEPT ![w] = "leaving"]
  /\ UNCHANGED <<store, process, running, submit, stopped, closer, errors>>

RestoreDone(w) ==
  /\ restore[w] = "leaving"
  /\ running' = running - 1
  /\ restore' = [restore EXCEPT ![w] = "done"]
  /\ UNCHANGED <<store, process, wake, submit, stopped, closer, errors>>

(* Close: the flag and the cancellation, then wg.Wait.                     *)
CloseBegins ==
  /\ closer = "idle"
  /\ closer' = "waiting"
  /\ UNCHANGED <<store, process, wake, running, submit, stopped, restore, errors>>

CloseReturns ==
  /\ closer = "waiting"
  /\ running = 0
  /\ closer' = "done"
  /\ UNCHANGED <<store, process, wake, running, submit, stopped, restore, errors>>

-----------------------------------------------------------------------------
SchedulerStep ==
  \/ Wakeup \/ SchedulerQuits \/ ReserveSlot \/ NoSlot \/ LockPublication
  \/ \E s \in Submissions : ClaimRunnable(s)
  \/ NoClaim \/ Register \/ Publish \/ Launch

WorkerStep(s) == Deregister(s) \/ Record(s) \/ ReleaseSlot(s) \/ WorkerDone(s)

SubmitStep(s) == SubmitAccepts(s) \/ SubmitFails(s) \/ SubmitNotifies(s)

RestoreStep(w) ==
  \/ RestoreReserves(w) \/ RestoreRefused(w) \/ RestoreReleases(w)
  \/ RestoreNotifies(w) \/ RestoreDone(w)

(* Close has returned and no client call is left.                          *)
Terminated ==
  /\ closer = "done"
  /\ ~ReadLocked
  /\ UNCHANGED vars

Next ==
  \/ SchedulerStep \/ RepairTick
  \/ \E s \in Submissions :
       \/ \E result \in {"answer", "error"} : RunnerReturns(s, result)
       \/ WorkerStep(s) \/ SubmitEnters(s) \/ SubmitStep(s)
  \/ \E c \in Conversations : StopRun(c)
  \/ \E w \in Restored : RestoreEnters(w) \/ RestoreStep(w)
  \/ CloseBegins \/ CloseReturns \/ Terminated

Spec == Init /\ [][Next]_vars

(***************************************************************************)
(* Goroutines that can move do; a select picks among its ready cases at    *)
(* random, so it does not ignore the done channel for ever.  Clients owe   *)
(* nothing before their call is under way.  That a runner nobody cancelled *)
(* returns is a separate assumption, which only EveryMessageRuns makes, and *)
(* so is the repair tick, needed only once a store call has failed.        *)
(***************************************************************************)
GoroutinesRun ==
  /\ WF_vars(SchedulerStep) /\ SF_vars(SchedulerQuits)
  /\ \A s \in Submissions : WF_vars(WorkerStep(s)) /\ WF_vars(SubmitStep(s))
  /\ \A w \in Restored : WF_vars(RestoreStep(w))
  /\ WF_vars(CloseReturns)
  /\ \A s \in Submissions : WF_vars(Cancelled(s) /\ \E result \in {"answer", "error"} : RunnerReturns(s, result))

RunnersReturn ==
  \A s \in Submissions : WF_vars(\E result \in {"answer", "error"} : RunnerReturns(s, result))

RepairsRun == WF_vars(RepairTick /\ errors > 0)

ServingSpec == Spec /\ GoroutinesRun

-----------------------------------------------------------------------------
SchedulerAt == {"select", "reserve", "lock", "claim", "register", "publish", "launch", "gone"}
WorkerAt    == {"none", "executing", "returned", "ending", "recorded", "released", "notified", "gone"}
RestoreAt   == {"none", "entered", "restoring", "released", "leaving", "done"}

TypeOK ==
  /\ state \in [Submissions -> Store!States] /\ held \subseteq Workspaces
  /\ sched \in SchedulerAt /\ claimed \in Submissions \cup {NoRun}
  /\ wake \in BOOLEAN /\ active \in Nat /\ running \in Nat
  /\ runs \in [Conversations -> Submissions \cup {NoRun}] /\ stopped \subseteq Submissions
  /\ worker \in [Submissions -> WorkerAt]
  /\ outcome \in [Submissions -> {"none", "answer", "error"} \cup Store!Outcomes]
  /\ submit \in [Submissions -> {"none", "entered", "accepted", "done"}]
  /\ restore \in [Restored -> RestoreAt]
  /\ closer \in {"idle", "waiting", "done"} /\ errors \in 0..MaxErrors

(* Every slot is held by the scheduler's claim in progress or by a run that *)
(* has not given it back: none leaks, none is given back twice, and there  *)
(* are never more than MaxConcurrent.                                      *)
SlotsExact ==
  /\ active <= MaxConcurrent
  /\ active = Cardinality({s \in Submissions : worker[s] \in {"executing", "returned", "ending", "recorded"}})
                + IF sched \in {"lock", "claim", "register", "publish", "launch"} THEN 1 ELSE 0

(* The registry: an entry is the run whose goroutine is to delete it, and  *)
(* that goroutine finds it (it reads a field of it), so a registration     *)
(* never replaces the entry of another run, and no late deletion removes   *)
(* the entry of the next one.                                              *)
RegistryExact ==
  /\ \A c \in Conversations : runs[c] # NoRun =>
       \/ worker[runs[c]] \in {"executing", "returned"}
       \/ sched \in {"publish", "launch"} /\ claimed = runs[c]
  /\ \A s \in Submissions :
       worker[s] \in {"executing", "returned"} => runs[ConvOf[s]] = s

(* What a client can read of a running run, it can stop: every running run *)
(* is registered, until its runner has returned and its ending is being    *)
(* recorded (or could not be).                                             *)
VisibleRunsRegistered ==
  ~WriteLocked =>
    \A s \in Submissions : state[s] = "running" =>
      runs[ConvOf[s]] = s \/ worker[s] \notin {"none", "executing", "returned"}

(* The scheduler, its runs and the registry stay consistent at every step. *)
ManagerInv == TypeOK /\ RegistryExact /\ VisibleRunsRegistered

(* A stop that was answered with a run is not forgotten: if that run ends  *)
(* without an answer, it is recorded as stopped.                           *)
StopAcknowledged == \A s \in stopped : state[s] # "failed"

(* Once Close has returned, no goroutine of the Manager is left to use the *)
(* store, and none starts.                                                 *)
CloseWaits ==
  closer = "done" =>
    /\ sched = "gone"
    /\ \A s \in Submissions : worker[s] \in {"none", "gone"}
    /\ \A w \in Restored : restore[w] \in {"none", "done"}

-----------------------------------------------------------------------------
(* What holds a message back for good: a run of its lock whose ending, or  *)
(* a restore of its workspace whose release, the store failed to record.   *)
Blocked(s) ==
  \/ \E u \in Submissions :
       state[u] = "running" /\ LockFor[u] = LockFor[s] /\ worker[u] \in {"recorded", "released", "notified", "gone"}
  \/ WorkspaceFor[s] \in held /\ restore[WorkspaceFor[s]] \in {"released", "leaving", "done"}

(* An accepted message is claimed sooner or later, unless the Manager      *)
(* closes or the store's own failures hold it back, provided runners       *)
(* return: no wake-up is lost and no slot is.                              *)
EveryMessageRuns ==
  RunnersReturn /\ RepairsRun =>
    <>[](Closed \/ \A s \in Submissions : state[s] = "queued" => Blocked(s))

(* Whatever is cancelled ends: a stopped run ends, or its ending is        *)
(* reported as not recorded, and Close returns, whatever it finds under way. *)
CancellationEnds ==
  /\ <>[](\A s \in stopped : worker[s] = "gone")
  /\ (closer = "waiting") ~> (closer = "done")
=============================================================================
