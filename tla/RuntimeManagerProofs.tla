------------------------ MODULE RuntimeManagerProofs ------------------------
(***************************************************************************)
(* Theorems about the serving process, for any submissions, conversations  *)
(* and workspaces, any number of slots and any number of failing store     *)
(* calls.  The counters active and running are compared with sets: what    *)
(* holds a slot, and what the wait group waits for.  The sets are finite   *)
(* because they start empty and gain one member at a time; nothing is      *)
(* assumed of the constants beyond ManagerAssumption.                      *)
(***************************************************************************)
EXTENDS RuntimeManager, FiniteSetTheorems, TLAPS

Claiming == {"register", "publish", "launch"}
AtWork   == {"executing", "returned", "ending"}

(* Goroutines that hold a slot, goroutines of runs, restores under way.    *)
Holding   == {s \in Submissions : worker[s] \in {"executing", "returned", "ending", "recorded"}}
Live      == {s \in Submissions : worker[s] \notin {"none", "gone"}}
Restoring == {w \in Restored : restore[w] \notin {"none", "done"}}

(* How far a submission is in the store and in the process.                *)
Phases ==
  /\ claimed # NoRun <=> sched \in Claiming
  /\ claimed # NoRun => state[claimed] = "running" /\ worker[claimed] = "none"
  /\ sched \in {"publish", "launch"} => runs[ConvOf[claimed]] = claimed
  /\ \A s \in Submissions :
       /\ worker[s] \in AtWork => state[s] = "running"
       /\ state[s] \in {"absent", "queued"} => worker[s] = "none" /\ s \notin stopped
       /\ state[s] \in Store!Outcomes => worker[s] \notin AtWork \cup {"none"}
       /\ state[s] = "running" /\ worker[s] = "none" => s = claimed

(* What the goroutine of a run is about to record.                         *)
Endings ==
  \A s \in Submissions :
    /\ worker[s] = "returned" => outcome[s] \in {"answer", "error"}
    /\ worker[s] = "ending" => outcome[s] \in Store!Outcomes /\ (s \in stopped => outcome[s] # "failed")

(* Two running submissions do not share a lock (RunQueue!Exclusive).       *)
OnePerLock ==
  \A s, u \in Submissions :
    state[s] = "running" /\ state[u] = "running" /\ s # u => LockFor[s] # LockFor[u]

(* A registered run can be stopped: its ending is not decided.             *)
Registered ==
  \A c \in Conversations : runs[c] # NoRun =>
    /\ ConvOf[runs[c]] = c
    /\ state[runs[c]] = "running"
    /\ worker[runs[c]] \in {"none", "executing", "returned"}

ControlInv ==
  TypeOK /\ Phases /\ Endings /\ OnePerLock /\ Registered /\ RegistryExact /\ StopAcknowledged

(* The wait group counts the scheduler, the runs and the restores, and     *)
(* Close returns only when it is empty.                                    *)
Counted ==
  /\ IsFiniteSet(Holding) /\ IsFiniteSet(Live) /\ IsFiniteSet(Restoring)
  /\ SlotsExact
  /\ running = Cardinality(Live) + Cardinality(Restoring) + IF sched = "gone" THEN 0 ELSE 1
  /\ closer = "done" => running = 0

ServingInv == ControlInv /\ Counted

-----------------------------------------------------------------------------
(* A finite set that gains one member.                                     *)
LEMMA Joins ==
  ASSUME NEW S, NEW x, IsFiniteSet(S), x \notin S
  PROVE  /\ IsFiniteSet(S \cup {x})
         /\ Cardinality(S \cup {x}) = Cardinality(S) + 1
BY FS_AddElement

(* A finite set that loses one.                                            *)
LEMMA Parts ==
  ASSUME NEW S, NEW x, IsFiniteSet(S), x \in S
  PROVE  /\ IsFiniteSet(S \ {x})
         /\ Cardinality(S \ {x}) = Cardinality(S) - 1
BY FS_RemoveElement

(* Both counters are numbers, whatever the step.                           *)
LEMMA CountersAreNumbers == Counted => active \in Nat /\ running \in Nat
<1>1. ASSUME Counted
      PROVE  Cardinality(Holding) \in Nat /\ Cardinality(Live) \in Nat /\ Cardinality(Restoring) \in Nat
  BY <1>1, FS_CardinalityType DEF Counted
<1>2. QED
  BY <1>1 DEF Counted, SlotsExact, Holding

(* The slot of the claim in progress.                                      *)
ClaimSlot == IF sched \in {"lock", "claim", "register", "publish", "launch"} THEN 1 ELSE 0

(* SlotsExact, in the state before and after a step, over these two sets.  *)
LEMMA SlotsMeaning ==
  /\ SlotsExact <=> active <= MaxConcurrent /\ active = Cardinality(Holding) + ClaimSlot
  /\ SlotsExact' <=> active' <= MaxConcurrent /\ active' = Cardinality(Holding') + ClaimSlot'
  /\ ClaimSlot \in {0, 1}
BY ManagerAssumption DEF SlotsExact, Holding, ClaimSlot

-----------------------------------------------------------------------------
(* Where the goroutines of one run are after it moves.                     *)
LEMMA WorkerMoves ==
  ASSUME TypeOK, NEW s \in Submissions, NEW place, worker' = [worker EXCEPT ![s] = place]
  PROVE  /\ Holding' = IF place \in {"executing", "returned", "ending", "recorded"}
                        THEN Holding \cup {s} ELSE Holding \ {s}
         /\ Live' = IF place \in {"none", "gone"} THEN Live \ {s} ELSE Live \cup {s}
BY DEF TypeOK, Holding, Live

(* Which restores are under way after one of them moves.                   *)
LEMMA RestoreMoves ==
  ASSUME TypeOK, NEW w \in Restored, NEW place, restore' = [restore EXCEPT ![w] = place]
  PROVE  Restoring' = IF place \in {"none", "done"} THEN Restoring \ {w} ELSE Restoring \cup {w}
BY DEF TypeOK, Restoring

(* The scheduler: it takes a slot, gives it back when there is no claim,   *)
(* and hands it to the goroutine of the run.                               *)
LEMMA SchedulerCounts == ServingInv /\ (SchedulerStep \/ RepairTick) => Counted'
<1> SUFFICES ASSUME ServingInv, SchedulerStep \/ RepairTick PROVE Counted'
  OBVIOUS
<1> USE DEF ServingInv, ControlInv
<1>n. active \in Nat /\ running \in Nat /\ MaxConcurrent \in Nat
  BY CountersAreNumbers, ManagerAssumption
<1>c. Cardinality(Holding) \in Nat /\ Cardinality(Live) \in Nat /\ Cardinality(Restoring) \in Nat
  BY FS_CardinalityType DEF Counted
<1>s. sched \in SchedulerAt
  BY DEF TypeOK
<1>u. ASSUME UNCHANGED <<worker, restore>>
      PROVE  Holding' = Holding /\ Live' = Live /\ Restoring' = Restoring
  BY <1>u DEF Holding, Live, Restoring
<1>1. CASE Wakeup \/ RepairTick \/ NoSlot \/ LockPublication \/ Register \/ Publish
             \/ \E s \in Submissions : ClaimRunnable(s)
  <2>1. /\ UNCHANGED <<worker, restore, active, running, closer>>
        /\ sched # "gone" /\ sched' # "gone"
        /\ ClaimSlot' = ClaimSlot
    BY <1>1 DEF ClaimSlot, Wakeup, RepairTick, NoSlot, LockPublication, Register, Publish, ClaimRunnable, elsewhere, lives
  <2>2. QED
    BY <2>1, <1>u, SlotsMeaning DEF Counted
<1>2. CASE ReserveSlot
  <2>1. /\ UNCHANGED <<worker, restore, running, closer>>
        /\ sched = "reserve" /\ sched' = "lock" /\ active' = active + 1 /\ active < MaxConcurrent
        /\ ClaimSlot = 0 /\ ClaimSlot' = 1
    BY <1>2 DEF ClaimSlot, ReserveSlot, elsewhere, lives
  <2>2. QED
    BY <2>1, <1>n, <1>c, <1>u, SlotsMeaning DEF Counted
<1>3. CASE NoClaim
  <2>1. /\ UNCHANGED <<worker, restore, running, closer>>
        /\ sched = "claim" /\ sched' = "select" /\ active' = active - 1
        /\ ClaimSlot = 1 /\ ClaimSlot' = 0
    BY <1>3 DEF ClaimSlot, NoClaim, elsewhere, lives
  <2>2. QED
    BY <2>1, <1>n, <1>c, <1>u, SlotsMeaning DEF Counted
<1>4. CASE SchedulerQuits
  <2>1. /\ UNCHANGED <<worker, restore, active, closer>>
        /\ sched = "select" /\ sched' = "gone" /\ running' = running - 1
        /\ ClaimSlot = 0 /\ ClaimSlot' = 0
    BY <1>4 DEF ClaimSlot, SchedulerQuits, elsewhere, lives
  <2>2. closer # "done"
    BY <2>1, <1>c DEF Counted
  <2>3. QED
    BY <2>1, <2>2, <1>n, <1>c, <1>u, SlotsMeaning DEF Counted
<1>5. CASE Launch
  <2>1. /\ UNCHANGED <<restore, active, closer>>
        /\ sched = "launch" /\ sched' = "reserve" /\ running' = running + 1
        /\ worker' = [worker EXCEPT ![claimed] = "executing"]
        /\ ClaimSlot = 1 /\ ClaimSlot' = 0
    BY <1>5 DEF Launch, ClaimSlot
  <2>2. claimed \in Submissions /\ worker[claimed] = "none"
    BY <2>1 DEF Phases, TypeOK, Claiming
  <2>3. claimed \notin Holding /\ claimed \notin Live
    BY <2>2 DEF Holding, Live
  <2>4. Holding' = Holding \cup {claimed} /\ Live' = Live \cup {claimed}
    BY <2>1, <2>2, WorkerMoves
  <2>5. /\ IsFiniteSet(Holding') /\ Cardinality(Holding') = Cardinality(Holding) + 1
        /\ IsFiniteSet(Live') /\ Cardinality(Live') = Cardinality(Live) + 1
    BY <2>3, <2>4, Joins DEF Counted
  <2>6. Restoring' = Restoring
    BY <2>1 DEF Restoring
  <2>7. closer # "done"
    BY <2>1, <1>c DEF Counted
  <2>8. QED
    BY <2>1, <2>5, <2>6, <2>7, <1>n, <1>c, SlotsMeaning DEF Counted
<1>6. QED
  BY <1>1, <1>2, <1>3, <1>4, <1>5 DEF SchedulerStep

(* A run: its slot goes when it is released, and its goroutine later.      *)
LEMMA WorkerCounts ==
  ASSUME ServingInv, NEW s \in Submissions,
         WorkerStep(s) \/ \E result \in {"answer", "error"} : RunnerReturns(s, result)
  PROVE  Counted'
<1> USE DEF ServingInv, ControlInv
<1>n. active \in Nat /\ running \in Nat /\ MaxConcurrent \in Nat
  BY CountersAreNumbers, ManagerAssumption
<1>c. Cardinality(Holding) \in Nat /\ Cardinality(Live) \in Nat /\ Cardinality(Restoring) \in Nat
  BY FS_CardinalityType DEF Counted
<1>r. UNCHANGED <<sched, restore, closer>> /\ Restoring' = Restoring /\ ClaimSlot' = ClaimSlot
  BY DEF ClaimSlot, WorkerStep, RunnerReturns, Deregister, Record, ReleaseSlot, WorkerDone, around, Restoring
<1>1. CASE (\E result \in {"answer", "error"} : RunnerReturns(s, result)) \/ Deregister(s) \/ Record(s)
  <2>1. /\ UNCHANGED <<active, running>>
        /\ worker[s] \in {"executing", "returned", "ending"}
        /\ \E place \in {"returned", "ending", "recorded"} : worker' = [worker EXCEPT ![s] = place]
    BY <1>1 DEF RunnerReturns, Deregister, Record
  <2>2. Holding' = Holding /\ Live' = Live
    BY <2>1, WorkerMoves DEF Holding, Live
  <2>3. QED
    BY <2>1, <2>2, <1>r, SlotsMeaning DEF Counted
<1>2. CASE ReleaseSlot(s) /\ worker[s] = "recorded"
  <2>1. /\ UNCHANGED running /\ active' = active - 1
        /\ worker' = [worker EXCEPT ![s] = "released"]
    BY <1>2 DEF ReleaseSlot
  <2>2. s \in Holding /\ s \in Live
    BY <1>2 DEF Holding, Live
  <2>3. Holding' = Holding \ {s} /\ Live' = Live \cup {s}
    BY <2>1 DEF Holding, Live, TypeOK
  <2>4. IsFiniteSet(Holding') /\ Cardinality(Holding') = Cardinality(Holding) - 1
    BY <2>2, <2>3, Parts DEF Counted
  <2>5. Live' = Live
    BY <2>2, <2>3
  <2>6. SlotsExact'
    BY <2>1, <2>4, <1>r, <1>n, <1>c, SlotsMeaning DEF Counted
  <2>7. QED
    BY <2>1, <2>4, <2>5, <2>6, <1>r DEF Counted
<1>3. CASE ReleaseSlot(s) /\ worker[s] = "released"
  <2>1. UNCHANGED <<active, running>> /\ worker' = [worker EXCEPT ![s] = "notified"]
    BY <1>3 DEF ReleaseSlot
  <2>2. Holding' = Holding /\ Live' = Live
    BY <1>3, <2>1, WorkerMoves DEF Holding, Live
  <2>3. QED
    BY <2>1, <2>2, <1>r, SlotsMeaning DEF Counted
<1>4. CASE WorkerDone(s)
  <2>1. /\ UNCHANGED active /\ running' = running - 1 /\ worker[s] = "notified"
        /\ worker' = [worker EXCEPT ![s] = "gone"]
    BY <1>4 DEF WorkerDone
  <2>2. Holding' = Holding /\ Live' = Live \ {s} /\ s \in Live
    BY <2>1, WorkerMoves DEF Holding, Live
  <2>3. /\ IsFiniteSet(Live') /\ Cardinality(Live') = Cardinality(Live) - 1
        /\ Cardinality(Live') \in Nat
    BY <2>2, Parts, FS_CardinalityType DEF Counted
  <2>4. closer # "done"
    BY <2>3, <1>c DEF Counted
  <2>5. QED
    BY <2>1, <2>2, <2>3, <2>4, <1>r, <1>n, <1>c, SlotsMeaning DEF Counted
<1>5. QED
  BY <1>1, <1>2, <1>3, <1>4 DEF WorkerStep, ReleaseSlot

(* The clients: a restore joins the wait group while the Manager is open,  *)
(* and Close returns when the group is empty.                              *)
LEMMA ClientCounts ==
  ASSUME ServingInv,
         \/ \E s \in Submissions : SubmitEnters(s) \/ SubmitStep(s)
         \/ \E c \in Conversations : StopRun(c)
         \/ \E w \in Restored : RestoreEnters(w) \/ RestoreStep(w)
         \/ CloseBegins \/ CloseReturns \/ UNCHANGED vars
  PROVE  Counted'
<1> USE DEF ServingInv, ControlInv
<1>n. active \in Nat /\ running \in Nat
  BY CountersAreNumbers
<1>c. Cardinality(Holding) \in Nat /\ Cardinality(Live) \in Nat /\ Cardinality(Restoring) \in Nat
  BY FS_CardinalityType DEF Counted
<1>u. UNCHANGED <<sched, worker, active>>
  BY DEF SubmitEnters, SubmitStep, SubmitAccepts, SubmitFails, SubmitNotifies, StopRun, RestoreEnters,
         RestoreStep, RestoreReserves, RestoreRefused, RestoreReleases, RestoreNotifies, RestoreDone,
         CloseBegins, CloseReturns, process, lives, vars
<1>s. Holding' = Holding /\ Live' = Live /\ (SlotsExact => SlotsExact')
  BY <1>u DEF Holding, Live, SlotsExact
<1>1. CASE \E w \in Restored : RestoreEnters(w)
  <2> PICK w \in Restored : RestoreEnters(w)
    BY <1>1
  <2>1. /\ closer = "idle" /\ UNCHANGED closer /\ running' = running + 1
        /\ restore[w] = "none" /\ restore' = [restore EXCEPT ![w] = "entered"]
    BY DEF RestoreEnters, Closed
  <2>2. Restoring' = Restoring \cup {w} /\ w \notin Restoring
    BY <2>1, RestoreMoves DEF Restoring
  <2>3. IsFiniteSet(Restoring') /\ Cardinality(Restoring') = Cardinality(Restoring) + 1
    BY <2>2, Joins DEF Counted
  <2>4. QED
    BY <2>1, <2>3, <1>n, <1>c, <1>u, <1>s DEF Counted
<1>2. CASE \E w \in Restored : RestoreDone(w)
  <2> PICK w \in Restored : RestoreDone(w)
    BY <1>2
  <2>1. /\ UNCHANGED closer /\ running' = running - 1
        /\ restore[w] = "leaving" /\ restore' = [restore EXCEPT ![w] = "done"]
    BY DEF RestoreDone
  <2>2. Restoring' = Restoring \ {w} /\ w \in Restoring
    BY <2>1, RestoreMoves DEF Restoring
  <2>3. /\ IsFiniteSet(Restoring') /\ Cardinality(Restoring') = Cardinality(Restoring) - 1
        /\ Cardinality(Restoring') \in Nat
    BY <2>2, Parts, FS_CardinalityType DEF Counted
  <2>4. closer # "done"
    BY <2>3, <1>c DEF Counted
  <2>5. QED
    BY <2>1, <2>3, <2>4, <1>n, <1>c, <1>u, <1>s DEF Counted
<1>3. CASE \E w \in Restored : \/ RestoreReserves(w) \/ RestoreRefused(w)
                              \/ RestoreReleases(w) \/ RestoreNotifies(w)
  <2> PICK w \in Restored : \/ RestoreReserves(w) \/ RestoreRefused(w)
                            \/ RestoreReleases(w) \/ RestoreNotifies(w)
    BY <1>3
  <2>1. /\ UNCHANGED <<closer, running>> /\ restore[w] \in {"entered", "restoring", "released"}
        /\ \E place \in {"restoring", "leaving", "released"} : restore' = [restore EXCEPT ![w] = place]
    BY DEF RestoreReserves, RestoreRefused, RestoreReleases, RestoreNotifies
  <2>2. Restoring' = Restoring
    BY <2>1, RestoreMoves DEF Restoring
  <2>3. QED
    BY <2>1, <2>2, <1>u, <1>s DEF Counted
<1>4. CASE \/ \E s \in Submissions : SubmitEnters(s) \/ SubmitStep(s)
           \/ \E c \in Conversations : StopRun(c)
           \/ CloseBegins \/ CloseReturns \/ UNCHANGED vars
  <2>1. UNCHANGED <<restore, running>> /\ (closer' = closer \/ closer' = "waiting" \/ running = 0)
    BY <1>4 DEF SubmitEnters, SubmitStep, SubmitAccepts, SubmitFails, SubmitNotifies, StopRun,
                CloseBegins, CloseReturns, vars
  <2>2. Restoring' = Restoring
    BY <2>1 DEF Restoring
  <2>3. QED
    BY <2>1, <2>2, <1>u, <1>s DEF Counted
<1>5. QED
  BY <1>1, <1>2, <1>3, <1>4 DEF RestoreStep

(* The counters stay exact in every step.                                  *)
LEMMA CountStep == ServingInv /\ [Next]_vars => Counted'
BY SchedulerCounts, WorkerCounts, ClientCounts DEF Next, Terminated

-----------------------------------------------------------------------------
(* A running run is registered unless its claim is being published or its  *)
(* ending recorded.                                                        *)
LEMMA RunsAreVisible == ControlInv => VisibleRunsRegistered
BY ManagerAssumption DEF ControlInv, Phases, RegistryExact, VisibleRunsRegistered, WriteLocked, Claiming

(* The scheduler: a claim excludes the runs of its lock, so the entry it   *)
(* registers replaces none.                                                *)
LEMMA SchedulerControl ==
  ASSUME ControlInv, active' \in Nat, running' \in Nat, SchedulerStep \/ RepairTick
  PROVE  ControlInv'
<1> USE DEF ControlInv
<1>1. CASE Wakeup \/ RepairTick \/ NoSlot \/ SchedulerQuits \/ ReserveSlot \/ LockPublication \/ NoClaim
  <2>1. /\ UNCHANGED <<state, held, claimed, runs, stopped, worker, outcome, submit, restore, closer>>
        /\ sched \notin Claiming /\ sched' \in SchedulerAt \ Claiming
        /\ wake' \in BOOLEAN /\ errors' \in 0..MaxErrors
    <3>1. CASE Wakeup \/ RepairTick \/ NoSlot \/ SchedulerQuits \/ ReserveSlot \/ LockPublication
      BY <3>1 DEF Wakeup, RepairTick, NoSlot, SchedulerQuits, ReserveSlot, LockPublication,
                  TypeOK, SchedulerAt, Claiming, elsewhere, lives, store
    <3>2. CASE NoClaim
      <4>1. errors' = errors \/ (errors < MaxErrors /\ errors' = errors + 1)
        BY <3>2 DEF NoClaim, StoreFails
      <4>2. errors' \in 0..MaxErrors
        BY <4>1, ManagerAssumption DEF TypeOK
      <4>3. QED
        BY <3>2, <4>2 DEF NoClaim, TypeOK, SchedulerAt, Claiming, elsewhere, lives, store
    <3>3. QED
      BY <1>1, <3>1, <3>2
  <2>2. TypeOK'
    BY <2>1 DEF TypeOK, SchedulerAt
  <2>3. Phases'
    BY <2>1 DEF Phases, Claiming
  <2>4. Endings'
    BY <2>1 DEF Endings
  <2>5. OnePerLock'
    BY <2>1 DEF OnePerLock
  <2>6. Registered'
    BY <2>1 DEF Registered
  <2>7. RegistryExact'
    BY <2>1 DEF RegistryExact, Claiming
  <2>8. StopAcknowledged'
    BY <2>1 DEF StopAcknowledged
  <2>9. QED
    BY <2>2, <2>3, <2>4, <2>5, <2>6, <2>7, <2>8
<1>2. CASE \E s \in Submissions : ClaimRunnable(s)
  <2> PICK s \in Submissions : ClaimRunnable(s)
    BY <1>2
  <2>1. /\ sched = "claim" /\ sched' = "register" /\ claimed' = s
        /\ state[s] = "queued" /\ state' = [state EXCEPT ![s] = "running"]
        /\ \A u \in Submissions : state[u] = "running" => LockFor[u] # LockFor[s]
        /\ UNCHANGED <<held, wake, runs, stopped, worker, outcome, submit, restore, closer, errors>>
    BY DEF ClaimRunnable, Store!Begin, Store!MayBegin, elsewhere, lives
  <2>2. TypeOK'
    BY <2>1 DEF TypeOK, SchedulerAt, Store!States
  <2>3. Phases'
    BY <2>1, ManagerAssumption DEF Phases, TypeOK, Claiming, AtWork, Store!Outcomes
  <2>4. Endings'
    BY <2>1 DEF Endings
  <2>5. OnePerLock'
    BY <2>1 DEF OnePerLock, TypeOK
  <2>6. Registered'
    BY <2>1 DEF Registered, TypeOK
  <2>7. RegistryExact'
    BY <2>1 DEF RegistryExact
  <2>8. StopAcknowledged'
    BY <2>1 DEF StopAcknowledged, TypeOK
  <2>9. QED
    BY <2>2, <2>3, <2>4, <2>5, <2>6, <2>7, <2>8
<1>3. CASE Register
  <2>1. /\ sched = "register" /\ sched' = "publish"
        /\ runs' = [runs EXCEPT ![ConvOf[claimed]] = claimed]
        /\ UNCHANGED <<state, held, claimed, wake, stopped, worker, outcome, submit, restore, closer, errors>>
    BY <1>3 DEF Register, elsewhere, lives, store
  <2>2. TypeOK'
    BY <2>1, ManagerAssumption DEF TypeOK, SchedulerAt, Phases, Claiming
  <2>3. Phases'
    BY <2>1, ManagerAssumption DEF Phases, TypeOK, Claiming
  <2>4. Endings'
    BY <2>1 DEF Endings
  <2>5. OnePerLock'
    BY <2>1 DEF OnePerLock
  <2>6. Registered'
    BY <2>1, ManagerAssumption DEF Registered, TypeOK, Phases, Claiming
  <2>7. RegistryExact'
    BY <2>1, ManagerAssumption DEF RegistryExact, TypeOK, Phases, OnePerLock, Claiming, AtWork
  <2>8. StopAcknowledged'
    BY <2>1 DEF StopAcknowledged
  <2>9. QED
    BY <2>2, <2>3, <2>4, <2>5, <2>6, <2>7, <2>8
<1>4. CASE Publish
  <2>1. /\ sched = "publish" /\ sched' = "launch"
        /\ UNCHANGED <<state, held, claimed, wake, runs, stopped, worker, outcome, submit, restore, closer, errors>>
    BY <1>4 DEF Publish, elsewhere, lives, store
  <2>2. TypeOK'
    BY <2>1 DEF TypeOK, SchedulerAt
  <2>3. Phases'
    BY <2>1 DEF Phases, Claiming
  <2>4. Endings'
    BY <2>1 DEF Endings
  <2>5. OnePerLock'
    BY <2>1 DEF OnePerLock
  <2>6. Registered'
    BY <2>1 DEF Registered
  <2>7. RegistryExact'
    BY <2>1 DEF RegistryExact
  <2>8. StopAcknowledged'
    BY <2>1 DEF StopAcknowledged
  <2>9. QED
    BY <2>2, <2>3, <2>4, <2>5, <2>6, <2>7, <2>8
<1>5. CASE Launch
  <2>1. /\ sched = "launch" /\ sched' = "reserve" /\ claimed' = NoRun
        /\ worker' = [worker EXCEPT ![claimed] = "executing"]
        /\ UNCHANGED <<state, held, wake, runs, stopped, outcome, submit, restore, closer, errors>>
    BY <1>5 DEF Launch, store
  <2>2. TypeOK'
    BY <2>1 DEF TypeOK, SchedulerAt, WorkerAt, Phases, Claiming
  <2>3. Phases'
    BY <2>1, ManagerAssumption DEF Phases, TypeOK, Claiming, AtWork, Store!Outcomes
  <2>4. Endings'
    BY <2>1 DEF Endings, TypeOK
  <2>5. OnePerLock'
    BY <2>1 DEF OnePerLock
  <2>6. Registered'
    BY <2>1 DEF Registered, TypeOK
  <2>7. RegistryExact'
    BY <2>1 DEF RegistryExact, TypeOK, Phases, Claiming
  <2>8. StopAcknowledged'
    BY <2>1 DEF StopAcknowledged
  <2>9. QED
    BY <2>2, <2>3, <2>4, <2>5, <2>6, <2>7, <2>8
<1>6. QED
  BY <1>1, <1>2, <1>3, <1>4, <1>5 DEF SchedulerStep

(* The goroutine of a run: it leaves the registry with its ending decided, *)
(* and no stop can reach it between that and the record.                   *)
LEMMA WorkerControl ==
  ASSUME ControlInv, active' \in Nat, running' \in Nat, NEW s \in Submissions,
         WorkerStep(s) \/ \E result \in {"answer", "error"} : RunnerReturns(s, result)
  PROVE  ControlInv'
<1> USE DEF ControlInv
<1>1. CASE \E result \in {"answer", "error"} : RunnerReturns(s, result)
  <2> PICK result \in {"answer", "error"} : RunnerReturns(s, result)
    BY <1>1
  <2>1. /\ worker[s] = "executing" /\ worker' = [worker EXCEPT ![s] = "returned"]
        /\ outcome' = [outcome EXCEPT ![s] = result]
        /\ UNCHANGED <<held, sched, claimed, stopped, submit, restore, closer, state, wake, runs, errors>>
    BY DEF RunnerReturns, around, store
  <2>2. TypeOK'
    BY <2>1 DEF TypeOK, WorkerAt
  <2>3. Phases'
    BY <2>1 DEF Phases, TypeOK, AtWork
  <2>4. Endings'
    BY <2>1 DEF Endings, TypeOK
  <2>5. OnePerLock'
    BY <2>1 DEF OnePerLock
  <2>6. Registered'
    BY <2>1 DEF Registered, TypeOK
  <2>7. RegistryExact'
    BY <2>1 DEF RegistryExact, TypeOK
  <2>8. StopAcknowledged'
    BY <2>1 DEF StopAcknowledged
  <2>9. QED
    BY <2>2, <2>3, <2>4, <2>5, <2>6, <2>7, <2>8
<1>2. CASE Deregister(s)
  <2>1. /\ worker[s] = "returned" /\ worker' = [worker EXCEPT ![s] = "ending"]
        /\ outcome' = [outcome EXCEPT ![s] = Ended(s)]
        /\ runs' = [runs EXCEPT ![ConvOf[s]] = NoRun]
        /\ UNCHANGED <<held, sched, claimed, stopped, submit, restore, closer, state, wake, errors>>
    BY <1>2 DEF Deregister, around, store
  <2>2. TypeOK'
    BY <2>1 DEF TypeOK, WorkerAt, Endings, Ended, Store!Outcomes
  <2>3. Phases'
    BY <2>1, ManagerAssumption DEF Phases, TypeOK, AtWork, RegistryExact, Claiming
  <2>4. Endings'
    BY <2>1 DEF Endings, TypeOK, Ended, Store!Outcomes
  <2>5. OnePerLock'
    BY <2>1 DEF OnePerLock
  <2>6. Registered'
    BY <2>1 DEF Registered, TypeOK, RegistryExact
  <2>7. RegistryExact'
    BY <2>1, ManagerAssumption DEF RegistryExact, TypeOK, Registered
  <2>8. StopAcknowledged'
    BY <2>1 DEF StopAcknowledged
  <2>9. QED
    BY <2>2, <2>3, <2>4, <2>5, <2>6, <2>7, <2>8
<1>3. CASE Record(s)
  <2>1. /\ worker[s] = "ending" /\ worker' = [worker EXCEPT ![s] = "recorded"]
        /\ state' = state \/ state' = [state EXCEPT ![s] = outcome[s]]
        /\ errors' \in 0..MaxErrors
        /\ UNCHANGED <<held, sched, claimed, stopped, submit, restore, closer, outcome, wake, runs>>
    BY <1>3, ManagerAssumption DEF Record, Store!End, StoreFails, TypeOK, around, store
  <2>2. TypeOK'
    BY <2>1 DEF TypeOK, WorkerAt, Endings, Store!Outcomes, Store!States
  <2>3. Phases'
    BY <2>1 DEF Phases, Endings, TypeOK, AtWork, Store!Outcomes
  <2>4. Endings'
    BY <2>1 DEF Endings, TypeOK
  <2>5. OnePerLock'
    BY <2>1 DEF OnePerLock, Endings, TypeOK, Store!Outcomes
  <2>6. Registered'
    BY <2>1 DEF Registered, TypeOK
  <2>7. RegistryExact'
    BY <2>1 DEF RegistryExact, TypeOK
  <2>8. StopAcknowledged'
    BY <2>1 DEF StopAcknowledged, Endings, TypeOK
  <2>9. QED
    BY <2>2, <2>3, <2>4, <2>5, <2>6, <2>7, <2>8
<1>4. CASE ReleaseSlot(s) \/ WorkerDone(s)
  <2>1. /\ worker[s] \in {"recorded", "released", "notified"} /\ wake' \in BOOLEAN
        /\ \E place \in {"released", "notified", "gone"} : worker' = [worker EXCEPT ![s] = place]
        /\ UNCHANGED <<held, sched, claimed, stopped, submit, restore, closer, state, outcome, runs, errors>>
    BY <1>4 DEF ReleaseSlot, WorkerDone, TypeOK, around, store
  <2>2. TypeOK'
    BY <2>1 DEF TypeOK, WorkerAt
  <2>3. Phases'
    BY <2>1 DEF Phases, TypeOK, AtWork, Store!Outcomes
  <2>4. Endings'
    BY <2>1 DEF Endings, TypeOK
  <2>5. OnePerLock'
    BY <2>1 DEF OnePerLock
  <2>6. Registered'
    BY <2>1 DEF Registered, TypeOK
  <2>7. RegistryExact'
    BY <2>1 DEF RegistryExact, TypeOK
  <2>8. StopAcknowledged'
    BY <2>1 DEF StopAcknowledged
  <2>9. QED
    BY <2>2, <2>3, <2>4, <2>5, <2>6, <2>7, <2>8
<1>5. QED
  BY <1>1, <1>2, <1>3, <1>4 DEF WorkerStep

(* The clients: a stop reaches a registered run, whose ending is open.     *)
LEMMA ClientControl ==
  ASSUME ControlInv, active' \in Nat, running' \in Nat,
         \/ \E s \in Submissions : SubmitEnters(s) \/ SubmitStep(s)
         \/ \E c \in Conversations : StopRun(c)
         \/ \E w \in Restored : RestoreEnters(w) \/ RestoreStep(w)
         \/ CloseBegins \/ CloseReturns \/ UNCHANGED vars
  PROVE  ControlInv'
<1> USE DEF ControlInv
<1>1. CASE \E s \in Submissions : SubmitAccepts(s)
  <2> PICK s \in Submissions : SubmitAccepts(s)
    BY <1>1
  <2>1. /\ state[s] = "absent" /\ state' = [state EXCEPT ![s] = "queued"]
        /\ submit' = [submit EXCEPT ![s] = "accepted"]
        /\ UNCHANGED <<held, sched, claimed, wake, runs, stopped, worker, outcome, restore, closer, errors>>
    BY DEF SubmitAccepts, Store!Submit, process, lives
  <2>2. TypeOK'
    BY <2>1 DEF TypeOK, Store!States
  <2>3. Phases'
    BY <2>1 DEF Phases, TypeOK, Store!Outcomes
  <2>4. Endings'
    BY <2>1 DEF Endings
  <2>5. OnePerLock'
    BY <2>1 DEF OnePerLock, TypeOK
  <2>6. Registered'
    BY <2>1 DEF Registered, TypeOK
  <2>7. RegistryExact'
    BY <2>1 DEF RegistryExact
  <2>8. StopAcknowledged'
    BY <2>1 DEF StopAcknowledged, TypeOK
  <2>9. QED
    BY <2>2, <2>3, <2>4, <2>5, <2>6, <2>7, <2>8
<1>2. CASE \E c \in Conversations : StopRun(c)
  <2> PICK c \in Conversations : StopRun(c)
    BY <1>2
  <2>1. /\ runs[c] # NoRun /\ stopped' = stopped \cup {runs[c]}
        /\ UNCHANGED <<state, held, sched, claimed, wake, runs, worker, outcome, submit, restore, closer, errors>>
    BY DEF StopRun, process, lives, store
  <2>2. TypeOK'
    BY <2>1 DEF TypeOK
  <2>3. Phases'
    BY <2>1 DEF Phases, Registered
  <2>4. Endings'
    BY <2>1 DEF Endings, Registered
  <2>5. OnePerLock'
    BY <2>1 DEF OnePerLock
  <2>6. Registered'
    BY <2>1 DEF Registered
  <2>7. RegistryExact'
    BY <2>1 DEF RegistryExact
  <2>8. StopAcknowledged'
    BY <2>1 DEF StopAcknowledged, Registered
  <2>9. QED
    BY <2>2, <2>3, <2>4, <2>5, <2>6, <2>7, <2>8
<1>3. CASE \/ \E s \in Submissions : SubmitEnters(s) \/ SubmitFails(s) \/ SubmitNotifies(s)
           \/ \E w \in Restored : RestoreEnters(w) \/ RestoreStep(w)
           \/ CloseBegins \/ CloseReturns \/ UNCHANGED vars
  <2>1. /\ UNCHANGED <<state, sched, claimed, runs, stopped, worker, outcome>>
        /\ held' \subseteq Workspaces /\ wake' \in BOOLEAN /\ errors' \in 0..MaxErrors
        /\ submit' \in [Submissions -> {"none", "entered", "accepted", "done"}]
        /\ restore' \in [Restored -> RestoreAt] /\ closer' \in {"idle", "waiting", "done"}
    <3>1. CASE \/ \E s \in Submissions : SubmitEnters(s) \/ SubmitFails(s) \/ SubmitNotifies(s)
               \/ CloseBegins \/ CloseReturns \/ UNCHANGED vars
      BY <3>1 DEF SubmitEnters, SubmitFails, SubmitNotifies, CloseBegins, CloseReturns, TypeOK,
                  process, lives, store, vars
    <3>2. CASE \E w \in Restored : RestoreEnters(w) \/ RestoreRefused(w) \/ RestoreNotifies(w) \/ RestoreDone(w)
      BY <3>2 DEF RestoreEnters, RestoreRefused, RestoreNotifies, RestoreDone, TypeOK, RestoreAt, process, lives, store
    <3>3. CASE \E w \in Restored : RestoreReserves(w) \/ RestoreReleases(w)
      BY <3>3, ManagerAssumption
         DEF RestoreReserves, RestoreReleases, Store!Hold, Store!Release, StoreFails, TypeOK, RestoreAt,
             process, lives, store
    <3>4. QED
      BY <1>3, <3>1, <3>2, <3>3 DEF RestoreStep
  <2>2. TypeOK'
    BY <2>1 DEF TypeOK
  <2>3. Phases'
    BY <2>1 DEF Phases
  <2>4. Endings'
    BY <2>1 DEF Endings
  <2>5. OnePerLock'
    BY <2>1 DEF OnePerLock
  <2>6. Registered'
    BY <2>1 DEF Registered
  <2>7. RegistryExact'
    BY <2>1 DEF RegistryExact
  <2>8. StopAcknowledged'
    BY <2>1 DEF StopAcknowledged
  <2>9. QED
    BY <2>2, <2>3, <2>4, <2>5, <2>6, <2>7, <2>8
<1>4. QED
  BY <1>1, <1>2, <1>3 DEF SubmitStep

(* The invariant is inductive: the counters are shown exact first, since   *)
(* that is what makes them numbers in the next state.                      *)
LEMMA ServingStep == ServingInv /\ [Next]_vars => ServingInv'
<1> SUFFICES ASSUME ServingInv, [Next]_vars PROVE ServingInv'
  OBVIOUS
<1>1. Counted'
  BY CountStep
<1>2. active' \in Nat /\ running' \in Nat
  <2>1. Cardinality(Holding') \in Nat /\ Cardinality(Live') \in Nat /\ Cardinality(Restoring') \in Nat
    BY <1>1, FS_CardinalityType DEF Counted
  <2>2. QED
    BY <1>1, <2>1 DEF Counted, SlotsExact, Holding
<1>3. ControlInv'
  BY <1>2, SchedulerControl, WorkerControl, ClientControl DEF ServingInv, Next, Terminated
<1>4. QED
  BY <1>1, <1>3 DEF ServingInv

(* A process starts with its scheduler alone in the wait group.            *)
LEMMA ServingInit == Init => ServingInv
<1> SUFFICES ASSUME Init PROVE ServingInv
  OBVIOUS
<1>1. ControlInv
  BY ManagerAssumption DEF Init, ControlInv, TypeOK, Phases, Endings, OnePerLock, Registered, RegistryExact,
     StopAcknowledged, Claiming, AtWork, SchedulerAt, WorkerAt, RestoreAt, Store!States, Store!Outcomes
<1>2. Holding = {} /\ Live = {} /\ Restoring = {}
  BY DEF Init, Holding, Live, Restoring
<1>3. SlotsExact
  BY <1>2, FS_EmptySet, SlotsMeaning, ManagerAssumption DEF Init, ClaimSlot
<1>4. Counted
  BY <1>2, <1>3, FS_EmptySet DEF Counted, Init
<1>5. QED
  BY <1>1, <1>4 DEF ServingInv

(* The scheduler, its runs, the calls of clients and the counters agree    *)
(* after any steps of manager.go and scheduler.go.                         *)
THEOREM ServingInvariant == Spec => []ServingInv
BY ServingInit, ServingStep, PTL DEF Spec

-----------------------------------------------------------------------------
(* The registry is exact, and what a client sees running it can stop,      *)
(* between any two steps of scheduler, runs, clients and Close.            *)
THEOREM RegistryConsistent == Spec => []ManagerInv
<1>1. ServingInv => ManagerInv
  BY RunsAreVisible DEF ServingInv, ControlInv, ManagerInv
<1>2. QED
  BY <1>1, ServingInvariant, PTL

(* m.active is what is in use, exactly: reserveSlot and releaseSlot come   *)
(* in pairs on every path, so no slot leaks and MaxConcurrent holds.       *)
THEOREM SlotsNeverLeak == Spec => []SlotsExact
<1>1. ServingInv => SlotsExact
  BY DEF ServingInv, Counted
<1>2. QED
  BY <1>1, ServingInvariant, PTL

(* A stop that StopRun answered with a run is recorded as a stop if the    *)
(* run does not answer first.                                              *)
THEOREM StopsRemembered == Spec => []StopAcknowledged
<1>1. ServingInv => StopAcknowledged
  BY DEF ServingInv, ControlInv
<1>2. QED
  BY <1>1, ServingInvariant, PTL

(* m.wg is incremented before the goroutine it stands for exists, and      *)
(* never after Close has begun to find it empty: when Close returns,       *)
(* nothing of the Manager is left.                                         *)
THEOREM NothingAfterClose == Spec => []CloseWaits
<1>1. ServingInv => CloseWaits
  <2> SUFFICES ASSUME ServingInv, closer = "done" PROVE CloseWaits
    BY DEF CloseWaits
  <2>1. Cardinality(Live) \in Nat /\ Cardinality(Restoring) \in Nat
    BY FS_CardinalityType DEF ServingInv, Counted
  <2>2. sched = "gone" /\ Cardinality(Live) = 0 /\ Cardinality(Restoring) = 0
    BY <2>1 DEF ServingInv, Counted
  <2>3. Live = {} /\ Restoring = {}
    BY <2>2, FS_EmptySet DEF ServingInv, Counted
  <2>4. QED
    BY <2>2, <2>3 DEF CloseWaits, Live, Restoring
<1>2. QED
  BY <1>1, ServingInvariant, PTL

-----------------------------------------------------------------------------
(* The store this process is modelled over is the queue of RunQueue: what  *)
(* follows holds of every implementation of it.                            *)
QueueInv == Store!QueueTypeOK /\ Store!Exclusive

(* No step of the queue runs a submission under a lock or in a workspace   *)
(* that is taken.                                                          *)
LEMMA QueueStep == QueueInv /\ [Store!Next]_(Store!queueVars) => QueueInv'
<1> SUFFICES ASSUME QueueInv, [Store!Next]_(Store!queueVars) PROVE QueueInv'
  OBVIOUS
<1> USE DEF QueueInv, Store!QueueTypeOK, Store!Exclusive, Store!States, Store!Outcomes
<1>1. ASSUME NEW s \in Submissions, Store!Submit(s) PROVE QueueInv'
  BY <1>1 DEF Store!Submit
<1>2. ASSUME NEW s \in Submissions, Store!Begin(s) PROVE QueueInv'
  BY <1>2 DEF Store!Begin, Store!MayBegin
<1>3. ASSUME NEW s \in Submissions, NEW end \in Store!Outcomes, Store!End(s, end) PROVE QueueInv'
  BY <1>3 DEF Store!End
<1>4. ASSUME NEW w \in Workspaces, Store!Hold(w) PROVE QueueInv'
  BY <1>4 DEF Store!Hold
<1>5. ASSUME NEW W \in SUBSET Workspaces, Store!Release(W) PROVE QueueInv'
  BY <1>5 DEF Store!Release
<1>6. CASE UNCHANGED Store!queueVars
  BY <1>6 DEF Store!queueVars
<1>7. QED
  BY <1>1, <1>2, <1>3, <1>4, <1>5, <1>6 DEF Store!Next

(* The contract of ClaimRunnable and ReserveWorkspace is enough for mutual *)
(* exclusion: whatever implements the queue never runs two submissions     *)
(* under one lock, nor any in a workspace that is held.                    *)
THEOREM QueueExclusion == Store!Spec => []Store!Exclusive
<1>1. Store!Init => QueueInv
  BY DEF Store!Init, QueueInv, Store!QueueTypeOK, Store!Exclusive, Store!States
<1>2. QueueInv => Store!Exclusive
  BY DEF QueueInv
<1>3. QED
  BY <1>1, <1>2, QueueStep, PTL DEF Store!Spec
=============================================================================
