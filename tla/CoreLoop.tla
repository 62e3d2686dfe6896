------------------------------ MODULE CoreLoop ------------------------------
(***************************************************************************)
(* One run: Core.Run (core.go, preflight.go, permission.go) from its first *)
(* event to its deferred closing hooks, inside agentRunner.Run             *)
(* (cmd/pons/runtime_mode.go), which owns the execution environment.  The  *)
(* steps of Run are where pc is; between two of them the context may be    *)
(* cancelled.  A step that reports an event may find the checked sink, the *)
(* conversation's log, failing (SinkFails).                                *)
(*                                                                         *)
(* The hooks and the brain answer anything their types allow.  What one    *)
(* call's start hooks decide together is module Preflight's subject.       *)
(***************************************************************************)
EXTENDS Naturals, Sequences, FiniteSets

CONSTANTS
  Keys,             (* what a brain proposes: the denialKey of a call      *)
  MaxTurns,         (* Core.MaxTurns                                       *)
  DenialLimit,      (* repeatedDenialLimit                                 *)
  MaxCalls,         (* bound: calls of one turn                            *)
  MaxSinkErrors     (* bound: events the sink refuses                      *)

ASSUME LoopAssumption ==
  /\ MaxTurns \in Nat \ {0} /\ DenialLimit \in Nat \ {0}
  /\ MaxCalls \in Nat /\ MaxSinkErrors \in Nat

VARIABLES
  pc, turn,
  calls,            (* run: what the brain proposed this turn, in order    *)
  finishing,        (* finished: the turn holds a finish action            *)
  decision,         (* of each of the turn's calls                         *)
  denials,          (* of each key: denials so far                         *)
  refused,          (* history, of each key: requests for approval refused *)
  stop,             (* fx.stop                                             *)
  hooked,           (* some start hook is registered                       *)
  cancelledIn,      (* the turn the context was cancelled in, or NotYet    *)
  agentOpen,        (* OnAgentEnd is owed                                  *)
  openTurn,         (* OnAgentTurnEnd is owed                              *)
  reason,           (* endReason                                           *)
  failed,           (* runErr is set                                       *)
  opened,           (* history: turns whose start was reported, 0 the run  *)
  turnCloses,       (* history, of each turn: how often its hooks closed it *)
  agentCloses,      (* history: how often OnAgentEnd hooks ran             *)
  continues,        (* history: how often they kept a finished run going   *)
  told,             (* history: the last reason they were given            *)
  recorded,         (* the log: calls in an assistant response             *)
  started,          (* the log: calls whose start was reported             *)
  outcome,          (* the log, of each call                               *)
  ending,           (* the log: the event that ends the run                *)
  ran,              (* calls whose handler was invoked                     *)
  session,          (* the execution environment                           *)
  verdict,          (* what agentRunner.Run returned                       *)
  sinkErrors

plan     == <<calls, finishing>>
closing  == <<agentOpen, openTurn, reason, opened, turnCloses, agentCloses, continues, told>>
log      == <<recorded, started, outcome, ending>>
counters == <<denials, refused>>
runner   == <<session, verdict>>
vars     == <<pc, turn, plan, decision, counters, stop, hooked, cancelledIn, closing, failed, log,
              ran, runner, sinkErrors>>

NotYet    == MaxTurns + 1
Cancelled == cancelledIn # NotYet

Turns       == 1 .. MaxTurns
Calls       == Turns \X (1 .. MaxCalls)
Permissions == {"allow", "ask", "deny"}

Call(i)    == <<turn, i>>
Position   == DOMAIN calls
Denied(i)  == decision[i] = "deny"
ToStart    == {i \in Position : ~Denied(i) /\ Call(i) \notin started}
Unreported == {i \in Position : outcome[Call(i)] = "none"}
Plans      == UNION {[1 .. n -> Keys] : n \in 0 .. MaxCalls}

-----------------------------------------------------------------------------
Init ==
  /\ pc = "prepare"
  /\ turn = 0
  /\ calls = <<>> /\ finishing = FALSE
  /\ decision = <<>>
  /\ denials = [k \in Keys |-> 0] /\ refused = [k \in Keys |-> 0]
  /\ stop = FALSE
  /\ hooked \in BOOLEAN
  /\ cancelledIn = NotYet
  /\ agentOpen = FALSE /\ openTurn = FALSE
  /\ reason = "none" /\ told = "none"
  /\ failed = FALSE
  /\ opened = {} /\ turnCloses = [t \in Turns |-> 0]
  /\ agentCloses = 0 /\ continues = 0
  /\ recorded = {} /\ started = {} /\ ran = {}
  /\ outcome = [c \in Calls |-> "none"]
  /\ ending = "none"
  /\ session = "none" /\ verdict = "none"
  /\ sinkErrors = 0

(* The manager stops the run or closes: the context every hook, brain call *)
(* and tool is given.                                                      *)
Cancel ==
  /\ verdict = "none" /\ ~Cancelled
  /\ cancelledIn' = turn
  /\ UNCHANGED <<pc, turn, plan, decision, counters, stop, hooked, closing, failed, log, ran,
                 runner, sinkErrors>>

-----------------------------------------------------------------------------
(* Around Core.Run: the environment, and the input reported as prepared.   *)
Prepare ==
  /\ pc = "prepare"
  /\ session' = "open"
  /\ pc' = "start"
  /\ UNCHANGED <<turn, plan, decision, counters, stop, hooked, cancelledIn, closing, failed, log,
                 ran, verdict, sinkErrors>>

PrepareFails ==
  /\ pc = "prepare"
  /\ session' \in {"none", "open"}
  /\ failed' = TRUE
  /\ pc' = "teardown"
  /\ UNCHANGED <<turn, plan, decision, counters, stop, hooked, cancelledIn, closing, log, ran,
                 verdict, sinkErrors>>

(* The deferred closes.  Closing an environment may fail, its workspace    *)
(* unsaved; an exhausted run is an error as well.                          *)
TearDown ==
  /\ pc = "teardown"
  /\ session' \in (IF session = "open" THEN {"closed", "unsaved"} ELSE {session})
  /\ verdict' = IF failed \/ ending = "exhausted" \/ session' = "unsaved" THEN "failed" ELSE "answered"
  /\ pc' = "returned"
  /\ UNCHANGED <<turn, plan, decision, counters, stop, hooked, cancelledIn, closing, failed, log,
                 ran, sinkErrors>>

-----------------------------------------------------------------------------
(* Errors: whatever fails inside the loop goes to the deferred closing.    *)
failing == <<turn, plan, decision, counters, stop, hooked, cancelledIn, closing, log, ran, runner>>

SinkFails ==
  /\ \/ pc \in {"start", "agentHooks", "turnStart", "turnHooks", "responseHooks", "turnEnd", "finish",
                "stopping", "exhausting"}
     \/ pc \in {"decide", "record", "resolve"} /\ calls # <<>>
     \/ pc = "starting" /\ ToStart # {}
     \/ pc = "ending" /\ Unreported # {}
  /\ sinkErrors < MaxSinkErrors
  /\ sinkErrors' = sinkErrors + 1
  /\ failed' = TRUE
  /\ pc' = "closing"
  /\ UNCHANGED failing

(* No response, one without actions or with parts that do not fit them, a  *)
(* transcript that cannot be reconciled, a result it cannot interpret.     *)
BrainFails ==
  /\ \/ pc \in {"respond", "decide"}
     \/ pc \in {"record", "interpret"} /\ calls # <<>>
  /\ failed' = TRUE
  /\ pc' = "closing"
  /\ UNCHANGED <<failing, sinkErrors>>

Asking(i) ==
  /\ ~stop
  /\ decision[i] = "ask"
  /\ \A j \in Position : j < i => decision[j] # "ask"

CancelSeen ==
  /\ Cancelled
  /\ \/ pc = "decide" /\ hooked
     \/ pc = "resolve" /\ \E i \in Position : Asking(i)
  /\ failed' = TRUE
  /\ pc' = "closing"
  /\ UNCHANGED <<failing, sinkErrors>>

-----------------------------------------------------------------------------
(* Up to the brain's response.                                             *)
steady == <<decision, counters, hooked, cancelledIn, failed, ran, runner, sinkErrors>>

AgentStart ==
  /\ pc = "start"
  /\ opened' = opened \cup {0}
  /\ agentOpen' = TRUE
  /\ pc' = "agentHooks"
  /\ UNCHANGED <<turn, plan, stop, openTurn, reason, turnCloses, agentCloses, continues, told, log, steady>>

(* A step of hooks that may ask to stop the run.                           *)
HookStep(here, next) ==
  /\ pc = here
  /\ stop' \in {stop, TRUE}
  /\ pc' = IF stop' THEN "stopping" ELSE next

AgentStartHooks ==
  /\ HookStep("agentHooks", "turnStart")
  /\ turn' = IF stop' THEN turn ELSE 1
  /\ UNCHANGED <<plan, closing, log, steady>>

TurnStart ==
  /\ pc = "turnStart"
  /\ opened' = opened \cup {turn}
  /\ openTurn' = TRUE
  /\ pc' = "turnHooks"
  /\ UNCHANGED <<turn, plan, stop, agentOpen, reason, turnCloses, agentCloses, continues, told, log, steady>>

TurnStartHooks ==
  /\ HookStep("turnHooks", "respond")
  /\ UNCHANGED <<turn, plan, closing, log, steady>>

Respond ==
  /\ pc = "respond"
  /\ calls' \in Plans
  /\ finishing' \in BOOLEAN
  /\ pc' = "responseHooks"
  /\ UNCHANGED <<turn, stop, closing, log, steady>>

ResponseHooks ==
  /\ HookStep("responseHooks", "decide")
  /\ UNCHANGED <<turn, plan, closing, log, steady>>

-----------------------------------------------------------------------------
(* decideCalls: the start hooks of all calls at once, skipped for a call   *)
(* that was denied too often.                                              *)
deciding == <<turn, plan, hooked, cancelledIn, closing, failed, ran, runner, sinkErrors>>

Broken(i) == denials[calls[i]] >= DenialLimit

(* Mutant: the context is not looked at again.                             *)
DecisionsAlwaysCount == TRUE

(* Decisions made under a cancelled context may only be its echo.          *)
DecisionsCount == ~Cancelled

DecideCalls ==
  /\ pc = "decide"
  /\ calls # <<>> \/ finishing
  /\ \/ /\ hooked /\ DecisionsCount
        /\ decision' \in [Position -> Permissions]
        /\ \A i \in Position : Broken(i) => decision'[i] = "deny"
        /\ stop' \in BOOLEAN
        /\ stop' => \E i \in Position : ~Broken(i)
     \/ /\ ~hooked
        /\ decision' = [i \in Position |-> "allow"]
        /\ UNCHANGED stop
  /\ pc' = "record"
  /\ UNCHANGED <<counters, log, deciding>>

(* The response, with the calls as they will run, in the brain's           *)
(* transcript and in the log.                                              *)
RecordResponse ==
  /\ pc = "record"
  /\ recorded' = recorded \cup {Call(i) : i \in Position}
  /\ pc' = IF hooked THEN "resolve" ELSE "starting"
  /\ UNCHANGED <<decision, counters, stop, started, outcome, ending, deciding>>

(* requestPermission for the first call left to ask about: permission      *)
(* hooks, which may ask to stop, then the approval handler.                *)
RequestPermission ==
  /\ pc = "resolve" /\ ~Cancelled
  /\ \E i \in Position, answer \in {"allow", "deny"} :
       /\ Asking(i)
       /\ decision' = [decision EXCEPT ![i] = answer]
       /\ refused' = [refused EXCEPT ![calls[i]] = @ + IF answer = "deny" THEN 1 ELSE 0]
  /\ stop' \in BOOLEAN
  /\ UNCHANGED <<pc, denials, log, deciding>>

(* Mutant: a stop leaves the decisions as they were.                       *)
SettledAsDecided == decision

(* A stop denies what would still run.                                     *)
Settled == IF stop THEN [i \in Position |-> "deny"] ELSE decision

(* The second loop of resolveCalls: denials count under the proposed call. *)
SettleCalls ==
  /\ pc = "resolve"
  /\ \A i \in Position : ~Asking(i)
  /\ decision' = Settled
  /\ denials' = [k \in Keys |->
                   denials[k] + Cardinality({i \in Position : calls[i] = k /\ decision'[i] = "deny"})]
  /\ pc' = "starting"
  /\ UNCHANGED <<refused, stop, log, deciding>>

-----------------------------------------------------------------------------
(* Starts are reported in call order; then every allowed call runs in a    *)
(* goroutine of its own, and all are waited for.                           *)
running == <<turn, plan, decision, counters, stop, hooked, cancelledIn, closing, failed, outcome,
             ending, recorded, runner, sinkErrors>>

ReportStart ==
  /\ pc = "starting"
  /\ \E i \in ToStart :
       /\ \A j \in ToStart : i <= j
       /\ started' = started \cup {Call(i)}
  /\ UNCHANGED <<pc, ran, running>>

(* Mutant: handlers start before every start is reported.                  *)
LaunchEarly ==
  /\ pc = "starting"
  /\ pc' = "executing"
  /\ UNCHANGED <<started, ran, running>>

Launch ==
  /\ pc = "starting" /\ ToStart = {}
  /\ pc' = "executing"
  /\ UNCHANGED <<started, ran, running>>

ExecuteTool ==
  /\ pc = "executing"
  /\ \E i \in Position :
       /\ ~Denied(i) /\ Call(i) \notin ran
       /\ ran' = ran \cup {Call(i)}
  /\ UNCHANGED <<pc, started, running>>

(* Mutant: the turn goes on without its tools.                             *)
NoneAwaited == TRUE

AllDone == \A i \in Position : Denied(i) \/ Call(i) \in ran

WaitForTools ==
  /\ pc = "executing" /\ AllDone
  /\ pc' = "ending"
  /\ UNCHANGED <<started, ran, running>>

-----------------------------------------------------------------------------
(* Results in call order, whatever order the tools returned in: the hooks  *)
(* of each, then its event.                                                *)
concluding == <<turn, plan, decision, counters, hooked, cancelledIn, recorded, started, ran, runner>>

(* Mutant: results in the order the tools returned in.                     *)
InAnyOrder(i) == TRUE

InCallOrder(i) == \A j \in Unreported : i <= j

EndToolCall ==
  /\ pc = "ending"
  /\ \E i \in Unreported :
       /\ InCallOrder(i)
       /\ outcome' = [outcome EXCEPT ![Call(i)] = IF Denied(i) THEN "denied" ELSE "ended"]
  /\ stop' \in {stop, TRUE}
  /\ UNCHANGED <<pc, closing, failed, ending, sinkErrors, concluding>>

ResultsReported ==
  /\ pc = "ending" /\ Unreported = {}
  /\ pc' = "turnEnd"
  /\ UNCHANGED <<stop, closing, failed, outcome, ending, sinkErrors, concluding>>

(* turn_end; the turn's hooks are no longer owed.                          *)
TurnEnd ==
  /\ pc = "turnEnd"
  /\ openTurn' = FALSE
  /\ pc' = "turnEndHooks"
  /\ UNCHANGED <<stop, agentOpen, reason, opened, turnCloses, agentCloses, continues, told, failed,
                 outcome, ending, sinkErrors, concluding>>

(* Hooks whose messages or errors may not be reported: the error, if any.  *)
Reported(error) ==
  /\ sinkErrors' = sinkErrors + IF error THEN 1 ELSE 0
  /\ sinkErrors' <= MaxSinkErrors
  /\ failed' = (failed \/ error)

EndTurnHooks == turnCloses' = [turnCloses EXCEPT ![turn] = @ + 1]

TurnEndHooks ==
  /\ pc = "turnEndHooks"
  /\ EndTurnHooks
  /\ stop' \in {stop, TRUE}
  /\ \E error \in BOOLEAN :
       /\ Reported(error)
       /\ pc' = IF error THEN "closing" ELSE IF finishing THEN "finishing" ELSE "interpret"
  /\ UNCHANGED <<agentOpen, openTurn, reason, opened, agentCloses, continues, told, outcome, ending,
                 concluding>>

EndAgentHooks(why) ==
  /\ agentCloses' = agentCloses + 1
  /\ told' = why

(* Mutant: a hook may continue a run that has no turn left.                *)
MayAlwaysContinue == TRUE

MayContinue == turn < MaxTurns

OwedAgain(error, continue) == ~error /\ continue /\ ~stop' /\ MayContinue

(* A finished run: its closing hooks run here, and may ask for more.  They *)
(* are owed again only if the run goes on.                                 *)
Finishing ==
  /\ pc = "finishing" /\ ~stop
  /\ EndAgentHooks("finished")
  /\ stop' \in BOOLEAN
  /\ \E error, continue \in BOOLEAN :
       /\ Reported(error)
       /\ agentOpen' = OwedAgain(error, continue)
       /\ continues' = continues + IF agentOpen' /\ ~error THEN 1 ELSE 0
       /\ pc' = IF error THEN "closing" ELSE IF agentOpen' THEN "interpret" ELSE "finish"
  /\ UNCHANGED <<openTurn, reason, opened, turnCloses, outcome, ending, concluding>>

FinishStopped ==
  /\ pc = "finishing" /\ stop
  /\ pc' = "finish"
  /\ UNCHANGED <<stop, closing, failed, outcome, ending, sinkErrors, concluding>>

TurnsLeft == turn < MaxTurns

(* Every result is interpreted; then a hook's stop, the brain's, the next  *)
(* turn, or none left.                                                     *)
Interpret ==
  /\ pc = "interpret"
  /\ \/ /\ stop \/ calls # <<>>
        /\ pc' = "stopping" /\ UNCHANGED turn
     \/ /\ ~stop /\ TurnsLeft
        /\ turn' = turn + 1
        /\ pc' = "turnStart"
     \/ /\ ~stop /\ ~TurnsLeft
        /\ pc' = "exhausting" /\ UNCHANGED turn
  /\ UNCHANGED <<stop, plan, decision, counters, hooked, cancelledIn, closing, failed, log, ran,
                 runner, sinkErrors>>

(* finish, stopped, exhausted: the reason for the closing hooks, and the   *)
(* event.                                                                  *)
Conclude(here, why) ==
  /\ pc = here
  /\ reason' = why
  /\ ending' = why
  /\ pc' = "closing"
  /\ UNCHANGED <<stop, agentOpen, openTurn, opened, turnCloses, agentCloses, continues, told, failed,
                 outcome, sinkErrors, concluding>>

Finish  == Conclude("finish", "finished")
StopRun == Conclude("stopping", "stopped")
Exhaust == Conclude("exhausting", "exhausted")

-----------------------------------------------------------------------------
(* The deferred function of Run, on a context that is not cancelled: what  *)
(* is owed, the turn first.                                                *)
CloseTurn ==
  /\ pc = "closing" /\ openTurn
  /\ openTurn' = FALSE
  /\ EndTurnHooks
  /\ \E error \in BOOLEAN : Reported(error)
  /\ UNCHANGED <<pc, stop, agentOpen, reason, opened, agentCloses, continues, told, outcome, ending,
                 concluding>>

(* Mutant: the reason as it was last set.                                  *)
EndReasonAsSet == reason

EndReason == IF failed THEN "failed" ELSE reason

CloseAgent ==
  /\ pc = "closing" /\ ~openTurn /\ agentOpen
  /\ agentOpen' = FALSE
  /\ EndAgentHooks(EndReason)
  /\ \E error \in BOOLEAN : Reported(error)
  /\ UNCHANGED <<pc, stop, openTurn, reason, opened, turnCloses, continues, outcome, ending, concluding>>

Return ==
  /\ pc = "closing" /\ ~openTurn /\ ~agentOpen
  /\ pc' = "teardown"
  /\ UNCHANGED <<stop, closing, failed, outcome, ending, sinkErrors, concluding>>

Returned == pc = "returned" /\ UNCHANGED vars

-----------------------------------------------------------------------------
Before == Prepare \/ PrepareFails \/ AgentStart \/ AgentStartHooks
Opening == TurnStart \/ TurnStartHooks \/ Respond \/ ResponseHooks
Deciding == DecideCalls \/ RecordResponse \/ RequestPermission \/ SettleCalls
Executing == ReportStart \/ Launch \/ ExecuteTool \/ WaitForTools \/ EndToolCall \/ ResultsReported
Ending == TurnEnd \/ TurnEndHooks \/ Finishing \/ FinishStopped \/ Interpret
Concluding == Finish \/ StopRun \/ Exhaust \/ CloseTurn \/ CloseAgent \/ Return \/ TearDown
Failing == SinkFails \/ BrainFails \/ CancelSeen

Next == Before \/ Opening \/ Deciding \/ Executing \/ Ending \/ Concluding \/ Failing \/ Cancel \/ Returned

Spec == Init /\ [][Next]_vars

-----------------------------------------------------------------------------
TypeOK ==
  /\ pc \in {"prepare", "start", "agentHooks", "turnStart", "turnHooks", "respond", "responseHooks",
             "decide", "record", "resolve", "starting", "executing", "ending", "turnEnd",
             "turnEndHooks", "finishing", "finish", "interpret", "stopping", "exhausting", "closing",
             "teardown", "returned"}
  /\ turn \in 0 .. MaxTurns
  /\ calls \in Plans
  /\ finishing \in BOOLEAN /\ stop \in BOOLEAN /\ hooked \in BOOLEAN /\ failed \in BOOLEAN
  /\ decision \in UNION {[1 .. n -> Permissions] : n \in 0 .. MaxCalls}
  /\ denials \in [Keys -> Nat] /\ refused \in [Keys -> Nat]
  /\ cancelledIn \in 0 .. MaxTurns + 1
  /\ agentOpen \in BOOLEAN /\ openTurn \in BOOLEAN
  /\ reason \in {"none", "finished", "stopped", "exhausted"}
  /\ told \in {"none", "finished", "stopped", "exhausted", "failed"}
  /\ opened \subseteq 0 .. MaxTurns
  /\ turnCloses \in [Turns -> Nat] /\ agentCloses \in Nat /\ continues \in Nat
  /\ recorded \subseteq Calls /\ started \subseteq Calls /\ ran \subseteq Calls
  /\ outcome \in [Calls -> {"none", "ended", "denied"}]
  /\ ending \in {"none", "finished", "stopped", "exhausted"}
  /\ session \in {"none", "open", "closed", "unsaved"}
  /\ verdict \in {"none", "answered", "failed"}
  /\ sinkErrors \in 0 .. MaxSinkErrors

(* A tool handler runs only for a call whose request and whose start the   *)
(* log holds already (checked sinks: "the core stops before the next side  *)
(* effect when a sink fails").                                             *)
IntentDurable == ran \subseteq recorded /\ ran \subseteq started

(* The log's account of a call is true: an ended one ran, a denied one     *)
(* never did, in any later turn either.                                    *)
OutcomeTrue ==
  \A c \in Calls :
    /\ outcome[c] = "ended" => c \in ran
    /\ outcome[c] = "denied" => c \notin ran

(* Once a hook has asked to stop, no tool that was not yet running runs,   *)
(* and no turn begins.                                                     *)
StopHalts == [][stop => ran' = ran /\ turn' = turn]_vars

(* With start hooks, a cancelled run invokes no tool of a later turn.      *)
NothingRunsAfterCancel == hooked => \A c \in ran : c[1] <= cancelledIn

(* When Run returns, the turn-end hooks have closed every turn that was    *)
(* opened once, and the agent-end hooks a started run once more than they  *)
(* kept it going.                                                          *)
ClosedOnce ==
  pc \in {"teardown", "returned"} =>
    /\ \A t \in Turns : turnCloses[t] = IF t \in opened THEN 1 ELSE 0
    /\ agentCloses = IF 0 \in opened THEN continues + 1 ELSE 0

(* The last thing the agent-end hooks were told is the event that ended    *)
(* the run, or failure, and failure only of a run that failed.  The one    *)
(* exception: hooks that ended a finished run are told so before the       *)
(* finish event.  If reporting them or that event fails, they are not told *)
(* again, and the failed run has no ending event (core.go:637, 653).       *)
ToldTruly ==
  pc = "returned" /\ 0 \in opened =>
    /\ told # "none"
    /\ told = "failed" => failed
    /\ told # "failed" => told = ending \/ (told = "finished" /\ ending = "none" /\ failed)

(* What the end hooks see of a run: each closing once, and the truth.      *)
ClosedTruly == ClosedOnce /\ ToldTruly

(* A finished answer is not lost to a hook that wants to go on when no     *)
(* turn is left.                                                           *)
AnswerStands == ending = "exhausted" => ~finishing

(* The run as the store sees it.                                           *)
Contract == INSTANCE RunContract WITH
  outstanding <- {c \in recorded : outcome[c] = "none"},
  resolved    <- {c \in Calls : outcome[c] # "none"}

ImplementsContract == Contract!Spec

(* ADR-0014: "Three denials of the same action kind and JSON arguments     *)
(* within one run suppress further approval requests for that action."     *)
ApprovalsSuppressed == \A k \in Keys : refused[k] <= DenialLimit
=============================================================================
