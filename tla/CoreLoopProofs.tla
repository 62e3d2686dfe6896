--------------------------- MODULE CoreLoopProofs ---------------------------
(***************************************************************************)
(* Theorems about one run, for any keys, numbers of turns and calls, and   *)
(* sink failures: the log announces every effect, its outcomes are true,   *)
(* stops and cancellations hold, the run keeps its contract with the       *)
(* store, and its closing hooks balance and are told the truth.            *)
(*                                                                         *)
(* The argument follows a turn.  Before its calls are recorded, everything *)
(* recorded belongs to earlier turns and has its outcome; while they are   *)
(* under way they are exactly the recorded calls without an outcome or     *)
(* with a true one; afterwards, unless the run failed, none is without.    *)
(*                                                                         *)
(* A second invariant, of what the closing hooks are owed, gives the       *)
(* theorems about them.  The last part is about one call of the run before *)
(* it starts, module Preflight.                                            *)
(***************************************************************************)
EXTENDS CoreLoop, Preflight, FiniteSetTheorems, TLAPS

Upcoming == {"turnStart", "turnHooks", "respond", "responseHooks", "decide", "record"}
Underway == {"resolve", "starting", "executing", "ending"}
Over     == {"turnEnd", "turnEndHooks", "finishing", "finish", "interpret", "exhausting"}
Closing  == {"closing", "teardown", "returned"}

-----------------------------------------------------------------------------
(* The inductive invariant.                                                *)

(* Where the run is, and what it can have written by then.                 *)
Placed ==
  /\ pc \in {"prepare", "start", "agentHooks"} => turn = 0
  /\ pc \in Upcoming \cup Underway \cup Over => turn \in Turns
  /\ \A c \in recorded : c[1] <= turn
  /\ pc \in Upcoming => \A c \in recorded : c[1] < turn
  /\ verdict # "none" <=> pc = "returned"

(* Effects are announced, and only announced calls have an outcome.        *)
Announced ==
  /\ ran \subseteq started /\ started \subseteq recorded
  /\ \A c \in Calls : outcome[c] # "none" => c \in recorded

Resolved == \A c \in recorded : outcome[c] # "none"

(* Nothing is left over, outside the turn under way and a failed run.      *)
NothingLeft ==
  /\ pc \notin Underway \cup Closing => Resolved
  /\ pc \in Closing /\ ~failed => Resolved
  /\ pc \in Underway => \A c \in recorded : c[1] < turn => outcome[c] # "none"

(* The calls of the turn under way, through its steps.                     *)
ThisTurn ==
  /\ pc \in Underway \cup {"record"} => DOMAIN decision = Position
  /\ pc \in Underway =>
       /\ \A i \in Position : Call(i) \in recorded
       /\ \A c \in recorded : c[1] = turn => c[2] \in Position
  /\ pc = "resolve" => \A i \in Position : Call(i) \notin started
  /\ pc \in {"resolve", "starting", "executing"} => \A i \in Position : outcome[Call(i)] = "none"
  /\ pc \in {"starting", "executing", "ending"} =>
       \A i \in Position : Denied(i) => Call(i) \notin started
  /\ pc = "executing" => \A i \in Position : Denied(i) \/ Call(i) \in started
  /\ pc = "starting" => \A i \in Position : Call(i) \notin ran
  /\ pc = "ending" => AllDone

(* A stop is seen before the next turn, and denies what has not started.   *)
StopSeen ==
  /\ pc \in {"prepare", "start", "agentHooks"} \cup (Upcoming \ {"record"}) => ~stop
  /\ pc = "record" /\ stop => hooked
  /\ pc \in {"starting", "executing"} /\ stop => \A i \in Position : Denied(i)

(* A cancelled run does not get past its next decision.                    *)
CancelHeeded ==
  /\ cancelledIn = NotYet \/ cancelledIn <= turn
  /\ hooked /\ pc \in Underway \cup {"record"} => turn <= cancelledIn
  /\ NothingRunsAfterCancel

LoopInv ==
  TypeOK /\ Placed /\ Announced /\ NothingLeft /\ OutcomeTrue /\ ThisTurn /\ StopSeen /\ CancelHeeded

-----------------------------------------------------------------------------
(* Lemmas about the calls of a turn.                                       *)

(* A plan is at most MaxCalls calls, and its calls are calls of the run.   *)
LEMMA Positions ==
  ASSUME TypeOK
  PROVE  /\ Position \subseteq 1 .. MaxCalls
         /\ \A i \in Position : calls[i] \in Keys
         /\ turn \in Turns => \A i \in Position : Call(i) \in Calls
<1>1. PICK n \in 0 .. MaxCalls : calls \in [1 .. n -> Keys]
  BY DEF TypeOK, Plans
<1>2. Position = 1 .. n
  BY <1>1 DEF Position
<1>3. 1 .. n \subseteq 1 .. MaxCalls
  BY LoopAssumption
<1>4. QED
  BY <1>1, <1>2, <1>3 DEF Call, Calls

(* What decides all positions is a decision.                               *)
LEMMA Decisions ==
  ASSUME TypeOK, NEW d \in [Position -> Permissions]
  PROVE  d \in UNION {[1 .. n -> Permissions] : n \in 0 .. MaxCalls}
<1>1. PICK n \in 0 .. MaxCalls : calls \in [1 .. n -> Keys]
  BY DEF TypeOK, Plans
<1>2. d \in [1 .. n -> Permissions]
  BY <1>1 DEF Position
<1>3. QED
  BY <1>2

(* Denials are counted.                                                    *)
LEMMA Counted ==
  ASSUME TypeOK, NEW D \in SUBSET Position
  PROVE  Cardinality(D) \in Nat
<1>1. IsFiniteSet(1 .. MaxCalls)
  BY FS_Interval, LoopAssumption
<1>2. IsFiniteSet(D)
  BY <1>1, Positions, FS_Subset
<1>3. QED
  BY <1>2, FS_CardinalityType

-----------------------------------------------------------------------------
(* Types.                                                                  *)
LEMMA HookTypes ==
  ASSUME TypeOK, NEW here, NEW following, HookStep(here, following)
  PROVE  stop' \in BOOLEAN /\ pc' \in {"stopping", following}
<1>1. stop' \in BOOLEAN
  BY DEF HookStep, TypeOK
<1>2. pc' \in {"stopping", following}
  BY DEF HookStep
<1>3. QED
  BY <1>1, <1>2

LEMMA ReportTypes ==
  ASSUME TypeOK, NEW error \in BOOLEAN, Reported(error)
  PROVE  failed' \in BOOLEAN /\ sinkErrors' \in 0 .. MaxSinkErrors
<1>1. failed' \in BOOLEAN
  BY DEF Reported, TypeOK
<1>2. sinkErrors' \in 0 .. MaxSinkErrors
  <2>1. (IF error THEN 1 ELSE 0) \in Nat
    OBVIOUS
  <2>2. QED
    BY <2>1, LoopAssumption DEF Reported, TypeOK
<1>3. QED
  BY <1>1, <1>2

LEMMA CloseTypes ==
  ASSUME TypeOK, EndTurnHooks
  PROVE  turnCloses' \in [Turns -> Nat]
<1>1. turnCloses \in [Turns -> Nat]
  BY DEF TypeOK
<1>2. turnCloses' = [t \in Turns |-> IF t = turn THEN turnCloses[t] + 1 ELSE turnCloses[t]]
  BY <1>1 DEF EndTurnHooks
<1>3. QED
  BY <1>1, <1>2

LEMMA TypeStep == TypeOK /\ Placed /\ [Next]_vars => TypeOK'
<1> SUFFICES ASSUME TypeOK, Placed, [Next]_vars PROVE TypeOK'
  OBVIOUS
<1> USE LoopAssumption
<1> USE DEF plan, counters, closing, log, runner
<1>1. CASE DecideCalls
  <2>1. decision' \in [Position -> Permissions]
    BY <1>1 DEF DecideCalls, Permissions
  <2>2. stop' \in BOOLEAN /\ pc' = "record"
    BY <1>1 DEF DecideCalls, TypeOK
  <2>3. decision' \in UNION {[1 .. n -> Permissions] : n \in 0 .. MaxCalls}
    BY <2>1, Decisions
  <2>4. /\ UNCHANGED <<turn, calls, finishing, denials, refused, hooked, cancelledIn, agentOpen,
                       openTurn, reason, opened, turnCloses, agentCloses, continues, told>>
        /\ UNCHANGED <<failed, recorded, started, outcome, ending, ran, session, verdict, sinkErrors>>
    BY <1>1 DEF DecideCalls, deciding
  <2>5. QED
    BY <2>2, <2>3, <2>4 DEF TypeOK
<1>2. CASE RecordResponse
  <2>1. {Call(i) : i \in Position} \subseteq Calls
    BY <1>2, Positions DEF RecordResponse, Placed, Upcoming
  <2>2. QED
    BY <1>2, <2>1 DEF RecordResponse, TypeOK, deciding
<1>3. CASE RequestPermission
  <2>1. PICK i \in Position, answer \in {"allow", "deny"} :
          /\ decision' = [decision EXCEPT ![i] = answer]
          /\ refused' = [refused EXCEPT ![calls[i]] = @ + IF answer = "deny" THEN 1 ELSE 0]
    BY <1>3 DEF RequestPermission
  <2>2. decision' \in UNION {[1 .. n -> Permissions] : n \in 0 .. MaxCalls}
    <3>1. PICK n \in 0 .. MaxCalls : decision \in [1 .. n -> Permissions]
      BY DEF TypeOK
    <3>2. decision' \in [1 .. n -> Permissions]
      BY <2>1, <3>1 DEF Permissions
    <3>3. QED
      BY <3>2
  <2>3. refused' \in [Keys -> Nat]
    <3>1. (IF answer = "deny" THEN 1 ELSE 0) \in Nat
      OBVIOUS
    <3>2. refused \in [Keys -> Nat]
      BY DEF TypeOK
    <3>3. refused' = [k \in Keys |-> IF k = calls[i]
                                    THEN refused[k] + (IF answer = "deny" THEN 1 ELSE 0)
                                    ELSE refused[k]]
      BY <2>1, <3>2
    <3>4. QED
      BY <3>1, <3>2, <3>3
  <2>4. QED
    BY <1>3, <2>2, <2>3 DEF RequestPermission, TypeOK, deciding
<1>4. CASE SettleCalls
  <2>1. decision' \in UNION {[1 .. n -> Permissions] : n \in 0 .. MaxCalls}
    <3>1. CASE stop
      <4>1. decision' \in [Position -> Permissions]
        BY <1>4, <3>1 DEF SettleCalls, Settled, Permissions
      <4>2. QED
        BY <4>1, Decisions
    <3>2. CASE ~stop
      BY <1>4, <3>2 DEF SettleCalls, Settled, TypeOK
    <3>3. QED
      BY <3>1, <3>2
  <2>2. denials' \in [Keys -> Nat]
    <3>1. \A k \in Keys : Cardinality({i \in Position : calls[i] = k /\ decision'[i] = "deny"}) \in Nat
      BY Counted
    <3>2. denials' = [k \in Keys |->
                        denials[k] + Cardinality({i \in Position : calls[i] = k /\ decision'[i] = "deny"})]
      BY <1>4 DEF SettleCalls
    <3>3. \A k \in Keys : denials[k] \in Nat
      BY DEF TypeOK
    <3>4. QED
      BY <3>1, <3>2, <3>3
  <2>3. /\ UNCHANGED <<turn, calls, finishing, refused, stop, hooked, cancelledIn, agentOpen,
                       openTurn, reason, opened, turnCloses, agentCloses, continues, told>>
        /\ UNCHANGED <<failed, recorded, started, outcome, ending, ran, session, verdict, sinkErrors>>
        /\ pc' = "starting"
    BY <1>4 DEF SettleCalls, deciding
  <2>4. QED
    BY <2>1, <2>2, <2>3 DEF TypeOK
<1>5. CASE Prepare
  BY <1>5 DEF Prepare, TypeOK
<1>6. CASE PrepareFails
  BY <1>6 DEF PrepareFails, TypeOK
<1>7. CASE AgentStart
  BY <1>7 DEF AgentStart, TypeOK, steady
<1>8. CASE AgentStartHooks
  <2>1. /\ stop' \in BOOLEAN /\ pc' \in {"stopping", "turnStart"}
        /\ turn' \in {turn, 1} /\ 1 \in 0 .. MaxTurns
    BY <1>8, HookTypes DEF AgentStartHooks
  <2>2. QED
    BY <1>8, <2>1 DEF AgentStartHooks, TypeOK, steady
<1>9. CASE TurnStart
  BY <1>9 DEF TurnStart, TypeOK, steady
<1>10. CASE TurnStartHooks
  <2>1. stop' \in BOOLEAN /\ pc' \in {"stopping", "respond"}
    BY <1>10, HookTypes DEF TurnStartHooks
  <2>2. QED
    BY <1>10, <2>1 DEF TurnStartHooks, TypeOK, steady
<1>11. CASE Respond
  BY <1>11 DEF Respond, TypeOK, steady, Plans
<1>12. CASE ResponseHooks
  <2>1. stop' \in BOOLEAN /\ pc' \in {"stopping", "decide"}
    BY <1>12, HookTypes DEF ResponseHooks
  <2>2. QED
    BY <1>12, <2>1 DEF ResponseHooks, TypeOK, steady
<1>13. CASE ReportStart
  BY <1>13, Positions DEF ReportStart, TypeOK, running, Placed, Underway, Upcoming, Over, Position, ToStart
<1>14. CASE Launch
  BY <1>14 DEF Launch, TypeOK, running
<1>15. CASE ExecuteTool
  BY <1>15, Positions DEF ExecuteTool, TypeOK, running, Placed, Underway, Upcoming, Over, Position, ToStart
<1>16. CASE WaitForTools
  BY <1>16 DEF WaitForTools, TypeOK, running
<1>17. CASE EndToolCall
  <2>1. stop' \in BOOLEAN
    BY <1>17 DEF EndToolCall, TypeOK
  <2>2. outcome' \in [Calls -> {"none", "ended", "denied"}]
    BY <1>17 DEF EndToolCall, TypeOK
  <2>3. QED
    BY <1>17, <2>1, <2>2 DEF EndToolCall, TypeOK, concluding
<1>18. CASE ResultsReported
  BY <1>18 DEF ResultsReported, TypeOK, concluding
<1>19. CASE TurnEnd
  <2>1. openTurn' \in BOOLEAN /\ pc' = "turnEndHooks"
    BY <1>19 DEF TurnEnd
  <2>2. QED
    BY <1>19, <2>1 DEF TurnEnd, TypeOK, concluding
<1>20. CASE TurnEndHooks
  <2>1. stop' \in BOOLEAN
    BY <1>20 DEF TurnEndHooks, TypeOK
  <2>2. PICK error \in BOOLEAN :
          /\ Reported(error)
          /\ pc' = IF error THEN "closing" ELSE IF finishing THEN "finishing" ELSE "interpret"
    BY <1>20 DEF TurnEndHooks
  <2>3. pc' \in {"closing", "finishing", "interpret"}
    BY <2>2
  <2>4. QED
    BY <1>20, <2>1, <2>2, <2>3, ReportTypes, CloseTypes DEF TurnEndHooks, TypeOK, concluding
<1>21. CASE Finishing
  BY <1>21 DEF Finishing, TypeOK, Reported, EndAgentHooks, OwedAgain, concluding
<1>22. CASE FinishStopped
  BY <1>22 DEF FinishStopped, TypeOK, concluding
<1>23. CASE Interpret
  BY <1>23 DEF Interpret, TypeOK, TurnsLeft, Placed, Underway, Upcoming, Over, Turns
<1>24. CASE Finish
  BY <1>24 DEF Finish, TypeOK, Conclude, concluding
<1>25. CASE StopRun
  BY <1>25 DEF StopRun, TypeOK, Conclude, concluding
<1>26. CASE Exhaust
  BY <1>26 DEF Exhaust, TypeOK, Conclude, concluding
<1>27. CASE CloseTurn
  <2>1. failed' \in BOOLEAN /\ sinkErrors' \in 0 .. MaxSinkErrors
    BY <1>27, ReportTypes DEF CloseTurn
  <2>2. turnCloses' \in [Turns -> Nat]
    BY <1>27, CloseTypes DEF CloseTurn
  <2>3. openTurn' \in BOOLEAN
    BY <1>27 DEF CloseTurn
  <2>4. QED
    BY <1>27, <2>1, <2>2, <2>3 DEF CloseTurn, TypeOK, concluding
<1>28. CASE CloseAgent
  <2>1. failed' \in BOOLEAN /\ sinkErrors' \in 0 .. MaxSinkErrors
    BY <1>28, ReportTypes DEF CloseAgent
  <2>2. told' \in {"none", "finished", "stopped", "exhausted", "failed"} /\ agentCloses' \in Nat
    BY <1>28 DEF CloseAgent, EndAgentHooks, EndReason, TypeOK
  <2>3. agentOpen' \in BOOLEAN
    BY <1>28 DEF CloseAgent
  <2>4. QED
    BY <1>28, <2>1, <2>2, <2>3 DEF CloseAgent, TypeOK, concluding
<1>29. CASE Return
  BY <1>29 DEF Return, TypeOK, concluding
<1>30. CASE TearDown
  BY <1>30 DEF TearDown, TypeOK
<1>31. CASE SinkFails
  BY <1>31 DEF SinkFails, TypeOK, failing
<1>32. CASE BrainFails
  BY <1>32 DEF BrainFails, TypeOK, failing
<1>33. CASE CancelSeen
  BY <1>33 DEF CancelSeen, TypeOK, failing
<1>34. CASE Cancel
  BY <1>34 DEF Cancel, TypeOK, NotYet
<1>35. CASE UNCHANGED vars
  BY <1>35 DEF vars, TypeOK
<1>36. QED
  BY <1>1, <1>2, <1>3, <1>4, <1>5, <1>6, <1>7, <1>8, <1>9, <1>10, <1>11, <1>12, <1>13,
     <1>14, <1>15, <1>16, <1>17, <1>18, <1>19, <1>20, <1>21, <1>22, <1>23, <1>24, <1>25, <1>26,
     <1>27, <1>28, <1>29, <1>30, <1>31, <1>32, <1>33, <1>34, <1>35 DEF Next, Before, Opening,
     Deciding, Executing, Ending, Concluding, Failing, Returned

-----------------------------------------------------------------------------
(* The steps that write nothing about calls.                               *)
quiet == <<recorded, started, ran, outcome, hooked, cancelledIn>>

(* A call on the way to a decision: everything before it is settled.       *)
LEMMA Approaches ==
  ASSUME LoopInv, TypeOK', UNCHANGED quiet, verdict' = verdict, Resolved,
         pc # "returned", ~stop', turn <= turn',
         pc' \in {"start", "agentHooks"} \cup (Upcoming \ {"record"}),
         pc' \in {"start", "agentHooks"} => turn' = 0,
         pc' \in Upcoming => turn' \in Turns /\ \A c \in recorded : c[1] < turn'
  PROVE  LoopInv'
<1> USE DEF Upcoming, Underway, Over, Closing
<1>1. UNCHANGED <<recorded, started, ran, outcome, hooked, cancelledIn>>
  BY DEF quiet
<1>2. Placed'
  <2>1. \A c \in recorded : c[1] \in Nat /\ c[1] <= turn
    BY DEF LoopInv, Placed, TypeOK, Calls, Turns
  <2>2. turn \in Nat /\ turn' \in Nat
    BY LoopAssumption DEF LoopInv, TypeOK
  <2>3. \A c \in recorded : c[1] <= turn'
    BY <2>1, <2>2
  <2>4. verdict' = "none" /\ pc' # "returned"
    BY DEF LoopInv, Placed
  <2>5. QED
    BY <1>1, <2>3, <2>4 DEF Placed
<1>3. Announced' /\ OutcomeTrue' /\ NothingLeft'
  BY <1>1 DEF LoopInv, Announced, OutcomeTrue, NothingLeft, Resolved
<1>4. ThisTurn' /\ StopSeen'
  BY DEF ThisTurn, StopSeen
<1>5. CancelHeeded'
  <2>1. turn \in Nat /\ turn' \in Nat /\ cancelledIn \in Nat
    BY LoopAssumption DEF LoopInv, TypeOK
  <2>2. NotYet' = NotYet
    BY DEF NotYet
  <2>3. QED
    BY <1>1, <2>1, <2>2 DEF LoopInv, CancelHeeded, NothingRunsAfterCancel
<1>6. QED
  BY <1>2, <1>3, <1>4, <1>5 DEF LoopInv

(* A turn or a run on its way out: nothing is left over, or it failed.     *)
LEMMA Leaves ==
  ASSUME LoopInv, TypeOK', UNCHANGED quiet, turn' = turn,
         Resolved \/ (pc' \in Closing /\ failed'),
         pc' \in {"stopping"} \cup Over \cup Closing,
         pc' \in Over => turn \in Turns,
         verdict' # "none" <=> pc' = "returned"
  PROVE  LoopInv'
<1> USE DEF Upcoming, Underway, Over, Closing
<1>1. UNCHANGED <<recorded, started, ran, outcome, hooked, cancelledIn>>
  BY DEF quiet
<1>2. Placed'
  BY <1>1 DEF LoopInv, Placed
<1>3. Announced' /\ OutcomeTrue' /\ NothingLeft'
  BY <1>1 DEF LoopInv, Announced, OutcomeTrue, NothingLeft, Resolved
<1>4. ThisTurn' /\ StopSeen'
  BY DEF ThisTurn, StopSeen
<1>5. CancelHeeded'
  BY <1>1 DEF LoopInv, CancelHeeded, NothingRunsAfterCancel, NotYet
<1>6. QED
  BY <1>2, <1>3, <1>4, <1>5 DEF LoopInv

LEMMA BeforeStep == LoopInv /\ TypeOK' /\ Before => LoopInv'
<1> SUFFICES ASSUME LoopInv, TypeOK', Before PROVE LoopInv'
  OBVIOUS
<1> USE DEF Upcoming, Underway, Over, Closing
<1> USE DEF plan, counters, closing, log, runner, quiet
<1>1. CASE Prepare
  <2>1. Resolved /\ ~stop
    BY <1>1 DEF Prepare, LoopInv, NothingLeft, StopSeen
  <2>2. turn = 0 /\ turn' = turn
    BY <1>1 DEF Prepare, LoopInv, Placed
  <2>3. QED
    BY <1>1, <2>1, <2>2, Approaches DEF Prepare
<1>2. CASE PrepareFails
  <2>1. verdict' = "none"
    BY <1>2 DEF PrepareFails, LoopInv, Placed
  <2>2. QED
    BY <1>2, <2>1, Leaves DEF PrepareFails
<1>3. CASE AgentStart
  <2>1. Resolved /\ ~stop
    BY <1>3 DEF AgentStart, LoopInv, NothingLeft, StopSeen
  <2>2. turn = 0 /\ turn' = turn
    BY <1>3 DEF AgentStart, LoopInv, Placed
  <2>3. QED
    BY <1>3, <2>1, <2>2, Approaches DEF AgentStart, steady
<1>4. CASE AgentStartHooks
  <2>1. Resolved /\ turn = 0 /\ verdict' = verdict /\ verdict = "none"
    BY <1>4 DEF AgentStartHooks, HookStep, steady, LoopInv, NothingLeft, Placed
  <2>2. CASE stop'
    BY <1>4, <2>1, <2>2, Leaves DEF AgentStartHooks, HookStep, steady
  <2>3. CASE ~stop'
    <3>1. turn' = 1 /\ 1 \in Turns /\ pc' = "turnStart" /\ pc = "agentHooks" /\ UNCHANGED quiet
      BY <1>4, <2>3, LoopAssumption DEF AgentStartHooks, HookStep, steady, Turns
    <3>2. \A c \in recorded : c[1] < 1
      <4>1. \A c \in recorded : c[1] \in Nat /\ c[1] <= 0
        BY <2>1 DEF LoopInv, Placed, TypeOK, Calls, Turns
      <4>2. QED
        BY <4>1
    <3>3. turn <= turn'
      BY <2>1, <3>1
    <3>4. QED
      BY <2>1, <2>3, <3>1, <3>2, <3>3, Approaches
  <2>4. QED
    BY <2>2, <2>3
<1>5. QED
  BY <1>1, <1>2, <1>3, <1>4 DEF Before

LEMMA OpeningStep == LoopInv /\ TypeOK' /\ Opening => LoopInv'
<1> SUFFICES ASSUME LoopInv, TypeOK', Opening PROVE LoopInv'
  OBVIOUS
<1> USE DEF Upcoming, Underway, Over, Closing
<1> USE DEF plan, counters, closing, log, runner, quiet
<1>1. /\ pc \in {"turnStart", "turnHooks", "respond", "responseHooks"}
      /\ UNCHANGED <<turn, recorded, started, ran, outcome, hooked, cancelledIn, verdict>>
  BY DEF Opening, TurnStart, TurnStartHooks, Respond, ResponseHooks, HookStep, steady
<1>2. /\ Resolved /\ ~stop /\ turn \in Turns /\ verdict = "none"
      /\ \A c \in recorded : c[1] < turn
  BY <1>1 DEF LoopInv, NothingLeft, StopSeen, Placed
<1>3. turn <= turn'
  BY <1>1, <1>2 DEF Turns
<1>4. \/ pc' \in {"turnHooks", "respond", "responseHooks", "decide"} /\ ~stop'
      \/ pc' = "stopping"
  <2>1. CASE TurnStart \/ Respond
    BY <1>2, <2>1 DEF TurnStart, Respond
  <2>2. CASE TurnStartHooks \/ ResponseHooks
    BY <2>2 DEF TurnStartHooks, ResponseHooks, HookStep
  <2>3. QED
    BY <2>1, <2>2 DEF Opening
<1>5. CASE pc' = "stopping"
  BY <1>1, <1>2, <1>5, Leaves
<1>6. CASE pc' # "stopping"
  BY <1>1, <1>2, <1>3, <1>4, <1>6, Approaches
<1>7. QED
  BY <1>5, <1>6
(* A report or a response that fails: the run has failed.                  *)
LEMMA FailingStep == LoopInv /\ TypeOK' /\ Failing => LoopInv'
<1> SUFFICES ASSUME LoopInv, TypeOK', Failing PROVE LoopInv'
  OBVIOUS
<1> USE DEF plan, counters, closing, log, runner, quiet
<1>1. /\ pc' = "closing" /\ failed'
      /\ UNCHANGED quiet /\ UNCHANGED <<turn, verdict>>
  BY DEF Failing, SinkFails, BrainFails, CancelSeen, failing
<1>2. pc # "returned"
  BY DEF Failing, SinkFails, BrainFails, CancelSeen
<1>3. verdict' = "none"
  BY <1>1, <1>2 DEF LoopInv, Placed
<1>4. QED
  BY <1>1, <1>3, Leaves DEF Over, Closing

(* Once every call of the turn has its result, every recorded call has.    *)
LEMMA AllResolved ==
  ASSUME LoopInv, pc = "ending", Unreported = {}
  PROVE  Resolved
<1> SUFFICES ASSUME NEW c \in recorded PROVE outcome[c] # "none"
  BY DEF Resolved
<1>1. c \in Calls /\ c = <<c[1], c[2]>> /\ c[1] \in Nat /\ turn \in Nat
  BY DEF LoopInv, TypeOK, Calls, Turns
<1>2. c[1] <= turn
  BY DEF LoopInv, Placed
<1>3. CASE c[1] < turn
  BY <1>3 DEF LoopInv, NothingLeft, Underway
<1>4. CASE c[1] = turn
  <2>1. c[2] \in Position
    BY <1>4 DEF LoopInv, ThisTurn, Underway
  <2>2. c = Call(c[2])
    BY <1>1, <1>4 DEF Call
  <2>3. QED
    BY <2>1, <2>2 DEF Unreported
<1>5. QED
  BY <1>1, <1>2, <1>3, <1>4

(* The end of a turn, up to what is next.                                  *)
LEMMA EndingStep == LoopInv /\ TypeOK' /\ (Ending \/ ResultsReported) => LoopInv'
<1> SUFFICES ASSUME LoopInv, TypeOK', Ending \/ ResultsReported PROVE LoopInv'
  OBVIOUS
<1> USE DEF Upcoming, Underway, Over, Closing
<1> USE DEF plan, counters, closing, log, runner, quiet
<1>1. /\ pc \in Over \cup {"ending"}
      /\ UNCHANGED quiet /\ UNCHANGED verdict
  BY DEF Ending, ResultsReported, TurnEnd, TurnEndHooks, Finishing, FinishStopped, Interpret, concluding
<1>2. turn \in Turns /\ verdict = "none"
  BY <1>1 DEF LoopInv, Placed
<1>3. Resolved
  <2>1. CASE ResultsReported
    BY <2>1, AllResolved DEF ResultsReported
  <2>2. CASE Ending
    <3>1. pc \in Over
      BY <2>2 DEF Ending, TurnEnd, TurnEndHooks, Finishing, FinishStopped, Interpret
    <3>2. QED
      BY <3>1 DEF LoopInv, NothingLeft
  <2>3. QED
    BY <2>1, <2>2
<1>4. CASE Interpret /\ pc' = "turnStart"
  <2>1. turn' = turn + 1 /\ ~stop /\ ~stop' /\ turn < MaxTurns
    BY <1>4 DEF Interpret, TurnsLeft
  <2>2. turn <= turn' /\ turn' \in Turns
    BY <1>2, <2>1, LoopAssumption DEF Turns
  <2>3. \A c \in recorded : c[1] < turn'
    <3>1. \A c \in recorded : c[1] \in Nat /\ c[1] <= turn
      BY DEF LoopInv, Placed, TypeOK, Calls, Turns
    <3>2. turn \in Nat
      BY <1>2 DEF Turns
    <3>3. QED
      BY <2>1, <3>1, <3>2
  <2>4. QED
    BY <1>1, <1>2, <1>3, <1>4, <2>1, <2>2, <2>3, Approaches
<1>5. CASE ~(Interpret /\ pc' = "turnStart")
  <2>1. turn' = turn /\ pc' \in Over \cup {"stopping", "closing"}
    <3>1. CASE ResultsReported \/ TurnEnd \/ FinishStopped
      BY <3>1 DEF ResultsReported, TurnEnd, FinishStopped, concluding
    <3>2. CASE TurnEndHooks
      BY <3>2 DEF TurnEndHooks, concluding
    <3>3. CASE Finishing
      BY <3>3 DEF Finishing, concluding
    <3>4. CASE Interpret
      BY <1>5, <3>4 DEF Interpret
    <3>5. QED
      BY <3>1, <3>2, <3>3, <3>4 DEF Ending
  <2>2. QED
    BY <1>1, <1>2, <1>3, <2>1, Leaves
<1>6. QED
  BY <1>4, <1>5

(* The run's last event, its closing hooks, and the end of the runner.     *)
LEMMA ConcludingStep == LoopInv /\ TypeOK' /\ Concluding => LoopInv'
<1> SUFFICES ASSUME LoopInv, TypeOK', Concluding PROVE LoopInv'
  OBVIOUS
<1> USE DEF Upcoming, Underway, Over, Closing
<1> USE DEF plan, counters, closing, log, runner, quiet
<1>1. UNCHANGED quiet /\ turn' = turn
  BY DEF Concluding, Finish, StopRun, Exhaust, Conclude, CloseTurn, CloseAgent, Return, TearDown, concluding
<1>2. CASE Finish \/ StopRun \/ Exhaust
  <2>1. /\ pc \in {"finish", "stopping", "exhausting"} /\ pc' = "closing"
        /\ verdict' = verdict
    BY <1>2 DEF Finish, StopRun, Exhaust, Conclude, concluding
  <2>2. Resolved /\ verdict = "none"
    BY <2>1 DEF LoopInv, NothingLeft, Placed
  <2>3. QED
    BY <1>1, <2>1, <2>2, Leaves
<1>3. CASE CloseTurn \/ CloseAgent \/ Return
  <2>1. pc = "closing" /\ pc' \in {"closing", "teardown"} /\ verdict' = verdict
    BY <1>3 DEF CloseTurn, CloseAgent, Return, concluding
  <2>2. failed => failed'
    BY <1>3 DEF CloseTurn, CloseAgent, Return, Reported
  <2>3. (Resolved \/ failed) /\ verdict = "none"
    BY <2>1 DEF LoopInv, NothingLeft, Placed
  <2>4. QED
    BY <1>1, <2>1, <2>2, <2>3, Leaves
<1>4. CASE TearDown
  <2>1. /\ pc = "teardown" /\ pc' = "returned" /\ verdict' # "none"
        /\ failed' = failed
    BY <1>4 DEF TearDown
  <2>2. Resolved \/ failed
    BY <2>1 DEF LoopInv, NothingLeft
  <2>3. QED
    BY <1>1, <2>1, <2>2, Leaves
<1>5. QED
  BY <1>2, <1>3, <1>4 DEF Concluding
-----------------------------------------------------------------------------
(* The calls of a turn, from their decisions to their results.             *)
LEMMA DecideStep == LoopInv /\ TypeOK' /\ DecideCalls => LoopInv'
<1> SUFFICES ASSUME LoopInv, TypeOK', DecideCalls PROVE LoopInv'
  OBVIOUS
<1> USE DEF Upcoming, Underway, Over, Closing
<1>1. /\ pc = "decide" /\ pc' = "record" /\ DOMAIN decision' = Position
      /\ UNCHANGED <<turn, calls, hooked, cancelledIn, verdict, recorded, started, ran, outcome>>
  BY DEF DecideCalls, deciding, plan, runner, log
<1>2. Placed'
  BY <1>1 DEF LoopInv, Placed
<1>3. Announced' /\ OutcomeTrue' /\ NothingLeft'
  BY <1>1 DEF LoopInv, Announced, OutcomeTrue, NothingLeft, Resolved
<1>4. ThisTurn'
  BY <1>1 DEF ThisTurn, Position
<1>5. StopSeen'
  <2>1. hooked \/ stop' = stop
    BY DEF DecideCalls
  <2>2. ~stop
    BY <1>1 DEF LoopInv, StopSeen
  <2>3. QED
    BY <1>1, <2>1, <2>2 DEF StopSeen
<1>6. CancelHeeded'
  <2>1. hooked => cancelledIn = NotYet
    BY DEF DecideCalls, DecisionsCount, Cancelled
  <2>2. turn <= NotYet /\ NotYet' = NotYet
    BY LoopAssumption DEF LoopInv, TypeOK, NotYet
  <2>3. QED
    BY <1>1, <2>1, <2>2 DEF LoopInv, CancelHeeded, NothingRunsAfterCancel
<1>7. QED
  BY <1>2, <1>3, <1>4, <1>5, <1>6 DEF LoopInv

LEMMA RecordStep == LoopInv /\ TypeOK' /\ RecordResponse => LoopInv'
<1> SUFFICES ASSUME LoopInv, TypeOK', RecordResponse PROVE LoopInv'
  OBVIOUS
<1> USE DEF Upcoming, Underway, Over, Closing
<1> DEFINE New == {Call(i) : i \in Position}
<1>1. /\ pc = "record" /\ pc' \in {"resolve", "starting"} /\ recorded' = recorded \cup New
      /\ hooked => pc' = "resolve"
      /\ UNCHANGED <<turn, calls, decision, stop, hooked, cancelledIn, verdict, started, ran, outcome>>
  BY DEF RecordResponse, deciding, plan, runner
<1>2. \A c \in recorded : c \in Calls /\ c[1] \in Nat /\ c[1] < turn /\ outcome[c] # "none"
  BY <1>1 DEF LoopInv, TypeOK, Placed, NothingLeft, Resolved, Calls, Turns
<1>3. turn \in Nat /\ turn \in Turns
  BY <1>1 DEF LoopInv, Placed, Turns
<1>4. \A i \in Position : /\ Call(i) \in Calls /\ Call(i) \in New /\ Call(i)[1] = turn
                         /\ Call(i) \notin recorded
  <2>1. \A i \in Position : Call(i) \in Calls /\ Call(i) \in New /\ Call(i)[1] = turn
    BY <1>3, Positions DEF LoopInv, Call
  <2>2. QED
    BY <1>2, <1>3, <2>1
<1>5. \A c \in New : c[1] = turn /\ c[2] \in Position
  BY DEF Call
<1>6. Position' = Position /\ \A i \in Position : Call(i)' = Call(i)
  BY <1>1 DEF Position, Call
<1>7. \A i \in Position : Call(i) \notin started /\ Call(i) \notin ran /\ outcome[Call(i)] = "none"
  BY <1>4 DEF LoopInv, Announced
<1>8. Placed'
  <2>1. \A c \in recorded' : c[1] <= turn
    BY <1>1, <1>2, <1>3, <1>5
  <2>2. QED
    BY <1>1, <1>3, <2>1 DEF LoopInv, Placed
<1>9. Announced' /\ OutcomeTrue'
  BY <1>1 DEF LoopInv, Announced, OutcomeTrue
<1>10. NothingLeft'
  <2>1. \A c \in recorded' : c[1] < turn => outcome[c] # "none"
    BY <1>1, <1>2, <1>3, <1>5
  <2>2. QED
    BY <1>1, <2>1 DEF NothingLeft
<1>11. ThisTurn'
  <2>1. DOMAIN decision = Position
    BY <1>1 DEF LoopInv, ThisTurn
  <2>2. \A i \in Position : Call(i) \in recorded'
    BY <1>1, <1>4
  <2>3. \A c \in recorded' : c[1] = turn => c[2] \in Position
    BY <1>1, <1>2, <1>3, <1>5
  <2>4. QED
    BY <1>1, <1>6, <1>7, <2>1, <2>2, <2>3 DEF ThisTurn
<1>12. StopSeen'
  BY <1>1 DEF LoopInv, StopSeen
<1>13. CancelHeeded'
  BY <1>1 DEF LoopInv, CancelHeeded, NothingRunsAfterCancel, NotYet
<1>14. QED
  BY <1>8, <1>9, <1>10, <1>11, <1>12, <1>13 DEF LoopInv

LEMMA PermissionStep == LoopInv /\ TypeOK' /\ RequestPermission => LoopInv'
<1> SUFFICES ASSUME LoopInv, TypeOK', RequestPermission PROVE LoopInv'
  OBVIOUS
<1> USE DEF Upcoming, Underway, Over, Closing
<1>1. /\ pc = "resolve" /\ pc' = "resolve" /\ DOMAIN decision' = DOMAIN decision
      /\ UNCHANGED <<turn, calls, hooked, cancelledIn, verdict, recorded, started, ran, outcome>>
  BY DEF RequestPermission, deciding, plan, runner, log
<1>2. Placed' /\ Announced' /\ OutcomeTrue' /\ NothingLeft'
  BY <1>1 DEF LoopInv, Placed, Announced, OutcomeTrue, NothingLeft, Resolved
<1>3. Position' = Position /\ \A i \in Position : Call(i)' = Call(i)
  BY <1>1 DEF Position, Call
<1>4. ThisTurn'
  BY <1>1, <1>3 DEF LoopInv, ThisTurn
<1>5. StopSeen'
  BY <1>1 DEF StopSeen
<1>6. CancelHeeded'
  BY <1>1 DEF LoopInv, CancelHeeded, NothingRunsAfterCancel, NotYet
<1>7. QED
  BY <1>2, <1>4, <1>5, <1>6 DEF LoopInv

LEMMA SettleStep == LoopInv /\ TypeOK' /\ SettleCalls => LoopInv'
<1> SUFFICES ASSUME LoopInv, TypeOK', SettleCalls PROVE LoopInv'
  OBVIOUS
<1> USE DEF Upcoming, Underway, Over, Closing
<1>1. /\ pc = "resolve" /\ pc' = "starting" /\ decision' = Settled
      /\ UNCHANGED <<turn, calls, stop, hooked, cancelledIn, verdict, recorded, started, ran, outcome>>
  BY DEF SettleCalls, deciding, plan, runner, log
<1>2. Placed' /\ Announced' /\ OutcomeTrue' /\ NothingLeft'
  BY <1>1 DEF LoopInv, Placed, Announced, OutcomeTrue, NothingLeft, Resolved
<1>3. Position' = Position /\ \A i \in Position : Call(i)' = Call(i)
  BY <1>1 DEF Position, Call
<1>4. DOMAIN decision' = Position /\ (stop => \A i \in Position : decision'[i] = "deny")
  BY <1>1 DEF LoopInv, ThisTurn, Settled
<1>5. ThisTurn'
  <2>1. \A i \in Position : Call(i) \notin started /\ Call(i) \notin ran
    BY <1>1 DEF LoopInv, ThisTurn, Announced
  <2>2. QED
    BY <1>1, <1>3, <1>4, <2>1 DEF LoopInv, ThisTurn
<1>6. StopSeen'
  BY <1>1, <1>3, <1>4 DEF StopSeen, Denied
<1>7. CancelHeeded'
  BY <1>1 DEF LoopInv, CancelHeeded, NothingRunsAfterCancel, NotYet
<1>8. QED
  BY <1>2, <1>5, <1>6, <1>7 DEF LoopInv
LEMMA ReportStartStep == LoopInv /\ TypeOK' /\ ReportStart => LoopInv'
<1> SUFFICES ASSUME LoopInv, TypeOK', ReportStart PROVE LoopInv'
  OBVIOUS
<1> USE DEF Upcoming, Underway, Over, Closing
<1>1. PICK i \in ToStart : started' = started \cup {Call(i)}
  BY DEF ReportStart
<1>2. /\ pc = "starting" /\ pc' = "starting"
      /\ UNCHANGED <<turn, calls, decision, stop, hooked, cancelledIn, verdict, recorded, ran, outcome>>
  BY DEF ReportStart, running, plan, runner
<1>3. i \in Position /\ ~Denied(i)
  BY DEF ToStart
<1>4. Placed' /\ OutcomeTrue' /\ NothingLeft'
  BY <1>2 DEF LoopInv, Placed, OutcomeTrue, NothingLeft, Resolved
<1>5. Announced'
  BY <1>1, <1>2, <1>3 DEF LoopInv, Announced, ThisTurn
<1>6. /\ Position' = Position
      /\ \A j \in Position : Call(j)' = Call(j) /\ Denied(j)' = Denied(j)
  BY <1>2 DEF Position, Call, Denied
<1>7. ThisTurn'
  <2>1. \A j \in Position : Denied(j) => Call(j) \notin started'
    <3>1. SUFFICES ASSUME NEW j \in Position, Denied(j), Call(j) \in started' PROVE FALSE
      OBVIOUS
    <3>2. Call(j) = Call(i)
      BY <1>1, <1>2, <3>1 DEF LoopInv, ThisTurn
    <3>3. QED
      BY <1>3, <3>1, <3>2 DEF Call
  <2>2. QED
    BY <1>2, <1>6, <2>1 DEF LoopInv, ThisTurn
<1>8. StopSeen'
  BY <1>2, <1>6 DEF LoopInv, StopSeen
<1>9. CancelHeeded'
  BY <1>2 DEF LoopInv, CancelHeeded, NothingRunsAfterCancel, NotYet
<1>10. QED
  BY <1>4, <1>5, <1>7, <1>8, <1>9 DEF LoopInv

LEMMA LaunchStep == LoopInv /\ TypeOK' /\ (Launch \/ WaitForTools) => LoopInv'
<1> SUFFICES ASSUME LoopInv, TypeOK', Launch \/ WaitForTools PROVE LoopInv'
  OBVIOUS
<1> USE DEF Upcoming, Underway, Over, Closing
<1>1. /\ \/ pc = "starting" /\ pc' = "executing" /\ ToStart = {}
         \/ pc = "executing" /\ pc' = "ending" /\ AllDone
      /\ UNCHANGED <<turn, calls, decision, stop, hooked, cancelledIn, verdict, recorded, started,
                     ran, outcome>>
  BY DEF Launch, WaitForTools, running, plan, runner
<1>2. Placed' /\ Announced' /\ OutcomeTrue' /\ NothingLeft'
  BY <1>1 DEF LoopInv, Placed, Announced, OutcomeTrue, NothingLeft, Resolved
<1>3. /\ Position' = Position
      /\ \A j \in Position : Call(j)' = Call(j) /\ Denied(j)' = Denied(j)
  BY <1>1 DEF Position, Call, Denied
<1>4. ThisTurn'
  <2>1. pc' = "executing" => \A i \in Position : Denied(i) \/ Call(i) \in started
    BY <1>1 DEF ToStart
  <2>2. AllDone' <=> AllDone
    BY <1>1, <1>3 DEF AllDone
  <2>3. QED
    BY <1>1, <1>3, <2>1, <2>2 DEF LoopInv, ThisTurn
<1>5. StopSeen'
  BY <1>1, <1>3 DEF LoopInv, StopSeen
<1>6. CancelHeeded'
  BY <1>1 DEF LoopInv, CancelHeeded, NothingRunsAfterCancel, NotYet
<1>7. QED
  BY <1>2, <1>4, <1>5, <1>6 DEF LoopInv

LEMMA ExecuteStep == LoopInv /\ TypeOK' /\ ExecuteTool => LoopInv'
<1> SUFFICES ASSUME LoopInv, TypeOK', ExecuteTool PROVE LoopInv'
  OBVIOUS
<1> USE DEF Upcoming, Underway, Over, Closing
<1>1. PICK i \in Position : ~Denied(i) /\ ran' = ran \cup {Call(i)}
  BY DEF ExecuteTool
<1>2. /\ pc = "executing" /\ pc' = "executing"
      /\ UNCHANGED <<turn, calls, decision, stop, hooked, cancelledIn, verdict, recorded, started, outcome>>
  BY DEF ExecuteTool, running, plan, runner
<1>3. Call(i) \in started /\ outcome[Call(i)] = "none"
  BY <1>1, <1>2 DEF LoopInv, ThisTurn
<1>4. Placed' /\ Announced' /\ NothingLeft'
  BY <1>1, <1>2, <1>3 DEF LoopInv, Placed, Announced, NothingLeft, Resolved
<1>5. OutcomeTrue'
  BY <1>1, <1>2, <1>3 DEF LoopInv, OutcomeTrue
<1>6. /\ Position' = Position
      /\ \A j \in Position : Call(j)' = Call(j) /\ Denied(j)' = Denied(j)
  BY <1>2 DEF Position, Call, Denied
<1>7. ThisTurn' /\ StopSeen'
  BY <1>2, <1>6 DEF LoopInv, ThisTurn, StopSeen
<1>8. CancelHeeded'
  <2>1. hooked => turn <= cancelledIn
    BY <1>2 DEF LoopInv, CancelHeeded
  <2>2. Call(i)[1] = turn
    BY DEF Call
  <2>3. QED
    BY <1>1, <1>2, <2>1, <2>2 DEF LoopInv, CancelHeeded, NothingRunsAfterCancel, NotYet
<1>9. QED
  BY <1>4, <1>5, <1>7, <1>8 DEF LoopInv

LEMMA ResultStep == LoopInv /\ TypeOK' /\ EndToolCall => LoopInv'
<1> SUFFICES ASSUME LoopInv, TypeOK', EndToolCall PROVE LoopInv'
  OBVIOUS
<1> USE DEF Upcoming, Underway, Over, Closing
<1>1. PICK i \in Unreported :
        outcome' = [outcome EXCEPT ![Call(i)] = IF Denied(i) THEN "denied" ELSE "ended"]
  BY DEF EndToolCall
<1>2. /\ pc = "ending" /\ pc' = "ending"
      /\ UNCHANGED <<turn, calls, decision, hooked, cancelledIn, verdict, recorded, started, ran>>
  BY DEF EndToolCall, concluding, plan, runner
<1>3. i \in Position /\ Call(i) \in recorded
  BY <1>2 DEF Unreported, LoopInv, ThisTurn
<1>4. outcome \in [Calls -> {"none", "ended", "denied"}]
  BY DEF LoopInv, TypeOK
<1>5. \A c \in Calls : c # Call(i) => outcome'[c] = outcome[c]
  BY <1>1, <1>4
<1>6. outcome'[Call(i)] = IF Denied(i) THEN "denied" ELSE "ended"
  BY <1>1, <1>3, <1>4 DEF LoopInv, TypeOK
<1>7. Placed'
  BY <1>2 DEF LoopInv, Placed
<1>8. Announced'
  BY <1>2, <1>3, <1>5 DEF LoopInv, Announced
<1>9. OutcomeTrue'
  <2>1. Denied(i) => Call(i) \notin ran
    BY <1>2, <1>3 DEF LoopInv, ThisTurn, Announced
  <2>2. ~Denied(i) => Call(i) \in ran
    BY <1>2, <1>3 DEF LoopInv, ThisTurn, AllDone
  <2>3. QED
    BY <1>2, <1>5, <1>6, <2>1, <2>2 DEF LoopInv, OutcomeTrue
<1>10. NothingLeft'
  <2>1. \A c \in recorded : outcome[c] # "none" => outcome'[c] # "none"
    BY <1>5, <1>6 DEF LoopInv, TypeOK
  <2>2. QED
    BY <1>2, <2>1 DEF LoopInv, NothingLeft
<1>11. /\ Position' = Position
       /\ \A j \in Position : Call(j)' = Call(j) /\ Denied(j)' = Denied(j)
  BY <1>2 DEF Position, Call, Denied
<1>12. ThisTurn'
  <2>1. AllDone' <=> AllDone
    BY <1>2, <1>11 DEF AllDone
  <2>2. QED
    BY <1>2, <1>11, <2>1 DEF LoopInv, ThisTurn
<1>13. StopSeen'
  BY <1>2 DEF StopSeen
<1>14. CancelHeeded'
  BY <1>2 DEF LoopInv, CancelHeeded, NothingRunsAfterCancel, NotYet
<1>15. QED
  BY <1>7, <1>8, <1>9, <1>10, <1>12, <1>13, <1>14 DEF LoopInv

LEMMA CancelStep == LoopInv /\ TypeOK' /\ Cancel => LoopInv'
<1> SUFFICES ASSUME LoopInv, TypeOK', Cancel PROVE LoopInv'
  OBVIOUS
<1>1. /\ cancelledIn' = turn
      /\ UNCHANGED <<pc, turn, calls, decision, stop, hooked, failed, verdict, recorded, started,
                     ran, outcome>>
  BY DEF Cancel, plan, runner, log
<1>2. Placed' /\ Announced' /\ OutcomeTrue' /\ NothingLeft'
  BY <1>1 DEF LoopInv, Placed, Announced, OutcomeTrue, NothingLeft, Resolved
<1>3. /\ Position' = Position
      /\ \A j \in Position : Call(j)' = Call(j) /\ Denied(j)' = Denied(j)
  BY <1>1 DEF Position, Call, Denied
<1>4. AllDone' <=> AllDone
  BY <1>1, <1>3 DEF AllDone
<1>5. ThisTurn' /\ StopSeen'
  BY <1>1, <1>3, <1>4 DEF LoopInv, ThisTurn, StopSeen
<1>6. CancelHeeded'
  <2>1. \A c \in ran : c[1] <= turn
    BY DEF LoopInv, Placed, Announced
  <2>2. turn <= turn
    BY DEF LoopInv, TypeOK
  <2>3. QED
    BY <1>1, <2>1, <2>2 DEF CancelHeeded, NothingRunsAfterCancel
<1>7. QED
  BY <1>2, <1>5, <1>6 DEF LoopInv
-----------------------------------------------------------------------------
(* The invariant holds of every run.                                       *)
LEMMA InitEstablishes == Init => LoopInv
<1> SUFFICES ASSUME Init PROVE LoopInv
  OBVIOUS
<1> USE LoopAssumption
<1>1. TypeOK
  <2>1. /\ calls \in Plans
        /\ decision \in UNION {[1 .. n -> Permissions] : n \in 0 .. MaxCalls}
    <3>1. 0 \in 0 .. MaxCalls
      OBVIOUS
    <3>2. <<>> \in [1 .. 0 -> Keys] /\ <<>> \in [1 .. 0 -> Permissions]
      OBVIOUS
    <3>3. QED
      BY <3>1, <3>2 DEF Init, Plans
  <2>2. NotYet \in 0 .. MaxTurns + 1 /\ 0 \in 0 .. MaxTurns /\ 0 \in 0 .. MaxSinkErrors
    BY DEF NotYet
  <2>3. /\ pc = "prepare" /\ turn \in 0 .. MaxTurns
        /\ cancelledIn \in 0 .. MaxTurns + 1 /\ sinkErrors \in 0 .. MaxSinkErrors
    BY <2>2 DEF Init
  <2>4. /\ finishing \in BOOLEAN /\ stop \in BOOLEAN /\ hooked \in BOOLEAN /\ failed \in BOOLEAN
        /\ agentOpen \in BOOLEAN /\ openTurn \in BOOLEAN
    BY DEF Init
  <2>5. QED
    BY <2>1, <2>3, <2>4 DEF Init, TypeOK
<1>2. Placed
  BY DEF Init, Placed, Upcoming, Underway, Over
<1>3. Announced /\ NothingLeft /\ OutcomeTrue
  BY DEF Init, Announced, NothingLeft, OutcomeTrue, Resolved, Underway, Closing
<1>4. ThisTurn /\ StopSeen
  BY DEF Init, ThisTurn, StopSeen, Upcoming, Underway
<1>5. CancelHeeded
  BY DEF Init, CancelHeeded, NothingRunsAfterCancel, Underway
<1>6. QED
  BY <1>1, <1>2, <1>3, <1>4, <1>5 DEF LoopInv

LEMMA LoopStep == LoopInv /\ [Next]_vars => LoopInv'
<1> SUFFICES ASSUME LoopInv, [Next]_vars PROVE LoopInv'
  OBVIOUS
<1>1. TypeOK'
  BY TypeStep DEF LoopInv
<1>2. CASE UNCHANGED vars
  <2>1. /\ UNCHANGED <<pc, turn, calls, decision, stop, hooked, cancelledIn, failed>>
        /\ UNCHANGED <<verdict, recorded, started, ran, outcome>>
    BY <1>2 DEF vars, plan, runner, log
  <2>2. Placed' /\ Announced' /\ OutcomeTrue' /\ NothingLeft' /\ CancelHeeded'
    BY <2>1 DEF LoopInv, Placed, Announced, OutcomeTrue, NothingLeft, Resolved, CancelHeeded,
         NothingRunsAfterCancel, NotYet
  <2>3. /\ Position' = Position
        /\ \A j \in Position : Call(j)' = Call(j) /\ Denied(j)' = Denied(j)
    BY <2>1 DEF Position, Call, Denied
  <2>4. AllDone' <=> AllDone
    BY <2>1, <2>3 DEF AllDone
  <2>5. ThisTurn' /\ StopSeen'
    BY <2>1, <2>3, <2>4 DEF LoopInv, ThisTurn, StopSeen
  <2>6. QED
    BY <1>1, <2>2, <2>5 DEF LoopInv
<1>3. CASE Next /\ ~UNCHANGED vars
  BY <1>1, <1>3, BeforeStep, OpeningStep, DecideStep, RecordStep, PermissionStep, SettleStep,
     ReportStartStep, LaunchStep, ExecuteStep, ResultStep, EndingStep, ConcludingStep, FailingStep,
     CancelStep DEF Next, Deciding, Executing, Returned
<1>4. QED
  BY <1>2, <1>3

(* A stop is heeded by whatever step comes next.                           *)
LEMMA StopStep == LoopInv /\ [Next]_vars /\ stop => ran' = ran /\ turn' = turn
<1> SUFFICES ASSUME LoopInv, [Next]_vars, stop PROVE ran' = ran /\ turn' = turn
  OBVIOUS
<1> USE DEF plan, counters, closing, log, runner
<1>1. CASE Before \/ Opening
  BY <1>1 DEF Before, Opening, Prepare, PrepareFails, AgentStart, AgentStartHooks, TurnStart,
     TurnStartHooks, Respond, ResponseHooks, HookStep, steady
<1>2. CASE Deciding
  BY <1>2 DEF Deciding, DecideCalls, RecordResponse, RequestPermission, SettleCalls, deciding
<1>3. CASE ExecuteTool
  BY <1>3 DEF ExecuteTool, LoopInv, StopSeen
<1>4. CASE Executing /\ ~ExecuteTool
  BY <1>4 DEF Executing, ReportStart, Launch, WaitForTools, EndToolCall, ResultsReported, running,
     concluding
<1>5. CASE Ending
  BY <1>5 DEF Ending, TurnEnd, TurnEndHooks, Finishing, FinishStopped, Interpret, concluding
<1>6. CASE Concluding
  BY <1>6 DEF Concluding, Finish, StopRun, Exhaust, Conclude, CloseTurn, CloseAgent, Return, TearDown,
     concluding
<1>7. CASE Failing \/ Cancel
  BY <1>7 DEF Failing, SinkFails, BrainFails, CancelSeen, Cancel, failing
<1>8. CASE UNCHANGED vars
  BY <1>8 DEF vars
<1>9. QED
  BY <1>1, <1>2, <1>3, <1>4, <1>5, <1>6, <1>7, <1>8 DEF Next, Returned

-----------------------------------------------------------------------------
(* The run and its contract.                                               *)
Outstanding == {c \in recorded : outcome[c] = "none"}
WithResult  == {c \in Calls : outcome[c] # "none"}

(* Recording a response requests its calls, when it has any.               *)
LEMMA RecordRequests ==
  ASSUME LoopInv, RecordResponse
  PROVE  Contract!Next \/ UNCHANGED <<Outstanding, WithResult, verdict>>
<1> DEFINE New == {Call(i) : i \in Position}
<1>1. /\ pc = "record" /\ recorded' = recorded \cup New
      /\ UNCHANGED <<turn, outcome, verdict>>
  BY DEF RecordResponse, deciding, runner
<1>2. Outstanding = {} /\ verdict = "none" /\ turn \in Turns
  BY <1>1 DEF LoopInv, NothingLeft, Resolved, Placed, Upcoming, Underway, Closing, Outstanding
<1>3. \A c \in New : c \in Calls /\ c \notin recorded
  <2>1. \A c \in recorded : c[1] < turn /\ c[1] \in Nat
    BY <1>1 DEF LoopInv, Placed, Upcoming, TypeOK, Calls, Turns
  <2>2. \A i \in Position : Call(i) \in Calls /\ Call(i)[1] = turn
    BY <1>2, Positions DEF LoopInv, Call
  <2>3. turn \in Nat
    BY <1>2 DEF Turns
  <2>4. QED
    BY <2>1, <2>2, <2>3
<1>4. \A c \in New : outcome[c] = "none"
  BY <1>3 DEF LoopInv, Announced
<1>5. Outstanding' = New
  BY <1>1, <1>2, <1>4 DEF Outstanding
<1>6. WithResult' = WithResult /\ New \cap WithResult = {}
  BY <1>1, <1>4 DEF WithResult
<1>7. CASE New = {}
  BY <1>1, <1>2, <1>5, <1>6, <1>7
<1>8. CASE New # {}
  <2>1. New \in SUBSET Calls
    BY <1>3
  <2>2. Contract!Request(New)
    BY <1>1, <1>2, <1>5, <1>6, <1>8 DEF Contract!Request, Outstanding, WithResult
  <2>3. QED
    BY <2>1, <2>2 DEF Contract!Next, Contract!Request
<1>9. QED
  BY <1>7, <1>8

(* Reporting a result resolves the first call that has none.               *)
LEMMA ResultResolves ==
  ASSUME LoopInv, EndToolCall
  PROVE  Contract!Next
<1>1. PICK i \in Unreported :
        /\ InCallOrder(i)
        /\ outcome' = [outcome EXCEPT ![Call(i)] = IF Denied(i) THEN "denied" ELSE "ended"]
  BY DEF EndToolCall
<1>2. pc = "ending" /\ UNCHANGED <<recorded, verdict>>
  BY DEF EndToolCall, concluding, runner
<1>3. Call(i) \in recorded /\ Call(i) \in Calls /\ verdict = "none"
  BY <1>2 DEF Unreported, LoopInv, ThisTurn, TypeOK, Placed, Underway
<1>4. outcome[Call(i)] = "none"
  BY DEF Unreported
<1>5. outcome \in [Calls -> {"none", "ended", "denied"}]
  BY DEF LoopInv, TypeOK
<1>6. /\ \A c \in Calls : c # Call(i) => outcome'[c] = outcome[c]
      /\ outcome'[Call(i)] # "none"
  BY <1>1, <1>3, <1>5
<1>7. \A d \in Outstanding : Call(i)[2] <= d[2]
  <2>1. SUFFICES ASSUME NEW d \in Outstanding PROVE Call(i)[2] <= d[2]
    OBVIOUS
  <2>2. d \in recorded /\ outcome[d] = "none"
    BY DEF Outstanding
  <2>3. d = <<d[1], d[2]>> /\ d[1] \in Nat /\ turn \in Nat
    BY <2>2 DEF LoopInv, TypeOK, Calls, Turns
  <2>4. d[1] = turn
    BY <1>2, <2>2, <2>3 DEF LoopInv, NothingLeft, Placed, Underway
  <2>5. d[2] \in Unreported
    BY <1>2, <2>2, <2>3, <2>4 DEF LoopInv, ThisTurn, Underway, Unreported, Call
  <2>6. QED
    BY <1>1, <2>5 DEF InCallOrder, Call
<1>8. /\ Outstanding' = Outstanding \ {Call(i)} /\ Call(i) \in Outstanding
      /\ WithResult' = WithResult \cup {Call(i)}
  <2>1. recorded \subseteq Calls
    BY DEF LoopInv, TypeOK
  <2>2. QED
    BY <1>2, <1>3, <1>4, <1>6, <2>1 DEF Outstanding, WithResult
<1>9. Contract!Resolve(Call(i))
  BY <1>2, <1>3, <1>7, <1>8 DEF Contract!Resolve, Outstanding, WithResult
<1>10. QED
  BY <1>3, <1>9 DEF Contract!Next, Contract!Resolve

(* Returning an answer leaves no call without a result.                    *)
LEMMA TearDownConcludes ==
  ASSUME LoopInv, TearDown
  PROVE  Contract!Next
<1>1. /\ pc = "teardown" /\ verdict' \in {"answered", "failed"}
      /\ verdict' = "answered" => ~failed
      /\ UNCHANGED <<recorded, outcome>>
  BY DEF TearDown, log
<1>2. verdict = "none"
  BY <1>1 DEF LoopInv, Placed
<1>3. Outstanding' = Outstanding /\ WithResult' = WithResult
  BY <1>1 DEF Outstanding, WithResult
<1>4. CASE verdict' = "answered"
  <2>1. Outstanding = {}
    BY <1>1, <1>4 DEF LoopInv, NothingLeft, Closing, Resolved, Outstanding
  <2>2. QED
    BY <1>2, <1>3, <1>4, <2>1 DEF Contract!Next, Contract!Answer, Outstanding, WithResult
<1>5. CASE verdict' = "failed"
  BY <1>2, <1>3, <1>5 DEF Contract!Next, Contract!Fail, Outstanding, WithResult
<1>6. QED
  BY <1>1, <1>4, <1>5

(* No other step touches a request, a result or the verdict.               *)
LEMMA OthersStutter ==
  [Next]_vars => \/ UNCHANGED <<recorded, outcome, verdict>>
                 \/ RecordResponse \/ EndToolCall \/ TearDown
<1> SUFFICES ASSUME [Next]_vars, ~RecordResponse, ~EndToolCall, ~TearDown
             PROVE  UNCHANGED <<recorded, outcome, verdict>>
  OBVIOUS
<1> USE DEF plan, counters, closing, log, runner
<1>1. CASE Before \/ Opening
  BY <1>1 DEF Before, Opening, Prepare, PrepareFails, AgentStart, AgentStartHooks, TurnStart,
     TurnStartHooks, Respond, ResponseHooks, HookStep, steady
<1>2. CASE Deciding
  BY <1>2 DEF Deciding, DecideCalls, RequestPermission, SettleCalls, deciding
<1>3. CASE Executing
  BY <1>3 DEF Executing, ReportStart, Launch, ExecuteTool, WaitForTools, ResultsReported, running,
     concluding
<1>4. CASE Ending
  BY <1>4 DEF Ending, TurnEnd, TurnEndHooks, Finishing, FinishStopped, Interpret, concluding
<1>5. CASE Concluding
  BY <1>5 DEF Concluding, Finish, StopRun, Exhaust, Conclude, CloseTurn, CloseAgent, Return, concluding
<1>6. CASE Failing \/ Cancel
  BY <1>6 DEF Failing, SinkFails, BrainFails, CancelSeen, Cancel, failing
<1>7. CASE UNCHANGED vars
  BY <1>7 DEF vars
<1>8. QED
  BY <1>1, <1>2, <1>3, <1>4, <1>5, <1>6, <1>7 DEF Next, Returned

LEMMA ContractStep ==
  LoopInv /\ [Next]_vars => Contract!Next \/ UNCHANGED <<Outstanding, WithResult, verdict>>
<1> SUFFICES ASSUME LoopInv, [Next]_vars
             PROVE  Contract!Next \/ UNCHANGED <<Outstanding, WithResult, verdict>>
  OBVIOUS
<1>1. CASE UNCHANGED <<recorded, outcome, verdict>>
  BY <1>1 DEF Outstanding, WithResult
<1>2. QED
  BY <1>1, OthersStutter, RecordRequests, ResultResolves, TearDownConcludes

LEMMA ContractInit == Init => Contract!Init
BY DEF Init, Contract!Init

-----------------------------------------------------------------------------
(* Theorems.                                                               *)

(* The inductive invariant holds in every state of a run.                  *)
THEOREM LoopInvariant == Spec => []LoopInv
BY InitEstablishes, LoopStep, PTL DEF Spec

(* Every variable of a run keeps its type, a decision the shape of a plan. *)
THEOREM TypeCorrect == Spec => []TypeOK
<1>1. LoopInv => TypeOK
  BY DEF LoopInv
<1>2. QED
  BY <1>1, LoopInvariant, PTL

(* No tool handler runs before the log holds the request and the start of  *)
(* its call, whatever fails and whatever the hooks decide.                 *)
THEOREM IntentFirst == Spec => []IntentDurable
<1>1. LoopInv => IntentDurable
  BY DEF LoopInv, Announced, IntentDurable
<1>2. QED
  BY <1>1, LoopInvariant, PTL

(* A call the log says has ended has run, and one it says was denied has   *)
(* not and never will.                                                     *)
THEOREM TrueOutcomes == Spec => []OutcomeTrue
<1>1. LoopInv => OutcomeTrue
  BY DEF LoopInv
<1>2. QED
  BY <1>1, LoopInvariant, PTL

(* With a start hook, a cancelled run invokes no tool of a later turn.     *)
THEOREM CancellationHeld == Spec => []NothingRunsAfterCancel
<1>1. LoopInv => NothingRunsAfterCancel
  BY DEF LoopInv, CancelHeeded
<1>2. QED
  BY <1>1, LoopInvariant, PTL

(* After a hook asked to stop, no tool is invoked and no turn begins.      *)
THEOREM StopHeld == Spec => StopHalts
<1>1. LoopInv /\ [Next]_vars => [stop => ran' = ran /\ turn' = turn]_vars
  BY StopStep
<1>2. QED
  BY <1>1, LoopInvariant, PTL DEF Spec, StopHalts

(* A run keeps its contract with the store: results in call order, none    *)
(* missing before the next request or behind an answer.                    *)
THEOREM Refinement == Spec => ImplementsContract
<1>1. LoopInv /\ [Next]_vars =>
        [Contract!Next]_<<{c \in recorded : outcome[c] = "none"}, {c \in Calls : outcome[c] # "none"}, verdict>>
  BY ContractStep DEF Outstanding, WithResult
<1>2. QED
  BY <1>1, ContractInit, LoopInvariant, PTL DEF Spec, ImplementsContract, Contract!Spec
-----------------------------------------------------------------------------
(* What the closing hooks are owed.  A second invariant, of the hooks that *)
(* close turns and the run, and of what they are told.                     *)
Unclosed == openTurn \/ pc = "turnEndHooks"
WithinTurn == (Upcoming \ {"turnStart"}) \cup Underway \cup {"turnEnd"}

(* Every turn opened was closed once, but the one that is still open.      *)
TurnsClosed ==
  /\ \A t \in Turns : turnCloses[t] = IF t \in opened /\ ~(Unclosed /\ t = turn) THEN 1 ELSE 0
  /\ \A t \in opened : t <= turn
  /\ pc = "turnStart" => turn \notin opened
  /\ Unclosed => turn \in opened
  /\ openTurn => pc \in WithinTurn \cup {"stopping", "closing"}
  /\ pc \in WithinTurn => openTurn

(* A started run was closed as often as it was kept going, and once more   *)
(* unless its closing is owed still.                                       *)
AgentClosed ==
  /\ 0 \in opened => agentCloses = IF agentOpen THEN continues ELSE continues + 1
  /\ 0 \notin opened => agentCloses = 0 /\ continues = 0 /\ ~agentOpen
  /\ pc \in {"prepare", "start"} => 0 \notin opened
  /\ pc \in {"agentHooks", "stopping"} \cup Upcoming \cup Underway \cup (Over \ {"finish"}) => agentOpen
  /\ pc \in {"teardown", "returned"} => ~agentOpen

(* What the hooks were told is what the run came to.                       *)
Told ==
  /\ 0 \in opened /\ ~agentOpen => told # "none"
  /\ told = "failed" => failed
  /\ pc = "finish" /\ ~agentOpen => told = "finished"
  /\ pc \in Closing /\ ~failed =>
       /\ reason = ending /\ ending # "none"
       /\ 0 \in opened /\ ~agentOpen => told = ending
  /\ pc \in Closing /\ 0 \in opened /\ ~agentOpen /\ told # "failed" =>
       told = ending \/ (told = "finished" /\ ending = "none" /\ failed)

(* A turn that finishes is the last one only if it ends the run.           *)
FinishHeld ==
  /\ pc = "interpret" /\ finishing => turn < MaxTurns
  /\ pc = "exhausting" => ~finishing
  /\ ending # "none" => pc \in Closing
  /\ AnswerStands

ClosingInv == TurnsClosed /\ AgentClosed /\ Told /\ FinishHeld
(* Steps within a turn change nothing the closing hooks are about.         *)
settledParts == <<turn, agentOpen, openTurn, reason, opened, turnCloses, agentCloses, continues, told,
                  failed, ending>>

LEMMA Carries ==
  ASSUME TypeOK, ClosingInv, UNCHANGED settledParts,
         pc \in WithinTurn, pc' \in WithinTurn \cup {"stopping"}
  PROVE  ClosingInv'
<1> USE DEF WithinTurn, Upcoming, Underway, Over, Closing
<1>1. UNCHANGED <<turn, agentOpen, openTurn, reason, opened, turnCloses, agentCloses, continues, told,
                  failed, ending>>
  BY DEF settledParts
<1>2. TurnsClosed'
  BY <1>1 DEF ClosingInv, TurnsClosed, Unclosed
<1>3. AgentClosed'
  BY <1>1 DEF ClosingInv, AgentClosed
<1>4. Told'
  BY <1>1 DEF ClosingInv, Told
<1>5. FinishHeld'
  BY <1>1 DEF ClosingInv, FinishHeld, AnswerStands
<1>6. QED
  BY <1>2, <1>3, <1>4, <1>5 DEF ClosingInv

(* Failing leaves to the deferred closing what is owed.                    *)
LEMMA Fails ==
  ASSUME TypeOK, ClosingInv, Failing
  PROVE  ClosingInv'
<1> USE DEF WithinTurn, Upcoming, Underway, Over, Closing
<1>1. /\ pc' = "closing" /\ failed' = TRUE
      /\ UNCHANGED <<turn, finishing, agentOpen, openTurn, reason, opened, turnCloses, agentCloses,
                     continues, told, ending>>
  BY DEF Failing, SinkFails, BrainFails, CancelSeen, failing, closing, plan, log
<1>2. pc \in WithinTurn \cup {"start", "agentHooks", "turnStart", "finish", "stopping", "exhausting",
                              "interpret"}
  BY DEF Failing, SinkFails, BrainFails, CancelSeen
<1>3. TurnsClosed'
  BY <1>1, <1>2 DEF ClosingInv, TurnsClosed, Unclosed
<1>4. AgentClosed'
  BY <1>1, <1>2 DEF ClosingInv, AgentClosed
<1>5. Told'
  <2>1. ending = "none" /\ (agentOpen \/ 0 \notin opened \/ told = "finished")
    BY <1>2 DEF ClosingInv, AgentClosed, Told, FinishHeld
  <2>2. QED
    BY <1>1, <2>1 DEF ClosingInv, Told
<1>6. FinishHeld'
  BY <1>1, <1>2 DEF ClosingInv, FinishHeld, AnswerStands
<1>7. QED
  BY <1>3, <1>4, <1>5, <1>6 DEF ClosingInv

(* Around the first turn: nothing is owed, then the run is.                *)
LEMMA BeforeOwes ==
  ASSUME LoopInv, ClosingInv, Before
  PROVE  ClosingInv'
<1> USE DEF WithinTurn, Upcoming, Underway, Over, Closing
<1>1. CASE Prepare \/ PrepareFails
  <2>1. /\ pc = "prepare" /\ 0 \notin opened
        /\ \/ pc' = "start"
           \/ pc' = "teardown" /\ failed' = TRUE
        /\ failed => failed'
        /\ UNCHANGED <<turn, finishing, agentOpen, openTurn, reason, opened, turnCloses, agentCloses,
                       continues, told, ending>>
    BY <1>1 DEF Prepare, PrepareFails, closing, plan, log, ClosingInv, AgentClosed
  <2>2. TurnsClosed'
    BY <2>1 DEF ClosingInv, TurnsClosed, Unclosed
  <2>3. AgentClosed'
    BY <2>1 DEF ClosingInv, AgentClosed
  <2>4. Told' /\ FinishHeld'
    BY <2>1 DEF ClosingInv, Told, FinishHeld, AnswerStands
  <2>5. QED
    BY <2>2, <2>3, <2>4 DEF ClosingInv
<1>2. CASE AgentStart
  <2>1. /\ pc = "start" /\ pc' = "agentHooks" /\ opened' = opened \cup {0} /\ agentOpen' = TRUE
        /\ UNCHANGED <<turn, finishing, openTurn, reason, turnCloses, agentCloses, continues, told,
                       failed, ending>>
    BY <1>2 DEF AgentStart, steady, plan, log
  <2>2. turn = 0 /\ 0 \notin Turns
    BY <2>1 DEF LoopInv, Placed, Turns
  <2>3. TurnsClosed'
    BY <2>1, <2>2 DEF ClosingInv, TurnsClosed, Unclosed
  <2>4. AgentClosed'
    BY <2>1 DEF ClosingInv, AgentClosed
  <2>5. Told' /\ FinishHeld'
    BY <2>1 DEF ClosingInv, Told, FinishHeld, AnswerStands
  <2>6. QED
    BY <2>3, <2>4, <2>5 DEF ClosingInv
<1>3. CASE AgentStartHooks
  <2>1. /\ pc = "agentHooks" /\ turn = 0
        /\ \/ pc' = "stopping" /\ turn' = turn
           \/ pc' = "turnStart" /\ turn' = 1
        /\ UNCHANGED <<finishing, agentOpen, openTurn, reason, opened, turnCloses, agentCloses, continues,
                       told, failed, ending>>
    BY <1>3 DEF AgentStartHooks, HookStep, steady, closing, plan, log, LoopInv, Placed
  <2>2. ~Unclosed /\ ~Unclosed'
    BY <2>1 DEF ClosingInv, TurnsClosed, Unclosed
  <2>3. TurnsClosed'
    <3>1. \A t \in opened : t \in Nat /\ t <= 0
      BY <2>1 DEF ClosingInv, TurnsClosed, LoopInv, TypeOK
    <3>2. \A t \in opened : t <= turn'
      BY <2>1, <3>1
    <3>3. turn' = 1 => turn' \notin opened
      BY <3>1
    <3>4. QED
      BY <2>1, <2>2, <3>2, <3>3 DEF ClosingInv, TurnsClosed, Unclosed
  <2>4. AgentClosed'
    BY <2>1 DEF ClosingInv, AgentClosed
  <2>5. Told' /\ FinishHeld'
    BY <2>1 DEF ClosingInv, Told, FinishHeld, AnswerStands
  <2>6. QED
    BY <2>3, <2>4, <2>5 DEF ClosingInv
<1>4. QED
  BY <1>1, <1>2, <1>3 DEF Before

(* A turn owes its closing from its first event to its last.               *)
LEMMA TurnStartOwes ==
  ASSUME LoopInv, ClosingInv, TurnStart
  PROVE  ClosingInv'
<1> USE DEF WithinTurn, Upcoming, Underway, Over, Closing
<1>1. /\ pc = "turnStart" /\ pc' = "turnHooks" /\ opened' = opened \cup {turn} /\ openTurn' = TRUE
      /\ UNCHANGED <<turn, finishing, agentOpen, reason, turnCloses, agentCloses, continues, told,
                     failed, ending>>
  BY DEF TurnStart, steady, plan, log
<1>2. turn \in Nat /\ turn # 0 /\ turn \notin opened /\ ~Unclosed /\ Unclosed'
  BY <1>1 DEF LoopInv, Placed, Turns, ClosingInv, TurnsClosed, Unclosed
<1>3. TurnsClosed'
  <2>1. \A t \in Turns : turnCloses[t] = IF t \in opened' /\ t # turn THEN 1 ELSE 0
    BY <1>1, <1>2 DEF ClosingInv, TurnsClosed
  <2>2. QED
    BY <1>1, <1>2, <2>1 DEF ClosingInv, TurnsClosed, Unclosed
<1>4. AgentClosed'
  BY <1>1, <1>2 DEF ClosingInv, AgentClosed
<1>5. Told' /\ FinishHeld'
  BY <1>1, <1>2 DEF ClosingInv, Told, FinishHeld, AnswerStands
<1>6. QED
  BY <1>3, <1>4, <1>5 DEF ClosingInv

LEMMA WithinTurnCarries ==
  ASSUME LoopInv, ClosingInv, (Opening /\ ~TurnStart) \/ Deciding \/ Executing
  PROVE  ClosingInv'
<1> USE DEF WithinTurn, Upcoming, Underway, Over, Closing
<1> USE DEF plan, counters, closing, log, runner, settledParts
<1>1. CASE Opening /\ ~TurnStart
  BY <1>1, Carries DEF Opening, TurnStartHooks, Respond, ResponseHooks, HookStep, steady, LoopInv
<1>2. CASE Deciding
  BY <1>2, Carries DEF Deciding, DecideCalls, RecordResponse, RequestPermission, SettleCalls, deciding,
     LoopInv
<1>3. CASE Executing
  BY <1>3, Carries DEF Executing, ReportStart, Launch, ExecuteTool, WaitForTools, EndToolCall,
     ResultsReported, running, concluding, LoopInv
<1>4. QED
  BY <1>1, <1>2, <1>3

(* The closing hooks of a turn pay what it owes.                           *)
LEMMA TurnPaid ==
  ASSUME LoopInv, ClosingInv, EndTurnHooks, Unclosed, ~Unclosed',
         UNCHANGED <<turn, opened>>, openTurn' = FALSE, pc' \notin WithinTurn \cup {"turnStart"}
  PROVE  TurnsClosed'
<1>1. turn \in opened /\ turnCloses \in [Turns -> Nat]
  BY DEF ClosingInv, TurnsClosed, LoopInv, TypeOK
<1>2. turnCloses' = [t \in Turns |-> IF t = turn THEN turnCloses[t] + 1 ELSE turnCloses[t]]
  BY <1>1 DEF EndTurnHooks
<1>3. \A t \in Turns : turnCloses'[t] = IF t \in opened THEN 1 ELSE 0
  <2>1. SUFFICES ASSUME NEW t \in Turns
                 PROVE  turnCloses'[t] = IF t \in opened THEN 1 ELSE 0
    OBVIOUS
  <2>2. turnCloses[t] = IF t \in opened /\ t # turn THEN 1 ELSE 0
    BY DEF ClosingInv, TurnsClosed
  <2>3. QED
    BY <1>1, <1>2, <2>2
<1>4. QED
  BY <1>3 DEF ClosingInv, TurnsClosed, Unclosed

LEMMA EndingOwes ==
  ASSUME LoopInv, ClosingInv, Ending
  PROVE  ClosingInv'
<1> USE DEF WithinTurn, Upcoming, Underway, Over, Closing
<1> USE DEF plan, counters, closing, log, runner
<1>1. CASE TurnEnd
  <2>1. /\ pc = "turnEnd" /\ pc' = "turnEndHooks" /\ openTurn' = FALSE
        /\ UNCHANGED <<turn, finishing, agentOpen, reason, opened, turnCloses, agentCloses, continues,
                       told, failed, ending>>
    BY <1>1 DEF TurnEnd, concluding
  <2>2. TurnsClosed'
    BY <2>1 DEF ClosingInv, TurnsClosed, Unclosed
  <2>3. AgentClosed'
    BY <2>1 DEF ClosingInv, AgentClosed
  <2>4. Told' /\ FinishHeld'
    BY <2>1 DEF ClosingInv, Told, FinishHeld, AnswerStands
  <2>5. QED
    BY <2>2, <2>3, <2>4 DEF ClosingInv
<1>2. CASE TurnEndHooks
  <2>1. PICK error \in BOOLEAN :
          /\ Reported(error)
          /\ pc' = IF error THEN "closing" ELSE IF finishing THEN "finishing" ELSE "interpret"
    BY <1>2 DEF TurnEndHooks
  <2>2. /\ pc = "turnEndHooks" /\ EndTurnHooks
        /\ UNCHANGED <<turn, finishing, agentOpen, openTurn, reason, opened, agentCloses, continues,
                       told, ending>>
    BY <1>2 DEF TurnEndHooks, concluding
  <2>3. /\ pc' \in {"closing", "finishing", "interpret"}
        /\ pc' = "closing" => failed'
        /\ pc' = "interpret" => ~finishing
        /\ failed => failed'
    BY <2>1 DEF Reported
  <2>4. TurnsClosed'
    <3>1. openTurn \in BOOLEAN /\ ~openTurn
      BY <2>2 DEF ClosingInv, TurnsClosed, LoopInv, TypeOK
    <3>2. openTurn' = FALSE /\ Unclosed /\ ~Unclosed' /\ pc' \notin WithinTurn \cup {"turnStart"}
      BY <2>2, <2>3, <3>1 DEF Unclosed
    <3>3. QED
      BY <2>2, <3>2, TurnPaid
  <2>5. AgentClosed'
    BY <2>2, <2>3 DEF ClosingInv, AgentClosed
  <2>6. Told' /\ FinishHeld'
    BY <2>2, <2>3 DEF ClosingInv, AgentClosed, Told, FinishHeld, AnswerStands
  <2>7. QED
    BY <2>4, <2>5, <2>6 DEF ClosingInv
<1>3. CASE Finishing
  <2>1. PICK error, continue \in BOOLEAN :
          /\ Reported(error)
          /\ agentOpen' = OwedAgain(error, continue)
          /\ continues' = continues + IF agentOpen' /\ ~error THEN 1 ELSE 0
          /\ pc' = IF error THEN "closing" ELSE IF agentOpen' THEN "interpret" ELSE "finish"
    BY <1>3 DEF Finishing
  <2>2. /\ pc = "finishing" /\ agentCloses' = agentCloses + 1 /\ told' = "finished"
        /\ UNCHANGED <<turn, finishing, openTurn, reason, opened, turnCloses, ending>>
    BY <1>3 DEF Finishing, EndAgentHooks, concluding
  <2>3. agentOpen /\ agentCloses \in Nat /\ continues \in Nat /\ 0 \in opened
    BY <2>2 DEF ClosingInv, AgentClosed, LoopInv, TypeOK
  <2>4. /\ agentOpen' => pc' = "interpret" /\ turn < MaxTurns /\ continues' = continues + 1
        /\ ~agentOpen' => pc' \in {"closing", "finish"} /\ continues' = continues
        /\ pc' = "closing" => failed'
    <3>1. CASE error
      <4>1. agentOpen' = FALSE /\ failed' = TRUE
        BY <2>1, <3>1 DEF OwedAgain, Reported
      <4>2. pc' = "closing" /\ continues' = continues
        BY <2>1, <2>3, <3>1, <4>1
      <4>3. QED
        BY <4>1, <4>2
    <3>2. CASE ~error
      BY <2>1, <2>3, <3>2 DEF OwedAgain, MayContinue
    <3>3. QED
      BY <3>1, <3>2
  <2>5. TurnsClosed'
    BY <2>2, <2>4 DEF ClosingInv, TurnsClosed, Unclosed
  <2>6. AgentClosed'
    BY <2>2, <2>3, <2>4 DEF ClosingInv, AgentClosed
  <2>7. Told' /\ FinishHeld'
    BY <2>2, <2>3, <2>4 DEF ClosingInv, Told, FinishHeld, AnswerStands
  <2>8. QED
    BY <2>5, <2>6, <2>7 DEF ClosingInv
<1>4. CASE FinishStopped
  <2>1. /\ pc = "finishing" /\ pc' = "finish"
        /\ UNCHANGED <<turn, finishing, agentOpen, openTurn, reason, opened, turnCloses, agentCloses,
                       continues, told, failed, ending>>
    BY <1>4 DEF FinishStopped, concluding
  <2>2. TurnsClosed'
    BY <2>1 DEF ClosingInv, TurnsClosed, Unclosed
  <2>3. AgentClosed'
    BY <2>1 DEF ClosingInv, AgentClosed
  <2>4. Told' /\ FinishHeld'
    BY <2>1 DEF ClosingInv, AgentClosed, Told, FinishHeld, AnswerStands
  <2>5. QED
    BY <2>2, <2>3, <2>4 DEF ClosingInv
<1>5. CASE Interpret
  <2>1. /\ pc = "interpret"
        /\ \/ pc' = "stopping" /\ turn' = turn
           \/ pc' = "turnStart" /\ turn' = turn + 1
           \/ pc' = "exhausting" /\ turn' = turn /\ ~(turn < MaxTurns)
        /\ UNCHANGED <<finishing, agentOpen, openTurn, reason, opened, turnCloses, agentCloses,
                       continues, told, failed, ending>>
    BY <1>5 DEF Interpret, TurnsLeft
  <2>2. ~Unclosed /\ ~Unclosed'
    BY <2>1 DEF ClosingInv, TurnsClosed, Unclosed
  <2>3. \A t \in opened : t <= turn' /\ (turn' = turn + 1 => t # turn')
    <3>1. \A t \in opened : t \in Nat /\ t <= turn
      BY DEF ClosingInv, TurnsClosed, LoopInv, TypeOK
    <3>2. turn \in Nat
      BY DEF LoopInv, TypeOK
    <3>3. QED
      BY <2>1, <3>1, <3>2
  <2>4. TurnsClosed'
    BY <2>1, <2>2, <2>3 DEF ClosingInv, TurnsClosed, Unclosed
  <2>5. AgentClosed'
    BY <2>1 DEF ClosingInv, AgentClosed
  <2>6. Told' /\ FinishHeld'
    BY <2>1 DEF ClosingInv, Told, FinishHeld, AnswerStands
  <2>7. QED
    BY <2>4, <2>5, <2>6 DEF ClosingInv
<1>6. QED
  BY <1>1, <1>2, <1>3, <1>4, <1>5 DEF Ending

(* The last event, and the closing hooks that are owed.                    *)
LEMMA ConcludingPays ==
  ASSUME LoopInv, ClosingInv, Concluding
  PROVE  ClosingInv'
<1> USE DEF WithinTurn, Upcoming, Underway, Over, Closing
<1> USE DEF plan, counters, closing, log, runner
<1>1. CASE Finish \/ StopRun \/ Exhaust
  <2>1. /\ \/ pc = "finish" /\ reason' = "finished"
           \/ pc = "stopping" /\ reason' = "stopped"
           \/ pc = "exhausting" /\ reason' = "exhausted"
        /\ pc' = "closing" /\ ending' = reason'
        /\ UNCHANGED <<turn, finishing, agentOpen, openTurn, opened, turnCloses, agentCloses, continues,
                       told, failed>>
    BY <1>1 DEF Finish, StopRun, Exhaust, Conclude, concluding
  <2>2. TurnsClosed'
    BY <2>1 DEF ClosingInv, TurnsClosed, Unclosed
  <2>3. AgentClosed'
    BY <2>1 DEF ClosingInv, AgentClosed
  <2>4. Told' /\ FinishHeld'
    BY <2>1 DEF ClosingInv, AgentClosed, Told, FinishHeld, AnswerStands
  <2>5. QED
    BY <2>2, <2>3, <2>4 DEF ClosingInv
<1>2. CASE CloseTurn
  <2>1. /\ pc = "closing" /\ pc' = pc /\ openTurn /\ openTurn' = FALSE /\ EndTurnHooks
        /\ failed => failed'
        /\ UNCHANGED <<turn, finishing, agentOpen, reason, opened, agentCloses, continues, told, ending>>
    BY <1>2 DEF CloseTurn, Reported, concluding
  <2>2. Unclosed /\ ~Unclosed'
    BY <2>1 DEF Unclosed
  <2>3. TurnsClosed'
    BY <2>1, <2>2, TurnPaid
  <2>4. AgentClosed'
    BY <2>1 DEF ClosingInv, AgentClosed
  <2>5. Told' /\ FinishHeld'
    BY <2>1 DEF ClosingInv, Told, FinishHeld, AnswerStands
  <2>6. QED
    BY <2>3, <2>4, <2>5 DEF ClosingInv
<1>3. CASE CloseAgent
  <2>1. /\ pc = "closing" /\ pc' = pc /\ agentOpen /\ agentOpen' = FALSE
        /\ agentCloses' = agentCloses + 1 /\ told' = EndReason
        /\ failed => failed'
        /\ UNCHANGED <<turn, finishing, openTurn, reason, opened, turnCloses, continues, ending>>
    BY <1>3 DEF CloseAgent, EndAgentHooks, Reported, concluding
  <2>2. 0 \in opened
    BY <2>1 DEF ClosingInv, AgentClosed
  <2>3. TurnsClosed'
    BY <2>1 DEF ClosingInv, TurnsClosed, Unclosed
  <2>4. AgentClosed'
    BY <2>1, <2>2 DEF ClosingInv, AgentClosed
  <2>5. reason # "failed"
    BY DEF LoopInv, TypeOK
  <2>6. Told' /\ FinishHeld'
    BY <2>1, <2>5 DEF ClosingInv, Told, FinishHeld, AnswerStands, EndReason
  <2>7. QED
    BY <2>3, <2>4, <2>6 DEF ClosingInv
<1>4. CASE Return \/ TearDown
  <2>1. /\ \/ pc = "closing" /\ pc' = "teardown" /\ ~openTurn /\ ~agentOpen
           \/ pc = "teardown" /\ pc' = "returned"
        /\ UNCHANGED <<turn, finishing, agentOpen, openTurn, reason, opened, turnCloses, agentCloses,
                       continues, told, failed, ending>>
    BY <1>4 DEF Return, TearDown, concluding
  <2>2. TurnsClosed'
    BY <2>1 DEF ClosingInv, TurnsClosed, Unclosed
  <2>3. AgentClosed'
    BY <2>1 DEF ClosingInv, AgentClosed
  <2>4. Told' /\ FinishHeld'
    BY <2>1 DEF ClosingInv, Told, FinishHeld, AnswerStands
  <2>5. QED
    BY <2>2, <2>3, <2>4 DEF ClosingInv
<1>5. QED
  BY <1>1, <1>2, <1>3, <1>4 DEF Concluding

LEMMA ClosingInit == Init => ClosingInv
<1> SUFFICES ASSUME Init PROVE ClosingInv
  OBVIOUS
<1> USE DEF WithinTurn, Upcoming, Underway, Over, Closing
<1>1. TurnsClosed
  BY DEF Init, TurnsClosed, Unclosed
<1>2. AgentClosed
  BY DEF Init, AgentClosed
<1>3. Told /\ FinishHeld
  BY DEF Init, Told, FinishHeld, AnswerStands
<1>4. QED
  BY <1>1, <1>2, <1>3 DEF ClosingInv

LEMMA ClosingStep == LoopInv /\ ClosingInv /\ [Next]_vars => ClosingInv'
<1> SUFFICES ASSUME LoopInv, ClosingInv, [Next]_vars PROVE ClosingInv'
  OBVIOUS
<1>1. CASE Cancel \/ UNCHANGED vars
  <2>1. UNCHANGED <<pc, turn, finishing, agentOpen, openTurn, reason, opened, turnCloses, agentCloses,
                    continues, told, failed, ending>>
    BY <1>1 DEF Cancel, vars, closing, plan, log
  <2>2. TurnsClosed'
    BY <2>1 DEF ClosingInv, TurnsClosed, Unclosed
  <2>3. AgentClosed'
    BY <2>1 DEF ClosingInv, AgentClosed
  <2>4. Told' /\ FinishHeld'
    BY <2>1 DEF ClosingInv, Told, FinishHeld, AnswerStands
  <2>5. QED
    BY <2>2, <2>3, <2>4 DEF ClosingInv
<1>2. CASE Failing
  BY <1>2, Fails DEF LoopInv
<1>3. QED
  BY <1>1, <1>2, BeforeOwes, TurnStartOwes, WithinTurnCarries, EndingOwes, ConcludingPays
     DEF Next, Returned

LEMMA ClosingInvariant == Spec => []ClosingInv
BY ClosingInit, ClosingStep, LoopInvariant, PTL DEF Spec

(* When Run returns, every turn that was opened and a run that started     *)
(* have been closed, once for each time they were owed.  What the          *)
(* agent-end hooks were last told is the event that ended the run, or its  *)
(* failure; or, of a failed run without such an event, that it finished,   *)
(* when all that failed was to report them or the finish event.            *)
THEOREM ClosingHonest == Spec => []ClosedTruly
<1>1. ClosingInv => ClosedOnce
  BY DEF ClosingInv, TurnsClosed, AgentClosed, ClosedOnce, Unclosed, WithinTurn, Upcoming, Underway
<1>2. ClosingInv => ToldTruly
  BY DEF ClosingInv, AgentClosed, Told, ToldTruly, Closing
<1>3. QED
  BY <1>1, <1>2, ClosingInvariant, PTL DEF ClosedTruly

(* A run whose turn finished is never reported as exhausted.               *)
THEOREM FinishedIsHeld == Spec => []AnswerStands
<1>1. ClosingInv => AnswerStands
  BY DEF ClosingInv, FinishHeld
<1>2. QED
  BY <1>1, ClosingInvariant, PTL

-----------------------------------------------------------------------------
(***************************************************************************)
(* A call of the run before it starts: Preflight, for every number of      *)
(* hooks and every set of arguments.  Its invariant says what the          *)
(* accumulators of a round (merged, decided, fallback) know of the answers *)
(* so far: the loop of decideToolCall reads the hooks once, in order, and  *)
(* must end with a ruling that depends on the set of answers alone.        *)
(***************************************************************************)
Denials == {"deny", "failedDeny"}
Doubts  == {"ask", "unknown", "failed"}

Heard(S) == \E h \in Hooks : said[h] \in S
AllHeard == \A h \in Hooks : said[h] # "unheard"

(* What the accumulators of a round stand for.                             *)
Account ==
  /\ (merged = "deny") <=> Heard(Denials)
  /\ (merged = "allow") <=> (~Heard(Denials) /\ ~Heard(Doubts))
  /\ decided <=> Heard(Says \ Undecided)
  /\ (fallback = "deny") <=> Heard({"fallbackDeny"})
  /\ (fallback = "none") <=> (~Heard({"fallbackDeny"}) /\ ~Heard({"fallbackAsk"}))

InOrder == \A h \in Hooks : (said[h] = "unheard") <=> (h >= next)

Reference == IF Denial THEN "deny" ELSE IF Doubt THEN "ask" ELSE "allow"

CallInv ==
  /\ CallTypeOK
  /\ denied => merged = "deny" /\ asked = "no"
  /\ phase # "settled" => asked = "no"
  /\ phase = "checking" => Account /\ InOrder
  /\ phase = "ruled" /\ updated = args /\ AllHeard => merged = Reference
  /\ phase = "ruled" /\ merged # "deny" => updated = args /\ AllHeard
  /\ RunsWithConsent

(* A call starts with nothing heard.                                       *)
LEMMA InitialCall == CallInit => CallInv
<1> SUFFICES ASSUME CallInit PROVE CallInv
  OBVIOUS
<1> USE PreflightAssumption
<1>1. round \in 1 .. maxInputUpdates /\ next \in 1 .. StartHooks + 1
  BY DEF CallInit
<1>2. /\ said \in [Hooks -> Says \cup {"unheard"}]
      /\ \A h \in Hooks : said[h] = "unheard"
  BY DEF CallInit
<1>3. CallTypeOK
  BY <1>1, <1>2 DEF CallInit, CallTypeOK
<1>4. Account
  BY <1>2 DEF CallInit, Account, Heard, Denials, Doubts, Says, Undecided
<1>5. InOrder
  BY <1>2 DEF CallInit, InOrder, Hooks
<1>6. QED
  BY <1>3, <1>4, <1>5 DEF CallInit, CallInv, RunsWithConsent

(* One more answer is accounted for, whatever it is.                       *)
LEMMA AnswerAccounted == CallInv /\ HookAnswers => CallInv'
<1> SUFFICES ASSUME CallInv, HookAnswers PROVE CallInv'
  OBVIOUS
<1> USE PreflightAssumption
<1>1. PICK says \in Says, update \in Args \cup {Garbage} :
        /\ merged' = mergeDecision(merged, hookDecision(says))
        /\ decided' = (decided \/ says \notin Undecided)
        /\ fallback' = IF says \notin {"fallbackAsk", "fallbackDeny"} THEN fallback
                       ELSE IF fallback = "none" THEN fallbackDecision(says)
                       ELSE mergeDecision(fallback, fallbackDecision(says))
        /\ updated' = IF says \in {"deny", "failed", "failedDeny"} THEN args ELSE update
        /\ said' = [said EXCEPT ![next] = says]
        /\ denied' = (denied \/ says \in {"deny", "failedDeny"})
  BY DEF HookAnswers
<1>2. /\ phase = "checking" /\ next \in Hooks /\ said[next] = "unheard"
      /\ Account /\ InOrder /\ CallTypeOK
  BY DEF HookAnswers, HookToAsk, CallInv, CallTypeOK, InOrder, Hooks
<1>3. /\ \A h \in Hooks : said'[h] = IF h = next THEN says ELSE said[h]
      /\ said' \in [Hooks -> Says \cup {"unheard"}]
  BY <1>1, <1>2 DEF CallTypeOK
<1>4. \A S \in SUBSET Says : Heard(S)' <=> (Heard(S) \/ says \in S)
  <2> SUFFICES ASSUME NEW S \in SUBSET Says PROVE Heard(S)' <=> (Heard(S) \/ says \in S)
    OBVIOUS
  <2>1. "unheard" \notin S
    BY DEF Says
  <2>2. QED
    BY <1>2, <1>3, <2>1 DEF Heard, Hooks
<1>5. /\ Heard(Denials)' <=> (Heard(Denials) \/ says \in Denials)
      /\ Heard(Doubts)' <=> (Heard(Doubts) \/ says \in Doubts)
      /\ Heard(Says \ Undecided)' <=> (Heard(Says \ Undecided) \/ says \in Says \ Undecided)
      /\ Heard({"fallbackDeny"})' <=> (Heard({"fallbackDeny"}) \/ says \in {"fallbackDeny"})
      /\ Heard({"fallbackAsk"})' <=> (Heard({"fallbackAsk"}) \/ says \in {"fallbackAsk"})
  <2>1. /\ Denials \in SUBSET Says /\ Doubts \in SUBSET Says /\ Says \ Undecided \in SUBSET Says
        /\ {"fallbackDeny"} \in SUBSET Says /\ {"fallbackAsk"} \in SUBSET Says
    BY DEF Denials, Doubts, Says, Undecided
  <2>2. QED
    BY <1>4, <2>1
<1>6. hookDecision(says) = IF says \in Denials THEN "deny" ELSE IF says \in Doubts THEN "ask" ELSE "allow"
  BY DEF hookDecision, Denials, Doubts, Says
<1>7. /\ merged' = IF merged = "deny" \/ says \in Denials THEN "deny"
                   ELSE IF merged = "ask" \/ says \in Doubts THEN "ask" ELSE "allow"
      /\ merged' \in {"allow", "ask", "deny"}
  BY <1>1, <1>2, <1>6 DEF mergeDecision, Strictness, CallTypeOK
<1>8. /\ fallback' = IF fallback = "deny" \/ says = "fallbackDeny" THEN "deny"
                     ELSE IF fallback = "ask" \/ says = "fallbackAsk" THEN "ask" ELSE "none"
      /\ fallback' \in {"none", "ask", "deny"}
  BY <1>1, <1>2 DEF mergeDecision, fallbackDecision, Strictness, CallTypeOK
<1>9. CallTypeOK'
  BY <1>1, <1>2, <1>3, <1>7, <1>8 DEF CallTypeOK, HookAnswers, Hooks
<1>10. Account'
  <2>1. /\ (merged' = "deny") <=> Heard(Denials)'
        /\ (merged' = "allow") <=> (~Heard(Denials)' /\ ~Heard(Doubts)')
    BY <1>2, <1>5, <1>7 DEF Account, CallTypeOK
  <2>2. decided' <=> Heard(Says \ Undecided)'
    BY <1>1, <1>2, <1>5 DEF Account
  <2>3. /\ (fallback' = "deny") <=> Heard({"fallbackDeny"})'
        /\ (fallback' = "none") <=> (~Heard({"fallbackDeny"})' /\ ~Heard({"fallbackAsk"})')
    BY <1>2, <1>5, <1>8 DEF Account, CallTypeOK
  <2>4. QED
    BY <2>1, <2>2, <2>3 DEF Account
<1>11. InOrder'
  BY <1>1, <1>2, <1>3 DEF InOrder, HookAnswers, Hooks, Says, CallTypeOK
<1>12. denied' => merged' = "deny"
  BY <1>1, <1>2, <1>7 DEF CallInv, Denials
<1>13. QED
  BY <1>2, <1>9, <1>10, <1>11, <1>12 DEF CallInv, HookAnswers, RunsWithConsent

(* A rewritten call starts over, and only one that nobody denied does.     *)
LEMMA RecheckAccounted == CallInv /\ Recheck => CallInv'
<1> SUFFICES ASSUME CallInv, Recheck PROVE CallInv'
  OBVIOUS
<1> USE PreflightAssumption
<1>1. phase' = "checking" /\ ~denied /\ ~denied' /\ asked' = "no"
  BY DEF CallInv, Recheck, Rewritten, CallTypeOK
<1>2. /\ said' \in [Hooks -> Says \cup {"unheard"}]
      /\ \A h \in Hooks : said'[h] = "unheard"
  BY DEF Recheck, Begin
<1>3. CallTypeOK'
  <2>1. round' \in 1 .. maxInputUpdates /\ next' \in 1 .. StartHooks + 1
    BY DEF CallInv, CallTypeOK, Recheck, Begin, NextRound, RoundsLeft
  <2>2. args' \in Args /\ updated' \in Args
    BY DEF CallInv, CallTypeOK, Recheck, Begin
  <2>3. /\ merged' = "allow" /\ decided' = FALSE /\ fallback' = "none"
        /\ denied' \in BOOLEAN
    BY <1>1 DEF Recheck, Begin, CallInv, CallTypeOK
  <2>4. QED
    BY <1>1, <1>2, <2>1, <2>2, <2>3 DEF CallTypeOK
<1>4. Account'
  BY <1>2 DEF Recheck, Begin, Account, Heard, Denials, Doubts, Says, Undecided
<1>5. InOrder'
  BY <1>2 DEF Recheck, Begin, InOrder, Hooks
<1>6. QED
  BY <1>1, <1>3, <1>4, <1>5 DEF CallInv, RunsWithConsent

(* A rewrite that cannot be followed denies.                               *)
LEMMA RefusalAccounted == CallInv /\ RewriteRefused => CallInv'
<1> SUFFICES ASSUME CallInv, RewriteRefused PROVE CallInv'
  OBVIOUS
<1> USE PreflightAssumption
<1>1. phase = "checking" /\ phase' = "ruled" /\ merged' = "deny" /\ asked' = "no"
  BY DEF CallInv, RewriteRefused, Rewritten
<1>2. args' \in Args /\ said' \in [Hooks -> Says \cup {"unheard"}]
  BY DEF CallInv, CallTypeOK, RewriteRefused
<1>3. CallTypeOK'
  BY <1>1, <1>2 DEF CallInv, CallTypeOK, RewriteRefused
<1>4. ~(updated' = args' /\ AllHeard')
  <2>1. CASE updated = Garbage
    BY <2>1 DEF CallInv, CallTypeOK, RewriteRefused
  <2>2. CASE updated # Garbage
    <3>1. 1 \in Hooks /\ \A h \in Hooks : said'[h] = "unheard"
      BY <2>2 DEF RewriteRefused, Hooks
    <3>2. QED
      BY <3>1 DEF AllHeard
  <2>3. QED
    BY <2>1, <2>2
<1>5. QED
  BY <1>1, <1>3, <1>4 DEF CallInv, RunsWithConsent

(* When the hooks are through, their accumulated answers give the          *)
(* reference ruling.                                                       *)
LEMMA RulingAccounted == CallInv /\ Rule => CallInv'
<1> SUFFICES ASSUME CallInv, Rule PROVE CallInv'
  OBVIOUS
<1> USE PreflightAssumption
<1>1. /\ phase = "checking" /\ phase' = "ruled" /\ asked' = "no"
      /\ Account /\ InOrder /\ CallTypeOK
      /\ merged' = Ruling
      /\ UNCHANGED <<round, next, args, decided, fallback, updated, said, denied, asked>>
  BY DEF CallInv, Rule
<1>2. Ruling \in {"allow", "ask", "deny"}
  BY <1>1 DEF Ruling, CallTypeOK
<1>3. CallTypeOK'
  BY <1>1, <1>2 DEF CallTypeOK
<1>4. merged = "deny" => Ruling = "deny"
  <2>1. Heard(Denials) => decided
    BY <1>1 DEF Account, Heard, Denials, Says, Undecided
  <2>2. QED
    BY <1>1, <2>1 DEF Ruling, Account
<1>5. updated = args /\ AllHeard => Ruling = Reference
  <2> SUFFICES ASSUME AllHeard PROVE Ruling = Reference
    OBVIOUS
  <2>1. Silent <=> ~decided
    BY <1>1 DEF Account, Silent, Heard, AllHeard, CallTypeOK
  <2>2. Denial <=> Heard(Denials) \/ (~decided /\ Heard({"fallbackDeny"}))
    BY <2>1 DEF Denial, Some, Heard, Denials
  <2>3. Doubt <=> \/ Heard(Doubts)
                  \/ ~decided /\ Heard({"fallbackAsk"})
                  \/ args \in Unprojectable
    BY <2>1 DEF Doubt, Some, Heard, Doubts
  <2>4. Heard(Denials) \/ Heard(Doubts) => decided
    BY <1>1 DEF Account, Heard, Denials, Doubts, Says, Undecided
  <2>5. QED
    BY <1>1, <2>2, <2>3, <2>4 DEF Ruling, Reference, Account, CallTypeOK
<1>6. Ruling # "deny" => updated = args /\ AllHeard
  <2> SUFFICES ASSUME Ruling # "deny" PROVE updated = args /\ AllHeard
    OBVIOUS
  <2>1. updated = args
    BY <1>1, <1>4 DEF Rule, Rewritten
  <2>2. next > StartHooks
    BY <1>1, <2>1 DEF Rule, HookToAsk, CallTypeOK
  <2>3. QED
    BY <1>1, <2>1, <2>2 DEF InOrder, AllHeard, Hooks, CallTypeOK
<1>7. (updated' = args' /\ AllHeard') <=> (updated = args /\ AllHeard)
  BY <1>1 DEF AllHeard
<1>8. Reference' = Reference
  BY <1>1 DEF Reference, Denial, Doubt, Some, Silent
<1>9. denied' => merged' = "deny"
  BY <1>1, <1>4 DEF CallInv
<1>10. QED
  BY <1>1, <1>3, <1>5, <1>6, <1>7, <1>8, <1>9 DEF CallInv, RunsWithConsent

(* Only an ask that nobody refused and somebody granted lets a call run.   *)
LEMMA PermissionAccounted == CallInv /\ requestPermission => CallInv'
<1> SUFFICES ASSUME CallInv, requestPermission PROVE CallInv'
  OBVIOUS
<1>1. PICK hooks \in Grants, handler \in {"none", "allow", "deny", "failed", "unknown"} :
        /\ merged' = IF Granted(hooks, handler) THEN "allow" ELSE "deny"
        /\ asked' = IF \E h \in DOMAIN hooks : hooks[h] \in {"deny", "failed"} THEN "refused"
                    ELSE IF handler = "allow" \/ \E h \in DOMAIN hooks : hooks[h] = "allow" THEN "granted"
                    ELSE "refused"
  BY DEF requestPermission
<1>2. Granted(hooks, handler) => asked' = "granted"
  BY <1>1 DEF Granted
<1>3. /\ phase = "ruled" /\ phase' = "settled" /\ merged = "ask" /\ ~denied
      /\ merged' \in {"allow", "deny"} /\ asked' \in {"granted", "refused"}
      /\ UNCHANGED <<round, next, args, decided, fallback, updated, said, denied>>
  BY <1>1 DEF CallInv, requestPermission
<1>4. CallTypeOK'
  BY <1>3 DEF CallInv, CallTypeOK
<1>5. RunsWithConsent'
  <2>1. AllHeard
    BY <1>3 DEF CallInv
  <2>2. merged' = "allow" => asked' = "granted"
    BY <1>1, <1>2
  <2>3. QED
    BY <1>3, <2>1, <2>2 DEF RunsWithConsent, AllHeard
<1>6. QED
  BY <1>3, <1>4, <1>5 DEF CallInv

(* A call that nobody is asked about is let through by its ruling alone.   *)
LEMMA SettleAccounted == CallInv /\ Settle => CallInv'
<1> SUFFICES ASSUME CallInv, Settle PROVE CallInv'
  OBVIOUS
<1>1. /\ phase = "ruled" /\ phase' = "settled" /\ merged # "ask"
      /\ UNCHANGED <<round, next, args, merged, decided, fallback, updated, said, denied, asked>>
  BY DEF Settle
<1>2. CallTypeOK'
  BY <1>1 DEF CallInv, CallTypeOK
<1>3. RunsWithConsent'
  <2> SUFFICES ASSUME merged = "allow"
               PROVE /\ AllHeard
                     /\ args \notin Unprojectable
                     /\ \A h \in Hooks : said[h] \in Undecided \cup {"allow"}
                     /\ Silent => \A h \in Hooks : said[h] = "nothing"
    BY <1>1 DEF RunsWithConsent, AllHeard, Silent
  <2>1. AllHeard /\ Reference = "allow"
    BY <1>1 DEF CallInv
  <2>2. ~Denial /\ ~Doubt
    BY <2>1 DEF Reference
  <2>3. \A h \in Hooks : said[h] \in Says
    BY <2>1 DEF AllHeard, CallInv, CallTypeOK
  <2>4. \A h \in Hooks : said[h] \in Undecided \cup {"allow"}
    BY <2>2, <2>3 DEF Denial, Doubt, Some, Says, Undecided
  <2>5. Silent => \A h \in Hooks : said[h] = "nothing"
    BY <2>2 DEF Denial, Doubt, Some, Silent, Undecided
  <2>6. QED
    BY <2>1, <2>2, <2>4, <2>5 DEF Doubt
<1>4. QED
  BY <1>1, <1>2, <1>3 DEF CallInv

LEMMA CallStep == CallInv /\ [CallNext]_callVars => CallInv'
<1> SUFFICES ASSUME CallInv, [CallNext]_callVars PROVE CallInv'
  OBVIOUS
<1>1. CASE HookAnswers
  BY <1>1, AnswerAccounted
<1>2. CASE Recheck
  BY <1>2, RecheckAccounted
<1>3. CASE RewriteRefused
  BY <1>3, RefusalAccounted
<1>4. CASE Rule
  BY <1>4, RulingAccounted
<1>5. CASE requestPermission
  BY <1>5, PermissionAccounted
<1>6. CASE Settle
  BY <1>6, SettleAccounted
<1>7. CASE UNCHANGED callVars
  BY <1>7 DEF callVars, CallInv, CallTypeOK, Account, Heard, InOrder, Reference, AllHeard, Denial, Doubt,
              Some, Silent, RunsWithConsent
<1>8. QED
  BY <1>1, <1>2, <1>3, <1>4, <1>5, <1>6, <1>7 DEF CallNext, CallSettled

(* The inductive invariant holds of every call.                            *)
THEOREM CallInvariant == CallSpec => []CallInv
<1>1. QED
  BY InitialCall, CallStep, PTL DEF CallSpec

(* Types, with the bound maxInputUpdates on the rounds of decideToolCall.  *)
THEOREM CallTypeCorrect == CallSpec => []CallTypeOK
<1>1. CallInv => CallTypeOK
  BY DEF CallInv
<1>2. QED
  BY <1>1, CallInvariant, PTL

(* decideToolCall and requestPermission never undo a start hook's denial.  *)
THEOREM DenialStands == CallSpec => []DenyStands
<1>1. CallInv => DenyStands
  BY DEF CallInv, DenyStands
<1>2. QED
  BY <1>1, CallInvariant, PTL

(* A call runs only with arguments every start hook has seen, and with the *)
(* consent its answers require.                                            *)
THEOREM Consent == CallSpec => []RunsWithConsent
<1>1. CallInv => RunsWithConsent
  BY DEF CallInv
<1>2. QED
  BY <1>1, CallInvariant, PTL

(* The merged decision does not depend on the order of the hooks.          *)
THEOREM OrderOfHooks == CallSpec => []OrderIrrelevant
<1>1. CallInv => OrderIrrelevant
  BY DEF CallInv, OrderIrrelevant, Reference, AllHeard
<1>2. QED
  BY <1>1, CallInvariant, PTL
=============================================================================
