----------------------------- MODULE ExternalHost -----------------------------
(* One external plugin and its host (plugins/external): Start, any number of  *)
(* calls at once, their cancellation, the goroutines that read, wait and time *)
(* a grace period, Close, and at the other end of the two pipes the serving   *)
(* loop of the SDK. The plugin may hang or die anywhere and may write a frame *)
(* the protocol does not know. What a frame holds besides its request's id is *)
(* left out.                                                                  *)
EXTENDS Naturals, Sequences, FiniteSets, Functions

CONSTANTS
  Calls,        (* its tool calls, or its hook calls, which know no limit     *)
  Advertised,   (* max_concurrency of the plugin: calls at once, 0 for any    *)
  HostCap,      (* Limits.MaxConcurrency, 0 for none                          *)
  MaxPending,   (* Limits.MaxPendingRequests                                  *)
  PipeRoom, MaxFaults  (* bounds: frames in a pipe, faults                    *)

ASSUME HostAssumption ==
  /\ Calls \intersect {"initialize", "shutdown", "garbage"} = {}
  /\ HostCap \in Nat /\ MaxPending \in Nat \ {0} /\ PipeRoom \in Nat \ {0}
  /\ Advertised \in Nat /\ MaxFaults \in Nat

Requests == Calls \union {"initialize", "shutdown"}
Request(r) == [cancel |-> FALSE, id |-> r]
Cancel(r) == [cancel |-> TRUE, id |-> r]

VARIABLES
  local,        (* a child process, or the connection of an environment       *)
  stage,        (* Start: "new", "initialize", "ready", "failed"              *)
  closer,       (* Close: "open", "shutdown", "stdin", "await", "drain", "closed" *)
  failure,      (* why the host gave the plugin up, "none" before             *)
  pending,      (* the requests whose answer is awaited                       *)
  call,         (* the caller of each request: "idle", "write", "wait",       *)
                (* "notice" (it writes a cancellation), "result", "failed"    *)
  answer,       (* the channel of each request, of one place                  *)
  stdin,        (* whether the host has its end open                          *)
  toPlugin, fromPlugin,  (* the frames in the pipes                           *)
  reader, waiter,        (* readLoop and waitLoop                             *)
  process,      (* "none", "running", "exited"                                *)
  killed,
  serving,      (* the SDK's loop: "greets", "serves", "leaves"               *)
  work,         (* the SDK's goroutine of each call: "none", "taken", "answered" *)
  faults

host == <<stage, closer, failure, pending, call, answer, stdin, reader, waiter>>
plugin == <<serving, work>>
vars == <<local, host, toPlugin, fromPlugin, process, killed, plugin, faults>>

Init ==
  /\ local \in BOOLEAN
  /\ stage = "new" /\ closer = "open" /\ failure = "none"
  /\ pending = {}
  /\ call = [r \in Requests |-> "idle"]
  /\ answer = [r \in Requests |-> "none"]
  /\ stdin = FALSE /\ toPlugin = <<>> /\ fromPlugin = <<>>
  /\ reader = "off" /\ waiter = "off" /\ process = "none" /\ killed = FALSE
  /\ serving = "greets" /\ work = [c \in Calls |-> "none"]
  /\ faults = 0

closing == closer # "open"

-----------------------------------------------------------------------------
(* fail: the first failure stands, whatever is pending is rejected, stdin is  *)
(* closed and, unless Close is under way, the process is killed.              *)
Gone(r) == call[r] \in {"result", "failed"}

(* What the channel of a caller that is gone holds, nobody reads.             *)
Rejected(requests) ==
  [r \in Requests |-> IF r \in requests /\ ~Gone(r) THEN "rejected" ELSE answer[r]]

(* The requests in rest are still pending when fail takes the lock.           *)
Fail(cause, rest) ==
  IF failure # "none"
  THEN pending' = rest /\ UNCHANGED <<failure, answer, stdin, killed>>
  ELSE /\ failure' = cause /\ pending' = {} /\ answer' = Rejected(rest)
       /\ stdin' = FALSE /\ killed' = (killed \/ ~closing)

NoFailure == UNCHANGED <<failure, pending, answer, stdin, killed>>
Return(r, result) == call' = [call EXCEPT ![r] = result]

Pipes == <<toPlugin, fromPlugin, process, plugin, local>>
Loops == <<stage, closer, reader, waiter>>

(* acceptCapabilities and newHost: calls at once, 0 for no limit.             *)
Limit == IF HostCap > 0 /\ (Advertised = 0 \/ HostCap < Advertised) THEN HostCap ELSE Advertised

HoldsSlot == {c \in Calls : call[c] \in {"write", "wait", "notice"}}

(* call takes its place among the pending requests, or is refused.            *)
Refused(r) ==
  \/ failure # "none" \/ Cardinality(pending) >= MaxPending
  \/ r # "initialize" /\ stage # "ready"
  \/ r # "shutdown" /\ closing

Register(r) ==
  IF Refused(r)
  THEN Return(r, "failed") /\ UNCHANGED pending
  ELSE pending' = pending \union {r} /\ call' = [call EXCEPT ![r] = "write"]

-----------------------------------------------------------------------------
(* Start: connect, the three goroutines, and the initialize exchange.         *)
Starts ==
  /\ stage = "new" /\ ~closing
  /\ \/ /\ stage' = "initialize" /\ process' = "running" /\ stdin' = TRUE
        /\ reader' = "on" /\ waiter' = "on"
        /\ Register("initialize")
        /\ UNCHANGED <<failure, answer, faults>>
     \/ /\ faults < MaxFaults /\ faults' = faults + 1
        /\ stage' = "failed" /\ failure' = "connect"
        /\ UNCHANGED <<pending, answer, call, stdin, reader, waiter, process>>
  /\ UNCHANGED <<closer, killed, toPlugin, fromPlugin, plugin, local>>

(* startFailure terminates the process the failure has not killed already.    *)
StartFails(cause) ==
  /\ stage' = "failed" /\ killed' = TRUE /\ stdin' = FALSE
  /\ failure' = (IF failure = "none" THEN cause ELSE failure)
  /\ pending' = {} /\ answer' = IF failure = "none" THEN Rejected(pending) ELSE answer

Started ==
  /\ stage = "initialize" /\ Gone("initialize")
  /\ \/ /\ call["initialize"] = "result" /\ failure = "none"
        /\ stage' = "ready" /\ NoFailure /\ UNCHANGED faults
     \/ /\ call["initialize"] = "failed" \/ failure # "none"
        /\ StartFails("initialize") /\ UNCHANGED faults
     \/ /\ call["initialize"] = "result" /\ faults < MaxFaults   \* not acceptable
        /\ StartFails("capabilities") /\ faults' = faults + 1
  /\ UNCHANGED <<closer, call, reader, waiter, Pipes>>

-----------------------------------------------------------------------------
(* Execute and CallHook: a slot, then call. What a context ends is a timeout  *)
(* or its caller.                                                             *)
Executes(c) ==
  /\ call[c] = "idle" /\ stage \in {"ready", "failed"}
  /\ \/ (Limit = 0 \/ Cardinality(HoldsSlot) < Limit) /\ Register(c)
     \/ Return(c, "failed") /\ UNCHANGED pending
  /\ UNCHANGED <<Loops, Pipes, failure, answer, stdin, killed, faults>>

(* writeMessage: the frame goes out whole, in its turn; or the stream cannot  *)
(* take it; or the context ends first, which fails the connection.            *)
(* The writer of an environment's connection is closed by the host alone.     *)
Severed == local /\ process # "running"
Broken == ~stdin \/ failure # "none" \/ Severed

Writes(r) ==
  /\ call[r] = "write" /\ ~Broken /\ Len(toPlugin) < PipeRoom
  /\ toPlugin' = Append(toPlugin, Request(r))
  /\ call' = [call EXCEPT ![r] = "wait"]
  /\ UNCHANGED <<Loops, failure, pending, answer, stdin, killed,
                 fromPlugin, process, plugin, local, faults>>

WriteFails(r) ==
  /\ call[r] = "write" /\ Broken
  /\ Fail("write", pending \ {r}) /\ Return(r, "failed")
  /\ UNCHANGED <<Loops, Pipes, faults>>

WriteExpires(r) ==
  /\ call[r] = "write"
  /\ Fail("write", pending) /\ Return(r, "failed")
  /\ UNCHANGED <<Loops, Pipes, faults>>

Answered(r) ==
  /\ call[r] = "wait" /\ answer[r] # "none"
  /\ Return(r, IF answer[r] = "result" THEN "result" ELSE "failed")
  /\ NoFailure /\ UNCHANGED <<Loops, Pipes, faults>>

(* cancelPending: the entry stays until the answer or the end of the grace.   *)
(* Mutant: the request is forgotten at once.                                  *)
CancelForgets(r) ==
  /\ call[r] = "wait"
  /\ IF r \in pending THEN call' = [call EXCEPT ![r] = "notice"] ELSE Return(r, "failed")
  /\ pending' = pending \ {r}
  /\ UNCHANGED <<Loops, Pipes, failure, answer, stdin, killed, faults>>

Cancels(r) ==
  /\ call[r] = "wait"
  /\ IF r \in pending THEN call' = [call EXCEPT ![r] = "notice"] ELSE Return(r, "failed")
  /\ NoFailure /\ UNCHANGED <<Loops, Pipes, faults>>

Notifies(r) ==
  /\ call[r] = "notice"
  /\ \/ /\ ~Broken /\ Len(toPlugin) < PipeRoom
        /\ toPlugin' = Append(toPlugin, Cancel(r)) /\ NoFailure
     \/ Broken /\ NoFailure /\ UNCHANGED toPlugin
     \/ Fail("write", pending) /\ UNCHANGED toPlugin      \* CancelGrace ends first
  /\ Return(r, "failed")
  /\ UNCHANGED <<Loops, fromPlugin, process, plugin, local, faults>>

(* The grace period of a request whose caller is gone.                        *)
GraceEnds(r) ==
  /\ r \in pending /\ Gone(r) /\ ~closing
  /\ Fail("late", pending)
  /\ UNCHANGED <<Loops, Pipes, call, faults>>

Calling(r) == Writes(r) \/ WriteFails(r) \/ Answered(r) \/ Notifies(r)
Expiring(r) == WriteExpires(r) \/ Cancels(r)

-----------------------------------------------------------------------------
(* readLoop and deliver. An answer to a canceled request finds its entry, and *)
(* a place in a channel that nobody reads.                                    *)
Frame(r) ==
  IF r \in pending
  THEN /\ pending' = pending \ {r}
       /\ answer' = IF Gone(r) THEN answer ELSE [answer EXCEPT ![r] = "result"]
       /\ UNCHANGED <<failure, stdin, killed>>
  ELSE IF closing THEN NoFailure ELSE Fail("unknown", pending)

Reading == <<stage, closer, call, waiter, toPlugin, process, plugin, local, faults>>

(* Mutant: the channel has no place, so the loop waits for a caller, though   *)
(* it is gone.                                                                *)
DeliversByHand ==
  /\ reader = "on" /\ fromPlugin # <<>> /\ Head(fromPlugin) # "garbage"
  /\ Frame(Head(fromPlugin))
  /\ reader' = IF Head(fromPlugin) \in pending /\ Gone(Head(fromPlugin)) THEN "stuck" ELSE reader
  /\ fromPlugin' = Tail(fromPlugin)
  /\ UNCHANGED Reading

Delivers ==
  /\ reader = "on" /\ fromPlugin # <<>> /\ Head(fromPlugin) # "garbage"
  /\ Frame(Head(fromPlugin))
  /\ fromPlugin' = Tail(fromPlugin)
  /\ UNCHANGED <<Reading, reader>>

ReadFails ==
  /\ reader = "on"
  /\ \/ fromPlugin # <<>> /\ Head(fromPlugin) = "garbage"
     \/ fromPlugin = <<>> /\ process = "exited"
  /\ IF closing THEN NoFailure ELSE Fail("read", pending)
  /\ reader' = "done"
  /\ UNCHANGED <<Reading, fromPlugin>>

(* stderrLoop: the plugin writes more than MaxStderrBytes, or the stream ends *)
(* with an error, as a child's does when its Wait closes the pipe under it.   *)
StderrFails ==
  /\ process # "none" /\ ~closing /\ failure = "none"
  /\ \/ faults < MaxFaults /\ faults' = faults + 1
     \/ process = "exited" /\ UNCHANGED faults
  /\ Fail("stderr", pending)
  /\ UNCHANGED <<Loops, Pipes, call>>

(* The Wait of a child process closes the host's ends of the pipes: what the  *)
(* reader has not taken by then is lost. The pump of an environment's stream  *)
(* hands everything over before Wait hears of the end.                        *)
Left == IF local THEN {SubSeq(fromPlugin, 1, n) : n \in 0..Len(fromPlugin)} ELSE {fromPlugin}

(* waitLoop. During Close the reader is given time to drain, and then what is *)
(* still pending is rejected.                                                 *)
WaitReturns ==
  /\ waiter = "on" /\ process = "exited"
  /\ fromPlugin' \in Left
  /\ IF closing
     THEN waiter' = "drain" /\ NoFailure
     ELSE waiter' = "done" /\ Fail("exit", pending)
  /\ UNCHANGED <<stage, closer, call, reader, toPlugin, process, plugin, local, faults>>

Rejects ==
  /\ waiter = "drain"      \* the reader is done, or ShutdownTimeout is over
  /\ waiter' = "done"
  /\ pending' = {} /\ answer' = Rejected(pending)
  /\ UNCHANGED <<stage, closer, failure, call, stdin, reader, killed, Pipes, faults>>

Drained == waiter = "drain" /\ reader = "done" /\ Rejects
DrainExpires == waiter = "drain" /\ reader = "on" /\ Rejects

-----------------------------------------------------------------------------
(* Close, once Start is over: the shutdown exchange with a plugin that is     *)
(* ready, end of input, a bounded wait for the exit, then termination.        *)
CloseStep == <<stage, failure, answer, reader, waiter, Pipes, faults>>

CloseBegins ==
  /\ closer = "open" /\ stage # "initialize"
  /\ closer' = IF stage = "new" THEN "closed"
               ELSE IF stage = "ready" /\ failure = "none" THEN "shutdown" ELSE "stdin"
  /\ UNCHANGED <<CloseStep, pending, call, stdin, killed>>

AsksShutdown ==
  /\ closer = "shutdown" /\ call["shutdown"] = "idle"
  /\ Register("shutdown")
  /\ UNCHANGED <<CloseStep, closer, stdin, killed>>

ShutdownAnswered ==
  /\ closer = "shutdown" /\ Gone("shutdown")
  /\ closer' = "stdin"
  /\ UNCHANGED <<CloseStep, pending, call, stdin, killed>>

ClosesStdin ==
  /\ closer = "stdin"
  /\ stdin' = FALSE /\ closer' = "await"
  /\ UNCHANGED <<CloseStep, pending, call, killed>>

processDone == waiter \in {"drain", "done"} \/ process = "none"

Terminates ==
  /\ closer = "await" /\ ~processDone /\ ~killed
  /\ killed' = TRUE
  /\ UNCHANGED <<CloseStep, closer, pending, call, stdin>>

ProcessAwaited ==
  /\ closer = "await" /\ processDone
  /\ closer' = "drain"
  /\ UNCHANGED <<CloseStep, pending, call, stdin, killed>>

Closes ==
  /\ closer = "drain"      \* the readers are done, or the time to drain is over
  /\ closer' = "closed"
  /\ UNCHANGED <<CloseStep, pending, call, stdin, killed>>

ReadersDrained == reader # "on" /\ Closes
DrainGivenUp == reader = "on" /\ Closes

-----------------------------------------------------------------------------
(* The SDK: one loop that takes a frame at a time, a goroutine for each call. *)
Served == <<host, killed, local, faults>>
Sends(r) == Len(fromPlugin) < PipeRoom /\ fromPlugin' = Append(fromPlugin, r)
Receives(frame) == process = "running" /\ toPlugin # <<>> /\ Head(toPlugin) = frame /\ toPlugin' = Tail(toPlugin)

Greets ==
  /\ serving = "greets" /\ Receives(Request("initialize")) /\ Sends("initialize")
  /\ serving' = "serves"
  /\ UNCHANGED <<Served, process, work>>

TakesCall(c) ==
  /\ serving = "serves" /\ Receives(Request(c))
  /\ work' = [work EXCEPT ![c] = "taken"]
  /\ UNCHANGED <<Served, fromPlugin, process, serving>>

(* When a handler ends is left open, whether it waits for its turn, runs, or  *)
(* has been canceled: all a cancellation does is to let it end.               *)
Responds(c) ==
  /\ process = "running" /\ work[c] = "taken" /\ Sends(c)
  /\ work' = [work EXCEPT ![c] = "answered"]
  /\ UNCHANGED <<Served, toPlugin, process, serving>>

TakesCancel(r) ==
  /\ serving # "leaves" /\ Receives(Cancel(r))
  /\ UNCHANGED <<Served, fromPlugin, process, plugin>>

TakesShutdown ==
  /\ serving = "serves" /\ Receives(Request("shutdown")) /\ Sends("shutdown")
  /\ serving' = "leaves"
  /\ UNCHANGED <<Served, process, work>>

(* Serve returns after a shutdown, or at the end of its input.                *)
Exits ==
  /\ process = "running" /\ process' = "exited"
  /\ toPlugin' = <<>>
  /\ work' = [c \in Calls |-> IF work[c] = "answered" THEN "answered" ELSE "none"]
  /\ UNCHANGED <<host, killed, local, fromPlugin, serving>>

Leaves ==
  /\ serving = "leaves" \/ (~stdin /\ toPlugin = <<>>)
  /\ Exits /\ UNCHANGED faults

Dies ==
  /\ Exits
  /\ \/ killed /\ UNCHANGED faults
     \/ ~killed /\ faults < MaxFaults /\ faults' = faults + 1

Misspeaks ==
  /\ process = "running" /\ faults < MaxFaults
  /\ Sends("garbage") /\ faults' = faults + 1
  /\ UNCHANGED <<host, killed, local, toPlugin, process, plugin>>

Serving ==
  \/ Greets \/ TakesShutdown \/ Leaves
  \/ \E c \in Calls : TakesCall(c) \/ Responds(c)
  \/ \E r \in Requests : TakesCancel(r)

Over == closer = "closed" /\ (\A r \in Requests : call[r] \in {"idle", "result", "failed"}) /\ UNCHANGED vars

Closing == \/ AsksShutdown \/ ShutdownAnswered \/ ClosesStdin \/ Terminates
           \/ ProcessAwaited \/ ReadersDrained \/ DrainGivenUp

Next ==
  \/ Starts \/ Started
  \/ \E c \in Calls : Executes(c)
  \/ \E r \in Requests : Calling(r) \/ Expiring(r) \/ GraceEnds(r)
  \/ Delivers \/ ReadFails \/ StderrFails \/ WaitReturns \/ Drained \/ DrainExpires
  \/ CloseBegins \/ Closing
  \/ Serving \/ Dies \/ Misspeaks
  \/ Over

Spec == Init /\ [][Next]_vars

(* The host's goroutines go on, its shutdown deadlines pass, and a killed     *)
(* process exits. The plugin owes nothing, nor do the deadlines of calls.     *)
HostSpec ==
  /\ Spec
  /\ WF_vars(Started) /\ WF_vars(Delivers) /\ WF_vars(ReadFails)
  /\ WF_vars(WaitReturns) /\ WF_vars(Drained) /\ WF_vars(DrainExpires)
  /\ WF_vars(Closing)
  /\ WF_vars(killed /\ Dies)
  /\ \A r \in Requests : WF_vars(Calling(r))
  /\ WF_vars(Expiring("shutdown")) /\ WF_vars(Expiring("initialize"))

-----------------------------------------------------------------------------
(* A plugin that serves the protocol is given up only because initialize was  *)
(* not answered in time, a frame could not be written in time, or a canceled  *)
(* call was not answered within its grace: no crossing of answers,            *)
(* cancellations and timeouts looks to the host like a protocol violation.    *)
HealthyKept ==
  faults = 0 => failure \in {"none", "initialize", "write", "late"}

(* The caller was told that the connection is over instead of its answer.     *)
Lost(r) == answer[r] = "rejected"

(* The wait for an answer the plugin has sent ends, whatever happens to the   *)
(* other calls.  A caller that did not give up first loses the answer only to *)
(* the end of the connection, which another call's write timeout or late      *)
(* cancellation also is, or to Close; and never once deliver has put it in    *)
(* the call's channel.  And Close returns, whatever the plugin does.          *)
EveryWaitEnds ==
  /\ \A c \in Calls : (call[c] = "wait" /\ work[c] = "answered") ~> (Gone(c) /\ (Lost(c) => failure # "none" \/ closing))
  /\ [][\A c \in Calls : answer[c] = "result" => answer'[c] = "result"]_vars
  /\ closing ~> closer = "closed"
=============================================================================
