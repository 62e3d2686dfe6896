-------------------------- MODULE ExternalHostProofs --------------------------
(* HealthyKept of ExternalHost for any calls, limits and room in the pipes:   *)
(* while no fault has occurred, no failure is known and Close has not begun,  *)
(* every request is in one place at most, and whatever the plugin still has   *)
(* of it is expected by the host.                                             *)
EXTENDS ExternalHost, SequenceTheorems, TLAPS

Holds(s, x) == \E i \in DOMAIN s : s[i] = x
Once(s, X) == \A i, j \in DOMAIN s : s[i] = s[j] /\ s[i] \in X => i = j

Frames == [cancel : BOOLEAN, id : Requests]
Asked == {Request(r) : r \in Requests}

(* Nothing has gone wrong and nobody closes the host.                         *)
Calm == faults = 0 /\ failure = "none" /\ closer = "open"

(* The plugin side of a request: asked, being worked on, answered.            *)
Queued(r) == Holds(toPlugin, Request(r))
Working(r) == r \in Calls /\ work[r] = "taken"
Replied(r) == Holds(fromPlugin, r)

Pipelines ==
  /\ toPlugin \in Seq(Frames) /\ Once(toPlugin, Asked)
  /\ fromPlugin \in Seq(Requests) /\ Once(fromPlugin, Requests)
  /\ pending \subseteq Requests
  /\ DOMAIN call = Requests /\ DOMAIN work = Calls /\ DOMAIN answer = Requests

Expected ==
  \A r \in Requests :
    /\ Queued(r) => r \in pending /\ ~Working(r) /\ ~Replied(r)
    /\ Working(r) => r \in pending /\ ~Replied(r)
    /\ Replied(r) => r \in pending
    /\ call[r] = "write" => r \in pending
    /\ call[r] \in {"idle", "write"} => ~Queued(r) /\ ~Working(r) /\ ~Replied(r)

Up ==
  /\ stage = "new" => process = "none" /\ call["initialize"] = "idle"
  /\ process # "exited" /\ ~killed /\ serving # "leaves"
  /\ process = "running" => stdin
  /\ call["shutdown"] = "idle"

Orderly == Pipelines /\ Expected /\ Up

HostInv == faults \in Nat /\ HealthyKept /\ (Calm => Orderly)

-----------------------------------------------------------------------------
(* A frame leaves a pipe at its head and enters it at its end.                *)
LEMMA Taken ==
  ASSUME NEW S, NEW X, NEW s \in Seq(S), s # <<>>, Once(s, X)
  PROVE  /\ Tail(s) \in Seq(S) /\ Once(Tail(s), X)
         /\ Holds(s, Head(s)) /\ Head(s) \in S
         /\ \A x : Holds(Tail(s), x) => Holds(s, x)
         /\ Head(s) \in X => ~Holds(Tail(s), Head(s))
<1>1. /\ Tail(s) \in Seq(S) /\ Len(Tail(s)) = Len(s) - 1 /\ Len(s) \in Nat /\ Len(s) > 0
      /\ Head(s) = s[1] /\ \A i \in 1..Len(Tail(s)) : Tail(s)[i] = s[i + 1]
  BY HeadTailProperties, EmptySeq, LenProperties
<1>2. /\ DOMAIN s = 1..Len(s) /\ DOMAIN Tail(s) = 1..(Len(s) - 1)
  BY <1>1, LenProperties
<1>3. \A i \in DOMAIN Tail(s) : i \in Nat /\ i + 1 \in DOMAIN s /\ i + 1 # 1 /\ Tail(s)[i] = s[i + 1]
  BY <1>1, <1>2
<1>4. 1 \in DOMAIN s /\ s[1] \in S
  BY <1>1, <1>2, ElementOfSeq
<1>5. \A i, j \in DOMAIN Tail(s) : i + 1 = j + 1 => i = j
  BY <1>2
<1>6. QED
  BY <1>1, <1>3, <1>4, <1>5 DEF Holds, Once

(* A frame enters a pipe at its end: what was not in it is in it once.        *)
LEMMA Sent ==
  ASSUME NEW S, NEW X, NEW s \in Seq(S), Once(s, X), NEW x \in S, x \in X => ~Holds(s, x)
  PROVE  /\ Append(s, x) \in Seq(S) /\ Once(Append(s, x), X)
         /\ \A y : Holds(Append(s, x), y) => Holds(s, y) \/ y = x
<1> DEFINE t == Append(s, x)
<1>1. /\ t \in Seq(S) /\ Len(t) = Len(s) + 1 /\ t[Len(s) + 1] = x
      /\ \A i \in 1..Len(s) : t[i] = s[i]
  BY AppendProperties
<1>2. DOMAIN s = 1..Len(s) /\ DOMAIN t = 1..(Len(s) + 1) /\ Len(s) \in Nat
  BY <1>1, LenProperties
<1>3. \A i \in DOMAIN t : (i \in DOMAIN s /\ t[i] = s[i]) \/ (i = Len(s) + 1 /\ t[i] = x)
  BY <1>1, <1>2
<1> HIDE DEF t
<1>4. \A y : Holds(t, y) => Holds(s, y) \/ y = x
  BY <1>3 DEF Holds
<1>5. Once(t, X)
  <2> SUFFICES ASSUME NEW i \in DOMAIN t, NEW j \in DOMAIN t, t[i] = t[j], t[i] \in X PROVE i = j
    BY DEF Once
  <2>1. CASE i \in DOMAIN s /\ j \in DOMAIN s
    BY <1>1, <1>2, <2>1 DEF Once
  <2>2. CASE i \notin DOMAIN s /\ j \notin DOMAIN s
    BY <1>3, <2>2
  <2>3. CASE i \in DOMAIN s /\ j \notin DOMAIN s
    BY <1>3, <2>3 DEF Holds
  <2>4. CASE i \notin DOMAIN s /\ j \in DOMAIN s
    BY <1>3, <2>4 DEF Holds
  <2>5. QED
    BY <2>1, <2>2, <2>3, <2>4
<1>6. QED
  BY <1>1, <1>4, <1>5 DEF t

-----------------------------------------------------------------------------
(* fail names a cause once; what follows is no longer calm.                   *)
LEMMA Failing ==
  ASSUME HostInv, NEW cause, NEW rest, Fail(cause, rest), cause # "none", UNCHANGED faults,
         cause \in {"write", "late"} \/ faults # 0 \/ failure # "none"
  PROVE  HostInv'
<1>1. failure' # "none" /\ (failure' = failure \/ (failure' = cause /\ failure = "none"))
  <2>1. CASE failure # "none"
    BY <2>1, Zenon DEF Fail
  <2>2. CASE failure = "none"
    BY <2>2, Zenon DEF Fail
  <2>3. QED
    BY <2>1, <2>2
<1>2. QED
  BY <1>1 DEF HostInv, HealthyKept, Calm

(* A step with a fault, and one after it, promise nothing more.               *)
LEMMA Faulted ==
  ASSUME HostInv, faults' = faults + 1 PROVE HostInv'
BY DEF HostInv, HealthyKept, Calm

(* A step of the host that touches no pipe and no pending request.            *)
LEMMA HostAlone ==
  ASSUME HostInv, UNCHANGED <<failure, faults, toPlugin, fromPlugin, process, serving, work>>,
         Calm' => /\ Calm /\ UNCHANGED <<killed, stdin, pending>> /\ (stage' = "new" => stage = "new")
                  /\ DOMAIN call' = Requests /\ DOMAIN answer' = Requests
                  /\ \A r \in Requests :
                       \/ call'[r] = call[r]
                       \/ /\ call'[r] \notin {"idle", "write"}
                          /\ call[r] # "idle" \/ r \notin {"shutdown", "initialize"}
  PROVE  HostInv'
<1>1. faults' \in Nat /\ HealthyKept'
  BY DEF HostInv, HealthyKept
<1>2. ASSUME Calm' PROVE Orderly'
  <2>1. Calm /\ Orderly
    BY <1>2 DEF HostInv
  <2>2. {"shutdown", "initialize"} \subseteq Requests
    BY DEF Requests
  <2>3. Up'
    BY <1>2, <2>1, <2>2 DEF Orderly, Up
  <2>4. Pipelines'
    BY <1>2, <2>1 DEF Orderly, Pipelines
  <2>5. Expected'
    BY <1>2, <2>1 DEF Orderly, Expected, Queued, Working, Replied
  <2>6. QED
    BY <2>3, <2>4, <2>5 DEF Orderly
<1>3. QED
  BY <1>1, <1>2 DEF HostInv

(* call: a request that takes its place has no trace on the plugin's side.    *)
LEMMA RegisterKeeps ==
  ASSUME HostInv, NEW r \in Requests, Calm => call[r] = "idle", Register(r), r # "shutdown" \/ closing,
         UNCHANGED <<failure, faults, closer, toPlugin, fromPlugin, serving, work, killed, answer>>,
         \/ UNCHANGED <<stage, process, stdin>> /\ r # "initialize"
         \/ stage' # "new" /\ process' = "running" /\ stdin'
  PROVE  HostInv'
<1>1. faults' \in Nat /\ HealthyKept' /\ (Calm' => Calm)
  BY DEF HostInv, HealthyKept, Calm
<1>2. ASSUME Calm' PROVE Orderly'
  <2>1. Calm /\ Orderly /\ ~closing
    BY <1>1, <1>2 DEF HostInv, Calm, closing
  <2>2. /\ \/ pending' = pending \union {r} /\ call' = [call EXCEPT ![r] = "write"]
           \/ pending' = pending /\ call' = [call EXCEPT ![r] = "failed"]
    BY DEF Register, Return
  <2>3. {"shutdown", "initialize"} \subseteq Requests /\ r # "shutdown"
    BY <2>1 DEF Requests
  <2>4. Pipelines'
    BY <2>1, <2>2 DEF Orderly, Pipelines
  <2>5. Up'
    BY <2>1, <2>2, <2>3 DEF Orderly, Pipelines, Up
  <2>6. Expected'
    BY <2>1, <2>2 DEF Orderly, Pipelines, Expected, Queued, Working, Replied
  <2>7. QED
    BY <2>4, <2>5, <2>6 DEF Orderly
<1>3. QED
  BY <1>1, <1>2 DEF HostInv

(* Start: a connection, or none; capabilities, or a failure.                  *)
LEMMA StartKeeps ==
  ASSUME HostInv, Starts \/ Started PROVE HostInv'
<1>1. CASE Starts
  <2>1. CASE faults' = faults + 1
    BY <2>1, Faulted
  <2>2. CASE ~(faults' = faults + 1)
    <3>1. /\ stage' = "initialize" /\ process' = "running" /\ stdin' = TRUE
          /\ Register("initialize") /\ stage = "new" /\ ~closing
          /\ UNCHANGED <<failure, faults, closer, toPlugin, fromPlugin, serving, work, killed, answer>>
      BY <1>1, <2>2 DEF Starts, plugin
    <3>2. "initialize" \in Requests /\ (Calm => call["initialize"] = "idle")
      BY <3>1 DEF Requests, HostInv, Orderly, Up
    <3>3. QED
      BY <3>1, <3>2, RegisterKeeps
  <2>3. QED
    BY <2>1, <2>2
<1>2. CASE Started
  <2>1. CASE faults' = faults + 1
    BY <2>1, Faulted
  <2>2. CASE ~(faults' = faults + 1) /\ NoFailure
    <3>1. /\ stage' # "new"
          /\ UNCHANGED <<failure, faults, closer, call, answer, killed, stdin, pending,
                         toPlugin, fromPlugin, process, serving, work>>
      BY <1>2, <2>2 DEF Started, NoFailure, Pipes, plugin, StartFails
    <3>2. QED
      BY <3>1, HostAlone DEF Calm, HostInv, Orderly, Pipelines
  <2>3. CASE ~(faults' = faults + 1) /\ StartFails("initialize")
    BY <1>2, <2>3 DEF Started, StartFails, HostInv, HealthyKept, Calm
  <2>4. QED
    BY <1>2, <2>1, <2>2, <2>3 DEF Started
<1>3. QED
  BY <1>1, <1>2

(* Executes, and the steps of a caller in Host.call: a frame that is written  *)
(* asks for a request that was nowhere before, and a cancellation for none.   *)
LEMMA CallerKeeps ==
  ASSUME HostInv, NEW r \in Requests, Calling(r) \/ Expiring(r) \/ GraceEnds(r) PROVE HostInv'
<1>1. CASE Writes(r)
  <2>1. /\ call[r] = "write" /\ failure = "none"
        /\ toPlugin' = Append(toPlugin, Request(r)) /\ call' = [call EXCEPT ![r] = "wait"]
        /\ UNCHANGED <<stage, closer, failure, pending, answer, stdin, killed,
                       fromPlugin, process, work, serving, faults>>
    BY <1>1 DEF Writes, Broken, Loops, plugin
  <2>2. faults' \in Nat /\ HealthyKept' /\ (Calm' => Calm)
    BY <2>1 DEF HostInv, HealthyKept, Calm
  <2>3. ASSUME Calm' PROVE Orderly'
    <3>1. Orderly
      BY <2>2, <2>3 DEF HostInv
    <3>2. r \in pending /\ ~Queued(r) /\ ~Working(r) /\ ~Replied(r)
      BY <2>1, <3>1 DEF Orderly, Expected
    <3>3. Request(r) \in Frames
      BY DEF Request, Frames
    <3>4. /\ toPlugin' \in Seq(Frames) /\ Once(toPlugin', Asked)
          /\ \A f : Holds(toPlugin', f) => Holds(toPlugin, f) \/ f = Request(r)
      <4>1. toPlugin \in Seq(Frames) /\ Once(toPlugin, Asked) /\ ~Holds(toPlugin, Request(r))
        BY <3>1, <3>2 DEF Orderly, Pipelines, Queued
      <4>2. QED
        BY <2>1, <3>3, <4>1, Sent
    <3>5. \A q \in Requests : Queued(q)' => Queued(q) \/ q = r
      BY <3>4 DEF Queued, Request
    <3>6. Pipelines'
      BY <2>1, <3>1, <3>4 DEF Orderly, Pipelines
    <3>7. Up'
      BY <2>1, <3>1 DEF Orderly, Up, Pipelines
    <3>8. Expected'
      BY <2>1, <3>1, <3>2, <3>5 DEF Orderly, Pipelines, Expected, Working, Replied
    <3>9. QED
      BY <3>6, <3>7, <3>8 DEF Orderly
  <2>4. QED
    BY <2>2, <2>3 DEF HostInv
<1>2. CASE WriteFails(r)
  BY <1>2, Failing DEF WriteFails
<1>3. CASE WriteExpires(r)
  BY <1>3, Failing DEF WriteExpires
<1>4. CASE GraceEnds(r)
  BY <1>4, Failing DEF GraceEnds
<1>5. ASSUME NEW to, call[r] \in {"wait", "notice"}, to \in {"notice", "result", "failed"},
             Return(r, to), NoFailure,
             UNCHANGED <<stage, closer, toPlugin, fromPlugin, process, serving, work, faults>>
      PROVE  HostInv'
  <2>1. /\ call' = [call EXCEPT ![r] = to]
        /\ UNCHANGED <<failure, pending, answer, stdin, killed>>
    BY <1>5 DEF Return, NoFailure
  <2>2. QED
    BY <1>5, <2>1, HostAlone DEF Calm, HostInv, Orderly, Pipelines
<1>6. CASE Answered(r)
  BY <1>5, <1>6 DEF Answered, Loops, Pipes, plugin
<1>7. CASE Cancels(r)
  BY <1>5, <1>7 DEF Cancels, Return, Loops, Pipes, plugin
<1>8. CASE Notifies(r)
  <2>1. CASE Fail("write", pending)
    BY <1>8, <2>1, Failing DEF Notifies
  <2>2. CASE NoFailure /\ UNCHANGED toPlugin
    BY <1>5, <1>8, <2>2 DEF Notifies, Loops, plugin
  <2>3. CASE NoFailure /\ toPlugin' = Append(toPlugin, Cancel(r))
    <3>1. /\ call[r] = "notice" /\ call' = [call EXCEPT ![r] = "failed"]
          /\ UNCHANGED <<stage, closer, failure, pending, answer, stdin, killed,
                         fromPlugin, process, work, serving, faults>>
      BY <1>8, <2>3 DEF Notifies, NoFailure, Return, Loops, plugin
    <3>2. faults' \in Nat /\ HealthyKept' /\ (Calm' => Calm)
      BY <3>1 DEF HostInv, HealthyKept, Calm
    <3>3. ASSUME Calm' PROVE Orderly'
      <4>1. Orderly
        BY <3>2, <3>3 DEF HostInv
      <4>2. Cancel(r) \in Frames /\ \A q : Cancel(r) # Request(q)
        BY DEF Cancel, Request, Frames
      <4>3. /\ toPlugin' \in Seq(Frames) /\ Once(toPlugin', Asked)
            /\ \A f : Holds(toPlugin', f) => Holds(toPlugin, f) \/ f = Cancel(r)
        <5>1. toPlugin \in Seq(Frames) /\ Once(toPlugin, Asked) /\ Cancel(r) \notin Asked
          BY <4>1, <4>2 DEF Orderly, Pipelines, Asked
        <5>2. QED
          BY <2>3, <4>2, <5>1, Sent
      <4>4. \A q \in Requests : Queued(q)' => Queued(q)
        BY <4>2, <4>3 DEF Queued
      <4>5. Pipelines'
        BY <3>1, <4>1, <4>3 DEF Orderly, Pipelines
      <4>6. Up'
        BY <3>1, <4>1 DEF Orderly, Up, Pipelines
      <4>7. Expected'
        BY <3>1, <4>1, <4>4 DEF Orderly, Pipelines, Expected, Working, Replied
      <4>8. QED
        BY <4>5, <4>6, <4>7 DEF Orderly
    <3>4. QED
      BY <3>2, <3>3 DEF HostInv
  <2>4. QED
    BY <1>8, <2>1, <2>2, <2>3 DEF Notifies
<1>9. QED
  BY <1>1, <1>2, <1>3, <1>4, <1>6, <1>7, <1>8 DEF Calling, Expiring

(* Executes: a slot and a place among the pending, or an answer at once.      *)
LEMMA ExecutesKeeps ==
  ASSUME HostInv, NEW c \in Calls, Executes(c) PROVE HostInv'
<1>1. c \in Requests /\ c # "initialize" /\ c # "shutdown"
  BY HostAssumption DEF Requests
<1>2. /\ call[c] = "idle"
      /\ Register(c) \/ (Return(c, "failed") /\ UNCHANGED pending)
      /\ UNCHANGED <<failure, faults, stage, closer, answer, toPlugin, fromPlugin,
                     process, serving, work, killed, stdin>>
  BY DEF Executes, Loops, Pipes, plugin
<1>3. CASE Register(c)
  BY <1>1, <1>2, <1>3, RegisterKeeps
<1>4. CASE Return(c, "failed") /\ UNCHANGED pending
  <2>1. call' = [call EXCEPT ![c] = "failed"]
    BY <1>4 DEF Return
  <2>2. QED
    BY <1>1, <1>2, <1>4, <2>1, HostAlone DEF Calm, HostInv, Orderly, Pipelines
<1>5. QED
  BY <1>2, <1>3, <1>4

-----------------------------------------------------------------------------
(* readLoop: while all is calm the frame is an answer that is expected, and   *)
(* the request it answers is nowhere any more.                                *)
LEMMA DeliversKeeps ==
  ASSUME HostInv, Delivers PROVE HostInv'
<1> DEFINE r == Head(fromPlugin)
<1>1. /\ fromPlugin # <<>> /\ Frame(r) /\ fromPlugin' = Tail(fromPlugin)
      /\ UNCHANGED <<stage, closer, call, toPlugin, process, work, serving, faults>>
  BY DEF Delivers, Reading, plugin
<1>2. ASSUME Calm PROVE /\ Orderly /\ r \in Requests /\ Replied(r) /\ r \in pending
                        /\ fromPlugin' \in Seq(Requests) /\ Once(fromPlugin', Requests)
                        /\ \A q \in Requests : Replied(q)' => Replied(q) /\ q # r
  <2>1. Orderly
    BY <1>2 DEF HostInv
  <2>2. fromPlugin \in Seq(Requests) /\ Once(fromPlugin, Requests)
    BY <2>1 DEF Orderly, Pipelines
  <2>3. /\ fromPlugin' \in Seq(Requests) /\ Once(fromPlugin', Requests)
        /\ Holds(fromPlugin, r) /\ r \in Requests /\ ~Holds(fromPlugin', r)
        /\ \A x : Holds(fromPlugin', x) => Holds(fromPlugin, x)
    BY <1>1, <2>2, Taken
  <2>4. QED
    BY <2>1, <2>3 DEF Orderly, Expected, Replied
<1> HIDE DEF r
<1>3. CASE r \in pending
  <2>1. /\ pending' = pending \ {r} /\ UNCHANGED <<failure, stdin, killed>>
        /\ answer' \in {answer, [answer EXCEPT ![r] = "result"]}
    BY <1>1, <1>3 DEF Frame
  <2>2. faults' \in Nat /\ HealthyKept' /\ (Calm' => Calm)
    BY <1>1, <2>1 DEF HostInv, HealthyKept, Calm
  <2>3. ASSUME Calm' PROVE Orderly'
    <3>1. /\ Orderly /\ r \in Requests /\ Replied(r)
          /\ fromPlugin' \in Seq(Requests) /\ Once(fromPlugin', Requests)
          /\ \A q \in Requests : Replied(q)' => Replied(q) /\ q # r
      BY <1>2, <2>2, <2>3
    <3>2. ~Queued(r) /\ ~Working(r) /\ call[r] # "write"
      BY <3>1 DEF Orderly, Expected
    <3>3. Pipelines'
      BY <1>1, <2>1, <3>1 DEF Orderly, Pipelines
    <3>4. Up'
      BY <1>1, <2>1, <3>1 DEF Orderly, Up
    <3>5. Expected'
      BY <1>1, <2>1, <3>1, <3>2 DEF Orderly, Expected, Queued, Working
    <3>6. QED
      BY <3>3, <3>4, <3>5 DEF Orderly
  <2>4. QED
    BY <2>2, <2>3 DEF HostInv
<1>4. CASE r \notin pending /\ ~closing
  <2>1. Fail("unknown", pending) /\ ~Calm
    BY <1>1, <1>2, <1>4 DEF Frame
  <2>2. faults # 0 \/ failure # "none"
    BY <1>4, <2>1 DEF Calm, closing
  <2>3. QED
    BY <1>1, <2>1, <2>2, Failing
<1>5. CASE r \notin pending /\ closing
  BY <1>1, <1>5 DEF Frame, NoFailure, closing, Calm, HostInv, HealthyKept
<1>6. QED
  BY <1>3, <1>4, <1>5

(* The end of the stream and of the process: while all is calm there is none. *)
LEMMA EndKeeps ==
  ASSUME HostInv, ReadFails \/ WaitReturns PROVE HostInv'
<1>1. ASSUME Calm PROVE process # "exited" /\ (fromPlugin # <<>> => Head(fromPlugin) \in Requests)
  <2>1. fromPlugin \in Seq(Requests) /\ Once(fromPlugin, Requests) /\ process # "exited"
    BY <1>1 DEF HostInv, Orderly, Pipelines, Up
  <2>2. QED
    BY <2>1, Taken
<1>2. "garbage" \notin Requests
  BY HostAssumption DEF Requests
<1>3. ~Calm
  BY <1>1, <1>2 DEF ReadFails, WaitReturns
<1>4. UNCHANGED <<faults, closer>>
      /\ \/ closing /\ NoFailure
         \/ ~closing /\ (Fail("read", pending) \/ Fail("exit", pending))
  BY DEF ReadFails, WaitReturns, Reading
<1>5. CASE closing /\ NoFailure
  BY <1>4, <1>5 DEF NoFailure, closing, Calm, HostInv, HealthyKept
<1>6. CASE ~closing /\ (Fail("read", pending) \/ Fail("exit", pending))
  BY <1>3, <1>4, <1>6, Failing DEF Calm, closing
<1>7. QED
  BY <1>4, <1>5, <1>6

(* The SDK's loop: each frame it takes and each answer it sends moves one     *)
(* request on; it never leaves unasked.                                       *)
PluginStep == UNCHANGED <<stage, closer, failure, pending, call, answer, stdin, reader, waiter, killed, faults>>

LEMMA TakesKeeps ==
  ASSUME HostInv, NEW c \in Calls, TakesCall(c) PROVE HostInv'
<1>1. /\ toPlugin # <<>> /\ Head(toPlugin) = Request(c) /\ toPlugin' = Tail(toPlugin)
      /\ work' = [work EXCEPT ![c] = "taken"]
      /\ PluginStep /\ UNCHANGED <<process, serving, fromPlugin>>
  BY DEF TakesCall, Receives, Served, host, PluginStep
<1>2. c \in Requests
  BY DEF Requests
<1>3. faults' \in Nat /\ HealthyKept' /\ (Calm' => Calm)
  BY <1>1 DEF PluginStep, HostInv, HealthyKept, Calm
<1>4. ASSUME Calm' PROVE Orderly'
  <2>1. Orderly
    BY <1>3, <1>4 DEF HostInv
  <2>2. /\ toPlugin' \in Seq(Frames) /\ Once(toPlugin', Asked) /\ Queued(c)
        /\ ~Queued(c)' /\ \A q \in Requests : Queued(q)' => Queued(q)
    <3>1. toPlugin \in Seq(Frames) /\ Once(toPlugin, Asked) /\ Request(c) \in Asked
      BY <1>2, <2>1 DEF Orderly, Pipelines, Asked
    <3>2. /\ toPlugin' \in Seq(Frames) /\ Once(toPlugin', Asked)
          /\ Holds(toPlugin, Request(c)) /\ ~Holds(toPlugin', Request(c))
          /\ \A f : Holds(toPlugin', f) => Holds(toPlugin, f)
      <4>1. /\ Tail(toPlugin) \in Seq(Frames) /\ Once(Tail(toPlugin), Asked)
            /\ Holds(toPlugin, Head(toPlugin))
            /\ \A f : Holds(Tail(toPlugin), f) => Holds(toPlugin, f)
            /\ Head(toPlugin) \in Asked => ~Holds(Tail(toPlugin), Head(toPlugin))
        BY <1>1, <3>1, Taken
      <4>2. Head(toPlugin) = Request(c) /\ toPlugin' = Tail(toPlugin)
        BY <1>1
      <4>3. QED
        BY <3>1, <4>1, <4>2, Zenon
    <3>3. QED
      BY <3>2 DEF Queued
  <2>3. c \in pending /\ ~Replied(c) /\ call[c] \notin {"idle", "write"}
    BY <1>2, <2>1, <2>2 DEF Orderly, Expected
  <2>4. \A q \in Requests : Working(q)' <=> Working(q) \/ q = c
    BY <1>1, <2>1 DEF Orderly, Pipelines, Working
  <2>5. Pipelines'
    BY <1>1, <2>1, <2>2 DEF Orderly, Pipelines, PluginStep
  <2>6. Up'
    BY <1>1, <2>1 DEF Orderly, Up, PluginStep
  <2>7. Expected'
    BY <1>1, <2>1, <2>2, <2>3, <2>4 DEF Orderly, Expected, Replied, PluginStep
  <2>8. QED
    BY <2>5, <2>6, <2>7 DEF Orderly
<1>5. QED
  BY <1>3, <1>4 DEF HostInv

(* A handler of the SDK has ended: its answer is on its way.                  *)
LEMMA RespondsKeeps ==
  ASSUME HostInv, NEW c \in Calls, Responds(c) PROVE HostInv'
<1>1. /\ work[c] = "taken" /\ work' = [work EXCEPT ![c] = "answered"]
      /\ fromPlugin' = Append(fromPlugin, c)
      /\ PluginStep /\ UNCHANGED <<process, serving, toPlugin>>
  BY DEF Responds, Sends, Served, host, PluginStep
<1>2. c \in Requests
  BY DEF Requests
<1>3. faults' \in Nat /\ HealthyKept' /\ (Calm' => Calm)
  BY <1>1 DEF PluginStep, HostInv, HealthyKept, Calm
<1>4. ASSUME Calm' PROVE Orderly'
  <2>1. Orderly
    BY <1>3, <1>4 DEF HostInv
  <2>2. Working(c)
    BY <1>1 DEF Working
  <2>3. c \in pending /\ ~Queued(c) /\ ~Replied(c) /\ call[c] \notin {"idle", "write"}
    BY <1>2, <2>1, <2>2 DEF Orderly, Expected
  <2>4. /\ fromPlugin' \in Seq(Requests) /\ Once(fromPlugin', Requests)
        /\ \A q \in Requests : Replied(q)' => Replied(q) \/ q = c
    <3>1. fromPlugin \in Seq(Requests) /\ Once(fromPlugin, Requests) /\ ~Holds(fromPlugin, c)
      BY <2>1, <2>3 DEF Orderly, Pipelines, Replied
    <3>2. QED
      BY <1>1, <1>2, <3>1, Sent DEF Replied
  <2>5. \A q \in Requests : Working(q)' => Working(q) /\ q # c
    BY <1>1, <2>1 DEF Orderly, Pipelines, Working
  <2>6. Pipelines'
    BY <1>1, <2>1, <2>4 DEF Orderly, Pipelines, PluginStep
  <2>7. Up'
    BY <1>1, <2>1 DEF Orderly, Up, PluginStep
  <2>8. Expected'
    BY <1>1, <2>1, <2>3, <2>4, <2>5 DEF Orderly, Expected, Queued, PluginStep
  <2>9. QED
    BY <2>6, <2>7, <2>8 DEF Orderly
<1>5. QED
  BY <1>3, <1>4 DEF HostInv

(* The SDK answers initialize, which it is asked once.                        *)
LEMMA GreetsKeeps ==
  ASSUME HostInv, Greets PROVE HostInv'
<1> DEFINE r == "initialize"
<1>1. /\ toPlugin # <<>> /\ Head(toPlugin) = Request(r) /\ toPlugin' = Tail(toPlugin)
      /\ fromPlugin' = Append(fromPlugin, r) /\ serving' = "serves"
      /\ PluginStep /\ UNCHANGED <<process, work>>
  BY DEF Greets, Receives, Sends, Served, host, PluginStep
<1>2. r \in Requests /\ r \notin Calls
  BY HostAssumption DEF Requests
<1> HIDE DEF r
<1>3. faults' \in Nat /\ HealthyKept' /\ (Calm' => Calm)
  BY <1>1 DEF PluginStep, HostInv, HealthyKept, Calm
<1>4. ASSUME Calm' PROVE Orderly'
  <2>1. Orderly
    BY <1>3, <1>4 DEF HostInv
  <2>2. /\ toPlugin' \in Seq(Frames) /\ Once(toPlugin', Asked) /\ Queued(r)
        /\ ~Queued(r)' /\ \A q \in Requests : Queued(q)' => Queued(q)
    <3>1. toPlugin \in Seq(Frames) /\ Once(toPlugin, Asked) /\ Request(r) \in Asked
      BY <1>2, <2>1 DEF Orderly, Pipelines, Asked
    <3>2. /\ toPlugin' \in Seq(Frames) /\ Once(toPlugin', Asked)
          /\ Holds(toPlugin, Request(r)) /\ ~Holds(toPlugin', Request(r))
          /\ \A f : Holds(toPlugin', f) => Holds(toPlugin, f)
      <4>1. /\ Tail(toPlugin) \in Seq(Frames) /\ Once(Tail(toPlugin), Asked)
            /\ Holds(toPlugin, Head(toPlugin))
            /\ \A f : Holds(Tail(toPlugin), f) => Holds(toPlugin, f)
            /\ Head(toPlugin) \in Asked => ~Holds(Tail(toPlugin), Head(toPlugin))
        BY <1>1, <3>1, Taken
      <4>2. Head(toPlugin) = Request(r) /\ toPlugin' = Tail(toPlugin)
        BY <1>1
      <4>3. QED
        BY <3>1, <4>1, <4>2, Zenon
    <3>3. QED
      BY <3>2 DEF Queued
  <2>3. r \in pending /\ ~Replied(r) /\ ~Working(r) /\ call[r] \notin {"idle", "write"}
    BY <1>2, <2>1, <2>2 DEF Orderly, Expected
  <2>4. /\ fromPlugin' \in Seq(Requests) /\ Once(fromPlugin', Requests)
        /\ \A q \in Requests : Replied(q)' => Replied(q) \/ q = r
    <3>1. fromPlugin \in Seq(Requests) /\ Once(fromPlugin, Requests) /\ ~Holds(fromPlugin, r)
      BY <2>1, <2>3 DEF Orderly, Pipelines, Replied
    <3>2. QED
      BY <1>1, <1>2, <3>1, Sent DEF Replied
  <2>5. Pipelines'
    BY <1>1, <2>1, <2>2, <2>4 DEF Orderly, Pipelines, PluginStep
  <2>6. Up'
    BY <1>1, <2>1 DEF Orderly, Up, PluginStep
  <2>7. Expected'
    BY <1>1, <2>1, <2>2, <2>3, <2>4 DEF Orderly, Expected, Working, PluginStep
  <2>8. QED
    BY <2>5, <2>6, <2>7 DEF Orderly
<1>5. QED
  BY <1>3, <1>4 DEF HostInv

(* A cancellation leaves no trace; a shutdown is not asked for in the calm,   *)
(* so the loop has no reason to leave.                                        *)
LEMMA OtherFramesKeep ==
  ASSUME HostInv, TakesShutdown \/ Leaves \/ \E r \in Requests : TakesCancel(r) PROVE HostInv'
<1>1. UNCHANGED <<failure, faults, closer>>
  BY DEF TakesShutdown, Leaves, Exits, TakesCancel, Served, host
<1>2. faults' \in Nat /\ HealthyKept' /\ (Calm' => Calm)
  BY <1>1 DEF HostInv, HealthyKept, Calm
<1>3. ASSUME Calm' PROVE Orderly'
  <2>1. Orderly
    BY <1>2, <1>3 DEF HostInv
  <2>2. toPlugin \in Seq(Frames) /\ Once(toPlugin, Asked)
    BY <2>1 DEF Orderly, Pipelines
  <2>3. ~TakesShutdown
    <3>1. SUFFICES ASSUME TakesShutdown PROVE FALSE
      OBVIOUS
    <3>2. Queued("shutdown") /\ "shutdown" \in Requests
      BY <2>2, <3>1, Taken DEF TakesShutdown, Receives, Queued, Requests
    <3>3. QED
      BY <2>1, <3>2 DEF Orderly, Expected, Up
  <2>4. ~Leaves
    BY <2>1 DEF Orderly, Up, Leaves, Exits
  <2>5. PICK r \in Requests : TakesCancel(r)
    BY <2>3, <2>4
  <2>6. /\ toPlugin # <<>> /\ toPlugin' = Tail(toPlugin)
        /\ PluginStep /\ UNCHANGED <<process, serving, work, fromPlugin>>
    BY <2>5 DEF TakesCancel, Receives, Served, host, plugin, PluginStep
  <2>7. /\ toPlugin' \in Seq(Frames) /\ Once(toPlugin', Asked)
        /\ \A q \in Requests : Queued(q)' => Queued(q)
    BY <2>2, <2>6, Taken DEF Queued
  <2>8. Pipelines'
    BY <2>1, <2>6, <2>7 DEF Orderly, Pipelines, PluginStep
  <2>9. Up'
    BY <2>1, <2>6 DEF Orderly, Up, PluginStep
  <2>10. Expected'
    BY <2>1, <2>6, <2>7 DEF Orderly, Expected, Working, Replied, PluginStep
  <2>11. QED
    BY <2>8, <2>9, <2>10 DEF Orderly
<1>4. QED
  BY <1>2, <1>3 DEF HostInv

(* A process dies by a fault, or because it was killed.                       *)
LEMMA FaultsKeep ==
  ASSUME HostInv, Dies \/ Misspeaks PROVE HostInv'
<1>1. CASE faults' = faults + 1
  BY <1>1, Faulted
<1>2. CASE killed /\ UNCHANGED <<failure, faults, closer>>
  BY <1>2 DEF HostInv, HealthyKept, Calm, Orderly, Up
<1>3. QED
  BY <1>1, <1>2 DEF Dies, Exits, Misspeaks, host

(* stderrLoop fails the connection of a plugin at fault, or one that is over. *)
LEMMA StderrKeeps ==
  ASSUME HostInv, StderrFails PROVE HostInv'
<1>1. CASE faults' = faults + 1
  BY <1>1, Faulted
<1>2. CASE UNCHANGED faults
  <2>1. process = "exited" /\ Fail("stderr", pending) /\ ~closing
    <3>1. faults \in Nat
      BY DEF HostInv
    <3>2. QED
      BY <1>2, <3>1 DEF StderrFails
  <2>2. ~Calm
    BY <2>1 DEF HostInv, Orderly, Up
  <2>3. faults # 0 \/ failure # "none"
    BY <2>1, <2>2 DEF Calm, closing
  <2>4. QED
    BY <1>2, <2>1, <2>3, Failing
<1>3. QED
  BY <1>1, <1>2 DEF StderrFails

-----------------------------------------------------------------------------
(* waitLoop waits for the reader during Close alone.                          *)
DrainInv == waiter = "drain" => closing

(* Only waitLoop starts the drain, and no step takes Close back.              *)
LEMMA DrainStep ==
  ASSUME DrainInv, [Next]_vars PROVE DrainInv'
<1> USE DEF Loops, CloseStep, Reading, Served, host, Exits
<1>1. closing => closing'
  BY DEF closing, Next, vars, Starts, Started, Executes, Calling, Expiring, GraceEnds, Writes, WriteFails,
         WriteExpires, Answered, Cancels, Notifies, Delivers, ReadFails, StderrFails, WaitReturns, Drained, DrainExpires,
         Rejects, CloseBegins, Closing, AsksShutdown, ShutdownAnswered, ClosesStdin, Terminates,
         ProcessAwaited, ReadersDrained, DrainGivenUp, Closes, Serving, Greets, TakesCall, Responds,
         TakesCancel, TakesShutdown, Leaves, Dies, Misspeaks, Over
<1>2. waiter' = waiter \/ waiter' # "drain" \/ closing
  BY DEF Next, vars, Starts, Started, Executes, Calling, Expiring, GraceEnds, Writes, WriteFails,
         WriteExpires, Answered, Cancels, Notifies, Delivers, ReadFails, StderrFails, WaitReturns, Drained, DrainExpires,
         Rejects, CloseBegins, Closing, AsksShutdown, ShutdownAnswered, ClosesStdin, Terminates,
         ProcessAwaited, ReadersDrained, DrainGivenUp, Closes, Serving, Greets, TakesCall, Responds,
         TakesCancel, TakesShutdown, Leaves, Dies, Misspeaks, Over
<1>3. QED
  BY <1>1, <1>2 DEF DrainInv

(* Close ends the calm, and gives no failure of its own.                      *)
LEMMA CloseKeeps ==
  ASSUME HostInv, DrainInv, CloseBegins \/ Closing \/ Drained \/ DrainExpires PROVE HostInv'
<1>1. UNCHANGED <<failure, faults>>
  BY DEF CloseBegins, Closing, AsksShutdown, ShutdownAnswered, ClosesStdin, Terminates, ProcessAwaited,
         ReadersDrained, DrainGivenUp, Closes, CloseStep, Drained, DrainExpires, Rejects
<1>2. closer' # "open"
  BY DEF CloseBegins, Closing, AsksShutdown, ShutdownAnswered, ClosesStdin, Terminates, ProcessAwaited,
         ReadersDrained, DrainGivenUp, Closes, CloseStep, Drained, DrainExpires, Rejects, DrainInv, closing
<1>3. QED
  BY <1>1, <1>2 DEF HostInv, HealthyKept, Calm

-----------------------------------------------------------------------------
(* Every step of the host and of the plugin.                                  *)
LEMMA HostStep == HostInv /\ DrainInv /\ [Next]_vars => HostInv'
<1> SUFFICES ASSUME HostInv, DrainInv, [Next]_vars PROVE HostInv'
  OBVIOUS
<1>1. CASE Starts \/ Started
  BY <1>1, StartKeeps
<1>2. CASE \E c \in Calls : Executes(c)
  BY <1>2, ExecutesKeeps
<1>3. CASE \E r \in Requests : Calling(r) \/ Expiring(r) \/ GraceEnds(r)
  BY <1>3, CallerKeeps
<1>4. CASE Delivers
  BY <1>4, DeliversKeeps
<1>5. CASE ReadFails \/ WaitReturns \/ StderrFails
  BY <1>5, EndKeeps, StderrKeeps
<1>6. CASE CloseBegins \/ Closing \/ Drained \/ DrainExpires
  BY <1>6, CloseKeeps
<1>7. CASE Serving
  BY <1>7, GreetsKeeps, TakesKeeps, RespondsKeeps, OtherFramesKeep DEF Serving
<1>8. CASE Dies \/ Misspeaks
  BY <1>8, FaultsKeep
<1>9. CASE UNCHANGED vars
  BY <1>9, HostAlone DEF vars, host, plugin, Calm, HostInv, Orderly, Pipelines
<1>10. QED
  BY <1>1, <1>2, <1>3, <1>4, <1>5, <1>6, <1>7, <1>8, <1>9 DEF Next, Over

(* Before Start nothing is in the pipes.                                      *)
LEMMA HostInit == Init => HostInv /\ DrainInv
<1> SUFFICES ASSUME Init PROVE HostInv /\ DrainInv
  OBVIOUS
<1>1. \A x : ~Holds(<<>>, x)
  BY DEF Holds
<1>2. \A X : Once(<<>>, X)
  BY DEF Once
<1>3. Pipelines
  BY <1>2 DEF Init, Pipelines
<1>4. Expected
  BY <1>1 DEF Init, Expected, Queued, Working, Replied
<1>5. Up
  BY DEF Init, Up, Requests
<1>6. QED
  BY <1>3, <1>4, <1>5 DEF Init, HostInv, HealthyKept, Orderly, DrainInv

(* deliver, cancelPending and the SDK's loop: in every interleaving of calls, *)
(* answers, cancellations and timeouts a plugin that serves the protocol is   *)
(* given up for a late frame or a late answer only, that to initialize        *)
(* included.                                                                  *)
THEOREM HealthyPluginKept == Spec => []HealthyKept
<1>1. DrainInv /\ [Next]_vars => DrainInv'
  BY DrainStep
<1>2. HostInv => HealthyKept
  BY DEF HostInv
<1>3. QED
  BY HostInit, <1>1, <1>2, HostStep, PTL DEF Spec
=============================================================================
