--------------------------- MODULE Subscriptions ---------------------------
(***************************************************************************)
(* How clients follow one conversation (runtime/subscriptions.go and the   *)
(* publishing half of manager.go and scheduler.go): View, Subscribe with a *)
(* backlog, live delivery into bounded channels, and reconnection.         *)
(*                                                                         *)
(* A durable entry's cursor is its position in the log.  A publisher       *)
(* commits entries and delivers them under the conversation's mutex,       *)
(* except the scheduler: a claim commits with only the publication lock    *)
(* held, and takes the mutex to deliver.  So the commit and the delivery   *)
(* are two steps, and what is committed and not delivered is state.        *)
(***************************************************************************)
EXTENDS Naturals, FiniteSets, SequencesExt

CONSTANTS
  Clients,
  Spare,          (* room of a channel beyond its backlog (64)             *)
  MaxWaiting,     (* bound: messages waiting at one time                   *)
  MaxLog          (* bound: entries of the log                             *)

ASSUME BoundAssumption ==
  Spare \in Nat \ {0} /\ MaxWaiting \in Nat /\ MaxLog \in Nat

(* A delta or progress event has no cursor.                                *)
Transient == 0

VARIABLES
  log,            (* the log: "public" or "private" (agent) entries        *)
  waiting,        (* accepted messages that are not claimed                *)
  active,         (* the conversation's run: "none", "claimed", "working"  *)
  mutex,          (* c.mu: "free", or the publisher that holds it          *)
  unsent,         (* its committed entries, not delivered                  *)
  claim,          (* those of a claim, with the publication lock held      *)
  closed,         (* "open", "closing" (the flag is set), "closed"         *)
  sub,            (* of each client: its subscriber                        *)
  client,         (* where each client is                                  *)
  snapshot,       (* event cursor of the View it started from              *)
  received        (* cursors it received since, over all its connections   *)

server == <<log, waiting, active, mutex, unsent, claim, closed>>
vars   == <<log, waiting, active, mutex, unsent, claim, closed, sub, client, snapshot, received>>

NoSubscriber == [open |-> FALSE, ch |-> <<>>, last |-> 0, room |-> 0]

(* The cursor a client asks events after.                                  *)
Cursor(i) == IF received[i] = <<>> THEN snapshot[i] ELSE Last(received[i])

PublicationLocked == claim # <<>>
Entering == {i \in Clients : client[i] = "entering"}

Public(n) == log[n] = "public"

(* Store.Events: the public entries after a cursor, by cursor.             *)
PublicAfter(cursor) == {n \in 1..Len(log) : n > cursor /\ Public(n)}
Rank(n, S) == Cardinality({m \in S : m < n})

EventsAfter(cursor) ==
  LET S == PublicAfter(cursor)
  IN [k \in 1..Cardinality(S) |-> CHOOSE n \in S : Rank(n, S) = k - 1]

-----------------------------------------------------------------------------
(* broadcastLocked, for one subscriber and one event: an entry it has is   *)
(* skipped, and a full channel ends the subscription.                      *)
Push(s, e) ==
  IF ~s.open \/ (e # Transient /\ e <= s.last)
  THEN s
  ELSE IF Len(s.ch) < s.room
       THEN [s EXCEPT !.ch = Append(@, e), !.last = IF e = Transient THEN @ ELSE e]
       ELSE [s EXCEPT !.open = FALSE]

(* A commit has one event or two.                                          *)
PushAll(s, events) ==
  IF Len(events) = 1 THEN Push(s, events[1]) ELSE Push(Push(s, events[1]), events[2])

Broadcast(events) == sub' = [i \in Clients |-> PushAll(sub[i], events)]

Commit(n) ==
  /\ Len(log) + n <= MaxLog
  /\ log' = log \o [i \in 1..n |-> "public"]

Fresh(n) == [i \in 1..n |-> Len(log) + i]

Init ==
  /\ log = <<>> /\ waiting = 0 /\ active = "none"
  /\ mutex = "free" /\ unsent = <<>> /\ claim = <<>>
  /\ closed = "open"
  /\ sub = [i \in Clients |-> NoSubscriber]
  /\ client = [i \in Clients |-> "new"]
  /\ snapshot = [i \in Clients |-> 0]
  /\ received = [i \in Clients |-> <<>>]

-----------------------------------------------------------------------------
(* The publishers.                                                         *)
clients == <<client, snapshot, received>>

(* SubmitInput reads under the publication lock.                           *)
(* Mutant: it does not.                                                    *)
MayAcceptAlways == mutex = "free" /\ closed = "open"

MayAccept == mutex = "free" /\ closed = "open" /\ ~PublicationLocked

Accept ==
  /\ MayAccept
  /\ waiting < MaxWaiting
  /\ Commit(1)
  /\ waiting' = waiting + 1
  /\ mutex' = "submit" /\ unsent' = Fresh(1)
  /\ UNCHANGED <<active, claim, closed, sub, clients>>

(* ClaimRunnable commits input.admitted and run.started.  The publication  *)
(* lock waits for the submissions and subscriptions under way.             *)
Claim ==
  /\ ~PublicationLocked /\ mutex # "submit" /\ Entering = {}
  /\ waiting > 0 /\ active = "none"
  /\ closed = "open"
  /\ Commit(2)
  /\ waiting' = waiting - 1
  /\ active' = "claimed"
  /\ claim' = Fresh(2)
  /\ UNCHANGED <<mutex, unsent, closed, sub, clients>>

PublishClaim ==
  /\ PublicationLocked
  /\ mutex = "free"
  /\ Broadcast(claim)
  /\ claim' = <<>>
  /\ active' = "working"
  /\ UNCHANGED <<log, waiting, mutex, unsent, closed, clients>>

(* emitRunEvent: a turn, an outcome or a progress entry.                   *)
RunEntry ==
  /\ active = "working" /\ mutex = "free"
  /\ Commit(1)
  /\ mutex' = "run" /\ unsent' = Fresh(1)
  /\ UNCHANGED <<waiting, active, claim, closed, sub, clients>>

(* AppendAgentEvent commits an entry that no client is sent.               *)
PrivateEntry ==
  /\ active = "working" /\ mutex = "free"
  /\ Len(log) < MaxLog
  /\ log' = Append(log, "private")
  /\ UNCHANGED <<waiting, active, mutex, unsent, claim, closed, sub, clients>>

(* assistant.delta and tool.progress are not stored.                       *)
Delta ==
  /\ active = "working" /\ mutex = "free"
  /\ Broadcast(<<Transient>>)
  /\ UNCHANGED <<server, clients>>

(* The end of the run: one entry, or an answer (an interruption) and one.  *)
RunEnd ==
  /\ active = "working" /\ mutex = "free"
  /\ \E n \in {1, 2} : Commit(n) /\ unsent' = Fresh(n)
  /\ active' = "none"
  /\ mutex' = "run"
  /\ UNCHANGED <<waiting, claim, closed, sub, clients>>

Deliver ==
  /\ mutex # "free"
  /\ Broadcast(unsent)
  /\ mutex' = "free" /\ unsent' = <<>>
  /\ UNCHANGED <<log, waiting, active, claim, closed, clients>>

(* Close sets the flag, and then closes the channels it finds.             *)
CloseBegins ==
  /\ closed = "open"
  /\ closed' = "closing"
  /\ UNCHANGED <<log, waiting, active, mutex, unsent, claim, sub, clients>>

CloseSubscribers ==
  /\ closed = "closing" /\ mutex = "free"
  /\ closed' = "closed"
  /\ sub' = [i \in Clients |-> [sub[i] EXCEPT !.open = FALSE]]
  /\ UNCHANGED <<log, waiting, active, mutex, unsent, claim, clients>>

-----------------------------------------------------------------------------
(* The clients: a View, then Subscribe from its cursor, again and again.   *)
View(i) ==
  /\ client[i] = "new"
  /\ ~PublicationLocked /\ mutex = "free" /\ closed = "open"
  /\ snapshot' = [snapshot EXCEPT ![i] = Len(log)]
  /\ client' = [client EXCEPT ![i] = "away"]
  /\ UNCHANGED <<server, sub, received>>

(* Subscribe takes the publication lock for reading and checks the flag;   *)
(* then, under the mutex, it loads the backlog and registers.              *)
Subscribe(i) ==
  /\ client[i] = "away"
  /\ ~PublicationLocked /\ closed = "open"
  /\ client' = [client EXCEPT ![i] = "entering"]
  /\ UNCHANGED <<server, sub, snapshot, received>>

(* Mutant: a client that comes back gets what is live only.                *)
LiveOnly(i) == IF received[i] = <<>> THEN EventsAfter(Cursor(i)) ELSE <<>>

Backlog(i) == EventsAfter(Cursor(i))

Register(i) ==
  /\ client[i] = "entering" /\ mutex = "free"
  /\ sub' = [sub EXCEPT ![i] =
       [open |-> TRUE, ch |-> Backlog(i), room |-> Len(Backlog(i)) + Spare,
        last |-> IF Backlog(i) = <<>> THEN Cursor(i) ELSE Last(Backlog(i))]]
  /\ client' = [client EXCEPT ![i] = "connected"]
  /\ UNCHANGED <<server, snapshot, received>>

(* The client reads one event; a closed channel is read to its end.        *)
Receive(i) ==
  /\ client[i] = "connected" /\ sub[i].ch # <<>>
  /\ received' = [received EXCEPT ![i] =
       IF Head(sub[i].ch) = Transient THEN @ ELSE Append(@, Head(sub[i].ch))]
  /\ sub' = [sub EXCEPT ![i].ch = Tail(@)]
  /\ UNCHANGED <<server, client, snapshot>>

(* The connection ends: by the client or the network, with events lost, or *)
(* at the end of a closed channel.                                         *)
Leave(i) ==
  /\ client[i] = "connected" /\ mutex = "free"
  /\ sub' = [sub EXCEPT ![i] = NoSubscriber]
  /\ client' = [client EXCEPT ![i] = "away"]
  /\ UNCHANGED <<server, snapshot, received>>

EndOfStream(i) == ~sub[i].open /\ sub[i].ch = <<>> /\ Leave(i)

(* Nothing is left to happen once the Manager is closed.                   *)
Quiet == closed = "closed" /\ UNCHANGED vars

Publishing ==
  \/ Accept \/ Claim \/ PublishClaim \/ RunEntry \/ PrivateEntry \/ Delta \/ RunEnd \/ Deliver
  \/ CloseBegins \/ CloseSubscribers

Following(i) == View(i) \/ Subscribe(i) \/ Register(i) \/ Receive(i) \/ Leave(i)

Next == Publishing \/ (\E i \in Clients : Following(i)) \/ Quiet

Spec == Init /\ [][Next]_vars

(***************************************************************************)
(* Goroutines that hold a lock go on, and a client that follows the        *)
(* conversation reads what it is sent and reconnects when its stream ends. *)
(* It may lose its connection any number of times.                         *)
(***************************************************************************)
FollowSpec ==
  /\ Spec
  /\ WF_vars(PublishClaim) /\ WF_vars(Deliver)
  /\ \A i \in Clients :
       /\ SF_vars(Subscribe(i)) /\ SF_vars(Register(i)) /\ SF_vars(Receive(i)) /\ SF_vars(EndOfStream(i))

-----------------------------------------------------------------------------
TypeOK ==
  /\ log \in Seq({"public", "private"}) /\ Len(log) <= MaxLog
  /\ waiting \in 0..MaxWaiting /\ active \in {"none", "claimed", "working"}
  /\ mutex \in {"free", "submit", "run"} /\ closed \in {"open", "closing", "closed"}
  /\ unsent \in Seq(1..MaxLog) /\ claim \in Seq(1..MaxLog)
  /\ sub \in [Clients -> [open : BOOLEAN, ch : Seq(0..MaxLog), last : 0..MaxLog, room : Nat]]
  /\ \A i \in Clients : Len(sub[i].ch) <= sub[i].room
  /\ client \in [Clients -> {"new", "away", "entering", "connected"}]
  /\ snapshot \in [Clients -> 0..MaxLog]
  /\ received \in [Clients -> Seq(1..MaxLog)]

Increasing(s) == \A a, b \in DOMAIN s : a < b => s[a] < s[b]

(* What a client has is, over any number of connections, exactly the       *)
(* public part of the log from its snapshot up to its cursor: no entry is  *)
(* missing, repeated, out of order or private.                             *)
ReceivedExactly ==
  \A i \in Clients :
    /\ Increasing(received[i])
    /\ Range(received[i]) = {n \in 1..Len(log) : snapshot[i] < n /\ n <= Cursor(i) /\ Public(n)}

(* What an open subscription still has to bring is in its channel or in    *)
(* the hands of a publisher: a subscriber that is not closed has lost      *)
(* nothing.                                                                *)
OpenMissesNothing ==
  \A i \in Clients : sub[i].open =>
    \A n \in 1..Len(log) : Public(n) /\ n > Cursor(i) =>
      n \in Range(sub[i].ch) \cup Range(unsent) \cup Range(claim)

(* Delivery loses nothing, repeats nothing and shows nothing private.      *)
DeliveryInv == TypeOK /\ ReceivedExactly /\ OpenMissesNothing

(* Every entry a following client has not seen reaches it, unless the      *)
(* Manager closes.                                                         *)
EventsArrive ==
  \A i \in Clients, n \in 1..MaxLog :
    (n <= Len(log) /\ Public(n) /\ client[i] # "new" /\ n > snapshot[i])
      ~> (n \in Range(received[i]) \/ closed # "open")
=============================================================================
