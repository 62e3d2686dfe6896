----------------------------- MODULE ClientSend -----------------------------
(***************************************************************************)
(* The command line client (runClient, httptransport.Client.Send) against  *)
(* the runtime: a command creates a conversation or takes a View of one,   *)
(* opens the event stream at the View's cursor, submits its text under a   *)
(* key, and waits on the stream for the outcome of its own message; then   *)
(* it sends its next text.  A command may lose any answer or its stream,   *)
(* and be repeated with the same key.                                      *)
(*                                                                         *)
(* A stream is the log read in order from a cursor (module Subscriptions), *)
(* until it is cut.  What a cut stream still holds is read before the cut: *)
(* nothing else of a command depends on when it reads.                     *)
(***************************************************************************)
EXTENDS Placement, Naturals, Sequences, FiniteSets

CONSTANTS
  Clients,            (* commands                                          *)
  Keys,               (* idempotency keys                                  *)
  KeyOf,              (* of each command: --idempotency-key                *)
  MaxTexts,           (* bound: texts of a command                         *)
  MaxAccepted         (* bound: accepted messages                          *)

ASSUME ClientAssumption ==
  KeyOf \in [Clients -> Keys] /\ MaxTexts \in Nat \ {0} /\ MaxAccepted \in Nat

VARIABLES
  log,            (* of each conversation: its durable entries             *)
  at,             (* where each command is                                 *)
  conv,           (* conversationID                                        *)
  sent,           (* sendCount                                             *)
  seen,           (* the View's EventCursor: the snapshot is the log up to *)
  cursor,         (* entries of the log the stream has given               *)
  stream          (* "none", "open" or "cut"                               *)

commands == <<at, conv, sent, seen, cursor, stream>>
vars     == <<placement, log, commands>>

Outcomes  == {"answered", "failed", "stopped"}
Message   == [key : Keys, text : 1..MaxTexts]
Entry     == [type : {"accepted", "started"} \cup Outcomes, msg : Message]

(* Its next message: the key, then the key with a number.                  *)
Msg(i) == [key |-> KeyOf[i], text |-> sent[i] + 1]

Logged(c, type, m) == \E n \in DOMAIN log[c] : log[c][n] = [type |-> type, msg |-> m]

Record(c, type, m) == log' = [log EXCEPT ![c] = Append(@, [type |-> type, msg |-> m])]

Init ==
  /\ PlacementInit
  /\ log = [c \in Ids |-> <<>>]
  /\ at = [i \in Clients |-> "ready"]
  /\ conv = [i \in Clients |-> None]
  /\ sent = [i \in Clients |-> 0]
  /\ seen = [i \in Clients |-> 0]
  /\ cursor = [i \in Clients |-> 0]
  /\ stream = [i \in Clients |-> "none"]

-----------------------------------------------------------------------------
(* The runs of the server.                                                 *)
Waiting(c, m) == Logged(c, "accepted", m) /\ ~Logged(c, "started", m)

(* The message of a conversation that was accepted first.                  *)
Oldest(c, m) ==
  \E n \in DOMAIN log[c] :
    /\ log[c][n] = [type |-> "accepted", msg |-> m]
    /\ \A k \in 1..(n - 1) : log[c][k].type = "accepted" => Logged(c, "started", log[c][k].msg)

Claim(c, m) ==
  /\ ClaimRun(c)
  /\ Waiting(c, m) /\ Oldest(c, m)
  /\ Record(c, "started", m)
  /\ UNCHANGED commands

Open(c, m) == Logged(c, "started", m) /\ \A outcome \in Outcomes : ~Logged(c, outcome, m)

(* FinishRun needs an answer of the runner; FailRun and StopRun do not.    *)
End(c, m, outcome) ==
  /\ EndRun(c)
  /\ Open(c, m)
  /\ outcome = "answered" => run[c] = "working"
  /\ Record(c, outcome, m)
  /\ UNCHANGED commands

(* Every stream ends with the process.                                     *)
Die ==
  /\ Crash
  /\ stream' = [i \in Clients |-> IF stream[i] = "open" THEN "cut" ELSE stream[i]]
  /\ UNCHANGED <<log, at, conv, sent, seen, cursor>>

(* Recovery fails the runs that were executing, before anything is served. *)
Recovered(c) == {m \in Message : Open(c, m)}

Recover ==
  /\ Restart
  /\ log' = [c \in Ids |-> IF Recovered(c) = {} THEN log[c]
                           ELSE Append(log[c], [type |-> "failed", msg |-> CHOOSE m \in Recovered(c) : TRUE])]
  /\ UNCHANGED commands

-----------------------------------------------------------------------------
(* A command.                                                              *)
Create(i, c, sel) ==
  /\ at[i] = "ready" /\ sent[i] = 0
  /\ CreateConversation(c, sel)
  /\ at' = [at EXCEPT ![i] = "viewed"]
  /\ conv' = [conv EXCEPT ![i] = c]
  /\ seen' = [seen EXCEPT ![i] = 0]
  /\ UNCHANGED <<log, sent, cursor, stream>>

(* The conversation is named by the first text, and kept for the others.   *)
View(i, c) ==
  /\ at[i] = "ready" /\ (sent[i] = 0 \/ conv[i] = c)
  /\ serving /\ c \in Created
  /\ at' = [at EXCEPT ![i] = "viewed"]
  /\ conv' = [conv EXCEPT ![i] = c]
  /\ seen' = [seen EXCEPT ![i] = Len(log[c])]
  /\ UNCHANGED <<placement, log, sent, cursor, stream>>

(* Mutant: the stream starts where the log ends.                           *)
OpenAtEnd(i) ==
  /\ at[i] = "viewed" /\ serving
  /\ at' = [at EXCEPT ![i] = "open"]
  /\ cursor' = [cursor EXCEPT ![i] = Len(log[conv[i]])]
  /\ stream' = [stream EXCEPT ![i] = "open"]
  /\ UNCHANGED <<placement, log, conv, sent, seen>>

OpenEvents(i) ==
  /\ at[i] = "viewed" /\ serving
  /\ at' = [at EXCEPT ![i] = "open"]
  /\ cursor' = [cursor EXCEPT ![i] = seen[i]]
  /\ stream' = [stream EXCEPT ![i] = "open"]
  /\ UNCHANGED <<placement, log, conv, sent, seen>>

AcceptedMessages == {p \in Created \X Message : Logged(p[1], "accepted", p[2])}

Submit(i) ==
  /\ at[i] = "open" /\ serving
  /\ Cardinality(AcceptedMessages) < MaxAccepted
  /\ ~Logged(conv[i], "accepted", Msg(i))
  /\ Record(conv[i], "accepted", Msg(i))
  /\ at' = [at EXCEPT ![i] = "waiting"]
  /\ UNCHANGED <<placement, conv, sent, seen, cursor, stream>>

(* Another client, or the same command given a second time, sends a first  *)
(* text.                                                                   *)
SubmitElsewhere(c, k) ==
  LET m == [key |-> k, text |-> 1]
  IN
  /\ serving /\ c \in Created
  /\ Cardinality(AcceptedMessages) < MaxAccepted
  /\ ~Logged(c, "accepted", m)
  /\ Record(c, "accepted", m)
  /\ UNCHANGED <<placement, commands>>

(* The key was accepted before: what the snapshot says of it, if it ended. *)
(* Mutant: only an answer is looked for.                                   *)
AnswerInSnapshot(i) ==
  {outcome \in {"answered"} : \E n \in 1..seen[i] : log[conv[i]][n] = [type |-> outcome, msg |-> Msg(i)]}

InSnapshot(i) ==
  {outcome \in Outcomes : \E n \in 1..seen[i] : log[conv[i]][n] = [type |-> outcome, msg |-> Msg(i)]}

(* Send returns, and closes its stream.                                    *)
Ended(i, outcome) ==
  /\ at' = [at EXCEPT ![i] = outcome]
  /\ seen' = [seen EXCEPT ![i] = 0]
  /\ cursor' = [cursor EXCEPT ![i] = 0]
  /\ stream' = [stream EXCEPT ![i] = "none"]

SubmitAgain(i) ==
  /\ at[i] = "open" /\ serving
  /\ Logged(conv[i], "accepted", Msg(i))
  /\ \/ /\ InSnapshot(i) = {}
        /\ at' = [at EXCEPT ![i] = "waiting"]
        /\ UNCHANGED <<seen, cursor, stream>>
     \/ \E outcome \in InSnapshot(i) : Ended(i, outcome)
  /\ UNCHANGED <<placement, log, conv, sent>>

(* One event.  Only the outcome of its own message ends the Send.          *)
NextEntry(i) == log[conv[i]][cursor[i] + 1]

OwnEnd(i) == NextEntry(i).type \in Outcomes /\ NextEntry(i).msg = Msg(i)

Read(i) ==
  /\ at[i] = "waiting" /\ stream[i] = "open"
  /\ cursor[i] < Len(log[conv[i]])
  /\ IF OwnEnd(i) THEN Ended(i, NextEntry(i).type)
     ELSE cursor' = [cursor EXCEPT ![i] = @ + 1] /\ UNCHANGED <<at, seen, stream>>
  /\ UNCHANGED <<placement, log, conv, sent>>

(* The command ends.                                                       *)
Over(i) ==
  /\ Ended(i, "ready")
  /\ conv' = [conv EXCEPT ![i] = None]
  /\ sent' = [sent EXCEPT ![i] = 0]

(* A call failed, unanswered or refused, or the stream ended: runClient    *)
(* returns, and the command may be given again.                            *)
Lost(i) ==
  /\ at[i] \in {"viewed", "open", "waiting"} \/ (at[i] = "ready" /\ sent[i] > 0)
  /\ Over(i)
  /\ UNCHANGED <<placement, log>>

(* The answer is shown, and the next text is sent.                         *)
GoOn(i) ==
  /\ at[i] = "answered" /\ sent[i] + 1 < MaxTexts
  /\ at' = [at EXCEPT ![i] = "ready"]
  /\ sent' = [sent EXCEPT ![i] = @ + 1]
  /\ UNCHANGED <<placement, log, conv, seen, cursor, stream>>

Return(i) ==
  /\ at[i] \in Outcomes
  /\ Over(i)
  /\ UNCHANGED <<placement, log>>

-----------------------------------------------------------------------------
ServerStep(c) ==
  \E m \in Message : Claim(c, m) \/ \E outcome \in Outcomes : End(c, m, outcome)

Command(i) ==
  \/ \E c \in Ids : (\E sel \in Selection : Create(i, c, sel)) \/ View(i, c)
  \/ OpenEvents(i) \/ Submit(i) \/ SubmitAgain(i) \/ Read(i) \/ Lost(i) \/ GoOn(i) \/ Return(i)

Next ==
  \/ \E c \in Ids : ServerStep(c)
  \/ \E c \in Ids, k \in Keys : SubmitElsewhere(c, k)
  \/ Die \/ Recover
  \/ \E i \in Clients : Command(i)

Spec == Init /\ [][Next]_vars

(* The server runs what it accepted and records the endings; a client      *)
(* reads its stream, and notices its end.                                  *)
SendSpec ==
  /\ Spec
  /\ \A c \in Ids : WF_vars(ServerStep(c))
  /\ \A i \in Clients : WF_vars(Read(i) \/ (stream[i] = "cut" /\ Lost(i)))

-----------------------------------------------------------------------------
TypeOK ==
  /\ PlacementTypeOK
  /\ log \in [Ids -> Seq(Entry)]
  /\ at \in [Clients -> {"ready", "viewed", "open", "waiting"} \cup Outcomes]
  /\ conv \in [Clients -> Ids \cup {None}]
  /\ sent \in [Clients -> 0..(MaxTexts - 1)]
  /\ seen \in [Clients -> Nat] /\ cursor \in [Clients -> Nat]
  /\ stream \in [Clients -> {"none", "open", "cut"}]

(* A Send that waits has not passed what it waits for: its message is      *)
(* accepted, and an outcome of it that is in the log is still to be read,  *)
(* wherever the message was accepted, by whichever command.                *)
OutcomeAhead ==
  \A i \in Clients : at[i] = "waiting" =>
    /\ Logged(conv[i], "accepted", Msg(i))
    /\ \A n \in DOMAIN log[conv[i]] :
         log[conv[i]][n].type \in Outcomes /\ log[conv[i]][n].msg = Msg(i) => n > cursor[i]

(* What a Send returned is the outcome of its own message.                 *)
ReturnsTrue ==
  \A i \in Clients : at[i] \in Outcomes => Logged(conv[i], at[i], Msg(i))

Previous(m) == [key |-> m.key, text |-> m.text - 1]

(* The texts of a key enter a conversation one by one, each after the      *)
(* answer to the one before, however often the command was repeated.       *)
TextsInTurn ==
  \A c \in Ids : \A n \in DOMAIN log[c] :
    log[c][n].type = "accepted" /\ log[c][n].msg.text > 1 =>
      \E p \in 1..(n - 1) : log[c][p] = [type |-> "answered", msg |-> Previous(log[c][n].msg)]

(* What a user of the command line client can rely on, at every step.      *)
SendInv == TypeOK /\ OutcomeAhead /\ ReturnsTrue /\ TextsInTurn

(* Every Send ends: with the outcome of its message, or with an error.     *)
SendsEnd == \A i \in Clients : (at[i] = "waiting") ~> (at[i] # "waiting")
=============================================================================
