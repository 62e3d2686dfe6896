---------------------------- MODULE ModelContext ----------------------------
(***************************************************************************)
(* What the model is shown: the transcript the brain keeps in memory while *)
(* a run executes (plugins/brain/llm/llm.go), the entries that record it   *)
(* (cmd/pons/runtime_mode.go), and the context the store rebuilds from     *)
(* those entries for the next run (loadContextAfterTx of                   *)
(* runtime/sqlite/store.go).  One conversation, whose messages run one     *)
(* after the other; every run has its own brain, seeded with the rebuilt   *)
(* context.                                                                *)
(*                                                                         *)
(* A turn is a role and its content.  A block of content is its kind and   *)
(* what it is of: <<m, 0>> for message m, <<n, i>> for block i of the      *)
(* model's n-th reply.  Texts, arguments and outputs are not spelled out.  *)
(***************************************************************************)
EXTENDS Naturals, FiniteSets, SequencesExt

CONSTANTS
  Messages,     (* bound: messages of the conversation                     *)
  MaxReplies,   (* bound: model replies of all its runs                    *)
  MaxTurns,     (* agent.MaxTurns                                          *)
  CompactKeep,  (* Config.CompactKeep: turns a compaction retains          *)
  Shapes        (* kinds of the blocks of a model reply, in order          *)

ASSUME ContextAssumption ==
  /\ Messages \in Nat /\ MaxReplies \in Nat
  /\ MaxTurns \in Nat \ {0} /\ CompactKeep \in Nat \ {0}
  /\ Shapes \subseteq Seq({"text", "blank", "call", "item"})

VARIABLES
  log,        (* the conversation's entries that loadContextAfterTx reads  *)
  message,    (* the message whose run executes, 0 when none does          *)
  phase,      (* where that run is                                         *)
  turn,       (* Core.Run: turn                                            *)
  turns,      (* Brain.turns                                               *)
  pending,    (* Brain.pending: results not yet folded into turns          *)
  requested,  (* committed calls of this turn without an outcome           *)
  continued   (* whether a hook kept this run going after an answer        *)

vars == <<log, message, phase, turn, turns, pending, requested, continued>>

-----------------------------------------------------------------------------
Block(kind, n, i)   == [kind |-> kind, of |-> <<n, i>>]
Turn(role, content) == [role |-> role, content |-> content]
Reply(n, shape)     == [i \in DOMAIN shape |-> Block(shape[i], n, i)]

Kinds == {"text", "blank", "call", "item", "rewritten", "result", "interrupted",
          "memory", "prompt", "hint", "summary"}
CallKinds   == {"call", "rewritten"}
ResultKinds == {"result", "interrupted"}

(* The blocks of some kinds, in order.                                     *)
Keep(kept, b, kinds) == IF b.kind \in kinds THEN Append(kept, b) ELSE kept
OfKind(content, kinds) ==
  LET kept[i \in 0..Len(content)] ==
        IF i = 0 THEN <<>> ELSE Keep(kept[i - 1], content[i], kinds)
  IN kept[Len(content)]

Without(content, kind) == OfKind(content, Kinds \ {kind})
CallsOf(content)   == OfKind(content, CallKinds)
ResultsOf(content) == OfKind(content, ResultKinds)

(* A message's text as accepted, and as Seed gives it to the model.        *)
InputTurn(m)       == Turn("user", <<Block("text", m, 0)>>)
PreparedTurn(m, first) ==
  Turn("user", (IF first THEN <<Block("memory", m, 0)>> ELSE <<>>) \o <<Block("prompt", m, 0)>>)

(* The visible parts of a reply that calls tools, as the start hooks leave *)
(* them: an empty text is no part.                                         *)
PartsOf(content, rewritten) ==
  LET parts == OfKind(content, {"text", "call"})
  IN [i \in DOMAIN parts |->
        IF rewritten /\ parts[i].kind = "call" THEN [parts[i] EXCEPT !.kind = "rewritten"] ELSE parts[i]]

(* ReconcileAssistantResponse: opaque items keep their places, the parts   *)
(* take the places of the other blocks in order.                           *)
Place(acc, b) ==
  IF b.kind = "item" THEN [acc EXCEPT !.placed = Append(@, b)]
  ELSE IF acc.left = <<>> THEN acc
  ELSE [placed |-> Append(acc.placed, Head(acc.left)), left |-> Tail(acc.left)]

AllPlaced(original, parts) ==
  LET after[i \in 0..Len(original)] ==
        IF i = 0 THEN [placed |-> <<>>, left |-> parts] ELSE Place(after[i - 1], original[i])
  IN after[Len(original)]

Reconciled(original, parts) ==
  LET all == AllPlaced(original, parts) IN all.placed \o all.left

(* committedContentWithProviderItems: the same, empty texts being no place.*)
CommittedContent(committed, model) ==
  Reconciled(Without(model, "blank"), committed)

-----------------------------------------------------------------------------
(* The entries.  A run is named by its message.                            *)
Accepted(m)         == [type |-> "input.accepted", m |-> m]
Admitted(m)         == [type |-> "input.admitted", m |-> m]
Prepared(m, input)  == [type |-> "input.prepared", m |-> m, input |-> input]
Completed(m, reply) == [type |-> "model.completed", m |-> m, content |-> reply]
Committed(m, parts) == [type |-> "assistant.output.committed", m |-> m, content |-> parts]
Outcome(m, result)  == [type |-> "tool.outcome.recorded", m |-> m, content |-> <<result>>]
Compacted(context)  == [type |-> "context.compacted", context |-> context]

Count(type) == Cardinality({i \in DOMAIN log : log[i].type = type})

(***************************************************************************)
(* loadContextAfterTx, entry by entry.  Entries at or before the cursor of *)
(* the last compaction only tell which messages were admitted.             *)
(***************************************************************************)
NoContext == [ok |-> TRUE, accepted |-> {}, admitted |-> {}, tail |-> <<>>,
              index |-> [m \in 1..Messages |-> 0], models |-> [m \in 1..Messages |-> <<>>]]

(* Mutant: an admission before the cursor is skipped like its turn.        *)
LoadAdmittedAfter(acc, e, later) ==
  IF ~later THEN acc
  ELSE [acc EXCEPT !.ok = @ /\ e.m \in acc.accepted /\ e.m \notin acc.admitted,
                   !.admitted = @ \cup {e.m},
                   !.tail = Append(@, InputTurn(e.m)),
                   !.index[e.m] = Len(acc.tail) + 1]

LoadAdmitted(acc, e, later) ==
  LET known == [acc EXCEPT !.ok = @ /\ e.m \in acc.accepted /\ e.m \notin acc.admitted,
                           !.admitted = @ \cup {e.m}]
  IN IF ~later THEN known
     ELSE [known EXCEPT !.tail = Append(@, InputTurn(e.m)),
                        !.index[e.m] = Len(acc.tail) + 1]

LoadPrepared(acc, e) ==
  IF acc.index[e.m] = 0 THEN [acc EXCEPT !.ok = FALSE]
  ELSE [acc EXCEPT !.tail[acc.index[e.m]] = e.input]

(* The committed message takes the run's oldest reply without a message.   *)
LoadCommitted(acc, e) ==
  IF acc.models[e.m] = <<>>
    THEN [acc EXCEPT !.tail = Append(@, Turn("assistant", e.content))]
    ELSE [acc EXCEPT
            !.tail = Append(@, Turn("assistant", CommittedContent(e.content, Head(acc.models[e.m])))),
            !.models[e.m] = Tail(@)]

(* Results that follow results join their turn.                            *)
LoadOutcome(acc, e) ==
  IF acc.tail # <<>> /\ Last(acc.tail).content[1].kind \in ResultKinds
    THEN [acc EXCEPT !.tail[Len(acc.tail)].content = @ \o e.content]
    ELSE [acc EXCEPT !.tail = Append(@, Turn("user", e.content))]

LoadEvent(acc, e, later) ==
  CASE e.type = "input.accepted" -> [acc EXCEPT !.accepted = @ \cup {e.m}]
    [] e.type = "input.admitted" -> LoadAdmitted(acc, e, later)
    [] e.type = "input.prepared" -> IF later THEN LoadPrepared(acc, e) ELSE acc
    [] e.type = "model.completed" ->
         IF later THEN [acc EXCEPT !.models[e.m] = Append(@, e.content)] ELSE acc
    [] e.type = "assistant.output.committed" ->
         IF later /\ e.m \in acc.admitted THEN LoadCommitted(acc, e) ELSE acc
    [] e.type = "tool.outcome.recorded" ->
         IF later /\ e.m \in acc.admitted THEN LoadOutcome(acc, e) ELSE acc
    [] OTHER -> acc

LoadAfter(entries, cursor) ==
  LET after[i \in 0..Len(entries)] ==
        IF i = 0 THEN NoContext ELSE LoadEvent(after[i - 1], entries[i], i > cursor)
  IN after[Len(entries)]

(* loadLatestCompactionTx                                                  *)
CompactionCursor(entries) ==
  LET cursors == {i \in DOMAIN entries : entries[i].type = "context.compacted"}
  IN IF cursors = {} THEN 0 ELSE CHOOSE i \in cursors : \A j \in cursors : j <= i

(* The context of a claim: the last compaction's, and what came after it.  *)
CompactedBefore(entries) ==
  LET cursor == CompactionCursor(entries)
  IN IF cursor = 0 THEN <<>> ELSE entries[cursor].context

Loaded(entries) == LoadAfter(entries, CompactionCursor(entries))
Context(entries) == CompactedBefore(entries) \o Loaded(entries).tail
LoadedContext == Context(log)

-----------------------------------------------------------------------------
Record(entries) == log' = log \o entries

NoRun ==
  /\ message' = 0 /\ phase' = "idle" /\ turn' = 0
  /\ turns' = <<>> /\ pending' = <<>> /\ requested' = <<>> /\ continued' = FALSE

Init ==
  /\ log = <<>>
  /\ message = 0 /\ phase = "idle" /\ turn = 0
  /\ turns = <<>> /\ pending = <<>> /\ requested = <<>> /\ continued = FALSE

Accept ==
  /\ Count("input.accepted") < Messages
  /\ Record(<<Accepted(Count("input.accepted") + 1)>>)
  /\ UNCHANGED <<message, phase, turn, turns, pending, requested, continued>>

(* ClaimNext: the context is read before the admission is written, and a   *)
(* context that cannot be read fails the claim.                            *)
Claim ==
  /\ message = 0 /\ Count("input.admitted") < Count("input.accepted")
  /\ Loaded(log).ok
  /\ message' = Count("input.admitted") + 1
  /\ turns' = LoadedContext
  /\ Record(<<Admitted(Count("input.admitted") + 1)>>)
  /\ phase' = "claimed"
  /\ UNCHANGED <<turn, pending, requested, continued>>

(* A return of agentRunner.Run before the input is prepared: an agent, a   *)
(* workspace or a provider that is not there, an environment that does not *)
(* start.  The message stays in the history as it was accepted.            *)
StartFails == phase = "claimed" /\ NoRun /\ UNCHANGED log

(* Seed, once the environment has started, and the durable record of the   *)
(* exact user turn it added.                                               *)
Prepare ==
  LET input == PreparedTurn(message, turns = <<>>)
  IN /\ phase = "claimed"
     /\ turns' = Append(turns, input)
     /\ Record(<<Prepared(message, input)>>)
     /\ turn' = 1 /\ phase' = "turn"
     /\ UNCHANGED <<message, pending, requested, continued>>

(* Context a hook gives the next observation: part of the last user turn,  *)
(* or a turn of its own.                                                   *)
WithHint(ts, n) ==
  IF Last(ts).role = "user"
    THEN [ts EXCEPT ![Len(ts)].content = Append(@, Block("hint", message, n))]
    ELSE Append(ts, Turn("user", <<Block("hint", message, n)>>))

(* Respond up to the request: the queued results become a user turn.       *)
OpenTurn ==
  LET folded == IF pending = <<>> THEN turns ELSE Append(turns, Turn("user", pending))
  IN /\ phase = "turn"
     /\ turns' \in {folded, WithHint(folded, turn)}
     /\ pending' = <<>> /\ phase' = "ask"
     /\ UNCHANGED <<log, message, turn, requested, continued>>

(* Mutant: the nominal boundary, wherever it lands.                        *)
NominalBoundary == Len(turns) - CompactKeep + 1

(* compact: the first of the turns retained.  A result turn is not kept    *)
(* without the turn that called.                                           *)
Boundary ==
  LET start == Len(turns) - CompactKeep + 1
  IN IF start > 2 /\ ResultsOf(turns[start].content) # <<>> THEN start - 1 ELSE start

WithoutMemory(t) == [t EXCEPT !.content = Without(@, "memory")]

(* The first turn, a summary of the middle with the memory as it is now,   *)
(* and the turns retained.                                                 *)
CompactedContext ==
  <<WithoutMemory(Head(turns)),
    Turn("user", <<Block("summary", message, turn), Block("memory", message, turn)>>)>>
  \o SubSeq(turns, Boundary, Len(turns))

(* compact, when the context exceeds its budget and the summary request    *)
(* succeeds; recorded before the brain goes on with it.                    *)
Compact ==
  /\ phase = "ask"
  /\ Len(turns) > CompactKeep + 1 /\ Boundary > 2
  /\ turns' = CompactedContext
  /\ Record(<<Compacted(CompactedContext)>>)
  /\ phase' = "send"
  /\ UNCHANGED <<message, turn, pending, requested, continued>>

HasKind(content, kind) == \E i \in DOMAIN content : content[i].kind = kind

(* Respond: the model's reply is recorded, then becomes a turn.  Without   *)
(* calls its text is the answer; a reply with neither fails the run.       *)
Complete(shape) ==
  LET n == Count("model.completed") + 1
      reply == Reply(n, shape)
  IN /\ phase \in {"ask", "send"} /\ n <= MaxReplies
     /\ Record(<<Completed(message, reply)>>)
     /\ turns' = Append(turns, Turn("assistant", reply))
     /\ phase' = IF HasKind(reply, "call") THEN "calls"
                 ELSE IF HasKind(reply, "text") THEN "answer" ELSE "empty"
     /\ UNCHANGED <<message, turn, pending, requested, continued>>

(* The start hooks have settled the calls: the brain's turn and the        *)
(* durable message say what will run.                                      *)
Commit(rewritten) ==
  LET reply == Last(turns).content
      parts == PartsOf(reply, rewritten)
  IN /\ phase = "calls"
     /\ turns' = [turns EXCEPT ![Len(turns)].content = Reconciled(reply, parts)]
     /\ Record(<<Committed(message, parts)>>)
     /\ requested' = CallsOf(parts)
     /\ phase' = "run"
     /\ UNCHANGED <<message, turn, pending, continued>>

(* The end of the first unfinished call, reported in call order; Interpret *)
(* queues the same result for the model.                                   *)
EndCall ==
  LET result == [Head(requested) EXCEPT !.kind = "result"]
  IN /\ phase = "run" /\ requested # <<>>
     /\ Record(<<Outcome(message, result)>>)
     /\ pending' = Append(pending, result)
     /\ requested' = Tail(requested)
     /\ UNCHANGED <<message, phase, turn, turns, continued>>

NextTurn ==
  /\ phase = "run" /\ requested = <<>> /\ turn < MaxTurns
  /\ phase' = "turn" /\ turn' = turn + 1
  /\ UNCHANGED <<log, message, turns, pending, requested, continued>>

(* An OnAgentEnd hook asks the brain to go on instead of answering.        *)
Continue ==
  /\ phase = "answer" /\ turn < MaxTurns
  /\ phase' = "turn" /\ turn' = turn + 1 /\ continued' = TRUE
  /\ UNCHANGED <<log, message, turns, pending, requested>>

(* FinishRun with the answer, which a hook that stopped the run left empty.*)
FinishRun(answer) == Record(<<Committed(message, <<answer>>)>>) /\ NoRun

Answer == phase = "answer" /\ FinishRun(Block("text", Count("model.completed"), 0))

StopByHook ==
  /\ phase \in {"turn", "calls", "answer"} \/ (phase = "run" /\ requested = <<>>)
  /\ FinishRun(Block("blank", message, 0))

(* What ending a run records of the calls that have no outcome.            *)
Interrupted ==
  [i \in DOMAIN requested |-> Outcome(message, [requested[i] EXCEPT !.kind = "interrupted"])]

(* FailRun, StopRun, or the recovery after a crash, at any later point.    *)
EndRun == message # 0 /\ phase # "claimed" /\ Record(Interrupted) /\ NoRun

Next ==
  \/ Accept \/ Claim \/ StartFails \/ Prepare \/ OpenTurn \/ Compact
  \/ \E shape \in Shapes : Complete(shape)
  \/ \E rewritten \in BOOLEAN : Commit(rewritten)
  \/ EndCall \/ NextTurn \/ Continue \/ Answer \/ StopByHook \/ EndRun

Spec == Init /\ [][Next]_vars

-----------------------------------------------------------------------------
(* What of the brain's transcript the log is to bring back: not a reply    *)
(* whose message is not committed yet, nor what hooks told the model.      *)
BareTurn(t) == [t EXCEPT !.content = Without(@, "hint")]
AddBare(bare, t) == IF BareTurn(t).content = <<>> THEN bare ELSE Append(bare, BareTurn(t))
Bare(ts) ==
  LET bare[i \in 0..Len(ts)] == IF i = 0 THEN <<>> ELSE AddBare(bare[i - 1], ts[i])
  IN bare[Len(ts)]

Durable ==
  (IF phase \in {"calls", "answer", "empty"} THEN Front(turns) ELSE turns)
    \o (IF pending = <<>> THEN <<>> ELSE <<Turn("user", pending)>>)

(* A turn but for the places its opaque items have among its blocks.       *)
UnplacedTurn(t) == [t EXCEPT !.content = Without(@, "item") \o OfKind(@, {"item"})]
Unplaced(ts) == [i \in DOMAIN ts |-> UnplacedTurn(ts[i])]

(* No reply of the run has an empty text before an opaque item.            *)
BlanksLast(content) ==
  \A i, j \in DOMAIN content : i < j /\ content[i].kind = "blank" => content[j].kind # "item"

InOrder ==
  \A i \in DOMAIN log :
    log[i].type = "model.completed" /\ log[i].m = message => BlanksLast(log[i].content)

(***************************************************************************)
(* The context rebuilt from the log is the one the model works with: the   *)
(* same turns, texts, calls as they ran, provider items and results in     *)
(* their turns, over compactions and over runs that ended in any way; and  *)
(* in the same places, unless a reply of the run had an empty text before  *)
(* an opaque item: the brain's turn gives a part the place of that text,   *)
(* the replay does not (llm.go:401, store.go:1507).                        *)
(* A run an OnAgentEnd hook continued is left out: its recorded answer has *)
(* no committed message, and the next message of the run takes the         *)
(* provider items of that answer (store.go:1451).                          *)
(***************************************************************************)
ContextReplays ==
  message # 0 /\ phase # "claimed" /\ ~continued =>
    /\ Unplaced(Bare(LoadedContext)) = Unplaced(Bare(Durable))
    /\ InOrder => Bare(LoadedContext) = Bare(Durable)

(***************************************************************************)
(* A provider accepts every request: it begins with a user turn, a turn    *)
(* that calls is followed by the turn with one result for each of its      *)
(* calls, and results stand nowhere else; and the memory is in it once at  *)
(* most.  This rests on the compaction boundary, on the results every      *)
(* ended run leaves, and on how the replay joins them.  What a turn says   *)
(* is not judged: the empty message of a run that a hook stopped comes     *)
(* back in later requests, and is sent as it is (anthropic.go:58).         *)
(***************************************************************************)
Refers(blocks) == [i \in DOMAIN blocks |-> blocks[i].of]

RequestAccepted ==
  phase \in {"ask", "send"} =>
    /\ turns[1].role = "user"
    /\ \A i \in DOMAIN turns :
         LET calls == CallsOf(turns[i].content)
             answers == IF i = Len(turns) THEN <<>> ELSE ResultsOf(turns[i + 1].content)
         IN Refers(calls) = Refers(answers)
    /\ ResultsOf(turns[1].content) = <<>>
    /\ Cardinality({i \in DOMAIN turns : HasKind(turns[i].content, "memory")}) <= 1
=============================================================================
