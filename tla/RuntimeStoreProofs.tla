------------------------- MODULE RuntimeStoreProofs -------------------------
(***************************************************************************)
(* Theorems about the durable runtime store, for any conversations, keys,  *)
(* tool calls, workspaces, locks and bounds.                               *)
(*                                                                         *)
(* Opening the store replaces the indexes by what the logs say, so nothing *)
(* about the indexes survives a crash unless they always are what the logs *)
(* say: RebuildExact is proved together with the other invariants, and an  *)
(* Open step then changes no row.                                          *)
(*                                                                         *)
(* The second half is about the readers of RuntimeReplay, which go over a  *)
(* log entry by entry: by induction over the log, one more entry is one    *)
(* more turn of their loop, and what it does is compared with the step     *)
(* that wrote it.                                                          *)
(***************************************************************************)
EXTENDS RuntimeReplay, FiniteSetTheorems, SequenceTheorems, WellFoundedInduction, TLAPS

-----------------------------------------------------------------------------
(* The inductive invariant.                                                *)

(* A goroutine that still works on a run finds it running in the store.    *)
WorkersRunning == \A r \in workers : RunIs(r, "running")

(* Until Manager.New returns, nothing of an earlier process works.         *)
WorkersNeedServer == process = "open" \/ workers = {}

(* No entry of a run or a tool call precedes the row it is about.          *)
EntriesKnown ==
  \A e \in Logged :
    /\ e.type \in {"assistant.output.committed", "tool.outcome.recorded", "run.ended"}
         => e.run \in DOMAIN run
    /\ e.type = "tool.outcome.recorded"
         => \A k \in e.calls : <<e.run, k>> \in DOMAIN call

StoreInv ==
  /\ TypeOK
  /\ RebuildExact
  /\ EntriesKnown
  /\ ClaimedOnce
  /\ OneRunPerLock
  /\ ReservationExcludesRuns
  /\ NoStrandedCall
  /\ WorkersRunning
  /\ WorkersNeedServer

-----------------------------------------------------------------------------
(* Lemmas about the operators of the model.                                *)

(* Writing rows of a typed table leaves a typed table.                     *)
LEMMA WriteSubmissionType ==
  ASSUME TypeOK, NEW s \in Submission, NEW status \in SubmissionStatus,
         submission' = Write(submission, {s}, status)
  PROVE  /\ DOMAIN submission' \subseteq Submission
         /\ submission' \in [DOMAIN submission' -> SubmissionStatus]
BY DEF TypeOK, Write

LEMMA WriteRunType ==
  ASSUME TypeOK, NEW r \in Run, NEW status \in RunStatus, run' = Write(run, {r}, status)
  PROVE  DOMAIN run' \subseteq Run /\ run' \in [DOMAIN run' -> RunStatus]
BY DEF TypeOK, Write

LEMMA WriteCallType ==
  ASSUME TypeOK, NEW S \in SUBSET (Run \X Calls), NEW status \in CallStatus,
         call' = Write(call, S, status)
  PROVE  DOMAIN call' \subseteq Run \X Calls /\ call' \in [DOMAIN call' -> CallStatus]
BY DEF TypeOK, Write

(* What is in a concatenation is in one of its parts.                      *)
Entries(s) == {s[i] : i \in DOMAIN s}

LEMMA ConcatEntries ==
  ASSUME NEW S, NEW s \in Seq(S), NEW t \in Seq(S)
  PROVE  Entries(s \o t) = Entries(s) \cup Entries(t)
<1> DEFINE both == s \o t
<1>1. \A i \in DOMAIN both :
        \/ i \in DOMAIN s /\ both[i] = s[i]
        \/ \E j \in DOMAIN t : both[i] = t[j]
  <2>1. \A i \in DOMAIN both :
          \/ i \in DOMAIN s /\ both[i] = s[i]
          \/ i - Len(s) \in DOMAIN t /\ both[i] = t[i - Len(s)]
    OBVIOUS
  <2>2. QED
    BY <2>1
<1>2. \A i \in DOMAIN s : i \in DOMAIN both /\ both[i] = s[i]
  OBVIOUS
<1>3. \A i \in DOMAIN t : i + Len(s) \in DOMAIN both /\ both[i + Len(s)] = t[i]
  OBVIOUS
<1> HIDE DEF both
<1>4. \A x : x \in Entries(both) <=> x \in Entries(s) \/ x \in Entries(t)
  BY <1>1, <1>2, <1>3 DEF Entries
<1>5. QED
  BY <1>4 DEF both

(* Appending to one conversation's log adds its entries to what is logged. *)
LEMMA AppendLogged ==
  ASSUME log \in [Conversations -> Seq(Event)],
         NEW c \in Conversations, NEW events \in Seq(Event), LogAppend(c, events)
  PROVE  /\ log' \in [Conversations -> Seq(Event)]
         /\ Logged' = Logged \cup Entries(events)
<1>1. log' = [log EXCEPT ![c] = log[c] \o events]
  BY DEF LogAppend
<1>2. log' \in [Conversations -> Seq(Event)]
  BY <1>1
<1>3. Entries(log'[c]) = Entries(log[c]) \cup Entries(events)
  <2>1. log'[c] = log[c] \o events /\ log[c] \in Seq(Event)
    BY <1>1
  <2>2. QED
    BY <2>1, ConcatEntries
<1>4. \A d \in Conversations : d # c => log'[d] = log[d]
  BY <1>1
<1>5. /\ Logged  = UNION {Entries(log[d]) : d \in Conversations}
      /\ Logged' = UNION {Entries(log'[d]) : d \in Conversations}
  BY DEF Logged, Entries
<1>6. \A e : e \in Logged' <=> e \in Logged \/ e \in Entries(events)
  BY <1>3, <1>4, <1>5
<1>7. QED
  BY <1>2, <1>6

(* The entries of the sequences the operations append.                     *)
LEMMA EntriesOfTuples ==
  /\ Entries(<<>>) = {}
  /\ \A x : Entries(<<x>>) = {x}
  /\ \A x, y : Entries(<<x, y>>) = {x, y}
BY DEF Entries

-----------------------------------------------------------------------------
(* What the logs say of a row tells what entries they have of it.          *)

LEMMA LoggedType ==
  ASSUME log \in [Conversations -> Seq(Event)]
  PROVE  Logged \subseteq Event
BY DEF Logged

LEMMA EntryTypes ==
  ASSUME NEW e \in Event
  PROVE  /\ e.type = "input.accepted" => e.sub \in Submission
         /\ e.type \in {"input.admitted", "run.started", "note"} => e.run \in Run
         /\ e.type = "assistant.output.committed" => e.run \in Run /\ e.calls \in SUBSET Calls
         /\ e.type = "tool.outcome.recorded" =>
              e.run \in Run /\ e.calls \in SUBSET Calls /\ e.status \in ToolOutcome
         /\ e.type = "run.ended" => e.run \in Run /\ e.status \in TerminalStatus
BY DEF Event

LEMMA RunType == \A r \in Run : r.sub \in Submission
BY DEF Run

LEMMA StatusFromChosen ==
  ASSUME NEW entries, NEW otherwise, entries # {}
  PROVE  \E e \in entries : StatusFrom(entries, otherwise) = e.status
BY DEF StatusFrom

LEMMA StatusFromOne ==
  ASSUME NEW entry, NEW otherwise
  PROVE  StatusFrom({entry}, otherwise) = entry.status
BY StatusFromChosen

LEMMA IndexFacts ==
  ASSUME TypeOK, RebuildExact, EntriesKnown, ClaimedOnce
  PROVE  /\ DOMAIN submission = LoggedSubmissions
         /\ DOMAIN run = LoggedRuns
         /\ DOMAIN call = LoggedCalls
         /\ \A s : SubmissionIs(s, "queued") => EndsFor(s) = {} /\ StartsFor(s) = {}
         /\ \A s : SubmissionIs(s, "running") => EndsFor(s) = {}
         /\ \A s : s \notin DOMAIN submission => EndsFor(s) = {} /\ StartsFor(s) = {}
         /\ \A r : RunIs(r, "running") => EndsOf(r) = {}
         /\ \A r : r \notin DOMAIN run => EndsOf(r) = {} /\ \A k : RequestsOf(<<r, k>>) = {}
         /\ \A p : p \in DOMAIN call /\ call[p] = "requested" => OutcomesOf(p) = {}
         /\ \A r, k : <<r, k>> \notin DOMAIN call => OutcomesOf(<<r, k>>) = {}
<1>1. Logged \subseteq Event
  BY LoggedType DEF TypeOK
<1>2. /\ \A e \in LoggedOf("run.ended") : e.status \in TerminalStatus
      /\ \A e \in LoggedOf("tool.outcome.recorded") : e.status \in ToolOutcome
  BY <1>1, EntryTypes DEF LoggedOf
<1>3. DOMAIN submission = LoggedSubmissions /\ DOMAIN run = LoggedRuns /\ DOMAIN call = LoggedCalls
  BY DEF RebuildExact, SubmissionIndex, RunIndex, CallIndex
<1>4. ASSUME NEW s, s \in DOMAIN submission, submission[s] \in {"queued", "running"}
      PROVE  EndsFor(s) = {}
  <2>1. submission[s] = StatusFrom(EndsFor(s), IF StartsFor(s) = {} THEN "queued" ELSE "running")
    BY <1>3, <1>4 DEF RebuildExact, SubmissionIndex
  <2>2. \A e \in EndsFor(s) : e.status \notin {"queued", "running"}
    BY <1>2 DEF EndsFor, TerminalStatus
  <2>3. QED
    BY <1>4, <2>1, <2>2, StatusFromChosen
<1>5. ASSUME NEW s, s \in DOMAIN submission, submission[s] = "queued"
      PROVE  StartsFor(s) = {}
  <2>1. submission[s] = StatusFrom(EndsFor(s), IF StartsFor(s) = {} THEN "queued" ELSE "running")
    BY <1>3, <1>5 DEF RebuildExact, SubmissionIndex
  <2>2. QED
    BY <1>4, <1>5, <2>1 DEF StatusFrom
<1>6. ASSUME NEW r, r \in DOMAIN run, run[r] = "running"
      PROVE  EndsOf(r) = {}
  <2>1. run[r] = StatusFrom(EndsOf(r), "running")
    BY <1>3, <1>6 DEF RebuildExact, RunIndex
  <2>2. \A e \in EndsOf(r) : e.status # "running"
    BY <1>2 DEF EndsOf, TerminalStatus
  <2>3. QED
    BY <1>6, <2>1, <2>2, StatusFromChosen
<1>7. ASSUME NEW p, p \in DOMAIN call, call[p] = "requested"
      PROVE  OutcomesOf(p) = {}
  <2>1. call[p] = StatusFrom(OutcomesOf(p), "requested")
    BY <1>3, <1>7 DEF RebuildExact, CallIndex
  <2>2. \A e \in OutcomesOf(p) : e.status # "requested"
    BY <1>2 DEF OutcomesOf, ToolOutcome
  <2>3. QED
    BY <1>7, <2>1, <2>2, StatusFromChosen
<1>8. \A r : r \notin DOMAIN run => EndsOf(r) = {} /\ \A k : RequestsOf(<<r, k>>) = {}
  BY DEF EntriesKnown, EndsOf, RequestsOf, LoggedOf
<1>9. \A s : s \notin DOMAIN submission => EndsFor(s) = {} /\ StartsFor(s) = {}
  <2>1. \A r \in DOMAIN run : r.sub \in DOMAIN submission
    BY DEF ClaimedOnce, SubmissionIs
  <2>2. \A e \in LoggedOf("run.started") : e.run \in DOMAIN run
    BY <1>3 DEF LoggedRuns
  <2>3. \A e \in LoggedOf("run.ended") : e.run \in DOMAIN run
    BY DEF EntriesKnown, LoggedOf
  <2>4. QED
    BY <2>1, <2>2, <2>3 DEF EndsFor, StartsFor
<1>10. \A r, k : <<r, k>> \notin DOMAIN call => OutcomesOf(<<r, k>>) = {}
  BY DEF EntriesKnown, OutcomesOf, LoggedOf
<1>11. QED
  BY <1>3, <1>4, <1>5, <1>6, <1>7, <1>8, <1>9, <1>10 DEF SubmissionIs, RunIs

-----------------------------------------------------------------------------
(* What each kind of entry adds to the rebuilt indexes.                    *)

LEMMA EntryFields ==
  /\ \A s : Accepted(s).type = "input.accepted" /\ Accepted(s).sub = s
  /\ \A r : Admitted(r).type = "input.admitted" /\ Admitted(r).run = r
  /\ \A r : Started(r).type = "run.started" /\ Started(r).run = r
  /\ \A r : Note(r).type = "note" /\ Note(r).run = r
  /\ \A r, S : /\ Committed(r, S).type = "assistant.output.committed"
               /\ Committed(r, S).run = r /\ Committed(r, S).calls = S
  /\ \A r, S, status : /\ Outcome(r, S, status).type = "tool.outcome.recorded"
                       /\ Outcome(r, S, status).run = r /\ Outcome(r, S, status).calls = S
                       /\ Outcome(r, S, status).status = status
  /\ \A r, status : /\ Ended(r, status).type = "run.ended"
                    /\ Ended(r, status).run = r /\ Ended(r, status).status = status
BY DEF Accepted, Admitted, Started, Note, Committed, Outcome, Ended

LEMMA AcceptedIndexed ==
  ASSUME TypeOK, RebuildExact, EntriesKnown, ClaimedOnce,
         NEW s, s \notin DOMAIN submission, Logged' = Logged \cup {Accepted(s)}
  PROVE  /\ SubmissionIndex' = Write(submission, {s}, "queued")
         /\ RunIndex' = run
         /\ CallIndex' = call
<1>1. /\ LoggedSubmissions' = LoggedSubmissions \cup {s}
      /\ LoggedRuns' = LoggedRuns
      /\ \A u : EndsFor(u)' = EndsFor(u) /\ StartsFor(u)' = StartsFor(u)
      /\ \A r : EndsOf(r)' = EndsOf(r)
      /\ \A p : RequestsOf(p)' = RequestsOf(p) /\ OutcomesOf(p)' = OutcomesOf(p)
  <2>1. /\ LoggedOf("input.accepted")' = LoggedOf("input.accepted") \cup {Accepted(s)}
        /\ \A type : type # "input.accepted" => LoggedOf(type)' = LoggedOf(type)
    BY EntryFields DEF LoggedOf
  <2>2. LoggedSubmissions' = LoggedSubmissions \cup {s}
    BY <2>1, EntryFields DEF LoggedSubmissions
  <2>3. QED
    BY <2>1, <2>2 DEF LoggedRuns, EndsFor, StartsFor, EndsOf, RequestsOf, OutcomesOf
<1>2. /\ DOMAIN submission = LoggedSubmissions
      /\ EndsFor(s) = {} /\ StartsFor(s) = {}
  BY IndexFacts
<1>3. SubmissionIndex' = Write(submission, {s}, "queued")
  BY <1>1, <1>2 DEF RebuildExact, SubmissionIndex, Write, StatusFrom
<1>4. RunIndex' = run
  BY <1>1 DEF RebuildExact, RunIndex
<1>5. CallIndex' = call
  BY <1>1 DEF RebuildExact, CallIndex, LoggedCalls
<1>6. QED
  BY <1>3, <1>4, <1>5

LEMMA StartIndexed ==
  ASSUME TypeOK, RebuildExact, EntriesKnown, ClaimedOnce,
         NEW r, SubmissionIs(r.sub, "queued"), r \notin DOMAIN run,
         Logged' = Logged \cup {Admitted(r), Started(r)}
  PROVE  /\ SubmissionIndex' = Write(submission, {r.sub}, "running")
         /\ RunIndex' = Write(run, {r}, "running")
         /\ CallIndex' = call
<1>1. /\ LoggedSubmissions' = LoggedSubmissions
      /\ LoggedRuns' = LoggedRuns \cup {r}
      /\ \A u : EndsFor(u)' = EndsFor(u)
      /\ \A u : u # r.sub => StartsFor(u)' = StartsFor(u)
      /\ StartsFor(r.sub)' # {}
      /\ \A q : EndsOf(q)' = EndsOf(q)
      /\ \A p : RequestsOf(p)' = RequestsOf(p) /\ OutcomesOf(p)' = OutcomesOf(p)
  <2>1. /\ LoggedOf("run.started")' = LoggedOf("run.started") \cup {Started(r)}
        /\ \A type : type \notin {"input.admitted", "run.started"} => LoggedOf(type)' = LoggedOf(type)
    BY EntryFields DEF LoggedOf
  <2>2. LoggedRuns' = LoggedRuns \cup {r}
    BY <2>1, EntryFields DEF LoggedRuns
  <2>3. \A u : u # r.sub => StartsFor(u)' = StartsFor(u)
    BY <2>1, EntryFields DEF StartsFor
  <2>4. StartsFor(r.sub)' # {}
    BY <2>1, EntryFields DEF StartsFor
  <2>5. QED
    BY <2>1, <2>2, <2>3, <2>4 DEF LoggedSubmissions, EndsFor, EndsOf, RequestsOf, OutcomesOf
<1>2. /\ DOMAIN submission = LoggedSubmissions /\ DOMAIN run = LoggedRuns
      /\ EndsFor(r.sub) = {} /\ EndsOf(r) = {}
      /\ \A k : RequestsOf(<<r, k>>) = {}
  BY IndexFacts
<1>3. r.sub \in DOMAIN submission
  BY DEF SubmissionIs
<1>4. SubmissionIndex' = Write(submission, {r.sub}, "running")
  BY <1>1, <1>2, <1>3 DEF RebuildExact, SubmissionIndex, Write, StatusFrom
<1>5. RunIndex' = Write(run, {r}, "running")
  BY <1>1, <1>2 DEF RebuildExact, RunIndex, Write, StatusFrom
<1>6. LoggedCalls' = LoggedCalls
  BY <1>1, <1>2 DEF LoggedCalls
<1>7. CallIndex' = call
  BY <1>1, <1>6 DEF RebuildExact, CallIndex
<1>8. QED
  BY <1>4, <1>5, <1>7

(* Entries of turns, outcomes and notes change no submission and no run.   *)
LEMMA RunsUndisturbed ==
  ASSUME RebuildExact, NEW E, Logged' = Logged \cup E,
         \A e \in E : e.type \in {"assistant.output.committed", "tool.outcome.recorded", "note"}
  PROVE  SubmissionIndex' = submission /\ RunIndex' = run
<1>1. /\ LoggedSubmissions' = LoggedSubmissions
      /\ LoggedRuns' = LoggedRuns
      /\ \A u : EndsFor(u)' = EndsFor(u) /\ StartsFor(u)' = StartsFor(u)
      /\ \A r : EndsOf(r)' = EndsOf(r)
  BY DEF LoggedSubmissions, LoggedRuns, EndsFor, StartsFor, EndsOf, LoggedOf
<1>2. QED
  BY <1>1 DEF RebuildExact, SubmissionIndex, RunIndex

LEMMA EndIndexed ==
  ASSUME TypeOK, RebuildExact, EntriesKnown, ClaimedOnce,
         NEW r, RunIs(r, "running"), NEW status, NEW E,
         Logged' = Logged \cup E \cup {Ended(r, status)},
         \A e \in E : e.type \in {"assistant.output.committed", "tool.outcome.recorded"}
  PROVE  /\ SubmissionIndex' = Write(submission, {r.sub}, status)
         /\ RunIndex' = Write(run, {r}, status)
<1>1. /\ LoggedSubmissions' = LoggedSubmissions
      /\ LoggedRuns' = LoggedRuns
      /\ \A u : StartsFor(u)' = StartsFor(u)
      /\ \A u : u # r.sub => EndsFor(u)' = EndsFor(u)
      /\ EndsFor(r.sub)' = EndsFor(r.sub) \cup {Ended(r, status)}
      /\ \A q : q # r => EndsOf(q)' = EndsOf(q)
      /\ EndsOf(r)' = EndsOf(r) \cup {Ended(r, status)}
  <2>1. /\ LoggedOf("run.ended")' = LoggedOf("run.ended") \cup {Ended(r, status)}
        /\ \A type \in {"input.accepted", "run.started"} : LoggedOf(type)' = LoggedOf(type)
    BY EntryFields DEF LoggedOf
  <2>2. \A u : u # r.sub => EndsFor(u)' = EndsFor(u)
    BY <2>1, EntryFields DEF EndsFor
  <2>3. EndsFor(r.sub)' = EndsFor(r.sub) \cup {Ended(r, status)}
    BY <2>1, EntryFields DEF EndsFor
  <2>4. \A q : q # r => EndsOf(q)' = EndsOf(q)
    BY <2>1, EntryFields DEF EndsOf
  <2>5. EndsOf(r)' = EndsOf(r) \cup {Ended(r, status)}
    BY <2>1, EntryFields DEF EndsOf
  <2>6. QED
    BY <2>1, <2>2, <2>3, <2>4, <2>5 DEF LoggedSubmissions, LoggedRuns, StartsFor
<1>2. SubmissionIs(r.sub, "running")
  BY DEF ClaimedOnce, RunIs
<1>3. /\ DOMAIN submission = LoggedSubmissions /\ DOMAIN run = LoggedRuns
      /\ EndsFor(r.sub) = {} /\ EndsOf(r) = {}
  BY <1>2, IndexFacts
<1>4. \A otherwise : StatusFrom({Ended(r, status)}, otherwise) = status
  BY StatusFromOne, EntryFields
<1>5. r \in DOMAIN run /\ r.sub \in DOMAIN submission
  BY <1>2 DEF RunIs, SubmissionIs
<1>6. SubmissionIndex' = Write(submission, {r.sub}, status)
  BY <1>1, <1>3, <1>4, <1>5 DEF RebuildExact, SubmissionIndex, Write
<1>7. RunIndex' = Write(run, {r}, status)
  BY <1>1, <1>3, <1>4, <1>5 DEF RebuildExact, RunIndex, Write
<1>8. QED
  BY <1>6, <1>7

LEMMA RequestIndexed ==
  ASSUME TypeOK, RebuildExact, EntriesKnown, ClaimedOnce,
         NEW r, r \in DOMAIN run, NEW S \in SUBSET Calls, \A k \in S : <<r, k>> \notin DOMAIN call,
         Logged' = Logged \cup {Committed(r, S)}
  PROVE  CallIndex' = Write(call, {<<r, k>> : k \in S}, "requested")
<1> DEFINE rows == {<<r, k>> : k \in S}
<1>1. /\ LoggedRuns' = LoggedRuns
      /\ \A p : OutcomesOf(p)' = OutcomesOf(p)
      /\ \A p : p \notin rows /\ p \in Run \X Calls => RequestsOf(p)' = RequestsOf(p)
      /\ \A p \in rows : RequestsOf(p)' # {}
  <2>1. /\ LoggedOf("assistant.output.committed")' =
               LoggedOf("assistant.output.committed") \cup {Committed(r, S)}
        /\ \A type : type # "assistant.output.committed" => LoggedOf(type)' = LoggedOf(type)
    BY EntryFields DEF LoggedOf
  <2>2. \A p : p \notin rows /\ p \in Run \X Calls => RequestsOf(p)' = RequestsOf(p)
    BY <2>1, EntryFields DEF RequestsOf
  <2>3. \A p \in rows : RequestsOf(p)' # {}
    BY <2>1, EntryFields DEF RequestsOf
  <2>4. QED
    BY <2>1, <2>2, <2>3 DEF LoggedRuns, OutcomesOf
<1>2. /\ DOMAIN call = LoggedCalls /\ DOMAIN run = LoggedRuns
      /\ \A p \in rows : OutcomesOf(p) = {}
  BY IndexFacts
<1>3. LoggedCalls' = LoggedCalls \cup rows
  BY <1>1, <1>2 DEF LoggedCalls, TypeOK
<1>4. QED
  BY <1>1, <1>2, <1>3 DEF RebuildExact, CallIndex, Write, StatusFrom

LEMMA OutcomeIndexed ==
  ASSUME TypeOK, RebuildExact, EntriesKnown, ClaimedOnce,
         NEW r, NEW S, S # {}, S \subseteq RequestedCalls(r), NEW status, NEW E,
         Logged' = Logged \cup {Outcome(r, S, status)} \cup E,
         \A e \in E : e.type = "run.ended"
  PROVE  CallIndex' = Write(call, {<<r, k>> : k \in S}, status)
<1> DEFINE rows == {<<r, k>> : k \in S}
<1>1. /\ LoggedRuns' = LoggedRuns
      /\ \A p : RequestsOf(p)' = RequestsOf(p)
      /\ \A p : p \notin rows /\ p \in Run \X Calls => OutcomesOf(p)' = OutcomesOf(p)
      /\ \A p \in rows : OutcomesOf(p)' = OutcomesOf(p) \cup {Outcome(r, S, status)}
  BY EntryFields DEF LoggedRuns, RequestsOf, OutcomesOf, LoggedOf
<1>2. rows \subseteq DOMAIN call /\ \A p \in rows : call[p] = "requested"
  BY DEF RequestedCalls
<1>3. DOMAIN call = LoggedCalls /\ \A p \in rows : OutcomesOf(p) = {}
  BY <1>2, IndexFacts
<1>4. LoggedCalls' = LoggedCalls
  BY <1>1 DEF LoggedCalls
<1>5. StatusFrom({Outcome(r, S, status)}, "requested") = status
  BY StatusFromOne, EntryFields
<1>6. QED
  BY <1>1, <1>2, <1>3, <1>4, <1>5 DEF RebuildExact, CallIndex, Write, TypeOK

(* Entries without calls change no call.                                   *)
LEMMA CallsUndisturbed ==
  ASSUME RebuildExact, NEW E, Logged' = Logged \cup E,
         \A e \in E : \/ e.type \in {"note", "run.ended"}
                      \/ e.type = "assistant.output.committed" /\ e.calls = {}
  PROVE  CallIndex' = call
<1>1. /\ LoggedRuns' = LoggedRuns
      /\ \A p : RequestsOf(p)' = RequestsOf(p) /\ OutcomesOf(p)' = OutcomesOf(p)
  BY DEF LoggedRuns, RequestsOf, OutcomesOf, LoggedOf
<1>2. QED
  BY <1>1 DEF RebuildExact, CallIndex, LoggedCalls

-----------------------------------------------------------------------------
(* Every action preserves the invariant.                                   *)

LEMMA EntriesTyped ==
  /\ \A s \in Submission : Accepted(s) \in Event
  /\ \A r \in Run : Admitted(r) \in Event /\ Started(r) \in Event /\ Note(r) \in Event
  /\ \A r \in Run, S \in SUBSET Calls : Committed(r, S) \in Event
  /\ \A r \in Run, S \in SUBSET Calls, status \in ToolOutcome : Outcome(r, S, status) \in Event
  /\ \A r \in Run, status \in TerminalStatus : Ended(r, status) \in Event
BY DEF Event, Accepted, Admitted, Started, Note, Committed, Outcome, Ended

(* Actions that write no entry and no row.                                 *)
LEMMA QuietStep ==
  ASSUME StoreInv, UNCHANGED <<log, tables>>
  PROVE  /\ RebuildExact' /\ EntriesKnown' /\ ClaimedOnce'
         /\ OneRunPerLock' /\ NoStrandedCall'
<1>1. Logged' = Logged
  BY DEF Logged
<1>2. RebuildExact'
  <2>1. /\ LoggedSubmissions' = LoggedSubmissions /\ LoggedRuns' = LoggedRuns
        /\ \A u : EndsFor(u)' = EndsFor(u) /\ StartsFor(u)' = StartsFor(u)
        /\ \A q : EndsOf(q)' = EndsOf(q)
        /\ \A p : RequestsOf(p)' = RequestsOf(p) /\ OutcomesOf(p)' = OutcomesOf(p)
    BY <1>1 DEF LoggedSubmissions, LoggedRuns, EndsFor, StartsFor, EndsOf, RequestsOf, OutcomesOf, LoggedOf
  <2>2. SubmissionIndex' = SubmissionIndex /\ RunIndex' = RunIndex /\ CallIndex' = CallIndex
    BY <2>1 DEF SubmissionIndex, RunIndex, CallIndex, LoggedCalls
  <2>3. QED
    BY <2>2 DEF StoreInv, RebuildExact, tables
<1>3. EntriesKnown'
  BY <1>1 DEF StoreInv, EntriesKnown, tables
<1>4. ClaimedOnce' /\ OneRunPerLock' /\ NoStrandedCall'
  BY DEF StoreInv, tables, ClaimedOnce, OneRunPerLock, NoStrandedCall, SubmissionIs
<1>5. QED
  BY <1>2, <1>3, <1>4

LEMMA AcceptStep ==
  ASSUME StoreInv, NEW c \in Conversations, NEW k \in Keys, NEW t \in 1..MaxTime, Accept(c, k, t)
  PROVE  StoreInv'
<1> DEFINE s == [conv |-> c, key |-> k, at |-> t]
<1>1. s \in Submission /\ s \notin DOMAIN submission
  BY DEF Accept, Duplicate, Submission
<1>2. /\ submission' = Write(submission, {s}, "queued")
      /\ LogAppend(c, <<Accepted(s)>>)
      /\ clock' = t
      /\ UNCHANGED <<conversations, run, call, reserved, process, workers, restores>>
  BY DEF Accept
<1> HIDE DEF s
<1>3. log' \in [Conversations -> Seq(Event)] /\ Logged' = Logged \cup {Accepted(s)}
  <2>1. <<Accepted(s)>> \in Seq(Event)
    BY <1>1, EntriesTyped
  <2>2. QED
    BY <1>2, <2>1, AppendLogged, EntriesOfTuples DEF StoreInv, TypeOK
<1>4. TypeOK'
  <2>1. /\ DOMAIN submission' \subseteq Submission
        /\ submission' \in [DOMAIN submission' -> SubmissionStatus]
    BY <1>1, <1>2, WriteSubmissionType DEF StoreInv, SubmissionStatus
  <2>2. clock' \in 0..MaxTime
    BY <1>2, BoundAssumption
  <2>3. QED
    BY <1>2, <1>3, <2>1, <2>2 DEF StoreInv, TypeOK
<1>5. RebuildExact'
  BY <1>1, <1>2, <1>3, AcceptedIndexed DEF StoreInv, RebuildExact
<1>6. EntriesKnown'
  BY <1>2, <1>3, EntryFields DEF StoreInv, EntriesKnown
<1>7. \A u : u # s => /\ u \in DOMAIN submission' <=> u \in DOMAIN submission
                      /\ u \in DOMAIN submission => submission'[u] = submission[u]
  BY <1>2 DEF Write
<1>8. s \in DOMAIN submission' /\ submission'[s] = "queued"
  BY <1>2 DEF Write
<1>9. ClaimedOnce'
  BY <1>1, <1>2, <1>7, <1>8 DEF StoreInv, ClaimedOnce, SubmissionIs
<1>10. OneRunPerLock' /\ ReservationExcludesRuns'
  <2>1. \A u \in DOMAIN submission' : submission'[u] = "running" =>
          u \in DOMAIN submission /\ submission[u] = "running"
    BY <1>7, <1>8
  <2>2. QED
    BY <1>2, <2>1 DEF StoreInv, OneRunPerLock, ReservationExcludesRuns
<1>11. NoStrandedCall' /\ WorkersRunning' /\ WorkersNeedServer'
  BY <1>2 DEF StoreInv, NoStrandedCall, WorkersRunning, WorkersNeedServer, RunIs
<1>12. QED
  BY <1>4, <1>5, <1>6, <1>9, <1>10, <1>11 DEF StoreInv

LEMMA ClaimStep ==
  ASSUME StoreInv, NEW s, ClaimRunnable(s)
  PROVE  StoreInv'
<1> DEFINE r == NextRun(s)
<1>1. SubmissionIs(s, "queued") /\ s \in Submission
  BY DEF ClaimRunnable, Eligible, SubmissionIs, StoreInv, TypeOK
<1>2. \A q \in DOMAIN run : q.sub # s
  BY <1>1 DEF StoreInv, ClaimedOnce, SubmissionIs, TypeOK, RunStatus, TerminalStatus
<1>3. r.sub = s /\ r \in Run /\ r \notin DOMAIN run
  <2>1. {q \in DOMAIN run : q.sub = s} = {}
    BY <1>2
  <2>2. NextRun(s) = [sub |-> s, n |-> 1]
    BY <2>1, FS_EmptySet DEF NextRun
  <2>3. QED
    BY <1>1, <1>2, <2>2 DEF Run
<1>4. /\ submission' = Write(submission, {s}, "running")
      /\ run' = Write(run, {r}, "running")
      /\ LogAppend(s.conv, <<Admitted(r), Started(r)>>)
      /\ workers' = workers \cup {r}
      /\ process = "open"
      /\ UNCHANGED <<conversations, call, reserved, clock, process, restores>>
  BY DEF ClaimRunnable
<1>5. /\ ~ConversationBusy(s.conv) /\ ~LockBusy(LockOf[s.conv])
      /\ WorkspaceOf[s.conv] \notin reserved
  BY DEF ClaimRunnable, Eligible
<1> HIDE DEF r
<1>6. log' \in [Conversations -> Seq(Event)] /\ Logged' = Logged \cup {Admitted(r), Started(r)}
  <2>1. <<Admitted(r), Started(r)>> \in Seq(Event) /\ s.conv \in Conversations
    BY <1>1, <1>3, EntriesTyped DEF Submission
  <2>2. QED
    BY <1>4, <2>1, AppendLogged, EntriesOfTuples DEF StoreInv, TypeOK
<1>7. TypeOK'
  <2>1. /\ DOMAIN submission' \subseteq Submission
        /\ submission' \in [DOMAIN submission' -> SubmissionStatus]
    BY <1>1, <1>4, WriteSubmissionType DEF StoreInv, SubmissionStatus
  <2>2. /\ DOMAIN run' \subseteq Run
        /\ run' \in [DOMAIN run' -> RunStatus]
    BY <1>3, <1>4, WriteRunType DEF StoreInv, RunStatus
  <2>3. QED
    BY <1>3, <1>4, <1>6, <2>1, <2>2 DEF StoreInv, TypeOK
<1>8. RebuildExact'
  BY <1>1, <1>3, <1>4, <1>6, StartIndexed DEF StoreInv, RebuildExact
<1>9. /\ \A u : u # s => /\ u \in DOMAIN submission' <=> u \in DOMAIN submission
                         /\ u \in DOMAIN submission => submission'[u] = submission[u]
      /\ s \in DOMAIN submission' /\ submission'[s] = "running"
      /\ \A q : q # r => /\ q \in DOMAIN run' <=> q \in DOMAIN run
                         /\ q \in DOMAIN run => run'[q] = run[q]
      /\ r \in DOMAIN run' /\ run'[r] = "running"
  BY <1>4 DEF Write
<1>10. EntriesKnown'
  <2>1. \A e \in {Admitted(r), Started(r)} :
          e.type \notin {"assistant.output.committed", "tool.outcome.recorded", "run.ended"}
    BY EntryFields
  <2>2. EntriesKnown /\ call' = call
    BY <1>4 DEF StoreInv
  <2>3. \A q \in DOMAIN run : q \in DOMAIN run'
    BY <1>9
  <2>4. QED
    BY <1>6, <2>1, <2>2, <2>3 DEF EntriesKnown
<1>11. ClaimedOnce'
  BY <1>2, <1>3, <1>9 DEF StoreInv, ClaimedOnce, SubmissionIs
<1>12. OneRunPerLock'
  <2>1. \A u \in DOMAIN submission :
          submission[u] = "running" => u.conv # s.conv /\ LockOf[u.conv] # LockOf[s.conv]
    BY <1>5 DEF ConversationBusy, LockBusy
  <2>2. OneRunPerLock
    BY DEF StoreInv
  <2>3. \A u \in DOMAIN submission' :
          u # s => u \in DOMAIN submission /\ submission'[u] = submission[u]
    BY <1>9
  <2>4. QED
    BY <2>1, <2>2, <2>3 DEF OneRunPerLock
<1>13. ReservationExcludesRuns'
  BY <1>4, <1>5, <1>9 DEF StoreInv, ReservationExcludesRuns
<1>14. NoStrandedCall'
  BY <1>3, <1>4, <1>9 DEF StoreInv, NoStrandedCall
<1>15. WorkersRunning' /\ WorkersNeedServer'
  BY <1>4, <1>9 DEF StoreInv, WorkersRunning, WorkersNeedServer, RunIs
<1>16. QED
  BY <1>7, <1>8, <1>10, <1>11, <1>12, <1>13, <1>14, <1>15 DEF StoreInv

(* What a worker still working on r knows of it.                           *)
LEMMA WorkerFacts ==
  ASSUME StoreInv, NEW r \in workers
  PROVE  /\ r \in Run /\ r.sub \in Submission /\ r.sub.conv \in Conversations
         /\ RunIs(r, "running") /\ SubmissionIs(r.sub, "running")
BY RunType DEF StoreInv, TypeOK, WorkersRunning, ClaimedOnce, RunIs, Submission

(* Entries of turns, outcomes and notes of a running run: no row of the    *)
(* tables submissions and runs changes.                                    *)
LEMMA EntryStep ==
  ASSUME StoreInv, NEW r, RunIs(r, "running"), NEW e, LogAppend(r.sub.conv, <<e>>), e \in Event,
         e.type \in {"assistant.output.committed", "tool.outcome.recorded", "note"},
         UNCHANGED <<submission, run, reserved>>
  PROVE  /\ log' \in [Conversations -> Seq(Event)] /\ Logged' = Logged \cup {e}
         /\ SubmissionIndex' = submission' /\ RunIndex' = run'
         /\ ClaimedOnce' /\ OneRunPerLock' /\ ReservationExcludesRuns'
<1>1. r.sub.conv \in Conversations
  BY RunType DEF StoreInv, TypeOK, RunIs, Submission
<1>2. log' \in [Conversations -> Seq(Event)] /\ Logged' = Logged \cup {e}
  <2>1. <<e>> \in Seq(Event)
    OBVIOUS
  <2>2. QED
    BY <1>1, <2>1, AppendLogged, EntriesOfTuples DEF StoreInv, TypeOK
<1>3. SubmissionIndex' = submission /\ RunIndex' = run
  <2> DEFINE E == {e}
  <2>1. Logged' = Logged \cup E
        /\ \A x \in E : x.type \in {"assistant.output.committed", "tool.outcome.recorded", "note"}
    BY <1>2
  <2> HIDE DEF E
  <2>2. QED
    BY <2>1, RunsUndisturbed DEF StoreInv
<1>4. ClaimedOnce' /\ OneRunPerLock' /\ ReservationExcludesRuns'
  BY DEF StoreInv, ClaimedOnce, OneRunPerLock, ReservationExcludesRuns, SubmissionIs
<1>5. QED
  BY <1>2, <1>3, <1>4

LEMMA CommitStep ==
  ASSUME StoreInv, NEW r \in workers, NEW S \in SUBSET Calls, CommitAssistantTurn(r, S)
  PROVE  StoreInv'
<1> DEFINE rows == {<<r, k>> : k \in S}
           e    == Committed(r, S)
<1>1. /\ r \in Run /\ RunIs(r, "running") /\ r \in DOMAIN run
  BY WorkerFacts DEF RunIs
<1>2. /\ \A k \in S : <<r, k>> \notin DOMAIN call
      /\ call' = Write(call, rows, "requested")
      /\ LogAppend(r.sub.conv, <<e>>)
      /\ UNCHANGED <<conversations, submission, run, reserved, clock, process, workers, restores>>
  BY DEF CommitAssistantTurn
<1>3. e \in Event /\ e.type = "assistant.output.committed" /\ e.run = r
  BY <1>1, EntriesTyped, EntryFields
<1> HIDE DEF e
<1>4. /\ log' \in [Conversations -> Seq(Event)] /\ Logged' = Logged \cup {e}
      /\ SubmissionIndex' = submission' /\ RunIndex' = run'
      /\ ClaimedOnce' /\ OneRunPerLock' /\ ReservationExcludesRuns'
  BY <1>1, <1>2, <1>3, EntryStep
<1>5. CallIndex' = call'
  BY <1>1, <1>2, <1>4, RequestIndexed DEF StoreInv, e
<1>6. \A p : /\ p \in DOMAIN call' <=> p \in DOMAIN call \/ p \in rows
             /\ p \in DOMAIN call /\ p \notin rows => call'[p] = call[p]
  BY <1>2 DEF Write
<1>7. TypeOK'
  <2>1. DOMAIN call' \subseteq Run \X Calls /\ call' \in [DOMAIN call' -> CallStatus]
    <3>1. rows \in SUBSET (Run \X Calls) /\ "requested" \in CallStatus
      BY <1>1, <1>2 DEF CallStatus
    <3>2. TypeOK /\ call' = Write(call, rows, "requested")
      BY <1>2 DEF StoreInv
    <3>3. QED
      BY <3>1, <3>2, WriteCallType
  <2>2. QED
    BY <1>2, <1>4, <2>1 DEF StoreInv, TypeOK
<1>8. EntriesKnown'
  BY <1>1, <1>2, <1>3, <1>4, <1>6 DEF StoreInv, EntriesKnown
<1>9. NoStrandedCall'
  BY <1>1, <1>2, <1>6 DEF StoreInv, NoStrandedCall, RunIs
<1>10. WorkersRunning' /\ WorkersNeedServer'
  BY <1>2 DEF StoreInv, WorkersRunning, WorkersNeedServer, RunIs
<1>11. QED
  BY <1>4, <1>5, <1>7, <1>8, <1>9, <1>10 DEF StoreInv, RebuildExact

LEMMA ToolFinishedStep ==
  ASSUME StoreInv, NEW r \in workers, NEW k \in Calls,
         NEW status \in {"completed", "failed", "denied"}, ToolFinished(r, k, status)
  PROVE  StoreInv'
<1> DEFINE rows == {<<r, k>>}
           e    == Outcome(r, {k}, status)
<1>1. /\ r \in Run /\ RunIs(r, "running") /\ r \in DOMAIN run
  BY WorkerFacts DEF RunIs
<1>2. /\ k \in RequestedCalls(r)
      /\ call' = Write(call, rows, status)
      /\ LogAppend(r.sub.conv, <<e>>)
      /\ UNCHANGED <<conversations, submission, run, reserved, clock, process, workers, restores>>
  BY DEF ToolFinished
<1>3. /\ e \in Event /\ e.type = "tool.outcome.recorded" /\ e.run = r /\ e.calls = {k}
  BY <1>1, EntriesTyped, EntryFields DEF ToolOutcome
<1> HIDE DEF e
<1>4. /\ log' \in [Conversations -> Seq(Event)] /\ Logged' = Logged \cup {e}
      /\ SubmissionIndex' = submission' /\ RunIndex' = run'
      /\ ClaimedOnce' /\ OneRunPerLock' /\ ReservationExcludesRuns'
  BY <1>1, <1>2, <1>3, EntryStep
<1>5. CallIndex' = call'
  <2> DEFINE S == {k}
             E == {}
  <2>1. /\ S # {} /\ S \subseteq RequestedCalls(r)
        /\ Logged' = Logged \cup {Outcome(r, S, status)} \cup E
        /\ \A x \in E : x.type = "run.ended"
    BY <1>2, <1>4 DEF e
  <2>2. {<<r, j>> : j \in S} = rows
    OBVIOUS
  <2> HIDE DEF S, E
  <2>3. CallIndex' = Write(call, {<<r, j>> : j \in S}, status)
    BY <2>1, OutcomeIndexed DEF StoreInv
  <2>4. QED
    BY <1>2, <2>2, <2>3
<1>6. \A p : /\ p \in DOMAIN call' <=> p \in DOMAIN call \/ p \in rows
             /\ p \in DOMAIN call /\ p \notin rows => call'[p] = call[p]
  BY <1>2 DEF Write
<1>7. TypeOK'
  <2>1. DOMAIN call' \subseteq Run \X Calls /\ call' \in [DOMAIN call' -> CallStatus]
    <3>1. rows \in SUBSET (Run \X Calls)
      BY <1>1
    <3>2. status \in CallStatus
      BY DEF CallStatus, ToolOutcome
    <3>3. TypeOK /\ call' = Write(call, rows, status)
      BY <1>2 DEF StoreInv
    <3>4. QED
      BY <3>1, <3>2, <3>3, WriteCallType
  <2>2. QED
    BY <1>2, <1>4, <2>1 DEF StoreInv, TypeOK
<1>8. EntriesKnown'
  BY <1>1, <1>2, <1>3, <1>4, <1>6 DEF StoreInv, EntriesKnown
<1>9. NoStrandedCall'
  <2>1. /\ \A p \in rows : p[1] = r
        /\ \A p \in DOMAIN call' : p \in rows \/ (p \in DOMAIN call /\ call'[p] = call[p])
    BY <1>6
  <2>2. QED
    BY <1>1, <1>2, <2>1 DEF StoreInv, NoStrandedCall, RunIs
<1>10. WorkersRunning' /\ WorkersNeedServer'
  BY <1>2 DEF StoreInv, WorkersRunning, WorkersNeedServer, RunIs
<1>11. QED
  BY <1>4, <1>5, <1>7, <1>8, <1>9, <1>10 DEF StoreInv, RebuildExact

LEMMA NoteStep ==
  ASSUME StoreInv, NEW r \in DOMAIN run, AppendNote(r)
  PROVE  StoreInv'
<1> DEFINE e == Note(r)
<1>1. /\ RunIs(r, "running") /\ r \in Run
      /\ LogAppend(r.sub.conv, <<e>>)
      /\ UNCHANGED <<conversations, tables, reserved, clock, process, workers, restores>>
  BY DEF AppendNote, MayNote, StoreInv, TypeOK
<1>2. e \in Event /\ e.type = "note"
  BY <1>1, EntriesTyped, EntryFields
<1> HIDE DEF e
<1>3. /\ log' \in [Conversations -> Seq(Event)] /\ Logged' = Logged \cup {e}
      /\ SubmissionIndex' = submission' /\ RunIndex' = run'
      /\ ClaimedOnce' /\ OneRunPerLock' /\ ReservationExcludesRuns'
  BY <1>1, <1>2, EntryStep DEF tables
<1>4. CallIndex' = call'
  BY <1>1, <1>2, <1>3, CallsUndisturbed DEF StoreInv, tables
<1>5. TypeOK' /\ EntriesKnown' /\ NoStrandedCall'
  BY <1>1, <1>2, <1>3 DEF StoreInv, TypeOK, EntriesKnown, NoStrandedCall, tables
<1>6. WorkersRunning' /\ WorkersNeedServer'
  BY <1>1 DEF StoreInv, WorkersRunning, WorkersNeedServer, RunIs, tables
<1>7. QED
  BY <1>3, <1>4, <1>5, <1>6 DEF StoreInv, RebuildExact

(* A running run that ends: what FinishRun and EndRun share.               *)
LEMMA EndingStep ==
  ASSUME StoreInv, NEW r \in Run, RunIs(r, "running"), NEW status \in TerminalStatus,
         submission' = Write(submission, {r.sub}, status),
         run' = Write(run, {r}, status)
  PROVE  /\ DOMAIN submission' = DOMAIN submission /\ DOMAIN run' = DOMAIN run
         /\ submission' \in [DOMAIN submission' -> SubmissionStatus]
         /\ run' \in [DOMAIN run' -> RunStatus]
         /\ ClaimedOnce' /\ OneRunPerLock'
         /\ UNCHANGED reserved => ReservationExcludesRuns'
         /\ \A q \in DOMAIN run : q # r => run'[q] = run[q]
<1>1. r \in DOMAIN run /\ r.sub \in DOMAIN submission /\ r.sub \in Submission
  BY RunType DEF RunIs, StoreInv, ClaimedOnce, SubmissionIs
<1>2. /\ DOMAIN submission' = DOMAIN submission /\ DOMAIN run' = DOMAIN run
      /\ submission'[r.sub] = status /\ run'[r] = status
      /\ \A s \in DOMAIN submission : s # r.sub => submission'[s] = submission[s]
      /\ \A q \in DOMAIN run : q # r => run'[q] = run[q]
  BY <1>1 DEF Write
<1>3. submission' \in [DOMAIN submission' -> SubmissionStatus]
  BY <1>1, WriteSubmissionType DEF StoreInv, SubmissionStatus
<1>4. run' \in [DOMAIN run' -> RunStatus]
  BY WriteRunType DEF StoreInv, RunStatus
<1>5. ClaimedOnce'
  BY <1>1, <1>2 DEF StoreInv, ClaimedOnce, SubmissionIs
<1>6. \A s \in DOMAIN submission' : submission'[s] = "running" =>
        s \in DOMAIN submission /\ submission[s] = "running"
  BY <1>2 DEF TerminalStatus
<1>7. OneRunPerLock'
  BY <1>6 DEF StoreInv, OneRunPerLock
<1>8. UNCHANGED reserved => ReservationExcludesRuns'
  BY <1>6 DEF StoreInv, ReservationExcludesRuns
<1>9. QED
  BY <1>2, <1>3, <1>4, <1>5, <1>7, <1>8

LEMMA FinishStep ==
  ASSUME StoreInv, NEW r \in workers, FinishRun(r)
  PROVE  StoreInv'
<1> DEFINE answer == Committed(r, {})
           end    == Ended(r, "completed")
<1>1. /\ r \in Run /\ r.sub.conv \in Conversations /\ RunIs(r, "running") /\ r \in DOMAIN run
  BY WorkerFacts DEF RunIs
<1>2. /\ RequestedCalls(r) = {}
      /\ submission' = Write(submission, {r.sub}, "completed")
      /\ run' = Write(run, {r}, "completed")
      /\ LogAppend(r.sub.conv, <<answer, end>>)
      /\ workers' = workers \ {r}
      /\ UNCHANGED <<conversations, call, reserved, clock, process, restores>>
  BY DEF FinishRun, ResolvedBefore
<1>3. /\ answer \in Event /\ answer.type = "assistant.output.committed"
      /\ answer.run = r /\ answer.calls = {}
      /\ end \in Event /\ end.type = "run.ended" /\ end.run = r
  BY <1>1, EntriesTyped, EntryFields DEF TerminalStatus
<1> DEFINE E == {answer}
           all == {answer, end}
<1>4. log' \in [Conversations -> Seq(Event)] /\ Logged' = Logged \cup all
  <2>1. <<answer, end>> \in Seq(Event)
    BY <1>3
  <2>2. QED
    BY <1>1, <1>2, <2>1, AppendLogged, EntriesOfTuples DEF StoreInv, TypeOK
<1>5. /\ Logged' = Logged \cup E \cup {Ended(r, "completed")}
      /\ \A e \in E : e.type \in {"assistant.output.committed", "tool.outcome.recorded"}
      /\ \A e \in all : \/ e.type \in {"note", "run.ended"}
                        \/ e.type = "assistant.output.committed" /\ e.calls = {}
      /\ \A e \in all : e.run = r
  BY <1>3, <1>4
<1>6. "completed" \in TerminalStatus
  BY DEF TerminalStatus
<1> HIDE DEF E, all, answer, end
<1>7. RebuildExact'
  BY <1>1, <1>2, <1>4, <1>5, EndIndexed, CallsUndisturbed DEF StoreInv, RebuildExact
<1>8. /\ DOMAIN submission' = DOMAIN submission /\ DOMAIN run' = DOMAIN run
      /\ submission' \in [DOMAIN submission' -> SubmissionStatus]
      /\ run' \in [DOMAIN run' -> RunStatus]
      /\ ClaimedOnce' /\ OneRunPerLock' /\ ReservationExcludesRuns'
      /\ \A q \in DOMAIN run : q # r => run'[q] = run[q]
  BY <1>1, <1>2, <1>6, EndingStep
<1>9. TypeOK'
  BY <1>2, <1>4, <1>8 DEF StoreInv, TypeOK
<1>10. EntriesKnown'
  <2>1. \A e \in Logged' : e \in Logged \/ (e.run = r /\ e.type # "tool.outcome.recorded")
    BY <1>4, <1>5
  <2>2. QED
    BY <1>1, <1>2, <1>8, <2>1 DEF StoreInv, EntriesKnown
<1>11. NoStrandedCall'
  <2>1. ASSUME NEW p \in DOMAIN call, call[p] = "requested"
        PROVE  p[1] # r
    BY <1>2, <2>1 DEF StoreInv, TypeOK, RequestedCalls
  <2>2. QED
    BY <1>2, <1>8, <2>1 DEF StoreInv, NoStrandedCall
<1>12. WorkersRunning' /\ WorkersNeedServer'
  BY <1>2, <1>8 DEF StoreInv, WorkersRunning, WorkersNeedServer, RunIs
<1>13. QED
  BY <1>7, <1>8, <1>9, <1>10, <1>11, <1>12 DEF StoreInv

(* FailRun, StopRun and each step of the recovery.                         *)
LEMMA EndRunStep ==
  ASSUME StoreInv, NEW r, RunIs(r, "running"), NEW status \in TerminalStatus, EndRun(r, status),
         workers' = workers \ {r}, UNCHANGED <<conversations, reserved, clock, process>>,
         restores' \subseteq Workspaces
  PROVE  StoreInv'
<1> DEFINE S    == RequestedCalls(r)
           rows == {<<r, k>> : k \in S}
           end  == Ended(r, status)
<1>1. /\ r \in Run /\ r.sub.conv \in Conversations /\ r \in DOMAIN run /\ S \in SUBSET Calls
  BY RunType DEF RunIs, StoreInv, TypeOK, Submission, RequestedCalls
<1>2. /\ call' = Write(call, rows, "interrupted")
      /\ submission' = Write(submission, {r.sub}, status)
      /\ run' = Write(run, {r}, status)
      /\ LogAppend(r.sub.conv, Interruption(r) \o <<end>>)
  BY DEF EndRun
<1>3. end \in Event /\ end.type = "run.ended" /\ end.run = r
  BY <1>1, EntriesTyped, EntryFields
<1>4. /\ DOMAIN submission' = DOMAIN submission /\ DOMAIN run' = DOMAIN run
      /\ submission' \in [DOMAIN submission' -> SubmissionStatus]
      /\ run' \in [DOMAIN run' -> RunStatus]
      /\ ClaimedOnce' /\ OneRunPerLock' /\ ReservationExcludesRuns'
      /\ \A q \in DOMAIN run : q # r => run'[q] = run[q]
  BY <1>1, <1>2, EndingStep
<1>5. rows \subseteq DOMAIN call /\ \A p \in DOMAIN call : p[1] = r /\ call[p] = "requested" => p \in rows
  <2>1. rows \subseteq DOMAIN call
    BY DEF RequestedCalls
  <2>2. ASSUME NEW p \in DOMAIN call, p[1] = r, call[p] = "requested"
        PROVE  p \in rows
    <3>1. p = <<r, p[2]>> /\ p[2] \in Calls
      BY <2>2 DEF StoreInv, TypeOK
    <3>2. p[2] \in S
      BY <2>2, <3>1 DEF RequestedCalls
    <3>3. QED
      BY <3>1, <3>2
  <2>3. QED
    BY <2>1, <2>2
<1>6. /\ DOMAIN call' = DOMAIN call
      /\ \A p \in rows : call'[p] = "interrupted"
      /\ \A p \in DOMAIN call : p \notin rows => call'[p] = call[p]
  BY <1>2, <1>5 DEF Write
<1>7. DOMAIN call' \subseteq Run \X Calls /\ call' \in [DOMAIN call' -> CallStatus]
  BY <1>1, <1>2, WriteCallType DEF StoreInv, CallStatus, ToolOutcome
<1>8. NoStrandedCall'
  BY <1>4, <1>5, <1>6 DEF StoreInv, NoStrandedCall
<1>9. WorkersRunning' /\ WorkersNeedServer'
  BY <1>4 DEF StoreInv, WorkersRunning, WorkersNeedServer, RunIs
<1> HIDE DEF rows, end
<1>10. CASE S = {}
  <2> DEFINE E == {}
             all == {end}
  <2>1. Interruption(r) \o <<end>> = <<end>> /\ <<end>> \in Seq(Event)
    BY <1>3, <1>10 DEF Interruption
  <2>2. log' \in [Conversations -> Seq(Event)] /\ Logged' = Logged \cup all
    BY <1>1, <1>2, <2>1, AppendLogged, EntriesOfTuples DEF StoreInv, TypeOK
  <2>3. /\ Logged' = Logged \cup E \cup {Ended(r, status)}
        /\ \A e \in E : e.type \in {"assistant.output.committed", "tool.outcome.recorded"}
        /\ \A e \in all : e.type \in {"note", "run.ended"} /\ e.run = r
    BY <1>3, <2>2 DEF end
  <2>4. call' = call
    BY <1>2, <1>10 DEF rows, Write, StoreInv, TypeOK
  <2> HIDE DEF E, all
  <2>5. RebuildExact'
    BY <1>2, <2>2, <2>3, <2>4, EndIndexed, CallsUndisturbed DEF StoreInv, RebuildExact
  <2>6. TypeOK'
    BY <1>4, <1>7, <2>2 DEF StoreInv, TypeOK
  <2>7. EntriesKnown'
    BY <1>1, <1>4, <1>6, <2>2, <2>3 DEF StoreInv, EntriesKnown
  <2>8. QED
    BY <1>4, <1>8, <1>9, <2>5, <2>6, <2>7 DEF StoreInv
<1>11. CASE S # {}
  <2> DEFINE cut == Outcome(r, S, "interrupted")
             E == {cut}
             F == {end}
  <2>1. cut \in Event /\ cut.type = "tool.outcome.recorded" /\ cut.run = r /\ cut.calls = S
    BY <1>1, EntriesTyped, EntryFields DEF ToolOutcome
  <2>2. /\ Interruption(r) \o <<end>> \in Seq(Event)
        /\ Entries(Interruption(r) \o <<end>>) = {cut, end}
    <3>1. Interruption(r) = <<cut>>
      BY <1>11 DEF Interruption
    <3> HIDE DEF cut
    <3>2. <<cut>> \in Seq(Event) /\ <<end>> \in Seq(Event)
      BY <1>3, <2>1
    <3>3. <<cut>> \o <<end>> \in Seq(Event)
      BY <3>2, ConcatProperties
    <3>4. Entries(<<cut>> \o <<end>>) = {cut} \cup {end}
      <4>1. Entries(<<cut>> \o <<end>>) = Entries(<<cut>>) \cup Entries(<<end>>)
        BY <3>2, ConcatEntries, Zenon
      <4>2. Entries(<<cut>>) = {cut} /\ Entries(<<end>>) = {end}
        BY EntriesOfTuples, Zenon
      <4>3. QED
        BY <4>1, <4>2, Zenon
    <3>5. QED
      BY <3>1, <3>3, <3>4
  <2>3. log' \in [Conversations -> Seq(Event)] /\ Logged' = Logged \cup {cut, end}
    BY <1>1, <1>2, <2>2, AppendLogged DEF StoreInv, TypeOK
  <2>4. /\ Logged' = Logged \cup E \cup {Ended(r, status)}
        /\ Logged' = Logged \cup {Outcome(r, S, "interrupted")} \cup F
        /\ \A e \in E : e.type \in {"assistant.output.committed", "tool.outcome.recorded"}
        /\ \A e \in F : e.type = "run.ended"
    BY <1>3, <2>1, <2>3 DEF end
  <2>5. EntriesKnown'
    <3>1. \A k \in S : <<r, k>> \in DOMAIN call
      BY <1>5 DEF rows
    <3>2. QED
      BY <1>1, <1>3, <1>4, <1>6, <2>1, <2>3, <3>1 DEF StoreInv, EntriesKnown
  <2> HIDE DEF cut, E, F
  <2>6. CallIndex' = call'
    BY <1>2, <1>11, <2>4, OutcomeIndexed DEF StoreInv, rows
  <2>7. SubmissionIndex' = submission' /\ RunIndex' = run'
    BY <1>2, <2>4, EndIndexed DEF StoreInv
  <2>8. TypeOK'
    BY <1>4, <1>7, <2>3 DEF StoreInv, TypeOK
  <2>9. QED
    BY <1>4, <1>8, <1>9, <2>5, <2>6, <2>7, <2>8 DEF StoreInv, RebuildExact
<1>12. QED
  BY <1>10, <1>11

LEMMA WorkerPreserves ==
  ASSUME StoreInv, NEW r \in workers, WorkerStep(r)
  PROVE  StoreInv'
<1>1. RunIs(r, "running")
  BY WorkerFacts
<1>2. CASE \E S \in SUBSET Calls : CommitAssistantTurn(r, S)
  BY <1>2, CommitStep
<1>3. CASE \E k \in Calls, status \in {"completed", "failed", "denied"} : ToolFinished(r, k, status)
  BY <1>3, ToolFinishedStep
<1>4. CASE FinishRun(r)
  BY <1>4, FinishStep
<1>5. CASE FailRun(r) \/ StopRun(r)
  BY <1>1, <1>5, EndRunStep DEF FailRun, StopRun, TerminalStatus, StoreInv, TypeOK
<1>6. CASE EndNotPersisted(r)
  <2>1. UNCHANGED <<log, tables>> /\ UNCHANGED <<conversations, reserved, clock, process, restores>>
        /\ workers' \subseteq workers
    BY <1>6 DEF EndNotPersisted
  <2>2. TypeOK' /\ ReservationExcludesRuns' /\ WorkersRunning' /\ WorkersNeedServer'
    BY <2>1 DEF StoreInv, TypeOK, ReservationExcludesRuns, WorkersRunning, WorkersNeedServer, RunIs, tables
  <2>3. QED
    BY <2>1, <2>2, QuietStep DEF StoreInv
<1>7. QED
  BY <1>2, <1>3, <1>4, <1>5, <1>6 DEF WorkerStep

(* Steps that write neither entries nor rows: reservations, crash, restart. *)
LEMMA OutsidePreserves ==
  ASSUME StoreInv,
         \/ \E c \in Conversations : CreateConversation(c)
         \/ \E w \in Workspaces : ReserveWorkspace(w) \/ ReleaseWorkspace(w) \/ ReleaseFailed(w)
         \/ Crash
         \/ ClearReservations
         \/ Serve
  PROVE  StoreInv'
<1>1. UNCHANGED <<log, tables>>
  BY DEF CreateConversation, ReserveWorkspace, ReleaseWorkspace, ReleaseFailed, Crash,
         ClearReservations, Serve
<1>2. TypeOK'
  BY <1>1 DEF StoreInv, TypeOK, tables, CreateConversation, ReserveWorkspace, ReleaseWorkspace,
         ReleaseFailed, Crash, ClearReservations, Serve
<1>3. ReservationExcludesRuns'
  BY <1>1 DEF StoreInv, ReservationExcludesRuns, tables, CreateConversation, ReserveWorkspace,
         WorkspaceBusy, ReleaseWorkspace, ReleaseFailed, Crash, ClearReservations, Serve
<1>4. WorkersRunning' /\ WorkersNeedServer'
  BY <1>1 DEF StoreInv, WorkersRunning, WorkersNeedServer, RunIs, tables, CreateConversation,
         ReserveWorkspace, ReleaseWorkspace, ReleaseFailed, Crash, ClearReservations, Serve
<1>5. QED
  BY <1>1, <1>2, <1>3, <1>4, QuietStep DEF StoreInv

(* Opening the store rewrites every row, and changes none.                 *)
LEMMA OpenPreserves ==
  ASSUME StoreInv, Open
  PROVE  UNCHANGED tables /\ StoreInv'
<1>1. UNCHANGED <<log, tables>> /\ UNCHANGED <<conversations, reserved, clock, workers, restores>>
      /\ process' = "recovering" /\ process = "down"
  BY DEF Open, StoreInv, RebuildExact, tables
<1>2. TypeOK' /\ ReservationExcludesRuns' /\ WorkersRunning' /\ WorkersNeedServer'
  BY <1>1 DEF StoreInv, TypeOK, ReservationExcludesRuns, WorkersRunning, WorkersNeedServer, RunIs, tables
<1>3. QED
  BY <1>1, <1>2, QuietStep DEF StoreInv

LEMMA RecoverPreserves ==
  ASSUME StoreInv, NEW r, RecoverRun(r)
  PROVE  StoreInv'
<1>1. workers' = workers \ {r} /\ restores' \subseteq Workspaces
  BY DEF RecoverRun, StoreInv, TypeOK, WorkersNeedServer
<1>2. QED
  BY <1>1, EndRunStep DEF RecoverRun, TerminalStatus

LEMMA InitEstablishes == Init => StoreInv
<1> SUFFICES ASSUME Init PROVE StoreInv
  OBVIOUS
<1>1. DOMAIN EmptyTable = {} /\ EmptyTable = [x \in {} |-> "requested"]
  BY DEF EmptyTable
<1>2. Logged = {}
  BY DEF Init, Logged
<1>3. TypeOK
  BY <1>1, BoundAssumption DEF Init, TypeOK
<1>4. RebuildExact
  <2>1. LoggedSubmissions = {} /\ LoggedRuns = {} /\ LoggedCalls = {}
    BY <1>2 DEF LoggedSubmissions, LoggedRuns, LoggedCalls, LoggedOf
  <2>2. QED
    BY <2>1 DEF Init, RebuildExact, SubmissionIndex, RunIndex, CallIndex, EmptyTable
<1>5. EntriesKnown
  BY <1>2 DEF EntriesKnown
<1>6. /\ ClaimedOnce /\ OneRunPerLock /\ ReservationExcludesRuns /\ NoStrandedCall
      /\ WorkersRunning /\ WorkersNeedServer
  BY <1>1 DEF Init, ClaimedOnce, OneRunPerLock, ReservationExcludesRuns, NoStrandedCall,
              WorkersRunning, WorkersNeedServer
<1>7. QED
  BY <1>3, <1>4, <1>5, <1>6 DEF StoreInv

LEMMA NextPreserves == StoreInv /\ [Next]_vars => StoreInv'
<1> SUFFICES ASSUME StoreInv, [Next]_vars PROVE StoreInv'
  OBVIOUS
<1>1. CASE \E c \in Conversations, k \in Keys, t \in 1..MaxTime : Accept(c, k, t)
  BY <1>1, AcceptStep
<1>2. CASE \E s \in DOMAIN submission : ClaimRunnable(s)
  BY <1>2, ClaimStep
<1>3. CASE \E r \in workers : WorkerStep(r)
  BY <1>3, WorkerPreserves
<1>4. CASE \E r \in DOMAIN run : AppendNote(r)
  BY <1>4, NoteStep
<1>5. CASE \/ \E c \in Conversations : CreateConversation(c)
           \/ \E w \in Workspaces : ReserveWorkspace(w) \/ ReleaseWorkspace(w) \/ ReleaseFailed(w)
           \/ Crash \/ ClearReservations \/ Serve
  BY <1>5, OutsidePreserves
<1>6. CASE Open
  BY <1>6, OpenPreserves
<1>7. CASE \E r \in DOMAIN run : RecoverRun(r)
  BY <1>7, RecoverPreserves
<1>8. CASE UNCHANGED vars
  <2>1. UNCHANGED <<log, tables>>
    BY <1>8 DEF vars, tables
  <2>2. TypeOK' /\ ReservationExcludesRuns' /\ WorkersRunning' /\ WorkersNeedServer'
    BY <1>8 DEF vars, tables, StoreInv, TypeOK, ReservationExcludesRuns, WorkersRunning,
                WorkersNeedServer, RunIs
  <2>3. QED
    BY <2>1, <2>2, QuietStep DEF StoreInv
<1>9. QED
  BY <1>1, <1>2, <1>3, <1>4, <1>5, <1>6, <1>7, <1>8 DEF Next

-----------------------------------------------------------------------------
(* What a step does to the submissions, as the queue sees it.              *)

Ending(r, outcome) ==
  /\ r.sub \in Submission
  /\ SubmissionIs(r.sub, "running")
  /\ submission' = Write(submission, {r.sub}, outcome)
  /\ reserved' = reserved

(* Every step leaves the submissions and reservations alone or is one of   *)
(* five: an acceptance, a claim, an ending, a reservation, a release.      *)
LEMMA StepKinds ==
  ASSUME StoreInv, [Next]_vars
  PROVE  \/ UNCHANGED <<submission, reserved>>
         \/ \E c \in Conversations, k \in Keys, t \in 1..MaxTime : Accept(c, k, t)
         \/ \E s \in DOMAIN submission : ClaimRunnable(s)
         \/ \E r \in DOMAIN run, outcome \in TerminalStatus : Ending(r, outcome)
         \/ \E w \in Workspaces : ReserveWorkspace(w)
         \/ submission' = submission /\ reserved' \subseteq reserved
<1>1. \A r \in DOMAIN run : RunIs(r, "running") => r.sub \in Submission /\ SubmissionIs(r.sub, "running")
  BY RunType DEF StoreInv, TypeOK, ClaimedOnce, RunIs
<1>2. CASE \E r \in workers : WorkerStep(r)
  <2> PICK r \in workers : WorkerStep(r)
    BY <1>2
  <2>1. r \in DOMAIN run /\ r.sub \in Submission /\ SubmissionIs(r.sub, "running")
    BY WorkerFacts DEF RunIs
  <2>2. CASE FinishRun(r)
    BY <2>1, <2>2 DEF FinishRun, Ending, TerminalStatus
  <2>3. CASE FailRun(r) \/ StopRun(r)
    BY <2>1, <2>3 DEF FailRun, StopRun, EndRun, Ending, TerminalStatus
  <2>4. CASE ~(FinishRun(r) \/ FailRun(r) \/ StopRun(r))
    BY <2>4 DEF WorkerStep, CommitAssistantTurn, ToolFinished, EndNotPersisted, tables
  <2>5. QED
    BY <2>2, <2>3, <2>4
<1>3. CASE \E r \in DOMAIN run : RecoverRun(r)
  BY <1>1, <1>3 DEF RecoverRun, EndRun, Ending, TerminalStatus
<1>4. CASE Open
  BY <1>4, OpenPreserves DEF Open, tables
<1>5. CASE \/ \E w \in Workspaces : ReleaseWorkspace(w) \/ ReleaseFailed(w)
           \/ ClearReservations
  BY <1>5 DEF ReleaseWorkspace, ReleaseFailed, ClearReservations, tables
<1>6. CASE \/ \E c \in Conversations : CreateConversation(c)
           \/ \E r \in DOMAIN run : AppendNote(r)
           \/ Crash \/ Serve \/ UNCHANGED vars
  BY <1>6 DEF CreateConversation, AppendNote, Crash, Serve, vars, tables
<1>7. QED
  BY <1>2, <1>3, <1>4, <1>5, <1>6 DEF Next

LEMMA EndedStays ==
  ASSUME StoreInv, [Next]_vars, NEW s \in DOMAIN submission, submission[s] \in TerminalStatus
  PROVE  s \in DOMAIN submission' /\ submission'[s] = submission[s]
<1>1. CASE \E c \in Conversations, k \in Keys, t \in 1..MaxTime : Accept(c, k, t)
  <2> PICK c \in Conversations, k \in Keys, t \in 1..MaxTime : Accept(c, k, t)
    BY <1>1
  <2> DEFINE a == [conv |-> c, key |-> k, at |-> t]
  <2>1. submission' = Write(submission, {a}, "queued") /\ a # s
    BY DEF Accept, Duplicate
  <2> HIDE DEF a
  <2>2. QED
    BY <2>1 DEF Write
<1>2. CASE \E a \in DOMAIN submission : ClaimRunnable(a)
  <2> PICK a \in DOMAIN submission : ClaimRunnable(a)
    BY <1>2
  <2>1. submission' = Write(submission, {a}, "running") /\ a # s
    BY DEF ClaimRunnable, Eligible, SubmissionIs, TerminalStatus
  <2>2. QED
    BY <2>1 DEF Write
<1>3. CASE \E r \in DOMAIN run, outcome \in TerminalStatus : Ending(r, outcome)
  <2> PICK r \in DOMAIN run, outcome \in TerminalStatus : Ending(r, outcome)
    BY <1>3
  <2>1. submission' = Write(submission, {r.sub}, outcome) /\ r.sub # s
    BY DEF Ending, SubmissionIs, TerminalStatus
  <2>2. QED
    BY <2>1 DEF Write
<1>4. CASE submission' = submission
  BY <1>4
<1>5. QED
  BY <1>1, <1>2, <1>3, <1>4, StepKinds DEF ReserveWorkspace, tables

-----------------------------------------------------------------------------
(* The refinement: what a step does to the state of the queue.             *)

LEMMA QueueWrite ==
  ASSUME NEW s \in Submission, NEW status, submission' = Write(submission, {s}, status)
  PROVE  QueueState' = [QueueState EXCEPT ![s] = status]
<1>1. /\ QueueState' \in [Submission -> {QueueState'[u] : u \in Submission}]
      /\ \A u \in Submission : QueueState'[u] = IF u = s THEN status ELSE QueueState[u]
  BY DEF QueueState, Write
<1>2. QED
  BY <1>1 DEF QueueState

LEMMA QueueRow ==
  ASSUME NEW s \in Submission, NEW status \in SubmissionStatus
  PROVE  QueueState[s] = status <=> SubmissionIs(s, status)
BY DEF QueueState, SubmissionIs, SubmissionStatus, TerminalStatus

LEMMA AcceptSubmits ==
  ASSUME StoreInv, NEW c \in Conversations, NEW k \in Keys, NEW t \in 1..MaxTime, Accept(c, k, t)
  PROVE  \E s \in Submission : Queue!Submit(s)
<1> DEFINE s == [conv |-> c, key |-> k, at |-> t]
<1>1. /\ s \in Submission /\ s \notin DOMAIN submission
      /\ submission' = Write(submission, {s}, "queued") /\ reserved' = reserved
  BY DEF Accept, Duplicate, Submission
<1> HIDE DEF s
<1>2. QueueState[s] = "absent"
  BY <1>1 DEF QueueState
<1>3. QueueState' = [QueueState EXCEPT ![s] = "queued"]
  BY <1>1, QueueWrite
<1>4. QED
  BY <1>1, <1>2, <1>3 DEF Queue!Submit

LEMMA ClaimBegins ==
  ASSUME StoreInv, NEW s \in DOMAIN submission, ClaimRunnable(s)
  PROVE  s \in Submission /\ Queue!Begin(s)
<1>1. /\ s \in Submission /\ Eligible(s) /\ SubmissionIs(s, "queued")
      /\ submission' = Write(submission, {s}, "running") /\ reserved' = reserved
  BY DEF ClaimRunnable, Eligible, StoreInv, TypeOK
<1>2. QueueState' = [QueueState EXCEPT ![s] = "running"]
  BY <1>1, QueueWrite
<1>3. QueueState[s] = "queued"
  BY <1>1, QueueRow DEF SubmissionStatus
<1>4. \A u \in Submission : QueueState[u] = "running" => u \in DOMAIN submission /\ submission[u] = "running"
  BY QueueRow DEF SubmissionStatus, SubmissionIs
<1>5. WorkspaceOf[s.conv] \notin reserved /\ \A u \in Submission : QueueState[u] = "running" => LockOf[u.conv] # LockOf[s.conv]
  BY <1>1, <1>4 DEF Eligible, LockBusy
<1>6. QED
  BY <1>1, <1>2, <1>3, <1>5 DEF Queue!Begin, Queue!MayBegin

LEMMA EndingEnds ==
  ASSUME NEW r, NEW outcome \in TerminalStatus, Ending(r, outcome)
  PROVE  \E s \in Submission : Queue!End(s, outcome)
<1>1. QueueState' = [QueueState EXCEPT ![r.sub] = outcome]
  BY QueueWrite DEF Ending
<1>2. QueueState[r.sub] = "running"
  BY QueueRow DEF Ending, SubmissionStatus
<1>3. QED
  BY <1>1, <1>2 DEF Ending, Queue!End

LEMMA ReservationHolds ==
  ASSUME StoreInv, NEW w \in Workspaces, ReserveWorkspace(w)
  PROVE  Queue!Hold(w)
<1>1. QueueState' = QueueState
  BY DEF ReserveWorkspace, tables, QueueState
<1>2. \A u \in Submission : QueueState[u] = "running" => WorkspaceOf[u.conv] # w
  BY QueueRow DEF ReserveWorkspace, WorkspaceBusy, SubmissionStatus, SubmissionIs
<1>3. QED
  BY <1>1, <1>2 DEF ReserveWorkspace, Queue!Hold

LEMMA StepImplements ==
  ASSUME StoreInv, [Next]_vars
  PROVE  [Queue!Next]_Queue!queueVars
<1>1. CASE UNCHANGED <<submission, reserved>>
  BY <1>1 DEF Queue!queueVars, QueueState
<1>2. CASE \E c \in Conversations, k \in Keys, t \in 1..MaxTime : Accept(c, k, t)
  BY <1>2, AcceptSubmits DEF Queue!Next
<1>3. CASE \E s \in DOMAIN submission : ClaimRunnable(s)
  BY <1>3, ClaimBegins DEF Queue!Next
<1>4. CASE \E r \in DOMAIN run, outcome \in TerminalStatus : Ending(r, outcome)
  BY <1>4, EndingEnds DEF Queue!Next, Queue!Outcomes, TerminalStatus
<1>5. CASE \E w \in Workspaces : ReserveWorkspace(w)
  BY <1>5, ReservationHolds DEF Queue!Next
<1>6. CASE submission' = submission /\ reserved' \subseteq reserved
  <2> DEFINE W == reserved \ reserved'
  <2>1. W \in SUBSET Workspaces /\ reserved' = reserved \ W
    BY <1>6 DEF StoreInv, TypeOK
  <2>2. QueueState' = QueueState
    BY <1>6 DEF QueueState
  <2>3. QED
    BY <2>1, <2>2 DEF Queue!Next, Queue!Release
<1>7. QED
  BY <1>1, <1>2, <1>3, <1>4, <1>5, <1>6, StepKinds

LEMMA InitImplements == Init => Queue!Init
BY DEF Init, Queue!Init, QueueState, EmptyTable

-----------------------------------------------------------------------------
(* The order of a run's entries.                                           *)

(* A start is logged in the conversation of the submission it claims.      *)
StartsAtHome ==
  \A c \in Conversations : \A i \in DOMAIN log[c] :
    log[c][i].type = "run.started" => log[c][i].run.sub.conv = c

BracketInv == StartsAtHome /\ RunEntriesBracketed

(* Entries that may stand anywhere.                                        *)
Free == {"input.accepted", "input.admitted", "run.started"}

(* A concatenation, entry by entry.                                        *)
LEMMA ConcatPositions ==
  ASSUME NEW S, NEW s \in Seq(S), NEW t \in Seq(S)
  PROVE  /\ \A i \in DOMAIN s : i \in DOMAIN (s \o t) /\ (s \o t)[i] = s[i]
         /\ \A i \in DOMAIN (s \o t) :
              \/ i \in DOMAIN s /\ (s \o t)[i] = s[i]
              \/ \E j \in DOMAIN t : i = Len(s) + j /\ (s \o t)[i] = t[j]
OBVIOUS

(* What one operation appends to a log keeps its order when it is of a run *)
(* that has started there and has not ended, and ends it last, if at all.  *)
LEMMA AppendBracketed ==
  ASSUME StoreInv, BracketInv, NEW c \in Conversations, NEW events \in Seq(Event), LogAppend(c, events),
         \A i \in DOMAIN events :
           /\ events[i].type = "run.started" => events[i].run.sub.conv = c
           /\ events[i].type \notin Free =>
                /\ RunIs(events[i].run, "running") /\ events[i].run.sub.conv = c
                /\ \A j \in 1..(i - 1) : events[j].type # "run.ended"
  PROVE  BracketInv'
<1>1. log' = [log EXCEPT ![c] = log[c] \o events] /\ log \in [Conversations -> Seq(Event)]
  BY DEF LogAppend, StoreInv, TypeOK
<1> DEFINE old == log[c]
           new == log'[c]
<1>2. new = old \o events /\ old \in Seq(Event) /\ \A d \in Conversations : d # c => log'[d] = log[d]
  BY <1>1
<1>3. /\ \A i \in DOMAIN old : i \in DOMAIN new /\ new[i] = old[i]
      /\ \A i \in DOMAIN new : \/ i \in DOMAIN old /\ new[i] = old[i]
                               \/ \E j \in DOMAIN events : i = Len(old) + j /\ new[i] = events[j]
  BY <1>2, ConcatPositions
<1>4. Len(old) \in Nat /\ DOMAIN old = 1..Len(old) /\ DOMAIN events = 1..Len(events) /\ Len(events) \in Nat
  BY <1>2, LenProperties
<1>5. ASSUME NEW r, RunIs(r, "running"), r.sub.conv = c
      PROVE  /\ \E j \in DOMAIN old : old[j] = Started(r)
             /\ \A j \in DOMAIN old : old[j].type = "run.ended" => old[j].run # r
  <2>1. r \in LoggedRuns /\ EndsOf(r) = {}
    BY <1>5, IndexFacts DEF StoreInv, RunIs
  <2>2. PICK e \in Logged : e.type = "run.started" /\ e.run = r
    BY <2>1 DEF LoggedRuns, LoggedOf
  <2>3. e = Started(r)
    BY <1>1, <2>2, LoggedType DEF Event, Started
  <2>4. PICK d \in Conversations : \E j \in DOMAIN log[d] : log[d][j] = e
    BY DEF Logged
  <2>5. d = c
    BY <1>5, <2>2, <2>4 DEF BracketInv, StartsAtHome
  <2>6. \A j \in DOMAIN old : old[j] \in Logged
    BY DEF Logged
  <2>7. QED
    BY <2>1, <2>3, <2>4, <2>5, <2>6 DEF EndsOf, LoggedOf
<1> HIDE DEF old, new
<1>6. StartsAtHome'
  <2> SUFFICES ASSUME NEW d \in Conversations, NEW i \in DOMAIN log'[d], log'[d][i].type = "run.started"
               PROVE  log'[d][i].run.sub.conv = d
    BY DEF StartsAtHome
  <2>1. CASE d # c
    BY <1>2, <2>1 DEF BracketInv, StartsAtHome
  <2>2. CASE d = c
    BY <1>3, <2>2 DEF BracketInv, StartsAtHome, old, new
  <2>3. QED
    BY <2>1, <2>2
<1>7. RunEntriesBracketed'
  <2> SUFFICES ASSUME NEW d \in Conversations, NEW i \in DOMAIN log'[d], log'[d][i].type \notin Free
               PROVE  /\ \E j \in 1..(i - 1) : log'[d][j] = Started(log'[d][i].run)
                      /\ \A j \in 1..(i - 1) : log'[d][j].type = "run.ended" => log'[d][j].run # log'[d][i].run
    BY DEF RunEntriesBracketed, Free
  <2>1. CASE d # c
    <3>1. log'[d] = log[d]
      BY <1>2, <2>1
    <3>2. i \in DOMAIN log[d] /\ log[d][i].type \notin Free
      BY <3>1
    <3>3. /\ \E j \in 1..(i - 1) : log[d][j] = Started(log[d][i].run)
          /\ \A j \in 1..(i - 1) : log[d][j].type = "run.ended" => log[d][j].run # log[d][i].run
      BY <3>2 DEF BracketInv, RunEntriesBracketed, Free
    <3>4. QED
      BY <3>1, <3>3
  <2>2. CASE d = c /\ i \in DOMAIN old
    <3>1. new[i] = old[i] /\ \A j \in 1..(i - 1) : j \in DOMAIN old /\ new[j] = old[j]
      BY <1>3, <1>4, <2>2
    <3>2. /\ \E j \in 1..(i - 1) : old[j] = Started(old[i].run)
          /\ \A j \in 1..(i - 1) : old[j].type = "run.ended" => old[j].run # old[i].run
      BY <2>2, <3>1 DEF BracketInv, RunEntriesBracketed, Free, old, new
    <3>3. QED
      BY <2>2, <3>1, <3>2 DEF new
  <2>3. CASE d = c /\ i \notin DOMAIN old
    <3>1. PICK h \in DOMAIN events : i = Len(old) + h /\ new[i] = events[h]
      BY <1>3, <2>3 DEF new
    <3> DEFINE r == events[h].run
    <3>2. /\ RunIs(r, "running") /\ r.sub.conv = c
          /\ \A j \in 1..(h - 1) : events[j].type # "run.ended"
      BY <2>3, <3>1 DEF new
    <3>3. /\ \E j \in DOMAIN old : old[j] = Started(r)
          /\ \A j \in DOMAIN old : old[j].type = "run.ended" => old[j].run # r
      BY <1>5, <3>2
    <3> HIDE DEF r
    <3>4. \E j \in 1..(i - 1) : new[j] = Started(r)
      <4>1. PICK j \in DOMAIN old : old[j] = Started(r)
        BY <3>3
      <4>2. j \in 1..(i - 1) /\ new[j] = old[j]
        BY <1>3, <1>4, <3>1, <4>1
      <4>3. QED
        BY <4>1, <4>2
    <3>5. ASSUME NEW j \in 1..(i - 1), new[j].type = "run.ended" PROVE new[j].run # r
      <4>1. DOMAIN new = 1..(Len(old) + Len(events))
        BY <1>2, <1>4 DEF new
      <4>2. j \in DOMAIN new
        BY <1>4, <3>1, <4>1
      <4>3. CASE j \in DOMAIN old /\ new[j] = old[j]
        BY <3>3, <3>5, <4>3
      <4>4. CASE \E k \in DOMAIN events : j = Len(old) + k /\ new[j] = events[k]
        <5>1. PICK k \in DOMAIN events : j = Len(old) + k /\ new[j] = events[k]
          BY <4>4
        <5>2. k \in 1..(h - 1)
          BY <1>4, <3>1, <5>1
        <5>3. QED
          BY <3>2, <3>5, <5>1, <5>2
      <4>5. QED
        BY <1>3, <4>2, <4>3, <4>4
    <3>6. QED
      BY <2>3, <3>1, <3>4, <3>5 DEF new, r
  <2>4. QED
    BY <2>1, <2>2, <2>3
<1>8. QED
  BY <1>6, <1>7 DEF BracketInv

(* Entries of a run that is running, of which the last alone may end it.   *)
RunWrites(r) ==
  /\ RunIs(r, "running") /\ r.sub.conv \in Conversations
  /\ \E events \in Seq(Event) :
       /\ LogAppend(r.sub.conv, events)
       /\ \A i \in DOMAIN events :
            /\ events[i].type \notin Free /\ events[i].run = r
            /\ \A j \in 1..(i - 1) : events[j].type # "run.ended"

LEMMA RunAtHome ==
  ASSUME StoreInv, NEW r, RunIs(r, "running")
  PROVE  r.sub.conv \in Conversations
BY RunType DEF RunIs, StoreInv, TypeOK, Submission

(* One such entry.                                                         *)
LEMMA RunEntryWrites ==
  ASSUME StoreInv, NEW r, RunIs(r, "running"), NEW e \in Event,
         e.type \notin Free, e.run = r, LogAppend(r.sub.conv, <<e>>)
  PROVE  RunWrites(r)
<1> DEFINE events == <<e>>
<1>1. events \in Seq(Event) /\ DOMAIN events = {1} /\ events[1] = e /\ LogAppend(r.sub.conv, events)
  OBVIOUS
<1> HIDE DEF events
<1>2. \A i \in DOMAIN events :
        /\ events[i].type \notin Free /\ events[i].run = r
        /\ \A j \in 1..(i - 1) : events[j].type # "run.ended"
  BY <1>1
<1>3. QED
  BY <1>1, <1>2, RunAtHome DEF RunWrites

(* Two, the first of which does not end it.                                *)
LEMMA RunEntriesWrite ==
  ASSUME StoreInv, NEW r, RunIs(r, "running"), NEW first \in Event, NEW last \in Event,
         first.type \notin Free \cup {"run.ended"}, last.type \notin Free,
         first.run = r, last.run = r, NEW events \in Seq(Event), LogAppend(r.sub.conv, events),
         DOMAIN events = {1, 2}, events[1] = first, events[2] = last
  PROVE  RunWrites(r)
<1>1. \A i \in DOMAIN events :
        /\ events[i].type \notin Free /\ events[i].run = r
        /\ \A j \in 1..(i - 1) : events[j].type # "run.ended"
  <2>1. \A i \in DOMAIN events : \A j \in 1..(i - 1) : j = 1
    OBVIOUS
  <2>2. QED
    BY <2>1
<1>2. QED
  BY <1>1, RunAtHome DEF RunWrites

(* endRun writes the interruption of what is requested before the end.     *)
LEMMA EndRunWrites ==
  ASSUME StoreInv, NEW r, RunIs(r, "running"), NEW status \in TerminalStatus, EndRun(r, status)
  PROVE  RunWrites(r)
<1> DEFINE cut == Outcome(r, RequestedCalls(r), "interrupted")
           end == Ended(r, status)
<1>1. r \in Run /\ RequestedCalls(r) \in SUBSET Calls
  BY DEF RunIs, StoreInv, TypeOK, RequestedCalls
<1>2. /\ cut \in Event /\ cut.type = "tool.outcome.recorded" /\ cut.run = r
      /\ end \in Event /\ end.type = "run.ended" /\ end.run = r
  BY <1>1, EntriesTyped, EntryFields DEF ToolOutcome
<1>3. LogAppend(r.sub.conv, Interruption(r) \o <<end>>)
  BY DEF EndRun
<1>4. CASE RequestedCalls(r) = {}
  <2>1. Interruption(r) \o <<end>> = <<end>>
    BY <1>2, <1>4 DEF Interruption
  <2> HIDE DEF end
  <2>2. QED
    BY <1>2, <1>3, <2>1, RunEntryWrites DEF Free
<1>5. CASE RequestedCalls(r) # {}
  <2> DEFINE events == Interruption(r) \o <<end>>
  <2>1. Interruption(r) = <<cut>>
    BY <1>5 DEF Interruption
  <2> HIDE DEF cut, end
  <2>2. events \in Seq(Event) /\ DOMAIN events = {1, 2} /\ events[1] = cut /\ events[2] = end
    <3>1. <<cut>> \in Seq(Event) /\ <<end>> \in Seq(Event)
      BY <1>2
    <3>2. /\ <<cut>> \o <<end>> \in Seq(Event) /\ DOMAIN (<<cut>> \o <<end>>) = {1, 2}
          /\ (<<cut>> \o <<end>>)[1] = cut /\ (<<cut>> \o <<end>>)[2] = end
      BY <3>1
    <3>3. QED
      BY <2>1, <3>2
  <2>3. LogAppend(r.sub.conv, events)
    BY <1>3 DEF end
  <2> HIDE DEF events
  <2>4. QED
    BY <1>2, <2>2, <2>3, RunEntriesWrite DEF Free
<1>6. QED
  BY <1>4, <1>5

(* Steps that append to a log: an acceptance, a claim, or a run's writes.   *)
LEMMA LogSteps ==
  ASSUME StoreInv, [Next]_vars
  PROVE  \/ UNCHANGED log
         \/ \E c \in Conversations, k \in Keys, t \in 1..MaxTime : Accept(c, k, t)
         \/ \E s \in DOMAIN submission : ClaimRunnable(s)
         \/ \E r : RunWrites(r)
<1>1. ASSUME NEW r \in DOMAIN run, AppendNote(r) PROVE RunWrites(r)
  <2> DEFINE e == Note(r)
  <2>1. /\ RunIs(r, "running") /\ LogAppend(r.sub.conv, <<e>>)
        /\ e \in Event /\ e.type = "note" /\ e.run = r
    BY <1>1, EntriesTyped, EntryFields DEF AppendNote, MayNote, StoreInv, TypeOK
  <2> HIDE DEF e
  <2>2. QED
    BY <2>1, RunEntryWrites DEF Free
<1>2. ASSUME NEW r \in workers, WorkerStep(r) PROVE RunWrites(r) \/ UNCHANGED log
  <2>1. r \in Run /\ RunIs(r, "running")
    BY WorkerFacts
  <2>2. ASSUME NEW S \in SUBSET Calls, CommitAssistantTurn(r, S) PROVE RunWrites(r)
    <3> DEFINE e == Committed(r, S)
    <3>1. /\ LogAppend(r.sub.conv, <<e>>)
          /\ e \in Event /\ e.type = "assistant.output.committed" /\ e.run = r
      BY <2>1, <2>2, EntriesTyped, EntryFields DEF CommitAssistantTurn
    <3> HIDE DEF e
    <3>2. QED
      BY <2>1, <3>1, RunEntryWrites DEF Free
  <2>3. ASSUME NEW k \in Calls, NEW status \in {"completed", "failed", "denied"}, ToolFinished(r, k, status)
        PROVE  RunWrites(r)
    <3> DEFINE e == Outcome(r, {k}, status)
    <3>1. /\ LogAppend(r.sub.conv, <<e>>)
          /\ e \in Event /\ e.type = "tool.outcome.recorded" /\ e.run = r
      BY <2>1, <2>3, EntriesTyped, EntryFields DEF ToolFinished, ToolOutcome
    <3> HIDE DEF e
    <3>2. QED
      BY <2>1, <3>1, RunEntryWrites DEF Free
  <2>4. CASE FinishRun(r)
    <3> DEFINE first == Committed(r, {})
               last == Ended(r, "completed")
               events == <<first, last>>
    <3>1. /\ LogAppend(r.sub.conv, events)
          /\ first \in Event /\ first.type = "assistant.output.committed" /\ first.run = r
          /\ last \in Event /\ last.type = "run.ended" /\ last.run = r
      BY <2>1, <2>4, EntriesTyped, EntryFields DEF FinishRun, TerminalStatus
    <3> HIDE DEF first, last
    <3>2. events \in Seq(Event) /\ DOMAIN events = {1, 2} /\ events[1] = first /\ events[2] = last
      BY <3>1
    <3> HIDE DEF events
    <3>3. QED
      BY <2>1, <3>1, <3>2, RunEntriesWrite DEF Free
  <2>5. CASE FailRun(r) \/ StopRun(r)
    BY <2>1, <2>5, EndRunWrites DEF FailRun, StopRun, TerminalStatus
  <2>6. CASE EndNotPersisted(r)
    BY <2>6 DEF EndNotPersisted
  <2>7. QED
    BY <1>2, <2>2, <2>3, <2>4, <2>5, <2>6 DEF WorkerStep
<1>3. ASSUME NEW r \in DOMAIN run, RecoverRun(r) PROVE RunWrites(r)
  BY <1>3, EndRunWrites DEF RecoverRun, TerminalStatus
<1>4. CASE \/ \E c \in Conversations : CreateConversation(c)
           \/ \E w \in Workspaces : ReserveWorkspace(w) \/ ReleaseWorkspace(w) \/ ReleaseFailed(w)
           \/ Crash \/ Open \/ ClearReservations \/ Serve \/ UNCHANGED vars
  BY <1>4 DEF CreateConversation, ReserveWorkspace, ReleaseWorkspace, ReleaseFailed, Crash, Open,
              ClearReservations, Serve, vars
<1>5. QED
  BY <1>1, <1>2, <1>3, <1>4 DEF Next

(* What an acceptance appends.                                             *)
LEMMA AcceptAppends ==
  ASSUME StoreInv, NEW c \in Conversations, NEW k \in Keys, NEW t \in 1..MaxTime, Accept(c, k, t)
  PROVE  \E events \in Seq(Event) :
           /\ LogAppend(c, events) /\ DOMAIN events = {1}
           /\ events[1].type = "input.accepted" /\ events[1].sub = [conv |-> c, key |-> k, at |-> t]
<1> DEFINE s == [conv |-> c, key |-> k, at |-> t]
           e == Accepted(s)
           events == <<e>>
<1>1. LogAppend(c, events) /\ e \in Event /\ e.type = "input.accepted" /\ e.sub = s
  BY EntriesTyped, EntryFields DEF Accept, Submission
<1> HIDE DEF e
<1>2. events \in Seq(Event) /\ DOMAIN events = {1} /\ events[1] = e
  BY <1>1
<1> HIDE DEF events
<1>3. QED
  BY <1>1, <1>2

(* What a claim appends.                                                   *)
LEMMA ClaimAppends ==
  ASSUME StoreInv, NEW s \in DOMAIN submission, ClaimRunnable(s)
  PROVE  s.conv \in Conversations
         /\ \E events \in Seq(Event) :
              /\ LogAppend(s.conv, events) /\ DOMAIN events = {1, 2}
              /\ events[1].type = "input.admitted"
              /\ events[2].type = "run.started" /\ events[2].run.sub = s
<1> DEFINE r == NextRun(s)
           first == Admitted(r)
           last == Started(r)
           events == <<first, last>>
<1>1. LogAppend(s.conv, events) /\ s.conv \in Conversations /\ r \in Run /\ r.sub = s
  <2>1. s \in Submission /\ {q \in DOMAIN run : q.sub = s} = {}
    BY DEF ClaimRunnable, Eligible, SubmissionIs, StoreInv, TypeOK, ClaimedOnce, RunStatus, TerminalStatus
  <2>2. Cardinality({q \in DOMAIN run : q.sub = s}) = 0
    BY <2>1, FS_EmptySet
  <2>3. NextRun(s) = [sub |-> s, n |-> 1]
    BY <2>2 DEF NextRun
  <2>4. QED
    BY <2>1, <2>3 DEF ClaimRunnable, Run, Submission
<1>2. /\ first \in Event /\ first.type = "input.admitted"
      /\ last \in Event /\ last.type = "run.started" /\ last.run = r
  BY <1>1, EntriesTyped, EntryFields
<1> HIDE DEF r, first, last
<1>3. events \in Seq(Event) /\ DOMAIN events = {1, 2} /\ events[1] = first /\ events[2] = last
  BY <1>2
<1> HIDE DEF events
<1>4. QED
  BY <1>1, <1>2, <1>3

(* Every transaction that appends to a log keeps the order of its runs.    *)
LEMMA BracketStep ==
  ASSUME StoreInv, BracketInv, [Next]_vars PROVE BracketInv'
<1>1. CASE UNCHANGED log
  BY <1>1 DEF BracketInv, StartsAtHome, RunEntriesBracketed
<1>2. CASE \E c \in Conversations, k \in Keys, t \in 1..MaxTime : Accept(c, k, t)
  <2>1. PICK c \in Conversations, k \in Keys, t \in 1..MaxTime : Accept(c, k, t)
    BY <1>2
  <2>2. PICK events \in Seq(Event) :
          LogAppend(c, events) /\ DOMAIN events = {1} /\ events[1].type = "input.accepted"
    BY <2>1, AcceptAppends
  <2>3. QED
    BY <2>2, AppendBracketed DEF Free
<1>3. CASE \E s \in DOMAIN submission : ClaimRunnable(s)
  <2>1. PICK c \in Conversations : \E events \in Seq(Event) :
          /\ LogAppend(c, events)
          /\ \A i \in DOMAIN events : \/ events[i].type = "input.admitted"
                                      \/ events[i].type = "run.started" /\ events[i].run.sub.conv = c
    BY <1>3, ClaimAppends
  <2>2. QED
    BY <2>1, AppendBracketed DEF Free
<1>4. CASE \E r : RunWrites(r)
  BY <1>4, AppendBracketed DEF RunWrites, Free
<1>5. QED
  BY <1>1, <1>2, <1>3, <1>4, LogSteps

-----------------------------------------------------------------------------
(* Keys, and the order in which messages are claimed.                      *)

(* An acceptance is logged in its conversation, at a time the clock passed. *)
AcceptedAtHome ==
  \A c \in Conversations : \A i \in DOMAIN log[c] :
    log[c][i].type = "input.accepted" => log[c][i].sub.conv = c

Dated == \A s \in DOMAIN submission : s.at <= clock

OrderInv == AcceptedAtHome /\ Dated /\ KeyNamesOneSubmission /\ NoOvertaking

(* What the two kinds of log entry say of the rows, in their own log.      *)
LEMMA LoggedRows ==
  ASSUME StoreInv, BracketInv, OrderInv, NEW c \in Conversations, NEW i \in DOMAIN log[c]
  PROVE  /\ log[c][i].type = "input.accepted" =>
              log[c][i].sub \in DOMAIN submission /\ log[c][i].sub.conv = c
         /\ log[c][i].type = "run.started" => log[c][i].run.sub \in DOMAIN submission
<1>1. log[c][i] \in Logged
  BY DEF Logged
<1>2. DOMAIN submission = LoggedSubmissions /\ DOMAIN run = LoggedRuns
  BY IndexFacts DEF StoreInv
<1>3. \A r \in DOMAIN run : r.sub \in DOMAIN submission
  BY DEF StoreInv, ClaimedOnce, SubmissionIs
<1>4. QED
  BY <1>1, <1>2, <1>3 DEF OrderInv, AcceptedAtHome, LoggedSubmissions, LoggedRuns, LoggedOf

(* A submission that does not wait was claimed in its conversation's log.  *)
LEMMA ClaimedAtHome ==
  ASSUME StoreInv, BracketInv, NEW s \in DOMAIN submission, submission[s] # "queued"
  PROVE  \E h \in DOMAIN log[s.conv] : log[s.conv][h].type = "run.started" /\ log[s.conv][h].run.sub = s
<1>1. PICK r \in DOMAIN run : r.sub = s
  BY DEF StoreInv, ClaimedOnce
<1>2. r \in LoggedRuns
  BY IndexFacts DEF StoreInv
<1>3. PICK e \in Logged : e.type = "run.started" /\ e.run = r
  BY <1>2 DEF LoggedRuns, LoggedOf
<1>4. PICK d \in Conversations : \E j \in DOMAIN log[d] : log[d][j] = e
  BY DEF Logged
<1>5. d = s.conv
  BY <1>1, <1>3, <1>4 DEF BracketInv, StartsAtHome
<1>6. QED
  BY <1>1, <1>3, <1>4, <1>5

(* An operation keeps the order of claims when it accepts no earlier than  *)
(* the clock and starts nothing while an earlier message waits.            *)
LEMMA AppendOrdered ==
  ASSUME StoreInv, BracketInv, OrderInv,
         NEW c \in Conversations, NEW events \in Seq(Event), LogAppend(c, events),
         \A k \in DOMAIN events :
           /\ events[k].type = "input.accepted" =>
                events[k].sub.conv = c /\ events[k].sub.at \in Nat /\ events[k].sub.at >= clock
           /\ events[k].type = "run.started" =>
                /\ \A m \in DOMAIN events : events[m].type # "input.accepted"
                /\ \A u \in DOMAIN submission :
                     u.conv = c /\ u.at < events[k].run.sub.at => submission[u] # "queued"
  PROVE  AcceptedAtHome' /\ NoOvertaking'
<1>1. log' = [log EXCEPT ![c] = log[c] \o events] /\ log \in [Conversations -> Seq(Event)]
  BY DEF LogAppend, StoreInv, TypeOK
<1> DEFINE old == log[c]
           new == log'[c]
<1>2. new = old \o events /\ old \in Seq(Event) /\ \A d \in Conversations : d # c => log'[d] = log[d]
  BY <1>1
<1>3. /\ \A i \in DOMAIN old : i \in DOMAIN new /\ new[i] = old[i]
      /\ \A i \in DOMAIN new : \/ i \in DOMAIN old /\ new[i] = old[i]
                               \/ \E j \in DOMAIN events : i = Len(old) + j /\ new[i] = events[j]
  BY <1>2, ConcatPositions
<1>4. Len(old) \in Nat /\ DOMAIN old = 1..Len(old) /\ DOMAIN events = 1..Len(events) /\ Len(events) \in Nat
  BY <1>2, LenProperties
<1>5. clock \in Nat /\ \A u \in DOMAIN submission : u.at \in Nat /\ u.at <= clock
  BY BoundAssumption DEF StoreInv, TypeOK, OrderInv, Dated, Submission
<1> HIDE DEF old, new
<1>6. AcceptedAtHome'
  <2> SUFFICES ASSUME NEW d \in Conversations, NEW i \in DOMAIN log'[d], log'[d][i].type = "input.accepted"
               PROVE  log'[d][i].sub.conv = d
    BY DEF AcceptedAtHome
  <2>1. CASE d # c
    BY <1>2, <2>1 DEF OrderInv, AcceptedAtHome
  <2>2. CASE d = c
    BY <1>3, <2>2 DEF OrderInv, AcceptedAtHome, old, new
  <2>3. QED
    BY <2>1, <2>2
<1>7. NoOvertaking'
  <2> SUFFICES ASSUME NEW d \in Conversations, NEW i \in DOMAIN log'[d], NEW j \in DOMAIN log'[d],
                      log'[d][i].type = "run.started", log'[d][j].type = "input.accepted",
                      log'[d][j].sub.at < log'[d][i].run.sub.at
               PROVE  \E h \in 1..(i - 1) :
                        log'[d][h].type = "run.started" /\ log'[d][h].run.sub = log'[d][j].sub
    BY DEF NoOvertaking
  <2>1. CASE d # c
    <3>1. log'[d] = log[d]
      BY <1>2, <2>1
    <3>2. \E h \in 1..(i - 1) : log[d][h].type = "run.started" /\ log[d][h].run.sub = log[d][j].sub
      BY <3>1 DEF OrderInv, NoOvertaking
    <3>3. QED
      BY <3>1, <3>2
  <2>2. CASE d = c /\ i \in DOMAIN old /\ j \in DOMAIN old
    <3>1. new[i] = old[i] /\ new[j] = old[j] /\ \A h \in 1..(i - 1) : new[h] = old[h]
      BY <1>3, <1>4, <2>2
    <3>2. \E h \in 1..(i - 1) : old[h].type = "run.started" /\ old[h].run.sub = old[j].sub
      BY <2>2, <3>1 DEF OrderInv, NoOvertaking, old, new
    <3>3. QED
      BY <2>2, <3>1, <3>2 DEF new
  <2>3. CASE d = c /\ i \in DOMAIN old /\ j \notin DOMAIN old
    <3>1. PICK m \in DOMAIN events : new[j] = events[m]
      BY <1>3, <2>3 DEF new
    <3>2. events[m].sub.at \in Nat /\ events[m].sub.at >= clock
      BY <2>3, <3>1 DEF new
    <3>3. old[i].run.sub \in DOMAIN submission /\ new[i] = old[i]
      BY <1>3, <2>3, LoggedRows DEF old, new
    <3>4. QED
      BY <1>5, <2>3, <3>1, <3>2, <3>3 DEF new
  <2>4. CASE d = c /\ i \notin DOMAIN old
    <3>1. PICK k \in DOMAIN events : i = Len(old) + k /\ new[i] = events[k]
      BY <1>3, <2>4 DEF new
    <3>2. events[k].type = "run.started" /\ \A m \in DOMAIN events : events[m].type # "input.accepted"
      BY <2>4, <3>1 DEF new
    <3>3. j \in DOMAIN old /\ new[j] = old[j]
      BY <1>3, <2>4, <3>2 DEF new
    <3> DEFINE u == old[j].sub
    <3>4. u \in DOMAIN submission /\ u.conv = c
      BY <2>4, <3>3, LoggedRows DEF old, new
    <3>5. submission[u] # "queued"
      BY <2>4, <3>1, <3>2, <3>3, <3>4 DEF new
    <3> HIDE DEF u
    <3>6. PICK h \in DOMAIN old : old[h].type = "run.started" /\ old[h].run.sub = u
      BY <3>4, <3>5, ClaimedAtHome DEF old
    <3>7. h \in 1..(i - 1) /\ new[h] = old[h]
      BY <1>3, <1>4, <3>1, <3>6
    <3>8. QED
      BY <2>4, <3>3, <3>6, <3>7 DEF new, u
  <2>5. QED
    BY <2>1, <2>2, <2>3, <2>4
<1>8. QED
  BY <1>6, <1>7

(* Accept refuses a key it has, and no other step adds a submission.       *)
LEMMA KeyStep ==
  ASSUME StoreInv, OrderInv, [Next]_vars PROVE Dated' /\ KeyNamesOneSubmission'
<1>1. clock \in Nat /\ \A u \in DOMAIN submission : u.at \in Nat
  BY BoundAssumption DEF StoreInv, TypeOK, Submission
<1>2. CASE \E c \in Conversations, k \in Keys, t \in 1..MaxTime : Accept(c, k, t)
  <2>1. PICK c \in Conversations, k \in Keys, t \in 1..MaxTime : Accept(c, k, t)
    BY <1>2
  <2> DEFINE s == [conv |-> c, key |-> k, at |-> t]
  <2>2. /\ DOMAIN submission' = DOMAIN submission \cup {s} /\ clock' = t /\ t >= clock
        /\ \A u \in DOMAIN submission : ~(u.conv = c /\ u.key = k)
    BY <2>1 DEF Accept, Duplicate, Write
  <2>3. s.conv = c /\ s.key = k /\ s.at = t
    OBVIOUS
  <2> HIDE DEF s
  <2>4. QED
    BY <1>1, <2>2, <2>3 DEF OrderInv, Dated, KeyNamesOneSubmission
<1>3. CASE DOMAIN submission' = DOMAIN submission /\ clock' = clock
  BY <1>3 DEF OrderInv, Dated, KeyNamesOneSubmission
<1>4. \/ \E c \in Conversations, k \in Keys, t \in 1..MaxTime : Accept(c, k, t)
      \/ DOMAIN submission' = DOMAIN submission /\ clock' = clock
  <2>1. \/ \E c \in Conversations, k \in Keys, t \in 1..MaxTime : Accept(c, k, t)
        \/ clock' = clock
    BY DEF Next, vars, CreateConversation, ClaimRunnable, WorkerStep, CommitAssistantTurn, ToolFinished,
           FinishRun, FailRun, StopRun, EndNotPersisted, AppendNote, ReserveWorkspace, ReleaseWorkspace,
           ReleaseFailed, Crash, Open, ClearReservations, RecoverRun, Serve
  <2>2. ASSUME NEW s \in DOMAIN submission, ClaimRunnable(s) PROVE DOMAIN submission' = DOMAIN submission
    BY <2>2 DEF ClaimRunnable, Write
  <2>3. ASSUME NEW r, NEW outcome, Ending(r, outcome) PROVE DOMAIN submission' = DOMAIN submission
    BY <2>3 DEF Ending, SubmissionIs, Write
  <2>4. ASSUME NEW w, ReserveWorkspace(w) PROVE submission' = submission
    BY <2>4 DEF ReserveWorkspace, tables
  <2>5. QED
    BY <2>1, <2>2, <2>3, <2>4, StepKinds
<1>5. QED
  BY <1>2, <1>3, <1>4

(* ClaimRunnable takes the oldest of what it may claim, and may claim all  *)
(* that waits in the conversation it claims from.                          *)
LEMMA ClaimsOldest ==
  ASSUME StoreInv, NEW s \in DOMAIN submission, ClaimRunnable(s),
         NEW u \in DOMAIN submission, u.conv = s.conv, u.at < s.at
  PROVE  submission[u] # "queued"
<1>1. SUFFICES ASSUME submission[u] = "queued" PROVE FALSE
  OBVIOUS
<1>2. Eligible(u)
  BY <1>1 DEF ClaimRunnable, Eligible, SubmissionIs
<1>3. s.at <= u.at
  BY <1>2 DEF ClaimRunnable, OldestEligible
<1>4. s.at \in Nat /\ u.at \in Nat
  BY DEF StoreInv, TypeOK, Submission
<1>5. QED
  BY <1>3, <1>4

(* Every step keeps the order of claims.                                   *)
LEMMA OrderStep ==
  ASSUME StoreInv, BracketInv, OrderInv, [Next]_vars PROVE OrderInv'
<1>0. Dated' /\ KeyNamesOneSubmission'
  BY KeyStep
<1>1. CASE UNCHANGED log
  BY <1>0, <1>1 DEF OrderInv, AcceptedAtHome, NoOvertaking
<1>2. CASE \E c \in Conversations, k \in Keys, t \in 1..MaxTime : Accept(c, k, t)
  <2>1. PICK c \in Conversations, k \in Keys, t \in 1..MaxTime : Accept(c, k, t)
    BY <1>2
  <2>2. PICK events \in Seq(Event) :
          /\ LogAppend(c, events) /\ DOMAIN events = {1}
          /\ events[1].type = "input.accepted" /\ events[1].sub = [conv |-> c, key |-> k, at |-> t]
    BY <2>1, AcceptAppends
  <2>3. events[1].sub.conv = c /\ events[1].sub.at \in Nat /\ events[1].sub.at >= clock
    BY <2>1, <2>2 DEF Accept
  <2>4. AcceptedAtHome' /\ NoOvertaking'
    BY <2>2, <2>3, AppendOrdered
  <2>5. QED
    BY <1>0, <2>4 DEF OrderInv
<1>3. CASE \E s \in DOMAIN submission : ClaimRunnable(s)
  <2>1. PICK s \in DOMAIN submission : ClaimRunnable(s)
    BY <1>3
  <2>2. PICK events \in Seq(Event) :
          /\ LogAppend(s.conv, events) /\ DOMAIN events = {1, 2}
          /\ events[1].type = "input.admitted"
          /\ events[2].type = "run.started" /\ events[2].run.sub = s
    BY <2>1, ClaimAppends
  <2>3. s.conv \in Conversations
    BY <2>1, ClaimAppends
  <2>4. \A u \in DOMAIN submission : u.conv = s.conv /\ u.at < s.at => submission[u] # "queued"
    BY <2>1, ClaimsOldest
  <2>5. AcceptedAtHome' /\ NoOvertaking'
    BY <2>2, <2>3, <2>4, AppendOrdered
  <2>6. QED
    BY <1>0, <2>5 DEF OrderInv
<1>4. CASE \E r : RunWrites(r)
  <2>1. PICK r : RunWrites(r)
    BY <1>4
  <2>2. PICK events \in Seq(Event) :
          LogAppend(r.sub.conv, events) /\ \A i \in DOMAIN events : events[i].type \notin Free
    BY <2>1 DEF RunWrites
  <2>3. AcceptedAtHome' /\ NoOvertaking'
    BY <2>1, <2>2, AppendOrdered DEF RunWrites, Free
  <2>4. QED
    BY <1>0, <2>3 DEF OrderInv
<1>5. QED
  BY <1>1, <1>2, <1>3, <1>4, LogSteps

-----------------------------------------------------------------------------
(* Induction on numbers, as a fact about sets of them.                     *)

LEMMA LeastNumber ==
  ASSUME NEW S, S \subseteq Nat, S # {}
  PROVE  \E n \in S : \A m \in S : ~(m < n)
<1> DEFINE R == OpToRel(<, Nat)
<1>1. IsWellFoundedOn(R, Nat)
  BY NatLessThanWellFounded, Zenon
<1> HIDE DEF R
<1>2. PICK n \in S : \A m \in S : ~(<<m, n>> \in R)
  BY <1>1, WFMin
<1>3. QED
  BY <1>2 DEF R, OpToRel

LEMMA NumbersByInduction ==
  ASSUME NEW S, 0 \in S, \A n \in Nat : n \in S => n + 1 \in S
  PROVE  Nat \subseteq S
<1> DEFINE T == Nat \ S
<1> SUFFICES ASSUME T # {} PROVE FALSE
  OBVIOUS
<1>1. PICK n \in T : \A m \in T : ~(m < n)
  <2> HIDE DEF T
  <2>1. T \subseteq Nat
    BY DEF T
  <2>2. QED
    BY <2>1, LeastNumber
<1>2. n # 0 /\ n \in Nat /\ n - 1 \in Nat
  OBVIOUS
<1>3. n - 1 \in S
  BY <1>1, <1>2
<1>4. QED
  BY <1>2, <1>3

(* A loop over entries has a result, and one more entry is one more turn   *)
(* of it.                                                                  *)
ReplayLoop(f, index, events, n) ==
  f = [i \in 0..n |-> IF i = 0 THEN index ELSE ReplayIndexEvent(f[i - 1], events[i])]

LEMMA ReplayLoopExists ==
  ASSUME NEW index, NEW events, NEW n \in Nat
  PROVE  \E f : ReplayLoop(f, index, events, n)
<1> DEFINE S == {m \in Nat : \E f : ReplayLoop(f, index, events, m)}
<1>1. 0 \in S
  <2>1. ReplayLoop([i \in 0..0 |-> index], index, events, 0)
    BY DEF ReplayLoop
  <2>2. QED
    BY <2>1
<1>2. ASSUME NEW m \in Nat, m \in S PROVE m + 1 \in S
  <2>1. PICK f : ReplayLoop(f, index, events, m)
    BY <1>2
  <2> DEFINE g == [i \in 0..(m + 1) |-> IF i = m + 1 THEN ReplayIndexEvent(f[m], events[m + 1]) ELSE f[i]]
  <2>2. ASSUME NEW i \in 0..(m + 1)
        PROVE  g[i] = IF i = 0 THEN index ELSE ReplayIndexEvent(g[i - 1], events[i])
    BY <2>1 DEF ReplayLoop
  <2>3. ReplayLoop(g, index, events, m + 1)
    BY <2>2 DEF ReplayLoop
  <2>4. QED
    BY <2>3
<1>3. Nat \subseteq S
  <2> HIDE DEF S
  <2>1. QED
    BY <1>1, <1>2, NumbersByInduction
<1>4. QED
  BY <1>3

LEMMA ReplayLoopPrefix ==
  ASSUME NEW index, NEW events, NEW more, NEW n \in Nat, NEW m \in Nat, n <= m,
         \A i \in 1..n : events[i] = more[i],
         NEW f, ReplayLoop(f, index, events, n), NEW g, ReplayLoop(g, index, more, m)
  PROVE  f[n] = g[n]
<1> DEFINE S == {i \in Nat : i <= n => f[i] = g[i]}
<1>1. 0 \in S
  BY DEF ReplayLoop
<1>2. ASSUME NEW i \in Nat, i \in S PROVE i + 1 \in S
  BY <1>2 DEF ReplayLoop
<1>3. Nat \subseteq S
  <2> HIDE DEF S
  <2>1. QED
    BY <1>1, <1>2, NumbersByInduction
<1>4. QED
  BY <1>3

LEMMA ReplayLogLoop ==
  ASSUME NEW index, NEW events, Len(events) \in Nat
  PROVE  \E f : ReplayLoop(f, index, events, Len(events)) /\ ReplayLog(index, events) = f[Len(events)]
<1> DEFINE f == CHOOSE f : ReplayLoop(f, index, events, Len(events))
<1>1. ReplayLoop(f, index, events, Len(events))
  BY ReplayLoopExists
<1>2. ReplayLog(index, events) = f[Len(events)]
  BY DEF ReplayLog, ReplayLoop
<1>3. QED
  BY <1>1, <1>2

LEMMA ReplayNothing == \A index : ReplayLog(index, <<>>) = index
<1> SUFFICES ASSUME NEW index PROVE ReplayLog(index, <<>>) = index
  OBVIOUS
<1>1. PICK f : ReplayLoop(f, index, <<>>, 0) /\ ReplayLog(index, <<>>) = f[0]
  <2>1. Len(<<>>) = 0
    OBVIOUS
  <2>2. QED
    BY <2>1, ReplayLogLoop
<1>2. QED
  BY <1>1 DEF ReplayLoop

LEMMA ReplayOneMore ==
  ASSUME NEW index, NEW events \in Seq(Event), NEW e \in Event
  PROVE  ReplayLog(index, events \o <<e>>) = ReplayIndexEvent(ReplayLog(index, events), e)
<1> DEFINE n == Len(events)
           more == events \o <<e>>
<1>1. n \in Nat /\ Len(more) = n + 1 /\ more[n + 1] = e /\ \A i \in 1..n : events[i] = more[i]
  OBVIOUS
<1> HIDE DEF more
<1>2. PICK f : ReplayLoop(f, index, events, n) /\ ReplayLog(index, events) = f[n]
  BY ReplayLogLoop
<1>3. PICK g : ReplayLoop(g, index, more, n + 1) /\ ReplayLog(index, more) = g[n + 1]
  BY <1>1, ReplayLogLoop
<1> HIDE DEF n
<1>4. f[n] = g[n]
  BY <1>1, <1>2, <1>3, ReplayLoopPrefix
<1>5. g[n + 1] = ReplayIndexEvent(g[n], more[n + 1])
  BY <1>1, <1>3 DEF ReplayLoop
<1>6. QED
  BY <1>1, <1>2, <1>3, <1>4, <1>5 DEF more

-----------------------------------------------------------------------------
(* What one entry does to an index that admits it.                         *)
Index(submissions, runs, calls, admitted) ==
  [ok |-> TRUE, submission |-> submissions, run |-> runs, call |-> calls, admitted |-> admitted]

LEMMA ReplaysAccepted ==
  ASSUME NEW F, NEW R, NEW C, NEW A, NEW s,
         \A u \in DOMAIN F : u.conv # s.conv \/ u.key # s.key
  PROVE  ReplayIndexEvent(Index(F, R, C, A), Accepted(s)) = Index(Write(F, {s}, "queued"), R, C, A)
BY DEF ReplayIndexEvent, ReplayAccepted, Check, Index, Accepted

LEMMA ReplaysClaim ==
  ASSUME NEW F, NEW R, NEW C, NEW r, HasRow(F, r.sub, "queued"), r \notin DOMAIN R,
         \A s \in DOMAIN F : s.conv = r.sub.conv => F[s] # "running"
  PROVE  ReplayIndexEvent(ReplayIndexEvent(Index(F, R, C, EmptyTable), Admitted(r)), Started(r))
           = Index(Write(F, {r.sub}, "running"), Write(R, {r}, "running"), C, EmptyTable)
<1> DEFINE admitted == Write(EmptyTable, {r.sub}, r)
<1>1. r.sub \notin DOMAIN EmptyTable
  BY DEF EmptyTable
<1>2. ReplayIndexEvent(Index(F, R, C, EmptyTable), Admitted(r)) = Index(F, R, C, admitted)
  BY <1>1 DEF ReplayIndexEvent, ReplayAdmitted, Check, Index, Admitted
<1>3. HasRow(admitted, r.sub, r) /\ [s \in DOMAIN admitted \ {r.sub} |-> admitted[s]] = EmptyTable
  BY DEF HasRow, Write, EmptyTable
<1> HIDE DEF admitted
<1>4. ReplayIndexEvent(Index(F, R, C, admitted), Started(r))
        = Index(Write(F, {r.sub}, "running"), Write(R, {r}, "running"), C,
                [s \in DOMAIN admitted \ {r.sub} |-> admitted[s]])
  BY <1>3 DEF ReplayIndexEvent, ReplayStarted, Check, Index, Started
<1>5. QED
  BY <1>2, <1>3, <1>4

LEMMA ReplaysCommitted ==
  ASSUME NEW F, NEW R, NEW C, NEW A, NEW r \in DOMAIN R, NEW S,
         \A k \in S : <<r, k>> \notin DOMAIN C
  PROVE  ReplayIndexEvent(Index(F, R, C, A), Committed(r, S))
           = Index(F, R, Write(C, {<<r, k>> : k \in S}, "requested"), A)
BY DEF ReplayIndexEvent, ReplayCommitted, Check, Index, Committed

LEMMA ReplaysOutcome ==
  ASSUME NEW F, NEW R, NEW C, NEW A, NEW r, NEW S, NEW status,
         \A k \in S : HasRow(C, <<r, k>>, "requested")
  PROVE  ReplayIndexEvent(Index(F, R, C, A), Outcome(r, S, status))
           = Index(F, R, Write(C, {<<r, k>> : k \in S}, status), A)
BY DEF ReplayIndexEvent, ReplayOutcome, Check, Index, Outcome

LEMMA ReplaysEnded ==
  ASSUME NEW F, NEW R, NEW C, NEW A, NEW r, NEW status,
         HasRow(R, r, "running"), HasRow(F, r.sub, "running")
  PROVE  ReplayIndexEvent(Index(F, R, C, A), Ended(r, status))
           = Index(Write(F, {r.sub}, status), Write(R, {r}, status), C, A)
BY DEF ReplayIndexEvent, ReplayEnded, Check, Index, Ended

LEMMA ReplaysNote ==
  ASSUME NEW F, NEW R, NEW C, NEW A, NEW r
  PROVE  ReplayIndexEvent(Index(F, R, C, A), Note(r)) = Index(F, R, C, A)
BY DEF ReplayIndexEvent, Index, Note

-----------------------------------------------------------------------------
(* The rows of one conversation, and an index with them added.             *)
HomeSubmissions(c) == [s \in {s \in DOMAIN submission : s.conv = c} |-> submission[s]]
HomeRuns(c)        == [r \in {r \in DOMAIN run : r.sub.conv = c} |-> run[r]]
HomeCalls(c)       == [p \in {p \in DOMAIN call : p[1].sub.conv = c} |-> call[p]]

Over(f, g) == [x \in DOMAIN f \cup DOMAIN g |-> IF x \in DOMAIN g THEN g[x] ELSE f[x]]

LEMMA OverWrite ==
  ASSUME NEW f, NEW g, NEW S, NEW value
  PROVE  Over(f, Write(g, S, value)) = Write(Over(f, g), S, value)
<1>1. DOMAIN Over(f, Write(g, S, value)) = DOMAIN Write(Over(f, g), S, value)
  BY DEF Over, Write
<1>2. \A x \in DOMAIN Over(f, Write(g, S, value)) :
        Over(f, Write(g, S, value))[x] = Write(Over(f, g), S, value)[x]
  BY DEF Over, Write
<1>3. QED
  BY <1>1, <1>2 DEF Over, Write

LEMMA WriteHomeSubmissions ==
  ASSUME NEW c, NEW s, s.conv = c, NEW status, submission' = Write(submission, {s}, status)
  PROVE  /\ HomeSubmissions(c)' = Write(HomeSubmissions(c), {s}, status)
         /\ \A d : d # c => HomeSubmissions(d)' = HomeSubmissions(d)
BY DEF HomeSubmissions, Write

LEMMA WriteHomeRuns ==
  ASSUME NEW c, NEW r, r.sub.conv = c, NEW status, run' = Write(run, {r}, status)
  PROVE  /\ HomeRuns(c)' = Write(HomeRuns(c), {r}, status)
         /\ \A d : d # c => HomeRuns(d)' = HomeRuns(d)
BY DEF HomeRuns, Write

LEMMA WriteHomeCalls ==
  ASSUME NEW c, NEW P, \A p \in P : p[1].sub.conv = c, NEW status, call' = Write(call, P, status)
  PROVE  /\ HomeCalls(c)' = Write(HomeCalls(c), P, status)
         /\ \A d : d # c => HomeCalls(d)' = HomeCalls(d)
<1>1. HomeCalls(c)' = Write(HomeCalls(c), P, status)
  BY DEF HomeCalls, Write
<1>2. ASSUME NEW d, d # c PROVE HomeCalls(d)' = HomeCalls(d)
  BY <1>2 DEF HomeCalls, Write
<1>3. QED
  BY <1>1, <1>2

-----------------------------------------------------------------------------
(* Rows of other conversations, as the replay of earlier logs leaves them. *)
Foreign(c, F, R, C) ==
  /\ F = [s \in DOMAIN F |-> F[s]] /\ R = [r \in DOMAIN R |-> R[r]] /\ C = [p \in DOMAIN C |-> C[p]]
  /\ \A s \in DOMAIN F : s.conv # c
  /\ \A r \in DOMAIN R : r.sub.conv # c
  /\ \A p \in DOMAIN C : p[1].sub.conv # c

(* Replaying a conversation's log adds its rows, whatever was replayed     *)
(* before, and refuses nothing.                                            *)
WithHome(c, F, R, C) ==
  Index(Over(F, HomeSubmissions(c)), Over(R, HomeRuns(c)), Over(C, HomeCalls(c)), EmptyTable)

ReplayAdds(c) ==
  \A F, R, C : Foreign(c, F, R, C) =>
    ReplayLog(Index(F, R, C, EmptyTable), log[c]) = WithHome(c, F, R, C)

ReplayInv == \A c \in Conversations : ReplayAdds(c)

LEMMA HomeRows ==
  ASSUME NEW c, NEW F, NEW R, NEW C, Foreign(c, F, R, C)
  PROVE  /\ \A s \in DOMAIN submission :
              s.conv = c => HasRow(Over(F, HomeSubmissions(c)), s, submission[s])
         /\ \A s \in DOMAIN Over(F, HomeSubmissions(c)) :
              s.conv = c => s \in DOMAIN submission /\ Over(F, HomeSubmissions(c))[s] = submission[s]
         /\ \A r \in DOMAIN run : r.sub.conv = c => HasRow(Over(R, HomeRuns(c)), r, run[r])
         /\ \A r \in DOMAIN Over(R, HomeRuns(c)) : r.sub.conv = c => r \in DOMAIN run
         /\ \A p \in DOMAIN call : p[1].sub.conv = c => HasRow(Over(C, HomeCalls(c)), p, call[p])
         /\ \A p \in DOMAIN Over(C, HomeCalls(c)) : p[1].sub.conv = c => p \in DOMAIN call
<1>1. /\ \A s \in DOMAIN submission :
           s.conv = c => HasRow(Over(F, HomeSubmissions(c)), s, submission[s])
      /\ \A s \in DOMAIN Over(F, HomeSubmissions(c)) :
           s.conv = c => s \in DOMAIN submission /\ Over(F, HomeSubmissions(c))[s] = submission[s]
  BY DEF Foreign, HasRow, Over, HomeSubmissions
<1>2. /\ \A r \in DOMAIN run : r.sub.conv = c => HasRow(Over(R, HomeRuns(c)), r, run[r])
      /\ \A r \in DOMAIN Over(R, HomeRuns(c)) : r.sub.conv = c => r \in DOMAIN run
  BY DEF Foreign, HasRow, Over, HomeRuns
<1>3. /\ \A p \in DOMAIN call : p[1].sub.conv = c => HasRow(Over(C, HomeCalls(c)), p, call[p])
      /\ \A p \in DOMAIN Over(C, HomeCalls(c)) : p[1].sub.conv = c => p \in DOMAIN call
  BY DEF Foreign, HasRow, Over, HomeCalls
<1>4. QED
  BY <1>1, <1>2, <1>3

(* Only the conversation that is written to has to be looked at.           *)
LEMMA ReplayElsewhere ==
  ASSUME log \in [Conversations -> Seq(Event)], ReplayInv,
         NEW c \in Conversations, NEW events, LogAppend(c, events), ReplayAdds(c)',
         \A d : d # c => /\ HomeSubmissions(d)' = HomeSubmissions(d)
                         /\ HomeRuns(d)' = HomeRuns(d) /\ HomeCalls(d)' = HomeCalls(d)
  PROVE  ReplayInv'
<1>1. ASSUME NEW d \in Conversations, d # c PROVE ReplayAdds(d)'
  <2>1. log'[d] = log[d]
    BY <1>1 DEF LogAppend
  <2>2. \A F, R, C : WithHome(d, F, R, C)' = WithHome(d, F, R, C)
    BY <1>1 DEF WithHome
  <2>3. QED
    BY <1>1, <2>1, <2>2 DEF ReplayInv, ReplayAdds
<1>2. QED
  BY <1>1 DEF ReplayInv

LEMMA ReplayOneAdvances ==
  ASSUME log \in [Conversations -> Seq(Event)], ReplayInv,
         NEW c \in Conversations, NEW e \in Event, LogAppend(c, <<e>>),
         \A F, R, C : Foreign(c, F, R, C) => ReplayIndexEvent(WithHome(c, F, R, C), e) = WithHome(c, F, R, C)'
  PROVE  ReplayAdds(c)'
<1>1. log'[c] = log[c] \o <<e>> /\ log[c] \in Seq(Event)
  BY DEF LogAppend
<1>2. \A index : ReplayLog(index, log'[c]) = ReplayIndexEvent(ReplayLog(index, log[c]), e)
  BY <1>1, ReplayOneMore
<1>3. QED
  BY <1>2 DEF ReplayInv, ReplayAdds

LEMMA TwoEntries ==
  ASSUME NEW e \in Event, NEW f \in Event
  PROVE  <<e, f>> = <<e>> \o <<f>>
<1> DEFINE pair == <<e>> \o <<f>>
<1>1. <<e>> \in Seq(Event) /\ <<f>> \in Seq(Event)
  OBVIOUS
<1>2. pair \in Seq(Event) /\ Len(pair) = 2 /\ pair[1] = e /\ pair[2] = f
  BY <1>1
<1> HIDE DEF pair
<1>3. pair = <<e, f>>
  BY <1>2
<1>4. QED
  BY <1>3 DEF pair

LEMMA ReplayTwoAdvance ==
  ASSUME log \in [Conversations -> Seq(Event)], ReplayInv,
         NEW c \in Conversations, NEW e \in Event, NEW d \in Event, NEW events,
         LogAppend(c, events), events = <<e>> \o <<d>>,
         \A F, R, C : Foreign(c, F, R, C) =>
           ReplayIndexEvent(ReplayIndexEvent(WithHome(c, F, R, C), e), d) = WithHome(c, F, R, C)'
  PROVE  ReplayAdds(c)'
<1>1. log'[c] = (log[c] \o <<e>>) \o <<d>> /\ log[c] \in Seq(Event) /\ log[c] \o <<e>> \in Seq(Event)
  <2>1. log'[c] = log[c] \o (<<e>> \o <<d>>) /\ log[c] \in Seq(Event)
    BY DEF LogAppend
  <2>2. \A s \in Seq(Event) : s \o <<e>> \in Seq(Event) /\ s \o (<<e>> \o <<d>>) = (s \o <<e>>) \o <<d>>
    OBVIOUS
  <2>3. QED
    BY <2>1, <2>2
<1>2. \A index : ReplayLog(index, log'[c]) = ReplayIndexEvent(ReplayIndexEvent(ReplayLog(index, log[c]), e), d)
  BY <1>1, ReplayOneMore
<1>3. QED
  BY <1>2 DEF ReplayInv, ReplayAdds

-----------------------------------------------------------------------------
(* The same for the loop of ProjectView.                                   *)
ViewLoop(f, events, n) ==
  f = [i \in 0..n |-> IF i = 0 THEN NoView ELSE ViewEvent(f[i - 1], events[i])]

LEMMA ViewLoopExists ==
  ASSUME NEW events, NEW n \in Nat
  PROVE  \E f : ViewLoop(f, events, n)
<1> DEFINE S == {m \in Nat : \E f : ViewLoop(f, events, m)}
<1>1. 0 \in S
  <2>1. ViewLoop([i \in 0..0 |-> NoView], events, 0)
    BY DEF ViewLoop
  <2>2. QED
    BY <2>1
<1>2. ASSUME NEW m \in Nat, m \in S PROVE m + 1 \in S
  <2>1. PICK f : ViewLoop(f, events, m)
    BY <1>2
  <2> DEFINE g == [i \in 0..(m + 1) |-> IF i = m + 1 THEN ViewEvent(f[m], events[m + 1]) ELSE f[i]]
  <2>2. ASSUME NEW i \in 0..(m + 1)
        PROVE  g[i] = IF i = 0 THEN NoView ELSE ViewEvent(g[i - 1], events[i])
    BY <2>1 DEF ViewLoop
  <2>3. ViewLoop(g, events, m + 1)
    BY <2>2 DEF ViewLoop
  <2>4. QED
    BY <2>3
<1>3. Nat \subseteq S
  <2> HIDE DEF S
  <2>1. QED
    BY <1>1, <1>2, NumbersByInduction
<1>4. QED
  BY <1>3

LEMMA ViewLoopPrefix ==
  ASSUME NEW events, NEW more, NEW n \in Nat, NEW m \in Nat, n <= m,
         \A i \in 1..n : events[i] = more[i],
         NEW f, ViewLoop(f, events, n), NEW g, ViewLoop(g, more, m)
  PROVE  f[n] = g[n]
<1> DEFINE S == {i \in Nat : i <= n => f[i] = g[i]}
<1>1. 0 \in S
  BY DEF ViewLoop
<1>2. ASSUME NEW i \in Nat, i \in S PROVE i + 1 \in S
  BY <1>2 DEF ViewLoop
<1>3. Nat \subseteq S
  <2> HIDE DEF S
  <2>1. QED
    BY <1>1, <1>2, NumbersByInduction
<1>4. QED
  BY <1>3

LEMMA ViewLogLoop ==
  ASSUME NEW events, Len(events) \in Nat
  PROVE  \E f : ViewLoop(f, events, Len(events)) /\ ViewLog(events) = f[Len(events)]
<1> DEFINE f == CHOOSE f : ViewLoop(f, events, Len(events))
<1>1. ViewLoop(f, events, Len(events))
  BY ViewLoopExists
<1>2. ViewLog(events) = f[Len(events)]
  BY DEF ViewLog, ViewLoop
<1>3. QED
  BY <1>1, <1>2

LEMMA ViewNothing == ViewLog(<<>>) = NoView
<1>1. PICK f : ViewLoop(f, <<>>, 0) /\ ViewLog(<<>>) = f[0]
  <2>1. Len(<<>>) = 0
    OBVIOUS
  <2>2. QED
    BY <2>1, ViewLogLoop
<1>2. QED
  BY <1>1 DEF ViewLoop

LEMMA ViewOneMore ==
  ASSUME NEW events \in Seq(Event), NEW e \in Event
  PROVE  ViewLog(events \o <<e>>) = ViewEvent(ViewLog(events), e)
<1> DEFINE n == Len(events)
           more == events \o <<e>>
<1>1. n \in Nat /\ Len(more) = n + 1 /\ more[n + 1] = e /\ \A i \in 1..n : events[i] = more[i]
  OBVIOUS
<1> HIDE DEF more
<1>2. PICK f : ViewLoop(f, events, n) /\ ViewLog(events) = f[n]
  BY ViewLogLoop
<1>3. PICK g : ViewLoop(g, more, n + 1) /\ ViewLog(more) = g[n + 1]
  BY <1>1, ViewLogLoop
<1> HIDE DEF n
<1>4. f[n] = g[n]
  BY <1>1, <1>2, <1>3, ViewLoopPrefix
<1>5. g[n + 1] = ViewEvent(g[n], more[n + 1])
  BY <1>1, <1>3 DEF ViewLoop
<1>6. QED
  BY <1>1, <1>2, <1>3, <1>4, <1>5 DEF more

(* What one entry does to a view that admits it.                           *)
ViewOf(status, active, calls) == [ok |-> TRUE, status |-> status, active |-> active, call |-> calls]

LEMMA ViewsAccepted ==
  ASSUME NEW F, NEW A, NEW C, NEW s, s \notin DOMAIN F
  PROVE  ViewEvent(ViewOf(F, A, C), Accepted(s)) = ViewOf(Write(F, {s}, "queued"), A, C)
BY DEF ViewEvent, ViewAccepted, Check, ViewOf, Accepted

LEMMA ViewsClaim ==
  ASSUME NEW F, NEW A, NEW C, NEW r, r.sub \in DOMAIN F
  PROVE  ViewEvent(ViewEvent(ViewOf(F, A, C), Admitted(r)), Started(r))
           = ViewOf(Write(F, {r.sub}, "running"), {r}, C)
<1>1. ViewEvent(ViewOf(F, A, C), Admitted(r)) = ViewOf(F, A, C)
  BY DEF ViewEvent, ViewOf, Admitted
<1>2. ViewEvent(ViewOf(F, A, C), Started(r)) = ViewOf(Write(F, {r.sub}, "running"), {r}, C)
  BY DEF ViewEvent, ViewRun, Check, ViewOf, Started
<1>3. QED
  BY <1>1, <1>2

LEMMA ViewsCommitted ==
  ASSUME NEW F, NEW A, NEW C, NEW r, NEW S, \A k \in S : <<r, k>> \notin DOMAIN C
  PROVE  ViewEvent(ViewOf(F, A, C), Committed(r, S))
           = ViewOf(F, A, Write(C, {<<r, k>> : k \in S}, "requested"))
BY DEF ViewEvent, ViewCommitted, Check, ViewOf, Committed

LEMMA ViewsOutcome ==
  ASSUME NEW F, NEW A, NEW C, NEW r, NEW S, NEW status, \A k \in S : <<r, k>> \in DOMAIN C
  PROVE  ViewEvent(ViewOf(F, A, C), Outcome(r, S, status))
           = ViewOf(F, A, Write(C, {<<r, k>> : k \in S}, status))
BY DEF ViewEvent, ViewOutcome, Check, ViewOf, Outcome

LEMMA ViewsEnded ==
  ASSUME NEW F, NEW A, NEW C, NEW r, NEW status, r.sub \in DOMAIN F
  PROVE  ViewEvent(ViewOf(F, A, C), Ended(r, status)) = ViewOf(Write(F, {r.sub}, status), {}, C)
BY DEF ViewEvent, ViewRun, Check, ViewOf, Ended

LEMMA ViewsNote ==
  ASSUME NEW F, NEW A, NEW C, NEW r
  PROVE  ViewEvent(ViewOf(F, A, C), Note(r)) = ViewOf(F, A, C)
BY DEF ViewEvent, ViewOf, Note

HomeActive(c) == {r \in DOMAIN run : r.sub.conv = c /\ run[r] = "running"}
HomeView(c) == ViewOf(HomeSubmissions(c), HomeActive(c), HomeCalls(c))

ViewInv == \A c \in Conversations : ProjectView(c) = HomeView(c)

LEMMA ViewElsewhere ==
  ASSUME log \in [Conversations -> Seq(Event)], ViewInv,
         NEW c \in Conversations, NEW events, LogAppend(c, events), ProjectView(c)' = HomeView(c)',
         \A d : d # c => /\ HomeSubmissions(d)' = HomeSubmissions(d)
                         /\ HomeRuns(d)' = HomeRuns(d) /\ HomeCalls(d)' = HomeCalls(d)
  PROVE  ViewInv'
<1>1. ASSUME NEW d \in Conversations, d # c PROVE ProjectView(d)' = HomeView(d)'
  <2>1. log'[d] = log[d]
    BY <1>1 DEF LogAppend
  <2>2. HomeActive(d) = {r \in DOMAIN HomeRuns(d) : HomeRuns(d)[r] = "running"}
    BY DEF HomeActive, HomeRuns
  <2>3. HomeActive(d)' = {r \in DOMAIN HomeRuns(d)' : HomeRuns(d)'[r] = "running"}
    BY DEF HomeActive, HomeRuns
  <2>4. HomeView(d)' = HomeView(d)
    <3>1. HomeRuns(d)' = HomeRuns(d) /\ HomeSubmissions(d)' = HomeSubmissions(d) /\ HomeCalls(d)' = HomeCalls(d)
      BY <1>1
    <3>2. HomeActive(d)' = HomeActive(d)
      BY <2>2, <2>3, <3>1
    <3>3. QED
      BY <3>1, <3>2 DEF HomeView
  <2>5. QED
    BY <2>1, <2>4 DEF ViewInv, ProjectView
<1>2. QED
  BY <1>1 DEF ViewInv

LEMMA ViewOneAdvances ==
  ASSUME log \in [Conversations -> Seq(Event)], ViewInv,
         NEW c \in Conversations, NEW e \in Event, LogAppend(c, <<e>>),
         ViewEvent(HomeView(c), e) = HomeView(c)'
  PROVE  ProjectView(c)' = HomeView(c)'
<1>1. log'[c] = log[c] \o <<e>> /\ log[c] \in Seq(Event)
  BY DEF LogAppend
<1>2. ViewLog(log'[c]) = ViewEvent(ViewLog(log[c]), e)
  BY <1>1, ViewOneMore
<1>3. QED
  BY <1>2 DEF ViewInv, ProjectView

LEMMA ViewTwoAdvance ==
  ASSUME log \in [Conversations -> Seq(Event)], ViewInv,
         NEW c \in Conversations, NEW e \in Event, NEW d \in Event, NEW events,
         LogAppend(c, events), events = <<e>> \o <<d>>,
         ViewEvent(ViewEvent(HomeView(c), e), d) = HomeView(c)'
  PROVE  ProjectView(c)' = HomeView(c)'
<1>1. log'[c] = (log[c] \o <<e>>) \o <<d>> /\ log[c] \in Seq(Event) /\ log[c] \o <<e>> \in Seq(Event)
  <2>1. log'[c] = log[c] \o (<<e>> \o <<d>>) /\ log[c] \in Seq(Event)
    BY DEF LogAppend
  <2>2. \A s \in Seq(Event) : s \o <<e>> \in Seq(Event) /\ s \o (<<e>> \o <<d>>) = (s \o <<e>>) \o <<d>>
    OBVIOUS
  <2>3. QED
    BY <2>1, <2>2
<1>2. ViewLog(log'[c]) = ViewEvent(ViewEvent(ViewLog(log[c]), e), d)
  BY <1>1, ViewOneMore
<1>3. QED
  BY <1>2 DEF ViewInv, ProjectView

-----------------------------------------------------------------------------
(* The steps.                                                              *)
ReadInv == ReplayInv /\ ViewInv

(* A step that writes no row and no entry.                                 *)
LEMMA QuietRead ==
  ASSUME ReadInv, UNCHANGED <<log, submission, run, call>>
  PROVE  ReadInv'
<1>1. \A c : /\ HomeSubmissions(c)' = HomeSubmissions(c) /\ HomeRuns(c)' = HomeRuns(c)
             /\ HomeCalls(c)' = HomeCalls(c) /\ HomeActive(c)' = HomeActive(c)
  BY DEF HomeSubmissions, HomeRuns, HomeCalls, HomeActive
<1>2. ReplayInv'
  BY <1>1 DEF ReadInv, ReplayInv, ReplayAdds, WithHome
<1>3. ViewInv'
  BY <1>1 DEF ReadInv, ViewInv, ProjectView, HomeView
<1>4. QED
  BY <1>2, <1>3 DEF ReadInv

(* One entry, and what it does to the rows at home.                        *)
LEMMA ReadOne ==
  ASSUME log \in [Conversations -> Seq(Event)], ReadInv,
         NEW c \in Conversations, NEW e \in Event, LogAppend(c, <<e>>),
         \A F, R, C : Foreign(c, F, R, C) => ReplayIndexEvent(WithHome(c, F, R, C), e) = WithHome(c, F, R, C)',
         ViewEvent(HomeView(c), e) = HomeView(c)',
         \A d : d # c => /\ HomeSubmissions(d)' = HomeSubmissions(d)
                         /\ HomeRuns(d)' = HomeRuns(d) /\ HomeCalls(d)' = HomeCalls(d)
  PROVE  ReadInv'
<1>1. ReplayInv'
  <2>1. ReplayAdds(c)'
    BY ReplayOneAdvances DEF ReadInv
  <2>2. QED
    BY <2>1, ReplayElsewhere DEF ReadInv
<1>2. ViewInv'
  <2>1. ProjectView(c)' = HomeView(c)'
    BY ViewOneAdvances DEF ReadInv
  <2>2. QED
    BY <2>1, ViewElsewhere DEF ReadInv
<1>3. QED
  BY <1>1, <1>2 DEF ReadInv

LEMMA ReadTwo ==
  ASSUME log \in [Conversations -> Seq(Event)], ReadInv,
         NEW c \in Conversations, NEW e \in Event, NEW f \in Event, NEW events,
         LogAppend(c, events), events = <<e>> \o <<f>>,
         \A F, R, C : Foreign(c, F, R, C) =>
           ReplayIndexEvent(ReplayIndexEvent(WithHome(c, F, R, C), e), f) = WithHome(c, F, R, C)',
         ViewEvent(ViewEvent(HomeView(c), e), f) = HomeView(c)',
         \A d : d # c => /\ HomeSubmissions(d)' = HomeSubmissions(d)
                         /\ HomeRuns(d)' = HomeRuns(d) /\ HomeCalls(d)' = HomeCalls(d)
  PROVE  ReadInv'
<1>1. ReplayInv'
  <2>1. ReplayAdds(c)'
    BY ReplayTwoAdvance DEF ReadInv
  <2>2. QED
    BY <2>1, ReplayElsewhere DEF ReadInv
<1>2. ViewInv'
  <2>1. ProjectView(c)' = HomeView(c)'
    BY ViewTwoAdvance DEF ReadInv
  <2>2. QED
    BY <2>1, ViewElsewhere DEF ReadInv
<1>3. QED
  BY <1>1, <1>2 DEF ReadInv

LEMMA AcceptRead ==
  ASSUME StoreInv, ReadInv, NEW c \in Conversations, NEW k \in Keys, NEW t \in 1..MaxTime, Accept(c, k, t)
  PROVE  ReadInv'
<1> DEFINE s == [conv |-> c, key |-> k, at |-> t]
           e == Accepted(s)
<1>1. /\ s.conv = c /\ s.key = k /\ s \in Submission /\ e \in Event
      /\ LogAppend(c, <<e>>) /\ submission' = Write(submission, {s}, "queued")
      /\ UNCHANGED <<run, call>> /\ ~Duplicate(c, k)
  <2>1. s \in Submission
    BY DEF Submission
  <2>2. QED
    BY <2>1, EntriesTyped DEF Accept
<1> HIDE DEF s
<1>2. \A d : HomeRuns(d)' = HomeRuns(d) /\ HomeCalls(d)' = HomeCalls(d)
  BY <1>1 DEF HomeRuns, HomeCalls
<1>3. /\ HomeSubmissions(c)' = Write(HomeSubmissions(c), {s}, "queued")
      /\ \A d : d # c => HomeSubmissions(d)' = HomeSubmissions(d)
  BY <1>1, WriteHomeSubmissions
<1>4. ASSUME NEW F, NEW R, NEW C, Foreign(c, F, R, C)
      PROVE  ReplayIndexEvent(WithHome(c, F, R, C), e) = WithHome(c, F, R, C)'
  <2>1. \A u \in DOMAIN Over(F, HomeSubmissions(c)) : u.conv # s.conv \/ u.key # s.key
    BY <1>1, <1>4, HomeRows DEF Duplicate
  <2>2. ReplayIndexEvent(WithHome(c, F, R, C), e)
          = Index(Write(Over(F, HomeSubmissions(c)), {s}, "queued"),
                  Over(R, HomeRuns(c)), Over(C, HomeCalls(c)), EmptyTable)
    BY <2>1, ReplaysAccepted DEF WithHome
  <2>3. QED
    BY <1>2, <1>3, <2>2, OverWrite DEF WithHome
<1>5. ViewEvent(HomeView(c), e) = HomeView(c)'
  <2>1. s \notin DOMAIN HomeSubmissions(c)
    BY <1>1 DEF HomeSubmissions, Duplicate
  <2>2. HomeActive(c)' = HomeActive(c)
    BY <1>1 DEF HomeActive
  <2>3. QED
    BY <1>2, <1>3, <2>1, <2>2, ViewsAccepted DEF HomeView
<1> HIDE DEF e
<1>6. QED
  BY <1>1, <1>2, <1>3, <1>4, <1>5, ReadOne DEF StoreInv, TypeOK

LEMMA ClaimRead ==
  ASSUME StoreInv, ReadInv, NEW s \in DOMAIN submission, ClaimRunnable(s)
  PROVE  ReadInv'
<1> DEFINE c == s.conv
           r == NextRun(s)
           e == Admitted(r)
           f == Started(r)
           events == <<e, f>>
<1>1. s \in Submission /\ c \in Conversations /\ SubmissionIs(s, "queued") /\ ~ConversationBusy(c)
  BY DEF ClaimRunnable, Eligible, StoreInv, TypeOK, Submission
<1>2. {q \in DOMAIN run : q.sub = s} = {}
  BY <1>1 DEF SubmissionIs, StoreInv, TypeOK, ClaimedOnce, RunStatus, TerminalStatus
<1>3. r \in Run /\ r.sub = s /\ r \notin DOMAIN run
  <2>1. NextRun(s) = [sub |-> s, n |-> 1]
    BY <1>2, FS_EmptySet DEF NextRun
  <2>2. QED
    BY <1>1, <1>2, <2>1 DEF Run
<1>4. /\ e \in Event /\ f \in Event /\ events = <<e>> \o <<f>> /\ LogAppend(c, events)
      /\ submission' = Write(submission, {s}, "running") /\ run' = Write(run, {r}, "running")
      /\ UNCHANGED call
  <2>1. e \in Event /\ f \in Event
    BY <1>3, EntriesTyped
  <2>2. <<e, f>> = <<e>> \o <<f>>
    BY <2>1, TwoEntries
  <2>3. QED
    BY <2>1, <2>2 DEF ClaimRunnable
<1> HIDE DEF c, r, events
<1>5. s.conv = c /\ r.sub.conv = c
  BY <1>3 DEF c
<1>6. \A d : HomeCalls(d)' = HomeCalls(d)
  BY <1>4 DEF HomeCalls
<1>7. /\ HomeSubmissions(c)' = Write(HomeSubmissions(c), {s}, "running")
      /\ HomeRuns(c)' = Write(HomeRuns(c), {r}, "running")
      /\ \A d : d # c => HomeSubmissions(d)' = HomeSubmissions(d) /\ HomeRuns(d)' = HomeRuns(d)
  BY <1>4, <1>5, WriteHomeSubmissions, WriteHomeRuns
<1>8. ASSUME NEW F, NEW R, NEW C, Foreign(c, F, R, C)
      PROVE  ReplayIndexEvent(ReplayIndexEvent(WithHome(c, F, R, C), e), f) = WithHome(c, F, R, C)'
  <2> DEFINE FF == Over(F, HomeSubmissions(c))
             RR == Over(R, HomeRuns(c))
  <2>1. /\ HasRow(FF, r.sub, "queued") /\ r \notin DOMAIN RR
        /\ \A u \in DOMAIN FF : u.conv = r.sub.conv => FF[u] # "running"
    BY <1>1, <1>3, <1>5, <1>8, HomeRows DEF SubmissionIs, ConversationBusy
  <2> HIDE DEF FF, RR
  <2>2. ReplayIndexEvent(ReplayIndexEvent(Index(FF, RR, Over(C, HomeCalls(c)), EmptyTable), e), f)
          = Index(Write(FF, {s}, "running"), Write(RR, {r}, "running"), Over(C, HomeCalls(c)), EmptyTable)
    BY <1>3, <2>1, ReplaysClaim
  <2>3. QED
    BY <1>6, <1>7, <2>2, OverWrite DEF WithHome, FF, RR
<1>9. ViewEvent(ViewEvent(HomeView(c), e), f) = HomeView(c)'
  <2>1. r.sub \in DOMAIN HomeSubmissions(c)
    BY <1>1, <1>3, <1>5 DEF HomeSubmissions
  <2>2. HomeActive(c)' = {r}
    <3>1. \A q \in DOMAIN run : run[q] = "running" => q.sub.conv # c
      BY <1>1 DEF StoreInv, ClaimedOnce, SubmissionIs, ConversationBusy
    <3>2. QED
      BY <1>4, <1>5, <3>1 DEF HomeActive, Write
  <2>3. QED
    BY <1>3, <1>6, <1>7, <2>1, <2>2, ViewsClaim DEF HomeView
<1> HIDE DEF e, f
<1>10. QED
  <2>1. c \in Conversations
    BY <1>1 DEF c
  <2>2. QED
    BY <1>4, <1>6, <1>7, <1>8, <1>9, <2>1, ReadTwo DEF StoreInv, TypeOK

LEMMA RunningFacts ==
  ASSUME StoreInv, NEW r, RunIs(r, "running")
  PROVE  /\ r \in Run /\ r \in DOMAIN run /\ run[r] = "running"
         /\ r.sub \in Submission /\ r.sub.conv \in Conversations
         /\ r.sub \in DOMAIN submission /\ submission[r.sub] = "running"
         /\ HomeActive(r.sub.conv) = {r}
<1>1. /\ r \in Run /\ r \in DOMAIN run /\ run[r] = "running"
      /\ r.sub \in Submission /\ r.sub.conv \in Conversations
      /\ r.sub \in DOMAIN submission /\ submission[r.sub] = "running"
  BY RunType DEF RunIs, StoreInv, TypeOK, ClaimedOnce, SubmissionIs, Submission
<1>2. ASSUME NEW q \in DOMAIN run, run[q] = "running", q.sub.conv = r.sub.conv PROVE q = r
  <2>1. q.sub \in DOMAIN submission /\ submission[q.sub] = "running"
    BY <1>2 DEF StoreInv, ClaimedOnce, SubmissionIs
  <2>2. q.sub = r.sub
    BY <1>1, <1>2, <2>1 DEF StoreInv, OneRunPerLock
  <2>3. QED
    BY <1>1, <2>2 DEF StoreInv, ClaimedOnce
<1>3. QED
  BY <1>1, <1>2 DEF HomeActive

LEMMA WriteNothing ==
  ASSUME NEW f, f = [x \in DOMAIN f |-> f[x]], NEW value
  PROVE  Write(f, {}, value) = f
BY DEF Write

(* A turn's calls are requested.                                           *)
LEMMA CommitRead ==
  ASSUME StoreInv, ReadInv, NEW r \in workers, NEW S \in SUBSET Calls, CommitAssistantTurn(r, S)
  PROVE  ReadInv'
<1> DEFINE c == r.sub.conv
           e == Committed(r, S)
<1>1. RunIs(r, "running")
  BY WorkerFacts
<1>2. /\ e \in Event /\ LogAppend(c, <<e>>) /\ c \in Conversations
      /\ call' = Write(call, {<<r, k>> : k \in S}, "requested") /\ UNCHANGED <<submission, run>>
      /\ \A k \in S : <<r, k>> \notin DOMAIN call
  BY <1>1, RunningFacts, EntriesTyped DEF CommitAssistantTurn
<1> HIDE DEF c
<1>3. r.sub.conv = c
  BY DEF c
<1>4. \A d : HomeSubmissions(d)' = HomeSubmissions(d) /\ HomeRuns(d)' = HomeRuns(d) /\ HomeActive(d)' = HomeActive(d)
  BY <1>2 DEF HomeSubmissions, HomeRuns, HomeActive
<1>5. /\ HomeCalls(c)' = Write(HomeCalls(c), {<<r, k>> : k \in S}, "requested")
      /\ \A d : d # c => HomeCalls(d)' = HomeCalls(d)
  <2> DEFINE P == {<<r, k>> : k \in S}
  <2>1. call' = Write(call, P, "requested") /\ \A p \in P : p[1].sub.conv = c
    BY <1>2, <1>3
  <2> HIDE DEF P
  <2>2. HomeCalls(c)' = Write(HomeCalls(c), P, "requested") /\ \A d : d # c => HomeCalls(d)' = HomeCalls(d)
    BY <2>1, WriteHomeCalls
  <2>3. QED
    BY <2>2 DEF P
<1>6. ASSUME NEW F, NEW R, NEW C, Foreign(c, F, R, C)
      PROVE  ReplayIndexEvent(WithHome(c, F, R, C), e) = WithHome(c, F, R, C)'
  <2> DEFINE RR == Over(R, HomeRuns(c))
             CC == Over(C, HomeCalls(c))
  <2>1. r \in DOMAIN RR /\ \A k \in S : <<r, k>> \notin DOMAIN CC
    <3>1. r \in DOMAIN run
      BY <1>1 DEF RunIs
    <3>2. \A k \in S : <<r, k>>[1].sub.conv = c
      BY <1>3
    <3>3. QED
      BY <1>2, <1>3, <1>6, <3>1, <3>2, HomeRows DEF HasRow
  <2> HIDE DEF RR, CC
  <2>2. ReplayIndexEvent(Index(Over(F, HomeSubmissions(c)), RR, CC, EmptyTable), e)
          = Index(Over(F, HomeSubmissions(c)), RR, Write(CC, {<<r, k>> : k \in S}, "requested"), EmptyTable)
    BY <2>1, ReplaysCommitted
  <2>3. QED
    BY <1>4, <1>5, <2>2, OverWrite DEF WithHome, RR, CC
<1>7. ViewEvent(HomeView(c), e) = HomeView(c)'
  <2>1. \A k \in S : <<r, k>> \notin DOMAIN HomeCalls(c)
    BY <1>2 DEF HomeCalls
  <2>2. QED
    BY <1>4, <1>5, <2>1, ViewsCommitted DEF HomeView
<1> HIDE DEF e
<1>8. QED
  BY <1>2, <1>4, <1>5, <1>6, <1>7, ReadOne DEF StoreInv, TypeOK

(* Requested calls have their outcome.                                     *)
LEMMA OutcomeRead ==
  ASSUME StoreInv, ReadInv, NEW r, RunIs(r, "running"), NEW S \in SUBSET RequestedCalls(r),
         NEW status \in ToolOutcome,
         NEW c, c = r.sub.conv, NEW F, NEW R, NEW C, Foreign(c, F, R, C)
  PROVE  /\ ReplayIndexEvent(WithHome(c, F, R, C), Outcome(r, S, status))
              = Index(Over(F, HomeSubmissions(c)), Over(R, HomeRuns(c)),
                      Over(C, Write(HomeCalls(c), {<<r, k>> : k \in S}, status)), EmptyTable)
         /\ ViewEvent(HomeView(c), Outcome(r, S, status))
              = ViewOf(HomeSubmissions(c), HomeActive(c), Write(HomeCalls(c), {<<r, k>> : k \in S}, status))
<1>1. \A k \in S : <<r, k>> \in DOMAIN call /\ call[<<r, k>>] = "requested" /\ <<r, k>>[1].sub.conv = c
  BY DEF RequestedCalls
<1> DEFINE CC == Over(C, HomeCalls(c))
<1>2. \A k \in S : HasRow(CC, <<r, k>>, "requested")
  BY <1>1, HomeRows
<1>3. \A k \in S : <<r, k>> \in DOMAIN HomeCalls(c)
  BY <1>1 DEF HomeCalls
<1> HIDE DEF CC
<1>4. ReplayIndexEvent(Index(Over(F, HomeSubmissions(c)), Over(R, HomeRuns(c)), CC, EmptyTable), Outcome(r, S, status))
        = Index(Over(F, HomeSubmissions(c)), Over(R, HomeRuns(c)), Write(CC, {<<r, k>> : k \in S}, status), EmptyTable)
  BY <1>2, ReplaysOutcome
<1>5. ViewEvent(HomeView(c), Outcome(r, S, status))
        = ViewOf(HomeSubmissions(c), HomeActive(c), Write(HomeCalls(c), {<<r, k>> : k \in S}, status))
  BY <1>3, ViewsOutcome DEF HomeView
<1>6. QED
  BY <1>4, <1>5, OverWrite DEF WithHome, CC

LEMMA ToolFinishedRead ==
  ASSUME StoreInv, ReadInv, NEW r \in workers, NEW k \in Calls,
         NEW status \in {"completed", "failed", "denied"}, ToolFinished(r, k, status)
  PROVE  ReadInv'
<1> DEFINE c == r.sub.conv
           S == {k}
           e == Outcome(r, S, status)
<1>1. RunIs(r, "running") /\ status \in ToolOutcome /\ S \in SUBSET RequestedCalls(r)
  BY WorkerFacts DEF ToolOutcome, ToolFinished
<1>2. /\ e \in Event /\ LogAppend(c, <<e>>) /\ c \in Conversations
      /\ call' = Write(call, {<<r, j>> : j \in S}, status) /\ UNCHANGED <<submission, run>>
  <2>1. {<<r, j>> : j \in S} = {<<r, k>>}
    OBVIOUS
  <2>2. QED
    BY <1>1, <2>1, RunningFacts, EntriesTyped DEF ToolFinished
<1> HIDE DEF c, S
<1>3. r.sub.conv = c
  BY DEF c
<1>4. \A d : HomeSubmissions(d)' = HomeSubmissions(d) /\ HomeRuns(d)' = HomeRuns(d) /\ HomeActive(d)' = HomeActive(d)
  BY <1>2 DEF HomeSubmissions, HomeRuns, HomeActive
<1>5. /\ HomeCalls(c)' = Write(HomeCalls(c), {<<r, j>> : j \in S}, status)
      /\ \A d : d # c => HomeCalls(d)' = HomeCalls(d)
  <2> DEFINE P == {<<r, j>> : j \in S}
  <2>1. call' = Write(call, P, status) /\ \A p \in P : p[1].sub.conv = c
    BY <1>2, <1>3
  <2> HIDE DEF P
  <2>2. HomeCalls(c)' = Write(HomeCalls(c), P, status) /\ \A d : d # c => HomeCalls(d)' = HomeCalls(d)
    BY <2>1, WriteHomeCalls
  <2>3. QED
    BY <2>2 DEF P
<1>6. ASSUME NEW F, NEW R, NEW C, Foreign(c, F, R, C)
      PROVE  ReplayIndexEvent(WithHome(c, F, R, C), e) = WithHome(c, F, R, C)'
  BY <1>1, <1>3, <1>4, <1>5, <1>6, OutcomeRead DEF WithHome
<1>7. ViewEvent(HomeView(c), e) = HomeView(c)'
  <2>1. Foreign(c, EmptyTable, EmptyTable, EmptyTable)
    BY DEF Foreign, EmptyTable
  <2>2. QED
    BY <1>1, <1>3, <1>4, <1>5, <2>1, OutcomeRead DEF HomeView
<1> HIDE DEF e
<1>8. QED
  BY <1>2, <1>4, <1>5, <1>6, <1>7, ReadOne DEF StoreInv, TypeOK

LEMMA NoteRead ==
  ASSUME StoreInv, ReadInv, NEW r \in DOMAIN run, AppendNote(r)
  PROVE  ReadInv'
<1> DEFINE c == r.sub.conv
           e == Note(r)
<1>1. /\ RunIs(r, "running") /\ e \in Event /\ LogAppend(c, <<e>>) /\ c \in Conversations
      /\ UNCHANGED <<submission, run, call>>
  BY RunningFacts, EntriesTyped DEF AppendNote, MayNote, tables
<1>2. \A d : /\ HomeSubmissions(d)' = HomeSubmissions(d) /\ HomeRuns(d)' = HomeRuns(d)
             /\ HomeCalls(d)' = HomeCalls(d) /\ HomeActive(d)' = HomeActive(d)
  BY <1>1 DEF HomeSubmissions, HomeRuns, HomeCalls, HomeActive
<1>3. \A F, R, C : ReplayIndexEvent(WithHome(c, F, R, C), e) = WithHome(c, F, R, C)'
  BY <1>2, ReplaysNote DEF WithHome
<1>4. ViewEvent(HomeView(c), e) = HomeView(c)'
  BY <1>2, ViewsNote DEF HomeView
<1> HIDE DEF c, e
<1>5. QED
  BY <1>1, <1>2, <1>3, <1>4, ReadOne DEF StoreInv, TypeOK

(* The rows at home when a run ends.                                       *)
EndsAtHome(r, c, status) ==
  /\ RunIs(r, "running") /\ c = r.sub.conv /\ status \in TerminalStatus
  /\ submission' = Write(submission, {r.sub}, status) /\ run' = Write(run, {r}, status)

LEMMA EndingHome ==
  ASSUME StoreInv, NEW r, NEW c, NEW status, EndsAtHome(r, c, status)
  PROVE  /\ HomeSubmissions(c)' = Write(HomeSubmissions(c), {r.sub}, status)
         /\ HomeRuns(c)' = Write(HomeRuns(c), {r}, status)
         /\ HomeActive(c)' = {}
<1>1. HomeActive(c) = {r}
  BY RunningFacts DEF EndsAtHome
<1>2. HomeActive(c)' = {}
  BY <1>1 DEF HomeActive, Write, TerminalStatus, EndsAtHome
<1>3. QED
  BY <1>2, WriteHomeSubmissions, WriteHomeRuns DEF EndsAtHome

LEMMA EndingReplays ==
  ASSUME StoreInv, NEW r, NEW c, NEW status, EndsAtHome(r, c, status),
         NEW F, NEW R, NEW C, Foreign(c, F, R, C), NEW CC
  PROVE  ReplayIndexEvent(Index(Over(F, HomeSubmissions(c)), Over(R, HomeRuns(c)), CC, EmptyTable), Ended(r, status))
           = Index(Over(F, HomeSubmissions(c)'), Over(R, HomeRuns(c)'), CC, EmptyTable)
<1>1. /\ HomeSubmissions(c)' = Write(HomeSubmissions(c), {r.sub}, status)
      /\ HomeRuns(c)' = Write(HomeRuns(c), {r}, status)
  BY EndingHome
<1> DEFINE FF == Over(F, HomeSubmissions(c))
           RR == Over(R, HomeRuns(c))
<1>2. /\ r \in DOMAIN run /\ run[r] = "running"
      /\ r.sub \in DOMAIN submission /\ submission[r.sub] = "running" /\ c = r.sub.conv
  BY RunningFacts DEF EndsAtHome
<1>3. HasRow(RR, r, "running") /\ HasRow(FF, r.sub, "running")
  BY <1>2, HomeRows
<1> HIDE DEF FF, RR
<1>4. ReplayIndexEvent(Index(FF, RR, CC, EmptyTable), Ended(r, status))
        = Index(Write(FF, {r.sub}, status), Write(RR, {r}, status), CC, EmptyTable)
  BY <1>3, ReplaysEnded
<1>5. QED
  BY <1>1, <1>4, OverWrite DEF FF, RR

LEMMA EndingViews ==
  ASSUME StoreInv, NEW r, NEW c, NEW status, EndsAtHome(r, c, status), NEW A, NEW H
  PROVE  ViewEvent(ViewOf(HomeSubmissions(c), A, H), Ended(r, status))
           = ViewOf(HomeSubmissions(c)', HomeActive(c)', H)
<1>1. HomeSubmissions(c)' = Write(HomeSubmissions(c), {r.sub}, status) /\ HomeActive(c)' = {}
  <2>1. HomeSubmissions(c)' = Write(HomeSubmissions(c), {r.sub}, status)
    BY WriteHomeSubmissions DEF EndsAtHome
  <2>2. HomeActive(c)' = {}
    BY EndingHome
  <2>3. QED
    BY <2>1, <2>2
<1>2. r.sub \in DOMAIN HomeSubmissions(c)
  <2>1. r.sub \in DOMAIN submission /\ r.sub.conv = c
    BY RunningFacts DEF EndsAtHome
  <2>2. QED
    BY <2>1 DEF HomeSubmissions
<1>3. ViewEvent(ViewOf(HomeSubmissions(c), A, H), Ended(r, status)) = ViewOf(Write(HomeSubmissions(c), {r.sub}, status), {}, H)
  BY <1>2, ViewsEnded
<1>4. QED
  BY <1>1, <1>3

LEMMA FinishRead ==
  ASSUME StoreInv, ReadInv, NEW r \in workers, FinishRun(r)
  PROVE  ReadInv'
<1> DEFINE c == r.sub.conv
           status == "completed"
           e == Committed(r, {})
           f == Ended(r, status)
<1>1. RunIs(r, "running") /\ c \in Conversations /\ r \in Run
  BY WorkerFacts
<1>2. /\ e \in Event /\ f \in Event /\ LogAppend(c, <<e, f>>) /\ <<e, f>> = <<e>> \o <<f>>
      /\ status \in TerminalStatus /\ UNCHANGED call
      /\ submission' = Write(submission, {r.sub}, status) /\ run' = Write(run, {r}, status)
  <2>1. e \in Event /\ f \in Event
    BY <1>1, EntriesTyped DEF TerminalStatus
  <2>2. <<e, f>> = <<e>> \o <<f>>
    BY <2>1, TwoEntries
  <2>3. QED
    BY <2>1, <2>2 DEF FinishRun, TerminalStatus
<1> HIDE DEF c, status, e, f
<1>3. c = r.sub.conv
  BY DEF c
<1>4. \A d : HomeCalls(d)' = HomeCalls(d)
  BY <1>2 DEF HomeCalls
<1>5. {<<r, k>> : k \in {}} = {}
  OBVIOUS
<1>ending. EndsAtHome(r, c, status)
  BY <1>1, <1>2, <1>3 DEF EndsAtHome
<1>entries. e = Committed(r, {}) /\ f = Ended(r, status)
  BY DEF e, f
<1>6. ASSUME NEW F, NEW R, NEW C, Foreign(c, F, R, C)
      PROVE  ReplayIndexEvent(ReplayIndexEvent(WithHome(c, F, R, C), e), f) = WithHome(c, F, R, C)'
  <2> DEFINE RR == Over(R, HomeRuns(c))
             CC == Over(C, HomeCalls(c))
  <2>1. r \in DOMAIN RR
    BY <1>1, <1>3, <1>6, RunningFacts, HomeRows DEF HasRow
  <2>2. Write(CC, {}, "requested") = CC
    BY WriteNothing DEF Over
  <2> HIDE DEF RR, CC
  <2>3. ReplayIndexEvent(Index(Over(F, HomeSubmissions(c)), RR, CC, EmptyTable), e)
          = Index(Over(F, HomeSubmissions(c)), RR, CC, EmptyTable)
    BY <1>5, <1>entries, <2>1, <2>2, ReplaysCommitted
  <2>4. ReplayIndexEvent(Index(Over(F, HomeSubmissions(c)), Over(R, HomeRuns(c)), CC, EmptyTable), f)
          = Index(Over(F, HomeSubmissions(c)'), Over(R, HomeRuns(c)'), CC, EmptyTable)
    BY <1>ending, <1>entries, <1>6, EndingReplays
  <2>5. QED
    BY <1>4, <2>3, <2>4 DEF WithHome, RR, CC
<1>7. ViewEvent(ViewEvent(HomeView(c), e), f) = HomeView(c)'
  <2>1. Foreign(c, EmptyTable, EmptyTable, EmptyTable)
    BY DEF Foreign, EmptyTable
  <2>2. Write(HomeCalls(c), {}, "requested") = HomeCalls(c)
    BY WriteNothing DEF HomeCalls
  <2>3. ViewEvent(HomeView(c), e) = HomeView(c)
    BY <1>5, <1>entries, <2>2, ViewsCommitted DEF HomeView
  <2>4. ViewEvent(ViewOf(HomeSubmissions(c), HomeActive(c), HomeCalls(c)), f)
          = ViewOf(HomeSubmissions(c)', HomeActive(c)', HomeCalls(c))
    BY <1>ending, <1>entries, EndingViews
  <2>5. QED
    BY <1>4, <2>3, <2>4 DEF HomeView
<1>8. \A d : d # c => HomeSubmissions(d)' = HomeSubmissions(d) /\ HomeRuns(d)' = HomeRuns(d)
  BY <1>ending, WriteHomeSubmissions, WriteHomeRuns DEF EndsAtHome
<1>9. c \in Conversations
  BY <1>1 DEF c
<1> DEFINE events == <<e, f>>
<1>10. LogAppend(c, events) /\ events = <<e>> \o <<f>>
  BY <1>2
<1> HIDE DEF events
<1>11. QED
  BY <1>2, <1>4, <1>6, <1>7, <1>8, <1>9, <1>10, ReadTwo DEF StoreInv, TypeOK

(* An ending with what it interrupts.                                      *)
LEMMA EndRunRead ==
  ASSUME StoreInv, ReadInv, NEW r, RunIs(r, "running"), NEW status \in TerminalStatus, EndRun(r, status)
  PROVE  ReadInv'
<1> DEFINE c == r.sub.conv
           S == RequestedCalls(r)
           P == {<<r, k>> : k \in S}
           e == Outcome(r, S, "interrupted")
           f == Ended(r, status)
<1>1. c \in Conversations /\ r \in Run /\ S \in SUBSET Calls
  BY RunningFacts DEF RequestedCalls
<1>2. e \in Event /\ f \in Event /\ "interrupted" \in ToolOutcome
  BY <1>1, EntriesTyped DEF ToolOutcome
<1>3. /\ LogAppend(c, Interruption(r) \o <<f>>) /\ call' = Write(call, P, "interrupted")
      /\ submission' = Write(submission, {r.sub}, status) /\ run' = Write(run, {r}, status)
  BY DEF EndRun
<1>4. \A p \in P : p[1].sub.conv = c
  OBVIOUS
<1> HIDE DEF c, P, e, f
<1>entries. e = Outcome(r, S, "interrupted") /\ f = Ended(r, status)
  BY DEF e, f
<1>5. c = r.sub.conv /\ EndsAtHome(r, c, status)
  BY <1>3 DEF c, EndsAtHome
<1>6. /\ HomeCalls(c)' = Write(HomeCalls(c), P, "interrupted")
      /\ \A d : d # c => HomeCalls(d)' = HomeCalls(d)
  BY <1>3, <1>4, WriteHomeCalls
<1>7. \A d : d # c => HomeSubmissions(d)' = HomeSubmissions(d) /\ HomeRuns(d)' = HomeRuns(d)
  BY <1>5, WriteHomeSubmissions, WriteHomeRuns DEF EndsAtHome
<1>8. Foreign(c, EmptyTable, EmptyTable, EmptyTable)
  BY DEF Foreign, EmptyTable
<1>9. c \in Conversations
  BY <1>1 DEF c
<1>10. CASE S = {}
  <2>1. P = {}
    BY <1>10 DEF P
  <2>2. HomeCalls(c)' = HomeCalls(c)
    BY <1>6, <2>1, WriteNothing DEF HomeCalls
  <2>3. LogAppend(c, <<f>>)
    <3>1. Interruption(r) \o <<f>> = <<f>>
      BY <1>2, <1>10 DEF Interruption
    <3>2. QED
      BY <1>3, <3>1
  <2>4. ASSUME NEW F, NEW R, NEW C, Foreign(c, F, R, C)
        PROVE  ReplayIndexEvent(WithHome(c, F, R, C), f) = WithHome(c, F, R, C)'
    BY <1>entries, <1>5, <2>2, <2>4, EndingReplays DEF WithHome
  <2>5. ViewEvent(HomeView(c), f) = HomeView(c)'
    BY <1>entries, <1>5, <2>2, EndingViews DEF HomeView
  <2>6. QED
    BY <1>2, <1>6, <1>7, <1>9, <2>3, <2>4, <2>5, ReadOne DEF StoreInv, TypeOK
<1>11. CASE S # {}
  <2> DEFINE events == Interruption(r) \o <<f>>
  <2>1. events = <<e>> \o <<f>>
    BY <1>11 DEF Interruption, e
  <2>2. LogAppend(c, events)
    BY <1>3
  <2> HIDE DEF events, S
  <2>3. ASSUME NEW F, NEW R, NEW C, Foreign(c, F, R, C)
        PROVE  ReplayIndexEvent(ReplayIndexEvent(WithHome(c, F, R, C), e), f) = WithHome(c, F, R, C)'
    <3>1. ReplayIndexEvent(WithHome(c, F, R, C), e)
            = Index(Over(F, HomeSubmissions(c)), Over(R, HomeRuns(c)),
                    Over(C, Write(HomeCalls(c), P, "interrupted")), EmptyTable)
      BY <1>2, <1>entries, <1>5, <2>3, OutcomeRead DEF P, S
    <3> DEFINE CC == Over(C, Write(HomeCalls(c), P, "interrupted"))
    <3> HIDE DEF CC
    <3>2. ReplayIndexEvent(Index(Over(F, HomeSubmissions(c)), Over(R, HomeRuns(c)), CC, EmptyTable), f)
            = Index(Over(F, HomeSubmissions(c)'), Over(R, HomeRuns(c)'), CC, EmptyTable)
      BY <1>entries, <1>5, <2>3, EndingReplays
    <3>3. QED
      BY <1>6, <3>1, <3>2 DEF WithHome, CC
  <2>4. ViewEvent(ViewEvent(HomeView(c), e), f) = HomeView(c)'
    <3> DEFINE H == Write(HomeCalls(c), P, "interrupted")
    <3>1. ViewEvent(HomeView(c), e) = ViewOf(HomeSubmissions(c), HomeActive(c), H)
      BY <1>2, <1>entries, <1>5, <1>8, OutcomeRead DEF P, S
    <3> HIDE DEF H
    <3>2. ViewEvent(ViewOf(HomeSubmissions(c), HomeActive(c), H), f) = ViewOf(HomeSubmissions(c)', HomeActive(c)', H)
      BY <1>entries, <1>5, EndingViews
    <3>3. QED
      BY <1>6, <3>1, <3>2 DEF HomeView, H
  <2>5. QED
    BY <1>2, <1>6, <1>7, <1>9, <2>1, <2>2, <2>3, <2>4, ReadTwo DEF StoreInv, TypeOK
<1>12. QED
  BY <1>10, <1>11

LEMMA ReadStep ==
  ASSUME StoreInv, ReadInv, [Next]_vars
  PROVE  ReadInv'
<1>1. CASE \E r \in workers : WorkerStep(r)
  <2> PICK r \in workers : WorkerStep(r)
    BY <1>1
  <2>1. RunIs(r, "running")
    BY WorkerFacts
  <2>2. CASE \E S \in SUBSET Calls : CommitAssistantTurn(r, S)
    BY <2>2, CommitRead
  <2>3. CASE \E k \in Calls, status \in {"completed", "failed", "denied"} : ToolFinished(r, k, status)
    BY <2>3, ToolFinishedRead
  <2>4. CASE FinishRun(r)
    BY <2>4, FinishRead
  <2>5. CASE FailRun(r) \/ StopRun(r)
    BY <2>1, <2>5, EndRunRead DEF FailRun, StopRun, TerminalStatus
  <2>6. CASE EndNotPersisted(r)
    BY <2>6, QuietRead DEF EndNotPersisted, tables
  <2>7. QED
    BY <2>2, <2>3, <2>4, <2>5, <2>6 DEF WorkerStep
<1>2. CASE \E r \in DOMAIN run : RecoverRun(r)
  BY <1>2, EndRunRead DEF RecoverRun, TerminalStatus
<1>3. CASE Open
  BY <1>3, OpenPreserves, QuietRead DEF Open, tables
<1>4. CASE \/ \E c \in Conversations : CreateConversation(c)
           \/ \E w \in Workspaces : ReserveWorkspace(w) \/ ReleaseWorkspace(w) \/ ReleaseFailed(w)
           \/ Crash \/ ClearReservations \/ Serve \/ UNCHANGED vars
  BY <1>4, QuietRead DEF CreateConversation, ReserveWorkspace, ReleaseWorkspace, ReleaseFailed, Crash,
                         ClearReservations, Serve, vars, tables
<1>5. QED
  BY <1>1, <1>2, <1>3, <1>4, AcceptRead, ClaimRead, NoteRead DEF Next

LEMMA InitReads == Init => ReadInv
<1> SUFFICES ASSUME Init PROVE ReadInv
  OBVIOUS
<1>1. ASSUME NEW c \in Conversations
      PROVE  /\ log[c] = <<>>
             /\ HomeSubmissions(c) = EmptyTable /\ HomeRuns(c) = EmptyTable /\ HomeCalls(c) = EmptyTable
             /\ HomeActive(c) = {}
  BY DEF Init, EmptyTable, HomeSubmissions, HomeRuns, HomeCalls, HomeActive
<1>2. \A f : f = [x \in DOMAIN f |-> f[x]] => Over(f, EmptyTable) = f
  BY DEF Over, EmptyTable
<1>3. ReplayInv
  <2> SUFFICES ASSUME NEW c \in Conversations, NEW F, NEW R, NEW C, Foreign(c, F, R, C)
               PROVE  ReplayLog(Index(F, R, C, EmptyTable), log[c]) = WithHome(c, F, R, C)
    BY DEF ReplayInv, ReplayAdds
  <2>1. Over(F, EmptyTable) = F /\ Over(R, EmptyTable) = R /\ Over(C, EmptyTable) = C
    BY <1>2 DEF Foreign
  <2>2. WithHome(c, F, R, C) = Index(F, R, C, EmptyTable)
    BY <1>1, <2>1 DEF WithHome
  <2>3. QED
    BY <1>1, <2>2, ReplayNothing
<1>4. ViewInv
  <2> SUFFICES ASSUME NEW c \in Conversations PROVE ProjectView(c) = HomeView(c)
    BY DEF ViewInv
  <2>1. ProjectView(c) = NoView
    BY <1>1, ViewNothing DEF ProjectView
  <2>2. HomeView(c) = NoView
    BY <1>1 DEF HomeView, ViewOf, NoView
  <2>3. QED
    BY <2>1, <2>2
<1>5. QED
  BY <1>3, <1>4 DEF ReadInv

-----------------------------------------------------------------------------
(* The whole rebuild: the logs one after another.                          *)

(* Finitely many conversations have entries.                               *)
FiniteLogs == IsFiniteSet(LoggedConversations)

LEMMA FiniteLogsStep ==
  ASSUME StoreInv, FiniteLogs, [Next]_vars
  PROVE  FiniteLogs'
<1>1. ASSUME NEW c, NEW events, LogAppend(c, events) PROVE FiniteLogs'
  <2>1. LoggedConversations' \subseteq LoggedConversations \cup {c}
    BY <1>1 DEF LogAppend, LoggedConversations, StoreInv, TypeOK
  <2>2. IsFiniteSet(LoggedConversations \cup {c})
    BY FS_AddElement DEF FiniteLogs
  <2>3. QED
    BY <2>1, <2>2, FS_Subset DEF FiniteLogs
<1>2. CASE UNCHANGED log
  BY <1>2 DEF FiniteLogs, LoggedConversations
<1>3. QED
  BY <1>1, <1>2, LogSteps DEF Accept, ClaimRunnable, RunWrites

(* The rows of some conversations.                                         *)
SubmissionsOf(D) == [s \in {s \in DOMAIN submission : s.conv \in D} |-> submission[s]]
RunsOf(D)        == [r \in {r \in DOMAIN run : r.sub.conv \in D} |-> run[r]]
CallsOf(D)       == [p \in {p \in DOMAIN call : p[1].sub.conv \in D} |-> call[p]]
RowsOf(D)        == Index(SubmissionsOf(D), RunsOf(D), CallsOf(D), EmptyTable)

LEMMA NextLog ==
  ASSUME ReplayInv, NEW c \in Conversations, NEW D, c \notin D
  PROVE  ReplayLog(RowsOf(D), log[c]) = RowsOf(D \cup {c})
<1>1. Foreign(c, SubmissionsOf(D), RunsOf(D), CallsOf(D))
  BY DEF Foreign, SubmissionsOf, RunsOf, CallsOf
<1>2. Over(SubmissionsOf(D), HomeSubmissions(c)) = SubmissionsOf(D \cup {c})
  BY DEF Over, SubmissionsOf, HomeSubmissions
<1>3. Over(RunsOf(D), HomeRuns(c)) = RunsOf(D \cup {c})
  BY DEF Over, RunsOf, HomeRuns
<1>4. Over(CallsOf(D), HomeCalls(c)) = CallsOf(D \cup {c})
  BY DEF Over, CallsOf, HomeCalls
<1>5. QED
  BY <1>1, <1>2, <1>3, <1>4 DEF ReplayInv, ReplayAdds, WithHome, RowsOf

(* Every row is of a conversation with entries.                            *)
LEMMA RowsLogged ==
  ASSUME StoreInv, OrderInv
  PROVE  RowsOf(LoggedConversations) = Index(submission, run, call, EmptyTable)
<1>1. ASSUME NEW s \in DOMAIN submission PROVE s.conv \in LoggedConversations
  <2>1. s \in LoggedSubmissions
    BY IndexFacts DEF StoreInv
  <2>2. PICK e \in Logged : e.type = "input.accepted" /\ e.sub = s
    BY <2>1 DEF LoggedSubmissions, LoggedOf
  <2>3. PICK c \in Conversations : \E i \in DOMAIN log[c] : log[c][i] = e
    BY <2>2 DEF Logged
  <2>4. s.conv = c
    BY <2>2, <2>3 DEF OrderInv, AcceptedAtHome
  <2>5. log[c] # <<>>
    BY <2>3
  <2>6. QED
    BY <2>4, <2>5 DEF LoggedConversations
<1>2. ASSUME NEW r \in DOMAIN run PROVE r.sub \in DOMAIN submission
  BY DEF StoreInv, ClaimedOnce, SubmissionIs
<1>3. ASSUME NEW p \in DOMAIN call PROVE p[1] \in DOMAIN run
  <2>1. p \in LoggedCalls /\ DOMAIN run = LoggedRuns
    BY IndexFacts DEF StoreInv
  <2>2. QED
    BY <2>1 DEF LoggedCalls
<1>4. /\ SubmissionsOf(LoggedConversations) = submission
      /\ RunsOf(LoggedConversations) = run
      /\ CallsOf(LoggedConversations) = call
  <2>1. /\ submission = [s \in DOMAIN submission |-> submission[s]]
        /\ run = [r \in DOMAIN run |-> run[r]] /\ call = [p \in DOMAIN call |-> call[p]]
    BY DEF StoreInv, TypeOK
  <2>2. SubmissionsOf(LoggedConversations) = submission
    BY <1>1, <2>1 DEF SubmissionsOf
  <2>3. RunsOf(LoggedConversations) = run
    BY <1>1, <1>2, <2>1 DEF RunsOf
  <2>4. CallsOf(LoggedConversations) = call
    BY <1>1, <1>2, <1>3, <2>1 DEF CallsOf
  <2>5. QED
    BY <2>2, <2>3, <2>4
<1>5. QED
  BY <1>4 DEF RowsOf

RebuildLoop(f, order, n) ==
  f = [i \in 0..n |-> IF i = 0 THEN NoIndex ELSE ReplayLog(f[i - 1], log[order[i]])]

LEMMA RebuildLoopExists ==
  ASSUME NEW order, NEW n \in Nat
  PROVE  \E f : RebuildLoop(f, order, n)
<1> DEFINE S == {m \in Nat : \E f : RebuildLoop(f, order, m)}
<1>1. 0 \in S
  <2>1. RebuildLoop([i \in 0..0 |-> NoIndex], order, 0)
    BY DEF RebuildLoop
  <2>2. QED
    BY <2>1
<1>2. ASSUME NEW m \in Nat, m \in S PROVE m + 1 \in S
  <2>1. PICK f : RebuildLoop(f, order, m)
    BY <1>2
  <2> DEFINE g == [i \in 0..(m + 1) |-> IF i = m + 1 THEN ReplayLog(f[m], log[order[m + 1]]) ELSE f[i]]
  <2>2. ASSUME NEW i \in 0..(m + 1)
        PROVE  g[i] = IF i = 0 THEN NoIndex ELSE ReplayLog(g[i - 1], log[order[i]])
    BY <2>1 DEF RebuildLoop
  <2>3. RebuildLoop(g, order, m + 1)
    BY <2>2 DEF RebuildLoop
  <2>4. QED
    BY <2>3
<1>3. Nat \subseteq S
  <2> HIDE DEF S
  <2>1. QED
    BY <1>1, <1>2, NumbersByInduction
<1>4. QED
  BY <1>3

(* In whatever order the conversations come, the rebuild has the store's   *)
(* rows at the end.                                                        *)
LEMMA RebuildsRows ==
  ASSUME StoreInv, OrderInv, ReadInv, FiniteLogs, NEW order \in Orders
  PROVE  Rebuilt(order) = Index(submission, run, call, EmptyTable)
<1> DEFINE n == Cardinality(LoggedConversations)
           Before(i) == {order[j] : j \in 1..i}
<1>1. n \in Nat
  BY FS_CardinalityType DEF FiniteLogs
<1>2. /\ order \in [1..n -> LoggedConversations]
      /\ \A i, j \in 1..n : order[i] = order[j] => i = j
      /\ \A c \in LoggedConversations : \E i \in 1..n : order[i] = c
  BY DEF Orders, Bijection, Injection, Surjection, IsInjective
<1> DEFINE after == CHOOSE f : RebuildLoop(f, order, n)
<1>3. RebuildLoop(after, order, n)
  BY <1>1, RebuildLoopExists
<1>4. Rebuilt(order) = Check(DOMAIN after[n].admitted = {}, after[n], after[n])
  BY DEF Rebuilt, RebuildLoop
<1> HIDE DEF after, n
<1> DEFINE S == {i \in Nat : i <= n => after[i] = RowsOf(Before(i))}
<1>5. 0 \in S
  <2>1. Before(0) = {}
    OBVIOUS
  <2>2. RowsOf({}) = NoIndex
    BY DEF RowsOf, SubmissionsOf, RunsOf, CallsOf, Index, NoIndex, EmptyTable
  <2>3. after[0] = NoIndex
    BY <1>1, <1>3 DEF RebuildLoop
  <2>4. QED
    BY <2>1, <2>2, <2>3
<1>6. ASSUME NEW i \in Nat, i \in S PROVE i + 1 \in S
  <2> SUFFICES ASSUME i + 1 <= n PROVE after[i + 1] = RowsOf(Before(i + 1))
    OBVIOUS
  <2>1. after[i] = RowsOf(Before(i))
    BY <1>1, <1>6
  <2>2. after[i + 1] = ReplayLog(after[i], log[order[i + 1]])
    BY <1>1, <1>3 DEF RebuildLoop
  <2>3. order[i + 1] \in Conversations /\ order[i + 1] \notin Before(i)
    BY <1>1, <1>2 DEF LoggedConversations
  <2>4. Before(i + 1) = Before(i) \cup {order[i + 1]}
    OBVIOUS
  <2> HIDE DEF Before
  <2>5. QED
    BY <2>1, <2>2, <2>3, <2>4, NextLog DEF ReadInv
<1>7. Nat \subseteq S
  <2> HIDE DEF S
  <2>1. QED
    BY <1>5, <1>6, NumbersByInduction
<1>8. Before(n) = LoggedConversations
  BY <1>1, <1>2
<1>9. after[n] = RowsOf(LoggedConversations)
  BY <1>1, <1>7, <1>8
<1>10. after[n] = Index(submission, run, call, EmptyTable)
  BY <1>9, RowsLogged
<1>11. DOMAIN after[n].admitted = {}
  BY <1>10 DEF Index, EmptyTable
<1>12. QED
  BY <1>4, <1>10, <1>11 DEF Check

LEMMA ReadsAgree ==
  ASSUME StoreInv, OrderInv, ReadInv, FiniteLogs
  PROVE  ReplayAgrees
<1>1. ReplaySucceeds
  BY RebuildsRows DEF ReplaySucceeds, Index
<1>2. ASSUME NEW c \in Conversations
      PROVE  /\ ProjectView(c).ok
             /\ ProjectView(c).status = HomeSubmissions(c)
             /\ ProjectView(c).call = HomeCalls(c)
             /\ ProjectView(c).active = HomeActive(c)
  BY DEF ReadInv, ViewInv, HomeView, ViewOf
<1>3. SnapshotAgrees
  BY <1>2 DEF SnapshotAgrees, HomeSubmissions, HomeCalls, HomeActive
<1>4. QED
  BY <1>1, <1>3 DEF ReplayAgrees

-----------------------------------------------------------------------------
(* Theorems.                                                               *)

(* The inductive invariant holds in every state the store can reach.       *)
THEOREM StoreInvariant == Spec => []StoreInv
BY InitEstablishes, NextPreserves, PTL DEF Spec

(* Every row and every log entry has its type; in particular endRun never  *)
(* gives a tool call the status of a run.                                  *)
THEOREM TypeCorrect == Spec => []TypeOK
<1>1. StoreInv => TypeOK
  BY DEF StoreInv
<1>2. QED
  BY <1>1, StoreInvariant, PTL

(* ClaimRunnable gives every lock to one run at a time, whatever           *)
(* conversations share which workspaces and locks; ReserveWorkspace finds  *)
(* no run in the workspace, and ClaimRunnable passes over a reserved one:  *)
(* a restore and a run never overlap.                                      *)
THEOREM Exclusion == Spec => []RunsExclude
<1>1. StoreInv => RunsExclude
  BY DEF StoreInv, RunsExclude
<1>2. QED
  BY <1>1, StoreInvariant, PTL

(* An accepted message is claimed at most once, by a run whose status its  *)
(* submission shares, across any number of crashes and recoveries.         *)
THEOREM OnceClaimed == Spec => []ClaimedOnce
<1>1. StoreInv => ClaimedOnce
  BY DEF StoreInv
<1>2. QED
  BY <1>1, StoreInvariant, PTL

(* finishRun, endRun and RecoverRunning leave no tool call requested once  *)
(* its run has ended.                                                      *)
THEOREM NoCallStranded == Spec => []NoStrandedCall
<1>1. StoreInv => NoStrandedCall
  BY DEF StoreInv
<1>2. QED
  BY <1>1, StoreInvariant, PTL

(* Every transaction leaves in the indexes what rebuildIndexes would make  *)
(* of the logs it leaves.                                                  *)
THEOREM RebuildIsExact == Spec => []RebuildExact
<1>1. StoreInv => RebuildExact
  BY DEF StoreInv
<1>2. QED
  BY <1>1, StoreInvariant, PTL

(* The entries of a run, and those of acceptances and claims, in every     *)
(* state the store can reach.                                              *)
THEOREM LogInvariant == Spec => [](BracketInv /\ OrderInv)
<1>1. Init => BracketInv /\ OrderInv
  BY DEF Init, BracketInv, StartsAtHome, RunEntriesBracketed, OrderInv, AcceptedAtHome, Dated,
         KeyNamesOneSubmission, NoOvertaking, EmptyTable
<1>2. StoreInv /\ (BracketInv /\ OrderInv) /\ [Next]_vars => (BracketInv /\ OrderInv)'
  BY BracketStep, OrderStep
<1>3. QED
  BY <1>1, <1>2, StoreInvariant, PTL DEF Spec

(* CommitAssistantTurn, the outcomes, AppendAgentEvent and the endings: in *)
(* a conversation's log every entry of a run lies between its start and    *)
(* its end, whoever was still writing when the run ended.                  *)
THEOREM EntriesBracketed == Spec => []RunEntriesBracketed
<1>1. BracketInv /\ OrderInv => RunEntriesBracketed
  BY DEF BracketInv
<1>2. QED
  BY <1>1, LogInvariant, PTL

(* ClaimRunnable's ORDER BY: no message is claimed while one of its        *)
(* conversation with an earlier accepted time waits, whichever others wait *)
(* for their locks and whatever a recovery ends in between.                *)
THEOREM ClaimsInOrder == Spec => []NoOvertaking
<1>1. BracketInv /\ OrderInv => NoOvertaking
  BY DEF OrderInv
<1>2. QED
  BY <1>1, LogInvariant, PTL

(* SubmitInput's answer to a key it has: a key names one message of its    *)
(* conversation, across retries, crashes and rebuilds.                     *)
THEOREM KeysUnique == Spec => []KeyNamesOneSubmission
<1>1. BracketInv /\ OrderInv => KeyNamesOneSubmission
  BY DEF OrderInv
<1>2. QED
  BY <1>1, LogInvariant, PTL

(* Both programs that read a log from the beginning: in every state, at    *)
(* whatever point the process died, rebuildIndexes accepts the logs, in    *)
(* whatever order the conversations' random IDs put them, and inserts the  *)
(* rows the store had, and ProjectView accepts each log and shows what the *)
(* store schedules by.                                                     *)
THEOREM ReadersAgree == Spec => []ReplayAgrees
<1>1. Init => ReadInv /\ FiniteLogs
  <2>1. Init => LoggedConversations = {}
    BY DEF Init, LoggedConversations
  <2>2. QED
    BY <2>1, InitReads, FS_EmptySet DEF FiniteLogs
<1>2. StoreInv /\ (ReadInv /\ FiniteLogs) /\ [Next]_vars => (ReadInv /\ FiniteLogs)'
  BY ReadStep, FiniteLogsStep
<1>3. StoreInv /\ (BracketInv /\ OrderInv) /\ (ReadInv /\ FiniteLogs) => ReplayAgrees
  BY ReadsAgree
<1>4. QED
  BY <1>1, <1>2, <1>3, StoreInvariant, LogInvariant, PTL DEF Spec

(* No step of any transaction, rebuild or recovery changes the outcome of  *)
(* a submission that has ended.                                            *)
THEOREM Finality == Spec => EndIsFinal
<1>1. StoreInv /\ [Next]_vars =>
        [\A s \in DOMAIN submission :
           submission[s] \in TerminalStatus => s \in DOMAIN submission' /\ submission'[s] = submission[s]]_vars
  BY EndedStays
<1>2. QED
  BY <1>1, StoreInvariant, PTL DEF Spec, EndIsFinal

(* The store, with its crashes, rebuilds and recoveries, implements the    *)
(* queue of the runtime.Store contract: every transaction is one step of   *)
(* the queue or none.                                                      *)
THEOREM Refinement == Spec => ImplementsQueue
BY InitImplements, StepImplements, StoreInvariant, PTL DEF Spec, ImplementsQueue, Queue!Spec
=============================================================================
