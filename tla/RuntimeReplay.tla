---------------------------- MODULE RuntimeReplay ----------------------------
(***************************************************************************)
(* The two programs that read a conversation's log from the beginning:     *)
(* rebuildIndexes (runtime/sqlite/rebuild.go), which replaces the store's  *)
(* indexes when it opens and refuses a log that is not well formed, and    *)
(* ProjectView (runtime/projection.go), which makes the snapshot a client  *)
(* renders.  Both are loops over the log with an error result; they are    *)
(* run here on every log the store of module RuntimeStore can reach.       *)
(***************************************************************************)
EXTENDS RuntimeStore, Functions

-----------------------------------------------------------------------------
(* rebuildIndexes.  A result is the three tables, the admissions no run    *)
(* start has matched yet, and whether every entry could be replayed.       *)
NoIndex == [ok |-> TRUE, submission |-> EmptyTable, run |-> EmptyTable,
            call |-> EmptyTable, admitted |-> EmptyTable]

Failed(index) == [index EXCEPT !.ok = FALSE]
Check(condition, index, next) == IF condition THEN next ELSE Failed(index)

HasRow(table, x, status) == x \in DOMAIN table /\ table[x] = status

(* INSERT of the accepted row, under its primary key and its unique        *)
(* (conversation, idempotency key).                                        *)
ReplayAccepted(index, e) ==
  Check(\A s \in DOMAIN index.submission : s.conv # e.sub.conv \/ s.key # e.sub.key,
        index,
        [index EXCEPT !.submission = Write(@, {e.sub}, "queued")])

ReplayAdmitted(index, e) ==
  Check(e.run.sub \notin DOMAIN index.admitted,
        index,
        [index EXCEPT !.admitted = Write(@, {e.run.sub}, e.run)])

(* A start needs its admission, and a submission that is queued; the       *)
(* schema allows one running submission per conversation.                  *)
ReplayStarted(index, e) ==
  Check(/\ HasRow(index.admitted, e.run.sub, e.run)
        /\ HasRow(index.submission, e.run.sub, "queued")
        /\ \A s \in DOMAIN index.submission :
             s.conv = e.run.sub.conv => index.submission[s] # "running"
        /\ e.run \notin DOMAIN index.run,
        index,
        [index EXCEPT !.admitted = [s \in DOMAIN @ \ {e.run.sub} |-> @[s]],
                      !.submission = Write(@, {e.run.sub}, "running"),
                      !.run = Write(@, {e.run}, "running")])

ReplayCommitted(index, e) ==
  LET rows == {<<e.run, k>> : k \in e.calls}
  IN Check(rows \cap DOMAIN index.call = {} /\ (rows # {} => e.run \in DOMAIN index.run),
           index,
           [index EXCEPT !.call = Write(@, rows, "requested")])

ReplayOutcome(index, e) ==
  LET rows == {<<e.run, k>> : k \in e.calls}
  IN Check(\A p \in rows : HasRow(index.call, p, "requested"),
           index,
           [index EXCEPT !.call = Write(@, rows, e.status)])

ReplayEnded(index, e) ==
  Check(HasRow(index.run, e.run, "running") /\ HasRow(index.submission, e.run.sub, "running"),
        index,
        [index EXCEPT !.run = Write(@, {e.run}, e.status),
                      !.submission = Write(@, {e.run.sub}, e.status)])

ReplayIndexEvent(index, e) ==
  CASE ~index.ok                                -> index
    [] e.type = "input.accepted"                -> ReplayAccepted(index, e)
    [] e.type = "input.admitted"                -> ReplayAdmitted(index, e)
    [] e.type = "run.started"                   -> ReplayStarted(index, e)
    [] e.type = "assistant.output.committed"    -> ReplayCommitted(index, e)
    [] e.type = "tool.outcome.recorded"         -> ReplayOutcome(index, e)
    [] e.type = "run.ended"                     -> ReplayEnded(index, e)
    [] OTHER                                    -> index

(* The events of one conversation, in the order of their cursors.          *)
ReplayLog(index, events) ==
  LET after[i \in 0..Len(events)] ==
        IF i = 0 THEN index ELSE ReplayIndexEvent(after[i - 1], events[i])
  IN after[Len(events)]

(* The conversations come in the order of their IDs, which are random: any *)
(* order.                                                                  *)
LoggedConversations == {c \in Conversations : log[c] # <<>>}
Orders == Bijection(1..Cardinality(LoggedConversations), LoggedConversations)

Rebuilt(order) ==
  LET after[i \in 0..Cardinality(LoggedConversations)] ==
        IF i = 0 THEN NoIndex ELSE ReplayLog(after[i - 1], log[order[i]])
      replayed == after[Cardinality(LoggedConversations)]
  IN Check(DOMAIN replayed.admitted = {}, replayed, replayed)

-----------------------------------------------------------------------------
(* ProjectView: submission statuses, the active run, and tool calls, from  *)
(* the public entries (admissions project nothing; notes are agent.*       *)
(* entries, which are not public, or progress, which touches none of it).  *)
NoView == [ok |-> TRUE, status |-> EmptyTable, active |-> {}, call |-> EmptyTable]

ViewAccepted(view, e) ==
  Check(e.sub \notin DOMAIN view.status, view,
        [view EXCEPT !.status = Write(@, {e.sub}, "queued")])

ViewCommitted(view, e) ==
  LET rows == {<<e.run, k>> : k \in e.calls}
  IN Check(rows \cap DOMAIN view.call = {}, view,
           [view EXCEPT !.call = Write(@, rows, "requested")])

ViewOutcome(view, e) ==
  LET rows == {<<e.run, k>> : k \in e.calls}
  IN Check(rows \subseteq DOMAIN view.call, view,
           [view EXCEPT !.call = Write(@, rows, e.status)])

ViewRun(view, r, status, active) ==
  Check(r.sub \in DOMAIN view.status, view,
        [view EXCEPT !.status = Write(@, {r.sub}, status), !.active = active])

ViewEvent(view, e) ==
  CASE ~view.ok                                 -> view
    [] e.type = "input.accepted"                -> ViewAccepted(view, e)
    [] e.type = "assistant.output.committed"    -> ViewCommitted(view, e)
    [] e.type = "tool.outcome.recorded"         -> ViewOutcome(view, e)
    [] e.type = "run.started"                   -> ViewRun(view, e.run, "running", {e.run})
    [] e.type = "run.ended"                     -> ViewRun(view, e.run, e.status, {})
    [] OTHER                                    -> view

ViewLog(events) ==
  LET view[i \in 0..Len(events)] ==
        IF i = 0 THEN NoView ELSE ViewEvent(view[i - 1], events[i])
  IN view[Len(events)]

ProjectView(c) == ViewLog(log[c])

-----------------------------------------------------------------------------
(* Opening the store never refuses a log the store wrote, at whatever      *)
(* point the process died, and the rows it inserts are the ones the dead   *)
(* process had: recovery fails exactly the runs that were executing.       *)
ReplaySucceeds ==
  \A order \in Orders :
    LET index == Rebuilt(order)
    IN /\ index.ok
       /\ index.submission = submission /\ index.run = run /\ index.call = call

(* The snapshot, which is made from the log alone, agrees with the indexes *)
(* that schedule work: the status of each message, the status of each tool *)
(* call, and the run it calls active is the conversation's running run.    *)
SnapshotAgrees ==
  \A c \in Conversations :
    LET view == ProjectView(c)
    IN /\ view.ok
       /\ view.status = [s \in {s \in DOMAIN submission : s.conv = c} |-> submission[s]]
       /\ view.call = [p \in {p \in DOMAIN call : p[1].sub.conv = c} |-> call[p]]
       /\ view.active = {r \in DOMAIN run : r.sub.conv = c /\ run[r] = "running"}

(* Both readings of the log agree with what the store schedules by.        *)
ReplayAgrees == ReplaySucceeds /\ SnapshotAgrees
=============================================================================
