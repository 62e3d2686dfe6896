# pons in TLA+

A verification development of the pons runtime: TLA+ models of the program's
own coordination logic, model-checked with TLC on small instances, and theorems
about them proved with TLAPS for every value of the constants. Paths below are
relative to `src/`.

## 1. The system

pons runs a coding agent. Clients (HTTP, a browser, a terminal) hold
*conversations*; a message sent to one is a *submission*. A server process
claims submissions one by one, executes each as a *run* of the agent loop in a
workspace, and appends everything that happens to the conversation's durable
*event log*, which clients follow live. Around that core are the environments in
which tools execute, checkpoints of workspaces, and plugins.

```
 client --SubmitInput/StopRun/View/Subscribe/Restore--> Manager --claims--> run goroutine
    ^                                                     |    ^                 |
    |            events, in cursor order                  |    +--- emits -------+ Core.Run: brain,
    +------------------ Subscriptions <-------------------+                         hooks, tools
                                                          v
                         SQLite store: event logs + indexes + reservations
```

### Inventory

| Component | State | Operations | What is hard | What makes it correct |
|---|---|---|---|---|
| Durable runtime store (`runtime/sqlite`) | event logs; indexes `submissions`, `runs`, `tool_calls`; `workspace_reservations` | accept, claim, turn, tool outcome, finish, fail, stop, notes, reserve, release, rebuild, recover | crash between any two transactions; claims against reservations; late writers; rebuild from logs | one run per conversation and lock; claimed once; final outcomes; no stranded call; indexes equal the logs' replay; order of acceptance |
| Snapshot projection (`runtime/projection.go`) | none (a fold) | `ProjectView` | log and indexes can drift apart | agrees with the indexes |
| Manager and scheduler (`runtime/manager.go`, `scheduler.go`, `workspaces.go`) | wake token, slots, wait group, run registry, closed flag, publication lock | create a conversation, schedule, dispatch, work, submit, stop, restore, close | coalesced wakeups, failing store calls, stop against completion, close against everything, settings that change between runs | no slot leaks; a visible run can be stopped; a stop is not forgotten; close waits and returns; every message runs; two runs never work in one directory |
| Subscriptions (`runtime/subscriptions.go`) | subscribers with a bounded channel and a cursor | view, subscribe, broadcast, leave | backlog against live delivery, slow clients, overtaking publishers | a client has exactly the public log up to its cursor |
| Agent capabilities (`runtime/agent.go`, `agentdir`) | files | resolve a revision | a changed definition | a run uses the revision it was accepted for |
| Core loop (`core.go`, `hooks.go`) | transcript, iteration counters, pending calls | run, execute tools, emit, hooks | concurrent tools, cancellation, hooks that stop or steer | every call has one outcome, in call order; turns are durable before their tools run |
| Preflight and permission (`preflight.go`, `permission.go`) | per-call decision, denial counters | decide, resolve, ask | repeated rewrites and denials, waits for an answer | a denied call never executes; deciding terminates |
| Model context (`runtime/sqlite/store.go`, `plugins/brain/llm`) | the brain's turns in memory; the log | seed, respond, reconcile, compact; load context, latest compaction | interrupted runs, prepared inputs, opaque provider items, compaction | the log brings back the turns the model worked with; a provider accepts every request |
| Checkpoints (`runtime/checkpoint`, `environment/checkpoints.go`) | archives, histories | put, record, prune, restore | prune against append, failure or crash between archive and entry | a retained checkpoint has its archive, its base and the source of its restore |
| E2B provider (`environment/e2b`) | sandboxes, environment rows, heartbeat, recovery reservations | start, session, close, restore, janitor | lost sandboxes, stale janitor lists, crash while saving | a session opens on the current checkpoint; edits no checkpoint holds are not taken for clean nor discarded |
| Git workspaces, GitHub App, Seatbelt | the repository, tokens, a profile | start a workspace | external commands | left out |
| LLM providers (`plugins/brain/llm`) | provider order | call, fail over | failures in the middle of a stream | a turn is produced once |
| External plugins (`plugins/external`, `sdk`) | pending requests, a process or connection, two pipes | start, call, cancel, deliver, close | crossing replies and cancellations, process exit, a hung plugin | a plugin that keeps to the protocol is kept; a wait for a reply that was sent ends, with the reply while the connection lasts; Close returns |
| MCP (`plugins/mcp`) | connections | connect, call, close | a server that goes away | every call returns |
| Tool host, directory sync (`internal/toolhost`, `internal/dirsync`) | frames, manifests | call, sync | partial syncs | no file of either side is lost |
| Tools (`plugins/edit`, `bash`, `fs`, `internal/unidiff`, ...) | files, processes | apply a patch, run a command | limits, process groups | a patch applies completely or not at all |
| HTTP transport (`runtime/httptransport`) | open streams | handlers, `Send` | retries, streams that end | `Send` returns its own message's outcome |
| Command line (`cmd/pons`) | its conversation and count of texts; the server's settings | `runClient`; the checks of a workspace; what the runner refuses | a command repeated with its key, a crash between two texts, changed settings | texts follow one another; a run works where its conversation was placed or not at all |
| Configuration, Codex login, web client, examples | files | wiring | - | left out |

`PROJECT.json` lists the components with their files, and under `hazards` what
is hard to test in this code, line by line, with the properties that watch it.

## 2. Modules

| Module | Models |
|---|---|
| `RunQueue` | abstract: what the store promises the scheduler |
| `RuntimeStore` | the store in detail; implements `RunQueue` |
| `RuntimeReplay` | `replayIndexEvent` and `ProjectView` as folds over the logs `RuntimeStore` writes |
| `RuntimeManager` | the serving process over `RunQueue` |
| `Placement` | where conversations work: `Manager.CreateConversation`, its checks, the lock it chooses, and what the runner makes of it after a restart with other settings |
| `Subscriptions` | publishers and followers of one conversation |
| `ClientSend` | the command line client over the HTTP transport: conversations of `Placement`, their logs, `Send` |
| `RunContract` | abstract: what one run owes the store |
| `CoreLoop` | one run: `Core.Run` inside `agentRunner.Run`; implements `RunContract` |
| `Preflight` | one call from its start hooks to its answer |
| `ModelContext` | what the model is shown: the brain's turns, the entries that record them, the context rebuilt from those for the next run |
| `Retention` | which entries of a checkpoint history are kept: pure operators |
| `E2BWorkspace` | one workspace in E2B sandboxes: sessions, checkpoints, restores, the janitor; uses `Retention` |
| `ExternalHost` | one external plugin, its host and the SDK's serving loop |
| `RuntimeStoreProofs`, `RuntimeManagerProofs`, `ClientSendProofs`, `SubscriptionsProofs`, `CoreLoopProofs` (also of `Preflight`), `ModelContextProofs`, `E2BWorkspaceProofs`, `ExternalHostProofs` | theorems |
| `MC*` | small instances for TLC |

### RuntimeStore

Every store operation is one immediate SQLite transaction, so it is one action
that updates the log and the indexes together. `submission`, `run` and `call`
are the three index tables as partial functions to a status; `log` is the
`events` table; `reserved` is `workspace_reservations`. A submission is named by
its immutable columns (conversation, key, accepted time), a run by its
submission and a number fresh for it: the code draws random IDs.

Outside the store the model keeps what decides which calls can come: the work
goroutines (`workers`), restores under way (`restores`), and the process
(`"down"`, `"recovering"`, `"open"`). `Crash` can come between any two
transactions; `Open` replaces the indexes by what the logs say; recovery clears
the reservations and fails the running runs one transaction each, and can crash
itself. A terminal transaction or a release that fails is an action too
(`EndNotPersisted`, `ReleaseFailed`): the row stays until a restart.
`CommitAssistantTurn` and `FinishRun` do not look at the run's status, as in the
code; that they are called only for a running run is the worker's discipline,
and proved (`WorkersRunning`).

Payloads are abstracted: a message is its key, an outcome entry stands for the
entries of all calls resolved in one transaction, `run.ended` for the three end
events. Ties among equal accepted times go by random ID in the code, so
`OldestEligible` leaves them open.

### RuntimeReplay

`SubmissionIndex`, `RunIndex` and `CallIndex` of `RuntimeStore` say in closed form
what a rebuild produces. `RuntimeReplay` folds the same log entry by entry, with
every check that makes `Open` refuse a database, and `ProjectView` likewise;
`ReplayAgrees` says that no log the store wrote is refused and that the fold and
the closed form agree (`ReplaySucceeds`), and that the client's snapshot and the
indexes do (`SnapshotAgrees`). The folds are recursive functions over a log, so that
`ReadersAgree` can prove this by induction (section 4).

### RuntimeManager

One action per critical section. `sched` is the program counter of the
scheduler goroutine through `schedule` and `dispatch`, `worker[s]` that of
the goroutine of a run through `work`, `submit[s]`, `restore[w]` and `closer`
those of the client calls. The claim publication lock is held by the scheduler
from `claim` to `publish` and by a submission from `entered` to `accepted`; the
wait group is the counter `running`. The store is `RunQueue`, used through
`Store == INSTANCE RunQueue`, whose actions `RuntimeStore` is proved to
implement. Up to `MaxErrors` store calls fail.

The deferred calls of `work` run in the order the code gives them: the slot is
free before the wakeup is sent. The other order passes every test that has a
repair tick, and fails `EveryMessageRuns`. `ManagerInv` is the
types and how the registry follows the goroutines: it holds exactly the runs
between their registration and their deregistration, and contains every run a
client can see running, unless a claim is just being published.

### Placement

`CreateConversation` fixes of a conversation its workspace ID, its directory and its
lock; `Accepts` is what it and `PrepareConversation` check. Directories are a tree
(`Within`), a client names one by a path that `EvalSymlinks` resolves (`Leads`), and
the containment tests of `pathContains` are that tree's order. `policy` and `sandbox`
are the two settings that decide, and `Restart` may change them. A run is claimed
under its conversation's lock, and `Executable` says whether `agentRunner.Run` goes on
to the files or refuses: it compares the environment and checks a host directory
again. `SharedWorkspaceSharesLock` is what `RuntimeStore` assumes of its input
(`WorkspaceAssumption`); `DirectoriesExclusive` is what the locks are for.

Two host directories, one inside the other, get different locks, so their runs may
meet in the files of the inner one: the code promises exclusion for a directory, not
for a subtree. `DirectoriesExclusive` says just that, and more only of the agent's own
workspace, which `validateWorkspaceOutsideState` keeps every client's directory clear
of. The tree is
fixed. A path replaced by a link after its conversation was created is checked again
by the runner, though not locked anew, and the model leaves that out.

### Subscriptions

One conversation. A commit and its delivery are two steps of a publisher that
holds the conversation's mutex, except for a claim, which commits without it
under the publication lock. `Push` is `broadcastLocked` for one subscriber. A
client takes a View, subscribes from its cursor, receives, and subscribes again
from the last cursor it has (as the web client does). Private `agent.*` entries
take cursors and are never sent, so a client's cursors have gaps by design.
`DeliveryInv` is the types, that a client has received exactly the public log up
to its cursor, and that an open stream has what lies between its cursor and the
end of the log in its channel or with a publisher about to deliver it.

### ClientSend

A command is `runClient`: it creates a conversation or takes a View of one, opens the
event stream at the View's cursor, submits under its key (`Msg`: the key, then the key
with the number of the text), and reads the stream until an outcome of its own
message. `at[i]` is where it is in that, `seen[i]` the snapshot's cursor, `cursor[i]`
what the stream has given. A submission whose key was accepted before is a duplicate,
whose outcome is looked for in the snapshot first (`InSnapshot`) and otherwise awaited
(`SubmitAgain`). Any call may be lost (`Lost`) and the command given again, the stream
is cut when the process dies, and other clients submit under the same keys
(`SubmitElsewhere`).

The server is reduced to its log: `Claim` and `End` write what a claim and an ending
write, in the order `RuntimeStore` proves (`NoOvertaking`, `EndIsFinal`), and `Recover`
fails the run a crash interrupted. That a stream is the log in order from its cursor
is `Subscriptions`. Keys are per conversation: a command that creates its
conversation and is repeated creates a second one, where its key is new.

### CoreLoop

`pc` is where `Core.Run` is: the run starts, its hooks run, a turn starts, the
brain responds, the turn's calls are decided, recorded, resolved, started,
executed and ended, the turn ends, and the run finishes, stops, goes on or is
exhausted; `"closing"` is the deferred function of `Run`, `"prepare"` and
`"teardown"` the runner around it. Tools of one turn execute in any order
(`ExecuteTool`), their results are reported in call order (`EndToolCall`).
`Cancel` can come between any two steps; only `decideCalls` and
`requestPermission` look at the context, as in the code.

What a step reports goes to the checked sink, here the conversation's log
(`recorded`, `started`, `outcome`, `ending`). `SinkFails` is the sink failing at a
step that reports, `BrainFails` a brain that fails at a step that asks it; both
leave for the closing. Hooks that run after the loop report their own failure
through `Reported`. `opened`, `turnCloses`, `agentCloses`, `continues`, `told` and
`refused` are history: the events reported, the closing hooks invoked, and the
approvals refused, which the properties count.

`decision` takes any value the start hooks can give; which values those are is
`Preflight`'s subject. `RunContract` is the run as the store sees it: calls are
requested together, resolved in order, and none is left when the run answers.
`RuntimeStore!FinishRun` relies on the last point (its `ResolvedBefore`).

### Preflight

`round` and `next` are the two loops of `decideToolCall`, `merged`, `decided` and
`fallback` its local variables, `updated` the arguments a hook would have instead
(`args` when there is none). A hook's answer is one of nine kinds (`Says`), the
combinations of permission, fallback and error the code tells apart. `said` and
`denied` record the answers, so that `OrderIrrelevant` can compare the accumulated
decision with a reference that sees them as a set. Its operators have names of
their own (`CallSpec`, `requestPermission`) because `CoreLoopProofs` extends it
beside `CoreLoop`.

### ModelContext

One conversation whose messages run one after the other. `turns` and `pending`
are the fields of the brain; `phase` is where the run is: claimed, its input
prepared, a turn opened (`Respond` up to the request), compacted, replied to, its
calls committed, executed and reported, its answer given. `log` holds the entries
`loadContextAfterTx` reads, and `LoadEvent` is that function entry by entry, with
the errors that fail a claim; `Loaded` runs it over the log, past the last
compaction's cursor, and `LoadedContext` is what `ClaimNext` hands to the
runner. A block of a turn is its kind and what it belongs to, so that a result can
be matched with its call and a provider's opaque item with its place. A run may end
at any point (`EndRun` is a failure, a stop, or the recovery after a crash), and
the calls it leaves get an interrupted outcome, as `RuntimeStore` shows they do.
`ContextReplays` compares the context rebuilt from the log with the brain's own
turns at every step of a run: the turns and their blocks always, and the places of
opaque items among the blocks unless a reply of the run had an empty text before one
(section 5); `RequestAccepted` is what a provider demands of a
request, and rests on the compaction boundary, on those interrupted outcomes and on
the joining of results in the replay.

### Retention and E2BWorkspace

`Retention` is `KeptCheckpoints` and what it calls; `WithSources`, the smallest closed
set, is what the code's walk from the newest entry computes, since a source is older
than the restore that names it. `E2BWorkspace` places one
workspace in sandboxes: workspaces share nothing but the stripe of a mutex. `pc`
is the run in `Provider.Start` and in the session's `Close`, `beat` the heartbeat
goroutine, `restore` `History.RestoreWorkspace`, `sweep` the janitor, `rec` the
call of `RecordWorkspaceCheckpoint` a run or a restore is in. `row`, `workspace`
and `history` (a set of rows, told apart by `seq`) are the workspace's rows of the three tables, `archives` its
checkpoint directory, `box` the sandboxes as E2B knows them. Whether the workspace
is a Git repository (`git`) is chosen in `Init`: its base is then archived from the
checkout in the sandbox, else from the seed directory before there is one. Every
call to E2B, to the store and to the archive directory is a step of its own; it may
fail (`Fails`, with both outcomes where a failed call may have been carried out),
the process may die before the next one (`Crash`), and E2B ends a sandbox at its
timeout (`Tick`). The runtime's reservation, which is `RuntimeStore`'s subject, is
the guard that a restore and a run exclude each other.

The janitor decides by the row it listed; nothing of what it does later reads the
row again. `Tick` cannot pass a sweep that has taken the lock, because its context
ends after fifteen seconds and the timeouts it would have to outlast are minutes
(unless configured shorter).

### ExternalHost

A plugin and its host are goroutines around two pipes. `stage` is `Start`,
`call[r]` the caller of request `r` in `Host.call` (waiting to write, waiting for
the answer, writing the cancellation, gone), `pending` and `answer` the map of
pending requests and their one-place channels, `reader` and `waiter` `readLoop` and
`waitLoop`, `closer` `Close`; `stderrLoop` is one step, `StderrFails`, when the plugin
has written too much or the stream breaks; `serving` and `work` are the SDK's loop and its
goroutine of each call. `Fail` is `fail`: the first cause stands, everything pending
is rejected, and unless `Close` is under way the process is killed. A plugin is a
child process or an environment's connection (`local`, chosen in `Init`), which
differ in two places: a child's `Wait` closes the host's ends of the pipes, so
output not yet read is lost (`Left`), and the writer of a connection does not
notice that the far end is gone (`Severed`). The plugin may take any time over a
call; what it may do beyond the protocol is bounded by `MaxFaults`.

## 3. What TLC checks

| Run | Instance | Shows |
|---|---|---|
| `claims` | 2 conversations on one host directory with workspace IDs of their own, 3 messages, 3 clock readings, restores, crashes | order of admission, keys, one run per lock, exclusion against restores, final outcomes, refinement of `RunQueue` |
| `entries` | 1 conversation, 2 messages, 1 call a run, notes | exact rebuilds, entries within their run, replay and snapshot, no stranded call |
| `close` | 2 messages of one conversation, 1 slot, a restore, a failing call, fair | slots, registry, stops are acknowledged truly and take effect, close waits and returns; every message runs, by wakeups alone until a call has failed |
| `delivery` | 1 client, a log of 6 entries, channels with room for 2 more than the backlog | exact delivery, entries arrive |
| `send` | 2 conversations, 1 command of 2 texts, a second key of other clients, 2 accepted messages, 4 directories, 3 paths, 3 configurations, crashes, fair | outcomes are the message's own and not passed by, texts in turn, a lock for each workspace, one run in a directory, every Send ends |
| `turns` | 3 turns of up to 2 calls, denial limit 2, 1 sink failure, a cancellation, hooks that stop, deny and continue | intent before effect, outcomes, balanced closing hooks, stops, refinement of `RunContract` |
| `approvals` | 2 turns of up to 2 identical calls, denial limit 3 | finds a fourth approval request (below) |
| `call` | 3 start hooks, 2 permission hooks, 3 rounds, arguments with and without a projection | denials are final, consent, independence of hook order, termination |
| `context` | 2 messages, 3 replies of 4 shapes (one with an empty text before an opaque item, one with an empty text after it), 3 turns, compactions that keep 1 turn | the log brings back the model's turns, requests have the structure a provider accepts |
| `session` | 2 sandboxes, 4 history entries, 1 kind of edit, 2 clock ticks, 1 failing call, 1 crash, retention of 1 recent entry within a budget of 1 archive | retained checkpoints can be placed, sessions open on the current one, unsaved edits stay reserved and are not ended, late heartbeats |
| `recovery` | as `session` with 3 entries and no crash | finds a sandbox with unsaved edits ended before its recorded expiry (below) |
| `host` | 2 calls at once, pipes of 1 frame, 1 fault, a close at any time, fair | a plugin that keeps to the protocol is kept; the wait for an answer that was sent ends, without it only when the caller gave up, the connection failed or Close had begun; Close returns |

`approvals` is a disagreement between the documents and the code. ADR-0014
(`docs/adr/adr-0014-native-action-policy.md:331`) says that three denials of an
action "suppress further approval requests for that action" within a run.
`decideCalls` compares the count with the limit before a turn's hooks, and
`resolveCalls` counts a turn's denials after all its approvals; so two identical
calls in each of two turns lead to a fourth request after three refusals. The
limit holds from one turn to the next, not within one.

`recovery` is the other. `environment/e2b/provider.go:517-518` says of an active or
recovery record that it may not "be replaced before its recorded expiry". The
janitor lists the expired rows first (`reapIdleSandboxes`) and then takes each
workspace's lock, which keeps it away from a session that is open, but not from one
that began and ended in between: an idle row is listed, a run takes the sandbox,
edits, cannot save its checkpoint, records the sandbox as held for recovery and
leaves; the janitor, on its old listing, kills the sandbox and with it the only copy
of the edits. `DeleteEnvironmentState` compares only the sandbox's name, so the
recovery row goes too. All of it must fit in the fifteen seconds of a sweep.
`UnsavedKept` (run `session`) shows that this is the only way: apart from a sweep
whose listing is no longer the row, pons ends no sandbox with unsaved edits before
its row has expired.

Why the bounds are enough. Exclusion relates two submissions, so two
conversations that share a lock give every case; two workspace IDs under one lock
(`claims`) separate what goes by workspace from what goes by lock. `MaxTime` is 3
there because order compares two readings and one in between. What concerns one
run's entries does not look at other conversations, so `entries` has one, with
notes that may arrive late. For the manager,
two messages of one conversation give a run and its successor (the registry is
keyed by conversation), and one slot fewer than messages makes slots scarce;
wakeups are one bit. In `ClientSend` two accepted messages are a command's two texts,
or one and another client's before or after it; two paths lead to one directory, one
into the state directory, and the three configurations differ in policy or in
sandbox. Commands share only the log, and `SubmitElsewhere` writes what another one
would. In `Subscriptions` a log of 6 holds a claim with an
acceptance or an ending between commit and delivery; clients share nothing, so
one suffices; room 2 overflows within one delivery. In
`CoreLoop`, two calls give an order and a partial turn, three turns a first, a
middle and a last one; one key makes every denial count towards one limit; a
second sink failure could come only in a closing hook, after the first. In
`Preflight` three hooks are the fewest at which two can disagree around a third,
and two rewrites with a third refused show the limit. In `ModelContext` the second
message is the one whose context is rebuilt, three replies give it earlier runs
that ended in every way with a compaction before, between or after them, and
keeping one turn puts the boundary on a result turn; the shapes have a call after
each kind of block and two calls around an opaque item. In `E2BWorkspace` the
second sandbox is the successor, four entries exceed what retention keeps, so that
bases, sources of restores and the budget compete, and every timeout is one tick
or two, so that each can pass before or after any other; one failure and one crash
reach every interrupted sequence, which their two-step orders `reserve, extend` and
`append, read, delete, prune` then go on from. In `ExternalHost` two calls cross in
both directions over pipes that hold one frame, so that either side can block; a
second fault could only come after the host has given the plugin up. Those
listed in section 4 are also proved without any of these bounds.

`claims` and `entries` use symmetry over keys only, which no definition
distinguishes, and only with safety properties.

### Fairness

Only the liveness runs assume any. `GoroutinesRun`: a goroutine that can move
does; Go's `select` chooses among ready cases at random, so the done channel is
not ignored for ever (strong fairness of `SchedulerQuits` alone). A runner
whose context is cancelled returns (`CancellationEnds` needs no more than that).
`EveryMessageRuns` assumes in its statement that runners return at all, since a run
owns its lock until it does, and that the ticker ticks once a store call has failed,
not before: wakeups must suffice while the store works. (`pons serve` ends when a
store call fails in the background, `cmd/pons/runtime_mode.go:279`; the tick is the
Manager's own promise.)
Clients owe nothing before a call of theirs is under way. In `Subscriptions` a
client goes on reading and reconnecting, but its connection may be lost any
number of times, so its steps are strongly fair. `Decides` assumes that hooks and
the approval handler answer (weak fairness of the call's next step). `CoreLoop`
claims no liveness: its loop is bounded by `MaxTurns`, and a brain or a tool may
never return. `HostSpec` is about the host alone: its goroutines go on, the
deadlines of its shutdown pass (`DrainExpires`, `Expiring("shutdown")`), as does
the one of `initialize`, and a process that was killed exits. The plugin owes
nothing, and neither does the deadline of a call: a hung plugin holds its callers,
but not `Close`. `SendSpec` lets the server claim and end what it accepted, with
the endings recorded, and a client read its stream and notice its end; that a server
that died is started again is not assumed, since a cut stream ends the `Send`.
`ModelContext` and `E2BWorkspace` claim no liveness. The liveness
results are model-checked only.

Deadlock is checked in all runs but three: a Manager that is closed stops in
`Terminated` (`Quiet`), a run in `Returned`, a call in `CallSettled`, a host in `Over`,
and nothing else may stop. `context`, `session` and `recovery` say
`CHECK_DEADLOCK FALSE`: there the bounds on messages, time, sandboxes and entries
end the behaviours, and a conversation without a message simply rests.

## 4. What is proved

Each theorem is for every value of its module's constants, under the `ASSUME` that
module names. Those of the store are from `WorkspaceAssumption` (conversations that
share a workspace share its lock, which `DirectoriesApart` proves of what
`Manager.CreateConversation` writes) and `BoundAssumption`.


| Theorem | Statement |
|---|---|
| `TypeCorrect` | `Spec => []TypeOK` |
| `Exclusion` | `Spec => []RunsExclude` |
| `OnceClaimed` | `Spec => []ClaimedOnce` |
| `NoCallStranded` | `Spec => []NoStrandedCall` |
| `RebuildIsExact` | `Spec => []RebuildExact` |
| `ReadersAgree` | `Spec => []ReplayAgrees` |
| `EntriesBracketed` | `Spec => []RunEntriesBracketed` |
| `ClaimsInOrder` | `Spec => []NoOvertaking` |
| `KeysUnique` | `Spec => []KeyNamesOneSubmission` |
| `Finality` | `Spec => EndIsFinal` |
| `Refinement` | `Spec => ImplementsQueue` |
| `CallTypeCorrect` | `CallSpec => []CallTypeOK`, of `Preflight` |
| `DenialStands` | `CallSpec => []DenyStands` |
| `Consent` | `CallSpec => []RunsWithConsent` |
| `OrderOfHooks` | `CallSpec => []OrderIrrelevant` |
| `CoreLoopProofs!TypeCorrect` | `Spec => []TypeOK` |
| `IntentFirst` | `Spec => []IntentDurable` |
| `TrueOutcomes` | `Spec => []OutcomeTrue` |
| `CancellationHeld` | `Spec => []NothingRunsAfterCancel` |
| `StopHeld` | `Spec => StopHalts` |
| `CoreLoopProofs!Refinement` | `Spec => ImplementsContract` |
| `ClosingHonest` | `Spec => []ClosedTruly` |
| `RequestsAccepted` | `Spec => []RequestAccepted` |
| `ContextsReplay` | `Spec => []ContextReplays` |
| `FinishedIsHeld` | `Spec => []AnswerStands` |
| `EditsStayReserved` | `Spec => []EditsReserved` |
| `UnsavedSandboxKept` | `Spec => UnsavedKept` |
| `HeartbeatSilenced` | `Spec => HeartbeatEnds` |
| `CheckpointsRestorable` | `Spec => []Restorable` |
| `OpensOnCurrent` | `Spec => OpensCurrent` |
| `HealthyPluginKept` | `Spec => []HealthyKept` |
| `RegistryConsistent` | `Spec => []ManagerInv` |
| `SlotsNeverLeak` | `Spec => []SlotsExact` |
| `StopsRemembered` | `Spec => []StopAcknowledged` |
| `NothingAfterClose` | `Spec => []CloseWaits` |
| `QueueExclusion` | `Store!Spec => []Store!Exclusive`, of `RunQueue` |
| `DeliveryExact` | `Spec => []DeliveryInv` |
| `DirectoriesApart` | `Spec => []PlacementInv` |
| `SendsAreSound` | `Spec => []SendInv` |

Those of `Preflight` are for any numbers of hooks and rounds and any arguments
(`PreflightAssumption`). Their invariant `CallInv` says, during a round, what the
accumulators know of the answers heard so far (`Account`) and that exactly the
hooks before `next` were heard (`InOrder`); `AnswerAccounted` shows that one more
answer keeps this whatever it is, and `RulingAccounted` that at the end of a
round it amounts to the reference ruling.

Those of `CoreLoopProofs` are for any keys, numbers of turns and calls, denial
limit and sink failures (`LoopAssumption`). `IntentDurable` and the refinement
are not inductive: that a handler's call was announced depends on where in the
turn the run is. Their invariant `LoopInv` follows a turn. Before its calls are
recorded everything recorded is of an earlier turn (`Placed`) and has its
outcome (`NothingLeft`); while they are under way they are the recorded calls of
that turn, denied ones never started, started ones never denied (`ThisTurn`); a
stop has by then denied them all (`StopSeen`), and a cancelled run with start
hooks never gets that far again (`CancelHeeded`). Most steps write nothing about
calls and fall under two lemmas, `Approaches` for a run on its way to the next
decision and `Leaves` for one on its way out; the others have lemmas of their
own. A second invariant, `ClosingInv`, is about the closing hooks: which turn
and whether the run is owed its closing at each step (`TurnsClosed`,
`AgentClosed`), what the hooks have been told (`Told`), and that a finished turn
leads on only while turns are left (`FinishHeld`). What the agent-end hooks were last
told is then the event that ended the run, or failure, with one exception that
`ToldTruly` names: they hear that a run finished before the finish event is reported,
and when that report fails they are not told again (`core.go:637`, 653). Both were checked with TLC on
the instance `turns` before they were proved.

Those of `E2BWorkspaceProofs` are for any contents, timeouts, grace, retention and
bounds (`E2BAssumption`), so also for timeouts shorter or longer than the instance
has. `EditsReserved` alone is not inductive: whether a step may give a sandbox away
depends on who holds the row. `WorkspaceInv` adds that (`Exclusive`: a run that
starts holds the lock, one that has started is in the active map, and no restore or
sweep removes anything meanwhile) and what each actor knows at each of its steps:
`RunKnows` that the row is the session's own, and that a sandbox about to be parked,
discarded or killed by a failed start has no unsaved edits; `RestoreKnows` and
`SweepKnows` that what is killed has lapsed and that a row is removed only when its
sandbox has nothing left to lose. `BoxAdded`, `BoxKilled`, `BoxKept`, `BoxEdited` and
`BoxSaved` say what each kind of step does to the unsaved edits; `StartSound`,
`SessionSound`, `RestoreSound`, `SweepSound`, `TickSound`, `CrashSound` and
`RecordSound` are the cases of `WorkspaceStep`. The history and the archives play no
part in it.

`Restorable` and `OpensCurrent` rest on a second invariant over that one,
`CheckpointInv`. `Ledger` is the history: one current row, all of them restorable.
`Recorders` says what a checkpoint being recorded may count on at each step: before
the append its archive is there and its source is in the history (`Appendable`), and
what pruning decided to let go on the history it read may still go now, because only
one of a run and a restore records at a time (`Prunable`), archives last.
`RestoreNames` keeps the entry a restore goes by, which retention cannot take from
under it. `RowShows` and `RunShows` follow the contents of sandboxes: an idle one, one
about to be opened and one just recorded are as the current checkpoint has them. Of
`Retention` the proof needs that what is kept includes the current entry, the base
and the sources of the restores it keeps, whatever the limits and the budget
(`Retained`).
Both invariants were checked with TLC on
instances like `session`'s before they were proved.

`DeliveryExact` is for any number of clients, any log and any room of a channel
(`BoundAssumption`). `FollowInv` has the publishers' half and the clients'.
`Hands` says that what is committed and not delivered is the end of the log, what the
mutex protects before the claim, all of it public; `Frontier` is where that begins.
`Follows` is a subscriber against the log: its channel is in order, after the client's
cursor and without a hole up to the last entry it was given, and an open one was given
everything before the frontier. `Has` is what the client received. The backlog is the
public entries after a cursor in the order of their ranks, which is a function and not
a recursion, so `EventsAfter` has a proof (`Ranking`, `RankGrows`); a broadcast has at
most two entries, so `PushAll` needs no fold.

`DirectoriesApart` is for any tree of directories, any paths and configurations
(`PlacementAssumption`). `PlacementInd` says what creation fixed (`PlacedRight`: a
conversation of the agent has the agent's workspace ID as its lock, a remote one its
own ID, a host one its directory) and that runs hold their locks alone and are all in
the one sandbox there is (`RunsApart`); that no directory a client may name meets the
agent's workspace is the lemma `UsableIsApart`, about trees. `SendsAreSound`
(`ClientAssumption`): `SendInd` adds to `SendInv` where the View and the stream of a
command stand (`Standing`) and that nothing happens to a message before it was accepted
(`AcceptedFirst`). Every step appends at most one entry to a log, and only one that is
due (`Grows`, `Due`), which keeps all that was said of the entries before (`Kept`); the
one delicate step is a duplicate's wait, where no outcome lies in the snapshot, so
that any there is lies after the cursor the stream began with.

`HealthyPluginKept` is for any calls, concurrency limits, number of pending requests
and room in the pipes (`HostAssumption`), whether or not the plugin is a child
process. Whether an answer is expected is not a matter of the host's state alone, so
`HostInv` follows each request through the pipes: until a fault, a failure or
`Close` (`Calm`) it is queued, worked on or replied in one place at most, and
wherever it is it is still pending (`Expected`); a caller that has not written has
no trace there; and the process has no reason to exit (`Up`). `Taken` and `Sent` say
what a frame that leaves or enters a pipe does to this. `DrainInv` is apart, since it
holds in and after the calm. `HostInv` was checked with TLC on the instance `host`
before it was proved.

Those of `RuntimeManagerProofs` are for any submissions and conversations, even
infinitely many, and any numbers of slots and failing store calls
(`ManagerAssumption`). Their invariant `ServingInv` has two halves. `ControlInv` says
how far a submission is in the store and in the process at once (`Phases`): only the
claimed run is running without a goroutine, and a goroutine that has not recorded its
end finds its run still running. With one running submission per lock (`OnePerLock`,
from the guard of the claim) a registration cannot replace an entry, and since the
entry goes in the step that decides the ending (`Registered`, `Endings`), no stop can
come between the decision and the record. `Counted` compares both counters with sets:
`active` with the runs that hold a slot and the claim in progress, `running` with the
scheduler, the goroutines and the restores. The sets start empty and change by one
member a step, so they are finite whatever the constants are. `CloseWaits` is not
inductive; that `running` stays 0 once `Close` has returned is, because every
increment is made by what the wait group still counts, or while the Manager is open.
`ServingInv` was checked with TLC on the instance `close` before it was proved.
`QueueExclusion`, in the same module, says that the queue's rules for claims and holds
are enough for mutual exclusion.

The argument for the store. `Open` overwrites the indexes with what the logs say, so nothing
about the indexes survives a crash unless they always are what the logs say.
`RebuildExact` is therefore part of the inductive invariant `StoreInv`, and with
it `Open` changes no row (`OpenPreserves`). To keep `RebuildExact` over an
operation, the lemmas `AcceptedIndexed`, `StartIndexed`, `EndIndexed`,
`RequestIndexed`, `OutcomeIndexed` and the two `...Undisturbed` say what one more
entry does to each index. They need that no entry precedes the row it is about
(`EntriesKnown`), and that only running runs are written to (`WorkersRunning`,
which a restart keeps by `WorkersNeedServer`). Exclusion then follows from the
guards of `ClaimRunnable` and `ReserveWorkspace`. `StepKinds` reduces the steps to
the five a submission or a reservation can see, from which `Finality` and the
refinement follow. What the logs say of order is a second invariant, `BracketInv`
and `OrderInv`, over `StoreInv`: `LogSteps` reduces the steps to an acceptance, a
claim and the writes of a running run (`RunWrites`), `AppendBracketed` and
`AppendOrdered` say that such an append keeps the order. They need that starts and
acceptances are logged in their own conversation (`StartsAtHome`, `AcceptedAtHome`),
that a running run has a start there and no end (`IndexFacts`), and that no accepted
time is ahead of the clock (`Dated`). `StoreInv` was checked with TLC on the instances `claims` and
`entries` before it was proved. No run lists `TypeOK` and `ClaimedOnce`,
which hold by these theorems.

Two components read a log back by a loop over its entries: the replay and the
snapshot (`RuntimeReplay`), and the model's context (`ModelContext`). Their proofs
are by induction over the log. The library's induction rules take an operator for a
parameter, which no installed prover can instantiate, so `NumbersByInduction` states
induction as a fact about sets of numbers and is derived from the well-foundedness
of `<` (`LeastNumber`); `SequencesByInduction` does so for sequences. Each loop then
gets one lemma from it, that one more entry is one more turn of the loop
(`ReplayOneMore`, `ViewOneMore`, `LoadOneMore`, `KindOneMore`, `PlaceOneMore`,
`BareOneMore`), and a step that appends to the log changes what is read by just that
turn.

`ReadersAgree` has `ReadInv` over `StoreInv`, `BracketInv` and `OrderInv`. A rebuild
reads one conversation after another into the tables it has so far, so `ReplayInv`
says what reading a conversation's log adds to any tables that hold nothing of that
conversation: exactly the rows it has in the live tables. `ViewInv` says that the
snapshot of a log is the one its rows give. Because `ReplayInv` quantifies over all
such tables, TLC cannot evaluate it; what it was built to show, `ReplayAgrees`, is
checked on `entries`.

`RequestsAccepted` and `ContextsReplay` are for any numbers of messages, replies and
turns, any `CompactKeep` and any shapes of replies (`ContextAssumption`). Neither
property is inductive: both compare what a request holds with what happened turns or
runs ago. `ContextInv` has what they need. `Open(ts, owed)` says of a transcript that
every call in it is answered by the next turn but those of the last, which are
`owed`. `BrainInv` says that the brain's turns owe the results it holds back
(`pending`) and those of the calls still running (`requested`); `LogInv`, that the
context in the log, before the turn of the results recorded so far (`Telling`), owes
the same ones, and is the brain's up to what hooks told it; `StartInv`, that between
runs the log owes nothing, which is what the interrupted outcomes of `EndRun` are for
(`InterruptsAnswer`, `OutcomesRead`) and what a claim starts from. Lemmas say what
each entry does to the context (`AdmittedReads`, `PreparedReads`, `CommittedReads`,
`OutcomeReads`, `CompactedReads`), and that a hint and a compaction keep a transcript
acceptable (`HintHarmless`, `SummedOpen`). The brain and the replay settle every reply
into the same turn but for the places of its opaque items (`ReconciledAlike`), and in
the same places when no empty text comes before one (`SameReconciled`); `FoldedAlike`
and `OrderKept` carry both over the turns of a run. `ContextInv` was checked with TLC on the instance `context` before it was
proved.

Model-checked only is liveness: `EveryMessageRuns`, `CancellationEnds`, `EventsArrive`,
`Decides`, `EveryWaitEnds` (with the step condition in it) and `SendsEnd`. It needs fairness and `ENABLED`, which these
provers do not handle. Every invariant and every safety property of a passing run is a
theorem.

## 5. What was met on the way

Behaviours found while modelling that no property above states, because a property
would have to single them out, or because no document promises otherwise:

- A run that an OnAgentEnd hook continues has recorded a model output that no
  committed message belongs to. The replay pairs messages with outputs in order
  (`runtime/sqlite/store.go:1451`), so the run's next message takes that output's
  provider items, while the comment at 1406-1408 has each output's items matched with
  its own message. `ContextReplays` excludes such runs (`continued`).
- An empty text block before an opaque provider item is a place for
  `ReconcileAssistantResponse` (`plugins/brain/llm/llm.go:401`) and none for the
  replay (`store.go:1507`), so the items stand in other places after a restart.
  `ContextReplays` says that nothing else differs, and that the places differ only in
  a run that had such a reply; a shape of `context` has one.
- A run that a hook stops is finished with an empty answer, which is replayed as an
  assistant turn with an empty text block; the brain of that run had none. The
  comparison starts again with the next claim. The empty turn goes to the provider as
  it is (`plugins/brain/llm/anthropic.go:58`); `RequestAccepted` judges the structure
  of a request, not what its turns say.
- If the first message's run fails before its input is prepared, no later run of
  the conversation shows the model the memory file until a compaction, though "each
  conversation starts with `MEMORY.md`" (`README.md:669`).
- `waitLoop` of the external host drains the reader before it rejects what is
  pending, so that a shutdown answer still in the pipe counts
  (`plugins/external/host.go:937`); but a child's `Wait` has closed that pipe
  already, so `Close` may report that the plugin exited during shutdown although it
  answered. `WaitReturns` contains this (`Left`); `Close` returns either way.

## 6. What is not modelled

- Contents: texts, arguments, results, timestamps beyond their order, revisions.
- SQLite itself: a transaction is atomic and serialised, a failed one changes
  nothing, a committed one survives a crash.
- A second `Close` that overtakes the first returns at once; the program's one
  owner closes it in sequence.
- A `Subscribe` that passed the open check before `Close` can register after the
  channels were closed. `Subscriptions` contains the behaviour. The program closes the
  Manager while the HTTP server shuts down (`cmd/pons/runtime_mode.go:290`), so the
  handler of such a stream lasts until the shutdown's deadline of five seconds;
  nothing promises more.
- Of the command line: flags and files, the wiring of plugins and providers, the
  `eval`, `workspace` and `mcp` commands. Of the transport: status codes, decoding, and
  the handlers that translate one call to one response.
- Of E2B: what an archive holds and how it is unpacked, the read-write directory
  sync, the validation of a spec, two workspaces on one stripe of the mutex (they
  only wait for one another).
- Of external plugins: manifests and schemas, what tools and hooks return, process
  groups, the TypeScript SDK.
- Of the brain: the wire formats, streams and failover of the providers.
- The components marked `not_modelled` in `PROJECT.json`, each with its reason.

## 7. Plan

Done: `RunQueue`, `RuntimeStore`, `RuntimeReplay`, `RuntimeManager`, `Placement`,
`Subscriptions`, `ClientSend`, `CoreLoop`, `RunContract`, `Preflight`, `ModelContext`,
`Retention`, `E2BWorkspace`, `ExternalHost`; the theorems of section 4. Left, in
this order:

1. `TextsInTurn` across `RuntimeStore`: `ClientSend`'s server as an abstraction of it,
   by refinement.
2. The MCP manager; failover between providers; the directory sync.
