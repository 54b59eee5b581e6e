# Mission Control v2: specifications

TLA+ models of the concurrent core of Mission Control v2 (the FastAPI application under `src/`), their TLC instances, and
proofs for TLAPS. The models are translated from the Python and JavaScript source; the file, line range and symbol each
definition stands for are in `PROJECT.json` under `map`.

Contents: [the system](#the-system), [modules](#modules), [runs](#runs), [proofs](#proofs),
[where code and documentation disagree](#where-the-code-and-its-documentation-disagree),
[not modelled](#not-modelled), [plan](#plan).

## The system

One Python process runs one asyncio event loop: every piece of code between two `await`s is atomic, and everything else
can interleave. Beside it, `scripts/queue_worker.py` runs as a process of its own against the same PostgreSQL database.
The agent runtime (the *OpenClaw gateway*) is external and reached over a websocket.

```
 browser panes ──ws──▶ endpoint ─▶ ConnectionManager ─▶ _ClientChannel (queue + sender task, one per client)
                                       ▲
                                  SynapseHub ── SharedGateway ──ws──▶ OpenClaw gateway
                                       ▲                                  ▲     ▲
                voice bridge ──────────┘                                  │     │
 queue page ──http──▶ queue router ─▶ dispatch_service ──send_to_agent────┘     │
 queue_worker.py ───────────────────▶ dispatch_service                          │
                                      dispatch_subscriber ◀──run events─────────┘
                              queue_items, dispatch_jobs (PostgreSQL)
```

### Inventory

| Component | State it keeps | Operations | Talks to | What is hard | What makes it correct |
|---|---|---|---|---|---|
| Client channel (`synapse_hub._ClientChannel`) | bounded queue of frame dictionaries; maps from run and status key to the queued frame; closed flag | `offer` (chunk, status, control), sender task `_drain`, `shutdown` | hub offers, websocket sends | frames are mutated while queued; the sender awaits with a frame in hand; three policies on a full queue | text complete and in order, control frames never lost, no frame changed after it was taken, nothing stranded |
| Connection manager, websocket endpoint (`ConnectionManager`, `api/routers/synapse.py`) | client → channel, client → subscriptions, recent connects | `connect`, `disconnect`, `subscribe`, `broadcast`, rate guard | channels, hub, page | a reconnect evicts the old socket, whose endpoint disconnects later | only the current socket's end removes a client; page and hub agree again after faults |
| Gateway connection, supervisor (`GatewayConnection`, `SharedGateway`) | pending futures, event queue, last status | `request`, `next_event`, `_listen`, `_supervise`, `stop` | gateway, hub handlers | requests in flight when the socket dies, callers queueing behind a lock, cancellation in `close` | every request ends, losses are made good, a stop ends |
| Synapse hub (`SynapseHub`) | `_active_runs`, `_voice_waiters`, `_last_delivered_text`, sessions cache and lock, `_selected_models` | message, voice message, abort, reset, set_model, chat events, terminal tasks, history fallback, resync, reaper, status poll | gateway, channels, voice bridge | answers resolve futures while events are handled from a queue, terminals are handled in spawned tasks, runs are dropped with events on the way, events are lost or replayed | each session's output reaches its panes only, a reply is whole and delivered, nothing is tracked for ever, caches tell what holds |
| Voice bridge (`voice_bridge.py`) | bridge sessions and their records, the active turn | start, stop, connection loop, user turn, barge-in, `_finish` | hub, Ether-Voice service | cancellation at any await, some of them swallowed; done callbacks | one voice at a time, a session listens or ends, a finished one is quiet |
| Synapse page (`static/synapse.js`) | socket, reconnect timer, panes with messages, placeholder and model choice | connect, reconnect, send, onFrame, setHistory, setPaneModel | endpoint, PUT model | frames lost with a socket, sockets of two epochs overlap | the pane shows the reply in the end, the placeholder and the picker are released |
| Agent queue and dispatch (`queue_service`, `dispatch_service`, repositories) | `queue_items`, `dispatch_jobs` | create, edit, delete, dispatch, status | PostgreSQL, gateway | a transaction is open while the gateway is awaited; only changed columns are written | an item's session has its job, history is kept, edits are not lost |
| Queue worker (`scripts/queue_worker.py`) | one session for the whole pass | route, retry, archive, flag | same tables, gateway | row locks held through the pass; rollback after sends | a pass ends; what waits is tried again |
| Dispatch subscriber (`dispatch_subscriber.py`) | its gateway stream | apply run events, reconnect | same tables | events before the commit, lost on reconnection, unordered between sources | jobs say what happened to their run |
| Snooze service and sweeper | `snooze_items`, flag of legacy tasks, Redis lock, sweep task | snooze, un-snooze, sweep loop, sweep now, deprecated snooze | briefing cache | lock expiry, select-then-delete, invalidate before commit, crashes | a snoozed item comes back, once its time has come |
| Briefing service and cache | Redis entry with TTL | build, refresh, invalidate | snooze, email, Project-Box | read, build and store around an invalidation; not every writer invalidates | an old snooze, or an old decision in today's briefing, is there by a named race only |
| Email triage | decision, contact tier and task link of an email | decide, classify, convert to task | briefing cache, Project-Box | the answer of the conversion is lost, the pairing is rolled back | one task per email, none dropped |
| Project-Box client and cache | Redis list | list, create, update (merge), archive, time entry | Project-Box (a vault of notes) | merges into cached copies; create, pair, invalidate | an update changes what it was asked to |
| Focus sessions | Redis session | start, stop, status | Project-Box client | get, clear, log | one log per session |
| Tasks, settings, accounts, auth, surfaces, runway, constellation | rows | CRUD, pages | PostgreSQL | little | – |

The hazards found while reading, each at its line and with the properties that cover it (or a note on why none does),
are in `PROJECT.json` under `hazards`.

## Modules

| Module | Models | Extends / uses |
|---|---|---|
| `ClientChannel` | `_ClientChannel` and the browser's handling of status frames, with the refinement mapping | `INSTANCE ClientContract` |
| `ClientContract` | abstract: what the hub may rely on when it offers frames | – |
| `HubRuns` | the hub's runs, terminal tasks, voice turns, the gateway around it | – |
| `VoiceBridge` | bridge sessions, their connection loop and turns as cancellable tasks | – |
| `SynapsePage` | one page, its sockets and their endpoints, the hub's registration, runs and history | – |
| `Gateway` | the gateway connection, its supervisor, and the hub's snapshot, resync, poll and stop | – |
| `Models` | choice, confirmation and patching of an agent's model | – |
| `Dispatch` | queue handlers, dispatch, worker, subscriber on two tables | – |
| `Briefing` | snoozes, sweeps, email decisions and the cached briefing | – |
| `ProjectBox` | tasks over Project-Box, email conversion, focus sessions, the list cache | – |
| `ClientChannelProofs`, `HubRunsProofs`, `VoiceBridgeProofs`, `GatewayProofs`, `DispatchProofs`, `BriefingProofs`, `ProjectBoxProofs` | proofs for every value of the constants | the module they are named after, `TLAPS` |
| `PageProofs` | proofs about the page and the hub, for every value of the constants | `Models`, `SynapsePage`, `TLAPS` |
| `MCHubRuns`, `MCDispatch`, `MCProjectBox` | TLC instances with symmetry, where it is sound and helps | the module they are named after |

The other modules need no definition for TLC: their configurations give the constants values.

The modules divide the hub by what interacts. A frame that `HubRuns` or `SynapsePage` gives to a client goes through a
channel that `ClientContract` describes; `HubRuns` and `Models` take from `Gateway` that a request is answered, fails or
times out; `VoiceBridge` takes from `HubRuns` that a turn's future is resolved, fails or is given up after 90 seconds.

Definitions that start with the comment *Defect:* are seeded errors (a dropped guard, a swapped order). They are not
part of any specification; each is there to show that a property notices it.

### ClientChannel

*State.* `queue` is the `asyncio.Queue`, `obj` the contents of the frame dictionaries, addressed by identity (`Frame`),
because `_offer_chunk` and `_offer_status` write into a dictionary that is already queued. `queuedChunks` and
`queuedStatus` are `_queued_chunks` and `_queued_status`. `sending` is the frame the sender awaits on, `socket` the
websocket. `offered`, `accepted`, `dropped`, `marks` record what was offered; `wText`, `wStatus`, `wControl` what reached
the websocket; `view` what the page shows of an agent (`onFrame` in `static/synapse.js`).

*Actions.* `OfferChunk`, `OfferStatus` and `OfferControl` are `offer` for the three kinds of frame, with their branches
(coalesce, put, drop; replace, put, ignore; put, force-close). `Get` takes a frame and untracks it before the await,
`SendDone` and `SendFails` are its two outcomes, `Shutdown` and `CloseSocket` the two steps of `shutdown`, `PeerGone` the
browser leaving. Text is abstracted to the numbers of its deltas; a frame's other fields are left out.

*Contract.* `ClientContract` has no queue and no dictionaries: text streams, a control stream, one latest status per key,
explicit loss. `ClientChannel` maps the queue onto it (`Contract`, `ImplementsContract`); TLC checks the refinement and
`ContractImplemented` proves it.

### Dispatch

*State.* `items` and `jobs` are the committed tables. Each of `Handler` (requests), `Worker` and `Subscriber` is a
transaction: `pc`, `at`, `run` say where it is; `work` is its identity map, the rows as it loaded them. The worker also
has flushed, uncommitted columns (`dirty`, which are row locks) and inserted jobs (`fresh`). `outcome`, `said` and
`stream` are the gateway: how each run went, what it reported, what the subscriber has not read. `given` is history: the
columns of an item that hold what a PATCH has named, until the system writes them again.

*Correspondence.* The isolation is PostgreSQL's READ COMMITTED and SQLAlchemy's unit of work, modelled from how the code
uses them: a flush sends only attributes whose value differs from the loaded one (`Differs`, `Overlay`), so two
transactions that loaded the same row write a mix; an UPDATE locks the row till the end of the transaction (`Locked`); an
inserted job holds the key of its item (`KeyHeld`). Handlers and the subscriber commit immediately after their last flush,
so both are one step. `Accept` is the gateway starting the run, `Online`, `Offline` and `Reject` are the three results of
`send_to_agent`; `Offline` after `Accept` is the timeout of a send that got through. `Rollback` is an exception, a
cancelled request or a crash at any point. `DispatchQueueItem` is the request with an agent in it, `DispatchQueueItemAuto`
the one that takes `SuggestAgent`; the worker sends to `Target`, the item's own agent or the suggested one. `ApplyPatch`
writes whatever a PATCH may name, `session_id` and `session_status` included: `QueueItemUpdate` accepts both and
`update_item` sets them unchecked, so an item can be made to name any run, or be `done` without one. The worker's stages
are `StartPass` (route), `StartRetry`, `StartArchive`, `CommitPass`; `flag_stale_active` only adds a note, so it appears
as one of the ways a pass fails.

### HubRuns

*State.* `active`, `waiter` and `last` are `_active_runs`, `_voice_waiters` and `_last_delivered_text`; `tasks` are the
terminal tasks spawned and not started, `fetching` those that await `chat.history`; `wire` is what arrived from the
gateway and was not read, `answers` the futures that are resolved and whose handlers have not resumed. `phase`, `kind`,
`key`, `emitted`, `latest` are the gateway's side. `heard` and `log` record who was given words of which run, and which
message frames ended a run; `missed` the runs the hub may not have followed from start to end, because an event of theirs
was handled before their registration, was lost or repeated, their `chat.send` failed, or they were given up or reaped.

*Actions.* `Message`/`MessageSent`, `VoiceTurn`/`VoiceSent`, `Abort`/`AbortDone`, `Reset`/`ResetDone` are the two halves
of a handler around its request. An answer and the events behind it come on one socket, but the answer only resolves a
future (`Resolves`) while events are handled on a queue that is drained without suspending, so a handler resumes
(`MessageSent`, `VoiceSent`, ...) any time later, and may register a run whose first events, or end, are already handled.
`RunStarted`, `Delta` and `Terminal` are `_handle_chat_event`; `TaskStarts`, `Fetched`
and `FetchFails` are `_handle_terminal` with its fallback, with `Deliver` common to both. `SpeaksAgain`, `BargeIn`,
`TurnEnds` and `TurnTimesOut` are the bridge's turn; `Reap` is `_reap_orphan_runs`; `SocketLost`, `RequestFails`,
`Leaves` and `Returns` are failures. One agent is modelled: the maps are keyed by run or agent and nothing crosses
agents. A text is abstracted to the run it is the reply of and whether it is all of it, which is what the replay and
fallback comparisons tell apart.

### VoiceBridge

*State.* `rec`, `tracked` and `stopping` are the manager's records, `_tasks` and the calls of `stop` under way. `pc` is
the await `run()` is at, `bcancel` a cancellation that will be raised there, `ws` and `active` the fields of the session,
`tpc`, `tcancel` and `via` the same of the turns; `link` is the open connection.

*Actions.* Each action goes from one await to the next. `Start`, `Stop`, `StopReturns`, `StopAgain` and `Finish` are the
manager; `Greets` is the answer of the appliance to the hello, for which `run()` waits without a limit; `Begins` to `Ends`
are `run()` with `_connect_once` and its `finally` clauses; `UserTurn`, `BargeIn`, `TurnGone`, `TurnGoneBadly` and
`AbortDone` are `_start_turn`, `_barge_in` and `_cancel_active`; `TurnBegins` to `TurnCancelled` are `_run_turn`. The
rules of asyncio that matter are spelled out: a task that awaits another passes a cancellation on (`Passive`), `suppress`
swallows it, and a turn has a handler for it only where it awaits the reply.

### SynapsePage

*State.* One page with one pane: its sockets are numbered (`wsEpoch`, `ws`), `timer` is the pending reconnect, `messages`
and `awaited` what the pane shows. `ep` is the endpoint of each socket, `channel` and `subscribed` the client's entries in
`ConnectionManager`; `run` and `resync` the hub and the gateway.

*Actions.* `ConnectSynapse` to `OnFrame` are the functions of the page, `Connects` to `EndpointEnds` the endpoint with
`handle_connect`, `handle_frame` and `disconnect`; `DeliverTerminal` and `Resync...` send what `HubRuns` decides to send.
A frame sent on a dead socket is lost. `AcceptRaises` is the exception that ends an endpoint in its accept.

*At rest.* `AtRest` is a page that is joined (its current socket is open and is the registered one) with nothing on its
way; `NothingOwed` says what then holds: the reply of every run that is over is shown, and no reply is awaited but of a run
that goes on. It is what `ReplyShown` and `Settles` come to when no step is left to take.
Names that `Models` has too begin with `SP`, since `PageProofs` is about both modules.

### Gateway

*State.* `socket`, `listener`, `pending` and `events` are a `GatewayConnection`; `sup`, `conn`, `connected` and `last` the
supervisor; `cache` and `lockq` the sessions snapshot and its lock; `task` where the poll, each browser's connect, each
resync and the task of a terminal event is; `told` what each browser was told last.

*Actions.* `ListenerEnds`, `BadFrame`: the reader, with its `finally`. `Opens` to `HungUp`: `_supervise` from await to
await; it never waits for a handler, `TakesEvent` at most spawns the task of a terminal event. `Looks`, `Asks`,
`Answered`, `Failed`: `_cached_sessions` with its two looks around the lock. `Stop` delivers the cancellation to wherever
the supervisor is.

### Models

*State.* `session` is the override in the gateway, `selected` the hub's `_selected_models`, `ops` what users have done, in
order, each with the request it waits for, `pane` what a page shows and confirms. Handlers of different sockets interleave
at every request; an endpoint handles the frames of its socket one by one.

*Actions.* `SetPaneModel`, `SendPaneMessage`, `SendReset`, `OnReply`: the page; `DispatchClientFrame`, `EnsureAgentModel`,
`SetAnswered`, `MessagePatched`, `ResetAnswered`, `PutAnswered`, `...Fails`: the hub; `TakesUp`, `TakesUpLate`,
`TakesMessage`: the gateway. `PickHeld` says what keeps a picker waiting: an operation of its own or a reply on its socket.

### Briefing

*State.* `row`, `visible` and `dec` are committed tables; `pc` and `tx` the transaction of each request and loop, with what
it selected and flushed; `cache` (by `Day`) and `lock` are in Redis; `vault` is the version of Project-Box's task list;
`at`, `day` and `draft` are the builds. `orphaned` is history: why a hidden task may have no row.

*Actions.* `Snooze`, `Unsnooze`, `LegacySnooze`, `SetDecision`, `AutoClassify`, `SweepNow` and `LoopTicks` begin a
transaction, `...Flush`, `Invalidate` and `Commit` are its further steps, `GetToday`, `RefreshToday`, `Read...` and
`Store` a build, block by block. A flush takes its row locks; an invalidation that raises rolls back. Snoozes and sweeps
clear every cached day, an email decision only today's, and the deprecated `POST /api/tasks/{id}/snooze` (`LegacySnooze`),
which hides a task and writes no row, none (`Clears`). `BoxWrites` is any change of the task list: no route of it clears
the briefing. The scan of all keys is taken as one step at its start. Midnight, which makes another day today's, and the
calendar events of the runway are left out, and so is the deletion of legacy tasks. One email stands for the two email
blocks; the classifier's rules (`Classify`, `ResolveTier`) are a table whose outcomes `AutoClassify` writes.

### ProjectBox

*State.* `vault` is Project-Box itself (per note: a status, a content, the time logged by each session); `cache` the list
in Redis; `pc` and `req` the requests, with the list they read; `email`, `focus` the two other stores.

*Actions.* `ListTasks`, `UpdateTask`, `Create`, `Archive`, `Convert`, `StartFocus` and `FocusStop` begin, `Fetch`, `Store`,
`Writes`, `Rejected`, `Invalidate`, `Pairs`, `FocusSave` and `FocusClear` go on. `stale` marks a list that was read or
stored across somebody else's change, `excused` and `overlap` the cases in which a second task or log entry is known to
happen; they are history and no action depends on them.

## Runs

`PROJECT.json` lists them; with two workers each ends within about three minutes.

| Run | Question | Bounds, and why they are enough |
|---|---|---|
| `channel` | safety, refinement and liveness of the queue | 1 run, 2 status keys (the agent and the whole fleet), capacity 4: fewer than the frames of every kind together, so each policy meets a full queue; 3 deltas let one be queued, merged, and dropped or sent; 5 frame identities, so one in the sender's hand is never reused |
| `dispatch` | request against worker against edit | 1 item, 2 runs (a dispatch and its successor), 1 edit that may name any run and the status `done`; 3.4 M states |
| `dispatch_faults` | the same when something fails; requests end, pending work is tried | 1 item, 1 run with one stream of events, 1 failure of any kind at any point |
| `hub` | routing and tracking with two runs | 2 panes (the voice session's and another), 2 runs in any sessions, 1 cancelled turn; 1.4 M states |
| `hub_faults` | ends and texts when everything fails | 1 run of 2 deltas (so that one can be lost or counted twice), 2 faults, expired limits, 1 abort or reset, 1 cancelled turn; 1.7 M states |
| `hub_live` | replies and turn answers arrive | 2 runs (a turn and the one after it), 1 cancelled turn, no faults |
| `voice` | cancellation of sessions and turns | 2 sessions (a stopped one and its successor), 2 turns (one cancelled by the next), 1 barge-in or error event, 1 stop, 1 lost connection |
| `page` | reconnection and the reply | 1 message, 2 faults, 5 sockets (a fault costs two at most: its own, and one that the late endpoint of an older socket evicts) |
| `gateway` | requests, status and snapshot across a reconnect and a stop | 2 connections, 1 browser, 1 terminal event, 1 reader killed under an open socket |
| `briefing` | sweeps, snoozes, decisions and builds | 1 item (items share only the transaction of a sweep), 2 loops and a request, 2 writes (a snooze and its renewal, removal, manual sweep, or a decision), 1 build (an entry depends on its own build and on later writes only; the theorem has no bound), 1 change of the task list, an outage or a crash; 0.5 M states |
| `projectbox` | overlapping requests | 2 at a time, 4 in all, 3 notes, 1 focus session, 1 hand edit, 1 fault; 2.2 M states |
| `models` | the model of a session | 2 browsers and the voice bridge, 2 models of which one is the configured, 3 operations (a choice, a message spared its patch, and one that comes between), 1 lost socket, 1 failure; 0.7 M states |

Two larger instances are kept beside the runs and pass: `HubStops.cfg`, two panes and two runs with an abort or a reset (4.4 M
states), and `DispatchSources.cfg`, a run that reports on two streams, with an edit and a failure (2.6 M states).

All bounds are `CONSTANTS` named `Max...` (and `Given...`, `MoveTo`, the values an edit may name; `Capacity`, which the
code has too; `Message`, `Task`, `Run` and the like bound by their size), used in the guards of the actions of the
environment: users, gateway, failures. Nothing bounds what the code does by itself, but for the number of connections in
`Gateway` and of sockets in `SynapsePage`, which follow from the faults allowed. Deadlock checking is off where the
bounded environment may run out, which ends a behaviour that in reality would go on; in `briefing`, where the loops always
go on, it is on. Symmetry is used only in runs without liveness properties, over identifiers that are only compared.

What the properties say is stated above each of them; the main ones are:

* `TextConserved`, `TrackingExact`: coalescing in place is lossless, although the sender holds a frame across an await.
  The channel stays faithful because `_drain` untracks before it awaits; the order is essential and easy to break.
* `ImplementsContract`: text accepted before a message frame is written before it, control frames are written in order
  and never dropped. Merging moves a later delta *forward* in the queue and never behind a control frame. The weaker
  `TextBeforeControl` and `ControlNeverLost` follow from it; they are proved beside it, as the steps it rests on.
* `Inv` of `Dispatch` (`SessionHasJob`, `OneJobPerRun`, `NobodyStuck`), `HistoryKept`: the two tables agree whatever
  transactions overlap, roll back or delete, and none of them waits for a lock that nobody will give back or to write
  a row that is gone. `NobodyStuck` is the safety beneath the liveness of `Served`. `JobTellsOutcome`: a status is
  never *wrong* about a run's end, though it may be out of date. Both except the column of an item that holds what a PATCH
  named (`given`): nothing stops a user from writing a session without a job, or a status.
* `CronStaysOut` (in `Inv` of `HubRuns`), `VoiceStaysPrivate`: routing by session. The second holds while the bound pane
  is there and nobody aborts or resets the agent: those drop the voice run too, and its words then go to every pane.
* `FullReply`, `RunsEnd`: the terminal tasks do not cut a reply, leave an entry behind (`TrackedRunEnds`) or lose an end
  (`ToldOnce`), but for the runs in `missed`, whatever happens between their spawn, their start and the end of their
  request. `ToldOnce` is the safety beneath the liveness of `EndsAreTold`: what is owed to a pane or a waiting turn is on
  its way or announced, is not announced twice, and answers the turn of that very run.
* `OneVoice`, `ListensOrEnds`: whichever await a cancellation meets, no two turns speak and no session is silently lost.
* `EvictedByItsOwn`, `NothingOwed` (in `SPInv`), `Settles`, `ReplyShown`: late endpoints of old sockets do
  no harm for good, and a reply is shown although it ended while nobody was connected.
* `ToldIsTrue`, `ResyncIsFresh`, `NothingHangs`: status broadcast only on change adds up with what connecting browsers
  read; a resync never shows the sessions of the connection that was lost; all that waits is released.
* `FreshUnlessRaced` (two modules): what a write clears is stale on the named grounds only; in the briefing these are the
  snoozes of every day and the decisions of today, not the task list and not the decisions under another date, which no
  write clears. `HiddenComesBack`, `Wakes`: no overlap of snoozes and sweeps hides a task for ever; a task that a user
  un-snoozed, or that the deprecated route hid, does stay hidden.
* `OneTask`, `LoggedOnce`, `UpdateKeepsRest`: conversions, focus logs and merging updates, outside the named races.
* `Coherent`, `RunsAsAsked` (in `Inv` of `Models`): the patch that is spared was not needed. `PickHeld` (there
  too), `PickEnds`: a picker waits for something, and is released.

### Fairness

* `ClientChannel`: weak fairness of the sender and of the close task (the event loop runs ready tasks) and of a write's
  end: uvicorn's ping timeout ends a dead connection, so a write completes or fails. Offers need not happen.
* `Dispatch`: weak fairness of the worker's steps (it is run periodically) and of the subscriber's; strong fairness where
  a step waits for a row lock, which PostgreSQL grants in turn, and for `Offline`, the limit of five seconds in
  `send_to_agent`. The gateway need not accept or answer.
* `HubRuns`: weak fairness of the reader, the tasks, a turn's end and its limit, the reaper; of the gateway, that it
  answers requests and ends runs. No fairness for users or failures. `hub_live` sets `Slow = FALSE`, so a limit does not
  expire by itself and the liveness is not that of a timeout.
* `VoiceBridge`: weak fairness of each session's and each turn's next step: the websockets library bounds connecting,
  writing and closing, and the wait for a reply ends after 90 seconds. Not of the welcome (`Greets`): `ws.recv()` has no
  timeout, so an appliance that keeps the connection and says nothing holds `run()` for ever, and `ListensOrEnds` excepts
  it. Users, stops and the appliance owe nothing.
* `SynapsePage`: weak fairness of timers, endpoints, tasks and the delivery of frames on an open socket; the gateway comes
  back and ends runs. `TimerFires` is the backoff, which is at most 30 % over its limit.
* `Gateway`: weak fairness of every task's next step and of the supervisor's; the gateway comes back, and answers what it
  was asked over an open socket. Timeouts are not fair, and `NothingHangs` does not rest on them: also the request made
  on a connection whose reader has died under an open socket ends, when the supervisor closes that connection.
* `Models`: weak fairness of the event loop, of the gateway taking up requests, and of a page reading an open socket.
* `Briefing`: strong fairness of a transaction's next step (PostgreSQL grants locks in turn), weak of some loop's tick, the
  expiry of the lock and the return of Redis. `ProjectBox` has safety properties only.

## Proofs

Eight modules prove theorems for every value of the constants (any number of clients, runs, items, requests and frames, and
any bounds), from the named assumptions of the modelled module alone: distinct model values, natural bounds, a positive
capacity, finite sets where the code has finite maps. `tlapm <Module>.tla` checks one of them. All safety properties that the
runs check are theorems; what is left to TLC alone is liveness.

| Module | Theorem | States | Inductive invariant |
|---|---|---|---|
| `ClientChannelProofs` | `TypeCorrect`, `TrackingCorrect`, `TextCorrect` | `[]TypeOK`, `[]TrackingExact`, `[]TextConserved` | `ChannelInv` |
| | `ControlCorrect`, `OrderCorrect`, `WedgeCorrect` | `[]ControlNeverLost`, `[]TextBeforeControl`, `[]WedgedByControlOnly` | |
| | `ContractImplemented` | `ImplementsContract` | |
| `HubRunsProofs` | `HubCorrect` | `[]Inv` (`TypeOK`, `CronStaysOut`) | `HubInv` |
| | `VoiceCorrect` | `[]VoiceStaysPrivate`, given `Quiet` and `~Slow` | and `FlowInv`, `AllHere`, `VoiceTracked`, `PrivateInv` |
| | `TrackedCorrect` | `[]TrackedRunEnds`, given `Quiet` | and `FlowInv`, `SendInv` |
| | `EndsCorrect` | `[]RunsEnd` (`TrackedRunEnds`, `ToldOnce`), given `Quiet` and `~Slow` | and those, `OnceInv`, `DueInv`, `TurnInv` |
| | `ReplyCorrect` | `[]FullReply`, given `Quiet` | `HubInv`, `FlowInv`, `SendInv`, `CountedInv`, `FullTexts` |
| `VoiceBridgeProofs` | `BridgeCorrect`, `OneVoiceCorrect` | `[]Inv` (`TypeOK`, `OverIsQuiet`), `OneVoice` | `VoiceInv` |
| `GatewayProofs` | `LinkCorrect` (from `TypeCorrect`, `LockCorrect`, `DeadCorrect`), `ResyncCorrect`, `ToldCorrect` | `[]Inv` (`TypeOK`, `OneAsks`, `NobodyWaitsOnTheDead`), `[]ResyncIsFresh`, `[]ToldIsTrue` | `LinkInv` |
| `PageProofs` | `ModelsCorrect` | `[]Inv` (`TypeOK`, `Coherent`, `RunsAsAsked`, `PickHeld`) | `ModelsInv`, `HeldInv` |
| | `PageCorrect`, `EvictionCorrect` | `[]SPInv` (`SPTypeOK`, `NothingOwed`), `EvictedByItsOwn` | `PageInv`, `OwedInv` |
| `DispatchProofs` | `DispatchCorrect`, `OutcomeCorrect`, `HistoryCorrect` | `[]Inv` (`SessionHasJob`, `OneJobPerRun`, `NobodyStuck`), `[]JobTellsOutcome`, `HistoryKept` | `DispatchInv` |
| `BriefingProofs` | `BriefingCorrect`, `FreshCorrect`, `HiddenCorrect` | `[]Inv` (`OneLoopSweeps`), `[]FreshUnlessRaced`, `[]HiddenComesBack` | `BriefingInv` |
| `ProjectBoxProofs` | `BoxCorrect`, `FreshBoxCorrect`, `OneTaskCorrect`, `LoggedOnceCorrect`, `UpdateCorrect` | `[]Inv` (`NeverDropped`), `[]FreshUnlessRaced`, `[]OneTask`, `[]LoggedOnce`, `UpdateKeepsRest` | `BoxInv` |

Each proof has the same shape: the invariant holds initially, every action (or group of actions that do the same) keeps
every conjunct, and the property follows from it; a last temporal step puts the three together. What the invariants add,
and why the properties do not stand alone:

* **`ChannelInv`** `== TypeOK /\ Tracking /\ TextInv /\ ControlInv /\ BarrierInv /\ ShapeInv`. From "tracked frames are
  queued" one cannot exclude that a dictionary is queued twice or that the allocator returns one in use; `Tracking` adds
  `Distinct(queue)`. `TextInv` bounds the number of the next delta. `ControlInv` says that the queued control frames are
  the next ones, in order, and all of them. `BarrierInv` is the reason why merging in place is safe: a control frame
  with no chunk of a run before it follows text that is all on the socket. `ShapeInv` (a queued chunk has text) makes
  each `Get` a step of the contract, or a stutter. The refinement has one lemma per action.
* **`HubInv`** `== TypeOK /\ KnownInv /\ CountOK /\ HistoryInv`. That no pane hears a cron run needs what every frame,
  entry, task and pending request is about (`KnownInv`), and that an entry counts no delta twice (`CountOK`, with the
  deltas on the wire counted by a function, `Deltas`, that adds up from the end). An entry's accumulated text never
  exceeds what was streamed even when sockets are lost and answers come late.
* **`FlowInv`** (nothing of a run comes before its start or after its end; one end per run) holds *while nothing fails*,
  `Quiet == MaxFaults = 0`. The four theorems that rest on it have it as a hypothesis: a client that leaves sends the
  voice run to all panes, and a lost socket loses deltas and ends. `~Slow` excludes the limits that the hub puts on turns
  and runs: a reaped run loses its entry, and the rest of it is handled as one of the main session. `hub` checks
  `VoiceStaysPrivate` and `RunsEnd` under these constants; `hub_faults` checks `RunsEnd` and `FullReply` with faults and
  limits.
* **`missed`**. The hub registers a run when the handler of its `chat.send` resumes, with an empty text, and by then it may
  have handled deltas of the run, or its end, in whatever order the gateway sent them. `RunsEnd` and `FullReply` except
  these runs by name, and `HubCut.cfg` shows such a reply cut short. `SendInv` says what the others owe to it: while the
  handler waits, all that its run has reported is on the wire. With it, `CountedInv` says that what an entry has counted
  and what is on the wire make the whole reply, and `FullTexts` that every text on its way is whole.
* **`OnceInv`**, **`DueInv`**, **`TurnInv`** (for `RunsEnd`): an end is in one place, the wire, a task, a request for the
  history or the log; a run that somebody is owed the end of is in the hands of the hub, that is, its handler awaits the
  answer to `chat.send`, it is tracked, or its task *has the entry*, without which the delivery could be suppressed; and
  the future of a waiting turn is resolved by the delivery of its own run and by nothing else.
* **`VoiceInv`** `== Typed /\ ActiveInv /\ HeardInv /\ OverInv /\ ToldInv /\ StopInv` and types. That an over session is
  quiet needs that only its active turn ever runs (`ActiveInv`), that at most one turn waits to be spawned, and only while
  the session is inside `_cancel_active` (`HeardInv`), and that a session is cancelled by a single stop, before which it is
  not over (`StopInv`): a second cancellation would meet a task that is leaving. `OneVoice` needs on which connection a
  turn's end was told, by where the turn is (`ToldInv`): an apology may follow an end that was lost, on the next connection.
* **`LinkInv`** `== Shape /\ DeadInv /\ FreshInv /\ ToldInv /\ LockInv`. `ToldIsTrue` needs that the supervisor's last
  broadcast is the status that holds (so that every change is one), `ResyncIsFresh` that a snapshot found behind the
  lock was fetched since; `DeadInv` names the one exception, a reader killed under an open socket (`bad`). `LockInv`
  says of the queue of the lock what `OneAsks` says of the set of those in it, and that nobody is in it twice; the cases
  are *join*, *get the lock*, *leave from the front* and *be cancelled*, which `LeaveLock` states as a relation between
  the queues before and after.
* **`ModelsInv`** `== Shape /\ AnswersInv /\ RecordInv /\ RunInv`. `Coherent` says nothing while an answer is under
  way, so it does not follow from itself: `RecordInv` says that the override is the model of the *last* answer the hub has
  not read (and that this is no PUT's), and the one it remembers when there is none; `AnswersInv`, that the unread answers
  are those of the operations that have been answered, each once, also when one is given up and taken out of the middle.
  `RunInv` extends `RunsAsAsked` to a message that has yet to read that its patch is done. `HeldInv` restates `PickHeld`
  so that each step has one thing to show, that it ends no operation a picker waits for, or answers it (`Settled`); it
  needs that a PUT is with the gateway until it is over (`WellFormed`), for a PUT alone outlives its socket.
* **`PageInv`** `== ShownType /\ HubType /\ SocketType /\ EndpointInv`. A registered socket has an endpoint that runs on,
  and no socket beyond the page's epoch has one: so only the end of that endpoint can evict it (`Unregistered`).
* **`OwedInv`** `== JoinInv /\ ReplyInv /\ AwaitInv`. At rest nothing is owed because on the way to it everything is
  accounted for. `JoinInv`: a page that is joined has subscribed or is about to. `ReplyInv`: the reply of a run that is
  over is shown, or a history that has it is on its way after anything that would hide it, or one will be asked for
  (`HistoryDue`: a subscribe, an endpoint that asks, a resync), or the last history is a wiped one; since a history
  replaces what the pane shows, what counts is the *last* such frame on the channel (`ShowsIn`). `AwaitInv` looks
  at the last frame only, as each frame sets or clears the placeholder. The outages, evictions and lost requests are the
  cases of these disjunctions.
* **`DispatchInv`** `== LocksEnd /\ Shape /\ ItemsStay /\ RunsOwned /\ EventsTrue /\ FreshTrue /\ FlushedTrue /\
  SessionHasJob /\ OneJobPerRun /\ JobTellsOutcome`. That the two tables agree depends on what is not committed: the runs
  awaited by requests (`RunsOwned`), the jobs and columns the worker has flushed (`FreshTrue`, `FlushedTrue`), and the row
  locks and keys that keep an item from being deleted under them (`ItemsStay`); `given` excepts what a PATCH wrote from
  `SessionHasJob` and `JobTellsOutcome`, and only until the system writes that column. `NobodyStuck` follows from
  `ItemsStay`, the events' jobs (`EventsTrue`) and that only a pass under way has locks (`LocksEnd`).
* **`BriefingInv`** `== Shape /\ LoopInv /\ FreshInv /\ HiddenInv`. One sweep at a time needs that the lock outlives the
  sweep, and Redis the whole time (`LoopInv`, whose hypotheses `~Slow /\ outages = 0` are those of `OneLoopSweeps`);
  freshness needs, of each day, what a build that met no write has read (`DraftInv`) and that a write between its
  invalidation and its commit taints whatever is read of the days it clears (`PublishInv`); `HiddenInv` rests on row locks
  and on what each transaction has flushed.
* **`BoxInv`** `== Shape /\ ConvertInv /\ FreshInv /\ LogInv`. Each "once" is a statement about where the one thing is:
  the task of an email is with the conversion under way or paired (`OneInv`), a focus session is in Redis, in the hands
  of one stop, or in the log of one task (`OnePlace`). Both hold until history marks the named exception (`excused`,
  `overlap`).

Facts about sequences that SMT does not find by itself (appending, tails and cuts of sequences, counts of deltas) are lemmas
at the head of each module and cited by name.

Only model-checked:

* liveness under fairness (`NothingStranded`, `Served`, `EndsAreTold` and the like of every module), beyond the prover. For
  four of them the safety that they rest on is proved: `NothingOwed` for `ReplyShown`, `PickHeld` for `PickEnds`,
  `RunsEnd` for `EndsAreTold`, `NobodyStuck` for `Served`.

No module here has a recursive operator of its own.

## Where the code and its documentation disagree

Each of these configurations is kept beside the regular runs and violates the one property it names
(`tlc -config <configuration> <module>`; with `MCDispatch`, `MCHubRuns` or `MCProjectBox` for those three):

| Configuration | Property | What happens | Against |
|---|---|---|---|
| `DispatchUpdate.cfg` | `UpdatePickedUp` | editing active work marks it `needs_update`, the next event of the run under way overwrites the mark, and the edit is never sent | "Prompt-affecting edits to active work are picked up by the worker." (`tests/test_dispatch.py:238`) |
| `DispatchPending.cfg` | `PendingIsRetryable` | overlapping dispatches mix their columns into an active, pending item that still has a session, which the worker skips for ever | "A later run can re-dispatch the same item." (`services/dispatch_service.py:88-90`) |
| `DispatchReopen.cfg` | `NoJobReopens` | a `running` event after the end, from the other stream, puts a finished job back to running | "The :func:`mark_*` helpers below capture every legal transition." (`repositories/dispatch_repo.py:12`) |
| `DispatchSuperseded.cfg` | `DoneByCurrentRun` | the subscriber reads that an event is of the current run, a new dispatch commits, and the old run's end moves the item to review | `tests/test_dispatch_subscriber.py:104` |
| `DispatchStaleWrite.cfg` | `DispatchedIsActive` | a successful dispatch compares with a stale row, finds `column` or `session_status` unchanged, and does not write it | `tests/test_dispatch.py:157-160` |
| `DispatchMirror.cfg` | `OutcomeMirrored` | a run ends before the transaction that names it commits; its event finds no job | `services/dispatch_subscriber.py:1` |
| `HubDropped.cfg` | `DroppedStaysOut` | the final with text of a run that an abort or a reset dropped is delivered all the same | "so stray terminals from the old session can't deliver into the fresh one" (`services/synapse_hub.py:963`) |
| `HubCut.cfg` | `ReplyNeverCut` | deltas are handled before the handler of `chat.send` resumes and registers the run with an empty text | "Prefer this run's own streamed text" (`services/synapse_hub.py:1142`) |
| `HubOldReply.cfg` | `FallbackNotRepeated` | a reset clears the memory of what was delivered while a fallback waits for the history, which then delivers the old reply again | "The fallback never re-delivers the previous reply." (`services/synapse_hub.py:1143-1144`) |
| `HubPane.cfg` | `VoiceStaysPrivate` | the bound pane's client leaves, and the rest of the voice run's chunks go to all panes | comment at `services/synapse_hub.py:98-100` |
| `ClientChannelView.cfg` | `ViewNeverRegresses` | a newer status replaces its queued frame in place and is overtaken by an older snapshot of the fleet behind it; the next poll repairs it | docstring at `services/synapse_hub.py:326-327` |
| `VoiceStop.cfg` | `StopStops` | a stop that meets the session inside `_cancel_active` is swallowed there: the session goes on, untracked, and `stop` waits for it | "Only stops on cancellation (MANAGER.stop)" (`services/voice_bridge.py:212`) |
| `VoiceEnded.cfg` | `TurnsAreEnded` | a turn cancelled before it awaits its reply sends no `end_of_turn` | "Always send `end_of_turn` after final, abort, or error." (`docs/plan.md:331`) |
| `BriefingOutage.cfg` | `Wakes` | without Redis the sweep takes its lock for granted, and then rolls back, since the invalidation raises | "fail-open so the sweep still runs single-worker" (`services/snooze_service.py:142`) |
| `BriefingResnooze.cfg` | `SweepTakesExpired` | a snooze renewed between the sweep's select and its delete is deleted with the expired ones | "Delete snooze rows whose ``wake_at`` is in the past" (`repositories/snooze_repo.py:98`) |
| `BriefingUnsnooze.cfg` | `UnsnoozeRestores` | un-snoozing deletes the row and leaves the legacy task hidden | "delete the row, restore visibility" (`api/routers/briefing.py:78`) |
| `BriefingStale.cfg` | `WritesAreShown` | a briefing built between the invalidation and the commit of a write is cached without it | "Set a manual triage decision and invalidate today's briefing cache." (`api/routers/email.py:64`) |
| `BriefingTasks.cfg` | `TasksAreShown` | a task is written and the cached briefing, which has the old list, is not cleared | "Project-Box is now the source of truth for tasks" (`services/briefing_service.py:138-139`) |
| `BriefingOtherDay.cfg` | `EveryDayIsShown` | a decision clears today's briefing, and the one cached for another date keeps the old one | "Return today's briefing (or a specific date if `?date=...`)" (`api/routers/briefing.py:32`) |
| `BriefingDeprecated.cfg` | `DeprecatedWakes` | the deprecated route hides a task and writes no snooze row, so no sweep ever brings it back | "Snooze a legacy kanban task", answered with `wake_at` (`api/routers/tasks.py:183-193`) |
| `ProjectBoxMerge.cfg` | `FieldsKept` | a time entry logged between an update's read and its write is reverted | comment at `services/projectbox_client.py:189-190` |

One more, `ModelsOverridden.cfg` (`NeverOverridden`), shows what no document promises: another handler's patch between a
message's patch and its `chat.send` gives the message another model.

Observed while modelling, without a sentence of the documentation against it:

* Hub: a replayed final is delivered again when another reply of its session came in between; the fallback of a run may
  show the reply of a later run; a voice run dropped by a pane's abort leaves its turn waiting for its 90 seconds.
* Voice bridge: an appliance that accepts the connection and never answers the hello holds a session for ever; what a turn
  still has to say after a reconnect goes out before the welcome; an error event makes the record terminal, so that a
  second live session can be started beside it; a start during a stop returns the dying record; a turn whose second send
  fails too leaves the record "thinking".
* Page: a `chat.history` that fails or is late sends an empty history, which wipes the pane (`wiped`); the slow accept of
  an older socket can evict the newer one; a message typed into a closed socket is lost.
* Gateway: a failed `sessions.list` shows every agent as idle.
* Dispatch: a PATCH may set `session_id` and `session_status` to anything, unchecked: an item then names a run without a
  job, or is done without a run.
* Models: a PUT, and a patch taken up after its timeout, change the override without `_selected_models` knowing
  (`stray`); a message without an explicit model patches the session back to the configured one; a voice session with a
  key of its own patches the main session; an answer lost with a socket leaves the picker disabled (`lost`).
* Briefing: an item that moves between the reads of two blocks appears twice or not at all; the sweep lock is never given
  back, only expires.
* Project-Box: a lost answer leaves the list cached and a retry makes a second task; an invalidation that raises after the
  creation rolls the pairing back; overlapping stops log twice.

## Not modelled

* Wording, formatting, logging, statistics, HTML and rendering.
* Texts of items, jobs and prompts: a dispatch always counts as an update (its note and timestamp).
* The parsing of the OpenClaw configuration, the mapping of agents to voices, status heartbeats as such, the session
  drawer.
* Authentication, accounts, contacts, settings, surfaces, constellation, accomplishments: requests without shared state
  between steps. The runway appears only as the block of the briefing that it gives. Of the legacy kanban routes, the
  deprecated snooze is in `Briefing`; the others reorder or delete rows, archive a task of
  Project-Box or answer 410. Migration and parity scripts: sequential, run by an operator.

## Plan

All modules of the plan are written, and all safety properties of the runs are proved. The liveness properties stay with TLC;
for those of `Gateway` one could state and prove, as for the hub, the page and the picker, the safety that
they rest on.
