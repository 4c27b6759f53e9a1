# A verification of the ChatGPT Web bridge for Codex

The repository connects Codex to a ChatGPT browser session. Codex talks the Responses API to a
daemon on loopback; the daemon answers by typing a prompt into ChatGPT in an Electron tab and
reading the page; ChatGPT calls Codex' local tools through an MCP connector, a tunnel and a
capability broker inside the daemon. Every turn is therefore carried by five or more processes that
learn of each other's progress through messages, and most of the code is about what happens when
they disagree. This directory holds TLA+ models of those agreements, the TLC configurations that
check them on small instances, and proofs for every value of the constants of the safety of the broker
at their centre and of most machines around it.

    tlc -workers 2 -config MCTurn.cfg MCTurn.tla          a run
    tlapm TurnBroker_proofs.tla                           proofs (each module that ends in _proofs)

`PROJECT.json` lists the components, the runs with their properties, a mutation of the model for
each property that the run detects, the source lines of each definition, the hazards, the findings
and the theorems. The lines are listed for the definitions that translate code; an accessor of one line
(a lookup, a name for a set) stands for lines that the definitions using it carry.

## 1. Inventory

Paths without a prefix are below `src/src/adapters/chatgpt-web/`, `S/` is `src/src/`, `L/` is
`src/launcher/electron/`.

| Component | State | Operations | Hard behaviour | What makes it correct |
|---|---|---|---|---|
| Turn broker (`turn-broker.ts`) | a channel per turn token: activities, invocations, queued and delivered calls, waiters, batch timer, fence, compaction, retirement; two histories of retired handles; a Unix socket | register, claim, activity_complete, invoke, release, nextToolBatch, completeTool, requestCompaction, fence begin/commit, waitForRetirement, revocations, prune, start, close | callers on separate connections, replays, timers, retirement at any moment; a stale socket, two daemons | a call is handed out and answered once; a committed fence means silence; a retired turn holds nothing; who serves is reachable |
| MCP server (`mcp-server.ts`) | one request handler per tool call | claim, invoke, release, settle with retry | its requests overtake each other, ChatGPT gives up | every claim is settled; no orphan invocation |
| Adapter (`index.ts`) | per request: tool loop, retirement watcher, capability; `runManual` | runTurn, armNextTools, settle, compaction, manual turn | reconnecting observers, abort between two awaits | every call answered; a turn ends; the browser stops when its capability does |
| Turn progress (`turn-progress.ts`) | recorder, mirror, batch barrier | recordToolBatch, observe, forward, apply, retire | two processes, coalescing, clock | no answer accepted while a call is open; text before a tool stays before it |
| Turn sessions (`turn-execution.ts`) | registry by execution key, retirements by key, owner and conversation, journals, interrupt marks | getOrCreate…, steer, interrupt, close, cancel, prune | steering races, awaits between lookup and use | one browser per Codex thread |
| Turn environment (`environment.ts`, `thread-environment.ts`, `codex-rollout-environment.ts`, `compaction-continuation.ts`) | the map of threads in memory and on disk, the checkpoints this daemon returned | read the environment of a request, of its history, of Codex' rollout, of the store | Codex sends the environment only when it changes; compaction, resumption, steering, midnight | no turn under another turn's authority; the task served is the current one |
| Browser helper protocol (`launcher-helper-client.ts`, `browser-helper-main.ts`) | pending runs by trace id; waiters in the helper; two FIFO pipes | run, abort, prompt selection, activation, fence, progress, exit and restart | helper exit, abort crossing an event, a reused trace id | every run settles once, with its own answer; prompts and tabs are released |
| Browser worker (`browser-worker.ts`) | one run: connection, parts sent, keypress, rejection observer, receipts; the keys of the page; the budget of a stage | connect, compose, send, approve, observe, rebind, bind the answer, fence, clean up | stale pages, renderer loss, lost replies to a keypress, sleep | each part once and in order; it reads its own answer; an end holds nothing |
| Compaction (`compaction-transaction.ts`, `compaction-handoff.ts`) | transactions by token with a waiter and a timer; runs by key, a gate per thread | submit, await, abort; run, retain, fresh tab, interrupt, retire | submit, await, abort, timer and source end in any order | one browser at work; a summary has its source; a final answer survives |
| Rolling checkpoint (`rolling-checkpoint.ts`) | the stream of one answer; a store on disk | snapshot, commit, apply, prune | a marker cut by snapshots, equal answers, a damaged file | nothing forgotten, nothing private shown |
| HTTP server (`S/server.ts`) | requests counted, interrupted turns, leases, draining and closing; shared catalogue attempts | admission, bind, interrupt, drain, resume, cancel, shutdown; join, leave, abandon an attempt | interrupt before bind, drain racing admission, a client that leaves | drained means quiet; an interruption sticks; a shared result is fresh |
| Responses bridge (`S/bridge.ts`, `S/event-queue.ts`) | queue, open item, finished items | push, pull, heartbeat, stall, cancel | slow readers, overflow, silence | the answer is whole or named as failed |
| Responses history (`S/responses/state.ts`) | response chains, debounced snapshot | remember, continue, prune, persist, flush | crash before the debounce, pruning of live chains | a remembered chain is whole or refused |
| Codex integration (`S/codex-integration*.ts`) | config.toml, journal with a recovery copy, models cache | install, activate, deactivate, uninstall | crash or failed write between two files, user edits | the user's route is never lost |
| Browser host (`L/browser-host.cjs`, `L/control-server.cjs`, `S/launcher-browser-host.ts`) | tabs, leases, cancellations, closed owners; manual tabs and their terminal signals; what is known of the sign-in | begin, heartbeat, end, reap, suspend, close, operations; manual start, started, end; probe, login, passkey import, logout, recovery | lease expiry racing a heartbeat; lost answers; cookies changing under a read; the user | a live turn keeps its tab, a dead one loses it; a sign-in is claimed only when read |
| Runtime supervisor (`L/runtime-supervisor.cjs`) | daemon and tunnel children, monitor, restart timers, stopping flag, ownership marker | start, stop, recover, wake | tasks interleaved at awaits, lost answers, exits at any time | one daemon; orderly stops spare turns; a start stays up |
| Launcher set-up (`L/main.cjs`, `L/runtime.cjs`, `L/runtime-upgrade.cjs`, `S/setup.ts`) | the files of a set-up, the running daemon, the operation, launcher-state.json | setup, settings, modes, uninstall, start-up and its fail-safe | a failure between child, files and daemon; a crash | at rest the stores agree |
| Launcher updates (`L/update*.cjs`, `L/runtime-install.cjs`, `L/source-update*.cjs`, `src/scripts/update-upstream.cjs`) | controller, worker, application and bundle directories; lock, stash, merge and documents of a checkout | check, install, quit, replace, start; update, take over, abort | failures and power cuts between renames; two updaters, killed processes | an application that starts; a checkout as usable as before |
| Launcher limits (`L/limits-*.cjs`, `S/…/limits.ts`) | receipts per account, one sticky error | record, check plan, switch, snapshot | a lost receipt or write, clocks set back | a window never claims more than it knows |
| Everything else | prompts, DOM adapters, catalogues, parsing, CLI, UI, scripts | – | text, DOM and I/O | – |

How they interact: Codex' request enters the **server**, which counts it and hands it to the adapter;
the adapter reads its **environment**, obtains a **session**, registers a **capability** with the
broker, and starts the **browser run** through the helper protocol. The **browser worker** leases a
tab from the **browser host**, sends the prompt and binds the answer. ChatGPT's tool calls enter the
**broker** through the MCP server; the adapter hands them to Codex in batches, behind the
**progress** barrier; results return the same way. The worker accepts ChatGPT's answer only through a
**completion fence** of the broker, and the **bridge** streams it to Codex. The **supervisor** starts
and drains the daemon, **set-up** and **updates** replace what it runs, and the **integration
journal** points Codex at it.

## 2. Modules

| Module | Code it stands for | Relation to others |
|---|---|---|
| `TurnBroker` | `turn-broker.ts`, native contract | the registry and channels, for any number of turns |
| `ToolDelivery` | – | what the broker promises about one call; `TurnBroker` implements it |
| `TurnBroker_proofs` | – | proofs about `TurnBroker` |
| `BrokerEndpoint` | `turn-broker.ts`: the socket and `callTurnBroker` | the requests of `TurnBroker` as done or not done |
| `NativeTurn` | `mcp-server.ts`, `index.ts`, `compaction-handoff.ts`, `browser-worker.ts` | extends `TurnBroker` with its three clients |
| `TurnProgress` | `turn-progress.ts`, `index.ts`, `browser-worker.ts` | the barrier, with the broker reduced to the calls |
| `HelperProtocol` | `launcher-helper-client.ts`, `browser-helper-main.ts` | one daemon, one helper, the launcher's tabs |
| `TurnSessions` | `turn-execution.ts`, `index.ts` | who may start a browser turn |
| `Compaction` | `compaction-handoff.ts`, `compaction-transaction.ts`, `index.ts` | the structured hand-off, with the session of its thread; proved about in `Sessions_proofs` |
| `RollingCheckpoint` | `rolling-checkpoint.ts`, `index.ts` | the other way to forget a history |
| `TurnEnvironment` | `environment.ts`, `thread-environment.ts`, `codex-rollout-environment.ts`, `compaction-continuation.ts` | whose authority a request carries |
| `BrowserTurn` | `browser-worker.ts`: `runBrowserTurn` | one run in its tab, between `HelperProtocol` and `BrowserHost` |
| `TurnBinding` | `browser-worker.ts`: the identity of answers | what `BrowserTurn` reads |
| `StageClock` | `browser-worker.ts`: `runStage`, `ChatGptSuspensionClock` | when a stage of `BrowserTurn` may fail |
| `BrowserHost` | `L/browser-host.cjs`, `L/turn-suspension.cjs`, `browser-worker.ts` | automatic tabs and their owners |
| `SignIn` | `L/browser-host.cjs` | the account; its operations are `BrowserHost`'s `operation` |
| `ManualControl` | `S/launcher-browser-host.ts`, `L/control-server.cjs`, `L/browser-host.cjs`, `index.ts` | the wire under `ZeroRiskTurn` |
| `ZeroRiskTurn` | `L/browser-host.cjs`, `S/launcher-browser-host.ts`, `index.ts`, `turn-broker.ts`, `mcp-server.ts` | the manual counterpart of `NativeTurn` |
| `ServerTurns` | `S/server.ts`, `S/native-passthrough.ts` | admission, interruption, drain, shutdown |
| `ModelCatalog` | `S/server.ts` | shared catalogue requests |
| `ResponsesStream` | `S/bridge.ts`, `S/event-queue.ts` | what Codex is told of a turn |
| `ResponseHistory` | `S/responses/state.ts` | what is kept of it |
| `IntegrationJournal` | `S/codex-integration*.ts` | the route of Codex |
| `RuntimeSupervisor` | `L/runtime-supervisor.cjs`, `S/server.ts` | the daemon and the tunnel as children |
| `LauncherSetup` | `L/runtime.cjs`, `L/main.cjs`, `S/setup.ts`, `S/cli.ts` | each call of the previous two as one step |
| `LauncherUpdate` | `L/update.cjs`, `L/update-worker.cjs`, `L/runtime-install.cjs`, `L/main.cjs` | the application and its bundled runtime |
| `SourceUpdate` | `L/source-update*.cjs`, `src/scripts/update-upstream.cjs` | the same for a Git checkout |
| `Limits` | `L/limits-store.cjs`, `L/limits-controller.cjs`, `limits.ts` | the receipts of `BrowserTurn` |
| `NativeTurn_proofs` | – | proofs about `NativeTurn`, over those of the broker, and about `RollingCheckpoint` |
| `Adapter_proofs` | – | proofs about `TurnProgress`, `ZeroRiskTurn` and `ManualControl` |
| `BrowserWorker_proofs` | – | proofs about `StageClock`, `TurnBinding` and `BrowserTurn` |
| `Browser_proofs` | – | proofs about `BrowserHost` and `SignIn` |
| `Sessions_proofs` | – | proofs about `TurnSessions` and `Compaction` |
| `Daemon_proofs` | – | proofs about `ServerTurns` and `ModelCatalog` |
| `Machine_proofs` | – | proofs about `IntegrationJournal`, `RuntimeSupervisor`, `SourceUpdate` and `Limits` |

**How they are run.** A module states its machine: `Init`, actions, `Next`, fairness, properties. Machines
that share state are composed by `EXTENDS` (`NativeTurn` over `TurnBroker`) or by making the other side
an actor with the outcomes its own module shows possible (a tab in `HelperProtocol`, a session in
`Compaction`, the supervisor in `LauncherSetup`). Machines that share none are checked side by side: the
modules `MCTurn`, `MCNativeTurn`, `MCAdapter`, `MCSessions`, `MCDaemon`, `MCBrowser`, `MCMachine` and
`MCLauncher` each hold several, and the variable `focus`, chosen in the initial state, names the one that
moves. The states of such a run are the sum of its machines', not the product: no machine is checked
less than it would be alone. The fairness conjuncts of a machine that rests ask nothing, because none of
its steps is enabled in its initial state, or because they name its focus. A property over machines that
rest holds of their initial states, so each one speaks of its own machine only.

**How code becomes actions.** The daemon, the launcher and the helper are single-threaded, so a
handler up to its next `await` is one action, and an action holds everything the handler does in that
stretch, calls included. What an await waits for (an answer, a timer, a promise) enables a later
action, and everything else may happen first. A request sent to another process is in flight until
the receiver's action takes it; only where both sides share a process is a call immediate.

### The turn in the daemon

*TurnBroker.* `life`, `bindings`, `retiredTokens`/`retiredBindings` are the registry;
`activities`, `activityRevision`, `completedActivities` the ledger of MCP requests;
`invocations`, `queuedCallIds`, `deliveredCallIds`, `waiters`, `batchTimer` the tool queue;
the fence and compaction flags follow the fields of `TurnChannel`. A token, its binding and its
turn are one value, since the code never lets them part. `outcome` records what each invoke request
was told.

*BrokerEndpoint.* The socket file is its inode number; a daemon probes it, takes it over when nobody
answers, binds, serves, and removes it only if it is still its own. A call is bounded by a timeout, or a
wait that only an event of its turn answers, or unbounded. Bun's `server.close` is taken to leave the
path to the code. `OneStarter` (a daemon starts only when no other is starting, as the supervisor
does it) and `InodeReuse` (FALSE: a new socket has an inode of its own) are assumptions; see section 4.

*NativeTurn.* `net` is the set of requests the broker has not read: the MCP server opens a connection
per request, so they are unordered, and a request its client has abandoned may still arrive.
`phase` and `attempts` are the request handlers, `adapter` and `batch` the tool loop, `worker` and
`fence` the completion decision, `seen` (history) what the last page read knew.

*TurnProgress.* Both pipes are sequences. `VetoCoversCalls` relates the recorder's counter to the
calls really open. `now` is the wall clock, which moves forward.

*HelperProtocol.* Frames carry the trace id as in the code and, for the properties only, the number of
the run. `worker[t]` is the helper's run of a trace, `lease[t]` the run for which the launcher keeps a
tab. Exits empty both pipes.

*TurnSessions.* A session settles twice: logically and physically. The maps of retirements are sets of
sessions still unwinding; the loop of `getOrCreateAfterOwnerRetirement` has one action per branch, so
the whole registry may change between its turns.

*Compaction.* A request names a key, requests of one key share a run, and runs of one thread queue at the
gate. A run is in the retained conversation, in a fresh tab, or in a Zero Risk one; `tx` is its one-shot
transaction, `source` the last response of the conversation with what may still happen to it. A cancellation with a
reason ends the source; one without, as a retirement's, only aborts its browser (`cancelled`), and the end
comes by unwinding: as an error, or as a final answer that was already on its way and whose entry is gone. The
deadline may pass at any time. An interruption aborts every run of its turn in one step. Results and
interruptions are pruned by age in the code and at any time in the model (`ForgetRun`,
`ForgetInterruption`).

*RollingCheckpoint.* Tokens stand for runs of characters, the marker is two of them, so that a
snapshot may cut it. `past` is the native history with its turns, `told` (in `live`) what the browser
turn was really told, in full or inside its summary.

*TurnEnvironment.* An authority is a record; what a version of Codex writes of it (`codex`) decides which
items state it, whether items are attributed to turns, and whether a rollout file stands beside. The
code's lookups (what the current turn says, a tagged pair in the part `previous_response_id` restored, a
tagged pair in the history, a date fragment at midnight, the rollout, the store, the accepted compaction) are
operators over the history and are tried in the code's order. `skipped` (history) says that a turn which
changed the authority was interrupted before the model answered; that takes one turn more than the run has, so
there the property holds without the exception. The check of a parent's roots
(`thread-environment.ts:318`) is part of what `Inherited` accepts. Codex is taken
to write an update next to its instruction and to change authority only between turns, and a bare
follow-up to go to the model that answered the turn before. Users who type environment markup are not
modelled.

*ServerTurns.* A request is new, reading its body, ready, running, answering, streaming or released;
what an interrupt does depends on which. `interrupted` holds the tombstones, oldest first; `disturbed`
(history) that a signal or a resume crossed the shutdown.

*ModelCatalog*, *ResponsesStream*, *ResponseHistory.* An attempt is numbered by the request that
started it. A content event is its number, so that an item is the sequence of what it holds. An entry
of the history is the sequence of replies it stands for, and `story` what Codex means by it.

### The tab

*BrowserTurn.* `run` is the worker at its stage, `page` what ChatGPT really received per part, `press`
the Enter command whose reply may be lost, `conn` the connections, `watch` the rejection observer,
`usage` the receipts. Whether a failed attachment is tried again is decided on what the page shows, which may
be later than what ChatGPT has: `run.missed` (history). The turn's signal keeps its first reason.
Driving the page is modelled by its outcomes: it answers, it answers late, it does
not answer, it is gone.

*TurnBinding.* An exchange is a set of keys because ChatGPT renames it when it saves it. The page may
hide, show and rename between two readings, `snap` is the last reading, and a foreign message appears
only after the answer has been bound. An answer that has gone from the page is `Gone` by its key and not by
its exchange, as the code looks it up. `Scrolls` lets an exchange leave the view within one probe
(section 4).

*StageClock.* One unit is the tick of the suspension clock. A sleep advances the clock without the
callbacks; after it, timer and tick are overdue in either order. A sleep has any length: one shorter than the
gap the clock looks for (1 to 5 s of real time) cannot be told from awake time and is charged to the budget,
as is the tick that finds a longer one; `charged` (history) adds up both.

*BrowserHost.* A tab is leased to a helper for a trace; `aged` says that its deadline has passed, which
happens only to a tab whose helper is dead or stuck, or during a sleep. `cancels` are the awaited
cancellations, `closedOwners` and `cancelledOwners` what is remembered of owners. Workers are actors over
requests that may be lost. A turn starts only when no earlier one of its conversation is still at the
host (`getOrCreateAfterOwnerRetirement` awaits it), and once a later one has begun an earlier one is
"past" and never tried again: the host itself does not enforce that order, and with it broken a
conversation can own two retained tabs.

*SignIn.* A read of the session carries `stale` in place of the revision it began at. `session` is what
ChatGPT would answer, `import` what a passkey import has done so far.

*ManualControl.* Every operation is a request on the `wire` which may be handled late, after it was given
up and asked again. `ends` and `dones` are the bounded memories of the launcher.

*ZeroRiskTurn.* The user is an actor: Sent, Cancel and closing the tab may come at any time or never.
`confirmed` and `asked` are history. `FAULTS` bounds the launcher requests that fail. The adapter's
catch block revokes the turn in the microtask run in which the failure surfaces, so both are one
action.

### The machine

*IntegrationJournal.* A command is the list of writes it still has to do (`job`); every write may
fail or be the last thing the process does. `readJournal`'s reconciliation of the two copies is an
operator over the file contents.

*RuntimeSupervisor.* `pc` says where each of four tasks stands (start, stop, and a recovery per
child). A request takes effect when it is sent, and its answer may be lost. A tunnel that takes
longer to come up than three probes of the monitor (30 s) is one of the bounded faults. `resumeLost` and
`orphaned` (history) mark a resumption whose request was lost and a failed start whose cleanup did not
know the tunnel it had started.

*LauncherSetup.* `disk` is what a set-up changes file by file, `live` the daemon and the configuration it
was started from, `op` the operation with its checkpoint, `orphan` a child whose launcher no longer waits
for it, `store` what the launcher tells the user. `FoundOwners` bounds who may manage the installation found.
`spoilt` (history) marks an undo that failed or an
orphan that wrote late; there the agreement at rest is not owed, and no document promises it.

*LauncherUpdate.* Versions are numbers. `volume` holds target, next and previous of the worker, `bundle`
the runtime bundles; every step may fail, and power may go between any two. The user may
start the launcher at any time, while it is being replaced too; a second install is not begun while an
earlier worker works. An install that gets no directory to work in fails with its state at "downloading".

*SourceUpdate.* Two programs, one lock file. A killed process leaves its lock, its stash, its merge and
the documents it had put aside. `repo.merge` is the commit of `MERGE_HEAD`: the code only looks whether
there is one, so an updater may take a merge left behind for its own and commit that.

*Limits.* On the plan with the larger allowance one model is counted over a week, the others and all of them
together over a day (`Windows`). `sends` is the history of physical messages, `receipts` what is on its way,
`excused` the sends no count is owed for (older than the last check or restart, or lost on the way). The
account and the mode do not change while a turn or a check runs.

## 3. Runs

Bounds are constants of the modules, named in the cfg; states are distinct states, summed over the
machines of the run.

| Run | States | Machines and bounds | Checks |
|---|---|---|---|
| `broker` | 739 k | *broker*: two turns on two traces, one of them remote and bounded in time; an activity, two calls, an observer; one retired handle remembered. *environment*: five items, two turns, two authorities, three versions of Codex, with or without a restored part, one restart or damage. *binding*: a staged message, ours, a foreign and an old one, two of them with a second key. *clock*: a budget of four ticks, a gap of three, naps below and above it, three sleeps. | the books, wake-ups, delivery and retirement; authority and task; whose answer is read; awake time |
| `native_turn` | 127 k | *turn*: one bounded turn, one tool request of ChatGPT, one lost observer, compaction allowed. *checkpoint*: three turns, five ways a page writes its answer, two stored, one mishap. *endpoint*: two daemons, two callers, three bindings, one kill or foreign file | completion against late tools; calls, handlers, turn and browser end; nothing forgotten; a reachable socket |
| `adapter` | 100 k | *progress*: two calls, one lost observer, a clock of two ticks. *helper*: one trace id run twice, one helper exit, two fence requests. *zero risk*: a call, a completion, a failed launcher request | the barrier and the veto; whose answer it is, settlement and tab release; authorization by Sent, one quiet end, everybody told |
| `sessions` | 635 k | *steer*: a turn, an instruction that steers it and a reconnect; three browser turns, one tab kept. *compact*: a turn, its compaction, one cancellation. *hand-off*: two requests for two keys of one turn, two runs, one abort, one tool call | one browser per thread, heads, capabilities, steering proceeds; compactions are sound and end |
| `daemon` | 250 k | *turns*: two requests of one turn, one tombstone, one external owner. *catalog*: two clients. *stream*: three events and a queue of two. *history*: three replies, one too big, two stored, one on disk | drain, interruption, sharing, whole answers, whole history |
| `browser` | 727 k | *tabs*: two turns of one conversation, two helpers of which one fails, room for two tabs, one owner remembered, two tabs created, one fault. *sign-in*: two changes, crashes or failures | tabs, owners and operations; claims, imports, recovery |
| `machine` | 539 k | *journal*: any sequence of commands, two failed writes, two crashes, an edit. *supervisor*: two starts, a stop, a wake, an exit, a failed request, one turn. *source*: the launcher and the script, one kill, one failing command. *manual*: two turns, one late request, two daemons. *limits*: two accounts, room for one, a weekly model within the daily shared window, a clock that passes both windows and whose last tick only ages what was sent, two sends of the limited model, one check, one fault | the user's route, one daemon, a whole checkout, one tab each, an honest counter |
| `launcher` | 351 k | *set-up*: two configurations, three kinds of installation found, three settings, one failure, two boots. *update*: three platforms, two releases, three failures, one power cut. *tab*: two parts (a compaction has one, in the chat it is about), one rebinding, one observation fault | agreement at rest, an application that starts, a turn that sends once and ends |

Why the bounds are enough to be interesting: the hazards listed in `PROJECT.json` need at most two of
anything — two calls for a batch that is split, two turns for a retirement that must spare the other
one, two runs for a reused trace id, three browser turns for a steering request that finds the
previous steering unwinding, two starts for one that finds the remains of the other, two failed
writes for a roll-back that fails itself, two daemons for a socket taken over, two keys for an exchange
that is renamed, two parts for one that is sent before the other is acknowledged. A capacity is one or
two, so that it is reached. Three failures of an update are the second rename of macOS and both tries of
its undoing. Every property has a mutation of the model (a dropped guard, a missing reset, a swapped
order) that makes its run fail within these bounds.

In `sessions`, cancellations are allowed to the compacted turn only, and in `launcher` a compaction has
one part, in the chat it is about: the other combinations multiply states without a step of their own.

Deadlock is not checked: a bounded behaviour may stop because its turns are over and its bounds
used up, so the cfg says `CHECK_DEADLOCK FALSE` and liveness properties take its place.

### Properties

Where several statements speak of one machine a run checks their conjunction, so that each machine has at
most one state and one temporal property for each question; the parts keep their names and comments in the
modules.

- *Completion*: `NativeInv` with `NoToolAfterCompletion`, and `FinalPageIsFresh` in `NativeTurnEnds` (the
  answer accepted is the last word: no tool request was open or is let in later, and the page was read
  after the last of them); in Zero Risk `QuietCompletion` and `NothingBeforeSent` in `ManualInv`.
- *Delivery*: `DeliversEachCallOnce` (refinement of `ToolDelivery`), `InvocationBooks`,
  `EveryCallAnswered` in `NativeTurnEnds`; `BatchIsDelivered` and `NoOrphanInvocation` in `NativeInv`;
  `ProgressInv` with `VetoCoversCalls`, `BoundaryBeforeDispatch` and `FramesAreAccepted`, and
  `BatchIsDispatched`, in `ProgressHolds`; `CallerIsNotMisled` in `EndpointHolds`.
- *Waiting*: `NobodyHangs` (`NoLostWakeup`: a queued call and its waiter meet), `HandlersEnd` in
  `NativeTurnEnds`, `EndpointProceeds` in `EndpointHolds`, `HeldRequestsEnd` and `EveryEndIsSeen` in
  `ZeroRiskTurnEnds`, `SteeringProceeds` in `SupersessionHolds`, `CompactionEnds`, `StopEnds` in
  `SupervisionHolds`, `EveryAbortEnds` in `AbortsHold`, `CancelledTurnEnds`, `SignInProceeds`
  (`RendererRecovers`, `LoginEnds`), `SetupSettles`, `UpdateSettles`.
- *Retirement*: `NobodyHangs` (`RetiredTurnHoldsNothing`), `RetiredHandleIsRemembered`, `TurnEnds`,
  `TurnCompletes`, `AbortSettles` and `LeaseIsReleased` in `RunsSettle`, `TabIsReleased` and
  `NoFalseCancellation` in `ManualInv`, `EndedHoldsNothing` and `ReceiptsAreDrained` in `BrowserTurnInv`.
- *Ownership*: `SessionInv` with `OneBrowserPerOwner`, `CapabilityOutlivesObservers` and `HeadIsLive`;
  `SupersededStaysRefused`, `AnswersReachTheirRun`, `NoSecondDaemon`; `FreshTabAlone` in `CompactionInv`;
  `LiveTurnKeepsItsTab`; `HostInv` with `OwnerCanEnd`, `OperationIsAlone` and `OneTabPerConversation`;
  `ManualControlInv` with `OneTabEach`, `LeaseHolds` and `NoGhostTab`; `ServingIsReachable`.
- *Identity*: `AuthorityIsCurrent` and `CurrentTaskIsServed` (whose permissions, and whether a task in
  order is ever turned away), `ReadsItsOwnAnswer`, `SentOnceInOrder` and `RefusalIsNamed` in
  `BrowserTurnInv`, `SummaryHasItsSource`, `InterruptionHolds` and `FinalAnswerSurvives` in
  `CompactionInv`, `NothingForgotten` in `CheckpointInv`, `SettledSignIn` and `ImportIsWholeOrGone` in
  `SignInInv`.
- *The daemon*: `ShutdownCutsNothing`; `InterruptSticks`; `CatalogHolds` (`AttemptBooks`,
  `CatalogIsFresh`); `StreamHolds` (`NothingIsLost`, `StreamEnds`); `HistoryHolds` (`FullContext`,
  `StopKeepsHistory`).
- *Files*: `JournalHolds` (`JournalInv` with `DisconnectIsHonoured` and `BaselineIsKept`;
  `FailureChangesNothing`), `SetupInv`, `ApplicationSurvives`, `NoStrayWorker` and `BundleKept` in
  `UpdateInv`, `CheckoutIsWhole` in `SourceInv`, `LimitsInv` (`MemoryIsTheFile`, `BooksAreReal`,
  `GapIsShown`, `WindowsAreHonest`).
- *Operation*: `SupervisorInv` with `StoppedIsQuiet`, `NotLeftDraining` and `OrderlyStopSparesTurns`;
  `StaysUp`; `BudgetIsAwakeTime`.

Where the code promises less than a property would like, the property names the exception:

- `BatchIsForgotten` (`NativeTurn`): a batch that was handed out, lost with its observer and then
  overtaken by a compaction is answered by nobody until the turn expires. `NativeTurnEnds` excuses just that
  batch, so this hazard is described by the exception and caught by no property.
- `skipped` and `Unattributable` in `AuthorityIsCurrent`: the envelope of a turn that was interrupted
  unanswered is passed over for an older one; and a version of Codex whose envelopes are complete and
  attributed to no turn gives the code nothing to tell an old one by.
- `missed` in `SentOnceInOrder` and `RefusalIsNamed`: a message that slipped out of a failed attachment and that
  the page did not show when the worker looked is sent again.
- `cancelled` in `FinalAnswerSurvives`: the answer that comes after a retirement has lost its entry with it.
- `charged` in `BudgetIsAwakeTime`: one tick for each sleep the clock can tell, the whole of one it cannot.
- `runs > 1` in `LeaseIsReleased`: the second run of a trace id may be finished by a late error line of
  the first, or by the handling of its helper's exit.
- `losses > 0` in `TurnCompletes`: a replayed batch is counted twice (section 4), so no property catches the
  turn which that keeps open.
- `wakes = 0` in `StoppedIsQuiet`: a system wake starts the tunnel of a stopped runtime. `orphaned` in
  the same: a start that fails after its tunnel came up, but before it had recorded it, leaves it running.
- `journalFaults < 2` in `BaselineIsKept`: a write and its restoration both fail.
- `stops > 0` and `starts > 1` in `StaysUp`: a second start that fails cleans up what the first has
  started.
- `SteeredAfterMidnight` and `LostCheckpoint` in `CurrentTaskIsServed`: steering after a midnight date
  fragment leaves two competing claims; a restarted daemon does not invent the hand-off of a checkpoint it
  no longer remembers.
- `SaidTwice` and `LeftUnanswered` in `NothingForgotten`: a turn that answers twice in the same words,
  the second time without a marker; a turn that ended without an answer.
- `spoilt` in `SetupInv`: an undo failed, or a child wrote after its launcher had let it go.
- `volume.cut` and two failed renames in `ApplicationSurvives`, `powerCuts` and three failures in
  `BundleKept`: the time between two renames is not protected, and not claimed to be.
- `disturbed` in `ShutdownCutsNothing`: a signal, or a resume that crosses the shutdown.
- `missed` in `SettledSignIn`: a change of the account while the renderer is away, or during the probe
  of a login a redirect made necessary, is ignored.
- `excuse` in `LiveTurnKeepsItsTab` and `OwnerCanEnd`: the page was lost or the user closed the tab, and, for
  both, a surface of the turn could not be marked.

### Fairness

- *Event loops.* An action that is the next run of a loop (a received line, a resolved promise, a set
  timer) is weakly fair: Node runs what is ready.
- *Pipes and loopback requests* are delivered unless the model loses them explicitly. Where a fault
  may strike a step, the step without the fault is what is fair.
- *Deadlines.* Every wait of the worker, of a compaction, of a sign-in, of set-up and of the updater has
  a deadline in the code, and a deadline that is armed passes in the end; it may pass at once.
- *Pruning*: a turn whose time is over is pruned by the next operation of the broker, and the
  adapter and the worker, which asks for its fence again and again, keep calling it. That the time ever
  runs out is not assumed.
- *Codex* answers the calls it was handed and sends a new request after losing
  one (`ReturnResult`, `AskForTools`); without this nothing in the bridge can promise an answer.
  In `ResponsesStream` the client reads.
- `Complete` of `TurnProgress` and the worker's fence steps in `NativeTurn` are strongly fair: the
  worker polls the page for as long as the turn lives, so a page that is finished again and again,
  though not for good, is seen finished in the end.
- `EndpointProceeds` asks nothing of parked waits: an attempt, a close and a call that is not a wait end
  although no wait is ever answered. The bounds on bindings and calls cap the work, so that it is a
  statement about being held up and not about being overtaken for ever.
- Never obliged: the user, ChatGPT, faults, crashes, aborts, and (in `RuntimeSupervisor`) turns,
  which may run forever. `StopEnds` therefore includes stops that end refused.

## 4. Findings

Four runs end in a violation: a comment states a property and the code does something else. The
entries in `PROJECT.json` quote both sides.

| Run | Statement that fails | Where |
|---|---|---|
| `sessions_retained` | one browser per thread: closing a retained conversation is not an owner retirement | `turn-execution.ts:668` |
| `journal_stop` | a stop between two writes selects a state: a first installation can leave an unreadable journal | `S/codex-integration-journal.ts:178` |
| `zero_risk_ack` | an acknowledgement failure does not replace a completed answer: said of the acknowledgement of the completion (`index.ts:674`); at Sent, when the completion is already accepted, it does | `index.ts:657` |
| `setup_commit` | old files are never restored under a live candidate: a commit that fails after readiness does it, in an installation the Launcher manages, whose previous runtime is compatible (`FoundOwners`) | `L/runtime.cjs:1581` |

Each has a passing run of the same module beside it in which the case is bounded away or the property
is another one, so that the rest is not hidden behind it (`CommitCanFail` in `LauncherSetup`, retained
conversations in `TurnSessions`).

### Disagreements without a run

Met while modelling and left out of the properties above. The first ones are stated in a module as a
property no run checks, or come with a constant that opens the case; TLC violates each when a cfg names
it:

- `SleepIsBlocked` (`BrowserHost`): `L/browser-host.cjs:2577` marks a reused retained tab running without
  `syncPowerSaveBlocker`. `L/turn-suspension.cjs:34` says "A power-save blocker belongs up exactly while
  at least one browser turn is running".
- `OneUpdater` (`SourceUpdate`, `TakeoverGap = TRUE`): `L/source-update-safety.cjs:49` compares a stale
  lock and then unlinks whatever is there. `src/docs/UPSTREAM_UPDATE_WORKFLOW.md:91` says "Một khóa riêng
  trong thư mục Git dùng chung ngăn hai updater cùng cập nhật."
- `GateOutlivesBrowser` (`Compaction`): the retained tab of a run whose deadline has passed still works when
  the gate opens (`compaction-handoff.ts:325`). `compaction-handoff.ts:476` says "Return a deadline
  failure promptly, while its physical browser owner still blocks retries and cancel-all completion."
- `OnlyParentHistoryReplaced` (`RollingCheckpoint`): a checkpoint replaces everything before the
  instruction, a turn that ended without an answer included (`rolling-checkpoint.ts:216`).
  `src/tests/rolling-checkpoint.test.ts:152` says "Luna checkpoint replaces only exact-parent history and
  preserves the current native turn".
- `Scrolls = TRUE` (`TurnBinding`): an exchange that leaves the view between two readings of one probe is
  taken for a new one when it returns (`browser-worker.ts:2841`).
- `OneStarter = FALSE` (`BrokerEndpoint`): of two daemons that probe the same stale socket, the second
  removes what the first has bound meanwhile (`turn-broker.ts:913`). `InodeReuse = TRUE`: a closing daemon
  takes a new socket with a reused inode number for its own.

The others are visible in the models, or just outside them:

- `index.ts:1409`: a batch the broker replays is recorded a second time, so the veto outlives the
  calls. `turn-progress.ts:287` says "Only unresolved native tool calls veto browser-turn completion."
- `turn-progress.ts:183`: the recorder stores the wall clock as it is; set back, it makes the mirror
  refuse the frame. `turn-progress.ts:241` says "the recorder only ever moves these forward". The
  model's clock does.
- `launcher-helper-client.ts:487`: an abort that crosses the activation of Send settles the run while
  its worker still holds the tab. `index.ts:115` says "Replacement ownership must wait for the actual
  worker promise, whose finally block completes the launcher /turn/end handshake."
- `L/runtime-supervisor.cjs:2033`: a stop that is refused has already stopped the tunnel monitor, and
  nothing starts it again. `src/docs/architecture.md:284` says "An unexpected child exit is recovered
  with a bounded restart budget".
- `S/server.ts:1040`: a resume reopens a daemon that is closing, and its exit ends the turns it has
  admitted (`disturbed` in `ShutdownCutsNothing`). `src/docs/architecture.md:281` says "The lifecycle
  operation proceeds only when both counters are zero."
- `L/browser-host.cjs:1900`: closing a tab awaits the cancellation of its turn and then removes the tab
  although another turn may have leased it meanwhile; the reaper (line 1665) compares the trace again.
- `L/browser-host.cjs:518`: a change of the interaction mode ends without `recoverPrimaryRenderer`, so a
  renderer that crashed under it waits for the next operation.
- `L/browser-host.cjs:1347`: while a new sign-in is required, cookie changes return before
  `authenticationRevision` moves, so a probe under way is not recognised as stale.
- `L/browser-host.cjs:879`: a tab whose surface could not be marked is in error, neither reaped nor
  evicted when its end is lost too.
- `L/browser-host.cjs:2294`: a manual turn whose end was never acknowledged can leave a second retained
  tab, and then every later turn of the conversation is refused. A repeated `end` of an aborted turn is
  answered `cancelledByUser`, which the adapter ignores.
- `environment.ts:818`, `846`: the search for a pair of update and instruction in the history passes over a
  detached or malformed update, or that of a turn that was interrupted unanswered, to an older one.
- `L/update.cjs:420`: the state becomes "downloading" before the temporary directory is made, outside the `try`:
  when that fails, no other install can begin until the launcher is restarted.
- `rolling-checkpoint.ts:357`: `load` marks the store loaded before it parses, so a damaged file costs one
  request and is overwritten by the next.
- `browser-worker.ts:5011`: after the page was bound again, the rejection observer still listens to the
  closed page.
- `S/bridge.ts:366`: the comment expects a synthesized `response.completed` when the adapter ends without
  a terminal event; the code emits `response.incomplete`.
- `limits-store.cjs` prunes against the latest clock it has seen, so a clock set forward and back drops
  history in silence; a receipt lost on its way is only logged by the worker.
- `LauncherSetup`: nothing recovers a set-up whose launcher died in the middle of it; a child may write
  on after its launcher let it go (`L/runtime.cjs:682`); a change of the interaction mode leaves
  `mcpSetupComplete` as it was (`L/main.cjs:1023`); a settings change whose recovery fails leaves Codex
  routed to a port nobody serves.

## 5. Proofs

Eight modules prove 32 theorems, for every value of the constants that satisfies the named `ASSUME`s of
the modules (TLC evaluates those in the runs). They are what makes small bounds enough: where a theorem
stands beside a run's property, the run is its test and not its justification.

| Module | Theorem | States |
|---|---|---|
| `TurnBroker_proofs` | `TypeCorrect` | `Spec => []TypeOK` |
| | `SafetyCorrect` | `Spec =>` always `InvocationBooks`, `NoLostWakeup`, `CommittedTurnIsQuiet`, `RetiredTurnHoldsNothing`, `CompactionStopsDelivery` |
| | `NobodyHangsCorrect` | `Spec => []NobodyHangs` |
| | `RevisionCorrect`, `CommitCorrect` | `Spec => ActivityMovesRevision`, `Spec => CommitIsFinal` |
| | `RetiredHandleCorrect` | `Spec => RetiredHandleIsRemembered` |
| | `DeliveryCorrect` | `Spec => DeliversEachCallOnce`: the broker implements `ToolDelivery` |
| `NativeTurn_proofs` | `NativeUsesBroker` | `TurnSpec => Spec /\ DeliversEachCallOnce`: the composition is a broker |
| | `NativeCorrect` | `TurnSpec => []NativeInv` (`NoToolAfterCompletion`, `BatchIsDelivered`, `NoOrphanInvocation`) |
| | `NativePageIsFresh` | `TurnSpec => FinalPageIsFresh` |
| | `CheckpointCorrect` | `RCSpec => []CheckpointInv` (`NothingForgotten`, nothing private shown, a damaged file costs one request) |
| `Adapter_proofs` | `ProgressCorrect` | `ProgressSpec => []ProgressInv` (`VetoCoversCalls`, `BoundaryBeforeDispatch`, `FramesAreAccepted`) |
| | `ManualCorrect` | `ZeroRiskSpec => []ManualInv` (`NothingBeforeSent`, `OneAnswer`, `QuietCompletion`, `NoLostWaiter`, `NoFalseCancellation`, `TabIsReleased`) |
| | `ManualControlCorrect` | `Cardinality(ManualTurn) <= MAX_SIGNALS` gives `MCtlSpec => []ManualControlInv` (`OneTabEach`, `LeaseHolds`, `NoGhostTab`) |
| `BrowserWorker_proofs` | `BrowserTurnCorrect` | `BTSpec => []BrowserTurnInv` (`SentOnceInOrder`, `ReceiptsAreDrained`, `EndedHoldsNothing`, `RefusalIsNamed`) |
| | `BudgetCorrect` | `StageSpec => []BudgetIsAwakeTime` |
| | `BindingCorrect` | `~Scrolls` gives `BindSpec => []ReadsItsOwnAnswer` |
| `Browser_proofs` | `HostCorrect` | `HostSpec => []HostInv` (`OperationIsAlone`, `OneTabPerConversation`, `OwnerCanEnd`) |
| | `LiveTurns` | `HostSpec => LiveTurnKeepsItsTab` |
| | `SignInCorrect` | `SignInSpec => []SignInInv` (`SettledSignIn`, `ImportIsWholeOrGone`) |
| `Sessions_proofs` | `HeadsCorrect` | `Spec =>` always `TypeOK`, `HeadIsLive`, `CapabilityOutlivesObservers` |
| | `SessionsCorrect` | `NoRetainedCompaction` gives `Spec => []SessionInv` (`OneBrowserPerOwner` is what it adds) |
| | `CompactionCorrect` | `CompactionMoves => []CompactionInv` (`FreshTabAlone`, `InterruptionHolds`, `SummaryHasItsSource`, `FinalAnswerSurvives`) |
| `Daemon_proofs` | `ShutdownCorrect` | `ServerSpec => []ShutdownCutsNothing` |
| | `InterruptCorrect` | `ServerSpec => InterruptSticks` |
| | `CatalogCorrect` | `CatalogSpec => CatalogHolds` (`AttemptBooks`, `CatalogIsFresh`) |
| `Machine_proofs` | `JournalCorrect` | `JournalSpec => JournalHolds` |
| | `SupervisorCorrect` | `SupervisorSpec => []SupervisorInv` (`StoppedIsQuiet`, `NotLeftDraining`, `OrderlyStopSparesTurns`) |
| | `OneDaemonAtATime` | `SupervisorSpec => NoSecondDaemon` |
| | `SourceCorrect` | `SUSpec => []SourceInv` (`CheckoutIsWhole`) |
| | `OneUpdaterCorrect` | `SUSpec =>` always (`~TakeoverGap \/ kills = 0 => OneUpdater`) |
| | `LimitsCorrect` | `LMSpec => []LimitsInv` (`MemoryIsTheFile`, `BooksAreReal`, `GapIsShown`, `WindowsAreHonest`) |

Each specification named here is the machine of its module without fairness; the runs check the same
actions with it.

### Hypotheses

- `BindingCorrect` needs `~Scrolls`, and `OneUpdaterCorrect` that no killed process left a lock to take
  over or that the takeover has no gap: section 4 shows what the code does otherwise.
- `SessionsCorrect` needs `NoRetainedCompaction`, no request that closes a retained conversation. With
  one, `OneBrowserPerOwner` is false: that is the finding of the run `sessions_retained`. The rest of
  `SessionInv` needs no hypothesis and is `HeadsCorrect`.
- `ManualControlCorrect` needs a conversation of no more Zero Risk turns than `MAX_SIGNALS`, the endings the
  Launcher remembers (256). The memory is what stops a request that arrives late: with one more turn TLC
  shows `LeaseHolds` violated by the start of a turn whose ending was forgotten.
- `RetiredHandleIsRemembered` speaks of steps that retire no more turns than a history holds.
- `PageTokens` says that a summary is what follows a marker; the rest of a page is free.
- `NoneAssumption`, `IdleAssumption`, `CatalogAssumption`, `LimitsNames` and the disjointness in
  `SourceBounds` say that a value that stands for "nothing", for a state of the lock or of a document is
  none of the things it must be told from.

### Arguments

*Broker.* `IInv` is the conjunction of the type invariant with the five safety
invariants; together they need no further strengthening, because `InvocationBooks` states the whole
relation between the four places the broker keeps a call in. The others lean on it. That retirement
rejects a call and no other call of another turn follows from the books being disjoint between turns;
that an answer finds its call, and that a replay hands out a call which is already delivered, follows
from their being disjoint within a turn; and the refinement of `ToolDelivery` is a map from the books,
so `StatusOfCall` (a call is in one place only) is what every step of `DeliveryCorrect` uses. The proof has one step per action and,
under it, one per conjunct the action can disturb; `Frame` disposes of the rest. Revocation, which
`Revoke`, `RevokeTrace`, `RevokeExternalOwners`, `Close` and `Prune` share, is proved once for any
set of turns and either reason.

*Native turn.* `StepOfBroker` shows each step to be one of the broker or none, so `IInv` comes for free.
`NativeIInv` adds what the composition knows: that only the one turn is used and nothing precedes it
(`OnlyThisTurn`, `NothingBeforeTheTurn`), that the broker's activities are the handlers that have entered
(`LeaseIsCounted`), and, for each phase of a handler, which of its requests may still be on the network
(`Errands`). The last one is the strengthening: a request that its client gave up and that arrives late is
the only way a tool could start after the commit, and `Errands` says which can.

*Rolling checkpoint.* `StoreHolds` says of every checkpoint, in memory and in the file, that it covers what the
first items of the history told up to the answer it belongs to (`EntryOf`), as long as that answer is told
from all others (`Plain`), and that a turn whose checkpoint is kept still has the answer or was rolled back as a
whole. It survives rollbacks because turns follow each other and are dropped whole (`EntryCut`), and
duplicates because a checkpoint names text and turn. `BoundaryIs` then shows that nothing is said between the
parent and the boundary unless a turn was left unanswered, so the checkpoint and the rest tell all
(`ParentTells`). For the stream, `StreamOf` says that what is shown and what is held back are the page as far as
it was read, and that no marker begins in it before the last token (`MarkerOfPage`).

*Progress.* Frames in flight are snapshots of the recorder in order (`SnapshotsInOrder`), an
acknowledgement of a boundary is behind it (`AcksFollowBoundary`), and the revision is paid for by the
calls delivered, completed and the observers lost (`RevisionsAreEarned`), which bounds it for any number of
calls.

*Zero Risk turn.* `ManualIInv` keeps the state of the turn, the life of its channel and the place of `runManual`
in step (`ChannelBooks`, `StartBooks`); what only Sent allows is evidence of Sent (`SentBooks`), and whoever
ends a turn that still runs was asked to (`EndBooks`), which is `NoFalseCancellation` seen from every party.
`TabBooks` says which tab a run that has seen Sent holds, so that a run which ends without a fault knows
what it has to give back.

*Zero Risk wire.* `ManualCtlIInv` says what may be concluded from what each side remembers: the turns before one
that has begun are over (`OwnerBooks`); the end of a turn is on the wire only once its owner asked for it,
and the start of a turn that has ended only when that ending is remembered (`WireBooks`); a turn has one tab,
completed exactly when its completion is remembered (`TabsInOrder`); a turn that was given a tab has it or its
ending is remembered (`GivenBooks`); and while a turn works in a tab no other is retained (`RetainedBooks`).
The steps fall into two kinds: those of an owner, which move one turn and the wire (`OwnerKeeps`), and those of
the Launcher, which handle one request, perhaps late, with an answer that is true of what they leave
(`Truthful`, `HostKeeps`).

*Browser turn.* `TurnIInv` divides the parts at the current one: those before are answered and have a
receipt, those after are untouched (`PageBooks`, `ReceiptBooks`). The difficulty is the lost reply to Enter: a
press is pending only while ChatGPT does not have the part (`PressBooks`), and the place in the run says
whether it may be asked for again (`PlaceBooks`). A part ChatGPT has is asked for again only after the page
has failed to show it, and then `missed` is set. A rejection is named because, from the moment a message lands
under the observer, a check is under way or has found it (`WatchBooks`).

*Browser host.* A tab knows a trace, a worker knows a tab, and the two may disagree after a loss. `LeaseBooks`
says that the tab of a worker is still leased to it if it is open at all, `OwnerBooks` that otherwise the host
remembers its owner (that is `OwnerCanEnd`). `IdBooks` excludes that a new tab gets the id of one a
worker still holds. `OneTabPerConversation` is inductive only with `ConversationBooks`: at most one turn of
a conversation is current, and if that turn owns a tab, the retained tab is the one it would be given
(`Found`, as `beginTurn` looks it up); a turn that is past is not current, since its tab may be another's by now.
`LiveTurns` adds `AgeBooks`: the deadline of a turn that beats passes only while the machine sleeps, and then
the sweep refreshes the leases first.

*Sign-in.* A reading is taken at one time and believed at another. `ReadBooks` says that, once the account has
no session and the Launcher was told, every reading that says otherwise is marked stale, and every claim that
says otherwise is being read again by a refresh that is not stale itself; `ImportBooks`, that cookies which an
import has changed belong to an operation that will verify them or take them back.

*Worker.* The clock's measure of sleep is short of the real one by at most one tick for each sleep
it can tell, and by the whole of one that is shorter than its gap (`SleptIsMeasured`), whatever the order in
which timer and tick fire after it. The binding never holds a
key of a foreign exchange, because a foreign message comes only after it and keeps its bubble
(`ForeignComesLater`), nor an old one, because the history is known before the Send (`HistoryIsKnown`), nor
the staged one, because a reading in use still shows its answer (`ReadingStillShows`).

*Sessions.* `RegistryInv` relates sessions, heads and entries, `ObserverInv` each observer to the session it
waits for or is attached to; `RetirementInv` says that every unsettled session is registered or among the
retirements of its owner, and that what a key waits for its owner waits for too.

*Compaction.* The runs that have not let go (`Owners`) form a queue: the gate is the last of them, and before
each stands an owner no later than any other that came before it (`OwnersQueue`). A run that works is an owner
whose predecessor has left (`WorkersOwn`), so it is the first of the queue and alone (`WorkIsAlone`). From
this follows all else: the source and its head change only under the run at work, so what it read of them at
one await still holds at the next (`RunBook`), and a source cancelled with its head has a run that waits for
it, active or not (`SourceBooks`); an entry is lost only to an instruction or a cancellation. `StepKeeps`
proves once what the steps of any set of runs share; a step then has only its own book to show.

*Daemon.* Each request is `Sound` by itself (a run is counted, and a request whose turn has a tombstone is
aborted from the moment its body is read); a daemon that is closing undisturbed drains and has no counted
request and no session at work (`ShutdownIsIdle`). The catalogue's counters are
cardinalities of sets of clients, and attempts bear the numbers of the requests that began them.

*Journal.* A command is a place in a list of writes, and before each write the files are what the writes
done have made of the first snapshot. `FilesAreSound` says of every such mixture that the reconciliation
of the two copies still finds the user's route.

*Supervisor.* The four tasks exclude one another where the code makes them (`Exclusion`), and what each
place of a task knows of the processes is stated once (`Places`, `KnownChild`, `Exits`, `Drains`,
`Tunnels`); a drained daemon always has a task that will resume or end it (`Drains`).

*Source update.* What is left in the checkout belongs to somebody who will put it back: the lock, the merge,
the stash and the documents each have an owner at a place from which its `Catch` or `Finally` restores
them, unless it was killed (`LockIsHeld`, `MergeIsOwned`, `StashIsOwned`, `DocsAreSaved`).

*Limits.* `StoreBooks` says that a receipt in the file is of one physical Send of that account, whatever was
pruned, configured or repaired since. `GapIsShown` is inductive once `ExcuseBooks` and `SendingBooks` are
added: before the store is built nothing is owed, and a turn that runs without tracking found no plan or has
left a gap, so no Send goes by unseen. A receipt that is refused was before the start of the book, older than
the retention, or is there already (`RecordKeeps`). `WindowsAreHonest` follows: receipts map one to one into
Sends, and Sends that are owed into receipts (`NoMoreThan`).

Every strengthening was checked by TLC as an invariant before it was proved, at bounds beyond those of the
runs where these are tight (two faults of the supervisor, 3.9 M states; two commits, kills and
setbacks of the updater, 4.7 M; two faults of the browser host, 1.6 M; three changes of the account, 1.0 M;
two faults and two checks of the limits, 4.1 M; four turns of a task with checkpoints, 0.4 M).

Attempts that failed corrected the models: an answer that has gone is looked up by key (`Gone` in
`TurnBinding`); `StoppedIsQuiet` needs its exception for the tunnel of a failed start; a stop that is undone
may find its daemon gone at either of its awaits (`UndoStop`); `MERGE_HEAD` may be another's
(`SourceUpdate`); an interruption finds two runs of its turn to abort (`Interrupt` in `Compaction`); a
turn must not start while an earlier one of its conversation is ending, or two retained tabs result
(`Start` in `BrowserHost`, where room for one tab only had hidden it).

### Only model-checked

- liveness, which needs fairness and `ENABLED`, beyond the prover: `NativeTurnEnds`, `BatchIsDispatched`,
  `StaysUp`, `StopEnds`, `EveryAbortEnds` and the other properties listed under Waiting;
- what recursive definitions compute for all data: the items of `ResponsesStream`, the chains of
  `ResponseHistory`. Induction over data has no rule the prover can apply; where a proof needs that a bounded
  set of numbers has a least member, `CountsUp` gives it by counting. `SelectSeq` cannot be unfolded, so
  `PruneStore` and `Commit` say the same with `SubSeq` and `RemoveAt` (checkpoints are kept in the order of
  their dates, one for each answer);
- the safety of the machines without a proof so far; the plan names the candidates.

## 6. Not modelled

- *Data*: prompts, Markdown, DOM, TOML text, schemas, tool catalogues, token counts. Models keep what
  decides control: identity, presence, revision.
- *Broker*: the size limits of a frame, `updateEnvironment`, Zero Risk compaction.
- *Sessions*: `retireAbortedOwnerTurns`; the prune of entries idle for 30 minutes is modelled as happening
  only to sessions nobody observes.
- *Helper*: `close()` of the client and the shutdown of an idle helper.
- *Worker*: the clicks and selectors that make a stage, and the uploads below an attempt.
- *Zero Risk*: a page change that marks a resumed tab failed without removing it, a page navigated away
  from its retained conversation, the copy action that restarts the deadline. `cancelLauncherManualTurn`
  has no caller in the runtime.
- *Stream*: `hideThinkingSummary` (`S/bridge.ts:477`, `910`), which holds the thinking summaries back.
- *Source update*: the update of the core alone (`--core-only`, `L/source-update.cjs:274-297`, `345-353`).
- *Sign-in*: the smoke test and the check of the connector, which set `authenticated` as well
  (`L/browser-host.cjs:3129`, `3152`).
- *Browser host*: geometry, zoom, menus, announcements, the Cloudflare challenge
  (`reloadHomeAfterCloudflareChallenge` disarms before its load commits), connectors.
- *Journal*: versions 2–9, missing config files, symbolic links, edits during a command. Two faults in one
  command can lose the baseline (`codex-integration-shared.ts:360`), which the code reports and does not
  promise to survive; `BaselineIsKept` is stated below that.
- *Supervisor*: an invalid configuration, foreign launchers, the tunnel-only profile, failing writes
  of the ownership marker, forced stops, the restart budget's numbers.
- *Launcher*: the development profile, capability probes, two command lines setting up at once, quitting
  during start-up, the batch update (it sequences the two that are modelled), `useLimits` and the rest of
  the user interface.
- *Time* is measured only in `StageClock` and, coarsely, in `Limits`: elsewhere a timer may fire at any
  moment once set. Statements about durations are out of reach there.

Pure text and I/O make up most of what is left: the page adapters, the prompt and Markdown compilers, the
development chat, the doctor, installers and the user interface keep no state that a second actor reads.

Behaviour met while modelling that no document forbids is listed among the hazards with a note.

## 7. Plan

Modules, in order, each with its runs and mutations:

1. The Cloudflare challenge of the primary view and the connector announcements, in `SignIn`.
2. `retireAbortedOwnerTurns` in `TurnSessions`, and Zero Risk compaction in `ZeroRiskTurn`.
3. Quitting during start-up and the development profile in `LauncherSetup`; the retry budget.
4. Composing `BrowserTurn` with `BrowserHost` (the worker with its lease) and `Compaction` with
   `TurnSessions`, on instances small enough for the product.

Theorems, in order: `AuthorityIsCurrent` and `CurrentTaskIsServed` of `TurnEnvironment`;
`ServingIsReachable` of `BrokerEndpoint` with one starter; `AnswersReachTheirRun` of
`HelperProtocol`; the rest of `SetupHolds` and `UpdateHolds`.
