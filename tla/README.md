# Fleet operations console: models, checks and proofs

This directory models the concurrent core of the fleet operations console in
TLA+: the FastAPI backend that buffers telemetry and writes it to Postgres, Redis
and Socket.IO, the read path that rebuilds the cache, the registration of agents, the
simulator that drives it all, the live view of the browser and the operator who selects
agents in it. TLC checks the models on small instances; TLAPS proves every safety and
action property and every refinement of the passing runs for every value of the constants,
under the assumptions that section 4 names.

Paths below are relative to the root of the repository unless they end in `.tla`
or `.cfg`. `PROJECT.json` maps every definition to the lines it models and lists
the runs, the hazards, the findings and the theorems.

## 1. The system

### Components, state, operations

| Component | State | Operations | Model |
|---|---|---|---|
| Telemetry ingest (`backend/app/services/telemetry.py`) | `_buffer`, the window `_drain` swapped out, the task of `_flush_loop` | `ingest_telemetry`, `ingest_telemetry_batch`, `_drain`, `_flush`, `start`, `stop` | `TelemetryBatcher.tla` |
| Low-battery rule (`services/alert.py`, `repositories/alert.py`) | rows of `alerts`, partial unique index on active ones | `evaluate_low_battery`, get / insert / resolve | `AlertService.tla` |
| Agent registry (`services/agent.py`, `_known_agent_ids`) | `agents` table, set of ids the ingest path accepts | `create_agent`, `load_known_agents`, `register_known_agent` | `AgentRegistry.tla` |
| Current state (`services/agent.py`, `cache/agent_state.py`) | Redis keys `agent:<id>:state`, requests in progress | `get_current_state`, `read_agent_state`, `write_agent_state` | `CurrentState.tla` |
| Process lifespan (`main.py`) | process up / stopping / down | lifespan start and end, kill | `mode` in `TelemetryBatcher.tla`, `LifespanStep` in `AgentRegistry.tla` |
| Dashboard live view (`frontend/src/App.tsx`) | React state `agents`, `agentsRef`, `pendingUpdatesRef`, resync guard, Socket.IO connection | load, resync, `onTelemetryBatch`, the one-second tick, connect / disconnect / reconnect | `Dashboard.tla` |
| Schema, Redis client, Socket.IO server, REST schemas | | | the parts the models above need |
| Simulator (`simulator/app/simulator.py`, `client.py`) | `Simulator._agents` with their battery, the request it awaits | `register_agents`, `run`, `_tick`, `register_agent`, `send_telemetry_batch` | `Simulator.tla` |
| Placement (`simulator/app/placement.py`, `config.py`) | the specs still to be registered | `build_agent_specs` and its two modes | `Placement.tla` |
| Map and table (`FleetMap.tsx`, `AgentsTable.tsx`, `App.tsx`) | `selectedId`, `prevSelectedIdRef`, where the map stands | a click on a row or a marker, the effect of `MapController` | `FleetConsole.tla` |
| Health route, configuration of the backend | | | not modelled |

### How they interact

- The simulator registers agents and posts telemetry batches. A reading of a known
  id is stamped into `_buffer` and answered with 201 **before** anything is stored.
- One background loop swaps the buffer out and runs one flush: insert all rows and
  evaluate the alert rule per reading in a single transaction, then write the last
  reading of each agent to Redis by a pipeline, then broadcast it. Failures of Redis
  and of the broadcast are logged only; a failed transaction drops the window.
- `GET /agents/current-state` reads Redis per agent and falls back to the newest
  telemetry row, which it writes back to Redis without looking again. So Redis has two
  writers, the flush and every request that finds a key missing; a new agent has no key
  until its first window is through, so that takes no failure of Redis.
- The browser loads that route once, then applies the broadcasts; an unknown agent
  or a reconnect makes it read the route again.

### What is hard

Everything runs in one event loop, so code between two awaits is atomic and
interleaving happens at awaits only. The hard parts are: shutdown cancelling the loop
at whatever await the flush has reached; exceptions the flush does not catch;
a COMMIT whose answer is lost; alert transitions that depend on the order of
readings across windows, some of which are rolled back; a pipeline that is not a
transaction; stores that stop answering, for which no client sets a timeout; a write-back
to Redis racing a flush; a set of known ids that lives in memory beside the table; requests
that are handled after their client has given them up; and, in the browser, two channels
(REST and Socket.IO) that deliver the same state in no common order. `PROJECT.json` lists
all of them under `hazards`, each at its line.

### What makes each component correct

- *Ingest*: a reading is stored at most once, in acceptance order
  (`StoredOnceInOrder`); it never vanishes without a record while a process serves
  (`NoSilentLoss`), is eventually decided (`EveryReadingDecided`), a graceful stop
  flushes what it finds in the buffer (`StopFlushesBuffer`).
- *Alerts*: the table is the exact history of the condition `battery < threshold`
  over the stored readings (`AlertHistoryExact`), with at most one active alert per
  agent (`OneActiveAlert`).
- *Outputs*: Redis and clients see only what Postgres holds (`OutputsAreDurable`); the
  flush never turns them back (`OutputsNeverGoBack`, with cleanups `FleetNeverGoesBack`) and
  leaves neither behind (`CachedIsNewest`, `ClientsFollowDatabase`,
  `ReadingsReachClients`); what it caches of a window is what it broadcasts
  (`BroadcastIsCached`). With the read route as a second writer a cached state may go back
  (section 6), and what is left to rely on is `ImplementsLiveFeed`.
- *Registry*: what was answered with 201 is accepted by every later process
  (`AcknowledgedIsKnown`), and no reading in memory lacks its row
  (`InMemoryAgentsExist`).
- *Current state*: answers are durable (`AnswersAreDurable`), an agent with history
  is never listed without state (`NoneOnlyWithoutHistory`), the fallback is not
  older than the request (`FallbackFromNewestWindow`).
- *Simulator*: a tick it counts as sent was buffered whole (`SentMeansBuffered`); the alert
  of a battery that only falls is never resolved, unless by a reading of a batch that was
  handled after the client had given it up (`OnlyLateReadingsResolve`); an agent moves from
  the place its row was created for, whichever registrations failed before it
  (`StartsWhereRegistered`).
- *Dashboard*: live updates are applied in order (`UpdatesInOrder`), none is lost between
  two ticks (`RenderingLosesNothing`), the page is never ahead of the database
  (`NeverAhead`), the live path keeps the view in sync (`StaysInSync`), and it converges
  when faults end (`Converges`).
- *Map*: one selection moves the map at most once, however often telemetry renders the
  page (`OnePanPerSelection`); the map stands at the selected agent whenever that has
  a position (`MapShowsSelection`), and gets there without another click when the
  position comes later (`SelectionIsReached`).

## 2. The modules

```
AlertService <-- TelemetryBatcher <-+- BatcherRefinement --INSTANCE--> DurableTelemetry
                                    +- AgentRegistry <-+- Simulator (with Placement)
                                                       +- CurrentState <-- LiveSystem
                                                             | INSTANCE        | INSTANCE
                                                             v                 v
                                                           LiveFeed  <--  Dashboard  <--  FleetConsole
```

`<--` is EXTENDS, read from right to left. `CurrentState` is the whole backend: batcher,
registry and requests. `LiveFeed` is where backend and browser meet: what `Dashboard`
assumes of the backend is what `CurrentState` is shown to do. Each `X` with a run has an
`MCX` module (symmetry, model values) and `MCX_*.cfg` files; each with theorems has an
`XProofs` module. Operators introduced by "Faulty variant of ..." are not used by any
specification: they are the mutations that `PROJECT.json` lists, and each makes the
property it is listed with fail.

**AlertService** - `evaluate_low_battery` as an operator on sets of alert rows. A
reading is `[agent, battery, seq]` where `seq` numbers all accepted readings; an alert
keeps the ordinals of the readings that opened and resolved it. The single alert type
of the code is left implicit.

**TelemetryBatcher** - `pc` is the await at which the flush is suspended: `sleep`
(`asyncio.sleep`), `evaluate` (queries and COMMIT of the transaction), `stalled` (one of
these whose answer never comes), `redis` (pipeline), `hung` (a pipeline whose answer never
comes), `emit`, or `dead` (the task ended with an exception). `Ingest` is one
reading of either route (a batch is a run of them without an await; since `Ingest`
may repeat before any other step, every batch is covered, with others beside it).
`Drain`/`SwapBuffer`, `Evaluate` (one turn of the loop over the window), `Commit`,
`WriteRedis`, `Emit` are the flush; `SqlFails`, `CommitReplyLost`, `ConnectFails` its
failures. `SqlHangs` and `RedisHangs` are connections that neither answer nor break: the
engine is created without a command or statement timeout (`db/session.py:11`) and the
Redis client without a socket timeout, so only `stop()` or a kill ends these awaits, while
requests go on filling the buffer. The statement that hangs may be the COMMIT, with or
without effect. `Stop` is `batcher.stop()` called by the lifespan, `Crash` a kill.
`window`, `accepted` and `reported` are auxiliary: the transaction clock, the number
of readings answered with 201, and the readings of the windows whose failure was logged
(the record itself carries only `batch_size`).

**DurableTelemetry / BatcherRefinement** - the promise of the ingest path with the
batching, the transaction and the failures abstracted away: a line of accepted
readings of which a run at the head becomes history *together with its alarms*, or
is lost as a whole. The refinement maps the undecided window and the buffer to the
line, `telemetry` to history, and "has an active alert" to the alarm.

**AgentRegistry** - `agents`, `_known_agent_ids` and registrations between COMMIT and
refresh, composed with the batcher, whose inserts now check the foreign key.
`Truncate` and `FlushCache` are the two commands of the cleanup that
`docs/simulator-usage.md:258-276` gives to developers, in any order, at any moment
the locks of a transaction allow.
`Agents` is the set of ids that may ever be assigned; RESTART IDENTITY lets an id be
assigned again, also while a registration of its former owner is between COMMIT and refresh.

**CurrentState** - requests that walk over the agents with an await per Redis read,
per fallback query and per write-back, beside registry and batcher: both writers of
Redis in one module. `ColdRedis` is a Redis restart (docker-compose gives it no volume).
`Outgoing` is the window from its commit to the end of its flush.

**LiveFeed** - what the clients of a running backend see of it: the ids in `agents`, the
`newest` stored state of each, the `cached` one in Redis, and the window on its way from
commit to broadcast (`outgoing`, `piped` after its pipeline). `FeedStore`, `FeedCache` and
`FeedTaken` are the flush, `FeedStoreOnly` and `FeedLost` its failures, `FeedWriteBack` the
second writer of Redis, which may put back any state that was ever stored, and `FeedCold` a
Redis that lost its keys. `Dashboard` builds its backend from these steps and adds what each
does to the page; `CurrentState` maps its own state to them and implements them.

**Simulator** - the fleet simulator as a client of registry and batcher, so that
`ingest_telemetry_batch` appears as the loop it is. `phase`, `specs`, `tried` and `roster`
are the state of `register_agents` and `run`; `created` is auxiliary and remembers the spec
an agent's row was created from; `request` and `stage` follow the one request it
awaits through the backend; `todo` is what the handler has left to look at, and while it is
not empty no other step is possible, because the loop of the handler never suspends.
Either side may end and start again; the client may give up at any moment (30 s timeout
or a broken connection) while the backend goes on. A request that was given up before its
handler began stays in `abandoned` and may be handled at any later time, after any number
of newer ones, or never: `client.py:36` and `:80` drop the answer, not the request, and no
item carries a sequence number. `lateTodo` is the rest of such a batch, `late` (auxiliary)
the readings that came that way. `Connections` bounds how many such requests are under way.
A battery falls by one level per tick, not below the lowest.

**Placement** - `build_agent_specs` as operators. `Launch` picks a configuration and
starts with what they return; one they reject ends the program, so there is no step. The
trigonometry of the sunflower is abstracted to the pair of numbers that fixes a point: the
square of its distance and its number of golden angles. Names are numbers.

**Dashboard** - one action per callback of the page. `queued` is React's state with
the queued updaters applied, `agents` what is rendered, `effectDue` a committed
render whose effect (`agentsRef.current = agents`) has not run. An agent's state is
its version, 0 for `latest_state: null`. Both requests for the current state go through
`get_current_state` step by step: `List`, then per agent `ReadCache`, on a miss `ReadRow`
and `WriteBack`. So an answer mixes moments, may hold states older than what the page
has shown, and the request itself may turn Redis back, as may those of other clients
(`OtherWriteBack`, if there are `Bystanders`). A request may fail, or never be answered
(`RequestHangs`: `fetch` has no timeout). `Reporters` are the agents of the running simulator;
nothing is assumed of other rows of the table.

**FleetConsole** - Dashboard with the operator. `Select` is a click: React renders the
new selection with the array on display and runs the effects of that render before
anything else, while queued updates stay queued; `~effectDue` says that the effects of
the render before it have run. `RunEffects` is what follows any other render:
`MapController` with the array of that render, then `agentsRef`. `shown` is the agent of
the last `setView`, `pans` (auxiliary) counts them since the last click. An agent has a
position once it has a state.

**LiveSystem** - the page of `Dashboard` over the backend of `CurrentState`, in place
of `LiveFeed`. `BackendMoves` is a step of the backend: one that broadcasts puts the
window's last readings into the inbox of a page that has joined; one that does to the feed
what `Dashboard` counts as a fault of the backend (`Disturbs`: a window stored and never
broadcast, a lost COMMIT answer, half a pipeline, an empty Redis) counts as one here.
`Lookup` and `Rebuild` are the page's own request inside the backend: they answer from the
keys and rows of `CurrentState`, and write back to its Redis, beside the other requests. So
the refinements can be put end to end (`OnlyHistoryIsShown`, `ImplementsDashboard`).
`MaxFaults` bounds the faults here too, and with them the windows of which the page hears
nothing.

### Modelling decisions

- `recorded_at` is `now()`, the start of the transaction; the model uses the number of
  the window, i.e. it assumes the database clock does not go back.
- The session's autoflush sends the inserts before the first query of the window, so
  foreign keys are checked there, and each query sees the earlier effects of its
  own transaction.
- `seq` stands for the payload of a reading. Positions, status and formatting are left out.
- The order in which a request visits agents is left open, in `CurrentState` and in
  `Dashboard`. `LiveFeed` knows one state per agent and window; since a window may hold
  further readings of the agent, which the fallback query may return, `RowStates` leaves open
  how old the row is. That it is of the newest window is `FallbackFromNewestWindow`.
- The Manager's `reconnect` event fires when the transport opens, before the namespace is
  joined, also after a failed first attempt. The double mount of React's StrictMode
  (development only) is left out.
- Uvicorn drains requests before the lifespan ends, so `Stop` finds no request in progress.

## 3. The runs

`a1`, `a2` are interchangeable wherever the cfg names a SYMMETRY; no liveness run uses it.
Battery levels are 14 and 15 (and 16, a full battery) around the default threshold of 15, so the boundary is
covered. `Disruptions`, `RegistryDisruptions` and `Faults` name what the environment
may do in a run.

| Run (cfg) | Question | Instance |
|---|---|---|
| `batcher_all` (`MCTelemetryBatcher_all`) | Types, alert history, storage order, durability of the outputs, the flush never turning them back, and the refinement, under every disruption | 2 agents, 2 levels, 4 readings |
| `batcher_live` (`MCTelemetryBatcher_live`) | Is every reading decided, published and flushed by stop, and none silently lost, when SQL, COMMIT answers and Redis fail and Postgres or Redis may stop answering | 2 agents, 1 level, 4 readings; SQL, lost reply, Redis, both hangs, stop |
| `state_reads` (`MCCurrentState_reads`) | What two interleaved requests may answer, beside registration, flush, stop, crash and a cold Redis; does the backend with both writers of Redis keep to `LiveFeed` | 2 agents, 2 readers, 2 readings |
| `registry_cleanup` (`MCAgentRegistry_cleanup`) | Do the alert history, the cache and the broadcasts survive TRUNCATE and FLUSHDB at any time, with failed SQL, a dead loop and stores that hang | 2 ids, 3 readings, 2 levels |
| `simulator_fleet` (`MCSimulator_fleet`) | The ingest path under its real client: registration against ingest, restarts, lost replies and late requests; is what it counts as sent buffered, which readings resolve an alert, does each agent start in its place, does the broadcast say what was cached | 2 ids, 3 readings, levels 16 to 14, 3 configurations, 1 request nobody awaits; timeouts, late handling, reruns, failed SQL, a hanging Redis, stop, crash |
| `dashboard_updates` (`MCDashboard_updates`) | Ordering, sync, rendering and convergence with every fault; is the page ever ahead of the database, although every request may turn Redis back | 1 agent, 2 versions, 2 batches under way, 1 fault of the 8 kinds, other clients |
| `console_selection` (`MCFleetConsole_selection`) | Does the map follow the selection, and only the selection; does a page converge that gets answers and batches with part of the fleet, one agent of which may never report | 2 agents, 1 of them reporting for ever, 1 version, 1 batch under way, 1 fault (dropped connection or failed resync) |
| `stop_loses_window`, `loop_dies`, `state_rebuild`, `registry_stale`, `dashboard_reconnect` | Five statements of the documentation the code does not keep (section 6) | smallest instance that shows it |

Bounds. Four readings allow a window of two or three while another is in the buffer,
an alert that opens, resolves and reopens within or across windows, and a failed
window between two good ones; two agents allow a window with both. Beside the registry and
the readers, whose own interleavings are the point, two or three suffice: two make an old
row and a newer one for a write-back to race, and three let a cleanup fall between windows.
In `simulator_fleet` three readings are three ticks of one agent: the battery passes 15 and
stays at the lowest level, and a first tick that was given up and is handled after the
second resolves its alert, so that a third raises it again. Its configurations are a
cluster of two, a scenario file with one agent, whose spec and id then differ from the
cluster's, and a file with a bad entry, which is rejected. Lost COMMIT replies of the flush
and a dead loop are left to the batcher's runs. Conversely `registry_cleanup` leaves
shutdown, kill and lost COMMIT replies out, since any of them may leave Redis and the
clients behind (`FleetCachedIsNewest` and `FleetClientsFollowDatabase` name the four
disruptions that do to each). No run but the violations has cleanups and readers at once:
after a TRUNCATE Redis may go on answering for agents that are gone, which the cleanup
accepts and the answers' properties do not.
`MaxVersion = 2` allows a stale row or snapshot beside a newer update; two batches under
way allow them to be ordered; one fault of each kind is enough to lose a key, a broadcast
or an answer, and the theorems of section 4 hold for any number. What needs two agents,
answers that mix moments, batches and answers with part of the fleet, a known and an unknown
agent in one batch, an agent that never reports, is in `console_selection`: two agents, of
which one version each is enough, because an agent is listed without a state first. It is
also what the map needs, to select away from one and back, with and
without a position. `MaxReadings`, `MaxVersion`, `MaxInbox`, `MaxFaults` and `Connections`
are guards on the actions that would exceed them, nothing else. At `MaxVersion` an agent
keeps reporting the same state, so convergence is not an artefact of the bound.
`LiveSystem` has no run: its parts have, and what it adds, their interplay, is
proved for every instance.

Deadlock is checked in every run but two: in `loop_dies` and `batcher_live` a process
whose loop has died or hangs has, at the bound on readings, nothing left to do. Elsewhere
something can always happen: a process that may stop or crash, a request, a registration,
a cleanup or a report.

Fairness. `FairSpec` asks for `WF(Flush)`: the event loop runs what is ready, so a flush
that can go on does. It says nothing about which outcome an await has, nor does it ask for
requests, stops or restarts. No await of the flush is certain to return: neither the
engine of Postgres nor the client of Redis is created with a timeout. So `SqlHangs` and
`RedisHangs` are among the outcomes, and from `stalled` and `hung` no step of the flush is
possible. The liveness properties name what then remains: a reading is decided, and
published unless its window is reported, as long as the process is not shut down and no
store stops answering *first*; and `stop()` flushes what piled up in the buffer behind a
hanging store, unless the store hangs in that flush too. Three things are left out of
`batcher_live`, by name: a refused connection ends the loop (`loop_dies` shows it) and makes
`stop()` raise, a broadcast that raises is not repeated, and a kill loses what is in memory.

`LiveSpec` of the dashboard asks for weak fairness of each browser callback, of the pipeline
and the broadcast of a stored window, of the handler of a request that is not left without an
answer, and of the reconnection (socket.io-client retries for ever); and for strong fairness
of the reports of `Reporters`, because the simulator posts all its agents every interval,
for ever. No other row of `agents` is assumed to report: a registration the simulator gave
up leaves a row (`client.py:34-37`), and so do earlier runs. No fairness is asked of faults,
registrations, other clients or clicks. A request may stay without an answer for ever, since
`fetch` has no timeout; `Converges` names this case and the failed initial load.

## 4. The proofs

All proofs hold for any sets of agents and battery levels, any threshold and bound,
and any set of disruptions unless the theorem names an assumption on it.

- **TelemetryBatcherProofs** - first lemmas about `EvaluateLowBattery`: it keeps the type and
  the uniqueness of active alerts, changes no coverage before the reading, and decides the
  coverage at the reading. Then `TypeCorrect` and an inductive invariant in layers:
  `Order` (ordinals in batch and buffer increase, lie above every stored one and
  below `accepted`), which with `Stamped` gives `StoredOnceInOrderCorrect`;
  `AlertInv` (between two steps of the transaction, `txAlerts` is the exact
  history of the stored rows *and* of the readings already evaluated; the table is that
  of the stored rows) gives `AlertHistoryExactCorrect` and `OneActiveAlertCorrect`.
  `AlertHistoryExact` alone is not inductive: COMMIT makes rows and alerts visible at
  once, so the invariant has to know what the transaction has computed so far, and that
  needs the readings to be in order. `WindowStored` (after COMMIT the window is in the
  table) gives `OutputsAreDurableCorrect`; `ViewsBehind` (cached and broadcast ordinals
  lie at or below what is to come) gives `OutputsNeverGoBackCorrect`; `WindowAccounted`
  gives `NoSilentLossCorrect`, assuming neither `connect` nor `crash` occurs;
  `CacheInv` gives `CacheFollowsDatabaseCorrect`, assuming no `redis`, `reply`, `stop` or
  `crash` (no run checks it: a key that is missing makes it false, and `CachedIsNewest`,
  which `registry_cleanup` checks, allows for one);
  `SentInv` (a stored reading was sent, or a newer one of its agent, or it is in the window
  to be sent) gives `ClientsFollowDatabaseCorrect`, assuming no `emit`, `reply`, `stop` or
  `crash`. Each assumption is needed: after a lost COMMIT answer, say, rows are in the table
  that nobody publishes.
- **BatcherRefinementProofs** - `ImplementsDurableCorrect`: the initial state maps to an
  initial state, and each action to a step (`Commit` to `Persist` of the window,
  failures and stops to `Lose`) or a stutter. The alarm of each agent after the
  window is computed by an invariant over the prefix evaluated so far.
- **AgentRegistryProofs** - `AcknowledgedIsKnownCorrect`, `InMemoryAgentsExistCorrect` and
  `ImplementsBatcherCorrect` (assuming no `cleanup`): every step of the composed
  system is one of the batcher or leaves it alone; no run checks the last one, as it says
  something only where SQL does not fail otherwise. With cleanups, the composition has three
  more steps, a window rejected by the foreign key, the TRUNCATE and the FLUSHDB. They keep
  the batcher's invariants too, except for its cache, so `FleetTypeCorrect` (part of
  `SimTypeOK`) and `FleetAlertHistoryExact` need no assumption, and
  `FleetClientsFollowDatabase` the one of the batcher's theorem. `FleetCachedIsNewest` needs
  `WindowNewest` (no stored reading is newer than the window that is past its commit) beside
  `CachedInv`, because a key may be missing when the pipeline writes it; it assumes no
  `redis`, `reply`, `stop` or `crash`. `FleetStoredOnceInOrder`, `FleetOneActiveAlert` and
  `FleetNeverGoesBackCorrect` hold with cleanups as well: they take rows and keys away but
  turn back neither an ordinal nor the transaction clock. `FleetImplementsDurable` and
  `FleetNoSilentLoss` come through the refinement and so assume no cleanup.
  `BroadcastIsCachedCorrect`, assuming neither `redis` nor `cleanup`, rests on `Written`: at
  the broadcast Redis holds the last reading of each agent of the window.
- **CurrentStateProofs** - all of it assumes no `cleanup`. The invariants of batcher and
  registry still hold beside readers although these write to Redis
  (`ReadersKeepOutputsDurable`); what a reader holds is in the
  table and not older than its request, from which the three properties of answers and
  `StateTypeCorrect` follow. Requests and cold restarts change nothing of the backend but
  its cache (`CacheOnly`), so what is proved without the cache holds beside them too:
  `ReadersKeepHistory` (alerts and storage order) and `ReadersKeepThePromise` (the refinement
  to `DurableTelemetry`). `ImplementsLiveFeedCorrect` is the other side of the backend: each
  of its steps, the write-backs among them, is one of `LiveFeed` or leaves what clients see
  alone. `FeedInv` says why: the window is in order and newer than everything stored before
  its commit, its agents have rows, no ordinal exceeds the bound, and what a reader is about
  to write back is in the table. No assumption is made on Redis.
- **SimulatorProofs** - `SimImplementsFleet`: the simulator adds nothing to the backend's
  behaviours, so all that is proved of `AgentRegistry` holds under it.
  `SentMeansBufferedCorrect`, assuming no `cleanup`: the invariant `ClientInv` says that
  every agent of the roster was answered with 201 and is therefore known whenever a
  process serves, and that the handler's count plus what it has left is the whole roster.
  `OnlyLateReadingsResolveCorrect`, under the same assumption: the invariant `ChargeInv` looks
  at the readings whose alerts are still to be evaluated. Once one of an agent is low, or the
  agent has an alert (in the table or in the transaction), all that is to come of it is low, in
  memory and in the roster, but for the readings of batches that came late; and an agent joins
  the roster without a past, neither stored nor under way. It needs the order
  of the readings and `OneActiveAlert`, which come from the batcher through two refinements.
  `OneAlertUntilALateReading` draws the conclusion for a fleet without late batches.
  `StartsWhereRegisteredCorrect` follows from `PlaceInv`, which adds that the row of an id
  the pending registration was given was created from the spec tried last; without a
  cleanup no id is assigned twice, so no later step changes the row of an agent of the roster.
  `SimKeepsThePromise` carries the refinement to `DurableTelemetry` over to the driven
  system. `SimTypeCorrect` needs no assumption. (`SimNext` has no cleanup itself; the
  assumption is there because the backend's theorems, which the proofs go through, make it.)
- **DashboardProofs** - `DashTypeCorrect`; `UpdatesInOrderCorrect`, which is inductive
  together with the types and speaks of the live channel alone: what REST answers may be
  older than anything on it. `RenderingLosesNothingCorrect`, since no step between two
  renderings changes the view that state, queued batch and pending updates add up to;
  and `StaysInSyncCorrect`, which rests on the order: a merge that overwrote a newer
  version by an older one is what would put the page out of sync. `NeverAheadCorrect` needs
  `AheadInv`: the window to be published, batches under way, the agents a handler has listed
  and the states in Redis are backed by the database too. All hold from a cold page and from
  a loaded one. `UndisturbedPageIsExact` is the safety core of `Converges` without a bound on
  anything: a loaded page, no faults, no new agents, and whenever nothing is under way the
  table shows exactly the fleet in its newest states, whatever other clients write back to
  Redis. It needs `UndisturbedInv`, that the page then never asks for a resync.
- **FleetConsoleProofs** - `ConsoleImplementsDashboard`: with the operator hidden, the
  composition behaves as the dashboard does. `ConsoleTypeCorrect`,
  `OnePanPerSelectionCorrect` and `MapShowsSelectionCorrect`, each for a page that starts
  cold or loaded. The two properties follow from `MapInv`: the ref names the agent the map was
  last moved to; once the map has moved for a selection, the ref holds that selection, which
  keeps the map still; and once the effects have run it has moved for every selection it
  can show.

- **LiveSystemProofs** - end to end, over the whole backend, and with no assumption but that
  nobody deletes rows. `OnlyHistoryIsShownCorrect`: every state that the page
  shows, holds back, compares with or has read, from a key or from a row, is a reading in
  Postgres, whatever fails on the way. The invariant is `SystemInv`: `FeedInv` of the
  backend and `ShownInv` (what the page holds and the batches under way are history, and so is
  the row it is about to write back, which keeps Redis durable); rows stay, so history
  stays history. `ImplementsDashboardCorrect`: every step of the system is one of `Dashboard`
  or a stutter, so the page over the real flush, the real fallback and the real write-backs,
  with failing windows and pipelines, shutdowns and crashes, has the properties above (an
  instance of Dashboard's theorems, which name any constants and variables; the prover cannot
  cite it as such).

Only model-checked: all liveness (`EveryReadingDecided`, `ReadingsReachClients`,
`StopFlushesBuffer`, `Converges`, `SelectionIsReached`), which is beyond the prover.

## 5. Not modelled

- Drift, speed and status of the simulated agents; `send_telemetry` of the client, which
  nothing calls.
- The handlers of `socket.py` for connect and disconnect, which only log, and
  `emit_agent_telemetry_updated`, which nothing calls.
- A cleanup under a running simulator (see section 6), and one beside requests for the
  current state, after which Redis may answer for agents that are gone.
- Of the page: clustering of markers, virtual scrolling, the filter chips, the detail pane
  and the connection label, which are derived from the state at every render.
- The health route and the settings of the backend: no state changes.
- Request validation by pydantic: the model's inputs are those it lets through.
- Read-only routes that do not touch the cache.
- Memory limits: `_buffer` has no bound in the code either.

## 6. Findings

1. `stop()` loses the window in flight (`stop_loses_window`). The docstring promises to
   "flush any remaining buffered items"; a window already swapped out is
   abandoned by the cancellation, without an error record.
2. An exception that is no `SQLAlchemyError` ends the flush loop (`loop_dies`); readings
   are accepted from then on and never stored.
3. "A cold Redis is always safe to rebuild" (README.md:75) - the write-back may replace a
   newer cached state by an older one (`state_rebuild`). The models of the page are built on
   this: nothing they promise relies on a cached state that only advances.
4. A stale id discards the whole window it is part of (`registry_stale`), which
   `docs/decision-log.md:485` says must not happen.
5. The resync after a reconnect precedes the join, so a broadcast in between is missed
   until the agent reports again (`dashboard_reconnect`, `docs/decision-log.md:354`).

Seen while modelling, without a run of their own: the fallback query has no tie-break
within one window, so "most recent telemetry row" (`services/agent.py:87`) may be an
earlier reading of it; a refresh that fails after the COMMIT of a registration leaves a
row whose id is refused until restart; a batch before the initial snapshot is dropped
(`App.tsx:148`), so a page may start one report behind; the answer of the initial request
replaces whatever a resync that overtook it has put there (`App.tsx:73`), until the agents
report again; the effect that aligns
`agentsRef` can undo the eager alignment of a resync until the next render; after a cleanup
and a restart of the backend the simulator goes on counting its ticks as sent although
every item is skipped, because it ignores the `accepted` count that
`api/routes/telemetry.py:59` offers it (`simulator.py:113`). On the map, selecting A, then B, which has no position yet,
then A again does not move it, because the ref still names A: `docs/decision-log.md:585` says
that "selecting a different agent triggers one new pan", but nothing is
wrong on the screen unless the operator panned away in between.

## 7. Plan

Done: the ingest path with its alert rule, its promise and its refinement, stores that stop
answering included; the registry with the whole cleanup; the read path composed with both, so
that Redis has its two writers everywhere; the simulator with its placement and its late
requests; the dashboard with answers that mix moments and may be older than what it shows;
the selection on the map; the interface between backend and browser and the system put
together over the whole backend; the proofs of section 4, which cover every property of the
passing runs but the liveness ones. Left, in this order:

1. The safety part of convergence with registrations: a resync that ends undisturbed leaves
   the page knowing every agent that was listed when it began.
2. How old an answer may be: a bound in windows on the state a write-back puts back, and
   with it how far behind the database a page may start.
3. `FleetConsole` over `LiveSystem`, so that the map's theorems hold of the real backend, and
   a run for `LiveSystem` beside its proofs.
4. The comment of `simulator.py:113` under a cleanup, by adding `CleanUp` to the
   simulator's environment.
