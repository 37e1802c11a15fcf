# synk9 in TLA+

synk9 monitors industrial processes. An operator draws a process as a flow of
nodes bound to the sensors of a PLC; an *edge agent* beside the PLC reads the
sensors over Modbus; a *server* receives the samples, shows them on the flows,
raises alerts and asks a predictor for its opinion; a *desktop client* starts
and pauses processes, edits them, and sends orders that write to the PLC.

This directory holds TLA+ models of the parts of synk9 where order matters,
the TLC configurations that check them on small instances, and theorems about
them that TLAPS has checked for every instance.

    tlc -config Careful.cfg MCCarefulOperator     # one run; PROJECT.json lists all
    tlapm CarefulOperatorProofs.tla               # the proofs of one module

## 1. The system

| Component | Code | State | Operations |
|---|---|---|---|
| stream manager | `server/src/process-engine/stream.service.ts` | `streams`, a map from process to kill switch and data subject; `agentId`; per stream, buffers and counters in closures | `createStream`, `deleteStream`, `handleData` |
| engine service | `server/src/process-engine/engine.service.ts` | listeners it adds to the bus | `enqueueJob` |
| gateway | `server/src/cordinator/cordinator.gateway.ts` | none of its own; the connection store | `handleConnection`, `handleDisconnect`, `handleCommand`, `handleOrder`, `handleMessage`, `handleHealthCheckMessage`, `notifyAgentViaFingerprint` and its callers, `notifyClients`, `afterInit` |
| connection store | `server/src/connection-store` | map of sockets in order of insertion; fingerprints in Redis | `set`, `get`, `getAll`, `delete` |
| process service | `server/src/process/process.service.ts` | table `process`: status, flow, agent, `deletedAt` | `create`, `updateState`, `updateFlow`, `update`, `remove` |
| agent service | `server/src/agent/agent.service.ts` | table `agent`: status, lock | `create`, `changeAgentState`, `update` |
| sensor and alert-topic services | `server/src/sensor`, `server/src/alert-topic` | tables `sensor`, `alert_topic`, `rule` | `create`, `update`, `remove` |
| sync service | `server/src/cordinator/sync.service.ts` | none | `syncAgentWithServerData` |
| event bus | `server/src/event-bus` | an RxJS `Subject` | `emit`, `on` (synchronous) |
| address parsers | `server/src/parsers` | none | LOGO and PLCSIM addresses to Modbus registers |
| edge agent | `agent/src` | registered sensors, pause flag, two mutexes, a channel of 32 events | event loop, monitoring loop, Modbus reads and writes |
| logger | `server/src/logger` | InfluxDB's bucket and the write buffers of its client | `recordLogs`, `getLogs` |
| client: lists and pages of agents, sensors, alert topics, processes | `client2/.../components/pages`, `hooks` | react-query's cache, forms, drawers | open, type, save, create, remove, refresh |
| client: page and flow of a process | `client2/.../pages/details.tsx`, `ui/flow.tsx` | cached flow and status, canvas, selected node, `isRunning` | draw, edit, save, start, pause, and `step-data` from the server |
| client: dashboard chart | `client2/.../ui/graph.tsx` | points, mode, the log asked for | live, pause, time range, back, export |
| client: order panel | `client2/.../ui/hmi-builder.tsx` | panels in localStorage | orders |
| predictor | `server/src/process-engine/stream.service.ts` (caller) | none here | one remote call per batch |
| accounts, process steps, queue worker, earlier client, login, settings, socket log, test programs | see section 6 | rows, forms | plain CRUD and display |

**How they interact.** Clients and agents hold socket.io connections to the
gateway; clients also use HTTP for the CRUD. Inside the server the services
call each other and emit events on a synchronous bus, so everything up to the
next `await` is one step. PostgreSQL is reached through a pool: two queries that
nobody awaits may execute in either order. Redis answers in the order it was
asked. The agent receives socket events in a callback that feeds a bounded
channel, which a single loop drains; a second task polls the PLC and shares the
agent's state with the first under mutexes.

**What is hard.** The server is single-threaded and yet concurrent: a handler
reads a row, awaits, and acts on what it read, while other handlers do the same
to the same process. Updates of statuses are sent without being awaited. Streams
live in memory and their statuses in the database, and nothing but careful
ordering keeps the two together: when an agent is lost, when a process is edited
between a check and a write, when a START overtakes a PAUSE, when the server
restarts. What the agent reads is a copy of two tables, kept up to date by events
that a broken connection loses and a loop over connections delays, and repaired
by a synchronisation whose comparison does not do what it looks like. A sample
waits for Redis once per client, for the database, and every ninth time for a
predictor that need not answer. In the client every page of a kind shares one
cached answer, forms and canvases are filled by effects that overwrite what was
typed, and answers meet pages other than those that asked.
`PROJECT.json` lists these hazards one by one with their lines.

**What makes each component correct.**

- engine: one stream per monitored process, on the agent and flow the database
  has; none left behind by a PAUSE; the status agrees with it in the end; no
  edit reaches a running process.
- gateway and process service: the loss of an agent is shown; the order given
  last is the one carried out.
- registry (sensors, topics, sync, notifications, agent list): a connected agent
  reads every live item; with careful use exactly the live items, as saved last.
- agent: the channel keeps its bound, nobody waits for ever while the PLC
  answers; clearing the list after a failure drops nothing a later connection
  registered; a paused agent stops reading.
- orders: an order's values reach the PLC before its trigger, orders do not mix,
  an order given to a connected agent arrives.
- stream data: no sample is counted twice by the predictor; only samples that
  waited for it are shown late; a paused process starts no new
  telling; clients that come and go lose nobody else's sample.
- lists and pages: a page shows its own item, saves nothing of another, and a
  list that has loaded is the server's.
- flow: a flow stays with its process, the page shows as running what runs, and a
  node tells the value of the stream that told it last.
- chart: live it draws what came and keeps each sensor's last value, historical
  it is a picture of the log.
- parsers: different addresses that can be written to have different registers,
  and those fit the agent's 16 bits.

## 2. The modules

| Module | What it is |
|---|---|
| `ProcessEngine` | commands, streams, edits, agents that come and go, restarts |
| `CarefulOperator` | the same under assumptions about who asks for what when; the properties that need them; the inductive invariant; the refinement mapping |
| `MonitorSwitch` | the abstract specification: a process as a switch |
| `SensorRegistry` | sensors and topics on their way from the database to the agent's list |
| `EdgeAgent` | the agent as a concurrent program: callback, main loop, monitoring task, mutex |
| `AddressMap` | the parsers as a table of areas: addresses, registers, cells |
| `OrderPath` | operators' orders on their way to the PLC |
| `StreamData` | a sample's way through the server: gateway, bus, batches, predictor, nodes, clients |
| `QueryCache` | one query of react-query as the client uses it |
| `EditPages` | the client's lists and pages of items, with the server's rows |
| `FlowNodes` | the nodes of a flow: palette, panel, messages, what they show |
| `LiveFlow` | the page of a process with its flow, and its server in short |
| `LiveChart` | the dashboard's chart with the log it reads |
| `Desktop` | the two pages that draw what the socket brings, composed |
| `MCCarefulOperator`, `MCSensorRegistry`, `MCEdgeAgent`, `MCOrderPath`, `MCStreamData`, `MCEditPages`, `MCDesktop` | model values, symmetry and panels for TLC |
| `ProcessEngineProofs`, `CarefulOperatorProofs`, `SensorRegistryProofs`, `EdgeAgentProofs`, `OrderPathProofs`, `StreamDataProofs`, `EditPagesProofs`, `DesktopProofs` | the theorems |

`CarefulOperator` extends `ProcessEngine` and instantiates `MonitorSwitch`;
`OrderPath` extends `AddressMap`; `EditPages` and `LiveFlow` extend `QueryCache`,
`LiveFlow` also `FlowNodes`; `Desktop` composes `LiveFlow` and `LiveChart`.
`SensorRegistry`, `EdgeAgent` and `StreamData` stand alone.
They meet where one takes as an assumption what another shows: `EdgeAgent`
justifies that the list of sensors loses nothing new when it is cleared
(`SensorRegistry`), and that the main loop goes on and takes one event at a time
(`SensorRegistry`, `OrderPath`); `CarefulOperator` that there is one stream per
process, on its agent (`StreamData`, which follows one process); `StreamData`
follows a sample of one process through every await; `LiveFlow` has the page and
of that way what a page can tell: a sample that awaits its prediction and goes on
with the nodes of an earlier START, and the loop that sends nodes as they are at
the moment of sending. An order, a sample without a prediction and the query of
`createStream` are one step there. The two agree by construction of their
actions, not by a refinement that is checked.

### ProcessEngine

| Variable | Code |
|---|---|
| `row` | table `process`: `deletedAt` (`live`), `status`, `assigned_agent`, `flow` |
| `agentStatus` | column `status` of table `agent` |
| `req` | the handlers under way: each slot is one handler, `pc` is the continuation that runs after its current `await`, the other fields are the locals it will use |
| `writes` | updates issued and not awaited (`updateState`, `changeAgentState`) |
| `streams`, `subs` | the manager's map, and the subscriptions to the data subjects with what their closures captured |
| `streamAgent` | the manager's single field `agentId` |
| `store` | agent sockets in the connection store |
| `restarts` | counts restarts, bounded by `MaxRestarts` |

One action is one run of the event loop from an await to the next; the arrival
of a request is merged with its first query, which reads the database at one
moment. `Command`, `Refused`, `Pause`, `Start` are `handleCommand` (with
`deleteStream` and the synchronous part of `enqueueJob` inside); `Load` and
`CreateStream` are the query of `createStream` and what follows it; `CheckEdit`
and `UpdateFlow`, `Update`, `Remove` are the two halves of the edits; `Connect`,
`Connected`, `Disconnect`, `Disconnected`, `Kill` are `handleConnection` and
`handleDisconnect`; `Execute` is the database executing an update nobody waits
for, in any order; `Restart` is a crash and `afterInit`.

Assumptions and abstractions:

- A subscription is a member of `Subs` and is free again when completed; a START
  is only accepted while there is room for it (`Room`), which bounds the model.
- A process that exists in no row yet cannot be referred to, so `create` is
  covered by `Init`. Agent rows are not deleted. A saved flow is a model value.
- `createStream` marks its agent busy before it looks at the row: if its query
  found nothing it sends an update with an undefined id, and so does a PAUSE after
  that (`ChangeAgentState` with `None`). The model sends it too; no row has that id.
- A request slot is reused only when its own updates are done, which keeps two
  equal updates of two requests apart.
- Samples, and the bus listener that `enqueueJob` adds per START, are in
  `StreamData`; here it is told whether a subscription *would* receive samples
  (`Alive`).
- After a restart processes keep the status `running` although nothing samples
  them. That is what the code does; `EntryOwnsSub` holds across
  it, `StatusTellsStream` is not claimed of it.

### CarefulOperator and MonitorSwitch

The free engine breaks most of what one would wish (a START and a PAUSE at the
same time leave a stream behind a stopped process). `CarefulSpec` states what
the engine does guarantee and to whom: requests about one process are sent one
after another has settled, START only for a process shown stopped and PAUSE only
for one shown running — which is when the client offers them (`flow.tsx`) — and
no agent is lost. Requests about different processes interleave freely, and they
share the slots, the pool and `agentId`. `LossySpec` adds the loss of agents.

`MonitorSwitch` is what an operator is promised: an order, the switch going on
after a while and off at once, the status following, and no edit of the
definition except while all is off. The mapping: `wanted` is the status last
asked for (pending update first, then the row), `shown` is the row's status,
`def` the row without its status, `using` what the stream's closure holds.

### SensorRegistry

| Variable | Code |
|---|---|
| `table` | rows of `sensor` and `alert_topic` with what the agent is told of them |
| `req` | handlers under way, as above |
| `store` | stored sockets in order of insertion, other agents' included |
| `redis` | loops over the connections that await a Redis reply, oldest first |
| `conn` | how far `handleConnection` has come with each socket of the agent |
| `link`, `wire`, `up` | the agent's connection and what is on its way in both directions |
| `chan`, `reg` | the agent's channel and its registered entries |

`Create`/`Created`, `UpdateSensor` or `CheckTopic`/`UpdateTopic` with `Updated`,
`FindItem`/`Remove`/`Removed` are the HTTP handlers up to and after each await.
`Notify` starts one loop over the connections; `Reply` is one round of it.
`Connect`, `Stored`, `Greet`, `Disconnected` are the gateway's handlers,
`Report` and `Sync` are `handleHealthCheckMessage` and `syncAgentWithServerData`,
`Receive` and `Handle` the agent's callback and loop, `MonitorFails` the clearing
of the list after a sample could not be sent.

Assumptions and abstractions:

- `reg` is a set. The agent's list may hold an entry twice, for instance after a
  reconnection without clean-up; it then only reads the sensor more often.
- A topic has one rule at most, because the rule's primary key is the topic's id
  (`rule.entity.ts:21`). `repository.update` also reaches soft-deleted rows.
- `Confs` are configurations whose register fits the agent's 16 bits; others are
  dropped when the event is parsed, without a trace (`AddressMap`).
- An agent waits at least a second before it reconnects (the back-off of its
  socket library); loops over the connections and reports already received are
  through by then, since they take milliseconds (guard of `Connect`).
- The list is cleared only while the connection is down. `EdgeAgent` has the two
  moments apart, and `ListSurvives` shows that this makes no difference to what
  the present connection registered.
- `IsSynced` compares lists of objects with different fields, so it holds only of
  two empty lists. `CleanUp` and `PauseAgent` are emitted without a fingerprint
  and reach nobody; their JSON would not parse at the agent either.
- `store`'s check in `Report` and the query after it are one step.
- Agents are never deleted. `MaxQueue` bounds the events on their way when a
  request arrives. The channel has room for one event instead of 32: a shorter
  channel blocks the callback earlier, which is the case of interest.

### EdgeAgent

| Variable | Code |
|---|---|
| `up`, `gen` | the socket's connection, and how many there have been |
| `cb` | the event held by the socket's callback, which blocks until the channel takes it |
| `chan` | the channel of `MESSAGE_CHANNEL_SIZE` events |
| `reg`, `paused` | `registered_sensors` (each with the connection it came by) and `paused_agent` |
| `owner`, `queue` | the agent's mutex and who waits for it |
| `ev`, `mon` | where the main loop and the monitoring task are, with the event or the rest of the round |
| `hung` | the PLC has stopped to answer; reads and writes have no timeout |

Actions are the stretches between two awaits that matter to the other task:
`TakeEvent` asks for the mutex; `Refuse`, `ChangeList`, `Report`, `TogglePause`,
`BeginWrite` and `EndWrite` are the arms of `handle_master_event`; `Tick`,
`Snapshot`, `NextSensor`, `BeginRead`, `EndRead`, `AskToClear` and `Clear` are
`process_all_sensors` and its caller.

Assumptions and abstractions:

- tokio's mutex serves in the order of asking. `HeirsBarging`, its mutant, shows
  that three properties rest on that.
- The mutexes of the state and of the Modbus context are taken only with the
  agent's held, so they make nobody wait and are left out.
- The callback blocks the socket: while it waits for the channel no disconnection
  is noticed and no reconnection made (guard of `Reconnect`). A reconnection takes
  a second at least, in which a task between release and next request of the
  mutex has made the request (guard on `mon.pc`).
- `Stop` is a `Write`; `Wait` does nothing and is never sent. `PauseAgent` is
  handled as the agent would; the server's never gets there (see `SensorRegistry`).
- Only an error of the socket's engine makes a failed emission clear the list; an
  emission may also fail without it, or succeed into a connection that is lost.

### AddressMap and OrderPath

`AddressMap` has one record per area of a PLC, from which `Accepts` and
`Register` compute what the parsers do; `Fits` and `Cell` are what the agent makes
of the result. The PLCSIM parser's table aliases areas: the register of a word of
a data block does not depend on the block, output words share the registers of
output bytes, markers reach into data blocks. The agent treats every type but
`REG` as a coil, so an order for a read-only input sets the coil of that number.

| Variable | Code |
|---|---|
| `plcId` | the agent's PLC, fixed |
| `order` | what `handleOrder` knows of each order |
| `redis` | the loops of `notifyAgentViaFingerprint` that await Redis, one per value and one for the trigger |
| `store`, `conn`, `link`, `wire`, `chan` | as in the modules above |
| `cells` | the PLC's coils and registers |
| `turn`, `left`, `handled` | history: the order in which processes were found, whether a socket was forgotten while a loop was under way, what the PLC was asked to write |

`Give` is the click on a button, `Found` what follows the process's lookup,
`Reply` one round of one loop, `Receive` and `Execute` the agent's callback and
main loop. The connection, its loss, and crashes of either side are as in
`SensorRegistry`; `Disconnected` is optional, since the loss may never be noticed.

Assumptions and abstractions:

- Each order is given once. Other agents have sockets from the start that may be
  lost; they do not connect anew.
- The label `BPSF` does what `OFF` does; labels without a meaning do nothing.
- The PLC may refuse a write: it counts as handled and changes no cell.
- `WritesStayPut` speaks of the LOGO and of addresses that its parser calls
  writable. For PLCSIM it is false, as the table says; whether that is an error
  depends on the PLC's program, which is not in the repository.

### StreamData

One monitored process, with its STARTs and PAUSEs.

| Variable | Code |
|---|---|
| `sent` | the agent's samples, `monitoring_streamline` |
| `stored`, `clients`, `online` | the connection store: the agent's socket, the clients' in order; those whose socket is open |
| `redis`, `db` | `handleMessage` and `notifyClients` where they await `connectionStore.get`, `handleMessage` where it awaits `findByFingerprint` |
| `due` | the sample that the bus is handing to its listeners |
| `phase`, `entry`, `buffer` | the subscriptions of `createStream`, the manager's map, the entry's buffer |
| `preds` | `handleData` where it awaits the predictor |
| `nodes`, `view` | the nodes in each START's closure, and what each client was last sent of them |
| `batched`, `closers`, `last`, `told` | history: samples that were sent to the predictor, those that completed a batch, the one handled last; what the nodes took last, in which START's closure, and which clients had a socket then |

`Receive`, `Reply` and `Found` are `handleMessage` up to and after each await;
`Reply` is also one round of `notifyClients`. `Deliver` is a listener of the bus
up to the prediction or to the end, `Predicted` the rest of `handleData`;
`Start`, `Started`, `Pause` are `createStream` and `deleteStream`; `Join`,
`Leave`, `StoreAgent`, `ForgetAgent` the connections.

Assumptions and abstractions:

- START and PAUSE are given as in `CarefulOperator`: one stream at a time, and
  the agent stays while its process is monitored.
- `step:running` is emitted once per node and sensor; the loops over the clients
  advance side by side and send the same nodes, so one stands for all of them.
- The payload of `step:running` refers to the nodes and is serialised when it is
  sent: a client gets the nodes as they are then.
- A value that does not parse is not a sample of this module. Alerts and the
  predictor's opinion are sent to clients and change nothing; they are left out.
- `handleDisconnect` removes agents only: a client's socket stays in `clients`.
- The predictor is called without a timeout: `Predicted` is not fair.
- A late prediction of an earlier START tells the clients that START's nodes, also
  while the next one is monitored: `ViewsCatchUp` says that a client sees whatever
  nodes took a sample last, and that it is the present monitoring's unless that
  sample had awaited a prediction. Loops under way at a PAUSE go on to the clients
  that are left: `PausedGoesQuiet` says that no new one begins.
- Since one stream is open at a time, `CountedOnce` is about the listeners that
  stay on the bus; a sample that two open subscriptions of one process handle (the
  orphan of section 4) is outside this module.

### QueryCache and EditPages

`QueryCache` has the operators of one query: what is cached, the request under
way with the server's answer, the item of the page that rendered last. They say
what react-query does at a mount, an invalidation, an answer and a failure
(external), as the client's hooks (`hooks/get.ts`) use it.

| Variable | Code |
|---|---|
| `kind` | which of the four kinds of item the behaviour is about |
| `rows` | the server's rows of that kind, with the services that write them |
| `page` | the router: a list, the page of an item, or another page |
| `one`, `all` | the queries of the page of an item (`['oneAgent']` and its like) and of the list (`['agents']` and its like) |
| `form`, `drawer` | the state of the page's form, the list's drawer |
| `sent` | mutations until their answer has been handled |

`OpenList`, `OpenItem`, `Leave`, `Focus`, `Refresh`, `Type`, `TypeRule`, `Save`,
`Remove`, `Drawer` and `Create` are what a user does; `Serve`, `AnswerOne` and
`AnswerAll` the server; `Updated`, `Removed`, `Created`, `Refused` the callbacks of
the mutations; `OneArrived`, `AllArrived`, `OneFails`, `AllFails`, `Forget` the
cache. The effect that fills the form runs with each of them (`RenderIf`).

Assumptions and abstractions:

- The kinds share no state, so one is followed at a time. A process has a list
  here and its page in `LiveFlow`.
- The fields of a form are one text; of an alert topic's rules only the condition
  is kept. A process is counted by its status, for which the text stands.
- An attentive user (`Attentive`) waits for the page to have loaded and for the
  answer to what was sent, and leaves a page that could not be loaded. Without
  that the code does mix items up: a form is saved to the item of the page while
  it still holds what the page before had cached.
- Mutations are answered in the end; a lost answer is not modelled. The server
  refuses a rule without a condition and a change of a topic that is gone; other
  reasons to refuse (a name that exists, a PLC model that is unknown, an agent
  that is gone) end as `Refused` does.
- A form is typed into when it was filled; the empty form of a page that has not
  loaded is not.

### FlowNodes and LiveFlow

`FlowNodes` is the data of a node: `Fresh` is the palette, `PanelChanges` the
panel, `Updated` the handler of `step-data`, `Shows` the components that draw
them. A level is in percent; labels, colours, positions and edges are left out.

| Variable | Code |
|---|---|
| `rows` | processes with their saved flow and status |
| `streams`, `subs`, `nodes` | the manager's map, the subscriptions that are open, the nodes in each START's closure |
| `preds`, `loops` | `handleData` where it awaits the predictor; `notifyClients` where it awaits Redis, for nodes or for the notice of a lost agent |
| `wire`, `orders`, `sent` | messages and notices, START and PAUSE, and the saving request on their way |
| `page` | the process whose page is open |
| `process`, `steps` | the queries `['oneProcess']` and `['steps']`: the flow, the status |
| `canvas`, `panel`, `isRunning` | React's state: nodes, the selected node's copy, what the page takes the process for |
| `heard`, `teller`, `doubt` | history: the nodes that the last message set and nobody loaded or edited since, the monitoring it was of; whether an agent was lost since the status was read |
| `acts` | counts drops, changes, orders, saves and losses, bounded by `MaxActs` |

`handleData`, `Predicted` and `notifyClients` are `stream.service.ts:134-272` and
`cordinator.gateway.ts:89-96` from await to await: a sample that completes a batch
waits in `preds`, whatever becomes of its stream meanwhile, and then writes the
nodes of its own START and tells them under the same process id. `AgentLost` is
`handleDisconnect`: it stops the process and leaves the subscription, which the
next START adds another to. `handleDiscon` is the handler of that name in
`flow.tsx:1534`, which sets `isRunning` to false on any page.

Assumptions and abstractions:

- An attentive operator waits for what was asked, saved or ordered, saves a flow
  before the START, leaves a page that could not be loaded, and does not open a
  process without a flow while another's is cached. In the last case the canvas
  keeps the other flow, and Save stores it for the wrong process.
- One client, and an agent of its own for each process. Any sample may be the one
  that completes a batch. The loops of one sample send the same nodes, so one
  stands for all.
- A message of an earlier monitoring does show a value that the present one does
  not have: `NodesTellTheirStream` is claimed once a message of the present
  monitoring was the last to come. A notice that some agent was lost does show a
  running process as stopped: `RunningIsShown` is claimed of a status that was
  asked for after it.
- Any sensor of a node's list sets the value that the node shows, whichever
  sensor the node's own field names (`Sampled`).

### LiveChart and Desktop

| Variable | Code |
|---|---|
| `clock`, `taken` | time in units of which a second has `Second` (1000 in the code), samples so far: both bounded |
| `buffered`, `log` | points in the write buffers of the Influx client, rows in the bucket |
| `air` | samples on their way to the client |
| `points`, `sensorKeys` | the chart's data and its keys |
| `isPaused`, `isHistoricalMode` | its mode |
| `asked` | the log's query, with the effects that wait for its answer |
| `got`, `lastGot`, `history` | history: what came since the chart went live, and what was read of the log |

Assumptions and abstractions:

- The time that the agent writes has a two-digit year first (`monitoring.rs:78`),
  which is no date: the logger takes its own clock, the chart the time of arrival.
- Each call of `recordLogs` gets a write API, and so a buffer, of its own, that is
  flushed up to a minute later in any order (`Flushed`); points in it are lost in
  a crash, which is not modelled. The clocks of client and server are one.
- The range counts back from now and its end is dropped; a second Apply in
  historical mode sets what is set already, so no effect runs and nothing changes.
- A patient operator waits for the log before going back to real time. The type
  of chart and the selected sensors are choices in the properties, not state;
  zoom, tooltips, presets and date pickers are left out.

`Desktop` puts a desktop on one of the two pages: they share the socket and no
state, and a page's state is lost when it is left. `AlikeFlows` bounds its initial
states for TLC, and `OneHazard` (of `MCDesktop`) its states: a second process with a
flow, a lost agent that the page has not asked about, and a sample that awaits its
prediction are there one at a time.

## 3. The runs

| Run | Instance | States | Properties | What it shows |
|---|---|---|---|---|
| `careful` | 2 processes, 1 agent, 2 requests, 2 subscriptions, 2 flows | 45 144 | `NoOrphan`, `StreamFollowsRow`, `StatusTellsStream`, `CarefulInv`, `NoEditWhileRunning`, `OrdersAreCarriedOut` | A careful operator gets a switch: nothing is left behind, streams follow rows, and the engine refines `MonitorSwitch` with its fairness, so orders are carried out. |
| `lossy` | the same with 1 flow, agents lost at any time | 190 987 | `RunningIsMonitored`, `LossIsShown` | A process shown running has a stream once settled; every process of a lost agent is shown stopped at some moment. |
| `lossy_kill` | 1 process | violated | `KilledStreamIsSilent` | The finding of section 4. |
| `interleaved` | 2 processes, any requests, losses, 1 restart | 785 747 | `TypeOK`, `EntryOwnsSub` | What holds without any care. |
| `registry_sensors` | 1 sensor, 2 requests, 2 sockets, crashes of both sides | 2 488 762 | `SensorsCovered` | A greeted agent with nothing on its way reads every live sensor. |
| `registry_topics` | 1 topic beside a permanent sensor, 2 requests, another agent's socket | 3 364 195 | `TopicsCovered` | The same for topics, with events that overtake each other. |
| `registry_careful` | 2 sensors, 1 topic, 2 configurations, 1 request, 2 sockets, another agent | 937 616 | `AgentAgrees`, `SavedIsCovered` | Edited one at a time, the list is exactly what is live, and a saved sensor is registered in the end. |
| `edge_agent` | 1 sensor, a channel of 1 event, 2 connections, a PLC that may hang | 406 440 | `AgentInv`, `NewListSurvives`, `LoopsGoOn`, `PausedFallsSilent` | The tasks keep out of each other's way: nothing new is dropped, every event is handled and every round ends while the PLC answers. |
| `orders` | 2 orders, 1 value and 1 button each, 2 sockets, values 5 and 70000, a channel of 1, both PLCs | 183 348 | `TriggerFollowsData`, `PathInv`, `OrdersInTurn`, `WritesStayPut`, `OrdersArrive` | No trigger before its values, no mixing of orders, no write at another address, and orders arrive. |
| `stream_data` | 1 sensor, 2 clients, 2 STARTs, batches of 2, 3 samples | 536 632 | `CountedOnce`, `OnlyBatchesAreLate`, `ViewsCatchUp`, `PausedGoesQuiet`, `SampleIsTaken` | Batches hold each sample once, only their last ones are late, a pause begins no telling, every client there is shown the nodes that took the last sample, clients that leave lose nothing of the others'. |
| `pages` | 2 items of each kind in turn, 2 texts, 1 condition | 247 781 | `ShowsItsPage`, `SavesItsOwn`, `ListIsFresh`, `ItemIsShown`, `ListIsShown` | The shared cache mixes nothing up for an attentive user, lists follow changes, a page shows its item and a list its rows in the end. |
| `desktop` | 2 processes, 1 sensor, values 0 and 1, 3 types of node saved and 1 dropped, 2 acts, 1 message, 1 prediction awaited; 2 keys, 2 readings, 2 samples, 1 point, half seconds up to 2 s | 1 415 486 | `FlowIsItsOwn`, `RunningIsShown`, `NodesTellTheirStream`, `LiveShowsWhatCame`, `LastValueIsDrawn`, `HistoryIsTheLog` | What the two live pages show is what runs, what the stream that told last has, what came, and what was logged. |

Deadlock is checked in every run but two: in `edge_agent` a PLC that hangs really
stops the agent, since whoever waits for it holds the mutex, and in `desktop` the
acts, the time and the samples are bounded, after which the operator may be done.
Types are part of the inductive invariants and of the theorems of section 5; only
`interleaved` checks one as a property of its own. Each property has a mutant in
`PROJECT.json`: a plausible bug of the code (defined next to the operator it
replaces, with a comment that starts with "Bug") under which the run fails.

**Why the bounds are enough.** The engine's conflicts are between two handlers
about one process, or two processes that share the pool and `agentId`: two
requests and two processes have them all, and what holds of two processes is
proved for any number (section 5). Two subscriptions are one orphan and one
held. One restart suffices because nothing of the server's memory survives it.
In the registry each order is between two events about one item, with a third
party's socket to delay one of them; two sockets of the agent are the old one
whose loss is not noticed yet and the new one; two configurations tell a stale
entry from a fresh one. `registry_sensors` has no other agent and
`registry_topics` no second socket: both at once exceed ten million states, and
`registry_careful` has both. In the agent the events differ by what they do to the
list, so one sensor tells them all; a second connection is what a late clearing
could harm, and no third is different from it. Two orders are what can mix, and
70000 is a value the agent cannot parse. In `stream_data` a batch of two has a
sample that is buffered and one that completes it, and three samples are a batch and
one of the next, or a batch that is still awaited after a PAUSE while the next START
shows its own first sample; two STARTs are a dead listener and a live one; of two
clients one may leave, come back or join while a loop is under way to the other.
More sensors and clients, and batches of nine, are in the theorems. Two items are
the page and the page before. In `desktop` one node per flow, of the types that differ in what a message does to
them (a level that is rounded, a status, a value), meets every message; a process
that runs already needs two acts, PAUSE and START, for a late sample or message to
come from an earlier monitoring, and two are what it takes to edit and save, or to
lose an agent and start again. `OneHazard` keeps the state space in bounds; the
theorems have the hazards together, and any number of acts. With one point of the chart (`MaxPoints`, 100 in the code)
every new point pushes one out, and two samples of two sensors are a value that
is merged into a point, or one that makes a point of its own and pushes the other
out; in half seconds two of them may be near each other without being at one
time. With a third sample the run passes as well, but in more than five minutes
(11 581 827 states), and section 5 has the chart for any of these bounds.

**Fairness.** Weak fairness of every continuation (promises are resolved, and
the event loop runs what is ready), of every issued update (the pool executes
it), of Redis replies, of the agent's callback and loop. `SF` on `Report` only
makes up for the bound on slots: the real server has no slots to wait for. No
fairness of requests, of connections or of their loss: nobody is obliged to act.
In `EdgeAgent` the fairness is that of a runtime: `EventLoop`, `Monitor` and
`Deliver` are run when they can be, and a task that holds the mutex lets go of it
unless the PLC hangs, which the liveness properties allow for. In `OrderPath`
queries (`Found`), Redis, the callback and the main loop go on; `Stored` and the
connection itself need not, so `OrdersArrive` is claimed of a stored socket only.
In `StreamData` Redis, the database and the bus go on and the predictor need not.
In `EditPages` the server answers and callbacks run, those of one kind of request
whatever comes of the others; a query that fails is tried
eleven times at most, which strong fairness of the answers' arrival stands for.
`Desktop` claims safety only and states no fairness.

## 4. Findings

`lossy_kill`: after START, loss of the agent, START and PAUSE, a subscription of
the process survives `deleteStream`. `handleDisconnect` emits `process:kill`, to
which nobody listens (`cordinator.gateway.ts:181`, `stream.service.ts:95-99`).

Beside it, behaviour that the models contain, which no line of the repository
contradicts, and which a reader of the code should know:

- An edit checks the status in one query and writes in another
  (`process.service.ts:46-53`): one that read the row before a START took effect is
  written while the process runs. `NoEditWhileRunning` is claimed of a careful
  operator, who sends one request per process at a time.
- A PAUSE that is served while a START of the same process awaits its query finds
  nothing to delete, and a second START overwrites the entry of the first: both
  leave a stream behind (`stream.service.ts:44`, `:82`). `NoOrphan` is claimed of a
  careful operator; without one `EntryOwnsSub` is all that holds.
- A process that is deleted after `createStream` has read its row is monitored, and
  as its row is not found any more no command reaches it (`stream.service.ts:50`).
- A sample that awaits its prediction while its process is paused and started again
  tells the clients the old START's nodes under the process's id
  (`stream.service.ts:147`, `:263`): the page then shows values that the present
  stream does not have until its next sample (`ViewsCatchUp`, `NodesTellTheirStream`).
- `agent-disconnected` names a process, but the page stops for any
  (`flow.tsx:1535`): it offers a START of a process that runs (`RunningIsShown`).
- An agent without sensors counts as synchronised and gets no topics
  (`sync.service.ts:28`); a deleted sensor that is edited is registered again
  (`sensor.service.ts:75`).
- `agent:cleanup` (`sync.service.ts:31`) and `agent:updated`
  (`agent.service.ts:59`) carry no fingerprint, so they are sent to nobody.
- After a restart, processes keep the status `running` and are not sampled.
- A client's socket is never removed from the connection store.
- A page whose first answer has not come can show and save what the page before
  had cached; a process without a flow is shown the flow visited before.
- The server sends alerts on the channel `alert` only, to which `App.tsx:74`
  listens; the flow listens to `alert:alert` (`flow.tsx:1670`), which never comes.

## 5. What is proved

`ProcessEngineProofs`, of `Spec`, for all processes, agents, requests, flows:

- `TypeCorrect`: `Spec => []TypeOK`. `Request` is a set of records that ties the
  fields to `pc`; that makes it inductive by itself.
- `EntryConnected`: `Spec => []EntryOwnsSub`, inductive together with `TypeOK`:
  only `CreateStream` writes an entry, onto a subscription it takes while free,
  and `Pause` frees exactly the subscription of the entry it drops.

`CarefulOperatorProofs`, of `CarefulSpec`:

- `CarefulInvariant`: `CarefulSpec => []CarefulInv`. The properties are not
  inductive: `StatusTellsStream` speaks of settled processes only, and an edit
  under way has read a status that must still be true when it writes. The
  strengthening says what each continuation may count on (`Served`), that a
  process has one request and one pending update at a time, both only during a
  START (`OneAtATime`), and that a process nobody serves is monitored iff it is
  wanted (`Unserved`). Every action concerns one process: `Coherent(p)` collects
  what the invariant says of `p`, and the lemma `Untouched` carries it over a
  step that leaves `p` alone (`Same(p)`), so each action is argued once.
- `NoOrphans`, `StreamsFollowRows`, `StatusIsRight`, `EditsKeepOut` follow from
  it; the last is an action property.
- `EngineIsSwitch`: `CarefulSpec => IsSwitch`, the safety part of the refinement
  of `MonitorSwitch`. A step of the engine is a step of the switch at one process
  and is not seen of any other: `Start` is `OrderOn`, `CreateStream` `SwitchOn`,
  `Pause` `OrderOff`, `UpdateFlow`, `Update` and `Remove` are `Edit` or nothing,
  `Execute` is `Show`, all else stutters. What `CarefulInv` says of the process
  gives the guard of the switch's step. It needs `DefinitionsAssumption`, that
  "off" is no definition.

- `RunningHasStream`: `LossySpec => []RunningIsMonitored`. When agents are lost a
  status may say less than the stream does, so `CarefulInv` does not hold;
  `LossyInv` keeps the half that does. A process without a stream, and without a
  START that is about to build one (`Building`), has no "running" pending, and if
  its row says so, a "stopped" is pending (`Monitored`): a disconnect only ever
  writes "stopped", and a PAUSE finds no START's update pending, because one
  request serves a process at a time (`OneServed`).

`SensorRegistryProofs`, for any items, commands, other sockets and handlers; the
sets of items and of other sockets are finite (`RegistryAssumption`), as the rows
of a table and the clients of a server are:

- `RegistryTypes`: `Spec => []TypeOK`.
- `NoSensorForgotten`, `NoTopicForgotten`: `Spec => []SensorsCovered` and
  `Spec => []TopicsCovered`. Both speak of the moment when nothing is on its way;
  `Coverage` says the same of any moment: an enabled item is in the list of the
  agent that is connected, or something will register it there (`WillRegister`):
  an event that will still be sent on the present connection (`Reaching`, a part
  of all that is on its way, `Pending`), the handler that will send one, or the
  greeting, which sends all of the table. What is lost takes the connection with
  it, and the next one is greeted.
- `AgentReadsTheTables`: `CarefulSpec => []AgentAgrees`. A careful operator's
  changes come one at a time and not into a greeting (`OneAtATime`), so what is on
  its way says what the tables say (`Current`), and where the list differs from
  them something under way will correct it (`Agreement`).

`EdgeAgentProofs`, of `EdgeAgent`'s `Spec`, for any number of sensors and
connections and any channel:

- `AgentInvariant`: `Spec => []AgentInv`. `NewListSurvives` is not inductive: a
  clearing that is due must find only old entries, so the invariant says who holds
  the mutex at each place of the two tasks (`LockInv`), that no entry or event
  is newer than the connection (`GenInv`), and that between the failed emission
  and the clearing nothing new got in (`ClearInv`): the monitoring task asks
  for the mutex before the client reconnects, so it is served before any event of
  the new connection.
- `ListSurvives`: the action property `NewListSurvives`.

`OrderPathProofs`, of the tables of `AddressMap`: `LogoFits` (every LOGO address
the parser accepts has a register of 16 bits), `LogoCellsDiffer` (two writable
LOGO addresses never share a cell; `LogoShape` gives each area its interval and
lets arithmetic do the rest), `PlcsimMarkersNeverFit`, and `PlcsimAreaIsApart`
(within one area and one block of PLCSIM no two addresses share a register; across
areas they do, see the hazards in `PROJECT.json`). And of `OrderPath`'s `Spec`,
for any panel, orders, connections:

- `OrderTypes`: `Spec => []TypeOK`; the channel only holds writes that parse.
- `StayPut`: `WritesStayPut`, from `LogoCellsDiffer`.
- `PathInvariant`: `Spec => []PathInv`, and from it `TriggersWait`, that is
  `Spec => []TriggerFollowsData`. The property speaks of the PLC, so the invariant
  says the same of each stage before it: in the channel and on the wire a trigger
  has what it needs in front of it or at the PLC (`PipeInv`). For the loops of the
  server the order in the queue is not enough, because a loop moves to the end
  after each connection: `LoopInv` says that a loop with a needed value will
  come to the agent's socket before the trigger's does (`Ahead`: both have the
  same connections to go and it is earlier, or it is one round further and the
  next connection is not the agent's), or the value has arrived. A new connection
  could spoil that if a loop knew it already; `SocketInv` excludes it.
  `SentInv` fixes what an order needs once its process was found.
- `OrdersKeepTurn`: `Spec => []OrdersInTurn`. The same two levels, between the loops
  of two orders and for all of their events instead of a value and its trigger
  (`TurnInv`, `LoopTurnInv`). Here a loop that is late is not excused by what has
  arrived, so the proof needs that a socket is in the store once (`StoredOnce`)
  and that none has been forgotten (`left`): a loop that skips a connection
  overtakes.

`StreamDataProofs`, of `StreamData`'s `Spec`, for any sensors, clients, STARTs,
samples and any size of batch:

- `SampleTypes`: `TypeOK` is inductive with two facts (`TypeInv`): a loop that
  shows nodes has a client to go, and what the bus holds is a sample.
- `NoSampleTwice`: `CountedOnce` follows from `OnePlace`, that a sample is in one
  place at a time: one loop, the database, the bus, or taken. To the bus it is one
  sample for many listeners, so that rests on `OneStream`: a subscription that is
  alive is the map's, and nothing is loading while there is one.
- `BatchesAreLate` and `PausedIsQuiet`: what the nodes show is what was handled
  last, until a prediction is awaited; after a PAUSE nobody else writes them or
  begins a loop, and a loop under way loses one client a round (`PausedGoesQuiet`).
- `NoClientLagsBehind`: `Spec => []ViewsCatchUp`. `ViewsCatchUp` speaks of the moment
  when no loop is left. `ViewInv` says what holds before: no loop of an earlier
  sample comes to a client after the loop of the sample taken last does (`Newest`,
  `Ahead`), every client that was there is still on that loop's list or has the nodes
  already, and who came later has been shown nothing. `PresentInv` says whose nodes they are: the
  present monitoring's once it has values, or those of a sample that had awaited a
  prediction.

`EditPagesProofs`, of `AttentiveSpec`, for any items, texts and conditions, from
`NoneAssumption` (the absence of a thing is not a thing):

- `PagesTypes`, and `NothingIsMixedUp`, `PagesShowTheirs`, `ListsAreFresh`
  from `PagesInv`. The cached answer and the form may be another
  item's (`Foreign`), but only until the page has loaded once
  (`ForeignOnlyAtFirst`), and until then nothing was sent from it. The item was
  opened from a list that had loaded, so it is still live then, the answer has
  content, and the effect overwrites the form. `FreshList` says that an answer
  under way is what the server has, unless a change's callback is due that will
  ask again.

`DesktopProofs`, of the flow's `AttentiveFlowSpec`, for any processes, sensors,
values, sets of types and bounds on nodes, acts and messages, from
`LiveFlowAssumption` and `FlowNoneAssumption` (the absence of a thing is not a
thing, no value is undefined):

- `FlowTypesHold`, and `FlowsAreTheirOwn` (`FlowIsItsOwn`) from `FlowInv`. The
  canvas may hold another process's nodes only until the page's own flow has come
  (`OwnCanvas`), a process without a flow meets an empty canvas because nothing of
  another is cached, the requests under way and the cached answers are about
  the item they name (`OwnQueries`), and what is being saved was drawn on the
  page that is still open (`OwnSent`).
- `PageKnowsStatus` (`RunningIsShown`) from `RunInv`: there is one order on its way
  (`OneOrder`), the status that is cached or asked for is the page's own
  (`OwnStatus`), and unless an agent was lost since it was read, what the page shows
  is what the row will be once the order has been carried out (`RightStatus`).
  `Doubted` keeps the two kinds of doubt apart: while a notice is under way the page
  is in doubt, and an answer that was read before a loss does not end it.
- `CanvasTellsTheStream` (`NodesTellTheirStream`) from `TellInv`: nodes are neat, one
  for each id (`NeatFlows`, `NeatStreams`). A monitoring may be told of by several
  loops and messages, those of earlier ones among them; the invariant says of each
  that its last message, if none will follow, has the values that it has
  (`LastMessage`), and of the one that told the canvas last that, if none of its
  messages is on its way, what it set and nobody loaded or edited since tells them
  (`Heard`, `CanvasTells`). A tank rounds its level, so `RoundedLevel` says what it may show,
  for values at or below nothing and for any maximum.
- `DesktopFlowHolds`: the same three on the desktop: a step of the dashboard is a
  stutter of the flow (`DesktopRunsFlow`).

Of the chart, on the desktop (`DesktopSpec`), for any sensors, readings, `MaxPoints`
and unit of time:

- `ChartInvariant`, and from it `LiveChartShowsWhatCame` (`LiveShowsWhatCame`) and
  `NewestValueIsDrawn` (`LastValueIsDrawn`). The code looks for the first point that
  is near enough; the invariant says that live points are two seconds apart
  (`Spaced`) and none is later than now, so only the last one can be, and a merge
  adds to it without taking anything else away (`PutsLast`). The cut removes one
  point at most, the first, when all that stay are two seconds later or more
  (`KeptIs`, `PointsAfter`). While the log is awaited the mode is historical: that
  is what the patient operator is needed for.
- `LogIsPictured` (`HistoryIsTheLog`) from `HistoryInv`: what the query has read is
  rows of the log, and in historical mode the points are a picture of what was
  read (`HistoryIsPicture`). `HistoryOf` puts the rows into points one by one and then
  orders them, for a log of any length. The library's induction takes an operator
  as a parameter; `EveryNatural` is an induction over a *set* of numbers instead,
  from the least element that a well-founded relation gives (`WFMin`). With it
  `MergedIs` follows the merge row by row: points stay a second apart
  (`PutsNear`), each value is some row's, each row has its point, and a later row may
  overwrite the value but never the place (`PictureGrows`). `SomeOrder` inserts
  points one at a time to show that an order by time exists, which is what
  `InOrder` chooses. The colour of a heatmap cell lies between the least and the
  greatest of its sensor's values (`LeastAndGreatest`, `CellsWithin`).

All rest on the named assumptions about constants only (`ConstantsAssumption` and
its like), which TLC evaluates in the runs. TLC has checked the inductive
invariants of the server and of the agent (`CarefulInv`, `AgentInv`, `PathInv`)
in the runs above, and those of the other theorems in runs of their own before
they were proved: `FlowInv`, `RunInv` and `TellInv` (1 415 486 states), `ViewInv`, `PresentInv` and
`LateInv` (536 632, with two clients and two STARTs),
`ChartInv` (20 963 349), `HistoryInv` (3 628 270, three samples in half seconds), `LossyInv`, `TurnInv` and the invariants of
`SensorRegistryProofs`.

**Model-checked only:** every invariant and every action property that the runs
check is stated by a theorem. What is left is liveness, which TLAPS does not prove
(`ENABLED` and fairness are out of its reach): `OrdersAreCarriedOut`,
`LossIsShown`, `SavedIsCovered`, `LoopsGoOn`, `PausedFallsSilent`, `OrdersArrive`,
`SampleIsTaken`, `ItemIsShown`, `ListIsShown`. `KilledStreamIsSilent` is refuted (section 4).

## 6. Not modelled, and what is left

What a next extension would do, the most consequential first:

1. The status of agents (`cordinator.gateway.ts:177`): the handlers are in
   `ProcessEngine`, a property about what clients are shown of it is not.
2. The removal of processes in `LiveFlow`, and several clients that edit one flow.
3. Answers to mutations that are lost, and an agent's creation and deletion.

Not modelled in parts that are: names, descriptions and wording; the validation of
an agent's PLC model and of a sensor whose agent is gone; alerts and predictions on
their way to clients; values that the agent reads; zoom, tooltips and date pickers
of the chart, and the four counts beside it; positions, edges and colours of a
flow; the builder of order panels, which keeps its panels in localStorage.

**Left out for good:** accounts and process steps (CRUD that no other part
reads), the BullMQ worker (no job is ever queued), the earlier client (superseded
by `client2`), login, settings and the socket log (each shows what it was told
last; the log is never cut), and the Modbus and S7 test programs, which are
stand-alone.
