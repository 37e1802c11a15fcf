------------------------------ MODULE LiveFlow ------------------------------
(***************************************************************************)
(* The page of a process (details.tsx) with its flow (ScadaFlowBuilder of  *)
(* flow.tsx): the flow is loaded, edited on a canvas, saved, started and   *)
(* paused, and the messages of the running process (step-data) go into the *)
(* nodes on the canvas.  Of the server there is what those messages need:  *)
(* an order, a loss of an agent and a sample are handled at once here, but *)
(* for the prediction that a sample may await and the loops that tell the  *)
(* client (ProcessEngine and StreamData have the rest).  There is one      *)
(* client, and each process has an agent of its own.                       *)
(***************************************************************************)
EXTENDS FlowNodes, QueryCache, Sequences, FiniteSets

CONSTANTS
  Processes, Sensors, Values,
  Kit,       \* bound: the types of node in the flows saved before
  Palette,   \* bound: the types of node that are dropped
  MaxNodes,  \* bound: nodes of a flow
  MaxActs,   \* bound: drops, changes, orders and saves of the operator, and
             \* losses of agents
  MaxWire,   \* bound: messages on their way to the client
  MaxAwaited \* bound: samples that await a prediction, no two of them equal

ASSUME LiveFlowAssumption ==
  /\ 0 \in Values /\ Values \subseteq Int /\ MaxActs \in Nat
  /\ Kit \cup Palette \subseteq Types
  /\ None \notin Processes

VARIABLES
  rows,      \* the processes: the flow that was saved, the status
  streams,   \* the monitoring that the map has for a process, or None
  subs,      \* the monitorings whose subscription is open
  nodes,     \* the nodes of each monitoring with their sensor's value
  preds,     \* the samples that await a prediction
  loops,     \* the loops of notifyClients: for a monitoring, or None for the
             \* notice that an agent was lost
  wire,      \* messages and notices on their way to the client
  orders,    \* START and PAUSE on their way to the server
  sent,      \* the request that saves a flow, until the client has the answer
  page,      \* the process whose page is open
  process,   \* the query ['oneProcess'], which brings the flow
  steps,     \* the query ['steps'], which brings the status
  canvas,    \* the nodes on the canvas
  panel,     \* the selected node as the panel holds it
  isRunning, \* what the page takes the process for
  heard,     \* history: the nodes that the last message has set, unless they
             \* were loaded or edited since
  teller,    \* history: the monitoring of that message
  doubt,     \* history: an agent was lost since the status was "shown", since
             \* it was "fetched"
  acts       \* how many of the acts that MaxActs bounds were done so far

server == <<rows, streams, subs, nodes, preds>>
net    == <<loops, wire, orders, sent>>
told   == <<heard, teller>>
shown  == <<canvas, panel, isRunning, told, doubt>>
flowVars == <<server, net, shown, page, process, steps, acts>>

\* What the acts are counted for: a node has the number of its drop,
\* a monitoring that of its START.
NodeIds     == Processes \X (0..MaxActs)
Monitorings == Processes \X (0..MaxActs)
FlowNode == Node(NodeIds, Sensors, Values)
FlowAnswers == [of : Processes, flow : (SUBSET FlowNode) \cup {None}]
StatusAnswers == [of : Processes, running : BOOLEAN]

ASSUME FlowNoneAssumption ==
  /\ None \notin [id : Processes, got : FlowAnswers \cup {None}]
  /\ None \notin [id : Processes, got : StatusAnswers \cup {None}]
  /\ None \notin Monitorings /\ Undef \notin Int

Streamed(flow) == {[node |-> n, live |-> Undef] : n \in flow}

\* The answers to the two queries.
FlowOf(p)   == [of |-> p, flow |-> rows[p].flow]
StatusOf(p) == [of |-> p, running |-> rows[p].running]

\* A flow was never saved, or has a node with its sensor.
Bound(p, t, s) ==
  [Fresh(t, <<p, 0>>) EXCEPT !.sensors = {s},
                             !.prop = IF HasProp(t) THEN s ELSE Undef]
Drawn(p) == {None} \cup {{Bound(p, t, s)} : t \in Kit, s \in Sensors}

FlowInit ==
  /\ \E f \in [Processes -> UNION {Drawn(p) : p \in Processes}],
        r \in [Processes -> BOOLEAN] :
       /\ \A p \in Processes : f[p] \in Drawn(p)
       /\ rows = [p \in Processes |->
                    [flow |-> f[p], running |-> r[p] /\ f[p] # None]]
  /\ streams = [p \in Processes |-> IF rows[p].running THEN <<p, 0>> ELSE None]
  /\ subs = {<<p, 0>> : p \in {q \in Processes : rows[q].running}}
  /\ nodes = [m \in Monitorings |->
                IF m \in subs THEN Streamed(rows[m[1]].flow) ELSE {}]
  /\ preds = {} /\ loops = <<>> /\ wire = <<>> /\ orders = <<>> /\ sent = None
  /\ page = None /\ process = NoQuery /\ steps = NoQuery
  /\ canvas = {} /\ panel = None /\ isRunning = FALSE
  /\ heard = {} /\ teller = None /\ doubt = {}
  /\ acts = 0

-----------------------------------------------------------------------------
(* The effects of the page: whenever a query's state or data has changed,   *)
(* the canvas takes the flow and the page the status that are cached.  A    *)
(* process without a flow leaves the canvas as it is.                       *)

CanvasOf(q, drawn) ==
  IF q.data = None THEN drawn
  ELSE IF q.data.flow = None THEN drawn ELSE q.data.flow

StatusShown(q, r) == IF q.data = None THEN r ELSE q.data.running

LoadFlow(q) ==
  /\ canvas' = CanvasOf(q, canvas)
  /\ heard' = IF canvas' = canvas THEN heard ELSE {}

LoadStatus(q) == isRunning' = StatusShown(q, isRunning)

OpenFlow(p) ==
  /\ page = None /\ page' = p
  /\ process' = Mounted(process, p) /\ steps' = Mounted(steps, p)
  /\ canvas' = CanvasOf(process, {}) /\ isRunning' = StatusShown(steps, FALSE)
  /\ panel' = None /\ heard' = {} /\ teller' = None
  /\ UNCHANGED <<server, net, doubt, acts>>

LeaveFlow ==
  /\ page # None /\ page' = None
  /\ canvas' = {} /\ panel' = None /\ isRunning' = FALSE
  /\ heard' = {} /\ teller' = None
  /\ UNCHANGED <<server, net, doubt, process, steps, acts>>

-----------------------------------------------------------------------------
(* The operator. *)

Acted == acts < MaxActs /\ acts' = acts + 1

onDrop(t) ==
  /\ page # None /\ ~isRunning /\ Cardinality(canvas) < MaxNodes /\ Acted
  /\ canvas' = canvas \cup {Fresh(t, <<page, acts'>>)}
  /\ UNCHANGED <<server, net, page, process, steps, panel, isRunning, told, doubt>>

onNodeClick(n) ==
  /\ n \in canvas /\ panel # n /\ panel' = n
  /\ UNCHANGED <<server, net, page, process, steps, canvas, isRunning, told, doubt, acts>>

onPaneClick ==
  /\ panel # None /\ panel' = None
  /\ UNCHANGED <<server, net, page, process, steps, canvas, isRunning, told, doubt, acts>>

\* The Delete key works on the selected node, running or not.
DeleteNode(n) ==
  /\ n \in canvas /\ panel # None /\ n.id = panel.id /\ Acted
  /\ canvas' = canvas \ {n}
  /\ UNCHANGED <<server, net, page, process, steps, panel, isRunning, told, doubt>>

\* The panel holds a copy of the node as it was when it was clicked.
handleChange(c) ==
  /\ panel # None /\ ~isRunning /\ Acted
  /\ c \in PanelChanges(panel, Sensors, Values) /\ panel' = c
  /\ UNCHANGED <<server, net, page, process, steps, canvas, isRunning, told, doubt>>

\* Apply.
onNodeUpdate ==
  /\ panel # None /\ ~isRunning
  /\ canvas' = {IF n.id = panel.id THEN panel ELSE n : n \in canvas}
  /\ heard' = heard \ {panel.id}
  /\ UNCHANGED <<server, net, page, process, steps, panel, isRunning, teller, doubt, acts>>

saveFlow ==
  /\ page # None /\ ~isRunning /\ sent = None /\ Acted
  /\ sent' = [id |-> page, flow |-> canvas, answer |-> None]
  /\ UNCHANGED <<server, loops, wire, orders, page, process, steps, shown>>

\* Start Monitoring and Pause Monitoring are there when no node is selected.
\* The page takes the order for carried out.
Order(running) ==
  /\ page # None /\ panel = None /\ isRunning # running /\ Acted
  /\ isRunning' = running
  /\ orders' = Append(orders, [id |-> page, running |-> running, at |-> acts'])
  /\ UNCHANGED <<server, loops, wire, sent, page, process, steps, canvas, panel, told, doubt>>

handleStart == Order(TRUE)
handlePause == Order(FALSE)

-----------------------------------------------------------------------------
(* The server. *)

\* An order for a process without a flow is dropped.  PAUSE closes the
\* subscription that the map has.
handleCommand ==
  /\ orders # <<>> /\ orders' = Tail(orders)
  /\ LET o == Head(orders)
         m == <<o.id, o.at>>
     IN
     \/ /\ rows[o.id].flow = None
        /\ UNCHANGED server
     \/ /\ rows[o.id].flow # None /\ o.running
        /\ rows' = [rows EXCEPT ![o.id].running = TRUE]
        /\ streams' = [streams EXCEPT ![o.id] = m]
        /\ subs' = subs \cup {m}
        /\ nodes' = [nodes EXCEPT ![m] = Streamed(rows[o.id].flow)]
        /\ UNCHANGED preds
     \/ /\ rows[o.id].flow # None /\ ~o.running
        /\ rows' = [rows EXCEPT ![o.id].running = FALSE]
        /\ streams' = [streams EXCEPT ![o.id] = None]
        /\ subs' = subs \ {streams[o.id]}
        /\ UNCHANGED <<nodes, preds>>
  /\ UNCHANGED <<loops, wire, sent, shown, page, process, steps, acts>>

updateFlow ==
  /\ sent # None /\ sent.answer = None
  /\ LET ok == ~rows[sent.id].running IN
       /\ sent' = [sent EXCEPT !.answer = IF ok THEN "ok" ELSE "refused"]
       /\ rows' = IF ok THEN [rows EXCEPT ![sent.id].flow = sent.flow] ELSE rows
  /\ UNCHANGED <<streams, subs, nodes, preds, loops, wire, orders, shown,
                 page, process, steps, acts>>

\* Any sensor of a node's list sets the value that the node shows, whichever
\* sensor the node's own field names.
Sampled(x, s, v) ==
  IF s \in x.node.sensors /\ x.node.prop # Undef THEN [x EXCEPT !.live = v] ELSE x

\* Bound: room for one more message on its way to the client.
Room == Len(loops) + Len(wire) < MaxWire

\* The nodes take the value, and step:running is emitted for each of them.
\* (The loops of one sample send the same: one stands for all.)
Take(m, s, v) ==
  /\ nodes' = [nodes EXCEPT ![m] = {Sampled(x, s, v) : x \in @}]
  /\ loops' = IF nodes[m] = {} THEN loops ELSE Append(loops, m)

Await(q) ==
  /\ q \notin preds /\ Cardinality(preds) < MaxAwaited
  /\ preds' = preds \cup {q}

\* A sample waits for the predictor if it completes a batch.
handleData(m, s, v) ==
  /\ m \in subs /\ streams[m[1]] # None /\ Room
  /\ \/ Take(m, s, v) /\ UNCHANGED preds
     \/ Await([of |-> m, sensor |-> s, value |-> v]) /\ UNCHANGED <<nodes, loops>>
  /\ UNCHANGED <<rows, streams, subs, wire, orders, sent, shown,
                 page, process, steps, acts>>

\* It goes on whatever has become of its stream.
Predicted(q) ==
  /\ q \in preds /\ Room /\ preds' = preds \ {q}
  /\ Take(q.of, q.sensor, q.value)
  /\ UNCHANGED <<rows, streams, subs, wire, orders, sent, shown,
                 page, process, steps, acts>>

\* handleDisconnect: nobody hears process:kill, so that the stream stays.
AgentLost(p) ==
  /\ Acted /\ Room /\ loops' = Append(loops, None)
  /\ rows' = [rows EXCEPT ![p].running = FALSE]
  /\ doubt' = {"shown", "fetched"}
  /\ UNCHANGED <<streams, subs, nodes, preds, wire, orders, sent, canvas, panel,
                 isRunning, told, page, process, steps>>

\* A message has the nodes as they are when it is sent, and tells of those
\* that have a field for a sensor.
Notice == [from |-> None, nodes |-> {}]
StepData(m, S) ==
  [from |-> m, nodes |-> {[id |-> x.node.id, live |-> x.live] :
                            x \in {y \in S : y.node.prop # Undef}}]

\* Redis has answered the loop, which sends.
notifyClients ==
  /\ loops # <<>> /\ loops' = Tail(loops)
  /\ LET m == Head(loops) IN
       wire' = Append(wire, IF m = None THEN Notice ELSE StepData(m, nodes[m]))
  /\ UNCHANGED <<server, orders, sent, shown, page, process, steps, acts>>

AnswerProcess ==
  /\ Pending(process) /\ process' = Answered(process, FlowOf(process.get.id))
  /\ UNCHANGED <<server, net, shown, page, steps, acts>>

\* The sensors of the process are fetched before its status.
AnswerSteps ==
  /\ Pending(steps) /\ steps' = Answered(steps, StatusOf(steps.get.id))
  /\ doubt' = doubt \ {"fetched"}
  /\ UNCHANGED <<server, net, canvas, panel, isRunning, told, page, process, acts>>

-----------------------------------------------------------------------------
(* What comes back to the client. *)

\* Messages of other processes are passed over.
handleMessage ==
  /\ wire # <<>> /\ Head(wire) # Notice /\ wire' = Tail(wire)
  /\ LET msg == Head(wire)
         Told(n) == {x \in msg.nodes : x.id = n.id}
     IN IF msg.from[1] # page THEN UNCHANGED <<canvas, told>>
        ELSE /\ canvas' = {IF Told(n) = {} THEN n
                           ELSE Updated(n, (CHOOSE x \in Told(n) : TRUE).live) :
                             n \in canvas}
             /\ heard' = {n.id : n \in {o \in canvas : Told(o) # {}}}
             /\ teller' = msg.from
  /\ UNCHANGED <<server, loops, orders, sent, page, process, steps, panel, isRunning,
                 doubt, acts>>

\* The notice names a process, but no page asks which.
handleDiscon ==
  /\ wire # <<>> /\ Head(wire) = Notice /\ wire' = Tail(wire)
  /\ isRunning' = FALSE
  /\ UNCHANGED <<server, loops, orders, sent, page, process, steps, canvas, panel,
                 told, doubt, acts>>

\* Only the query that brings the status is asked again after a save.
FlowSaved ==
  /\ sent # None /\ sent.answer = "ok" /\ sent' = None
  /\ IF page = None THEN UNCHANGED <<steps, isRunning>>
     ELSE /\ steps' = Invalidated(steps)
          /\ IF Fetching(steps) THEN UNCHANGED isRunning ELSE LoadStatus(steps)
  /\ UNCHANGED <<server, loops, wire, orders, page, process, canvas, panel, told, doubt, acts>>

FlowRefused ==
  /\ sent # None /\ sent.answer = "refused" /\ sent' = None
  /\ UNCHANGED <<server, loops, wire, orders, page, process, steps, shown, acts>>

ProcessArrived ==
  /\ Arrived(process) /\ process' = Settled(process)
  /\ IF page = None THEN UNCHANGED <<canvas, heard>> ELSE LoadFlow(process')
  /\ UNCHANGED <<server, net, page, steps, panel, isRunning, teller, doubt, acts>>

NoticeUnderWay ==
  \/ \E i \in DOMAIN loops : loops[i] = None
  \/ \E i \in DOMAIN wire : wire[i] = Notice

StepsArrived ==
  /\ Arrived(steps) /\ steps' = Settled(steps)
  /\ IF page = None THEN UNCHANGED isRunning ELSE LoadStatus(steps')
  /\ doubt' = IF "fetched" \in doubt \/ NoticeUnderWay THEN doubt ELSE {}
  /\ UNCHANGED <<server, net, page, process, canvas, panel, told, acts>>

\* A query fails: it is tried again while the page is open, or given up.
ProcessFails ==
  /\ Pending(process)
  /\ \/ page # None /\ process' = Failed(process) /\ UNCHANGED <<canvas, heard>>
     \/ /\ process' = GivenUp(process)
        /\ IF page = None THEN UNCHANGED <<canvas, heard>> ELSE LoadFlow(process')
  /\ UNCHANGED <<server, net, page, steps, panel, isRunning, teller, doubt, acts>>

StepsFail ==
  /\ Fetching(steps)
  /\ \/ page # None /\ steps' = Failed(steps) /\ UNCHANGED isRunning
     \/ /\ steps' = GivenUp(steps)
        /\ IF page = None THEN UNCHANGED isRunning ELSE LoadStatus(steps')
  /\ UNCHANGED <<server, net, page, process, canvas, panel, told, doubt, acts>>

-----------------------------------------------------------------------------
Operator ==
  \/ LeaveFlow \/ onPaneClick \/ onNodeUpdate \/ saveFlow
  \/ handleStart \/ handlePause
  \/ \E p \in Processes : OpenFlow(p)
  \/ \E t \in Palette : onDrop(t)
  \/ \E n \in canvas : onNodeClick(n) \/ DeleteNode(n)
  \/ panel # None /\ \E c \in PanelChanges(panel, Sensors, Values) : handleChange(c)

Server ==
  \/ handleCommand \/ updateFlow \/ AnswerProcess \/ AnswerSteps \/ notifyClients
  \/ \E m \in subs, s \in Sensors, v \in Values : handleData(m, s, v)
  \/ \E q \in preds : Predicted(q)
  \/ \E p \in Processes : AgentLost(p)

Client ==
  \/ handleMessage \/ handleDiscon \/ FlowSaved \/ FlowRefused
  \/ ProcessArrived \/ StepsArrived \/ ProcessFails \/ StepsFail

FlowNext == Operator \/ Server \/ Client

\* An attentive operator waits for what was asked, saved or ordered before the
\* next step, leaves a page that could not be loaded, saves a flow before
\* starting its process, and does not open a process that has no flow while
\* the flow of another is cached.
Quiet == /\ ~Fetching(process) /\ ~Fetching(steps)
         /\ sent = None /\ orders = <<>>

Attentive ==
  /\ Quiet
  /\ page # None /\ (process.bad \/ steps.bad) => page' = None
  /\ orders' # orders => rows[page].flow # None
  /\ page' \in Processes /\ page = None =>
       \/ rows[page'].flow # None
       \/ process.data = None
       \/ process.data.flow = None

AttentiveFlowNext == (Operator /\ Attentive) \/ Server \/ Client

AttentiveFlowSpec == FlowInit /\ [][AttentiveFlowNext]_flowVars

-----------------------------------------------------------------------------
\* The flow that is saved for a process has the nodes that were dropped on its
\* own page, although all pages share the cached answer of ['oneProcess'].
FlowIsItsOwn ==
  \A p \in Processes :
    rows[p].flow # None => \A n \in rows[p].flow : n.id[1] = p

\* When nothing is on its way the page shows a process as running if and only
\* if it is, although it takes its orders for carried out and its status from
\* a cache (setIsRunning, the effect of details.tsx), unless an agent was lost
\* since the status was read: the notice of any process's agent stops any page.
RunningIsShown ==
  (page # None /\ Quiet /\ ~process.bad /\ ~steps.bad /\ doubt = {})
    => isRunning = rows[page].running

\* When nothing is on its way and the last message that the page took was of
\* the monitoring that its process has now, every node that the message set and
\* that was not loaded or edited since tells the value that the monitoring has for it,
\* whatever was loaded, edited, paused, started and lost in between.  (The last
\* one may be of an earlier monitoring: a sample of it had awaited its
\* prediction, or its subscription outlived a lost agent.)
NodesTellTheirStream ==
  (/\ page # None /\ loops = <<>> /\ wire = <<>>
   /\ streams[page] # None /\ teller = streams[page])
    => \A n \in canvas, x \in nodes[streams[page]] :
         (x.node.id = n.id /\ n.id \in heard /\ x.live # Undef)
           => Tells(n, x.live)
=============================================================================
