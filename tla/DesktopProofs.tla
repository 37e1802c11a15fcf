---------------------------- MODULE DesktopProofs ----------------------------
(***************************************************************************)
(* Theorems about the desktop client's two pages (Desktop).                *)
(*                                                                         *)
(* The page of a process (LiveFlow) in the hands of an attentive operator: *)
(* the flow that is saved for a process has the nodes that were dropped on *)
(* its own page; unless an agent was lost since the status was read, the   *)
(* page knows whether the process runs; and the canvas tells what the      *)
(* monitoring that spoke last has read.  The canvas may show the flow of   *)
(* the process visited before, from the cache that all pages share, but    *)
(* only until the flow of its own process has come; and a process that has *)
(* none meets an empty canvas.                                             *)
(*                                                                         *)
(* The dashboard's chart (LiveChart) in the hands of a patient one: while  *)
(* it is live it shows only what came, and the newest value of each sensor.*)
(* Its points are two seconds apart at least, so that a value can only go  *)
(* into the last point or after it.  In historical mode it is a picture of *)
(* the log: the rows are merged one by one into points that stay a second  *)
(* apart, which are then put in order.                                     *)
(***************************************************************************)
EXTENDS Desktop, SequenceTheorems, FiniteSetTheorems, WellFoundedInduction, TLAPS

LiveNode == [node : FlowNode, live : Values \cup {Undef}]
Message  == [from : Monitorings,
             nodes : SUBSET [id : NodeIds, live : Values \cup {Undef}]]
Awaiting == [of : Monitorings, sensor : Sensors, value : Values]
Order_   == [id : Processes, running : BOOLEAN, at : 0..MaxActs]
Saving   == [id : Processes, flow : SUBSET FlowNode,
             answer : {None, "ok", "refused"}]

FlowTypes ==
  /\ rows \in [Processes -> [flow : (SUBSET FlowNode) \cup {None},
                             running : BOOLEAN]]
  /\ streams \in [Processes -> Monitorings \cup {None}]
  /\ subs \subseteq Monitorings /\ nodes \in [Monitorings -> SUBSET LiveNode]
  /\ preds \subseteq Awaiting
  /\ loops \in Seq(Monitorings \cup {None})
  /\ wire \in Seq(Message \cup {Notice}) /\ orders \in Seq(Order_)
  /\ sent \in Saving \cup {None}
  /\ page \in Processes \cup {None}
  /\ process \in Query(Processes, FlowAnswers)
  /\ steps \in Query(Processes, StatusAnswers)
  /\ canvas \subseteq FlowNode /\ panel \in FlowNode \cup {None}
  /\ isRunning \in BOOLEAN /\ heard \subseteq NodeIds
  /\ teller \in Monitorings \cup {None} /\ doubt \subseteq {"shown", "fetched"}
  /\ acts \in 0..MaxActs

Own(flow, p) == \A n \in flow : n.id[1] = p
OwnFlow(a) == a.flow # None => Own(a.flow, a.of)

\* A flow is saved from the page that it was drawn on.
OwnSent ==
  sent # None => /\ Own(sent.flow, sent.id)
                 /\ page = sent.id /\ ~process.bad /\ ~Fetching(process)

\* What is cached, and what is asked while a page is open.
OwnQueries ==
  /\ process.data # None => OwnFlow(process.data)
  /\ Arrived(process) => process.get.got = FlowOf(process.get.id)
  /\ Fetching(process) => page # None /\ process.get.id = page
  /\ page # None => process.opt = page /\ steps.opt = page

\* The canvas is the page's own once the flow has come, or if there is none.
OwnCanvas ==
  page # None /\ (rows[page].flow = None \/ (~Fetching(process) /\ ~process.bad))
    => /\ Own(canvas, page)
       /\ process.data # None =>
            process.data.flow = None \/ process.data.of = page

FlowInv == FlowTypes /\ FlowIsItsOwn /\ OwnSent /\ OwnQueries /\ OwnCanvas

-----------------------------------------------------------------------------
(* Nodes. *)

LEMMA StatusIn ==
  ASSUME NEW t \in Types
  PROVE  Statuses(t) \subseteq UNION {Statuses(u) : u \in Types}
OBVIOUS

LEMMA StatusOfFresh ==
  ASSUME NEW t \in Types, NEW id
  PROVE  Fresh(t, id).status \in (UNION {Statuses(u) : u \in Types}) \cup {"none"}
<1>1. /\ "normal" \in Statuses("tank") /\ "closed" \in Statuses("valve")
      /\ "stopped" \in Statuses("pump") /\ "inactive" \in Statuses("sensor")
  BY DEF Statuses
<1>2. {"tank", "valve", "pump", "sensor"} \subseteq Types
  BY DEF Types
<1>3. Fresh(t, id).status \in {"normal", "closed", "stopped", "inactive", "none"}
  BY DEF Fresh, Types
<1> QED BY <1>1, <1>2, <1>3, StatusIn

LEMMA FreshTyped ==
  ASSUME NEW t \in Types, NEW id \in NodeIds
  PROVE  Fresh(t, id) \in FlowNode /\ Fresh(t, id).id = id
<1>1. /\ Fresh(t, id).level \in 0..100 \cup {Undef}
      /\ Fresh(t, id).value \in Values \cup {0, 5, Undef}
      /\ Fresh(t, id).max \in Values
  BY LiveFlowAssumption DEF Fresh
<1>2. /\ Fresh(t, id).id = id /\ Fresh(t, id).type = t
      /\ Fresh(t, id).sensors = {} /\ Fresh(t, id).prop = Undef
  BY DEF Fresh
<1>3. Fresh(t, id) = [id |-> Fresh(t, id).id, type |-> Fresh(t, id).type,
        status |-> Fresh(t, id).status, value |-> Fresh(t, id).value,
        level |-> Fresh(t, id).level, max |-> Fresh(t, id).max,
        sensors |-> Fresh(t, id).sensors, prop |-> Fresh(t, id).prop]
  BY DEF Fresh
<1>4. Fresh(t, id).status \in (UNION {Statuses(u) : u \in Types}) \cup {"none"}
  BY StatusOfFresh
<1> QED BY <1>1, <1>2, <1>3, <1>4 DEF FlowNode, Node

\* A node of a flow that was saved before.
LEMMA BoundTyped ==
  ASSUME NEW p \in Processes, NEW t \in Kit, NEW s \in Sensors
  PROVE  Bound(p, t, s) \in FlowNode /\ Bound(p, t, s).id[1] = p
<1>1. <<p, 0>> \in NodeIds /\ t \in Types
  BY LiveFlowAssumption DEF NodeIds
<1>2. PICK n \in FlowNode : n = Fresh(t, <<p, 0>>) /\ n.id = <<p, 0>>
  BY <1>1, FreshTyped
<1>3. PICK x \in Sensors \cup {Undef} : x = IF HasProp(t) THEN s ELSE Undef
  OBVIOUS
<1>4. Bound(p, t, s) = [n EXCEPT !.sensors = {s}, !.prop = x]
  BY <1>2, <1>3 DEF Bound
<1>5. PICK S \in SUBSET Sensors : S = {s}
  OBVIOUS
<1>6. Bound(p, t, s) \in FlowNode /\ Bound(p, t, s).id = n.id
  BY ZenonT(60), <1>4, <1>5 DEF FlowNode, Node
<1> QED BY <1>2, <1>6

LEMMA PanelTyped ==
  ASSUME NEW n \in FlowNode, NEW c \in PanelChanges(n, Sensors, Values)
  PROVE  c \in FlowNode /\ c.id = n.id
<1>1. n.type \in Types
  BY DEF FlowNode, Node
<1>2. CASE \E S \in SUBSET Sensors : c = [n EXCEPT !.sensors = S]
  BY <1>2 DEF FlowNode, Node
<1>3. CASE c \in StatusChanges(n)
  <2>1. PICK s \in Statuses(n.type) : c = [n EXCEPT !.status = s]
    BY <1>3 DEF StatusChanges
  <2>2. s \in (UNION {Statuses(t) : t \in Types}) \cup {"none"}
    BY <1>1, <2>1, StatusIn
  <2> QED BY <2>1, <2>2 DEF FlowNode, Node
<1>4. CASE c \in PropChanges(n, Sensors)
  BY <1>4 DEF PropChanges, FlowNode, Node
<1>5. CASE c \in TankChanges(n, Values)
  BY <1>5 DEF TankChanges, FlowNode, Node
<1>6. CASE c \in SensorChanges(n, Values)
  BY <1>6 DEF SensorChanges, FlowNode, Node
<1> QED BY <1>2, <1>3, <1>4, <1>5, <1>6 DEF PanelChanges

\* The level of a tank is a percentage, whatever its sensor says.
LEMMA TankLevelTyped ==
  ASSUME NEW v \in Values \cup {Undef}, NEW max \in Int
  PROVE  TankLevel(v, 0, max) \in 0..100
<1>1. CASE 0 >= max \/ v = Undef
  BY <1>1 DEF TankLevel
<1>2. CASE ~(0 >= max \/ v = Undef)
  <2> DEFINE percent == (200 * (v - 0) + (max - 0)) \div (2 * (max - 0))
  <2>1. v \in Int /\ max > 0
    BY <1>2, LiveFlowAssumption
  <2>2. percent \in Int
    BY <2>1
  <2>3. TankLevel(v, 0, max) = IF percent < 0 THEN 0
                               ELSE IF percent > 100 THEN 100 ELSE percent
    BY <1>2 DEF TankLevel
  <2> HIDE DEF percent
  <2> QED BY <2>2, <2>3
<1> QED BY <1>1, <1>2

LEMMA UpdatedTyped ==
  ASSUME NEW n \in FlowNode, NEW v \in Values \cup {Undef}
  PROVE  Updated(n, v) \in FlowNode /\ Updated(n, v).id = n.id
<1>1. n.type \in Types
  BY DEF FlowNode, Node
<1>2. CASE n.type = "tank"
  <2>0. n.max \in Values
    BY DEF FlowNode, Node
  <2>1. MaxLevel(n) \in Int
    <3>1. \A m \in Values : m \in Int
      BY LiveFlowAssumption
    <3>2. PICK m \in Int : m = n.max
      BY <2>0, <3>1
    <3> QED BY <3>2 DEF MaxLevel
  <2>2. TankLevel(v, 0, MaxLevel(n)) \in 0..100
    BY <2>1, TankLevelTyped
  <2>3. Updated(n, v) = [n EXCEPT !.level = TankLevel(v, 0, MaxLevel(n))]
    BY <1>2 DEF Updated
  <2> QED BY <2>2, <2>3 DEF FlowNode, Node
<1>3. CASE n.type \in {"valve", "conveyor"}
  <2>1. PICK s \in {"open", "closed", "running", "stopped"} :
          Updated(n, v) = [n EXCEPT !.value = v, !.status = s]
    BY <1>3 DEF Updated
  <2>2. /\ {"open", "closed"} \subseteq Statuses("valve")
        /\ {"running", "stopped"} \subseteq Statuses("conveyor")
        /\ "valve" \in Types /\ "conveyor" \in Types
    BY DEF Statuses, Types
  <2>3. s \in (UNION {Statuses(t) : t \in Types}) \cup {"none"}
    BY <2>1, <2>2, StatusIn
  <2> QED BY ZenonT(60), <2>1, <2>3 DEF FlowNode, Node
<1>4. CASE n.type \in {"counter", "rack"}
  <2>1. Updated(n, v) = [n EXCEPT !.value = v]
    BY <1>4 DEF Updated
  <2> QED BY <2>1 DEF FlowNode, Node
<1>5. CASE n.type \notin {"tank", "valve", "conveyor", "counter", "rack"}
  <2>1. Updated(n, v) = n
    BY <1>5 DEF Updated
  <2> QED BY <2>1
<1> QED BY <1>2, <1>3, <1>4, <1>5

-----------------------------------------------------------------------------
(* A query, whatever it is about. *)

LEMMA AskedIs ==
  ASSUME NEW Ids, NEW As, NEW q \in Query(Ids, As), q.opt \in Ids
  PROVE  Asked(q) \in Query(Ids, As)
BY DEF Asked, Query

LEMMA ProcessAsked ==
  ASSUME NEW q \in Query(Processes, FlowAnswers), q.opt \in Processes
  PROVE  /\ Asked(q) \in Query(Processes, FlowAnswers)
         /\ Asked(q).get.id = q.opt /\ Asked(q).opt = q.opt
         /\ Asked(q).data = q.data
         /\ Fetching(Asked(q)) /\ ~Arrived(Asked(q))
<1>1. Asked(q).get = [id |-> q.opt, got |-> None]
  BY DEF Asked, Query
<1>2. [id |-> q.opt, got |-> None] # None
  <2>1. [id |-> q.opt, got |-> None] \in
          [id : Processes, got : FlowAnswers \cup {None}]
    OBVIOUS
  <2> QED BY <2>1, FlowNoneAssumption
<1>3. /\ Asked(q).get.id = q.opt /\ Asked(q).get.got = None
      /\ Asked(q).opt = q.opt /\ Asked(q).data = q.data
  BY <1>1 DEF Asked, Query
<1> QED BY <1>1, <1>2, <1>3, AskedIs DEF Fetching, Arrived

LEMMA MountedTyped ==
  ASSUME NEW Ids, NEW As, NEW q \in Query(Ids, As), NEW i \in Ids
  PROVE  Mounted(q, i) \in Query(Ids, As) /\ Mounted(q, i).opt = i
<1> DEFINE r == [q EXCEPT !.opt = i]
<1>1. r \in Query(Ids, As) /\ r.opt = i
  BY DEF Query
<1>2. Mounted(q, i) = r \/ Mounted(q, i) = Asked(r)
  BY DEF Mounted, JoinedOr
<1> HIDE DEF r
<1>3. Asked(r) \in Query(Ids, As) /\ Asked(r).opt = i
  BY ZenonT(60), <1>1, AskedIs DEF Asked, Query
<1> QED BY <1>1, <1>2, <1>3

LEMMA ProcessMounted ==
  ASSUME NEW q \in Query(Processes, FlowAnswers), NEW p \in Processes,
         ~Fetching(q)
  PROVE  /\ Mounted(q, p).data = q.data /\ Mounted(q, p).get.id = p
         /\ Fetching(Mounted(q, p)) /\ ~Arrived(Mounted(q, p))
<1> DEFINE r == [q EXCEPT !.opt = p]
<1>1. r \in Query(Processes, FlowAnswers) /\ r.opt = p /\ r.get = q.get
      /\ r.data = q.data
  BY DEF Query
<1>2. Mounted(q, p) = Asked(r)
  BY <1>1 DEF Mounted, JoinedOr, Fetching
<1> HIDE DEF r
<1> QED BY <1>1, <1>2, ProcessAsked

LEMMA SettledTyped ==
  ASSUME NEW Ids, NEW As, NEW q \in Query(Ids, As), Arrived(q),
         q.get \in [id : Ids, got : As \cup {None}]
  PROVE  /\ Settled(q) \in Query(Ids, As) /\ Settled(q).data = q.get.got
         /\ Settled(q).get = None /\ Settled(q).opt = q.opt
BY DEF Settled, Arrived, Query

LEMMA AnsweredTyped ==
  ASSUME NEW Ids, NEW As, NEW q \in Query(Ids, As), NEW a \in As, Pending(q)
  PROVE  /\ Answered(q, a) \in Query(Ids, As)
         /\ Answered(q, a).get = [q.get EXCEPT !.got = a]
         /\ q.get \in [id : Ids, got : As \cup {None}]
         /\ Answered(q, a).data = q.data /\ Answered(q, a).opt = q.opt
<1>1. q.get \in [id : Ids, got : As \cup {None}]
  BY DEF Pending, Fetching, Query
<1>2. [q.get EXCEPT !.got = a] \in [id : Ids, got : As \cup {None}]
  BY <1>1
<1>3. Answered(q, a).get = [q.get EXCEPT !.got = a]
  BY DEF Answered, Query
<1> QED BY <1>1, <1>2, <1>3 DEF Answered, Query

LEMMA GivenUpIs ==
  ASSUME NEW Ids, NEW As, NEW q \in Query(Ids, As)
  PROVE  /\ GivenUp(q) \in Query(Ids, As) /\ ~Fetching(GivenUp(q))
         /\ GivenUp(q).bad /\ GivenUp(q).data = q.data
         /\ GivenUp(q).opt = q.opt
BY DEF GivenUp, Query, Fetching

-----------------------------------------------------------------------------
(* What an invariant step keeps, by what it leaves alone. *)

\* Each node on the canvas is where one of the same page was.
LEMMA CanvasStep ==
  ASSUME FlowInv, UNCHANGED <<sent, page, process>>, FlowTypes',
         \A p \in Processes : rows'[p].flow = rows[p].flow,
         steps'.opt = steps.opt,
         \A n \in canvas' : \E o \in canvas : n.id = o.id
  PROVE  FlowInv'
<1>1. FlowIsItsOwn' /\ OwnSent'
  BY DEF FlowInv, FlowIsItsOwn, OwnSent, Own
<1>2. OwnQueries'
  <2>1. Arrived(process) =>
          /\ process.get.id \in Processes
          /\ process.get.got = [of |-> process.get.id,
                                flow |-> rows[process.get.id].flow]
    BY DEF FlowInv, OwnQueries, FlowOf, FlowTypes, Arrived, Fetching, Query
  <2> QED BY <2>1 DEF FlowInv, OwnQueries, OwnFlow, FlowOf
<1>3. OwnCanvas'
  BY DEF FlowInv, FlowTypes, OwnCanvas, Own
<1> QED BY <1>1, <1>2, <1>3 DEF FlowInv

\* What the operator uses has loaded and is the page's own.
LEMMA UsedIsOwn ==
  ASSUME FlowInv, Attentive, page' = page, page # None
  PROVE  /\ page \in Processes /\ Own(canvas, page) /\ sent = None
         /\ ~process.bad /\ ~Fetching(process)
BY DEF FlowInv, FlowTypes, Attentive, Quiet, OwnCanvas

LEMMA InitFlow == FlowInit => FlowInv
<1> SUFFICES ASSUME FlowInit PROVE FlowInv
  OBVIOUS
<1>1. PICK f \in [Processes -> UNION {Drawn(p) : p \in Processes}],
           r \in [Processes -> BOOLEAN] :
        /\ \A p \in Processes : f[p] \in Drawn(p)
        /\ rows = [p \in Processes |->
                     [flow |-> f[p], running |-> r[p] /\ f[p] # None]]
  BY DEF FlowInit
<1>2. ASSUME NEW p \in Processes, NEW d \in Drawn(p), d # None
      PROVE  d \in SUBSET FlowNode /\ Own(d, p)
  <2>1. PICK t \in Kit, s \in Sensors : d = {Bound(p, t, s)}
    BY <1>2 DEF Drawn
  <2> QED BY <2>1, BoundTyped DEF Own
<1>3. rows \in [Processes -> [flow : (SUBSET FlowNode) \cup {None},
                              running : BOOLEAN]]
  <2>1. ASSUME NEW p \in Processes PROVE f[p] \in (SUBSET FlowNode) \cup {None}
    <3>1. f[p] # None => f[p] \in SUBSET FlowNode
      BY <1>1, <1>2
    <3> QED BY <3>1, Zenon
  <2> QED BY <1>1, <2>1
<1>4. FlowIsItsOwn
  BY <1>1, <1>2 DEF FlowIsItsOwn, Own
<1>5. /\ streams \in [Processes -> Monitorings \cup {None}]
      /\ subs \subseteq Monitorings /\ nodes \in [Monitorings -> SUBSET LiveNode]
  <2>1. \A p \in Processes : <<p, 0>> \in Monitorings
    BY LiveFlowAssumption DEF Monitorings
  <2>2. /\ streams = [p \in Processes |-> IF rows[p].running THEN <<p, 0>> ELSE None]
        /\ subs = {<<p, 0>> : p \in {q \in Processes : rows[q].running}}
        /\ nodes = [m \in Monitorings |->
                      IF m \in subs THEN Streamed(rows[m[1]].flow) ELSE {}]
    BY DEF FlowInit
  <2>3. streams \in [Processes -> Monitorings \cup {None}] /\ subs \subseteq Monitorings
    BY <2>1, <2>2
  <2>4. ASSUME NEW m \in subs PROVE Streamed(rows[m[1]].flow) \in SUBSET LiveNode
    <3>1. PICK p \in Processes : m = <<p, 0>> /\ rows[p].running
      BY <2>2, <2>4
    <3>2. f[p] # None /\ rows[p].flow = f[p]
      BY <1>1, <3>1
    <3>3. rows[p].flow \in SUBSET FlowNode
      BY <1>1, <1>2, <3>2
    <3>4. m[1] = p
      BY <3>1
    <3> QED BY <3>3, <3>4 DEF Streamed, LiveNode
  <2>5. ASSUME NEW m \in Monitorings
        PROVE  (IF m \in subs THEN Streamed(rows[m[1]].flow) ELSE {})
                 \in SUBSET LiveNode
    <3>1. CASE m \in subs
      BY <2>4, <3>1
    <3>2. CASE m \notin subs
      BY <3>2
    <3> QED BY <3>1, <3>2
  <2> QED BY <2>2, <2>3, <2>5
<1>6. NoQuery \in Query(Processes, FlowAnswers)
      /\ NoQuery \in Query(Processes, StatusAnswers)
      /\ NoQuery.data = None /\ ~Fetching(NoQuery)
  BY DEF NoQuery, Query, Fetching
<1>7. /\ preds = {} /\ loops = <<>> /\ wire = <<>> /\ orders = <<>>
      /\ sent = None /\ page = None /\ teller = None /\ doubt = {}
      /\ process = NoQuery /\ steps = NoQuery /\ canvas = {} /\ panel = None
      /\ isRunning = FALSE /\ heard = {} /\ acts = 0
  BY DEF FlowInit
<1>8. FlowTypes
  <2>1. /\ loops \in Seq(Monitorings \cup {None}) /\ wire \in Seq(Message \cup {Notice})
        /\ orders \in Seq(Order_) /\ acts \in 0..MaxActs
    BY <1>7, LiveFlowAssumption
  <2> QED BY <2>1, <1>3, <1>5, <1>6, <1>7 DEF FlowTypes
<1>9. OwnSent /\ OwnQueries /\ OwnCanvas
  BY <1>6, <1>7 DEF OwnSent, OwnQueries, OwnCanvas, Arrived
<1> QED BY <1>4, <1>8, <1>9 DEF FlowInv

-----------------------------------------------------------------------------
(* The operator's steps. *)

LEMMA OpenFlowStep ==
  ASSUME FlowInv, NEW p \in Processes, OpenFlow(p), Attentive
  PROVE  FlowInv'
<1>1. page = None /\ page' = p /\ sent = None /\ sent' = sent /\ rows' = rows
      /\ ~Fetching(process)
  BY DEF OpenFlow, Attentive, Quiet, server, net, told
<1>2. /\ process' \in Query(Processes, FlowAnswers) /\ process'.opt = p
      /\ process'.data = process.data /\ process'.get.id = p
      /\ Fetching(process') /\ ~Arrived(process')
  BY <1>1, MountedTyped, ProcessMounted DEF OpenFlow, FlowInv, FlowTypes
<1>3. steps' \in Query(Processes, StatusAnswers) /\ steps'.opt = p
  BY MountedTyped DEF OpenFlow, FlowInv, FlowTypes
<1>4. canvas' = CanvasOf(process, {}) /\ canvas' \subseteq FlowNode
  BY DEF OpenFlow, CanvasOf, FlowInv, FlowTypes, Query, FlowAnswers
<1>5. isRunning' \in BOOLEAN /\ panel' = None /\ heard' = {} /\ teller' = None
  BY DEF OpenFlow, StatusShown, FlowInv, FlowTypes, Query, StatusAnswers
<1>6. FlowTypes'
  BY <1>1, <1>2, <1>3, <1>4, <1>5
     DEF OpenFlow, FlowInv, FlowTypes, server, net, told
<1>7. FlowIsItsOwn' /\ OwnSent'
  BY <1>1 DEF FlowInv, FlowIsItsOwn, OwnSent
<1>8. OwnQueries'
  <2>1. process'.data # None => OwnFlow(process'.data)
    BY <1>2 DEF FlowInv, OwnQueries
  <2>2. page' # None /\ process'.get.id = page' /\ process'.opt = page'
        /\ steps'.opt = page' /\ ~Arrived(process')
    BY <1>1, <1>2, <1>3, LiveFlowAssumption
  <2> QED BY <2>1, <2>2 DEF OwnQueries
<1>9. OwnCanvas'
  <2>1. \/ rows[p].flow # None
        \/ process.data = None
        \/ process.data.flow = None
    BY <1>1 DEF Attentive
  <2>2. rows[p].flow # None \/ canvas' = {}
    BY <1>4, <2>1 DEF CanvasOf
  <2>3. rows'[p].flow # None \/ Own(canvas', p)
    BY <1>1, <2>2 DEF Own
  <2> QED BY <1>1, <1>2, <2>1, <2>3 DEF OwnCanvas
<1> QED BY <1>6, <1>7, <1>8, <1>9 DEF FlowInv

LEMMA LeaveFlowStep ==
  ASSUME FlowInv, LeaveFlow, Attentive
  PROVE  FlowInv'
<1>1. /\ page' = None /\ sent = None /\ ~Fetching(process)
      /\ UNCHANGED <<rows, streams, subs, nodes, preds, loops, wire, orders, sent,
                     process, steps, doubt, acts>>
      /\ canvas' = {} /\ panel' = None /\ isRunning' = FALSE
      /\ heard' = {} /\ teller' = None
  BY DEF LeaveFlow, Attentive, Quiet, server, net, told
<1>2. FlowTypes'
  BY <1>1 DEF FlowInv, FlowTypes
<1>3. FlowIsItsOwn' /\ OwnSent' /\ OwnCanvas'
  BY <1>1 DEF FlowInv, FlowIsItsOwn, OwnSent, OwnCanvas
<1>4. OwnQueries'
  BY <1>1 DEF FlowInv, OwnQueries, OwnFlow, Fetching, Arrived
<1> QED BY <1>2, <1>3, <1>4 DEF FlowInv

LEMMA DropStep ==
  ASSUME FlowInv, NEW t \in Palette, onDrop(t), Attentive
  PROVE  FlowInv'
<1>1. /\ page # None /\ page' = page
      /\ UNCHANGED <<rows, streams, subs, nodes, preds, loops, wire, orders,
                     sent, process, steps, panel,
                     isRunning, heard, teller, doubt>>
      /\ acts' = acts + 1 /\ acts < MaxActs
      /\ canvas' = canvas \cup {Fresh(t, <<page, acts'>>)}
  BY DEF onDrop, Acted, server, net, told
<1>2. page \in Processes /\ Own(canvas, page)
  BY <1>1, UsedIsOwn
<1>3. acts' \in 0..MaxActs
  BY <1>1, LiveFlowAssumption DEF FlowInv, FlowTypes
<1>4. <<page, acts'>> \in NodeIds /\ t \in Types
  BY <1>2, <1>3, LiveFlowAssumption DEF NodeIds
<1>5. PICK n \in FlowNode : n = Fresh(t, <<page, acts'>>) /\ n.id[1] = page
  BY <1>4, FreshTyped
<1>6. FlowTypes'
  BY <1>1, <1>3, <1>5 DEF FlowInv, FlowTypes
<1>7. Own(canvas', page)
  BY <1>1, <1>2, <1>5 DEF Own
<1>8. FlowIsItsOwn' /\ OwnSent' /\ OwnQueries' /\ OwnCanvas'
  BY <1>1, <1>7
     DEF FlowInv, FlowIsItsOwn, OwnSent, OwnQueries, OwnFlow, FlowOf, OwnCanvas
<1> QED BY <1>6, <1>8 DEF FlowInv

LEMMA PanelStep ==
  ASSUME FlowInv, panel' \in FlowNode \cup {None}, acts' \in 0..MaxActs,
         UNCHANGED <<server, net, page, process, steps, canvas, isRunning, told, doubt>>
  PROVE  FlowInv'
<1>1. FlowTypes'
  BY DEF FlowInv, FlowTypes, server, net, told
<1> QED BY <1>1, CanvasStep DEF server, net

LEMMA ActedTyped ==
  ASSUME FlowInv, Acted
  PROVE  acts' \in 0..MaxActs
BY LiveFlowAssumption DEF FlowInv, FlowTypes, Acted

LEMMA ClickStep ==
  ASSUME FlowInv, onPaneClick \/ \E n \in canvas : onNodeClick(n)
  PROVE  FlowInv'
<1>1. panel' \in FlowNode \cup {None} /\ acts' \in 0..MaxActs
  BY DEF onPaneClick, onNodeClick, FlowInv, FlowTypes
<1> QED BY <1>1, PanelStep DEF onPaneClick, onNodeClick

LEMMA ChangeStep ==
  ASSUME FlowInv, panel # None,
         NEW c \in PanelChanges(panel, Sensors, Values), handleChange(c)
  PROVE  FlowInv'
<1>1. panel \in FlowNode
  BY DEF FlowInv, FlowTypes
<1>2. panel' \in FlowNode
  BY <1>1, PanelTyped DEF handleChange
<1> QED BY <1>2, ActedTyped, PanelStep DEF handleChange

LEMMA DeleteStep ==
  ASSUME FlowInv, NEW n \in canvas, DeleteNode(n)
  PROVE  FlowInv'
<1>1. /\ UNCHANGED <<rows, streams, subs, nodes, preds, loops, wire, orders,
                     sent, page, process, steps,
                     panel, isRunning, heard, teller, doubt>>
      /\ canvas' \subseteq canvas /\ acts' \in 0..MaxActs
  BY ActedTyped DEF DeleteNode, server, net, told
<1>2. FlowTypes'
  BY <1>1 DEF FlowInv, FlowTypes
<1> QED BY <1>1, <1>2, CanvasStep

LEMMA ApplyStep ==
  ASSUME FlowInv, onNodeUpdate
  PROVE  FlowInv'
<1>1. /\ UNCHANGED <<rows, streams, subs, nodes, preds, loops, wire, orders,
                     sent, page,
                     process, steps, panel, isRunning, teller, doubt, acts>>
      /\ heard' \subseteq heard
      /\ canvas' = {IF n.id = panel.id THEN panel ELSE n : n \in canvas}
      /\ panel # None
  BY DEF onNodeUpdate, server, net, told
<1>2. panel \in FlowNode /\ canvas \subseteq FlowNode
  BY <1>1 DEF FlowInv, FlowTypes
<1>3. canvas' \subseteq FlowNode /\ \A n \in canvas' : \E o \in canvas : n.id = o.id
  BY <1>1, <1>2
<1>4. FlowTypes'
  BY <1>1, <1>3 DEF FlowInv, FlowTypes
<1> QED BY <1>1, <1>3, <1>4, CanvasStep

LEMMA SaveFlowStep ==
  ASSUME FlowInv, saveFlow, Attentive
  PROVE  FlowInv'
<1>1. /\ page # None /\ page' = page
      /\ UNCHANGED <<rows, streams, subs, nodes, preds, loops, wire, orders,
                     process, steps, canvas, panel,
                     isRunning, heard, teller, doubt>>
      /\ sent' = [id |-> page, flow |-> canvas, answer |-> None]
      /\ acts' \in 0..MaxActs
  BY ActedTyped DEF saveFlow, server, shown, told
<1>2. /\ page \in Processes /\ Own(canvas, page)
      /\ ~process.bad /\ ~Fetching(process)
  BY <1>1, UsedIsOwn
<1>3. sent' \in Saving
  BY <1>1, <1>2 DEF Saving, FlowInv, FlowTypes
<1>4. FlowTypes'
  BY <1>1, <1>3 DEF FlowInv, FlowTypes
<1>5. OwnSent'
  BY <1>1, <1>2 DEF OwnSent, Fetching
<1>6. FlowIsItsOwn' /\ OwnQueries' /\ OwnCanvas'
  BY <1>1, <1>2 DEF FlowInv, FlowIsItsOwn, OwnQueries, OwnFlow, FlowOf, OwnCanvas,
                    Fetching, Arrived
<1> QED BY <1>4, <1>5, <1>6 DEF FlowInv

LEMMA OrderStep ==
  ASSUME FlowInv, NEW running \in BOOLEAN, Order(running)
  PROVE  FlowInv'
<1>1. /\ UNCHANGED <<rows, streams, subs, nodes, preds, loops, wire, sent, page,
                     process, steps, canvas,
                     panel, heard, teller, doubt>>
      /\ isRunning' = running /\ acts' \in 0..MaxActs
  BY ActedTyped DEF Order, server, told
<1>2. orders' \in Seq(Order_)
  <2>1. [id |-> page, running |-> running, at |-> acts'] \in Order_
    BY <1>1 DEF Order, Order_, FlowInv, FlowTypes
  <2> QED BY <2>1 DEF Order, FlowInv, FlowTypes
<1>3. FlowTypes'
  BY <1>1, <1>2 DEF FlowInv, FlowTypes
<1> QED BY <1>1, <1>3, CanvasStep

-----------------------------------------------------------------------------
(* The server's steps. *)

LEMMA CommandStep ==
  ASSUME FlowInv, handleCommand
  PROVE  FlowInv'
<1>1. /\ orders # <<>> /\ orders' = Tail(orders)
      /\ UNCHANGED <<preds, loops, wire, sent, page, process, steps, canvas, panel,
                     isRunning, heard, teller, doubt, acts>>
  BY DEF handleCommand, server, shown, told
<1>2. Head(orders) \in Order_ /\ orders' \in Seq(Order_)
  BY <1>1 DEF FlowInv, FlowTypes
<1>3. PICK o \in Order_ : o = Head(orders)
  BY <1>2
<1>4. o.id \in Processes /\ o.running \in BOOLEAN /\ <<o.id, o.at>> \in Monitorings
  BY DEF Order_, Monitorings
<1>5. PICK m \in Monitorings : m = <<o.id, o.at>>
  BY <1>4
<1>6. /\ rows' \in [Processes -> [flow : (SUBSET FlowNode) \cup {None},
                                  running : BOOLEAN]]
      /\ \A p \in Processes : rows'[p].flow = rows[p].flow
      /\ streams' \in [Processes -> Monitorings \cup {None}]
      /\ subs' \subseteq Monitorings /\ nodes' \in [Monitorings -> SUBSET LiveNode]
  <2>1. CASE UNCHANGED server
    BY <2>1 DEF server, FlowInv, FlowTypes
  <2>2. CASE /\ rows[o.id].flow # None
             /\ rows' = [rows EXCEPT ![o.id].running = TRUE]
             /\ streams' = [streams EXCEPT ![o.id] = m]
             /\ subs' = subs \cup {m}
             /\ nodes' = [nodes EXCEPT ![m] = Streamed(rows[o.id].flow)]
    <3>1. Streamed(rows[o.id].flow) \in SUBSET LiveNode
      BY <1>4, <2>2 DEF FlowInv, FlowTypes, Streamed, LiveNode
    <3>2. nodes' \in [Monitorings -> SUBSET LiveNode] /\ subs' \subseteq Monitorings
      BY <2>2, <3>1 DEF FlowInv, FlowTypes
    <3>3. streams' \in [Processes -> Monitorings \cup {None}]
      BY <1>4, <2>2 DEF FlowInv, FlowTypes
    <3>4. /\ rows' \in [Processes -> [flow : (SUBSET FlowNode) \cup {None},
                                      running : BOOLEAN]]
          /\ \A p \in Processes : rows'[p].flow = rows[p].flow
      BY <1>4, <2>2 DEF FlowInv, FlowTypes
    <3> QED BY <3>2, <3>3, <3>4
  <2>3. CASE /\ rows' = [rows EXCEPT ![o.id].running = FALSE]
             /\ streams' = [streams EXCEPT ![o.id] = None]
             /\ subs' = subs \ {streams[o.id]}
             /\ nodes' = nodes
    <3>1. streams' \in [Processes -> Monitorings \cup {None}]
      BY <1>4, <2>3 DEF FlowInv, FlowTypes
    <3>2. /\ rows' \in [Processes -> [flow : (SUBSET FlowNode) \cup {None},
                                      running : BOOLEAN]]
          /\ \A p \in Processes : rows'[p].flow = rows[p].flow
      <4>1. rows \in [Processes -> [flow : (SUBSET FlowNode) \cup {None},
                                   running : BOOLEAN]]
        BY DEF FlowInv, FlowTypes
      <4> QED BY <1>4, <2>3, <4>1
    <3>3. subs' \subseteq Monitorings /\ nodes' \in [Monitorings -> SUBSET LiveNode]
      BY <2>3 DEF FlowInv, FlowTypes
    <3> QED BY <3>1, <3>2, <3>3
  <2>4. \/ UNCHANGED server
        \/ /\ rows[o.id].flow # None
           /\ rows' = [rows EXCEPT ![o.id].running = TRUE]
           /\ streams' = [streams EXCEPT ![o.id] = m]
           /\ subs' = subs \cup {m}
           /\ nodes' = [nodes EXCEPT ![m] = Streamed(rows[o.id].flow)]
        \/ /\ rows' = [rows EXCEPT ![o.id].running = FALSE]
           /\ streams' = [streams EXCEPT ![o.id] = None]
           /\ subs' = subs \ {streams[o.id]}
           /\ nodes' = nodes
    BY ZenonT(60), <1>3, <1>5 DEF handleCommand
  <2> QED BY <2>1, <2>2, <2>3, <2>4
<1>7. FlowTypes'
  BY <1>1, <1>2, <1>6 DEF FlowInv, FlowTypes
<1> QED BY <1>1, <1>6, <1>7, CanvasStep

LEMMA UpdateFlowStep ==
  ASSUME FlowInv, updateFlow
  PROVE  FlowInv'
<1>1. /\ sent # None /\ sent \in Saving
      /\ UNCHANGED <<streams, subs, nodes, preds, loops, wire, orders, page,
                     process, steps, canvas, panel,
                     isRunning, heard, teller, doubt, acts>>
  BY DEF updateFlow, shown, FlowInv, FlowTypes, told
<1>2. /\ Own(sent.flow, sent.id) /\ page = sent.id
      /\ ~process.bad /\ ~Fetching(process)
  BY <1>1 DEF FlowInv, OwnSent
<1>3. sent.id \in Processes /\ sent.flow \in SUBSET FlowNode
  BY <1>1 DEF Saving
<1>4. /\ sent' \in Saving /\ sent'.flow = sent.flow /\ sent'.id = sent.id
  BY <1>1 DEF updateFlow, Saving
<1>5. rows' = rows \/ rows' = [rows EXCEPT ![sent.id].flow = sent.flow]
  BY DEF updateFlow
<1>6. rows' \in [Processes -> [flow : (SUBSET FlowNode) \cup {None},
                               running : BOOLEAN]]
  BY <1>3, <1>5 DEF FlowInv, FlowTypes
<1>7. FlowTypes'
  BY <1>1, <1>4, <1>6 DEF FlowInv, FlowTypes
<1>8. FlowIsItsOwn'
  BY <1>2, <1>3, <1>5 DEF FlowInv, FlowTypes, FlowIsItsOwn, Own
<1>9. OwnSent' /\ OwnQueries' /\ OwnCanvas'
  BY <1>1, <1>2, <1>4
     DEF FlowInv, OwnSent, OwnQueries, OwnFlow, OwnCanvas, Fetching, Arrived
<1> QED BY <1>7, <1>8, <1>9 DEF FlowInv

LEMMA TakeTyped ==
  ASSUME FlowInv, NEW m \in Monitorings, NEW s \in Sensors, NEW v \in Values,
         Take(m, s, v)
  PROVE  nodes' \in [Monitorings -> SUBSET LiveNode]
         /\ loops' \in Seq(Monitorings \cup {None})
<1>1. ASSUME NEW x \in LiveNode PROVE Sampled(x, s, v) \in LiveNode
  BY DEF Sampled, LiveNode
<1>2. nodes[m] \in SUBSET LiveNode
  BY DEF FlowInv, FlowTypes
<1>3. {Sampled(x, s, v) : x \in nodes[m]} \in SUBSET LiveNode
  BY <1>1, <1>2
<1>4. nodes' = [nodes EXCEPT ![m] = {Sampled(x, s, v) : x \in nodes[m]}]
  BY DEF Take
<1>5. nodes' \in [Monitorings -> SUBSET LiveNode]
  BY <1>3, <1>4 DEF FlowInv, FlowTypes
<1>6. loops' \in Seq(Monitorings \cup {None})
  BY DEF Take, FlowInv, FlowTypes
<1> QED BY <1>5, <1>6

LEMMA SampleStep ==
  ASSUME FlowInv, NEW m \in subs, NEW s \in Sensors, NEW v \in Values,
         handleData(m, s, v)
  PROVE  FlowInv'
<1>1. /\ UNCHANGED <<rows, streams, subs, wire, orders, sent, page, process, steps,
                     canvas, panel, isRunning, heard, teller, doubt, acts>>
      /\ \/ Take(m, s, v) /\ UNCHANGED preds
         \/ /\ Await([of |-> m, sensor |-> s, value |-> v])
            /\ UNCHANGED <<nodes, loops>>
  BY DEF handleData, shown, told
<1>2. m \in Monitorings
  BY DEF FlowInv, FlowTypes
<1>3. /\ nodes' \in [Monitorings -> SUBSET LiveNode]
      /\ loops' \in Seq(Monitorings \cup {None}) /\ preds' \subseteq Awaiting
  <2>1. CASE Take(m, s, v) /\ UNCHANGED preds
    BY <1>2, <2>1, TakeTyped DEF FlowInv, FlowTypes
  <2>2. CASE /\ Await([of |-> m, sensor |-> s, value |-> v])
             /\ UNCHANGED <<nodes, loops>>
    BY <1>2, <2>2 DEF Await, Awaiting, FlowInv, FlowTypes
  <2> QED BY <1>1, <2>1, <2>2
<1>4. FlowTypes'
  BY <1>1, <1>3 DEF FlowInv, FlowTypes
<1> QED BY <1>1, <1>4, CanvasStep

LEMMA PredictedStep ==
  ASSUME FlowInv, NEW q \in preds, Predicted(q)
  PROVE  FlowInv'
<1>1. /\ UNCHANGED <<rows, streams, subs, wire, orders, sent, page, process, steps,
                     canvas, panel, isRunning, heard, teller, doubt, acts>>
      /\ Take(q.of, q.sensor, q.value) /\ preds' \subseteq preds
  BY DEF Predicted, shown, told
<1>2. q.of \in Monitorings /\ q.sensor \in Sensors /\ q.value \in Values
  BY DEF FlowInv, FlowTypes, Awaiting
<1>3. FlowTypes'
  <2>1. /\ nodes' \in [Monitorings -> SUBSET LiveNode]
        /\ loops' \in Seq(Monitorings \cup {None})
    BY <1>1, <1>2, TakeTyped
  <2> QED BY <1>1, <2>1 DEF FlowInv, FlowTypes
<1> QED BY <1>1, <1>3, CanvasStep

LEMMA AgentLostStep ==
  ASSUME FlowInv, NEW p \in Processes, AgentLost(p)
  PROVE  FlowInv'
<1>1. /\ UNCHANGED <<streams, subs, nodes, preds, wire, orders, sent, page, process,
                     steps, canvas, panel, isRunning, heard, teller>>
      /\ rows' = [rows EXCEPT ![p].running = FALSE]
      /\ loops' = Append(loops, None) /\ doubt' = {"shown", "fetched"}
      /\ acts' \in 0..MaxActs
  BY ActedTyped DEF AgentLost, told
<1>2. /\ rows' \in [Processes -> [flow : (SUBSET FlowNode) \cup {None},
                                  running : BOOLEAN]]
      /\ \A o \in Processes : rows'[o].flow = rows[o].flow
  BY <1>1 DEF FlowInv, FlowTypes
<1>3. FlowTypes'
  <2>1. loops' \in Seq(Monitorings \cup {None})
    BY <1>1 DEF FlowInv, FlowTypes
  <2>2. doubt' \subseteq {"shown", "fetched"}
    BY <1>1
  <2> QED BY <1>1, <1>2, <2>1, <2>2 DEF FlowInv, FlowTypes
<1> QED BY <1>1, <1>2, <1>3, CanvasStep

LEMMA StepDataTyped ==
  ASSUME FlowInv, NEW m \in Monitorings
  PROVE  StepData(m, nodes[m]) \in Message
<1>1. \A x \in nodes[m] : x.node.id \in NodeIds /\ x.live \in Values \cup {Undef}
  BY DEF FlowInv, FlowTypes, LiveNode, FlowNode, Node
<1>2. {[id |-> x.node.id, live |-> x.live] :
         x \in {y \in nodes[m] : y.node.prop # Undef}}
        \in SUBSET [id : NodeIds, live : Values \cup {Undef}]
  BY <1>1
<1> QED BY <1>2 DEF StepData, Message

LEMMA NotifyStep ==
  ASSUME FlowInv, notifyClients
  PROVE  FlowInv'
<1>1. /\ UNCHANGED <<rows, streams, subs, nodes, preds, orders, sent, page, process,
                     steps, canvas, panel, isRunning, heard, teller, doubt, acts>>
      /\ loops # <<>> /\ loops' = Tail(loops)
  BY DEF notifyClients, server, shown, told
<1>2. PICK m \in Monitorings \cup {None} : m = Head(loops)
  BY <1>1 DEF FlowInv, FlowTypes
<1>3. loops' \in Seq(Monitorings \cup {None})
  BY <1>1 DEF FlowInv, FlowTypes
<1>4. wire' \in Seq(Message \cup {Notice})
  <2>1. PICK x \in Message \cup {Notice} :
          x = IF m = None THEN Notice ELSE StepData(m, nodes[m])
    BY StepDataTyped
  <2>2. wire' = Append(wire, x)
    BY <1>2, <2>1 DEF notifyClients
  <2> QED BY <2>2 DEF FlowInv, FlowTypes
<1>5. FlowTypes'
  BY <1>1, <1>3, <1>4 DEF FlowInv, FlowTypes
<1> QED BY <1>1, <1>5, CanvasStep

LEMMA AnswerProcessStep ==
  ASSUME FlowInv, AnswerProcess
  PROVE  FlowInv'
<1> DEFINE a == FlowOf(process.get.id)
<1>1. /\ Pending(process) /\ process' = Answered(process, a)
      /\ UNCHANGED <<rows, streams, subs, nodes, preds, loops, wire, orders,
                     sent, page, steps, canvas, panel,
                     isRunning, heard, teller, doubt, acts>>
  BY DEF AnswerProcess, server, net, shown, told
<1>2. /\ process.get.id \in Processes /\ Fetching(process) /\ a \in FlowAnswers
      /\ process \in Query(Processes, FlowAnswers)
  BY <1>1 DEF Pending, Fetching, FlowInv, FlowTypes, Query, FlowOf, FlowAnswers
<1> HIDE DEF a
<1>3. /\ process' \in Query(Processes, FlowAnswers)
      /\ process'.get = [process.get EXCEPT !.got = a]
      /\ process.get \in [id : Processes, got : FlowAnswers \cup {None}]
      /\ process'.data = process.data /\ process'.opt = process.opt
  BY <1>1, <1>2, AnsweredTyped
<1>4. /\ process'.get.id = process.get.id /\ process'.get.got = a
      /\ process'.get \in [id : Processes, got : FlowAnswers \cup {None}]
  BY <1>2, <1>3
<1>5. Fetching(process')
  BY <1>4, FlowNoneAssumption DEF Fetching
<1>6. FlowTypes'
  BY <1>1, <1>3 DEF FlowInv, FlowTypes
<1>7. FlowIsItsOwn' /\ OwnSent'
  BY <1>1, <1>2 DEF FlowInv, FlowIsItsOwn, OwnSent
<1>8. OwnQueries'
  <2>1. process'.get.got = [of |-> process'.get.id,
                            flow |-> rows'[process'.get.id].flow]
    BY <1>1, <1>4 DEF a, FlowOf
  <2>2. process'.data # None => OwnFlow(process'.data)
    BY <1>3 DEF FlowInv, OwnQueries
  <2>3. page' # None /\ process'.get.id = page' /\ process'.opt = page'
        /\ steps'.opt = page'
    BY <1>1, <1>2, <1>3, <1>4 DEF FlowInv, OwnQueries
  <2> QED BY <2>1, <2>2, <2>3 DEF OwnQueries, FlowOf
<1>9. OwnCanvas'
  BY <1>1, <1>3, <1>5 DEF FlowInv, OwnCanvas
<1> QED BY <1>6, <1>7, <1>8, <1>9 DEF FlowInv

LEMMA AnswerStepsStep ==
  ASSUME FlowInv, AnswerSteps
  PROVE  FlowInv'
<1>1. /\ Pending(steps) /\ steps' = Answered(steps, StatusOf(steps.get.id))
      /\ UNCHANGED <<rows, streams, subs, nodes, preds, loops, wire, orders,
                     sent, page,
                     process, canvas, panel, isRunning, heard, teller, acts>>
      /\ doubt' \subseteq doubt
  BY DEF AnswerSteps, server, net, shown, told
<1>2. StatusOf(steps.get.id) \in StatusAnswers
  BY <1>1 DEF Pending, Fetching, FlowInv, FlowTypes, Query, StatusOf,
              StatusAnswers
<1>3. steps' \in Query(Processes, StatusAnswers) /\ steps'.opt = steps.opt
  <2>1. steps \in Query(Processes, StatusAnswers)
    BY DEF FlowInv, FlowTypes
  <2>2. PICK a \in StatusAnswers : a = StatusOf(steps.get.id)
    BY <1>2
  <2>3. Pending(steps) /\ steps' = Answered(steps, a)
    BY <1>1, <2>2
  <2>4. /\ Answered(steps, a) \in Query(Processes, StatusAnswers)
        /\ Answered(steps, a).opt = steps.opt
    <3>1. steps.get \in [id : Processes, got : StatusAnswers \cup {None}]
      BY <2>1, <2>3 DEF Pending, Fetching, Query
    <3>2. [steps.get EXCEPT !.got = a] \in
            [id : Processes, got : StatusAnswers \cup {None}]
      BY <3>1
    <3>3. Answered(steps, a).get = [steps.get EXCEPT !.got = a]
      BY <2>1 DEF Answered, Query
    <3> QED BY <2>1, <3>2, <3>3 DEF Answered, Query
  <2> QED BY <2>3, <2>4
<1>4. FlowTypes'
  BY <1>1, <1>3 DEF FlowInv, FlowTypes
<1> QED BY <1>1, <1>3, <1>4, CanvasStep

-----------------------------------------------------------------------------
(* What comes back to the client. *)

LEMMA MessageStep ==
  ASSUME FlowInv, handleMessage
  PROVE  FlowInv'
<1>1. /\ wire # <<>> /\ wire' = Tail(wire) /\ Head(wire) # Notice
      /\ UNCHANGED <<rows, streams, subs, nodes, preds, loops, orders, sent, page,
                     process, steps, panel, isRunning, doubt, acts>>
  BY DEF handleMessage, server
<1>2. Head(wire) \in Message /\ wire' \in Seq(Message \cup {Notice})
  BY <1>1 DEF FlowInv, FlowTypes
<1>3. /\ canvas' \subseteq FlowNode /\ heard' \subseteq NodeIds
      /\ teller' \in Monitorings \cup {None}
      /\ \A n \in canvas' : \E o \in canvas : n.id = o.id
  <2>1. PICK msg \in Message : msg = Head(wire)
    BY <1>2
  <2> DEFINE Of(n) == {x \in msg.nodes : x.id = n.id}
             Set(n) == IF Of(n) = {} THEN n
                       ELSE Updated(n, (CHOOSE x \in Of(n) : TRUE).live)
  <2>2. CASE UNCHANGED <<canvas, told>>
    BY <2>2 DEF told, FlowInv, FlowTypes
  <2>3. CASE msg.from[1] = page
    <3>1. /\ canvas' = {Set(n) : n \in canvas} /\ teller' = msg.from
          /\ heard' = {n.id : n \in {o \in canvas : Of(o) # {}}}
      BY <2>1, <2>3 DEF handleMessage
    <3>2. \A x \in msg.nodes : x.id \in NodeIds /\ x.live \in Values \cup {Undef}
      BY DEF Message
    <3>3. ASSUME NEW n \in FlowNode
          PROVE  Set(n) \in FlowNode /\ Set(n).id = n.id
      <4>1. CASE Of(n) = {}
        BY <4>1
      <4>2. CASE Of(n) # {}
        <5>1. PICK x \in msg.nodes : x = CHOOSE y \in Of(n) : TRUE
          BY <4>2
        <5>2. Set(n) = Updated(n, x.live)
          BY <4>2, <5>1
        <5> QED BY <3>2, <5>2, UpdatedTyped
      <4> QED BY <4>1, <4>2
    <3> HIDE DEF Set
    <3>4. canvas \subseteq FlowNode /\ \A n \in canvas : n.id \in NodeIds
      BY DEF FlowInv, FlowTypes, FlowNode, Node
    <3>5. msg.from \in Monitorings
      BY DEF Message
    <3>6. heard' \subseteq NodeIds
      BY <3>1, <3>4
    <3> HIDE DEF Of
    <3>7. canvas' \subseteq FlowNode /\ \A n \in canvas' : \E o \in canvas : n.id = o.id
      BY <3>1, <3>3, <3>4
    <3> QED BY <3>1, <3>5, <3>6, <3>7
  <2> QED BY <2>1, <2>2, <2>3 DEF handleMessage
<1>4. FlowTypes'
  BY <1>1, <1>2, <1>3 DEF FlowInv, FlowTypes
<1> QED BY <1>1, <1>3, <1>4, CanvasStep

LEMMA DisconStep ==
  ASSUME FlowInv, handleDiscon
  PROVE  FlowInv'
<1>1. /\ wire # <<>> /\ wire' = Tail(wire) /\ isRunning' = FALSE
      /\ UNCHANGED <<rows, streams, subs, nodes, preds, loops, orders, sent, page,
                     process, steps, canvas, panel, heard, teller, doubt, acts>>
  BY DEF handleDiscon, server, told
<1>2. FlowTypes'
  <2>1. wire' \in Seq(Message \cup {Notice})
    BY <1>1 DEF FlowInv, FlowTypes
  <2>2. isRunning' \in BOOLEAN
    BY <1>1
  <2> QED BY <1>1, <2>1, <2>2 DEF FlowInv, FlowTypes
<1> QED BY <1>1, <1>2, CanvasStep

\* The query that brings the status changes, and the page with it.
LEMMA StatusStep ==
  ASSUME FlowInv,
         UNCHANGED <<rows, streams, subs, nodes, preds, loops, wire, orders, page,
                     process, canvas, panel, heard, teller, acts>>,
         doubt' \subseteq doubt, sent' = sent \/ sent' = None,
         steps' \in Query(Processes, StatusAnswers), steps'.opt = steps.opt,
         isRunning' \in BOOLEAN
  PROVE  FlowInv'
<1>1. FlowTypes'
  BY DEF FlowInv, FlowTypes
<1>2. OwnSent'
  BY DEF FlowInv, OwnSent, Own, Fetching
<1>3. FlowIsItsOwn' /\ OwnQueries' /\ OwnCanvas'
  BY DEF FlowInv, FlowIsItsOwn, OwnQueries, OwnFlow, FlowOf, OwnCanvas, Own,
         Fetching, Arrived
<1> QED BY <1>1, <1>2, <1>3 DEF FlowInv

LEMMA ShownTyped ==
  ASSUME NEW q \in Query(Processes, StatusAnswers), FlowInv
  PROVE  StatusShown(q, isRunning) \in BOOLEAN
BY DEF StatusShown, Query, StatusAnswers, FlowInv, FlowTypes

LEMMA SavedStep ==
  ASSUME FlowInv, FlowSaved
  PROVE  FlowInv'
<1>1. /\ UNCHANGED <<rows, streams, subs, nodes, preds, loops, wire, orders,
                     page, process, canvas, panel,
                     heard, teller, doubt, acts>>
      /\ sent' = None
  BY DEF FlowSaved, server, told
<1>2. steps \in Query(Processes, StatusAnswers) /\ isRunning \in BOOLEAN
  BY DEF FlowInv, FlowTypes
<1>3. steps' \in Query(Processes, StatusAnswers) /\ steps'.opt = steps.opt
  <2>1. CASE page = None
    BY <1>2, <2>1 DEF FlowSaved
  <2>2. CASE page # None
    <3>1. steps' = steps \/ steps' = Asked(steps)
      BY <2>2 DEF FlowSaved, Invalidated
    <3>2. steps.opt \in Processes
      BY <2>2 DEF FlowInv, FlowTypes, OwnQueries
    <3>3. Asked(steps).opt = steps.opt
      BY <1>2 DEF Asked, Query
    <3> QED BY <1>2, <3>1, <3>2, <3>3, AskedIs
  <2> QED BY <2>1, <2>2
<1>4. isRunning' \in BOOLEAN
  BY <1>2, ShownTyped DEF FlowSaved, LoadStatus
<1> QED BY <1>1, <1>3, <1>4, StatusStep

LEMMA FlowRefusedStep ==
  ASSUME FlowInv, FlowRefused
  PROVE  FlowInv'
<1>1. /\ UNCHANGED <<rows, streams, subs, nodes, preds, loops, wire, orders,
                     page, process, steps, canvas,
                     panel, isRunning, heard, teller, doubt, acts>>
      /\ sent' = None
  BY DEF FlowRefused, server, shown, told
<1> QED BY <1>1, StatusStep DEF FlowInv, FlowTypes

LEMMA StepsArrivedStep ==
  ASSUME FlowInv, StepsArrived
  PROVE  FlowInv'
<1>1. /\ UNCHANGED <<rows, streams, subs, nodes, preds, loops, wire, orders,
                     sent, page, process, canvas,
                     panel, heard, teller, acts>>
      /\ doubt' \subseteq doubt
      /\ Arrived(steps) /\ steps' = Settled(steps)
  BY DEF StepsArrived, server, net, told
<1>2. steps \in Query(Processes, StatusAnswers) /\ isRunning \in BOOLEAN
  BY DEF FlowInv, FlowTypes
<1>3. steps.get \in [id : Processes, got : StatusAnswers \cup {None}]
  BY <1>1, <1>2 DEF Arrived, Fetching, Query
<1>4. steps' \in Query(Processes, StatusAnswers) /\ steps'.opt = steps.opt
  BY <1>1, <1>2, <1>3, SettledTyped
<1>5. isRunning' \in BOOLEAN
  BY <1>2, <1>4, ShownTyped DEF StepsArrived, LoadStatus
<1> QED BY <1>1, <1>4, <1>5, StatusStep

LEMMA StepsFailStep ==
  ASSUME FlowInv, StepsFail
  PROVE  FlowInv'
<1>1. /\ UNCHANGED <<rows, streams, subs, nodes, preds, loops, wire, orders,
                     sent, page, process, canvas,
                     panel, heard, teller, doubt, acts>>
  BY DEF StepsFail, server, net, told
<1>2. steps \in Query(Processes, StatusAnswers) /\ isRunning \in BOOLEAN
  BY DEF FlowInv, FlowTypes
<1>3. \/ page # None /\ steps' = Asked(steps)
      \/ steps' = GivenUp(steps)
  BY DEF StepsFail, Failed
<1>4. steps' \in Query(Processes, StatusAnswers) /\ steps'.opt = steps.opt
  <2>1. CASE page # None /\ steps' = Asked(steps)
    <3>1. steps.opt \in Processes
      BY <2>1 DEF FlowInv, FlowTypes, OwnQueries
    <3>2. Asked(steps).opt = steps.opt
      BY <1>2 DEF Asked, Query
    <3> QED BY <1>2, <2>1, <3>1, <3>2, AskedIs
  <2>2. CASE steps' = GivenUp(steps)
    BY <1>2, <2>2, GivenUpIs
  <2> QED BY <1>3, <2>1, <2>2
<1>5. isRunning' \in BOOLEAN
  BY <1>2, <1>4, ShownTyped DEF StepsFail, LoadStatus
<1> QED BY <1>1, <1>4, <1>5, StatusStep

LEMMA CanvasTyped ==
  ASSUME NEW q \in Query(Processes, FlowAnswers), FlowInv
  PROVE  CanvasOf(q, canvas) \subseteq FlowNode
BY DEF CanvasOf, Query, FlowAnswers, FlowInv, FlowTypes

\* The flow of the open page comes.
LEMMA ProcessArrivedStep ==
  ASSUME FlowInv, ProcessArrived
  PROVE  FlowInv'
<1>1. /\ Arrived(process) /\ process' = Settled(process)
      /\ UNCHANGED <<rows, streams, subs, nodes, preds, loops, wire, orders,
                     sent, page, steps, panel,
                     isRunning, teller, doubt, acts>>
  BY DEF ProcessArrived, server, net, told
<1>2. process \in Query(Processes, FlowAnswers)
  BY DEF FlowInv, FlowTypes
<1>3. process.get \in [id : Processes, got : FlowAnswers \cup {None}]
  BY <1>1, <1>2 DEF Arrived, Fetching, Query
<1>4. /\ page # None /\ page \in Processes /\ process.get.id = page
      /\ process.get.got = FlowOf(page) /\ process.opt = page /\ steps.opt = page
  BY <1>1 DEF FlowInv, FlowTypes, OwnQueries, Arrived
<1>5. /\ process' \in Query(Processes, FlowAnswers)
      /\ process'.data = FlowOf(page) /\ process'.get = None
      /\ process'.opt = page
  BY <1>1, <1>2, <1>3, <1>4, SettledTyped
<1>6. sent = None
  BY <1>1 DEF FlowInv, OwnSent, Arrived
<1>7. canvas' = CanvasOf(process', canvas)
      /\ (heard' = heard \/ heard' = {})
  BY <1>4 DEF ProcessArrived, LoadFlow
<1>8. FlowTypes'
  BY <1>1, <1>5, <1>7, CanvasTyped DEF FlowInv, FlowTypes
<1>9. FlowIsItsOwn' /\ OwnSent'
  BY <1>1, <1>6 DEF FlowInv, FlowIsItsOwn, OwnSent
<1>10. OwnFlow(FlowOf(page))
  BY <1>4 DEF FlowInv, FlowIsItsOwn, OwnFlow, FlowOf, Own
<1>11. OwnQueries'
  <2>1. ~Fetching(process')
    BY <1>5 DEF Fetching
  <2>2. page' = page /\ steps' = steps
    BY <1>1
  <2> QED BY <1>4, <1>5, <1>10, <2>1, <2>2 DEF OwnQueries, Arrived
<1>12. Own(canvas', page)
  <2>1. CASE rows[page].flow = None
    <3>1. Own(canvas, page)
      BY <1>4, <2>1 DEF FlowInv, OwnCanvas
    <3>2. FlowOf(page).flow = None
      BY <2>1 DEF FlowOf
    <3>3. canvas' = canvas
      BY <1>5, <1>7, <3>2 DEF CanvasOf
    <3> QED BY <3>1, <3>3
  <2>2. CASE rows[page].flow # None
    <3>1. canvas' = rows[page].flow \/ process'.data = None
      BY <1>5, <1>7, <2>2 DEF CanvasOf, FlowOf
    <3>2. process'.data # None
      BY <1>1, <1>4, <1>5 DEF Arrived
    <3> QED BY <1>4, <2>2, <3>1, <3>2 DEF FlowInv, FlowIsItsOwn, Own
  <2> QED BY <2>1, <2>2
<1>13. OwnCanvas'
  <2>1. process'.data.of = page
    BY <1>5 DEF FlowOf
  <2> QED BY <1>1, <1>12, <2>1 DEF OwnCanvas
<1> QED BY <1>8, <1>9, <1>11, <1>13 DEF FlowInv

\* The flow could not be fetched: the page asks again, or is to be left.
LEMMA ProcessFailsStep ==
  ASSUME FlowInv, ProcessFails
  PROVE  FlowInv'
<1>1. /\ Fetching(process)
      /\ UNCHANGED <<rows, streams, subs, nodes, preds, loops, wire, orders,
                     sent, page, steps, panel,
                     isRunning, teller, doubt, acts>>
  BY DEF ProcessFails, server, net, Pending, told
<1>2. process \in Query(Processes, FlowAnswers) /\ canvas \subseteq FlowNode
      /\ heard \subseteq NodeIds
  BY DEF FlowInv, FlowTypes
<1>3. /\ page # None /\ page \in Processes /\ process.opt = page
      /\ steps.opt = page
  BY <1>1 DEF FlowInv, FlowTypes, OwnQueries
<1>4. sent = None
  BY <1>1 DEF FlowInv, OwnSent
<1>5. /\ process' \in Query(Processes, FlowAnswers)
      /\ process'.data = process.data /\ process'.opt = page
      /\ canvas' \subseteq FlowNode /\ heard' \subseteq NodeIds
      /\ ~Arrived(process')
      /\ Fetching(process') => process'.get.id = page
      /\ Fetching(process') \/ process'.bad
  <2>1. CASE process' = Asked(process) /\ UNCHANGED <<canvas, heard, teller, doubt>>
    BY <1>2, <1>3, <2>1, ProcessAsked
  <2>2. CASE process' = GivenUp(process) /\ LoadFlow(process')
    <3>1. /\ process' \in Query(Processes, FlowAnswers) /\ ~Fetching(process')
          /\ process'.bad /\ process'.data = process.data
          /\ process'.opt = process.opt
      BY <1>2, <2>2, GivenUpIs
    <3>2. canvas' \subseteq FlowNode /\ heard' \subseteq NodeIds
      BY <1>2, <2>2, <3>1, CanvasTyped DEF LoadFlow
    <3> QED BY <1>3, <3>1, <3>2 DEF Arrived
  <2> QED BY <1>3, <2>1, <2>2 DEF ProcessFails, Failed
<1>6. FlowTypes'
  BY <1>1, <1>5 DEF FlowInv, FlowTypes
<1>7. FlowIsItsOwn' /\ OwnSent'
  BY <1>1, <1>4 DEF FlowInv, FlowIsItsOwn, OwnSent
<1>8. OwnQueries'
  <2>1. process'.data # None => OwnFlow(process'.data)
    BY <1>5 DEF FlowInv, OwnQueries
  <2>2. page' = page /\ steps' = steps
    BY <1>1
  <2> QED BY <1>3, <1>5, <2>1, <2>2 DEF OwnQueries
<1>9. OwnCanvas'
  <2>1. CASE rows[page].flow = None
    <3>1. Own(canvas, page)
      BY <1>3, <2>1 DEF FlowInv, OwnCanvas
    <3>2. /\ process.data # None =>
               process.data.flow = None \/ process.data.of = page
          /\ process.data # None => OwnFlow(process.data)
      BY <1>3, <2>1 DEF FlowInv, OwnCanvas, OwnQueries
    <3>3. Own(canvas', page)
      <4>1. canvas' = canvas \/ canvas' = CanvasOf(process', canvas)
        BY <1>3 DEF ProcessFails, LoadFlow
      <4> QED BY <1>5, <3>1, <3>2, <4>1 DEF CanvasOf, OwnFlow
    <3> QED BY <1>1, <1>5, <3>2, <3>3 DEF OwnCanvas
  <2>2. CASE rows[page].flow # None
    BY <1>1, <1>5, <2>2 DEF OwnCanvas
  <2> QED BY <2>1, <2>2
<1> QED BY <1>6, <1>7, <1>8, <1>9 DEF FlowInv

-----------------------------------------------------------------------------
(* The invariant. *)

LEMMA OperatorKeeps ==
  ASSUME FlowInv, Operator, Attentive
  PROVE  FlowInv'
<1>1. CASE LeaveFlow
  BY <1>1, LeaveFlowStep
<1>2. CASE onPaneClick \/ \E n \in canvas : onNodeClick(n)
  BY <1>2, ClickStep
<1>3. CASE onNodeUpdate
  BY <1>3, ApplyStep
<1>4. CASE saveFlow
  BY <1>4, SaveFlowStep
<1>5. CASE handleStart \/ handlePause
  BY <1>5, OrderStep DEF handleStart, handlePause
<1>6. CASE \E p \in Processes : OpenFlow(p)
  BY <1>6, OpenFlowStep
<1>7. CASE \E t \in Palette : onDrop(t)
  BY <1>7, DropStep
<1>8. CASE \E n \in canvas : DeleteNode(n)
  BY <1>8, DeleteStep
<1>9. CASE panel # None /\
           \E c \in PanelChanges(panel, Sensors, Values) : handleChange(c)
  BY <1>9, ChangeStep
<1> QED BY <1>1, <1>2, <1>3, <1>4, <1>5, <1>6, <1>7, <1>8, <1>9 DEF Operator

LEMMA NextKeeps ==
  ASSUME FlowInv, AttentiveFlowNext
  PROVE  FlowInv'
<1>1. CASE Operator /\ Attentive
  BY <1>1, OperatorKeeps
<1>2. CASE Server
  BY <1>2, CommandStep, UpdateFlowStep, AnswerProcessStep, AnswerStepsStep,
     SampleStep, PredictedStep, AgentLostStep, NotifyStep DEF Server
<1>3. CASE Client
  BY <1>3, MessageStep, DisconStep, SavedStep, FlowRefusedStep, ProcessArrivedStep,
     StepsArrivedStep, ProcessFailsStep, StepsFailStep DEF Client
<1> QED BY <1>1, <1>2, <1>3 DEF AttentiveFlowNext

LEMMA StutterKeeps ==
  ASSUME FlowInv, UNCHANGED flowVars
  PROVE  FlowInv'
<1>1. UNCHANGED <<rows, streams, subs, nodes, preds, loops, wire, orders, sent,
                  page, process, steps, canvas,
                  panel, isRunning, heard, teller, doubt, acts>>
  BY DEF flowVars, server, net, shown, told
<1>2. FlowTypes'
  BY <1>1 DEF FlowInv, FlowTypes
<1> QED BY <1>1, <1>2, CanvasStep

THEOREM FlowInvariant == AttentiveFlowSpec => []FlowInv
<1>1. FlowInv /\ [AttentiveFlowNext]_flowVars => FlowInv'
  BY NextKeeps, StutterKeeps
<1> QED BY <1>1, InitFlow, PTL DEF AttentiveFlowSpec

\* Rows, messages, queries and nodes keep their types, for any processes,
\* sensors, values and flows: a tank's level is always a percentage, and no
\* message names a node that is none (calculateTankLevel, handleMessage).
THEOREM FlowTypesHold == AttentiveFlowSpec => []FlowTypes
<1>1. FlowInv => FlowTypes
  BY DEF FlowInv
<1> QED BY <1>1, FlowInvariant, PTL

\* No node drawn on one process's page gets into the flow saved for another
\* (the effect that loads the flow, the cached answer, the save).
THEOREM FlowsAreTheirOwn == AttentiveFlowSpec => []FlowIsItsOwn
<1>1. FlowInv => FlowIsItsOwn
  BY DEF FlowInv
<1> QED BY <1>1, FlowInvariant, PTL

-----------------------------------------------------------------------------
(* What the page takes the process for. *)

\* At most one order is under way, for the open page, whose queries rest.
OneOrder ==
  orders # <<>> =>
    \E o \in Order_ :
      /\ orders = <<o>> /\ page # None /\ o.id = page
      /\ doubt = {} => o.running = isRunning
      /\ rows[page].flow # None /\ sent = None
      /\ ~Fetching(process) /\ ~Fetching(steps) /\ ~process.bad /\ ~steps.bad

\* The status that is fetched is that of the open page, as it still is if no
\* agent was lost since.
OwnStatus ==
  Fetching(steps) =>
    /\ page # None /\ steps.get.id = page
    /\ steps.get.got # None =>
         steps.get.got = StatusOf(page) \/ "fetched" \in doubt

\* The page is right about the process unless it has asked or ordered, or an
\* agent was lost.
RightStatus ==
  page # None /\ orders = <<>> /\ ~Fetching(steps) /\ ~steps.bad /\ doubt = {}
    => isRunning = rows[page].running

\* Nothing else than a loss stops a page that has not asked for it.
Doubted ==
  /\ doubt # {} => "shown" \in doubt
  /\ NoticeUnderWay => doubt # {}

Running == OneOrder /\ OwnStatus /\ RightStatus
RunInv == FlowInv /\ Running /\ Doubted

LEMMA AppendedIn ==
  ASSUME NEW S, NEW s \in Seq(S), NEW e \in S, NEW i \in DOMAIN Append(s, e)
  PROVE  \/ Append(s, e)[i] = e
         \/ i \in DOMAIN s /\ Append(s, e)[i] = s[i]
OBVIOUS

LEMMA TailIn ==
  ASSUME NEW S, NEW s \in Seq(S), s # <<>>, NEW i \in DOMAIN Tail(s)
  PROVE  i + 1 \in DOMAIN s /\ Tail(s)[i] = s[i + 1]
OBVIOUS

LEMMA StatusAsked ==
  ASSUME NEW q \in Query(Processes, StatusAnswers), q.opt \in Processes
  PROVE  /\ Fetching(Asked(q)) /\ Asked(q).get.id = q.opt
         /\ Asked(q).get.got = None
<1>1. Asked(q).get = [id |-> q.opt, got |-> None]
  BY DEF Asked, Query
<1>2. [id |-> q.opt, got |-> None] \in [id : Processes, got : StatusAnswers \cup {None}]
  OBVIOUS
<1> QED BY <1>1, <1>2, FlowNoneAssumption DEF Fetching

\* Steps that leave the status, its query and the orders alone.
LEMMA RunKept ==
  ASSUME RunInv,
         UNCHANGED <<page, steps, isRunning, orders, doubt>>,
         \A p \in Processes : rows'[p].running = rows[p].running,
         orders = <<>> \/ UNCHANGED <<rows, sent, process>>
  PROVE  Running'
<1>1. OneOrder'
  BY DEF RunInv, Running, OneOrder, Fetching
<1>2. OwnStatus'
  <2>1. Fetching(steps) => page \in Processes
    BY DEF RunInv, Running, OwnStatus, FlowInv, FlowTypes
  <2> QED BY <2>1 DEF RunInv, Running, OwnStatus, Fetching, StatusOf
<1>3. RightStatus'
  BY DEF RunInv, Running, RightStatus, FlowInv, FlowTypes, Fetching
<1> QED BY <1>1, <1>2, <1>3 DEF Running

\* Steps that add no notice and settle no doubt.
LEMMA DoubtKept ==
  ASSUME RunInv, doubt' = doubt, UNCHANGED <<loops, wire>>
  PROVE  Doubted'
BY DEF RunInv, Doubted, NoticeUnderWay

LEMMA InitRun == FlowInit => Running /\ Doubted
BY DEF FlowInit, Running, OneOrder, OwnStatus, RightStatus, NoQuery, Fetching,
       Doubted, NoticeUnderWay

LEMMA OperatorRuns ==
  ASSUME RunInv, Operator, Attentive
  PROVE  Running' /\ Doubted'
<1>0. /\ orders = <<>> /\ sent = None /\ ~Fetching(process) /\ ~Fetching(steps)
      /\ steps \in Query(Processes, StatusAnswers)
  BY DEF Attentive, Quiet, RunInv, FlowInv, FlowTypes
<1>d. Doubted'
  <2>1. UNCHANGED <<loops, wire, doubt>>
    BY DEF Operator, LeaveFlow, onPaneClick, onNodeUpdate, saveFlow, handleStart,
           handlePause, Order, OpenFlow, onDrop, onNodeClick, DeleteNode,
           handleChange, server, net, shown
  <2> QED BY <2>1, DoubtKept
<1>1. ASSUME UNCHANGED <<page, steps, isRunning, orders, rows, doubt>>
      PROVE  Running'
  BY <1>0, <1>1, RunKept
<1>2. CASE LeaveFlow
  BY <1>0, <1>2, <1>d DEF LeaveFlow, server, net, Running, OneOrder, OwnStatus,
                          RightStatus, Fetching
<1>3. CASE \E p \in Processes : OpenFlow(p)
  <2>1. PICK p \in Processes : OpenFlow(p)
    BY <1>3
  <2>2. PICK q \in Query(Processes, StatusAnswers) :
          q = [steps EXCEPT !.opt = p] /\ q.opt = p /\ q.get = steps.get
    <3>1. /\ [steps EXCEPT !.opt = p] \in Query(Processes, StatusAnswers)
          /\ [steps EXCEPT !.opt = p].opt = p
          /\ [steps EXCEPT !.opt = p].get = steps.get
      BY <1>0 DEF Query
    <3> QED BY <3>1
  <2>3. steps' = Asked(q)
    <3>1. steps' = JoinedOr(q)
      BY <2>1, <2>2 DEF OpenFlow, Mounted
    <3>2. ~Fetching(q)
      BY <1>0, <2>2 DEF Fetching
    <3> QED BY <3>1, <3>2 DEF JoinedOr
  <2>4. Fetching(steps') /\ steps'.get.id = p /\ steps'.get.got = None
    BY <2>2, <2>3, StatusAsked
  <2>5. page' = p /\ orders' = <<>> /\ p # None
    BY <1>0, <2>1, LiveFlowAssumption DEF OpenFlow, net
  <2> QED BY <1>d, <2>4, <2>5 DEF Running, OneOrder, OwnStatus, RightStatus
<1>4. CASE handleStart \/ handlePause
  <2>1. PICK r \in BOOLEAN : Order(r)
    BY <1>4 DEF handleStart, handlePause
  <2>2. /\ page \in Processes /\ page # None /\ isRunning' = r
        /\ orders' = Append(orders, [id |-> page, running |-> r, at |-> acts'])
        /\ UNCHANGED <<rows, sent, page, process, steps>>
    BY <2>1 DEF Order, server, RunInv, FlowInv, FlowTypes
  <2>3. PICK o \in Order_ : o = [id |-> page, running |-> r, at |-> acts']
    <3>1. acts' \in 0..MaxActs
      BY <2>1, ActedTyped DEF Order, RunInv
    <3> QED BY <2>2, <3>1 DEF Order_
  <2>4. orders' = <<o>> /\ o.id = page /\ o.running = r
    BY <1>0, <2>2, <2>3
  <2>5. ~process.bad /\ ~steps.bad /\ rows[page].flow # None
    BY <1>0, <2>2, <2>4 DEF Attentive
  <2>6. OneOrder'
    BY <1>0, <2>2, <2>4, <2>5 DEF OneOrder, Fetching
  <2> QED BY <1>0, <1>d, <2>2, <2>4, <2>6 DEF Running, OwnStatus, RightStatus, Fetching
<1>5. CASE saveFlow
  BY <1>1, <1>5, <1>d DEF saveFlow, server, shown
<1>6. CASE onPaneClick \/ onNodeUpdate
  BY <1>1, <1>6, <1>d DEF onPaneClick, onNodeUpdate, server, net
<1>7. CASE \/ \E t \in Palette : onDrop(t)
           \/ \E n \in canvas : onNodeClick(n) \/ DeleteNode(n)
           \/ \E c \in PanelChanges(panel, Sensors, Values) : handleChange(c)
  BY <1>1, <1>7, <1>d DEF onDrop, onNodeClick, DeleteNode, handleChange, server, net
<1> QED BY <1>2, <1>3, <1>4, <1>5, <1>6, <1>7 DEF Operator

LEMMA CommandRuns ==
  ASSUME RunInv, handleCommand
  PROVE  Running' /\ Doubted'
<1>1. PICK o \in Order_ :
        /\ orders = <<o>> /\ page # None /\ o.id = page
        /\ doubt = {} => o.running = isRunning
        /\ rows[page].flow # None /\ ~Fetching(steps)
  BY DEF handleCommand, RunInv, Running, OneOrder
<1>2. /\ orders' = <<>> /\ UNCHANGED <<page, steps, isRunning, loops, wire, doubt>>
      /\ page \in Processes
  BY <1>1 DEF handleCommand, shown, RunInv, FlowInv, FlowTypes
<1>3. rows' = [rows EXCEPT ![page].running = o.running]
  <2>1. Head(orders) = o /\ o.running \in BOOLEAN
    BY <1>1 DEF Order_
  <2> QED BY <1>1, <2>1 DEF handleCommand
<1>4. rows'[page].running = o.running
  BY <1>2, <1>3 DEF RunInv, FlowInv, FlowTypes
<1>5. Running'
  BY <1>1, <1>2, <1>4 DEF Running, OneOrder, OwnStatus, RightStatus, Fetching
<1> QED BY <1>2, <1>5, DoubtKept

\* While the status is fetched, no order is under way.
LEMMA NoOrder ==
  ASSUME RunInv, Fetching(steps) \/ Fetching(process) \/ sent # None
  PROVE  orders = <<>>
BY DEF RunInv, Running, OneOrder

LEMMA AnswerStatusRuns ==
  ASSUME RunInv, AnswerSteps
  PROVE  Running' /\ Doubted'
<1>1. /\ Fetching(steps) /\ steps' = Answered(steps, StatusOf(page))
      /\ UNCHANGED <<rows, orders, loops, wire, page, isRunning>>
      /\ steps.get.id = page /\ doubt' = doubt \ {"fetched"}
      /\ orders = <<>> /\ page # None /\ page \in Processes
  BY NoOrder DEF AnswerSteps, Pending, server, net, RunInv, Running, OwnStatus,
                 FlowInv, FlowTypes
<1>2. StatusOf(page) \in StatusAnswers
  BY <1>1 DEF RunInv, FlowInv, FlowTypes, StatusOf, StatusAnswers
<1>3. PICK a \in StatusAnswers : a = StatusOf(page)
  BY <1>2
<1>4. steps.get \in [id : Processes, got : StatusAnswers \cup {None}]
  BY <1>1 DEF Fetching, RunInv, FlowInv, FlowTypes, Query
<1>5. steps'.get = [steps.get EXCEPT !.got = a]
  BY <1>1, <1>3 DEF Answered, RunInv, FlowInv, FlowTypes, Query
<1>6. /\ steps'.get \in [id : Processes, got : StatusAnswers \cup {None}]
      /\ steps'.get.id = page /\ steps'.get.got = a
  BY <1>1, <1>4, <1>5
<1>7. Fetching(steps')
  BY <1>6, FlowNoneAssumption DEF Fetching
<1>8. a = [of |-> page, running |-> rows'[page].running]
  BY <1>1, <1>3 DEF StatusOf
<1>9. Running'
  BY <1>1, <1>6, <1>7, <1>8 DEF Running, OneOrder, OwnStatus, RightStatus, StatusOf
<1>10. Doubted'
  BY <1>1 DEF RunInv, Doubted, NoticeUnderWay
<1> QED BY <1>9, <1>10

LEMMA StatusArrivedRuns ==
  ASSUME RunInv, StepsArrived
  PROVE  Running' /\ Doubted'
<1>1. /\ Fetching(steps) /\ steps' = Settled(steps) /\ orders = <<>>
      /\ UNCHANGED <<rows, loops, wire, orders, page>>
      /\ page # None /\ page \in Processes
      /\ steps.get.got = StatusOf(page) \/ "fetched" \in doubt
      /\ LoadStatus(steps')
      /\ doubt' = IF "fetched" \in doubt \/ NoticeUnderWay THEN doubt ELSE {}
  BY NoOrder DEF StepsArrived, Arrived, server, net, RunInv, Running, OwnStatus,
                 FlowInv, FlowTypes
<1>2. steps'.data = steps.get.got /\ steps'.get = None
  BY <1>1 DEF Settled, RunInv, FlowInv, FlowTypes, Query
<1>3. doubt' = {} => isRunning' = rows[page].running
  <2>1. StatusOf(page).running = rows[page].running
    BY DEF StatusOf
  <2>2. StatusOf(page) \in StatusAnswers
    BY <1>1 DEF RunInv, FlowInv, FlowTypes, StatusOf, StatusAnswers
  <2>3. Arrived(steps)
    BY DEF StepsArrived
  <2>4. doubt' = {} => "fetched" \notin doubt
    BY <1>1
  <2> QED BY <1>1, <1>2, <2>1, <2>3, <2>4 DEF LoadStatus, StatusShown, Arrived
<1>4. Running'
  BY <1>1, <1>2, <1>3 DEF Running, OneOrder, OwnStatus, RightStatus, Fetching
<1>5. Doubted'
  BY <1>1 DEF RunInv, Doubted, NoticeUnderWay
<1> QED BY <1>4, <1>5

LEMMA StatusFailsRuns ==
  ASSUME RunInv, StepsFail
  PROVE  Running' /\ Doubted'
<1>1. /\ Fetching(steps) /\ orders = <<>>
      /\ UNCHANGED <<rows, loops, wire, orders, page, doubt>>
      /\ page # None /\ page \in Processes
      /\ steps \in Query(Processes, StatusAnswers) /\ steps.opt = page
  BY NoOrder DEF StepsFail, server, net, RunInv, Running, OwnStatus, FlowInv,
                 FlowTypes, OwnQueries
<1>2. CASE steps' = Asked(steps)
  BY <1>1, <1>2, StatusAsked, DoubtKept
     DEF Running, OneOrder, OwnStatus, RightStatus
<1>3. CASE steps' = GivenUp(steps)
  BY <1>1, <1>3, GivenUpIs, DoubtKept
     DEF Running, OneOrder, OwnStatus, RightStatus
<1> QED BY <1>2, <1>3 DEF StepsFail, Failed

LEMMA SavedRuns ==
  ASSUME RunInv, FlowSaved
  PROVE  Running' /\ Doubted'
<1>0. /\ page # None /\ page \in Processes
      /\ steps \in Query(Processes, StatusAnswers) /\ steps.opt = page
  <2>1. sent # None /\ sent \in Saving /\ page = sent.id
    BY DEF FlowSaved, RunInv, FlowInv, FlowTypes, OwnSent
  <2>2. page \in Processes
    BY <2>1 DEF Saving
  <2> QED BY <2>2, LiveFlowAssumption DEF RunInv, FlowInv, FlowTypes, OwnQueries
<1>1. /\ orders = <<>> /\ UNCHANGED <<rows, loops, wire, orders, page, doubt>>
      /\ steps' = Invalidated(steps)
      /\ Fetching(steps) => isRunning' = isRunning
  BY <1>0, NoOrder DEF FlowSaved, server
<1>2. CASE steps' = Asked(steps)
  BY <1>0, <1>1, <1>2, StatusAsked, DoubtKept
     DEF Running, OneOrder, OwnStatus, RightStatus
<1>3. CASE steps' = steps /\ Fetching(steps)
  BY <1>0, <1>1, <1>3, RunKept, DoubtKept
<1> QED BY <1>1, <1>2, <1>3 DEF Invalidated, Loading

\* A loss leaves a doubt, and a notice on its way to settle nothing.
LEMMA LossRuns ==
  ASSUME RunInv, NEW p \in Processes, AgentLost(p)
  PROVE  Running' /\ Doubted'
<1>1. /\ UNCHANGED <<orders, sent, page, process, steps, isRunning>>
      /\ rows' = [rows EXCEPT ![p].running = FALSE]
      /\ doubt' = {"shown", "fetched"}
  BY DEF AgentLost
<1>2. \A o \in Processes : rows'[o].flow = rows[o].flow
  BY <1>1 DEF RunInv, FlowInv, FlowTypes
<1>3. OneOrder'
  BY <1>1, <1>2 DEF RunInv, FlowInv, FlowTypes, Running, OneOrder, Fetching
<1>4. OwnStatus' /\ RightStatus' /\ Doubted'
  BY <1>1 DEF RunInv, Running, OwnStatus, RightStatus, Doubted, Fetching
<1> QED BY <1>3, <1>4 DEF Running

\* The notice that stops the page leaves it in the doubt that is there.
LEMMA DisconRuns ==
  ASSUME RunInv, handleDiscon
  PROVE  Running' /\ Doubted'
<1>1. /\ UNCHANGED <<rows, orders, sent, page, process, steps, loops, doubt>>
      /\ wire # <<>> /\ Head(wire) = Notice /\ wire' = Tail(wire)
  BY DEF handleDiscon, server
<1>2. wire \in Seq(Message \cup {Notice})
  BY DEF RunInv, FlowInv, FlowTypes
<1>3. doubt # {}
  <2>1. 1 \in DOMAIN wire /\ wire[1] = Notice
    BY <1>1, <1>2
  <2> QED BY <2>1 DEF RunInv, Doubted, NoticeUnderWay
<1>4. OneOrder'
  BY <1>1, <1>3 DEF RunInv, Running, OneOrder, Fetching
<1>5. OwnStatus'
  BY <1>1 DEF RunInv, Running, OwnStatus, Fetching, StatusOf
<1>6. RightStatus'
  BY <1>1, <1>3 DEF RightStatus
<1>7. Doubted'
  BY <1>1, <1>3 DEF RunInv, Doubted
<1> QED BY <1>4, <1>5, <1>6, <1>7 DEF Running

\* A loop's message is a notice only if the loop is one's.
LEMMA NotifyRuns ==
  ASSUME RunInv, notifyClients
  PROVE  Running' /\ Doubted'
<1>1. /\ UNCHANGED <<rows, orders, sent, page, process, steps, isRunning, doubt>>
      /\ loops # <<>> /\ loops' = Tail(loops)
  BY DEF notifyClients, server, shown
<1>2. /\ loops \in Seq(Monitorings \cup {None})
      /\ wire \in Seq(Message \cup {Notice}) /\ FlowInv
  BY DEF RunInv, FlowInv, FlowTypes
<1>3. PICK m \in Monitorings \cup {None} : m = Head(loops)
  BY <1>1, <1>2
<1>4. PICK x \in Message \cup {Notice} :
        x = IF m = None THEN Notice ELSE StepData(m, nodes[m])
  BY <1>2, StepDataTyped
<1>5. wire' = Append(wire, x)
  BY <1>3, <1>4 DEF notifyClients
<1>6. x = Notice => m = None
  <2>1. StepData(m, nodes[m]).from = m /\ Notice.from = None
    BY DEF StepData, Notice
  <2> QED BY <1>4, <2>1, FlowNoneAssumption
<1>7. NoticeUnderWay' => NoticeUnderWay
  <2>1. ASSUME NEW i \in DOMAIN loops', loops'[i] = None PROVE NoticeUnderWay
    <3>1. i + 1 \in DOMAIN loops /\ loops[i + 1] = None
      BY <1>1, <1>2, <2>1, TailIn
    <3> QED BY <3>1 DEF NoticeUnderWay
  <2>2. ASSUME NEW i \in DOMAIN wire', wire'[i] = Notice PROVE NoticeUnderWay
    <3>1. x = Notice \/ \E j \in DOMAIN wire : wire[j] = Notice
      BY <1>2, <1>5, <2>2, AppendedIn
    <3>2. 1 \in DOMAIN loops /\ loops[1] = m
      BY <1>1, <1>2, <1>3
    <3> QED BY <1>6, <3>1, <3>2 DEF NoticeUnderWay
  <2> QED BY <2>1, <2>2 DEF NoticeUnderWay
<1>8. Doubted'
  BY <1>1, <1>7 DEF RunInv, Doubted
<1> QED BY <1>1, <1>8, RunKept

LEMMA SampleRuns ==
  ASSUME RunInv,
         \/ \E m \in subs, s \in Sensors, v \in Values : handleData(m, s, v)
         \/ \E q \in preds : Predicted(q)
  PROVE  Running' /\ Doubted'
<1>1. UNCHANGED <<rows, wire, orders, sent, page, process, steps, isRunning, doubt>>
  BY DEF handleData, Predicted, shown
<1>2. PICK m \in Monitorings : loops' = loops \/ loops' = Append(loops, m)
  BY DEF handleData, Predicted, Take, RunInv, FlowInv, FlowTypes, Awaiting
<1>3. loops \in Seq(Monitorings \cup {None})
  BY DEF RunInv, FlowInv, FlowTypes
<1>4. NoticeUnderWay' => NoticeUnderWay
  <2>1. CASE loops' = loops
    BY <1>1, <2>1 DEF NoticeUnderWay
  <2>2. CASE loops' = Append(loops, m)
    <3>1. ASSUME NEW i \in DOMAIN loops', loops'[i] = None
          PROVE  \E j \in DOMAIN loops : loops[j] = None
      BY <1>3, <2>2, <3>1, AppendedIn, FlowNoneAssumption
    <3> QED BY <1>1, <3>1 DEF NoticeUnderWay
  <2> QED BY <1>2, <2>1, <2>2
<1>5. Doubted'
  BY <1>1, <1>4 DEF RunInv, Doubted
<1> QED BY <1>1, <1>5, RunKept

LEMMA OthersRun ==
  ASSUME RunInv,
         \/ updateFlow \/ AnswerProcess \/ handleMessage \/ FlowRefused
         \/ ProcessArrived \/ ProcessFails \/ UNCHANGED flowVars
  PROVE  Running' /\ Doubted'
<1>1. CASE updateFlow
  <2>1. \A p \in Processes : rows'[p].running = rows[p].running
    BY <1>1 DEF updateFlow, RunInv, FlowInv, FlowTypes, Saving
  <2>2. /\ UNCHANGED <<page, steps, isRunning, orders, loops, wire, doubt>>
        /\ orders = <<>>
    BY <1>1, NoOrder DEF updateFlow, shown
  <2> QED BY <2>1, <2>2, RunKept, DoubtKept
<1>2. CASE AnswerProcess \/ ProcessArrived \/ ProcessFails \/ FlowRefused
  <2>1. /\ orders = <<>>
        /\ UNCHANGED <<rows, page, steps, isRunning, orders, loops, wire, doubt>>
    BY <1>2, NoOrder DEF AnswerProcess, ProcessArrived, ProcessFails, FlowRefused,
       Pending, Arrived, server, net, shown
  <2> QED BY <2>1, RunKept, DoubtKept
<1>3. CASE UNCHANGED flowVars
  <2>1. /\ UNCHANGED <<rows, sent, process, page, steps, isRunning, orders>>
        /\ UNCHANGED <<loops, wire, doubt>>
    BY <1>3 DEF flowVars, server, net, shown
  <2> QED BY <2>1, RunKept, DoubtKept
<1>4. CASE handleMessage
  <2>1. /\ UNCHANGED <<rows, sent, process, page, steps, isRunning, orders>>
        /\ UNCHANGED <<loops, doubt>> /\ wire # <<>> /\ wire' = Tail(wire)
    BY <1>4 DEF handleMessage, server
  <2>2. wire \in Seq(Message \cup {Notice})
    BY DEF RunInv, FlowInv, FlowTypes
  <2>3. ASSUME NEW i \in DOMAIN wire', wire'[i] = Notice
        PROVE  \E j \in DOMAIN wire : wire[j] = Notice
    BY <2>1, <2>2, <2>3, TailIn
  <2>4. Doubted'
    BY <2>1, <2>3 DEF RunInv, Doubted, NoticeUnderWay
  <2> QED BY <2>1, <2>4, RunKept
<1> QED BY <1>1, <1>2, <1>3, <1>4

LEMMA RunStep ==
  ASSUME RunInv, [AttentiveFlowNext]_flowVars
  PROVE  RunInv'
<1>1. FlowInv'
  BY NextKeeps, StutterKeeps DEF RunInv
<1>2. CASE Operator /\ Attentive
  BY <1>1, <1>2, OperatorRuns DEF RunInv
<1>3. CASE Server
  <2>1. Running' /\ Doubted'
    BY <1>3, CommandRuns, AnswerStatusRuns, LossRuns, NotifyRuns, SampleRuns,
       OthersRun DEF Server
  <2> QED BY <1>1, <2>1 DEF RunInv
<1>4. CASE Client
  <2>1. Running' /\ Doubted'
    BY <1>4, StatusArrivedRuns, StatusFailsRuns, SavedRuns, DisconRuns, OthersRun
       DEF Client
  <2> QED BY <1>1, <2>1 DEF RunInv
<1>5. CASE UNCHANGED flowVars
  BY <1>1, <1>5, OthersRun DEF RunInv
<1> QED BY <1>2, <1>3, <1>4, <1>5 DEF AttentiveFlowNext

LEMMA RunInvariant == AttentiveFlowSpec => []RunInv
<1>1. FlowInit => RunInv
  BY InitFlow, InitRun DEF RunInv
<1> QED BY <1>1, RunStep, PTL DEF AttentiveFlowSpec

\* In the hands of an attentive operator, and unless an agent was lost since the
\* status was read: when nothing is on its way, the page shows a process as
\* running if and only if it is, although the page takes its own orders for
\* carried out and its status from a cache that all pages share (setIsRunning,
\* the two effects, handleDiscon).
THEOREM PageKnowsStatus == AttentiveFlowSpec => []RunningIsShown
<1>1. RunInv => RunningIsShown
  BY DEF RunInv, Running, RightStatus, RunningIsShown, Quiet
<1> QED BY <1>1, RunInvariant, PTL

-----------------------------------------------------------------------------
(* What the nodes tell. *)

\* No two nodes of a flow have an id, and none was dropped after k acts.
Neat(flow, k) ==
  /\ \A m, n \in flow : m.id = n.id => m = n
  /\ \A n \in flow : n.id[2] <= k

NeatFlows ==
  /\ \A p \in Processes : rows[p].flow # None => Neat(rows[p].flow, acts)
  /\ sent # None => Neat(sent.flow, acts)
  /\ process.data # None =>
       process.data.flow = None \/ Neat(process.data.flow, acts)
  /\ Neat(canvas, acts)

\* A monitoring has a node once, and a value only for one with a sensor's field.
NeatStream(S) ==
  /\ \A x, y \in S : x.node.id = y.node.id => x = y
  /\ \A x \in S : x.live # Undef => x.node.prop # Undef

NeatStreams == \A m \in Monitorings : NeatStream(nodes[m])

HasValues(S) == \E x \in S : x.live # Undef

\* A node that is dropped is not one that a message has set; and the message
\* was of the page's process.
Heard ==
  /\ \A i \in heard : i[2] <= acts
  /\ teller \in Monitorings => teller[1] = page

NotLooping(l, m) == \A i \in DOMAIN l : l[i] # m
NoneOnWire(w, m) == \A i \in DOMAIN w : w[i].from # m

\* The last message of a monitoring tells its values, once it has any, unless
\* another will be sent.
LastMessage ==
  \A i \in DOMAIN wire :
    LET m == wire[i].from IN
      /\ m \in Monitorings /\ NotLooping(loops, m) /\ HasValues(nodes[m])
      /\ \A j \in DOMAIN wire : i < j => wire[j].from # m
      => wire[i] = StepData(m, nodes[m])

\* Without a message on its way of the monitoring that told the canvas last,
\* the canvas tells its values.
AllTold(drawn, heads, S) ==
  \A n \in drawn, x \in S :
    (x.node.id = n.id /\ n.id \in heads /\ x.live # Undef) => Tells(n, x.live)

CanvasTells ==
  /\ page # None /\ teller \in Monitorings
  /\ NotLooping(loops, teller) /\ NoneOnWire(wire, teller)
  => AllTold(canvas, heard, nodes[teller])

Streaming == NeatStreams /\ Heard /\ LastMessage /\ CanvasTells
TellInv == FlowInv /\ NeatFlows /\ Streaming

LEMMA IdTyped ==
  ASSUME NEW n \in FlowNode
  PROVE  n.id \in NodeIds /\ n.id[2] \in 0..MaxActs
BY DEF FlowNode, Node, NodeIds

\* calculateTankLevel rounds to the nearest percent.
LEMMA RoundedLevel ==
  ASSUME NEW v \in Int, NEW max \in Int, 0 < v, v < max
  PROVE  /\ TankLevel(v, 0, max) \in 0..100
         /\ 2 * TankLevel(v, 0, max) * max \in (200 * v - max)..(200 * v + max)
<1> DEFINE a == 200 * (v - 0) + (max - 0)
           b == 2 * (max - 0)
           q == a \div b
<1>1. a \in Int /\ b \in Int /\ b > 0 /\ a = 200 * v + max /\ b = 2 * max
  OBVIOUS
<1>2. TankLevel(v, 0, max) = IF q < 0 THEN 0 ELSE IF q > 100 THEN 100 ELSE q
  <2>1. v # Undef
    BY FlowNoneAssumption
  <2> QED BY <2>1 DEF TankLevel
<1> HIDE DEF a, b
<1>3. q \in Int /\ b * q <= a /\ a < b * q + b
  BY <1>1
<1> HIDE DEF q
<1>4. q >= 0
  <2>1. \A x, y \in Int : x <= -1 /\ y > 0 => y * x + y <= 0
    BY SMTT(30)
  <2>2. CASE q <= -1
    BY <1>1, <1>3, <2>1, <2>2
  <2> QED BY <1>3, <2>2
<1>5. q <= 100
  <2>1. \A x, y \in Int : x >= 101 /\ y > 0 => y * x >= 101 * y
    BY SMTT(30)
  <2>2. CASE q >= 101
    BY <1>1, <1>3, <2>1, <2>2
  <2> QED BY <1>3, <2>2
<1>6. TankLevel(v, 0, max) = q
  BY <1>2, <1>3, <1>4, <1>5
<1>7. 2 * q * max = b * q
  <2>1. \A x, y \in Int : 2 * x * y = (2 * y) * x
    BY SMTT(30)
  <2> QED BY <1>1, <1>3, <2>1
<1>8. 2 * q * max \in Int
  BY <1>3
<1>9. 2 * q * max <= 200 * v + max /\ 200 * v + max < 2 * q * max + 2 * max
  BY <1>1, <1>3, <1>7
<1>10. \A m \in Int : (m <= 200 * v + max /\ 200 * v + max < m + 2 * max)
                        => m \in (200 * v - max)..(200 * v + max)
  OBVIOUS
<1> QED BY <1>3, <1>4, <1>5, <1>6, <1>8, <1>9, <1>10

\* What a message sets is what an operator reads, for every type of node.
LEMMA UpdatedTells ==
  ASSUME NEW n \in FlowNode, NEW v \in Values, v # Undef
  PROVE  Tells(Updated(n, v), v)
<1>0. v \in Int /\ n.type \in Types /\ n.max \in Int
  BY LiveFlowAssumption DEF FlowNode, Node
<1>1. CASE n.type = "tank"
  <2>1. PICK max \in Int : max = MaxLevel(n)
    BY <1>0 DEF MaxLevel
  <2>2. PICK l \in 0..100 : l = TankLevel(v, 0, max)
    BY TankLevelTyped
  <2>3. PICK u \in FlowNode : u = Updated(n, v)
    BY UpdatedTyped
  <2>4. u.type = "tank" /\ u.level = l /\ MaxLevel(u) = max
    BY <1>1, <2>1, <2>2, <2>3 DEF Updated, FlowNode, Node, MaxLevel
  <2>5. Shows(u).percent = l
    <3>1. OrZero(u.level) = l
      BY <2>4, FlowNoneAssumption DEF OrZero
    <3> QED BY <2>4, <3>1 DEF Shows, TankShows
  <2>6. CASE v <= 0 \/ max <= 0
    <3>1. l = 0
      <4>1. CASE max <= 0
        BY <2>2, <4>1 DEF TankLevel
      <4>2. CASE max > 0 /\ v <= 0
        <5> DEFINE q == (200 * (v - 0) + (max - 0)) \div (2 * (max - 0))
        <5>1. q \in Int /\ q <= 0
          <6>1. 200 * (v - 0) + (max - 0) <= max - 0
            BY <1>0, <4>2
          <6>2. \A x, y \in Int : y > 0 /\ x <= y => x \div (2 * y) <= 0
            BY SMTT(30)
          <6> QED BY <1>0, <4>2, <6>1, <6>2
        <5>2. v # Undef /\ ~(0 >= max)
          BY <4>2
        <5>3. l = IF q < 0 THEN 0 ELSE IF q > 100 THEN 100 ELSE q
          BY <2>2, <5>2 DEF TankLevel
        <5> HIDE DEF q
        <5> QED BY <5>1, <5>3
      <4> QED BY <1>0, <2>1, <2>6, <4>1, <4>2
    <3> QED BY <2>3, <2>4, <2>5, <2>6, <3>1 DEF Tells
  <2>7. CASE 0 < v /\ 0 < max /\ max <= v
    <3>1. l = 100
      <4> DEFINE q == (200 * (v - 0) + (max - 0)) \div (2 * (max - 0))
      <4>1. q \in Int /\ q >= 100
        <5>1. \A x, y \in Int : y > 0 /\ x >= 200 * y => x \div (2 * y) >= 100
          BY SMTT(30)
        <5>2. 200 * (v - 0) + (max - 0) >= 200 * (max - 0)
          BY <1>0, <2>7
        <5> QED BY <1>0, <2>7, <5>1, <5>2
      <4>2. l = IF q < 0 THEN 0 ELSE IF q > 100 THEN 100 ELSE q
        BY <2>2, <2>7 DEF TankLevel
      <4> HIDE DEF q
      <4> QED BY <4>1, <4>2
    <3> QED BY <1>0, <2>3, <2>4, <2>5, <2>7, <3>1 DEF Tells
  <2>8. CASE 0 < v /\ v < max
    <3>1. 2 * l * max \in (200 * v - max)..(200 * v + max)
      BY <1>0, <2>2, <2>8, RoundedLevel
    <3>2. ~(v <= 0 \/ max <= 0) /\ ~(v >= max)
      BY <1>0, <2>8
    <3> QED BY <2>3, <2>4, <2>5, <3>1, <3>2 DEF Tells
  <2> QED BY <1>0, <2>6, <2>7, <2>8
<1>2. CASE n.type \in {"valve", "conveyor", "counter", "rack"}
  <2>1. PICK u \in FlowNode : u = Updated(n, v)
    BY UpdatedTyped
  <2>2. /\ u.type = n.type
        /\ n.type = "valve" => u.status = IF v = 0 THEN "closed" ELSE "open"
        /\ n.type = "conveyor" => u.status = IF v = 1 THEN "running" ELSE "stopped"
        /\ n.type \in {"counter", "rack"} => u.value = v
    BY <1>2, <2>1 DEF Updated, FlowNode, Node
  <2>3. n.type \in {"counter", "rack"} => OrZero(u.value) = v
    BY <2>2 DEF OrZero
  <2>4. CASE n.type = "valve"
    BY <2>1, <2>2, <2>4 DEF Tells, Shows, ValveShows
  <2>5. CASE n.type = "conveyor"
    BY <2>1, <2>2, <2>5 DEF Tells, Shows, ConveyorShows
  <2>6. CASE n.type = "counter"
    BY <2>1, <2>2, <2>3, <2>6 DEF Tells, Shows, CounterShows
  <2>7. CASE n.type = "rack"
    BY <2>1, <2>2, <2>3, <2>7 DEF Tells, Shows, RackShows
  <2> QED BY <1>2, <2>4, <2>5, <2>6, <2>7
<1>3. CASE n.type \in {"pump", "motor", "sensor"}
  BY <1>3 DEF Updated, Tells
<1> QED BY <1>0, <1>1, <1>2, <1>3 DEF Types


\* A flow stays neat while the operator acts.
LEMMA NeatLater ==
  ASSUME NEW flow \in SUBSET FlowNode, NEW j \in Nat, NEW k \in Nat, j <= k,
         Neat(flow, j)
  PROVE  Neat(flow, k)
<1>1. \A n \in flow : n.id[2] \in Nat
  BY IdTyped, LiveFlowAssumption
<1> QED BY <1>1 DEF Neat

LEMMA NeatAll ==
  ASSUME FlowInv, NeatFlows, NEW k \in Nat, acts <= k
  PROVE  /\ \A p \in Processes : rows[p].flow # None => Neat(rows[p].flow, k)
         /\ sent # None => Neat(sent.flow, k)
         /\ process.data # None =>
              process.data.flow = None \/ Neat(process.data.flow, k)
         /\ Neat(canvas, k)
<1>0. acts \in Nat
  BY LiveFlowAssumption DEF FlowInv, FlowTypes
<1>1. ASSUME NEW p \in Processes, rows[p].flow # None
      PROVE  Neat(rows[p].flow, k)
  <2>1. rows[p].flow \in SUBSET FlowNode
    BY <1>1 DEF FlowInv, FlowTypes
  <2> QED BY <1>0, <1>1, <2>1, NeatLater DEF NeatFlows
<1>2. ASSUME sent # None PROVE Neat(sent.flow, k)
  <2>1. sent.flow \in SUBSET FlowNode
    BY <1>2 DEF FlowInv, FlowTypes, Saving
  <2> QED BY <1>0, <1>2, <2>1, NeatLater DEF NeatFlows
<1>3. ASSUME process.data # None, process.data.flow # None
      PROVE  Neat(process.data.flow, k)
  <2>1. process.data.flow \in SUBSET FlowNode
    BY <1>3 DEF FlowInv, FlowTypes, Query, FlowAnswers
  <2> QED BY <1>0, <1>3, <2>1, NeatLater DEF NeatFlows
<1>4. Neat(canvas, k)
  BY <1>0, NeatLater DEF NeatFlows, FlowInv, FlowTypes
<1> QED BY <1>1, <1>2, <1>3, <1>4

\* Steps that save, load and cache no flow.
LEMMA NeatKept ==
  ASSUME FlowInv, NeatFlows, acts' \in Nat, acts <= acts',
         \A p \in Processes : rows'[p].flow = rows[p].flow,
         sent' = None \/ (sent # None /\ sent'.flow = sent.flow),
         process'.data = process.data,
         Neat(canvas', acts')
  PROVE  NeatFlows'
<1>1. PICK k \in Nat : k = acts'
  OBVIOUS
<1>2. /\ \A p \in Processes : rows[p].flow # None => Neat(rows[p].flow, k)
      /\ sent # None => Neat(sent.flow, k)
      /\ process.data # None =>
           process.data.flow = None \/ Neat(process.data.flow, k)
  BY <1>1, NeatAll
<1> QED BY <1>1, <1>2 DEF NeatFlows

\* Nodes that change keep their ids.
LEMMA NeatMapped ==
  ASSUME NEW flow, NEW k, Neat(flow, k), NEW f,
         \A n \in flow : f[n].id = n.id
  PROVE  Neat({f[n] : n \in flow}, k)
BY DEF Neat

LEMMA CanvasNeat ==
  ASSUME FlowInv, NeatFlows, NEW q \in Query(Processes, FlowAnswers),
         q.data # None => q.data.flow = None \/ Neat(q.data.flow, acts),
         NEW drawn, Neat(drawn, acts)
  PROVE  Neat(CanvasOf(q, drawn), acts)
BY DEF CanvasOf

LEMMA MessageNodes ==
  ASSUME FlowInv, handleMessage
  PROVE  /\ wire # <<>> /\ Head(wire) \in Message /\ wire' = Tail(wire)
         /\ UNCHANGED <<rows, nodes, loops, sent, page, process, acts>>
         /\ \/ Head(wire).from[1] # page /\ UNCHANGED <<canvas, heard, teller>>
            \/ /\ Head(wire).from[1] = page /\ teller' = Head(wire).from
               /\ \A i \in heard' : \E n \in canvas : i = n.id
               /\ \E f \in [canvas -> FlowNode] :
                    /\ canvas' = {f[n] : n \in canvas}
                    /\ \A n \in canvas : f[n].id = n.id
                    /\ \A n \in canvas :
                         LET of == {x \in Head(wire).nodes : x.id = n.id}
                         IN f[n] = IF of = {} THEN n
                                   ELSE Updated(n, (CHOOSE x \in of : TRUE).live)
<1>1. wire # <<>> /\ Head(wire) \in Message /\ wire' = Tail(wire)
  <2>1. wire # <<>> /\ Head(wire) # Notice /\ wire' = Tail(wire)
    BY DEF handleMessage
  <2> QED BY <2>1 DEF FlowInv, FlowTypes
<1>2. UNCHANGED <<rows, nodes, loops, sent, page, process, acts>>
  BY DEF handleMessage, server
<1>3. PICK msg \in Message : msg = Head(wire)
  BY <1>1
<1> DEFINE Of(n) == {x \in msg.nodes : x.id = n.id}
           Set(n) == IF Of(n) = {} THEN n
                     ELSE Updated(n, (CHOOSE x \in Of(n) : TRUE).live)
<1>4. CASE msg.from[1] # page
  BY <1>1, <1>2, <1>3, <1>4 DEF handleMessage, told
<1>5. CASE msg.from[1] = page
  <2>1. /\ canvas' = {Set(n) : n \in canvas} /\ teller' = msg.from
        /\ heard' = {n.id : n \in {o \in canvas : Of(o) # {}}}
    BY <1>3, <1>5 DEF handleMessage
  <2>2. \A x \in msg.nodes : x.live \in Values \cup {Undef}
    BY DEF Message
  <2>3. ASSUME NEW n \in FlowNode
        PROVE  Set(n) \in FlowNode /\ Set(n).id = n.id
    <3>1. CASE Of(n) = {}
      BY <3>1
    <3>2. CASE Of(n) # {}
      <4>1. PICK x \in msg.nodes : x = CHOOSE y \in Of(n) : TRUE
        BY <3>2
      <4>2. Set(n) = Updated(n, x.live)
        BY <3>2, <4>1
      <4> QED BY <2>2, <4>2, UpdatedTyped
    <3> QED BY <3>1, <3>2
  <2>4. \A n \in canvas :
          Set(n) = LET of == {x \in Head(wire).nodes : x.id = n.id}
                   IN IF of = {} THEN n
                      ELSE Updated(n, (CHOOSE x \in of : TRUE).live)
    BY <1>3
  <2> HIDE DEF Set
  <2>5. canvas \subseteq FlowNode
    BY DEF FlowInv, FlowTypes
  <2>6. PICK f \in [canvas -> FlowNode] : f = [n \in canvas |-> Set(n)]
    BY <2>3, <2>5
  <2>7. \A n \in canvas : f[n] = Set(n) /\ f[n].id = n.id
    BY <2>3, <2>5, <2>6
  <2>8. canvas' = {f[n] : n \in canvas}
    BY <2>1, <2>7
  <2>9. \A i \in heard' : \E n \in canvas : i = n.id
    BY <2>1
  <2> QED BY <1>1, <1>2, <1>3, <1>5, <2>1, <2>4, <2>7, <2>8, <2>9
<1> QED BY <1>3, <1>4, <1>5

LEMMA ActsGrow ==
  ASSUME FlowInv, Acted
  PROVE  acts' = acts + 1 /\ acts \in Nat /\ acts' \in Nat /\ acts <= acts'
BY LiveFlowAssumption DEF Acted, FlowInv, FlowTypes

LEMMA OperatorNeat ==
  ASSUME TellInv, Operator, Attentive
  PROVE  NeatFlows'
<1>0. /\ FlowInv /\ NeatFlows /\ acts \in Nat /\ canvas \subseteq FlowNode
      /\ process \in Query(Processes, FlowAnswers)
  BY LiveFlowAssumption DEF TellInv, FlowInv, FlowTypes
<1>1. ASSUME UNCHANGED <<rows, sent, process>>, acts' = acts \/ Acted,
             Neat(canvas', acts')
      PROVE  NeatFlows'
  <2>1. acts' \in Nat /\ acts <= acts'
    BY <1>0, <1>1, ActsGrow
  <2> QED BY <1>0, <1>1, <2>1, NeatKept
<1>2. ASSUME Acted PROVE Neat(canvas, acts')
  BY <1>0, <1>2, ActsGrow, NeatAll
<1>3. CASE LeaveFlow
  <2>1. UNCHANGED <<rows, sent, process, acts>> /\ canvas' = {}
    BY <1>3 DEF LeaveFlow, server, net
  <2> QED BY <1>1, <2>1 DEF Neat
<1>4. CASE \E p \in Processes : OpenFlow(p)
  <2>1. PICK p \in Processes : OpenFlow(p)
    BY <1>4
  <2>2. UNCHANGED <<rows, sent, acts>> /\ canvas' = CanvasOf(process, {})
    BY <2>1 DEF OpenFlow, server, net
  <2>3. process'.data = process.data
    BY <1>0, <2>1, ProcessMounted DEF OpenFlow, Attentive, Quiet
  <2>4. Neat(canvas', acts)
    <3>1. Neat({}, acts)
      BY DEF Neat
    <3> QED BY <1>0, <2>2, <3>1, CanvasNeat DEF NeatFlows
  <2> QED BY <1>0, <2>2, <2>3, <2>4, NeatKept
<1>5. CASE \E t \in Palette : onDrop(t)
  <2>1. PICK t \in Palette : onDrop(t)
    BY <1>5
  <2>2. /\ page \in Processes /\ Acted /\ UNCHANGED <<rows, sent, process>>
        /\ canvas' = canvas \cup {Fresh(t, <<page, acts'>>)}
    BY <1>0, <2>1 DEF onDrop, server, net, FlowInv, FlowTypes
  <2>3. acts' = acts + 1 /\ acts' \in Nat
    BY <1>0, <2>2, ActsGrow
  <2>4. PICK n : n = Fresh(t, <<page, acts'>>)
    OBVIOUS
  <2>5. n.id = <<page, acts'>> /\ n.id[2] = acts'
    BY <2>4 DEF Fresh
  <2>6. \A m \in canvas : m.id[2] <= acts /\ m.id[2] \in Nat
    BY <1>0, IdTyped, LiveFlowAssumption DEF NeatFlows, Neat
  <2>7. \A m \in canvas : m.id # n.id
    BY <1>0, <2>3, <2>5, <2>6
  <2>8. Neat(canvas, acts')
    BY <1>2, <2>2
  <2>9. Neat(canvas', acts')
    <3>1. canvas' = canvas \cup {n}
      BY <2>2, <2>4
    <3>2. n.id[2] <= acts'
      BY <2>3, <2>5
    <3> QED BY <2>7, <2>8, <3>1, <3>2 DEF Neat
  <2> QED BY <1>1, <2>2, <2>9
<1>6. CASE onPaneClick \/ \E n \in canvas : onNodeClick(n)
  <2>1. UNCHANGED <<rows, sent, process, acts, canvas>>
    BY <1>6 DEF onPaneClick, onNodeClick, server, net
  <2> QED BY <1>0, <1>1, <2>1 DEF NeatFlows
<1>7. CASE \E n \in canvas : DeleteNode(n)
  <2>1. UNCHANGED <<rows, sent, process>> /\ Acted /\ canvas' \subseteq canvas
    BY <1>7 DEF DeleteNode, server, net
  <2> QED BY <1>1, <1>2, <2>1 DEF Neat
<1>8. CASE \E c \in PanelChanges(panel, Sensors, Values) : handleChange(c)
  <2>1. UNCHANGED <<rows, sent, process, canvas>> /\ Acted
    BY <1>8 DEF handleChange, server, net
  <2> QED BY <1>1, <1>2, <2>1
<1>9. CASE onNodeUpdate
  <2>1. /\ UNCHANGED <<rows, sent, process, acts>>
        /\ canvas' = {IF n.id = panel.id THEN panel ELSE n : n \in canvas}
    BY <1>9 DEF onNodeUpdate, server, net
  <2>2. PICK f : f = [n \in canvas |-> IF n.id = panel.id THEN panel ELSE n]
    OBVIOUS
  <2>3. canvas' = {f[n] : n \in canvas} /\ \A n \in canvas : f[n].id = n.id
    BY <2>1, <2>2
  <2>4. Neat(canvas', acts)
    BY <1>0, <2>3, NeatMapped DEF NeatFlows
  <2> QED BY <1>1, <2>1, <2>4
<1>10. CASE saveFlow
  <2>1. /\ UNCHANGED <<rows, process, canvas>> /\ Acted /\ sent'.flow = canvas
    BY <1>10 DEF saveFlow, server, shown
  <2>2. PICK k \in Nat : k = acts' /\ acts <= k
    BY <1>0, <2>1, ActsGrow
  <2>3. /\ \A p \in Processes : rows[p].flow # None => Neat(rows[p].flow, k)
        /\ process.data # None =>
             process.data.flow = None \/ Neat(process.data.flow, k)
        /\ Neat(canvas, k)
    BY <1>0, <2>2, NeatAll
  <2> QED BY <2>1, <2>2, <2>3 DEF NeatFlows
<1>11. CASE handleStart \/ handlePause
  <2>1. UNCHANGED <<rows, sent, process, canvas>> /\ Acted
    BY <1>11 DEF handleStart, handlePause, Order, server
  <2> QED BY <1>1, <1>2, <2>1
<1> QED BY <1>3, <1>4, <1>5, <1>6, <1>7, <1>8, <1>9, <1>10, <1>11 DEF Operator

LEMMA ServerNeat ==
  ASSUME TellInv, Server
  PROVE  NeatFlows'
<1>0. /\ FlowInv /\ NeatFlows /\ acts \in Nat /\ canvas' = canvas
      /\ process \in Query(Processes, FlowAnswers)
      /\ acts' = acts \/ Acted
  <2>1. canvas' = canvas /\ (acts' = acts \/ Acted)
    BY DEF Server, handleCommand, updateFlow, handleData, Predicted, AgentLost,
       notifyClients, AnswerProcess, AnswerSteps, shown
  <2> QED BY <2>1, LiveFlowAssumption DEF TellInv, FlowInv, FlowTypes
<1>1. acts' \in Nat /\ acts <= acts' /\ Neat(canvas', acts')
  <2>1. acts' \in Nat /\ acts <= acts'
    BY <1>0, ActsGrow
  <2> QED BY <1>0, <2>1, NeatAll
<1>2. CASE handleCommand
  <2>1. \A p \in Processes : rows'[p].flow = rows[p].flow
    <3>1. \/ rows' = rows
          \/ rows' = [rows EXCEPT ![Head(orders).id].running = TRUE]
          \/ rows' = [rows EXCEPT ![Head(orders).id].running = FALSE]
      BY <1>2 DEF handleCommand, server
    <3>2. rows \in [Processes -> [flow : (SUBSET FlowNode) \cup {None},
                                 running : BOOLEAN]]
      BY <1>0 DEF FlowInv, FlowTypes
    <3> QED BY <3>1, <3>2
  <2> QED BY <1>0, <1>1, <1>2, <2>1, NeatKept DEF handleCommand
<1>3. CASE updateFlow
  <2>1. /\ sent # None /\ sent.id \in Processes /\ process' = process
        /\ sent'.flow = sent.flow /\ acts' = acts
        /\ rows' = rows \/ rows' = [rows EXCEPT ![sent.id].flow = sent.flow]
    BY <1>0, <1>3 DEF updateFlow, FlowInv, FlowTypes, Saving
  <2>2. \A p \in Processes : rows'[p].flow \in {rows[p].flow, sent.flow}
    BY <1>0, <2>1 DEF FlowInv, FlowTypes
  <2> QED BY <1>0, <2>1, <2>2 DEF NeatFlows
<1>4. CASE AnswerProcess
  <2>1. UNCHANGED <<rows, sent>> /\ process'.data = process.data
    BY <1>0, <1>4 DEF AnswerProcess, Answered, server, net, Query
  <2> QED BY <1>0, <1>1, <2>1, NeatKept
<1>5. CASE \E p \in Processes : AgentLost(p)
  <2>1. UNCHANGED <<sent, process>> /\ \A o \in Processes : rows'[o].flow = rows[o].flow
    BY <1>0, <1>5 DEF AgentLost, FlowInv, FlowTypes
  <2> QED BY <1>0, <1>1, <2>1, NeatKept
<1>6. CASE \/ AnswerSteps \/ notifyClients \/ \E q \in preds : Predicted(q)
           \/ \E m \in subs, s \in Sensors, v \in Values : handleData(m, s, v)
  <2>1. UNCHANGED <<rows, sent, process>>
    BY <1>6 DEF AnswerSteps, notifyClients, Predicted, handleData, server, net
  <2> QED BY <1>0, <1>1, <2>1, NeatKept
<1> QED BY <1>2, <1>3, <1>4, <1>5, <1>6 DEF Server

LEMMA ClientNeat ==
  ASSUME TellInv, Client
  PROVE  NeatFlows'
<1>0. /\ FlowInv /\ NeatFlows /\ acts \in Nat /\ acts' = acts /\ rows' = rows
      /\ sent' = sent \/ sent' = None
      /\ process \in Query(Processes, FlowAnswers) /\ Neat(canvas, acts)
  BY LiveFlowAssumption DEF TellInv, FlowInv, FlowTypes, NeatFlows, Client,
     handleMessage, handleDiscon, FlowSaved, FlowRefused, ProcessArrived, StepsArrived,
     ProcessFails, StepsFail, server, net, shown
<1>1. ASSUME process'.data = process.data, Neat(canvas', acts)
      PROVE  NeatFlows'
  BY <1>0, <1>1, NeatKept
<1>2. CASE handleMessage
  <2>1. process' = process /\ Neat(canvas', acts)
    BY <1>0, <1>2, MessageNodes, NeatMapped
  <2> QED BY <1>1, <2>1
<1>3. CASE FlowSaved \/ FlowRefused \/ StepsArrived \/ StepsFail \/ handleDiscon
  <2>1. UNCHANGED <<process, canvas>>
    BY <1>3 DEF handleDiscon, FlowSaved, FlowRefused, StepsArrived, StepsFail, shown
  <2> QED BY <1>0, <1>1, <2>1
<1>4. CASE ProcessArrived
  <2>1. /\ Arrived(process) /\ process' = Settled(process)
        /\ page \in Processes /\ page # None
        /\ process.get.got = FlowOf(page)
    BY <1>0, <1>4 DEF ProcessArrived, FlowInv, FlowTypes, OwnQueries, Arrived
  <2>2. /\ process'.data = FlowOf(page) /\ process' \in Query(Processes, FlowAnswers)
    <3>1. process.get \in [id : Processes, got : FlowAnswers \cup {None}]
      BY <1>0, <2>1 DEF Arrived, Fetching, Query
    <3> QED BY <1>0, <2>1, <3>1, SettledTyped
  <2>3. process'.data.flow = None \/ Neat(process'.data.flow, acts)
    BY <1>0, <2>1, <2>2 DEF NeatFlows, FlowOf
  <2>4. canvas' = CanvasOf(process', canvas)
    BY <1>4, <2>1 DEF ProcessArrived, LoadFlow
  <2>5. Neat(canvas', acts)
    BY <1>0, <2>2, <2>3, <2>4, CanvasNeat
  <2> QED BY <1>0, <2>3, <2>5 DEF NeatFlows
<1>5. CASE ProcessFails
  <2>1. process' = Asked(process) \/ process' = GivenUp(process)
    BY <1>5 DEF ProcessFails, Failed
  <2>2. process'.data = process.data
    BY <1>0, <2>1 DEF Asked, GivenUp, Query
  <2>3. canvas' = canvas \/ canvas' = CanvasOf(process', canvas)
    BY <1>5 DEF ProcessFails, LoadFlow
  <2>4. canvas' = canvas \/ canvas' = CanvasOf(process, canvas)
    BY <2>2, <2>3 DEF CanvasOf
  <2>5. Neat(canvas', acts)
    BY <1>0, <2>4, CanvasNeat DEF NeatFlows
  <2> QED BY <1>1, <2>2, <2>5
<1> QED BY <1>2, <1>3, <1>4, <1>5 DEF Client

LEMMA StreamedNeat ==
  ASSUME NEW flow, NEW k, Neat(flow, k)
  PROVE  NeatStream(Streamed(flow)) /\ ~HasValues(Streamed(flow))
BY DEF Neat, NeatStream, Streamed, HasValues

LEMMA NothingTold ==
  ASSUME NEW S, ~HasValues(S), NEW drawn, NEW heads
  PROVE  AllTold(drawn, heads, S)
BY DEF AllTold, HasValues

\* What is told of a monitoring that a step leaves alone, and no order or sample
\* is about, stays told.
LEMMA Untouched ==
  ASSUME TellInv, UNCHANGED <<wire, page, canvas, heard, teller, acts>>,
         NeatStreams',
         \A m \in Monitorings :
           \/ nodes'[m] = nodes[m] /\ (NotLooping(loops', m) => NotLooping(loops, m))
           \/ ~HasValues(nodes'[m])
           \/ ~NotLooping(loops', m)
  PROVE  Streaming'
<1>1. Heard'
  BY DEF TellInv, Streaming, Heard
<1>2. LastMessage'
  BY DEF TellInv, Streaming, LastMessage
<1>3. CanvasTells'
  <2> SUFFICES ASSUME page # None, teller \in Monitorings,
                      NotLooping(loops', teller), NoneOnWire(wire, teller)
               PROVE  AllTold(canvas, heard, nodes'[teller])
    BY DEF CanvasTells
  <2>1. CASE nodes'[teller] = nodes[teller] /\ NotLooping(loops, teller)
    BY <2>1 DEF TellInv, Streaming, CanvasTells
  <2>2. CASE ~HasValues(nodes'[teller])
    BY <2>2, NothingTold
  <2> QED BY <2>1, <2>2
<1> QED BY <1>1, <1>2, <1>3 DEF Streaming

\* An order starts a monitoring that has no values yet, or none.
LEMMA CommandTells ==
  ASSUME TellInv, handleCommand
  PROVE  Streaming'
<1>1. PICK o \in Order_ : o = Head(orders)
  <2>1. orders \in Seq(Order_) /\ orders # <<>>
    BY DEF handleCommand, TellInv, FlowInv, FlowTypes
  <2> QED BY <2>1
<1>2. UNCHANGED <<loops, wire, page, canvas, heard, teller, acts>>
  BY DEF handleCommand, shown, told
<1>3. o.id \in Processes /\ <<o.id, o.at>> \in Monitorings
  BY DEF Order_, Monitorings
<1>4. PICK m \in Monitorings : m = <<o.id, o.at>>
  BY <1>3
<1>5. CASE nodes' = nodes
  <2>1. NeatStreams'
    BY <1>5 DEF TellInv, Streaming, NeatStreams
  <2> QED BY <1>2, <1>5, <2>1, Untouched
<1>6. CASE /\ rows[o.id].flow # None
           /\ nodes' = [nodes EXCEPT ![m] = Streamed(rows[o.id].flow)]
  <2>1. NeatStream(Streamed(rows[o.id].flow)) /\ ~HasValues(Streamed(rows[o.id].flow))
    BY <1>3, <1>6, StreamedNeat DEF TellInv, NeatFlows
  <2>2. /\ nodes'[m] = Streamed(rows[o.id].flow)
        /\ \A x \in Monitorings : x # m => nodes'[x] = nodes[x]
    BY <1>6 DEF TellInv, FlowInv, FlowTypes
  <2>3. NeatStreams'
    BY <2>1, <2>2 DEF TellInv, Streaming, NeatStreams
  <2> QED BY <1>2, <2>1, <2>2, <2>3, Untouched
<1> QED BY <1>1, <1>4, <1>5, <1>6 DEF handleCommand, server

\* A sample goes into its monitoring's nodes, which a loop will send.
LEMMA TakeTells ==
  ASSUME TellInv, NEW m \in Monitorings, NEW s \in Sensors, NEW v \in Values,
         Take(m, s, v), UNCHANGED <<wire, page, canvas, heard, teller, acts>>
  PROVE  Streaming'
<1> DEFINE S == {Sampled(x, s, v) : x \in nodes[m]}
<1>1. /\ nodes' = [nodes EXCEPT ![m] = S]
      /\ loops' = IF nodes[m] = {} THEN loops ELSE Append(loops, m)
  BY DEF Take
<1>2. /\ nodes \in [Monitorings -> SUBSET LiveNode]
      /\ loops \in Seq(Monitorings \cup {None})
  BY DEF TellInv, FlowInv, FlowTypes
<1>3. NeatStream(S)
  <2>1. NeatStream(nodes[m])
    BY DEF TellInv, Streaming, NeatStreams
  <2>2. \A x \in nodes[m] :
          /\ Sampled(x, s, v).node = x.node
          /\ Sampled(x, s, v).live # Undef => x.live # Undef \/ x.node.prop # Undef
    <3>1. \A x \in LiveNode :
            /\ Sampled(x, s, v).node = x.node
            /\ Sampled(x, s, v).live # Undef => x.live # Undef \/ x.node.prop # Undef
      BY DEF Sampled, LiveNode
    <3>2. nodes[m] \in SUBSET LiveNode
      BY <1>2
    <3> QED BY <3>1, <3>2
  <2> QED BY <2>1, <2>2 DEF NeatStream
<1>4. nodes[m] = {} => S = {}
  OBVIOUS
<1> HIDE DEF S
<1>5. nodes'[m] = S /\ \A x \in Monitorings : x # m => nodes'[x] = nodes[x]
  BY <1>1, <1>2
<1>6. NeatStreams'
  BY <1>3, <1>5 DEF TellInv, Streaming, NeatStreams
<1>7. ~HasValues(nodes'[m]) \/ ~NotLooping(loops', m)
  <2>1. CASE nodes[m] = {}
    BY <1>4, <1>5, <2>1 DEF HasValues
  <2>2. CASE nodes[m] # {}
    <3>1. loops' = Append(loops, m)
      BY <1>1, <2>2
    <3>2. Len(loops) + 1 \in DOMAIN loops' /\ loops'[Len(loops) + 1] = m
      BY <1>2, <3>1
    <3> QED BY <3>2 DEF NotLooping
  <2> QED BY <2>1, <2>2
<1>8. ASSUME NEW x \in Monitorings, NotLooping(loops', x)
      PROVE  NotLooping(loops, x)
  <2>1. CASE loops' = loops
    BY <1>8, <2>1
  <2>2. CASE loops' = Append(loops, m)
    <3>1. ASSUME NEW i \in DOMAIN loops
          PROVE  i \in DOMAIN loops' /\ loops'[i] = loops[i]
      BY <1>2, <2>2
    <3> QED BY <1>8, <3>1 DEF NotLooping
  <2> QED BY <1>1, <2>1, <2>2
<1> QED BY <1>5, <1>6, <1>7, <1>8, Untouched

LEMMA SampleTells ==
  ASSUME TellInv,
         \/ \E m \in subs, s \in Sensors, v \in Values : handleData(m, s, v)
         \/ \E q \in preds : Predicted(q)
  PROVE  Streaming'
<1>1. CASE \E m \in subs, s \in Sensors, v \in Values : handleData(m, s, v)
  <2>1. PICK m \in subs, s \in Sensors, v \in Values : handleData(m, s, v)
    BY <1>1
  <2>2. m \in Monitorings /\ UNCHANGED <<wire, page, canvas, heard, teller, acts>>
    BY <2>1 DEF handleData, shown, told, TellInv, FlowInv, FlowTypes
  <2>3. CASE Take(m, s, v)
    BY <2>2, <2>3, TakeTells
  <2>4. CASE UNCHANGED <<nodes, loops>>
    <3>1. NeatStreams'
      BY <2>4 DEF TellInv, Streaming, NeatStreams
    <3> QED BY <2>2, <2>4, <3>1, Untouched
  <2> QED BY <2>1, <2>3, <2>4 DEF handleData
<1>2. CASE \E q \in preds : Predicted(q)
  <2>1. PICK q \in preds : Predicted(q)
    BY <1>2
  <2>2. q.of \in Monitorings /\ q.sensor \in Sensors /\ q.value \in Values
    BY DEF TellInv, FlowInv, FlowTypes, Awaiting
  <2> QED BY <2>1, <2>2, TakeTells DEF Predicted, shown, told
<1> QED BY <1>1, <1>2

\* A loss changes no nodes, and its loop is of no monitoring.
LEMMA LossTells ==
  ASSUME TellInv, NEW p \in Processes, AgentLost(p)
  PROVE  Streaming'
<1>1. /\ UNCHANGED <<nodes, wire, page, canvas, heard, teller>>
      /\ loops' = Append(loops, None) /\ acts' \in Nat /\ acts \in Nat
      /\ acts <= acts'
  BY ActsGrow DEF AgentLost, told, TellInv
<1>2. loops \in Seq(Monitorings \cup {None}) /\ heard \subseteq NodeIds
  BY DEF TellInv, FlowInv, FlowTypes
<1>3. ASSUME NEW m, NotLooping(loops', m) PROVE NotLooping(loops, m)
  <2>1. ASSUME NEW i \in DOMAIN loops PROVE i \in DOMAIN loops' /\ loops'[i] = loops[i]
    BY <1>1, <1>2
  <2> QED BY <1>3, <2>1 DEF NotLooping
<1>4. NeatStreams'
  BY <1>1 DEF TellInv, Streaming, NeatStreams
<1>5. Heard'
  <2>1. \A i \in heard : i[2] \in Nat
    BY <1>2, LiveFlowAssumption DEF NodeIds
  <2> QED BY <1>1, <2>1 DEF TellInv, Streaming, Heard
<1>6. LastMessage' /\ CanvasTells'
  BY <1>1, <1>3 DEF TellInv, Streaming, LastMessage, CanvasTells
<1> QED BY <1>4, <1>5, <1>6 DEF Streaming

\* A loop sends its monitoring's nodes as they are.
LEMMA NotifyTells ==
  ASSUME TellInv, notifyClients
  PROVE  Streaming'
<1>1. /\ UNCHANGED <<nodes, page, canvas, heard, teller, acts>>
      /\ loops # <<>> /\ loops' = Tail(loops)
  BY DEF notifyClients, server, shown, told
<1>2. /\ loops \in Seq(Monitorings \cup {None})
      /\ wire \in Seq(Message \cup {Notice}) /\ FlowInv
  BY DEF TellInv, FlowInv, FlowTypes
<1>3. PICK m \in Monitorings \cup {None} : m = Head(loops)
  BY <1>1, <1>2
<1>4. PICK x \in Message \cup {Notice} :
        x = IF m = None THEN Notice ELSE StepData(m, nodes[m])
  BY <1>2, StepDataTyped
<1>5. wire' = Append(wire, x) /\ x.from = m
  BY <1>3, <1>4 DEF notifyClients, StepData, Notice
<1>6. PICK n \in Nat : n = Len(wire) /\ DOMAIN wire = 1..n
  BY <1>2
<1>7. /\ DOMAIN wire' = 1..(n + 1) /\ wire'[n + 1] = x
      /\ \A i \in 1..n : wire'[i] = wire[i] /\ i \in 1..(n + 1) /\ i < n + 1
      /\ n + 1 \in 1..(n + 1) /\ \A i \in 1..(n + 1) : i = n + 1 \/ i \in 1..n
  BY <1>2, <1>5, <1>6
<1>8. ASSUME NEW k, k # m, NotLooping(loops', k) PROVE NotLooping(loops, k)
  <2> SUFFICES ASSUME NEW i \in DOMAIN loops PROVE loops[i] # k
    BY DEF NotLooping
  <2>1. CASE i = 1
    BY <1>1, <1>2, <1>3, <1>8, <2>1
  <2>2. CASE i # 1
    <3>1. i - 1 \in DOMAIN loops' /\ loops'[i - 1] = loops[i]
      BY <1>1, <1>2, <2>2
    <3> QED BY <1>8, <3>1 DEF NotLooping
  <2> QED BY <2>1, <2>2
<1>9. NeatStreams' /\ Heard'
  BY <1>1 DEF TellInv, Streaming, NeatStreams, Heard
<1>10. LastMessage'
  <2> SUFFICES ASSUME NEW i \in 1..(n + 1),
                      wire'[i].from \in Monitorings,
                      NotLooping(loops', wire'[i].from),
                      HasValues(nodes[wire'[i].from]),
                      \A j \in 1..(n + 1) : i < j => wire'[j].from # wire'[i].from
               PROVE  wire'[i] = StepData(wire'[i].from, nodes[wire'[i].from])
    BY <1>1, <1>7 DEF LastMessage
  <2>1. CASE i = n + 1
    BY <1>4, <1>5, <1>7, <2>1, FlowNoneAssumption
  <2>2. CASE i \in 1..n
    <3>1. wire'[i] = wire[i] /\ wire[i].from # m
      BY <1>5, <1>7, <2>2
    <3>2. NotLooping(loops, wire[i].from)
      BY <1>8, <3>1
    <3>3. \A j \in DOMAIN wire : i < j => wire[j].from # wire[i].from
      BY <1>6, <1>7, <3>1
    <3> QED BY <1>6, <2>2, <3>1, <3>2, <3>3 DEF TellInv, Streaming, LastMessage
  <2> QED BY <1>7, <2>1, <2>2
<1>11. CanvasTells'
  <2> SUFFICES ASSUME page # None, teller \in Monitorings,
                      NotLooping(loops', teller), NoneOnWire(wire', teller)
               PROVE  AllTold(canvas, heard, nodes[teller])
    BY <1>1 DEF CanvasTells
  <2>1. teller # m /\ NoneOnWire(wire, teller)
    BY <1>5, <1>6, <1>7 DEF NoneOnWire
  <2> QED BY <1>8, <2>1 DEF TellInv, Streaming, CanvasTells
<1> QED BY <1>9, <1>10, <1>11 DEF Streaming

\* The first message leaves the others' being the last or not alone.
LEMMA FirstTaken ==
  ASSUME TellInv, wire # <<>>, wire' = Tail(wire), UNCHANGED <<nodes, loops>>
  PROVE  /\ LastMessage'
         /\ \A m : NoneOnWire(wire', m) /\ Head(wire).from # m => NoneOnWire(wire, m)
         /\ \A m \in Monitorings :
              (/\ Head(wire).from = m /\ NoneOnWire(wire', m)
               /\ NotLooping(loops, m) /\ HasValues(nodes[m]))
                => Head(wire) = StepData(m, nodes[m])
<1>1. wire \in Seq(Message \cup {Notice})
  BY DEF TellInv, FlowInv, FlowTypes
<1>2. PICK n \in Nat : n = Len(wire) /\ n > 0 /\ DOMAIN wire = 1..n
  BY <1>1
<1>3. /\ DOMAIN wire' = 1..(n - 1)
      /\ \A i \in 1..(n - 1) : wire'[i] = wire[i + 1] /\ i + 1 \in 1..n
      /\ Head(wire) = wire[1] /\ 1 \in 1..n
  BY <1>1, <1>2
<1>4. \A i \in 1..n : i = 1 \/ (i - 1 \in 1..(n - 1) /\ (i - 1) + 1 = i)
  BY <1>2
<1>5. LastMessage'
  <2> SUFFICES ASSUME NEW i \in 1..(n - 1),
                      wire'[i].from \in Monitorings,
                      NotLooping(loops, wire'[i].from),
                      HasValues(nodes[wire'[i].from]),
                      \A j \in 1..(n - 1) : i < j => wire'[j].from # wire'[i].from
               PROVE  wire'[i] = StepData(wire'[i].from, nodes[wire'[i].from])
    BY <1>3 DEF LastMessage
  <2>1. PICK k \in 1..n : k = i + 1 /\ wire'[i] = wire[k]
    BY <1>3
  <2>2. ASSUME NEW j \in 1..n, k < j PROVE wire[j].from # wire[k].from
    <3>1. j - 1 \in 1..(n - 1) /\ (j - 1) + 1 = j /\ i < j - 1
      BY <1>4, <2>1, <2>2
    <3>2. wire'[j - 1] = wire[j]
      BY <1>3, <3>1
    <3> QED BY <2>1, <3>1, <3>2
  <2> QED BY <1>2, <2>1, <2>2 DEF TellInv, Streaming, LastMessage
<1>6. ASSUME NEW m, NoneOnWire(wire', m)
      PROVE  \A j \in 1..n : 1 < j => wire[j].from # m
  <2> SUFFICES ASSUME NEW j \in 1..n, 1 < j PROVE wire[j].from # m
    OBVIOUS
  <2>1. j - 1 \in 1..(n - 1) /\ (j - 1) + 1 = j
    BY <1>4
  <2> QED BY <1>3, <1>6, <2>1 DEF NoneOnWire
<1>7. ASSUME NEW m, NoneOnWire(wire', m), Head(wire).from # m
      PROVE  NoneOnWire(wire, m)
  <2> SUFFICES ASSUME NEW j \in 1..n PROVE wire[j].from # m
    BY <1>2 DEF NoneOnWire
  <2>1. j = 1 \/ 1 < j
    OBVIOUS
  <2> QED BY <1>3, <1>6, <1>7, <2>1
<1>8. ASSUME NEW m \in Monitorings, Head(wire).from = m, NoneOnWire(wire', m),
             NotLooping(loops, m), HasValues(nodes[m])
      PROVE  Head(wire) = StepData(m, nodes[m])
  BY <1>2, <1>3, <1>6, <1>8 DEF TellInv, Streaming, LastMessage
<1> QED BY <1>5, <1>7, <1>8

\* A message sets the nodes that it tells of.
LEMMA MessageTells ==
  ASSUME TellInv, handleMessage
  PROVE  Streaming'
<1>1. /\ wire # <<>> /\ Head(wire) \in Message /\ wire' = Tail(wire)
      /\ UNCHANGED <<nodes, loops, page, acts>>
  BY MessageNodes DEF TellInv
<1>2. LastMessage'
  BY <1>1, FirstTaken
<1>3. NeatStreams'
  BY <1>1 DEF TellInv, Streaming, NeatStreams
<1>4. CASE Head(wire).from[1] # page
  <2>1. UNCHANGED <<canvas, heard, teller>>
    BY <1>4, MessageNodes DEF TellInv
  <2>2. Heard'
    BY <1>1, <2>1 DEF TellInv, Streaming, Heard
  <2>3. teller \in Monitorings => Head(wire).from # teller
    BY <1>4 DEF TellInv, Streaming, Heard
  <2>4. CanvasTells'
    BY <1>1, <2>1, <2>3, FirstTaken DEF TellInv, Streaming, CanvasTells
  <2> QED BY <1>2, <1>3, <2>2, <2>4 DEF Streaming
<1>5. CASE Head(wire).from[1] = page
  <2>1. PICK f \in [canvas -> FlowNode] :
          /\ canvas' = {f[n] : n \in canvas}
          /\ \A n \in canvas : f[n].id = n.id
          /\ \A n \in canvas :
               LET of == {x \in Head(wire).nodes : x.id = n.id}
               IN f[n] = IF of = {} THEN n
                         ELSE Updated(n, (CHOOSE x \in of : TRUE).live)
    BY <1>5, MessageNodes DEF TellInv
  <2>2. /\ teller' = Head(wire).from
        /\ \A i \in heard' : \E n \in canvas : i = n.id
    BY <1>5, MessageNodes DEF TellInv
  <2>3. Heard'
    BY <1>1, <1>5, <2>2 DEF TellInv, NeatFlows, Neat, Heard
  <2>4. CanvasTells'
    <3>1. PICK m \in Monitorings : m = Head(wire).from
      BY <1>1 DEF Message
    <3> SUFFICES ASSUME NotLooping(loops, m), NoneOnWire(wire', m)
                 PROVE  AllTold(canvas', heard', nodes[m])
      BY <1>1, <2>2, <3>1 DEF CanvasTells
    <3>2. CASE ~HasValues(nodes[m])
      BY <3>2, NothingTold
    <3>3. CASE HasValues(nodes[m])
      <4>1. Head(wire) = StepData(m, nodes[m])
        BY <1>1, <3>1, <3>3, FirstTaken
      <4>2. Head(wire).nodes = {[id |-> x.node.id, live |-> x.live] :
                                  x \in {y \in nodes[m] : y.node.prop # Undef}}
        BY <4>1 DEF StepData
      <4>3. /\ NeatStream(nodes[m]) /\ nodes[m] \in SUBSET LiveNode
            /\ canvas \subseteq FlowNode
        BY DEF TellInv, Streaming, NeatStreams, FlowInv, FlowTypes
      <4>4. ASSUME NEW n \in canvas, NEW x \in nodes[m],
                   x.node.id = n.id, x.live # Undef
            PROVE  Tells(f[n], x.live)
        <5>1. PICK t : t = [id |-> x.node.id, live |-> x.live]
          OBVIOUS
        <5>2. x.node.prop # Undef
          BY <4>3, <4>4 DEF NeatStream
        <5>3. {y \in Head(wire).nodes : y.id = n.id} = {t}
          <6>1. t \in Head(wire).nodes /\ t.id = n.id
            BY <4>2, <4>4, <5>1, <5>2
          <6>2. ASSUME NEW y \in Head(wire).nodes, y.id = n.id PROVE y = t
            <7>1. PICK z \in nodes[m] : y = [id |-> z.node.id, live |-> z.live]
              BY <4>2, <6>2
            <7>2. z = x
              BY <4>3, <4>4, <6>2, <7>1 DEF NeatStream
            <7> QED BY <5>1, <7>1, <7>2
          <6> QED BY <6>1, <6>2
        <5>4. (CHOOSE y \in {t} : TRUE) = t
          OBVIOUS
        <5>5. f[n] = Updated(n, x.live)
          BY <2>1, <5>1, <5>3, <5>4
        <5>6. x.live \in Values /\ n \in FlowNode
          BY <4>3, <4>4 DEF LiveNode
        <5> QED BY <4>4, <5>5, <5>6, UpdatedTells
      <4> QED BY <2>1, <4>4 DEF AllTold
    <3> QED BY <3>2, <3>3
  <2> QED BY <1>2, <1>3, <2>3, <2>4 DEF Streaming
<1> QED BY <1>4, <1>5

\* A notice tells of no node.
LEMMA DisconTells ==
  ASSUME TellInv, handleDiscon
  PROVE  Streaming'
<1>1. /\ wire # <<>> /\ wire' = Tail(wire) /\ Head(wire).from = None
      /\ UNCHANGED <<nodes, loops, page, canvas, heard, teller, acts>>
  BY DEF handleDiscon, Notice, server, told
<1>2. NeatStreams' /\ Heard'
  BY <1>1 DEF TellInv, Streaming, NeatStreams, Heard
<1>3. LastMessage' /\ CanvasTells'
  BY <1>1, FirstTaken, FlowNoneAssumption DEF TellInv, Streaming, CanvasTells
<1> QED BY <1>2, <1>3 DEF Streaming

\* Steps that leave the monitorings and what is on its way alone.
LEMMA StreamsKept ==
  ASSUME TellInv, UNCHANGED <<nodes, loops, wire>>
  PROVE  NeatStreams' /\ LastMessage'
BY DEF TellInv, Streaming, NeatStreams, LastMessage

LEMMA LoadTells ==
  ASSUME TellInv, UNCHANGED <<nodes, loops, wire, page, teller>>,
         canvas' \subseteq canvas \/ heard' = {}, heard' \subseteq heard
  PROVE  CanvasTells'
BY DEF TellInv, Streaming, CanvasTells, AllTold

LEMMA HeardKept ==
  ASSUME TellInv, UNCHANGED <<page, teller>>, heard' \subseteq heard,
         acts' = acts \/ Acted
  PROVE  Heard'
<1>1. acts \in Nat /\ acts' \in Nat /\ acts <= acts'
  <2>1. acts \in Nat
    BY LiveFlowAssumption DEF TellInv, FlowInv, FlowTypes
  <2> QED BY <2>1, ActsGrow DEF TellInv
<1>2. \A i \in heard : i[2] \in Nat
  BY LiveFlowAssumption DEF TellInv, FlowInv, FlowTypes, NodeIds
<1> QED BY <1>1, <1>2 DEF TellInv, Streaming, Heard

LEMMA OperatorTells ==
  ASSUME TellInv, Operator, Attentive
  PROVE  Streaming'
<1>0. UNCHANGED <<nodes, loops, wire>> /\ (acts' = acts \/ Acted)
  BY DEF Operator, LeaveFlow, onPaneClick, onNodeUpdate, saveFlow, handleStart,
         handlePause, Order, OpenFlow, onDrop, onNodeClick, DeleteNode, handleChange,
         server, net
<1>1. ASSUME Heard', CanvasTells' PROVE Streaming'
  BY <1>0, <1>1, StreamsKept DEF Streaming
<1>2. CASE LeaveFlow \/ \E p \in Processes : OpenFlow(p)
  <2>1. heard' = {} /\ teller' = None
    BY <1>2 DEF LeaveFlow, OpenFlow
  <2> QED BY <1>1, <2>1, FlowNoneAssumption DEF Heard, CanvasTells
<1>3. CASE \E t \in Palette : onDrop(t)
  <2>1. PICK t \in Palette : onDrop(t)
    BY <1>3
  <2>2. /\ page # None /\ UNCHANGED <<page, heard, teller>> /\ Acted
        /\ canvas' = canvas \cup {Fresh(t, <<page, acts'>>)}
    BY <2>1 DEF onDrop, told
  <2>3. acts \in Nat /\ acts' = acts + 1
    BY <2>2, ActsGrow DEF TellInv
  <2>4. <<page, acts'>> \notin heard
    <3>1. \A i \in heard : i[2] <= acts /\ i[2] \in Nat
      BY LiveFlowAssumption
         DEF TellInv, Streaming, Heard, FlowInv, FlowTypes, NodeIds
    <3>2. <<page, acts'>>[2] = acts' /\ ~(acts' <= acts)
      BY <2>3
    <3> QED BY <3>1, <3>2
  <2>5. Fresh(t, <<page, acts'>>).id = <<page, acts'>>
    BY DEF Fresh
  <2>6. CanvasTells'
    BY <1>0, <2>2, <2>4, <2>5 DEF TellInv, Streaming, CanvasTells, AllTold
  <2> QED BY <1>1, <2>2, <2>6, HeardKept
<1>4. CASE onNodeUpdate
  <2>1. /\ UNCHANGED <<page, teller, acts>> /\ heard' = heard \ {panel.id}
        /\ canvas' = {IF n.id = panel.id THEN panel ELSE n : n \in canvas}
    BY <1>4 DEF onNodeUpdate
  <2>2. \A n \in canvas' : n.id \in heard' => n \in canvas /\ n.id \in heard
    BY <2>1
  <2>3. CanvasTells'
    BY <1>0, <2>1, <2>2 DEF TellInv, Streaming, CanvasTells, AllTold
  <2> QED BY <1>1, <2>1, <2>3, HeardKept
<1>5. CASE \/ onPaneClick \/ saveFlow \/ handleStart \/ handlePause
           \/ \E n \in canvas : onNodeClick(n) \/ DeleteNode(n)
           \/ \E c \in PanelChanges(panel, Sensors, Values) : handleChange(c)
  <2>1. UNCHANGED <<page, heard, teller>> /\ canvas' \subseteq canvas
    BY <1>5 DEF onPaneClick, saveFlow, handleStart, handlePause, Order, onNodeClick,
                DeleteNode, handleChange, shown, told
  <2> QED BY <1>0, <1>1, <2>1, LoadTells, HeardKept
<1> QED BY <1>2, <1>3, <1>4, <1>5 DEF Operator

LEMMA OthersTell ==
  ASSUME TellInv,
         \/ updateFlow \/ AnswerProcess \/ AnswerSteps \/ FlowSaved \/ FlowRefused
         \/ ProcessArrived \/ StepsArrived \/ ProcessFails \/ StepsFail
         \/ UNCHANGED flowVars
  PROVE  Streaming'
<1>1. /\ UNCHANGED <<nodes, loops, wire, page, teller, acts>>
      /\ (canvas' \subseteq canvas /\ heard' = heard) \/ heard' = {}
  BY DEF updateFlow, AnswerProcess, AnswerSteps, FlowSaved, FlowRefused,
         ProcessArrived, StepsArrived, ProcessFails, StepsFail, LoadFlow, flowVars,
         server, net, shown, told
<1> QED BY <1>1, StreamsKept, LoadTells, HeardKept DEF Streaming

LEMMA TellStep ==
  ASSUME TellInv, [AttentiveFlowNext]_flowVars
  PROVE  TellInv'
<1>1. FlowInv'
  BY NextKeeps, StutterKeeps DEF TellInv
<1>2. CASE Operator /\ Attentive
  BY <1>1, <1>2, OperatorNeat, OperatorTells DEF TellInv
<1>3. CASE Server
  <2>1. Streaming'
    BY <1>3, CommandTells, SampleTells, LossTells, NotifyTells, OthersTell DEF Server
  <2> QED BY <1>1, <1>3, <2>1, ServerNeat DEF TellInv
<1>4. CASE Client
  <2>1. Streaming'
    BY <1>4, MessageTells, DisconTells, OthersTell DEF Client
  <2> QED BY <1>1, <1>4, <2>1, ClientNeat DEF TellInv
<1>5. CASE UNCHANGED flowVars
  <2>1. NeatFlows'
    BY <1>5 DEF TellInv, NeatFlows, flowVars, server, net, shown
  <2> QED BY <1>1, <1>5, <2>1, OthersTell DEF TellInv
<1> QED BY <1>2, <1>3, <1>4, <1>5 DEF AttentiveFlowNext

LEMMA InitTell == FlowInit => TellInv
<1> SUFFICES ASSUME FlowInit PROVE TellInv
  OBVIOUS
<1>1. PICK f \in [Processes -> UNION {Drawn(p) : p \in Processes}],
           r \in [Processes -> BOOLEAN] :
        /\ \A p \in Processes : f[p] \in Drawn(p)
        /\ rows = [p \in Processes |->
                     [flow |-> f[p], running |-> r[p] /\ f[p] # None]]
  BY DEF FlowInit
<1>2. \A p \in Processes : /\ rows[p].flow = f[p]
                           /\ rows[p].running => rows[p].flow # None
  BY <1>1
<1>3. /\ acts = 0 /\ sent = None /\ process.data = None /\ canvas = {}
      /\ loops = <<>> /\ wire = <<>> /\ heard = {} /\ teller = None /\ page = None
  BY DEF FlowInit, NoQuery
<1>4. ASSUME NEW p \in Processes, rows[p].flow # None
      PROVE  Neat(rows[p].flow, acts)
  <2>1. PICK t \in Kit, s \in Sensors : rows[p].flow = {Bound(p, t, s)}
    BY <1>1, <1>2, <1>4 DEF Drawn
  <2>2. Bound(p, t, s).id[2] = 0
    BY DEF Bound, Fresh
  <2> QED BY <1>3, <2>1, <2>2 DEF Neat
<1>5. NeatFlows
  BY <1>3, <1>4 DEF NeatFlows, Neat
<1>6. NeatStreams
  <2> SUFFICES ASSUME NEW m \in Monitorings PROVE NeatStream(nodes[m])
    BY DEF NeatStreams
  <2>1. nodes[m] = IF m \in subs THEN Streamed(rows[m[1]].flow) ELSE {}
    BY DEF FlowInit
  <2>2. CASE m \in subs
    <3>0. subs = {<<p, 0>> : p \in {q \in Processes : rows[q].running}}
      BY DEF FlowInit
    <3>1. PICK p \in Processes : m[1] = p /\ rows[p].running
      BY <2>2, <3>0
    <3>2. Neat(rows[p].flow, acts)
      BY <1>2, <1>4, <3>1
    <3> QED BY <2>1, <2>2, <3>1, <3>2, StreamedNeat
  <2>3. CASE m \notin subs
    BY <2>1, <2>3 DEF NeatStream
  <2> QED BY <2>2, <2>3
<1>7. Heard /\ LastMessage /\ CanvasTells
  BY <1>3, FlowNoneAssumption DEF Heard, LastMessage, CanvasTells
<1> QED BY <1>5, <1>6, <1>7, InitFlow DEF TellInv, Streaming

\* If the last message that the page took was of the monitoring that its process
\* has now, and nothing is on its way, every node that the message set, and that
\* was not loaded or edited since, tells the value that the monitoring has for
\* it: for every type of node, any value, any number of samples, predictions that
\* come late and messages on their way, and whatever was loaded, edited, deleted,
\* paused, started and lost in between (handleData, notifyClients, handleMessage,
\* calculateTankLevel).
THEOREM CanvasTellsTheStream == AttentiveFlowSpec => []NodesTellTheirStream
<1>1. TellInv => NodesTellTheirStream
  <2> SUFFICES ASSUME TellInv, page # None, loops = <<>>, wire = <<>>,
                      streams[page] # None, teller = streams[page],
                      NEW n \in canvas, NEW x \in nodes[streams[page]],
                      x.node.id = n.id, n.id \in heard, x.live # Undef
               PROVE  Tells(n, x.live)
    BY DEF NodesTellTheirStream
  <2>1. teller \in Monitorings
    BY DEF TellInv, FlowInv, FlowTypes
  <2>2. NotLooping(loops, teller) /\ NoneOnWire(wire, teller)
    BY DEF NotLooping, NoneOnWire
  <2> QED BY <2>1, <2>2 DEF TellInv, Streaming, CanvasTells, AllTold
<1> QED BY <1>1, InitTell, TellStep, PTL DEF AttentiveFlowSpec

-----------------------------------------------------------------------------
-----------------------------------------------------------------------------
(* The chart of the dashboard. *)

Point  == [x : Nat, of : [Keys -> Readings \cup {Gap}]]
Sample == [key : Keys, value : Readings]
Newest == [time : Nat, value : Readings]

\* The points of the live and the paused chart.
LivePoints ==
  /\ points \in Seq(Point) /\ Len(points) <= MaxPoints
  /\ sensorKeys \subseteq Keys
  /\ \A i \in DOMAIN points : points[i].x <= clock

\* They are two seconds apart at least, so that a value can only go into the
\* last one or after it.
Spaced(ps) == \A i, j \in DOMAIN ps : i < j => ps[i].x + Lenient <= ps[j].x

\* Each shows something, of keys that the legend names, and only what came.
Filled == \A i \in DOMAIN points : \E k \in Keys : points[i].of[k] # Gap
CameNamed ==
  \A i \in DOMAIN points : \A k \in Keys : points[i].of[k] # Gap =>
    k \in sensorKeys /\ Came(k, points[i].x, points[i].of[k])

\* The newest value of a sensor is drawn near its time, or was pushed out by
\* points that are all later.
Placed(ps, g, k) ==
  \/ \E i \in DOMAIN ps : ps[i].of[k] = g.value /\ Near(ps[i].x, g.time, Lenient)
  \/ Len(ps) = MaxPoints /\ \A i \in DOMAIN ps : ps[i].x > g.time
NewestPlaced ==
  \A k \in Keys : lastGot[k] # Gap =>
    lastGot[k].time <= clock /\ Placed(points, lastGot[k], k)

ChartTypes ==
  /\ clock \in Nat /\ air \in Seq(Sample)
  /\ lastGot \in [Keys -> Newest \cup {Gap}]
  /\ DOMAIN asked = {"modes", "from", "read"}

\* While the historical mode waits for the log it has not been left.
ChartInv ==
  /\ ChartTypes
  /\ "history" \in asked.modes => isHistoricalMode
  /\ ~isHistoricalMode =>
       LivePoints /\ Spaced(points) /\ Filled /\ CameNamed /\ NewestPlaced

LEMMA MaxPointsIs == MaxPoints \in Nat /\ MaxPoints >= 1 /\ Gap \notin Readings
  BY LiveChartAssumption

LEMMA SecondIs == Second \in Nat /\ Second >= 1
  BY LiveChartAssumption

LEMMA LenientIs == Lenient \in Nat /\ Lenient >= 1
  BY LiveChartAssumption DEF Lenient

LEMMA LeastNatural ==
  ASSUME NEW S, S \subseteq Nat, S # {}
  PROVE  \E n \in S : \A m \in S : n <= m
<1>1. PICK n \in S : \A m \in S : <<m, n>> \notin OpToRel(<, Nat)
  BY NatLessThanWellFounded, WFMin
<1>2. \A m \in S : ~(m < n)
  BY <1>1 DEF OpToRel
<1>. QED BY <1>2

\* A value goes into the first point that is near, or into one of its own.
WithValue(ps, q, k, t, v, d) ==
  /\ q \in Seq(Point) /\ Len(q) \in {Len(ps), Len(ps) + 1}
  /\ \A i \in 1..Len(ps) : q[i].x = ps[i].x
  /\ Len(q) = Len(ps) + 1 =>
       q[Len(q)].x = t /\ \A i \in 1..Len(ps) : ~Near(ps[i].x, t, d)
  /\ \E m \in 1..Len(q) :
       /\ q[m].of[k] = v /\ Near(q[m].x, t, d)
       /\ \A i \in 1..Len(ps) : \A j \in Keys :
            q[i].of[j] = ps[i].of[j] \/ (i = m /\ j = k)
       /\ Len(q) = Len(ps) + 1 => m = Len(q) /\ \A j \in Keys : j # k => q[m].of[j] = Gap

LEMMA PutsNear ==
  ASSUME NEW ps \in Seq(Point), NEW t \in Nat, NEW k \in Keys, NEW v \in Readings,
         NEW d \in Nat, d >= 1
  PROVE  WithValue(ps, Put(ps, k, t, v, d), k, t, v, d)
<1> DEFINE n    == Len(ps)
           near == {i \in DOMAIN ps : Near(ps[i].x, t, d)}
           own  == [x |-> t, of |-> [j \in Keys |-> IF j = k THEN v ELSE Gap]]
           q    == Put(ps, k, t, v, d)
<1>1. n \in Nat /\ DOMAIN ps = 1..n /\ \A i \in 1..n : ps[i] \in Point
  BY LenProperties, ElementOfSeq
<1>2. \A i \in 1..n : ps[i].x \in Nat /\ ps[i].of \in [Keys -> Readings \cup {Gap}]
                      /\ ps[i] = [x |-> ps[i].x, of |-> ps[i].of]
  BY <1>1 DEF Point
<1>3. CASE near = {}
  <2>1. q = Append(ps, own)
    BY <1>3 DEF Put
  <2>2. own \in Point
    BY DEF Point
  <2>3. own.x = t /\ own.of[k] = v /\ \A j \in Keys : j # k => own.of[j] = Gap
    OBVIOUS
  <2> HIDE DEF own
  <2>4. /\ Append(ps, own) \in Seq(Point) /\ Len(Append(ps, own)) = n + 1
        /\ \A i \in 1..n : Append(ps, own)[i] = ps[i]
        /\ Append(ps, own)[n + 1] = own
    BY <2>2, AppendProperties
  <2>5. \A i \in 1..n : ~Near(ps[i].x, t, d)
    BY <1>1, <1>3
  <2>6. Near(t, t, d)
    BY DEF Near
  <2> HIDE DEF q, n, near
  <2>7. /\ q \in Seq(Point) /\ Len(q) = n + 1 /\ q[n + 1] = own
        /\ \A i \in 1..n : q[i] = ps[i]
    BY <2>1, <2>4
  <2>8. n + 1 \in 1..Len(q) /\ n + 1 # n
    BY <1>1, <2>7
  <2>9. /\ q[n + 1].of[k] = v /\ Near(q[n + 1].x, t, d)
        /\ \A i \in 1..n : \A j \in Keys : q[i].of[j] = ps[i].of[j]
        /\ \A j \in Keys : j # k => q[n + 1].of[j] = Gap
    BY <2>3, <2>6, <2>7
  <2>10. q[n + 1].x = t
    BY <2>3, <2>7
  <2>. QED BY <2>5, <2>7, <2>8, <2>9, <2>10 DEF q, n, WithValue
<1>4. CASE near # {}
  <2> DEFINE m == Min(near)
  <2>1. m \in near
    <3>1. near \subseteq Nat
      BY <1>1
    <3> HIDE DEF near
    <3>2. \E a \in near : \A b \in near : a <= b
      BY <1>4, <3>1, LeastNatural
    <3>. QED BY <3>2 DEF Min
  <2>2. m \in 1..n /\ Near(ps[m].x, t, d)
    BY <1>1, <2>1
  <2>3. q = [ps EXCEPT ![m].of[k] = v]
    BY <1>4 DEF Put
  <2> HIDE DEF m, near
  <2> DEFINE e == [ps[m] EXCEPT !.of[k] = v]
  <2>4. e = [x |-> ps[m].x, of |-> [ps[m].of EXCEPT ![k] = v]]
    <3> DEFINE x == ps[m].x
               f == ps[m].of
    <3>1. ps[m] = [x |-> x, of |-> f]
      BY <1>2, <2>2
    <3> HIDE DEF x, f
    <3>2. [ps[m] EXCEPT !.of[k] = v] = [x |-> x, of |-> [f EXCEPT ![k] = v]]
      BY <3>1
    <3>. QED BY <3>2 DEF x, f
  <2>5. e \in Point /\ e.x = ps[m].x /\ e.of[k] = v
        /\ \A j \in Keys : j # k => e.of[j] = ps[m].of[j]
    BY <1>2, <2>2, <2>4 DEF Point
  <2>6. q = [ps EXCEPT ![m] = e]
    BY <2>3
  <2> HIDE DEF e
  <2>7. /\ [ps EXCEPT ![m] = e] \in Seq(Point) /\ Len([ps EXCEPT ![m] = e]) = n
        /\ \A i \in 1..n : [ps EXCEPT ![m] = e][i] = IF i = m THEN e ELSE ps[i]
    BY <2>2, <2>5, ExceptSeq
  <2> HIDE DEF q
  <2>8. q \in Seq(Point) /\ Len(q) = n
        /\ \A i \in 1..n : q[i] = IF i = m THEN e ELSE ps[i]
    BY <2>6, <2>7
  <2> HIDE DEF n
  <2>9. \A i \in 1..n : q[i].x = ps[i].x
    BY <2>5, <2>8
  <2>10. \A i \in 1..n : \A j \in Keys : q[i].of[j] = ps[i].of[j] \/ (i = m /\ j = k)
    BY <2>5, <2>8
  <2>11. q[m].of[k] = v /\ Near(q[m].x, t, d) /\ m \in 1..Len(q)
    BY <2>2, <2>5, <2>8
  <2>12. Len(q) # n + 1
    BY <1>1, <2>8
  <2>. QED BY <2>8, <2>9, <2>10, <2>11, <2>12 DEF q, n, WithValue
<1>. QED BY <1>3, <1>4

\* Among points two seconds apart, none later than now, a value goes into the
\* last one or into a new one after all.
LEMMA PutsLast ==
  ASSUME NEW ps \in Seq(Point), NEW t \in Nat, NEW k \in Keys, NEW v \in Readings,
         Spaced(ps), \A i \in DOMAIN ps : ps[i].x <= t
  PROVE  LET n  == Len(ps)
             q  == Put(ps, k, t, v, Lenient)
         IN /\ q \in Seq(Point) /\ Len(q) \in {n, n + 1} /\ Len(q) >= 1
            /\ Spaced(q)
            /\ \A i \in 1..Len(q) : q[i].x <= t
            /\ q[Len(q)].of[k] = v /\ Near(q[Len(q)].x, t, Lenient)
            /\ \A i \in 1..n : /\ q[i].x = ps[i].x
                               /\ \A j \in Keys : q[i].of[j] = ps[i].of[j]
                                                  \/ (i = Len(q) /\ j = k)
            /\ Len(q) = n + 1 => \A j \in Keys : j # k => q[n + 1].of[j] = Gap
<1> DEFINE n == Len(ps)
           q == Put(ps, k, t, v, Lenient)
           l == Len(q)
<1>1. n \in Nat /\ DOMAIN ps = 1..n /\ \A i \in 1..n : ps[i].x \in Nat /\ ps[i].x <= t
  <2>1. \A i \in 1..n : ps[i] \in Point
    BY LenProperties, ElementOfSeq
  <2>. QED BY <2>1, LenProperties DEF Point
<1>2. /\ q \in Seq(Point) /\ l \in {n, n + 1}
      /\ \A i \in 1..n : q[i].x = ps[i].x
      /\ l = n + 1 => q[n + 1].x = t /\ \A i \in 1..n : ~Near(ps[i].x, t, Lenient)
      /\ \E m \in 1..l :
           /\ q[m].of[k] = v /\ Near(q[m].x, t, Lenient)
           /\ \A i \in 1..n : \A j \in Keys :
                q[i].of[j] = ps[i].of[j] \/ (i = m /\ j = k)
           /\ l = n + 1 => m = n + 1 /\ \A j \in Keys : j # k => q[m].of[j] = Gap
  <2>1. WithValue(ps, q, k, t, v, Lenient)
    BY LenientIs, PutsNear
  <2>. QED BY <2>1 DEF WithValue
<1>3. l \in Nat /\ DOMAIN q = 1..l
  BY <1>2, LenProperties
<1> HIDE DEF n, q, l
<1>4. PICK m \in 1..l :
        /\ q[m].of[k] = v /\ Near(q[m].x, t, Lenient)
        /\ \A i \in 1..n : \A j \in Keys : q[i].of[j] = ps[i].of[j] \/ (i = m /\ j = k)
        /\ l = n + 1 => m = n + 1 /\ \A j \in Keys : j # k => q[m].of[j] = Gap
  BY <1>2
<1>5. \A i, j \in 1..n : i < j => ps[i].x + Lenient <= ps[j].x
  BY <1>1 DEF Spaced
<1>6. m = l
  <2>1. CASE l = n + 1
    BY <1>4, <2>1
  <2>2. CASE l = n /\ m < n
    <3>1. m \in 1..n /\ n \in 1..n
      BY <1>1, <2>2
    <3>2. ps[m].x + Lenient <= ps[n].x /\ ps[n].x <= t
      BY <1>1, <1>5, <2>2, <3>1
    <3>3. Near(ps[m].x, t, Lenient)
      BY <1>2, <1>4, <3>1
    <3>4. t - ps[m].x < Lenient
      BY <3>3 DEF Near
    <3>. QED BY <1>1, <3>1, <3>2, <3>4, LenientIs
  <2>. QED BY <1>1, <1>2, <1>3, <2>1, <2>2
<1>7. \A i \in 1..l : i \in 1..n \/ (i = n + 1 /\ l = n + 1)
  BY <1>1, <1>2, <1>3
<1>8. \A i \in 1..l : q[i].x <= t
  <2>1. \A i \in 1..n : q[i].x <= t
    BY <1>1, <1>2
  <2>2. l = n + 1 => q[n + 1].x <= t
    BY <1>2
  <2>. QED BY <1>7, <2>1, <2>2
<1>9. Spaced(q)
  <2>1. SUFFICES ASSUME NEW i \in 1..l, NEW j \in 1..l, i < j
                 PROVE  q[i].x + Lenient <= q[j].x
    BY <1>3 DEF Spaced
  <2>2. CASE i \in 1..n /\ j \in 1..n
    BY <1>2, <1>5, <2>1, <2>2
  <2>3. CASE i \in 1..n /\ j = n + 1 /\ l = n + 1
    <3>1. ps[i].x <= t /\ ps[i].x \in Nat /\ ~Near(ps[i].x, t, Lenient)
      BY <1>1, <1>2, <2>3
    <3>2. ps[i].x + Lenient <= t
      BY <3>1, LenientIs DEF Near
    <3>. QED BY <1>2, <2>3, <3>2
  <2>4. i # n + 1
    BY <1>1, <1>7, <2>1
  <2>. QED BY <1>7, <2>2, <2>3, <2>4
<1>10. l >= 1 /\ l \in {n, n + 1}
  BY <1>2, <1>3, <1>4
<1>11. \A i \in 1..n : \A j \in Keys : q[i].of[j] = ps[i].of[j] \/ (i = l /\ j = k)
  BY <1>4, <1>6
<1>12. l = n + 1 => \A j \in Keys : j # k => q[n + 1].of[j] = Gap
  BY <1>4
<1>13. q[l].of[k] = v /\ Near(q[l].x, t, Lenient)
  BY <1>4, <1>6
<1>. QED BY <1>2, <1>8, <1>9, <1>10, <1>11, <1>12, <1>13 DEF n, q, l

\* slice(-MAX_POINTS) drops the first point of one too many.
LEMMA KeptIs ==
  ASSUME NEW q \in Seq(Point), Len(q) <= MaxPoints + 1
  PROVE  \E d \in {0, 1} :
           /\ Kept(q) \in Seq(Point) /\ Len(Kept(q)) = Len(q) - d
           /\ Len(Kept(q)) <= MaxPoints
           /\ d = 1 => Len(Kept(q)) = MaxPoints
           /\ \A i \in 1..(Len(q) - d) : Kept(q)[i] = q[i + d]
<1>1. Len(q) \in Nat /\ DOMAIN q = 1..Len(q) /\ \A i \in 1..Len(q) : q[i] \in Point
  BY LenProperties, ElementOfSeq
<1>2. CASE Len(q) <= MaxPoints
  <2>1. Kept(q) = q
    BY <1>1, <1>2, MaxPointsIs DEF Kept
  <2>2. /\ Kept(q) \in Seq(Point) /\ Len(Kept(q)) = Len(q) - 0
        /\ Len(Kept(q)) <= MaxPoints
        /\ \A i \in 1..(Len(q) - 0) : Kept(q)[i] = q[i + 0]
    BY <1>1, <1>2, <2>1
  <2>. QED BY <2>2
<1>3. CASE Len(q) = MaxPoints + 1
  <2>1. Kept(q) = SubSeq(q, 2, Len(q))
    BY <1>1, <1>3, MaxPointsIs DEF Kept
  <2>2. /\ SubSeq(q, 2, Len(q)) \in Seq(Point)
        /\ Len(SubSeq(q, 2, Len(q))) = IF 2 <= Len(q) THEN Len(q) - 2 + 1 ELSE 0
        /\ \A i \in 1..(Len(q) - 2 + 1) : SubSeq(q, 2, Len(q))[i] = q[2 + i - 1]
    <3>1. \A i \in 2..Len(q) : q[i] \in Point
      BY <1>1
    <3>. QED BY <1>1, <3>1, SubSeqProperties
  <2>3. \A i \in 1..(Len(q) - 1) : SubSeq(q, 2, Len(q))[i] = q[i + 1]
    BY <1>1, <2>2
  <2>4. /\ Kept(q) \in Seq(Point) /\ Len(Kept(q)) = Len(q) - 1
        /\ Len(Kept(q)) = MaxPoints
        /\ \A i \in 1..(Len(q) - 1) : Kept(q)[i] = q[i + 1]
    <3>1. Len(Kept(q)) = Len(q) - 1 /\ Len(Kept(q)) = MaxPoints
      BY <1>1, <1>3, <2>1, <2>2, MaxPointsIs
    <3>. QED BY <2>1, <2>2, <2>3, <3>1
  <2>5. Len(Kept(q)) <= MaxPoints
    BY <2>4, MaxPointsIs
  <2>. QED BY <2>4, <2>5
<1>4. Len(q) <= MaxPoints \/ Len(q) = MaxPoints + 1
  <2>1. Len(q) \in Nat /\ MaxPoints \in Nat /\ Len(q) <= MaxPoints + 1
    BY <1>1, MaxPointsIs
  <2>. QED BY <2>1
<1>. QED BY <1>2, <1>3, <1>4
\* The points after a value has been handled.
LEMMA PointsAfter ==
  ASSUME NEW ps \in Seq(Point), NEW t \in Nat, NEW k \in Keys, NEW v \in Readings,
         Len(ps) <= MaxPoints, Spaced(ps), \A i \in DOMAIN ps : ps[i].x <= t,
         \A i \in DOMAIN ps : \E j \in Keys : ps[i].of[j] # Gap
  PROVE  LET r == Kept(Put(ps, k, t, v, Lenient))
         IN /\ r \in Seq(Point) /\ Len(r) <= MaxPoints /\ Len(r) >= 1 /\ Spaced(r)
            /\ \A i \in 1..Len(r) : r[i].x <= t
            /\ r[Len(r)].of[k] = v /\ Near(r[Len(r)].x, t, Lenient)
            /\ \A i \in 1..Len(r) : \E j \in Keys : r[i].of[j] # Gap
            /\ \A i \in 1..Len(r), j \in Keys : r[i].of[j] # Gap =>
                 \/ i = Len(r) /\ j = k
                 \/ \E m \in 1..Len(ps) :
                      ps[m].x = r[i].x /\ ps[m].of[j] = r[i].of[j]
            /\ \A g \in Newest, j \in Keys : j # k /\ Placed(ps, g, j) => Placed(r, g, j)
<1> DEFINE n == Len(ps)
           q == Put(ps, k, t, v, Lenient)
           r == Kept(q)
<1>1. /\ q \in Seq(Point) /\ Len(q) \in {n, n + 1} /\ Len(q) >= 1
      /\ Spaced(q)
      /\ \A i \in 1..Len(q) : q[i].x <= t
      /\ q[Len(q)].of[k] = v /\ Near(q[Len(q)].x, t, Lenient)
      /\ \A i \in 1..n : /\ q[i].x = ps[i].x
                         /\ \A j \in Keys : q[i].of[j] = ps[i].of[j]
                                            \/ (i = Len(q) /\ j = k)
      /\ Len(q) = n + 1 => \A j \in Keys : j # k => q[n + 1].of[j] = Gap
  BY PutsLast
<1> HIDE DEF q
<1>2. n \in Nat /\ Len(q) \in Nat /\ Len(q) <= MaxPoints + 1
  <2>1. n \in Nat /\ Len(q) \in Nat
    BY <1>1, LenProperties
  <2>2. n <= MaxPoints /\ Len(q) \in {n, n + 1}
    BY <1>1
  <2> HIDE DEF n
  <2>. QED BY <2>1, <2>2, MaxPointsIs
<1>3. PICK d \in {0, 1} :
        /\ r \in Seq(Point) /\ Len(r) = Len(q) - d
        /\ Len(r) <= MaxPoints
        /\ d = 1 => Len(r) = MaxPoints
        /\ \A i \in 1..(Len(q) - d) : r[i] = q[i + d]
  BY <1>1, <1>2, KeptIs
<1> HIDE DEF r
<1> DEFINE l == Len(q)
           h == Len(r)
<1>4. /\ l \in Nat /\ h \in Nat /\ h = l - d /\ l >= 1 /\ h <= MaxPoints
      /\ (d = 1 => h = MaxPoints) /\ (l = n \/ l = n + 1) /\ n <= MaxPoints
  BY <1>1, <1>2, <1>3, LenProperties
<1>5. DOMAIN ps = 1..n /\ DOMAIN q = 1..l /\ DOMAIN r = 1..h
  BY <1>1, <1>3, LenProperties
<1>6. /\ \A i \in 1..n : ps[i].x \in Nat
      /\ \A i \in 1..l : q[i].x \in Nat
      /\ \A i \in 1..h : r[i].x \in Nat
  <2>1. \A p \in Point : p.x \in Nat
    BY DEF Point
  <2>2. /\ \A i \in 1..n : ps[i] \in Point
        /\ \A i \in 1..l : q[i] \in Point
        /\ \A i \in 1..h : r[i] \in Point
    BY <1>1, <1>3, ElementOfSeq
  <2>. QED BY <2>1, <2>2
<1>7. \A i \in 1..h : i + d \in 1..l /\ r[i] = q[i + d] /\ (i + d = l <=> i = h)
  BY <1>3, <1>4
<1> HIDE DEF n, l, h
<1>8. h >= 1 /\ l \in 1..l /\ h \in 1..h /\ h + d = l
  BY <1>4, MaxPointsIs
<1>9. Spaced(r)
  <2>1. \A i, j \in 1..l : i < j => q[i].x + Lenient <= q[j].x
    BY <1>1, <1>5 DEF Spaced
  <2>2. \A i, j \in 1..h : i < j => i + d < j + d
    BY <1>4
  <2>. QED BY <1>5, <1>7, <2>1, <2>2 DEF Spaced
<1>10. \A i \in 1..h : r[i].x <= t
  BY <1>1, <1>7 DEF l
<1>11. r[h].of[k] = v /\ Near(r[h].x, t, Lenient)
  BY <1>1, <1>7, <1>8 DEF l
<1>12. \A i \in 1..l : i \in 1..n \/ (i = l /\ l = n + 1)
  BY <1>2, <1>4
<1>13. \A i \in 1..n : /\ q[i].x = ps[i].x
                       /\ \A j \in Keys : q[i].of[j] = ps[i].of[j] \/ (i = l /\ j = k)
  BY <1>1 DEF l, n
<1>14. l = n + 1 => \A j \in Keys : j # k => q[l].of[j] = Gap
  BY <1>1 DEF l, n
<1>15. \A i \in 1..h : \E j \in Keys : r[i].of[j] # Gap
  <2> TAKE i \in 1..h
  <2>1. CASE i = h
    BY <1>11, <2>1, MaxPointsIs
  <2>2. CASE i # h
    <3>1. i + d \in 1..n /\ i + d # l
      BY <1>7, <1>12, <2>2
    <3>2. PICK j \in Keys : ps[i + d].of[j] # Gap
      BY <1>5, <3>1
    <3>. QED BY <1>7, <1>13, <3>1, <3>2
  <2>. QED BY <2>1, <2>2
<1>16. \A i \in 1..h, j \in Keys : r[i].of[j] # Gap =>
         \/ i = h /\ j = k
         \/ \E m \in 1..n : ps[m].x = r[i].x /\ ps[m].of[j] = r[i].of[j]
  <2> SUFFICES ASSUME NEW i \in 1..h, NEW j \in Keys, r[i].of[j] # Gap,
                      ~(i = h /\ j = k)
               PROVE  \E m \in 1..n : ps[m].x = r[i].x /\ ps[m].of[j] = r[i].of[j]
    OBVIOUS
  <2>1. r[i] = q[i + d] /\ ~(i + d = l /\ j = k) /\ i + d \in 1..l
    BY <1>7
  <2>2. i + d \in 1..n
    BY <1>12, <1>14, <2>1
  <2>. QED BY <1>13, <2>1, <2>2
<1>17. \A g \in Newest, j \in Keys : j # k /\ Placed(ps, g, j) => Placed(r, g, j)
  <2> SUFFICES ASSUME NEW g \in Newest, NEW j \in Keys, j # k, Placed(ps, g, j)
               PROVE  Placed(r, g, j)
    OBVIOUS
  <2>1. g.time \in Nat
    BY DEF Newest
  <2>2. \A i, m \in 1..l : i < m => q[i].x + Lenient <= q[m].x
    BY <1>1, <1>5 DEF Spaced
  <2>3. CASE \E i \in 1..n : ps[i].of[j] = g.value /\ Near(ps[i].x, g.time, Lenient)
    <3>1. PICK i \in 1..n : ps[i].of[j] = g.value /\ Near(ps[i].x, g.time, Lenient)
      BY <2>3
    <3>2. i \in 1..l /\ q[i].of[j] = g.value /\ Near(q[i].x, g.time, Lenient)
      BY <1>2, <1>4, <1>13, <3>1
    <3>3. CASE i > d
      <4>1. i - d \in 1..h /\ (i - d) + d = i
        BY <1>4, <3>2, <3>3
      <4>2. r[i - d] = q[i]
        BY <1>7, <4>1
      <4>. QED BY <1>5, <3>2, <4>1, <4>2 DEF Placed
    <3>4. CASE i <= d
      <4>1. d = 1 /\ i = 1
        BY <3>2, <3>4, <1>4
      <4>2. h = MaxPoints
        BY <1>4, <4>1
      <4>3. ASSUME NEW m \in 1..h PROVE r[m].x > g.time
        <5>1. m + d \in 1..l /\ i < m + d /\ r[m] = q[m + d]
          BY <1>7, <4>1
        <5>2. q[i].x + Lenient <= q[m + d].x
          BY <2>2, <3>2, <5>1
        <5>3. g.time - q[i].x < Lenient
          BY <3>2 DEF Near
        <5>4. q[i].x \in Nat /\ q[m + d].x \in Nat
          BY <1>6, <3>2, <5>1 DEF l
        <5>. QED BY SMTT(30), <2>1, <5>1, <5>2, <5>3, <5>4, LenientIs
      <4>. QED BY <1>5, <4>2, <4>3 DEF Placed, h
    <3>5. i > d \/ i <= d
      BY <3>2, <1>4
    <3>. QED BY <3>3, <3>4, <3>5
  <2>4. CASE n = MaxPoints /\ \A i \in 1..n : ps[i].x > g.time
    <3>1. h = MaxPoints
      BY <1>2, <1>4, <2>4, MaxPointsIs
    <3>2. 1 \in 1..n /\ 1 \in 1..l /\ q[1].x > g.time
      BY <1>2, <1>4, <1>13, <2>4, MaxPointsIs
    <3>3. ASSUME NEW m \in 1..h PROVE r[m].x > g.time
      <4>1. m + d \in 1..l /\ r[m] = q[m + d]
        BY <1>7
      <4>2. m + d = 1 \/ 1 < m + d
        BY <4>1
      <4>3. m + d = 1 \/ q[1].x + Lenient <= q[m + d].x
        BY <2>2, <3>2, <4>1, <4>2
      <4>4. q[1].x \in Nat /\ q[m + d].x \in Nat
        BY <1>6, <3>2, <4>1 DEF l
      <4>. QED BY <2>1, <3>2, <4>1, <4>3, <4>4, LenientIs
    <3>. QED BY <1>5, <3>1, <3>3 DEF Placed, h
  <2>5. \/ \E i \in 1..n : ps[i].of[j] = g.value /\ Near(ps[i].x, g.time, Lenient)
        \/ n = MaxPoints /\ \A i \in 1..n : ps[i].x > g.time
    BY <1>5 DEF Placed, n
  <2>. QED BY <2>3, <2>4, <2>5
<1>18. h = Len(r) /\ n = Len(ps)
  BY DEF h, n
<1>19. r \in Seq(Point) /\ Len(r) <= MaxPoints /\ Len(r) >= 1
  BY <1>3, <1>8, <1>18
<1>20. /\ \A i \in 1..Len(r) : r[i].x <= t
       /\ r[Len(r)].of[k] = v /\ Near(r[Len(r)].x, t, Lenient)
       /\ \A i \in 1..Len(r) : \E j \in Keys : r[i].of[j] # Gap
  BY <1>10, <1>11, <1>15, <1>18
<1>21. \A i \in 1..Len(r), j \in Keys : r[i].of[j] # Gap =>
         \/ i = Len(r) /\ j = k
         \/ \E m \in 1..Len(ps) : ps[m].x = r[i].x /\ ps[m].of[j] = r[i].of[j]
  BY <1>16, <1>18
<1>. QED BY <1>9, <1>17, <1>19, <1>20, <1>21 DEF q, r

-----------------------------------------------------------------------------
(* Each step of the chart. *)

LEMMA InitChart == ChartInit => ChartInv
<1> SUFFICES ASSUME ChartInit PROVE ChartInv
  OBVIOUS
<1>1. /\ clock = 0 /\ air = <<>> /\ points = <<>> /\ sensorKeys = {}
      /\ asked = [modes |-> {"live"}, from |-> 0, read |-> Gap]
      /\ lastGot = [k \in Keys |-> Gap]
  BY DEF ChartInit, Ask, NotAsked
<1>2. ChartTypes
  BY <1>1 DEF ChartTypes
<1>3. "history" \notin asked.modes
  BY <1>1
<1>4. points \in Seq(Point) /\ Len(points) = 0 /\ DOMAIN points = {}
  <2>1. points \in Seq(Point) /\ Len(points) = 0
    BY <1>1, EmptySeq
  <2>. QED BY <2>1, LenProperties
<1>5. LivePoints /\ Spaced(points) /\ Filled /\ CameNamed /\ NewestPlaced
  BY <1>1, <1>4, MaxPointsIs DEF LivePoints, Spaced, Filled, CameNamed, NewestPlaced
<1>. QED BY <1>2, <1>3, <1>5 DEF ChartInv

\* What is drawn stays what it is while the chart gets nothing and time passes.
LEMMA DrawnStays ==
  ASSUME ChartInv, UNCHANGED data, clock' \in Nat, clock' >= clock,
         air' \in Seq(Sample), DOMAIN asked' = {"modes", "from", "read"},
         "history" \in asked'.modes => isHistoricalMode',
         ~isHistoricalMode' => ~isHistoricalMode
  PROVE  ChartInv'
<1>1. ChartTypes /\ ChartTypes'
  BY DEF ChartInv, ChartTypes, data
<1>2. SUFFICES ASSUME ~isHistoricalMode
               PROVE  /\ LivePoints' /\ Spaced(points)' /\ Filled' /\ CameNamed'
                      /\ NewestPlaced'
  BY <1>1 DEF ChartInv
<1>3. LivePoints /\ Spaced(points) /\ Filled /\ CameNamed /\ NewestPlaced
  BY <1>2 DEF ChartInv
<1>4. /\ points' = points /\ sensorKeys' = sensorKeys /\ got' = got
      /\ lastGot' = lastGot
  BY DEF data
<1>5. Spaced(points)' /\ Filled' /\ CameNamed'
  BY <1>3, <1>4 DEF Spaced, Filled, CameNamed, Came
<1>6. clock \in Nat
  BY <1>1 DEF ChartTypes
<1>7. LivePoints'
  <2>1. DOMAIN points = 1..Len(points)
    BY <1>3, LenProperties DEF LivePoints
  <2>2. \A i \in DOMAIN points : points[i].x \in Nat
    <3>1. \A i \in DOMAIN points : points[i] \in Point
      BY <1>3, <2>1, ElementOfSeq DEF LivePoints
    <3>. QED BY <3>1 DEF Point
  <2>3. \A i \in DOMAIN points : points[i].x <= clock'
    BY <1>3, <1>6, <2>2 DEF LivePoints
  <2>. QED BY <1>3, <1>4, <2>3 DEF LivePoints
<1>8. NewestPlaced'
  <2> SUFFICES ASSUME NEW k \in Keys, lastGot[k] # Gap
               PROVE  lastGot[k].time <= clock' /\ Placed(points, lastGot[k], k)
    BY <1>4 DEF NewestPlaced, Placed
  <2>1. lastGot[k].time <= clock /\ Placed(points, lastGot[k], k)
    BY <1>3 DEF NewestPlaced
  <2>2. lastGot[k].time \in Nat
    BY <1>1 DEF ChartTypes, Newest
  <2>. QED BY <1>6, <2>1, <2>2
<1>. QED BY <1>5, <1>7, <1>8

\* A sample of a chart that is not paused is drawn, named and the newest.
LEMMA HandlerStep == ChartInv /\ handler => ChartInv'
<1> SUFFICES ASSUME ChartInv, handler PROVE ChartInv'
  OBVIOUS
<1>1. /\ air # <<>> /\ air' = Tail(air) /\ clock' = clock /\ asked' = asked
      /\ isHistoricalMode' = isHistoricalMode
  BY DEF handler, logged, controls
<1>2. ChartTypes
  BY DEF ChartInv
<1>3. air' \in Seq(Sample) /\ Head(air) \in Sample
  BY <1>1, <1>2, HeadTailProperties DEF ChartTypes
<1>4. CASE isHistoricalMode \/ isPaused
  <2>1. UNCHANGED data
    BY <1>4 DEF handler
  <2>. QED BY <1>1, <1>2, <1>3, <2>1, DrawnStays DEF ChartInv, ChartTypes
<1>5. CASE ~(isHistoricalMode \/ isPaused)
  <2> DEFINE k == Head(air).key
             v == Head(air).value
             r == Kept(Put(points, k, clock, v, Lenient))
  <2>1. /\ points' = r /\ sensorKeys' = sensorKeys \cup {k}
        /\ lastGot' = [lastGot EXCEPT ![k] = [time |-> clock, value |-> v]]
        /\ got' = got \cup {[key |-> k, time |-> clock, value |-> v]}
    BY <1>5 DEF handler
  <2>2. k \in Keys /\ v \in Readings
    BY <1>3 DEF Sample
  <2> HIDE DEF k, v
  <2>3. LivePoints /\ Spaced(points) /\ Filled /\ CameNamed /\ NewestPlaced
        /\ clock \in Nat
    BY <1>2, <1>5 DEF ChartInv, ChartTypes
  <2>4. /\ r \in Seq(Point) /\ Len(r) <= MaxPoints /\ Len(r) >= 1 /\ Spaced(r)
        /\ \A i \in 1..Len(r) : r[i].x <= clock
        /\ r[Len(r)].of[k] = v /\ Near(r[Len(r)].x, clock, Lenient)
        /\ \A i \in 1..Len(r) : \E j \in Keys : r[i].of[j] # Gap
        /\ \A i \in 1..Len(r), j \in Keys : r[i].of[j] # Gap =>
             \/ i = Len(r) /\ j = k
             \/ \E m \in 1..Len(points) :
                  points[m].x = r[i].x /\ points[m].of[j] = r[i].of[j]
        /\ \A g \in Newest, j \in Keys : j # k /\ Placed(points, g, j) => Placed(r, g, j)
    BY <2>2, <2>3, PointsAfter DEF LivePoints, Filled
  <2> HIDE DEF r
  <2>5. Len(r) \in Nat /\ DOMAIN r = 1..Len(r) /\ DOMAIN points = 1..Len(points)
        /\ Len(r) \in 1..Len(r)
    <3>1. Len(r) \in Nat /\ DOMAIN r = 1..Len(r) /\ DOMAIN points = 1..Len(points)
      BY <2>3, <2>4, LenProperties DEF LivePoints
    <3>. QED BY <2>4, <3>1
  <2>6. ChartTypes'
    BY <1>1, <1>2, <1>3, <2>1, <2>2 DEF ChartTypes, Newest
  <2>7. LivePoints'
    BY <1>1, <2>1, <2>2, <2>3, <2>4, <2>5 DEF LivePoints
  <2>8. Spaced(points)' /\ Filled'
    BY <2>1, <2>4, <2>5 DEF Filled, Spaced
  <2>9. CameNamed'
    <3> SUFFICES ASSUME NEW i \in 1..Len(r), NEW j \in Keys, r[i].of[j] # Gap
                 PROVE  /\ j \in sensorKeys \cup {k}
                        /\ \E g \in got' : /\ g.key = j /\ g.value = r[i].of[j]
                                           /\ Near(g.time, r[i].x, Lenient)
      BY <2>1, <2>5 DEF CameNamed, Came
    <3>1. CASE i = Len(r) /\ j = k
      <4> DEFINE g == [key |-> k, time |-> clock, value |-> v]
      <4>1. g \in got' /\ g.key = j /\ g.value = r[i].of[j]
        BY <2>1, <2>4, <3>1
      <4>2. Near(r[i].x, g.time, Lenient)
        BY <2>4, <3>1
      <4>3. Near(g.time, r[i].x, Lenient)
        BY <4>2 DEF Near
      <4>. QED BY <3>1, <4>1, <4>3
    <3>2. CASE \E m \in 1..Len(points) :
                 points[m].x = r[i].x /\ points[m].of[j] = r[i].of[j]
      <4>1. PICK m \in 1..Len(points) :
                 points[m].x = r[i].x /\ points[m].of[j] = r[i].of[j]
        BY <3>2
      <4>2. j \in sensorKeys /\ Came(j, points[m].x, points[m].of[j])
        BY <2>3, <2>5, <4>1 DEF CameNamed
      <4>. QED BY <2>1, <4>1, <4>2 DEF Came
    <3>. QED BY <2>4, <3>1, <3>2
  <2>10. NewestPlaced'
    <3> SUFFICES ASSUME NEW j \in Keys, lastGot'[j] # Gap
                 PROVE  lastGot'[j].time <= clock /\ Placed(r, lastGot'[j], j)
      BY <1>1, <2>1 DEF NewestPlaced, Placed
    <3>1. lastGot \in [Keys -> Newest \cup {Gap}]
      BY <1>2 DEF ChartTypes
    <3>2. CASE j = k
      <4>1. lastGot'[j] = [time |-> clock, value |-> v]
        BY <2>1, <3>1, <3>2
      <4>2. lastGot'[j].time = clock /\ lastGot'[j].value = v
        BY <4>1
      <4>3. r[Len(r)].of[k] = v /\ Near(r[Len(r)].x, clock, Lenient)
            /\ Len(r) \in DOMAIN r
        BY <2>4, <2>5
      <4>4. Placed(r, lastGot'[j], j)
        BY <3>2, <4>2, <4>3 DEF Placed
      <4>. QED BY <2>3, <4>2, <4>4
    <3>3. CASE j # k
      <4>1. lastGot'[j] = lastGot[j] /\ lastGot[j] \in Newest
        BY <2>1, <3>1, <3>3
      <4>2. lastGot[j].time <= clock /\ Placed(points, lastGot[j], j)
        BY <2>3, <4>1 DEF NewestPlaced
      <4>3. Placed(r, lastGot[j], j)
        BY <2>4, <3>3, <4>1, <4>2
      <4>. QED BY <4>1, <4>2, <4>3
    <3>. QED BY <3>2, <3>3
  <2>11. "history" \in asked'.modes => isHistoricalMode'
    BY <1>1 DEF ChartInv
  <2>. QED BY <2>6, <2>7, <2>8, <2>9, <2>10, <2>11 DEF ChartInv
<1>. QED BY <1>4, <1>5

\* Going live starts without points; only a log that nobody waits for is left.
LEMMA BackStep == ChartInv /\ handleBackToRealTime /\ Patient => ChartInv'
<1> SUFFICES ASSUME ChartInv, handleBackToRealTime, Patient PROVE ChartInv'
  OBVIOUS
<1>1. /\ points' = <<>> /\ sensorKeys' = {} /\ lastGot' = [k \in Keys |-> Gap]
      /\ clock' = clock /\ air' = air /\ asked.modes = {}
      /\ asked' = [modes |-> {"live"}, from |-> 0, read |-> Gap]
  BY DEF handleBackToRealTime, Ask, Patient, Waiting, logged
<1>2. ChartTypes'
  BY <1>1 DEF ChartInv, ChartTypes
<1>3. "history" \notin asked'.modes
  BY <1>1
<1>4. points' \in Seq(Point) /\ Len(points') = 0 /\ DOMAIN points' = {}
  <2>1. points' \in Seq(Point) /\ Len(points') = 0
    BY <1>1, EmptySeq
  <2>. QED BY <2>1, LenProperties
<1>5. LivePoints' /\ Spaced(points)' /\ Filled' /\ CameNamed' /\ NewestPlaced'
  BY <1>1, <1>4, MaxPointsIs DEF LivePoints, Spaced, Filled, CameNamed, NewestPlaced
<1>. QED BY <1>2, <1>3, <1>5 DEF ChartInv

\* An answer sets the points of the historical mode only.
LEMMA LogsStep == ChartInv /\ LogsArrived => ChartInv'
<1> SUFFICES ASSUME ChartInv, LogsArrived PROVE ChartInv'
  OBVIOUS
<1>1. /\ asked' = [modes |-> {}, from |-> 0, read |-> Gap] /\ clock' = clock
      /\ air' = air /\ isHistoricalMode' = isHistoricalMode
  BY DEF LogsArrived, NotAsked, logged, controls
<1>2. ChartTypes
  BY DEF ChartInv
<1>3. CASE "history" \in asked.modes
  <2>1. isHistoricalMode' /\ lastGot' = lastGot
    BY <1>1, <1>3 DEF ChartInv, LogsArrived
  <2>2. ChartTypes'
    BY <1>1, <1>2, <2>1 DEF ChartTypes
  <2>. QED BY <1>1, <2>1, <2>2 DEF ChartInv
<1>4. CASE "history" \notin asked.modes
  <2>1. UNCHANGED data
    BY <1>4 DEF LogsArrived
  <2>2. clock' \in Nat /\ clock' >= clock /\ air' \in Seq(Sample)
        /\ DOMAIN asked' = {"modes", "from", "read"}
        /\ "history" \notin asked'.modes
    BY <1>1, <1>2 DEF ChartTypes
  <2>. QED BY <1>1, <2>1, <2>2, DrawnStays
<1>. QED BY <1>3, <1>4

\* The historical mode, once it is entered, may be told of the log.
LEMMA ApplyRangeStep == \A from : ChartInv /\ handleApplyTimeRange(from) => ChartInv'
<1> SUFFICES ASSUME NEW from, ChartInv, handleApplyTimeRange(from) PROVE ChartInv'
  OBVIOUS
<1>1. /\ isHistoricalMode' = TRUE /\ clock' = clock /\ air' = air /\ UNCHANGED data
      /\ DOMAIN asked' = {"modes", "from", "read"}
  BY DEF handleApplyTimeRange, Ask, logged
<1>. QED BY <1>1, DrawnStays DEF ChartInv, ChartTypes

LEMMA ChartOthersStep ==
  /\ ChartInv /\ Tick => ChartInv'
  /\ \A k \in Keys, v \in Readings : ChartInv /\ recordLogs(k, v) => ChartInv'
  /\ \A b : ChartInv /\ Flushed(b) => ChartInv'
  /\ ChartInv /\ findAll => ChartInv'
  /\ ChartInv /\ LogsFail => ChartInv'
  /\ ChartInv /\ togglePause => ChartInv'
  /\ ChartInv /\ UNCHANGED chartVars => ChartInv'
<1> USE DEF logged, data, controls
<1>1. ASSUME ChartInv, Tick PROVE ChartInv'
  <2>1. UNCHANGED <<data, air, asked, isHistoricalMode>> /\ clock' = clock + 1
    BY <1>1 DEF Tick
  <2>. QED BY <1>1, <2>1, DrawnStays DEF ChartInv, ChartTypes
<1>2. ASSUME NEW k \in Keys, NEW v \in Readings, ChartInv, recordLogs(k, v) PROVE ChartInv'
  <2>1. UNCHANGED <<data, clock, asked, isHistoricalMode>>
        /\ air' = Append(air, [key |-> k, value |-> v])
    BY <1>2 DEF recordLogs
  <2>2. air' \in Seq(Sample)
    <3>1. [key |-> k, value |-> v] \in Sample /\ air \in Seq(Sample)
      BY <1>2 DEF Sample, ChartInv, ChartTypes
    <3>. QED BY <2>1, <3>1, AppendProperties
  <2>. QED BY <1>2, <2>1, <2>2, DrawnStays DEF ChartInv, ChartTypes
<1>3. ASSUME NEW b, ChartInv, Flushed(b) PROVE ChartInv'
  <2>1. UNCHANGED <<data, clock, air, asked, isHistoricalMode>>
    BY <1>3 DEF Flushed
  <2>. QED BY <1>3, <2>1, DrawnStays DEF ChartInv, ChartTypes
<1>4. ASSUME ChartInv, findAll PROVE ChartInv'
  <2>1. UNCHANGED <<data, clock, air, isHistoricalMode>>
        /\ \E w : asked' = [asked EXCEPT !.read = w]
    BY <1>4 DEF findAll
  <2>2. asked'.modes = asked.modes /\ DOMAIN asked' = DOMAIN asked
    <3>1. PICK w : asked' = [asked EXCEPT !.read = w]
      BY <2>1
    <3>2. DOMAIN asked = {"modes", "from", "read"}
      BY <1>4 DEF ChartInv, ChartTypes
    <3>. QED BY <3>1, <3>2
  <2>. QED BY <1>4, <2>1, <2>2, DrawnStays DEF ChartInv, ChartTypes
<1>5. ASSUME ChartInv, LogsFail PROVE ChartInv'
  <2>1. UNCHANGED <<data, clock, air, isHistoricalMode>>
        /\ asked' = [modes |-> {}, from |-> 0, read |-> Gap]
    BY <1>5 DEF LogsFail, NotAsked
  <2>2. "history" \notin asked'.modes /\ DOMAIN asked' = {"modes", "from", "read"}
    BY <2>1
  <2>. QED BY <1>5, <2>1, <2>2, DrawnStays DEF ChartInv, ChartTypes
<1>6. ASSUME ChartInv, togglePause PROVE ChartInv'
  <2>1. UNCHANGED <<data, clock, air, isHistoricalMode>>
    BY <1>6 DEF togglePause
  <2>2. asked' = asked \/ asked' = [modes |-> asked.modes \cup {"live"}, from |-> 0, read |-> Gap]
    BY <1>6 DEF togglePause, Ask
  <2>3. ("history" \in asked'.modes => "history" \in asked.modes)
        /\ DOMAIN asked' = {"modes", "from", "read"}
    BY <1>6, <2>2 DEF ChartInv, ChartTypes
  <2>. QED BY <1>6, <2>1, <2>3, DrawnStays DEF ChartInv, ChartTypes
<1>7. ASSUME ChartInv, UNCHANGED chartVars PROVE ChartInv'
  <2>1. UNCHANGED <<data, clock, air, asked, isHistoricalMode>>
    BY <1>7 DEF chartVars
  <2>. QED BY <1>7, <2>1, DrawnStays DEF ChartInv, ChartTypes
<1>. QED BY <1>1, <1>2, <1>3, <1>4, <1>5, <1>6, <1>7

LEMMA ChartStep == ChartInv /\ PatientChartNext => ChartInv'
<1> SUFFICES ASSUME ChartInv, PatientChartNext PROVE ChartInv'
  OBVIOUS
<1>1. CASE ChartServer
  BY <1>1, ChartOthersStep DEF ChartServer
<1>2. CASE ChartClient
  BY <1>2, ChartOthersStep, HandlerStep, LogsStep DEF ChartClient
<1>3. CASE ChartUser /\ Patient
  BY <1>3, ChartOthersStep, BackStep, ApplyRangeStep DEF ChartUser
<1>. QED BY <1>1, <1>2, <1>3 DEF PatientChartNext

-----------------------------------------------------------------------------
(* What any type of chart shows. *)

LEMMA LiveMode == ModeShown # "Historical Mode" => ~isHistoricalMode
  BY DEF ModeShown

LEMMA GreatestIs ==
  ASSUME NEW n \in Nat, 1..n # {}
  PROVE  n \in 1..n /\ Max(1..n) = n
<1>1. n >= 1
  OBVIOUS
<1>2. n \in 1..n /\ \A y \in 1..n : n >= y
  BY <1>1
<1>3. Max(1..n) \in 1..n /\ \A y \in 1..n : Max(1..n) >= y
  BY <1>2 DEF Max
<1>4. \A z \in 1..n : z >= n => z = n
  OBVIOUS
<1>. QED BY <1>2, <1>3, <1>4

LEMMA ChartShowsWhatCame == ChartInv => LiveShowsWhatCame
<1> SUFFICES ASSUME ChartInv, ModeShown # "Historical Mode"
             PROVE  /\ Len(points) <= MaxPoints
                    /\ \A S \in SUBSET Keys : \A k \in Series(S) :
                       /\ \A i \in Curves(S)[k] : Came(k, points[i].x, points[i].of[k])
                       /\ \A i \in DOMAIN exportToCSV(S) :
                            LET row == exportToCSV(S)[i]
                            IN row.cells[k] # Gap => Came(k, row.x, row.cells[k])
                       /\ PieShows(S)[k] # 0 => Came(k, Last(points).x, PieShows(S)[k])
  BY DEF LiveShowsWhatCame
<1>1. LivePoints /\ Filled /\ CameNamed
  BY LiveMode DEF ChartInv
<1>2. DOMAIN points = 1..Len(points) /\ Len(points) \in Nat
  BY <1>1, LenProperties DEF LivePoints
<1>3. cleanData = 1..Len(points)
  BY <1>1, <1>2 DEF cleanData, HasValue, Filled, CameNamed
<1>4. ASSUME NEW S \in SUBSET Keys, NEW k \in Series(S)
      PROVE  /\ \A i \in Curves(S)[k] : Came(k, points[i].x, points[i].of[k])
             /\ \A i \in DOMAIN exportToCSV(S) :
                  LET row == exportToCSV(S)[i]
                  IN row.cells[k] # Gap => Came(k, row.x, row.cells[k])
             /\ PieShows(S)[k] # 0 => Came(k, Last(points).x, PieShows(S)[k])
  <2>1. k \in Keys
    BY <1>1, <1>4 DEF Series, LivePoints
  <2>2. \A i \in 1..Len(points) : points[i].of[k] # Gap => Came(k, points[i].x, points[i].of[k])
    BY <1>1, <1>2, <2>1 DEF CameNamed
  <2>3. \A i \in Curves(S)[k] : Came(k, points[i].x, points[i].of[k])
    <3>1. Curves(S)[k] = Curve(k)
      BY <1>4 DEF Curves
    <3>2. \A i \in Curve(k) : i \in 1..Len(points) /\ points[i].of[k] # Gap
      BY <1>3 DEF Curve
    <3>. QED BY <2>2, <3>1, <3>2
  <2>4. ASSUME NEW i \in DOMAIN exportToCSV(S), exportToCSV(S)[i].cells[k] # Gap
        PROVE  Came(k, exportToCSV(S)[i].x, exportToCSV(S)[i].cells[k])
    <3>1. i \in 1..Len(points) /\ exportToCSV(S)[i].x = points[i].x
          /\ exportToCSV(S)[i].cells[k] = points[i].of[k]
      BY <1>2, <1>4, <2>4 DEF exportToCSV
    <3>. QED BY <2>2, <2>4, <3>1
  <2>5. ASSUME PieShows(S)[k] # 0
        PROVE  Came(k, Last(points).x, PieShows(S)[k])
    <3> DEFINE n == Len(points)
    <3>1. cleanData # {} /\ points[Max(cleanData)].of[k] # Gap
          /\ PieShows(S)[k] = points[Max(cleanData)].of[k]
      BY <1>4, <2>5 DEF PieShows
    <3>2. n \in 1..n
      BY <1>2, <1>3, <3>1, GreatestIs
    <3>3. Max(cleanData) = n
      BY <1>2, <1>3, <3>1, GreatestIs
    <3>4. Last(points) = points[n]
      BY DEF Last
    <3>. QED BY <2>2, <3>1, <3>2, <3>3, <3>4
  <2>. QED BY <2>3, <2>4, <2>5
<1>. QED BY <1>1, <1>4 DEF LivePoints

LEMMA ChartDrawsNewest == ChartInv => LastValueIsDrawn
<1> SUFFICES ASSUME ChartInv, ModeShown # "Historical Mode",
                    NEW k \in Keys, lastGot[k] # Gap
             PROVE  \/ \E p \in ToSet(points) :
                         p.of[k] = lastGot[k].value /\ Near(p.x, lastGot[k].time, Lenient)
                    \/ /\ Len(points) = MaxPoints
                       /\ \A p \in ToSet(points) : p.x > lastGot[k].time
  BY DEF LastValueIsDrawn
<1>1. Placed(points, lastGot[k], k)
  BY LiveMode DEF ChartInv, NewestPlaced
<1>2. ToSet(points) = {points[i] : i \in DOMAIN points}
  BY DEF ToSet
<1>. QED BY <1>1, <1>2 DEF Placed

-----------------------------------------------------------------------------
(* What the historical mode shows.  The merge of the rows and their order are *)
(* computed: what they yield is proved by induction on the number of rows.    *)

Row == [key : Keys, time : Nat, value : Readings]

\* What holds of 0, and of a number after each of which it holds, holds always.
LEMMA EveryNatural ==
  ASSUME NEW S, 0 \in S, \A n \in Nat : n \in S => n + 1 \in S
  PROVE  \A n \in Nat : n \in S
<1>1. SUFFICES ASSUME Nat \ S # {} PROVE FALSE
  OBVIOUS
<1>2. PICK n \in Nat \ S : \A m \in Nat \ S : n <= m
  BY <1>1, LeastNatural
<1>3. n # 0 /\ n - 1 \in Nat
  BY <1>2
<1>4. n - 1 \in S
  BY <1>2, <1>3
<1>5. (n - 1) + 1 \in S
  BY <1>3, <1>4
<1>6. (n - 1) + 1 = n
  BY <1>2
<1>. QED BY <1>5, <1>6

\* A finite set of whole numbers has a least and a greatest member.
LEMMA LeastAndGreatest ==
  ASSUME NEW S, S \subseteq Int, S # {}, IsFiniteSet(S)
  PROVE  \E a, b \in S : \A z \in S : a <= z /\ z <= b
<1> DEFINE Within(T)  == \E a, b \in T : \A z \in T : a <= z /\ z <= b
           Sets(n)    == {T \in SUBSET Int : IsFiniteSet(T) /\ T # {} /\ Cardinality(T) = n}
           Bounded    == {n \in Nat : \A T \in Sets(n) : Within(T)}
<1>1. 0 \in Bounded
  BY FS_EmptySet
<1>2. ASSUME NEW n \in Nat, n \in Bounded
      PROVE  n + 1 \in Bounded
  <2>1. SUFFICES ASSUME NEW T \in Sets(n + 1)
                 PROVE  Within(T)
    OBVIOUS
  <2>2. PICK y \in T : TRUE
    BY <2>1
  <2>3. IsFiniteSet(T \ {y}) /\ Cardinality(T \ {y}) = (n + 1) - 1
    BY <2>1, <2>2, FS_RemoveElement
  <2>4. T \ {y} \in SUBSET Int /\ Cardinality(T \ {y}) = n
    BY <2>1, <2>3
  <2>5. CASE T \ {y} = {}
    BY <2>1, <2>2, <2>5
  <2>6. CASE T \ {y} # {}
    <3>1. T \ {y} \in Sets(n)
      BY <2>3, <2>4, <2>6
    <3>2. PICK a, b \in T \ {y} : \A z \in T \ {y} : a <= z /\ z <= b
      BY <1>2, <3>1
    <3>3. a \in Int /\ b \in Int /\ y \in Int /\ a \in T /\ b \in T
      BY <2>1, <2>2, <3>2
    <3>4. \A z \in T : z \in Int /\ (z = y \/ (a <= z /\ z <= b))
      BY <2>1, <3>2
    <3> DEFINE c == IF a <= y THEN a ELSE y
               d == IF y <= b THEN b ELSE y
    <3>5. c \in T /\ d \in T
      BY <2>2, <3>3
    <3>6. \A z \in T : c <= z /\ z <= d
      <4>1. a <= b
        BY <3>2
      <4>. QED BY <3>3, <3>4, <4>1
    <3>. QED BY <3>5, <3>6
  <2>. QED BY <2>5, <2>6
<1> HIDE DEF Bounded
<1>3. \A n \in Nat : n \in Bounded
  BY <1>1, <1>2, EveryNatural
<1>4. Cardinality(S) \in Nat
  BY FS_CardinalityType
<1>. QED BY <1>3, <1>4 DEF Bounded

-----------------------------------------------------------------------------
Onto(p, n)          == \A m \in 1..n : \E i \in 1..n : p[i] = m
Increasing(t, p, n) == \A i, j \in 1..n : i < j => t[p[i]] < t[p[j]]
Distinct(t, n)      == \A i, j \in 1..n : i # j => t[i] # t[j]

\* One more number goes in front of the first that is greater.
LEMMA InsertedIs ==
  ASSUME NEW n \in Nat, NEW t \in [1..(n + 1) -> Int], Distinct(t, n + 1),
         NEW p \in [1..n -> 1..n], Onto(p, n), Increasing(t, p, n)
  PROVE  \E q \in [1..(n + 1) -> 1..(n + 1)] : Onto(q, n + 1) /\ Increasing(t, q, n + 1)
<1> DEFINE C == {i \in 1..(n + 1) : i = n + 1 \/ t[n + 1] < t[p[i]]}
<1>1. PICK c \in C : \A i \in C : c <= i
  <2>1. C \subseteq Nat /\ n + 1 \in C
    OBVIOUS
  <2> HIDE DEF C
  <2>. QED BY <2>1, LeastNatural
<1>2. c \in 1..(n + 1) /\ (c = n + 1 \/ t[n + 1] < t[p[c]])
  BY <1>1
<1> DEFINE q == [i \in 1..(n + 1) |->
                   IF i < c THEN p[i] ELSE IF i = c THEN n + 1 ELSE p[i - 1]]
<1>3. \A i \in 1..n : p[i] \in 1..n /\ t[p[i]] \in Int /\ t[p[i]] # t[n + 1]
  BY DEF Distinct
<1>4. t[n + 1] \in Int
  OBVIOUS
<1>5. c \in Int /\ n \in Int /\ 1 <= c /\ c <= n + 1
  BY <1>2
<1>6. \A i \in 1..n : i < c => t[p[i]] < t[n + 1]
  <2>1. SUFFICES ASSUME NEW i \in 1..n, i < c PROVE t[p[i]] < t[n + 1]
    OBVIOUS
  <2>2. ~(c <= i)
    BY <1>5, <2>1
  <2>3. i \notin C
    BY <1>1, <2>2
  <2>4. i \in 1..(n + 1)
    BY <2>1
  <2>5. ~(t[n + 1] < t[p[i]])
    BY <2>3, <2>4
  <2>. QED BY <1>3, <1>4, <2>1, <2>5
<1> HIDE DEF C
<1>7. \A i \in 1..n : i >= c => t[n + 1] < t[p[i]]
  <2>1. SUFFICES ASSUME NEW i \in 1..n, i >= c PROVE t[n + 1] < t[p[i]]
    OBVIOUS
  <2>2. c \in 1..n /\ c # n + 1
    BY <1>5, <2>1
  <2>3. t[n + 1] < t[p[c]]
    BY <1>2, <2>2
  <2>4. CASE i = c
    BY <2>3, <2>4
  <2>5. CASE c < i
    <3>1. t[p[c]] < t[p[i]]
      BY <2>2, <2>5 DEF Increasing
    <3>2. t[p[c]] \in Int /\ t[p[i]] \in Int
      BY <1>3, <2>2
    <3>. QED BY <1>4, <2>3, <3>1, <3>2
  <2>. QED BY <1>5, <2>1, <2>4, <2>5
<1>8. /\ \A i \in 1..n : i < c => q[i] = p[i]
      /\ q[c] = n + 1
      /\ \A i \in 1..n : i >= c => q[i + 1] = p[i]
  BY <1>2, <1>5
<1>9. q \in [1..(n + 1) -> 1..(n + 1)]
  <2>1. \A i \in 1..n : p[i] \in 1..(n + 1)
    OBVIOUS
  <2>2. ASSUME NEW i \in 1..(n + 1)
        PROVE  \/ i < c /\ i \in 1..n
               \/ i = c
               \/ ~(i < c) /\ i # c /\ i - 1 \in 1..n
    <3>1. CASE i < c
      BY <1>5, <3>1
    <3>2. CASE c < i
      BY <1>5, <3>2
    <3>. QED BY <1>5, <3>1, <3>2
  <2>3. \A i \in 1..(n + 1) : (IF i < c THEN p[i] ELSE IF i = c THEN n + 1 ELSE p[i - 1])
                               \in 1..(n + 1)
    BY <2>1, <2>2
  <2>. QED BY <2>3
<1> HIDE DEF q
\* A place is one of the old ones, before c or moved up, or c itself.
<1>10. \A i \in 1..(n + 1) :
          \/ i \in 1..n /\ i < c
          \/ i = c
          \/ i - 1 \in 1..n /\ i - 1 >= c /\ i = (i - 1) + 1
  BY <1>5
<1>11. Onto(q, n + 1)
  <2>1. SUFFICES ASSUME NEW m \in 1..(n + 1) PROVE \E i \in 1..(n + 1) : q[i] = m
    BY DEF Onto
  <2>2. CASE m = n + 1
    BY <1>2, <1>8, <2>2
  <2>3. CASE m \in 1..n
    <3>1. PICK i \in 1..n : p[i] = m
      BY <2>3 DEF Onto
    <3>2. CASE i < c
      <4>1. q[i] = m /\ i \in 1..(n + 1)
        BY <1>8, <3>1, <3>2
      <4>. QED BY <4>1
    <3>3. CASE i >= c
      <4>1. q[i + 1] = m /\ i + 1 \in 1..(n + 1)
        BY <1>8, <3>1, <3>3
      <4>. QED BY <4>1
    <3>. QED BY <1>5, <3>1, <3>2, <3>3
  <2>4. m = n + 1 \/ m \in 1..n
    OBVIOUS
  <2>. QED BY <2>2, <2>3, <2>4
<1>12. Increasing(t, q, n + 1)
  <2>1. SUFFICES ASSUME NEW i \in 1..(n + 1), NEW j \in 1..(n + 1), i < j
                 PROVE  t[q[i]] < t[q[j]]
    BY DEF Increasing
  <2>2. \A a, b \in 1..n : a < b => t[p[a]] < t[p[b]]
    BY DEF Increasing
  <2>3. CASE i \in 1..n /\ i < c
    <3>1. q[i] = p[i]
      BY <1>8, <2>3
    <3>2. CASE j \in 1..n /\ j < c
      BY <1>8, <2>1, <2>2, <2>3, <3>1, <3>2
    <3>3. CASE j = c
      BY <1>6, <1>8, <2>3, <3>1, <3>3
    <3>4. CASE j - 1 \in 1..n /\ j - 1 >= c /\ j = (j - 1) + 1
      <4>1. q[j] = p[j - 1]
        BY <1>8, <3>4
      <4>2. i < j - 1
        BY <1>5, <2>3, <3>4
      <4>. QED BY <2>2, <2>3, <3>1, <3>4, <4>1, <4>2
    <3>. QED BY <1>10, <3>2, <3>3, <3>4
  <2>4. CASE i = c
    <3>1. j - 1 \in 1..n /\ j - 1 >= c /\ j = (j - 1) + 1
      BY <1>5, <2>1, <2>4
    <3>2. q[j] = p[j - 1]
      BY <1>8, <3>1
    <3>. QED BY <1>7, <1>8, <2>4, <3>1, <3>2
  <2>5. CASE i - 1 \in 1..n /\ i - 1 >= c /\ i = (i - 1) + 1
    <3>1. j - 1 \in 1..n /\ j - 1 >= c /\ j = (j - 1) + 1 /\ i - 1 < j - 1
      BY <1>5, <2>1, <2>5
    <3>2. q[i] = p[i - 1] /\ q[j] = p[j - 1]
      BY <1>8, <2>5, <3>1
    <3>. QED BY <2>2, <2>5, <3>1, <3>2
  <2>. QED BY <1>10, <2>3, <2>4, <2>5
<1>. QED BY <1>9, <1>11, <1>12

\* So numbers of which no two are equal can be put in order.
LEMMA SomeOrder ==
  \A n \in Nat : \A t \in [1..n -> Int] : Distinct(t, n) =>
    \E p \in [1..n -> 1..n] : Onto(p, n) /\ Increasing(t, p, n)
<1> DEFINE Orders(t, n) == \E p \in [1..n -> 1..n] : Onto(p, n) /\ Increasing(t, p, n)
           Sorted == {n \in Nat : \A t \in [1..n -> Int] : Distinct(t, n) => Orders(t, n)}
<1>1. 0 \in Sorted
  <2>1. SUFFICES ASSUME NEW t \in [1..0 -> Int] PROVE Orders(t, 0)
    OBVIOUS
  <2>2. [i \in 1..0 |-> i] \in [1..0 -> 1..0]
    OBVIOUS
  <2>3. Onto([i \in 1..0 |-> i], 0) /\ Increasing(t, [i \in 1..0 |-> i], 0)
    BY DEF Onto, Increasing
  <2>. QED BY <2>2, <2>3
<1>2. ASSUME NEW n \in Nat, n \in Sorted
      PROVE  n + 1 \in Sorted
  <2>1. SUFFICES ASSUME NEW t \in [1..(n + 1) -> Int], Distinct(t, n + 1)
                 PROVE  Orders(t, n + 1)
    OBVIOUS
  <2> DEFINE u == [i \in 1..n |-> t[i]]
  <2>2. u \in [1..n -> Int] /\ \A i \in 1..n : u[i] = t[i]
    OBVIOUS
  <2>3. Distinct(u, n)
    BY <2>1, <2>2 DEF Distinct
  <2> HIDE DEF u
  <2>4. PICK p \in [1..n -> 1..n] : Onto(p, n) /\ Increasing(u, p, n)
    BY <1>2, <2>2, <2>3
  <2>5. Increasing(t, p, n)
    <3>1. \A i \in 1..n : u[p[i]] = t[p[i]]
      BY <2>2, <2>4
    <3>. QED BY <2>4, <3>1 DEF Increasing
  <2>. QED BY <2>1, <2>4, <2>5, InsertedIs
<1> HIDE DEF Sorted
<1>3. \A n \in Nat : n \in Sorted
  BY <1>1, <1>2, EveryNatural
<1>. QED BY <1>3 DEF Sorted

Apart(ps) == \A i, j \in DOMAIN ps : i # j => ~Near(ps[i].x, ps[j].x, Second)
Ascending(ps) == \A i, j \in DOMAIN ps : i < j => ps[i].x < ps[j].x

\* The order of the points of the log: sort((a, b) => a.x - b.x).
LEMMA InOrderIs ==
  ASSUME NEW ps \in Seq(Point),
         \A i, j \in DOMAIN ps : i # j => ps[i].x # ps[j].x
  PROVE  /\ InOrder(ps) \in Seq(Point) /\ ToSet(InOrder(ps)) = ToSet(ps)
         /\ Ascending(InOrder(ps))
<1> DEFINE n == Len(ps)
           Right(qs) == /\ ToSet(qs) = ToSet(ps)
                        /\ \A i, j \in DOMAIN ps : i < j => qs[i].x < qs[j].x
<1>1. n \in Nat /\ DOMAIN ps = 1..n /\ \A i \in 1..n : ps[i] \in Point
  BY LenProperties, ElementOfSeq
<1> DEFINE t == [i \in 1..n |-> ps[i].x]
<1>2. t \in [1..n -> Int] /\ Distinct(t, n) /\ \A i \in 1..n : t[i] = ps[i].x
  <2>1. \A i \in 1..n : ps[i].x \in Int
    BY <1>1 DEF Point
  <2>. QED BY <1>1, <2>1 DEF Distinct
<1> HIDE DEF n, t
<1>3. PICK p \in [1..n -> 1..n] : Onto(p, n) /\ Increasing(t, p, n)
  BY <1>1, <1>2, SomeOrder
<1> DEFINE s == [i \in DOMAIN ps |-> ps[p[i]]]
<1>4. DOMAIN s = 1..n /\ \A i \in 1..n : s[i] = ps[p[i]] /\ p[i] \in 1..n
  BY <1>1, <1>3
<1>5. s \in [DOMAIN ps -> ToSet(ps)]
  BY <1>1, <1>3, <1>4 DEF ToSet
<1> HIDE DEF s
<1>6. ToSet(s) = ToSet(ps)
  <2>1. \A z : z \in ToSet(s) <=> \E i \in 1..n : s[i] = z
    BY <1>4 DEF ToSet
  <2>2. \A z : z \in ToSet(ps) <=> \E i \in 1..n : ps[i] = z
    BY <1>1 DEF ToSet
  <2>3. \A m \in 1..n : \E i \in 1..n : p[i] = m
    BY <1>3 DEF Onto
  <2>4. ASSUME NEW z \in ToSet(ps) PROVE z \in ToSet(s)
    <3>1. PICK m \in 1..n : ps[m] = z
      BY <2>2
    <3>2. PICK i \in 1..n : p[i] = m
      BY <2>3
    <3>3. s[i] = z
      BY <1>4, <3>1, <3>2
    <3>. QED BY <2>1, <3>3
  <2>5. \A z \in ToSet(s) : z \in ToSet(ps)
    BY <1>4, <2>1, <2>2
  <2>. QED BY <2>4, <2>5
<1>7. \A i, j \in DOMAIN ps : i < j => s[i].x < s[j].x
  <2>1. \A i \in 1..n : t[p[i]] = s[i].x
    BY <1>2, <1>4
  <2>2. \A i, j \in 1..n : i < j => t[p[i]] < t[p[j]]
    BY <1>3 DEF Increasing
  <2>3. \A i, j \in 1..n : i < j => s[i].x < s[j].x
    BY <2>1, <2>2
  <2>. QED BY <1>1, <2>3
<1>8. Right(s)
  BY <1>6, <1>7
<1> HIDE DEF Right
<1>9. InOrder(ps) = CHOOSE qs \in [DOMAIN ps -> ToSet(ps)] : Right(qs)
  BY DEF InOrder, Right
<1>10. InOrder(ps) \in [DOMAIN ps -> ToSet(ps)] /\ Right(InOrder(ps))
  BY <1>5, <1>8, <1>9
<1>11. InOrder(ps) \in [1..n -> Point]
  <2>1. ToSet(ps) \subseteq Point
    BY <1>1 DEF ToSet
  <2>. QED BY <1>1, <1>10, <2>1
<1>12. InOrder(ps) \in Seq(Point)
  BY <1>1, <1>11, SeqDef
<1>13. DOMAIN InOrder(ps) = DOMAIN ps
  BY <1>10
<1>. QED BY <1>10, <1>12, <1>13 DEF Right, Ascending

-----------------------------------------------------------------------------
\* The points are a picture of the rows: what is drawn was logged less than a
\* second from its point, and what was logged is drawn.
DrawnFrom(ps, R) ==
  \A i \in DOMAIN ps : \A k \in Keys : ps[i].of[k] # Gap =>
    \E r \in R : r.key = k /\ r.value = ps[i].of[k] /\ Near(r.time, ps[i].x, Second)
AllDrawn(ps, R) ==
  \A r \in R : \E i \in DOMAIN ps :
    ps[i].of[r.key] # Gap /\ Near(r.time, ps[i].x, Second)
Picture(ps, R) == ps \in Seq(Point) /\ DrawnFrom(ps, R) /\ AllDrawn(ps, R)

\* A row more.
LEMMA PictureGrows ==
  ASSUME NEW ps, NEW R \in SUBSET Row, NEW r \in Row, Picture(ps, R), Apart(ps)
  PROVE  LET q == Put(ps, r.key, r.time, r.value, Second)
         IN Picture(q, R \cup {r}) /\ Apart(q)
<1> DEFINE n == Len(ps)
           k == r.key
           t == r.time
           v == r.value
           q == Put(ps, k, t, v, Second)
<1>1. k \in Keys /\ t \in Nat /\ v \in Readings /\ v # Gap
  BY MaxPointsIs DEF Row
<1>2. ps \in Seq(Point) /\ n \in Nat /\ DOMAIN ps = 1..n
      /\ \A i \in 1..n : ps[i].x \in Nat
  <2>1. ps \in Seq(Point)
    BY DEF Picture
  <2>2. \A i \in 1..n : ps[i] \in Point
    BY <2>1, LenProperties, ElementOfSeq
  <2>. QED BY <2>1, <2>2, LenProperties DEF Point
<1>3. /\ q \in Seq(Point) /\ Len(q) \in {n, n + 1}
      /\ \A i \in 1..n : q[i].x = ps[i].x
      /\ Len(q) = n + 1 => q[n + 1].x = t /\ \A i \in 1..n : ~Near(ps[i].x, t, Second)
      /\ \E m \in 1..Len(q) :
           /\ q[m].of[k] = v /\ Near(q[m].x, t, Second)
           /\ \A i \in 1..n : \A j \in Keys :
                q[i].of[j] = ps[i].of[j] \/ (i = m /\ j = k)
           /\ Len(q) = n + 1 => m = n + 1 /\ \A j \in Keys : j # k => q[m].of[j] = Gap
  <2> HIDE DEF k, t, v
  <2>1. WithValue(ps, q, k, t, v, Second)
    BY <1>1, <1>2, SecondIs, PutsNear
  <2>. QED BY <2>1 DEF WithValue
<1> DEFINE l == Len(q)
<1>4. l \in Nat /\ DOMAIN q = 1..l
  BY <1>3, LenProperties
<1> HIDE DEF n, k, t, v, q, l
<1>5. PICK m \in 1..l :
        /\ q[m].of[k] = v /\ Near(q[m].x, t, Second)
        /\ \A i \in 1..n : \A j \in Keys : q[i].of[j] = ps[i].of[j] \/ (i = m /\ j = k)
        /\ l = n + 1 => m = n + 1 /\ \A j \in Keys : j # k => q[m].of[j] = Gap
  BY <1>3 DEF l
<1>6. \A i \in 1..l : i \in 1..n \/ (i = n + 1 /\ l = n + 1)
  <2>1. l = n \/ l = n + 1
    BY <1>3 DEF l
  <2>. QED BY <1>2, <1>4, <2>1
<1>7. \A i \in 1..n : i \in 1..l
  <2>1. l = n \/ l = n + 1
    BY <1>3 DEF l
  <2>. QED BY <1>2, <1>4, <2>1
<1>8. DrawnFrom(q, R \cup {r})
  <2>1. SUFFICES ASSUME NEW i \in 1..l, NEW j \in Keys, q[i].of[j] # Gap
                 PROVE  \E s \in R \cup {r} : /\ s.key = j /\ s.value = q[i].of[j]
                                              /\ Near(s.time, q[i].x, Second)
    BY <1>4 DEF DrawnFrom
  <2>2. CASE i = m /\ j = k
    <3>1. Near(t, q[m].x, Second)
      BY <1>5 DEF Near
    <3>. QED BY <1>5, <2>2, <3>1 DEF k, t, v
  <2>3. CASE ~(i = m /\ j = k)
    <3>1. i \in 1..n
      BY <1>5, <1>6, <2>1, <2>3
    <3>2. q[i].of[j] = ps[i].of[j] /\ q[i].x = ps[i].x
      BY <1>3, <1>5, <2>3, <3>1
    <3>3. PICK s \in R : /\ s.key = j /\ s.value = ps[i].of[j]
                         /\ Near(s.time, ps[i].x, Second)
      BY <1>2, <2>1, <3>1, <3>2 DEF Picture, DrawnFrom
    <3>. QED BY <3>2, <3>3
  <2>. QED BY <2>2, <2>3
<1>9. AllDrawn(q, R \cup {r})
  <2>1. SUFFICES ASSUME NEW s \in R \cup {r}
                 PROVE  \E i \in 1..l : /\ q[i].of[s.key] # Gap
                                        /\ Near(s.time, q[i].x, Second)
    BY <1>4 DEF AllDrawn
  <2>2. CASE s = r
    <3>1. Near(t, q[m].x, Second) /\ q[m].of[k] # Gap
      BY <1>1, <1>5 DEF Near
    <3>. QED BY <1>5, <2>2, <3>1 DEF k, t
  <2>3. CASE s \in R
    <3>1. PICK i \in 1..n : ps[i].of[s.key] # Gap /\ Near(s.time, ps[i].x, Second)
      BY <1>2, <2>3 DEF Picture, AllDrawn
    <3>2. s.key \in Keys
      BY <2>3 DEF Row
    <3>3. q[i].x = ps[i].x /\ q[i].of[s.key] # Gap
      <4>1. q[i].x = ps[i].x
        BY <1>3, <3>1
      <4>2. q[i].of[s.key] = ps[i].of[s.key] \/ (i = m /\ s.key = k)
        BY <1>5, <3>1, <3>2
      <4>. QED BY <1>1, <1>5, <3>1, <4>1, <4>2
    <3>. QED BY <1>7, <3>1, <3>3
  <2>. QED BY <2>2, <2>3
<1>10. Apart(q)
  <2>1. SUFFICES ASSUME NEW i \in 1..l, NEW j \in 1..l, i # j
                 PROVE  ~Near(q[i].x, q[j].x, Second)
    BY <1>4 DEF Apart
  <2>2. \A a, b : Near(a, b, Second) => Near(b, a, Second)
    BY DEF Near
  <2>3. CASE i \in 1..n /\ j \in 1..n
    <3>1. ~Near(ps[i].x, ps[j].x, Second)
      BY <1>2, <2>1, <2>3 DEF Apart
    <3>. QED BY <1>3, <2>3, <3>1
  <2>4. CASE i \in 1..n /\ j = n + 1 /\ l = n + 1
    BY <1>3, <2>4 DEF l
  <2>5. CASE j \in 1..n /\ i = n + 1 /\ l = n + 1
    BY <1>3, <2>2, <2>5 DEF l
  <2>. QED BY <1>6, <2>1, <2>3, <2>4, <2>5
<1>. QED BY <1>3, <1>8, <1>9, <1>10 DEF Picture, q, k, t, v

\* The points after each of the first rows.
Merging(rs, f, n) ==
  f = [i \in 0..n |-> IF i = 0 THEN <<>>
                      ELSE Put(f[i - 1], rs[i].key, rs[i].time, rs[i].value, Second)]

LEMMA MergingExists ==
  ASSUME NEW rs
  PROVE  \A n \in Nat : \E f : Merging(rs, f, n)
<1> DEFINE Done == {n \in Nat : \E f : Merging(rs, f, n)}
<1>1. 0 \in Done
  <2>1. \A i \in 0..0 : i = 0
    OBVIOUS
  <2>2. Merging(rs, [i \in 0..0 |-> <<>>], 0)
    BY <2>1 DEF Merging
  <2>. QED BY <2>2
<1>2. ASSUME NEW n \in Nat, n \in Done PROVE n + 1 \in Done
  <2>1. PICK f : Merging(rs, f, n)
    BY <1>2
  <2> DEFINE Step(i, ps) == Put(ps, rs[i].key, rs[i].time, rs[i].value, Second)
             g == [i \in 0..(n + 1) |-> IF i = n + 1 THEN Step(i, f[n]) ELSE f[i]]
  <2> HIDE DEF Step
  <2>2. \A i \in 0..n : f[i] = IF i = 0 THEN <<>> ELSE Step(i, f[i - 1])
    BY <2>1 DEF Merging, Step
  <2>3. g[n + 1] = Step(n + 1, f[n]) /\ \A i \in 0..n : g[i] = f[i]
    OBVIOUS
  <2>4. DOMAIN g = 0..(n + 1) /\ g = [i \in 0..(n + 1) |-> g[i]]
    OBVIOUS
  <2> HIDE DEF g
  <2>5. ASSUME NEW i \in 0..(n + 1)
        PROVE  g[i] = IF i = 0 THEN <<>> ELSE Step(i, g[i - 1])
    <3>1. CASE i = n + 1
      <4>1. i # 0 /\ i - 1 = n /\ n \in 0..n
        BY <3>1
      <4>. QED BY <2>3, <3>1, <4>1
    <3>2. CASE i # n + 1
      <4>1. i \in 0..n /\ (i # 0 => i - 1 \in 0..n)
        BY <3>2
      <4>. QED BY <2>2, <2>3, <4>1
    <3>. QED BY <3>1, <3>2
  <2>6. g = [i \in 0..(n + 1) |-> IF i = 0 THEN <<>> ELSE Step(i, g[i - 1])]
    BY <2>4, <2>5
  <2>7. Merging(rs, g, n + 1)
    BY <2>6 DEF Merging, Step
  <2>. QED BY <2>7
<1> HIDE DEF Done
<1>3. \A n \in Nat : n \in Done
  BY <1>1, <1>2, EveryNatural
<1>. QED BY <1>3 DEF Done

\* All rows are merged into a picture of them.
LEMMA MergedIs ==
  ASSUME NEW rs \in Seq(Row)
  PROVE  Picture(Merged(rs), ToSet(rs)) /\ Apart(Merged(rs))
<1> DEFINE n == Len(rs)
           First(i) == {rs[j] : j \in 1..i}
<1>1. n \in Nat /\ DOMAIN rs = 1..n /\ \A i \in 1..n : rs[i] \in Row
  BY LenProperties, ElementOfSeq
<1> DEFINE f == CHOOSE g : Merging(rs, g, n)
<1>2. Merging(rs, f, n)
  BY <1>1, MergingExists
<1>3. Merged(rs) = f[n]
  BY DEF Merged, Merging
<1> HIDE DEF f, n
<1> DEFINE Fine(i) == Picture(f[i], First(i)) /\ Apart(f[i])
           Up      == {i \in Nat : i <= n => Fine(i)}
<1>4. 0 \in Up
  <2>1. 0 \in 0..n
    BY <1>1
  <2>2. f[0] = <<>>
    BY <1>2, <2>1 DEF Merging
  <2>3. First(0) = {}
    OBVIOUS
  <2>4. <<>> \in Seq(Point) /\ DOMAIN <<>> = {}
    OBVIOUS
  <2>5. Picture(<<>>, {}) /\ Apart(<<>>)
    BY <2>4 DEF Picture, DrawnFrom, AllDrawn, Apart
  <2>. QED BY <2>2, <2>3, <2>5
<1>5. ASSUME NEW i \in Nat, i \in Up PROVE i + 1 \in Up
  <2>1. SUFFICES ASSUME i + 1 <= n PROVE Fine(i + 1)
    OBVIOUS
  <2>2. i + 1 \in 0..n /\ i + 1 # 0 /\ (i + 1) - 1 = i /\ i + 1 \in 1..n /\ i <= n
    BY <1>1, <2>1
  <2>3. Fine(i)
    BY <1>5, <2>2
  <2> DEFINE r == rs[i + 1]
  <2>4. f[i + 1] = Put(f[i], r.key, r.time, r.value, Second)
    <3>1. f[i + 1] = Put(f[(i + 1) - 1], r.key, r.time, r.value, Second)
      BY <1>2, <2>2 DEF Merging
    <3>. QED BY <2>2, <3>1
  <2>5. r \in Row /\ First(i) \in SUBSET Row
    <3>1. \A j \in 1..i : j \in 1..n
      BY <1>1, <2>1
    <3>. QED BY <1>1, <2>2, <3>1
  <2>6. First(i + 1) = First(i) \cup {r}
    <3>1. \A j : j \in 1..(i + 1) <=> j \in 1..i \/ j = i + 1
      OBVIOUS
    <3>. QED BY <3>1
  <2> HIDE DEF r, First
  <2>7. Picture(f[i + 1], First(i) \cup {r}) /\ Apart(f[i + 1])
    BY <2>3, <2>4, <2>5, PictureGrows
  <2>. QED BY <2>6, <2>7
<1> HIDE DEF Up
<1>6. \A i \in Nat : i \in Up
  BY <1>4, <1>5, EveryNatural
<1>7. Fine(n)
  <2>1. n \in Up /\ n <= n
    BY <1>1, <1>6
  <2> HIDE DEF Fine
  <2>. QED BY <2>1 DEF Up
<1>8. First(n) = ToSet(rs)
  BY <1>1 DEF ToSet
<1>. QED BY <1>3, <1>7, <1>8

\* What the historical mode sets the points to: a picture of the rows, in order.
LEMMA HistoryIsPicture ==
  ASSUME NEW rs \in Seq(Row)
  PROVE  Picture(HistoryOf(rs), ToSet(rs)) /\ Ascending(HistoryOf(rs))
<1> DEFINE ps == Merged(rs)
           qs == HistoryOf(rs)
<1>1. Picture(ps, ToSet(rs)) /\ Apart(ps)
  BY MergedIs
<1>2. ps \in Seq(Point) /\ \A i \in DOMAIN ps : ps[i].x \in Nat
  <2>1. ps \in Seq(Point)
    BY <1>1 DEF Picture
  <2>2. \A i \in DOMAIN ps : ps[i] \in Point
    BY <2>1, LenProperties, ElementOfSeq
  <2>. QED BY <2>1, <2>2 DEF Point
<1>3. \A i, j \in DOMAIN ps : i # j => ps[i].x # ps[j].x
  BY <1>1, <1>2, SecondIs DEF Apart, Near
<1> HIDE DEF ps
<1>4. /\ InOrder(ps) \in Seq(Point) /\ ToSet(InOrder(ps)) = ToSet(ps)
      /\ Ascending(InOrder(ps))
  BY <1>2, <1>3, InOrderIs
<1>5. qs = InOrder(ps)
  BY DEF HistoryOf, ps
<1> HIDE DEF qs
<1>6. \A i \in DOMAIN qs : \E j \in DOMAIN ps : qs[i] = ps[j]
  BY <1>4, <1>5 DEF ToSet
<1>7. \A j \in DOMAIN ps : \E i \in DOMAIN qs : qs[i] = ps[j]
  BY <1>4, <1>5 DEF ToSet
<1>8. DrawnFrom(qs, ToSet(rs))
  BY <1>1, <1>6 DEF Picture, DrawnFrom
<1>9. AllDrawn(qs, ToSet(rs))
  BY <1>1, <1>7 DEF Picture, AllDrawn
<1>. QED BY <1>4, <1>5, <1>8, <1>9 DEF Picture, qs
-----------------------------------------------------------------------------
\* What the log and the answer hold, and what the historical mode shows.
LogTypes ==
  /\ buffered \subseteq Row /\ log \subseteq Row /\ IsFiniteSet(log)
  /\ asked.read = Gap \/ asked.read \in Seq(Row)
HistoryShown ==
  /\ Picture(points, history) /\ Ascending(points)
  /\ IsFiniteSet(history) /\ history \subseteq Row /\ sensorKeys \subseteq Keys
HistoryInv ==
  /\ LogTypes
  /\ history # {} => isHistoricalMode /\ HistoryShown

LEMMA InitHistory == ChartInit => HistoryInv
<1> SUFFICES ASSUME ChartInit PROVE HistoryInv
  OBVIOUS
<1>1. buffered = {} /\ log = {} /\ history = {} /\ asked.read = Gap
  BY DEF ChartInit, Ask, NotAsked
<1>. QED BY <1>1, FS_EmptySet DEF HistoryInv, LogTypes

LEMMA HistoryKept ==
  HistoryInv /\ UNCHANGED data /\ (isHistoricalMode => isHistoricalMode') /\ LogTypes'
    => HistoryInv'
<1> SUFFICES ASSUME HistoryInv, UNCHANGED data, isHistoricalMode => isHistoricalMode',
                    LogTypes'
             PROVE  HistoryInv'
  OBVIOUS
<1>1. points' = points /\ sensorKeys' = sensorKeys /\ history' = history
  BY DEF data
<1>2. HistoryShown => HistoryShown'
  BY <1>1 DEF HistoryShown
<1>. QED BY <1>1, <1>2 DEF HistoryInv

LEMMA RecordKeepsHistory ==
  ASSUME ChartInv, HistoryInv, NEW k \in Keys, NEW v \in Readings, recordLogs(k, v)
  PROVE  HistoryInv'
<1>1. /\ buffered' = buffered \cup {[key |-> k, time |-> clock, value |-> v]}
      /\ log' = log /\ asked' = asked /\ UNCHANGED data
      /\ isHistoricalMode' = isHistoricalMode
  BY DEF recordLogs, controls
<1>2. [key |-> k, time |-> clock, value |-> v] \in Row
  BY DEF Row, ChartInv, ChartTypes
<1>3. LogTypes'
  BY <1>1, <1>2 DEF HistoryInv, LogTypes
<1>. QED BY <1>1, <1>3, HistoryKept

LEMMA FlushKeepsHistory == ASSUME HistoryInv, NEW b, Flushed(b) PROVE HistoryInv'
<1> DEFINE rest == {r \in log : r.key # b.key \/ r.time # b.time}
<1>1. /\ b \in buffered /\ buffered' = buffered \ {b} /\ log' = {b} \cup rest
      /\ asked' = asked /\ UNCHANGED data /\ isHistoricalMode' = isHistoricalMode
  BY DEF Flushed, controls
<1>2. buffered \subseteq Row /\ log \subseteq Row /\ IsFiniteSet(log)
  BY DEF HistoryInv, LogTypes
<1>3. rest \in SUBSET log
  OBVIOUS
<1> HIDE DEF rest
<1>4. IsFiniteSet(rest \cup {b})
  BY <1>2, <1>3, FS_Subset, FS_AddElement
<1>5. log' = rest \cup {b}
  BY <1>1
<1>6. LogTypes'
  BY <1>1, <1>2, <1>3, <1>4, <1>5 DEF HistoryInv, LogTypes
<1>. QED BY <1>1, <1>6, HistoryKept

\* The answer is a list of rows of the log.
LEMMA AnswerKeepsHistory == ChartInv /\ HistoryInv /\ findAll => HistoryInv'
<1> SUFFICES ASSUME ChartInv, HistoryInv, findAll PROVE HistoryInv'
  OBVIOUS
<1> DEFINE found == UNION {getLogs(k, asked.from) : k \in Keys}
<1>1. PICK rs \in SetToSeqs(found) : asked' = [asked EXCEPT !.read = rs]
  BY DEF findAll
<1>2. /\ buffered' = buffered /\ log' = log /\ UNCHANGED data
      /\ isHistoricalMode' = isHistoricalMode
  BY DEF findAll, logged, controls
<1>3. found \in SUBSET log
  BY DEF getLogs
<1>4. log \subseteq Row /\ IsFiniteSet(log)
  BY DEF HistoryInv, LogTypes
<1> HIDE DEF found
<1>5. Cardinality(found) \in Nat
  BY <1>3, <1>4, FS_Subset, FS_CardinalityType
<1>6. rs \in [1..Cardinality(found) -> found]
  BY <1>1 DEF SetToSeqs
<1>7. rs \in [1..Cardinality(found) -> Row]
  BY <1>3, <1>4, <1>6
<1>8. rs \in Seq(Row)
  BY <1>5, <1>7, SeqDef
<1>9. asked'.read = rs
  <2>1. DOMAIN asked = {"modes", "from", "read"}
    BY DEF ChartInv, ChartTypes
  <2>. QED BY <1>1, <2>1
<1>10. LogTypes'
  BY <1>2, <1>8, <1>9 DEF HistoryInv, LogTypes
<1>. QED BY <1>2, <1>10, HistoryKept

LEMMA ArrivalShowsHistory == ChartInv /\ HistoryInv /\ LogsArrived => HistoryInv'
<1> SUFFICES ASSUME ChartInv, HistoryInv, LogsArrived PROVE HistoryInv'
  OBVIOUS
<1>1. /\ asked' = [modes |-> {}, from |-> 0, read |-> Gap]
      /\ buffered' = buffered /\ log' = log
      /\ isHistoricalMode' = isHistoricalMode /\ asked.read # Gap
  BY DEF LogsArrived, NotAsked, logged, controls
<1>2. LogTypes'
  BY <1>1 DEF HistoryInv, LogTypes
<1>3. CASE "history" \in asked.modes
  <2> DEFINE rs == asked.read
  <2>1. /\ points' = HistoryOf(rs) /\ history' = ToSet(rs)
        /\ sensorKeys' = {r.key : r \in ToSet(rs)}
    BY <1>3 DEF LogsArrived
  <2>2. rs \in Seq(Row)
    BY <1>1 DEF HistoryInv, LogTypes
  <2> HIDE DEF rs
  <2>3. Picture(HistoryOf(rs), ToSet(rs)) /\ Ascending(HistoryOf(rs))
    BY <2>2, HistoryIsPicture
  <2>4. ToSet(rs) \subseteq Row
    <3>1. \A i \in DOMAIN rs : rs[i] \in Row
      BY <2>2, LenProperties, ElementOfSeq
    <3>. QED BY <3>1 DEF ToSet
  <2>5. IsFiniteSet(ToSet(rs))
    <3>1. Len(rs) \in Nat /\ DOMAIN rs = 1..Len(rs)
      BY <2>2, LenProperties
    <3>2. IsFiniteSet(1..Len(rs))
      BY <3>1, FS_Interval
    <3>3. rs \in Surjection(1..Len(rs), ToSet(rs))
      BY <3>1, <2>2 DEF Surjection, ToSet
    <3>. QED BY <3>2, <3>3, FS_Surjection
  <2>6. sensorKeys' \subseteq Keys
    BY <2>1, <2>4 DEF Row
  <2>7. Picture(points', history') /\ Ascending(points')
    BY <2>1, <2>3
  <2>8. HistoryShown'
    BY <2>1, <2>4, <2>5, <2>6, <2>7 DEF HistoryShown, Picture, DrawnFrom, AllDrawn, Ascending
  <2>9. isHistoricalMode'
    BY <1>1, <1>3 DEF ChartInv
  <2>. QED BY <1>2, <2>8, <2>9 DEF HistoryInv
<1>4. CASE "history" \notin asked.modes
  <2>1. UNCHANGED data
    BY <1>4 DEF LogsArrived
  <2>. QED BY <1>1, <1>2, <2>1, HistoryKept
<1>. QED BY <1>3, <1>4

LEMMA HandlerKeepsHistory == HistoryInv /\ handler => HistoryInv'
<1> SUFFICES ASSUME HistoryInv, handler PROVE HistoryInv'
  OBVIOUS
<1>1. /\ asked' = asked /\ buffered' = buffered /\ log' = log
      /\ isHistoricalMode' = isHistoricalMode
  BY DEF handler, logged, controls
<1>2. LogTypes'
  BY <1>1 DEF HistoryInv, LogTypes
<1>3. CASE isHistoricalMode
  <2>1. UNCHANGED data
    BY <1>3 DEF handler
  <2>. QED BY <1>1, <1>2, <2>1, HistoryKept
<1>4. CASE ~isHistoricalMode
  <2>1. history' = history
    BY DEF handler, data
  <2>. QED BY <1>2, <1>4, <2>1 DEF HistoryInv
<1>. QED BY <1>3, <1>4

LEMMA OthersKeepHistory ==
  /\ HistoryInv /\ Tick => HistoryInv'
  /\ HistoryInv /\ LogsFail => HistoryInv'
  /\ HistoryInv /\ togglePause => HistoryInv'
  /\ HistoryInv /\ handleBackToRealTime => HistoryInv'
  /\ \A from : HistoryInv /\ handleApplyTimeRange(from) => HistoryInv'
  /\ HistoryInv /\ UNCHANGED chartVars => HistoryInv'
<1> USE DEF logged, controls
<1>1. ASSUME HistoryInv, Tick PROVE HistoryInv'
  <2>1. UNCHANGED <<data, buffered, log, asked, isHistoricalMode>>
    BY <1>1 DEF Tick
  <2>. QED BY <1>1, <2>1, HistoryKept DEF HistoryInv, LogTypes
<1>2. ASSUME HistoryInv, LogsFail PROVE HistoryInv'
  <2>1. UNCHANGED <<data, buffered, log, isHistoricalMode>> /\ asked'.read = Gap
    BY <1>2 DEF LogsFail, NotAsked
  <2>. QED BY <1>2, <2>1, HistoryKept DEF HistoryInv, LogTypes
<1>3. ASSUME HistoryInv, togglePause PROVE HistoryInv'
  <2>1. UNCHANGED <<data, buffered, log, isHistoricalMode>>
    BY <1>3 DEF togglePause
  <2>2. asked'.read = Gap \/ asked' = asked
    BY <1>3 DEF togglePause, Ask
  <2>. QED BY <1>3, <2>1, <2>2, HistoryKept DEF HistoryInv, LogTypes
<1>4. ASSUME HistoryInv, handleBackToRealTime PROVE HistoryInv'
  <2>1. UNCHANGED <<buffered, log>> /\ asked'.read = Gap /\ history' = {}
    BY <1>4 DEF handleBackToRealTime, Ask
  <2>. QED BY <1>4, <2>1 DEF HistoryInv, LogTypes
<1>5. ASSUME NEW from, HistoryInv, handleApplyTimeRange(from) PROVE HistoryInv'
  <2>1. UNCHANGED <<data, buffered, log>> /\ asked'.read = Gap /\ isHistoricalMode'
    BY <1>5 DEF handleApplyTimeRange, Ask
  <2>. QED BY <1>5, <2>1, HistoryKept DEF HistoryInv, LogTypes
<1>6. ASSUME HistoryInv, UNCHANGED chartVars PROVE HistoryInv'
  <2>1. UNCHANGED <<data, buffered, log, asked, isHistoricalMode>>
    BY <1>6 DEF chartVars
  <2>. QED BY <1>6, <2>1, HistoryKept DEF HistoryInv, LogTypes
<1>. QED BY <1>1, <1>2, <1>3, <1>4, <1>5, <1>6

LEMMA HistoryStep ==
  ChartInv /\ HistoryInv /\ [DesktopNext]_desktopVars => HistoryInv'
<1> SUFFICES ASSUME ChartInv, HistoryInv, [DesktopNext]_desktopVars PROVE HistoryInv'
  OBVIOUS
<1>1. CASE OnDashboard /\ PatientChartNext
  <2>1. CASE ChartServer
    BY <2>1, OthersKeepHistory, AnswerKeepsHistory, RecordKeepsHistory, FlushKeepsHistory
       DEF ChartServer
  <2>2. CASE ChartClient
    BY <2>2, OthersKeepHistory, HandlerKeepsHistory, ArrivalShowsHistory DEF ChartClient
  <2>3. CASE ChartUser
    BY <2>3, OthersKeepHistory DEF ChartUser
  <2>. QED BY <1>1, <2>1, <2>2, <2>3 DEF PatientChartNext
<1>2. CASE OnProcesses /\ AttentiveFlowNext
  BY <1>2, OthersKeepHistory DEF OnProcesses
<1>3. CASE UNCHANGED desktopVars
  BY <1>3, OthersKeepHistory DEF desktopVars
<1>. QED BY <1>1, <1>2, <1>3 DEF DesktopNext

\* A cell of the heatmap lies between the least and the greatest value.
LEMMA CellsWithin ==
  ASSUME HistoryShown
  PROVE  \A k \in sensorKeys, i \in cleanData :
           LET cell == HeatmapShows({})[k][i]
           IN cell = Gap \/ (cell.above >= 0 /\ cell.below >= 0)
<1> DEFINE vs == {points[i].of[k] : i \in cleanData, k \in Series({})} \ {Gap}
           values == {r.value : r \in history}
<1>1. Series({}) = sensorKeys
  BY DEF Series
<1>2. vs \in SUBSET values
  <2>1. SUFFICES ASSUME NEW i \in cleanData, NEW k \in sensorKeys, points[i].of[k] # Gap
                 PROVE  points[i].of[k] \in values
    BY <1>1
  <2>2. i \in DOMAIN points /\ k \in Keys
    BY <2>1 DEF HistoryShown, cleanData
  <2>. QED BY <2>1, <2>2 DEF HistoryShown, Picture, DrawnFrom
<1>3. IsFiniteSet(values)
  <2> DEFINE f == [r \in history |-> r.value]
  <2>1. f \in Surjection(history, values)
    BY DEF Surjection
  <2>2. IsFiniteSet(history)
    BY DEF HistoryShown
  <2>. QED BY <2>1, <2>2, FS_Surjection
<1>4. values \subseteq Int
  <2>1. \A r \in history : r.value \in Readings
    BY DEF HistoryShown, Row
  <2>. QED BY <2>1, LiveChartAssumption
<1> HIDE DEF values, vs
<1>5. vs \subseteq Int /\ IsFiniteSet(vs)
  BY <1>2, <1>3, <1>4, FS_Subset
<1> SUFFICES ASSUME NEW k \in sensorKeys, NEW i \in cleanData
             PROVE  LET cell == HeatmapShows({})[k][i]
                    IN cell = Gap \/ (cell.above >= 0 /\ cell.below >= 0)
  OBVIOUS
<1> DEFINE v == points[i].of[k]
           cell == IF v = Gap THEN Gap ELSE [above |-> v - Min(vs), below |-> Max(vs) - v]
<1>6. HeatmapShows({})[k][i] = cell
  BY <1>1 DEF HeatmapShows, vs
<1>7. CASE v # Gap
  <2>1. v \in vs
    BY <1>1, <1>7 DEF vs
  <2>2. \E a, b \in vs : \A z \in vs : a <= z /\ z <= b
    BY <1>5, <2>1, LeastAndGreatest
  <2>3. Min(vs) \in vs /\ \A z \in vs : Min(vs) <= z
    BY <2>2 DEF Min
  <2>4. Max(vs) \in vs /\ \A z \in vs : Max(vs) >= z
    <3>1. \E b \in vs : \A z \in vs : b >= z
      BY <1>5, <2>2
    <3>. QED BY <3>1 DEF Max
  <2>5. v - Min(vs) >= 0 /\ Max(vs) - v >= 0
    <3>1. v \in Int /\ Min(vs) \in Int /\ Max(vs) \in Int
      BY <1>5, <2>1, <2>3, <2>4
    <3>2. Min(vs) <= v /\ Max(vs) >= v
      BY <2>1, <2>3, <2>4
    <3> HIDE DEF v
    <3>. QED BY <3>1, <3>2
  <2>6. cell = [above |-> v - Min(vs), below |-> Max(vs) - v]
    BY <1>7
  <2> HIDE DEF v, cell
  <2>7. cell.above >= 0 /\ cell.below >= 0
    BY <2>5, <2>6
  <2>. QED BY <1>6, <2>7
<1>8. CASE v = Gap
  BY <1>6, <1>8
<1>. QED BY <1>7, <1>8

LEMMA HistoryPictured == HistoryInv => HistoryIsTheLog
<1> SUFFICES ASSUME HistoryInv, history # {} PROVE HistoryIsTheLog
  BY DEF HistoryIsTheLog
<1>1. HistoryShown
  BY DEF HistoryInv
<1>2. \A i, j \in DOMAIN points : i < j => points[i].x < points[j].x
  BY <1>1 DEF HistoryShown, Ascending
<1>3. \A p \in ToSet(points), k \in Keys : p.of[k] # Gap =>
        \E r \in history : r.key = k /\ r.value = p.of[k] /\ Near(r.time, p.x, Second)
  BY <1>1 DEF HistoryShown, Picture, DrawnFrom, ToSet
<1>4. \A r \in history : \E p \in ToSet(points) :
        p.of[r.key] # Gap /\ Near(r.time, p.x, Second)
  BY <1>1 DEF HistoryShown, Picture, AllDrawn, ToSet
<1>5. \A k \in sensorKeys, i \in cleanData :
        LET cell == HeatmapShows({})[k][i]
        IN cell = Gap \/ (cell.above >= 0 /\ cell.below >= 0)
  BY <1>1, CellsWithin
<1>. QED BY <1>2, <1>3, <1>4, <1>5 DEF HistoryIsTheLog

-----------------------------------------------------------------------------
(* The desktop. *)

\* The chart's invariant survives every step of the desktop.
LEMMA DesktopKeepsChart == ChartInv /\ [DesktopNext]_desktopVars => ChartInv'
<1> SUFFICES ASSUME ChartInv, [DesktopNext]_desktopVars PROVE ChartInv'
  OBVIOUS
<1>1. CASE OnDashboard /\ PatientChartNext
  BY <1>1, ChartStep
<1>2. CASE OnProcesses /\ AttentiveFlowNext
  BY <1>2, ChartOthersStep DEF OnProcesses
<1>3. CASE UNCHANGED desktopVars
  BY <1>3, ChartOthersStep DEF desktopVars
<1>. QED BY <1>1, <1>2, <1>3 DEF DesktopNext

\* The inductive invariant of the dashboard's chart: live points are two
\* seconds apart, hold only what came, and the newest value of each sensor.
THEOREM ChartInvariant == DesktopSpec => []ChartInv
<1>1. DesktopInit => ChartInv
  BY InitChart DEF DesktopInit
<1>. QED BY <1>1, DesktopKeepsChart, PTL DEF DesktopSpec

\* What any chart or export shows while live or paused has come since the chart
\* went live, for any sensors, values and bound of points (graph.tsx).
THEOREM LiveChartShowsWhatCame == DesktopSpec => []LiveShowsWhatCame
  BY ChartInvariant, ChartShowsWhatCame, PTL

\* No later sample, of any sensor, loses the newest value of another from the
\* points, but for those that MAX_POINTS later ones push out (graph.tsx).
THEOREM NewestValueIsDrawn == DesktopSpec => []LastValueIsDrawn
  BY ChartInvariant, ChartDrawsNewest, PTL

\* For any log, of any sensors and times, the historical mode draws a picture
\* of it: no row is lost by the merge within a second, nothing is drawn that was
\* not logged, and the points are in order (graph.tsx, logger.service.ts).
THEOREM LogIsPictured == DesktopSpec => []HistoryIsTheLog
<1>1. DesktopInit => HistoryInv
  BY InitHistory DEF DesktopInit
<1>. QED BY <1>1, ChartInvariant, HistoryStep, HistoryPictured, PTL DEF DesktopSpec

\* The page of a process meets, on the desktop, what it was proved for alone.
LEMMA DesktopRunsFlow == DesktopSpec => AttentiveFlowSpec
<1>1. DesktopInit => FlowInit
  BY DEF DesktopInit
<1>2. [DesktopNext]_desktopVars => [AttentiveFlowNext]_flowVars
  BY DEF DesktopNext, OnDashboard, OnProcesses, desktopVars
<1>. QED BY <1>1, <1>2, PTL DEF DesktopSpec, AttentiveFlowSpec

\* On the desktop, with the chart beside them, every flow is its own, a page knows
\* whether its process runs unless an agent was lost since the status was read,
\* and the nodes tell what the monitoring that spoke last has read (flow.tsx).
THEOREM DesktopFlowHolds ==
  DesktopSpec => [](FlowIsItsOwn /\ RunningIsShown /\ NodesTellTheirStream)
  BY DesktopRunsFlow, FlowsAreTheirOwn, PageKnowsStatus, CanvasTellsTheStream, PTL

=============================================================================
