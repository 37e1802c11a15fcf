--------------------------- MODULE SensorRegistry ---------------------------
(***************************************************************************)
(* How an edge agent comes to know what it has to read.  The server keeps  *)
(* sensors and alert topics in its database; the agent keeps a list of     *)
(* registered entries in memory and polls the PLC for each of them.  Two   *)
(* mechanisms keep the list up to date: every HTTP edit is pushed to the   *)
(* agent as an event, and when an agent connects the server asks for its   *)
(* list (HealthCheck) and pushes everything it has.                        *)
(*                                                                         *)
(* One agent is modelled in full.  Between an edit and the agent's list an *)
(* event passes the gateway's loop over the connections, which awaits a    *)
(* Redis reply per connection, the socket, and the agent's channel.        *)
(***************************************************************************)
EXTENDS Integers, Sequences, FiniteSets

CONSTANTS
  Sensors,       \* ids of sensors
  Topics,        \* ids of alert topics; a topic has one rule, whose id it shares
  Permanent,     \* the sensors that exist from the start and are never removed
  Confs,         \* what can be registered of an item: register, label, type
  Requests,      \* slots of concurrently served requests
  Sockets,       \* identities of the agent's sockets known at the same time
  Others,        \* stored sockets of other agents
  ChannelSize,   \* MESSAGE_CHANNEL_SIZE of the agent
  MaxQueue,      \* bound: events on their way when a request arrives
  None

Items == Sensors \cup Topics

ASSUME RegistryAssumption ==
  /\ Permanent \subseteq Sensors /\ Sensors \cap Topics = {}
  /\ Sockets \cap Others = {}
  /\ None \notin Confs \cup Sockets \cup Others \cup Items
  /\ IsFiniteSet(Items) /\ IsFiniteSet(Others)
  /\ ChannelSize \in Nat \ {0} /\ MaxQueue \in Nat \ {0}

VARIABLES
  table,         \* the rows of the sensor and the alert_topic tables
  req,           \* what each request slot is doing
  store,         \* ConnectionStore: stored sockets in order of insertion
  redis,         \* notifications that await a Redis reply, in that order
  conn,          \* how far the gateway is with each socket of the agent
  link,          \* the socket the agent is connected by, or None
  wire,          \* events sent on link and not received
  up,            \* health_check replies sent by the agent and not served
  chan,          \* the agent's channel of events
  reg            \* registered_sensors: what the agent reads

server  == <<table, req>>
gateway == <<store, redis, conn>>
network == <<link, wire, up>>
agent   == <<chan, reg>>
vars    == <<server, gateway, network, agent>>

-----------------------------------------------------------------------------
(* The agent's list, as the set of what it reads.  The list may hold an     *)
(* entry more than once, which only makes the agent read it more often.    *)

Entry == [item : Items, conf : Confs]
EntriesOf(i) == {e \in reg : e.item = i}

AddSensor(i, c) == reg \cup {[item |-> i, conf |-> c]}
\* Bug: nothing is removed.
RemoveSensorKeeps(i) == reg
RemoveSensor(i) == reg \ EntriesOf(i)
\* Bug: editing forgets to add the new entry.
EditSensorRemoves(i, c) == RemoveSensor(i)
EditSensor(i, c) == RemoveSensor(i) \cup {[item |-> i, conf |-> c]}

Event ==
  [type : {"AddSensor", "EditSensor"}, item : Items, conf : Confs]
    \cup [type : {"RemoveSensor"}, item : Items]
    \cup [type : {"HealthCheck", "CleanUp", "PauseAgent"}]

Add(i, c)  == [type |-> "AddSensor",  item |-> i, conf |-> c]
Edit(i, c) == [type |-> "EditSensor", item |-> i, conf |-> c]
Drop(i)    == [type |-> "RemoveSensor", item |-> i]

HealthCheck == [type |-> "HealthCheck"]
CleanUp     == [type |-> "CleanUp"]
PauseAgent  == [type |-> "PauseAgent"]

Row  == [state : {"absent", "live", "deleted"}, conf : Confs \cup {None}]
Live(i) == table[i].state = "live"

\* A notification on its way through the connections that were stored when it
\* was issued.  "named" tells whether its payload carries a fingerprint.
Note == [event : Event, named : BOOLEAN, keys : Seq(Sockets \cup Others)]

Request ==
  [pc : {"idle"}]
    \cup [pc : {"created", "check", "updated"}, item : Items, conf : Confs]
    \cup [pc : {"remove", "removed"}, item : Items]
    \cup [pc : {"sync"}, rows : [Items -> Confs \cup {None}],
          empty : BOOLEAN]

Idle == [pc |-> "idle"]

Init ==
  /\ table \in [Items -> [state : {"absent", "live"}, conf : Confs \cup {None}]]
  /\ \A i \in Items : (table[i].conf = None <=> ~Live(i))
                      /\ (Live(i) <=> i \in Permanent)
  /\ req = [h \in Requests |-> Idle]
  /\ store \in [1..Cardinality(Others) -> Others]
  /\ \A k \in Others : \E n \in DOMAIN store : store[n] = k
  /\ redis = <<>>
  /\ conn = [k \in Sockets |-> "free"]
  /\ link = None /\ wire = <<>> /\ up = <<>>
  /\ chan = <<>> /\ reg = {}

-----------------------------------------------------------------------------
(* notifyAgentViaFingerprint. *)

\* Every event of evs starts its own loop over the connections stored now.
Notes(evs, named) ==
  IF store = <<>> THEN <<>>
  ELSE [n \in DOMAIN evs |-> [event |-> evs[n], named |-> named,
                              keys |-> store]]

Notify(ev) == redis' = redis \o Notes(<<ev>>, TRUE)

\* Redis replies to the oldest request: the event is sent if the connection
\* is still stored and has the fingerprint, and the loop asks for the next.
Reply ==
  LET n == Head(redis)
      k == Head(n.keys)
      stored == \E x \in DOMAIN store : store[x] = k
  IN
  /\ redis # <<>>
  /\ redis' = IF Len(n.keys) = 1 THEN Tail(redis)
              ELSE Append(Tail(redis), [n EXCEPT !.keys = Tail(@)])
  /\ wire' = IF n.named /\ stored /\ k = link THEN Append(wire, n.event)
             ELSE wire
  /\ UNCHANGED <<server, store, conn, link, up, agent>>

-----------------------------------------------------------------------------
(* The HTTP handlers of sensors and alert topics. *)

Room == Len(redis) + Len(wire) + Len(chan) < MaxQueue
FreeSlot(h) == req[h] = Idle /\ Room
Goto(h, r) == req' = [req EXCEPT ![h] = r]

\* The item is saved ...
Create(h, i, c) ==
  /\ FreeSlot(h) /\ table[i].state = "absent"
  /\ table' = [table EXCEPT ![i] = [state |-> "live", conf |-> c]]
  /\ Goto(h, [pc |-> "created", item |-> i, conf |-> c])
  /\ UNCHANGED <<gateway, network, agent>>

\* ... and the handler resumes.
Created(h) ==
  /\ req[h].pc = "created"
  /\ Notify(Add(req[h].item, req[h].conf))
  /\ Goto(h, Idle)
  /\ UNCHANGED <<table, store, conn, network, agent>>

\* A sensor's row is updated, a soft-deleted one too.
UpdateSensor(h, i, c) ==
  /\ FreeSlot(h) /\ i \in Sensors /\ table[i].state # "absent"
  /\ table' = [table EXCEPT ![i].conf = c]
  /\ Goto(h, [pc |-> "updated", item |-> i, conf |-> c])
  /\ UNCHANGED <<gateway, network, agent>>

\* A topic is looked up first; both steps are in one transaction.
CheckTopic(h, i, c) ==
  /\ FreeSlot(h) /\ i \in Topics /\ Live(i)
  /\ Goto(h, [pc |-> "check", item |-> i, conf |-> c])
  /\ UNCHANGED <<table, gateway, network, agent>>

UpdateTopic(h) ==
  /\ req[h].pc = "check"
  /\ table' = [table EXCEPT ![req[h].item].conf = req[h].conf]
  /\ req' = [req EXCEPT ![h].pc = "updated"]
  /\ UNCHANGED <<gateway, network, agent>>

Updated(h) ==
  /\ req[h].pc = "updated"
  /\ Notify(Edit(req[h].item, req[h].conf))
  /\ Goto(h, Idle)
  /\ UNCHANGED <<table, store, conn, network, agent>>

FindItem(h, i) ==
  /\ FreeSlot(h) /\ Live(i) /\ i \notin Permanent
  /\ Goto(h, [pc |-> "remove", item |-> i])
  /\ UNCHANGED <<table, gateway, network, agent>>

Remove(h) ==
  /\ req[h].pc = "remove"
  /\ table' = [table EXCEPT ![req[h].item].state = "deleted"]
  /\ req' = [req EXCEPT ![h].pc = "removed"]
  /\ UNCHANGED <<gateway, network, agent>>

Removed(h) ==
  /\ req[h].pc = "removed"
  /\ Notify(Drop(req[h].item))
  /\ Goto(h, Idle)
  /\ UNCHANGED <<table, store, conn, network, agent>>

\* PATCH of an agent with locked = true: the payload of agent:updated has no
\* fingerprint, so PauseAgent goes round and finds nobody.
LockAgent ==
  /\ Room
  /\ redis' = redis \o Notes(<<PauseAgent>>, FALSE)
  /\ UNCHANGED <<server, store, conn, network, agent>>

-----------------------------------------------------------------------------
(* Connections. *)

\* An agent waits at least a second before it connects again: by then the
\* server is through with what it had received and with the loops over the
\* connections, which take milliseconds.
Connect(k) ==
  /\ link = None /\ conn[k] = "free" /\ redis = <<>> /\ up = <<>>
  /\ conn' = [conn EXCEPT ![k] = "new"]
  /\ link' = k
  /\ UNCHANGED <<server, store, redis, wire, up, agent>>

\* handleConnection stores the socket, awaits the agent's status ...
Stored(k) ==
  /\ conn[k] = "new"
  /\ conn' = [conn EXCEPT ![k] = "stored"]
  /\ store' = Append(store, k)
  /\ UNCHANGED <<server, redis, network, agent>>

\* ... and asks for the agent's list.
Greet(k) ==
  /\ conn[k] = "stored"
  /\ conn' = [conn EXCEPT ![k] = "ready"]
  /\ wire' = IF k = link THEN Append(wire, HealthCheck) ELSE wire
  /\ UNCHANGED <<server, store, redis, link, up, agent>>

\* The connection breaks; what is on the way is lost, unless the server has
\* received it; ...
LoseLink ==
  /\ link # None
  /\ link' = None /\ wire' = <<>> /\ up' \in {up, <<>>}
  /\ UNCHANGED <<server, gateway, agent>>

\* The map of connections loses an entry.
Forget(k) == \E n \in DOMAIN store :
  /\ store[n] = k
  /\ store' = SubSeq(store, 1, n - 1) \o SubSeq(store, n + 1, Len(store))

\* ... later the gateway notices (handleDisconnect).
Disconnected(k) ==
  /\ conn[k] = "ready" /\ link # k
  /\ conn' = [conn EXCEPT ![k] = "free"]
  /\ Forget(k)
  /\ UNCHANGED <<server, redis, network, agent>>

OtherLeaves(k) ==
  /\ k \in Others /\ Forget(k)
  /\ UNCHANGED <<server, redis, conn, network, agent>>

\* A health_check reply of a stored socket is served: the rows are read ...
Report(h) ==
  /\ req[h] = Idle /\ up # <<>>
  /\ up' = Tail(up)
  /\ \/ /\ \E n \in DOMAIN store : store[n] = Head(up).sock
        /\ Goto(h, [pc |-> "sync", empty |-> Head(up).empty,
                    rows |-> [i \in Items |-> IF Live(i) THEN table[i].conf
                                              ELSE None]])
     \/ /\ ~\E n \in DOMAIN store : store[n] = Head(up).sock
        /\ UNCHANGED req
  /\ UNCHANGED <<table, gateway, link, wire, agent>>

\* Bug: an empty list is taken for a synchronised one.
IsSyncedEmpty(r) == r.empty
\* The agent's list never equals the server's unless both are empty: the
\* entries it compares have different fields, and no topics are among them.
IsSynced(r) == r.empty /\ \A i \in Sensors : r.rows[i] = None

\* The order in which a query returns its rows.
Found(S, r) ==
  LET live == {i \in S : r.rows[i] # None}
  IN  CHOOSE q \in [1..Cardinality(live) -> live] :
        \A i \in live : \E n \in DOMAIN q : q[n] = i

\* What syncAgentWithServerData creates anew.  Bug: it forgets the topics.
AddsOfSensors(r) ==
  LET q == Found(Sensors, r) IN [n \in DOMAIN q |-> Add(q[n], r.rows[q[n]])]
Adds(r) ==
  LET q == Found(Sensors, r) \o Found(Topics, r)
  IN  [n \in DOMAIN q |-> Add(q[n], r.rows[q[n]])]

\* ... and compared.  agent:cleanup has no fingerprint either.
Sync(h) ==
  /\ req[h].pc = "sync"
  /\ redis' = IF IsSynced(req[h]) THEN redis
              ELSE redis \o Notes(<<CleanUp>>, FALSE)
                         \o Notes(Adds(req[h]), TRUE)
  /\ Goto(h, Idle)
  /\ UNCHANGED <<table, store, conn, network, agent>>

-----------------------------------------------------------------------------
(* The agent. *)

ChannelHasRoom == Len(chan) < ChannelSize

\* The socket's callback puts an event into the channel when there is room.
Receive ==
  /\ wire # <<>> /\ ChannelHasRoom
  /\ chan' = Append(chan, Head(wire)) /\ wire' = Tail(wire)
  /\ UNCHANGED <<server, gateway, link, up, reg>>

\* The main loop handles the oldest event.
Handle ==
  LET e == Head(chan) IN
  /\ chan # <<>>
  /\ chan' = Tail(chan)
  /\ \/ /\ e.type = "AddSensor" /\ reg' = AddSensor(e.item, e.conf)
        /\ UNCHANGED up
     \/ /\ e.type = "EditSensor" /\ reg' = EditSensor(e.item, e.conf)
        /\ UNCHANGED up
     \/ /\ e.type = "RemoveSensor" /\ reg' = RemoveSensor(e.item)
        /\ UNCHANGED up
     \/ /\ e.type = "HealthCheck"
        /\ up' = IF link = None THEN up
                 ELSE Append(up, [sock |-> link, empty |-> reg = {}])
        /\ UNCHANGED reg
  /\ UNCHANGED <<server, gateway, link, wire>>

\* Without a connection a sample cannot be sent: the list is cleared.
MonitorFails ==
  /\ link = None /\ reg # {}
  /\ reg' = {}
  /\ UNCHANGED <<server, gateway, network, chan>>

-----------------------------------------------------------------------------
(* Crashes. *)

RestartServer ==
  /\ req' = [h \in Requests |-> Idle]
  /\ store' = <<>> /\ redis' = <<>>
  /\ conn' = [k \in Sockets |-> "free"]
  /\ link' = None /\ wire' = <<>> /\ up' = <<>>
  /\ UNCHANGED <<table, agent>>

RestartAgent ==
  /\ chan' = <<>> /\ reg' = {}
  /\ link' = None /\ wire' = <<>> /\ up' = <<>>
  /\ UNCHANGED <<server, gateway>>

-----------------------------------------------------------------------------
Arrive(h) ==
  \E i \in Items :
    \/ FindItem(h, i)
    \/ \E c \in Confs : Create(h, i, c) \/ UpdateSensor(h, i, c)
                        \/ CheckTopic(h, i, c)

Step(h) ==
  \/ Created(h) \/ UpdateTopic(h) \/ Updated(h) \/ Remove(h) \/ Removed(h)
  \/ Sync(h)

\* What happens without anybody asking for it.
Progress ==
  \/ \E h \in Requests : Step(h) \/ Report(h)
  \/ Reply \/ Receive \/ Handle
  \/ \E k \in Sockets : Stored(k) \/ Greet(k) \/ Disconnected(k)

Breaks == LoseLink \/ MonitorFails \/ \E k \in Others : OtherLeaves(k)

Next ==
  \/ Progress \/ Breaks
  \/ \E h \in Requests : Arrive(h)
  \/ \E k \in Sockets : Connect(k)
  \/ RestartServer \/ RestartAgent

Spec == Init /\ [][Next]_vars

\* Replies come, promises are resolved, and the agent's loops run.  A report
\* that waits for a slot is served in the end: slots are a bound of the model.
Fairness ==
  /\ \A h \in Requests : WF_vars(Step(h))
  /\ SF_vars(\E h \in Requests : Report(h))
  /\ WF_vars(Reply) /\ WF_vars(Receive) /\ WF_vars(Handle)
  /\ \A k \in Sockets : WF_vars(Stored(k)) /\ WF_vars(Greet(k))

FairSpec == Spec /\ Fairness

\* Nothing is on its way, the agent being connected and greeted, or gone.
Still ==
  /\ \A h \in Requests : req[h] = Idle
  /\ redis = <<>> /\ wire = <<>> /\ chan = <<>> /\ up = <<>>
  /\ link # None => conn[link] = "ready"

\* A careful operator edits one item at a time, never one that is deleted, and
\* not while an agent is being greeted.  A loss of the connection, which may
\* come at any time, lasts until the agent has handled what it had received
\* and has failed to send a sample.  Locking the agent makes no difference.
CarefulArrive(h) ==
  /\ Still
  /\ \E i \in Items :
       \/ FindItem(h, i)
       \/ \E c \in Confs :
            \/ Create(h, i, c)
            \/ Live(i) /\ UpdateSensor(h, i, c)
            \/ CheckTopic(h, i, c)

CarefulNext ==
  \/ Progress \/ Breaks
  \/ \E h \in Requests : CarefulArrive(h)
  \/ \E k \in Sockets : Still /\ reg = {} /\ Connect(k)
  \/ Still /\ LockAgent

CarefulSpec == Init /\ [][CarefulNext]_vars
FairCarefulSpec == CarefulSpec /\ Fairness
-----------------------------------------------------------------------------
TypeOK ==
  /\ table \in [Items -> Row]
  /\ req \in [Requests -> Request]
  /\ store \in Seq(Sockets \cup Others)
  /\ redis \in Seq(Note)
  /\ \A n \in DOMAIN redis : redis[n].keys # <<>>
  /\ conn \in [Sockets -> {"free", "new", "stored", "ready"}]
  /\ link \in Sockets \cup {None}
  /\ wire \in Seq(Event)
  /\ up \in Seq([sock : Sockets, empty : BOOLEAN])
  /\ chan \in Seq(Event) /\ Len(chan) <= ChannelSize
  /\ reg \subseteq Entry

\* The agent is connected and greeted and nothing is on its way.
Quiet ==
  /\ link # None /\ conn[link] = "ready"
  /\ \A h \in Requests : req[h] = Idle
  /\ redis = <<>> /\ wire = <<>> /\ chan = <<>> /\ up = <<>>

Covered(i) == EntriesOf(i) # {}

\* No sensor is forgotten: whatever happened before - edits during a loss of
\* the connection, a create that races the greeting, a crash between the save
\* and the event - a connected agent to which nothing is on its way reads every
\* sensor there is (sensor.service, gateway, sync.service and the agent's
\* event loop together).
SensorsCovered == Quiet => \A i \in Sensors : Live(i) => Covered(i)

\* The same of the alert topics, given a sensor that is never removed: without
\* sensors the server takes an empty list for a synchronised one.
TopicsCovered ==
  (Quiet /\ Permanent # {}) => \A i \in Topics : Live(i) => Covered(i)

\* A sensor that was saved is read by the agent in the end, unless it is
\* deleted or the connection breaks.
SavedIsCovered ==
  \A i \in Sensors :
    (Live(i) /\ link # None) ~> (Covered(i) \/ ~Live(i) \/ link = None)

\* With a careful operator and losses that the agent notices, the agent reads
\* exactly what is live, as it was saved last: no deleted item, no outdated
\* register (CarefulSpec).
AgentAgrees ==
  (Quiet /\ Permanent # {}) =>
    reg = {[item |-> i, conf |-> table[i].conf] : i \in {j \in Items : Live(j)}}

=============================================================================
