--------------------------- MODULE ProcessEngine ---------------------------
(***************************************************************************)
(* The life cycle of a monitored process in the synk9 server: the          *)
(* handlers of the coordinator gateway (START, PAUSE, agent connect and    *)
(* disconnect), the HTTP handlers that edit a process, the process engine  *)
(* that builds a stream for a started process, and the map of streams.     *)
(*                                                                         *)
(* The server is one JavaScript thread.  What runs between two awaits is   *)
(* one action; every await is a point where the other handlers interleave. *)
(* A database read that a handler awaits is a step that stores what it saw *)
(* (field seen), and the rest of the handler is a later step that acts on  *)
(* it.  A write that a handler does not await goes to the set writes, from *)
(* which the connection pool executes the members in any order.            *)
(***************************************************************************)
EXTENDS Integers, FiniteSets

CONSTANTS
  Processes,     \* ids of the rows of the process table
  Agents,        \* ids of the rows of the agent table
  Requests,      \* slots of concurrently served socket and HTTP requests
  Subs,          \* identities of rxjs subscriptions alive at the same time
  None,          \* JavaScript's undefined
  Flows,         \* the flows (node diagrams) a client may save for a process
  Sockets,       \* identities of agent sockets open at the same time
  MaxRestarts    \* bound: restarts of the server

ASSUME ConstantsAssumption ==
  /\ None \notin Processes \cup Agents \cup Requests \cup Subs \cup Flows
                \cup Sockets
  /\ MaxRestarts \in Nat

VARIABLES
  row,           \* the process table: one record per process
  agentStatus,   \* the status column of the agent table
  req,           \* what each request slot is doing
  writes,        \* database updates that were issued and not awaited
  streams,       \* StreamManager.streams: the subscription of each map entry
  subs,          \* the subscriptions that still receive samples
  streamAgent,   \* StreamManager.agentId, one field for all the streams
  store,         \* ConnectionStore: the agent of each stored agent socket
  restarts       \* how often the server was restarted

vars == <<row, agentStatus, req, writes, streams, subs, streamAgent, store,
          restarts>>

-----------------------------------------------------------------------------
(* State. *)

ProcessState == {"running", "stopped"}
AgentState   == {"ready", "busy", "offline"}

\* A row of the process table.  The flow is null until one is saved; live is
\* FALSE once deletedAt is set.
Row == [live : BOOLEAN, status : ProcessState, agent : Agents,
        flow : Flows \cup {None}]

\* Where a request is: the continuation that runs next.
PC == {"idle",
       "start", "pause",                     \* handleCommand has read the row
       "load", "loaded",                     \* createStream's findOne
       "updateFlow", "update", "remove",     \* the edit passed its check
       "connect", "disconnect", "kill"}      \* an agent's socket

Request ==
  {r \in [pc : PC, proc : Processes \cup {None}, agent : Agents \cup {None},
          flow : Flows \cup {None}, sock : Sockets \cup {None},
          seen : Row \cup {None}, todo : SUBSET Processes] :
     /\ r.pc \in {"start", "pause", "load", "loaded", "updateFlow", "update",
                  "remove"} => r.proc \in Processes
     /\ r.pc \in {"connect", "disconnect", "kill"} => r.proc = None
     /\ r.pc \in {"start", "pause", "loaded"} => r.seen \in Row
     /\ r.pc \in {"load", "loaded", "update", "connect", "disconnect"}
          => r.agent \in Agents
     /\ r.pc = "updateFlow" => r.flow \in Flows
     /\ r.pc = "disconnect" => r.sock \in Sockets}

Idle == [pc |-> "idle", proc |-> None, agent |-> None, flow |-> None,
         sock |-> None, seen |-> None, todo |-> {}]

\* An update that is on its way to the database, and the request that issued
\* it (None: the server's start-up).  An agent's id may be undefined.
Write == [by : Requests \cup {None}, table : {"process"},
          id : Processes, status : ProcessState]
           \cup
         [by : Requests \cup {None}, table : {"agent"},
          id : Agents \cup {None}, status : AgentState]

\* Bug: the status that was asked for is not the one that is written.
UpdateStateStuck(h, p, s) == {[by |-> h, table |-> "process", id |-> p,
                               status |-> "running"]}
\* Bug: the update is forgotten.
UpdateStateForgotten(h, p, s) == {}
UpdateState(h, p, s)      == {[by |-> h, table |-> "process", id |-> p,
                               status |-> s]}
\* Sent whatever the id is, an undefined one included.
ChangeAgentState(h, a, s) == {[by |-> h, table |-> "agent", id |-> a,
                               status |-> s]}

\* What a subscription's closure holds: the process, the agent whose samples
\* it accepts, and the flow it shows them on.
Sub  == [proc : Processes, agent : Agents, flow : Flows]
Free == [proc |-> None, agent |-> None, flow |-> None]

Alive(s) == subs[s] # Free

Init ==
  /\ row \in [Processes -> [live : {TRUE}, status : {"stopped"},
                            agent : Agents, flow : Flows \cup {None}]]
  /\ agentStatus = [a \in Agents |-> "offline"]
  /\ req = [h \in Requests |-> Idle]
  /\ writes = {}
  /\ streams = [p \in Processes |-> None]
  /\ subs = [s \in Subs |-> Free]
  /\ streamAgent = None
  /\ store = [k \in Sockets |-> None]
  /\ restarts = 0

\* A slot is free when its handler has returned and its updates are done.
FreeSlot(h) == req[h] = Idle /\ \A w \in writes : w.by # h

Goto(h, r) == req' = [req EXCEPT ![h] = r]
Return(h)  == Goto(h, Idle)

-----------------------------------------------------------------------------
(* handleCommand, createStream and deleteStream. *)

\* What handleCommand and createStream ask of the row they read.  Bug: its
\* flow is not checked for null.
StartableNoFlow(seen) == seen.live
Startable(seen) == seen.live /\ seen.flow # None

\* deleteStream kills the subscription of the map entry and drops the entry.
\* Bugs: it forgets the one or the other.
KilledNone(p) == subs
Killed(p)     == [subs EXCEPT ![streams[p]] = Free]
DroppedNone(p) == streams
Dropped(p)     == [streams EXCEPT ![p] = None]

\* A client's "command" arrives and the gateway reads the row.
Command(h, p, cmd) ==
  /\ FreeSlot(h)
  /\ Goto(h, [Idle EXCEPT !.pc = cmd, !.proc = p, !.seen = row[p]])
  /\ UNCHANGED <<row, agentStatus, writes, streams, subs, streamAgent,
                 store, restarts>>

\* The row was null (an exception) or has no flow: nothing happens.
Refused(h) ==
  /\ req[h].pc \in {"start", "pause"}
  /\ ~Startable(req[h].seen)
  /\ Return(h)
  /\ UNCHANGED <<row, agentStatus, writes, streams, subs, streamAgent,
                 store, restarts>>

\* PAUSE-PROCESS: delete the stream at once, the status follows.
Pause(h) ==
  LET p == req[h].proc IN
  /\ req[h].pc = "pause" /\ Startable(req[h].seen)
  /\ \/ /\ streams[p] # None
        /\ subs' = Killed(p)
        /\ streams' = Dropped(p)
        /\ writes' = writes \cup UpdateState(h, p, "stopped")
                          \cup ChangeAgentState(h, streamAgent, "ready")
     \/ /\ streams[p] = None
        /\ writes' = writes \cup UpdateState(h, p, "stopped")
        /\ UNCHANGED <<streams, subs>>
  /\ Return(h)
  /\ UNCHANGED <<row, agentStatus, streamAgent, store, restarts>>

\* START-PROCESS: process:created runs enqueueJob up to createStream's
\* findOne; the status update is issued meanwhile.
Start(h) ==
  LET p == req[h].proc IN
  /\ req[h].pc = "start" /\ Startable(req[h].seen)
  /\ Goto(h, [Idle EXCEPT !.pc = "load", !.proc = p,
                          !.agent = req[h].seen.agent])
  /\ writes' = writes \cup UpdateState(h, p, "running")
  /\ UNCHANGED <<row, agentStatus, streams, subs, streamAgent, store,
                 restarts>>

\* createStream's query is executed.
Load(h) ==
  /\ req[h].pc = "load"
  /\ req' = [req EXCEPT ![h].pc = "loaded", ![h].seen = row[req[h].proc]]
  /\ UNCHANGED <<row, agentStatus, writes, streams, subs, streamAgent,
                 store, restarts>>

\* createStream resumes.  The agent is marked busy and remembered before the
\* row is looked at; a map entry of the same process is overwritten.
CreateStream(h) ==
  LET p    == req[h].proc
      seen == req[h].seen
      a    == IF seen.live THEN seen.agent ELSE None
  IN
  /\ req[h].pc = "loaded"
  /\ writes' = writes \cup ChangeAgentState(h, a, "busy")
  /\ streamAgent' = a
  /\ \/ /\ Startable(seen)
        /\ \E s \in Subs :
             /\ ~Alive(s)
             /\ subs' = [subs EXCEPT ![s] = [proc |-> p, agent |-> req[h].agent,
                                             flow |-> seen.flow]]
             /\ streams' = [streams EXCEPT ![p] = s]
     \/ /\ ~Startable(seen)
        /\ UNCHANGED <<streams, subs>>
  /\ Return(h)
  /\ UNCHANGED <<row, agentStatus, store, restarts>>

-----------------------------------------------------------------------------
(* The HTTP handlers that edit a process: check, then write. *)

\* Bug: a running process may be edited.
EditableAlways(p) == row[p].live
Editable(p) == row[p].live /\ row[p].status # "running"

\* The row is read and found, and its status is not running; otherwise the
\* handler throws and changes nothing.
CheckEdit(h, p, op, a, f) ==
  /\ FreeSlot(h)
  /\ Editable(p)
  /\ Goto(h, [Idle EXCEPT !.pc = op, !.proc = p, !.agent = a,
                          !.flow = f])
  /\ UNCHANGED <<row, agentStatus, writes, streams, subs, streamAgent,
                 store, restarts>>

UpdateFlow(h) ==
  /\ req[h].pc = "updateFlow"
  /\ row' = [row EXCEPT ![req[h].proc].flow = req[h].flow]
  /\ Return(h)
  /\ UNCHANGED <<agentStatus, writes, streams, subs, streamAgent, store,
                 restarts>>

Update(h) ==
  /\ req[h].pc = "update"
  /\ row' = [row EXCEPT ![req[h].proc].agent = req[h].agent]
  /\ Return(h)
  /\ UNCHANGED <<agentStatus, writes, streams, subs, streamAgent, store,
                 restarts>>

Remove(h) ==
  /\ req[h].pc = "remove"
  /\ row' = [row EXCEPT ![req[h].proc].live = FALSE]
  /\ Return(h)
  /\ UNCHANGED <<agentStatus, writes, streams, subs, streamAgent, store,
                 restarts>>

-----------------------------------------------------------------------------
(* Agents come and go. *)

\* handleConnection of an agent: its socket is stored ...
Connect(h, a, k) ==
  /\ FreeSlot(h) /\ store[k] = None
  /\ store' = [store EXCEPT ![k] = a]
  /\ Goto(h, [Idle EXCEPT !.pc = "connect", !.agent = a])
  /\ UNCHANGED <<row, agentStatus, writes, streams, subs, streamAgent,
                 restarts>>

\* ... and the awaited status update is executed.
Connected(h) ==
  /\ req[h].pc = "connect"
  /\ agentStatus' = [agentStatus EXCEPT ![req[h].agent] = "ready"]
  /\ Return(h)
  /\ UNCHANGED <<row, writes, streams, subs, streamAgent, store, restarts>>

\* handleDisconnect of a stored socket, which happens once, reads the agent
\* and its processes ...
Disconnect(h, k) ==
  LET a == store[k] IN
  /\ FreeSlot(h)
  /\ a # None /\ \A g \in Requests : req[g].sock # k
  /\ Goto(h, [Idle EXCEPT !.pc = "disconnect", !.agent = a, !.sock = k,
               !.todo = {p \in Processes : row[p].live /\ row[p].agent = a}])
  /\ UNCHANGED <<row, agentStatus, writes, streams, subs, streamAgent,
                 store, restarts>>

\* ... and awaits the update that marks the agent offline; ...
Disconnected(h) ==
  /\ req[h].pc = "disconnect"
  /\ agentStatus' = [agentStatus EXCEPT ![req[h].agent] = "offline"]
  /\ req' = [req EXCEPT ![h].pc = "kill"]
  /\ UNCHANGED <<row, writes, streams, subs, streamAgent, store, restarts>>

\* Bug: the loop over the processes ends after the first.
RestNone(h, p) == {}
Rest(h, p) == req[h].todo \ {p}

\* ... then it drops the socket and stops the processes one by one, awaiting
\* notifyClients after each.  Nobody listens to the process:kill it emits.
Kill(h) ==
  /\ req[h].pc = "kill"
  /\ store' = [k \in Sockets |-> IF k = req[h].sock THEN None ELSE store[k]]
  /\ \/ \E p \in req[h].todo :
          /\ writes' = writes \cup UpdateState(h, p, "stopped")
          /\ Goto(h, [Idle EXCEPT !.pc = "kill", !.todo = Rest(h, p)])
     \/ req[h].todo = {} /\ Return(h) /\ UNCHANGED writes
  /\ UNCHANGED <<row, agentStatus, streams, subs, streamAgent, restarts>>

-----------------------------------------------------------------------------
(* The database, and the server as a whole. *)

\* The pool executes an update nobody waits for.  No row has the id undefined.
Execute(w) ==
  /\ writes' = writes \ {w}
  /\ \/ /\ w.table = "process"
        /\ row' = [row EXCEPT ![w.id].status = w.status]
        /\ UNCHANGED agentStatus
     \/ /\ w.table = "agent"
        /\ agentStatus' = [a \in Agents |-> IF a = w.id THEN w.status
                                           ELSE agentStatus[a]]
        /\ UNCHANGED row
  /\ UNCHANGED <<req, streams, subs, streamAgent, store, restarts>>

\* The server stops and comes back: what it held in memory is gone, what it
\* had not sent to the database is lost, and afterInit issues one update per
\* agent.  The process table keeps its statuses.
Restart ==
  /\ restarts < MaxRestarts
  /\ restarts' = restarts + 1
  /\ req' = [h \in Requests |-> Idle]
  /\ writes' = UNION {ChangeAgentState(None, a, "offline") : a \in Agents}
  /\ streams' = [p \in Processes |-> None]
  /\ subs' = [s \in Subs |-> Free]
  /\ streamAgent' = None
  /\ store' = [k \in Sockets |-> None]
  /\ UNCHANGED <<row, agentStatus>>

-----------------------------------------------------------------------------
\* A continuation of the request in slot h.
Step(h) ==
  \/ Refused(h) \/ Pause(h) \/ Start(h) \/ Load(h) \/ CreateStream(h)
  \/ UpdateFlow(h) \/ Update(h) \/ Remove(h)
  \/ Connected(h) \/ Disconnected(h) \/ Kill(h)

\* The bound on Subs: every START being served may become a subscription.
Room == Cardinality({s \in Subs : Alive(s)})
          + Cardinality({h \in Requests : req[h].pc \in {"start", "load",
                                                         "loaded"}})
        < Cardinality(Subs)

\* A new request.
Arrive(h) ==
  \/ \E p \in Processes : Room /\ Command(h, p, "start")
  \/ \E p \in Processes : Command(h, p, "pause")
  \/ \E p \in Processes :
       \/ \E f \in Flows : CheckEdit(h, p, "updateFlow", None, f)
       \/ \E a \in Agents : CheckEdit(h, p, "update", a, None)
       \/ CheckEdit(h, p, "remove", None, None)
  \/ \E k \in Sockets : Disconnect(h, k) \/ \E a \in Agents : Connect(h, a, k)

Next ==
  \/ \E h \in Requests : Arrive(h) \/ Step(h)
  \/ \E w \in writes : Execute(w)
  \/ Restart

\* Promises are resolved and every query is executed, so every continuation
\* runs and every update is done.  Requests need never arrive.
Fairness ==
  /\ \A h \in Requests : WF_vars(Step(h))
  /\ \A w \in Write : WF_vars(w \in writes /\ Execute(w))

Spec == Init /\ [][Next]_vars
FairSpec == Spec /\ Fairness
-----------------------------------------------------------------------------
\* The type invariant.
TypeOK ==
  /\ row \in [Processes -> Row]
  /\ agentStatus \in [Agents -> AgentState]
  /\ req \in [Requests -> Request]
  /\ writes \subseteq Write
  /\ streams \in [Processes -> Subs \cup {None}]
  /\ subs \in [Subs -> Sub \cup {Free}]
  /\ streamAgent \in Agents \cup {None}
  /\ store \in [Sockets -> Agents \cup {None}]
  /\ restarts \in 0..MaxRestarts

\* The switch that deleteStream pulls is connected: what the map of streams
\* holds for a process is a subscription of that process that is still alive
\* (createStream's set against the delete of the complete callback).
EntryOwnsSub ==
  \A p \in Processes : streams[p] # None =>
    Alive(streams[p]) /\ subs[streams[p]].proc = p

\* When an agent is lost, every one of its processes is shown stopped at some
\* later moment, however the loop over them and the updates of other handlers
\* interleave (handleDisconnect).
LossIsShown ==
  \A h \in Requests, p \in Processes :
    (req[h].pc = "kill" /\ p \in req[h].todo) ~> row[p].status = "stopped"
=============================================================================
