-------------------------- MODULE CarefulOperator --------------------------
(***************************************************************************)
(* The process engine as a careful operator uses it: a request about a     *)
(* process is sent only when the previous one about it has settled, START  *)
(* only for a process shown stopped and PAUSE only for one shown running;  *)
(* no agent is lost and the server is not restarted.  Requests about       *)
(* different processes still interleave at every await, and the agents     *)
(* connect whenever they like.  Under these assumptions the engine         *)
(* implements the switch of MonitorSwitch.                                 *)
(***************************************************************************)
EXTENDS ProcessEngine

\* Nothing about p is being served and no update of its row is pending.
Settled(p) ==
  /\ \A h \in Requests : req[h].proc # p /\ p \notin req[h].todo
  /\ \A w \in writes : w.table = "process" => w.id # p

CarefulArrive(h) ==
  \/ \E p \in Processes :
       /\ Settled(p)
       /\ \/ row[p].status = "stopped" /\ Room /\ Command(h, p, "start")
          \/ row[p].status = "running" /\ Command(h, p, "pause")
          \/ \E f \in Flows : CheckEdit(h, p, "updateFlow", None, f)
          \/ \E a \in Agents : CheckEdit(h, p, "update", a, None)
          \/ CheckEdit(h, p, "remove", None, None)
  \/ \E a \in Agents, k \in Sockets : Connect(h, a, k)

CarefulNext ==
  \/ \E h \in Requests : CarefulArrive(h) \/ Step(h)
  \/ \E w \in writes : Execute(w)

CarefulSpec == Init /\ [][CarefulNext]_vars
FairCarefulSpec == CarefulSpec /\ Fairness

\* The same operator when agents are also lost.
LossyNext ==
  CarefulNext \/ \E h \in Requests, k \in Sockets : Disconnect(h, k)

LossySpec == Init /\ [][LossyNext]_vars
FairLossySpec == LossySpec /\ Fairness

-----------------------------------------------------------------------------
\* Every subscription that receives samples is the one its process's map
\* entry holds, so that deleteStream can reach it: no sample is handled twice
\* and none after a PAUSE (handleData, deleteStream).
NoOrphan == \A s \in Subs : Alive(s) => streams[subs[s].proc] = s

\* A stream works on the process as the database has it: not deleted, on the
\* agent it is assigned to, with the flow that was saved last (the closures
\* of createStream against ProcessService's edits).
StreamFollowsRow ==
  \A p \in Processes : streams[p] # None =>
    /\ row[p].live
    /\ subs[streams[p]].agent = row[p].agent
    /\ subs[streams[p]].flow = row[p].flow

\* Once everything about a process has settled, the status that clients fetch
\* tells whether it is being monitored (handleCommand's updateState, which
\* nobody awaits, against createStream).
StatusTellsStream ==
  \A p \in Processes : Settled(p) =>
    (row[p].status = "running" <=> streams[p] # None)

\* The half of it that survives the loss of agents: a process shown running
\* has a stream (handleDisconnect writes stopped, and leaves the stream).
RunningIsMonitored ==
  \A p \in Processes : Settled(p) =>
    (row[p].status = "running" => streams[p] # None)

\* "Kill the stream": once deleteStream has removed a process's stream, no
\* subscription of the process is left that would handle samples.
KilledStreamIsSilent ==
  [][\A p \in Processes :
       (streams[p] # None /\ streams'[p] = None)
         => \A s \in Subs : subs'[s].proc # p]_vars

\* "Cannot edit a running process" (updateFlow, update, remove): no edit
\* reaches the row of a process while its status is running.
NoEditWhileRunning ==
  [][\A p \in Processes : row[p].status = "running" =>
       /\ row'[p].live = row[p].live
       /\ row'[p].agent = row[p].agent
       /\ row'[p].flow = row[p].flow]_vars

-----------------------------------------------------------------------------
(* Why it holds: the inductive invariant of CarefulSpec. *)

RowWrites(p)  == {w \in writes : w.table = "process" /\ w.id = p}
Pending(p, s) == \E w \in RowWrites(p) : w.status = s

\* The operator's last order about p that the handlers have accepted.
Wanted(p) == \/ Pending(p, "running")
             \/ row[p].status = "running" /\ ~Pending(p, "stopped")

\* No agent is lost.
NoLoss == \A h \in Requests :
            req[h].pc \notin {"disconnect", "kill"} /\ req[h].todo = {}

\* At most one request and one update about p, and both at once only while a
\* START is under way.
OneAtATime(p) ==
  /\ \A g, h \in Requests : req[g].proc = p /\ req[h].proc = p => g = h
  /\ \A v, w \in RowWrites(p) : v = w
  /\ \A h \in Requests, w \in RowWrites(p) :
       req[h].proc = p => req[h].pc \in {"load", "loaded"}
                            /\ w.status = "running"

\* What the continuation of a request about p may count on.
Served(p) ==
  \A h \in Requests : req[h].proc = p =>
    LET r == req[h] IN
    /\ r.pc \in {"start", "updateFlow", "update", "remove"}
         => row[p].status = "stopped" /\ streams[p] = None
    /\ r.pc = "pause" => row[p].status = "running" /\ streams[p] # None
    /\ r.pc \in {"load", "loaded"} =>
         /\ streams[p] = None /\ Wanted(p)
         /\ row[p].live /\ row[p].flow # None /\ row[p].agent = r.agent
    /\ r.pc \in {"start", "pause", "loaded"} =>
         /\ r.seen.live = row[p].live
         /\ r.seen.agent = row[p].agent
         /\ r.seen.flow = row[p].flow

\* A process nobody is serving is monitored iff it is wanted.
Unserved(p) ==
  (\A h \in Requests : req[h].proc # p) => (Wanted(p) <=> streams[p] # None)

CarefulInv ==
  /\ TypeOK /\ EntryOwnsSub /\ NoOrphan /\ StreamFollowsRow /\ NoLoss
  /\ \A p \in Processes : OneAtATime(p) /\ Served(p) /\ Unserved(p)

-----------------------------------------------------------------------------
(* Why RunningIsMonitored holds when agents are lost: the inductive        *)
(* invariant of LossySpec.  The updates of a lost agent's processes may be *)
(* pending together with a START's, but never a START's with a PAUSE.      *)

\* A START of p that has passed its check and has not built its stream.
Building(p) ==
  \E h \in Requests : req[h].proc = p /\ req[h].pc \in {"load", "loaded"}

\* Requests about p come one at a time; a START builds a stream of the row
\* it has read, and a PAUSE finds no START's update pending.
OneServed(p) ==
  /\ \A g, h \in Requests : req[g].proc = p /\ req[h].proc = p => g = h
  /\ \A h \in Requests : req[h].proc = p =>
       /\ req[h].pc \in {"start", "loaded"} =>
            /\ req[h].seen.live = row[p].live
            /\ req[h].seen.flow = row[p].flow
       /\ req[h].pc \in {"load", "loaded"} =>
            row[p].live /\ row[p].flow # None
       /\ req[h].pc = "pause" => ~Pending(p, "running")

\* What is shown running, or is about to be, has a stream or gets one.
Monitored(p) ==
  \/ streams[p] # None \/ Building(p)
  \/ /\ ~Pending(p, "running")
     /\ row[p].status = "running" => Pending(p, "stopped")

LossyInv == TypeOK /\ \A p \in Processes : OneServed(p) /\ Monitored(p)

-----------------------------------------------------------------------------
(* The engine as a switch. *)

wanted == [p \in Processes |-> Wanted(p)]
shown  == [p \in Processes |-> row[p].status = "running"]
def    == [p \in Processes |-> [live |-> row[p].live, agent |-> row[p].agent,
                                flow |-> row[p].flow]]
using  == [p \in Processes |->
             IF streams[p] = None THEN None
             ELSE [live |-> TRUE, agent |-> subs[streams[p]].agent,
                   flow |-> subs[streams[p]].flow]]

Definitions == [live : BOOLEAN, agent : Agents, flow : Flows \cup {None}]

ASSUME DefinitionsAssumption == None \notin Definitions

Switch == INSTANCE MonitorSwitch WITH
            Processes <- Processes, Definitions <- Definitions, None <- None,
            wanted <- wanted, shown <- shown, def <- def, using <- using

\* Used by a careful operator, the engine is the switch that MonitorSwitch
\* describes: a paused process is off at once, a started one goes on with the
\* definition it has, and no definition changes unless all is off.
IsSwitch == Switch!Spec

\* And every order is carried out and shown in the end.
OrdersAreCarriedOut == Switch!FairSpec
=============================================================================
