----------------------------- MODULE EdgeAgent -----------------------------
(***************************************************************************)
(* The edge agent as a concurrent program.  Three tasks: the socket's      *)
(* callback puts events into a bounded channel; the main loop takes them   *)
(* out and handles one at a time; the monitoring task reads every          *)
(* registered sensor from the PLC, round after round.  The latter two      *)
(* share the agent under a mutex which both hold while they wait for the   *)
(* PLC.  The mutexes of the state and of the Modbus context are taken only *)
(* by the task that holds the agent's, so they never make anybody wait.    *)
(***************************************************************************)
EXTENDS Integers, Sequences, FiniteSets

CONSTANTS
  Sensors,         \* ids of registered items, as the server names them
  ChannelSize,     \* MESSAGE_CHANNEL_SIZE
  MaxConnections,  \* bound: connections made in the agent's life
  None

VARIABLES
  up,       \* the socket is connected
  gen,      \* the number of the present or the last connection
  cb,       \* the event that the socket's callback holds, or None
  chan,     \* the channel of events
  reg,      \* registered_sensors: ids, and the connection each came by
  paused,   \* paused_agent
  owner,    \* the task that holds the agent's mutex, or None
  queue,    \* the tasks that wait for it, in the order they asked
  ev,       \* the main loop: where it is, and the event it handles
  mon,      \* the monitoring task: where it is, and the rest of its round
  hung      \* the PLC has stopped to answer, for ever

socket == <<up, gen, cb>>
state  == <<reg, paused>>
lock   == <<owner, queue>>
vars   == <<socket, chan, state, lock, ev, mon, hung>>

-----------------------------------------------------------------------------
Tasks == {"events", "monitor"}
Gens  == 1..MaxConnections
Entry == [id : Sensors, gen : Gens]

\* ChEvent.  Stop is a Write to register 0; Wait does nothing and is never
\* sent.  What registers a sensor bears the number of its connection.
Event ==
  [type : {"AddSensor", "EditSensor"}, id : Sensors, gen : Gens]
    \cup [type : {"RemoveSensor"}, id : Sensors]
    \cup [type : {"CleanUp", "HealthCheck", "PauseAgent", "Write"}]

ASSUME AgentAssumption ==
  /\ ChannelSize \in Nat \ {0} /\ MaxConnections \in Nat \ {0}
  /\ None \notin Sensors \cup Tasks \cup Event

Receiving == [pc |-> "recv", event |-> None]

Init ==
  /\ up = TRUE /\ gen = 1 /\ cb = None
  /\ chan = <<>> /\ reg = {} /\ paused = FALSE
  /\ owner = None /\ queue = <<>>
  /\ ev = Receiving
  /\ mon = [pc |-> "tick", todo |-> {}]
  /\ hung = FALSE

-----------------------------------------------------------------------------
(* The agent's mutex, which tokio hands over in the order of asking. *)

Ask(t) ==
  IF owner = None THEN owner' = t /\ UNCHANGED queue
                  ELSE queue' = Append(queue, t) /\ UNCHANGED owner

\* Who may have the mutex next.  Bug: a task that waits may be passed over.
HeirsBarging == {None} \cup (IF queue = <<>> THEN {} ELSE {Head(queue)})
Heirs == IF queue = <<>> THEN {None} ELSE {Head(queue)}

Release ==
  /\ owner' \in Heirs
  /\ queue' = IF owner' = None THEN queue ELSE Tail(queue)

Return        == ev' = Receiving /\ Release
MonitorAt(pc) == mon' = [mon EXCEPT !.pc = pc]

-----------------------------------------------------------------------------
(* The socket.  Its callback waits for room in the channel, and until it    *)
(* returns nothing else is read from the socket, a disconnection included. *)

Arrive(e) ==
  /\ up /\ cb = None
  /\ e.type \in {"AddSensor", "EditSensor"} => e.gen = gen
  /\ cb' = e
  /\ UNCHANGED <<up, gen, chan, state, lock, ev, mon, hung>>

ChannelHasRoom == Len(chan) < ChannelSize

Deliver ==
  /\ cb # None /\ ChannelHasRoom
  /\ chan' = Append(chan, cb) /\ cb' = None
  /\ UNCHANGED <<up, gen, state, lock, ev, mon, hung>>

LoseLink ==
  /\ up /\ up' = FALSE
  /\ UNCHANGED <<gen, cb, chan, state, lock, ev, mon, hung>>

\* The client tries again after a second at least: a task that is about to
\* ask for the mutex has done so by then.
Reconnect ==
  /\ ~up /\ cb = None /\ mon.pc # "failed" /\ gen < MaxConnections
  /\ up' = TRUE /\ gen' = gen + 1
  /\ UNCHANGED <<cb, chan, state, lock, ev, mon, hung>>

-----------------------------------------------------------------------------
(* The main loop. *)

TakeEvent ==
  /\ ev.pc = "recv" /\ chan # <<>>
  /\ ev' = [pc |-> "lock", event |-> Head(chan)]
  /\ chan' = Tail(chan)
  /\ Ask("events")
  /\ UNCHANGED <<socket, state, mon, hung>>

Handling(types) ==
  ev.pc = "lock" /\ owner = "events" /\ ev.event.type \in types

\* A paused agent reports its list and can be resumed, nothing else.
Refuse ==
  /\ Handling({"AddSensor", "EditSensor", "RemoveSensor", "CleanUp", "Write"})
  /\ paused
  /\ Return
  /\ UNCHANGED <<socket, chan, state, mon, hung>>

ChangeList ==
  LET e == ev.event IN
  /\ ~paused
  /\ \/ /\ Handling({"AddSensor"})
        /\ reg' = reg \cup {[id |-> e.id, gen |-> e.gen]}
     \/ /\ Handling({"EditSensor"})
        /\ reg' = {r \in reg : r.id # e.id} \cup {[id |-> e.id, gen |-> e.gen]}
     \/ /\ Handling({"RemoveSensor"})
        /\ reg' = {r \in reg : r.id # e.id}
     \/ Handling({"CleanUp"}) /\ reg' = {}
  /\ Return
  /\ UNCHANGED <<socket, chan, paused, mon, hung>>

Report ==
  /\ Handling({"HealthCheck"})
  /\ Return
  /\ UNCHANGED <<socket, chan, state, mon, hung>>

TogglePause ==
  /\ Handling({"PauseAgent"})
  /\ paused' = ~paused
  /\ Return
  /\ UNCHANGED <<socket, chan, reg, mon, hung>>

\* A write waits for the PLC with the mutex held; it may fail.
BeginWrite ==
  /\ Handling({"Write"}) /\ ~paused
  /\ ev' = [ev EXCEPT !.pc = "plc"]
  /\ UNCHANGED <<socket, chan, state, lock, mon, hung>>

EndWrite ==
  /\ ev.pc = "plc" /\ ~hung
  /\ Return
  /\ UNCHANGED <<socket, chan, state, mon, hung>>

-----------------------------------------------------------------------------
(* The monitoring task. *)

Tick ==
  /\ mon.pc = "tick"
  /\ MonitorAt("snap") /\ Ask("monitor")
  /\ UNCHANGED <<socket, chan, state, ev, hung>>

\* A round works on a copy of the list.  Bug: also while paused.
RoundAlways == reg
Round == IF paused THEN {} ELSE reg

Snapshot ==
  /\ mon.pc = "snap" /\ owner = "monitor"
  /\ mon' = [pc |-> "next", todo |-> Round]
  /\ Release
  /\ UNCHANGED <<socket, chan, state, ev, hung>>

NextSensor ==
  /\ mon.pc = "next"
  /\ \/ /\ mon.todo = {}
        /\ MonitorAt("tick") /\ UNCHANGED lock
     \/ /\ \E r \in mon.todo : mon' = [pc |-> "read", todo |-> mon.todo \ {r}]
        /\ Ask("monitor")
  /\ UNCHANGED <<socket, chan, state, ev, hung>>

BeginRead ==
  /\ mon.pc = "read" /\ owner = "monitor"
  /\ MonitorAt("plc")
  /\ UNCHANGED <<socket, chan, state, lock, ev, hung>>

\* The value, or an error, is there.  A sample that cannot be sent, being the
\* engine's error and no other, is a reason to forget the whole list ...
EndRead ==
  /\ mon.pc = "plc" /\ ~hung
  /\ \/ MonitorAt("next")
     \/ ~up /\ MonitorAt("failed")
  /\ Release
  /\ UNCHANGED <<socket, chan, state, ev, hung>>

\* ... for which the mutex, just released, is taken again.
AskToClear ==
  /\ mon.pc = "failed"
  /\ MonitorAt("clear") /\ Ask("monitor")
  /\ UNCHANGED <<socket, chan, state, ev, hung>>

Clear ==
  /\ mon.pc = "clear" /\ owner = "monitor"
  /\ reg' = {}
  /\ MonitorAt("next") /\ Release
  /\ UNCHANGED <<socket, chan, paused, ev, hung>>

-----------------------------------------------------------------------------
\* The PLC's connection has no timeout and is never made again.
Hang ==
  /\ ~hung /\ hung' = TRUE
  /\ UNCHANGED <<socket, chan, state, lock, ev, mon>>

EventLoop ==
  TakeEvent \/ Refuse \/ ChangeList \/ Report \/ TogglePause \/ BeginWrite
  \/ EndWrite

Monitor ==
  Tick \/ Snapshot \/ NextSensor \/ BeginRead \/ EndRead \/ AskToClear \/ Clear

Next ==
  \/ EventLoop \/ Monitor \/ Deliver
  \/ LoseLink \/ Reconnect \/ Hang \/ \E e \in Event : Arrive(e)

\* Tasks that can run are run, and a task that has the mutex runs.
Fairness == WF_vars(EventLoop) /\ WF_vars(Monitor) /\ WF_vars(Deliver)

Spec == Init /\ [][Next]_vars
FairSpec == Spec /\ Fairness
-----------------------------------------------------------------------------
TypeOK ==
  /\ up \in BOOLEAN /\ gen \in Gens /\ cb \in Event \cup {None}
  /\ chan \in Seq(Event) /\ Len(chan) <= ChannelSize
  /\ reg \subseteq Entry /\ paused \in BOOLEAN
  /\ owner \in Tasks \cup {None} /\ queue \in Seq(Tasks)
  /\ ev \in [pc : {"recv", "lock", "plc"}, event : Event \cup {None}]
  /\ ev.pc # "recv" => ev.event \in Event
  /\ mon \in [pc : {"tick", "snap", "next", "read", "plc", "failed", "clear"},
              todo : SUBSET Entry]
  /\ hung \in BOOLEAN

\* What the server registers after a reconnection is not dropped by the
\* failure of an earlier connection, although the mutex is free between the
\* failed emission and the clearing (process_all_sensors).
NewListSurvives ==
  [][\A r \in reg \ reg' : up /\ r.gen = gen => UNCHANGED mon]_vars

\* Why it holds: the mutex has one holder, the other task may wait for it and
\* gets it next; no entry is newer than the connection; and while the clearing
\* is due, what has been registered, or is being so, is old.
Waits(t) == queue = <<t>>

LockShape ==
  queue = <<>> \/ \E t \in Tasks : Waits(t) /\ owner \in Tasks \ {t}

LockInv ==
  /\ LockShape
  /\ ev.pc = "recv" <=> owner # "events" /\ ~Waits("events")
  /\ ev.pc = "plc" => owner = "events"
  /\ mon.pc \in {"tick", "next", "failed"}
       <=> owner # "monitor" /\ ~Waits("monitor")
  /\ mon.pc = "plc" => owner = "monitor"

Registers(e) == e # None /\ e.type \in {"AddSensor", "EditSensor"}

GenInv ==
  /\ \A r \in reg : r.gen <= gen
  /\ \A e \in {cb, ev.event} : Registers(e) => e.gen <= gen
  /\ \A n \in DOMAIN chan : Registers(chan[n]) => chan[n].gen <= gen

ClearInv ==
  /\ mon.pc = "failed" => ~up
  /\ (mon.pc = "clear" /\ up) =>
       /\ \A r \in reg : r.gen # gen
       /\ (owner = "events" /\ Registers(ev.event)) => ev.event.gen # gen

AgentInv == TypeOK /\ LockInv /\ GenInv /\ ClearInv

\* While the PLC answers, neither task waits for ever for the mutex or for
\* the other: every event that was taken is handled, every round ends.
LoopsGoOn ==
  /\ ev.pc # "recv" ~> ev.pc = "recv" \/ hung
  /\ mon.pc # "tick" ~> mon.pc = "tick" \/ hung

\* A paused agent stops to read the PLC, after the round it is in.
PausedFallsSilent == <>[](paused /\ ~hung) => <>[](mon.pc # "plc")
=============================================================================
