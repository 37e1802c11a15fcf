-------------------------- MODULE EdgeAgentProofs --------------------------
(***************************************************************************)
(* AgentInv is inductive, for any number of sensors and connections and    *)
(* any size of the channel; what a connection registers is not lost to the *)
(* failure of an earlier one.                                              *)
(***************************************************************************)
EXTENDS EdgeAgent, TLAPS

LEMMA AskLock ==
  ASSUME LockShape, owner \in Tasks \cup {None}, NEW t \in Tasks,
         owner # t, ~Waits(t), Ask(t), AgentAssumption
  PROVE  /\ LockShape' /\ owner' \in Tasks \cup {None} /\ queue' \in Seq(Tasks)
         /\ owner' = t \/ Waits(t)'
         /\ \A u \in Tasks \ {t} : /\ owner' = u <=> owner = u
                                   /\ Waits(u)' <=> Waits(u)
<1>1. queue = <<>>
  BY DEF LockShape, Waits, Tasks
<1>2. Append(queue, t) = <<t>>
  BY <1>1
<1>3. CASE owner = None
  BY <1>1, <1>3 DEF Ask, LockShape, Waits, Tasks, AgentAssumption
<1>4. CASE owner # None
  <2>1. queue' = <<t>> /\ owner' = owner /\ owner \in Tasks \ {t}
    BY <1>1, <1>2, <1>4 DEF Ask, Tasks
  <2>2. \A u \in Tasks \ {t} : <<u>> # <<t>> /\ queue # <<u>>
    <3>1. \A u \in Tasks \ {t} : <<u>>[1] # <<t>>[1]
      OBVIOUS
    <3> QED BY <1>1, <3>1
  <2>3. queue' \in Seq(Tasks)
    BY <2>1
  <2> QED BY <2>1, <2>2, <2>3 DEF LockShape, Waits
<1> QED BY <1>3, <1>4

LEMMA ReleaseLock ==
  ASSUME LockShape, NEW t \in Tasks, owner = t, Release, AgentAssumption
  PROVE  /\ LockShape' /\ owner' \in Tasks \cup {None} /\ queue' \in Seq(Tasks)
         /\ owner' # t /\ ~Waits(t)'
         /\ \A u \in Tasks \ {t} : /\ owner' = u <=> Waits(u)
                                   /\ ~Waits(u)'
<1>1. CASE queue = <<>>
  BY <1>1 DEF Release, Heirs, LockShape, Waits, Tasks, AgentAssumption
<1>2. CASE queue # <<>>
  <2>1. PICK u \in Tasks : queue = <<u>> /\ u # t
    BY <1>2 DEF LockShape, Waits
  <2>2. Head(queue) = u /\ Tail(queue) = <<>>
    BY <2>1
  <2>3. owner' = u /\ queue' = <<>>
    BY <1>2, <2>1, <2>2 DEF Release, Heirs, AgentAssumption, Tasks
  <2> QED BY <2>1, <2>3 DEF LockShape, Waits, Tasks
<1> QED BY <1>1, <1>2

-----------------------------------------------------------------------------
\* What handling an event gives back: the mutex, to the monitor if it waits.
LEMMA EventReleases ==
  ASSUME TypeOK, LockInv, owner = "events", Release, ev'.pc = "recv",
         UNCHANGED mon, AgentAssumption
  PROVE  LockInv' /\ owner' \in Tasks \cup {None} /\ queue' \in Seq(Tasks)
         /\ owner' # "events"
<1>1. /\ LockShape' /\ owner' \in Tasks \cup {None} /\ queue' \in Seq(Tasks)
      /\ owner' # "events" /\ ~Waits("events")'
      /\ owner' = "monitor" <=> Waits("monitor")
      /\ ~Waits("monitor")'
  BY ReleaseLock DEF LockInv, Tasks
<1>2. (owner' = "monitor" \/ Waits("monitor")')
        <=> (owner = "monitor" \/ Waits("monitor"))
  BY <1>1
<1>3. mon.pc # "plc"
  BY DEF LockInv
<1> QED BY <1>1, <1>2, <1>3 DEF LockInv

\* The same of the monitoring task.
LEMMA MonitorReleases ==
  ASSUME TypeOK, LockInv, owner = "monitor", Release,
         mon'.pc \in {"tick", "next", "failed"}, UNCHANGED ev, AgentAssumption
  PROVE  LockInv' /\ owner' \in Tasks \cup {None} /\ queue' \in Seq(Tasks)
<1>1. /\ LockShape' /\ owner' \in Tasks \cup {None} /\ queue' \in Seq(Tasks)
      /\ owner' # "monitor" /\ ~Waits("monitor")'
      /\ owner' = "events" <=> Waits("events")
      /\ ~Waits("events")'
  BY ReleaseLock DEF LockInv, Tasks
<1>2. ev.pc # "plc"
  BY DEF LockInv
<1> QED BY <1>1, <1>2 DEF LockInv

LEMMA EventAsks ==
  ASSUME TypeOK, LockInv, ev.pc = "recv", ev'.pc = "lock", Ask("events"),
         UNCHANGED mon, AgentAssumption
  PROVE  LockInv' /\ owner' \in Tasks \cup {None} /\ queue' \in Seq(Tasks)
         /\ (owner' = "monitor" <=> owner = "monitor")
<1>1. owner # "events" /\ ~Waits("events")
  BY DEF LockInv
<1>2. /\ LockShape' /\ owner' \in Tasks \cup {None} /\ queue' \in Seq(Tasks)
      /\ owner' = "events" \/ Waits("events")'
      /\ owner' = "monitor" <=> owner = "monitor"
      /\ Waits("monitor")' <=> Waits("monitor")
  BY <1>1, AskLock DEF LockInv, TypeOK, Tasks
<1> QED BY <1>2 DEF LockInv

LEMMA MonitorAsks ==
  ASSUME TypeOK, LockInv, mon.pc \in {"tick", "next", "failed"},
         mon'.pc \in {"snap", "read", "clear"}, Ask("monitor"),
         UNCHANGED ev, AgentAssumption
  PROVE  LockInv' /\ owner' \in Tasks \cup {None} /\ queue' \in Seq(Tasks)
<1>1. owner # "monitor" /\ ~Waits("monitor")
  BY DEF LockInv
<1>2. /\ LockShape' /\ owner' \in Tasks \cup {None} /\ queue' \in Seq(Tasks)
      /\ owner' = "monitor" \/ Waits("monitor")'
      /\ owner' = "events" <=> owner = "events"
      /\ Waits("events")' <=> Waits("events")
  BY <1>1, AskLock DEF LockInv, TypeOK, Tasks
<1> QED BY <1>2 DEF LockInv

-----------------------------------------------------------------------------
LEMMA InitHolds == ASSUME AgentAssumption, Init PROVE AgentInv
<1>1. TypeOK
  <2>1. gen \in Gens /\ chan \in Seq(Event) /\ Len(chan) <= ChannelSize
        /\ queue \in Seq(Tasks)
    BY DEF AgentAssumption, Init, Gens
  <2>2. ev \in [pc : {"recv", "lock", "plc"}, event : Event \cup {None}]
    BY DEF Init, Receiving
  <2> QED BY <2>1, <2>2 DEF Init, TypeOK, Receiving
<1>2. LockInv
  BY DEF AgentAssumption, Init, LockInv, LockShape, Waits, Receiving, Tasks
<1>3. GenInv
  BY DEF Init, GenInv, Registers, Receiving
<1>4. ClearInv
  BY DEF Init, ClearInv
<1> QED BY <1>1, <1>2, <1>3, <1>4 DEF AgentInv

\* An event that is handled leaves the main loop ready for the next.
LEMMA Returned ==
  ASSUME AgentAssumption, AgentInv, ev.pc # "recv", owner = "events", Return,
         reg' \subseteq reg \cup {r \in Entry : /\ Registers(ev.event)
                                                /\ r.gen = ev.event.gen},
         paused' \in BOOLEAN, UNCHANGED <<socket, chan, mon, hung>>
  PROVE  AgentInv'
<1>1. LockInv' /\ owner' \in Tasks \cup {None} /\ queue' \in Seq(Tasks)
      /\ owner' # "events"
  BY EventReleases DEF AgentInv, Return, Receiving
<1>2. ev' \in [pc : {"recv", "lock", "plc"}, event : Event \cup {None}]
      /\ ev'.pc = "recv" /\ ev'.event = None
  BY DEF Return, Receiving
<1>3. TypeOK'
  BY <1>1, <1>2 DEF AgentInv, TypeOK, socket
<1>4. GenInv'
  <2>1. \A r \in reg' : r.gen <= gen
    BY DEF AgentInv, GenInv
  <2> QED BY <1>2, <2>1 DEF AgentInv, GenInv, Registers, socket
<1>5. ClearInv'
  BY <1>1 DEF AgentInv, ClearInv, socket
<1> QED BY <1>1, <1>3, <1>4, <1>5 DEF AgentInv

LEMMA StepHolds ==
  ASSUME AgentAssumption, AgentInv, [Next]_vars
  PROVE  AgentInv'
<1> USE DEF AgentInv
<1>1. ASSUME NEW e \in Event, Arrive(e) PROVE AgentInv'
  <2>1. TypeOK' /\ LockInv' /\ ClearInv'
    BY <1>1 DEF Arrive, TypeOK, LockInv, LockShape, Waits, ClearInv,
                state, lock
  <2>2. GenInv'
    BY <1>1 DEF Arrive, GenInv, Registers, TypeOK, Gens, state
  <2> QED BY <2>1, <2>2
<1>2. CASE Deliver
  <2>1. cb \in Event /\ chan' = Append(chan, cb) /\ cb' = None
        /\ Len(chan) < ChannelSize
    BY <1>2 DEF Deliver, ChannelHasRoom, TypeOK
  <2>2. chan' \in Seq(Event) /\ Len(chan') = Len(chan) + 1
    BY <2>1 DEF TypeOK
  <2>3. Len(chan') <= ChannelSize
    BY <2>1, <2>2 DEF AgentAssumption, TypeOK
  <2>4. TypeOK' /\ LockInv' /\ ClearInv'
    BY <1>2, <2>1, <2>2, <2>3 DEF Deliver, TypeOK, LockInv, LockShape, Waits,
                                  ClearInv, state, lock
  <2>5. ASSUME NEW n \in DOMAIN chan', chan'[n] # cb
        PROVE  n \in DOMAIN chan /\ chan'[n] = chan[n]
    <3>1. chan \in Seq(Event) /\ cb \in Event
      BY <2>1 DEF TypeOK
    <3>2. n \in 1..(Len(chan) + 1)
      BY <2>1, <2>5, <3>1
    <3>3. n # Len(chan) + 1
      BY <2>1, <2>5, <3>1
    <3>4. n \in 1..Len(chan)
      BY <3>1, <3>2, <3>3
    <3> QED BY <2>1, <3>1, <3>4
  <2>6. GenInv'
    BY <1>2, <2>1, <2>5 DEF Deliver, GenInv, Registers, state
  <2> QED BY <2>4, <2>6
<1>3. CASE LoseLink
  BY ZenonT(60), <1>3 DEF LoseLink, TypeOK, LockInv, LockShape, Waits, GenInv, ClearInv,
              state, lock
<1>4. CASE Reconnect
  <2>1. gen' \in Gens /\ gen \in Nat /\ gen' = gen + 1
    BY <1>4 DEF Reconnect, TypeOK, Gens, AgentAssumption
  <2>2. TypeOK' /\ LockInv'
    BY <1>4, <2>1 DEF Reconnect, TypeOK, LockInv, LockShape, Waits, state, lock
  <2>3. /\ \A r \in reg : r.gen \in Nat /\ r.gen < gen'
        /\ \A e \in {cb, ev.event} : Registers(e) => e.gen \in Nat /\ e.gen < gen'
        /\ \A n \in DOMAIN chan : Registers(chan[n])
                                    => chan[n].gen \in Nat /\ chan[n].gen < gen'
    <3>1. \A e \in Event : Registers(e) => e.gen \in Nat
      BY DEF Registers, Event, Gens
    <3>2. \A r \in reg : r.gen \in Nat
      BY DEF TypeOK, Entry, Gens
    <3>3. \A n \in DOMAIN chan : chan[n] \in Event
      BY DEF TypeOK
    <3>4. \A e \in {cb, ev.event} : Registers(e) => e \in Event
      BY DEF TypeOK, Registers
    <3> QED BY <2>1, <3>1, <3>2, <3>3, <3>4 DEF GenInv
  <2>4. GenInv' /\ ClearInv'
    BY <1>4, <2>1, <2>3 DEF Reconnect, GenInv, ClearInv, Registers, state, lock
  <2> QED BY <2>2, <2>4
<1>5. CASE TakeEvent
  <2>1. Head(chan) \in Event /\ Tail(chan) \in Seq(Event)
        /\ Len(Tail(chan)) <= ChannelSize
    BY <1>5 DEF TakeEvent, TypeOK, AgentAssumption
  <2>2. LockInv' /\ owner' \in Tasks \cup {None} /\ queue' \in Seq(Tasks)
        /\ (owner' = "monitor" <=> owner = "monitor")
    BY <1>5, EventAsks DEF TakeEvent
  <2>3. TypeOK'
    BY <1>5, <2>1, <2>2 DEF TakeEvent, TypeOK, socket, state
  <2>4. /\ Head(chan) = chan[1] /\ 1 \in DOMAIN chan
        /\ \A n \in DOMAIN chan' : n + 1 \in DOMAIN chan
                                   /\ chan'[n] = chan[n + 1]
    BY <1>5 DEF TakeEvent, TypeOK
  <2>5. GenInv'
    BY <1>5, <2>4 DEF TakeEvent, GenInv, Registers, socket, state
  <2>6. mon.pc = "clear" => owner' = "monitor"
    BY <1>5, <2>2 DEF TakeEvent, LockInv, LockShape, Waits, Tasks
  <2>7. ClearInv'
    BY <1>5, <2>6 DEF TakeEvent, ClearInv, socket, state
  <2> QED BY <2>2, <2>3, <2>5, <2>7
<1>6. CASE Refuse \/ Report \/ TogglePause \/ EndWrite
  <2>1. ev.pc # "recv" /\ owner = "events" /\ Return
    BY <1>6 DEF Refuse, Report, TogglePause, EndWrite, Handling, LockInv
  <2>2. reg' = reg /\ paused' \in BOOLEAN
        /\ UNCHANGED <<socket, chan, mon, hung>>
    BY <1>6 DEF Refuse, Report, TogglePause, EndWrite, state, TypeOK
  <2> QED BY <2>1, <2>2, Returned
<1>7. CASE ChangeList
  <2>1. ev.pc # "recv" /\ owner = "events" /\ Return
    BY <1>7 DEF ChangeList, Handling
  <2>2. ev.event \in Event
    BY <2>1 DEF TypeOK
  <2>3. ev.event.type \in {"AddSensor", "EditSensor"} =>
          /\ Registers(ev.event)
          /\ [id |-> ev.event.id, gen |-> ev.event.gen] \in Entry
    BY <2>2 DEF Event, Entry, Registers
  <2>4. reg' \subseteq reg \cup {r \in Entry : /\ Registers(ev.event)
                                               /\ r.gen = ev.event.gen}
    BY <1>7, <2>3 DEF ChangeList, Handling
  <2> QED BY <1>7, <2>1, <2>4, Returned DEF ChangeList, TypeOK
<1>8. CASE BeginWrite
  BY <1>8 DEF BeginWrite, Handling, TypeOK, LockInv, LockShape, Waits, GenInv,
              ClearInv, Registers, socket, state, lock
<1>9. CASE Tick \/ AskToClear
  <2>1. /\ mon.pc \in {"tick", "next", "failed"} /\ Ask("monitor")
        /\ mon'.pc \in {"snap", "read", "clear"} /\ UNCHANGED ev
    BY <1>9 DEF Tick, AskToClear, MonitorAt, TypeOK
  <2>2. LockInv' /\ owner' \in Tasks \cup {None} /\ queue' \in Seq(Tasks)
    BY <2>1, MonitorAsks
  <2>3. TypeOK' /\ GenInv'
    BY <1>9, <2>2 DEF Tick, AskToClear, MonitorAt, TypeOK, GenInv, Registers,
                      socket, state
  <2>4. ClearInv'
    BY <1>9 DEF Tick, AskToClear, MonitorAt, TypeOK, ClearInv, socket
  <2> QED BY <2>2, <2>3, <2>4
<1>10. CASE Snapshot \/ EndRead \/ Clear
  <2>1. /\ owner = "monitor" /\ Release /\ UNCHANGED ev
        /\ mon'.pc \in {"tick", "next", "failed"}
    BY <1>10 DEF Snapshot, EndRead, Clear, MonitorAt, LockInv, TypeOK
  <2>2. LockInv' /\ owner' \in Tasks \cup {None} /\ queue' \in Seq(Tasks)
    BY <2>1, MonitorReleases
  <2>3. mon' \in [pc : {"tick", "snap", "next", "read", "plc", "failed",
                        "clear"}, todo : SUBSET Entry]
    BY <1>10 DEF Snapshot, EndRead, Clear, MonitorAt, TypeOK, Round
  <2>4. /\ reg' \subseteq reg
        /\ UNCHANGED <<up, gen, cb, chan, paused, ev, hung>>
    BY <1>10 DEF Snapshot, EndRead, Clear, socket, state
  <2>5. TypeOK' /\ GenInv'
    BY <2>2, <2>3, <2>4 DEF TypeOK, GenInv, Registers
  <2>6. mon'.pc # "clear" /\ (mon'.pc = "failed" => ~up)
    BY <1>10 DEF Snapshot, EndRead, Clear, MonitorAt, TypeOK
  <2>7. ClearInv'
    BY <2>4, <2>6 DEF ClearInv
  <2> QED BY <2>2, <2>5, <2>7
<1>11. CASE NextSensor
  <2>1. CASE mon.todo = {} /\ MonitorAt("tick") /\ UNCHANGED lock
    BY <1>11, <2>1 DEF NextSensor, MonitorAt, TypeOK, LockInv, LockShape,
                       Waits, GenInv, ClearInv, Registers, socket, state, lock
  <2>2. ASSUME NEW r \in mon.todo,
               mon' = [pc |-> "read", todo |-> mon.todo \ {r}], Ask("monitor")
        PROVE  AgentInv'
    <3>1. mon.pc = "next" /\ mon'.pc = "read" /\ UNCHANGED ev
      BY <1>11, <2>2 DEF NextSensor
    <3>2. LockInv' /\ owner' \in Tasks \cup {None} /\ queue' \in Seq(Tasks)
      BY <2>2, <3>1, MonitorAsks
    <3>3. mon' \in [pc : {"tick", "snap", "next", "read", "plc", "failed",
                          "clear"}, todo : SUBSET Entry]
      BY <2>2 DEF TypeOK
    <3>4. TypeOK' /\ GenInv' /\ ClearInv'
      BY <1>11, <3>1, <3>2, <3>3 DEF NextSensor, TypeOK, GenInv, ClearInv,
                                     Registers, socket, state
    <3> QED BY <3>2, <3>4
  <2> QED BY <1>11, <2>1, <2>2 DEF NextSensor
<1>12. CASE BeginRead
  BY <1>12 DEF BeginRead, MonitorAt, TypeOK, LockInv, LockShape, Waits, GenInv,
               ClearInv, Registers, socket, state, lock
<1>13. CASE Hang
  BY <1>13 DEF Hang, TypeOK, LockInv, LockShape, Waits, GenInv, ClearInv,
               Registers, socket, state, lock
<1>14. CASE UNCHANGED vars
  BY <1>14 DEF vars, TypeOK, LockInv, LockShape, Waits, GenInv, ClearInv,
               Registers, socket, state, lock
<1> QED
  BY <1>1, <1>2, <1>3, <1>4, <1>5, <1>6, <1>7, <1>8, <1>9, <1>10, <1>11,
     <1>12, <1>13, <1>14 DEF Next, EventLoop, Monitor

-----------------------------------------------------------------------------
\* Nobody is in the critical section uninvited, nothing registered is newer
\* than the connection, and what is to be cleared is old (main.rs, agent.rs
\* and monitoring.rs under tokio's mutex).
THEOREM AgentInvariant == ASSUME AgentAssumption PROVE Spec => []AgentInv
<1>1. Init => AgentInv
  BY InitHolds
<1>2. AgentInv /\ [Next]_vars => AgentInv'
  BY StepHolds
<1> QED BY <1>1, <1>2, PTL DEF Spec

\* The list that the server builds after a reconnection survives the failure
\* of earlier connections (the two locks in process_all_sensors).
THEOREM ListSurvives == ASSUME AgentAssumption PROVE Spec => NewListSurvives
<1> DEFINE Kept == \A r \in reg \ reg' : up /\ r.gen = gen => UNCHANGED mon
<1>1. ASSUME AgentInv, Next PROVE Kept
  <2>1. CASE Clear
    BY <1>1, <2>1 DEF Clear, AgentInv, ClearInv
  <2>2. CASE ChangeList
    BY <2>2 DEF ChangeList
  <2>3. CASE ~Clear /\ ~ChangeList
    <3>1. reg' = reg
      BY <1>1, <2>3 DEF Next, EventLoop, Monitor, TakeEvent, Refuse, Report,
           TogglePause, BeginWrite, EndWrite, Tick, Snapshot, NextSensor,
           BeginRead, EndRead, AskToClear, Deliver, LoseLink, Reconnect, Hang,
           Arrive, state
    <3> QED BY <3>1
  <2> QED BY <2>1, <2>2, <2>3
<1>2. AgentInv /\ [Next]_vars => [Kept]_vars
  BY <1>1
<1> QED BY <1>2, AgentInvariant, PTL DEF Spec, NewListSurvives
=============================================================================
