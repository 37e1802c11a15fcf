------------------------ MODULE ProcessEngineProofs ------------------------
(***************************************************************************)
(* Theorems about the process engine under every interleaving of requests, *)
(* losses of agents and restarts of the server.                            *)
(***************************************************************************)
EXTENDS ProcessEngine, TLAPS

-----------------------------------------------------------------------------
(* The records that handlers build. *)

LEMMA IdleTyped == Idle \in Request
BY DEF Idle, Request, PC

LEMMA UpdateTyped ==
  ASSUME NEW h \in Requests \cup {None}, NEW p \in Processes,
         NEW s \in ProcessState
  PROVE  UpdateState(h, p, s) \subseteq Write
BY DEF UpdateState, Write

LEMMA ChangeTyped ==
  ASSUME NEW h \in Requests \cup {None}, NEW a \in Agents \cup {None},
         NEW s \in AgentState
  PROVE  ChangeAgentState(h, a, s) \subseteq Write
BY DEF ChangeAgentState, Write

LEMMA GotoTyped ==
  ASSUME req \in [Requests -> Request], NEW h \in Requests,
         NEW r \in Request, Goto(h, r)
  PROVE  req' \in [Requests -> Request]
BY DEF Goto

LEMMA ReturnTyped ==
  ASSUME req \in [Requests -> Request], NEW h \in Requests, Return(h)
  PROVE  req' \in [Requests -> Request]
BY GotoTyped, IdleTyped DEF Return

-----------------------------------------------------------------------------
(* Type correctness. *)

LEMMA InitTypeOK == Init => TypeOK
<1> SUFFICES ASSUME Init PROVE TypeOK
  OBVIOUS
<1>1. row \in [Processes -> Row]
  BY DEF Init, Row, ProcessState
<1>2. 0 \in 0..MaxRestarts
  BY ConstantsAssumption
<1> QED BY <1>1, <1>2, IdleTyped DEF Init, TypeOK, AgentState

LEMMA ArriveTypeOK ==
  ASSUME TypeOK, NEW h \in Requests, Arrive(h)
  PROVE  TypeOK'
<1> USE DEF TypeOK
<1>1. ASSUME NEW p \in Processes, NEW cmd \in {"start", "pause"},
             Command(h, p, cmd)
      PROVE TypeOK'
  <2>1. [Idle EXCEPT !.pc = cmd, !.proc = p, !.seen = row[p]] \in Request
    BY DEF Idle, Request, PC
  <2> QED BY <1>1, <2>1, GotoTyped DEF Command
<1>2. ASSUME NEW p \in Processes, NEW f \in Flows,
             CheckEdit(h, p, "updateFlow", None, f)
      PROVE TypeOK'
  <2>1. [Idle EXCEPT !.pc = "updateFlow", !.proc = p, !.agent = None,
                     !.flow = f] \in Request
    BY DEF Idle, Request, PC
  <2> QED BY <1>2, <2>1, GotoTyped DEF CheckEdit
<1>3. ASSUME NEW p \in Processes, NEW a \in Agents,
             CheckEdit(h, p, "update", a, None)
      PROVE TypeOK'
  <2>1. [Idle EXCEPT !.pc = "update", !.proc = p, !.agent = a,
                     !.flow = None] \in Request
    BY DEF Idle, Request, PC
  <2> QED BY <1>3, <2>1, GotoTyped DEF CheckEdit
<1>4. ASSUME NEW p \in Processes, CheckEdit(h, p, "remove", None, None)
      PROVE TypeOK'
  <2>1. [Idle EXCEPT !.pc = "remove", !.proc = p, !.agent = None,
                     !.flow = None] \in Request
    BY DEF Idle, Request, PC
  <2> QED BY <1>4, <2>1, GotoTyped DEF CheckEdit
<1>5. ASSUME NEW a \in Agents, NEW k \in Sockets, Connect(h, a, k)
      PROVE TypeOK'
  <2>1. [Idle EXCEPT !.pc = "connect", !.agent = a] \in Request
    BY DEF Idle, Request, PC
  <2> QED BY <1>5, <2>1, GotoTyped DEF Connect
<1>6. ASSUME NEW k \in Sockets, Disconnect(h, k) PROVE TypeOK'
  <2>1. store[k] \in Agents
    BY <1>6 DEF Disconnect
  <2>2. [Idle EXCEPT !.pc = "disconnect", !.agent = store[k], !.sock = k,
         !.todo = {p \in Processes : row[p].live /\ row[p].agent = store[k]}]
          \in Request
    BY <2>1 DEF Idle, Request, PC
  <2> QED BY <1>6, <2>2, GotoTyped DEF Disconnect
<1> QED BY <1>1, <1>2, <1>3, <1>4, <1>5, <1>6 DEF Arrive

LEMMA StepTypeOK ==
  ASSUME TypeOK, NEW h \in Requests, Step(h)
  PROVE  TypeOK'
<1> USE DEF TypeOK
<1>0. req[h] \in Request
  OBVIOUS
<1>1. CASE Refused(h)
  BY <1>1, ReturnTyped DEF Refused
<1>2. CASE Pause(h)
  <2>1. req[h].proc \in Processes
    BY <1>2, <1>0 DEF Pause, Request
  <2>2. /\ UpdateState(h, req[h].proc, "stopped") \subseteq Write
        /\ ChangeAgentState(h, streamAgent, "ready") \subseteq Write
    BY <2>1, UpdateTyped, ChangeTyped DEF ProcessState, AgentState
  <2>3. writes' \subseteq Write /\ req' \in [Requests -> Request]
    BY <1>2, <2>2, ReturnTyped DEF Pause
  <2>4. /\ streams' \in [Processes -> Subs \cup {None}]
        /\ subs' \in [Subs -> Sub \cup {Free}]
    BY <1>2 DEF Pause, Killed, Dropped
  <2> QED BY <1>2, <2>3, <2>4 DEF Pause
<1>3. CASE Start(h)
  <2>1. req[h].proc \in Processes /\ req[h].seen \in Row
    BY <1>3, <1>0 DEF Start, Request
  <2>2. [Idle EXCEPT !.pc = "load", !.proc = req[h].proc,
                     !.agent = req[h].seen.agent] \in Request
    BY <2>1 DEF Idle, Request, PC, Row
  <2>3. UpdateState(h, req[h].proc, "running") \subseteq Write
    BY <2>1, UpdateTyped DEF ProcessState
  <2> QED BY <1>3, <2>2, <2>3, GotoTyped DEF Start
<1>4. CASE Load(h)
  <2>1. req[h].proc \in Processes /\ req[h].agent \in Agents
    BY <1>4, <1>0 DEF Load, Request
  <2>2. [req[h] EXCEPT !.pc = "loaded", !.seen = row[req[h].proc]] \in Request
    BY <1>0, <2>1 DEF Request, PC
  <2>3. req' \in [Requests -> Request]
    BY <1>4, <2>2 DEF Load
  <2> QED BY <1>4, <2>3 DEF Load
<1>5. CASE CreateStream(h)
  <2>1. req[h].proc \in Processes /\ req[h].agent \in Agents
        /\ req[h].seen \in Row
    BY <1>5, <1>0 DEF CreateStream, Request
  <2> DEFINE a == IF req[h].seen.live THEN req[h].seen.agent ELSE None
  <2>2. a \in Agents \cup {None}
    BY <2>1 DEF Row
  <2>3. ChangeAgentState(h, a, "busy") \subseteq Write
    BY <2>2, ChangeTyped DEF AgentState
  <2>4. writes' \subseteq Write /\ streamAgent' \in Agents \cup {None}
        /\ req' \in [Requests -> Request]
    BY <1>5, <2>2, <2>3, ReturnTyped DEF CreateStream
  <2>5. /\ streams' \in [Processes -> Subs \cup {None}]
        /\ subs' \in [Subs -> Sub \cup {Free}]
    BY <1>5, <2>1 DEF CreateStream, Startable, Row, Sub
  <2> QED BY <1>5, <2>4, <2>5 DEF CreateStream
<1>6. CASE UpdateFlow(h)
  <2>1. req[h].flow \in Flows
    BY <1>6, <1>0 DEF UpdateFlow, Request
  <2>2. row' \in [Processes -> Row]
    BY ZenonT(60), <1>6, <2>1 DEF UpdateFlow, Row
  <2> QED BY <1>6, <2>2, ReturnTyped DEF UpdateFlow
<1>7. CASE Update(h)
  <2>1. req[h].agent \in Agents
    BY <1>7, <1>0 DEF Update, Request
  <2>2. row' \in [Processes -> Row]
    BY ZenonT(60), <1>7, <2>1 DEF Update, Row
  <2> QED BY <1>7, <2>2, ReturnTyped DEF Update
<1>8. CASE Remove(h)
  <2>1. row' \in [Processes -> Row]
    BY ZenonT(60), <1>8 DEF Remove, Row
  <2> QED BY <1>8, <2>1, ReturnTyped DEF Remove
<1>9. CASE Connected(h)
  BY <1>9, ReturnTyped DEF Connected, AgentState
<1>10. CASE Disconnected(h)
  <2>1. [req[h] EXCEPT !.pc = "kill"] \in Request
    BY <1>0, <1>10 DEF Disconnected, Request, PC
  <2>2. req' \in [Requests -> Request]
    BY <1>10, <2>1 DEF Disconnected
  <2> QED BY <1>10, <2>2 DEF Disconnected, AgentState
<1>11. CASE Kill(h)
  <2>1. req[h].todo \subseteq Processes
    BY <1>0 DEF Request
  <2>2. ASSUME NEW p \in req[h].todo
        PROVE  /\ UpdateState(h, p, "stopped") \subseteq Write
               /\ [Idle EXCEPT !.pc = "kill", !.todo = Rest(h, p)]
                    \in Request
    <3>1. p \in Processes
      BY <2>1
    <3>2. UpdateState(h, p, "stopped") \subseteq Write
      BY <3>1, UpdateTyped DEF ProcessState
    <3>3. [Idle EXCEPT !.pc = "kill", !.todo = Rest(h, p)] \in Request
      BY <2>1 DEF Idle, Request, PC, Rest
    <3> QED BY <3>2, <3>3
  <2>3. writes' \subseteq Write /\ req' \in [Requests -> Request]
    BY <1>11, <2>2, GotoTyped, ReturnTyped DEF Kill
  <2>4. store' \in [Sockets -> Agents \cup {None}]
    BY <1>11 DEF Kill
  <2> QED BY <1>11, <2>3, <2>4 DEF Kill
<1> QED BY <1>1, <1>2, <1>3, <1>4, <1>5, <1>6, <1>7, <1>8, <1>9, <1>10, <1>11
        DEF Step

LEMMA NextTypeOK == TypeOK /\ [Next]_vars => TypeOK'
<1> SUFFICES ASSUME TypeOK, [Next]_vars PROVE TypeOK'
  OBVIOUS
<1>1. ASSUME NEW w \in writes, Execute(w) PROVE TypeOK'
  BY SMTT(30), <1>1 DEF Execute, TypeOK, Write, Row, ProcessState, AgentState
<1>2. CASE Restart
  <2>1. \A a \in Agents : ChangeAgentState(None, a, "offline") \subseteq Write
    BY ChangeTyped DEF AgentState
  <2>2. writes' \subseteq Write
    BY <1>2, <2>1 DEF Restart
  <2>3. restarts' \in 0..MaxRestarts
    BY <1>2, ConstantsAssumption DEF Restart, TypeOK
  <2> QED BY <1>2, <2>2, <2>3, IdleTyped DEF Restart, TypeOK
<1>3. CASE UNCHANGED vars
  BY <1>3 DEF vars, TypeOK
<1> QED BY <1>1, <1>2, <1>3, ArriveTypeOK, StepTypeOK DEF Next

\* The variables stay in their types: a continuation finds the process, agent
\* and row its handler had read, and every subscription has a flow to show its
\* samples on, although rows are edited and deleted in between.
THEOREM TypeCorrect == Spec => []TypeOK
BY InitTypeOK, NextTypeOK, PTL DEF Spec

-----------------------------------------------------------------------------
(* The map of streams. *)

\* Only Pause, CreateStream and Restart touch the map and the subscriptions.
LEMMA StreamSteps ==
  ASSUME [Next]_vars
  PROVE  \/ UNCHANGED <<streams, subs>>
         \/ \E h \in Requests : Pause(h) \/ CreateStream(h)
         \/ Restart
<1>1. ASSUME NEW h \in Requests, Arrive(h)
      PROVE  UNCHANGED <<streams, subs>>
  BY <1>1 DEF Arrive, Command, CheckEdit, Connect, Disconnect
<1>2. ASSUME NEW h \in Requests, Step(h)
      PROVE  UNCHANGED <<streams, subs>> \/ Pause(h) \/ CreateStream(h)
  BY <1>2 DEF Step, Refused, Start, Load, UpdateFlow, Update, Remove,
              Connected, Disconnected, Kill
<1>3. ASSUME NEW w \in writes, Execute(w)
      PROVE  UNCHANGED <<streams, subs>>
  BY <1>3 DEF Execute
<1> QED BY <1>1, <1>2, <1>3 DEF Next, vars

LEMMA EntryStep ==
  ASSUME TypeOK, EntryOwnsSub, [Next]_vars
  PROVE  EntryOwnsSub'
<1>1. CASE UNCHANGED <<streams, subs>>
  BY <1>1 DEF EntryOwnsSub, Alive
<1>2. ASSUME NEW h \in Requests, Pause(h) PROVE EntryOwnsSub'
  <2>1. req[h].proc \in Processes
    BY <1>2 DEF TypeOK, Pause, Request
  <2>2. CASE streams[req[h].proc] = None
    BY <1>2, <2>2, <1>1 DEF Pause
  <2>3. CASE streams[req[h].proc] # None
    <3> SUFFICES ASSUME NEW q \in Processes, streams'[q] # None
                 PROVE  Alive(streams[q])' /\ subs'[streams'[q]].proc = q
      BY DEF EntryOwnsSub, Alive
    <3>1. q # req[h].proc /\ streams'[q] = streams[q]
      BY <1>2, <2>1, <2>3 DEF Pause, Dropped, TypeOK
    <3>2. streams[q] # streams[req[h].proc]
      BY <2>1, <2>3, <3>1 DEF EntryOwnsSub
    <3>3. subs'[streams[q]] = subs[streams[q]]
      BY <1>2, <2>3, <3>1, <3>2 DEF Pause, Killed, TypeOK
    <3> QED BY <3>1, <3>3 DEF EntryOwnsSub, Alive
  <2> QED BY <2>2, <2>3
<1>3. ASSUME NEW h \in Requests, CreateStream(h) PROVE EntryOwnsSub'
  <2>1. req[h].proc \in Processes
    BY <1>3 DEF TypeOK, CreateStream, Request
  <2>2. CASE UNCHANGED <<streams, subs>>
    BY <2>2, <1>1
  <2>3. ASSUME NEW s \in Subs, ~Alive(s),
               subs' = [subs EXCEPT ![s] = [proc |-> req[h].proc,
                                            agent |-> req[h].agent,
                                            flow |-> req[h].seen.flow]],
               streams' = [streams EXCEPT ![req[h].proc] = s]
        PROVE  EntryOwnsSub'
    <3> SUFFICES ASSUME NEW q \in Processes, streams'[q] # None
                 PROVE  Alive(streams[q])' /\ subs'[streams'[q]].proc = q
      BY DEF EntryOwnsSub, Alive
    <3>1. CASE q = req[h].proc
      <4>1. streams'[q] = s
        BY <3>1, <2>3, <2>1 DEF TypeOK
      <4>2. subs'[s].proc = q /\ q # None
        BY <3>1, <2>3, ConstantsAssumption DEF TypeOK
      <4> QED BY <4>1, <4>2 DEF Alive, Free
    <3>2. CASE q # req[h].proc
      <4>1. streams'[q] = streams[q] /\ streams[q] \in Subs
        BY <3>2, <2>3 DEF TypeOK
      <4>2. Alive(streams[q]) /\ subs[streams[q]].proc = q
        BY <4>1 DEF EntryOwnsSub
      <4>3. subs'[streams[q]] = subs[streams[q]]
        BY <4>1, <4>2, <2>3 DEF TypeOK
      <4> QED BY <4>1, <4>2, <4>3 DEF Alive
    <3> QED BY <3>1, <3>2
  <2> QED BY <1>3, <2>2, <2>3 DEF CreateStream
<1>4. CASE Restart
  BY <1>4 DEF Restart, EntryOwnsSub
<1> QED BY <1>1, <1>2, <1>3, <1>4, StreamSteps

\* Whatever the order of STARTs, PAUSEs, edits, losses and restarts, the map
\* entry of a process is a live subscription of that process: the switch that
\* deleteStream pulls is connected.
THEOREM EntryConnected == Spec => []EntryOwnsSub
<1>1. Init => EntryOwnsSub
  BY DEF Init, EntryOwnsSub
<1>2. TypeOK /\ EntryOwnsSub /\ [Next]_vars => EntryOwnsSub'
  BY EntryStep
<1> QED BY <1>1, <1>2, TypeCorrect, PTL DEF Spec
=============================================================================
