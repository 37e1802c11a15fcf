----------------------- MODULE CarefulOperatorProofs -----------------------
(***************************************************************************)
(* Theorems about the process engine in the hands of a careful operator:   *)
(* CarefulInv is inductive, and the properties of CarefulOperator follow.  *)
(*                                                                         *)
(* Every action concerns one process.  Coherent(p) collects what CarefulInv*)
(* says of p; a step that leaves p alone preserves it (Untouched), so each *)
(* action needs an argument only for the process it is about.              *)
(*                                                                         *)
(* The next part shows that the engine implements MonitorSwitch, for every *)
(* number of processes, requests and subscriptions: a step either is one   *)
(* the operator sees, of one process, or leaves the switch alone.          *)
(*                                                                         *)
(* The last part is about the same operator when agents are lost.          *)
(***************************************************************************)
EXTENDS CarefulOperator, ProcessEngineProofs

Coherent(p) ==
  /\ OneAtATime(p) /\ Served(p) /\ Unserved(p)
  /\ \A s \in Subs : subs[s].proc = p => streams[p] = s
  /\ streams[p] # None => /\ row[p].live
                          /\ subs[streams[p]].proc = p
                          /\ subs[streams[p]].agent = row[p].agent
                          /\ subs[streams[p]].flow = row[p].flow

\* All that Coherent(p) speaks of stays as it is.
Same(p) ==
  /\ row'[p] = row[p] /\ streams'[p] = streams[p]
  /\ RowWrites(p)' = RowWrites(p)
  /\ \A h \in Requests : req[h].proc = p \/ req'[h].proc = p
                           => req'[h] = req[h]
  /\ \A s \in Subs : subs[s].proc = p \/ subs'[s].proc = p
                       => subs'[s] = subs[s]

LEMMA Untouched ==
  ASSUME TypeOK, NEW p \in Processes, Coherent(p), Same(p)
  PROVE  Coherent(p)'
<1>1. Wanted(p)' <=> Wanted(p)
  BY DEF Wanted, Pending, Same
<1>2. OneAtATime(p)'
  BY DEF OneAtATime, Coherent, Same
<1>3. Served(p)'
  BY <1>1 DEF Served, Coherent, Same
<1>4. Unserved(p)'
  BY <1>1 DEF Unserved, Coherent, Same
<1>5. \A s \in Subs : subs'[s].proc = p => streams'[p] = s
  BY DEF Coherent, Same
<1>6. ASSUME streams'[p] # None
      PROVE  /\ row'[p].live
             /\ subs'[streams'[p]].proc = p
             /\ subs'[streams'[p]].agent = row'[p].agent
             /\ subs'[streams'[p]].flow = row'[p].flow
  <2>1. streams[p] \in Subs /\ streams'[p] = streams[p] /\ row'[p] = row[p]
    BY <1>6 DEF Same, TypeOK
  <2>2. /\ row[p].live /\ subs[streams[p]].proc = p
        /\ subs[streams[p]].agent = row[p].agent
        /\ subs[streams[p]].flow = row[p].flow
    BY <1>6, <2>1 DEF Coherent
  <2>3. subs'[streams[p]] = subs[streams[p]]
    BY <2>1, <2>2 DEF Same
  <2> QED BY <2>1, <2>2, <2>3
<1> QED BY <1>2, <1>3, <1>4, <1>5, <1>6 DEF Coherent

LEMMA CoherentInv ==
  CarefulInv <=> /\ TypeOK /\ EntryOwnsSub /\ NoLoss
                 /\ \A p \in Processes : Coherent(p)
<1>1. ASSUME TypeOK, EntryOwnsSub, NoOrphan, StreamFollowsRow,
             NEW p \in Processes, OneAtATime(p), Served(p), Unserved(p)
      PROVE  Coherent(p)
  BY <1>1, ConstantsAssumption
     DEF Coherent, EntryOwnsSub, NoOrphan, StreamFollowsRow, Alive, Free
<1>2. ASSUME TypeOK, \A p \in Processes : Coherent(p)
      PROVE  NoOrphan /\ StreamFollowsRow
  <2>1. ASSUME NEW s \in Subs, Alive(s) PROVE streams[subs[s].proc] = s
    <3>1. subs[s].proc \in Processes
      BY <1>2, <2>1 DEF TypeOK, Alive, Sub
    <3> QED BY <1>2, <3>1 DEF Coherent
  <2> QED BY <1>2, <2>1 DEF NoOrphan, StreamFollowsRow, Coherent
<1> QED BY <1>1, <1>2 DEF CarefulInv, Coherent

-----------------------------------------------------------------------------
(* A request arrives. *)

\* About a settled process nothing is pending, so the status shown is right.
LEMMA SettledShown ==
  ASSUME TypeOK, NEW p \in Processes, Settled(p), Coherent(p)
  PROVE  /\ RowWrites(p) = {}
         /\ \A h \in Requests : req[h].proc # p
         /\ row[p].status = "running" <=> streams[p] # None
<1>1. RowWrites(p) = {} /\ \A h \in Requests : req[h].proc # p
  BY DEF Settled, RowWrites
<1> QED BY <1>1 DEF Coherent, Unserved, Wanted, Pending

\* A step that only gives the settled process p a new request.
LEMMA NewRequest ==
  ASSUME TypeOK, NEW p \in Processes, Settled(p), Coherent(p),
         NEW h \in Requests, NEW r, r.proc = p,
         req' = [req EXCEPT ![h] = r],
         UNCHANGED <<row, writes, streams, subs>>,
         r.pc \in {"start", "pause", "updateFlow", "update", "remove"},
         r.pc = "pause" <=> row[p].status = "running",
         r.pc \in {"start", "pause"} => r.seen = row[p]
  PROVE  Coherent(p)'
<1>1. /\ RowWrites(p) = {} /\ RowWrites(p)' = {}
      /\ \A g \in Requests : req[g].proc # p
      /\ row[p].status = "running" <=> streams[p] # None
  BY SettledShown DEF RowWrites
<1>2. \A g \in Requests : req'[g].proc = p => g = h
  BY <1>1 DEF TypeOK
<1>3. req'[h] = r
  BY DEF TypeOK
<1>4. row[p].status \in ProcessState
  BY DEF TypeOK, Row
<1>5. OneAtATime(p)'
  BY <1>1, <1>2 DEF OneAtATime
<1>6. Served(p)'
  BY <1>1, <1>2, <1>3, <1>4 DEF Served, ProcessState
<1>7. Unserved(p)'
  BY <1>3 DEF Unserved
<1> QED BY <1>5, <1>6, <1>7 DEF Coherent

LEMMA ArriveCoherent ==
  ASSUME TypeOK, NEW q \in Processes, \A p \in Processes : Coherent(p),
         NEW h \in Requests, CarefulArrive(h)
  PROVE  Coherent(q)'
<1>1. ASSUME NEW p \in Processes, Settled(p), NEW r, r.proc = p,
             FreeSlot(h), Goto(h, r),
             UNCHANGED <<row, writes, streams, subs>>,
             r.pc \in {"start", "pause", "updateFlow", "update", "remove"},
             r.pc = "pause" <=> row[p].status = "running",
             r.pc \in {"start", "pause"} => r.seen = row[p]
      PROVE  Coherent(q)'
  <2>1. CASE q = p
    BY <1>1, <2>1, NewRequest DEF Goto
  <2>2. CASE q # p
    <3>1. req[h].proc # q /\ req'[h].proc # q
      BY <1>1, <2>2, ConstantsAssumption DEF FreeSlot, Idle, Goto, TypeOK
    <3>2. Same(q)
      BY <1>1, <3>1 DEF Same, Goto, TypeOK, RowWrites
    <3> QED BY <3>2, Untouched
  <2> QED BY <2>1, <2>2
<1>2. ASSUME NEW p \in Processes, Settled(p), row[p].status = "stopped",
             Command(h, p, "start")
      PROVE  Coherent(q)'
  BY <1>2, <1>1 DEF Command, Idle
<1>3. ASSUME NEW p \in Processes, Settled(p), row[p].status = "running",
             Command(h, p, "pause")
      PROVE  Coherent(q)'
  BY <1>3, <1>1 DEF Command, Idle
<1>4. ASSUME NEW p \in Processes, Settled(p),
             NEW op \in {"updateFlow", "update", "remove"}, NEW a, NEW f,
             CheckEdit(h, p, op, a, f)
      PROVE  Coherent(q)'
  BY <1>4, <1>1 DEF CheckEdit, Editable, Idle
<1>5. ASSUME NEW a \in Agents, NEW k \in Sockets, Connect(h, a, k)
      PROVE  Coherent(q)'
  <2>1. req[h].proc # q /\ req'[h].proc # q
    BY <1>5, ConstantsAssumption DEF Connect, FreeSlot, Idle, Goto, TypeOK
  <2>2. Same(q)
    BY <1>5, <2>1 DEF Same, Connect, Goto, TypeOK, RowWrites
  <2> QED BY <2>2, Untouched
<1> QED BY <1>2, <1>3, <1>4, <1>5 DEF CarefulArrive

-----------------------------------------------------------------------------
(* A continuation runs. *)

\* The updates that a continuation issues, seen by process.
LEMMA NewUpdates ==
  ASSUME NEW p \in Processes, NEW h, NEW s, NEW g, NEW a, NEW t,
         writes' = writes \cup UpdateState(h, p, s) \cup ChangeAgentState(g, a, t)
  PROVE  /\ RowWrites(p)' = RowWrites(p) \cup UpdateState(h, p, s)
         /\ \A q \in Processes \ {p} : RowWrites(q)' = RowWrites(q)
BY DEF RowWrites, UpdateState, ChangeAgentState

LEMMA NewAgentUpdate ==
  ASSUME NEW g, NEW a, NEW t, writes' = writes \cup ChangeAgentState(g, a, t)
  PROVE  \A q \in Processes : RowWrites(q)' = RowWrites(q)
BY DEF RowWrites, ChangeAgentState

\* A request about p that is not in createStream's query has no update of p
\* pending.
LEMMA NothingPending ==
  ASSUME NEW p \in Processes, Coherent(p), NEW h \in Requests,
         req[h].proc = p, req[h].pc \notin {"load", "loaded"}
  PROVE  RowWrites(p) = {}
BY DEF Coherent, OneAtATime

\* A request about p that returns, with no update of p pending, leaves p
\* coherent if the status shown is right.
LEMMA LastRequest ==
  ASSUME TypeOK, NEW p \in Processes, Coherent(p), NEW h \in Requests,
         req[h].proc = p, Return(h),
         \A v, w \in RowWrites(p)' : v = w,
         Wanted(p)' <=> streams'[p] # None
  PROVE  OneAtATime(p)' /\ Served(p)' /\ Unserved(p)'
<1>1. \A g \in Requests : req'[g].proc # p
  <2>1. \A g \in Requests : req[g].proc = p => g = h
    BY DEF Coherent, OneAtATime
  <2> QED BY <2>1, ConstantsAssumption DEF Return, Goto, Idle, TypeOK
<1> QED BY <1>1 DEF OneAtATime, Served, Unserved

LEMMA RefusedCoherent ==
  ASSUME TypeOK, NEW q \in Processes, \A p \in Processes : Coherent(p),
         NEW h \in Requests, Refused(h)
  PROVE  Coherent(q)'
<1>0. req[h].proc \in Processes
  BY DEF Refused, TypeOK, Request
<1>1. CASE q = req[h].proc
  <2>1. RowWrites(q) = {} /\ RowWrites(q)' = {}
    BY <1>1, NothingPending DEF Refused, RowWrites
  <2>2. row[q].status = "running" <=> streams[q] # None
    BY <1>1, <1>0 DEF Refused, Coherent, Served
  <2>3. Wanted(q)' <=> streams'[q] # None
    BY <2>1, <2>2 DEF Wanted, Pending, Refused
  <2>4. OneAtATime(q)' /\ Served(q)' /\ Unserved(q)'
    BY <1>1, <2>1, <2>3, LastRequest DEF Refused
  <2> QED BY <2>4 DEF Coherent, Refused
<1>2. CASE q # req[h].proc
  <2>1. Same(q)
    BY <1>2, ConstantsAssumption
       DEF Same, Refused, Return, Goto, Idle, RowWrites, TypeOK
  <2> QED BY <2>1, Untouched
<1> QED BY <1>1, <1>2

LEMMA PauseCoherent ==
  ASSUME TypeOK, EntryOwnsSub, NEW q \in Processes,
         \A p \in Processes : Coherent(p),
         NEW h \in Requests, Pause(h)
  PROVE  Coherent(q)'
<1>0. PICK p \in Processes : p = req[h].proc /\ req[h].pc = "pause"
  BY DEF Pause, TypeOK, Request
<1>1. streams[p] # None /\ streams[p] \in Subs
  BY <1>0 DEF Coherent, Served, TypeOK
<1>2. /\ subs' = [subs EXCEPT ![streams[p]] = Free]
      /\ streams' = [streams EXCEPT ![p] = None]
      /\ writes' = writes \cup UpdateState(h, p, "stopped")
                          \cup ChangeAgentState(h, streamAgent, "ready")
      /\ Return(h) /\ row' = row
  BY <1>0, <1>1 DEF Pause, Killed, Dropped
<1>3. subs[streams[p]].proc = p
  BY <1>0, <1>1 DEF EntryOwnsSub
<1>4. \A s \in Subs : s # streams[p] => subs'[s] = subs[s]
  BY <1>2 DEF TypeOK
<1>5. subs'[streams[p]].proc = None /\ streams'[p] = None
  BY <1>0, <1>1, <1>2 DEF TypeOK, Free
<1>6. CASE q = p
  <2>1. RowWrites(p)' = UpdateState(h, p, "stopped")
    <3>1. RowWrites(p) = {}
      BY <1>0, NothingPending
    <3>2. RowWrites(p)' = RowWrites(p) \cup UpdateState(h, p, "stopped")
      BY <1>2, NewUpdates
    <3> QED BY <3>1, <3>2
  <2>2. \A v, w \in RowWrites(p)' : v = w
    BY <2>1 DEF UpdateState
  <2>3. ~Wanted(p)'
    BY <2>1 DEF UpdateState, Wanted, Pending
  <2>4. OneAtATime(p)' /\ Served(p)' /\ Unserved(p)'
    BY <1>0, <1>2, <1>5, <2>2, <2>3, LastRequest
  <2>5. \A s \in Subs : subs'[s].proc # p
    BY <1>0, <1>4, <1>5, ConstantsAssumption DEF Coherent
  <2> QED BY <1>5, <1>6, <2>4, <2>5 DEF Coherent
<1>7. CASE q # p
  <2>1. RowWrites(q)' = RowWrites(q)
    BY <1>0, <1>2, <1>7, NewUpdates
  <2>2. Same(q)
    BY <1>0, <1>2, <1>3, <1>4, <1>5, <1>7, <2>1, ConstantsAssumption
       DEF Same, Return, Goto, Idle, TypeOK
  <2> QED BY <2>2, Untouched
<1> QED BY <1>6, <1>7

LEMMA StartCoherent ==
  ASSUME TypeOK, NEW q \in Processes, \A p \in Processes : Coherent(p),
         NEW h \in Requests, Start(h)
  PROVE  Coherent(q)'
<1>0. PICK p \in Processes : p = req[h].proc /\ req[h].pc = "start"
  BY DEF Start, TypeOK, Request
<1> DEFINE r == [Idle EXCEPT !.pc = "load", !.proc = p,
                             !.agent = req[h].seen.agent]
<1>1. /\ req' = [req EXCEPT ![h] = r]
      /\ writes' = writes \cup UpdateState(h, p, "running")
      /\ UNCHANGED <<row, streams, subs>>
      /\ req[h].seen.live /\ req[h].seen.flow # None
  BY <1>0 DEF Start, Startable, Goto
<1>2. req'[h] = r /\ \A g \in Requests : g # h => req'[g] = req[g]
  BY <1>1 DEF TypeOK
<1>3. /\ RowWrites(p)' = RowWrites(p) \cup UpdateState(h, p, "running")
      /\ q # p => RowWrites(q)' = RowWrites(q)
  BY <1>1 DEF RowWrites, UpdateState
<1>4. r.pc = "load" /\ r.proc = p /\ r.agent = req[h].seen.agent
  BY DEF Idle
<1> HIDE DEF r
<1>5. CASE q = p
  <2>1. RowWrites(p) = {}
    BY <1>0, NothingPending
  <2>2. RowWrites(p)' = UpdateState(h, p, "running")
    BY <1>3, <2>1
  <2>3. \A g \in Requests : req'[g].proc = p => g = h
    BY <1>0, <1>2 DEF Coherent, OneAtATime
  <2>4. Wanted(p)'
    BY <2>2 DEF Wanted, Pending, UpdateState
  <2>5. OneAtATime(p)'
    BY <1>2, <1>4, <2>2, <2>3 DEF OneAtATime, UpdateState
  <2>6. /\ streams[p] = None
        /\ row[p].live /\ row[p].flow # None /\ row[p].agent = r.agent
    BY <1>0, <1>1, <1>4 DEF Coherent, Served
  <2>7. Served(p)'
    BY <1>1, <1>2, <1>4, <2>3, <2>4, <2>6 DEF Served
  <2>8. Unserved(p)'
    BY <1>2, <1>4 DEF Unserved
  <2> QED BY <1>1, <1>5, <2>5, <2>7, <2>8 DEF Coherent
<1>6. CASE q # p
  <2>1. Same(q)
    BY <1>0, <1>1, <1>2, <1>3, <1>4, <1>6 DEF Same
  <2> QED BY <2>1, Untouched
<1> QED BY <1>5, <1>6

LEMMA LoadCoherent ==
  ASSUME TypeOK, NEW q \in Processes, \A p \in Processes : Coherent(p),
         NEW h \in Requests, Load(h)
  PROVE  Coherent(q)'
<1>0. PICK p \in Processes : p = req[h].proc /\ req[h].pc = "load"
  BY DEF Load, TypeOK, Request
<1>1. UNCHANGED <<row, writes, streams, subs>>
  BY DEF Load
<1>2. /\ req'[h].pc = "loaded" /\ req'[h].proc = p
      /\ req'[h].agent = req[h].agent /\ req'[h].seen = row[p]
      /\ \A g \in Requests : g # h => req'[g] = req[g]
  BY <1>0 DEF Load, TypeOK, Request
<1>3. \A x \in Processes : RowWrites(x)' = RowWrites(x)
  BY <1>1 DEF RowWrites
<1>4. CASE q = p
  <2>1. OneAtATime(p)'
    BY <1>0, <1>2, <1>3 DEF Coherent, OneAtATime
  <2>2. Wanted(p)' <=> Wanted(p)
    BY <1>1, <1>3 DEF Wanted, Pending
  <2>3. \A g \in Requests : req'[g].proc = p => g = h
    BY <1>0, <1>2 DEF Coherent, OneAtATime
  <2>4. /\ streams[p] = None /\ Wanted(p)
        /\ row[p].live /\ row[p].flow # None /\ row[p].agent = req[h].agent
    BY <1>0 DEF Coherent, Served
  <2>5. Served(p)'
    BY <1>1, <1>2, <2>2, <2>3, <2>4 DEF Served
  <2>6. Unserved(p)'
    BY <1>2 DEF Unserved
  <2> QED BY <1>1, <1>4, <2>1, <2>5, <2>6 DEF Coherent
<1>5. CASE q # p
  <2>1. Same(q)
    BY <1>0, <1>1, <1>2, <1>3, <1>5 DEF Same
  <2> QED BY <2>1, Untouched
<1> QED BY <1>4, <1>5

LEMMA CreateStreamCoherent ==
  ASSUME TypeOK, EntryOwnsSub, NEW q \in Processes,
         \A p \in Processes : Coherent(p),
         NEW h \in Requests, CreateStream(h)
  PROVE  Coherent(q)'
<1>0. PICK p \in Processes : p = req[h].proc /\ req[h].pc = "loaded"
  BY DEF CreateStream, TypeOK, Request
<1>1. /\ streams[p] = None /\ Wanted(p) /\ row[p].live /\ row[p].flow # None
      /\ row[p].agent = req[h].agent
      /\ req[h].seen.live /\ req[h].seen.flow = row[p].flow
  BY <1>0 DEF Coherent, Served
<1>2. PICK s \in Subs :
        /\ ~Alive(s)
        /\ subs' = [subs EXCEPT ![s] = [proc |-> p, agent |-> row[p].agent,
                                        flow |-> row[p].flow]]
        /\ streams' = [streams EXCEPT ![p] = s]
  BY <1>0, <1>1 DEF CreateStream, Startable
<1>3. Return(h) /\ row' = row
  BY DEF CreateStream
<1>4. \A x \in Processes : RowWrites(x)' = RowWrites(x)
  BY NewAgentUpdate DEF CreateStream
<1>5. /\ subs'[s] = [proc |-> p, agent |-> row[p].agent, flow |-> row[p].flow]
      /\ \A t \in Subs : t # s => subs'[t] = subs[t]
      /\ streams'[p] = s /\ s # None /\ subs[s].proc = None
  BY <1>2, ConstantsAssumption DEF TypeOK, Alive, Free
<1>6. CASE q = p
  <2>1. Wanted(p)'
    BY <1>1, <1>3, <1>4 DEF Wanted, Pending
  <2>2. \A v, w \in RowWrites(p)' : v = w
    BY <1>4 DEF Coherent, OneAtATime
  <2>3. OneAtATime(p)' /\ Served(p)' /\ Unserved(p)'
    BY <1>0, <1>3, <1>5, <2>1, <2>2, LastRequest
  <2>4. \A t \in Subs : subs'[t].proc = p => t = s
    BY <1>1, <1>5, ConstantsAssumption DEF Coherent
  <2> QED BY <1>1, <1>3, <1>5, <1>6, <2>3, <2>4 DEF Coherent
<1>7. CASE q # p
  <2>1. Same(q)
    BY <1>0, <1>2, <1>3, <1>4, <1>5, <1>7, ConstantsAssumption
       DEF Same, Return, Goto, Idle, TypeOK
  <2> QED BY <2>1, Untouched
<1> QED BY <1>6, <1>7

\* UpdateFlow, Update and Remove touch the row of a process that is not wanted.
LEMMA EditCoherent ==
  ASSUME TypeOK, NEW q \in Processes, \A p \in Processes : Coherent(p),
         NEW h \in Requests, UpdateFlow(h) \/ Update(h) \/ Remove(h)
  PROVE  Coherent(q)'
<1>0. PICK p \in Processes : /\ p = req[h].proc
                             /\ req[h].pc \in {"updateFlow", "update", "remove"}
  BY DEF UpdateFlow, Update, Remove, TypeOK, Request
<1>1. /\ Return(h) /\ UNCHANGED <<writes, streams, subs>>
      /\ row'[p].status = row[p].status
      /\ \A x \in Processes : x # p => row'[x] = row[x]
  BY <1>0 DEF UpdateFlow, Update, Remove, TypeOK, Row
<1>2. \A x \in Processes : RowWrites(x)' = RowWrites(x)
  BY <1>1 DEF RowWrites
<1>3. CASE q = p
  <2>1. RowWrites(p) = {} /\ streams[p] = None /\ row[p].status = "stopped"
    BY <1>0, NothingPending DEF Coherent, Served
  <2>2. ~Wanted(p)' /\ \A v, w \in RowWrites(p)' : v = w
    BY <1>1, <1>2, <2>1 DEF Wanted, Pending
  <2>3. OneAtATime(p)' /\ Served(p)' /\ Unserved(p)'
    BY <1>0, <1>1, <2>1, <2>2, LastRequest
  <2> QED BY <1>1, <1>3, <2>1, <2>3 DEF Coherent
<1>4. CASE q # p
  <2>1. Same(q)
    BY <1>0, <1>1, <1>2, <1>4, ConstantsAssumption
       DEF Same, Return, Goto, Idle, TypeOK
  <2> QED BY <2>1, Untouched
<1> QED BY <1>3, <1>4

LEMMA ConnectedCoherent ==
  ASSUME TypeOK, NEW q \in Processes, \A p \in Processes : Coherent(p),
         NEW h \in Requests, Connected(h)
  PROVE  Coherent(q)'
<1>1. req[h].proc = None
  BY DEF Connected, TypeOK, Request
<1>2. Same(q)
  BY <1>1, ConstantsAssumption
     DEF Same, Connected, Return, Goto, Idle, RowWrites, TypeOK
<1> QED BY <1>2, Untouched

\* An update of p's row is executed: what was wanted is now shown.
LEMMA ExecuteCoherent ==
  ASSUME TypeOK, NEW q \in Processes, \A p \in Processes : Coherent(p),
         NEW u \in writes, Execute(u)
  PROVE  Coherent(q)'
<1>0. UNCHANGED <<req, streams, subs>> /\ writes' = writes \ {u}
  BY DEF Execute
<1>1. CASE u.table = "process" /\ u.id = q
  <2>1. RowWrites(q) = {u} /\ RowWrites(q)' = {}
    BY <1>0, <1>1 DEF RowWrites, Coherent, OneAtATime
  <2>2. u.status \in ProcessState
    BY <1>1 DEF TypeOK, Write, ProcessState, AgentState
  <2>3. /\ row'[q].status = u.status /\ row'[q].live = row[q].live
        /\ row'[q].agent = row[q].agent /\ row'[q].flow = row[q].flow
    BY <1>1 DEF Execute, TypeOK, Row
  <2>4. Wanted(q)' <=> Wanted(q)
    BY <2>1, <2>2, <2>3 DEF Wanted, Pending, ProcessState
  <2>5. OneAtATime(q)'
    BY <1>0, <2>1 DEF Coherent, OneAtATime
  <2>6. \A h \in Requests : req[h].proc = q => req[h].pc \in {"load", "loaded"}
    BY <1>1, <2>1 DEF Coherent, OneAtATime
  <2>7. Served(q)'
    BY <1>0, <2>3, <2>4, <2>6 DEF Coherent, Served
  <2>8. Unserved(q)'
    BY <1>0, <2>4 DEF Coherent, Unserved
  <2> QED BY <1>0, <2>3, <2>5, <2>7, <2>8 DEF Coherent
<1>2. CASE ~(u.table = "process" /\ u.id = q)
  <2>1. row'[q] = row[q]
    BY <1>2 DEF Execute, TypeOK
  <2>2. RowWrites(q)' = RowWrites(q)
    BY <1>0, <1>2 DEF RowWrites
  <2>3. Same(q)
    BY <1>0, <2>1, <2>2 DEF Same
  <2> QED BY <2>3, Untouched
<1> QED BY <1>1, <1>2

-----------------------------------------------------------------------------
(* The invariant and what follows from it. *)

LEMMA CarefulSteps == [CarefulNext]_vars => [Next]_vars
BY DEF CarefulNext, CarefulArrive, Next, Arrive

LEMMA InitCareful == Init => CarefulInv
<1> SUFFICES ASSUME Init PROVE CarefulInv
  OBVIOUS
<1>1. TypeOK /\ EntryOwnsSub /\ NoOrphan /\ StreamFollowsRow
  BY InitTypeOK DEF Init, EntryOwnsSub, NoOrphan, StreamFollowsRow, Alive
<1>2. NoLoss
  BY DEF Init, NoLoss, Idle
<1>3. ASSUME NEW p \in Processes
      PROVE  OneAtATime(p) /\ Served(p) /\ Unserved(p)
  <2>1. RowWrites(p) = {} /\ \A h \in Requests : req[h].proc # p
    BY ConstantsAssumption DEF Init, RowWrites, Idle
  <2>2. row[p].status = "stopped" /\ streams[p] = None
    BY DEF Init
  <2> QED BY <2>1, <2>2 DEF OneAtATime, Served, Unserved, Wanted, Pending
<1> QED BY <1>1, <1>2, <1>3 DEF CarefulInv

LEMMA NoLossStep ==
  ASSUME TypeOK, NoLoss, [CarefulNext]_vars
  PROVE  NoLoss'
<1>1. ASSUME NEW h \in Requests, NEW r, Goto(h, r),
             r.pc \notin {"disconnect", "kill"}, r.todo = {}
      PROVE  NoLoss'
  BY <1>1 DEF Goto, NoLoss, TypeOK
<1>2. ASSUME NEW h \in Requests, CarefulArrive(h) PROVE NoLoss'
  BY <1>1, <1>2 DEF CarefulArrive, Command, CheckEdit, Connect, Idle
<1>3. ASSUME NEW h \in Requests, Step(h) PROVE NoLoss'
  <2>1. CASE Return(h)
    BY <2>1, <1>1 DEF Return, Idle
  <2>2. CASE Start(h)
    BY <2>2, <1>1 DEF Start, Idle
  <2>3. CASE Load(h)
    BY <2>3 DEF Load, NoLoss, TypeOK, Request
  <2> QED BY <1>3, <2>1, <2>2, <2>3
          DEF Step, Refused, Pause, CreateStream, UpdateFlow, Update, Remove,
              Connected, Disconnected, Kill, NoLoss
<1>4. ASSUME NEW w \in writes, Execute(w) PROVE NoLoss'
  BY <1>4 DEF Execute, NoLoss
<1>5. CASE UNCHANGED vars
  BY <1>5 DEF vars, NoLoss
<1> QED BY <1>2, <1>3, <1>4, <1>5 DEF CarefulNext

LEMMA CarefulStep ==
  ASSUME CarefulInv, [CarefulNext]_vars
  PROVE  CarefulInv'
<1>1. TypeOK /\ EntryOwnsSub /\ NoLoss /\ \A p \in Processes : Coherent(p)
  BY CoherentInv
<1>2. TypeOK' /\ EntryOwnsSub' /\ NoLoss'
  BY <1>1, CarefulSteps, NextTypeOK, EntryStep, NoLossStep
<1>3. ASSUME NEW q \in Processes PROVE Coherent(q)'
  <2>1. ASSUME NEW h \in Requests, CarefulArrive(h) PROVE Coherent(q)'
    BY <1>1, <2>1, ArriveCoherent
  <2>2. ASSUME NEW h \in Requests, Step(h) PROVE Coherent(q)'
    <3>1. ~Disconnected(h) /\ ~Kill(h)
      BY <1>1 DEF NoLoss, Disconnected, Kill
    <3> QED BY <1>1, <2>2, <3>1, RefusedCoherent, PauseCoherent, StartCoherent,
               LoadCoherent, CreateStreamCoherent, EditCoherent,
               ConnectedCoherent DEF Step
  <2>3. ASSUME NEW w \in writes, Execute(w) PROVE Coherent(q)'
    BY <1>1, <2>3, ExecuteCoherent
  <2>4. CASE UNCHANGED vars
    <3>1. Same(q)
      BY <2>4 DEF vars, Same, RowWrites
    <3> QED BY <1>1, <3>1, Untouched
  <2> QED BY <2>1, <2>2, <2>3, <2>4 DEF CarefulNext
<1>4. (TypeOK /\ EntryOwnsSub /\ NoLoss /\ \A p \in Processes : Coherent(p))'
  BY <1>2, <1>3
<1> QED BY <1>4, CoherentInv, PTL

THEOREM CarefulInvariant == CarefulSpec => []CarefulInv
<1>1. Init => CarefulInv
  BY InitCareful
<1>2. CarefulInv /\ [CarefulNext]_vars => CarefulInv'
  BY CarefulStep
<1> QED BY <1>1, <1>2, PTL DEF CarefulSpec

\* Every live subscription is in the map of streams: no sample is handled
\* twice and none after a PAUSE.
THEOREM NoOrphans == CarefulSpec => []NoOrphan
<1>1. CarefulInv => NoOrphan
  BY DEF CarefulInv
<1> QED BY <1>1, CarefulInvariant, PTL

\* A stream works on the row as the database has it.
THEOREM StreamsFollowRows == CarefulSpec => []StreamFollowsRow
<1>1. CarefulInv => StreamFollowsRow
  BY DEF CarefulInv
<1> QED BY <1>1, CarefulInvariant, PTL

\* Once everything about a process has settled, its status tells whether it
\* is being monitored.
THEOREM StatusIsRight == CarefulSpec => []StatusTellsStream
<1>1. CarefulInv => StatusTellsStream
  <2> SUFFICES ASSUME CarefulInv, NEW p \in Processes, Settled(p)
               PROVE  row[p].status = "running" <=> streams[p] # None
    BY DEF StatusTellsStream
  <2> QED BY CoherentInv, SettledShown
<1> QED BY <1>1, CarefulInvariant, PTL

\* No edit reaches the row of a running process.
THEOREM EditsKeepOut == CarefulSpec => NoEditWhileRunning
<1> DEFINE Kept == \A p \in Processes : row[p].status = "running" =>
                     /\ row'[p].live = row[p].live
                     /\ row'[p].agent = row[p].agent
                     /\ row'[p].flow = row[p].flow
<1>1. CarefulInv /\ [CarefulNext]_vars => Kept
  <2> SUFFICES ASSUME CarefulInv, [CarefulNext]_vars,
                      NEW p \in Processes, row[p].status = "running"
               PROVE  /\ row'[p].live = row[p].live
                      /\ row'[p].agent = row[p].agent
                      /\ row'[p].flow = row[p].flow
    OBVIOUS
  <2>0. TypeOK /\ Served(p)
    BY DEF CarefulInv
  <2>1. CASE row' = row
    BY <2>1
  <2>2. ASSUME NEW h \in Requests, UpdateFlow(h) \/ Update(h) \/ Remove(h)
        PROVE  row'[p] = row[p]
    <3>1. req[h].proc # p
      BY <2>0, <2>2 DEF Served, UpdateFlow, Update, Remove
    <3> QED BY <2>0, <2>2, <3>1 DEF UpdateFlow, Update, Remove, TypeOK
  <2>3. ASSUME NEW w \in writes, Execute(w)
        PROVE  /\ row'[p].live = row[p].live
               /\ row'[p].agent = row[p].agent
               /\ row'[p].flow = row[p].flow
    BY <2>0, <2>3 DEF Execute, TypeOK, Row
  <2>4. ASSUME NEW h \in Requests, CarefulArrive(h) PROVE row' = row
    BY <2>4 DEF CarefulArrive, Command, CheckEdit, Connect
  <2>5. ASSUME NEW h \in Requests, Step(h)
        PROVE  row' = row \/ UpdateFlow(h) \/ Update(h) \/ Remove(h)
    BY <2>5 DEF Step, Refused, Pause, Start, Load, CreateStream, Connected,
                Disconnected, Kill
  <2> QED BY <2>1, <2>2, <2>3, <2>4, <2>5 DEF CarefulNext, vars
<1>2. CarefulInv /\ [CarefulNext]_vars => [Kept]_vars
  BY <1>1
<1> QED BY <1>2, CarefulInvariant, PTL DEF CarefulSpec, NoEditWhileRunning

-----------------------------------------------------------------------------
(* The engine implements the switch. *)

\* What an operator sees of p stays as it is.
Unseen(p) ==
  /\ wanted'[p] = wanted[p] /\ shown'[p] = shown[p]
  /\ def'[p] = def[p] /\ using'[p] = using[p]

LEMMA Seen ==
  ASSUME NEW p \in Processes
  PROVE  /\ wanted[p] = Wanted(p)
         /\ shown[p] = (row[p].status = "running")
         /\ def[p] = [live |-> row[p].live, agent |-> row[p].agent,
                      flow |-> row[p].flow]
         /\ streams[p] = None => using[p] = None
         /\ streams[p] # None =>
              using[p] = [live |-> TRUE, agent |-> subs[streams[p]].agent,
                          flow |-> subs[streams[p]].flow]
BY DEF wanted, shown, def, using

LEMMA SeenNext ==
  ASSUME NEW p \in Processes
  PROVE  /\ wanted'[p] = Wanted(p)'
         /\ shown'[p] = (row'[p].status = "running")
         /\ def'[p] = [live |-> row'[p].live, agent |-> row'[p].agent,
                       flow |-> row'[p].flow]
         /\ streams'[p] = None => using'[p] = None
         /\ streams'[p] # None =>
              using'[p] = [live |-> TRUE, agent |-> subs'[streams'[p]].agent,
                           flow |-> subs'[streams'[p]].flow]
BY DEF wanted, shown, def, using

LEMMA SeenWanted ==
  ASSUME NEW p \in Processes
  PROVE  /\ wanted[p] \in BOOLEAN /\ wanted'[p] \in BOOLEAN
         /\ wanted[p] <=> Wanted(p)
         /\ wanted'[p] <=> Wanted(p)'
BY DEF wanted, Wanted, Pending

LEMMA DefTyped ==
  ASSUME TypeOK, NEW p \in Processes
  PROVE  def[p] \in Definitions
BY DEF def, Definitions, TypeOK, Row

LEMMA UsingOff ==
  ASSUME TypeOK, EntryOwnsSub, NEW p \in Processes
  PROVE  using[p] = None <=> streams[p] = None
<1>1. CASE streams[p] = None
  BY <1>1, Seen
<1>2. CASE streams[p] # None
  <2>1. streams[p] \in Subs /\ subs[streams[p]] \in Sub
    BY <1>2 DEF TypeOK, EntryOwnsSub, Alive
  <2>2. using[p] = [live |-> TRUE, agent |-> subs[streams[p]].agent,
                    flow |-> subs[streams[p]].flow]
    BY <1>2, Seen
  <2>3. subs[streams[p]].agent \in Agents /\ subs[streams[p]].flow \in Flows
    BY <2>1 DEF Sub
  <2>4. using[p] \in Definitions
    BY <2>2, <2>3 DEF Definitions
  <2> QED BY <1>2, <2>4, DefinitionsAssumption
<1> QED BY <1>1, <1>2

LEMMA NotSeen ==
  ASSUME TypeOK, EntryOwnsSub, NEW p \in Processes,
         row'[p] = row[p], streams'[p] = streams[p],
         RowWrites(p)' = RowWrites(p),
         \A s \in Subs : subs[s].proc = p => subs'[s] = subs[s]
  PROVE  Unseen(p)
<1>1. Wanted(p)' <=> Wanted(p)
  BY DEF Wanted, Pending
<1>2. wanted'[p] = wanted[p]
  BY <1>1, SeenWanted
<1>3. using'[p] = using[p]
  <2>1. CASE streams[p] = None
    <3>1. using[p] = None
      BY <2>1, Seen
    <3>2. streams'[p] = None
      BY <2>1
    <3>3. using'[p] = None
      BY <3>2, SeenNext
    <3> QED BY <3>1, <3>3
  <2>2. CASE streams[p] # None
    <3>1. subs'[streams[p]] = subs[streams[p]]
      BY <2>2 DEF TypeOK, EntryOwnsSub
    <3>2. /\ using[p] = [live |-> TRUE, agent |-> subs[streams[p]].agent,
                         flow |-> subs[streams[p]].flow]
          /\ using'[p] = [live |-> TRUE, agent |-> subs'[streams'[p]].agent,
                          flow |-> subs'[streams'[p]].flow]
      BY <2>2, Seen, SeenNext
    <3> QED BY <3>1, <3>2
  <2> QED BY <2>1, <2>2
<1>4. shown'[p] = shown[p] /\ def'[p] = def[p]
  BY DEF shown, def
<1> QED BY <1>2, <1>3, <1>4 DEF Unseen

\* A step that nobody sees.
LEMMA NothingSeen ==
  ASSUME \A p \in Processes : Unseen(p)
  PROVE  UNCHANGED <<wanted, shown, def, using>>
BY DEF Unseen, wanted, shown, def, using

LEMMA ChangedAt ==
  ASSUME NEW S, NEW f, NEW g, NEW p \in S,
         f = [x \in S |-> f[x]], g = [x \in S |-> g[x]],
         \A q \in S \ {p} : g[q] = f[q]
  PROVE  g = [f EXCEPT ![p] = g[p]]
OBVIOUS

\* A step that is seen of one process only changes the switch at that process.
LEMMA OneSeen ==
  ASSUME NEW p \in Processes, \A q \in Processes \ {p} : Unseen(q)
  PROVE  /\ wanted' = [wanted EXCEPT ![p] = wanted'[p]]
         /\ shown'  = [shown  EXCEPT ![p] = shown'[p]]
         /\ def'    = [def    EXCEPT ![p] = def'[p]]
         /\ using'  = [using  EXCEPT ![p] = using'[p]]
<1>1. wanted' = [wanted EXCEPT ![p] = wanted'[p]]
  <2>1. /\ wanted = [q \in Processes |-> wanted[q]]
        /\ wanted' = [q \in Processes |-> wanted'[q]]
    BY DEF wanted
  <2> QED BY <2>1, ChangedAt DEF Unseen
<1>2. shown' = [shown EXCEPT ![p] = shown'[p]]
  <2>1. /\ shown = [q \in Processes |-> shown[q]]
        /\ shown' = [q \in Processes |-> shown'[q]]
    BY DEF shown
  <2> QED BY <2>1, ChangedAt DEF Unseen
<1>3. def' = [def EXCEPT ![p] = def'[p]]
  <2>1. /\ def = [q \in Processes |-> def[q]]
        /\ def' = [q \in Processes |-> def'[q]]
    BY DEF def
  <2> QED BY <2>1, ChangedAt DEF Unseen
<1>4. using' = [using EXCEPT ![p] = using'[p]]
  <2>1. /\ using = [q \in Processes |-> using[q]]
        /\ using' = [q \in Processes |-> using'[q]]
    BY DEF using
  <2> QED BY <2>1, ChangedAt DEF Unseen
<1> QED BY <1>1, <1>2, <1>3, <1>4

-----------------------------------------------------------------------------
(* Every step of the engine is a step of the switch or is not seen. *)


LEMMA OrderOnSeen ==
  ASSUME CarefulInv, NEW h \in Requests, Start(h)
  PROVE  [Switch!Next]_(Switch!switch)
<1>0. TypeOK /\ EntryOwnsSub /\ \A p \in Processes : Coherent(p)
  BY CoherentInv
<1>1. PICK p \in Processes : p = req[h].proc /\ req[h].pc = "start"
  BY <1>0 DEF Start, TypeOK, Request
<1>2. writes' = writes \cup UpdateState(h, p, "running")
      /\ UNCHANGED <<row, streams, subs>>
  BY <1>1 DEF Start
<1>3. RowWrites(p) = {} /\ row[p].status = "stopped" /\ streams[p] = None
  BY <1>0, <1>1, NothingPending DEF Coherent, Served
<1>4. /\ RowWrites(p)' = UpdateState(h, p, "running")
      /\ \A q \in Processes \ {p} : RowWrites(q)' = RowWrites(q)
  BY <1>2, <1>3 DEF RowWrites, UpdateState
<1>5. ~Wanted(p) /\ Wanted(p)'
  BY <1>3, <1>4 DEF Wanted, Pending, UpdateState
<1>6. \A q \in Processes \ {p} : Unseen(q)
  BY <1>0, <1>2, <1>4, NotSeen
<1>7. ~wanted[p] /\ wanted'[p] = TRUE /\ ~shown[p] /\ using[p] = None
  BY <1>3, <1>5 DEF wanted, shown, using
<1>8. UNCHANGED <<shown, def, using>>
  BY <1>2 DEF shown, def, using
<1>9. wanted' = [wanted EXCEPT ![p] = TRUE]
  BY <1>6, <1>7, OneSeen
<1> QED BY <1>7, <1>8, <1>9 DEF Switch!Next, Switch!OrderOn, Switch!Off

LEMMA OrderOffSeen ==
  ASSUME CarefulInv, NEW h \in Requests, Pause(h)
  PROVE  [Switch!Next]_(Switch!switch)
<1>0. TypeOK /\ EntryOwnsSub /\ \A p \in Processes : Coherent(p)
  BY CoherentInv
<1>1. PICK p \in Processes : p = req[h].proc /\ req[h].pc = "pause"
  BY <1>0 DEF Pause, TypeOK, Request
<1>2. /\ RowWrites(p) = {} /\ row[p].status = "running"
      /\ streams[p] # None /\ streams[p] \in Subs
  BY <1>0, <1>1, NothingPending DEF Coherent, Served, TypeOK
<1>3. /\ subs' = [subs EXCEPT ![streams[p]] = Free]
      /\ streams' = [streams EXCEPT ![p] = None]
      /\ writes' = writes \cup UpdateState(h, p, "stopped")
                          \cup ChangeAgentState(h, streamAgent, "ready")
      /\ row' = row
  BY <1>1, <1>2 DEF Pause, Killed, Dropped
<1>4. /\ RowWrites(p)' = RowWrites(p) \cup UpdateState(h, p, "stopped")
      /\ \A q \in Processes \ {p} : RowWrites(q)' = RowWrites(q)
  BY <1>3, NewUpdates
<1>5. Wanted(p) /\ ~Wanted(p)'
  BY <1>2, <1>3, <1>4 DEF Wanted, Pending, UpdateState
<1>6. ASSUME NEW q \in Processes \ {p} PROVE Unseen(q)
  <2>1. subs[streams[p]].proc = p
    BY <1>0, <1>2 DEF EntryOwnsSub
  <2>2. \A s \in Subs : subs[s].proc = q => subs'[s] = subs[s]
    BY <1>0, <1>3, <2>1 DEF TypeOK
  <2>3. row'[q] = row[q] /\ streams'[q] = streams[q]
    BY <1>0, <1>3 DEF TypeOK
  <2> QED BY <1>0, <1>4, <2>2, <2>3, NotSeen
<1>7. streams'[p] = None
  BY <1>0, <1>3 DEF TypeOK
<1>8. wanted[p] = TRUE /\ wanted'[p] = FALSE /\ shown[p] /\ using'[p] = None
  <2>1. wanted[p] = TRUE /\ wanted'[p] = FALSE
    BY <1>5 DEF wanted
  <2>2. shown[p]
    BY <1>2 DEF shown
  <2>3. using'[p] = None
    BY <1>7, SeenNext
  <2> QED BY <2>1, <2>2, <2>3
<1>9. using[p] # None
  BY <1>0, <1>2, UsingOff
<1>10. UNCHANGED <<shown, def>>
  BY <1>3 DEF shown, def
<1>11. /\ wanted' = [wanted EXCEPT ![p] = FALSE]
       /\ using' = [using EXCEPT ![p] = None]
  BY <1>6, <1>8, OneSeen
<1> QED BY <1>8, <1>9, <1>10, <1>11 DEF Switch!Next, Switch!OrderOff, Switch!Off

LEMMA SwitchOnSeen ==
  ASSUME CarefulInv, NEW h \in Requests, CreateStream(h)
  PROVE  [Switch!Next]_(Switch!switch)
<1>0. TypeOK /\ EntryOwnsSub /\ \A p \in Processes : Coherent(p)
  BY CoherentInv
<1>1. PICK p \in Processes : p = req[h].proc /\ req[h].pc = "loaded"
  BY <1>0 DEF CreateStream, TypeOK, Request
<1>2. /\ streams[p] = None /\ Wanted(p) /\ row[p].live /\ row[p].flow # None
      /\ row[p].agent = req[h].agent
      /\ req[h].seen.live /\ req[h].seen.flow = row[p].flow
  BY <1>0, <1>1 DEF Coherent, Served
<1>3. PICK s \in Subs :
        /\ ~Alive(s)
        /\ subs' = [subs EXCEPT ![s] = [proc |-> p, agent |-> row[p].agent,
                                        flow |-> row[p].flow]]
        /\ streams' = [streams EXCEPT ![p] = s]
  BY <1>1, <1>2 DEF CreateStream, Startable
<1>4. row' = row /\ \A q \in Processes : RowWrites(q)' = RowWrites(q)
  BY NewAgentUpdate DEF CreateStream
<1>5. /\ subs'[s] = [proc |-> p, agent |-> row[p].agent, flow |-> row[p].flow]
      /\ \A t \in Subs : t # s => subs'[t] = subs[t]
      /\ streams'[p] = s /\ s # None /\ subs[s].proc = None
  BY <1>0, <1>3, ConstantsAssumption DEF TypeOK, Alive, Free
<1>6. ASSUME NEW q \in Processes \ {p} PROVE Unseen(q)
  <2>1. \A t \in Subs : subs[t].proc = q => subs'[t] = subs[t]
    BY <1>5, ConstantsAssumption
  <2>2. streams'[q] = streams[q]
    BY <1>0, <1>3 DEF TypeOK
  <2> QED BY <1>0, <1>4, <2>1, <2>2, NotSeen
<1>7. Wanted(p)' <=> Wanted(p)
  BY <1>4 DEF Wanted, Pending
<1>8. wanted[p] = TRUE /\ wanted'[p] = TRUE /\ using[p] = None
  BY <1>2, <1>7 DEF wanted, using
<1>9. using'[p] = def[p]
  <2>1. using'[p] = [live |-> TRUE, agent |-> subs'[s].agent,
                     flow |-> subs'[s].flow]
    BY <1>5, SeenNext
  <2>2. row[p].live = TRUE
    BY <1>0, <1>2 DEF TypeOK, Row
  <2>3. def[p] = [live |-> row[p].live, agent |-> row[p].agent,
                  flow |-> row[p].flow]
    BY Seen
  <2>4. subs'[s].agent = row[p].agent /\ subs'[s].flow = row[p].flow
    BY <1>5
  <2> QED BY <2>1, <2>2, <2>3, <2>4
<1>10. UNCHANGED <<shown, def>>
  BY <1>4 DEF shown, def
<1>11. /\ wanted' = [wanted EXCEPT ![p] = TRUE]
       /\ using' = [using EXCEPT ![p] = def[p]]
  BY <1>6, <1>8, <1>9, OneSeen
<1>12. wanted' = wanted
  BY <1>8, <1>11 DEF wanted
<1> QED BY <1>8, <1>10, <1>11, <1>12 DEF Switch!Next, Switch!SwitchOn, Switch!Off

LEMMA EditSeen ==
  ASSUME CarefulInv, TypeOK', NEW h \in Requests,
         UpdateFlow(h) \/ Update(h) \/ Remove(h)
  PROVE  [Switch!Next]_(Switch!switch)
<1>0. TypeOK /\ EntryOwnsSub /\ \A p \in Processes : Coherent(p)
  BY CoherentInv
<1>1. PICK p \in Processes : /\ p = req[h].proc
                             /\ req[h].pc \in {"updateFlow", "update", "remove"}
  BY <1>0 DEF UpdateFlow, Update, Remove, TypeOK, Request
<1>2. /\ UNCHANGED <<writes, streams, subs>>
      /\ row'[p].status = row[p].status
      /\ \A q \in Processes : q # p => row'[q] = row[q]
  BY <1>0, <1>1 DEF UpdateFlow, Update, Remove, TypeOK, Row
<1>3. RowWrites(p) = {} /\ row[p].status = "stopped" /\ streams[p] = None
  BY <1>0, <1>1, NothingPending DEF Coherent, Served
<1>4. \A q \in Processes : RowWrites(q)' = RowWrites(q)
  BY <1>2 DEF RowWrites
<1>5. \A q \in Processes \ {p} : Unseen(q)
  BY <1>0, <1>2, <1>4, NotSeen
<1>6. ~Wanted(p) /\ ~Wanted(p)'
  BY <1>2, <1>3, <1>4 DEF Wanted, Pending
<1>7. /\ wanted[p] = FALSE /\ wanted'[p] = wanted[p]
      /\ shown[p] = FALSE /\ shown'[p] = shown[p]
      /\ using[p] = None /\ using'[p] = using[p]
  <2>1. wanted[p] = FALSE /\ wanted'[p] = FALSE
    BY <1>6 DEF wanted
  <2>2. shown[p] = FALSE /\ shown'[p] = FALSE
    BY <1>2, <1>3 DEF shown
  <2>3. using[p] = None
    BY <1>3, Seen
  <2>4. using' = using
    BY <1>2 DEF using
  <2> QED BY <2>1, <2>2, <2>3, <2>4
<1>8. UNCHANGED <<wanted, shown, using>>
  BY ZenonT(60), <1>5, <1>7 DEF Unseen, wanted, shown, using
<1>9. def' = [def EXCEPT ![p] = def'[p]]
  BY <1>5, OneSeen
<1>10. def'[p] \in Definitions
  BY DEF def, Definitions, TypeOK, Row
<1> QED BY <1>7, <1>8, <1>9, <1>10 DEF Switch!Next, Switch!Edit, Switch!Off

LEMMA ShowSeen ==
  ASSUME CarefulInv, NEW u \in writes, Execute(u)
  PROVE  [Switch!Next]_(Switch!switch)
<1>0. TypeOK /\ EntryOwnsSub /\ \A p \in Processes : Coherent(p)
  BY CoherentInv
<1>1. UNCHANGED <<req, streams, subs>> /\ writes' = writes \ {u}
  BY DEF Execute
<1>2. ASSUME NEW q \in Processes, ~(u.table = "process" /\ u.id = q)
      PROVE  Unseen(q)
  <2>1. row'[q] = row[q]
    BY <1>0, <1>2 DEF Execute, TypeOK
  <2>2. RowWrites(q)' = RowWrites(q)
    BY <1>1, <1>2 DEF RowWrites
  <2> QED BY <1>0, <1>1, <2>1, <2>2, NotSeen
<1>3. CASE u.table # "process"
  BY <1>2, <1>3, NothingSeen DEF Switch!switch
<1>4. CASE u.table = "process"
  <2>1. PICK p \in Processes : p = u.id
    BY <1>0, <1>4 DEF TypeOK, Write
  <2>2. RowWrites(p) = {u} /\ RowWrites(p)' = {}
    BY <1>0, <1>1, <1>4, <2>1 DEF RowWrites, Coherent, OneAtATime
  <2>3. u.status \in ProcessState
    BY <1>0, <1>4 DEF TypeOK, Write, ProcessState, AgentState
  <2>4. /\ row'[p].status = u.status /\ row'[p].live = row[p].live
        /\ row'[p].agent = row[p].agent /\ row'[p].flow = row[p].flow
    BY <1>0, <1>4, <2>1 DEF Execute, TypeOK, Row
  <2>5. /\ Wanted(p)' <=> Wanted(p)
        /\ Wanted(p) <=> u.status = "running"
    BY <2>2, <2>3, <2>4 DEF Wanted, Pending, ProcessState
  <2>6. \A q \in Processes \ {p} : Unseen(q)
    BY <1>2, <2>1
  <2>7. wanted'[p] = wanted[p] /\ shown'[p] = wanted[p]
    <3>1. wanted'[p] = wanted[p]
      BY <2>5, SeenWanted
    <3>2. wanted[p] = (u.status = "running")
      BY <2>5, SeenWanted
    <3>3. shown'[p] = (u.status = "running")
      BY <2>4 DEF shown
    <3> QED BY <3>1, <3>2, <3>3
  <2>8. UNCHANGED <<def, using>>
    <3>1. def' = def
      BY <2>4, <2>6 DEF def, Unseen
    <3> QED BY <1>1, <3>1 DEF using
  <2>9. wanted' = wanted
    BY <2>6, <2>7 DEF wanted, Unseen
  <2>10. shown' = [shown EXCEPT ![p] = wanted[p]]
    BY <2>6, <2>7, OneSeen
  <2>11. CASE shown[p] = wanted[p]
    <3>1. shown' = shown
      BY <2>10, <2>11 DEF shown
    <3> QED BY <2>8, <2>9, <3>1 DEF Switch!switch
  <2>12. CASE shown[p] # wanted[p]
    BY <2>8, <2>9, <2>10, <2>12 DEF Switch!Next, Switch!Show
  <2> QED BY <2>11, <2>12
<1> QED BY <1>3, <1>4

\* Requests arrive, queries are read and refused unseen.
LEMMA RestUnseen ==
  ASSUME CarefulInv, UNCHANGED <<row, writes, streams, subs>>
  PROVE  [Switch!Next]_(Switch!switch)
<1>1. \A q \in Processes : RowWrites(q)' = RowWrites(q)
  BY DEF RowWrites
<1>2. \A q \in Processes : Unseen(q)
  BY <1>1, NotSeen DEF CarefulInv
<1> QED BY <1>2, NothingSeen DEF Switch!switch

\* Under a careful operator the engine is the switch of MonitorSwitch.
THEOREM EngineIsSwitch == CarefulSpec => IsSwitch
<1>1. Init => Switch!Init
  <2> SUFFICES ASSUME Init PROVE Switch!Init
    OBVIOUS
  <2>1. ASSUME NEW p \in Processes
        PROVE  ~Wanted(p) /\ row[p].status = "stopped" /\ streams[p] = None
    BY DEF Init, Wanted, Pending, RowWrites
  <2>2. def \in [Processes -> Definitions]
    BY InitTypeOK, DefTyped DEF def
  <2>3. /\ wanted = [p \in Processes |-> FALSE]
        /\ shown = [p \in Processes |-> FALSE]
        /\ using = [p \in Processes |-> None]
    <3>1. wanted = [p \in Processes |-> FALSE]
      <4>1. \A p \in Processes : wanted[p] = FALSE
        BY <2>1, SeenWanted
      <4> QED BY <4>1 DEF wanted
    <3>2. shown = [p \in Processes |-> FALSE]
      BY <2>1 DEF shown
    <3>3. using = [p \in Processes |-> None]
      BY <2>1 DEF using
    <3> QED BY <3>1, <3>2, <3>3
  <2> QED BY <2>2, <2>3 DEF Switch!Init
<1>2. CarefulInv /\ CarefulInv' /\ [CarefulNext]_vars
        => [Switch!Next]_(Switch!switch)
  <2> SUFFICES ASSUME CarefulInv, CarefulInv', [CarefulNext]_vars
               PROVE  [Switch!Next]_(Switch!switch)
    OBVIOUS
  <2>0. TypeOK' /\ NoLoss
    BY DEF CarefulInv
  <2>1. ASSUME NEW h \in Requests, CarefulArrive(h)
        PROVE  UNCHANGED <<row, writes, streams, subs>>
    BY <2>1 DEF CarefulArrive, Command, CheckEdit, Connect
  <2>2. ASSUME NEW h \in Requests, Step(h)
        PROVE  [Switch!Next]_(Switch!switch)
    <3>1. ~Disconnected(h) /\ ~Kill(h)
      BY <2>0 DEF NoLoss, Disconnected, Kill
    <3>2. CASE Refused(h) \/ Load(h) \/ Connected(h)
      BY <3>2, RestUnseen DEF Refused, Load, Connected
    <3> QED BY <2>0, <2>2, <3>1, <3>2, OrderOnSeen, OrderOffSeen, SwitchOnSeen,
               EditSeen DEF Step
  <2>3. CASE UNCHANGED vars
    BY <2>3, RestUnseen DEF vars
  <2> QED BY <2>1, <2>2, <2>3, RestUnseen, ShowSeen DEF CarefulNext
<1> QED BY <1>1, <1>2, CarefulInvariant, PTL DEF CarefulSpec, IsSwitch, Switch!Spec

-----------------------------------------------------------------------------
(* When agents are lost. *)

Lost(p) == OneServed(p) /\ Monitored(p)

\* All that Lost(p) speaks of stays as it is.
SameOrder(p) ==
  /\ row'[p] = row[p] /\ streams'[p] = streams[p]
  /\ RowWrites(p)' = RowWrites(p)
  /\ \A h \in Requests : req[h].proc = p \/ req'[h].proc = p
                           => req'[h] = req[h]

LEMMA SameOrderLost ==
  ASSUME NEW p \in Processes, Lost(p), SameOrder(p)
  PROVE  Lost(p)'
<1>1. \A s : Pending(p, s)' <=> Pending(p, s)
  BY DEF Pending, SameOrder
<1>2. Building(p)' <=> Building(p)
  BY DEF Building, SameOrder
<1>3. Monitored(p)'
  BY <1>1, <1>2 DEF Lost, Monitored, SameOrder
<1>4. OneServed(p)'
  BY <1>1 DEF Lost, OneServed, SameOrder
<1> QED BY <1>3, <1>4 DEF Lost

\* A request that comes or goes without a process, and changes no update of a
\* process's row, is seen by none.
LEMMA NoOrder ==
  ASSUME TypeOK, NEW q \in Processes, Lost(q), NEW h \in Requests, NEW r,
         Goto(h, r), req[h].proc # q, r.proc # q,
         row'[q] = row[q], streams'[q] = streams[q],
         RowWrites(q)' = RowWrites(q)
  PROVE  Lost(q)'
<1>1. SameOrder(q)
  BY DEF SameOrder, Goto, TypeOK
<1> QED BY <1>1, SameOrderLost

\* Nothing about a settled process is pending, so what is shown running has a
\* stream.
LEMMA SettledMonitored ==
  ASSUME NEW p \in Processes, Settled(p), Lost(p)
  PROVE  /\ RowWrites(p) = {} /\ \A h \in Requests : req[h].proc # p
         /\ row[p].status = "running" => streams[p] # None
<1>1. RowWrites(p) = {} /\ \A h \in Requests : req[h].proc # p
  BY DEF Settled, RowWrites
<1> QED BY <1>1 DEF Lost, Monitored, Building, Pending

LEMMA NewOrder ==
  ASSUME TypeOK, NEW p \in Processes, Settled(p), \A x \in Processes : Lost(x),
         NEW h \in Requests, NEW r, r.proc = p, FreeSlot(h), Goto(h, r),
         UNCHANGED <<row, writes, streams>>,
         r.pc \in {"start", "pause", "updateFlow", "update", "remove"},
         r.pc = "start" => r.seen = row[p],
         NEW q \in Processes
  PROVE  Lost(q)'
<1>1. RowWrites(q)' = RowWrites(q)
  BY DEF RowWrites
<1>2. CASE q = p
  <2>1. /\ RowWrites(q)' = {} /\ \A g \in Requests : req[g].proc # p
        /\ row[p].status = "running" => streams[p] # None
    BY <1>1, <1>2, SettledMonitored
  <2>2. req'[h] = r /\ \A g \in Requests : req'[g].proc = p => g = h
    BY <2>1 DEF Goto, TypeOK
  <2>3. OneServed(q)'
    BY <1>2, <2>1, <2>2 DEF OneServed, Pending
  <2>4. Monitored(q)'
    BY <1>2, <2>1 DEF Monitored, Pending
  <2> QED BY <2>3, <2>4 DEF Lost
<1>3. CASE q # p
  <2>1. req[h].proc # q
    BY ConstantsAssumption DEF FreeSlot, Idle
  <2> QED BY <1>1, <1>3, <2>1, NoOrder
<1> QED BY <1>2, <1>3

LEMMA ArriveLost ==
  ASSUME TypeOK, \A x \in Processes : Lost(x), NEW q \in Processes,
         NEW h \in Requests,
         CarefulArrive(h) \/ \E k \in Sockets : Disconnect(h, k)
  PROVE  Lost(q)'
<1>1. ASSUME NEW p \in Processes, Settled(p),
             Command(h, p, "start") \/ Command(h, p, "pause")
      PROVE  Lost(q)'
  BY <1>1, NewOrder DEF Command, Idle
<1>2. ASSUME NEW p \in Processes, Settled(p),
             NEW op \in {"updateFlow", "update", "remove"}, NEW a, NEW f,
             CheckEdit(h, p, op, a, f)
      PROVE  Lost(q)'
  BY <1>2, NewOrder DEF CheckEdit, Idle
<1>3. ASSUME NEW r, r.proc = None, FreeSlot(h), Goto(h, r),
             UNCHANGED <<row, writes, streams>>
      PROVE  Lost(q)'
  <2>1. req[h].proc # q /\ r.proc # q
    BY <1>3, ConstantsAssumption DEF FreeSlot, Idle
  <2>2. RowWrites(q)' = RowWrites(q)
    BY <1>3 DEF RowWrites
  <2> QED BY <1>3, <2>1, <2>2, NoOrder
<1>4. ASSUME NEW a \in Agents, NEW k \in Sockets, Connect(h, a, k)
      PROVE  Lost(q)'
  BY <1>4, <1>3 DEF Connect, Idle
<1>5. ASSUME NEW k \in Sockets, Disconnect(h, k)
      PROVE  Lost(q)'
  BY <1>5, <1>3 DEF Disconnect, Idle
<1> QED BY <1>1, <1>2, <1>4, <1>5 DEF CarefulArrive

\* The request about p returns; what is left to show is what becomes of p.
LEMMA OrderEnds ==
  ASSUME TypeOK, NEW p \in Processes, Lost(p), NEW h \in Requests,
         req[h].proc = p, Return(h), Monitored(p)'
  PROVE  Lost(p)'
<1>1. \A g \in Requests : req[g].proc = p => g = h
  BY DEF Lost, OneServed
<1>2. \A g \in Requests : req'[g].proc # p
  BY <1>1, ConstantsAssumption DEF Return, Goto, Idle, TypeOK
<1> QED BY <1>2 DEF Lost, OneServed

\* A continuation of a request about another process is not seen.
LEMMA OtherOrder ==
  ASSUME TypeOK, NEW q \in Processes, Lost(q), NEW h \in Requests, NEW r,
         Goto(h, r), r.proc \in {None, req[h].proc}, req[h].proc # q,
         row'[q] = row[q], streams'[q] = streams[q],
         RowWrites(q)' = RowWrites(q)
  PROVE  Lost(q)'
BY NoOrder, ConstantsAssumption

LEMMA StreamOrderLost ==
  ASSUME TypeOK, NEW q \in Processes, Lost(q), NEW h \in Requests,
         Pause(h) \/ Start(h) \/ CreateStream(h)
  PROVE  Lost(q)'
<1> DEFINE p == req[h].proc
<1>0. p \in Processes /\ req[h] \in Request
  BY DEF TypeOK, Request, Pause, Start, CreateStream
<1>1. CASE Pause(h)
  <2>1. RowWrites(q)' = IF q = p THEN RowWrites(q) \cup UpdateState(h, p, "stopped")
                                 ELSE RowWrites(q)
    BY <1>1 DEF Pause, RowWrites, UpdateState, ChangeAgentState
  <2>2. CASE q = p
    <3>1. Pending(q, "stopped")'
      <4>1. \E w \in UpdateState(h, p, "stopped") : w.status = "stopped"
        BY DEF UpdateState
      <4> QED BY <2>1, <2>2, <4>1 DEF Pending
    <3>2. ~Pending(q, "running")
      BY <1>1, <2>1, <2>2 DEF Pause, Lost, OneServed
    <3>4. \A w \in UpdateState(h, p, "stopped") : w.status = "stopped"
      BY DEF UpdateState
    <3>5. ~Pending(q, "running")'
      BY <2>1, <2>2, <3>2, <3>4 DEF Pending
    <3>3. Monitored(q)'
      BY <3>1, <3>5 DEF Monitored
    <3> QED BY <1>1, <2>2, <3>3, OrderEnds DEF Pause
  <2>3. CASE q # p
    <3>1. streams'[q] = streams[q] /\ row'[q] = row[q]
      BY <1>1, <2>3 DEF Pause, Dropped, TypeOK
    <3> QED BY <1>1, <2>1, <2>3, <3>1, OtherOrder DEF Pause, Return, Idle
  <2> QED BY <2>2, <2>3
<1>2. CASE Start(h)
  <2>1. RowWrites(q)' = IF q = p THEN RowWrites(q) \cup UpdateState(h, p, "running")
                                 ELSE RowWrites(q)
    BY <1>2 DEF Start, RowWrites, UpdateState
  <2>2. CASE q = p
    <3>1. \A g \in Requests : req[g].proc = p => g = h
      BY <2>2 DEF Lost, OneServed
    <3>2. req'[h].pc = "load" /\ req'[h].proc = p /\ \A g \in Requests \ {h} : req'[g] = req[g]
      BY <1>2 DEF Start, Goto, Idle, TypeOK
    <3>3. row'[p] = row[p] /\ row[p].live /\ row[p].flow # None
      BY <1>2, <2>2 DEF Start, Startable, Lost, OneServed
    <3>4. OneServed(q)'
      BY <2>2, <3>1, <3>2, <3>3 DEF OneServed
    <3>5. Building(q)'
      BY <2>2, <3>2 DEF Building
    <3> QED BY <3>4, <3>5 DEF Lost, Monitored
  <2>3. CASE q # p
    <3>1. streams'[q] = streams[q] /\ row'[q] = row[q]
      BY <1>2 DEF Start
    <3> QED BY <1>2, <2>1, <2>3, <3>1, OtherOrder DEF Start, Idle
  <2> QED BY <2>2, <2>3
<1>3. CASE CreateStream(h)
  <2>1. RowWrites(q)' = RowWrites(q)
    BY <1>3 DEF CreateStream, RowWrites, ChangeAgentState
  <2>2. CASE q = p
    <3>1. Startable(req[h].seen)
      BY <1>3, <2>2 DEF CreateStream, Lost, OneServed, Startable
    <3>2. streams'[q] # None
      BY <1>3, <2>2, <3>1, ConstantsAssumption DEF CreateStream, TypeOK
    <3>3. Monitored(q)'
      BY <3>2 DEF Monitored
    <3> QED BY <1>3, <2>2, <3>3, OrderEnds DEF CreateStream
  <2>3. CASE q # p
    <3>1. streams'[q] = streams[q] /\ row'[q] = row[q]
      BY <1>3, <2>3 DEF CreateStream, TypeOK
    <3> QED BY <1>3, <2>1, <2>3, <3>1, OtherOrder DEF CreateStream, Return, Idle
  <2> QED BY <2>2, <2>3
<1> QED BY <1>1, <1>2, <1>3

LEMMA RowOrderLost ==
  ASSUME TypeOK, NEW q \in Processes, Lost(q), NEW h \in Requests,
         Refused(h) \/ Load(h) \/ UpdateFlow(h) \/ Update(h) \/ Remove(h)
  PROVE  Lost(q)'
<1> DEFINE p == req[h].proc
<1>0. p \in Processes /\ req[h] \in Request
  BY DEF TypeOK, Request, Refused, Load, UpdateFlow, Update, Remove
<1>1. RowWrites(q)' = RowWrites(q) /\ streams' = streams
  BY DEF Refused, Load, UpdateFlow, Update, Remove, RowWrites
<1>2. \A s : Pending(q, s)' <=> Pending(q, s)
  BY <1>1 DEF Pending
<1>3. CASE Load(h)
  <2>1. /\ req'[h].proc = p /\ req'[h].pc = "loaded" /\ req'[h].seen = row[p]
        /\ req[h].pc = "load" /\ row' = row
        /\ \A g \in Requests \ {h} : req'[g] = req[g]
    BY <1>0, <1>3 DEF Load, TypeOK, Request
  <2>2. CASE q = p
    <3>1. OneServed(q)'
      BY <2>1, <2>2 DEF Lost, OneServed
    <3>2. Monitored(q)'
      BY <2>1, <2>2 DEF Monitored, Building
    <3> QED BY <3>1, <3>2 DEF Lost
  <2>3. CASE q # p
    <3>1. SameOrder(q)
      BY <1>1, <2>1, <2>3 DEF SameOrder
    <3> QED BY <3>1, SameOrderLost
  <2> QED BY <2>2, <2>3
<1>4. CASE ~Load(h)
  <2>1. /\ Return(h) /\ row'[q].status = row[q].status
        /\ q # p => row'[q] = row[q]
    BY <1>0, <1>4 DEF Refused, UpdateFlow, Update, Remove, TypeOK, Row
  <2>2. CASE q = p
    <3>1. ~Building(q)
      BY <1>4, <2>2 DEF Building, Refused, UpdateFlow, Update, Remove, Lost, OneServed
    <3>2. Monitored(q)'
      BY <1>1, <1>2, <2>1, <3>1 DEF Monitored, Lost
    <3> QED BY <2>1, <2>2, <3>2, OrderEnds
  <2>3. CASE q # p
    BY <1>1, <2>1, <2>3, OtherOrder DEF Return, Idle
  <2> QED BY <2>2, <2>3
<1> QED BY <1>3, <1>4

\* A lost agent's processes are stopped: one more update that writes stopped.
LEMMA AgentStepLost ==
  ASSUME TypeOK, NEW q \in Processes, Lost(q), NEW h \in Requests,
         Connected(h) \/ Disconnected(h) \/ Kill(h)
  PROVE  Lost(q)'
<1>1. req[h].proc = None /\ req[h].proc # q
  BY ConstantsAssumption DEF TypeOK, Request, Connected, Disconnected, Kill
<1>2. row' = row /\ streams' = streams
  BY DEF Connected, Disconnected, Kill
<1>8. req'[h].proc = None /\ \A g \in Requests \ {h} : req'[g] = req[g]
  <2>1. ASSUME NEW r, r.proc = None, Goto(h, r)
        PROVE  req'[h].proc = None /\ \A g \in Requests \ {h} : req'[g] = req[g]
    BY <2>1 DEF Goto, TypeOK
  <2>2. CASE Connected(h)
    BY <2>1, <2>2 DEF Connected, Return, Idle
  <2>3. CASE Disconnected(h)
    <3>1. req[h] \in Request
      BY DEF TypeOK
    <3>2. [req[h] EXCEPT !.pc = "kill"].proc = None
      BY <1>1, <3>1 DEF Request
    <3> QED BY <2>3, <3>2 DEF Disconnected, TypeOK
  <2>4. CASE Kill(h)
    BY <2>1, <2>4 DEF Kill, Return, Idle
  <2> QED BY <2>2, <2>3, <2>4
<1>9. req'[h].proc # q
  BY <1>8, ConstantsAssumption
<1>3. \/ RowWrites(q)' = RowWrites(q)
      \/ RowWrites(q)' = RowWrites(q) \cup UpdateState(h, q, "stopped")
  <2>1. CASE Kill(h) /\ writes' # writes
    <3>1. PICK p \in req[h].todo : writes' = writes \cup UpdateState(h, p, "stopped")
      BY <2>1 DEF Kill
    <3>2. CASE p = q
      BY <3>1, <3>2 DEF RowWrites, UpdateState
    <3>3. CASE p # q
      BY <3>1, <3>3 DEF RowWrites, UpdateState
    <3> QED BY <3>2, <3>3
  <2>2. CASE writes' = writes
    BY <2>2 DEF RowWrites
  <2> QED BY <2>1, <2>2 DEF Connected, Disconnected
<1>4. /\ Pending(q, "running")' <=> Pending(q, "running")
      /\ Pending(q, "stopped") => Pending(q, "stopped")'
  BY <1>3 DEF Pending, UpdateState
<1>5. Building(q)' <=> Building(q)
  BY <1>1, <1>8, <1>9 DEF Building
<1>6. Monitored(q)'
  BY <1>2, <1>4, <1>5 DEF Lost, Monitored
<1>7. OneServed(q)'
  BY <1>1, <1>2, <1>4, <1>8, <1>9 DEF Lost, OneServed
<1> QED BY <1>6, <1>7 DEF Lost

\* An update that is executed shows what it writes.
LEMMA ExecuteLost ==
  ASSUME TypeOK, NEW q \in Processes, Lost(q), NEW u \in writes, Execute(u)
  PROVE  Lost(q)'
<1>1. UNCHANGED <<req, streams>> /\ writes' = writes \ {u}
  BY DEF Execute
<1>2. CASE u.table = "process" /\ u.id = q
  <2>1. RowWrites(q)' = RowWrites(q) \ {u} /\ u \in RowWrites(q)
    BY <1>1, <1>2 DEF RowWrites
  <2>2. u.status \in ProcessState
    BY <1>2 DEF TypeOK, Write, ProcessState, AgentState
  <2>3. /\ row'[q].status = u.status /\ row'[q].live = row[q].live
        /\ row'[q].agent = row[q].agent /\ row'[q].flow = row[q].flow
    BY <1>2 DEF Execute, TypeOK, Row
  <2>4. Pending(q, "running")' => Pending(q, "running")
    BY <2>1 DEF Pending
  <2>5. u.status = "running" => Pending(q, "running")
    BY <2>1 DEF Pending
  <2>6. Building(q)' <=> Building(q)
    BY <1>1 DEF Building
  <2>7. Monitored(q)'
    BY <1>1, <2>2, <2>3, <2>4, <2>5, <2>6 DEF Lost, Monitored, ProcessState
  <2>8. OneServed(q)'
    BY <1>1, <2>3, <2>4 DEF Lost, OneServed
  <2> QED BY <2>7, <2>8 DEF Lost
<1>3. CASE ~(u.table = "process" /\ u.id = q)
  <2>1. row'[q] = row[q]
    BY <1>3 DEF Execute, TypeOK
  <2>2. RowWrites(q)' = RowWrites(q)
    BY <1>1, <1>3 DEF RowWrites
  <2>3. SameOrder(q)
    BY <1>1, <2>1, <2>2 DEF SameOrder
  <2> QED BY <2>3, SameOrderLost
<1> QED BY <1>2, <1>3

LEMMA LossySteps == [LossyNext]_vars => [Next]_vars
BY DEF LossyNext, CarefulNext, CarefulArrive, Next, Arrive

LEMMA LossyInvariant == LossySpec => []LossyInv
<1>1. Init => LossyInv
  <2> SUFFICES ASSUME Init, NEW p \in Processes PROVE Lost(p)
    BY InitTypeOK DEF LossyInv, Lost
  <2>1. RowWrites(p) = {} /\ \A h \in Requests : req[h].proc # p
    BY ConstantsAssumption DEF Init, RowWrites, Idle
  <2>2. row[p].status = "stopped"
    BY DEF Init
  <2> QED BY <2>1, <2>2 DEF Lost, OneServed, Monitored, Pending
<1>2. LossyInv /\ [LossyNext]_vars => LossyInv'
  <2> SUFFICES ASSUME LossyInv, [LossyNext]_vars PROVE LossyInv'
    OBVIOUS
  <2>1. TypeOK'
    BY LossySteps, NextTypeOK DEF LossyInv
  <2>2. TypeOK /\ \A x \in Processes : Lost(x)
    BY DEF LossyInv, Lost
  <2>3. ASSUME NEW q \in Processes PROVE Lost(q)'
    <3>1. CASE UNCHANGED vars
      <4>1. SameOrder(q)
        BY <3>1 DEF vars, SameOrder, RowWrites
      <4> QED BY <2>2, <4>1, SameOrderLost
    <3>2. ASSUME NEW h \in Requests, Step(h) PROVE Lost(q)'
      BY <2>2, <3>2, StreamOrderLost, RowOrderLost, AgentStepLost DEF Step
    <3> QED BY <2>2, <3>1, <3>2, ArriveLost, ExecuteLost DEF LossyNext, CarefulNext
  <2> QED BY <2>1, <2>3 DEF LossyInv, Lost
<1> QED BY <1>1, <1>2, PTL DEF LossySpec

\* A process shown running has a stream, once everything about it has settled,
\* although agents are lost while a START is being served.
THEOREM RunningHasStream == LossySpec => []RunningIsMonitored
<1>1. LossyInv => RunningIsMonitored
  BY SettledMonitored DEF LossyInv, Lost, RunningIsMonitored
<1> QED BY <1>1, LossyInvariant, PTL
=============================================================================
