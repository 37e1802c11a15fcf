----------------------------- MODULE OrderPath -----------------------------
(***************************************************************************)
(* The way of an operator's order to the PLC.  handleOrder looks up the    *)
(* process, translates addresses and starts one loop over the connected    *)
(* agents for each value to be written, that of the button, the trigger,   *)
(* last; every round of a loop awaits Redis.  The agent's callback parses  *)
(* what arrives and its main loop writes it to the PLC, one event at a     *)
(* time (EdgeAgent).  Nothing is acknowledged or repeated.                 *)
(***************************************************************************)
EXTENDS AddressMap, SequencesExt

CONSTANTS
  Orders,          \* orders that are given, each once
  Settings,        \* addresses of the HMI's inputs, in order, by PLC
  Buttons,         \* addresses of its buttons, by PLC
  Values,          \* what an operator may enter
  Sockets,         \* connections of the agent, each made once
  Others,          \* connections of other agents
  ChannelSize,     \* MESSAGE_CHANNEL_SIZE
  None

ASSUME OrderAssumption ==
  /\ Settings \in [PlcIds -> Seq(Address)]
  /\ Buttons \in [PlcIds -> SUBSET Address]
  /\ Values \subseteq Int /\ ChannelSize \in Nat \ {0}
  /\ None \notin Sockets \cup Others /\ Sockets \cap Others = {}
  /\ IsFiniteSet(Others)

VARIABLES
  plcId,    \* the agent's PLC
  order,    \* what handleOrder knows of each order
  turn,     \* history: the orders, as their process was found
  redis,    \* the loops that await Redis, oldest first
  store,    \* sockets in the connection store, in order of insertion
  left,     \* history: a socket was forgotten while a loop was under way
  conn,     \* how far the server has come with each socket of the agent
  link,     \* the socket on which the agent is connected, or None
  wire,     \* writes on their way to the agent
  chan,     \* the agent's channel
  cells,    \* the PLC's memory, by cell
  handled   \* history: writes the PLC has carried out or refused, in order

server  == <<plcId, order, turn>>
gateway == <<redis, store, left, conn>>
network == <<link, wire>>
plc     == <<cells, handled>>
vars    == <<server, gateway, network, chan, plc>>

-----------------------------------------------------------------------------
Addresses == {Settings[plcId][n] : n \in DOMAIN Settings[plcId]}
               \cup Buttons[plcId]
CellOf(a) == Cell(Map(plcId), a)
Reaches(a) == Fits(Map(plcId), a)
Cells == {CellOf(a) : a \in {b \in Addresses : Reaches(b)}}

\* The labels of buttons that mean something; "BPSF" and "OFF" do the same.
Actions == {"ON", "BPSO", "OFF"}

Init ==
  /\ plcId \in PlcIds
  /\ order = [o \in Orders |-> [pc |-> "new"]] /\ turn = <<>>
  /\ redis = <<>> /\ left = FALSE
  /\ store \in [1..Cardinality(Others) -> Others]
  /\ \A k \in Others : Contains(store, k)
  /\ conn = [k \in Sockets |-> "free"]
  /\ link = None /\ wire = <<>> /\ chan = <<>>
  /\ cells = [c \in Cells |-> 0]
  /\ handled = <<>>

-----------------------------------------------------------------------------
(* handleOrder. *)

\* A button is pressed, and the order's process is looked up.
Give(o) ==
  /\ order[o].pc = "new"
  /\ \E act \in Actions, b \in Buttons[plcId] :
     \E v \in IF act = "ON" THEN [DOMAIN Settings[plcId] -> Values] ELSE {<<>>} :
       order' = [order EXCEPT ![o] = [pc |-> "asked", act |-> act,
                                      button |-> b, vals |-> v]]
  /\ UNCHANGED <<plcId, turn, gateway, network, chan, plc>>

Data(o) ==
  [n \in DOMAIN order[o].vals |->
     [order |-> o, addr |-> Settings[plcId][n], val |-> order[o].vals[n],
      trigger |-> FALSE]]

Trigger(o) ==
  [order |-> o, addr |-> order[o].button,
   val |-> IF order[o].act = "OFF" THEN 0 ELSE 1, trigger |-> TRUE]

\* Bug: the trigger goes first.
WritesHasty(o) == <<Trigger(o)>> \o Data(o)
Writes(o) == Data(o) \o <<Trigger(o)>>

\* Bug: the first connection is skipped.
LoopsFromSecond(ws) ==
  IF Len(store) < 2 THEN <<>>
  ELSE [n \in DOMAIN ws |-> [write |-> ws[n], keys |-> Tail(store)]]
Loops(ws) ==
  IF store = <<>> THEN <<>>
  ELSE [n \in DOMAIN ws |-> [write |-> ws[n], keys |-> store]]

\* The process is found, before or after that of another order.
Found(o) ==
  /\ order[o].pc = "asked"
  /\ order' = [order EXCEPT ![o].pc = "sent"]
  /\ turn' = Append(turn, o)
  /\ redis' = redis \o Loops(Writes(o))
  /\ UNCHANGED <<plcId, store, left, conn, network, chan, plc>>

-----------------------------------------------------------------------------
(* notifyAgentViaFingerprint. *)

\* The loop that goes on next.  Bug: Redis answers in any order.
ReplyAny  == DOMAIN redis
NextReply == {1} \cap DOMAIN redis

Reply ==
  \E n \in NextReply :
    LET loop == redis[n]
        k    == Head(loop.keys)
        rest == RemoveAt(redis, n)
    IN
    /\ redis' = IF Len(loop.keys) = 1 THEN rest
                ELSE Append(rest, [loop EXCEPT !.keys = Tail(@)])
    /\ wire' = IF k = link /\ Contains(store, k) THEN Append(wire, loop.write)
               ELSE wire
    /\ UNCHANGED <<server, store, left, conn, link, chan, plc>>

-----------------------------------------------------------------------------
(* The connections of agents. *)

Connect(k) ==
  /\ link = None /\ conn[k] = "free"
  /\ link' = k
  /\ conn' = [conn EXCEPT ![k] = "new"]
  /\ UNCHANGED <<server, redis, store, left, wire, chan, plc>>

Stored(k) ==
  /\ conn[k] = "new"
  /\ conn' = [conn EXCEPT ![k] = "stored"]
  /\ store' = Append(store, k)
  /\ UNCHANGED <<server, redis, left, network, chan, plc>>

LoseLink ==
  /\ link # None
  /\ link' = None /\ wire' = <<>>
  /\ UNCHANGED <<server, gateway, chan, plc>>

\* The store forgets a socket that is lost, the agent's or another's.
Disconnected(k) ==
  /\ k # link
  /\ \E n \in DOMAIN store : store[n] = k /\ store' = RemoveAt(store, n)
  /\ left' = (left \/ redis # <<>>)
  /\ UNCHANGED <<server, redis, conn, network, chan, plc>>

-----------------------------------------------------------------------------
(* The agent and its PLC. *)

Parses(w) == Reaches(w.addr) /\ w.val \in Word

ChannelHasRoom == Len(chan) < ChannelSize

\* The callback drops what is not an event: a register or a value that is
\* missing, negative, no integer or too large.
Receive ==
  /\ wire # <<>>
  /\ \/ Parses(Head(wire)) /\ ChannelHasRoom /\ chan' = Append(chan, Head(wire))
     \/ ~Parses(Head(wire)) /\ UNCHANGED chan
  /\ wire' = Tail(wire)
  /\ UNCHANGED <<server, gateway, link, plc>>

Content(w) ==
  IF CellOf(w.addr)[1] = "register" \/ w.val = 0 THEN w.val ELSE 1

\* The PLC carries out a write or refuses it; the main loop goes on.
Execute ==
  /\ chan # <<>>
  /\ chan' = Tail(chan)
  /\ handled' = Append(handled, Head(chan))
  /\ \/ cells' = [cells EXCEPT ![CellOf(Head(chan).addr)] = Content(Head(chan))]
     \/ UNCHANGED cells
  /\ UNCHANGED <<server, gateway, network>>

RestartAgent ==
  /\ link # None
  /\ link' = None /\ wire' = <<>> /\ chan' = <<>>
  /\ UNCHANGED <<server, gateway, plc>>

RestartServer ==
  /\ order' = [o \in Orders |-> IF order[o].pc = "asked"
                                THEN [order[o] EXCEPT !.pc = "sent"]
                                ELSE order[o]]
  /\ redis' = <<>> /\ store' = <<>>
  /\ conn' = [k \in Sockets |-> IF conn[k] = "free" THEN "free" ELSE "stored"]
  /\ link' = None /\ wire' = <<>>
  /\ UNCHANGED <<plcId, turn, left, chan, plc>>

-----------------------------------------------------------------------------
Next ==
  \/ \E o \in Orders : Give(o) \/ Found(o)
  \/ Reply \/ Receive \/ Execute
  \/ \E k \in Sockets : Connect(k) \/ Stored(k)
  \/ \E k \in Sockets \cup Others : Disconnected(k)
  \/ LoseLink \/ RestartAgent \/ RestartServer

Spec == Init /\ [][Next]_vars

\* Queries and Redis are answered; the agent's callback and loop run.
Fairness ==
  /\ \A o \in Orders : WF_vars(Found(o))
  /\ WF_vars(Reply) /\ WF_vars(Receive) /\ WF_vars(Execute)

FairSpec == Spec /\ Fairness
-----------------------------------------------------------------------------
Write ==
  [order : Orders, addr : Addresses, val : Values \cup {0, 1}, trigger : BOOLEAN]

Loop == [write : Write, keys : Seq(Sockets \cup Others) \ {<<>>}]

OrderState ==
  [pc : {"new"}]
    \cup [pc : {"asked", "sent"}, act : Actions, button : Buttons[plcId],
          vals : {<<>>} \cup [DOMAIN Settings[plcId] -> Values]]

TypeOK ==
  /\ plcId \in PlcIds
  /\ order \in [Orders -> OrderState]
  /\ turn \in Seq(Orders)
  /\ redis \in Seq(Loop)
  /\ store \in Seq(Sockets \cup Others) /\ left \in BOOLEAN
  /\ conn \in [Sockets -> {"free", "new", "stored"}]
  /\ link \in Sockets \cup {None} /\ wire \in Seq(Write)
  /\ chan \in Seq({w \in Write : Parses(w)}) /\ Len(chan) <= ChannelSize
  /\ cells \in [Cells -> Word]
  /\ handled \in Seq(Write)

\* The values of an order that the agent can parse.
Needed(o) == {w \in Range(Data(o)) : Parses(w)}

\* The PLC never gets an order's trigger before the order's values, those
\* that the agent could not parse left aside, whatever is lost, restarted,
\* overtaken or refused on the way (handleOrder).
TriggerFollowsData ==
  \A n \in DOMAIN handled : handled[n].trigger =>
    \A w \in Needed(handled[n].order) : \E i \in 1 .. n - 1 : handled[i] = w

Ended(o) ==
  \E n \in DOMAIN handled : handled[n].trigger /\ handled[n].order = o

Before(o, p) == \E m, n \in DOMAIN turn : m < n /\ turn[m] = o /\ turn[n] = p

\* As long as no socket is forgotten while a loop is under way, orders reach
\* the PLC one after another, in the order in which their processes were
\* found: no trigger of one with the values of another.
OrdersInTurn ==
  left \/ \A m, n \in DOMAIN handled :
            m < n => ~Before(handled[n].order, handled[m].order)

\* What the agent writes for one address never shows at another, both being
\* addresses that can be written to (parsers.service).  For the LOGO only: the
\* PLCSIM parser gives bytes and words of different areas the same register.
WritesStayPut ==
  [][\A a \in {b \in Addresses : Reaches(b) /\ Writable(Map(plcId), b)} :
       (plcId = "LOGO!" /\ cells'[CellOf(a)] # cells[CellOf(a)])
         => Head(chan).addr = a \/ ~Writable(Map(plcId), Head(chan).addr)]_vars

\* An order given to a connected agent ends at the PLC, if its trigger has a
\* register that fits and the connection is not lost.
OrdersArrive ==
  \A o \in Orders :
    (order[o].pc = "asked" /\ link # None /\ Contains(store, link)
       /\ Reaches(order[o].button))
      ~> Ended(o) \/ link = None
-----------------------------------------------------------------------------
(* The inductive invariant behind TriggerFollowsData and OrdersInTurn. *)

\* Every trigger in s has what its order needs in front of it.
Follows(s, before, need) ==
  \A n \in DOMAIN s : s[n].trigger =>
    \A w \in need[s[n].order] : w \in before \/ \E i \in 1 .. n - 1 : s[i] = w

Arrived == Range(handled) \cup Range(chan) \cup Range(wire)

PipeInv ==
  LET need == [o \in Orders |-> Needed(o)] IN
  /\ Follows(handled, {}, need)
  /\ Follows(chan, Range(handled), need)
  /\ Follows(wire, Range(handled) \cup Range(chan), need)

\* Writes are of orders whose process was found.
SentInv ==
  /\ \A w \in Arrived : order[w.order].pc = "sent"
  /\ \A n \in DOMAIN redis : order[redis[n].write.order].pc = "sent"

\* No loop knows a connection that is not stored yet.
Known(s) == \A k \in Sockets : Contains(s, k) => conn[k] = "stored"

SocketInv == Known(store) /\ \A n \in DOMAIN redis : Known(redis[n].keys)

\* Loop i comes to the agent's socket before loop j does.
Ahead(i, j) ==
  \/ i < j /\ redis[i].keys = redis[j].keys
  \/ /\ j < i /\ redis[i].keys = Tail(redis[j].keys)
     /\ Head(redis[j].keys) # link

\* A loop that will send a trigger comes after those of the values.
LoopInv ==
  \A j \in DOMAIN redis :
    redis[j].write.trigger /\ Contains(redis[j].keys, link)
                           /\ Contains(store, link) =>
      \A w \in Needed(redis[j].write.order) :
        w \in Arrived \/ \E i \in DOMAIN redis : redis[i].write = w /\ Ahead(i, j)

\* Pairs of orders, the process of the first found before that of the second.
Earlier == {d \in Orders \X Orders : Before(d[1], d[2])}

\* No write in T is of an order that is earlier than one in S.
NotBefore(T, S, earlier) ==
  \A v \in S, w \in T : <<w.order, v.order>> \notin earlier

InTurn(s, earlier) ==
  \A m, n \in DOMAIN s : m < n => <<s[n].order, s[m].order>> \notin earlier

\* An order is found once; writes are under way in the turn of their orders.
TurnInv ==
  /\ \A n \in DOMAIN turn : order[turn[n]].pc = "sent"
  /\ \A m, n \in DOMAIN turn : turn[m] = turn[n] => m = n
  /\ ~left =>
       /\ \A s \in {handled, chan, wire} : InTurn(s, Earlier)
       /\ NotBefore(Range(chan) \cup Range(wire), Range(handled), Earlier)
       /\ NotBefore(Range(wire), Range(chan), Earlier)

\* A socket is stored once.
StoredOnce ==
  \A k \in Sockets : \A m, n \in DOMAIN store :
    store[m] = k /\ store[n] = k => m = n

\* A loop that will come to the agent's socket, at place b of its keys, is of
\* no order earlier than one whose writes have arrived; it has no further to
\* go than one that starts now, and one of an earlier order comes there first.
LoopTurnInv ==
  ~left =>
    \A j \in DOMAIN redis : \A b \in DOMAIN redis[j].keys :
      redis[j].keys[b] = link =>
        /\ NotBefore({redis[j].write}, Arrived, Earlier)
        /\ \A c \in DOMAIN store : store[c] = link => b <= c
        /\ \A i \in DOMAIN redis : \A a \in DOMAIN redis[i].keys :
             /\ redis[i].keys[a] = link
             /\ <<redis[i].write.order, redis[j].write.order>> \in Earlier
             => a < b \/ (a = b /\ i < j)

PathInv ==
  /\ TypeOK /\ SentInv /\ SocketInv /\ PipeInv /\ LoopInv
  /\ TurnInv /\ StoredOnce /\ LoopTurnInv
=============================================================================
