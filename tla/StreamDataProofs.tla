------------------------- MODULE StreamDataProofs -------------------------
(***************************************************************************)
(* Theorems about the way of a sample (StreamData): its variables keep     *)
(* their types, no sample is counted twice, only samples that waited for   *)
(* the predictor are shown late, a paused process goes quiet, and a client *)
(* ends up with what the nodes are.                                        *)
(*                                                                         *)
(* Four facts carry them.  OneStream: the open subscription is the one the *)
(* manager's map holds, so a sample on the bus goes to no other.  OnePlace:*)
(* a sample is in the hands of one loop, or looked up, or on the bus, or   *)
(* has been taken, and never in two of these places.  Newest: the loop     *)
(* that tells of the last sample comes to each client after all others.    *)
(* PresentInv: the nodes that took it are those of the stream in the map,  *)
(* unless a prediction brought it.                                         *)
(***************************************************************************)
EXTENDS StreamData, TLAPS

\* A loop that shows nodes has a client to show them to.
ShowsSomebody ==
  \A i \in DOMAIN redis : redis[i].kind = "show" => redis[i].todo # <<>>

\* What the bus hands over is a sample.
BusHasSample == due.to # {} => due.sample \in Samples

TypeInv == TypeOK /\ ShowsSomebody /\ BusHasSample

OneStream ==
  /\ \A st \in Starts : phase[st] = "live" => entry = st
  /\ \A st \in Starts : phase[st] = "loading" =>
       entry = None /\ \A other \in Starts : phase[other] = "loading" => other = st
  /\ \A st \in due.to : entry = st

\* The samples in the hands of loops.
IsOf(loop, s) == loop.kind = "sample" /\ loop.id = s

Holds(q, s)  == \E i \in DOMAIN q : IsOf(q[i], s)
OnceIn(q)    == \A s \in Samples, i, j \in DOMAIN q :
                  IsOf(q[i], s) /\ IsOf(q[j], s) => i = j

OnePlace ==
  /\ OnceIn(redis)
  /\ \A s \in Samples : Holds(redis, s) =>
       s <= Len(sent) /\ s \notin db /\ due.sample # s /\ ~Taken(s)
  /\ \A s \in db : s <= Len(sent) /\ due.sample # s /\ ~Taken(s)
  /\ due.to # {} => due.sample <= Len(sent) /\ ~Taken(due.sample)
  /\ \A s \in Samples : Taken(s) => s <= Len(sent)

-----------------------------------------------------------------------------
(* The queue of loops. *)

LEMMA RestTyped ==
  ASSUME NEW q \in Seq(Loops), q # <<>>
  PROVE  /\ Tail(q) \in Seq(Loops) /\ Head(q) \in Loops
         /\ \A i \in DOMAIN Tail(q) : i + 1 \in DOMAIN q /\ Tail(q)[i] = q[i + 1]
<1>1. Tail(q) \in Seq(Loops) /\ Head(q) \in Loops /\ Len(Tail(q)) = Len(q) - 1
  OBVIOUS
<1>2. DOMAIN Tail(q) = 1..(Len(q) - 1) /\ DOMAIN q = 1..Len(q)
  BY <1>1
<1>3. \A i \in 1..(Len(q) - 1) : Tail(q)[i] = q[i + 1]
  OBVIOUS
<1>4. \A i \in 1..(Len(q) - 1) : i + 1 \in 1..Len(q)
  OBVIOUS
<1> QED BY <1>1, <1>2, <1>3, <1>4

LEMMA LoopTyped ==
  ASSUME NEW todo \in Seq(Clients)
  PROVE  /\ \A s \in Samples : SampleLoop(s, todo) \in Loops
         /\ \A st \in Starts : ShowLoop(st, todo) \in Loops
BY DEF SampleLoop, ShowLoop, Loops

\* What can be said of a loop.
LEMMA LoopCases ==
  ASSUME NEW loop \in Loops
  PROVE  /\ loop.todo \in Seq(Clients) /\ loop.kind \in {"sample", "show"}
         /\ loop.kind = "sample" => loop.id \in Samples
         /\ loop.kind = "show" => loop.id \in Starts
BY DEF Loops

-----------------------------------------------------------------------------
(* Type correctness. *)

LEMMA InitTypes == Init => TypeInv
<1> SUFFICES ASSUME Init PROVE TypeInv
  OBVIOUS
<1>1. Blank \in Shown /\ 0 \in 0..MaxSamples
  BY ConstantsAssumption DEF Blank, Shown
<1>2. /\ nodes \in [Starts -> Shown] /\ last \in [Starts -> Shown]
      /\ told \in [by : Starts \cup {None}, sample : 0 .. MaxSamples,
                  to : SUBSET Clients]
  BY <1>1 DEF Init
<1>3. view \in [Clients -> [of : Starts \cup {None}, at : Shown]]
  BY <1>1 DEF Init
<1>4. due \in [sample : 0 .. MaxSamples, to : SUBSET Starts]
  BY <1>1 DEF Init, Quiet
<1>5. /\ sent \in Seq(Sensors) /\ Len(sent) <= MaxSamples
      /\ buffer \in Seq(Samples) /\ Len(buffer) < BatchSize
  BY ConstantsAssumption DEF Init
<1>6. clients \in Seq(Clients) /\ redis \in Seq(Loops) /\ ShowsSomebody
  BY DEF Init, ShowsSomebody
<1>7. BusHasSample
  BY DEF Init, Quiet, BusHasSample
<1> QED BY <1>2, <1>3, <1>4, <1>5, <1>6, <1>7 DEF Init, TypeInv, TypeOK

\* The loops of the queue stay loops, and those that show nodes show somebody.
QueueOK(q) == /\ q \in Seq(Loops)
              /\ \A i \in DOMAIN q : q[i].kind = "show" => q[i].todo # <<>>

LEMMA QueueJoined ==
  ASSUME NEW q, NEW r, QueueOK(q), QueueOK(r)
  PROVE  QueueOK(q \o r)
<1>1. /\ Len(q) \in Nat /\ Len(r) \in Nat
      /\ DOMAIN q = 1..Len(q) /\ DOMAIN r = 1..Len(r)
      /\ q \o r \in Seq(Loops) /\ DOMAIN (q \o r) = 1..(Len(q) + Len(r))
  BY DEF QueueOK
<1>2. ASSUME NEW i \in 1..(Len(q) + Len(r)), (q \o r)[i].kind = "show"
      PROVE  (q \o r)[i].todo # <<>>
  <2>1. CASE i <= Len(q)
    <3>1. i \in DOMAIN q /\ (q \o r)[i] = q[i]
      BY <1>1, <2>1 DEF QueueOK
    <3> QED BY <1>2, <3>1 DEF QueueOK
  <2>2. CASE i > Len(q)
    <3>1. i - Len(q) \in DOMAIN r /\ (q \o r)[i] = r[i - Len(q)]
      BY <1>1, <2>2 DEF QueueOK
    <3> QED BY <1>2, <3>1 DEF QueueOK
  <2> QED BY <1>1, <2>1, <2>2
<1> QED BY <1>1, <1>2 DEF QueueOK

LEMMA QueueRest ==
  ASSUME NEW q, QueueOK(q), q # <<>>
  PROVE  QueueOK(Tail(q))
BY RestTyped DEF QueueOK

LEMMA QueueOne ==
  /\ QueueOK(<<>>)
  /\ \A loop \in Loops : (loop.kind = "show" => loop.todo # <<>>)
                           => QueueOK(<<loop>>)
BY DEF QueueOK

LEMMA QueueAsk ==
  ASSUME NEW s \in Samples
  PROVE  QueueOK(AskForAgent(s))
<1>1. SampleLoop(s, <<>>) \in Loops
  <2>1. <<>> \in Seq(Clients)
    OBVIOUS
  <2> QED BY <2>1, LoopTyped
<1>2. SampleLoop(s, <<>>).kind = "sample"
  BY DEF SampleLoop
<1> QED BY <1>1, <1>2, QueueOne DEF AskForAgent

LEMMA ShowTypes ==
  ASSUME TypeInv, NEW st \in Starts, NEW s \in Samples, Show(st, s)
  PROVE  /\ nodes' \in [Starts -> Shown] /\ QueueOK(redis')
         /\ told' \in [by : Starts \cup {None}, sample : 0 .. MaxSamples,
                      to : SUBSET Clients]
<1>1. nodes' \in [Starts -> Shown]
  <2>1. s \in 0..MaxSamples
    BY ConstantsAssumption DEF Samples
  <2>2. [nodes[st] EXCEPT ![sent[s]] = s] \in Shown
    BY <2>1 DEF TypeInv, TypeOK, Shown
  <2> QED BY <2>2 DEF Show, TypeInv, TypeOK
<1>2. QueueOK(IF clients = <<>> THEN <<>> ELSE <<ShowLoop(st, clients)>>)
  <2>1. ShowLoop(st, clients) \in Loops /\ ShowLoop(st, clients).todo = clients
    BY LoopTyped DEF TypeInv, TypeOK, ShowLoop
  <2> QED BY <2>1, QueueOne
<1>3. QueueOK(redis)
  BY DEF TypeInv, TypeOK, ShowsSomebody, QueueOK
<1>4. Range(clients) \subseteq Clients /\ s \in 0 .. MaxSamples
  BY ConstantsAssumption DEF TypeInv, TypeOK, Range, Samples
<1> QED BY <1>1, <1>2, <1>3, <1>4, QueueJoined DEF Show

LEMMA QueueTyped == TypeInv => QueueOK(redis)
BY DEF TypeInv, TypeOK, ShowsSomebody, QueueOK

\* A step that leaves all but the queue, what is looked up and what is shown.
LEMMA QueueStep ==
  ASSUME TypeInv, QueueOK(redis'), db' \subseteq Samples,
         view' \in [Clients -> [of : Starts \cup {None}, at : Shown]],
         UNCHANGED <<sent, stored, clients, online, due, streams>>
  PROVE  TypeInv'
<1>1. redis' \in Seq(Loops) /\ ShowsSomebody'
  BY DEF QueueOK, ShowsSomebody
<1>2. TypeOK'
  BY <1>1 DEF TypeInv, TypeOK, streams
<1>3. BusHasSample'
  BY DEF TypeInv, BusHasSample
<1> QED BY <1>1, <1>2, <1>3 DEF TypeInv

\* The loop in front, as it goes on when Redis has replied.
LEMMA FrontLoop ==
  ASSUME TypeInv, redis # <<>>, NEW loop \in Loops, loop = Head(redis),
         NEW on, on = [loop EXCEPT !.todo = Tail(loop.todo)]
  PROVE  /\ loop.kind = "show" => loop.todo # <<>>
         /\ loop.todo # <<>> => /\ on \in Loops /\ on.todo = Tail(loop.todo)
                                /\ on.kind = loop.kind /\ on.id = loop.id
<1>1. loop.kind = "show" => loop.todo # <<>>
  <2>1. 1 \in DOMAIN redis /\ Head(redis) = redis[1]
    BY QueueTyped DEF QueueOK
  <2> QED BY <2>1, QueueTyped DEF QueueOK
<1>2. loop.todo # <<>> => Tail(loop.todo) \in Seq(Clients)
  BY LoopCases
<1>3. CASE loop.kind = "sample"
  BY <1>1, <1>2, <1>3 DEF Loops
<1>4. CASE loop.kind = "show"
  BY <1>1, <1>2, <1>4 DEF Loops
<1> QED BY <1>3, <1>4, LoopCases

LEMMA ReplyTypes ==
  ASSUME TypeInv, Reply
  PROVE  TypeInv'
<1>0. /\ QueueOK(redis) /\ clients \in Seq(Clients) /\ online \subseteq Clients
      /\ db \subseteq Samples
      /\ nodes \in [Starts -> Shown]
      /\ view \in [Clients -> [of : Starts \cup {None}, at : Shown]]
  BY QueueTyped DEF TypeInv, TypeOK
<1>1. PICK loop \in Loops : loop = Head(redis)
  BY <1>0, RestTyped DEF Reply, QueueOK
<1>2. PICK rest : rest = Tail(redis) /\ QueueOK(rest)
  BY <1>0, QueueRest DEF Reply
<1>4. PICK on : on = [loop EXCEPT !.todo = Tail(loop.todo)]
  OBVIOUS
<1>3. loop.kind = "show" => loop.todo # <<>>
  BY <1>1, <1>4, FrontLoop DEF Reply
<1>5. loop.todo # <<>> => on \in Loops /\ on.todo = Tail(loop.todo) /\ on.kind = loop.kind
  BY <1>1, <1>4, FrontLoop DEF Reply
<1>9. UNCHANGED <<sent, stored, clients, online, due, streams>>
  BY DEF Reply
<1>6. CASE loop.kind = "show"
  <2>1. /\ redis' = IF on.todo = <<>> THEN rest ELSE Append(rest, on)
        /\ UNCHANGED db
        /\ view' = IF Head(loop.todo) \in online
                   THEN [view EXCEPT ![Head(loop.todo)] =
                           [of |-> loop.id, at |-> nodes[loop.id]]]
                   ELSE view
    BY <1>1, <1>2, <1>4, <1>6 DEF Reply
  <2>2. QueueOK(redis')
    <3>1. CASE on.todo = <<>>
      BY <1>2, <2>1, <3>1
    <3>2. CASE on.todo # <<>>
      <4>1. redis' = rest \o <<on>>
        BY <1>2, <2>1, <3>2 DEF QueueOK
      <4>2. QueueOK(<<on>>)
        BY <1>3, <1>5, <1>6, <3>2, QueueOne
      <4> QED BY <1>2, <4>1, <4>2, QueueJoined
    <3> QED BY <3>1, <3>2
  <2>3. [of |-> loop.id, at |-> nodes[loop.id]] \in [of : Starts \cup {None}, at : Shown]
    BY <1>0, <1>6, LoopCases
  <2>4. view' \in [Clients -> [of : Starts \cup {None}, at : Shown]]
    BY <1>0, <2>1, <2>3
  <2> QED BY <1>0, <1>9, <2>1, <2>2, <2>4, QueueStep
<1>7. CASE loop.kind = "sample" /\ loop.todo # <<>>
  <2>1. /\ redis' = rest \o (IF on.todo = <<>> THEN AskForAgent(loop.id) ELSE <<on>>)
        /\ UNCHANGED <<db, view>>
    BY <1>1, <1>2, <1>4, <1>7 DEF Reply
  <2>2. QueueOK(IF on.todo = <<>> THEN AskForAgent(loop.id) ELSE <<on>>)
    BY <1>5, <1>7, QueueAsk, QueueOne, LoopCases
  <2>3. QueueOK(redis')
    BY <1>2, <2>1, <2>2, QueueJoined
  <2> QED BY <1>0, <1>9, <2>1, <2>3, QueueStep
<1>8. CASE loop.kind = "sample" /\ loop.todo = <<>>
  <2>1. redis' = rest /\ db' \subseteq Samples /\ view' = view
    BY <1>0, <1>1, <1>2, <1>8, LoopCases DEF Reply
  <2> QED BY <1>0, <1>2, <1>9, <2>1, QueueStep
<1> QED BY <1>6, <1>7, <1>8, LoopCases

\* What a step of handleData leaves typed.
StreamTypes ==
  /\ nodes \in [Starts -> Shown] /\ last \in [Starts -> Shown]
  /\ buffer \in Seq(Samples) /\ Len(buffer) < BatchSize
  /\ batched \subseteq Samples /\ closers \subseteq Samples
  /\ preds \subseteq [of : Starts, sample : Samples]
  /\ told \in [by : Starts \cup {None}, sample : 0 .. MaxSamples, to : SUBSET Clients]

LEMMA HandleTypes ==
  ASSUME TypeInv, NEW st \in Starts, NEW s \in Samples, Handle(st, s),
         last' \in [Starts -> Shown]
  PROVE  StreamTypes' /\ QueueOK(redis')
<1>0. StreamTypes /\ QueueOK(redis)
  BY QueueTyped DEF TypeInv, TypeOK, StreamTypes
<1>1. CASE Len(buffer) + 1 = BatchSize
  <2>1. /\ buffer' = <<>>
        /\ preds' = preds \cup {[of |-> st, sample |-> s]}
        /\ batched' = batched \cup Range(buffer) \cup {s}
        /\ closers' = closers \cup {s}
        /\ nodes' = nodes /\ redis' = redis /\ told' = told
    BY <1>1 DEF Handle, Complete
  <2>2. Range(buffer) \subseteq Samples
    BY <1>0 DEF StreamTypes, Range
  <2>3. buffer' \in Seq(Samples) /\ Len(buffer') < BatchSize
    BY <2>1, ConstantsAssumption
  <2> QED BY <1>0, <2>1, <2>2, <2>3 DEF StreamTypes
<1>2. CASE Len(buffer) + 1 # BatchSize
  <2>1. /\ buffer' = Append(buffer, s) /\ Show(st, s)
        /\ UNCHANGED <<preds, batched, closers>>
    BY <1>2 DEF Handle
  <2>2. buffer' \in Seq(Samples) /\ Len(buffer') < BatchSize
    BY <1>0, <1>2, <2>1, ConstantsAssumption DEF StreamTypes
  <2> QED BY <1>0, <2>1, <2>2, ShowTypes DEF StreamTypes
<1> QED BY <1>1, <1>2

LEMMA DeliverTypes ==
  ASSUME TypeInv, NEW st \in Starts, Deliver(st)
  PROVE  TypeInv'
<1>0. StreamTypes /\ QueueOK(redis)
      /\ due \in [sample : 0 .. MaxSamples, to : SUBSET Starts]
  BY QueueTyped DEF TypeInv, TypeOK, StreamTypes
<1>1. due.sample \in Samples
  BY DEF TypeInv, BusHasSample, Deliver
<1>2. due' \in [sample : 0 .. MaxSamples, to : SUBSET Starts] /\ BusHasSample'
  <2>1. CASE due.to = {st}
    BY <2>1, ConstantsAssumption DEF Deliver, Quiet, BusHasSample
  <2>2. CASE due.to # {st}
    BY <1>0, <1>1, <2>2 DEF Deliver, BusHasSample
  <2> QED BY <2>1, <2>2
<1>3. StreamTypes' /\ QueueOK(redis')
  <2>1. CASE entry = None
    BY <1>0, <2>1 DEF Deliver, StreamTypes
  <2>2. CASE entry # None
    <3>1. PICK s \in Samples : s = due.sample
      BY <1>1
    <3>2. Handle(st, s) /\ last' = [last EXCEPT ![st][sent[s]] = s]
      BY <2>2, <3>1 DEF Deliver
    <3>3. last' \in [Starts -> Shown]
      <4>1. s \in 0..MaxSamples
        BY ConstantsAssumption DEF Samples
      <4>2. [last[st] EXCEPT ![sent[s]] = s] \in Shown
        BY <1>0, <4>1 DEF Shown, StreamTypes
      <4> QED BY <1>0, <3>2, <4>2 DEF StreamTypes
    <3> QED BY <3>2, <3>3, HandleTypes
  <2> QED BY <2>1, <2>2
<1>4. UNCHANGED <<sent, stored, clients, online, db, phase, entry, view>>
  BY DEF Deliver
<1>5. redis' \in Seq(Loops) /\ ShowsSomebody'
  BY <1>3 DEF QueueOK, ShowsSomebody
<1>6. TypeOK'
  BY <1>2, <1>3, <1>4, <1>5 DEF TypeInv, TypeOK, StreamTypes
<1> QED BY <1>2, <1>5, <1>6 DEF TypeInv

LEMMA PredictedTypes ==
  ASSUME TypeInv, NEW q \in preds, Predicted(q)
  PROVE  TypeInv'
<1>1. q.of \in Starts /\ q.sample \in Samples
  BY DEF TypeInv, TypeOK
<1>2. /\ nodes' \in [Starts -> Shown] /\ QueueOK(redis')
      /\ told' \in [by : Starts \cup {None}, sample : 0 .. MaxSamples,
                   to : SUBSET Clients]
  BY <1>1, ShowTypes DEF Predicted
<1>3. redis' \in Seq(Loops) /\ ShowsSomebody'
  BY <1>2 DEF QueueOK, ShowsSomebody
<1>4. TypeOK'
  BY <1>2, <1>3 DEF TypeInv, TypeOK, Predicted
<1>5. BusHasSample'
  BY DEF TypeInv, BusHasSample, Predicted
<1> QED BY <1>3, <1>4, <1>5 DEF TypeInv

LEMMA ReceiveTypes ==
  ASSUME TypeInv, NEW x \in Sensors, Receive(x)
  PROVE  TypeInv'
<1>1. PICK s \in Samples : s = Len(sent) + 1
  BY ConstantsAssumption DEF Receive, TypeInv, TypeOK, Samples
<1>2. /\ redis' = redis \o (IF clients = <<>> THEN AskForAgent(s)
                            ELSE <<SampleLoop(s, clients)>>)
      /\ sent' = Append(sent, x)
      /\ UNCHANGED <<stored, clients, online, db, due, streams, view>>
  BY <1>1 DEF Receive
<1>3. QueueOK(IF clients = <<>> THEN AskForAgent(s) ELSE <<SampleLoop(s, clients)>>)
  <2>1. SampleLoop(s, clients) \in Loops
    BY LoopTyped DEF TypeInv, TypeOK
  <2>2. SampleLoop(s, clients).kind = "sample"
    BY DEF SampleLoop
  <2> QED BY <2>1, <2>2, QueueOne, QueueAsk
<1>4. QueueOK(redis')
  BY <1>2, <1>3, QueueTyped, QueueJoined
<1>5. redis' \in Seq(Loops) /\ ShowsSomebody'
  BY <1>4 DEF QueueOK, ShowsSomebody
<1>6. sent' \in Seq(Sensors) /\ Len(sent') <= MaxSamples
  BY <1>1, <1>2 DEF TypeInv, TypeOK, Samples
<1>7. TypeOK'
  BY <1>2, <1>5, <1>6 DEF TypeInv, TypeOK, streams
<1>8. BusHasSample'
  BY <1>2 DEF TypeInv, BusHasSample
<1> QED BY <1>5, <1>7, <1>8 DEF TypeInv

LEMMA NextTypes == TypeInv /\ [Next]_vars => TypeInv'
<1> SUFFICES ASSUME TypeInv, [Next]_vars PROVE TypeInv'
  OBVIOUS
<1>1. ASSUME UNCHANGED <<redis, due>>, TypeOK' PROVE TypeInv'
  BY <1>1 DEF TypeInv, ShowsSomebody, BusHasSample
<1>2. ASSUME NEW c \in Clients, Join(c) \/ Leave(c) PROVE TypeInv'
  <2>1. clients' \in Seq(Clients) /\ online' \subseteq Clients
    <3>1. Append(clients, c) \in Seq(Clients)
      BY DEF TypeInv, TypeOK
    <3>2. CASE Join(c)
      BY <3>1, <3>2 DEF TypeInv, TypeOK, Join
    <3>3. CASE Leave(c)
      BY <3>3 DEF TypeInv, TypeOK, Leave
    <3> QED BY <1>2, <3>2, <3>3
  <2>2. UNCHANGED <<sent, stored, redis, db, due, streams, view>>
    BY <1>2 DEF Join, Leave
  <2> QED BY <1>1, <2>1, <2>2 DEF TypeInv, TypeOK, streams
<1>3. CASE StoreAgent \/ ForgetAgent
  BY <1>1, <1>3 DEF TypeInv, TypeOK, StoreAgent, ForgetAgent, streams
<1>4. ASSUME NEW st \in Starts, Start(st) PROVE TypeInv'
  BY <1>1, <1>4 DEF TypeInv, TypeOK, Start, gateway
<1>5. ASSUME NEW st \in Starts, Started(st) PROVE TypeInv'
  BY <1>1, <1>5, ConstantsAssumption DEF TypeInv, TypeOK, Started, gateway
<1>6. CASE Pause
  BY <1>1, <1>6, ConstantsAssumption DEF TypeInv, TypeOK, Pause, gateway
<1>7. ASSUME NEW s \in Samples, Found(s) PROVE TypeInv'
  <2>1. due' \in [sample : 0 .. MaxSamples, to : SUBSET Starts] /\ BusHasSample'
    <3>1. s \in 0..MaxSamples /\ Quiet \in [sample : 0 .. MaxSamples, to : SUBSET Starts]
      BY ConstantsAssumption DEF Samples, Quiet
    <3> QED BY <1>7, <3>1 DEF Found, BusHasSample, Quiet
  <2>2. TypeOK'
    BY <1>7, <2>1 DEF TypeInv, TypeOK, Found, streams
  <2> QED BY <1>7, <2>1, <2>2 DEF TypeInv, ShowsSomebody, Found
<1>8. CASE UNCHANGED vars
  BY <1>1, <1>8 DEF TypeInv, TypeOK, vars
<1> QED BY <1>2, <1>3, <1>4, <1>5, <1>6, <1>7, <1>8, ReplyTypes, DeliverTypes,
           PredictedTypes, ReceiveTypes DEF Next

\* Every variable keeps its type; in particular the buffer of a stream is never
\* as long as a batch.
THEOREM SampleTypes == Spec => []TypeOK
<1>1. Spec => []TypeInv
  BY InitTypes, NextTypes, PTL DEF Spec
<1> QED BY <1>1, PTL DEF TypeInv

-----------------------------------------------------------------------------
(* One stream at a time. *)

LEMMA OneStreamStep ==
  ASSUME TypeInv, OneStream, [Next]_vars
  PROVE  OneStream'
<1>0. phase \in [Starts -> {"unused", "loading", "live", "dead"}]
  BY DEF TypeInv, TypeOK
<1>1. CASE UNCHANGED <<phase, entry, due>>
  BY <1>1 DEF OneStream
<1>2. ASSUME NEW st \in Starts, Start(st) PROVE OneStream'
  BY <1>0, <1>2 DEF OneStream, Start, Quiet
<1>3. ASSUME NEW st \in Starts, Started(st) PROVE OneStream'
  BY <1>0, <1>3, ConstantsAssumption DEF OneStream, Started, Quiet
<1>4. CASE Pause
  BY <1>0, <1>4 DEF OneStream, Pause, Quiet
<1>5. ASSUME NEW s \in Samples, Found(s) PROVE OneStream'
  BY <1>0, <1>5 DEF OneStream, Found, Quiet, streams
<1>6. ASSUME NEW st \in Starts, Deliver(st) PROVE OneStream'
  BY <1>0, <1>6 DEF OneStream, Deliver, Quiet
<1>7. CASE \/ \E c \in Clients : Join(c) \/ Leave(c)
           \/ StoreAgent \/ ForgetAgent \/ Reply
           \/ \E x \in Sensors : Receive(x)
           \/ \E q \in preds : Predicted(q)
           \/ UNCHANGED vars
  BY <1>1, <1>7 DEF Join, Leave, StoreAgent, ForgetAgent, Reply, Receive,
                    Predicted, vars, streams
<1> QED BY <1>2, <1>3, <1>4, <1>5, <1>6, <1>7 DEF Next

LEMMA InitOneStream == Init => OneStream
BY DEF Init, OneStream, Quiet

-----------------------------------------------------------------------------
(* A sample is in one place at a time. *)

\* Loops that go on or end hold no sample that they did not hold before.
LEMMA QueueRotates ==
  ASSUME NEW q, QueueOK(q), q # <<>>, OnceIn(q),
         NEW r, QueueOK(r), Len(r) <= 1,
         \A s \in Samples : Holds(r, s) => IsOf(Head(q), s)
  PROVE  /\ OnceIn(Tail(q) \o r)
         /\ \A s \in Samples : Holds(Tail(q) \o r, s) => Holds(q, s)
<1> USE DEF OnceIn, Holds
<1>1. PICK n \in Nat : n = Len(q) /\ n > 0 /\ DOMAIN q = 1..n
  BY DEF QueueOK
<1>2. PICK w : w = Tail(q) \o r
  OBVIOUS
<1>3. /\ Tail(q) \in Seq(Loops) /\ Len(Tail(q)) = n - 1
      /\ r \in Seq(Loops) /\ Len(r) \in Nat /\ DOMAIN r = 1..Len(r)
  BY <1>1 DEF QueueOK
<1>4. /\ DOMAIN w = 1..(n - 1 + Len(r))
      /\ \A i \in 1..(n - 1) : w[i] = Tail(q)[i]
      /\ \A i \in n..(n - 1 + Len(r)) : w[i] = r[i - n + 1]
  BY <1>1, <1>2, <1>3
<1>5. \A i \in 1..(n - 1) : Tail(q)[i] = q[i + 1] /\ i + 1 \in DOMAIN q
  BY <1>1, RestTyped DEF QueueOK
<1>6. Head(q) = q[1] /\ 1 \in DOMAIN q
  BY <1>1 DEF QueueOK
<1>7. ASSUME NEW s \in Samples, NEW i \in DOMAIN w, IsOf(w[i], s)
      PROVE  /\ i \in 1..n
             /\ i # n => i + 1 \in DOMAIN q /\ IsOf(q[i + 1], s)
             /\ i = n => IsOf(q[1], s)
  <2>1. CASE i \in 1..(n - 1)
    BY <1>1, <1>4, <1>5, <1>7, <2>1
  <2>2. CASE i \notin 1..(n - 1)
    <3>1. i = n /\ Len(r) = 1
      BY <1>1, <1>3, <1>4, <2>2
    <3>2. w[i] = r[1] /\ 1 \in DOMAIN r
      BY <1>1, <1>3, <1>4, <3>1
    <3> QED BY <1>6, <1>7, <3>1, <3>2
  <2> QED BY <2>1, <2>2
<1>8. ASSUME NEW s \in Samples, NEW i \in DOMAIN w, NEW j \in DOMAIN w,
             IsOf(w[i], s), IsOf(w[j], s)
      PROVE  i = j
  <2>1. /\ i \in 1..n /\ j \in 1..n
        /\ i # n => i + 1 \in DOMAIN q /\ IsOf(q[i + 1], s)
        /\ i = n => IsOf(q[1], s)
        /\ j # n => j + 1 \in DOMAIN q /\ IsOf(q[j + 1], s)
        /\ j = n => IsOf(q[1], s)
    BY <1>7, <1>8
  <2>2. /\ i # n /\ j # n => i + 1 = j + 1
        /\ i # n /\ j = n => i + 1 = 1
        /\ i = n /\ j # n => 1 = j + 1
    BY <1>6, <2>1
  <2> QED BY <1>1, <2>1, <2>2
<1>9. ASSUME NEW s \in Samples, NEW i \in DOMAIN w, IsOf(w[i], s)
      PROVE  \E k \in DOMAIN q : IsOf(q[k], s)
  BY <1>6, <1>7, <1>9
<1> QED BY <1>2, <1>8, <1>9

\* A queue that grows by one loop holds what it held, and the new loop's sample.
LEMMA QueueGrows ==
  ASSUME NEW q, QueueOK(q), OnceIn(q), NEW r, QueueOK(r), Len(r) <= 1,
         \A s \in Samples : Holds(r, s) => ~Holds(q, s)
  PROVE  /\ OnceIn(q \o r)
         /\ \A s \in Samples : Holds(q \o r, s) => Holds(q, s) \/ Holds(r, s)
<1> USE DEF OnceIn, Holds
<1>1. PICK n \in Nat : n = Len(q) /\ DOMAIN q = 1..n
  BY DEF QueueOK
<1>2. PICK w : w = q \o r
  OBVIOUS
<1>3. r \in Seq(Loops) /\ Len(r) \in Nat /\ DOMAIN r = 1..Len(r)
  BY DEF QueueOK
<1>4. /\ DOMAIN w = 1..(n + Len(r))
      /\ \A i \in 1..n : w[i] = q[i]
      /\ \A i \in (n + 1)..(n + Len(r)) : w[i] = r[i - n]
  BY <1>1, <1>2, <1>3 DEF QueueOK
<1>5. ASSUME NEW i \in DOMAIN w
      PROVE  \/ i \in DOMAIN q /\ w[i] = q[i]
             \/ i = n + 1 /\ 1 \in DOMAIN r /\ w[i] = r[1]
  <2>1. CASE i \in 1..n
    BY <1>1, <1>4, <2>1
  <2>2. CASE i \notin 1..n
    <3>1. i = n + 1 /\ Len(r) = 1
      BY <1>1, <1>3, <1>4, <2>2
    <3> QED BY <1>1, <1>3, <1>4, <3>1
  <2> QED BY <2>1, <2>2
<1>6. ASSUME NEW s \in Samples, NEW i \in DOMAIN w, NEW j \in DOMAIN w,
             IsOf(w[i], s), IsOf(w[j], s)
      PROVE  i = j
  BY <1>5, <1>6
<1>7. ASSUME NEW s \in Samples, NEW i \in DOMAIN w, IsOf(w[i], s)
      PROVE  \/ \E k \in DOMAIN q : IsOf(q[k], s)
             \/ \E k \in DOMAIN r : IsOf(r[k], s)
  BY <1>5, <1>7
<1> QED BY <1>2, <1>6, <1>7

\* The loop in front holds its sample, and without it nobody does.
LEMMA QueueFront ==
  ASSUME NEW q, QueueOK(q), q # <<>>, OnceIn(q), NEW s \in Samples,
         IsOf(Head(q), s)
  PROVE  /\ Holds(q, s) /\ ~Holds(Tail(q), s)
         /\ OnceIn(Tail(q))
         /\ \A x \in Samples : Holds(Tail(q), x) => Holds(q, x)
<1>1. 1 \in DOMAIN q /\ Head(q) = q[1]
  BY DEF QueueOK
<1>2. \A i \in DOMAIN Tail(q) : i + 1 \in DOMAIN q /\ Tail(q)[i] = q[i + 1]
  BY RestTyped DEF QueueOK
<1>3. \A i \in DOMAIN Tail(q) : i \in Nat /\ i + 1 # 1
  BY RestTyped DEF QueueOK
<1>4. OnceIn(Tail(q))
  <2> SUFFICES ASSUME NEW x \in Samples, NEW i \in DOMAIN Tail(q),
                      NEW j \in DOMAIN Tail(q),
                      IsOf(Tail(q)[i], x), IsOf(Tail(q)[j], x)
               PROVE  i = j
    BY DEF OnceIn
  <2>1. i + 1 = j + 1
    BY <1>2 DEF OnceIn
  <2> QED BY <1>3, <2>1
<1> QED BY <1>1, <1>2, <1>3, <1>4 DEF OnceIn, Holds

LEMMA NoneHeld ==
  /\ \A s \in Samples : ~Holds(<<>>, s)
  /\ \A todo : \A s \in Samples, st \in Starts : ~Holds(<<ShowLoop(st, todo)>>, s)
  /\ \A todo : \A s, t \in Samples : Holds(<<SampleLoop(t, todo)>>, s) => s = t
BY DEF Holds, IsOf, ShowLoop, SampleLoop

\* Nodes that are shown are no samples.
LEMMA ShowHolds ==
  ASSUME TypeInv, OnceIn(redis), NEW st \in Starts, NEW s \in Samples, Show(st, s)
  PROVE  OnceIn(redis') /\ \A x \in Samples : Holds(redis', x) => Holds(redis, x)
<1>1. PICK r : /\ redis' = redis \o r
               /\ r = IF clients = <<>> THEN <<>> ELSE <<ShowLoop(st, clients)>>
  BY DEF Show
<1>2. Len(r) <= 1
  BY <1>1
<1>3. QueueOK(r)
  <2>1. ShowLoop(st, clients) \in Loops /\ ShowLoop(st, clients).todo = clients
    BY LoopTyped DEF TypeInv, TypeOK, ShowLoop
  <2> QED BY <1>1, <2>1, QueueOne
<1>4. \A x \in Samples : ~Holds(r, x)
  BY <1>1, NoneHeld
<1> QED BY <1>1, <1>2, <1>3, <1>4, QueueTyped, QueueGrows

-----------------------------------------------------------------------------

LEMMA ReceivePlace ==
  ASSUME TypeInv, OnePlace, NEW x \in Sensors, Receive(x)
  PROVE  OnePlace'
<1>0. PICK n \in Nat : n = Len(sent)
  BY DEF TypeInv, TypeOK
<1>1. PICK s \in Samples : s = n + 1
  BY <1>0, ConstantsAssumption DEF Receive, Samples
<1>2. Len(sent') = n + 1 /\ UNCHANGED <<db, due, batched, buffer>>
  BY <1>0 DEF Receive, TypeInv, TypeOK, streams
<1>3. PICK r : /\ redis' = redis \o r
               /\ r = IF clients = <<>> THEN AskForAgent(s)
                      ELSE <<SampleLoop(s, clients)>>
  BY <1>0, <1>1 DEF Receive
<1>4. QueueOK(r)
  <2>1. SampleLoop(s, clients) \in Loops
    BY LoopTyped DEF TypeInv, TypeOK
  <2>2. SampleLoop(s, clients).kind = "sample"
    BY DEF SampleLoop
  <2> QED BY <1>3, <2>1, <2>2, QueueOne, QueueAsk
<1>5. Len(r) <= 1 /\ \A t \in Samples : Holds(r, t) => t = s
  BY <1>3, NoneHeld DEF AskForAgent
<1>6. \A t \in Samples : Holds(redis, t) => t # s
  BY <1>0, <1>1 DEF OnePlace, Samples
<1>7. OnceIn(redis') /\ \A t \in Samples : Holds(redis', t) => Holds(redis, t) \/ t = s
  BY <1>3, <1>4, <1>5, <1>6, QueueTyped, QueueGrows DEF OnePlace
<1>8. \A t : Taken(t)' <=> Taken(t)
  BY <1>2 DEF Taken
<1>9. due.to = {} /\ due.sample = 0
  BY DEF Receive, Quiet
<1>10. ASSUME NEW t \in Samples PROVE t <= n => t <= n + 1 /\ t # s
  BY <1>1 DEF Samples
<1>11. s \notin db /\ ~Taken(s) /\ s # 0
  BY <1>0, <1>1 DEF OnePlace, Samples
<1>12. db \subseteq Samples
  BY DEF TypeInv, TypeOK
<1> QED BY <1>0, <1>1, <1>2, <1>7, <1>8, <1>9, <1>10, <1>11, <1>12 DEF OnePlace

LEMMA ReplyPlace ==
  ASSUME TypeInv, OnePlace, Reply
  PROVE  OnePlace'
<1>0. /\ QueueOK(redis) /\ redis # <<>> /\ OnceIn(redis)
      /\ UNCHANGED <<sent, due, batched, buffer>> /\ due.to = {} /\ due.sample = 0
  BY QueueTyped DEF Reply, OnePlace, streams, Quiet
<1>1. PICK loop \in Loops : loop = Head(redis)
  BY <1>0, RestTyped DEF QueueOK
<1>2. PICK on : on = [loop EXCEPT !.todo = Tail(loop.todo)]
  OBVIOUS
<1>3. QueueOK(Tail(redis))
  BY <1>0, QueueRest
<1>4. \A t : Taken(t)' <=> Taken(t)
  BY <1>0 DEF Taken
<1>5. ASSUME NEW r, redis' = Tail(redis) \o r, QueueOK(r), Len(r) <= 1, db' = db,
             \A s \in Samples : Holds(r, s) => IsOf(loop, s)
      PROVE  OnePlace'
  <2>1. OnceIn(redis') /\ \A t \in Samples : Holds(redis', t) => Holds(redis, t)
    BY <1>0, <1>1, <1>5, QueueRotates
  <2> QED BY <1>0, <1>4, <1>5, <2>1 DEF OnePlace
<1>6. CASE loop.kind = "show" \/ loop.todo # <<>>
  <2>1. /\ on \in Loops /\ on.kind = loop.kind /\ on.id = loop.id
        /\ loop.kind = "show" => loop.todo # <<>>
    BY <1>0, <1>1, <1>2, <1>6, FrontLoop
  <2>2. \A s \in Samples : Holds(<<on>>, s) => IsOf(loop, s)
    BY <2>1 DEF Holds, IsOf
  <2>3. CASE loop.kind = "show"
    <3>1. db' = db /\ redis' = IF on.todo = <<>> THEN Tail(redis)
                                ELSE Append(Tail(redis), on)
      BY <1>1, <1>2, <2>3 DEF Reply
    <3>2. CASE on.todo = <<>>
      <4>1. redis' = Tail(redis) \o <<>>
        BY <1>3, <3>1, <3>2 DEF QueueOK
      <4>2. QueueOK(<<>>) /\ Len(<<>>) <= 1 /\ \A s \in Samples : ~Holds(<<>>, s)
        BY QueueOne, NoneHeld
      <4> QED BY <1>5, <3>1, <4>1, <4>2
    <3>3. CASE on.todo # <<>>
      <4>1. redis' = Tail(redis) \o <<on>>
        BY <1>3, <3>1, <3>3 DEF QueueOK
      <4>2. QueueOK(<<on>>) /\ Len(<<on>>) <= 1
        BY <2>1, <3>3, QueueOne
      <4> QED BY <1>5, <2>2, <3>1, <4>1, <4>2
    <3> QED BY <3>2, <3>3
  <2>4. CASE loop.kind = "sample"
    <3>1. loop.todo # <<>> /\ loop.id \in Samples
      BY <1>6, <2>4, LoopCases
    <3>2. PICK r : /\ r = IF on.todo = <<>> THEN AskForAgent(loop.id) ELSE <<on>>
                   /\ redis' = Tail(redis) \o r /\ db' = db
      BY <1>1, <1>2, <2>4, <3>1 DEF Reply
    <3>3. QueueOK(r)
      BY <2>1, <2>4, <3>1, <3>2, QueueOne, QueueAsk
    <3>4. Len(r) <= 1
      BY <3>2 DEF AskForAgent
    <3>5. \A s \in Samples : Holds(AskForAgent(loop.id), s) => s = loop.id
      BY <3>1, NoneHeld DEF AskForAgent
    <3>6. \A s \in Samples : Holds(r, s) => IsOf(loop, s)
      BY <2>2, <2>4, <3>2, <3>5 DEF IsOf
    <3> QED BY <1>5, <3>2, <3>3, <3>4, <3>6
  <2> QED BY <2>3, <2>4, LoopCases
<1>7. CASE loop.kind = "sample" /\ loop.todo = <<>>
  <2>1. /\ redis' = Tail(redis) /\ loop.id \in Samples
        /\ db' = db \/ db' = db \cup {loop.id}
    BY <1>1, <1>7, LoopCases DEF Reply
  <2>2. IsOf(Head(redis), loop.id)
    BY <1>1, <1>7 DEF IsOf
  <2>3. /\ Holds(redis, loop.id) /\ ~Holds(redis', loop.id) /\ OnceIn(redis')
        /\ \A x \in Samples : Holds(redis', x) => Holds(redis, x)
    BY <1>0, <2>1, <2>2, QueueFront
  <2> QED BY <1>0, <1>4, <2>1, <2>3 DEF OnePlace, Samples
<1> QED BY <1>6, <1>7, LoopCases

LEMMA FoundPlace ==
  ASSUME TypeInv, OnePlace, NEW s \in Samples, Found(s)
  PROVE  OnePlace'
<1>1. /\ UNCHANGED <<sent, redis, batched, buffer>> /\ s \in db
      /\ db' = db \ {s} /\ (due' = Quiet \/ due'.sample = s)
  BY DEF Found, streams
<1>2. \A t : Taken(t)' <=> Taken(t)
  BY <1>1 DEF Taken
<1>3. /\ s <= Len(sent) /\ ~Taken(s) /\ \A t \in Samples : Holds(redis, t) => t # s
  BY <1>1 DEF OnePlace
<1>4. db \subseteq Samples
  BY DEF TypeInv, TypeOK
<1>5. CASE due' = Quiet
  <2>1. due'.to = {} /\ due'.sample = 0 /\ \A t \in Samples : t # 0
    BY <1>5 DEF Quiet, Samples
  <2> QED BY <1>1, <1>2, <1>4, <2>1 DEF OnePlace
<1>6. CASE due'.sample = s
  BY <1>1, <1>2, <1>3, <1>6 DEF OnePlace
<1> QED BY <1>1, <1>5, <1>6

LEMMA RangeAppended ==
  ASSUME NEW S, NEW q \in Seq(S), NEW e \in S
  PROVE  Range(Append(q, e)) = Range(q) \cup {e}
<1>1. PICK n \in Nat : n = Len(q) /\ DOMAIN q = 1..n
  OBVIOUS
<1>2. PICK w : w = Append(q, e)
  OBVIOUS
<1>3. /\ DOMAIN w = 1..(n + 1) /\ w[n + 1] = e
      /\ \A i \in 1..n : w[i] = q[i]
  BY <1>1, <1>2
<1>4. Range(q) \cup {e} \subseteq Range(w)
  <2>1. n + 1 \in DOMAIN w /\ \A i \in 1..n : i \in DOMAIN w
    BY <1>1, <1>3
  <2> QED BY <1>1, <1>3, <2>1 DEF Range
<1>5. Range(w) \subseteq Range(q) \cup {e}
  <2>1. \A i \in 1..(n + 1) : i = n + 1 \/ i \in 1..n
    BY <1>1
  <2> QED BY <1>1, <1>3, <2>1 DEF Range
<1> QED BY <1>2, <1>4, <1>5

\* The stream that a sample is handed to takes it.
LEMMA HandleTakes ==
  ASSUME TypeInv, OneStream, NEW st \in Starts, Deliver(st)
  PROVE  /\ due' = Quiet
         /\ Handle(st, due.sample)
         /\ last' = [last EXCEPT ![st][sent[due.sample]] = due.sample]
         /\ \A s : Taken(s)' <=> Taken(s) \/ s = due.sample
<1>1. due.to = {st} /\ entry = st
  <2>1. st \in due.to /\ \A x \in due.to : entry = x
    BY DEF Deliver, OneStream
  <2> QED BY <2>1
<1>2. entry # None
  BY <1>1, ConstantsAssumption
<1>3. due' = Quiet /\ Handle(st, due.sample)
  BY <1>1, <1>2 DEF Deliver
<1>4. last' = [last EXCEPT ![st][sent[due.sample]] = due.sample]
  BY <1>2 DEF Deliver
<1>5. PICK v : v = due.sample
  OBVIOUS
<1>6. \A s : Taken(s)' <=> Taken(s) \/ s = v
  <2>1. buffer \in Seq(Samples) /\ v \in Samples
    BY <1>5 DEF TypeInv, TypeOK, BusHasSample, Deliver
  <2>2. CASE Len(buffer) + 1 = BatchSize
    <3>1. buffer' = <<>> /\ batched' = batched \cup Range(buffer) \cup {v}
      BY <1>3, <1>5, <2>2 DEF Handle, Complete
    <3>2. Range(buffer') = {}
      BY <3>1 DEF Range
    <3> QED BY <3>1, <3>2 DEF Taken
  <2>3. CASE Len(buffer) + 1 # BatchSize
    <3>1. buffer' = Append(buffer, v) /\ batched' = batched
      BY <1>3, <1>5, <2>3 DEF Handle
    <3>2. Range(buffer') = Range(buffer) \cup {v}
      BY <2>1, <3>1, RangeAppended
    <3> QED BY <3>1, <3>2 DEF Taken
  <2> QED BY <2>2, <2>3
<1> QED BY <1>3, <1>4, <1>5, <1>6

LEMMA DeliverPlace ==
  ASSUME TypeInv, OneStream, OnePlace, NEW st \in Starts, Deliver(st)
  PROVE  OnePlace'
<1>1. /\ UNCHANGED <<sent, db>> /\ due.to # {}
      /\ db \subseteq Samples
  BY DEF Deliver, TypeInv, TypeOK
<1>2. PICK s \in Samples : s = due.sample
  BY <1>1 DEF TypeInv, BusHasSample
<1>3. /\ due'.to = {} /\ due'.sample = 0 /\ \A t \in Samples : t # 0
      /\ \A t : Taken(t)' <=> Taken(t) \/ t = s
      /\ Handle(st, s)
  BY <1>2, HandleTakes DEF Quiet, Samples
<1>4. OnceIn(redis') /\ \A t \in Samples : Holds(redis', t) => Holds(redis, t)
  <2>1. CASE Len(buffer) + 1 = BatchSize
    BY <1>3, <2>1 DEF Handle, Complete, OnePlace
  <2>2. CASE Len(buffer) + 1 # BatchSize
    <3>1. Show(st, s)
      BY <1>3, <2>2 DEF Handle
    <3> QED BY <3>1, ShowHolds DEF OnePlace
  <2> QED BY <2>1, <2>2
<1>5. s <= Len(sent) /\ \A t \in Samples : Holds(redis, t) \/ t \in db => t # s
  BY <1>1, <1>2 DEF OnePlace
<1> QED BY <1>1, <1>3, <1>4, <1>5 DEF OnePlace

LEMMA OnePlaceStep ==
  ASSUME TypeInv, OneStream, OnePlace, [Next]_vars
  PROVE  OnePlace'
<1>1. ASSUME UNCHANGED <<sent, redis, db, due, batched>>,
             buffer' = buffer \/ buffer' = <<>>
      PROVE  OnePlace'
  <2>1. \A s : Taken(s)' => Taken(s)
    BY <1>1 DEF Taken, Range
  <2> QED BY <1>1, <2>1 DEF OnePlace
<1>2. ASSUME NEW c \in Clients, Join(c) \/ Leave(c) PROVE OnePlace'
  BY <1>1, <1>2 DEF Join, Leave, streams
<1>3. CASE StoreAgent \/ ForgetAgent \/ UNCHANGED vars
  BY <1>1, <1>3 DEF StoreAgent, ForgetAgent, streams, vars
<1>4. ASSUME NEW st \in Starts, Start(st) \/ Started(st) PROVE OnePlace'
  BY <1>1, <1>4 DEF Start, Started, gateway
<1>5. CASE Pause
  BY <1>1, <1>5 DEF Pause, gateway
<1>6. ASSUME NEW q \in preds, Predicted(q) PROVE OnePlace'
  <2>1. q.of \in Starts /\ q.sample \in Samples /\ Show(q.of, q.sample)
    BY <1>6 DEF TypeInv, TypeOK, Predicted
  <2>2. OnceIn(redis') /\ \A t \in Samples : Holds(redis', t) => Holds(redis, t)
    BY <2>1, ShowHolds DEF OnePlace
  <2>3. UNCHANGED <<sent, db, due, batched, buffer>>
    BY <1>6 DEF Predicted
  <2>4. \A s : Taken(s)' <=> Taken(s)
    BY <2>3 DEF Taken
  <2> QED BY <2>2, <2>3, <2>4 DEF OnePlace
<1> QED BY <1>2, <1>3, <1>4, <1>5, <1>6, ReceivePlace, ReplyPlace, FoundPlace,
           DeliverPlace DEF Next

LEMMA InitOnePlace == Init => OnePlace
BY DEF Init, OnePlace, OnceIn, Holds, Taken, Range, Quiet

-----------------------------------------------------------------------------
(* What follows. *)

Placed == TypeInv /\ OneStream /\ OnePlace

LEMMA PlacedAlways == Spec => []Placed
<1>1. Init => Placed
  BY InitTypes, InitOneStream, InitOnePlace DEF Placed
<1>2. Placed /\ [Next]_vars => Placed'
  BY NextTypes, OneStreamStep, OnePlaceStep DEF Placed
<1> QED BY <1>1, <1>2, PTL DEF Spec

\* Only handing a sample to its stream touches the buffer and the batches,
\* besides START and PAUSE, which empty the buffer.
LEMMA CountStep ==
  ASSUME Placed, CountedOnce, [Next]_vars
  PROVE  CountedOnce'
<1>1. ASSUME batched' = batched, buffer' = buffer \/ buffer' = <<>>
      PROVE  CountedOnce'
  BY <1>1 DEF CountedOnce, Range
<1>2. ASSUME NEW st \in Starts, Deliver(st) PROVE CountedOnce'
  <2>1. PICK s \in Samples : s = due.sample
    BY <1>2 DEF Placed, TypeInv, BusHasSample, Deliver
  <2>2. Handle(st, s) /\ ~Taken(s)
    BY <1>2, <2>1, HandleTakes DEF Placed, OnePlace, Deliver
  <2>3. buffer \in Seq(Samples)
    BY DEF Placed, TypeInv, TypeOK
  <2>4. CASE Len(buffer) + 1 = BatchSize
    <3>1. buffer' = <<>>
      BY <2>2, <2>4 DEF Handle, Complete
    <3> QED BY <3>1 DEF CountedOnce, Range
  <2>5. CASE Len(buffer) + 1 # BatchSize
    <3>1. buffer' = Append(buffer, s) /\ batched' = batched
      BY <2>2, <2>5 DEF Handle
    <3>2. Range(buffer') = Range(buffer) \cup {s}
      BY <2>3, <3>1, RangeAppended
    <3>3. s \notin Range(buffer) /\ s \notin batched
      BY <2>2 DEF Taken
    <3>4. \A i, j \in DOMAIN buffer' : buffer'[i] = buffer'[j] => i = j
      <4>1. PICK n \in Nat : n = Len(buffer) /\ DOMAIN buffer = 1..n
        BY <2>3
      <4>2. /\ DOMAIN buffer' = 1..(n + 1) /\ buffer'[n + 1] = s
            /\ \A i \in 1..n : buffer'[i] = buffer[i]
        BY <2>3, <3>1, <4>1
      <4>3. \A i \in 1..n : buffer[i] # s
        BY <3>3, <4>1 DEF Range
      <4>4. \A i \in 1..(n + 1) : i = n + 1 \/ i \in 1..n
        BY <4>1
      <4> QED BY <4>1, <4>2, <4>3, <4>4 DEF CountedOnce
    <3> QED BY <3>1, <3>2, <3>3, <3>4 DEF CountedOnce
  <2> QED BY <2>4, <2>5
<1>3. CASE \/ \E c \in Clients : Join(c) \/ Leave(c)
           \/ StoreAgent \/ ForgetAgent \/ Reply
           \/ \E st \in Starts : Start(st) \/ Started(st)
           \/ Pause
           \/ \E x \in Sensors : Receive(x)
           \/ \E s \in Samples : Found(s)
           \/ \E q \in preds : Predicted(q)
           \/ UNCHANGED vars
  BY <1>1, <1>3 DEF Join, Leave, StoreAgent, ForgetAgent, Reply, Start, Started,
     Pause, Receive, Found, Predicted, vars, streams, gateway
<1> QED BY <1>2, <1>3 DEF Next

\* No sample is counted twice, neither within a batch nor by two of them, for
\* any number of clients, STARTs and samples and any batch size.
THEOREM NoSampleTwice == Spec => []CountedOnce
<1>1. Init => CountedOnce
  BY DEF Init, CountedOnce, Range
<1>2. Placed /\ CountedOnce /\ [Next]_vars => CountedOnce'
  BY CountStep
<1> QED BY <1>1, <1>2, PlacedAlways, PTL DEF Spec

\* What waits for the predictor has completed a batch; and the nodes show the
\* sample handled last, on the bus or not, unless a batch is involved.
LateInv ==
  /\ \A q \in preds : q.sample \in closers
  /\ \A st \in Starts, x \in Sensors :
       \/ nodes[st][x] = last[st][x]
       \/ nodes[st][x] \in closers
       \/ last[st][x] \in closers

LEMMA LateStep ==
  ASSUME Placed, LateInv, [Next]_vars
  PROVE  LateInv'
<1>0. /\ nodes \in [Starts -> Shown] /\ last \in [Starts -> Shown]
      /\ sent \in Seq(Sensors)
  BY DEF Placed, TypeInv, TypeOK
<1>1. CASE UNCHANGED <<preds, closers, nodes, last>>
  BY <1>1 DEF LateInv
<1>2. ASSUME NEW st \in Starts, Deliver(st) PROVE LateInv'
  <2>1. PICK s \in Samples : s = due.sample
    BY <1>2 DEF Placed, TypeInv, BusHasSample, Deliver
  <2>2. PICK x : x = sent[s]
    OBVIOUS
  <2>3. Handle(st, s) /\ last' = [last EXCEPT ![st][x] = s]
    BY <1>2, <2>1, <2>2, HandleTakes DEF Placed
  <2>4. CASE Len(buffer) + 1 = BatchSize
    <3>1. /\ preds' = preds \cup {[of |-> st, sample |-> s]}
          /\ closers' = closers \cup {s} /\ nodes' = nodes
      BY <2>3, <2>4 DEF Handle, Complete
    <3>2. \A t \in Starts, y \in Sensors : last'[t][y] = last[t][y] \/ last'[t][y] = s
      BY <1>0, <2>3 DEF Shown
    <3> QED BY <3>1, <3>2 DEF LateInv
  <2>5. CASE Len(buffer) + 1 # BatchSize
    <3>1. UNCHANGED <<preds, closers>> /\ nodes' = [nodes EXCEPT ![st][x] = s]
      BY <2>2, <2>3, <2>5 DEF Handle, Show
    <3>2. \A t \in Starts, y \in Sensors :
            \/ nodes'[t][y] = nodes[t][y] /\ last'[t][y] = last[t][y]
            \/ nodes'[t][y] = s /\ last'[t][y] = s
      BY <1>0, <2>3, <3>1 DEF Shown
    <3> QED BY <3>1, <3>2 DEF LateInv
  <2> QED BY <2>4, <2>5
<1>3. ASSUME NEW q \in preds, Predicted(q) PROVE LateInv'
  <2>1. /\ preds' = preds \ {q} /\ UNCHANGED <<closers, last>>
        /\ nodes' = [nodes EXCEPT ![q.of][sent[q.sample]] = q.sample]
    BY <1>3 DEF Predicted, Show
  <2>2. \A t \in Starts, y \in Sensors :
          nodes'[t][y] = nodes[t][y] \/ nodes'[t][y] = q.sample
    BY <1>0, <2>1 DEF Shown
  <2> QED BY <2>1, <2>2 DEF LateInv
<1>4. CASE \/ \E c \in Clients : Join(c) \/ Leave(c)
           \/ StoreAgent \/ ForgetAgent \/ Reply
           \/ \E st \in Starts : Start(st) \/ Started(st)
           \/ Pause
           \/ \E x \in Sensors : Receive(x)
           \/ \E s \in Samples : Found(s)
           \/ UNCHANGED vars
  BY <1>1, <1>4 DEF Join, Leave, StoreAgent, ForgetAgent, Reply, Start, Started,
     Pause, Receive, Found, vars, streams, gateway
<1> QED BY <1>2, <1>3, <1>4 DEF Next

\* Only samples that waited for the predictor are shown late.
THEOREM BatchesAreLate == Spec => []OnlyBatchesAreLate
<1>1. Init => LateInv
  BY DEF Init, LateInv
<1>2. Placed /\ LateInv /\ [Next]_vars => LateInv'
  BY LateStep
<1>3. LateInv => OnlyBatchesAreLate
  BY DEF LateInv, OnlyBatchesAreLate
<1> QED BY <1>1, <1>2, <1>3, PlacedAlways, PTL DEF Spec

-----------------------------------------------------------------------------
(* What Redis's replies do to the queue of loops. *)

LEMMA QueueTurns ==
  ASSUME NEW q \in Seq(Loops), q # <<>>, NEW n \in Nat, n = Len(q),
         NEW x \in Loops
  PROVE  /\ n > 0 /\ DOMAIN q = 1..n /\ Head(q) = q[1]
         /\ DOMAIN Tail(q) = 1..(n - 1)
         /\ \A i \in 1..(n - 1) : Tail(q)[i] = q[i + 1]
         /\ DOMAIN Append(Tail(q), x) = 1..n
         /\ \A i \in 1..(n - 1) : Append(Tail(q), x)[i] = q[i + 1]
         /\ Append(Tail(q), x)[n] = x
<1>1. Tail(q) \in Seq(Loops) /\ Len(Tail(q)) = n - 1 /\ n > 0
  OBVIOUS
<1>2. PICK r \in Seq(Loops) : r = Tail(q)
  BY <1>1
<1>3. DOMAIN r = 1..(n - 1) /\ \A i \in 1..(n - 1) : r[i] = q[i + 1]
  BY <1>1, <1>2
<1>4. /\ Len(Append(r, x)) = n /\ DOMAIN Append(r, x) = 1..n
      /\ \A i \in 1..(n - 1) : Append(r, x)[i] = r[i]
      /\ Append(r, x)[n] = x
  BY <1>1, <1>2
<1> QED BY <1>1, <1>2, <1>3, <1>4

\* The loop in front leaves the queue or goes to its end with one client less.
LEMMA ReplyQueue ==
  ASSUME TypeInv, Reply, NEW loop \in Loops, loop = Head(redis)
  PROVE  \/ /\ redis' = Tail(redis)
            /\ loop.kind = "show" => Tail(loop.todo) = <<>>
         \/ \E x \in Loops :
              /\ redis' = Append(Tail(redis), x) /\ x.kind = loop.kind
              /\ loop.kind = "show" =>
                   x.id = loop.id /\ x.todo = Tail(loop.todo) /\ x.todo # <<>>
<1>0. redis \in Seq(Loops) /\ redis # <<>> /\ Tail(redis) \in Seq(Loops)
  BY DEF Reply, TypeInv, TypeOK
<1>1. PICK on : on = [loop EXCEPT !.todo = Tail(loop.todo)]
  OBVIOUS
<1>2. /\ loop.kind = "show" => loop.todo # <<>>
      /\ loop.todo # <<>> => /\ on \in Loops /\ on.todo = Tail(loop.todo)
                             /\ on.kind = loop.kind /\ on.id = loop.id
  BY <1>0, <1>1, FrontLoop
<1>3. CASE loop.kind = "show"
  <2>1. redis' = IF on.todo = <<>> THEN Tail(redis) ELSE Append(Tail(redis), on)
    BY <1>1, <1>3 DEF Reply
  <2> QED BY <1>2, <1>3, <2>1
<1>4. CASE loop.kind = "sample" /\ loop.todo # <<>>
  <2>1. redis' = Tail(redis) \o (IF on.todo = <<>> THEN AskForAgent(loop.id)
                                  ELSE <<on>>)
    BY <1>1, <1>4 DEF Reply
  <2>2. \A x \in Loops : Tail(redis) \o <<x>> = Append(Tail(redis), x)
    BY <1>0
  <2>3. Tail(redis) \o <<>> = Tail(redis)
    BY <1>0
  <2>4. PICK ask : ask = SampleLoop(loop.id, <<>>)
    OBVIOUS
  <2>5. ask \in Loops /\ ask.kind = "sample"
    <3>1. <<>> \in Seq(Clients)
      OBVIOUS
    <3> QED BY <1>4, <2>4, <3>1, LoopCases, LoopTyped DEF SampleLoop
  <2>6. AskForAgent(loop.id) = <<ask>> \/ AskForAgent(loop.id) = <<>>
    BY <2>4 DEF AskForAgent
  <2> QED BY <1>2, <1>4, <2>1, <2>2, <2>3, <2>5, <2>6
<1>5. CASE loop.kind = "sample" /\ loop.todo = <<>>
  BY <1>5 DEF Reply
<1> QED BY <1>3, <1>4, <1>5, LoopCases

\* What is in a queue that grew was there or is new.
LEMMA OldOrNew ==
  ASSUME NEW q, QueueOK(q), NEW r, QueueOK(r)
  PROVE  /\ \A i \in DOMAIN (q \o r) :
              \/ i \in DOMAIN q /\ (q \o r)[i] = q[i]
              \/ \E k \in DOMAIN r : (q \o r)[i] = r[k]
         /\ \A i \in DOMAIN q : i \in DOMAIN (q \o r) /\ (q \o r)[i] = q[i]
<1>1. PICK n \in Nat : n = Len(q) /\ DOMAIN q = 1..n
  BY DEF QueueOK
<1>2. PICK w : w = q \o r
  OBVIOUS
<1>3. r \in Seq(Loops) /\ Len(r) \in Nat /\ DOMAIN r = 1..Len(r)
  BY DEF QueueOK
<1>4. /\ DOMAIN w = 1..(n + Len(r))
      /\ \A i \in 1..n : w[i] = q[i]
      /\ \A i \in (n + 1)..(n + Len(r)) : w[i] = r[i - n]
  BY <1>1, <1>2, <1>3 DEF QueueOK
<1>5. ASSUME NEW i \in DOMAIN w
      PROVE  \/ i \in DOMAIN q /\ w[i] = q[i]
             \/ \E k \in DOMAIN r : w[i] = r[k]
  <2>1. CASE i \in 1..n
    BY <1>1, <1>4, <2>1
  <2>2. CASE i \notin 1..n
    <3>1. i \in (n + 1)..(n + Len(r)) /\ i - n \in 1..Len(r)
      BY <1>1, <1>3, <1>4, <2>2
    <3> QED BY <1>3, <1>4, <3>1
  <2> QED BY <2>1, <2>2
<1>6. \A i \in DOMAIN q : i \in DOMAIN w /\ w[i] = q[i]
  BY <1>1, <1>3, <1>4
<1> QED BY <1>2, <1>5, <1>6

\* A loop that shows nodes and was not under way before.
Fresh(st) ==
  \E i \in DOMAIN redis' :
    /\ Telling(redis'[i], st)
    /\ \A j \in DOMAIN redis : Telling(redis[j], st) =>
         redis'[i].todo \notin {redis[j].todo, Tail(redis[j].todo)}

\* A queue that grows by loops that do not tell of st begins nothing about it.
LEMMA NothingFresh ==
  ASSUME TypeInv, NEW st \in Starts, NEW r, QueueOK(r), redis' = redis \o r,
         \A k \in DOMAIN r : ~Telling(r[k], st)
  PROVE  ~Fresh(st)
<1>1. QueueOK(redis)
  BY QueueTyped
<1>2. \A i \in DOMAIN redis' :
        \/ i \in DOMAIN redis /\ redis'[i] = redis[i]
        \/ \E k \in DOMAIN r : redis'[i] = r[k]
  BY <1>1, OldOrNew
<1> QED BY <1>2 DEF Fresh

LEMMA ReplyBegins ==
  ASSUME TypeInv, Reply, NEW st \in Starts
  PROVE  ~Fresh(st)
<1>0. redis \in Seq(Loops) /\ redis # <<>>
  BY DEF Reply, TypeInv, TypeOK
<1>1. PICK loop \in Loops : loop = Head(redis)
  BY <1>0, RestTyped
<1>2. PICK n \in Nat : n = Len(redis)
  BY <1>0
<1>3. CASE redis' = Tail(redis)
  <2>1. \A i \in DOMAIN redis' : i + 1 \in DOMAIN redis /\ redis'[i] = redis[i + 1]
    BY <1>0, <1>3, RestTyped
  <2> QED BY <2>1 DEF Fresh
<1>4. ASSUME NEW x \in Loops, redis' = Append(Tail(redis), x), x.kind = loop.kind,
             loop.kind = "show" => x.id = loop.id /\ x.todo = Tail(loop.todo)
      PROVE  ~Fresh(st)
  <2>1. /\ n > 0 /\ DOMAIN redis = 1..n /\ redis[1] = loop
        /\ DOMAIN redis' = 1..n
        /\ \A i \in 1..(n - 1) : redis'[i] = redis[i + 1]
        /\ redis'[n] = x
    BY <1>0, <1>1, <1>2, <1>4, QueueTurns
  <2> SUFFICES ASSUME NEW i \in 1..n, Telling(redis'[i], st)
               PROVE  \E j \in 1..n :
                        /\ Telling(redis[j], st)
                        /\ redis'[i].todo \in {redis[j].todo, Tail(redis[j].todo)}
    BY <2>1 DEF Fresh
  <2>2. CASE i = n
    <3>1. Telling(loop, st) /\ redis'[i].todo = Tail(loop.todo)
      BY <1>4, <2>1, <2>2 DEF Telling
    <3>2. 1 \in 1..n
      BY <2>1
    <3> QED BY <2>1, <3>1, <3>2
  <2>3. CASE i # n
    <3>1. i \in 1..(n - 1) /\ i + 1 \in 1..n
      BY <2>3
    <3> QED BY <2>1, <3>1
  <2> QED BY <2>2, <2>3
<1> QED BY <1>1, <1>3, <1>4, ReplyQueue

\* What an answered or handled sample appends to the queue.
LEMMA ShowAppends ==
  ASSUME TypeInv, NEW st \in Starts, NEW s \in Samples, Show(st, s)
  PROVE  \E r : /\ QueueOK(r) /\ redis' = redis \o r
                /\ r = IF clients = <<>> THEN <<>> ELSE <<ShowLoop(st, clients)>>
                /\ \A t \in Starts : t # st => \A k \in DOMAIN r : ~Telling(r[k], t)
<1>1. PICK r : /\ redis' = redis \o r
               /\ r = IF clients = <<>> THEN <<>> ELSE <<ShowLoop(st, clients)>>
  BY DEF Show
<1>2. ShowLoop(st, clients) \in Loops /\ ShowLoop(st, clients).todo = clients
  BY LoopTyped DEF TypeInv, TypeOK, ShowLoop
<1>3. QueueOK(r)
  BY <1>1, <1>2, QueueOne
<1>4. \A t \in Starts : t # st => ~Telling(ShowLoop(st, clients), t)
  BY DEF Telling, ShowLoop
<1>5. \A k \in DOMAIN r : r[k] = ShowLoop(st, clients)
  BY <1>1
<1> QED BY <1>1, <1>3, <1>4, <1>5

\* The nodes of a monitoring that was paused change, and clients begin to be
\* told of them, only for samples that waited for the predictor.
THEOREM PausedIsQuiet == Spec => PausedGoesQuiet
<1> DEFINE Quieted ==
      \A st \in Starts : entry # st /\ (\A q \in preds \ preds' : q.of # st) =>
        /\ nodes'[st] = nodes[st]
        /\ \A i \in DOMAIN redis' : Telling(redis'[i], st) =>
             \E j \in DOMAIN redis :
               /\ Telling(redis[j], st)
               /\ redis'[i].todo \in {redis[j].todo, Tail(redis[j].todo)}
<1>1. Placed /\ [Next]_vars => Quieted
  <2> SUFFICES ASSUME Placed, [Next]_vars, NEW st \in Starts, entry # st,
                      \A q \in preds \ preds' : q.of # st
               PROVE  nodes'[st] = nodes[st] /\ ~Fresh(st)
    BY DEF Fresh
  <2>0. nodes \in [Starts -> Shown] /\ TypeInv
    BY DEF Placed, TypeInv, TypeOK
  <2>1. CASE nodes' = nodes /\ redis' = redis
    BY <2>1 DEF Fresh
  <2>2. ASSUME NEW s \in Starts, Deliver(s) PROVE nodes'[st] = nodes[st] /\ ~Fresh(st)
    <3>1. entry = s
      BY <2>2 DEF Placed, OneStream, Deliver
    <3>2. due.sample \in Samples
      BY <2>0, <2>2 DEF TypeInv, BusHasSample, Deliver
    <3>3. (nodes' = nodes /\ redis' = redis) \/ Show(s, due.sample)
      BY <2>2 DEF Deliver, Handle, Complete
    <3>4. ASSUME Show(s, due.sample) PROVE nodes'[st] = nodes[st] /\ ~Fresh(st)
      BY <2>0, <3>1, <3>2, <3>4, ShowAppends, NothingFresh DEF Show
    <3> QED BY <2>1, <3>3, <3>4
  <2>3. ASSUME NEW q \in preds, Predicted(q) PROVE nodes'[st] = nodes[st] /\ ~Fresh(st)
    <3>1. q.of \in Starts /\ q.sample \in Samples /\ q.of # st
      BY <2>0, <2>3 DEF TypeInv, TypeOK, Predicted
    <3>2. Show(q.of, q.sample)
      BY <2>3 DEF Predicted
    <3> QED BY <2>0, <3>1, <3>2, ShowAppends, NothingFresh DEF Show
  <2>4. ASSUME NEW x \in Sensors, Receive(x) PROVE nodes'[st] = nodes[st] /\ ~Fresh(st)
    <3>1. PICK s \in Samples : s = Len(sent) + 1
      BY <2>0, <2>4, ConstantsAssumption DEF Receive, TypeInv, TypeOK, Samples
    <3>2. PICK r : /\ redis' = redis \o r
                   /\ r = IF clients = <<>> THEN AskForAgent(s)
                          ELSE <<SampleLoop(s, clients)>>
      BY <2>4, <3>1 DEF Receive
    <3>3. QueueOK(r)
      <4>1. SampleLoop(s, clients) \in Loops /\ SampleLoop(s, clients).kind = "sample"
        BY <2>0, LoopTyped DEF SampleLoop, TypeInv, TypeOK
      <4> QED BY <3>2, <4>1, QueueOne, QueueAsk
    <3>4. \A k \in DOMAIN r : ~Telling(r[k], st)
      BY <3>2 DEF AskForAgent, SampleLoop, Telling
    <3>5. nodes' = nodes
      BY <2>4 DEF Receive, streams
    <3> QED BY <2>0, <3>2, <3>3, <3>4, <3>5, NothingFresh
  <2>5. CASE Reply
    BY <2>0, <2>5, ReplyBegins DEF Reply, streams
  <2> QED BY <2>1, <2>2, <2>3, <2>4, <2>5 DEF Next, Join, Leave, StoreAgent,
             ForgetAgent, Start, Started, Pause, Found, vars, streams, gateway
<1>2. Placed /\ [Next]_vars => [Quieted]_vars
  BY <1>1
<1> QED BY <1>2, PlacedAlways, PTL DEF Spec, PausedGoesQuiet

-----------------------------------------------------------------------------
(* The clients catch up.  The loops that show nodes take turns, and each is  *)
(* ahead of the newest for every client that both have still to come to; so  *)
(* that the newest comes to each client last, and shows the nodes that took  *)
(* the last sample.                                                          *)

\* Everybody on the list t is on u as well, gap places later or more.
Ahead(t, u, gap) ==
  \A a \in DOMAIN t : \E b \in DOMAIN u : u[b] = t[a] /\ a + gap <= b

Showing(q, i) == i \in DOMAIN q /\ q[i].kind = "show"

\* The loop that tells of the sample that the nodes took last: who is in front
\* of it in the queue is not behind it in the list of clients, and who is
\* behind it in the queue is in front of it in the list.
Newest(q, p) ==
  /\ Showing(q, p) /\ q[p].id = told.by /\ Range(q[p].todo) \subseteq told.to
  /\ \A j \in DOMAIN q : Showing(q, j) /\ j # p =>
       Ahead(q[j].todo, q[p].todo, IF j < p THEN 0 ELSE 1)

Now == [of |-> told.by, at |-> nodes[told.by]]

InStore(q) == \A j \in DOMAIN q : Showing(q, j) => Ahead(q[j].todo, clients, 0)

ViewInv ==
  /\ told.to \subseteq Range(clients)
  /\ InStore(redis)
  /\ \A c \in Clients : c \notin told.to => view[c].of = None
  /\ \/ /\ \A j \in DOMAIN redis : ~Showing(redis, j)
        /\ \A c \in online \cap told.to : view[c] = Now
     \/ \E p \in DOMAIN redis :
          /\ Newest(redis, p)
          /\ \A c \in online \cap told.to : c \in Range(redis[p].todo) \/ view[c] = Now

\* The nodes of the monitoring that the map holds are those that took the last
\* sample, unless a prediction brought it; a monitoring that has not begun has
\* none.
PresentInv ==
  /\ entry # None => phase[entry] = "live"
  /\ \A q \in preds : phase[q.of] \in {"live", "dead"}
  /\ \A st \in Starts : phase[st] \in {"unused", "loading"} => nodes[st] = Blank
  /\ entry # None /\ nodes[entry] # Blank =>
       told.by = entry \/ told.sample \in closers

-----------------------------------------------------------------------------
(* Lists of clients. *)

LEMMA TailOf ==
  ASSUME NEW S, NEW t \in Seq(S), t # <<>>
  PROVE  /\ Tail(t) \in Seq(S) /\ Head(t) = t[1] /\ Len(t) \in Nat /\ Len(t) > 0
         /\ DOMAIN t = 1..Len(t)
         /\ DOMAIN Tail(t) = 1..(Len(t) - 1)
         /\ \A i \in 1..(Len(t) - 1) : Tail(t)[i] = t[i + 1]
<1>1. PICK n \in Nat : n = Len(t) /\ n > 0 /\ DOMAIN t = 1..n
  OBVIOUS
<1>2. PICK w : w = Tail(t)
  OBVIOUS
<1>3. DOMAIN w = 1..(n - 1) /\ \A i \in 1..(n - 1) : w[i] = t[i + 1]
  BY <1>1, <1>2
<1> QED BY <1>1, <1>2, <1>3

\* Who is ahead moves on: it gains a place.
LEMMA AheadGains ==
  ASSUME NEW t \in Seq(Clients), t # <<>>, NEW u \in Seq(Clients),
         Ahead(t, u, 0)
  PROVE  Ahead(Tail(t), u, 1)
<1>1. PICK n \in Nat : /\ n > 0 /\ n = Len(t) /\ DOMAIN t = 1..n
                       /\ DOMAIN Tail(t) = 1..(n - 1)
                       /\ \A i \in 1..(n - 1) : Tail(t)[i] = t[i + 1]
  BY TailOf
<1> SUFFICES ASSUME NEW a \in 1..(n - 1)
             PROVE  \E b \in DOMAIN u : u[b] = Tail(t)[a] /\ a + 1 <= b
  BY <1>1 DEF Ahead
<1>2. a + 1 \in 1..n /\ Tail(t)[a] = t[a + 1]
  BY <1>1
<1>3. PICK b \in DOMAIN u : u[b] = t[a + 1] /\ (a + 1) + 0 <= b
  BY <1>1, <1>2 DEF Ahead
<1>4. (a + 1) + 0 = a + 1
  OBVIOUS
<1> QED BY <1>2, <1>3, <1>4

\* Who is behind moves on: the other loses its lead of one place.
LEMMA AheadLoses ==
  ASSUME NEW t \in Seq(Clients), NEW u \in Seq(Clients), u # <<>>,
         Ahead(t, u, 1)
  PROVE  Ahead(t, Tail(u), 0)
<1>1. PICK n \in Nat : /\ n > 0 /\ n = Len(u) /\ DOMAIN u = 1..n
                       /\ DOMAIN Tail(u) = 1..(n - 1)
                       /\ \A i \in 1..(n - 1) : Tail(u)[i] = u[i + 1]
  BY TailOf
<1> SUFFICES ASSUME NEW a \in DOMAIN t
             PROVE  \E b \in 1..(n - 1) : Tail(u)[b] = t[a] /\ a + 0 <= b
  BY <1>1 DEF Ahead
<1>2. PICK b \in 1..n : u[b] = t[a] /\ a + 1 <= b
  BY <1>1 DEF Ahead
<1>3. a \in Nat \ {0}
  OBVIOUS
<1>4. b - 1 \in 1..(n - 1) /\ (b - 1) + 1 = b /\ a + 0 <= b - 1
  BY <1>1, <1>2, <1>3
<1> QED BY <1>1, <1>2, <1>4

LEMMA AheadKept ==
  ASSUME NEW t \in Seq(Clients), NEW u \in Seq(Clients)
  PROVE  /\ Ahead(t, u, 1) => Ahead(t, u, 0)
         /\ Ahead(t, u, 0) /\ t # <<>> => Ahead(Tail(t), u, 0)
         /\ \A c \in Clients : Ahead(t, u, 0) => Ahead(t, Append(u, c), 0)
         /\ Ahead(t, u, 0) => Range(t) \subseteq Range(u)
<1>0. \A a \in DOMAIN t : a \in Nat /\ a + 0 = a
  OBVIOUS
<1>1. ASSUME Ahead(t, u, 1) PROVE Ahead(t, u, 0)
  <2> SUFFICES ASSUME NEW a \in DOMAIN t
               PROVE  \E b \in DOMAIN u : u[b] = t[a] /\ a + 0 <= b
    BY DEF Ahead
  <2>1. PICK b \in DOMAIN u : u[b] = t[a] /\ a + 1 <= b
    BY <1>1 DEF Ahead
  <2>2. b \in Nat /\ a \in Nat
    OBVIOUS
  <2> QED BY <2>1, <2>2
<1>2. ASSUME Ahead(t, u, 0), t # <<>> PROVE Ahead(Tail(t), u, 0)
  <2>1. Ahead(Tail(t), u, 1)
    BY <1>2, AheadGains
  <2>2. \A a \in DOMAIN Tail(t) : a \in Nat
    BY <1>2, TailOf
  <2> SUFFICES ASSUME NEW a \in DOMAIN Tail(t)
               PROVE  \E b \in DOMAIN u : u[b] = Tail(t)[a] /\ a + 0 <= b
    BY DEF Ahead
  <2>3. PICK b \in DOMAIN u : u[b] = Tail(t)[a] /\ a + 1 <= b
    BY <2>1 DEF Ahead
  <2>4. b \in Nat /\ a \in Nat
    BY <2>2
  <2> QED BY <2>3, <2>4
<1>3. ASSUME NEW c \in Clients, Ahead(t, u, 0) PROVE Ahead(t, Append(u, c), 0)
  <2>1. \A b \in DOMAIN u : b \in DOMAIN Append(u, c) /\ Append(u, c)[b] = u[b]
    OBVIOUS
  <2> QED BY <1>3, <2>1 DEF Ahead
<1>4. ASSUME Ahead(t, u, 0) PROVE Range(t) \subseteq Range(u)
  BY <1>4 DEF Ahead, Range
<1> QED BY <1>1, <1>2, <1>3, <1>4

\* Whoever is on a list is its first or on what remains of it.
LEMMA FirstOrRest ==
  ASSUME NEW S, NEW todo \in Seq(S), todo # <<>>
  PROVE  Range(todo) = {Head(todo)} \cup Range(Tail(todo))
<1>1. PICK n \in Nat : n = Len(todo) /\ n > 0 /\ DOMAIN todo = 1..n
  OBVIOUS
<1>2. PICK w : w = Tail(todo)
  OBVIOUS
<1>3. DOMAIN w = 1..(n - 1) /\ \A i \in 1..(n - 1) : w[i] = todo[i + 1]
  BY <1>1, <1>2
<1>4. Head(todo) = todo[1]
  OBVIOUS
<1>5. \A i \in 1..n : i = 1 \/ (i - 1 \in 1..(n - 1) /\ (i - 1) + 1 = i)
  BY <1>1
<1>6. 1 \in 1..n /\ \A i \in 1..(n - 1) : i + 1 \in 1..n
  BY <1>1
<1>7. Range(todo) \subseteq {todo[1]} \cup Range(w)
  <2> SUFFICES ASSUME NEW i \in 1..n, i # 1 PROVE todo[i] \in Range(w)
    BY <1>1 DEF Range
  <2>1. i - 1 \in DOMAIN w /\ w[i - 1] = todo[i]
    BY <1>3, <1>5
  <2> QED BY <2>1 DEF Range
<1>8. {todo[1]} \cup Range(w) \subseteq Range(todo)
  BY <1>1, <1>3, <1>6 DEF Range
<1> QED BY <1>2, <1>4, <1>7, <1>8

-----------------------------------------------------------------------------
(* The steps. *)

LEMMA PresentStep ==
  ASSUME Placed, LateInv, PresentInv, [Next]_vars
  PROVE  PresentInv'
<1>0. /\ nodes \in [Starts -> Shown]
      /\ phase \in [Starts -> {"unused", "loading", "live", "dead"}]
      /\ preds \subseteq [of : Starts, sample : Samples]
      /\ entry \in Starts \cup {None} /\ None \notin Starts
  BY ConstantsAssumption DEF Placed, TypeInv, TypeOK
<1>1. CASE UNCHANGED <<phase, entry, preds, nodes, told, closers>>
  BY <1>1 DEF PresentInv
<1>2. ASSUME NEW st \in Starts, Start(st) PROVE PresentInv'
  BY <1>0, <1>2 DEF PresentInv, Start, gateway
<1>3. ASSUME NEW st \in Starts, Started(st) PROVE PresentInv'
  BY <1>0, <1>3 DEF PresentInv, Started, gateway
<1>4. CASE Pause
  BY <1>0, <1>4 DEF PresentInv, Pause, gateway
<1>5. ASSUME NEW st \in Starts, Deliver(st) PROVE PresentInv'
  <2>1. entry = st /\ phase[st] = "live" /\ UNCHANGED <<phase, entry>>
    BY <1>0, <1>5 DEF Placed, OneStream, PresentInv, Deliver
  <2>2. Handle(st, due.sample)
    BY <1>0, <1>5, <2>1 DEF Deliver
  <2>3. CASE Len(buffer) + 1 = BatchSize
    <3>1. /\ preds' = preds \cup {[of |-> st, sample |-> due.sample]}
          /\ closers' = closers \cup {due.sample} /\ UNCHANGED <<nodes, told>>
      BY <2>2, <2>3 DEF Handle, Complete
    <3> QED BY <2>1, <3>1 DEF PresentInv
  <2>4. CASE Len(buffer) + 1 # BatchSize
    <3>1. /\ told'.by = st /\ UNCHANGED <<preds, closers>>
          /\ \A t \in Starts : t # st => nodes'[t] = nodes[t]
      BY <1>0, <2>2, <2>4 DEF Handle, Show
    <3> QED BY <2>1, <3>1 DEF PresentInv
  <2> QED BY <2>3, <2>4
<1>6. ASSUME NEW q \in preds, Predicted(q) PROVE PresentInv'
  <2>1. /\ told'.sample = q.sample /\ UNCHANGED <<phase, entry, closers>>
        /\ preds' \subseteq preds
        /\ \A t \in Starts : t # q.of => nodes'[t] = nodes[t]
    BY <1>0, <1>6 DEF Predicted, Show
  <2>2. phase[q.of] \in {"live", "dead"} /\ q.sample \in closers
    BY DEF PresentInv, LateInv
  <2> QED BY <2>1, <2>2 DEF PresentInv
<1>7. CASE \/ \E c \in Clients : Join(c) \/ Leave(c)
           \/ StoreAgent \/ ForgetAgent \/ Reply
           \/ \E x \in Sensors : Receive(x)
           \/ \E s \in Samples : Found(s)
           \/ UNCHANGED vars
  BY <1>1, <1>7 DEF Join, Leave, StoreAgent, ForgetAgent, Reply, Receive, Found,
     vars, streams
<1> QED BY <1>2, <1>3, <1>4, <1>5, <1>6, <1>7 DEF Next

\* The loops' lists are lists of clients.
LEMMA ListsTyped ==
  ASSUME TypeInv
  PROVE  /\ redis \in Seq(Loops) /\ clients \in Seq(Clients)
         /\ \A j \in DOMAIN redis : redis[j].todo \in Seq(Clients)
         /\ \A j \in DOMAIN redis : Showing(redis, j) => redis[j].todo # <<>>
<1>1. redis \in Seq(Loops) /\ clients \in Seq(Clients)
  BY DEF TypeInv, TypeOK
<1>2. \A j \in DOMAIN redis : redis[j] \in Loops
  BY <1>1
<1> QED BY <1>1, <1>2, LoopCases DEF TypeInv, ShowsSomebody, Showing

\* The nodes take a sample: the new loop is the newest.
LEMMA ShowViews ==
  ASSUME TypeInv, ViewInv, NEW st \in Starts, NEW s \in Samples, Show(st, s),
         UNCHANGED <<clients, online, view>>
  PROVE  ViewInv'
<1>0. /\ redis \in Seq(Loops) /\ clients \in Seq(Clients)
      /\ online \subseteq Clients
      /\ \A j \in DOMAIN redis : redis[j].todo \in Seq(Clients)
      /\ \A j \in DOMAIN redis : Showing(redis, j) => redis[j].todo # <<>>
  BY ListsTyped DEF TypeInv, TypeOK
<1>1. /\ told' = [by |-> st, sample |-> s, to |-> Range(clients)]
      /\ nodes' = [nodes EXCEPT ![st][sent[s]] = s]
  BY DEF Show
<1>2. \A c \in Clients : c \notin told'.to => view'[c].of = None
  BY <1>1 DEF ViewInv
<1>3. CASE clients = <<>>
  <2>1. redis' = redis
    BY <1>0, <1>3 DEF Show
  <2>2. told'.to = {}
    BY <1>1, <1>3 DEF Range
  <2>3. ASSUME NEW j \in DOMAIN redis, Showing(redis, j) PROVE FALSE
    <3>1. PICK t \in Seq(Clients) : t = redis[j].todo
      BY <1>0
    <3>2. Ahead(t, <<>>, 0) /\ t # <<>>
      BY <1>0, <1>3, <2>3, <3>1 DEF ViewInv, InStore
    <3>3. 1 \in DOMAIN t
      BY <3>2
    <3> QED BY <3>2, <3>3 DEF Ahead
  <2> QED BY <1>1, <1>2, <2>1, <2>2, <2>3 DEF ViewInv, InStore
<1>4. CASE clients # <<>>
  <2>1. PICK n \in Nat : n = Len(redis) /\ DOMAIN redis = 1..n
    BY <1>0
  <2>2. PICK x \in Loops : x = ShowLoop(st, clients)
    BY <1>0, LoopTyped
  <2>3. x.kind = "show" /\ x.id = st /\ x.todo = clients
    BY <2>2 DEF ShowLoop
  <2>4. redis' = redis \o <<x>>
    BY <1>4, <2>2 DEF Show
  <2>5. /\ DOMAIN redis' = 1..(n + 1)
        /\ \A j \in 1..n : redis'[j] = redis[j]
        /\ redis'[n + 1] = x
    BY <1>0, <2>1, <2>4
  <2>6. n + 1 \in 1..(n + 1)
    BY <2>1
  <2>7. Showing(redis', n + 1)
    BY <2>3, <2>5, <2>6 DEF Showing
  <2>8. ASSUME NEW j \in 1..(n + 1), j # n + 1, Showing(redis', j)
        PROVE  Ahead(redis'[j].todo, clients, 0) /\ j < n + 1
    <3>1. j \in 1..n /\ j < n + 1
      BY <2>8
    <3>2. redis'[j] = redis[j] /\ Showing(redis, j)
      BY <2>1, <2>5, <2>8, <3>1 DEF Showing
    <3> QED BY <2>1, <3>1, <3>2 DEF ViewInv, InStore
  <2>9. Ahead(clients, clients, 0)
    <3>1. \A a \in DOMAIN clients : a \in Nat /\ a + 0 <= a
      BY <1>0
    <3> QED BY <3>1 DEF Ahead
  <2>10. InStore(redis)'
    <3>1. \A j \in DOMAIN redis' : Showing(redis', j) => Ahead(redis'[j].todo, clients, 0)
      BY <2>3, <2>5, <2>8, <2>9
    <3> QED BY <3>1 DEF InStore, Showing
  <2>11. Newest(redis, n + 1)'
    <3>1. redis'[n + 1].id = told'.by /\ Range(redis'[n + 1].todo) \subseteq told'.to
      BY <1>1, <2>3, <2>5
    <3>2. \A j \in DOMAIN redis' : Showing(redis', j) /\ j # n + 1 =>
            Ahead(redis'[j].todo, redis'[n + 1].todo, IF j < n + 1 THEN 0 ELSE 1)
      BY <2>3, <2>5, <2>8
    <3> QED BY <2>7, <3>1, <3>2 DEF Newest, Showing
  <2>12. \A c \in online' \cap told'.to : c \in Range(redis'[n + 1].todo)
    BY <1>1, <2>3, <2>5
  <2>13. told'.to \subseteq Range(clients')
    BY <1>1
  <2> QED BY <1>2, <2>5, <2>6, <2>10, <2>11, <2>12, <2>13 DEF ViewInv
<1> QED BY <1>3, <1>4

\* A reply: the loop in front, which was at place 1, is at place n or gone; the
\* others move up one place.
LEMMA ReplyViews ==
  ASSUME TypeInv, ViewInv, Reply
  PROVE  ViewInv'
<1>0. /\ redis \in Seq(Loops) /\ redis # <<>> /\ clients \in Seq(Clients)
      /\ online \subseteq Clients
      /\ view \in [Clients -> [of : Starts \cup {None}, at : Shown]]
      /\ \A j \in DOMAIN redis : redis[j].todo \in Seq(Clients)
      /\ \A j \in DOMAIN redis : Showing(redis, j) => redis[j].todo # <<>>
      /\ UNCHANGED <<clients, online, nodes, told>>
  BY ListsTyped DEF TypeInv, TypeOK, Reply, streams
<1>1. PICK loop \in Loops : loop = Head(redis)
  BY <1>0, RestTyped
<1>2. PICK n \in Nat : n = Len(redis)
  BY <1>0
<1>3. n > 0 /\ DOMAIN redis = 1..n /\ redis[1] = loop /\ 1 \in 1..n
  BY <1>0, <1>1, <1>2, QueueTurns
<1>4. loop.todo \in Seq(Clients) /\ loop.kind \in {"sample", "show"}
  BY LoopCases
<1>5. PICK m \in {n - 1, n} :
        /\ DOMAIN redis' = 1..m
        /\ \A i \in 1..(n - 1) : redis'[i] = redis[i + 1]
        /\ m = n => /\ redis'[n].kind = loop.kind
                    /\ loop.kind = "show" => /\ redis'[n].id = loop.id
                                             /\ redis'[n].todo = Tail(loop.todo)
        /\ m = n - 1 /\ loop.kind = "show" => Tail(loop.todo) = <<>>
  <2>1. /\ DOMAIN Tail(redis) = 1..(n - 1)
        /\ \A i \in 1..(n - 1) : Tail(redis)[i] = redis[i + 1]
        /\ n # n - 1
    BY <1>0, <1>1, <1>2, QueueTurns
  <2>2. CASE redis' = Tail(redis) /\ (loop.kind = "show" => Tail(loop.todo) = <<>>)
    <3>1. WITNESS n - 1 \in {n - 1, n}
    <3> QED BY <2>1, <2>2
  <2>3. ASSUME NEW x \in Loops, redis' = Append(Tail(redis), x), x.kind = loop.kind,
               loop.kind = "show" => x.id = loop.id /\ x.todo = Tail(loop.todo)
        PROVE  \E m \in {n - 1, n} :
                 /\ DOMAIN redis' = 1..m
                 /\ \A i \in 1..(n - 1) : redis'[i] = redis[i + 1]
                 /\ m = n => /\ redis'[n].kind = loop.kind
                             /\ loop.kind = "show" => /\ redis'[n].id = loop.id
                                                      /\ redis'[n].todo = Tail(loop.todo)
                 /\ m = n - 1 /\ loop.kind = "show" => Tail(loop.todo) = <<>>
    <3>1. /\ DOMAIN redis' = 1..n /\ redis'[n] = x
          /\ \A i \in 1..(n - 1) : redis'[i] = redis[i + 1]
      BY <1>0, <1>2, <2>3, QueueTurns
    <3>2. WITNESS n \in {n - 1, n}
    <3> QED BY <2>1, <2>3, <3>1
  <2> QED BY <1>0, <1>1, <2>2, <2>3, ReplyQueue
<1>6. ASSUME NEW i \in DOMAIN redis', i # n
      PROVE  /\ i \in 1..(n - 1) /\ i + 1 \in 1..n /\ i + 1 # 1
             /\ redis'[i] = redis[i + 1]
             /\ Showing(redis, i)' <=> Showing(redis, i + 1)
  <2>1. i \in 1..(n - 1) /\ i + 1 \in 1..n /\ i + 1 # 1
    BY <1>5, <1>6
  <2> QED BY <1>3, <1>5, <2>1 DEF Showing
<1>7. InStore(redis)'
  <2> SUFFICES ASSUME NEW i \in DOMAIN redis', Showing(redis, i)'
               PROVE  Ahead(redis'[i].todo, clients, 0)
    BY <1>0 DEF InStore, Ahead
  <2>1. CASE i # n
    BY <1>3, <1>6, <2>1 DEF ViewInv, InStore
  <2>2. CASE i = n
    <3>1. m = n
      BY <1>5, <2>2
    <3>2. loop.kind = "show" /\ redis'[i].todo = Tail(loop.todo)
      BY <1>5, <2>2, <3>1 DEF Showing
    <3>3. Showing(redis, 1)
      BY <1>3, <3>2 DEF Showing
    <3>4. Ahead(loop.todo, clients, 0) /\ loop.todo # <<>>
      BY <1>0, <1>3, <3>3 DEF ViewInv, InStore
    <3> QED BY <1>0, <1>4, <3>2, <3>4, AheadKept
  <2> QED BY <2>1, <2>2
<1>8. CASE loop.kind # "show"
  <2>1. view' = view
    BY <1>1, <1>4, <1>8 DEF Reply
  <2>2. m = n => ~Showing(redis, n)'
    BY <1>5, <1>8 DEF Showing
  <2>3. \A i \in DOMAIN redis' : Showing(redis, i)' => i # n
    BY <1>5, <2>2
  <2>4. CASE \A j \in DOMAIN redis : ~Showing(redis, j)
    <3>1. \A i \in DOMAIN redis' : ~Showing(redis, i)'
      BY <1>3, <1>6, <2>3, <2>4
    <3>2. \A c \in online \cap told.to : view[c] = Now
      BY <2>4 DEF ViewInv, Newest
    <3> QED BY <1>0, <1>7, <2>1, <3>1, <3>2 DEF ViewInv, Now
  <2>5. ASSUME NEW p \in DOMAIN redis, Newest(redis, p),
               \A c \in online \cap told.to : c \in Range(redis[p].todo) \/ view[c] = Now
        PROVE  ViewInv'
    <3>1. p # 1 /\ p \in 1..n
      BY <1>3, <1>8, <2>5 DEF Newest, Showing
    <3>2. PICK o \in 1..(n - 1) : o + 1 = p
      <4>1. p - 1 \in 1..(n - 1) /\ (p - 1) + 1 = p
        BY <3>1
      <4> QED BY <4>1
    <3>3. o \in DOMAIN redis' /\ redis'[o] = redis[p] /\ o # n
      BY <1>5, <3>2
    <3>4. Newest(redis, o)'
      <4>1. Showing(redis, o)'
        BY <1>6, <2>5, <3>2, <3>3 DEF Newest
      <4>2. ASSUME NEW j \in DOMAIN redis', Showing(redis, j)', j # o
            PROVE  Ahead(redis'[j].todo, redis'[o].todo, IF j < o THEN 0 ELSE 1)
        <5>1. j # n
          BY <2>3, <4>2
        <5>2. /\ j \in 1..(n - 1) /\ j + 1 \in DOMAIN redis
              /\ redis'[j] = redis[j + 1] /\ Showing(redis, j + 1)
          BY <1>3, <1>6, <4>2, <5>1
        <5>3. j + 1 # p /\ (j + 1 < p <=> j < o)
          BY <3>2, <4>2, <5>2
        <5>4. Ahead(redis[j + 1].todo, redis[p].todo, IF j + 1 < p THEN 0 ELSE 1)
          BY <2>5, <5>2, <5>3 DEF Newest
        <5> QED BY <3>3, <5>2, <5>3, <5>4
      <4> QED BY <1>0, <2>5, <3>3, <4>1, <4>2 DEF Newest, Ahead
    <3> QED BY <1>0, <1>7, <2>1, <2>5, <3>3, <3>4 DEF ViewInv, Now
  <2> QED BY <2>4, <2>5 DEF ViewInv
<1>9. CASE loop.kind = "show"
  <2>1. Showing(redis, 1) /\ loop.todo # <<>>
    BY <1>0, <1>3, <1>9 DEF Showing
  <2>2. PICK head \in Clients : head = Head(loop.todo)
    BY <1>4, <2>1
  <2>3. Range(loop.todo) = {head} \cup Range(Tail(loop.todo))
    BY <1>4, <2>1, <2>2, FirstOrRest
  <2>4. view' = IF head \in online
                THEN [view EXCEPT ![head] = [of |-> loop.id, at |-> nodes[loop.id]]]
                ELSE view
    BY <1>1, <1>9, <2>2 DEF Reply
  <2>5. /\ \A c \in Clients : c # head => view'[c] = view[c]
        /\ head \in online => view'[head] = [of |-> loop.id, at |-> nodes[loop.id]]
    BY <1>0, <2>2, <2>4
  <2>6. PICK p \in DOMAIN redis :
          /\ Newest(redis, p)
          /\ \A c \in online \cap told.to : c \in Range(redis[p].todo) \/ view[c] = Now
    BY <1>3, <2>1 DEF ViewInv
  <2>7. p \in 1..n /\ redis[p].todo \in Seq(Clients)
    BY <1>0, <1>3
  <2>8. CASE p = 1
    <3>1. loop.id = told.by /\ Range(loop.todo) \subseteq told.to
      BY <1>3, <2>6, <2>8 DEF Newest
    <3>2. \A c \in Clients : c \notin told'.to => view'[c].of = None
      BY <1>0, <2>3, <2>5, <3>1 DEF ViewInv
    <3>3. \A c \in online \cap told.to : c \in Range(Tail(loop.todo)) \/ view'[c] = Now
      BY <1>0, <1>3, <2>3, <2>5, <2>6, <2>8, <3>1 DEF Now
    <3>4. ASSUME NEW i \in DOMAIN redis', i # n, Showing(redis, i)'
          PROVE  /\ redis'[i].todo \in Seq(Clients) /\ redis'[i].todo # <<>>
                 /\ Ahead(redis'[i].todo, loop.todo, 1)
      <4>1. /\ i + 1 \in DOMAIN redis /\ i + 1 # 1 /\ Showing(redis, i + 1)
            /\ redis'[i] = redis[i + 1] /\ ~(i + 1 < 1)
        BY <1>3, <1>6, <3>4
      <4> QED BY <1>0, <1>3, <2>6, <2>8, <4>1 DEF Newest
    <3>5. CASE m = n - 1
      <4>1. ASSUME NEW i \in DOMAIN redis', Showing(redis, i)' PROVE FALSE
        <5>1. i # n
          BY <1>5, <3>5, <4>1
        <5>2. PICK t \in Seq(Clients) : t = redis'[i].todo /\ t # <<>>
                                        /\ Ahead(t, loop.todo, 1)
          BY <3>4, <4>1, <5>1
        <5>3. 1 \in DOMAIN t
          BY <5>2
        <5>4. PICK b \in DOMAIN loop.todo : 1 + 1 <= b
          BY <5>2, <5>3 DEF Ahead
        <5>5. Len(Tail(loop.todo)) = Len(loop.todo) - 1 /\ Len(loop.todo) \in Nat
              /\ b \in 1..Len(loop.todo)
          BY <1>4, <2>1
        <5>6. Len(Tail(loop.todo)) = 0
          <6>1. Tail(loop.todo) = <<>>
            BY <1>5, <1>9, <3>5
          <6>2. Len(<<>>) = 0
            OBVIOUS
          <6> QED BY <6>1, <6>2
        <5> QED BY <5>4, <5>5, <5>6
      <4>2. Range(Tail(loop.todo)) = {}
        BY <1>5, <1>9, <3>5 DEF Range
      <4> QED BY <1>0, <1>7, <3>2, <3>3, <4>1, <4>2 DEF ViewInv, Now
    <3>6. CASE m = n
      <4>1. /\ n \in DOMAIN redis' /\ redis'[n].todo = Tail(loop.todo)
            /\ redis'[n].id = loop.id /\ redis'[n].kind = "show"
        BY <1>3, <1>5, <1>9, <3>6
      <4>2. Newest(redis, n)'
        <5>1. ASSUME NEW j \in DOMAIN redis', Showing(redis, j)', j # n
              PROVE  j < n /\ Ahead(redis'[j].todo, Tail(loop.todo), 0)
          <6>1. j < n
            BY <1>6, <5>1
          <6> QED BY <1>4, <2>1, <3>4, <5>1, <6>1, AheadLoses
        <5>2. Showing(redis, n)'
          BY <4>1 DEF Showing
        <5> QED BY <1>0, <2>3, <3>1, <4>1, <5>1, <5>2 DEF Newest, Ahead
      <4> QED BY <1>0, <1>7, <3>2, <3>3, <4>1, <4>2 DEF ViewInv, Now
    <3> QED BY <3>5, <3>6
  <2>9. CASE p # 1
    <3>1. PICK o \in 1..(n - 1) : o + 1 = p
      <4>1. p - 1 \in 1..(n - 1) /\ (p - 1) + 1 = p
        BY <2>7, <2>9
      <4> QED BY <4>1
    <3>2. o \in DOMAIN redis' /\ redis'[o] = redis[p] /\ o # n
      BY <1>5, <3>1
    <3>3. Ahead(loop.todo, redis[p].todo, 0)
      <4>1. 1 < p
        BY <2>7, <2>9
      <4> QED BY <1>3, <2>1, <2>6, <2>9, <4>1 DEF Newest
    <3>4. Range(loop.todo) \subseteq Range(redis[p].todo)
      BY <1>4, <2>7, <3>3, AheadKept
    <3>5. \A c \in Clients : c \notin told'.to => view'[c].of = None
      BY <1>0, <2>3, <2>5, <2>6, <3>4 DEF ViewInv, Newest
    <3>6. \A c \in online \cap told.to : c \in Range(redis'[o].todo) \/ view'[c] = Now
      BY <1>0, <2>3, <2>5, <2>6, <3>2, <3>4
    <3>7. Newest(redis, o)'
      <4>1. Showing(redis, o)'
        BY <1>6, <2>6, <3>1, <3>2 DEF Newest
      <4>2. ASSUME NEW j \in DOMAIN redis', Showing(redis, j)', j # o
            PROVE  Ahead(redis'[j].todo, redis'[o].todo, IF j < o THEN 0 ELSE 1)
        <5>1. CASE j # n
          <6>1. /\ j \in 1..(n - 1) /\ j + 1 \in DOMAIN redis
                /\ redis'[j] = redis[j + 1] /\ Showing(redis, j + 1)
            BY <1>3, <1>6, <4>2, <5>1
          <6>2. j + 1 # p /\ (j + 1 < p <=> j < o)
            BY <3>1, <4>2, <6>1
          <6>3. Ahead(redis[j + 1].todo, redis[p].todo, IF j + 1 < p THEN 0 ELSE 1)
            BY <2>6, <6>1, <6>2 DEF Newest
          <6> QED BY <3>2, <6>1, <6>2, <6>3
        <5>2. CASE j = n
          <6>1. ~(j < o) /\ m = n
            BY <1>5, <3>1, <5>2
          <6>2. redis'[j].todo = Tail(loop.todo)
            BY <1>5, <1>9, <5>2, <6>1
          <6>3. Ahead(Tail(loop.todo), redis[p].todo, 1)
            BY <1>4, <2>1, <2>7, <3>3, AheadGains
          <6> QED BY <3>2, <6>1, <6>2, <6>3
        <5> QED BY <5>1, <5>2
      <4> QED BY <1>0, <2>6, <3>2, <4>1, <4>2 DEF Newest, Ahead
    <3> QED BY <1>0, <1>7, <3>2, <3>5, <3>6, <3>7 DEF ViewInv, Now
  <2> QED BY <2>8, <2>9
<1> QED BY <1>8, <1>9

\* Loops that hold samples concern no client's view.
LEMMA SampleViews ==
  ASSUME TypeInv, ViewInv, NEW s \in Samples,
         redis' = redis \o (IF clients = <<>> THEN AskForAgent(s)
                            ELSE <<SampleLoop(s, clients)>>),
         UNCHANGED <<clients, online, nodes, view, told>>
  PROVE  ViewInv'
<1>0. /\ QueueOK(redis) /\ clients \in Seq(Clients)
  BY QueueTyped DEF TypeInv, TypeOK
<1>1. PICK r : /\ redis' = redis \o r
               /\ r = IF clients = <<>> THEN AskForAgent(s) ELSE <<SampleLoop(s, clients)>>
  OBVIOUS
<1>2. QueueOK(r)
  <2>1. SampleLoop(s, clients) \in Loops /\ SampleLoop(s, clients).kind = "sample"
    BY <1>0, LoopTyped DEF SampleLoop
  <2> QED BY <1>1, <2>1, QueueOne, QueueAsk
<1>3. \A k \in DOMAIN r : r[k].kind # "show"
  BY <1>1 DEF AskForAgent, SampleLoop
<1>4. \A j \in DOMAIN redis' : Showing(redis, j)' =>
        j \in DOMAIN redis /\ redis'[j] = redis[j] /\ Showing(redis, j)
  BY <1>0, <1>1, <1>2, <1>3, OldOrNew DEF Showing
<1>5. \A j \in DOMAIN redis : j \in DOMAIN redis' /\ redis'[j] = redis[j]
  BY <1>0, <1>1, <1>2, OldOrNew
<1>6. InStore(redis)'
  BY <1>4 DEF ViewInv, InStore, Ahead
<1>7. CASE \A j \in DOMAIN redis : ~Showing(redis, j)
  <2>1. \A c \in online \cap told.to : view[c] = Now
    BY <1>7 DEF ViewInv, Newest
  <2>2. \A j \in DOMAIN redis' : ~Showing(redis, j)'
    BY <1>4, <1>7
  <2> QED BY <1>6, <2>1, <2>2 DEF ViewInv, Now
<1>8. ASSUME NEW p \in DOMAIN redis, Newest(redis, p),
             \A c \in online \cap told.to : c \in Range(redis[p].todo) \/ view[c] = Now
      PROVE  ViewInv'
  <2>1. Newest(redis, p)'
    BY <1>4, <1>5, <1>8 DEF Newest, Showing, Ahead
  <2> QED BY <1>5, <1>6, <1>8, <2>1 DEF ViewInv, Now
<1> QED BY <1>7, <1>8 DEF ViewInv

LEMMA ViewStep ==
  ASSUME Placed, ViewInv, [Next]_vars
  PROVE  ViewInv'
<1>0. /\ TypeInv /\ redis \in Seq(Loops) /\ clients \in Seq(Clients)
      /\ \A j \in DOMAIN redis : redis[j].todo \in Seq(Clients)
  BY ListsTyped DEF Placed
<1>1. CASE UNCHANGED <<clients, online, redis, nodes, view, told>>
  <2>1. Now' = Now
    BY <1>1 DEF Now
  <2> QED BY <1>1, <2>1 DEF ViewInv, Newest, InStore, Showing, Ahead
<1>2. ASSUME NEW c \in Clients, Join(c) PROVE ViewInv'
  <2>1. /\ c \notin Range(clients) /\ clients' = Append(clients, c)
        /\ online' = online \cup {c} /\ UNCHANGED <<redis, nodes, view, told>>
    BY <1>2 DEF Join, streams
  <2>2. Range(clients') = Range(clients) \cup {c}
    BY <1>0, <2>1, RangeAppended
  <2>3. c \notin told.to
    BY <2>1 DEF ViewInv
  <2>4. online' \cap told'.to \subseteq online \cap told.to
    BY <2>1, <2>3
  <2>5. InStore(redis)'
    <3> SUFFICES ASSUME NEW j \in DOMAIN redis, Showing(redis, j)
                 PROVE  Ahead(redis[j].todo, Append(clients, c), 0)
      BY <2>1 DEF InStore, Showing, Ahead
    <3> QED BY <1>0, AheadKept DEF ViewInv, InStore
  <2>6. \A p \in DOMAIN redis : Newest(redis, p) => Newest(redis, p)'
    BY <2>1 DEF Newest, Showing, Ahead
  <2>7. Now' = Now /\ \A j \in DOMAIN redis : Showing(redis, j)' = Showing(redis, j)
    BY <2>1 DEF Now, Showing
  <2> QED BY <2>1, <2>2, <2>4, <2>5, <2>6, <2>7 DEF ViewInv
<1>3. ASSUME NEW c \in Clients, Leave(c) PROVE ViewInv'
  <2>1. online' \subseteq online /\ UNCHANGED <<clients, redis, nodes, view, told>>
    BY <1>3 DEF Leave, streams
  <2>2. Now' = Now
    BY <2>1 DEF Now
  <2> QED BY <2>1, <2>2 DEF ViewInv, Newest, InStore, Showing, Ahead
<1>4. ASSUME NEW x \in Sensors, Receive(x) PROVE ViewInv'
  <2>1. PICK s \in Samples : s = Len(sent) + 1
    BY <1>0, <1>4, ConstantsAssumption DEF Receive, TypeInv, TypeOK, Samples
  <2>2. redis' = redis \o (IF clients = <<>> THEN AskForAgent(s)
                           ELSE <<SampleLoop(s, clients)>>)
    BY <1>4, <2>1 DEF Receive
  <2> QED BY <1>0, <1>4, <2>2, SampleViews DEF Receive, streams
<1>5. ASSUME NEW st \in Starts, Deliver(st) PROVE ViewInv'
  <2>1. PICK s \in Samples : s = due.sample
    BY <1>0, <1>5 DEF TypeInv, BusHasSample, Deliver
  <2>2. Handle(st, s) /\ UNCHANGED <<clients, online, view>>
    BY <1>5, <2>1, HandleTakes DEF Placed, Deliver
  <2>3. CASE Len(buffer) + 1 = BatchSize
    BY <1>1, <2>2, <2>3 DEF Handle, Complete
  <2>4. CASE Len(buffer) + 1 # BatchSize
    BY <1>0, <2>2, <2>4, ShowViews DEF Handle
  <2> QED BY <2>3, <2>4
<1>6. ASSUME NEW q \in preds, Predicted(q) PROVE ViewInv'
  <2>1. q.of \in Starts /\ q.sample \in Samples
    BY <1>0 DEF TypeInv, TypeOK
  <2> QED BY <1>0, <1>6, <2>1, ShowViews DEF Predicted
<1>7. CASE \/ StoreAgent \/ ForgetAgent
           \/ \E st \in Starts : Start(st) \/ Started(st)
           \/ Pause
           \/ \E s \in Samples : Found(s)
           \/ UNCHANGED vars
  BY <1>1, <1>7 DEF StoreAgent, ForgetAgent, Start, Started, Pause, Found, vars,
     streams, gateway
<1> QED BY <1>0, <1>2, <1>3, <1>4, <1>5, <1>6, <1>7, ReplyViews DEF Next

\* Once every loop is through, a client that is connected, and was when the nodes
\* took the last sample, looks at the nodes that took it, as they are now, however
\* many loops of however many STARTs ran side by side; and these are the present monitoring's once it
\* has values, but for a sample that waited for the predictor.
THEOREM NoClientLagsBehind == Spec => []ViewsCatchUp
<1>1. Init => ViewInv /\ PresentInv
  BY DEF Init, ViewInv, InStore, PresentInv
<1>2. Placed /\ ViewInv /\ [Next]_vars => ViewInv'
  BY ViewStep
<1>3. Init => LateInv
  BY DEF Init, LateInv
<1>4. Placed /\ LateInv /\ [Next]_vars => LateInv'
  BY LateStep
<1>5. Placed /\ LateInv /\ PresentInv /\ [Next]_vars => PresentInv'
  BY PresentStep
<1>6. Placed /\ ViewInv /\ PresentInv => ViewsCatchUp
  <2> SUFFICES ASSUME TypeInv, ViewInv, PresentInv, redis = <<>>,
                      NEW c \in online
               PROVE  IF c \in told.to THEN view[c] = Now ELSE view[c].of = None
    BY DEF Placed, ViewsCatchUp, PresentInv, Now
  <2>1. c \in Clients
    BY DEF TypeInv, TypeOK
  <2>2. DOMAIN redis = {}
    OBVIOUS
  <2> QED BY <2>1, <2>2 DEF ViewInv
<1> QED BY <1>1, <1>2, <1>3, <1>4, <1>5, <1>6, PlacedAlways, PTL DEF Spec
=============================================================================
