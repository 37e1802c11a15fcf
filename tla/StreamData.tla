----------------------------- MODULE StreamData -----------------------------
(***************************************************************************)
(* The way of a sample through the server, for one monitored process:      *)
(* handleMessage waits for Redis once per client, once for the agent, and  *)
(* for the database; the bus hands the sample to the stream; every         *)
(* BatchSize samples a prediction is awaited before the sample goes on;    *)
(* the flow's nodes, which the START's closures share, take the value; and *)
(* a loop over the clients that waits for Redis again sends them the nodes *)
(* as they are when it comes to the client.                                *)
(***************************************************************************)
EXTENDS Naturals, Sequences, FiniteSets

CONSTANTS
  Sensors,       \* sensors of the flow's nodes
  Clients,       \* sockets of clients
  Starts,        \* the STARTs of the process, each with closures of its own
  BatchSize,     \* samples per prediction (9)
  MaxSamples,    \* bounds the samples
  None

ASSUME ConstantsAssumption ==
  /\ BatchSize \in Nat \ {0} /\ MaxSamples \in Nat
  /\ None \notin Starts

VARIABLES
  sent,      \* the agent's samples so far: the sensor of each, in order
  stored,    \* the agent's socket is in the connection store
  clients,   \* clients' sockets in the connection store, oldest first
  online,    \* clients whose socket is open
  redis,     \* loops that await a reply of Redis, in the order of asking
  db,        \* samples whose agent is being looked up
  due,       \* the bus is handing bus.sample to the streams bus.to
  phase,     \* of each START: unused, loading, live or dead
  entry,     \* the manager's map: the START whose stream it holds
  buffer,    \* the entry's buffer
  preds,     \* predictions awaited
  nodes,     \* of each START, the sample that each sensor's nodes show
  view,      \* what each client has been shown last
  batched,   \* history: samples that were sent to the predictor
  closers,   \* history: samples that completed a batch
  last,      \* history: of each START, the sample handled last per sensor
  told       \* history: what the nodes took last: the sample, in which START's
             \* nodes, and the clients whose sockets were stored by then

vars == <<sent, stored, clients, online, redis, db, due, phase, entry, buffer, preds,
          nodes, view, batched, closers, last, told>>

gateway == <<sent, stored, clients, online, redis, db>>
streams == <<phase, entry, buffer, preds, nodes, batched, closers, last, told>>

Samples == 1 .. MaxSamples
Blank   == [x \in Sensors |-> 0]          \* no value yet
Quiet   == [sample |-> 0, to |-> {}]
SampleLoop(s, todo) == [kind |-> "sample", id |-> s, todo |-> todo]
ShowLoop(st, todo)  == [kind |-> "show", id |-> st, todo |-> todo]
Range(q) == {q[i] : i \in DOMAIN q}

Init ==
  /\ sent = <<>> /\ stored = FALSE /\ clients = <<>> /\ online = {}
  /\ redis = <<>> /\ db = {} /\ due = Quiet
  /\ phase = [st \in Starts |-> "unused"] /\ entry = None
  /\ buffer = <<>> /\ preds = {}
  /\ nodes = [st \in Starts |-> Blank]
  /\ view = [c \in Clients |-> [of |-> None, at |-> Blank]]
  /\ batched = {} /\ closers = {}
  /\ last = [st \in Starts |-> Blank]
  /\ told = [by |-> None, sample |-> 0, to |-> {}]

-----------------------------------------------------------------------------
(* The connections.  A client that comes back has a new socket. *)

Join(c) ==
  /\ due = Quiet /\ c \notin Range(clients)
  /\ clients' = Append(clients, c) /\ online' = online \cup {c}
  /\ UNCHANGED <<sent, stored, redis, db, due, streams, view>>

\* handleDisconnect looks for an agent of that socket and finds none: the
\* client's entry stays in the store.
Leave(c) ==
  /\ due = Quiet /\ c \in online
  /\ online' = online \ {c}
  /\ UNCHANGED <<sent, stored, clients, redis, db, due, streams, view>>

StoreAgent ==
  /\ due = Quiet /\ ~stored
  /\ stored' = TRUE
  /\ UNCHANGED <<sent, clients, online, redis, db, due, streams, view>>

\* Only while nothing is monitored: see CarefulOperator and LossySpec.
ForgetAgent ==
  /\ due = Quiet /\ stored
  /\ entry = None /\ \A st \in Starts : phase[st] # "loading"
  /\ stored' = FALSE
  /\ UNCHANGED <<sent, clients, online, redis, db, due, streams, view>>

-----------------------------------------------------------------------------
(* START and PAUSE, as a careful operator gives them. *)

\* createStream's query.
Start(st) ==
  /\ due = Quiet /\ stored /\ phase[st] = "unused"
  /\ entry = None /\ \A other \in Starts : phase[other] # "loading"
  /\ phase' = [phase EXCEPT ![st] = "loading"]
  /\ UNCHANGED <<gateway, due, entry, buffer, preds, nodes, view,
                 batched, closers, last, told>>

\* The rest of createStream: the subscription with its closures, the entry of
\* the map, and enqueueJob's listener on the bus.
Started(st) ==
  /\ due = Quiet /\ phase[st] = "loading"
  /\ phase' = [phase EXCEPT ![st] = "live"]
  /\ entry' = st /\ buffer' = <<>>
  /\ UNCHANGED <<gateway, due, preds, nodes, view, batched, closers, last, told>>

\* Bug: the subscription is not closed with its entry.
PauseLeavesSub ==
  /\ due = Quiet /\ entry # None
  /\ entry' = None /\ buffer' = <<>>
  /\ UNCHANGED <<gateway, due, phase, preds, nodes, view, batched, closers, last, told>>

\* deleteStream.  The listener stays on the bus, its subject is heard by
\* nobody.
Pause ==
  /\ due = Quiet /\ entry # None
  /\ phase' = [phase EXCEPT ![entry] = "dead"]
  /\ entry' = None /\ buffer' = <<>>
  /\ UNCHANGED <<gateway, due, preds, nodes, view, batched, closers, last, told>>

-----------------------------------------------------------------------------
(* handleMessage. *)

\* What follows the loop over the clients: the agent's socket is looked up
\* among the stored ones, then in Redis.
AskForAgent(s) == IF stored THEN <<SampleLoop(s, <<>>)>> ELSE <<>>

Receive(x) ==
  /\ due = Quiet /\ Len(sent) < MaxSamples
  /\ sent' = Append(sent, x)
  /\ LET s == Len(sent) + 1 IN
     redis' = redis \o (IF clients = <<>> THEN AskForAgent(s)
                        ELSE <<SampleLoop(s, clients)>>)
  /\ UNCHANGED <<stored, clients, online, db, due, streams, view>>

\* Bug: emitting to a closed socket throws, so that a loop ends at a client
\* that has left.
ReplyThrows ==
  /\ due = Quiet /\ redis # <<>>
  /\ LET loop == Head(redis)
         rest == Tail(redis)
         on   == [loop EXCEPT !.todo = Tail(loop.todo)]
     IN
     \/ /\ loop.todo # <<>> /\ Head(loop.todo) \notin online
        /\ redis' = rest
        /\ UNCHANGED <<db, view>>
     \/ /\ loop.todo # <<>> /\ Head(loop.todo) \in online
        /\ redis' = rest \o (IF on.todo # <<>> THEN <<on>>
                             ELSE IF loop.kind = "sample" THEN AskForAgent(loop.id)
                             ELSE <<>>)
        /\ view' = IF loop.kind = "sample" THEN view
                   ELSE [view EXCEPT ![Head(loop.todo)] =
                           [of |-> loop.id, at |-> nodes[loop.id]]]
        /\ UNCHANGED db
     \/ /\ loop.todo = <<>>
        /\ redis' = rest
        /\ db' = IF stored THEN db \cup {loop.id} ELSE db
        /\ UNCHANGED view
  /\ UNCHANGED <<sent, stored, clients, online, due, streams>>

\* A reply of Redis to the loop that asked first.  What is sent to a closed
\* socket is dropped.
Reply ==
  /\ due = Quiet /\ redis # <<>>
  /\ LET loop == Head(redis)
         rest == Tail(redis)
         on   == [loop EXCEPT !.todo = Tail(loop.todo)]
     IN
     \/ /\ loop.kind = "show"
        /\ LET c == Head(loop.todo) IN
           view' = IF c \in online
                   THEN [view EXCEPT ![c] = [of |-> loop.id, at |-> nodes[loop.id]]]
                   ELSE view
        /\ redis' = IF on.todo = <<>> THEN rest ELSE Append(rest, on)
        /\ UNCHANGED db
     \/ /\ loop.kind = "sample" /\ loop.todo # <<>>
        /\ redis' = rest \o (IF on.todo = <<>> THEN AskForAgent(loop.id) ELSE <<on>>)
        /\ UNCHANGED <<db, view>>
     \/ /\ loop.kind = "sample" /\ loop.todo = <<>>
        /\ redis' = rest
        /\ db' = IF stored THEN db \cup {loop.id} ELSE db
        /\ UNCHANGED view
  /\ UNCHANGED <<sent, stored, clients, online, due, streams>>

\* The agent's row was found; the bus takes the sample to every listener in
\* turn, and so to every subscription that is still open.
Found(s) ==
  /\ due = Quiet /\ s \in db
  /\ db' = db \ {s}
  /\ due' = LET open == {st \in Starts : phase[st] = "live"} IN
            IF open = {} THEN Quiet ELSE [sample |-> s, to |-> open]
  /\ UNCHANGED <<sent, stored, clients, online, redis, streams, view>>

-----------------------------------------------------------------------------
(* handleData. *)

\* The nodes take the value and step:running tells the clients.  (The loop
\* over the nodes emits once per node; the loops send the same, at the same
\* time, so one stands for all.)
Show(st, s) ==
  /\ nodes' = [nodes EXCEPT ![st][sent[s]] = s]
  /\ redis' = redis \o (IF clients = <<>> THEN <<>> ELSE <<ShowLoop(st, clients)>>)
  /\ told' = [by |-> st, sample |-> s, to |-> Range(clients)]

Complete(st, s) ==
  /\ buffer' = <<>>
  /\ preds' = preds \cup {[of |-> st, sample |-> s]}
  /\ batched' = batched \cup Range(buffer) \cup {s}
  /\ closers' = closers \cup {s}
  /\ UNCHANGED <<nodes, redis, told>>

\* Bug: the batch is copied but not taken out of the buffer.
HandleKeepsBatch(st, s) ==
  IF Len(buffer) + 1 >= BatchSize
  THEN /\ buffer' = Append(buffer, s)
       /\ preds' = preds \cup {[of |-> st, sample |-> s]}
       /\ batched' = batched \cup Range(buffer) \cup {s}
       /\ closers' = closers \cup {s}
       /\ UNCHANGED <<nodes, redis, told>>
  ELSE /\ buffer' = Append(buffer, s)
       /\ Show(st, s)
       /\ UNCHANGED <<preds, batched, closers>>

\* Bug: every sample waits for the predictor.
HandleAwaits(st, s) ==
  /\ preds' = preds \cup {[of |-> st, sample |-> s]}
  /\ IF Len(buffer) + 1 = BatchSize
     THEN /\ buffer' = <<>> /\ closers' = closers \cup {s}
          /\ batched' = batched \cup Range(buffer) \cup {s}
     ELSE /\ buffer' = Append(buffer, s)
          /\ UNCHANGED <<batched, closers>>
  /\ UNCHANGED <<nodes, redis, told>>

Handle(st, s) ==
  IF Len(buffer) + 1 = BatchSize
  THEN Complete(st, s)
  ELSE /\ buffer' = Append(buffer, s)
       /\ Show(st, s)
       /\ UNCHANGED <<preds, batched, closers>>

Deliver(st) ==
  /\ st \in due.to
  /\ due' = IF due.to = {st} THEN Quiet ELSE [due EXCEPT !.to = @ \ {st}]
  /\ IF entry = None
     THEN UNCHANGED <<redis, buffer, preds, nodes, batched, closers, last, told>>
     ELSE /\ Handle(st, due.sample)
          /\ last' = [last EXCEPT ![st][sent[due.sample]] = due.sample]
  /\ UNCHANGED <<sent, stored, clients, online, db, phase, entry, view>>

\* Bug: the clients are not told of the sample that completed the batch.
PredictedSilently(q) ==
  /\ due = Quiet /\ q \in preds
  /\ preds' = preds \ {q}
  /\ nodes' = [nodes EXCEPT ![q.of][sent[q.sample]] = q.sample]
  /\ UNCHANGED <<gateway, due, phase, entry, buffer, view,
                 batched, closers, last, told>>

\* The predictor has answered or failed, and the sample goes on, whatever has
\* become of the stream.
Predicted(q) ==
  /\ due = Quiet /\ q \in preds
  /\ preds' = preds \ {q}
  /\ Show(q.of, q.sample)
  /\ UNCHANGED <<sent, stored, clients, online, db, due, phase, entry, buffer, view,
                 batched, closers, last>>

Next ==
  \/ \E c \in Clients : Join(c) \/ Leave(c)
  \/ StoreAgent \/ ForgetAgent
  \/ \E st \in Starts : Start(st) \/ Started(st) \/ Deliver(st)
  \/ Pause
  \/ \E x \in Sensors : Receive(x)
  \/ Reply
  \/ \E s \in Samples : Found(s)
  \/ \E q \in preds : Predicted(q)

Spec == Init /\ [][Next]_vars

\* Redis and the database answer and the bus delivers; the predictor, which
\* is asked without a timeout, need not answer.
Fairness ==
  /\ WF_vars(Reply)
  /\ \A s \in Samples : WF_vars(Found(s))
  /\ \A st \in Starts : WF_vars(Deliver(st))

FairSpec == Spec /\ Fairness

-----------------------------------------------------------------------------
Loops ==
  [kind : {"sample"}, id : Samples, todo : Seq(Clients)]
    \cup [kind : {"show"}, id : Starts, todo : Seq(Clients)]

Shown == [Sensors -> 0 .. MaxSamples]

TypeOK ==
  /\ sent \in Seq(Sensors) /\ Len(sent) <= MaxSamples
  /\ stored \in BOOLEAN
  /\ clients \in Seq(Clients) /\ online \subseteq Clients
  /\ redis \in Seq(Loops)
  /\ db \subseteq Samples
  /\ due \in [sample : 0 .. MaxSamples, to : SUBSET Starts]
  /\ phase \in [Starts -> {"unused", "loading", "live", "dead"}]
  /\ entry \in Starts \cup {None}
  /\ buffer \in Seq(Samples) /\ Len(buffer) < BatchSize
  /\ preds \subseteq [of : Starts, sample : Samples]
  /\ nodes \in [Starts -> Shown]
  /\ view \in [Clients -> [of : Starts \cup {None}, at : Shown]]
  /\ batched \subseteq Samples /\ closers \subseteq Samples
  /\ last \in [Starts -> Shown]
  /\ told \in [by : Starts \cup {None}, sample : 0 .. MaxSamples, to : SUBSET Clients]

\* No sample is counted twice by the predictor, however often the process is
\* started anew: every START leaves a listener on the bus, and only the
\* present one's reaches handleData (enqueueJob, deleteStream, the buffer).
CountedOnce ==
  /\ \A i, j \in DOMAIN buffer : buffer[i] = buffer[j] => i = j
  /\ Range(buffer) \cap batched = {}

\* What a sensor's nodes show is the sample handled last, unless a sample that
\* completed a batch is involved: that one is late, and may be shown over a
\* newer one (handleData goes on after the prediction without looking).
OnlyBatchesAreLate ==
  due = Quiet =>
  \A st \in Starts, x \in Sensors :
    \/ nodes[st][x] = last[st][x]
    \/ nodes[st][x] \in closers
    \/ last[st][x] \in closers

\* Once the loops are through, every client that was there when the nodes last
\* took a sample is shown the nodes that took it, as they are now; those of an
\* earlier monitoring than the present one, once this has any values, only if
\* that sample had awaited a prediction.  Who came later is shown nothing yet
\* (the loops of notifyClients overlap, and each sends the nodes as they are at
\* the moment of sending).
ViewsCatchUp ==
  redis = <<>> =>
    /\ \A c \in online :
         IF c \in told.to THEN view[c] = [of |-> told.by, at |-> nodes[told.by]]
         ELSE view[c].of = None
    /\ entry # None /\ nodes[entry] # Blank =>
         told.by = entry \/ told.sample \in closers

\* After a PAUSE the nodes of the monitoring do not change and no loop that
\* tells the clients of them begins, but for the samples that were awaiting a
\* prediction.  Loops under way at the PAUSE go on to the clients that are left.
Telling(loop, st) == loop.kind = "show" /\ loop.id = st
PausedGoesQuiet ==
  [][\A st \in Starts : entry # st /\ (\A q \in preds \ preds' : q.of # st) =>
       /\ nodes'[st] = nodes[st]
       /\ \A i \in DOMAIN redis' : Telling(redis'[i], st) =>
            \E j \in DOMAIN redis :
              /\ Telling(redis[j], st)
              /\ redis'[i].todo \in {redis[j].todo, Tail(redis[j].todo)}]_vars

\* A sample that handleMessage has in hand is handed to the process's stream
\* or finds no stream or no agent: clients that come and go meanwhile do not
\* lose it (a closed socket takes an emit).
InHand(s) == s \in db \/ \E i \in DOMAIN redis : redis[i].kind = "sample" /\ redis[i].id = s
Taken(s) == s \in batched \cup Range(buffer)
SampleIsTaken ==
  \A s \in Samples : InHand(s) ~> (Taken(s) \/ \A st \in Starts : phase[st] # "live")
=============================================================================
