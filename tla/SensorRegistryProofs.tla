----------------------- MODULE SensorRegistryProofs -----------------------
(***************************************************************************)
(* Theorems about what an agent has to read (SensorRegistry).              *)
(*                                                                         *)
(* Whatever is queued between the server and the agent's list is seen as a *)
(* set of events: Pending is everything on its way, Reaching the part that *)
(* the agent's present connection will still be sent.  No item is          *)
(* forgotten (Coverage): while the agent is connected, every live item is  *)
(* registered, or something that will register it is on its way, back to   *)
(* the request that created it or to the greeting that is not finished.    *)
(* With a careful operator one thing happens at a time (OneAtATime), what  *)
(* is on its way is what the tables say (Current), and so the list differs *)
(* from the tables only where a correction is on its way (Agreement).      *)
(***************************************************************************)
EXTENDS SensorRegistry, TLAPS, SequenceTheorems, FiniteSetTheorems

Waiting(named) == {n \in Range(redis) : n.named = named}

\* What has left the server's handlers and has not reached the agent's list ...
Pending == Range(chan) \cup Range(wire) \cup {n.event : n \in Waiting(TRUE)}

\* ... and will be sent on the present connection.
Reaching ==
  Range(chan) \cup Range(wire)
    \cup {n.event : n \in {m \in Waiting(TRUE) : link \in Range(m.keys)}}

IsStored(k) == k \in Range(store)

\* The agent is connected and has not been asked for its list yet.
Ungreeted == link # None /\ conn[link] \in {"new", "stored"}

-----------------------------------------------------------------------------
(* The invariant. *)

\* A live row has something to register; so have the rows that were read.
RowsFilled ==
  \A i \in Items : Live(i) => table[i].conf \in Confs

\* A permanent sensor is live and nobody removes it.
PermanentStays ==
  /\ \A i \in Permanent : Live(i)
  /\ \A h \in Requests : req[h].pc = "remove" => req[h].item \notin Permanent

\* The gateway stores a socket before it greets it.
GreetedIsStored ==
  \A k \in Sockets : conn[k] \in {"stored", "ready"} => IsStored(k)

\* The list that a connected agent reports was sent on its connection.
LinkKnown ==
  /\ link = None => wire = <<>>
  /\ link # None => /\ conn[link] # "free"
                    /\ \A n \in DOMAIN up : up[n].sock = link

\* An item is removed from the agent's list only when it is deleted.
DropsDeleted ==
  /\ \A h \in Requests :
       req[h].pc = "removed" => table[req[h].item].state = "deleted"
  /\ \A j \in Items : Drop(j) \in Pending => table[j].state = "deleted"

BaseInv ==
  /\ TypeOK /\ RowsFilled /\ PermanentStays /\ GreetedIsStored /\ LinkKnown
  /\ DropsDeleted

\* The greeting under way: whatever it finds will be sent.
WillSync(h) ==
  req[h].pc = "sync" /\ \E s \in Sensors : req[h].rows[s] # None

Greeting ==
  Ungreeted \/ HealthCheck \in Reaching \/ up # <<>>

WillRegister(i) ==
  \/ Greeting
  \/ \E h \in Requests :
       \/ WillSync(h) /\ req[h].rows[i] # None
       \/ req[h].pc = "created" /\ req[h].item = i
  \/ \E e \in Reaching : e.type \in {"AddSensor", "EditSensor"} /\ e.item = i

Coverage ==
  link # None =>
    \A i \in Items :
      (Live(i) /\ (i \in Sensors \/ Permanent # {})) =>
        Covered(i) \/ WillRegister(i)

CoverInv == BaseInv /\ Coverage

-----------------------------------------------------------------------------
(* The invariant under a careful operator. *)

AllIdle == \A h \in Requests : req[h] = Idle
NothingSent == redis = <<>> /\ wire = <<>> /\ chan = <<>>

OneAtATime ==
  /\ \A h \in Requests : req[h] # Idle =>
       NothingSent /\ up = <<>> /\ \A g \in Requests \ {h} : req[g] = Idle
  /\ up # <<>> => NothingSent /\ Len(up) = 1 /\ AllIdle
  /\ HealthCheck \in Pending =>
       redis = <<>> /\ Len(wire) + Len(chan) = 1 /\ up = <<>> /\ AllIdle
  /\ Ungreeted => NothingSent /\ up = <<>> /\ AllIdle

Syncing == \E h \in Requests : req[h].pc = "sync"

Right(i) ==
  IF Live(i) THEN {[item |-> i, conf |-> table[i].conf]} ELSE {}

Rows == [i \in Items |-> IF Live(i) THEN table[i].conf ELSE None]

\* What is on its way, or about to be, is what the tables say.
Current ==
  /\ \A e \in Pending :
       /\ e.type \in {"AddSensor", "EditSensor"} =>
            Live(e.item) /\ e.conf = table[e.item].conf
       /\ e.type = "RemoveSensor" => ~Live(e.item)
  /\ \A h \in Requests :
       /\ req[h].pc \in {"created", "updated"} =>
            Live(req[h].item) /\ req[h].conf = table[req[h].item].conf
       /\ req[h].pc \in {"check", "remove"} => Live(req[h].item)
       /\ req[h].pc = "sync" => req[h].rows = Rows

Corrects(i) ==
  \/ (Greeting \/ Syncing) /\ Live(i)
  \/ \E h \in Requests : req[h].pc \in {"updated", "removed"} /\ req[h].item = i
  \/ \E h \in Requests : req[h].pc = "created" /\ req[h].item = i
                         /\ EntriesOf(i) \subseteq Right(i)
  \/ \E e \in Reaching :
       \/ e.type \in {"EditSensor", "RemoveSensor"} /\ e.item = i
       \/ e.type = "AddSensor" /\ e.item = i /\ EntriesOf(i) \subseteq Right(i)

Agreement ==
  link # None =>
    /\ Greeting \/ Syncing => reg = {}
    /\ \A i \in Items : EntriesOf(i) = Right(i) \/ Corrects(i)

CarefulInv ==
  /\ BaseInv /\ OneAtATime /\ Current
  /\ Permanent # {} => Agreement

-----------------------------------------------------------------------------
(* Sequences and the sets of what they hold. *)

LEMMA RangeAppend ==
  ASSUME NEW S, NEW q \in Seq(S), NEW x
  PROVE  /\ x \in S => Append(q, x) \in Seq(S)
         /\ Range(Append(q, x)) = Range(q) \cup {x}
<1>0. x \in S => Append(q, x) \in Seq(S)
  OBVIOUS
<1>1. /\ DOMAIN Append(q, x) = 1..(Len(q) + 1)
      /\ DOMAIN q = 1..Len(q) /\ Len(q) \in Nat
      /\ \A n \in 1..Len(q) : Append(q, x)[n] = q[n]
      /\ Append(q, x)[Len(q) + 1] = x
  OBVIOUS
<1>2. \A n \in 1..(Len(q) + 1) : n \in 1..Len(q) \/ n = Len(q) + 1
  BY <1>1
<1>3. 1..Len(q) \subseteq 1..(Len(q) + 1) /\ Len(q) + 1 \in 1..(Len(q) + 1)
  BY <1>1
<1> QED BY <1>0, <1>1, <1>2, <1>3 DEF Range

LEMMA RangeTail ==
  ASSUME NEW S, NEW q \in Seq(S), q # <<>>
  PROVE  /\ Head(q) \in S /\ Tail(q) \in Seq(S) /\ Len(Tail(q)) = Len(q) - 1
         /\ Range(q) = {Head(q)} \cup Range(Tail(q))
<1>1. /\ Tail(q) \in Seq(S) /\ Head(q) \in S /\ Head(q) = q[1]
      /\ Len(q) \in Nat \ {0} /\ Len(Tail(q)) = Len(q) - 1
      /\ DOMAIN q = 1..Len(q)
      /\ DOMAIN Tail(q) = 1..(Len(q) - 1)
  OBVIOUS
<1>2. \A n \in 1..(Len(q) - 1) : Tail(q)[n] = q[n + 1]
  OBVIOUS
<1>3. \A x \in Range(q) : x = Head(q) \/ x \in Range(Tail(q))
  <2> TAKE x \in Range(q)
  <2>1. PICK n \in 1..Len(q) : q[n] = x
    BY <1>1 DEF Range
  <2>2. CASE n = 1
    BY <1>1, <2>1, <2>2
  <2>3. CASE n # 1
    <3>1. n - 1 \in 1..(Len(q) - 1) /\ (n - 1) + 1 = n
      BY <1>1, <2>1, <2>3
    <3>2. Tail(q)[n - 1] = x
      BY <1>2, <2>1, <3>1
    <3> QED BY <1>1, <3>1, <3>2 DEF Range
  <2> QED BY <2>2, <2>3
<1>4. Head(q) \in Range(q)
  <2>1. 1 \in 1..Len(q)
    BY <1>1
  <2> QED BY <1>1, <2>1 DEF Range
<1>5. \A x \in Range(Tail(q)) : x \in Range(q)
  <2> TAKE x \in Range(Tail(q))
  <2>1. PICK n \in 1..(Len(q) - 1) : Tail(q)[n] = x
    BY <1>1 DEF Range
  <2>2. n + 1 \in 1..Len(q) /\ q[n + 1] = x
    BY <1>1, <1>2, <2>1
  <2> QED BY <1>1, <2>2 DEF Range
<1> QED BY <1>1, <1>3, <1>4, <1>5

LEMMA TailLeft ==
  ASSUME NEW S, NEW q \in Seq(S), q # <<>>, Len(q) # 1
  PROVE  Tail(q) # <<>>
<1>1. Len(q) \in Nat \ {0} /\ Len(Tail(q)) = Len(q) - 1
  OBVIOUS
<1>2. Len(Tail(q)) # 0 /\ Len(<<>>) = 0
  BY <1>1
<1> QED BY <1>2

LEMMA RangeEmpty == Range(<<>>) = {}
BY DEF Range

LEMMA RangeInSet ==
  ASSUME NEW S, NEW q \in Seq(S)
  PROVE  /\ Range(q) \subseteq S /\ (Range(q) = {} <=> q = <<>>)
         /\ Len(q) \in Nat /\ (Len(q) = 0 <=> q = <<>>)
<1>1. /\ DOMAIN q = 1..Len(q) /\ Len(q) \in Nat
      /\ \A n \in 1..Len(q) : q[n] \in S
      /\ Len(q) = 0 <=> q = <<>>
  OBVIOUS
<1>2. q # <<>> => 1 \in DOMAIN q
  BY <1>1
<1> QED BY <1>1, <1>2, RangeEmpty DEF Range

\* What is not forgotten stays in the map of connections.
LEMMA ForgetKeeps ==
  ASSUME NEW S, store \in Seq(S), NEW k, Forget(k)
  PROVE  store' \in Seq(S) /\ \A x \in Range(store) : x = k \/ x \in Range(store')
<1>1. PICK n \in DOMAIN store :
        store[n] = k /\ store' = SubSeq(store, 1, n - 1)
                                   \o SubSeq(store, n + 1, Len(store))
  BY DEF Forget
<1> DEFINE a == SubSeq(store, 1, n - 1)
           b == SubSeq(store, n + 1, Len(store))
<1>2. /\ DOMAIN store = 1..Len(store) /\ Len(store) \in Nat /\ n \in 1..Len(store)
  BY <1>1
<1>3. /\ a \in Seq(S) /\ Len(a) = n - 1
      /\ \A m \in 1..(n - 1) : a[m] = store[m]
  BY <1>2
<1>4. /\ b \in Seq(S) /\ Len(b) = Len(store) - n
      /\ \A m \in 1..(Len(store) - n) : b[m] = store[m + n]
  BY <1>2
<1>5. Range(store') = Range(a) \cup Range(b) /\ store' \in Seq(S)
  <2> HIDE DEF a, b
  <2>1. store' = a \o b
    BY <1>1 DEF a, b
  <2> QED BY <2>1, <1>3, <1>4, RangeConcatenation
<1>6. ASSUME NEW x \in Range(store), x # k
      PROVE  x \in Range(a) \/ x \in Range(b)
  <2> HIDE DEF a, b
  <2>1. PICK m \in 1..Len(store) : store[m] = x
    BY <1>2, <1>6 DEF Range
  <2>2. m # n
    BY <1>1, <1>6, <2>1
  <2>3. CASE m < n
    <3>1. m \in 1..(n - 1) /\ DOMAIN a = 1..(n - 1)
      BY <1>2, <1>3, <2>3
    <3> QED BY <1>3, <2>1, <3>1 DEF Range
  <2>4. CASE m > n
    <3>1. m - n \in 1..(Len(store) - n) /\ DOMAIN b = 1..(Len(store) - n)
      BY <1>2, <1>4, <2>4
    <3>2. b[m - n] = x
      BY <1>2, <1>4, <2>1, <3>1
    <3> QED BY <3>1, <3>2 DEF Range
  <2> QED BY <1>2, <2>2, <2>3, <2>4
<1> QED BY <1>5, <1>6

-----------------------------------------------------------------------------
(* The notifications of some events, and what a synchronisation sends. *)

\* A notification has somebody left to ask for.
OpenNote == {n \in Note : n.keys # <<>>}

LEMMA OpenNotes ==
  ASSUME NEW q
  PROVE  (q \in Seq(Note) /\ \A n \in DOMAIN q : q[n].keys # <<>>)
           <=> q \in Seq(OpenNote)
<1>1. ASSUME q \in Seq(Note), \A n \in DOMAIN q : q[n].keys # <<>>
      PROVE  q \in Seq(OpenNote)
  <2>1. /\ Len(q) \in Nat /\ DOMAIN q = 1..Len(q)
        /\ q \in [1..Len(q) -> Note]
    BY <1>1
  <2>2. q \in [1..Len(q) -> OpenNote]
    BY <1>1, <2>1 DEF OpenNote
  <2> QED BY <2>1, <2>2, SeqDef
<1>2. ASSUME q \in Seq(OpenNote)
      PROVE  q \in Seq(Note) /\ \A n \in DOMAIN q : q[n].keys # <<>>
  <2>1. OpenNote \subseteq Note
    BY DEF OpenNote
  <2>2. q \in Seq(Note)
    BY <1>2, <2>1, SeqMonotonic
  <2>3. \A n \in DOMAIN q : q[n] \in OpenNote
    BY <1>2
  <2> QED BY <2>2, <2>3 DEF OpenNote
<1> QED BY <1>1, <1>2

LEMMA NotesHold ==
  ASSUME TypeOK, NEW evs \in Seq(Event), NEW named \in BOOLEAN
  PROVE  /\ Notes(evs, named) \in Seq(OpenNote)
         /\ \A n \in Range(Notes(evs, named)) :
              /\ n \in OpenNote /\ n.named = named /\ n.keys = store
              /\ n.event \in Range(evs)
         /\ store # <<>> => \A e \in Range(evs) :
              \E n \in Range(Notes(evs, named)) :
                n.event = e /\ n.named = named /\ n.keys = store
<1> DEFINE q == Notes(evs, named)
           note(e) == [event |-> e, named |-> named, keys |-> store]
<1>1. CASE store = <<>>
  BY <1>1, RangeEmpty DEF Notes
<1>2. CASE store # <<>>
  <2>1. store \in Seq(Sockets \cup Others)
    BY DEF TypeOK
  <2>2. \A e \in Event : note(e) \in OpenNote
    BY <1>2, <2>1 DEF OpenNote, Note
  <2>3. /\ Len(evs) \in Nat /\ DOMAIN evs = 1..Len(evs)
        /\ \A n \in 1..Len(evs) : evs[n] \in Event
    OBVIOUS
  <2>4. q = [n \in 1..Len(evs) |-> note(evs[n])]
    BY <1>2, <2>3 DEF Notes
  <2>5. q \in [1..Len(evs) -> OpenNote]
    BY <2>2, <2>3, <2>4
  <2>6. q \in Seq(OpenNote)
    BY <2>3, <2>5, SeqDef
  <2>7. Range(q) = {note(e) : e \in Range(evs)}
    BY <2>3, <2>4 DEF Range
  <2>8. \A n \in Range(q) : n \in OpenNote
    BY <2>5 DEF Range
  <2>9. \A e : note(e).event = e /\ note(e).named = named /\ note(e).keys = store
    OBVIOUS
  <2> HIDE DEF note
  <2>10. \A n \in Range(q) : \E e \in Range(evs) : n = note(e)
    BY <2>7
  <2>11. \A e \in Range(evs) : note(e) \in Range(q)
    BY <2>7
  <2> HIDE DEF q
  <2>12. \A n \in Range(q) : n.named = named /\ n.keys = store /\ n.event \in Range(evs)
    BY <2>9, <2>10
  <2>13. \A e \in Range(evs) : \E n \in Range(q) :
           n.event = e /\ n.named = named /\ n.keys = store
    BY <2>9, <2>11
  <2> QED BY <2>6, <2>8, <2>12, <2>13 DEF q
<1> QED BY <1>1, <1>2

LEMMA FoundAll ==
  ASSUME NEW S, IsFiniteSet(S), NEW r
  PROVE  /\ Found(S, r) \in Seq(S)
         /\ Range(Found(S, r)) = {i \in S : r.rows[i] # None}
<1> DEFINE live == {i \in S : r.rows[i] # None}
           enum(q) == \A i \in live : \E n \in DOMAIN q : q[n] = i
<1>1. live \subseteq S
  OBVIOUS
<1> HIDE DEF live
<1>2. IsFiniteSet(live)
  BY <1>1, FS_Subset
<1>3. Cardinality(live) \in Nat /\ ExistsBijection(1..Cardinality(live), live)
  BY <1>2, FS_CardinalityType
<1>4. PICK f \in Surjection(1..Cardinality(live), live) : TRUE
  BY <1>3 DEF ExistsBijection, Bijection
<1>5. f \in [1..Cardinality(live) -> live] /\ enum(f)
  BY <1>4 DEF Surjection
<1>6. Found(S, r) = CHOOSE q \in [1..Cardinality(live) -> live] : enum(q)
  BY DEF Found, live
<1>7. Found(S, r) \in [1..Cardinality(live) -> live] /\ enum(Found(S, r))
  BY <1>5, <1>6
<1>8. Range(Found(S, r)) = live
  BY <1>7 DEF Range
<1>9. Found(S, r) \in Seq(S)
  <2>1. Found(S, r) \in [1..Cardinality(live) -> S]
    BY <1>1, <1>7
  <2> QED BY <1>3, <2>1, SeqDef
<1> QED BY <1>8, <1>9 DEF live

LEMMA AddsHold ==
  ASSUME NEW r \in Request, r.pc = "sync"
  PROVE  /\ Adds(r) \in Seq(Event)
         /\ \A e \in Range(Adds(r)) :
              \E i \in Items : r.rows[i] # None /\ e = Add(i, r.rows[i])
         /\ \A i \in Items : r.rows[i] # None => Add(i, r.rows[i]) \in Range(Adds(r))
<1>1. r.rows \in [Items -> Confs \cup {None}]
  BY DEF Request
<1>2. IsFiniteSet(Sensors) /\ IsFiniteSet(Topics)
  BY RegistryAssumption, FS_Subset DEF Items
<1> DEFINE q == Found(Sensors, r) \o Found(Topics, r)
<1>3. /\ Found(Sensors, r) \in Seq(Items) /\ Found(Topics, r) \in Seq(Items)
      /\ Range(Found(Sensors, r)) = {i \in Sensors : r.rows[i] # None}
      /\ Range(Found(Topics, r)) = {i \in Topics : r.rows[i] # None}
  BY <1>2, FoundAll, SeqMonotonic DEF Items
<1>4. q \in Seq(Items) /\ Range(q) = {i \in Items : r.rows[i] # None}
  <2>1. q \in Seq(Items) /\ Range(q) = Range(Found(Sensors, r)) \cup Range(Found(Topics, r))
    BY <1>3, RangeConcatenation
  <2> QED BY <1>3, <2>1 DEF Items
<1>5. Adds(r) = [n \in DOMAIN q |-> Add(q[n], r.rows[q[n]])]
  BY DEF Adds
<1> HIDE DEF q
<1>6. /\ Len(q) \in Nat /\ DOMAIN q = 1..Len(q)
      /\ \A n \in 1..Len(q) : q[n] \in Items
  BY <1>4
<1>7. \A n \in 1..Len(q) : r.rows[q[n]] # None
  BY <1>4, <1>6 DEF Range
<1>8. \A n \in 1..Len(q) : Add(q[n], r.rows[q[n]]) \in Event
  BY <1>1, <1>6, <1>7 DEF Add, Event
<1>9. Adds(r) \in Seq(Event)
  <2>1. Adds(r) \in [1..Len(q) -> Event]
    BY <1>5, <1>6, <1>8
  <2> QED BY <1>6, <2>1, SeqDef
<1>10. Range(Adds(r)) = {Add(q[n], r.rows[q[n]]) : n \in 1..Len(q)}
  BY <1>5, <1>6 DEF Range
<1>11. \A i \in Items : r.rows[i] # None => \E n \in 1..Len(q) : q[n] = i
  BY <1>4, <1>6 DEF Range
<1> QED BY <1>6, <1>7, <1>9, <1>10, <1>11

-----------------------------------------------------------------------------
(* Types. *)

Steps == Next \/ LockAgent

LEMMA EventTypes ==
  /\ \A i \in Items, c \in Confs : Add(i, c) \in Event /\ Edit(i, c) \in Event
  /\ \A i \in Items : Drop(i) \in Event
  /\ HealthCheck \in Event /\ CleanUp \in Event /\ PauseAgent \in Event
BY DEF Add, Edit, Drop, HealthCheck, CleanUp, PauseAgent, Event

LEMMA EventKinds ==
  ASSUME NEW e \in Event
  PROVE  /\ e.type \in {"AddSensor", "EditSensor"} => e.item \in Items /\ e.conf \in Confs
         /\ e.type = "RemoveSensor" => e.item \in Items /\ e = Drop(e.item)
         /\ e.type = "HealthCheck" => e = HealthCheck
BY DEF Event, Drop, HealthCheck

LEMMA RequestKinds ==
  ASSUME NEW r \in Request
  PROVE  /\ r.pc \in {"created", "check", "updated"} =>
              r.item \in Items /\ r.conf \in Confs
         /\ r.pc \in {"remove", "removed"} => r.item \in Items
         /\ r.pc = "sync" => r.rows \in [Items -> Confs \cup {None}]
         /\ r.pc = "idle" <=> r = Idle
         /\ r.pc \in {"idle", "created", "check", "updated", "remove", "removed", "sync"}
BY DEF Request, Idle

LEMMA RequestTypes ==
  /\ Idle \in Request
  /\ \A i \in Items, c \in Confs :
       /\ [pc |-> "created", item |-> i, conf |-> c] \in Request
       /\ [pc |-> "check", item |-> i, conf |-> c] \in Request
       /\ [pc |-> "updated", item |-> i, conf |-> c] \in Request
  /\ \A i \in Items :
       /\ [pc |-> "remove", item |-> i] \in Request
       /\ [pc |-> "removed", item |-> i] \in Request
BY DEF Request, Idle

LEMMA ConcatType ==
  ASSUME NEW S, NEW a \in Seq(S), NEW b \in Seq(S)
  PROVE  a \o b \in Seq(S)
OBVIOUS

LEMMA NotifyTypes ==
  ASSUME TypeOK, NEW ev \in Event, Notify(ev)
  PROVE  redis' \in Seq(OpenNote)
<1>1. <<ev>> \in Seq(Event) /\ TRUE \in BOOLEAN
  OBVIOUS
<1>2. redis \in Seq(OpenNote)
  BY OpenNotes DEF TypeOK
<1>3. Notes(<<ev>>, TRUE) \in Seq(OpenNote)
  BY <1>1, NotesHold
<1> QED BY <1>2, <1>3, ConcatType DEF Notify

LEMMA InitTypes == Init => TypeOK
<1> SUFFICES ASSUME Init PROVE TypeOK
  OBVIOUS
<1>1. table \in [Items -> Row]
  BY DEF Init, Row
<1>2. store \in Seq(Sockets \cup Others)
  <2>1. Cardinality(Others) \in Nat
    BY RegistryAssumption, FS_CardinalityType
  <2>2. store \in [1..Cardinality(Others) -> Sockets \cup Others]
    BY DEF Init
  <2> QED BY <2>1, <2>2, SeqDef
<1>3. req \in [Requests -> Request]
  BY RequestTypes DEF Init
<1> QED BY <1>1, <1>2, <1>3, RegistryAssumption DEF Init, TypeOK

LEMMA TypeStep == TypeOK /\ [Steps]_vars => TypeOK'
<1> SUFFICES ASSUME TypeOK, [Steps]_vars PROVE TypeOK'
  OBVIOUS
<1> USE DEF Goto
<1>a. redis \in Seq(OpenNote)
  BY OpenNotes DEF TypeOK
<1>b. ASSUME redis' \in Seq(OpenNote)
      PROVE  redis' \in Seq(Note) /\ \A n \in DOMAIN redis' : redis'[n].keys # <<>>
  BY <1>b, OpenNotes
<1>1. ASSUME NEW h \in Requests, Arrive(h) PROVE TypeOK'
  <2>1. PICK i \in Items : \/ FindItem(h, i)
                           \/ \E c \in Confs : Create(h, i, c) \/ UpdateSensor(h, i, c)
                                               \/ CheckTopic(h, i, c)
    BY <1>1 DEF Arrive
  <2>2. CASE FindItem(h, i)
    BY <2>2, RequestTypes DEF FindItem, TypeOK, gateway, network, agent
  <2>3. ASSUME NEW c \in Confs, Create(h, i, c) PROVE TypeOK'
    BY <2>3, RequestTypes DEF Create, TypeOK, Row, gateway, network, agent
  <2>4. ASSUME NEW c \in Confs, UpdateSensor(h, i, c) PROVE TypeOK'
    <3>1. [table[i] EXCEPT !.conf = c] \in Row
      BY DEF TypeOK, Row
    <3> QED BY <2>4, <3>1, RequestTypes DEF UpdateSensor, TypeOK, gateway, network, agent
  <2>5. ASSUME NEW c \in Confs, CheckTopic(h, i, c) PROVE TypeOK'
    BY <2>5, RequestTypes DEF CheckTopic, TypeOK, gateway, network, agent
  <2> QED BY <2>1, <2>2, <2>3, <2>4, <2>5
<1>2. ASSUME NEW h \in Requests, Step(h) PROVE TypeOK'
  <2>1. req[h] \in Request
    BY DEF TypeOK
  <2>2. CASE Created(h)
    <3>1. redis' \in Seq(OpenNote)
      BY <2>1, <2>2, NotifyTypes, RequestKinds, EventTypes DEF Created
    <3> QED BY <2>2, <3>1, <1>b, RequestTypes DEF Created, TypeOK, network, agent
  <2>3. CASE UpdateTopic(h)
    <3>1. req[h].item \in Items /\ req[h].conf \in Confs
      BY <2>1, <2>3, RequestKinds DEF UpdateTopic
    <3>2. [table[req[h].item] EXCEPT !.conf = req[h].conf] \in Row
      BY <3>1, ZenonT(60) DEF TypeOK, Row
    <3>3. [req[h] EXCEPT !.pc = "updated"] \in Request
      BY <2>1, <2>3 DEF UpdateTopic, Request
    <3> QED BY <2>3, <3>1, <3>2, <3>3 DEF UpdateTopic, TypeOK, gateway, network, agent
  <2>4. CASE Updated(h)
    <3>1. redis' \in Seq(OpenNote)
      BY <2>1, <2>4, NotifyTypes, RequestKinds, EventTypes DEF Updated
    <3> QED BY <2>4, <3>1, <1>b, RequestTypes DEF Updated, TypeOK, network, agent
  <2>5. CASE Remove(h)
    <3>1. req[h].item \in Items
      BY <2>1, <2>5, RequestKinds DEF Remove
    <3>2. [table[req[h].item] EXCEPT !.state = "deleted"] \in Row
      BY ZenonT(60), <3>1 DEF TypeOK, Row
    <3>3. [req[h] EXCEPT !.pc = "removed"] \in Request
      BY <2>1, <2>5 DEF Remove, Request
    <3> QED BY <2>5, <3>1, <3>2, <3>3 DEF Remove, TypeOK, gateway, network, agent
  <2>6. CASE Removed(h)
    <3>1. redis' \in Seq(OpenNote)
      BY <2>1, <2>6, NotifyTypes, RequestKinds, EventTypes DEF Removed
    <3> QED BY <2>6, <3>1, <1>b, RequestTypes DEF Removed, TypeOK, network, agent
  <2>7. CASE Sync(h)
    <3>1. /\ Notes(<<CleanUp>>, FALSE) \in Seq(OpenNote)
          /\ Notes(Adds(req[h]), TRUE) \in Seq(OpenNote)
      <4>1. Adds(req[h]) \in Seq(Event) /\ <<CleanUp>> \in Seq(Event)
        BY <2>1, <2>7, AddsHold, EventTypes DEF Sync
      <4> QED BY <4>1, NotesHold
    <3>2. redis' \in Seq(OpenNote)
      BY <1>a, <2>7, <3>1, ConcatType DEF Sync
    <3> QED BY <2>7, <3>2, <1>b, RequestTypes DEF Sync, TypeOK, network, agent
  <2> QED BY <1>2, <2>2, <2>3, <2>4, <2>5, <2>6, <2>7 DEF Step
<1>3. ASSUME NEW h \in Requests, Report(h) PROVE TypeOK'
  <2>1. /\ Tail(up) \in Seq([sock : Sockets, empty : BOOLEAN])
        /\ Head(up) \in [sock : Sockets, empty : BOOLEAN]
    BY <1>3, RangeTail DEF Report, TypeOK
  <2>2. [pc |-> "sync", empty |-> Head(up).empty,
         rows |-> [i \in Items |-> IF Live(i) THEN table[i].conf ELSE None]] \in Request
    BY <2>1 DEF TypeOK, Row, Request
  <2> QED BY <1>3, <2>1, <2>2 DEF Report, TypeOK, gateway, agent
<1>4. CASE Reply
  <2>1. /\ Head(redis) \in OpenNote /\ Tail(redis) \in Seq(OpenNote)
    BY <1>a, <1>4, RangeTail DEF Reply
  <2> DEFINE n == Head(redis)
  <2>2. n.keys \in Seq(Sockets \cup Others) /\ n.keys # <<>> /\ n.event \in Event
    BY <2>1 DEF OpenNote, Note
  <2>3. Len(n.keys) # 1 => [n EXCEPT !.keys = Tail(@)] \in OpenNote
    <3>1. Tail(n.keys) \in Seq(Sockets \cup Others)
      BY <2>2, RangeTail
    <3>2. Len(n.keys) # 1 => Tail(n.keys) # <<>>
      BY <2>2, TailLeft
    <3> QED BY <2>1, <3>1, <3>2 DEF OpenNote, Note
  <2>4. redis' \in Seq(OpenNote)
    BY <1>4, <2>1, <2>3 DEF Reply
  <2>5. wire' \in Seq(Event)
    BY <1>4, <2>2 DEF Reply, TypeOK
  <2> QED BY <1>4, <1>b, <2>4, <2>5 DEF Reply, TypeOK, server, agent
<1>5. CASE Receive
  <2>1. Head(wire) \in Event /\ Tail(wire) \in Seq(Event)
    BY <1>5, RangeTail DEF Receive, TypeOK
  <2>2. chan' \in Seq(Event) /\ Len(chan') = Len(chan) + 1
    BY <1>5, <2>1 DEF Receive, TypeOK
  <2>3. Len(chan') <= ChannelSize
    BY <1>5, <2>2, RegistryAssumption, RangeInSet DEF Receive, ChannelHasRoom, TypeOK
  <2> QED BY <1>5, <2>1, <2>2, <2>3 DEF Receive, TypeOK, server, gateway
<1>6. CASE Handle
  <2> DEFINE e == Head(chan)
  <2>1. e \in Event /\ Tail(chan) \in Seq(Event) /\ Len(Tail(chan)) = Len(chan) - 1
    BY <1>6, RangeTail DEF Handle, TypeOK
  <2>2. chan' \in Seq(Event) /\ Len(chan') <= ChannelSize
    BY <1>6, <2>1, RegistryAssumption DEF Handle, TypeOK
  <2>3. reg' \subseteq Entry
    <3>1. e.type \in {"AddSensor", "EditSensor"} => [item |-> e.item, conf |-> e.conf] \in Entry
      BY <2>1, EventKinds DEF Entry
    <3>2. reg \subseteq Entry
      BY DEF TypeOK
    <3>3. \/ reg' = reg
          \/ e.type \in {"AddSensor", "EditSensor"} /\ reg' \subseteq reg \cup {[item |-> e.item, conf |-> e.conf]}
          \/ reg' \subseteq reg
      BY <1>6, <2>1, EventKinds DEF Handle, AddSensor, EditSensor, RemoveSensor
    <3> HIDE DEF e
    <3>. QED BY <3>1, <3>2, <3>3
  <2>4. up' \in Seq([sock : Sockets, empty : BOOLEAN])
    <3>1. link # None => [sock |-> link, empty |-> reg = {}] \in [sock : Sockets, empty : BOOLEAN]
      BY DEF TypeOK
    <3>2. link # None => Append(up, [sock |-> link, empty |-> reg = {}])
                           \in Seq([sock : Sockets, empty : BOOLEAN])
      BY <3>1, RangeAppend DEF TypeOK
    <3> QED BY <1>6, <3>2 DEF Handle, TypeOK
  <2> QED BY <1>6, <2>2, <2>3, <2>4 DEF Handle, TypeOK, server, gateway
<1>7. ASSUME NEW k \in Sockets, Stored(k) \/ Greet(k) \/ Disconnected(k) \/ Connect(k)
      PROVE  TypeOK'
  <2>1. CASE Stored(k)
    BY <2>1, RangeAppend DEF Stored, TypeOK, server, network, agent
  <2>2. CASE Greet(k)
    BY <2>2, EventTypes, RangeAppend DEF Greet, TypeOK, server, agent
  <2>3. CASE Disconnected(k)
    BY <2>3, ForgetKeeps DEF Disconnected, TypeOK, server, network, agent
  <2>4. CASE Connect(k)
    BY <2>4 DEF Connect, TypeOK, server, agent
  <2> QED BY <1>7, <2>1, <2>2, <2>3, <2>4
<1>8. CASE Breaks
  <2>1. CASE LoseLink
    <3>1. <<>> \in Seq(Event) /\ <<>> \in Seq([sock : Sockets, empty : BOOLEAN])
      OBVIOUS
    <3>2. up' \in Seq([sock : Sockets, empty : BOOLEAN])
      BY <2>1, <3>1 DEF LoseLink, TypeOK
    <3> QED BY <2>1, <3>1, <3>2 DEF LoseLink, TypeOK, server, gateway, agent
  <2>2. CASE MonitorFails
    BY <2>2 DEF MonitorFails, TypeOK, server, gateway, network
  <2>3. ASSUME NEW k \in Others, OtherLeaves(k) PROVE TypeOK'
    BY <2>3, ForgetKeeps DEF OtherLeaves, TypeOK, server, network, agent
  <2> QED BY <1>8, <2>1, <2>2, <2>3 DEF Breaks
<1>9. CASE RestartServer
  BY <1>9, RequestTypes DEF RestartServer, TypeOK, agent
<1>10. CASE RestartAgent
  BY <1>10, RegistryAssumption DEF RestartAgent, TypeOK, server, gateway
<1>11. CASE LockAgent
  <2>1. <<PauseAgent>> \in Seq(Event) /\ FALSE \in BOOLEAN
    BY EventTypes
  <2>2. Notes(<<PauseAgent>>, FALSE) \in Seq(OpenNote)
    BY <2>1, NotesHold
  <2>3. redis' \in Seq(OpenNote)
    BY <1>a, <1>11, <2>2, ConcatType DEF LockAgent
  <2> QED BY <1>11, <1>b, <2>3 DEF LockAgent, TypeOK, server, network, agent
<1>12. CASE UNCHANGED vars
  BY <1>12 DEF vars, server, gateway, network, agent, TypeOK
<1> QED BY <1>1, <1>2, <1>3, <1>4, <1>5, <1>6, <1>7, <1>8, <1>9, <1>10, <1>11, <1>12
        DEF Steps, Next, Progress

-----------------------------------------------------------------------------
(* What the actions do to the events on their way. *)

\* A note that is sent leaves Waiting, goes to the wire, or waits on for the
\* connections that are left.
LEMMA ReplyDelivers ==
  ASSUME TypeOK, Reply
  PROVE  /\ Pending' \subseteq Pending
         /\ link # None /\ IsStored(link) => Reaching \subseteq Reaching'
<1> DEFINE n == Head(redis)
           k == Head(n.keys)
           left == [n EXCEPT !.keys = Tail(@)]
<1>1. redis \in Seq(OpenNote) /\ redis # <<>>
  BY OpenNotes DEF TypeOK, Reply
<1>2. /\ n \in OpenNote /\ Tail(redis) \in Seq(OpenNote)
      /\ Range(redis) = {n} \cup Range(Tail(redis))
  BY <1>1, RangeTail
<1>3. n.keys \in Seq(Sockets \cup Others) /\ n.keys # <<>> /\ n.event \in Event
  BY <1>2 DEF OpenNote, Note
<1>4. /\ Tail(n.keys) \in Seq(Sockets \cup Others)
      /\ Range(n.keys) = {k} \cup Range(Tail(n.keys))
      /\ Len(n.keys) = 1 => Range(Tail(n.keys)) = {}
      /\ Len(n.keys) # 1 => Tail(n.keys) # <<>>
  <2>1. Len(Tail(n.keys)) = Len(n.keys) - 1 /\ Tail(n.keys) \in Seq(Sockets \cup Others)
    BY <1>3, RangeTail
  <2>2. Len(n.keys) = 1 => Tail(n.keys) = <<>>
    <3>1. Len(Tail(n.keys)) = 0 <=> Tail(n.keys) = <<>>
      BY ZenonT(60), <2>1, RangeInSet
    <3> QED BY <2>1, <3>1
  <2> QED BY <1>3, <2>2, RangeTail, RangeEmpty, TailLeft
<1>5. Range(wire') = Range(wire) \cup
        (IF n.named /\ IsStored(k) /\ k = link THEN {n.event} ELSE {})
  <2>1. IsStored(k) <=> \E x \in DOMAIN store : store[x] = k
    BY DEF IsStored, Range
  <2>2. Range(Append(wire, n.event)) = Range(wire) \cup {n.event}
    BY <1>3, RangeAppend DEF TypeOK
  <2> QED BY <2>1, <2>2 DEF Reply
<1>6. /\ left \in Note /\ left.event = n.event /\ left.named = n.named
      /\ left.keys = Tail(n.keys)
  BY <1>2, <1>4 DEF OpenNote, Note
<1>7. Range(redis') = Range(Tail(redis)) \cup
        (IF Len(n.keys) = 1 THEN {} ELSE {left})
  <2>1. CASE Len(n.keys) = 1
    BY <2>1 DEF Reply
  <2>2. CASE Len(n.keys) # 1
    <3>1. left \in OpenNote
      BY <1>4, <1>6, <2>2 DEF OpenNote
    <3>2. redis' = Append(Tail(redis), left)
      BY <2>2 DEF Reply
    <3>3. Range(Append(Tail(redis), left)) = Range(Tail(redis)) \cup {left}
      <4> HIDE DEF left
      <4>1. Tail(redis) \in Seq(OpenNote)
        BY <1>2
      <4> QED BY <3>1, <4>1, RangeAppend
    <3> QED BY <2>2, <3>2, <3>3
  <2> QED BY <2>1, <2>2
<1>8. chan' = chan /\ link' = link
  BY DEF Reply, agent
<1> HIDE DEF n, k, left
<1>9. Pending' \subseteq Pending
  BY <1>2, <1>5, <1>6, <1>7, <1>8 DEF Pending, Waiting
<1>10. ASSUME link # None, IsStored(link) PROVE Reaching \subseteq Reaching'
  <2>1. ASSUME NEW m \in Range(redis), m.named, link \in Range(m.keys)
        PROVE  m.event \in Reaching'
    <3>1. CASE m \in Range(Tail(redis))
      BY <1>7, <1>8, <2>1, <3>1 DEF Reaching, Waiting
    <3>2. CASE m = n /\ link = k
      BY <1>5, <1>10, <2>1, <3>2 DEF Reaching
    <3>3. CASE m = n /\ link # k
      <4>1. link \in Range(left.keys) /\ left \in Range(redis')
        BY <1>4, <1>6, <1>7, <2>1, <3>3
      <4> QED BY <1>6, <1>8, <2>1, <3>3, <4>1 DEF Reaching, Waiting
    <3> QED BY <1>2, <2>1, <3>1, <3>2, <3>3
  <2>2. Range(wire) \cup Range(chan) \subseteq Reaching'
    BY <1>5, <1>8 DEF Reaching
  <2> QED BY <2>1, <2>2 DEF Reaching, Waiting
<1> QED BY <1>9, <1>10

LEMMA ReceiveDelivers ==
  ASSUME TypeOK, Receive
  PROVE  Pending' = Pending /\ Reaching' = Reaching
<1>1. /\ Head(wire) \in Event /\ Range(wire) = {Head(wire)} \cup Range(Tail(wire))
  BY RangeTail DEF Receive, TypeOK
<1>2. Range(chan') = Range(chan) \cup {Head(wire)}
  BY <1>1, RangeAppend DEF Receive, TypeOK
<1>3. wire' = Tail(wire) /\ redis' = redis /\ link' = link
  BY DEF Receive, gateway
<1> QED BY <1>1, <1>2, <1>3 DEF Pending, Reaching, Waiting

LEMMA HandleDelivers ==
  ASSUME TypeOK, Handle
  PROVE  /\ Head(chan) \in Event /\ Head(chan) \in Reaching /\ Head(chan) \in Pending
         /\ Pending' \subseteq Pending
         /\ Reaching \subseteq Reaching' \cup {Head(chan)}
<1>1. Head(chan) \in Event /\ Range(chan) = {Head(chan)} \cup Range(Tail(chan))
  BY RangeTail DEF Handle, TypeOK
<1>2. chan' = Tail(chan) /\ redis' = redis /\ wire' = wire /\ link' = link
  BY DEF Handle, gateway
<1> QED BY <1>1, <1>2 DEF Pending, Reaching, Waiting

LEMMA NotifyDelivers ==
  ASSUME TypeOK, NEW ev \in Event, Notify(ev), UNCHANGED <<link, wire, chan>>
  PROVE  /\ Pending' \subseteq Pending \cup {ev}
         /\ Reaching \subseteq Reaching'
         /\ IsStored(link) => ev \in Reaching'
<1>1. <<ev>> \in Seq(Event) /\ Range(<<ev>>) = {ev} /\ TRUE \in BOOLEAN
  BY DEF Range
<1>2. redis \in Seq(OpenNote)
  BY OpenNotes DEF TypeOK
<1> DEFINE new == Notes(<<ev>>, TRUE)
<1>3. /\ new \in Seq(OpenNote)
      /\ \A n \in Range(new) : n.named = TRUE /\ n.event = ev
      /\ store # <<>> => \E n \in Range(new) :
           n.event = ev /\ n.named = TRUE /\ n.keys = store
  BY ZenonT(60), <1>1, NotesHold
<1> HIDE DEF new
<1>4. Range(redis') = Range(redis) \cup Range(new)
  <2>1. new \in Seq(OpenNote)
    BY <1>3
  <2>2. Range(redis \o new) = Range(redis) \cup Range(new)
    BY <1>2, <2>1, RangeConcatenation
  <2> QED BY <2>2 DEF Notify, new
<1>5. IsStored(link) => store # <<>>
  BY RangeEmpty DEF IsStored
<1> QED BY <1>3, <1>4, <1>5 DEF Pending, Reaching, Waiting, IsStored

LEMMA SyncDelivers ==
  ASSUME TypeOK, NEW h \in Requests, Sync(h)
  PROVE  /\ Reaching \subseteq Reaching'
         /\ \A e \in Pending' \ Pending :
              \E i \in Items : req[h].rows[i] # None /\ e = Add(i, req[h].rows[i])
         /\ ~IsSynced(req[h]) /\ IsStored(link) =>
              \A i \in Items : req[h].rows[i] # None =>
                Add(i, req[h].rows[i]) \in Reaching'
<1>1. req[h] \in Request /\ req[h].pc = "sync"
  BY DEF Sync, TypeOK
<1>2. redis \in Seq(OpenNote)
  BY OpenNotes DEF TypeOK
<1>3. UNCHANGED <<link, wire, chan>>
  BY DEF Sync, network, agent
<1>4. CASE IsSynced(req[h])
  BY <1>3, <1>4 DEF Sync, Pending, Reaching, Waiting
<1>5. CASE ~IsSynced(req[h])
  <2> DEFINE cleanup == Notes(<<CleanUp>>, FALSE)
             adds == Notes(Adds(req[h]), TRUE)
  <2>1. <<CleanUp>> \in Seq(Event) /\ FALSE \in BOOLEAN /\ TRUE \in BOOLEAN
    BY EventTypes
  <2>2. cleanup \in Seq(OpenNote) /\ \A n \in Range(cleanup) : n.named = FALSE
    BY <2>1, NotesHold
  <2>3. /\ adds \in Seq(OpenNote)
        /\ \A n \in Range(adds) : n.named = TRUE /\ n.event \in Range(Adds(req[h]))
        /\ store # <<>> => \A e \in Range(Adds(req[h])) : \E n \in Range(adds) :
             n.event = e /\ n.named = TRUE /\ n.keys = store
    BY ZenonT(60), <1>1, <2>1, AddsHold, NotesHold
  <2> HIDE DEF cleanup, adds
  <2>4. redis' = redis \o cleanup \o adds
    BY <1>5 DEF Sync, cleanup, adds
  <2>5. Range(redis') = Range(redis) \cup Range(cleanup) \cup Range(adds)
    <3>1. redis \o cleanup \in Seq(OpenNote)
      BY <1>2, <2>2, ConcatType
    <3>2. cleanup \in Seq(OpenNote) /\ adds \in Seq(OpenNote)
      BY <2>2, <2>3
    <3>3. Range(redis \o cleanup) = Range(redis) \cup Range(cleanup)
      BY <1>2, <3>2, RangeConcatenation
    <3>4. Range((redis \o cleanup) \o adds) = Range(redis \o cleanup) \cup Range(adds)
      BY ZenonT(60), <3>1, <3>2, RangeConcatenation
    <3> QED BY <2>4, <3>3, <3>4
  <2>6. Reaching \subseteq Reaching'
    BY <1>3, <2>5 DEF Reaching, Waiting
  <2>7. \A e \in Pending' \ Pending : e \in Range(Adds(req[h]))
    BY <1>3, <2>2, <2>3, <2>5 DEF Pending, Waiting
  <2>8. IsStored(link) => \A e \in Range(Adds(req[h])) : e \in Reaching'
    <3>1. IsStored(link) => store # <<>>
      BY RangeEmpty DEF IsStored
    <3> QED BY <1>3, <2>3, <2>5, <3>1 DEF Reaching, Waiting, IsStored
  <2> QED BY <1>1, <2>6, <2>7, <2>8, AddsHold
<1> QED BY <1>4, <1>5

LEMMA GreetDelivers ==
  ASSUME TypeOK, NEW k \in Sockets, Greet(k)
  PROVE  /\ Pending' \subseteq Pending \cup {HealthCheck}
         /\ Reaching \subseteq Reaching'
         /\ k = link => HealthCheck \in Reaching'
<1>1. Range(wire') = Range(wire) \cup (IF k = link THEN {HealthCheck} ELSE {})
  <2>1. HealthCheck \in Event /\ wire \in Seq(Event)
    BY EventTypes DEF TypeOK
  <2>2. Range(Append(wire, HealthCheck)) = Range(wire) \cup {HealthCheck}
    BY <2>1, RangeAppend
  <2> QED BY <2>2 DEF Greet
<1>2. UNCHANGED <<redis, link, chan>>
  BY DEF Greet, agent
<1> QED BY <1>1, <1>2 DEF Pending, Reaching, Waiting

LEMMA LockDelivers ==
  ASSUME TypeOK, LockAgent
  PROVE  Pending' = Pending /\ Reaching' = Reaching
<1>1. <<PauseAgent>> \in Seq(Event) /\ FALSE \in BOOLEAN
  BY EventTypes
<1>2. redis \in Seq(OpenNote)
  BY OpenNotes DEF TypeOK
<1> DEFINE new == Notes(<<PauseAgent>>, FALSE)
<1>3. new \in Seq(OpenNote) /\ \A n \in Range(new) : n.named = FALSE
  BY <1>1, NotesHold
<1> HIDE DEF new
<1>4. Range(redis') = Range(redis) \cup Range(new)
  <2>1. new \in Seq(OpenNote)
    BY <1>3
  <2>2. Range(redis \o new) = Range(redis) \cup Range(new)
    BY <1>2, <2>1, RangeConcatenation
  <2> QED BY <2>2 DEF LockAgent, new
<1> QED BY <1>3, <1>4 DEF LockAgent, Pending, Reaching, Waiting, network, agent

\* A loss or a restart only takes events away.
LEMMA LossDelivers ==
  ASSUME LoseLink \/ RestartServer \/ RestartAgent
  PROVE  Pending' \subseteq Pending /\ link' = None
BY RangeEmpty
DEF LoseLink, RestartServer, RestartAgent, Pending, Waiting, gateway, agent, Range

LEMMA NothingDelivers ==
  ASSUME UNCHANGED <<redis, wire, chan>>
  PROVE  Pending' = Pending /\ (link' = link => Reaching' = Reaching)
BY DEF Pending, Reaching, Waiting

-----------------------------------------------------------------------------
(* Every other part of the invariant of both specifications. *)

LEMMA BaseInit == Init => BaseInv
<1> SUFFICES ASSUME Init PROVE BaseInv
  OBVIOUS
<1>1. TypeOK
  BY InitTypes
<1>2. Pending = {}
  BY RangeEmpty DEF Init, Pending, Waiting
<1>3. \A h \in Requests : req[h].pc = "idle"
  BY DEF Init, Idle
<1>4. RowsFilled /\ PermanentStays
  BY <1>1, <1>3, RegistryAssumption
  DEF Init, RowsFilled, PermanentStays, TypeOK, Row, Live, Items
<1>5. GreetedIsStored /\ LinkKnown /\ DropsDeleted
  BY <1>2, <1>3 DEF Init, GreetedIsStored, LinkKnown, DropsDeleted
<1> QED BY <1>1, <1>4, <1>5 DEF BaseInv

\* The steps that change the rows, and those that end with a notification.
RowsStep(h) == Arrive(h) \/ UpdateTopic(h) \/ Remove(h)
NotifyStep(h) == Created(h) \/ Updated(h) \/ Removed(h)

OtherStep ==
  \/ \E h \in Requests : NotifyStep(h) \/ Sync(h) \/ Report(h)
  \/ Reply \/ Receive \/ Handle
  \/ \E k \in Sockets : Stored(k) \/ Greet(k) \/ Disconnected(k) \/ Connect(k)
  \/ LoseLink \/ MonitorFails \/ \E k \in Others : OtherLeaves(k)
  \/ RestartServer \/ RestartAgent \/ LockAgent \/ UNCHANGED vars

LEMMA StepKinds ==
  ASSUME [Steps]_vars
  PROVE  (\E h \in Requests : RowsStep(h)) \/ OtherStep
BY DEF Steps, Next, Progress, Breaks, Step, RowsStep, NotifyStep, OtherStep

\* What a request changes in the rows: it may make one live that was absent,
\* fill it anew, or delete it.
LEMMA RowsChange ==
  ASSUME TypeOK, NEW h \in Requests, RowsStep(h)
  PROVE  /\ req[h] \in Request
         /\ UNCHANGED <<gateway, network, agent>>
         /\ Pending' = Pending /\ Reaching' = Reaching
         /\ \A g \in Requests \ {h} : req'[g] = req[g]
         /\ \/ \E i \in Items : FindItem(h, i)
            \/ \E i \in Items, c \in Confs : Create(h, i, c) \/ UpdateSensor(h, i, c)
                                             \/ CheckTopic(h, i, c)
            \/ UpdateTopic(h) \/ Remove(h)
<1>1. UNCHANGED <<gateway, network, agent>>
  BY DEF RowsStep, Arrive, FindItem, Create, UpdateSensor, CheckTopic, UpdateTopic, Remove
<1>2. Pending' = Pending /\ Reaching' = Reaching
  BY <1>1, NothingDelivers DEF gateway, network, agent
<1>3. \A g \in Requests \ {h} : req'[g] = req[g]
  BY DEF RowsStep, Arrive, FindItem, Create, UpdateSensor, CheckTopic, UpdateTopic,
         Remove, Goto, TypeOK
<1> QED BY <1>1, <1>2, <1>3 DEF TypeOK, RowsStep, Arrive

LEMMA NotifyChange ==
  ASSUME TypeOK, NEW h \in Requests, NotifyStep(h)
  PROVE  /\ UNCHANGED <<table, store, conn, network, agent>>
         /\ req' = [req EXCEPT ![h] = Idle]
         /\ \E ev \in Event :
              /\ Pending' \subseteq Pending \cup {ev}
              /\ Reaching \subseteq Reaching'
              /\ IsStored(link) => ev \in Reaching'
              /\ req[h].item \in Items
              /\ \/ req[h].pc = "created" /\ req[h].conf \in Confs
                    /\ ev = Add(req[h].item, req[h].conf)
                 \/ req[h].pc = "updated" /\ req[h].conf \in Confs
                    /\ ev = Edit(req[h].item, req[h].conf)
                 \/ req[h].pc = "removed" /\ ev = Drop(req[h].item)
<1>1. req[h] \in Request
  BY DEF TypeOK
<1>2. UNCHANGED <<table, store, conn, network, agent>> /\ req' = [req EXCEPT ![h] = Idle]
  BY DEF NotifyStep, Created, Updated, Removed, Goto
<1>3. UNCHANGED <<link, wire, chan>>
  BY <1>2 DEF network, agent
<1>4. CASE Created(h)
  BY <1>1, <1>2, <1>3, <1>4, RequestKinds, EventTypes, NotifyDelivers DEF Created
<1>5. CASE Updated(h)
  BY <1>1, <1>2, <1>3, <1>5, RequestKinds, EventTypes, NotifyDelivers DEF Updated
<1>6. CASE Removed(h)
  BY <1>1, <1>2, <1>3, <1>6, RequestKinds, EventTypes, NotifyDelivers DEF Removed
<1> QED BY <1>4, <1>5, <1>6 DEF NotifyStep

\* No step but those of RowsStep changes a row.
LEMMA RowsKept ==
  ASSUME OtherStep
  PROVE  table' = table
BY DEF OtherStep, NotifyStep, Created, Updated, Removed, Sync, Report, Reply, Receive, Handle,
    Stored, Greet, Disconnected, Connect, LoseLink, MonitorFails, OtherLeaves,
    RestartServer, RestartAgent, LockAgent, vars, server

LEMMA RowsFilledStep ==
  ASSUME TypeOK, RowsFilled, [Steps]_vars
  PROVE  RowsFilled'
<1>1. ASSUME NEW h \in Requests, RowsStep(h) PROVE RowsFilled'
  <2>1. CASE \E i \in Items : FindItem(h, i)
    BY <2>1 DEF FindItem, RowsFilled, Live
  <2>2. ASSUME NEW i \in Items, NEW c \in Confs,
               Create(h, i, c) \/ UpdateSensor(h, i, c) \/ CheckTopic(h, i, c)
        PROVE  RowsFilled'
    BY <2>2 DEF Create, UpdateSensor, CheckTopic, RowsFilled, Live, TypeOK, Row
  <2>3. CASE UpdateTopic(h)
    <3>1. req[h].item \in Items /\ req[h].conf \in Confs
      BY <2>3, RequestKinds DEF UpdateTopic, TypeOK
    <3> QED BY <2>3, <3>1 DEF UpdateTopic, RowsFilled, Live, TypeOK, Row
  <2>4. CASE Remove(h)
    <3>1. req[h].item \in Items
      BY <2>4, RequestKinds DEF Remove, TypeOK
    <3> QED BY <2>4, <3>1 DEF Remove, RowsFilled, Live, TypeOK, Row
  <2> QED BY <1>1, <2>1, <2>2, <2>3, <2>4, RowsChange
<1>2. CASE OtherStep
  BY <1>2, RowsKept DEF RowsFilled, Live
<1> QED BY <1>1, <1>2, StepKinds

\* Where the requests are after a step that changes no row.
LEMMA RequestsKept ==
  ASSUME TypeOK, OtherStep
  PROVE  \A h \in Requests :
           \/ req'[h] = req[h]
           \/ req'[h] = Idle
           \/ Report(h) /\ req'[h].pc = "sync"
<1>0. USE DEF Goto
<1>1. CASE \E h \in Requests : NotifyStep(h)
  BY <1>1, NotifyChange DEF TypeOK
<1>2. CASE \E h \in Requests : Sync(h)
  BY <1>2 DEF Sync, TypeOK
<1>3. CASE \E h \in Requests : Report(h)
  BY <1>3 DEF Report, TypeOK
<1>4. CASE RestartServer
  BY <1>4 DEF RestartServer
<1>5. CASE req' = req
  BY <1>5
<1> QED
  BY <1>1, <1>2, <1>3, <1>4, <1>5
  DEF OtherStep, Reply, Receive, Handle, Stored, Greet, Disconnected, Connect, LoseLink,
      MonitorFails, OtherLeaves, RestartAgent, LockAgent, vars, server

LEMMA PermanentStep ==
  ASSUME TypeOK, PermanentStays, [Steps]_vars
  PROVE  PermanentStays'
<1>0. Permanent \subseteq Items
  BY RegistryAssumption DEF Items
<1>1. ASSUME NEW h \in Requests, RowsStep(h) PROVE PermanentStays'
  <2>1. ASSUME NEW i \in Items, FindItem(h, i) PROVE PermanentStays'
    BY <2>1 DEF FindItem, PermanentStays, Live, Goto, TypeOK
  <2>2. ASSUME NEW i \in Items, NEW c \in Confs,
               Create(h, i, c) \/ UpdateSensor(h, i, c) \/ CheckTopic(h, i, c)
        PROVE  PermanentStays'
    <3>1. CASE Create(h, i, c)
      BY <1>0, <3>1 DEF Create, PermanentStays, Live, Goto, TypeOK, Row
    <3>2. CASE UpdateSensor(h, i, c)
      BY <1>0, <3>2 DEF UpdateSensor, PermanentStays, Live, Goto, TypeOK, Row
    <3>3. CASE CheckTopic(h, i, c)
      BY <1>0, <3>3 DEF CheckTopic, PermanentStays, Live, Goto, TypeOK
    <3> QED BY <2>2, <3>1, <3>2, <3>3
  <2>3. CASE UpdateTopic(h)
    <3>1. req[h] \in Request /\ req[h].item \in Items /\ req'[h].pc = "updated"
      BY <2>3, RequestKinds DEF UpdateTopic, TypeOK, Request
    <3> QED BY <1>0, <2>3, <3>1 DEF UpdateTopic, PermanentStays, Live, TypeOK, Row
  <2>4. CASE Remove(h)
    <3>1. /\ req[h] \in Request /\ req[h].item \in Items /\ req'[h].pc = "removed"
          /\ req[h].item \notin Permanent
      BY <2>4, RequestKinds DEF Remove, TypeOK, Request, PermanentStays
    <3> QED BY <1>0, <2>4, <3>1 DEF Remove, PermanentStays, Live, TypeOK, Row
  <2> QED BY <1>1, <2>1, <2>2, <2>3, <2>4, RowsChange
<1>2. CASE OtherStep
  <2>1. table' = table
    BY <1>2, RowsKept
  <2> QED BY <1>2, <2>1, RequestsKept DEF PermanentStays, Live, Idle
<1> QED BY <1>1, <1>2, StepKinds

LEMMA GreetedStep ==
  ASSUME TypeOK, GreetedIsStored, [Steps]_vars
  PROVE  GreetedIsStored'
<1>1. CASE UNCHANGED <<store, conn>>
  BY <1>1 DEF GreetedIsStored, IsStored
<1>2. ASSUME NEW k \in Sockets, Stored(k) PROVE GreetedIsStored'
  <2>1. Range(store') = Range(store) \cup {k}
    BY <1>2, RangeAppend DEF Stored, TypeOK
  <2> QED BY <1>2, <2>1 DEF Stored, GreetedIsStored, IsStored, TypeOK
<1>3. ASSUME NEW k \in Sockets, Greet(k) \/ Connect(k) PROVE GreetedIsStored'
  BY <1>3 DEF Greet, Connect, GreetedIsStored, IsStored, TypeOK
<1>4. ASSUME NEW k \in Sockets, Disconnected(k) PROVE GreetedIsStored'
  <2>1. \A x \in Range(store) : x = k \/ x \in Range(store')
    BY <1>4, ForgetKeeps DEF Disconnected, TypeOK
  <2> QED BY <1>4, <2>1 DEF Disconnected, GreetedIsStored, IsStored, TypeOK
<1>5. ASSUME NEW k \in Others, OtherLeaves(k) PROVE GreetedIsStored'
  <2>1. \A x \in Range(store) : x = k \/ x \in Range(store')
    BY <1>5, ForgetKeeps DEF OtherLeaves, TypeOK
  <2> QED BY <1>5, <2>1, RegistryAssumption DEF OtherLeaves, GreetedIsStored, IsStored
<1>6. CASE RestartServer
  BY <1>6 DEF RestartServer, GreetedIsStored
<1>7. ASSUME NEW h \in Requests, RowsStep(h) \/ NotifyStep(h) PROVE UNCHANGED <<store, conn>>
  BY <1>7, RowsChange, NotifyChange DEF gateway
<1> QED
  BY <1>1, <1>2, <1>3, <1>4, <1>5, <1>6, <1>7, StepKinds
  DEF OtherStep, Sync, Report, Reply, Receive, Handle, LoseLink, MonitorFails, RestartAgent,
      LockAgent, vars, gateway

LEMMA LinkStep ==
  ASSUME TypeOK, LinkKnown, [Steps]_vars
  PROVE  LinkKnown'
<1> DEFINE Report1 == [sock : Sockets, empty : BOOLEAN]
<1>0. up \in Seq(Report1) /\ wire \in Seq(Event)
  BY DEF TypeOK
<1>1. CASE UNCHANGED <<conn, link, wire, up>>
  BY <1>1 DEF LinkKnown
<1>2. CASE link' = None /\ wire' = <<>>
  BY <1>2 DEF LinkKnown
<1>3. ASSUME NEW h \in Requests, Report(h) PROVE LinkKnown'
  <2>1. \A n \in DOMAIN Tail(up) : \E m \in DOMAIN up : Tail(up)[n] = up[m]
    <3>1. up # <<>>
      BY <1>3 DEF Report
    <3>2. Range(Tail(up)) \subseteq Range(up)
      BY <1>0, <3>1, RangeTail
    <3> QED BY <3>2 DEF Range
  <2> QED BY <1>3, <2>1 DEF Report, LinkKnown, gateway
<1>4. CASE Reply
  <2>1. UNCHANGED <<conn, link, up>> /\ (link = None => wire' = wire)
    <3>1. \A x \in Seq(Sockets \cup Others) : x # <<>> => Head(x) \in Sockets \cup Others
      BY RangeTail
    <3>2. Head(redis).keys \in Seq(Sockets \cup Others) /\ Head(redis).keys # <<>>
      <4>1. redis \in Seq(OpenNote) /\ redis # <<>>
        BY <1>4, OpenNotes DEF Reply, TypeOK
      <4>2. Head(redis) \in OpenNote
        BY <4>1, RangeTail
      <4> QED BY <4>2 DEF OpenNote, Note
    <3>3. Head(Head(redis).keys) # None
      BY <3>1, <3>2, RegistryAssumption
    <3> QED BY <1>4, <3>3 DEF Reply
  <2> QED BY <2>1 DEF LinkKnown
<1>5. CASE Receive
  BY <1>5 DEF Receive, LinkKnown, gateway
<1>6. CASE Handle
  <2>1. CASE up' = up
    BY <1>6, <2>1 DEF Handle, LinkKnown, gateway
  <2>2. CASE link # None /\ up' = Append(up, [sock |-> link, empty |-> reg = {}])
    <3> DEFINE r == [sock |-> link, empty |-> reg = {}]
    <3>1. r \in Report1 /\ r.sock = link
      BY <2>2 DEF TypeOK
    <3> HIDE DEF r
    <3>2. Range(up') = Range(up) \cup {r}
      <4>1. up' = Append(up, r)
        BY <2>2 DEF r
      <4> HIDE DEF Report1
      <4> QED BY <1>0, <4>1, RangeAppend
    <3>3. \A n \in DOMAIN up' : up'[n] \in Range(up')
      BY DEF Range
    <3>4. \A x \in Range(up) : x.sock = link
      BY <2>2 DEF LinkKnown, Range
    <3>5. \A n \in DOMAIN up' : up'[n].sock = link
      BY <3>1, <3>2, <3>3, <3>4
    <3> QED BY <1>6, <2>2, <3>5 DEF Handle, LinkKnown, gateway
  <2> QED BY <1>6, <2>1, <2>2 DEF Handle
<1>7. ASSUME NEW k \in Sockets, Stored(k) PROVE LinkKnown'
  BY <1>7 DEF Stored, LinkKnown, network, TypeOK
<1>8. ASSUME NEW k \in Sockets, Greet(k) PROVE LinkKnown'
  BY <1>8, RegistryAssumption DEF Greet, LinkKnown, TypeOK
<1>9. ASSUME NEW k \in Sockets, Disconnected(k) PROVE LinkKnown'
  BY <1>9 DEF Disconnected, LinkKnown, network, TypeOK
<1>10. ASSUME NEW k \in Sockets, Connect(k) PROVE LinkKnown'
  BY <1>10, RegistryAssumption DEF Connect, LinkKnown, TypeOK
<1>11. ASSUME NEW h \in Requests, RowsStep(h) \/ NotifyStep(h) \/ Sync(h)
       PROVE  UNCHANGED <<conn, link, wire, up>>
  BY <1>11, RowsChange, NotifyChange DEF Sync, gateway, network
<1> QED
  BY <1>1, <1>2, <1>3, <1>4, <1>5, <1>6, <1>7, <1>8, <1>9, <1>10, <1>11, StepKinds
  DEF OtherStep, LoseLink, MonitorFails, OtherLeaves, RestartServer, RestartAgent,
      LockAgent, vars, gateway, network

\* What a step adds to the events on their way.
Notified(h, ev) ==
  \/ req[h].pc = "created" /\ ev = Add(req[h].item, req[h].conf)
  \/ req[h].pc = "updated" /\ ev = Edit(req[h].item, req[h].conf)
  \/ req[h].pc = "removed" /\ ev = Drop(req[h].item)
  \/ req[h].pc = "sync"
     /\ \E i \in Items : req[h].rows[i] # None /\ ev = Add(i, req[h].rows[i])

LEMMA PendingGrows ==
  ASSUME TypeOK, [Steps]_vars
  PROVE  \A e \in Pending' \ Pending :
           \/ \E k \in Sockets : Greet(k) /\ e = HealthCheck
           \/ \E h \in Requests : (NotifyStep(h) \/ Sync(h)) /\ Notified(h, e)
<1>1. CASE \E h \in Requests : RowsStep(h)
  BY <1>1, RowsChange
<1>2. CASE \E h \in Requests : NotifyStep(h)
  BY <1>2, NotifyChange DEF Notified
<1>3. CASE \E h \in Requests : Sync(h)
  <2>1. PICK h \in Requests : Sync(h)
    BY <1>3
  <2> QED BY <2>1, SyncDelivers DEF Notified, Sync
<1>4. CASE Reply \/ Receive \/ Handle
  BY <1>4, ReplyDelivers, ReceiveDelivers, HandleDelivers
<1>5. CASE \E k \in Sockets : Greet(k)
  BY <1>5, GreetDelivers
<1>6. CASE LoseLink \/ RestartServer \/ RestartAgent
  BY <1>6, LossDelivers
<1>7. CASE LockAgent
  BY <1>7, LockDelivers
<1>8. CASE UNCHANGED <<redis, wire, chan>>
  BY <1>8, NothingDelivers
<1> QED
  BY <1>1, <1>2, <1>3, <1>4, <1>5, <1>6, <1>7, <1>8, StepKinds
  DEF OtherStep, Report, Stored, Disconnected, Connect, MonitorFails, OtherLeaves, vars,
      gateway, network, agent

LEMMA EventsDiffer ==
  \A i, j, c : /\ Add(i, c) # Drop(j) /\ Edit(i, c) # Drop(j)
               /\ HealthCheck # Drop(j) /\ (Drop(i) = Drop(j) => i = j)
               /\ Drop(j) # HealthCheck /\ Add(i, c) # HealthCheck
               /\ Edit(i, c) # HealthCheck
<1> SUFFICES ASSUME NEW i, NEW j, NEW c
             PROVE  /\ Add(i, c) # Drop(j) /\ Edit(i, c) # Drop(j)
                    /\ HealthCheck # Drop(j) /\ (Drop(i) = Drop(j) => i = j)
                    /\ Drop(j) # HealthCheck /\ Add(i, c) # HealthCheck
                    /\ Edit(i, c) # HealthCheck
  OBVIOUS
<1>1. /\ Add(i, c).type = "AddSensor" /\ Edit(i, c).type = "EditSensor"
      /\ Drop(j).type = "RemoveSensor" /\ HealthCheck.type = "HealthCheck"
      /\ Drop(j).item = j /\ Drop(i).item = i
  BY DEF Add, Edit, Drop, HealthCheck
<1> QED BY <1>1

LEMMA DropsStep ==
  ASSUME TypeOK, DropsDeleted, [Steps]_vars
  PROVE  DropsDeleted'
<1>1. ASSUME NEW h \in Requests, RowsStep(h) PROVE DropsDeleted'
  <2>0. Pending' = Pending /\ req[h] \in Request
    BY <1>1, RowsChange
  <2>1. ASSUME NEW i \in Items, FindItem(h, i) PROVE DropsDeleted'
    BY <2>0, <2>1 DEF FindItem, DropsDeleted, Goto, TypeOK
  <2>2. ASSUME NEW i \in Items, NEW c \in Confs, Create(h, i, c) PROVE DropsDeleted'
    BY <2>0, <2>2 DEF Create, DropsDeleted, Goto, TypeOK, Row
  <2>3. ASSUME NEW i \in Items, NEW c \in Confs,
               UpdateSensor(h, i, c) \/ CheckTopic(h, i, c)
        PROVE  DropsDeleted'
    <3>1. \A j \in Items : table'[j].state = table[j].state
      BY <2>3 DEF UpdateSensor, CheckTopic, TypeOK, Row
    <3>2. \A g \in Requests : req'[g] = req[g] \/ req'[g].pc # "removed"
      BY <2>3 DEF UpdateSensor, CheckTopic, Goto, TypeOK
    <3>3. \A g \in Requests : req[g].pc = "removed" => req[g].item \in Items
      BY RequestKinds DEF TypeOK
    <3> QED BY <2>0, <3>1, <3>2, <3>3 DEF DropsDeleted
  <2>4. CASE UpdateTopic(h)
    <3>1. \A j \in Items : table'[j].state = table[j].state
      BY <2>4 DEF UpdateTopic, TypeOK, Row
    <3>2. \A g \in Requests : req'[g] = req[g] \/ req'[g].pc # "removed"
      BY <2>4 DEF UpdateTopic, TypeOK, Request
    <3>3. \A g \in Requests : req[g].pc = "removed" => req[g].item \in Items
      BY RequestKinds DEF TypeOK
    <3> QED BY <2>0, <3>1, <3>2, <3>3 DEF DropsDeleted
  <2>5. CASE Remove(h)
    <3>1. req[h].item \in Items /\ req'[h].item = req[h].item
      BY <2>0, <2>5, RequestKinds DEF Remove, TypeOK, Request
    <3>2. /\ table'[req[h].item].state = "deleted"
          /\ \A j \in Items : table'[j].state \in {table[j].state, "deleted"}
      BY <2>5, <3>1 DEF Remove, TypeOK, Row
    <3>3. \A g \in Requests : req[g].pc = "removed" => req[g].item \in Items
      BY RequestKinds DEF TypeOK
    <3>4. \A g \in Requests : req'[g] = req[g] \/ g = h
      BY <2>5 DEF Remove, TypeOK
    <3> QED BY <2>0, <3>1, <3>2, <3>3, <3>4 DEF DropsDeleted
  <2> QED BY <1>1, <2>1, <2>2, <2>3, <2>4, <2>5, RowsChange
<1>2. CASE OtherStep
  <2>1. table' = table
    BY <1>2, RowsKept
  <2>2. \A h \in Requests : req'[h].pc = "removed" => req'[h] = req[h]
    BY <1>2, RequestsKept DEF Idle
  <2>3. ASSUME NEW j \in Items, Drop(j) \in Pending', Drop(j) \notin Pending
        PROVE  table[j].state = "deleted"
    <3>1. PICK h \in Requests : Notified(h, Drop(j))
      BY <2>3, PendingGrows, EventsDiffer
    <3>2. req[h].pc = "removed" /\ req[h].item = j
      BY <3>1, EventsDiffer DEF Notified
    <3> QED BY <3>2 DEF DropsDeleted
  <2> QED BY <2>1, <2>2, <2>3 DEF DropsDeleted
<1> QED BY <1>1, <1>2, StepKinds

LEMMA BaseStep == BaseInv /\ [Steps]_vars => BaseInv'
BY TypeStep, RowsFilledStep, PermanentStep, GreetedStep, LinkStep, DropsStep
DEF BaseInv

-----------------------------------------------------------------------------
(* No item is forgotten. *)

Concerned(i) == Live(i) /\ (i \in Sensors \/ Permanent # {})

LEMMA LinkStoredOrUngreeted ==
  ASSUME BaseInv, link # None
  PROVE  IsStored(link) \/ Ungreeted
BY DEF BaseInv, TypeOK, GreetedIsStored, LinkKnown, Ungreeted

LEMMA CoverageInit == Init => Coverage
BY DEF Init, Coverage

\* Nothing that a step leaves alone stops being on its way.
LEMMA CoverageKept ==
  ASSUME Coverage, NEW i \in Items, Concerned(i), link' # None,
         link' = link, conn' = conn, up' = up, req' = req,
         Reaching \subseteq Reaching',
         Covered(i) => Covered(i)'
  PROVE  Covered(i)' \/ WillRegister(i)'
BY DEF Coverage, Concerned, WillRegister, Greeting, Ungreeted, WillSync

LEMMA CoverageRows ==
  ASSUME BaseInv, Coverage, NEW h \in Requests, RowsStep(h),
         NEW i \in Items, Concerned(i)', link' # None
  PROVE  Covered(i)' \/ WillRegister(i)'
<1>1. /\ UNCHANGED <<gateway, network, agent>> /\ Reaching' = Reaching
      /\ \A g \in Requests \ {h} : req'[g] = req[g]
  BY RowsChange DEF BaseInv
<1>2. CASE Live(i)
  <2>1. req[h].pc # "sync" /\ req[h].pc # "created"
    <3>1. req[h] = Idle \/ req[h].pc = "check" \/ req[h].pc = "remove"
      BY DEF RowsStep, Arrive, FindItem, Create, UpdateSensor, CheckTopic, UpdateTopic,
             Remove, FreeSlot
    <3> QED BY <3>1 DEF Idle
  <2>2. Covered(i) \/ WillRegister(i)
    BY <1>1, <1>2 DEF Coverage, Concerned, network
  <2>3. Covered(i) => Covered(i)'
    BY <1>1 DEF Covered, EntriesOf, agent
  <2>4. Greeting => Greeting'
    BY <1>1 DEF Greeting, Ungreeted, gateway, network
  <2>5. \A g \in Requests : req[g].pc \in {"sync", "created"} => req'[g] = req[g]
    BY <1>1, <2>1
  <2> QED BY <1>1, <2>2, <2>3, <2>4, <2>5 DEF WillRegister, WillSync
<1>3. CASE ~Live(i)
  <2>1. \E c \in Confs : Create(h, i, c)
    <3>1. Live(i)' /\ TypeOK
      BY DEF Concerned, BaseInv
    <3>2. ~\E j \in Items : FindItem(h, j)
      BY <1>3, <3>1 DEF FindItem, Live
    <3>3. ASSUME NEW j \in Items, NEW c \in Confs, Create(h, j, c) PROVE j = i
      BY <1>3, <3>1, <3>3 DEF Create, Live, TypeOK, Row
    <3>4. ~\E j \in Items, c \in Confs : UpdateSensor(h, j, c) \/ CheckTopic(h, j, c)
      <4>1. ASSUME NEW j \in Items, NEW c \in Confs, UpdateSensor(h, j, c)
            PROVE  \A m \in Items : table'[m].state = table[m].state
        BY <3>1, <4>1 DEF UpdateSensor, TypeOK, Row
      <4>2. ASSUME NEW j \in Items, NEW c \in Confs, CheckTopic(h, j, c)
            PROVE  table' = table
        BY <4>2 DEF CheckTopic
      <4> QED BY <1>3, <3>1, <4>1, <4>2 DEF Live
    <3>5. ~UpdateTopic(h)
      BY <1>3, <3>1 DEF UpdateTopic, Live, TypeOK, Row
    <3>6. ~Remove(h)
      BY ZenonT(60), <1>3, <3>1 DEF Remove, Live, TypeOK, Row
    <3> QED BY <3>1, <3>2, <3>3, <3>4, <3>5, <3>6, RowsChange
  <2>2. req'[h].pc = "created" /\ req'[h].item = i
    BY <2>1 DEF Create, Goto, BaseInv, TypeOK
  <2> QED BY <2>2 DEF WillRegister
<1> QED BY <1>2, <1>3

LEMMA CoverageNotify ==
  ASSUME BaseInv, Coverage, NEW h \in Requests, NotifyStep(h),
         NEW i \in Items, Concerned(i), link # None
  PROVE  Covered(i)' \/ WillRegister(i)'
<1>1. /\ UNCHANGED <<table, store, conn, network, agent>>
      /\ req' = [req EXCEPT ![h] = Idle] /\ Reaching \subseteq Reaching'
      /\ req[h].pc \in {"created", "updated", "removed"}
      /\ req[h].pc = "created" /\ IsStored(link) =>
           Add(req[h].item, req[h].conf) \in Reaching'
  BY NotifyChange DEF BaseInv
<1>2. Covered(i) => Covered(i)'
  BY <1>1 DEF Covered, EntriesOf, agent
<1>3. Greeting => Greeting'
  BY <1>1 DEF Greeting, Ungreeted, network
<1>4. ASSUME NEW g \in Requests, WillSync(g), req[g].rows[i] # None
      PROVE  WillRegister(i)'
  <2>1. req'[g] = req[g]
    BY <1>1, <1>4 DEF WillSync, BaseInv, TypeOK
  <2> QED BY <1>4, <2>1 DEF WillRegister, WillSync
<1>5. ASSUME NEW g \in Requests, req[g].pc = "created", req[g].item = i
      PROVE  WillRegister(i)'
  <2>1. CASE g # h
    <3>1. req'[g] = req[g]
      BY <1>1, <2>1 DEF BaseInv, TypeOK
    <3> QED BY <1>5, <3>1 DEF WillRegister
  <2>2. CASE g = h /\ IsStored(link)
    <3>1. Add(i, req[h].conf) \in Reaching' /\ Add(i, req[h].conf).type = "AddSensor"
          /\ Add(i, req[h].conf).item = i
      BY <1>1, <1>5, <2>2 DEF Add
    <3> QED BY <3>1 DEF WillRegister
  <2>3. CASE Ungreeted
    BY <1>3, <2>3 DEF Greeting, WillRegister
  <2> QED BY <2>1, <2>2, <2>3, LinkStoredOrUngreeted
<1> QED BY <1>1, <1>2, <1>3, <1>4, <1>5 DEF Coverage, Concerned, WillRegister

LEMMA CoverageSync ==
  ASSUME BaseInv, Coverage, NEW h \in Requests, Sync(h),
         NEW i \in Items, Concerned(i), link # None
  PROVE  Covered(i)' \/ WillRegister(i)'
<1>1. /\ UNCHANGED <<table, store, conn, network, agent>>
      /\ req' = [req EXCEPT ![h] = Idle] /\ Reaching \subseteq Reaching'
      /\ req[h].pc = "sync"
      /\ ~IsSynced(req[h]) /\ IsStored(link) =>
           \A j \in Items : req[h].rows[j] # None => Add(j, req[h].rows[j]) \in Reaching'
  BY SyncDelivers DEF BaseInv, Sync, Goto
<1>2. Covered(i) => Covered(i)'
  BY <1>1 DEF Covered, EntriesOf, agent
<1>3. Greeting => Greeting'
  BY <1>1 DEF Greeting, Ungreeted, network
<1>4. ASSUME NEW g \in Requests, WillSync(g), req[g].rows[i] # None
      PROVE  WillRegister(i)'
  <2>1. CASE g # h
    <3>1. req'[g] = req[g]
      BY <1>1, <2>1 DEF BaseInv, TypeOK
    <3> QED BY <1>4, <3>1 DEF WillRegister, WillSync
  <2>2. CASE g = h /\ IsStored(link)
    <3>1. ~IsSynced(req[h])
      BY <1>4, <2>2 DEF WillSync, IsSynced
    <3> DEFINE e == Add(i, req[h].rows[i])
    <3>2. e \in Reaching' /\ e.type = "AddSensor" /\ e.item = i
      BY <1>1, <1>4, <2>2, <3>1 DEF Add
    <3> QED BY <3>2 DEF WillRegister
  <2>3. CASE Ungreeted
    BY <1>3, <2>3 DEF Greeting, WillRegister
  <2> QED BY <2>1, <2>2, <2>3, LinkStoredOrUngreeted
<1>5. ASSUME NEW g \in Requests, req[g].pc = "created", req[g].item = i
      PROVE  WillRegister(i)'
  <2>1. req'[g] = req[g]
    BY <1>1, <1>5 DEF BaseInv, TypeOK
  <2> QED BY <1>5, <2>1 DEF WillRegister
<1> QED BY <1>1, <1>2, <1>3, <1>4, <1>5 DEF Coverage, Concerned, WillRegister

LEMMA CoverageReport ==
  ASSUME BaseInv, Coverage, NEW h \in Requests, Report(h),
         NEW i \in Items, Concerned(i), link # None
  PROVE  Covered(i)' \/ WillRegister(i)'
<1>1. UNCHANGED <<table, gateway, link, wire, agent>> /\ up # <<>> /\ req[h] = Idle
  BY DEF Report
<1>2. Head(up).sock = link
  <2>1. 1 \in DOMAIN up /\ Head(up) = up[1]
    BY <1>1 DEF BaseInv, TypeOK
  <2> QED BY <2>1 DEF BaseInv, LinkKnown
<1>3. CASE Ungreeted
  BY <1>1, <1>3 DEF Ungreeted, Greeting, WillRegister, gateway
<1>4. CASE IsStored(link)
  <2>1. \E n \in DOMAIN store : store[n] = Head(up).sock
    BY <1>2, <1>4 DEF IsStored, Range
  <2>2. /\ req'[h].pc = "sync"
        /\ \A j \in Items : req'[h].rows[j] = IF Live(j) THEN table[j].conf ELSE None
    BY <2>1 DEF Report, Goto, BaseInv, TypeOK
  <2>3. \A j \in Items : Live(j) => req'[h].rows[j] # None
    BY <2>2, RegistryAssumption DEF BaseInv, RowsFilled
  <2>4. \E s \in Sensors : Live(s)
    BY RegistryAssumption DEF BaseInv, PermanentStays, Concerned
  <2> QED BY <2>2, <2>3, <2>4 DEF WillRegister, WillSync, Concerned, Items
<1> QED BY <1>3, <1>4, LinkStoredOrUngreeted

LEMMA CoverageHandle ==
  ASSUME BaseInv, Coverage, Handle, NEW i \in Items, Concerned(i), link # None
  PROVE  Covered(i)' \/ WillRegister(i)'
<1> DEFINE e == Head(chan)
<1>1. /\ e \in Event /\ e \in Pending /\ Reaching \subseteq Reaching' \cup {e}
  BY HandleDelivers DEF BaseInv
<1>2. UNCHANGED <<table, req, conn, link>>
  BY DEF Handle, server, gateway
<1>3. CASE e.type = "HealthCheck"
  <2>1. up' # <<>>
    <3>1. up' = Append(up, [sock |-> link, empty |-> reg = {}])
      BY <1>3 DEF Handle
    <3> DEFINE Replies == [sock : Sockets, empty : BOOLEAN]
               r == [sock |-> link, empty |-> reg = {}]
    <3>2. up \in Seq(Replies)
      BY DEF BaseInv, TypeOK
    <3> HIDE DEF Replies, r
    <3>3. r \in Range(Append(up, r))
      BY <3>2, RangeAppend
    <3> QED BY <3>1, <3>3, RangeEmpty DEF r
  <2> QED BY <2>1 DEF WillRegister, Greeting
<1>4. CASE e.type \in {"AddSensor", "EditSensor"} /\ e.item = i
  <2>1. e.conf \in Confs
    BY <1>1, <1>4, EventKinds
  <2>2. [item |-> i, conf |-> e.conf] \in reg'
    BY <1>4 DEF Handle, AddSensor, EditSensor
  <2> QED BY <2>2 DEF Covered, EntriesOf
<1>5. CASE /\ e.type \in {"AddSensor", "EditSensor", "RemoveSensor"}
           /\ ~(e.type \in {"AddSensor", "EditSensor"} /\ e.item = i)
  <2>1. e.item # i
    <3>1. e.type = "RemoveSensor" => table[e.item].state = "deleted"
      BY <1>1, EventKinds DEF BaseInv, DropsDeleted
    <3> QED BY <1>5, <3>1 DEF Concerned, Live
  <2>2. Covered(i) => Covered(i)'
    BY <1>5, <2>1 DEF Handle, AddSensor, EditSensor, RemoveSensor, EntriesOf, Covered
  <2>3. up' = up
    BY <1>5 DEF Handle
  <2>4. e # HealthCheck
    BY <1>5 DEF HealthCheck
  <2>5. \A f \in Reaching : f \in Reaching' \/ f = e
    BY <1>1
  <2>6. Covered(i) \/ WillRegister(i)
    BY DEF Coverage, Concerned
  <2> HIDE DEF e
  <2> QED BY <1>2, <2>1, <2>2, <2>3, <2>4, <2>5, <2>6
          DEF WillRegister, Greeting, Ungreeted, WillSync
<1> QED BY <1>3, <1>4, <1>5 DEF Handle

LEMMA CoverageStep ==
  ASSUME BaseInv, Coverage, [Steps]_vars
  PROVE  Coverage'
<1> SUFFICES ASSUME link' # None, NEW i \in Items, Concerned(i)'
             PROVE  Covered(i)' \/ WillRegister(i)'
  BY DEF Coverage, Concerned
<1>1. CASE \E h \in Requests : RowsStep(h)
  BY <1>1, CoverageRows
<1>2. CASE OtherStep
  <2>0. Concerned(i)
    BY <1>2, RowsKept DEF Concerned, Live
  <2>1. CASE \E h \in Requests : NotifyStep(h)
    BY <2>0, <2>1, CoverageNotify, NotifyChange DEF BaseInv, network
  <2>2. CASE \E h \in Requests : Sync(h)
    BY <2>0, <2>2, CoverageSync DEF Sync, network
  <2>3. CASE \E h \in Requests : Report(h)
    BY <2>0, <2>3, CoverageReport DEF Report
  <2>4. CASE Reply
    <3>1. link' = link /\ conn' = conn /\ up' = up /\ req' = req /\ reg' = reg
      BY <2>4 DEF Reply, server, agent
    <3>2. Covered(i) => Covered(i)'
      BY <3>1 DEF Covered, EntriesOf
    <3>3. CASE Ungreeted
      BY <3>1, <3>3 DEF Ungreeted, Greeting, WillRegister
    <3>4. CASE IsStored(link)
      <4>1. Reaching \subseteq Reaching'
        BY <2>4, <3>1, <3>4, ReplyDelivers DEF BaseInv
      <4> QED BY <2>0, <3>1, <3>2, <4>1, CoverageKept
    <3> QED BY <3>1, <3>3, <3>4, LinkStoredOrUngreeted
  <2>5. CASE Receive
    <3>1. link' = link /\ conn' = conn /\ up' = up /\ req' = req /\ reg' = reg
          /\ Reaching' = Reaching
      BY <2>5, ReceiveDelivers DEF BaseInv, Receive, server, gateway
    <3>2. Covered(i) => Covered(i)'
      BY <3>1 DEF Covered, EntriesOf
    <3> QED BY <2>0, <3>1, <3>2, CoverageKept
  <2>6. CASE Handle
    BY <2>0, <2>6, CoverageHandle DEF Handle
  <2>7. ASSUME NEW k \in Sockets, Stored(k) \/ Greet(k) \/ Disconnected(k)
        PROVE  Covered(i)' \/ WillRegister(i)'
    <3>1. /\ link' = link /\ up' = up /\ req' = req /\ reg' = reg
          /\ Reaching \subseteq Reaching'
      BY <2>7, GreetDelivers, NothingDelivers
      DEF BaseInv, Stored, Greet, Disconnected, server, network, agent
    <3>2. Covered(i) => Covered(i)'
      BY <3>1 DEF Covered, EntriesOf
    <3>3. CASE k # link
      <4>1. Ungreeted => Ungreeted'
        BY <2>7, <3>1, <3>3 DEF Ungreeted, Stored, Greet, Disconnected, BaseInv, TypeOK
      <4> QED BY <2>0, <3>1, <3>2, <4>1 DEF Coverage, Concerned, WillRegister, Greeting, WillSync
    <3>4. CASE k = link /\ Stored(k)
      <4>1. Ungreeted'
        BY <3>1, <3>4 DEF Ungreeted, Stored, BaseInv, TypeOK
      <4> QED BY <4>1 DEF WillRegister, Greeting
    <3>5. CASE k = link /\ Greet(k)
      BY <3>5, GreetDelivers DEF BaseInv, WillRegister, Greeting
    <3> QED BY <2>7, <3>3, <3>4, <3>5 DEF Disconnected
  <2>8. ASSUME NEW k \in Sockets, Connect(k) PROVE Ungreeted'
    BY <2>8 DEF Connect, Ungreeted, BaseInv, TypeOK
  <2>9. CASE LockAgent
    <3>1. link' = link /\ conn' = conn /\ up' = up /\ req' = req /\ reg' = reg
          /\ Reaching' = Reaching
      BY <2>9, LockDelivers DEF BaseInv, LockAgent, server, network, agent
    <3>2. Covered(i) => Covered(i)'
      BY <3>1 DEF Covered, EntriesOf
    <3> QED BY <2>0, <3>1, <3>2, CoverageKept
  <2>10. CASE UNCHANGED vars \/ \E k \in Others : OtherLeaves(k)
    <3>1. link' = link /\ conn' = conn /\ up' = up /\ req' = req /\ reg' = reg
          /\ Reaching' = Reaching
      BY <2>10, NothingDelivers DEF OtherLeaves, vars, server, gateway, network, agent
    <3>2. Covered(i) => Covered(i)'
      BY <3>1 DEF Covered, EntriesOf
    <3> QED BY <2>0, <3>1, <3>2, CoverageKept
  <2>11. ~(LoseLink \/ MonitorFails \/ RestartServer \/ RestartAgent)
    BY LossDelivers DEF MonitorFails, network
  <2> QED BY <1>2, <2>1, <2>2, <2>3, <2>4, <2>5, <2>6, <2>7, <2>8, <2>9, <2>10, <2>11
         DEF OtherStep, WillRegister, Greeting
<1> QED BY <1>1, <1>2, StepKinds

LEMMA CoverInvariant == Spec => []CoverInv
<1>1. Init => CoverInv
  BY BaseInit, CoverageInit DEF CoverInv
<1>2. CoverInv /\ [Next]_vars => CoverInv'
  BY BaseStep, CoverageStep DEF CoverInv, Steps
<1> QED BY <1>1, <1>2, PTL DEF Spec

-----------------------------------------------------------------------------
\* The variables keep their types, whatever is done and whatever breaks.
THEOREM RegistryTypes == Spec => []TypeOK
<1>1. CoverInv => TypeOK
  BY DEF CoverInv, BaseInv
<1> QED BY <1>1, CoverInvariant, PTL

LEMMA NothingComes ==
  ASSUME BaseInv, Quiet
  PROVE  Reaching = {} /\ ~Greeting /\ AllIdle
<1>1. Reaching = {}
  BY RangeEmpty DEF Quiet, Reaching, Waiting
<1> QED BY <1>1 DEF Quiet, Greeting, Ungreeted, AllIdle

\* No sensor is forgotten: whatever was edited, lost or restarted before, a
\* connected and greeted agent to which nothing is on its way reads every
\* sensor there is.
THEOREM NoSensorForgotten == Spec => []SensorsCovered
<1>1. CoverInv => SensorsCovered
  BY NothingComes DEF CoverInv, Coverage, SensorsCovered, WillRegister, WillSync,
     Quiet, AllIdle, Idle, Items
<1> QED BY <1>1, CoverInvariant, PTL

\* Nor is an alert topic, as long as there is a sensor that nobody removes.
THEOREM NoTopicForgotten == Spec => []TopicsCovered
<1>1. CoverInv => TopicsCovered
  BY NothingComes DEF CoverInv, Coverage, TopicsCovered, WillRegister, WillSync,
     Quiet, AllIdle, Idle, Items
<1> QED BY <1>1, CoverInvariant, PTL

-----------------------------------------------------------------------------
(* A careful operator: one thing at a time. *)

LEMMA CarefulSteps == [CarefulNext]_vars => [Steps]_vars
BY DEF CarefulNext, CarefulArrive, Arrive, Steps, Next

LEMMA StillMeans == Still => NothingSent /\ up = <<>> /\ AllIdle /\ ~Ungreeted
BY DEF Still, NothingSent, AllIdle, Ungreeted

LEMMA ReachingIsPending == Reaching \subseteq Pending
BY DEF Reaching, Pending

LEMMA NothingSentMeans == NothingSent => Pending = {} /\ Reaching = {}
BY RangeEmpty DEF NothingSent, Pending, Reaching, Waiting

CarefulRows(h) == CarefulArrive(h) \/ UpdateTopic(h) \/ Remove(h)

CarefulOther ==
  \/ \E h \in Requests : NotifyStep(h) \/ Sync(h) \/ Report(h)
  \/ Reply \/ Receive \/ Handle
  \/ \E k \in Sockets : Stored(k) \/ Greet(k) \/ Disconnected(k)
  \/ \E k \in Sockets : Still /\ reg = {} /\ Connect(k)
  \/ LoseLink \/ MonitorFails \/ \E k \in Others : OtherLeaves(k)
  \/ Still /\ LockAgent
  \/ UNCHANGED vars

LEMMA CarefulKinds ==
  /\ [CarefulNext]_vars => (\E h \in Requests : CarefulRows(h)) \/ CarefulOther
  /\ CarefulOther => OtherStep
BY DEF CarefulNext, Progress, Breaks, Step, CarefulRows, NotifyStep, CarefulOther, OtherStep

LEMMA CarefulRowsMeans ==
  ASSUME NEW h \in Requests, CarefulRows(h)
  PROVE  RowsStep(h)
BY DEF CarefulRows, CarefulArrive, RowsStep, Arrive

\* A request that is being served is the only thing that happens.
LEMMA BusyMeans ==
  ASSUME OneAtATime, NEW h \in Requests, req[h] # Idle
  PROVE  /\ NothingSent /\ up = <<>> /\ \A g \in Requests \ {h} : req[g] = Idle
         /\ ~Ungreeted /\ Pending = {} /\ Reaching = {} /\ ~Greeting
<1>1. NothingSent /\ up = <<>> /\ \A g \in Requests \ {h} : req[g] = Idle
  BY DEF OneAtATime
<1>2. ~Ungreeted
  BY DEF OneAtATime, AllIdle
<1> QED BY <1>1, <1>2, NothingSentMeans DEF Greeting

\* While an event is on its way no request is being served.
LEMMA SentMeans ==
  ASSUME TypeOK, OneAtATime, redis # <<>> \/ wire # <<>> \/ chan # <<>>
  PROVE  /\ AllIdle /\ up = <<>> /\ ~Ungreeted
         /\ HealthCheck \in Pending => redis = <<>> /\ Len(wire) + Len(chan) = 1
BY DEF OneAtATime, NothingSent, AllIdle

LEMMA RowsBusy ==
  ASSUME TypeOK, OneAtATime, NEW h \in Requests, CarefulRows(h)
  PROVE  /\ NothingSent /\ up = <<>> /\ \A g \in Requests \ {h} : req[g] = Idle
         /\ ~Ungreeted /\ Pending = {} /\ Reaching = {} /\ ~Greeting
         /\ req[h] = Idle \/ req[h].pc \in {"check", "remove"}
<1>1. CASE CarefulArrive(h)
  <2>1. Still
    BY <1>1 DEF CarefulArrive
  <2> QED BY <2>1, StillMeans, NothingSentMeans DEF AllIdle, Greeting
<1>2. CASE UpdateTopic(h) \/ Remove(h)
  BY <1>2, BusyMeans DEF UpdateTopic, Remove, Idle
<1> QED BY <1>1, <1>2 DEF CarefulRows

LEMMA OneInit == Init => OneAtATime
<1> SUFFICES ASSUME Init PROVE OneAtATime
  OBVIOUS
<1>1. NothingSent /\ AllIdle /\ up = <<>> /\ ~Ungreeted
  BY DEF Init, NothingSent, AllIdle, Ungreeted
<1> QED BY <1>1, NothingSentMeans DEF OneAtATime, AllIdle

LEMMA OneKept ==
  ASSUME OneAtATime, UNCHANGED <<req, redis, wire, chan, up>>, Ungreeted' => Ungreeted
  PROVE  OneAtATime'
<1>1. Pending' = Pending /\ (NothingSent <=> NothingSent') /\ (AllIdle <=> AllIdle')
  BY NothingDelivers DEF NothingSent, AllIdle
<1> QED BY <1>1 DEF OneAtATime

LEMMA OneStep ==
  ASSUME TypeOK, OneAtATime, [CarefulNext]_vars
  PROVE  OneAtATime'
<1>0. [Steps]_vars /\ TypeOK'
  BY CarefulSteps, TypeStep
<1>1. ASSUME NEW h \in Requests, CarefulRows(h) PROVE OneAtATime'
  <2>1. /\ UNCHANGED <<gateway, network, agent>> /\ Pending' = {}
        /\ \A g \in Requests \ {h} : req'[g] = Idle
    BY <1>1, CarefulRowsMeans, RowsChange, RowsBusy
  <2>2. NothingSent' /\ up' = <<>> /\ ~Ungreeted'
    BY <1>1, <2>1, RowsBusy DEF NothingSent, Ungreeted, gateway, network, agent
  <2> QED BY <2>1, <2>2 DEF OneAtATime
<1>2. ASSUME AllIdle', up' = <<>>, ~Ungreeted', HealthCheck \notin Pending'
      PROVE  OneAtATime'
  BY <1>2 DEF OneAtATime, AllIdle
<1>3. ASSUME NEW h \in Requests, NotifyStep(h) \/ Sync(h) PROVE OneAtATime'
  <2>1. req[h] # Idle
    <3>1. req[h].pc # "idle"
      BY <1>3 DEF NotifyStep, Created, Updated, Removed, Sync
    <3> QED BY <3>1 DEF Idle
  <2>2. req' = [req EXCEPT ![h] = Idle] /\ UNCHANGED <<conn, network>>
    BY <1>3, NotifyChange DEF Sync, Goto
  <2>3. AllIdle' /\ up' = <<>> /\ ~Ungreeted'
    BY <2>1, <2>2, BusyMeans DEF AllIdle, Ungreeted, network, TypeOK
  <2>4. HealthCheck \notin Pending'
    <3>1. Pending = {}
      BY <2>1, BusyMeans
    <3>2. \A k \in Sockets : ~Greet(k)
      BY <1>3, <2>1, <2>2 DEF Greet, server, TypeOK
    <3> QED BY <1>0, <3>1, <3>2, PendingGrows, EventsDiffer DEF Notified
  <2> QED BY <1>2, <2>3, <2>4
<1>4. ASSUME NEW h \in Requests, Report(h) PROVE OneAtATime'
  <2>1. up # <<>> /\ up' = Tail(up) /\ UNCHANGED <<gateway, link, wire, agent>>
    BY <1>4 DEF Report
  <2>2. NothingSent /\ Len(up) = 1 /\ AllIdle /\ ~Ungreeted
    BY <2>1 DEF OneAtATime
  <2>3. up' = <<>>
    <3> DEFINE Replies == [sock : Sockets, empty : BOOLEAN]
    <3>1. up \in Seq(Replies)
      BY DEF TypeOK
    <3> HIDE DEF Replies
    <3>2. Tail(up) \in Seq(Replies) /\ Len(Tail(up)) = 0
      BY <2>1, <2>2, <3>1, RangeTail
    <3> QED BY <2>1, <3>2, RangeInSet
  <2>4. NothingSent' /\ ~Ungreeted'
    BY <2>1, <2>2 DEF NothingSent, Ungreeted, gateway, agent
  <2>5. \A g \in Requests \ {h} : req'[g] = Idle
    BY <1>4, <2>2 DEF Report, Goto, AllIdle, TypeOK
  <2>6. HealthCheck \notin Pending'
    <3>1. Pending = {}
      BY <2>2, NothingSentMeans
    <3>2. Pending' = Pending
      BY <2>1, NothingDelivers DEF gateway, agent
    <3> QED BY <3>1, <3>2
  <2> QED BY <2>3, <2>4, <2>5, <2>6 DEF OneAtATime
<1>5. CASE Reply
  <2>1. redis # <<>> /\ UNCHANGED <<server, conn, link, up>>
    BY <1>5 DEF Reply
  <2>2. AllIdle /\ up = <<>> /\ ~Ungreeted /\ HealthCheck \notin Pending
    BY <2>1, SentMeans
  <2>3. HealthCheck \notin Pending'
    BY <1>5, <2>2, ReplyDelivers
  <2> QED BY <1>2, <2>1, <2>2, <2>3 DEF AllIdle, Ungreeted, server
<1>6. CASE Receive
  <2>1. wire # <<>> /\ UNCHANGED <<server, gateway, link, up>>
    BY <1>6 DEF Receive
  <2>2. AllIdle /\ up = <<>> /\ ~Ungreeted
    BY <2>1, SentMeans
  <2>3. Len(wire') + Len(chan') = Len(wire) + Len(chan)
    <3>1. Head(wire) \in Event /\ Len(Tail(wire)) = Len(wire) - 1
      BY <2>1, RangeTail DEF TypeOK
    <3>2. Len(Append(chan, Head(wire))) = Len(chan) + 1
      BY <3>1 DEF TypeOK
    <3>3. Len(wire) \in Nat /\ Len(chan) \in Nat
      BY RangeInSet DEF TypeOK
    <3> QED BY <1>6, <3>1, <3>2, <3>3 DEF Receive
  <2>4. HealthCheck \in Pending' => redis' = <<>> /\ Len(wire') + Len(chan') = 1
    BY <1>6, <2>1, <2>3, ReceiveDelivers, SentMeans DEF gateway
  <2> QED BY <2>1, <2>2, <2>4 DEF OneAtATime, AllIdle, Ungreeted, server, gateway
<1>7. CASE Handle
  <2>1. chan # <<>> /\ UNCHANGED <<server, gateway, link, wire>>
    BY <1>7 DEF Handle
  <2>2. AllIdle /\ up = <<>> /\ ~Ungreeted
    BY <2>1, SentMeans
  <2>3. AllIdle' /\ ~Ungreeted'
    BY <2>1, <2>2 DEF AllIdle, Ungreeted, server, gateway
  <2>4. CASE HealthCheck \notin Pending
    <3>1. up' = up
      <4>1. Head(chan) # HealthCheck /\ Head(chan) \in Event
        BY <1>7, <2>4, HandleDelivers
      <4> QED BY <1>7, <4>1, EventKinds DEF Handle
    <3>2. HealthCheck \notin Pending'
      BY <1>7, <2>4, HandleDelivers
    <3> QED BY <1>2, <2>2, <2>3, <3>1, <3>2
  <2>5. CASE HealthCheck \in Pending
    <3>1. redis = <<>> /\ Len(wire) + Len(chan) = 1
      BY <2>1, <2>5, SentMeans
    <3>2. wire = <<>> /\ Len(Tail(chan)) = 0 /\ Tail(chan) \in Seq(Event)
      <4>0. chan \in Seq(Event) /\ wire \in Seq(Event)
        BY DEF TypeOK
      <4>1. Len(chan) \in Nat \ {0} /\ Len(wire) \in Nat
        BY <2>1, <4>0, RangeInSet
      <4>2. Len(chan) = 1 /\ Len(wire) = 0
        <5>1. \A a, b \in Nat : b # 0 /\ a + b = 1 => a = 0 /\ b = 1
          OBVIOUS
        <5> QED BY <3>1, <4>1, <5>1
      <4>3. wire = <<>>
        BY <4>2, RangeInSet DEF TypeOK
      <4> QED BY <2>1, <4>2, <4>3, RangeTail DEF TypeOK
    <3>3. NothingSent'
      BY <1>7, <2>1, <3>1, <3>2, RangeInSet DEF NothingSent, Handle, gateway
    <3>4. Pending' = {}
      <4>1. Range(redis') = {} /\ Range(wire') = {} /\ Range(chan') = {}
        BY <3>3, RangeEmpty DEF NothingSent
      <4> QED BY <4>1 DEF Pending, Waiting
    <3>5. up' = <<>> \/ Len(up') = 1
      <4>1. \/ up' = up
            \/ up' = Append(up, [sock |-> link, empty |-> reg = {}])
        BY <1>7 DEF Handle
      <4> QED BY <2>2, <4>1
    <3> QED BY <2>3, <3>3, <3>4, <3>5 DEF OneAtATime, AllIdle
  <2> QED BY <2>4, <2>5
<1>8. ASSUME NEW k \in Sockets, Stored(k) \/ Disconnected(k) PROVE OneAtATime'
  <2>1. Ungreeted' => Ungreeted
    BY <1>8 DEF Stored, Disconnected, Ungreeted, network, TypeOK
  <2> QED BY <1>8, <2>1, OneKept DEF Stored, Disconnected, server, network, agent
<1>9. ASSUME NEW k \in Sockets, Greet(k) PROVE OneAtATime'
  <2>1. CASE k # link
    <3>1. Ungreeted' => Ungreeted
      BY <1>9, <2>1 DEF Greet, Ungreeted, TypeOK
    <3> QED BY <1>9, <2>1, <3>1, OneKept DEF Greet, server, agent
  <2>2. CASE k = link
    <3>1. Ungreeted
      BY <1>9, <2>2, RegistryAssumption DEF Greet, Ungreeted
    <3>2. NothingSent /\ up = <<>> /\ AllIdle
      BY <3>1 DEF OneAtATime
    <3>3. UNCHANGED <<req, redis, chan, up>> /\ wire' = Append(<<>>, HealthCheck)
      BY <1>9, <2>2, <3>2 DEF Greet, server, agent, NothingSent
    <3>4. redis' = <<>> /\ Len(wire') + Len(chan') = 1
      BY <3>2, <3>3 DEF NothingSent
    <3>5. ~Ungreeted'
      BY <1>9, <2>2 DEF Greet, Ungreeted, TypeOK
    <3> QED BY <3>2, <3>3, <3>4, <3>5 DEF OneAtATime, AllIdle
  <2> QED BY <2>1, <2>2
<1>10. ASSUME NEW k \in Sockets, Still, Connect(k) PROVE OneAtATime'
  <2>1. UNCHANGED <<req, redis, wire, chan, up>>
    BY <1>10 DEF Connect, server, agent
  <2>2. NothingSent' /\ up' = <<>> /\ AllIdle'
    BY <1>10, <2>1, StillMeans DEF NothingSent, AllIdle
  <2>3. Pending' = {}
    BY <1>10, <2>1, NothingDelivers, NothingSentMeans, StillMeans
  <2> QED BY <2>2, <2>3 DEF OneAtATime, AllIdle
<1>11. CASE LoseLink
  <2>1. /\ UNCHANGED <<req, redis, chan>> /\ link' = None /\ wire' = <<>>
        /\ up' \in {up, <<>>} /\ Pending' \subseteq Pending
    BY <1>11, LossDelivers DEF LoseLink, server, gateway, agent
  <2>2. (NothingSent => NothingSent') /\ (AllIdle <=> AllIdle') /\ ~Ungreeted'
    BY <2>1 DEF NothingSent, AllIdle, Ungreeted
  <2>3. ASSUME HealthCheck \in Pending'
        PROVE  redis' = <<>> /\ Len(wire') + Len(chan') = 1 /\ up' = <<>> /\ AllIdle'
    <3>1. redis = <<>> /\ Len(wire) + Len(chan) = 1 /\ up = <<>> /\ AllIdle
      BY <2>1, <2>3 DEF OneAtATime
    <3>2. Range(redis') = {} /\ Range(wire') = {}
      BY <2>1, <3>1, RangeEmpty
    <3>3. Range(chan) # {}
      BY <2>1, <2>3, <3>2 DEF Pending, Waiting
    <3>4. Len(chan) \in Nat \ {0} /\ Len(wire) \in Nat /\ Len(<<>>) = 0
      BY <3>3, RangeInSet DEF TypeOK
    <3> QED BY <2>1, <2>2, <3>1, <3>4
  <2> QED BY <2>1, <2>2, <2>3 DEF OneAtATime
<1>12. CASE Still /\ LockAgent
  <2>1. NothingSent /\ up = <<>> /\ AllIdle /\ ~Ungreeted
    BY <1>12, StillMeans
  <2>2. UNCHANGED <<req, conn, link, up>> /\ Pending' = {}
    BY <1>12, <2>1, LockDelivers, NothingSentMeans DEF LockAgent, server, network
  <2> QED BY <1>2, <2>1, <2>2 DEF AllIdle, Ungreeted
<1>13. CASE UNCHANGED vars \/ MonitorFails \/ \E k \in Others : OtherLeaves(k)
  <2>1. UNCHANGED <<req, redis, wire, chan, up, conn, link>>
    BY <1>13 DEF vars, MonitorFails, OtherLeaves, server, gateway, network, agent
  <2> QED BY <2>1, OneKept DEF Ungreeted
<1> QED BY <1>1, <1>3, <1>4, <1>5, <1>6, <1>7, <1>8, <1>9, <1>10, <1>11, <1>12, <1>13,
           CarefulKinds DEF CarefulOther

-----------------------------------------------------------------------------
(* What is on its way is what the tables say. *)

LEMMA RowsAt ==
  ASSUME RowsFilled, TypeOK, NEW i \in Items
  PROVE  /\ Rows[i] = IF Live(i) THEN table[i].conf ELSE None
         /\ Rows[i] # None <=> Live(i)
BY RegistryAssumption DEF Rows, RowsFilled

LEMMA CurrentInit == Init => Current
<1> SUFFICES ASSUME Init PROVE Current
  OBVIOUS
<1>1. NothingSent /\ \A h \in Requests : req[h].pc = "idle"
  BY DEF Init, NothingSent, Idle
<1> QED BY <1>1, NothingSentMeans DEF Current

\* After a step of RowsStep only its own request can be out of step.
LEMMA CurrentOfRequest ==
  ASSUME NEW h \in Requests, Pending' = {}, \A g \in Requests \ {h} : req'[g] = Idle,
         req'[h].pc \in {"created", "updated"} =>
           table'[req'[h].item].state = "live" /\ req'[h].conf = table'[req'[h].item].conf,
         req'[h].pc \in {"check", "remove"} => table'[req'[h].item].state = "live",
         req'[h].pc # "sync"
  PROVE  Current'
<1>1. \A g \in Requests \ {h} : req'[g].pc = "idle"
  BY DEF Idle
<1> QED BY <1>1 DEF Current, Live

LEMMA CurrentStep ==
  ASSUME BaseInv, OneAtATime, Current, [CarefulNext]_vars
  PROVE  Current'
<1>0. TypeOK /\ [Steps]_vars
  BY CarefulSteps DEF BaseInv
<1>1. ASSUME NEW h \in Requests, CarefulRows(h) PROVE Current'
  <2>1. /\ Pending' = {} /\ \A g \in Requests \ {h} : req'[g] = Idle
        /\ req[h] \in Request
    BY <1>0, <1>1, RowsBusy, RowsChange, CarefulRowsMeans
  <2>2. ASSUME NEW i \in Items, FindItem(h, i) PROVE Current'
    <3>1. req'[h] = [pc |-> "remove", item |-> i] /\ table'[i].state = "live"
      BY <1>0, <2>2 DEF FindItem, Goto, Live, TypeOK
    <3> QED BY <2>1, <3>1, CurrentOfRequest
  <2>3. ASSUME NEW i \in Items, NEW c \in Confs, Create(h, i, c) PROVE Current'
    <3>1. /\ req'[h] = [pc |-> "created", item |-> i, conf |-> c]
          /\ table'[i].state = "live" /\ table'[i].conf = c
      BY <1>0, <2>3 DEF Create, Goto, Live, TypeOK
    <3> QED BY <2>1, <3>1, CurrentOfRequest
  <2>4. ASSUME NEW i \in Items, NEW c \in Confs, Live(i), UpdateSensor(h, i, c)
        PROVE  Current'
    <3>1. /\ req'[h] = [pc |-> "updated", item |-> i, conf |-> c]
          /\ table'[i].state = "live" /\ table'[i].conf = c
      BY <1>0, <2>4 DEF UpdateSensor, Goto, Live, TypeOK, Row
    <3> QED BY <2>1, <3>1, CurrentOfRequest
  <2>5. ASSUME NEW i \in Items, NEW c \in Confs, CheckTopic(h, i, c) PROVE Current'
    <3>1. req'[h] = [pc |-> "check", item |-> i, conf |-> c] /\ table'[i].state = "live"
      BY <1>0, <2>5 DEF CheckTopic, Goto, Live, TypeOK
    <3> QED BY <2>1, <3>1, CurrentOfRequest
  <2>6. CASE UpdateTopic(h)
    <3>1. req[h].item \in Items /\ Live(req[h].item)
      BY <2>1, <2>6, RequestKinds DEF UpdateTopic, Current
    <3>2. /\ req'[h].pc = "updated" /\ req'[h].item = req[h].item
          /\ req'[h].conf = req[h].conf
      BY <1>0, <2>1, <2>6 DEF UpdateTopic, TypeOK, Request
    <3>3. table'[req[h].item].state = "live" /\ table'[req[h].item].conf = req[h].conf
      BY <1>0, <2>6, <3>1 DEF UpdateTopic, Live, TypeOK, Row
    <3> QED BY <2>1, <3>2, <3>3, CurrentOfRequest
  <2>7. CASE Remove(h)
    <3>1. req'[h].pc = "removed"
      BY <1>0, <2>1, <2>7 DEF Remove, TypeOK, Request
    <3> QED BY <2>1, <3>1, CurrentOfRequest
  <2> QED BY <1>1, <2>2, <2>3, <2>4, <2>5, <2>6, <2>7 DEF CarefulRows, CarefulArrive
<1>2. CASE CarefulOther
  <2>1. table' = table /\ Rows' = Rows
    BY <1>2, RowsKept, CarefulKinds DEF Rows, Live
  <2>2. ASSUME NEW h \in Requests
        PROVE  /\ req'[h].pc \in {"created", "updated"} =>
                    table'[req'[h].item].state = "live" /\ req'[h].conf = table'[req'[h].item].conf
               /\ req'[h].pc \in {"check", "remove"} => table'[req'[h].item].state = "live"
               /\ req'[h].pc = "sync" => req'[h].rows = Rows'
    <3>1. CASE req'[h] = req[h]
      BY <2>1, <3>1 DEF Current, Live
    <3>2. CASE req'[h] = Idle
      <4>1. req'[h].pc = "idle"
        BY <3>2 DEF Idle
      <4> QED BY <4>1
    <3>3. CASE Report(h) /\ req'[h].pc = "sync"
      <4>1. req'[h] = req[h] \/ req'[h].rows = Rows
        <5>1. req' = req \/ Goto(h, [pc |-> "sync", empty |-> Head(up).empty,
                                     rows |-> Rows])
          BY <3>3 DEF Report, Rows
        <5> QED BY <1>0, <5>1 DEF Goto, TypeOK
      <4> QED BY <2>1, <3>1, <3>3, <4>1
    <3> QED BY <1>0, <1>2, <3>1, <3>2, <3>3, RequestsKept, CarefulKinds
  <2>3. ASSUME NEW e \in Pending'
        PROVE  /\ e.type \in {"AddSensor", "EditSensor"} =>
                    Live(e.item) /\ e.conf = table[e.item].conf
               /\ e.type = "RemoveSensor" => ~Live(e.item)
    <3>1. CASE e \in Pending
      BY <3>1 DEF Current
    <3>2. CASE e = HealthCheck
      BY <3>2 DEF HealthCheck
    <3>3. ASSUME NEW h \in Requests, Notified(h, e)
          PROVE  /\ e.type \in {"AddSensor", "EditSensor"} =>
                      Live(e.item) /\ e.conf = table[e.item].conf
                 /\ e.type = "RemoveSensor" => ~Live(e.item)
      <4>1. CASE req[h].pc = "created" /\ e = Add(req[h].item, req[h].conf)
        BY <4>1 DEF Add, Current
      <4>2. CASE req[h].pc = "updated" /\ e = Edit(req[h].item, req[h].conf)
        BY <4>2 DEF Edit, Current
      <4>3. CASE req[h].pc = "removed" /\ e = Drop(req[h].item)
        BY <4>3 DEF Drop, BaseInv, DropsDeleted, Live
      <4>4. CASE req[h].pc = "sync" /\ \E i \in Items :
                   req[h].rows[i] # None /\ e = Add(i, req[h].rows[i])
        <5>1. PICK i \in Items : Rows[i] # None /\ e = Add(i, Rows[i])
          BY <4>4 DEF Current
        <5>2. Live(i) /\ Rows[i] = table[i].conf
          BY <1>0, <5>1, RowsAt DEF BaseInv
        <5> QED BY <5>1, <5>2 DEF Add
      <4> QED BY <3>3, <4>1, <4>2, <4>3, <4>4 DEF Notified
    <3> QED BY <1>0, <3>1, <3>2, <3>3, PendingGrows
  <2> QED BY <2>1, <2>2, <2>3 DEF Current, Live
<1> QED BY <1>1, <1>2, CarefulKinds

-----------------------------------------------------------------------------
(* The list differs from the tables only where a correction is on its way. *)

Agrees(i) == EntriesOf(i) = Right(i) \/ Corrects(i)

LEMMA AgreementInit == Init => Agreement
BY DEF Init, Agreement

\* When nothing is on its way to the agent nothing needs a correction.
LEMMA NothingCorrects ==
  ASSUME NEW i, ~Greeting, Reaching = {},
         \A h \in Requests : req[h].pc \in {"idle", "check", "remove"}
  PROVE  ~Corrects(i) /\ ~Syncing
BY DEF Corrects, Syncing

LEMMA AgreementKept ==
  ASSUME Agreement, link # None, NEW i \in Items,
         UNCHANGED <<table, req, link, reg>>, Greeting' <=> Greeting,
         Reaching \subseteq Reaching'
  PROVE  Agrees(i)' /\ (Greeting' \/ Syncing' => reg' = {})
<1>1. EntriesOf(i)' = EntriesOf(i) /\ Right(i)' = Right(i)
      /\ (Live(i)' <=> Live(i)) /\ (Syncing' <=> Syncing)
  BY DEF EntriesOf, Right, Live, Syncing
<1>2. Corrects(i) => Corrects(i)'
  BY <1>1 DEF Corrects
<1> QED BY <1>1, <1>2 DEF Agreement, Agrees

LEMMA AgreementRows ==
  ASSUME BaseInv, OneAtATime, Current, Agreement, link # None,
         NEW h \in Requests, CarefulRows(h), NEW i \in Items
  PROVE  Agrees(i)' /\ (Greeting' \/ Syncing' => reg' = {})
<1>0. TypeOK /\ req[h] \in Request
  BY DEF BaseInv, TypeOK
<1>1. /\ UNCHANGED <<gateway, network, agent>> /\ Reaching' = Reaching
      /\ ~Greeting /\ Reaching = {}
  BY <1>0, RowsBusy, RowsChange, CarefulRowsMeans
<1>2. \A g \in Requests : req[g].pc \in {"idle", "check", "remove"}
  BY <1>0, RowsBusy DEF Idle
<1>3. \A j \in Items : EntriesOf(j) = Right(j)
  BY <1>1, <1>2, NothingCorrects DEF Agreement
<1>4. ~Greeting' /\ EntriesOf(i)' = EntriesOf(i)
  BY <1>1 DEF Greeting, Ungreeted, EntriesOf, gateway, network, agent
<1>5. ASSUME req'[h].pc # "sync"
      PROVE  ~Syncing'
  <2>1. \A g \in Requests \ {h} : req'[g] = req[g]
    BY <1>0, RowsChange, CarefulRowsMeans
  <2> QED BY <1>2, <1>5, <2>1 DEF Syncing
<1>6. ASSUME table'[i] = table[i], req'[h].pc # "sync"
      PROVE  Agrees(i)' /\ (Greeting' \/ Syncing' => reg' = {})
  <2>1. Right(i)' = Right(i)
    BY <1>6 DEF Right, Live
  <2> QED BY <1>3, <1>4, <1>5, <1>6, <2>1 DEF Agrees
<1>7. ASSUME req'[h].pc \in {"updated", "removed"}, req'[h].item = i
      PROVE  Agrees(i)' /\ (Greeting' \/ Syncing' => reg' = {})
  BY <1>4, <1>5, <1>7 DEF Agrees, Corrects
<1>8. ASSUME NEW j \in Items, FindItem(h, j) PROVE table' = table /\ req'[h].pc # "sync"
  BY <1>0, <1>8 DEF FindItem, Goto, TypeOK
<1>9. ASSUME NEW j \in Items, NEW c \in Confs, Create(h, j, c)
      PROVE  Agrees(i)' /\ (Greeting' \/ Syncing' => reg' = {})
  <2>1. /\ req'[h] = [pc |-> "created", item |-> j, conf |-> c]
        /\ ~Live(j) /\ \A m \in Items \ {j} : table'[m] = table[m]
    BY <1>0, <1>9 DEF Create, Goto, Live, TypeOK
  <2>2. CASE i # j
    BY <1>6, <2>1, <2>2
  <2>3. CASE i = j
    <3>1. EntriesOf(i)' \subseteq Right(i)'
      BY <1>3, <1>4, <2>1, <2>3 DEF Right
    <3>2. req'[h].pc = "created" /\ req'[h].item = i
      BY <2>1, <2>3
    <3> QED BY <1>4, <1>5, <3>1, <3>2 DEF Agrees, Corrects
  <2> QED BY <2>2, <2>3
<1>10. ASSUME NEW j \in Items, NEW c \in Confs, UpdateSensor(h, j, c)
       PROVE  Agrees(i)' /\ (Greeting' \/ Syncing' => reg' = {})
  <2>1. /\ req'[h] = [pc |-> "updated", item |-> j, conf |-> c]
        /\ \A m \in Items \ {j} : table'[m] = table[m]
    BY <1>0, <1>10 DEF UpdateSensor, Goto, TypeOK
  <2> QED BY <1>6, <1>7, <2>1
<1>11. ASSUME NEW j \in Items, NEW c \in Confs, CheckTopic(h, j, c)
       PROVE  table' = table /\ req'[h].pc # "sync"
  BY <1>0, <1>11 DEF CheckTopic, Goto, TypeOK
<1>12. CASE UpdateTopic(h)
  <2>1. req[h].item \in Items
    BY <1>0, <1>12, RequestKinds DEF UpdateTopic
  <2>2. /\ req'[h].pc = "updated" /\ req'[h].item = req[h].item
        /\ \A m \in Items \ {req[h].item} : table'[m] = table[m]
    BY <1>0, <1>12, <2>1 DEF UpdateTopic, TypeOK, Request
  <2> QED BY <1>6, <1>7, <2>2
<1>13. CASE Remove(h)
  <2>1. req[h].item \in Items
    BY <1>0, <1>13, RequestKinds DEF Remove
  <2>2. /\ req'[h].pc = "removed" /\ req'[h].item = req[h].item
        /\ \A m \in Items \ {req[h].item} : table'[m] = table[m]
    BY <1>0, <1>13, <2>1 DEF Remove, TypeOK, Request
  <2> QED BY <1>6, <1>7, <2>2
<1> QED BY <1>0, <1>6, <1>8, <1>9, <1>10, <1>11, <1>12, <1>13, RowsChange, CarefulRowsMeans

LEMMA AgreementNotify ==
  ASSUME BaseInv, OneAtATime, Agreement, link # None,
         NEW h \in Requests, NotifyStep(h), NEW i \in Items
  PROVE  Agrees(i)' /\ (Greeting' \/ Syncing' => reg' = {})
<1>0. TypeOK
  BY DEF BaseInv
<1>1. /\ UNCHANGED <<table, store, conn, network, agent>>
      /\ req' = [req EXCEPT ![h] = Idle]
  BY <1>0, NotifyChange
<1>2. PICK ev \in Event :
        /\ Pending' \subseteq Pending \cup {ev}
        /\ IsStored(link) => ev \in Reaching'
        /\ \/ req[h].pc = "created" /\ ev = Add(req[h].item, req[h].conf)
           \/ req[h].pc = "updated" /\ ev = Edit(req[h].item, req[h].conf)
           \/ req[h].pc = "removed" /\ ev = Drop(req[h].item)
  BY <1>0, NotifyChange
<1>3. /\ up = <<>> /\ \A g \in Requests \ {h} : req[g] = Idle
      /\ ~Ungreeted /\ Pending = {} /\ Reaching = {} /\ ~Greeting
  <2>1. req[h] # Idle
    BY <1>2 DEF Idle
  <2> QED BY <2>1, BusyMeans
<1>4. ev \in Reaching' /\ ev # HealthCheck
  BY <1>2, <1>3, LinkStoredOrUngreeted, EventsDiffer
<1>5. ~Greeting' /\ ~Syncing'
  <2>1. HealthCheck \notin Reaching'
    <3>1. (Reaching \subseteq Pending)'
      BY DEF Reaching, Pending
    <3> QED BY <1>2, <1>3, <1>4, <3>1
  <2>2. \A g \in Requests : req'[g].pc = "idle"
    BY <1>0, <1>1, <1>3 DEF Idle, TypeOK
  <2> QED BY <1>1, <1>3, <2>1, <2>2 DEF Greeting, Ungreeted, Syncing, network
<1>6. EntriesOf(i)' = EntriesOf(i) /\ Right(i)' = Right(i)
  BY <1>1 DEF EntriesOf, Right, Live, agent
<1>7. CASE EntriesOf(i) = Right(i)
  BY <1>5, <1>6, <1>7 DEF Agrees
<1>8. CASE Corrects(i)
  <2>1. PICK g \in Requests :
          \/ req[g].pc \in {"updated", "removed"} /\ req[g].item = i
          \/ req[g].pc = "created" /\ req[g].item = i /\ EntriesOf(i) \subseteq Right(i)
    <3>1. ~Syncing
      BY <1>2, <1>3 DEF Syncing, Idle
    <3> QED BY <1>3, <1>8, <3>1 DEF Corrects
  <2>2. g = h
    BY <1>3, <2>1 DEF Idle
  <2>3. /\ ev.item = i
        /\ \/ ev.type \in {"EditSensor", "RemoveSensor"}
           \/ ev.type = "AddSensor" /\ EntriesOf(i) \subseteq Right(i)
    BY <1>2, <2>1, <2>2 DEF Add, Edit, Drop
  <2> QED BY <1>4, <1>5, <1>6, <2>3 DEF Agrees, Corrects
<1> QED BY <1>7, <1>8 DEF Agreement

LEMMA AgreementSync ==
  ASSUME BaseInv, OneAtATime, Current, Agreement, Permanent # {}, link # None,
         NEW h \in Requests, Sync(h), NEW i \in Items
  PROVE  Agrees(i)' /\ (Greeting' \/ Syncing' => reg' = {})
<1>0. TypeOK
  BY DEF BaseInv
<1>1. /\ UNCHANGED <<table, store, conn, network, agent>>
      /\ req' = [req EXCEPT ![h] = Idle] /\ req[h].pc = "sync"
  BY DEF Sync, Goto
<1>2. reg' = {}
  BY <1>1 DEF Agreement, Syncing, agent
<1>3. EntriesOf(i)' = {} /\ Right(i)' = Right(i) /\ (Live(i)' <=> Live(i))
  BY <1>1, <1>2 DEF EntriesOf, Right, Live
<1>4. CASE ~Live(i)
  BY <1>2, <1>3, <1>4 DEF Agrees, Right
<1>5. CASE Live(i)
  <2>1. req[h].rows = Rows
    BY <1>1 DEF Current
  <2>2. ~Ungreeted
    BY <1>1, BusyMeans DEF Idle
  <2>3. ~IsSynced(req[h])
    <3>1. \E p \in Sensors : Rows[p] # None
      BY <1>0, RowsAt, RegistryAssumption DEF BaseInv, PermanentStays, Items
    <3> QED BY <2>1, <3>1 DEF IsSynced
  <2>4. Add(i, Rows[i]) \in Reaching'
    BY <1>0, <1>5, <2>1, <2>2, <2>3, SyncDelivers, RowsAt, LinkStoredOrUngreeted
    DEF BaseInv
  <2>5. Add(i, Rows[i]).type = "AddSensor" /\ Add(i, Rows[i]).item = i
    BY DEF Add
  <2> QED BY <1>2, <1>3, <2>4, <2>5 DEF Agrees, Corrects
<1> QED BY <1>4, <1>5

LEMMA AgreementReport ==
  ASSUME BaseInv, OneAtATime, Agreement, link # None,
         NEW h \in Requests, Report(h), NEW i \in Items
  PROVE  Agrees(i)' /\ (Greeting' \/ Syncing' => reg' = {})
<1>1. up # <<>> /\ UNCHANGED <<table, gateway, link, agent>>
  BY DEF Report
<1>2. reg' = {}
  BY <1>1 DEF Agreement, Greeting, agent
<1>3. EntriesOf(i)' = {} /\ Right(i)' = Right(i) /\ (Live(i)' <=> Live(i))
  BY <1>1, <1>2 DEF EntriesOf, Right, Live
<1>4. Syncing'
  <2>1. Head(up).sock = link
    <3>1. 1 \in DOMAIN up /\ Head(up) = up[1]
      BY <1>1 DEF BaseInv, TypeOK
    <3> QED BY <3>1 DEF BaseInv, LinkKnown
  <2>2. ~Ungreeted
    BY <1>1 DEF OneAtATime
  <2>3. \E n \in DOMAIN store : store[n] = Head(up).sock
    BY <2>1, <2>2, LinkStoredOrUngreeted DEF IsStored, Range
  <2>4. req'[h].pc = "sync"
    BY <2>3 DEF Report, Goto, BaseInv, TypeOK
  <2> QED BY <2>4 DEF Syncing
<1>5. CASE ~Live(i)
  BY <1>2, <1>3, <1>5 DEF Agrees, Right
<1>6. CASE Live(i)
  BY <1>2, <1>3, <1>4, <1>6 DEF Agrees, Corrects
<1> QED BY <1>5, <1>6

LEMMA AgreementHandle ==
  ASSUME BaseInv, OneAtATime, Current, Agreement, link # None, Handle, NEW i \in Items
  PROVE  Agrees(i)' /\ (Greeting' \/ Syncing' => reg' = {})
<1> DEFINE e == Head(chan)
<1>0. TypeOK
  BY DEF BaseInv
<1>1. /\ e \in Event /\ e \in Reaching /\ e \in Pending /\ Pending' \subseteq Pending
      /\ Reaching \subseteq Reaching' \cup {e}
  BY <1>0, HandleDelivers
<1>2. chan # <<>> /\ UNCHANGED <<table, req, conn, link>>
  BY DEF Handle, server, gateway
<1>3. AllIdle /\ up = <<>> /\ ~Ungreeted
  BY <1>0, <1>2, SentMeans
<1>4. ~Syncing /\ ~Syncing' /\ ~Ungreeted'
  BY <1>2, <1>3 DEF Syncing, AllIdle, Idle, Ungreeted
<1>5. Right(i)' = Right(i) /\ (Live(i)' <=> Live(i))
  BY <1>2 DEF Right, Live
<1>6. CASE e.type = "HealthCheck"
  <2>1. e = HealthCheck /\ up' = Append(up, [sock |-> link, empty |-> reg = {}])
    BY <1>1, <1>6, EventKinds DEF Handle
  <2>2. reg' = {}
    <3>1. reg = {} /\ reg' = reg
      BY <1>1, <1>6, <2>1 DEF Agreement, Greeting, Handle
    <3> QED BY <3>1
  <2>3. Greeting'
    BY <1>3, <2>1 DEF Greeting
  <2>4. EntriesOf(i)' = {}
    BY <2>2 DEF EntriesOf
  <2> QED BY <1>5, <2>2, <2>3, <2>4 DEF Agrees, Corrects, Right
<1>7. CASE e.type \in {"AddSensor", "EditSensor", "RemoveSensor"}
  <2>1. up' = up /\ e # HealthCheck
    BY <1>7 DEF Handle, HealthCheck
  <2>2. HealthCheck \notin Pending
    <3> SUFFICES ASSUME HealthCheck \in Pending PROVE FALSE
      OBVIOUS
    <3>1. redis = <<>> /\ Len(wire) + Len(chan) = 1
      BY <1>0, <1>2, SentMeans
    <3>2. chan \in Seq(Event) /\ wire \in Seq(Event)
      BY <1>0 DEF TypeOK
    <3>3. Len(chan) \in Nat \ {0} /\ Len(wire) \in Nat
      BY <1>2, <3>2, RangeInSet
    <3>4. Len(chan) = 1 /\ Len(wire) = 0
      <4>1. \A a, b \in Nat : b # 0 /\ a + b = 1 => a = 0 /\ b = 1
        OBVIOUS
      <4> QED BY <3>1, <3>3, <4>1
    <3>5. Range(redis) = {} /\ Range(wire) = {} /\ Range(chan) = {e}
      <4>1. Tail(chan) \in Seq(Event) /\ Len(Tail(chan)) = 0
            /\ Range(chan) = {e} \cup Range(Tail(chan))
        BY <1>2, <3>2, <3>4, RangeTail
      <4>2. Range(Tail(chan)) = {} /\ wire = <<>>
        BY <3>2, <3>4, <4>1, RangeInSet
      <4> QED BY <3>1, <4>1, <4>2, RangeEmpty
    <3>6. Pending = {e}
      BY <3>5 DEF Pending, Waiting
    <3> QED BY <2>1, <3>6
  <2>3. ~Greeting'
    <3>1. (Reaching \subseteq Pending)'
      BY DEF Reaching, Pending
    <3> QED BY <1>1, <1>3, <1>4, <2>1, <2>2, <3>1 DEF Greeting
  <2>4. ~Greeting
    BY <1>3, <2>2, ReachingIsPending DEF Greeting
  <2>5. CASE e.item # i
    <3>1. EntriesOf(i)' = EntriesOf(i)
      BY <1>7, <2>5 DEF Handle, EntriesOf, AddSensor, EditSensor, RemoveSensor
    <3>2. CASE EntriesOf(i) = Right(i)
      BY <1>4, <1>5, <2>3, <3>1, <3>2 DEF Agrees
    <3>3. CASE Corrects(i)
      <4>1. PICK f \in Reaching :
              \/ f.type \in {"EditSensor", "RemoveSensor"} /\ f.item = i
              \/ f.type = "AddSensor" /\ f.item = i /\ EntriesOf(i) \subseteq Right(i)
        BY <1>3, <1>4, <2>4, <3>3 DEF Corrects, AllIdle, Idle
      <4>2. f \in Reaching'
        BY <1>1, <2>5, <4>1
      <4> QED BY <1>4, <1>5, <2>3, <3>1, <4>1, <4>2 DEF Agrees, Corrects
    <3> QED BY <3>2, <3>3 DEF Agreement
  <2>6. CASE e.item = i /\ e.type = "AddSensor"
    <3>1. e.conf = table[i].conf /\ Live(i)
      BY <1>1, <2>6 DEF Current
    <3>2. EntriesOf(i)' = EntriesOf(i) \cup Right(i)
      BY <2>6, <3>1 DEF Handle, EntriesOf, AddSensor, Right
    <3>3. CASE EntriesOf(i) \subseteq Right(i)
      BY <1>4, <1>5, <2>3, <3>2, <3>3 DEF Agrees
    <3>4. CASE ~(EntriesOf(i) \subseteq Right(i))
      <4>1. PICK f \in Reaching : f.type \in {"EditSensor", "RemoveSensor"} /\ f.item = i
        BY <1>3, <1>4, <2>4, <3>4 DEF Agreement, Corrects, AllIdle, Idle
      <4>2. f \in Reaching'
        BY <1>1, <2>6, <4>1
      <4> QED BY <1>4, <2>3, <4>1, <4>2 DEF Agrees, Corrects
    <3> QED BY <3>3, <3>4
  <2>7. CASE e.item = i /\ e.type = "EditSensor"
    <3>1. e.conf = table[i].conf /\ Live(i)
      BY <1>1, <2>7 DEF Current
    <3>2. EntriesOf(i)' = Right(i)
      BY <2>7, <3>1 DEF Handle, EntriesOf, EditSensor, RemoveSensor, Right
    <3> QED BY <1>4, <1>5, <2>3, <3>2 DEF Agrees
  <2>8. CASE e.item = i /\ e.type = "RemoveSensor"
    <3>1. ~Live(i)
      BY <1>1, <2>8 DEF Current
    <3>2. EntriesOf(i)' = Right(i)
      BY <2>8, <3>1 DEF Handle, EntriesOf, RemoveSensor, Right
    <3> QED BY <1>4, <1>5, <2>3, <3>2 DEF Agrees
  <2> QED BY <1>7, <2>5, <2>6, <2>7, <2>8
<1> QED BY <1>6, <1>7 DEF Handle

LEMMA AgreementStep ==
  ASSUME BaseInv, OneAtATime, Current, Agreement, Permanent # {}, [CarefulNext]_vars
  PROVE  Agreement'
<1>0. TypeOK
  BY DEF BaseInv
<1> SUFFICES ASSUME link' # None, NEW i \in Items
             PROVE  Agrees(i)' /\ (Greeting' \/ Syncing' => reg' = {})
  <2>1. Items # {}
    BY RegistryAssumption DEF Items
  <2> QED BY <2>1 DEF Agreement, Agrees
<1>1. ASSUME NEW h \in Requests, CarefulRows(h)
      PROVE  Agrees(i)' /\ (Greeting' \/ Syncing' => reg' = {})
  <2>1. link # None
    BY <1>0, <1>1, RowsChange, CarefulRowsMeans DEF network
  <2> QED BY <1>1, <2>1, AgreementRows
<1>2. ASSUME NEW h \in Requests, NotifyStep(h)
      PROVE  Agrees(i)' /\ (Greeting' \/ Syncing' => reg' = {})
  BY <1>0, <1>2, AgreementNotify, NotifyChange DEF network
<1>3. ASSUME NEW h \in Requests, Sync(h)
      PROVE  Agrees(i)' /\ (Greeting' \/ Syncing' => reg' = {})
  BY <1>3, AgreementSync DEF Sync, network
<1>4. ASSUME NEW h \in Requests, Report(h)
      PROVE  Agrees(i)' /\ (Greeting' \/ Syncing' => reg' = {})
  BY <1>4, AgreementReport DEF Report
<1>5. CASE Reply
  <2>1. redis # <<>> /\ UNCHANGED <<table, req, conn, link, up, reg>> /\ link # None
    BY <1>5 DEF Reply, server, agent
  <2>2. ~Ungreeted /\ up = <<>> /\ HealthCheck \notin Pending
    BY <1>0, <2>1, SentMeans
  <2>3. Pending' \subseteq Pending /\ Reaching \subseteq Reaching'
    BY <1>0, <1>5, <2>1, <2>2, ReplyDelivers, LinkStoredOrUngreeted
  <2>4. ~Greeting /\ ~Greeting'
    <3>1. (Reaching \subseteq Pending)'
      BY DEF Reaching, Pending
    <3> QED BY <2>1, <2>2, <2>3, <3>1, ReachingIsPending DEF Greeting, Ungreeted
  <2> QED BY <2>1, <2>3, <2>4, AgreementKept
<1>6. CASE Receive
  <2>1. UNCHANGED <<table, req, conn, link, up, reg>> /\ Reaching' = Reaching
    BY <1>0, <1>6, ReceiveDelivers DEF Receive, server, gateway
  <2>2. Greeting' <=> Greeting
    BY <2>1 DEF Greeting, Ungreeted
  <2> QED BY <2>1, <2>2, AgreementKept
<1>7. CASE Handle
  BY <1>7, AgreementHandle DEF Handle
<1>8. ASSUME NEW k \in Sockets, Stored(k) \/ Disconnected(k)
      PROVE  Agrees(i)' /\ (Greeting' \/ Syncing' => reg' = {})
  <2>1. UNCHANGED <<table, req, link, up, reg>> /\ Reaching' = Reaching
    BY <1>8, NothingDelivers DEF Stored, Disconnected, server, network, agent
  <2>2. Ungreeted' <=> Ungreeted
    BY <1>0, <1>8, <2>1 DEF Stored, Disconnected, Ungreeted, TypeOK
  <2>3. Greeting' <=> Greeting
    BY <2>1, <2>2 DEF Greeting
  <2> QED BY <2>1, <2>3, AgreementKept
<1>9. ASSUME NEW k \in Sockets, Greet(k)
      PROVE  Agrees(i)' /\ (Greeting' \/ Syncing' => reg' = {})
  <2>1. UNCHANGED <<table, req, link, up, reg>> /\ Reaching \subseteq Reaching'
    BY <1>0, <1>9, GreetDelivers DEF Greet, server, agent
  <2>2. CASE k = link
    <3>1. Greeting /\ Greeting'
      BY <1>0, <1>9, <2>1, <2>2, GreetDelivers DEF Greet, Greeting, Ungreeted
    <3> QED BY <2>1, <3>1, AgreementKept
  <2>3. CASE k # link
    <3>1. wire' = wire /\ chan' = chan /\ redis' = redis
      BY <1>9, <2>3 DEF Greet, agent
    <3>2. Reaching' = Reaching
      BY <2>1, <3>1, NothingDelivers
    <3>3. Greeting' <=> Greeting
      BY <1>0, <1>9, <2>1, <2>3, <3>2 DEF Greet, Greeting, Ungreeted, TypeOK
    <3> QED BY <2>1, <3>3, AgreementKept
  <2> QED BY <2>2, <2>3
<1>10. ASSUME NEW k \in Sockets, reg = {}, Connect(k)
       PROVE  Agrees(i)' /\ (Greeting' \/ Syncing' => reg' = {})
  <2>1. reg' = {} /\ UNCHANGED table
    BY <1>10 DEF Connect, server, agent
  <2>2. Greeting'
    BY <1>0, <1>10 DEF Connect, Greeting, Ungreeted, TypeOK
  <2>3. EntriesOf(i)' = {}
    BY <2>1 DEF EntriesOf
  <2> QED BY <2>1, <2>2, <2>3 DEF Agrees, Corrects, Right
<1>11. CASE Still /\ LockAgent
  <2>1. UNCHANGED <<table, req, conn, link, up, reg>> /\ Reaching' = Reaching
    BY <1>0, <1>11, LockDelivers DEF LockAgent, server, network, agent
  <2>2. Greeting' <=> Greeting
    BY <2>1 DEF Greeting, Ungreeted
  <2> QED BY <2>1, <2>2, AgreementKept
<1>12. CASE UNCHANGED vars \/ \E k \in Others : OtherLeaves(k)
  <2>1. UNCHANGED <<table, req, conn, link, up, reg>> /\ Reaching' = Reaching
    BY <1>12, NothingDelivers DEF vars, OtherLeaves, server, gateway, network, agent
  <2>2. Greeting' <=> Greeting
    BY <2>1 DEF Greeting, Ungreeted
  <2> QED BY <2>1, <2>2, AgreementKept
<1>13. ~(LoseLink \/ MonitorFails)
  BY LossDelivers DEF MonitorFails, network
<1> QED BY <1>1, <1>2, <1>3, <1>4, <1>5, <1>6, <1>7, <1>8, <1>9, <1>10, <1>11, <1>12,
           <1>13, CarefulKinds DEF CarefulOther

LEMMA CarefulInvariant == CarefulSpec => []CarefulInv
<1>1. Init => CarefulInv
  BY BaseInit, OneInit, CurrentInit, AgreementInit DEF CarefulInv
<1>2. CarefulInv /\ [CarefulNext]_vars => CarefulInv'
  BY BaseStep, OneStep, CurrentStep, AgreementStep, CarefulSteps DEF CarefulInv, BaseInv
<1> QED BY <1>1, <1>2, PTL DEF CarefulSpec

\* With a careful operator, and losses of the connection that the agent
\* notices, the agent reads exactly what is live, as it was saved last.
THEOREM AgentReadsTheTables == CarefulSpec => []AgentAgrees
<1>1. ASSUME CarefulInv PROVE AgentAgrees
  <2> SUFFICES ASSUME Quiet, Permanent # {}
               PROVE  reg = {[item |-> i, conf |-> table[i].conf] :
                               i \in {j \in Items : Live(j)}}
    BY DEF AgentAgrees
  <2>1. Reaching = {} /\ ~Greeting /\ \A h \in Requests : req[h].pc = "idle"
    BY <1>1, NothingComes DEF CarefulInv, AllIdle, Idle
  <2>2. \A i \in Items : EntriesOf(i) = Right(i)
    BY <1>1, <2>1, NothingCorrects DEF CarefulInv, Agreement, Quiet
  <2>3. \A e \in reg : e.item \in Items /\ e \in EntriesOf(e.item)
    BY <1>1 DEF CarefulInv, BaseInv, TypeOK, Entry, EntriesOf
  <2>4. \A i \in Items : \A e : e \in Right(i) <=>
          Live(i) /\ e = [item |-> i, conf |-> table[i].conf]
    BY DEF Right
  <2>5. \A i \in Items : EntriesOf(i) \subseteq reg
    BY DEF EntriesOf
  <2> QED BY <2>2, <2>3, <2>4, <2>5
<1> QED BY <1>1, CarefulInvariant, PTL

=============================================================================
