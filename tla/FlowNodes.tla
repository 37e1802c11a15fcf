----------------------------- MODULE FlowNodes -----------------------------
(***************************************************************************)
(* The nodes of a flow (flow.tsx): what the palette gives them, what the   *)
(* panel lets an operator change, what a message of the running process    *)
(* sets, and what a node shows.  A level is in percent, as it is shown;    *)
(* colours, labels, positions and edges are left out.                      *)
(***************************************************************************)
EXTENDS Integers

\* A field that a node does not have.
CONSTANT Undef

Types == {"tank", "pump", "valve", "motor", "conveyor", "counter", "sensor",
          "rack"}

\* The statuses of the panel; a counter and a rack have none.
Statuses(type) ==
  CASE type = "tank" -> {"normal", "warning", "error"}
    [] type \in {"pump", "motor"} -> {"running", "stopped", "error"}
    [] type = "valve" -> {"open", "closed"}
    [] type = "conveyor" -> {"running", "stopped"}
    [] type = "sensor" -> {"active", "inactive", "error"}
    [] OTHER -> {}

\* A node's data.  sensors is the list of rules, prop the one sensor that the
\* type's own field names, if any; max is the tank's.
Node(Ids, Sensors, Values) ==
  [id : Ids, type : Types,
   status : (UNION {Statuses(t) : t \in Types}) \cup {"none"},
   value : Values \cup {0, 5, Undef}, level : 0..100 \cup {Undef}, max : Values,
   sensors : SUBSET Sensors, prop : Sensors \cup {Undef}]

\* The palette (Sidebar).
Fresh(type, id) ==
  [id |-> id, type |-> type, max |-> 0, sensors |-> {}, prop |-> Undef,
   level  |-> IF type = "tank" THEN 50 ELSE Undef,
   value  |-> CASE type = "counter" -> 5
                [] type \in {"sensor", "rack"} -> 0
                [] OTHER -> Undef,
   status |-> CASE type = "tank" -> "normal"
                [] type = "valve" -> "closed"
                [] type \in {"pump", "motor", "conveyor"} -> "stopped"
                [] type = "sensor" -> "inactive"
                [] OTHER -> "none"]

-----------------------------------------------------------------------------
(* The panel (renderPropertyFields). *)

\* The types with a field for one sensor: tank_level_sensor, valve_sensor,
\* rack_sensor, conveyor_sensor and counter_sensor.
HasProp(type) == type \in {"tank", "valve", "rack", "conveyor", "counter"}

StatusChanges(n) == {[n EXCEPT !.status = s] : s \in Statuses(n.type)}

\* Choosing a sensor replaces whatever was chosen.
PropChanges(n, Sensors) ==
  IF HasProp(n.type) THEN {[n EXCEPT !.prop = s] : s \in Sensors} ELSE {}

TankChanges(n, Values) ==
  IF n.type = "tank" THEN {[n EXCEPT !.max = v] : v \in Values} ELSE {}

SensorChanges(n, Values) ==
  IF n.type = "sensor" THEN {[n EXCEPT !.value = v] : v \in Values} ELSE {}

\* The changes the panel offers, each to one field of what it holds.
PanelChanges(n, Sensors, Values) ==
  {[n EXCEPT !.sensors = S] : S \in SUBSET Sensors}
  \cup StatusChanges(n) \cup PropChanges(n, Sensors)
  \cup TankChanges(n, Values) \cup SensorChanges(n, Values)

-----------------------------------------------------------------------------
(* Messages of the running process (handleMessage). *)

\* 0 stands for a maximum that was never set.
MaxLevel(n) == IF n.max = 0 THEN 300 ELSE n.max

\* calculateTankLevel and the rounding of the tank's text.  A sensor that has
\* no value yet gives NaN, which is shown as 0.
TankLevel(raw, min, max) ==
  IF min >= max \/ raw = Undef THEN 0
  ELSE LET percent == (200 * (raw - min) + (max - min)) \div (2 * (max - min))
       IN IF percent < 0 THEN 0 ELSE IF percent > 100 THEN 100 ELSE percent

\* Bug: a zero is taken for no value.
UpdatedTruthy(n, v) ==
  CASE v = 0 -> n
    [] n.type = "tank" -> [n EXCEPT !.level = TankLevel(v, 0, MaxLevel(n))]
    [] n.type = "valve" -> [n EXCEPT !.value = v, !.status = "open"]
    [] n.type = "conveyor" ->
         [n EXCEPT !.value = v, !.status = IF v = 1 THEN "running" ELSE "stopped"]
    [] n.type \in {"counter", "rack"} -> [n EXCEPT !.value = v]
    [] OTHER -> n
\* A node whose own sensor has the value v in the message; Undef is undefined,
\* which is not 0: a valve is shown open until its first sample.
Updated(n, v) ==
  CASE n.type = "tank" -> [n EXCEPT !.level = TankLevel(v, 0, MaxLevel(n))]
    [] n.type = "valve" ->
         [n EXCEPT !.value = v, !.status = IF v = 0 THEN "closed" ELSE "open"]
    [] n.type = "conveyor" ->
         [n EXCEPT !.value = v, !.status = IF v = 1 THEN "running" ELSE "stopped"]
    [] n.type \in {"counter", "rack"} -> [n EXCEPT !.value = v]
    [] OTHER -> n

-----------------------------------------------------------------------------
(* What a node shows. *)

OrZero(v) == IF v = Undef THEN 0 ELSE v

TankShows(n)     == [percent |-> OrZero(n.level),
                     alarm |-> n.status \in {"warning", "error"}]
PumpShows(n)     == [text |-> n.status]
ValveShows(n)    == [open |-> n.status = "open"]
MotorShows(n)    == [running |-> n.status = "running",
                     alarm |-> n.status = "error"]
ConveyorShows(n) == [running |-> n.status = "running"]
SensorShows(n)   == [number |-> OrZero(n.value), text |-> n.status]
CounterShows(n)  == [number |-> OrZero(n.value)]

Slots == 54
RackShows(n) ==
  LET v == OrZero(n.value)
  IN [filled |-> IF v < 0 THEN 0 ELSE IF v > Slots THEN Slots ELSE v]

Shows(n) ==
  CASE n.type = "tank" -> TankShows(n)
    [] n.type = "pump" -> PumpShows(n)
    [] n.type = "valve" -> ValveShows(n)
    [] n.type = "motor" -> MotorShows(n)
    [] n.type = "conveyor" -> ConveyorShows(n)
    [] n.type = "counter" -> CounterShows(n)
    [] n.type = "sensor" -> SensorShows(n)
    [] n.type = "rack" -> RackShows(n)

\* What an operator reads in a node tells the value v of its sensor: the tank
\* within half a percent between nothing and its maximum, the rack between
\* nothing and its slots.
Tells(n, v) ==
  LET s == Shows(n) IN
  CASE n.type = "tank" ->
         IF v <= 0 \/ MaxLevel(n) <= 0 THEN s.percent = 0
         ELSE IF v >= MaxLevel(n) THEN s.percent = 100
         ELSE 2 * s.percent * MaxLevel(n) \in
                (200 * v - MaxLevel(n)) .. (200 * v + MaxLevel(n))
    [] n.type = "valve" -> s.open <=> v # 0
    [] n.type = "conveyor" -> s.running <=> v = 1
    [] n.type = "counter" -> s.number = v
    [] n.type = "rack" ->
         s.filled = IF v < 0 THEN 0 ELSE IF v > Slots THEN Slots ELSE v
    [] OTHER -> TRUE
=============================================================================
