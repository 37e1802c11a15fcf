----------------------------- MODULE LiveChart -----------------------------
(***************************************************************************)
(* The chart of the dashboard (RealTimeChart of graph.tsx) with the log of *)
(* samples that its historical mode asks for (logger.service.ts).  The     *)
(* time that an agent writes has its two-digit year first, which is no     *)
(* date: the server logs a sample at the time of its own clock, the chart  *)
(* draws it at the time of its arrival.  A second has any whole number of  *)
(* units of time (1000, for milliseconds); the clocks of the two are one.  *)
(***************************************************************************)
EXTENDS Integers, SequencesExt

CONSTANTS
  Keys,       \* the names of the sensors
  Readings,   \* their values
  Gap,        \* a key that a point does not have, an answer not read yet
  MaxPoints,  \* MAX_POINTS
  Second,     \* units of time in a second
  MaxClock,   \* bound: the time
  MaxSamples, \* bound: samples
  MaxAir      \* bound: samples on their way to the client

ASSUME LiveChartAssumption ==
  /\ MaxPoints \in Nat \ {0} /\ MaxClock \in Nat /\ MaxSamples \in Nat
  /\ Second \in Nat \ {0} /\ Readings \subseteq Int /\ Gap \notin Readings

VARIABLES
  clock,
  taken,            \* samples taken so far
  buffered,         \* records of key, time and value that the Influx client has
                    \* yet to write
  log,              \* such records in the bucket
  air,              \* samples (key, value) on their way to the client
  points,           \* data: records of a time x and a value or Gap of each
                    \* key, in the order of drawing
  sensorKeys,
  isPaused, isHistoricalMode,
  asked,            \* the query ['logs', ...] and what waits for its answer
  got,              \* history: the samples handled since the chart went live
  lastGot,          \* history: of those, the last one of each key
  history           \* history: the log as the historical mode has read it

logged    == <<clock, taken, buffered, log>>
data      == <<points, sensorKeys, got, lastGot, history>>
controls  == <<isPaused, isHistoricalMode>>
chartVars == <<logged, air, data, controls, asked>>

\* Nothing waits, or the continuations of the effect of each mode do.
Waiting(A) == A.modes # {}
NotAsked   == [modes |-> {}, from |-> 0, read |-> Gap]
Ask(A, mode, from) == [modes |-> A.modes \cup {mode}, from |-> from, read |-> Gap]

\* The chart asks for the log of half an hour when it is mounted, and drops it.
ChartInit ==
  /\ clock = 0 /\ taken = 0 /\ buffered = {} /\ log = {} /\ air = <<>>
  /\ points = <<>> /\ sensorKeys = {} /\ isPaused = FALSE
  /\ isHistoricalMode = FALSE
  /\ asked = Ask(NotAsked, "live", 0)
  /\ got = {} /\ lastGot = [k \in Keys |-> Gap] /\ history = {}

-----------------------------------------------------------------------------
(* The server. *)

Tick ==
  /\ clock < MaxClock /\ clock' = clock + 1
  /\ UNCHANGED <<taken, buffered, log, air, data, controls, asked>>

\* Every sample is logged and sent to the clients.
recordLogs(k, v) ==
  /\ taken < MaxSamples /\ taken' = taken + 1 /\ Len(air) < MaxAir
  /\ buffered' = buffered \cup {[key |-> k, time |-> clock, value |-> v]}
  /\ air' = Append(air, [key |-> k, value |-> v])
  /\ UNCHANGED <<clock, log, data, controls, asked>>

\* Each point has a write API, and so a buffer, of its own; a point with the
\* time of another of its sensor takes its place.
Flushed(b) ==
  /\ b \in buffered /\ buffered' = buffered \ {b}
  /\ log' = {b} \cup {r \in log : r.key # b.key \/ r.time # b.time}
  /\ UNCHANGED <<clock, taken, air, data, controls, asked>>

getLogs(k, from) == {r \in log : r.key = k /\ r.time >= from}

\* The rows of each sensor in turn, by time.
findAll ==
  /\ Waiting(asked) /\ asked.read = Gap
  /\ \E rs \in SetToSeqs(UNION {getLogs(k, asked.from) : k \in Keys}) :
       /\ \A i, j \in DOMAIN rs : i < j /\ rs[i].key = rs[j].key =>
            rs[i].time < rs[j].time /\ \A m \in i..j : rs[m].key = rs[i].key
       /\ asked' = [asked EXCEPT !.read = rs]
  /\ UNCHANGED <<logged, air, data, controls>>

-----------------------------------------------------------------------------
(* The data of the chart. *)

Near(a, b, d) == a - b < d /\ b - a < d

\* What comes live is drawn two seconds from its time at most, the log one.
Lenient == 2 * Second

\* A value goes into the first point that is near, or into a point of its own.
\* Bug: the other values of the point are lost.
PutAlone(ps, k, t, v, d) ==
  LET near == {i \in DOMAIN ps : Near(ps[i].x, t, d)}
      own  == [x |-> t, of |-> [j \in Keys |-> IF j = k THEN v ELSE Gap]]
  IN IF near = {} THEN Append(ps, own) ELSE [ps EXCEPT ![Min(near)] = own]
Put(ps, k, t, v, d) ==
  LET near == {i \in DOMAIN ps : Near(ps[i].x, t, d)}
  IN IF near = {}
     THEN Append(ps, [x |-> t, of |-> [j \in Keys |-> IF j = k THEN v ELSE Gap]])
     ELSE [ps EXCEPT ![Min(near)].of[k] = v]

\* slice(-MAX_POINTS)
Kept(ps) ==
  IF Len(ps) > MaxPoints THEN SubSeq(ps, Len(ps) - MaxPoints + 1, Len(ps)) ELSE ps

handler ==
  /\ air # <<>> /\ air' = Tail(air)
  /\ LET s == Head(air) IN
       IF isHistoricalMode \/ isPaused THEN UNCHANGED data
       ELSE /\ points' = Kept(Put(points, s.key, clock, s.value, Lenient))
            /\ sensorKeys' = sensorKeys \cup {s.key}
            /\ lastGot' = [lastGot EXCEPT ![s.key] = [time |-> clock, value |-> s.value]]
            /\ got' = got \cup {[key |-> s.key, time |-> clock, value |-> s.value]}
            /\ UNCHANGED history
  /\ UNCHANGED <<logged, controls, asked>>

\* The rows of the answer, one after another.
Merged(rs) ==
  LET upto[n \in 0..Len(rs)] ==
        IF n = 0 THEN <<>>
        ELSE Put(upto[n - 1], rs[n].key, rs[n].time, rs[n].value, Second)
  IN upto[Len(rs)]

\* No two points have the same time.
InOrder(ps) ==
  CHOOSE qs \in [DOMAIN ps -> ToSet(ps)] :
    /\ ToSet(qs) = ToSet(ps)
    /\ \A i, j \in DOMAIN ps : i < j => qs[i].x < qs[j].x

\* Bug: the points stay in the order of the answer.
HistoryOfUnsorted(rs) == Merged(rs)
HistoryOf(rs) == InOrder(Merged(rs))

\* An effect that was started in historical mode sets the data when the answer
\* comes, whatever the mode is by then; one of the live mode drops the answer.
LogsArrived ==
  /\ Waiting(asked) /\ asked.read # Gap /\ asked' = NotAsked
  /\ IF "history" \in asked.modes
     THEN /\ points' = HistoryOf(asked.read)
          /\ sensorKeys' = {r.key : r \in ToSet(asked.read)}
          /\ history' = ToSet(asked.read)
          /\ UNCHANGED <<got, lastGot>>
     ELSE UNCHANGED data
  /\ UNCHANGED <<logged, air, controls>>

\* After two more tries.
LogsFail ==
  /\ Waiting(asked) /\ asked' = NotAsked
  /\ UNCHANGED <<logged, air, data, controls>>

-----------------------------------------------------------------------------
(* The operator. *)

\* The range that is chosen counts back from now, wherever it ends.  The button
\* is disabled while the query fetches; in historical mode it changes nothing.
handleApplyTimeRange(from) ==
  /\ ~Waiting(asked) /\ ~isHistoricalMode
  /\ isHistoricalMode' = TRUE /\ isPaused' = TRUE
  /\ asked' = Ask(asked, "history", from)
  /\ UNCHANGED <<logged, air, data>>

\* Bug: the points of the historical mode stay.
BackWithHistory ==
  /\ isHistoricalMode /\ isHistoricalMode' = FALSE /\ isPaused' = FALSE
  /\ asked' = Ask(asked, "live", 0)
  /\ got' = {} /\ lastGot' = [k \in Keys |-> Gap] /\ history' = {}
  /\ UNCHANGED <<logged, air, points, sensorKeys>>
handleBackToRealTime ==
  /\ isHistoricalMode /\ isHistoricalMode' = FALSE /\ isPaused' = FALSE
  /\ points' = <<>> /\ sensorKeys' = {}
  /\ asked' = Ask(asked, "live", 0)
  /\ got' = {} /\ lastGot' = [k \in Keys |-> Gap] /\ history' = {}
  /\ UNCHANGED <<logged, air>>

togglePause ==
  /\ ~isHistoricalMode /\ isPaused' = ~isPaused
  /\ asked' = IF isPaused THEN Ask(asked, "live", 0) ELSE asked
  /\ UNCHANGED <<logged, air, data, isHistoricalMode>>

-----------------------------------------------------------------------------
(* What the chart shows.  Its type and the sensors that are selected (all   *)
(* that it has, single ones, or none) are choices of the operator that      *)
(* change nothing else; going back to real time keeps them.                 *)

ModeShown ==
  IF isHistoricalMode THEN "Historical Mode" ELSE IF isPaused THEN "Paused" ELSE "Live"

\* The sensors that are drawn, and named in the legend.
Series(selectedSensors) == IF selectedSensors = {} THEN sensorKeys ELSE selectedSensors

\* The places of the points that are drawn.
HasValue(p, S) == \E k \in S : p.of[k] # Gap
cleanData == {i \in DOMAIN points : HasValue(points[i], sensorKeys)}

\* A line goes on over points without a value of its sensor.
Curve(k) == {i \in cleanData : points[i].of[k] # Gap}

\* The line, area, scatter and composed chart draw the same curves.
Curves(S) == [k \in Series(S) |-> Curve(k)]

\* The last point only; a sensor that it lacks counts as 0.
PieShows(S) ==
  [k \in Series(S) |->
     IF cleanData = {} THEN 0
     ELSE LET v == points[Max(cleanData)].of[k] IN IF v = Gap THEN 0 ELSE v]

\* A cell between the least and the greatest value, or a grey one.
HeatmapShows(S) ==
  LET vs == {points[i].of[k] : i \in cleanData, k \in Series(S)} \ {Gap}
  IN [k \in Series(S) |-> [i \in cleanData |->
        LET v == points[i].of[k]
        IN IF v = Gap THEN Gap
           ELSE [above |-> v - Min(vs), below |-> Max(vs) - v]]]

\* The file has a row for every point, with a cell for each sensor drawn.
exportToCSV(S) ==
  [i \in DOMAIN points |-> [x |-> points[i].x, cells |-> [k \in Series(S) |-> points[i].of[k]]]]

-----------------------------------------------------------------------------
ChartServer ==
  \/ Tick \/ findAll
  \/ \E k \in Keys, v \in Readings : recordLogs(k, v)
  \/ \E b \in buffered : Flushed(b)

ChartClient == handler \/ LogsArrived \/ LogsFail

ChartUser ==
  \/ handleBackToRealTime \/ togglePause
  \/ \E from \in 0..MaxClock : from <= clock /\ handleApplyTimeRange(from)

ChartNext == ChartServer \/ ChartClient \/ ChartUser

\* A patient operator waits for the log before going back to real time: an
\* answer that comes later takes the place of what was drawn since.
Patient == isHistoricalMode /\ ~isHistoricalMode' => ~Waiting(asked)

PatientChartNext == ChartServer \/ ChartClient \/ (ChartUser /\ Patient)

-----------------------------------------------------------------------------
Came(k, x, v) == \E g \in got : g.key = k /\ g.value = v /\ Near(g.time, x, Lenient)

\* While the chart says that it is live or paused, every value that any type of
\* chart draws or the file holds is one that has come since it went live, at
\* most two seconds from its point: nothing of the log that was shown before
\* (handleBackToRealTime, the two effects), and at most MAX_POINTS of them.
LiveShowsWhatCame ==
  ModeShown # "Historical Mode" =>
    /\ Len(points) <= MaxPoints
    /\ \A S \in SUBSET Keys : \A k \in Series(S) :
         /\ \A i \in Curves(S)[k] : Came(k, points[i].x, points[i].of[k])
         /\ \A i \in DOMAIN exportToCSV(S) :
              LET row == exportToCSV(S)[i]
              IN row.cells[k] # Gap => Came(k, row.x, row.cells[k])
         /\ PieShows(S)[k] # 0 => Came(k, Last(points).x, PieShows(S)[k])

\* The last value of each sensor that has come while the chart was live is
\* drawn, until MAX_POINTS later points have pushed it out: later samples of
\* the other sensors, which share its point, and pauses do not lose it.
LastValueIsDrawn ==
  ModeShown # "Historical Mode" =>
    \A k \in Keys : lastGot[k] # Gap =>
      \/ \E p \in ToSet(points) :
           p.of[k] = lastGot[k].value /\ Near(p.x, lastGot[k].time, Lenient)
      \/ Len(points) = MaxPoints /\ \A p \in ToSet(points) : p.x > lastGot[k].time

\* In historical mode, once the log has come, the chart is a picture of it: its
\* points are in order, each value is logged less than a second from its point,
\* and each sensor has a value wherever it was logged.
HistoryIsTheLog ==
  (isHistoricalMode /\ history # {}) =>
    /\ \A i, j \in DOMAIN points : i < j => points[i].x < points[j].x
    /\ \A p \in ToSet(points), k \in Keys : p.of[k] # Gap =>
         \E r \in history : r.key = k /\ r.value = p.of[k] /\ Near(r.time, p.x, Second)
    /\ \A r \in history : \E p \in ToSet(points) :
         p.of[r.key] # Gap /\ Near(r.time, p.x, Second)
    /\ \A k \in sensorKeys, i \in cleanData :
         LET cell == HeatmapShows({})[k][i]
         IN cell = Gap \/ (cell.above >= 0 /\ cell.below >= 0)
=============================================================================
