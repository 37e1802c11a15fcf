--------------------------- MODULE MonitorSwitch ---------------------------
(***************************************************************************)
(* What the server promises an operator about a monitored process: a       *)
(* switch.  The operator orders it on or off; it goes off at once and on   *)
(* after a while; the status shown follows the order; and while the switch *)
(* is on, the monitoring works on the definition the process has, which    *)
(* nobody may edit.                                                        *)
(***************************************************************************)
CONSTANTS
  Processes,
  Definitions,   \* what is known of a process: its agent, its flow, ...
  None

VARIABLES
  wanted,        \* the last order: TRUE for on
  shown,         \* the status that clients are shown
  def,           \* the definition of each process
  using          \* the definition the monitoring works on, None while off

switch == <<wanted, shown, def, using>>

Off(p) == using[p] = None

Init ==
  /\ wanted = [p \in Processes |-> FALSE]
  /\ shown = [p \in Processes |-> FALSE]
  /\ def \in [Processes -> Definitions]
  /\ using = [p \in Processes |-> None]

OrderOn(p) ==
  /\ ~wanted[p] /\ ~shown[p] /\ Off(p)
  /\ wanted' = [wanted EXCEPT ![p] = TRUE]
  /\ UNCHANGED <<shown, def, using>>

SwitchOn(p) ==
  /\ wanted[p] /\ Off(p)
  /\ using' = [using EXCEPT ![p] = def[p]]
  /\ UNCHANGED <<wanted, shown, def>>

OrderOff(p) ==
  /\ wanted[p] /\ shown[p] /\ ~Off(p)
  /\ wanted' = [wanted EXCEPT ![p] = FALSE]
  /\ using' = [using EXCEPT ![p] = None]
  /\ UNCHANGED <<shown, def>>

Show(p) ==
  /\ shown[p] # wanted[p]
  /\ shown' = [shown EXCEPT ![p] = wanted[p]]
  /\ UNCHANGED <<wanted, def, using>>

Edit(p) ==
  /\ ~wanted[p] /\ ~shown[p] /\ Off(p)
  /\ \E d \in Definitions : def' = [def EXCEPT ![p] = d]
  /\ UNCHANGED <<wanted, shown, using>>

Next == \E p \in Processes :
          OrderOn(p) \/ SwitchOn(p) \/ OrderOff(p) \/ Show(p) \/ Edit(p)

\* An order is carried out and shown.
Fairness == \A p \in Processes :
              WF_switch(SwitchOn(p)) /\ WF_switch(Show(p))

Spec == Init /\ [][Next]_switch
FairSpec == Spec /\ Fairness
=============================================================================
