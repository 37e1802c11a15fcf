------------------------------ MODULE Desktop ------------------------------
(***************************************************************************)
(* The two pages of the desktop client that draw what its socket brings:   *)
(* the dashboard with its chart, and the page of a process with its flow.  *)
(* They share the socket and no state: a page loses its state when it is   *)
(* left, and no query of the one is a query of the other.  So a desktop    *)
(* stays on one of the two, with the list of processes between two flows.  *)
(***************************************************************************)
EXTENDS LiveFlow, LiveChart

VARIABLE route

desktopVars == <<flowVars, chartVars, route>>

\* The chart while it is not mounted, and the flows that nobody opens.
NoFlows == rows = [p \in Processes |-> [flow |-> None, running |-> FALSE]]

\* Bound: if two processes have a flow from before, both have one valve and both
\* run or none.
AlikeFlows ==
  \A p, q \in Processes : p # q /\ rows[p].flow # None /\ rows[q].flow # None =>
    /\ rows[p].running = rows[q].running
    /\ \A n \in rows[p].flow : n.type = "valve"

DesktopInit ==
  /\ route \in {"/", "/processes"}
  /\ FlowInit /\ AlikeFlows /\ ChartInit
  /\ route = "/" => NoFlows

OnDashboard == route = "/" /\ UNCHANGED <<route, flowVars>>
OnProcesses == route = "/processes" /\ UNCHANGED <<route, chartVars>>

\* An operator who is attentive and patient.
DesktopNext ==
  \/ OnDashboard /\ PatientChartNext
  \/ OnProcesses /\ AttentiveFlowNext

DesktopSpec == DesktopInit /\ [][DesktopNext]_desktopVars
=============================================================================
