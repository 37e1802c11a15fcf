---------------------------- MODULE MCEdgeAgent ----------------------------
(* One agent with one or two sensors and a short channel. *)
EXTENDS EdgeAgent, TLC

CONSTANTS s1, s2
=============================================================================
