------------------------- MODULE MCSensorRegistry -------------------------
(* One agent with one or two items, and the socket of another agent. *)
EXTENDS SensorRegistry, TLC

CONSTANTS i1, i2, t1, c1, c2, r1, r2, k1, k2, o1

Symmetry == Permutations(Requests)
=============================================================================
