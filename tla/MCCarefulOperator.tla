------------------------- MODULE MCCarefulOperator -------------------------
(* Two processes on one or two agents, served by two requests at a time. *)
EXTENDS CarefulOperator, TLC

CONSTANTS p1, p2, a1, a2, r1, r2, s1, s2, s3, f1, f2, k1

Symmetry == Permutations(Processes) \cup Permutations(Requests)
              \cup Permutations(Subs)
=============================================================================
