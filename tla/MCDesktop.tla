----------------------------- MODULE MCDesktop -----------------------------
EXTENDS Desktop

CONSTANTS p1, p2, s1, k1, k2

\* Neither the processes nor the keys are told apart by any definition.
Symmetry == Permutations({p1, p2}) \cup Permutations({k1, k2})

\* Bound: one at a time of another process with a flow, a lost agent that the
\* page has not asked about since, and a sample that awaits its prediction.
TwoFlows == \E p, q \in Processes : p # q /\ rows[p].flow # None /\ rows[q].flow # None
OneHazard ==
  /\ doubt # {} => ~TwoFlows
  /\ preds # {} => ~TwoFlows /\ doubt = {}
=============================================================================
