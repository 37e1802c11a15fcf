---------------------------- MODULE MCEditPages ----------------------------
(* Two items of a kind. *)
EXTENDS EditPages

CONSTANTS i1, i2, t1, t2, gt
=============================================================================
