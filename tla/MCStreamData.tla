---------------------------- MODULE MCStreamData ----------------------------
(* One sensor, two clients, two STARTs. *)
EXTENDS StreamData
=============================================================================
