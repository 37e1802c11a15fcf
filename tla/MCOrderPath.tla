---------------------------- MODULE MCOrderPath ----------------------------
(* A control panel with an input and a button.  On the LOGO they are coils,  *)
(* an output and a marker; with PLCSIM the input is a word of a data block   *)
(* and the button, a marker, has a register that the agent cannot take.      *)
EXTENDS OrderPath, TLC

CONSTANTS p1, p2, k1, k2

Addr(area, db, n, bit) == [area |-> area, db |-> db, n |-> n, bit |-> bit]

MCSettings ==
  [p \in PlcIds |-> <<IF p = "LOGO!" THEN Addr("Q", 0, 1, 0)
                                     ELSE Addr("DBW", 2, 4, 0)>>]
MCButtons ==
  [p \in PlcIds |-> {IF p = "LOGO!" THEN Addr("M", 0, 1, 0)
                                    ELSE Addr("M", 0, 0, 0)}]
=============================================================================
