----------------------------- MODULE AddressMap -----------------------------
(***************************************************************************)
(* Addresses of a PLC as operators write them, and the Modbus cells that   *)
(* they stand for: the parsers of the server, and what becomes of their    *)
(* result at the agent.  An address is a record [area, db, n, bit]: "Q1",  *)
(* "V3.7" and "%DB2.DBW4" have the areas "Q", "V" and "DBW", the numbers   *)
(* 1, 3 and 4; db and bit are 0 when there is none.                        *)
(***************************************************************************)
EXTENDS Integers

Address == [area : STRING, db : Nat, n : Nat, bit : Nat]

\* What an area maps to.  Its numbers go from first to last in steps; the
\* register of a.n in block 1 is base + bits * ((a.n - first) \div unit) + bit,
\* and that of the next block is higher by block.
Area(type, base, first, last, step, unit, bits, block) ==
  [type |-> type, base |-> base, first |-> first, last |-> last,
   step |-> step, unit |-> unit, bits |-> bits, block |-> block]

Single(type, base, last) == Area(type, base, 1, last, 1, 1, 1, 0)
Bits(type, base, last, block) == Area(type, base, 0, last, 1, 1, 8, block)
Bytes(type, base, block) == Area(type, base, 0, 65535, 1, 1, 1, block)
Words(type, base, last, step, block) ==
  Area(type, base, 0, last, step, 2, 1, block)

-----------------------------------------------------------------------------
\* LogoParsersService.  Bug: the marker bits begin where the outputs do.
LogoMarkersLow == Single("COIL", 8192, 64)
LogoMarkers    == Single("COIL", 8256, 64)

Logo ==
  [I  |-> Single("DISCRETE_INPUT", 0, 24),
   Q  |-> Single("COIL", 8192, 20),
   M  |-> LogoMarkers,
   V  |-> Bits("COIL", 0, 850, 0),
   AI |-> Single("INPUT_REGISTER", 0, 8),
   VW |-> Words("REG", 0, 848, 2, 0),
   AQ |-> Single("REG", 512, 8),
   AM |-> Single("REG", 528, 64)]

\* PlcsimAdvancedParsersService.  Unlike the rest of a data block, a word has
\* the same register in every block.
Plcsim ==
  [I   |-> Bits("DISCRETE_INPUT", 0, 65535, 0),
   Q   |-> Bits("COIL", 0, 65535, 0),
   M   |-> Bits("COIL", 524288, 65535, 0),
   IB  |-> Bytes("INPUT_REGISTER", 0, 0),
   IW  |-> Words("INPUT_REGISTER", 0, 65534, 2, 0),
   ID  |-> Words("INPUT_REGISTER", 0, 65532, 4, 0),
   QB  |-> Bytes("REG", 0, 0),
   QW  |-> Words("REG", 0, 65534, 2, 0),
   QD  |-> Words("REG", 0, 65532, 4, 0),
   MB  |-> Bytes("REG", 32768, 0),
   MW  |-> Words("REG", 16384, 65534, 2, 0),
   MD  |-> Words("REG", 16384, 65532, 4, 0),
   DBX |-> Bits("COIL", 10000, 65535, 1000),
   DBB |-> Bytes("REG", 40000, 1000),
   DBW |-> Words("REG", 0, 65534, 2, 0),
   DBD |-> Words("REG", 40000, 65532, 4, 1000)]

DataBlocks == {"DBX", "DBB", "DBW", "DBD"}
BlockNumbers == 1 .. 65535

\* getParser.
PlcIds  == {"LOGO!", "PLCSIM ADVANCED 5.0"}
Map(plcId) == IF plcId = "LOGO!" THEN Logo ELSE Plcsim

\* The addresses that a parser accepts.
Accepts(map, a) ==
  /\ a.area \in DOMAIN map
  /\ a.n \in map[a.area].first .. map[a.area].last
  /\ a.n % map[a.area].step = 0
  /\ a.bit \in 0 .. map[a.area].bits - 1
  /\ a.db \in IF a.area \in DataBlocks THEN BlockNumbers ELSE {0}

\* modbusAddress of an accepted address.
Register(map, a) ==
  LET r == map[a.area] IN
  r.base + r.block * (a.db - 1) + r.bits * ((a.n - r.first) \div r.unit) + a.bit

-----------------------------------------------------------------------------
(* The agent takes registers of 16 bits and drops an event with any other;  *)
(* it knows registers, and treats every other type as coils.               *)

MaxWord == 65535
Word    == 0 .. MaxWord

Fits(map, a) == Accepts(map, a) /\ Register(map, a) \in Word

Cell(map, a) ==
  <<IF map[a.area].type = "REG" THEN "register" ELSE "coil", Register(map, a)>>

\* What the parsers say can be written to.
Writable(map, a) == Accepts(map, a) /\ map[a.area].type \in {"COIL", "REG"}
=============================================================================
