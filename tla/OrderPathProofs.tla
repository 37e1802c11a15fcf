--------------------------- MODULE OrderPathProofs ---------------------------
(* The tables of addresses, and orders on their way to the PLC, for every    *)
(* panel, PLC and connection.                                               *)
EXTENDS OrderPath, TLAPS, SequenceTheorems, FiniteSetTheorems

(* What the parsers' results are good for, for every address. *)

LogoAreas == {"I", "Q", "M", "V", "AI", "VW", "AQ", "AM"}

LEMMA LogoDomain == DOMAIN Logo = LogoAreas
  BY DEF Logo, LogoAreas

LEMMA WordBounds ==
  ASSUME NEW w \in Nat
  PROVE  w \in Word <=> w <= MaxWord
  <1>1. MaxWord \in Nat
    BY DEF MaxWord
  <1>. QED
    BY <1>1 DEF Word

LEMMA Bounds ==
  ASSUME NEW lo \in Int, NEW hi \in Int, NEW x \in lo .. hi
  PROVE  lo <= x /\ x <= hi
  OBVIOUS

\* The registers of the LOGO's areas, written out.
LogoShape(a) ==
  /\ a.db = 0
  /\ a.area = "I"  => /\ 1 <= a.n /\ a.n <= 24 /\ a.bit = 0
                      /\ Register(Logo, a) = a.n - 1
  /\ a.area = "Q"  => /\ 1 <= a.n /\ a.n <= 20 /\ a.bit = 0
                      /\ Register(Logo, a) = 8191 + a.n
  /\ a.area = "M"  => /\ 1 <= a.n /\ a.n <= 64 /\ a.bit = 0
                      /\ Register(Logo, a) = 8255 + a.n
  /\ a.area = "V"  => /\ a.n <= 850 /\ a.bit <= 7
                      /\ Register(Logo, a) = 8 * a.n + a.bit
  /\ a.area = "AI" => /\ 1 <= a.n /\ a.n <= 8 /\ a.bit = 0
                      /\ Register(Logo, a) = a.n - 1
  /\ a.area = "VW" => /\ a.n <= 848 /\ a.n % 2 = 0 /\ a.bit = 0
                      /\ Register(Logo, a) = a.n \div 2
  /\ a.area = "AQ" => /\ 1 <= a.n /\ a.n <= 8 /\ a.bit = 0
                      /\ Register(Logo, a) = 511 + a.n
  /\ a.area = "AM" => /\ 1 <= a.n /\ a.n <= 64 /\ a.bit = 0
                      /\ Register(Logo, a) = 527 + a.n

LEMMA LogoRegister ==
  ASSUME NEW a \in Address, Accepts(Logo, a)
  PROVE  a.area \in LogoAreas /\ LogoShape(a)
  <1> DEFINE r == Logo[a.area]
  <1>0. \A x \in Int : x \div 1 = x /\ x % 1 = 0
    OBVIOUS
  <1>1. a.area \in LogoAreas
    BY LogoDomain DEF Accepts
  <1>2. a.n \in Nat /\ a.bit \in Nat /\ a.db \in Nat
    BY DEF Address
  <1>3. a.db = 0
    <2>1. a.area \notin DataBlocks
      BY <1>1 DEF LogoAreas, DataBlocks
    <2>. QED
      BY <2>1 DEF Accepts
  <1>4. a.n \in r.first .. r.last /\ a.bit \in 0 .. r.bits - 1 /\ a.n % r.step = 0
    BY DEF Accepts
  <1>5. Register(Logo, a) =
          r.base + r.block * (0 - 1) + r.bits * ((a.n - r.first) \div r.unit) + a.bit
    BY <1>3 DEF Register
  <1>6. ASSUME r.first \in Int, r.last \in Int, r.bits \in Int
        PROVE  /\ r.first <= a.n /\ a.n <= r.last
               /\ 0 <= a.bit /\ a.bit <= r.bits - 1
    <2>1. r.first <= a.n /\ a.n <= r.last
      BY <1>4, <1>6, Bounds
    <2>2. 0 \in Int /\ r.bits - 1 \in Int
      BY <1>6
    <2>. HIDE DEF r
    <2>3. 0 <= a.bit /\ a.bit <= r.bits - 1
      BY <1>4, <2>2, Bounds
    <2>. QED
      BY <2>1, <2>3
  <1> HIDE DEF r
  <1>I. CASE a.area = "I"
    <2>1. /\ r.base = 0 /\ r.first = 1 /\ r.last = 24 /\ r.step = 1
          /\ r.unit = 1 /\ r.bits = 1 /\ r.block = 0
      BY <1>I DEF r, Logo, Single, Area
    <2>. QED
      BY <1>I, <1>0, <1>1, <1>2, <1>3, <1>4, <1>5, <1>6, <2>1 DEF LogoShape
  <1>Q. CASE a.area = "Q"
    <2>1. /\ r.base = 8192 /\ r.first = 1 /\ r.last = 20 /\ r.step = 1
          /\ r.unit = 1 /\ r.bits = 1 /\ r.block = 0
      BY <1>Q DEF r, Logo, Single, Area
    <2>. QED
      BY <1>Q, <1>0, <1>1, <1>2, <1>3, <1>4, <1>5, <1>6, <2>1 DEF LogoShape
  <1>M. CASE a.area = "M"
    <2>1. /\ r.base = 8256 /\ r.first = 1 /\ r.last = 64 /\ r.step = 1
          /\ r.unit = 1 /\ r.bits = 1 /\ r.block = 0
      BY <1>M DEF r, Logo, Single, Area, LogoMarkers
    <2>. QED
      BY <1>M, <1>0, <1>1, <1>2, <1>3, <1>4, <1>5, <1>6, <2>1 DEF LogoShape
  <1>V. CASE a.area = "V"
    <2>1. /\ r.base = 0 /\ r.first = 0 /\ r.last = 850 /\ r.step = 1
          /\ r.unit = 1 /\ r.bits = 8 /\ r.block = 0
      BY <1>V DEF r, Logo, Bits, Area
    <2>. QED
      BY <1>V, <1>0, <1>1, <1>2, <1>3, <1>4, <1>5, <1>6, <2>1 DEF LogoShape
  <1>AI. CASE a.area = "AI"
    <2>1. /\ r.base = 0 /\ r.first = 1 /\ r.last = 8 /\ r.step = 1
          /\ r.unit = 1 /\ r.bits = 1 /\ r.block = 0
      BY <1>AI DEF r, Logo, Single, Area
    <2>. QED
      BY <1>AI, <1>0, <1>1, <1>2, <1>3, <1>4, <1>5, <1>6, <2>1 DEF LogoShape
  <1>VW. CASE a.area = "VW"
    <2>1. /\ r.base = 0 /\ r.first = 0 /\ r.last = 848 /\ r.step = 2
          /\ r.unit = 2 /\ r.bits = 1 /\ r.block = 0
      BY <1>VW DEF r, Logo, Words, Area
    <2>. QED
      BY <1>VW, <1>0, <1>1, <1>2, <1>3, <1>4, <1>5, <1>6, <2>1 DEF LogoShape
  <1>AQ. CASE a.area = "AQ"
    <2>1. /\ r.base = 512 /\ r.first = 1 /\ r.last = 8 /\ r.step = 1
          /\ r.unit = 1 /\ r.bits = 1 /\ r.block = 0
      BY <1>AQ DEF r, Logo, Single, Area
    <2>. QED
      BY <1>AQ, <1>0, <1>1, <1>2, <1>3, <1>4, <1>5, <1>6, <2>1 DEF LogoShape
  <1>AM. CASE a.area = "AM"
    <2>1. /\ r.base = 528 /\ r.first = 1 /\ r.last = 64 /\ r.step = 1
          /\ r.unit = 1 /\ r.bits = 1 /\ r.block = 0
      BY <1>AM DEF r, Logo, Single, Area
    <2>. QED
      BY <1>AM, <1>0, <1>1, <1>2, <1>3, <1>4, <1>5, <1>6, <2>1 DEF LogoShape
  <1>. QED
    BY <1>1, <1>I, <1>Q, <1>M, <1>V, <1>AI, <1>VW, <1>AQ, <1>AM DEF LogoAreas

\* Every address of a LOGO that the parser accepts has a register of 16 bits:
\* the agent never drops an event for the sake of the address.
THEOREM LogoFits ==
  ASSUME NEW a \in Address, Accepts(Logo, a)
  PROVE  Fits(Logo, a)
  <1>1. a.area \in LogoAreas /\ LogoShape(a)
    BY LogoRegister
  <1>2. a.n \in Nat /\ a.bit \in Nat
    BY DEF Address
  <1>3. Register(Logo, a) \in Nat /\ Register(Logo, a) <= 65535
    BY <1>1, <1>2, SMT DEF LogoAreas, LogoShape
  <1>4. Register(Logo, a) \in Word
    BY <1>3, WordBounds DEF MaxWord
  <1>. QED
    BY <1>4 DEF Fits

LEMMA LogoTable ==
  ASSUME NEW a \in Address, Writable(Logo, a)
  PROVE  /\ a.area \in {"Q", "M", "V", "VW", "AQ", "AM"}
         /\ Cell(Logo, a)[1] = IF a.area \in {"Q", "M", "V"} THEN "coil"
                                                             ELSE "register"
         /\ Cell(Logo, a)[2] = Register(Logo, a)
  <1>1. a.area \in LogoAreas
    BY LogoDomain DEF Writable, Accepts
  <1>2. Logo[a.area].type = CASE a.area = "I" -> "DISCRETE_INPUT"
                              [] a.area = "AI" -> "INPUT_REGISTER"
                              [] a.area \in {"Q", "M", "V"} -> "COIL"
                              [] a.area \in {"VW", "AQ", "AM"} -> "REG"
    BY <1>1 DEF LogoAreas, Logo, LogoMarkers, Single, Bits, Words, Area
  <1>. QED
    BY <1>1, <1>2 DEF LogoAreas, Writable, Cell

\* Two addresses of a LOGO that can be written to have different cells at the
\* agent: no order or sensor for one of them ever touches another.
THEOREM LogoCellsDiffer ==
  ASSUME NEW a \in Address, NEW b \in Address,
         Writable(Logo, a), Writable(Logo, b), Cell(Logo, a) = Cell(Logo, b)
  PROVE  a = b
  <1> DEFINE Coils == {"Q", "M", "V"}
             Registers == {"VW", "AQ", "AM"}
  <1>1. LogoShape(a) /\ LogoShape(b)
    BY LogoRegister DEF Writable
  <1>2. Register(Logo, a) = Register(Logo, b)
    BY LogoTable
  <1>3. \/ a.area \in Coils /\ b.area \in Coils
        \/ a.area \in Registers /\ b.area \in Registers
    BY LogoTable
  <1>4. /\ a.n \in Nat /\ a.bit \in Nat /\ a.db \in Nat
        /\ b.n \in Nat /\ b.bit \in Nat /\ b.db \in Nat
    BY DEF Address
  <1>5. a.area = b.area
    BY <1>1, <1>2, <1>3, <1>4, SMT DEF LogoShape
  <1>6. a.n = b.n /\ a.bit = b.bit /\ a.db = b.db
    <2>Q. CASE a.area = "Q"
      BY <1>1, <1>2, <1>5, <1>4, <2>Q DEF LogoShape
    <2>M. CASE a.area = "M"
      BY <1>1, <1>2, <1>5, <1>4, <2>M DEF LogoShape
    <2>V. CASE a.area = "V"
      <3>1. \A x, y, s, t \in Nat :
              s <= 7 /\ t <= 7 /\ 8 * x + s = 8 * y + t => x = y /\ s = t
        OBVIOUS
      <3>. QED
        BY <1>1, <1>2, <1>4, <1>5, <2>V, <3>1 DEF LogoShape
    <2>AQ. CASE a.area = "AQ"
      BY <1>1, <1>2, <1>5, <1>4, <2>AQ DEF LogoShape
    <2>AM. CASE a.area = "AM"
      BY <1>1, <1>2, <1>5, <1>4, <2>AM DEF LogoShape
    <2>VW. CASE a.area = "VW"
      <3>1. \A x, y \in Nat :
              x % 2 = 0 /\ y % 2 = 0 /\ x \div 2 = y \div 2 => x = y
        OBVIOUS
      <3>. QED
        BY <1>1, <1>2, <1>5, <1>4, <2>VW, <3>1 DEF LogoShape
    <2>. QED
      BY <1>3, <2>Q, <2>M, <2>V, <2>VW, <2>AQ, <2>AM
  <1>. QED
    BY <1>5, <1>6 DEF Address

\* No marker bit of PLCSIM has a register of 16 bits, so the agent drops every
\* sensor and every order that names one (plcsim.service and config.rs).
THEOREM PlcsimMarkersNeverFit ==
  ASSUME NEW a \in Address, a.area = "M"
  PROVE  ~Fits(Plcsim, a)
  <1>1. ASSUME Accepts(Plcsim, a) PROVE Register(Plcsim, a) \notin Word
    <2>1. Plcsim["M"] = Bits("COIL", 524288, 65535, 0)
      BY SMT DEF Plcsim
    <2>2. \A x \in Int : x \div 1 = x
      OBVIOUS
    <2>3. a.n \in Nat /\ a.bit \in Nat /\ a.db \in Nat
      BY DEF Address
    <2>4. Plcsim["M"] = Area("COIL", 524288, 0, 65535, 1, 1, 8, 0)
      BY <2>1, SMT DEF Bits
    <2>5. Register(Plcsim, a) = 524288 + 8 * a.n + a.bit
      BY <2>2, <2>3, <2>4, SMT DEF Register, Area
    <2>6. Register(Plcsim, a) \in Nat /\ Register(Plcsim, a) > 65535
      BY <2>3, <2>5, SMT
    <2>. QED
      BY <2>6, WordBounds, SMT DEF MaxWord
  <1>. QED
    BY <1>1 DEF Fits

\* The numbers of an area of PLCSIM are bits of bytes, bytes, or every second or
\* fourth byte in registers of two.
LEMMA PlcsimShape ==
  ASSUME NEW area \in DOMAIN Plcsim
  PROVE  LET r == Plcsim[area]
         IN /\ r.base \in Nat /\ r.block \in Nat /\ r.first = 0
            /\ \/ r.bits = 8 /\ r.unit = 1
               \/ r.bits = 1 /\ r.unit = 1
               \/ r.bits = 1 /\ r.unit = 2 /\ r.step \in {2, 4}
<1>0. area \in {"I", "Q", "M", "IB", "IW", "ID", "QB", "QW", "QD", "MB", "MW", "MD",
                 "DBX", "DBB", "DBW", "DBD"}
  BY SMTT(60) DEF Plcsim
<1> USE DEF Bits, Bytes, Words, Area
<1>1. CASE area \in {"I", "Q", "M", "DBX"}
  BY <1>1, SMTT(30) DEF Plcsim
<1>2. CASE area \in {"IB", "QB", "MB", "DBB"}
  BY <1>2, SMTT(30) DEF Plcsim
<1>3. CASE area \in {"IW", "QW", "MW", "DBW"}
  BY <1>3, SMTT(30) DEF Plcsim
<1>4. CASE area \in {"ID", "QD", "MD", "DBD"}
  BY <1>4, SMTT(30) DEF Plcsim
<1>. QED BY <1>0, <1>1, <1>2, <1>3, <1>4

\* Within one area, and one data block, of PLCSIM two addresses never share a
\* register: only words of several blocks, blocks that reach into the next, and
\* areas that overlap do (plcsim.service).
THEOREM PlcsimAreaIsApart ==
  ASSUME NEW a \in Address, NEW b \in Address,
         Accepts(Plcsim, a), Accepts(Plcsim, b),
         a.area = b.area, a.db = b.db, Register(Plcsim, a) = Register(Plcsim, b)
  PROVE  a = b
<1> DEFINE r == Plcsim[a.area]
<1>1. /\ r.base \in Nat /\ r.block \in Nat /\ r.first = 0
      /\ \/ r.bits = 8 /\ r.unit = 1
         \/ r.bits = 1 /\ r.unit = 1
         \/ r.bits = 1 /\ r.unit = 2 /\ r.step \in {2, 4}
  BY PlcsimShape DEF Accepts
<1>2. /\ a.n \in Nat /\ b.n \in Nat /\ a.bit \in 0 .. r.bits - 1 /\ b.bit \in 0 .. r.bits - 1
      /\ a.n % r.step = 0 /\ b.n % r.step = 0
  BY DEF Accepts, Address
<1> DEFINE base == r.base + r.block * (a.db - 1)
<1>3. base + r.bits * ((a.n - r.first) \div r.unit) + a.bit
        = base + r.bits * ((b.n - r.first) \div r.unit) + b.bit
  BY DEF Register
<1>4. base \in Int
  BY <1>1 DEF Address
<1> HIDE DEF r, base
<1>5. CASE r.bits = 8 /\ r.unit = 1
  <2>1. (a.n - r.first) \div r.unit = a.n /\ (b.n - r.first) \div r.unit = b.n
    BY <1>1, <1>2, <1>5
  <2>2. base + 8 * a.n + a.bit = base + 8 * b.n + b.bit
    BY <1>3, <1>5, <2>1
  <2>3. a.bit \in 0 .. 7 /\ b.bit \in 0 .. 7
    BY <1>2, <1>5
  <2>. QED BY <1>2, <1>4, <2>2, <2>3 DEF Address
<1>6. CASE r.bits = 1 /\ r.unit = 1
  <2>1. (a.n - r.first) \div r.unit = a.n /\ (b.n - r.first) \div r.unit = b.n
    BY <1>1, <1>2, <1>6
  <2>2. a.bit = 0 /\ b.bit = 0
    BY <1>2, <1>6
  <2>3. base + 1 * a.n + 0 = base + 1 * b.n + 0
    BY <1>3, <1>6, <2>1, <2>2
  <2>. QED BY <1>2, <1>4, <2>2, <2>3 DEF Address
<1>7. CASE r.bits = 1 /\ r.unit = 2 /\ r.step \in {2, 4}
  <2>1. a.n - r.first = a.n /\ b.n - r.first = b.n
    BY <1>1, <1>2
  <2>2. a.bit = 0 /\ b.bit = 0
    BY <1>2, <1>7
  <2>3. base + 1 * (a.n \div 2) + 0 = base + 1 * (b.n \div 2) + 0
    BY <1>3, <1>7, <2>1, <2>2
  <2>4. a.n % 2 = 0 /\ b.n % 2 = 0
    BY <1>2, <1>7
  <2>5. \A x \in Nat : x \div 2 \in Nat /\ x = 2 * (x \div 2) + (x % 2)
    OBVIOUS
  <2>6. a.n \div 2 = b.n \div 2
    <3>1. a.n \div 2 \in Nat /\ b.n \div 2 \in Nat
      BY <1>2, <2>5
    <3>. QED BY <1>4, <2>3, <3>1
  <2>7. a.n = 2 * (a.n \div 2) /\ b.n = 2 * (b.n \div 2)
    BY <1>2, <2>4, <2>5
  <2>8. a.n = b.n
    BY <2>6, <2>7
  <2>. QED BY <2>2, <2>8 DEF Address
<1>. QED BY <1>1, <1>5, <1>6, <1>7

(* Orders on their way to the PLC. *)


LEMMA RemoveAtType ==
  ASSUME NEW S, NEW s \in Seq(S), NEW n \in DOMAIN s
  PROVE  RemoveAt(s, n) \in Seq(S)
  <1>1. n \in 1 .. Len(s) /\ Len(s) \in Nat /\ \A i \in 1 .. Len(s) : s[i] \in S
    OBVIOUS
  <1>2. SubSeq(s, 1, n - 1) \in Seq(S)
    BY <1>1, SubSeqProperties
  <1>3. SubSeq(s, n + 1, Len(s)) \in Seq(S)
    BY <1>1, SubSeqProperties
  <1>. QED
    BY <1>2, <1>3, ConcatProperties DEF RemoveAt

LEMMA LongTail ==
  ASSUME NEW S, NEW s \in Seq(S), s # <<>>, Len(s) # 1
  PROVE  Tail(s) \in Seq(S) \ {<<>>}
  <1>1. Len(s) \in Nat \ {0} /\ Len(<<>>) = 0
    BY EmptySeq
  <1>2. Tail(s) \in Seq(S) /\ Len(Tail(s)) = Len(s) - 1
    BY HeadTailProperties
  <1>3. Len(Tail(s)) # 0
    BY <1>1, <1>2
  <1>. QED
    BY <1>1, <1>2, <1>3

\* The agent's PLC never changes, nor do the addresses and cells there are.
LEMMA SamePlc ==
  ASSUME plcId' = plcId
  PROVE  /\ Write' = Write /\ Loop' = Loop /\ Cells' = Cells
         /\ OrderState' = OrderState
         /\ {w \in Write : Parses(w)}' = {w \in Write : Parses(w)}
  BY DEF Write, Loop, Cells, OrderState, Parses, Addresses, Reaches, CellOf

LEMMA AddressesType ==
  ASSUME OrderAssumption, plcId \in PlcIds
  PROVE  Addresses \subseteq Address
  <1>1. Settings[plcId] \in Seq(Address) /\ Buttons[plcId] \subseteq Address
    BY DEF OrderAssumption
  <1>. QED
    BY <1>1 DEF Addresses

LEMMA WritesType ==
  ASSUME OrderAssumption, TypeOK, NEW o \in Orders, order[o].pc # "new"
  PROVE  /\ Data(o) \in Seq(Write) /\ <<Trigger(o)>> \in Seq(Write)
         /\ Writes(o) \in Seq(Write) /\ Writes(o) # <<>>
  <1>1. /\ order[o].button \in Buttons[plcId]
        /\ order[o].vals \in {<<>>} \cup [DOMAIN Settings[plcId] -> Values]
    BY DEF TypeOK, OrderState
  <1>2. Trigger(o) \in Write
    BY <1>1 DEF Trigger, Write, Addresses
  <1>3. Data(o) \in Seq(Write)
    <2>1. Settings[plcId] \in Seq(Address)
      BY DEF OrderAssumption, TypeOK
    <2>2. CASE order[o].vals = <<>>
      BY <2>2 DEF Data
    <2>3. CASE order[o].vals \in [DOMAIN Settings[plcId] -> Values]
      <3>1. DOMAIN order[o].vals = 1 .. Len(Settings[plcId])
        BY <2>1, <2>3
      <3>2. \A n \in 1 .. Len(Settings[plcId]) :
              [order |-> o, addr |-> Settings[plcId][n],
               val |-> order[o].vals[n], trigger |-> FALSE] \in Write
        BY <2>1, <2>3 DEF Write, Addresses
      <3>. QED
        BY <2>1, <3>1, <3>2 DEF Data
    <2>. QED
      BY <1>1, <2>2, <2>3
  <1>4. <<Trigger(o)>> \in Seq(Write) /\ Len(<<Trigger(o)>>) = 1
    BY <1>2
  <1>. QED
    BY <1>3, <1>4, ConcatProperties, ConcatEqualIffEmpty DEF Writes

LEMMA LoopsType ==
  ASSUME TypeOK, NEW ws \in Seq(Write)
  PROVE  Loops(ws) \in Seq(Loop)
  <1>1. CASE store = <<>>
    BY <1>1 DEF Loops
  <1>2. CASE store # <<>>
    <2>1. store \in Seq(Sockets \cup Others) \ {<<>>}
      BY <1>2 DEF TypeOK
    <2>2. \A n \in 1 .. Len(ws) : [write |-> ws[n], keys |-> store] \in Loop
      BY <2>1 DEF Loop
    <2>. QED
      BY <1>2, <2>2 DEF Loops
  <1>. QED
    BY <1>1, <1>2

LEMMA ContentType ==
  ASSUME NEW w, w.val \in Word
  PROVE  Content(w) \in Word
  <1>1. 1 \in Word
    BY WordBounds DEF MaxWord
  <1>. QED
    BY <1>1 DEF Content

LEMMA ListIsSeq ==
  ASSUME NEW S, NEW n \in Nat, NEW f \in [1..n -> S]
  PROVE  f \in Seq(S)
  OBVIOUS

LEMMA InitTypes == ASSUME OrderAssumption, Init PROVE TypeOK
  <1>1. store \in Seq(Sockets \cup Others)
    <2>1. Cardinality(Others) \in Nat
      BY FS_CardinalityType DEF OrderAssumption
    <2>2. store \in Seq(Others)
      <3>1. store \in [1..Cardinality(Others) -> Others]
        BY DEF Init
      <3>. QED
        BY <2>1, <3>1, ListIsSeq
    <2>. QED
      BY <2>2
  <1>2. order \in [Orders -> OrderState]
    BY DEF Init, OrderState
  <1>3. cells \in [Cells -> Word]
    BY WordBounds DEF Init, MaxWord
  <1>4. chan \in Seq({w \in Write : Parses(w)}) /\ Len(chan) <= ChannelSize
    BY DEF Init, OrderAssumption
  <1>5. /\ turn \in Seq(Orders) /\ redis \in Seq(Loop)
        /\ wire \in Seq(Write) /\ handled \in Seq(Write)
    BY DEF Init
  <1>. QED
    BY <1>1, <1>2, <1>3, <1>4, <1>5 DEF Init, TypeOK

LEMMA StepTypes ==
  ASSUME OrderAssumption, TypeOK, [Next]_vars
  PROVE  TypeOK'
  <1> USE DEF TypeOK
  <1>0. plcId' = plcId
    BY DEF Next, Give, Found, Reply, Receive, Execute, Connect, Stored,
           Disconnected, LoseLink, RestartAgent, RestartServer, vars, server
  <1>S. /\ Write' = Write /\ Loop' = Loop /\ Cells' = Cells
        /\ OrderState' = OrderState
        /\ {w \in Write : Parses(w)}' = {w \in Write : Parses(w)}
    BY <1>0, SamePlc
  <1> DEFINE Parsed == {w \in Write : Parses(w)}
  <1>Give. ASSUME NEW o \in Orders, Give(o) PROVE TypeOK'
    <2>1. PICK act \in Actions, b \in Buttons[plcId] :
            \E v \in IF act = "ON" THEN [DOMAIN Settings[plcId] -> Values] ELSE {<<>>} :
              order' = [order EXCEPT ![o] = [pc |-> "asked", act |-> act,
                                             button |-> b, vals |-> v]]
      BY <1>Give DEF Give
    <2>v. PICK v \in {<<>>} \cup [DOMAIN Settings[plcId] -> Values] :
            order' = [order EXCEPT ![o] = [pc |-> "asked", act |-> act,
                                           button |-> b, vals |-> v]]
      BY <2>1
    <2>2. [pc |-> "asked", act |-> act, button |-> b, vals |-> v] \in OrderState
      BY <2>1 DEF OrderState
    <2>3. order' \in [Orders -> OrderState]
      BY <2>v, <2>2
    <2>. QED
      BY <1>Give, <1>S, <2>3 DEF Give, gateway, network, plc
  <1>Found. ASSUME NEW o \in Orders, Found(o) PROVE TypeOK'
    <2>1. order[o].pc = "asked" /\ order[o] \in OrderState
      BY <1>Found DEF Found
    <2>2. [order[o] EXCEPT !.pc = "sent"] \in OrderState
      BY <2>1 DEF OrderState
    <2>3. order' \in [Orders -> OrderState]
      BY <1>Found, <2>2 DEF Found
    <2>4. redis' \in Seq(Loop)
      BY <1>Found, <2>1, WritesType, LoopsType, ConcatProperties DEF Found
    <2>5. turn' \in Seq(Orders)
      BY <1>Found DEF Found
    <2>. QED
      BY <1>Found, <1>S, <2>3, <2>4, <2>5 DEF Found, network, plc
  <1>Reply. ASSUME Reply PROVE TypeOK'
    <2>1. PICK n \in NextReply :
            /\ redis' = IF Len(redis[n].keys) = 1 THEN RemoveAt(redis, n)
                        ELSE Append(RemoveAt(redis, n),
                                    [redis[n] EXCEPT !.keys = Tail(@)])
            /\ wire' = IF Head(redis[n].keys) = link
                            /\ Contains(store, Head(redis[n].keys))
                       THEN Append(wire, redis[n].write) ELSE wire
            /\ UNCHANGED <<server, store, left, conn, link, chan, plc>>
      BY <1>Reply DEF Reply
    <2>2. n \in DOMAIN redis /\ redis[n] \in Loop
      BY DEF NextReply
    <2>3. RemoveAt(redis, n) \in Seq(Loop)
      BY <2>2, RemoveAtType
    <2>4. ASSUME Len(redis[n].keys) # 1
          PROVE  [redis[n] EXCEPT !.keys = Tail(@)] \in Loop
      <3>1. /\ redis[n].keys \in Seq(Sockets \cup Others)
            /\ redis[n].keys # <<>>
        BY <2>2 DEF Loop
      <3>2. Tail(redis[n].keys) \in Seq(Sockets \cup Others) \ {<<>>}
        BY <2>4, <3>1, LongTail
      <3>. QED
        BY <2>2, <3>2 DEF Loop
    <2>5. redis' \in Seq(Loop)
      BY <2>1, <2>3, <2>4
    <2>6. wire' \in Seq(Write)
      BY <2>1, <2>2 DEF Loop
    <2>. QED
      BY <1>S, <2>1, <2>5, <2>6 DEF server, plc
  <1>Connect. ASSUME NEW k \in Sockets, Connect(k) PROVE TypeOK'
    BY <1>Connect, <1>S DEF Connect, server, plc
  <1>Stored. ASSUME NEW k \in Sockets, Stored(k) PROVE TypeOK'
    BY <1>Stored, <1>S DEF Stored, server, network, plc
  <1>LoseLink. ASSUME LoseLink PROVE TypeOK'
    BY <1>LoseLink, <1>S DEF LoseLink, server, gateway, plc
  <1>Disconnected. ASSUME NEW k \in Sockets \cup Others, Disconnected(k)
                   PROVE TypeOK'
    <2>1. store' \in Seq(Sockets \cup Others) /\ left' \in BOOLEAN
      BY <1>Disconnected, RemoveAtType DEF Disconnected
    <2>. QED
      BY <1>Disconnected, <1>S, <2>1 DEF Disconnected, server, network, plc
  <1>Receive. ASSUME Receive PROVE TypeOK'
    <2>1. wire # <<>> /\ Head(wire) \in Write /\ Tail(wire) \in Seq(Write)
      BY <1>Receive, HeadTailProperties DEF Receive
    <2>2. chan' \in Seq(Parsed) /\ Len(chan') <= ChannelSize
      <3>1. CASE /\ Parses(Head(wire)) /\ ChannelHasRoom
                 /\ chan' = Append(chan, Head(wire))
        <4>1. Head(wire) \in Parsed
          BY <2>1, <3>1
        <4>2. chan \in Seq(Parsed) /\ ChannelSize \in Nat
          BY DEF OrderAssumption
        <4>3. Len(chan') = Len(chan) + 1 /\ chan' \in Seq(Parsed) /\ Len(chan) \in Nat
          BY <3>1, <4>1, <4>2, AppendProperties, LenProperties
        <4>. QED
          BY <3>1, <4>2, <4>3 DEF ChannelHasRoom
      <3>2. CASE UNCHANGED chan
        BY <3>2
      <3>. QED
        BY <1>Receive, <3>1, <3>2 DEF Receive
    <2>. QED
      BY <1>Receive, <1>S, <2>1, <2>2 DEF Receive, server, gateway, plc
  <1>Execute. ASSUME Execute PROVE TypeOK'
    <2>0. chan \in Seq(Parsed) /\ chan # <<>>
      BY <1>Execute DEF Execute
    <2>1. /\ Head(chan) \in Parsed /\ Tail(chan) \in Seq(Parsed)
          /\ Len(Tail(chan)) = Len(chan) - 1 /\ Len(chan) \in Nat
      BY <2>0, HeadTailProperties, LenProperties
    <2>2. cells' \in [Cells -> Word]
      <3>1. Content(Head(chan)) \in Word
        BY <2>1, ContentType DEF Parses
      <3>. QED
        BY <1>Execute, <3>1 DEF Execute
    <2>3. handled' \in Seq(Write)
      BY <1>Execute, <2>1 DEF Execute
    <2>4. Len(chan') <= ChannelSize /\ chan' \in Seq(Parsed)
      BY <1>Execute, <2>1 DEF Execute, OrderAssumption
    <2>. QED
      BY <1>Execute, <1>S, <2>2, <2>3, <2>4 DEF Execute, server, gateway, network
  <1>RestartAgent. ASSUME RestartAgent PROVE TypeOK'
    BY <1>RestartAgent, <1>S DEF RestartAgent, server, gateway, plc, OrderAssumption
  <1>RestartServer. ASSUME RestartServer PROVE TypeOK'
    <2>1. ASSUME NEW o \in Orders, order[o].pc = "asked"
          PROVE  [order[o] EXCEPT !.pc = "sent"] \in OrderState
      <3>1. order[o] \in OrderState
        OBVIOUS
      <3>. QED
        BY <2>1, <3>1 DEF OrderState
    <2>2. order' \in [Orders -> OrderState]
      BY <1>RestartServer, <2>1 DEF RestartServer
    <2>3. conn' \in [Sockets -> {"free", "new", "stored"}]
      BY <1>RestartServer DEF RestartServer
    <2>. QED
      BY <1>RestartServer, <1>S, <2>2, <2>3 DEF RestartServer, plc
  <1>Stutter. CASE UNCHANGED vars
    BY <1>Stutter, <1>S DEF vars, server, gateway, network, plc
  <1>. QED
    BY <1>Give, <1>Found, <1>Reply, <1>Connect, <1>Stored, <1>LoseLink,
       <1>Disconnected, <1>Receive, <1>Execute, <1>RestartAgent,
       <1>RestartServer, <1>Stutter DEF Next

\* What is sent, stored and written keeps its type for any orders, panels and
\* connections; in particular the PLC only gets registers and values that the
\* agent could parse, and the channel keeps its bound.
THEOREM OrderTypes == ASSUME OrderAssumption PROVE Spec => []TypeOK
  <1>1. Init => TypeOK
    BY InitTypes
  <1>2. TypeOK /\ [Next]_vars => TypeOK'
    BY StepTypes
  <1>. QED
    BY <1>1, <1>2, PTL DEF Spec

-----------------------------------------------------------------------------
\* A write for one address of a LOGO never shows at another: only Execute
\* writes to the PLC, and by LogoCellsDiffer no two addresses have one cell.
THEOREM StayPut == ASSUME OrderAssumption PROVE Spec => WritesStayPut
  <1> DEFINE Bound(a) ==
        (plcId = "LOGO!" /\ cells'[CellOf(a)] # cells[CellOf(a)])
          => Head(chan).addr = a \/ ~Writable(Map(plcId), Head(chan).addr)
             Theirs == {b \in Addresses : Reaches(b) /\ Writable(Map(plcId), b)}
  <1>1. ASSUME TypeOK, Next, NEW a \in Theirs PROVE Bound(a)
    <2> SUFFICES ASSUME plcId = "LOGO!", cells'[CellOf(a)] # cells[CellOf(a)],
                        Writable(Map(plcId), Head(chan).addr)
                 PROVE  Head(chan).addr = a
      OBVIOUS
    <2>1. Execute
      BY <1>1 DEF Next, Give, Found, Reply, Receive, Connect, Stored, Disconnected,
                  LoseLink, RestartAgent, RestartServer, plc
    <2>2. chan # <<>> /\ Head(chan) \in Write
      BY <1>1, <2>1, HeadTailProperties DEF Execute, TypeOK
    <2>3. a \in Address /\ Head(chan).addr \in Address
      BY <1>1, <2>2, AddressesType DEF Write, TypeOK
    <2>4. CellOf(a) = CellOf(Head(chan).addr)
      <3>1. cells' = [cells EXCEPT ![CellOf(Head(chan).addr)] = Content(Head(chan))]
        BY <2>1 DEF Execute
      <3>2. CellOf(a) \in DOMAIN cells
        BY <1>1 DEF Cells, TypeOK
      <3>. QED
        BY <3>1, <3>2
    <2>5. Map(plcId) = Logo
      BY DEF Map
    <2>. QED
      BY <2>3, <2>4, <2>5, LogoCellsDiffer DEF CellOf
  <1>2. TypeOK /\ [Next]_vars => [\A a \in Theirs : Bound(a)]_vars
    BY <1>1
  <1>. QED
    BY <1>2, OrderTypes, PTL DEF Spec, WritesStayPut

-----------------------------------------------------------------------------
(* Sequences of writes in which every trigger follows what it needs. *)

LEMMA RangeAppend ==
  ASSUME NEW S, NEW s \in Seq(S), NEW e \in S
  PROVE  Range(Append(s, e)) = Range(s) \cup {e}
  BY AppendProperties, LenProperties DEF Range

LEMMA RangeHead ==
  ASSUME NEW S, NEW s \in Seq(S), s # <<>>
  PROVE  Range(s) = {Head(s)} \cup Range(Tail(s))
  <1>1. /\ Head(s) = s[1] /\ Len(s) \in Nat \ {0} /\ Tail(s) \in Seq(S)
        /\ Len(Tail(s)) = Len(s) - 1
        /\ \A i \in 1 .. Len(s) - 1 : Tail(s)[i] = s[i + 1]
    BY HeadTailProperties, EmptySeq
  <1>2. DOMAIN s = 1 .. Len(s) /\ DOMAIN Tail(s) = 1 .. Len(s) - 1
    BY <1>1, LenProperties
  <1>3. ASSUME NEW i \in 1 .. Len(s), i # 1
        PROVE  i - 1 \in 1 .. Len(s) - 1 /\ s[i] = Tail(s)[i - 1]
    BY <1>1, <1>3
  <1>4. \A i \in 1 .. Len(s) - 1 : i + 1 \in 1 .. Len(s)
    BY <1>1
  <1>5. 1 \in 1 .. Len(s)
    BY <1>1
  <1>6. ASSUME NEW x \in Range(s) PROVE x \in {Head(s)} \cup Range(Tail(s))
    <2>1. PICK i \in 1 .. Len(s) : x = s[i]
      BY <1>2, <1>6 DEF Range
    <2>2. CASE i = 1
      BY <1>1, <2>1, <2>2
    <2>3. CASE i # 1
      <3>1. i - 1 \in DOMAIN Tail(s) /\ x = Tail(s)[i - 1]
        BY <1>2, <1>3, <2>1, <2>3
      <3>. QED
        BY <3>1 DEF Range
    <2>. QED
      BY <2>2, <2>3
  <1>7. ASSUME NEW x \in Range(Tail(s)) PROVE x \in Range(s)
    <2>1. PICK i \in 1 .. Len(s) - 1 : x = Tail(s)[i]
      BY <1>2, <1>7 DEF Range
    <2>2. x = s[i + 1] /\ i + 1 \in DOMAIN s
      BY <1>1, <1>2, <1>4, <2>1
    <2>. QED
      BY <2>2 DEF Range
  <1>8. Head(s) \in Range(s)
    BY <1>1, <1>2, <1>5 DEF Range
  <1>. QED
    BY <1>6, <1>7, <1>8

LEMMA FollowsAppend ==
  ASSUME NEW S, NEW s \in Seq(S), NEW e \in S, NEW before, NEW need,
         Follows(s, before, need),
         e.trigger => need[e.order] \subseteq before \cup Range(s)
  PROVE  Follows(Append(s, e), before, need)
  <1> DEFINE t == Append(s, e)
  <1>1. /\ Len(s) \in Nat /\ DOMAIN s = 1 .. Len(s)
        /\ DOMAIN t = 1 .. Len(s) + 1
        /\ t[Len(s) + 1] = e /\ \A i \in 1 .. Len(s) : t[i] = s[i]
    BY AppendProperties, LenProperties
  <1> HIDE DEF t
  <1> SUFFICES ASSUME NEW n \in 1 .. Len(s) + 1, t[n].trigger,
                      NEW w \in need[t[n].order]
               PROVE  w \in before \/ \E i \in 1 .. n - 1 : t[i] = w
    BY <1>1 DEF Follows, t
  <1>2. CASE n = Len(s) + 1
    BY <1>1, <1>2 DEF Range
  <1>3. CASE n \in 1 .. Len(s)
    BY <1>1, <1>3 DEF Follows
  <1>. QED
    BY <1>1, <1>2, <1>3

LEMMA FollowsTail ==
  ASSUME NEW S, NEW s \in Seq(S), s # <<>>, NEW before, NEW need,
         Follows(s, before, need)
  PROVE  Follows(Tail(s), before \cup {Head(s)}, need)
  <1>1. /\ Head(s) = s[1] /\ Len(s) \in Nat \ {0} /\ Tail(s) \in Seq(S)
        /\ DOMAIN s = 1 .. Len(s) /\ DOMAIN Tail(s) = 1 .. Len(s) - 1
        /\ \A i \in 1 .. Len(s) - 1 : Tail(s)[i] = s[i + 1]
    BY HeadTailProperties, EmptySeq, LenProperties
  <1> SUFFICES ASSUME NEW n \in 1 .. Len(s) - 1, Tail(s)[n].trigger,
                      NEW w \in need[Tail(s)[n].order]
               PROVE  \/ w \in before \cup {Head(s)}
                      \/ \E i \in 1 .. n - 1 : Tail(s)[i] = w
    BY <1>1 DEF Follows
  <1>2. n + 1 \in 1 .. Len(s) /\ Tail(s)[n] = s[n + 1]
    BY <1>1
  <1>3. w \in before \/ \E i \in 1 .. n : s[i] = w
    BY <1>1, <1>2 DEF Follows
  <1>4. ASSUME NEW i \in 1 .. n, s[i] = w
        PROVE  w = Head(s) \/ \E j \in 1 .. n - 1 : Tail(s)[j] = w
    <2>1. CASE i = 1
      BY <1>1, <1>4, <2>1
    <2>2. CASE i # 1
      <3>1. i - 1 \in 1 .. n - 1 /\ Tail(s)[i - 1] = w
        BY <1>1, <1>4, <2>2
      <3>. QED
        BY <3>1
    <2>. QED
      BY <2>1, <2>2
  <1>. QED
    BY <1>3, <1>4

\* What is before, and what is needed, may be replaced.
LEMMA FollowsMore ==
  ASSUME NEW S, NEW s \in Seq(S), NEW before, NEW need, NEW more, NEW less,
         Follows(s, before, need),
         \A n \in DOMAIN s : \A w \in less[s[n].order] :
           w \in need[s[n].order] /\ (w \in before => w \in more)
  PROVE  Follows(s, more, less)
  BY DEF Follows

-----------------------------------------------------------------------------
(* PathInv is inductive. *)

LEMMA ArrivedType ==
  ASSUME TypeOK
  PROVE  Arrived \subseteq Write
  <1>1. handled \in Seq(Write) /\ chan \in Seq(Write) /\ wire \in Seq(Write)
    BY DEF TypeOK
  <1>2. /\ Range(handled) \in SUBSET Write /\ Range(chan) \in SUBSET Write
        /\ Range(wire) \in SUBSET Write
    BY <1>1, RangeOfSeq
  <1>. QED
    BY <1>2 DEF Arrived

\* Nothing that the agent can parse, or that was sent, is changed later.
LEMMA SentStays ==
  ASSUME OrderAssumption, TypeOK, [Next]_vars
  PROVE  /\ plcId' = plcId
         /\ \A o \in Orders : order[o].pc = "sent" =>
              order'[o].pc = "sent" /\ Needed(o)' = Needed(o)
  <1>1. plcId' = plcId
    BY DEF Next, Give, Found, Reply, Receive, Execute, Connect, Stored,
           Disconnected, LoseLink, RestartAgent, RestartServer, vars, server
  <1>2. ASSUME NEW o \in Orders, order[o].pc = "sent"
        PROVE  order'[o] = order[o]
    <2>1. CASE \E p \in Orders : Give(p)
      BY <1>2, <2>1 DEF Give, TypeOK
    <2>2. CASE \E p \in Orders : Found(p)
      BY <1>2, <2>2 DEF Found, TypeOK
    <2>3. CASE RestartServer
      BY <1>2, <2>3 DEF RestartServer
    <2>4. CASE order' = order
      BY <2>4
    <2>. QED
      BY <2>1, <2>2, <2>3, <2>4
         DEF Next, Reply, Receive, Execute, Connect, Stored, Disconnected,
             LoseLink, RestartAgent, vars, server
  <1>3. ASSUME NEW o \in Orders, order'[o] = order[o]
        PROVE  Needed(o)' = Needed(o)
    BY <1>1, <1>3 DEF Needed, Data, Parses, Reaches
  <1>. QED
    BY <1>1, <1>2, <1>3

\* The order that is found needs after the step what it needed before.
LEMMA FoundNeeds ==
  ASSUME TypeOK, NEW o \in Orders, Found(o)
  PROVE  order'[o].pc = "sent" /\ Needed(o)' = Needed(o)
  <1>1. plcId' = plcId
    BY DEF Found
  <1>2. order[o] \in OrderState /\ order[o].pc = "asked"
    BY DEF Found, TypeOK
  <1>3. order'[o] = [order[o] EXCEPT !.pc = "sent"]
    BY DEF Found, TypeOK
  <1>4. order'[o].pc = "sent" /\ order'[o].vals = order[o].vals
    BY <1>2, <1>3 DEF OrderState
  <1>. QED
    BY <1>1, <1>4 DEF Needed, Data, Parses, Reaches

\* PipeInv, with what orders need after the step, of the sequences before it.
LEMMA PipeStays ==
  ASSUME OrderAssumption, TypeOK, SentInv, PipeInv, [Next]_vars
  PROVE  LET need == [o \in Orders |-> Needed(o)'] IN
         /\ Follows(handled, {}, need)
         /\ Follows(chan, Range(handled), need)
         /\ Follows(wire, Range(handled) \cup Range(chan), need)
  <1> DEFINE old  == [o \in Orders |-> Needed(o)]
             need == [o \in Orders |-> Needed(o)']
  <1>1. /\ Follows(handled, {}, old)
        /\ Follows(chan, Range(handled), old)
        /\ Follows(wire, Range(handled) \cup Range(chan), old)
    BY DEF PipeInv
  <1>2. ASSUME NEW w \in Arrived PROVE need[w.order] = old[w.order]
    <2>1. w.order \in Orders
      BY <1>2, ArrivedType DEF Write
    <2>2. Needed(w.order)' = Needed(w.order)
      BY <2>1, SentStays DEF SentInv
    <2>. QED
      BY <2>1, <2>2
  <1>3. /\ \A n \in DOMAIN handled : handled[n] \in Arrived
        /\ \A n \in DOMAIN chan : chan[n] \in Arrived
        /\ \A n \in DOMAIN wire : wire[n] \in Arrived
    BY DEF Arrived, Range
  <1> HIDE DEF old, need
  <1>4. handled \in Seq(Write) /\ chan \in Seq(Write) /\ wire \in Seq(Write)
    BY DEF TypeOK
  <1>5. Follows(handled, {}, need)
    BY <1>1, <1>2, <1>3, <1>4, FollowsMore
  <1>6. Follows(chan, Range(handled), need)
    BY <1>1, <1>2, <1>3, <1>4, FollowsMore
  <1>7. Follows(wire, Range(handled) \cup Range(chan), need)
    <2> DEFINE before == Range(handled) \cup Range(chan)
    <2>1. Follows(wire, before, old)
      BY <1>1
    <2> HIDE DEF before
    <2>2. \A n \in DOMAIN wire : need[wire[n].order] = old[wire[n].order]
      BY <1>2, <1>3
    <2>3. Follows(wire, before, need)
      BY SMTT(30), <1>4, <2>1, <2>2, FollowsMore
    <2>. QED
      BY <2>3 DEF before
  <1>. QED
    BY <1>5, <1>6, <1>7 DEF need

LEMMA WritesShape ==
  ASSUME OrderAssumption, TypeOK, NEW o \in Orders, order[o].pc # "new"
  PROVE  /\ Data(o) \in Seq(Write)
         /\ Len(Writes(o)) = Len(Data(o)) + 1
         /\ \A n \in 1 .. Len(Writes(o)) : Writes(o)[n].order = o
         /\ \A n \in 1 .. Len(Data(o)) : /\ Writes(o)[n] = Data(o)[n]
                                         /\ ~Writes(o)[n].trigger
  <1>1. Data(o) \in Seq(Write) /\ <<Trigger(o)>> \in Seq(Write)
    BY WritesType
  <1>2. /\ Len(Data(o)) \in Nat /\ DOMAIN Data(o) = 1 .. Len(Data(o))
        /\ Len(<<Trigger(o)>>) = 1 /\ <<Trigger(o)>>[1] = Trigger(o)
    BY <1>1
  <1>3. /\ Len(Writes(o)) = Len(Data(o)) + 1
        /\ \A n \in 1 .. Len(Data(o)) + 1 :
             Writes(o)[n] = IF n <= Len(Data(o)) THEN Data(o)[n]
                            ELSE <<Trigger(o)>>[n - Len(Data(o))]
    BY <1>1, <1>2, ConcatProperties DEF Writes
  <1>4. \A n \in DOMAIN Data(o) : Data(o)[n].order = o /\ ~Data(o)[n].trigger
    BY DEF Data
  <1>5. Trigger(o).order = o
    BY DEF Trigger
  <1>6. \A n \in 1 .. Len(Data(o)) + 1 :
          n <= Len(Data(o)) \/ n - Len(Data(o)) = 1
    BY <1>2
  <1>7. \A n \in 1 .. Len(Data(o)) : /\ n \in 1 .. Len(Data(o)) + 1
                                     /\ Writes(o)[n] = Data(o)[n]
    BY <1>2, <1>3
  <1>8. ASSUME NEW n \in 1 .. Len(Data(o)) + 1 PROVE Writes(o)[n].order = o
    <2>1. CASE n <= Len(Data(o))
      BY <1>2, <1>4, <1>7, <2>1
    <2>2. CASE ~(n <= Len(Data(o)))
      BY <1>2, <1>3, <1>5, <1>6, <2>2
    <2>. QED
      BY <2>1, <2>2
  <1>. QED
    BY <1>1, <1>2, <1>3, <1>4, <1>7, <1>8

LEMMA FoundShape ==
  ASSUME OrderAssumption, TypeOK, NEW o \in Orders, Found(o)
  PROVE  \/ redis' = redis
         \/ /\ Len(redis') = Len(redis) + Len(Data(o)) + 1
            /\ \A n \in 1 .. Len(redis) : redis'[n] = redis[n]
            /\ \A n \in 1 .. Len(Data(o)) + 1 :
                 redis'[Len(redis) + n] = [write |-> Writes(o)[n], keys |-> store]
  <1>0. order[o].pc # "new"
    BY DEF Found
  <1>1. CASE store = <<>>
    BY <1>1 DEF Found, Loops, TypeOK
  <1>2. CASE store # <<>>
    <2> DEFINE ls == Loops(Writes(o))
               d  == Len(Data(o)) + 1
    <2>1. /\ Writes(o) \in Seq(Write) /\ Len(Writes(o)) = d /\ d \in Nat
          /\ Len(redis) \in Nat
      BY <1>0, WritesType, WritesShape, LenProperties DEF TypeOK
    <2>2. ls \in Seq(Loop) /\ redis \in Seq(Loop)
      BY <2>1, LoopsType DEF TypeOK
    <2>3. ls = [n \in 1 .. d |-> [write |-> Writes(o)[n], keys |-> store]]
      BY <1>2, <2>1 DEF Loops
    <2> HIDE DEF d
    <2>4. Len(ls) = d
      BY <2>1, <2>2, <2>3
    <2> HIDE DEF ls
    <2>5. /\ Len(redis \o ls) = Len(redis) + d
          /\ \A n \in 1 .. Len(redis) + d :
               (redis \o ls)[n] = IF n <= Len(redis) THEN redis[n]
                                  ELSE ls[n - Len(redis)]
      BY ZenonT(60), <2>2, <2>4, ConcatProperties
    <2>6. redis' = redis \o ls
      BY DEF Found, ls
    <2>7. \A n \in 1 .. Len(redis) : redis'[n] = redis[n]
      BY <2>1, <2>5, <2>6
    <2>8. ASSUME NEW n \in 1 .. d
          PROVE  redis'[Len(redis) + n] = [write |-> Writes(o)[n], keys |-> store]
      <3>1. redis'[Len(redis) + n] = ls[n]
        BY <2>1, <2>5, <2>6
      <3>. QED
        BY <2>3, <3>1
    <2>9. Len(redis') = Len(redis) + Len(Data(o)) + 1
      <3>1. Len(Data(o)) \in Nat
        BY <1>0, WritesShape
      <3>. QED
        BY <2>1, <2>5, <2>6, <3>1 DEF d
    <2>. QED
      BY <2>7, <2>8, <2>9 DEF d
  <1>. QED
    BY <1>1, <1>2

LEMMA ReplyShape ==
  ASSUME TypeOK, Reply
  PROVE  /\ Len(redis) \in Nat \ {0} /\ redis[1] \in Loop
         /\ \A n \in 1 .. Len(redis) - 1 : redis'[n] = redis[n + 1]
         /\ \/ Len(redis[1].keys) = 1 /\ Len(redis') = Len(redis) - 1
            \/ /\ Len(redis[1].keys) # 1 /\ Len(redis') = Len(redis)
               /\ redis'[Len(redis)] = [redis[1] EXCEPT !.keys = Tail(@)]
         /\ wire' = IF Head(redis[1].keys) = link
                         /\ Contains(store, Head(redis[1].keys))
                    THEN Append(wire, redis[1].write) ELSE wire
         /\ UNCHANGED <<plcId, order, store, conn, link, chan, handled>>
  <1>1. /\ 1 \in DOMAIN redis
        /\ redis' = IF Len(redis[1].keys) = 1 THEN RemoveAt(redis, 1)
                    ELSE Append(RemoveAt(redis, 1),
                                [redis[1] EXCEPT !.keys = Tail(@)])
        /\ wire' = IF Head(redis[1].keys) = link
                        /\ Contains(store, Head(redis[1].keys))
                   THEN Append(wire, redis[1].write) ELSE wire
        /\ UNCHANGED <<server, store, left, conn, link, chan, plc>>
    BY DEF Reply, NextReply
  <1>2. /\ redis \in Seq(Loop) /\ Len(redis) \in Nat \ {0}
        /\ redis[1] \in Loop /\ redis # <<>>
    BY <1>1 DEF TypeOK
  <1> DEFINE rest == RemoveAt(redis, 1)
             more == [redis[1] EXCEPT !.keys = Tail(@)]
  <1>3. /\ rest \in Seq(Loop) /\ Len(rest) = Len(redis) - 1
        /\ \A n \in 1 .. Len(redis) - 1 : rest[n] = redis[n + 1]
    <2>1. SubSeq(redis, 1, 0) = <<>> /\ SubSeq(redis, 2, Len(redis)) = Tail(redis)
      BY <1>2, SubSeqEmpty, TailIsSubSeq
    <2>2. rest = <<>> \o Tail(redis)
      BY <2>1 DEF RemoveAt
    <2>3. Tail(redis) \in Seq(Loop)
      BY <1>2, HeadTailProperties
    <2>4. rest = Tail(redis)
      BY <2>2, <2>3, ConcatEmptySeq
    <2>. QED
      BY <1>2, <2>4, HeadTailProperties
  <1> HIDE DEF rest, more
  <1>4. CASE Len(redis[1].keys) = 1
    BY <1>1, <1>2, <1>3, <1>4 DEF server, plc, rest
  <1>5. CASE Len(redis[1].keys) # 1
    <2>1. more \in Loop
      <3>1. Tail(redis[1].keys) \in Seq(Sockets \cup Others) \ {<<>>}
        BY <1>2, <1>5, LongTail DEF Loop
      <3>. QED
        BY <1>2, <3>1 DEF Loop, more
    <2>2. redis' = Append(rest, more)
      BY <1>1, <1>5 DEF rest, more
    <2>3. /\ Len(redis') = Len(redis) /\ redis'[Len(redis)] = more
          /\ \A n \in 1 .. Len(redis) - 1 : redis'[n] = redis[n + 1]
      BY <1>2, <1>3, <2>1, <2>2, AppendProperties
    <2>. QED
      BY <1>1, <1>2, <1>5, <2>3 DEF server, plc, more
  <1>. QED
    BY <1>4, <1>5

\* Where each loop was before.
LEMMA FoundIndex ==
  ASSUME OrderAssumption, TypeOK, NEW o \in Orders, Found(o), redis' \in Seq(Loop),
         NEW n \in DOMAIN redis'
  PROVE  \/ n \in DOMAIN redis /\ redis'[n] = redis[n]
         \/ \E m \in 1 .. Len(Data(o)) + 1 :
              /\ n = Len(redis) + m
              /\ redis'[n] = [write |-> Writes(o)[m], keys |-> store]
              /\ \A i \in 1 .. Len(Data(o)) :
                   /\ Len(redis) + i \in DOMAIN redis'
                   /\ redis'[Len(redis) + i] = [write |-> Data(o)[i], keys |-> store]
  <1>0. order[o].pc # "new"
    BY DEF Found
  <1>1. /\ Len(Data(o)) \in Nat /\ Len(redis) \in Nat /\ Len(redis') \in Nat
        /\ DOMAIN redis = 1 .. Len(redis) /\ DOMAIN redis' = 1 .. Len(redis')
    BY <1>0, WritesShape DEF TypeOK
  <1>2. CASE redis' = redis
    BY <1>2
  <1>3. CASE redis' # redis
    <2>1. /\ Len(redis') = Len(redis) + Len(Data(o)) + 1
          /\ \A m \in 1 .. Len(redis) : redis'[m] = redis[m]
          /\ \A m \in 1 .. Len(Data(o)) + 1 :
               redis'[Len(redis) + m] = [write |-> Writes(o)[m], keys |-> store]
      BY <1>3, FoundShape
    <2>2. CASE n \in 1 .. Len(redis)
      BY <1>1, <2>1, <2>2
    <2>3. CASE n \notin 1 .. Len(redis)
      <3>1. n - Len(redis) \in 1 .. Len(Data(o)) + 1 /\ n = Len(redis) + (n - Len(redis))
        BY <1>1, <2>1, <2>3
      <3>2. redis'[n] = [write |-> Writes(o)[n - Len(redis)], keys |-> store]
        BY <2>1, <3>1
      <3>3. ASSUME NEW i \in 1 .. Len(Data(o))
            PROVE  /\ Len(redis) + i \in DOMAIN redis'
                   /\ redis'[Len(redis) + i] = [write |-> Data(o)[i], keys |-> store]
        <4>1. i \in 1 .. Len(Data(o)) + 1 /\ Len(redis) + i \in 1 .. Len(redis')
          BY <1>1, <2>1
        <4>2. Writes(o)[i] = Data(o)[i]
          BY <1>0, WritesShape
        <4>. QED
          BY <1>1, <2>1, <4>1, <4>2
      <3> DEFINE m == n - Len(redis)
      <3>4. /\ m \in 1 .. Len(Data(o)) + 1 /\ n = Len(redis) + m
            /\ redis'[n] = [write |-> Writes(o)[m], keys |-> store]
        BY <3>1, <3>2
      <3> HIDE DEF m
      <3>. QED
        BY <3>3, <3>4
    <2>. QED
      BY <2>2, <2>3
  <1>. QED
    BY <1>2, <1>3

LEMMA ReplyIndex ==
  ASSUME TypeOK, Reply, redis' \in Seq(Loop), NEW n \in DOMAIN redis'
  PROVE  \/ n + 1 \in DOMAIN redis /\ redis'[n] = redis[n + 1]
         \/ /\ n = Len(redis)
            /\ redis'[n].write = redis[1].write
            /\ redis'[n].keys = Tail(redis[1].keys)
  <1>1. /\ Len(redis) \in Nat /\ Len(redis') \in Nat
        /\ DOMAIN redis = 1 .. Len(redis) /\ DOMAIN redis' = 1 .. Len(redis')
    BY DEF TypeOK
  <1>2. /\ Len(redis') = Len(redis) - 1 \/ Len(redis') = Len(redis)
        /\ \A m \in 1 .. Len(redis) - 1 : redis'[m] = redis[m + 1]
        /\ Len(redis') # Len(redis) - 1 =>
             redis'[Len(redis)] = [redis[1] EXCEPT !.keys = Tail(@)]
        /\ redis[1] \in Loop
    BY ReplyShape
  <1>3. CASE n \in 1 .. Len(redis) - 1
    <2>1. n + 1 \in 1 .. Len(redis)
      BY <1>1, <1>3
    <2>. QED
      BY <1>1, <1>2, <1>3, <2>1
  <1>4. CASE n \notin 1 .. Len(redis) - 1
    <2>1. n = Len(redis) /\ Len(redis') # Len(redis) - 1
      <3>1. n \in 1 .. Len(redis')
        BY <1>1
      <3>2. Len(redis') = Len(redis) - 1 \/ Len(redis') = Len(redis)
        BY <1>2
      <3>3. Len(redis) \in Nat /\ Len(redis') \in Nat
        BY <1>1
      <3>. QED
        BY <1>4, <3>1, <3>2, <3>3
    <2>2. redis'[n] = [redis[1] EXCEPT !.keys = Tail(@)]
      BY <1>2, <2>1
    <2>3. /\ redis'[n].keys = Tail(redis[1].keys)
          /\ redis'[n].write = redis[1].write
      <3>1. DOMAIN redis[1] = {"write", "keys"}
        BY <1>2 DEF Loop
      <3>. QED
        BY <2>2, <3>1
    <2>. QED
      BY <2>1, <2>3
  <1>. QED
    BY <1>3, <1>4

\* What has arrived stays so, unless the link or a side breaks.
LEMMA ArrivedStep ==
  ASSUME OrderAssumption, TypeOK
  PROVE  /\ Receive => /\ Arrived' \subseteq Arrived
                       /\ \A w \in Arrived : Parses(w) => w \in Arrived'
         /\ Execute => Arrived' = Arrived
         /\ Reply   => /\ Arrived \subseteq Arrived'
                       /\ Arrived' \subseteq Arrived \cup {redis[1].write}
         /\ (LoseLink \/ RestartAgent \/ RestartServer) => Arrived' \subseteq Arrived
  <1>1. handled \in Seq(Write) /\ chan \in Seq(Write) /\ wire \in Seq(Write)
    BY DEF TypeOK
  <1>2. Range(<<>>) = {}
    BY DEF Range
  <1>R. ASSUME Receive
        PROVE  /\ Arrived' \subseteq Arrived
               /\ \A w \in Arrived : Parses(w) => w \in Arrived'
    <2>1. /\ wire # <<>> /\ wire' = Tail(wire) /\ handled' = handled
          /\ \/ Parses(Head(wire)) /\ chan' = Append(chan, Head(wire))
             \/ ~Parses(Head(wire)) /\ chan' = chan
      BY <1>R DEF Receive, plc
    <2>2. Head(wire) \in Write
      BY <1>1, <2>1, HeadTailProperties
    <2>3. Range(wire) = {Head(wire)} \cup Range(Tail(wire))
      BY <1>1, <2>1, RangeHead
    <2>4. Range(Append(chan, Head(wire))) = Range(chan) \cup {Head(wire)}
      BY <1>1, <2>2, RangeAppend
    <2>. QED
      BY <2>1, <2>3, <2>4 DEF Arrived
  <1>E. ASSUME Execute PROVE Arrived' = Arrived
    <2>1. /\ chan # <<>> /\ chan' = Tail(chan) /\ wire' = wire
          /\ handled' = Append(handled, Head(chan))
      BY <1>E DEF Execute, network
    <2>2. Head(chan) \in Write
      BY <1>1, <2>1, HeadTailProperties
    <2>3. Range(chan) = {Head(chan)} \cup Range(Tail(chan))
      BY <1>1, <2>1, RangeHead
    <2>4. Range(Append(handled, Head(chan))) = Range(handled) \cup {Head(chan)}
      BY <1>1, <2>2, RangeAppend
    <2>. QED
      BY <2>1, <2>3, <2>4 DEF Arrived
  <1>P. ASSUME Reply
        PROVE  /\ Arrived \subseteq Arrived'
               /\ Arrived' \subseteq Arrived \cup {redis[1].write}
    <2>1. redis[1].write \in Write
      BY <1>P, ReplyShape DEF Loop
    <2>2. Range(Append(wire, redis[1].write)) = Range(wire) \cup {redis[1].write}
      BY <1>1, <2>1, RangeAppend
    <2>3. /\ wire' = wire \/ wire' = Append(wire, redis[1].write)
          /\ chan' = chan /\ handled' = handled
      BY <1>P, ReplyShape
    <2>. QED
      BY <2>2, <2>3 DEF Arrived
  <1>L. ASSUME LoseLink \/ RestartAgent \/ RestartServer
        PROVE  Arrived' \subseteq Arrived
    BY <1>L, <1>2 DEF LoseLink, RestartAgent, RestartServer, Arrived, plc
  <1>. QED
    BY <1>R, <1>E, <1>P, <1>L

LEMMA SentStep ==
  ASSUME OrderAssumption, TypeOK, SentInv, [Next]_vars
  PROVE  SentInv'
  <1>1. TypeOK'
    BY StepTypes
  <1>2. /\ redis \in Seq(Loop) /\ redis' \in Seq(Loop)
        /\ DOMAIN redis = 1 .. Len(redis) /\ DOMAIN redis' = 1 .. Len(redis')
        /\ Len(redis) \in Nat
    <2>1. Loop' = Loop
      BY SentStays, SamePlc
    <2>. QED
      BY <1>1, <2>1 DEF TypeOK
  <1>3. \A o \in Orders : order[o].pc = "sent" => order'[o].pc = "sent"
    BY SentStays
  <1>4. /\ \A n \in DOMAIN redis : redis[n].write.order \in Orders
        /\ \A w \in Arrived : w.order \in Orders
    <2>1. \A n \in DOMAIN redis : redis[n] \in Loop
      BY <1>2
    <2>2. Arrived \subseteq Write
      BY ArrivedType
    <2>. QED
      BY <2>1, <2>2 DEF Loop, Write
  <1>5. /\ \A n \in DOMAIN redis : order'[redis[n].write.order].pc = "sent"
        /\ \A w \in Arrived : order'[w.order].pc = "sent"
    BY <1>3, <1>4 DEF SentInv
  <1>6. \A w \in Arrived' : order'[w.order].pc = "sent"
    <2>1. CASE Receive \/ Execute \/ LoseLink \/ RestartAgent \/ RestartServer
      BY <1>5, <2>1, ArrivedStep
    <2>2. CASE Reply
      <3>1. 1 \in DOMAIN redis
        <4>1. Len(redis) # 0
          BY <2>2, ReplyShape
        <4>. QED
          BY <1>2, <4>1
      <3>. QED
        BY <1>5, <2>2, <3>1, ArrivedStep
    <2>3. CASE UNCHANGED <<wire, chan, handled>>
      BY <1>5, <2>3 DEF Arrived
    <2>. QED
      BY <2>1, <2>2, <2>3 DEF Next, Give, Found, Connect, Stored, Disconnected,
                              vars, network, plc
  <1>7. \A n \in DOMAIN redis' : order'[redis'[n].write.order].pc = "sent"
    <2>1. ASSUME NEW o \in Orders, Found(o), NEW n \in DOMAIN redis'
          PROVE  order'[redis'[n].write.order].pc = "sent"
      <3>1. order[o].pc # "new"
        BY <2>1 DEF Found
      <3>2. CASE n \in DOMAIN redis /\ redis'[n] = redis[n]
        BY <1>5, <3>2
      <3>3. ASSUME NEW m \in 1 .. Len(Data(o)) + 1,
                   redis'[n] = [write |-> Writes(o)[m], keys |-> store]
            PROVE  order'[redis'[n].write.order].pc = "sent"
        <4>1. redis'[n].write.order = o
          BY <3>1, <3>3, WritesShape
        <4>. QED
          BY <2>1, <4>1, FoundNeeds
      <3>. QED
        BY <1>2, <2>1, <3>2, <3>3, FoundIndex
    <2>2. CASE Reply
      <3>1. 1 \in DOMAIN redis
        <4>1. Len(redis) # 0
          BY <2>2, ReplyShape
        <4>. QED
          BY <1>2, <4>1
      <3>2. \A n \in DOMAIN redis' : \E m \in DOMAIN redis :
              redis'[n].write = redis[m].write
        BY <1>2, <2>2, <3>1, ReplyIndex
      <3>. QED
        BY <1>5, <3>2
    <2>3. CASE redis' = redis
      BY <1>5, <2>3
    <2>4. CASE RestartServer
      BY <2>4 DEF RestartServer
    <2>. QED
      BY <2>1, <2>2, <2>3, <2>4
         DEF Next, Give, Connect, Stored, Disconnected, LoseLink, Receive,
             Execute, RestartAgent, vars, gateway
  <1>. QED
    BY <1>6, <1>7 DEF SentInv

-----------------------------------------------------------------------------
LEMMA ContainsRange ==
  ASSUME NEW S, NEW s \in Seq(S), NEW k
  PROVE  Contains(s, k) <=> k \in Range(s)
  BY LenProperties DEF Contains, Range

LEMMA ContainsAppend ==
  ASSUME NEW S, NEW s \in Seq(S), NEW e \in S, NEW k, Contains(Append(s, e), k)
  PROVE  Contains(s, k) \/ k = e
  <1>1. Append(s, e) \in Seq(S)
    OBVIOUS
  <1>2. k \in Range(Append(s, e))
    BY <1>1, ContainsRange
  <1>3. k \in Range(s) \cup {e}
    BY <1>2, RangeAppend
  <1>. QED
    BY <1>3, ContainsRange

LEMMA ContainsTail ==
  ASSUME NEW S, NEW s \in Seq(S), s # <<>>, NEW k
  PROVE  Contains(s, k) <=> Contains(Tail(s), k) \/ k = Head(s)
  <1>1. Tail(s) \in Seq(S)
    BY HeadTailProperties
  <1>2. Range(s) = {Head(s)} \cup Range(Tail(s))
    BY RangeHead
  <1>. QED
    BY <1>1, <1>2, ContainsRange

LEMMA ContainsRemoveAt ==
  ASSUME NEW S, NEW s \in Seq(S), NEW n \in DOMAIN s, NEW k,
         Contains(RemoveAt(s, n), k)
  PROVE  Contains(s, k)
  <1>1. s \in Seq(Range(s))
    BY SeqOfRange
  <1>2. RemoveAt(s, n) \in Seq(Range(s))
    BY <1>1, RemoveAtType
  <1>3. k \in Range(RemoveAt(s, n))
    BY <1>2, ContainsRange
  <1>4. Range(RemoveAt(s, n)) \in SUBSET Range(s)
    BY <1>2, RangeOfSeq
  <1>. QED
    BY <1>3, <1>4, ContainsRange

LEMMA SocketStep ==
  ASSUME OrderAssumption, TypeOK, SocketInv, [Next]_vars
  PROVE  SocketInv'
  <1>1. /\ redis \in Seq(Loop) /\ redis' \in Seq(Loop)
        /\ store \in Seq(Sockets \cup Others)
        /\ \A n \in DOMAIN redis : redis[n].keys \in Seq(Sockets \cup Others) \ {<<>>}
    <2>1. Loop' = Loop /\ TypeOK'
      BY SentStays, SamePlc, StepTypes
    <2>2. redis \in Seq(Loop) /\ redis' \in Seq(Loop)
      BY <2>1 DEF TypeOK
    <2>3. \A n \in DOMAIN redis : redis[n] \in Loop
      BY <2>2
    <2>. QED
      BY <2>2, <2>3 DEF TypeOK, Loop
  <1>2. \A k : ~Contains(<<>>, k)
    BY EmptySeq DEF Contains
  <1>Connect. ASSUME NEW k \in Sockets, Connect(k) PROVE SocketInv'
    <2>1. UNCHANGED <<redis, store>> /\ conn[k] = "free"
          /\ \A l \in Sockets : l # k => conn'[l] = conn[l]
      BY <1>Connect DEF Connect, TypeOK
    <2>. QED
      BY <2>1 DEF SocketInv, Known
  <1>Stored. ASSUME NEW k \in Sockets, Stored(k) PROVE SocketInv'
    <2>1. /\ redis' = redis /\ store' = Append(store, k) /\ conn'[k] = "stored"
          /\ \A l \in Sockets : l # k => conn'[l] = conn[l]
      BY <1>Stored DEF Stored, TypeOK
    <2>2. \A l : Contains(store', l) => Contains(store, l) \/ l = k
      BY <1>1, <2>1, ContainsAppend
    <2>. QED
      BY <2>1, <2>2 DEF SocketInv, Known
  <1>Disconnected. ASSUME NEW k \in Sockets \cup Others, Disconnected(k)
                   PROVE  SocketInv'
    <2>1. UNCHANGED <<redis, conn>>
      BY <1>Disconnected DEF Disconnected
    <2>2. \A l : Contains(store', l) => Contains(store, l)
      BY <1>1, <1>Disconnected, ContainsRemoveAt DEF Disconnected
    <2>. QED
      BY <2>1, <2>2 DEF SocketInv, Known
  <1>Found. ASSUME NEW o \in Orders, Found(o) PROVE SocketInv'
    <2>1. UNCHANGED <<store, conn>>
      BY <1>Found DEF Found
    <2>2. ASSUME NEW n \in DOMAIN redis'
          PROVE  (n \in DOMAIN redis /\ redis'[n] = redis[n]) \/ redis'[n].keys = store
      BY <1>1, <1>Found, FoundIndex
    <2>. QED
      BY <2>1, <2>2 DEF SocketInv, Known
  <1>Reply. ASSUME Reply PROVE SocketInv'
    <2>1. UNCHANGED <<store, conn>>
      BY <1>Reply, ReplyShape
    <2>2. 1 \in DOMAIN redis
      <3>1. Len(redis) # 0 /\ Len(redis) \in Nat
        BY <1>Reply, ReplyShape
      <3>. QED
        BY <1>1, <3>1
    <2>3. ASSUME NEW n \in DOMAIN redis'
          PROVE  \E m \in DOMAIN redis :
                   \A k : Contains(redis'[n].keys, k) => Contains(redis[m].keys, k)
      <3>1. CASE n + 1 \in DOMAIN redis /\ redis'[n] = redis[n + 1]
        BY <3>1
      <3>2. CASE redis'[n].keys = Tail(redis[1].keys)
        BY <1>1, <2>2, <3>2, ContainsTail
      <3>. QED
        BY <1>1, <1>Reply, <3>1, <3>2, ReplyIndex
    <2>. QED
      BY <2>1, <2>3 DEF SocketInv, Known
  <1>RestartServer. ASSUME RestartServer PROVE SocketInv'
    <2>1. redis' = <<>> /\ store' = <<>>
      BY <1>RestartServer DEF RestartServer
    <2>. QED
      BY <2>1, <1>2 DEF SocketInv, Known
  <1>Other. CASE UNCHANGED <<redis, store, conn>>
    BY <1>Other DEF SocketInv, Known
  <1>. QED
    BY <1>Connect, <1>Stored, <1>Disconnected, <1>Found, <1>Reply,
       <1>RestartServer, <1>Other
       DEF Next, Give, LoseLink, Receive, Execute, RestartAgent, vars, gateway

-----------------------------------------------------------------------------
LEMMA FollowsHead ==
  ASSUME NEW S, NEW s \in Seq(S), s # <<>>, NEW before, NEW need,
         Follows(s, before, need), Head(s).trigger
  PROVE  need[Head(s).order] \subseteq before
  <1>1. 1 \in DOMAIN s /\ Head(s) = s[1] /\ 1 .. 1 - 1 = {}
    OBVIOUS
  <1>. QED
    BY <1>1 DEF Follows

LEMMA FollowsEmpty ==
  ASSUME NEW before, NEW need
  PROVE  Follows(<<>>, before, need)
  BY DEF Follows

\* The loop that goes on finds what its trigger needs at the agent, if that is
\* where it sends the trigger.
LEMMA SentFollows ==
  ASSUME OrderAssumption, PathInv, Reply, redis[1].write.trigger,
         Head(redis[1].keys) = link, Contains(store, link)
  PROVE  Needed(redis[1].write.order) \subseteq Arrived
  <1>1. /\ 1 \in DOMAIN redis /\ redis[1] \in Loop
        /\ DOMAIN redis \subseteq Nat \ {0}
    <2>1. Len(redis) \in Nat \ {0} /\ redis[1] \in Loop
      BY ReplyShape DEF PathInv
    <2>2. redis \in Seq(Loop)
      BY DEF PathInv, TypeOK
    <2>. QED
      BY <2>1, <2>2
  <1>2. Contains(redis[1].keys, link)
    BY <1>1, ContainsTail DEF Loop
  <1>3. \A i \in DOMAIN redis : ~Ahead(i, 1)
    BY <1>1 DEF Ahead
  <1>. QED
    BY <1>1, <1>2, <1>3 DEF PathInv, LoopInv

LEMMA PipeStep ==
  ASSUME OrderAssumption, PathInv, [Next]_vars
  PROVE  PipeInv'
  <1> USE DEF PathInv
  <1> DEFINE need == [o \in Orders |-> Needed(o)']
             H == Range(handled)
             C == Range(chan)
  <1>1. /\ handled \in Seq(Write) /\ chan \in Seq(Write) /\ wire \in Seq(Write)
    BY DEF TypeOK
  <1>2. Follows(handled, {}, need) /\ Follows(chan, H, need) /\ Follows(wire, H \cup C, need)
    BY PipeStays
  <1>3. ASSUME NEW w, NEW o \in Orders, w \in need[o] PROVE Parses(w)
    <2>1. plcId' = plcId
      BY SentStays
    <2>. QED
      BY <1>3, <2>1 DEF Needed, Parses, Reaches
  <1>S. SUFFICES /\ Follows(handled', {}, need)
                 /\ Follows(chan', Range(handled'), need)
                 /\ Follows(wire', Range(handled') \cup Range(chan'), need)
    BY DEF PipeInv
  <1> HIDE DEF need
  <1>R. CASE Receive
    <2> DEFINE h == Head(wire)
    <2>1. /\ wire # <<>> /\ wire' = Tail(wire) /\ handled' = handled
          /\ \/ Parses(h) /\ chan' = Append(chan, h)
             \/ ~Parses(h) /\ chan' = chan
      BY <1>R DEF Receive, plc
    <2>2. h \in Write
      BY <1>1, <2>1, HeadTailProperties
    <2>3. Follows(Tail(wire), (H \cup C) \cup {h}, need)
      BY <1>1, <1>2, <2>1, FollowsTail
    <2>4. CASE chan' = Append(chan, h)
      <3>1. Range(chan') = C \cup {h}
        BY <1>1, <2>2, <2>4, RangeAppend
      <3>2. h.trigger => need[h.order] \subseteq H \cup C
        BY <1>1, <1>2, <2>1, FollowsHead
      <3>3. Follows(chan', H, need)
        BY <1>1, <1>2, <2>2, <2>4, <3>2, FollowsAppend
      <3>4. (H \cup C) \cup {h} = H \cup Range(chan')
        BY <3>1
      <3>. QED
        BY <1>2, <2>1, <2>3, <3>3, <3>4
    <2>5. CASE ~Parses(h) /\ chan' = chan
      <3>1. Tail(wire) \in Seq(Write)
        BY <1>1, <2>1, HeadTailProperties
      <3>2. \A n \in DOMAIN Tail(wire) : Tail(wire)[n].order \in Orders
        <4>1. \A n \in DOMAIN Tail(wire) : Tail(wire)[n] \in Write
          BY <3>1, ElementOfSeq, LenProperties
        <4>. QED
          BY <4>1 DEF Write
      <3>3. \A n \in DOMAIN Tail(wire) : \A w \in need[Tail(wire)[n].order] :
              w \in (H \cup C) \cup {h} => w \in H \cup C
        BY <1>3, <2>5, <3>2
      <3>4. Follows(Tail(wire), H \cup C, need)
        BY <2>3, <3>1, <3>3, FollowsMore
      <3>. QED
        BY <1>2, <2>1, <2>5, <3>4
    <2>. QED
      BY <2>1, <2>4, <2>5
  <1>E. CASE Execute
    <2> DEFINE h == Head(chan)
    <2>1. /\ chan # <<>> /\ chan' = Tail(chan) /\ wire' = wire
          /\ handled' = Append(handled, h)
      BY <1>E DEF Execute, network
    <2>2. h \in Write
      BY <1>1, <2>1, HeadTailProperties
    <2>3. C = {h} \cup Range(Tail(chan)) /\ Range(handled') = H \cup {h}
      BY <1>1, <2>1, <2>2, RangeHead, RangeAppend
    <2>4. h.trigger => need[h.order] \subseteq H
      BY <1>1, <1>2, <2>1, FollowsHead
    <2>5. Follows(handled', {}, need)
      BY <1>1, <1>2, <2>1, <2>2, <2>4, FollowsAppend
    <2>6. Follows(Tail(chan), H \cup {h}, need)
      BY <1>1, <1>2, <2>1, FollowsTail
    <2>7. H \cup C = Range(handled') \cup Range(chan')
      BY <2>1, <2>3
    <2>. QED
      BY <1>2, <2>1, <2>3, <2>5, <2>6, <2>7
  <1>P. CASE Reply
    <2>1. /\ handled' = handled /\ chan' = chan
          /\ redis[1] \in Loop
          /\ wire' = IF Head(redis[1].keys) = link
                          /\ Contains(store, Head(redis[1].keys))
                     THEN Append(wire, redis[1].write) ELSE wire
      BY <1>P, ReplyShape
    <2> DEFINE w == redis[1].write
    <2>2. w \in Write /\ w.order \in Orders
      BY <2>1 DEF Loop, Write
    <2>3. CASE wire' = wire
      BY <1>2, <2>1, <2>3
    <2>4. CASE wire' # wire
      <3>1. /\ wire' = Append(wire, w)
            /\ Head(redis[1].keys) = link /\ Contains(store, link)
        BY <2>1, <2>4
      <3>2. need[w.order] = Needed(w.order)
        <4>1. 1 \in DOMAIN redis
          <5>1. Len(redis) \in Nat \ {0}
            BY <1>P, ReplyShape
          <5>. QED
            BY <5>1 DEF TypeOK
        <4>2. order[w.order].pc = "sent"
          BY <4>1 DEF SentInv
        <4>. QED
          BY <2>2, <4>2, SentStays DEF need
      <3>3. w.trigger => need[w.order] \subseteq (H \cup C) \cup Range(wire)
        BY <1>P, <3>1, <3>2, SentFollows DEF Arrived
      <3> DEFINE before == H \cup C
      <3>4. Follows(wire, before, need)
        BY <1>2
      <3>5. w.trigger => need[w.order] \subseteq before \cup Range(wire)
        BY <3>3
      <3> HIDE DEF before
      <3>6. Follows(Append(wire, w), before, need)
        BY <1>1, <2>2, <3>4, <3>5, FollowsAppend
      <3>. QED
        BY <1>2, <2>1, <3>1, <3>6 DEF before
    <2>. QED
      BY <2>3, <2>4
  <1>L. CASE LoseLink \/ RestartServer
    <2>1. wire' = <<>> /\ chan' = chan /\ handled' = handled
      BY <1>L DEF LoseLink, RestartServer, plc
    <2>. QED
      BY <1>2, <2>1, FollowsEmpty
  <1>A. CASE RestartAgent
    <2>1. wire' = <<>> /\ chan' = <<>> /\ handled' = handled
      BY <1>A DEF RestartAgent, plc
    <2>. QED
      BY <1>2, <2>1, FollowsEmpty
  <1>O. CASE UNCHANGED <<wire, chan, handled>>
    BY <1>2, <1>O
  <1>. QED
    BY <1>R, <1>E, <1>P, <1>L, <1>A, <1>O
       DEF Next, Give, Found, Connect, Stored, Disconnected, vars, network, plc

-----------------------------------------------------------------------------
\* What a loop's order needs stays the same, and the agent can parse it.
LEMMA LoopNeeds ==
  ASSUME OrderAssumption, PathInv, [Next]_vars, NEW j \in DOMAIN redis,
         NEW o, o = redis[j].write.order
  PROVE  Needed(o)' = Needed(o) /\ \A w \in Needed(o) : Parses(w)
  <1>1. redis[j] \in Loop
    BY DEF PathInv, TypeOK
  <1>2. o \in Orders /\ order[o].pc = "sent"
    BY <1>1 DEF Loop, Write, PathInv, SentInv
  <1>3. TypeOK
    BY DEF PathInv
  <1>4. Needed(o)' = Needed(o)
    BY <1>2, <1>3, SentStays
  <1>. QED
    BY <1>4 DEF Needed

\* A step that leaves the loops and the link alone.
LEMMA LoopsStay ==
  ASSUME OrderAssumption, PathInv, [Next]_vars, redis' = redis, link' = link,
         \A j \in DOMAIN redis :
           Contains(redis[j].keys, link) /\ Contains(store', link)
             => Contains(store, link),
         \A w \in Arrived : Parses(w) => w \in Arrived'
  PROVE  LoopInv'
  <1> SUFFICES ASSUME NEW j \in DOMAIN redis, redis[j].write.trigger,
                      Contains(redis[j].keys, link), Contains(store, link),
                      NEW w \in Needed(redis[j].write.order)'
               PROVE  \/ w \in Arrived'
                      \/ \E i \in DOMAIN redis : redis[i].write = w /\ Ahead(i, j)'
    BY DEF LoopInv
  <1>1. PICK o : o = redis[j].write.order
    OBVIOUS
  <1>2. w \in Needed(o) /\ Parses(w)
    BY <1>1, LoopNeeds
  <1>3. w \in Arrived \/ \E i \in DOMAIN redis : redis[i].write = w /\ Ahead(i, j)
    BY <1>1, <1>2 DEF PathInv, LoopInv
  <1>4. \A i \in DOMAIN redis : Ahead(i, j) => Ahead(i, j)'
    BY DEF Ahead
  <1>. QED
    BY <1>2, <1>3, <1>4

\* New loops know the same connections, and that of the trigger is the last.
LEMMA LoopsFound ==
  ASSUME OrderAssumption, PathInv, NEW o \in Orders, Found(o)
  PROVE  LoopInv'
  <1>0. TypeOK /\ LoopInv /\ [Next]_vars /\ order[o].pc # "new"
    BY DEF PathInv, Next, Found
  <1>1. /\ Len(redis) \in Nat /\ DOMAIN redis = 1 .. Len(redis)
        /\ redis' \in Seq(Loop) /\ DOMAIN redis' = 1 .. Len(redis')
        /\ Len(redis') \in Nat
    <2>1. TypeOK' /\ Loop' = Loop
      BY <1>0, StepTypes, SentStays, SamePlc
    <2>. QED
      BY <1>0, <2>1 DEF TypeOK
  <1>2. link' = link /\ store' = store /\ Arrived' = Arrived
    BY DEF Found, network, plc, Arrived
  <1>3. \A i \in DOMAIN redis : i \in DOMAIN redis' /\ redis'[i] = redis[i]
    <2>1. Len(Data(o)) \in Nat
      BY <1>0, WritesShape
    <2>2. CASE redis' = redis
      BY <2>2
    <2>3. CASE Len(redis') = Len(redis) + Len(Data(o)) + 1
      <3>1. \A i \in 1 .. Len(redis) : i \in 1 .. Len(redis')
        BY <1>1, <2>1, <2>3
      <3>. QED
        BY <1>0, <1>1, <3>1, FoundShape
    <2>. QED
      BY <1>0, <2>2, <2>3, FoundShape
  <1> SUFFICES ASSUME NEW j \in DOMAIN redis', redis'[j].write.trigger,
                      Contains(redis'[j].keys, link), Contains(store, link),
                      NEW w \in Needed(redis[j].write.order)'
               PROVE  \/ w \in Arrived
                      \/ \E i \in DOMAIN redis' : redis'[i].write = w /\ Ahead(i, j)'
    BY <1>2 DEF LoopInv
  <1>4. PICK p : p = redis'[j].write.order
    OBVIOUS
  <1>5. w \in Needed(p)'
    BY <1>4
  <1>6. CASE j \in DOMAIN redis /\ redis'[j] = redis[j]
    <2>1. w \in Needed(p) /\ p = redis[j].write.order
      BY <1>0, <1>4, <1>5, <1>6, LoopNeeds
    <2>2. w \in Arrived \/ \E i \in DOMAIN redis : redis[i].write = w /\ Ahead(i, j)
      BY <1>0, <1>6, <2>1 DEF LoopInv
    <2>3. \A i \in DOMAIN redis : Ahead(i, j) => Ahead(i, j)'
      BY <1>2, <1>3, <1>6 DEF Ahead
    <2>. QED
      BY <1>3, <2>2, <2>3
  <1>7. ASSUME NEW m \in 1 .. Len(Data(o)) + 1, j = Len(redis) + m,
               redis'[j] = [write |-> Writes(o)[m], keys |-> store],
               \A i \in 1 .. Len(Data(o)) :
                 /\ Len(redis) + i \in DOMAIN redis'
                 /\ redis'[Len(redis) + i] = [write |-> Data(o)[i], keys |-> store]
        PROVE  \E i \in DOMAIN redis' : redis'[i].write = w /\ Ahead(i, j)'
    <2>1. /\ Data(o) \in Seq(Write) /\ Len(Data(o)) \in Nat
          /\ DOMAIN Data(o) = 1 .. Len(Data(o))
          /\ Writes(o)[m].order = o /\ Writes(o)[m].trigger
          /\ m \notin 1 .. Len(Data(o))
      BY <1>0, <1>7, WritesShape
    <2>2. p = o
      BY <1>4, <1>7, <2>1
    <2>3. w \in Range(Data(o))
      BY <1>0, <1>5, <2>2, FoundNeeds DEF Needed
    <2>4. PICK i \in 1 .. Len(Data(o)) : w = Data(o)[i]
      BY <2>1, <2>3 DEF Range
    <2>5. PICK n \in DOMAIN redis' : n = Len(redis) + i
      BY <1>7
    <2>6. redis'[n] = [write |-> w, keys |-> store]
      BY <1>7, <2>4, <2>5
    <2>7. n < j
      BY <1>1, <1>7, <2>1, <2>5
    <2>8. Ahead(n, j)'
      BY <1>7, <2>6, <2>7 DEF Ahead
    <2>. QED
      BY <2>6, <2>8
  <1>. QED
    BY <1>0, <1>1, <1>6, <1>7, FoundIndex

\* A loop goes to the end of the queue once it is done with a connection; those
\* that were ahead of another stay so, or have sent their write to the agent.
LEMMA LoopsReply ==
  ASSUME OrderAssumption, PathInv, Reply
  PROVE  LoopInv'
  <1> DEFINE L == Len(redis)
             M == Len(redis')
  <1>0. TypeOK /\ LoopInv /\ [Next]_vars
    BY DEF PathInv, Next
  <1>1. /\ L \in Nat \ {0} /\ DOMAIN redis = 1 .. L
        /\ redis' \in Seq(Loop) /\ DOMAIN redis' = 1 .. Len(redis')
        /\ Len(redis') \in Nat /\ Len(redis') \in {L - 1, L}
        /\ \A i \in 1 .. L - 1 : redis'[i] = redis[i + 1]
        /\ \A i \in DOMAIN redis : redis[i] \in Loop
    <2>1. TypeOK' /\ Loop' = Loop
      BY <1>0, StepTypes, SentStays, SamePlc
    <2>2. redis \in Seq(Loop) /\ redis' \in Seq(Loop)
      BY <1>0, <2>1 DEF TypeOK
    <2>. QED
      BY <1>0, <2>2, ReplyShape
  <1>2. link' = link /\ store' = store /\ Arrived \subseteq Arrived'
    BY <1>0, ReplyShape, ArrivedStep
  <1>K. \A i \in DOMAIN redis :
          redis[i].keys \in Seq(Sockets \cup Others) /\ redis[i].keys # <<>>
    BY <1>1 DEF Loop
  <1>N. L \in Nat \ {0} /\ M \in {L - 1, L} /\ DOMAIN redis = 1 .. L /\ DOMAIN redis' = 1 .. M
    BY <1>1
  <1> HIDE DEF L, M
  <1>I. \A i \in 1 .. L : i # 1 => i - 1 \in 1 .. L - 1 /\ i - 1 \in 1 .. M /\ (i - 1) + 1 = i
    BY <1>N
  <1> SUFFICES ASSUME NEW j \in DOMAIN redis', redis'[j].write.trigger,
                      Contains(redis'[j].keys, link), Contains(store, link),
                      NEW w \in Needed(redis[j].write.order)'
               PROVE  \/ w \in Arrived'
                      \/ \E i \in DOMAIN redis' : redis'[i].write = w /\ Ahead(i, j)'
    BY <1>2 DEF LoopInv
  <1>3. PICK q \in DOMAIN redis :
          /\ redis'[j].write = redis[q].write
          /\ \/ q = j + 1 /\ redis'[j] = redis[q]
             \/ q = 1 /\ j = L /\ redis'[j].keys = Tail(redis[1].keys)
    <2>1. 1 \in DOMAIN redis
      BY <1>N
    <2>. QED
      BY <1>0, <1>1, <2>1, ReplyIndex DEF L
  <1>4. Contains(redis[q].keys, link)
    BY <1>3, <1>K, ContainsTail
  <1>5. PICK o : o = redis'[j].write.order
    OBVIOUS
  <1>6. w \in Needed(o)
    <2>1. w \in Needed(o)'
      BY <1>5
    <2>2. o = redis[q].write.order
      BY <1>3, <1>5
    <2>. QED
      BY <1>0, <2>1, <2>2, LoopNeeds
  <1>7. w \in Arrived \/ \E i \in DOMAIN redis : redis[i].write = w /\ Ahead(i, q)
    BY <1>0, <1>3, <1>4, <1>5, <1>6 DEF LoopInv
  <1>8. ASSUME redis[1].write = w, Ahead(1, q)
        PROVE  \/ w \in Arrived'
               \/ \E i \in DOMAIN redis' : redis'[i].write = w /\ Ahead(i, j)'
    <2>1. CASE Head(redis[1].keys) = link
      <3>1. wire' = Append(wire, w) /\ wire \in Seq(Write) /\ w \in Write
        BY <1>0, <1>1, <1>8, <2>1, ReplyShape DEF TypeOK, Loop
      <3>2. w \in Range(wire')
        BY <3>1, RangeAppend
      <3>. QED
        BY <3>2 DEF Arrived
    <2>2. CASE Head(redis[1].keys) # link
      <3>1. q # 1 /\ q = j + 1 /\ redis'[j] = redis[q] /\ redis[1].keys = redis[q].keys
        <4>1. q \in Nat /\ ~(q < 1)
          BY <1>N
        <4>. QED
          BY <1>3, <1>8, <4>1 DEF Ahead
      <3>2. Contains(Tail(redis[1].keys), link)
        BY ZenonT(60), <1>4, <1>K, <1>1, <2>2, <3>1, ContainsTail
      <3>3. Len(redis[1].keys) # 1
        <4>1. 1 \in DOMAIN redis
          BY <1>N
        <4>2. Tail(redis[1].keys) # <<>>
          BY <3>2 DEF Contains
        <4>3. Len(redis[1].keys) = 1 => Len(Tail(redis[1].keys)) = 0
          BY <1>K, <4>1, HeadTailProperties
        <4>4. Tail(redis[1].keys) \in Seq(Sockets \cup Others)
          BY <1>K, <4>1, HeadTailProperties
        <4>. QED
          BY <4>2, <4>3, <4>4, EmptySeq
      <3>4. /\ Len(redis') = L
            /\ redis'[L] = [redis[1] EXCEPT !.keys = Tail(@)]
        BY <1>0, <3>3, ReplyShape DEF L
      <3>5. PICK n \in DOMAIN redis' : n = L
        BY <1>N, <3>4 DEF M
      <3>6. redis'[n].write = w /\ redis'[n].keys = Tail(redis'[j].keys)
        <4>1. redis[1] \in Loop
          <5>1. 1 \in DOMAIN redis
            BY <1>N
          <5>. QED
            BY <1>1, <5>1
        <4>2. redis'[n] = [redis[1] EXCEPT !.keys = Tail(@)]
          BY <3>4, <3>5
        <4>. QED
          BY <1>8, <3>1, <4>1, <4>2 DEF Loop
      <3>7. j < n
        BY <1>N, <3>1, <3>5
      <3>8. Ahead(n, j)'
        BY <1>2, <2>2, <3>1, <3>6, <3>7 DEF Ahead
      <3>. QED
        BY <3>6, <3>8
    <2>. QED
      BY <2>1, <2>2
  <1>9. ASSUME NEW i \in DOMAIN redis, i # 1, redis[i].write = w, Ahead(i, q)
        PROVE  \E n \in DOMAIN redis' : redis'[n].write = w /\ Ahead(n, j)'
    <2>1. PICK n \in DOMAIN redis' : n = i - 1
      BY <1>N, <1>9, <1>I
    <2>2. redis'[n] = redis[i] /\ i = n + 1
      BY <1>1, <1>N, <1>9, <1>I, <2>1 DEF L
    <2>3. CASE q = j + 1 /\ redis'[j] = redis[q]
      <3>1. (i < q <=> n < j) /\ (q < i <=> j < n)
        BY <1>N, <2>2, <2>3
      <3>2. Ahead(n, j)'
        BY <1>2, <1>9, <2>2, <2>3, <3>1 DEF Ahead
      <3>. QED
        BY <1>9, <2>2, <3>2
    <2>4. CASE q = 1 /\ j = L /\ redis'[j].keys = Tail(redis[1].keys)
      <3>1. n < j /\ ~(i < q)
        BY <1>N, <2>1, <2>4
      <3>2. Ahead(n, j)'
        BY <1>9, <2>2, <2>4, <3>1 DEF Ahead
      <3>. QED
        BY <1>9, <2>2, <3>2
    <2>. QED
      BY <1>3, <2>3, <2>4
  <1>. QED
    BY <1>2, <1>7, <1>8, <1>9

\* Losing the link or a side leaves no loop with the agent ahead of it, and a
\* new connection is in no loop's list.
LEMMA LoopStep ==
  ASSUME OrderAssumption, PathInv, [Next]_vars
  PROVE  LoopInv'
  <1>0. TypeOK /\ SocketInv /\ redis \in Seq(Loop)
    BY DEF PathInv, TypeOK
  <1>1. \A j \in DOMAIN redis :
          redis[j].keys \in Seq(Sockets \cup Others)
    <2>1. \A j \in DOMAIN redis : redis[j] \in Loop
      BY <1>0
    <2>. QED
      BY <2>1 DEF Loop
  <1>2. \A j \in DOMAIN redis : ~Contains(redis[j].keys, None)
    <2>1. None \notin Sockets \cup Others
      BY DEF OrderAssumption
    <2>2. \A j \in DOMAIN redis : Range(redis[j].keys) \in SUBSET (Sockets \cup Others)
      BY <1>1, RangeOfSeq
    <2>. QED
      BY <1>1, <2>1, <2>2, ContainsRange
  <1>L. CASE LoseLink \/ RestartAgent
    <2>1. redis' = redis /\ link' = None
      BY <1>L DEF LoseLink, RestartAgent, gateway
    <2>. QED
      BY <1>2, <2>1 DEF LoopInv
  <1>S. CASE RestartServer
    <2>1. redis' = <<>>
      BY <1>S DEF RestartServer
    <2>. QED
      BY <2>1 DEF LoopInv
  <1>C. ASSUME NEW k \in Sockets, Connect(k) PROVE LoopInv'
    <2>1. redis' = redis /\ link' = k /\ conn[k] = "free"
      BY <1>C DEF Connect
    <2>2. \A j \in DOMAIN redis : ~Contains(redis[j].keys, k)
      BY <1>0, <2>1 DEF SocketInv, Known
    <2>. QED
      BY <2>1, <2>2 DEF LoopInv
  <1>T. ASSUME NEW k \in Sockets, Stored(k) PROVE LoopInv'
    <2>1. /\ redis' = redis /\ link' = link /\ store' = Append(store, k)
          /\ conn[k] = "new" /\ Arrived' = Arrived
      BY <1>T DEF Stored, network, plc, Arrived
    <2>2. \A j \in DOMAIN redis : ~Contains(redis[j].keys, k)
      BY <1>0, <2>1 DEF SocketInv, Known
    <2>3. Contains(store', link) => Contains(store, link) \/ link = k
      <3>1. store \in Seq(Sockets \cup Others) /\ k \in Sockets \cup Others
        BY <1>0 DEF TypeOK
      <3>. QED
        BY <2>1, <3>1, ContainsAppend
    <2>. QED
      BY <2>1, <2>2, <2>3, LoopsStay
  <1>D. ASSUME NEW k \in Sockets \cup Others, Disconnected(k) PROVE LoopInv'
    <2>1. redis' = redis /\ link' = link /\ Arrived' = Arrived
      BY <1>D DEF Disconnected, network, plc, Arrived
    <2>2. Contains(store', link) => Contains(store, link)
      BY <1>0, <1>D, ContainsRemoveAt DEF Disconnected, TypeOK
    <2>. QED
      BY <2>1, <2>2, LoopsStay
  <1>R. CASE Receive \/ Execute
    <2>1. redis' = redis /\ link' = link /\ store' = store
      BY <1>R DEF Receive, Execute, gateway, network
    <2>2. \A w \in Arrived : Parses(w) => w \in Arrived'
      BY <1>0, <1>R, ArrivedStep
    <2>. QED
      BY <2>1, <2>2, LoopsStay
  <1>O. CASE UNCHANGED <<redis, store, link, wire, chan, handled>>
    <2>1. Arrived' = Arrived
      BY <1>O DEF Arrived
    <2>. QED
      BY <1>O, <2>1, LoopsStay
  <1>. QED
    BY <1>L, <1>S, <1>C, <1>T, <1>D, <1>R, <1>O, LoopsFound, LoopsReply
       DEF Next, Give, vars, gateway, network, plc

-----------------------------------------------------------------------------
(* Orders in turn. *)

LEMMA LeftStays == ASSUME TypeOK, [Next]_vars, ~left' PROVE ~left
  BY DEF TypeOK, Next, Give, Found, Reply, Receive, Execute, Connect, Stored,
         Disconnected, LoseLink, RestartAgent, RestartServer, vars, gateway

LEMMA TurnStep ==
  ASSUME TypeOK, [Next]_vars
  PROVE  \/ turn' = turn /\ ~\E o \in Orders : Found(o)
         \/ \E o \in Orders : /\ Found(o) /\ turn' = Append(turn, o)
                              /\ order[o].pc = "asked" /\ order'[o].pc = "sent"
                              /\ \A p \in Orders \ {o} : order'[p] = order[p]
  <1>1. ASSUME NEW o \in Orders, Found(o)
        PROVE  /\ turn' = Append(turn, o) /\ order[o].pc = "asked"
               /\ order'[o].pc = "sent"
               /\ \A p \in Orders \ {o} : order'[p] = order[p]
    <2>1. order'[o].pc = "sent"
      BY <1>1, FoundNeeds
    <2>. QED
      BY <1>1, <2>1 DEF Found, TypeOK
  <1>2. CASE ~\E o \in Orders : Found(o)
    BY <1>2 DEF Next, Give, Reply, Receive, Execute, Connect, Stored,
           Disconnected, LoseLink, RestartAgent, RestartServer, vars, server
  <1>. QED
    BY <1>1, <1>2

\* An order is found once, and those that were sent keep their turn.
LEMMA EarlierStep ==
  ASSUME OrderAssumption, TypeOK, TurnInv, [Next]_vars
  PROVE  /\ \A n \in DOMAIN turn' : order'[turn'[n]].pc = "sent"
         /\ \A m, n \in DOMAIN turn' : turn'[m] = turn'[n] => m = n
         /\ \A o, p \in Orders :
              <<o, p>> \in Earlier' /\ order[o].pc = "sent" /\ order[p].pc = "sent"
                => <<o, p>> \in Earlier
         /\ \A o, p \in Orders : Found(o) => <<o, p>> \notin Earlier'
         /\ (\A o \in Orders : ~Found(o)) => Earlier' = Earlier
         /\ \A o \in Orders : <<o, o>> \notin Earlier
  <1>1. turn \in Seq(Orders) /\ Len(turn) \in Nat /\ DOMAIN turn = 1 .. Len(turn)
    BY DEF TypeOK
  <1>2. \A n \in DOMAIN turn : turn[n] \in Orders
    BY <1>1
  <1>3. \A n \in DOMAIN turn : order'[turn[n]].pc = "sent"
    BY <1>2, SentStays DEF TurnInv
  <1>4. \A o, p : <<o, p>> \in Earlier <=> o \in Orders /\ p \in Orders /\ Before(o, p)
    BY DEF Earlier
  <1>5. \A o, p : <<o, p>> \in Earlier' <=> o \in Orders /\ p \in Orders /\ Before(o, p)'
    BY DEF Earlier
  <1>6. \A o \in Orders : <<o, o>> \notin Earlier
    BY <1>1, <1>4 DEF Before, TurnInv
  <1>7. CASE turn' = turn /\ ~\E o \in Orders : Found(o)
    <2>1. Earlier' = Earlier
      BY <1>7 DEF Earlier, Before
    <2>. QED
      BY <1>3, <1>6, <1>7, <2>1 DEF TurnInv
  <1>8. ASSUME NEW q \in Orders, Found(q), turn' = Append(turn, q),
               order[q].pc = "asked", order'[q].pc = "sent"
        PROVE  /\ \A n \in DOMAIN turn' : order'[turn'[n]].pc = "sent"
               /\ \A m, n \in DOMAIN turn' : turn'[m] = turn'[n] => m = n
               /\ \A o, p \in Orders :
                    <<o, p>> \in Earlier' /\ order[o].pc = "sent" /\ order[p].pc = "sent"
                      => <<o, p>> \in Earlier
               /\ \A p \in Orders : <<q, p>> \notin Earlier'
    <2>1. /\ DOMAIN turn' = 1 .. Len(turn) + 1 /\ turn'[Len(turn) + 1] = q
          /\ \A n \in 1 .. Len(turn) : turn'[n] = turn[n]
      BY <1>1, <1>8
    <2>2. \A n \in 1 .. Len(turn) : turn'[n] # q
      BY <1>1, <1>8, <2>1 DEF TurnInv
    <2>3. \A n \in DOMAIN turn' : n = Len(turn) + 1 \/ n \in 1 .. Len(turn)
      BY <1>1, <2>1
    <2>4. \A n \in DOMAIN turn' : order'[turn'[n]].pc = "sent"
      BY <1>1, <1>3, <1>8, <2>1, <2>3
    <2>5. \A m, n \in DOMAIN turn' : turn'[m] = turn'[n] => m = n
      BY <1>1, <2>1, <2>2, <2>3 DEF TurnInv
    <2>6. ASSUME NEW o \in Orders, NEW p \in Orders, <<o, p>> \in Earlier',
                 order[p].pc = "sent"
          PROVE  <<o, p>> \in Earlier
      <3>1. PICK m \in DOMAIN turn', n \in DOMAIN turn' :
              m < n /\ turn'[m] = o /\ turn'[n] = p
        BY <1>5, <2>6 DEF Before
      <3>2. p # q
        BY <1>8, <2>6
      <3>3. n \in 1 .. Len(turn) /\ m \in 1 .. Len(turn)
        BY <1>1, <2>1, <2>3, <3>1, <3>2
      <3>. QED
        BY <1>1, <1>4, <2>1, <3>1, <3>3 DEF Before
    <2>7. ASSUME NEW p \in Orders, <<q, p>> \in Earlier' PROVE FALSE
      <3>1. PICK m \in DOMAIN turn', n \in DOMAIN turn' :
              m < n /\ turn'[m] = q /\ turn'[n] = p
        BY <1>5, <2>7 DEF Before
      <3>2. m = Len(turn) + 1
        BY <2>2, <2>3, <3>1
      <3>. QED
        BY <1>1, <2>1, <3>1, <3>2
    <2>. QED
      BY <2>4, <2>5, <2>6, <2>7
  <1>9. ASSUME NEW q \in Orders, Found(q), NEW o \in Orders, Found(o)
        PROVE  o = q
    BY <1>9, TurnStep DEF Found, TypeOK
  <1>. QED
    BY <1>6, <1>7, <1>8, <1>9, TurnStep

LEMMA InTurnAppend ==
  ASSUME NEW S, NEW s \in Seq(S), NEW e \in S, NEW earlier, InTurn(s, earlier),
         NotBefore({e}, Range(s), earlier)
  PROVE  InTurn(Append(s, e), earlier)
  <1> DEFINE t == Append(s, e)
  <1>1. /\ Len(s) \in Nat /\ DOMAIN s = 1 .. Len(s)
        /\ DOMAIN t = 1 .. Len(s) + 1
        /\ t[Len(s) + 1] = e /\ \A i \in 1 .. Len(s) : t[i] = s[i]
    BY AppendProperties, LenProperties
  <1> HIDE DEF t
  <1> SUFFICES ASSUME NEW m \in 1 .. Len(s) + 1, NEW n \in 1 .. Len(s) + 1, m < n
               PROVE  <<t[n].order, t[m].order>> \notin earlier
    BY <1>1 DEF InTurn, t
  <1>2. m \in 1 .. Len(s) /\ t[m] = s[m] /\ s[m] \in Range(s)
    BY <1>1 DEF Range
  <1>3. CASE n = Len(s) + 1
    BY <1>1, <1>2, <1>3 DEF NotBefore
  <1>4. CASE n \in 1 .. Len(s)
    BY <1>1, <1>2, <1>4 DEF InTurn
  <1>. QED
    BY <1>1, <1>3, <1>4

LEMMA InTurnTail ==
  ASSUME NEW S, NEW s \in Seq(S), s # <<>>, NEW earlier, InTurn(s, earlier)
  PROVE  InTurn(Tail(s), earlier) /\ NotBefore(Range(Tail(s)), {Head(s)}, earlier)
  <1>1. /\ Head(s) = s[1] /\ Len(s) \in Nat \ {0} /\ Tail(s) \in Seq(S)
        /\ DOMAIN s = 1 .. Len(s) /\ DOMAIN Tail(s) = 1 .. Len(s) - 1
        /\ \A i \in 1 .. Len(s) - 1 : Tail(s)[i] = s[i + 1]
    BY HeadTailProperties, EmptySeq, LenProperties
  <1>2. \A i \in 1 .. Len(s) - 1 : i + 1 \in 1 .. Len(s) /\ 1 < i + 1
    BY <1>1
  <1>3. 1 \in 1 .. Len(s)
    BY <1>1
  <1>4. InTurn(Tail(s), earlier)
    <2>1. \A m, n \in 1 .. Len(s) - 1 : m < n => m + 1 < n + 1
      BY <1>1
    <2>. QED
      BY <1>1, <1>2, <2>1 DEF InTurn
  <1>5. NotBefore(Range(Tail(s)), {Head(s)}, earlier)
    BY <1>1, <1>2, <1>3 DEF InTurn, NotBefore, Range
  <1>. QED
    BY <1>4, <1>5

LEMMA InTurnLess ==
  ASSUME NEW s, NEW earlier, NEW new, InTurn(s, earlier),
         \A v, w \in Range(s) : <<w.order, v.order>> \in new
                                  => <<w.order, v.order>> \in earlier
  PROVE  InTurn(s, new)
  BY DEF InTurn, Range

LEMMA InTurnEmpty == ASSUME NEW earlier PROVE InTurn(<<>>, earlier) /\ Range(<<>>) = {}
  BY DEF InTurn, Range

\* The loop that goes on sends nothing before what has arrived of an earlier
\* order, if it has come to the agent's socket.
LEMMA SentInTurn ==
  ASSUME OrderAssumption, PathInv, ~left, Reply, Head(redis[1].keys) = link
  PROVE  NotBefore({redis[1].write}, Arrived, Earlier)
  <1>1. redis \in Seq(Loop) /\ Len(redis) \in Nat \ {0} /\ redis[1] \in Loop
    BY ReplyShape DEF PathInv, TypeOK
  <1>2. 1 \in DOMAIN redis
    BY <1>1
  <1>3. 1 \in DOMAIN redis[1].keys /\ redis[1].keys[1] = link
    <2>1. redis[1].keys \in Seq(Sockets \cup Others) /\ redis[1].keys # <<>>
      BY <1>1 DEF Loop
    <2>. QED
      BY <2>1, EmptySeq
  <1>. QED
    BY <1>2, <1>3 DEF PathInv, LoopTurnInv

\* What is on its way and what was handled, after a step that finds no order.
LEMMA ArrivedInTurn ==
  ASSUME OrderAssumption, PathInv, [Next]_vars, ~left',
         NEW earlier, earlier = Earlier
  PROVE  /\ \A s \in {handled', chan', wire'} : InTurn(s, earlier)
         /\ NotBefore(Range(chan') \cup Range(wire'), Range(handled'), earlier)
         /\ NotBefore(Range(wire'), Range(chan'), earlier)
  <1>0. TypeOK /\ ~left
    BY LeftStays DEF PathInv
  <1>1. handled \in Seq(Write) /\ chan \in Seq(Write) /\ wire \in Seq(Write)
    BY <1>0 DEF TypeOK
  <1>2. /\ InTurn(handled, earlier) /\ InTurn(chan, earlier) /\ InTurn(wire, earlier)
        /\ NotBefore(Range(chan) \cup Range(wire), Range(handled), earlier)
        /\ NotBefore(Range(wire), Range(chan), earlier)
    BY <1>0 DEF PathInv, TurnInv
  <1>R. CASE Receive
    <2>1. /\ wire # <<>> /\ wire' = Tail(wire) /\ handled' = handled
          /\ chan' = Append(chan, Head(wire)) \/ chan' = chan
      BY <1>R DEF Receive, plc
    <2>2. Head(wire) \in Write
      BY <1>1, <2>1, HeadTailProperties
    <2>3. Range(wire) = {Head(wire)} \cup Range(Tail(wire))
      BY <1>1, <2>1, RangeHead
    <2>4. Range(Append(chan, Head(wire))) = Range(chan) \cup {Head(wire)}
      BY <1>1, <2>2, RangeAppend
    <2>5. InTurn(Tail(wire), earlier) /\ NotBefore(Range(Tail(wire)), {Head(wire)}, earlier)
      BY <1>1, <1>2, <2>1, InTurnTail
    <2>6. NotBefore({Head(wire)}, Range(chan), earlier)
      BY <1>2, <2>3 DEF NotBefore
    <2>7. InTurn(Append(chan, Head(wire)), earlier)
      BY <1>1, <1>2, <2>2, <2>6, InTurnAppend
    <2>8. NotBefore(Range(Tail(wire)), Range(chan) \cup {Head(wire)}, earlier)
      BY <1>2, <2>3, <2>5 DEF NotBefore
    <2>9. NotBefore(Range(chan) \cup {Head(wire)} \cup Range(Tail(wire)), Range(handled), earlier)
      BY <1>2, <2>3 DEF NotBefore
    <2>. QED
      BY <1>2, <2>1, <2>4, <2>5, <2>7, <2>8, <2>9 DEF NotBefore
  <1>E. CASE Execute
    <2>1. /\ chan # <<>> /\ chan' = Tail(chan) /\ wire' = wire
          /\ handled' = Append(handled, Head(chan))
      BY <1>E DEF Execute, network
    <2>2. Head(chan) \in Write
      BY <1>1, <2>1, HeadTailProperties
    <2>3. Range(chan) = {Head(chan)} \cup Range(Tail(chan))
      BY <1>1, <2>1, RangeHead
    <2>4. Range(Append(handled, Head(chan))) = Range(handled) \cup {Head(chan)}
      BY <1>1, <2>2, RangeAppend
    <2>5. InTurn(Tail(chan), earlier) /\ NotBefore(Range(Tail(chan)), {Head(chan)}, earlier)
      BY <1>1, <1>2, <2>1, InTurnTail
    <2>6. NotBefore({Head(chan)}, Range(handled), earlier)
      BY <1>2, <2>3 DEF NotBefore
    <2>7. InTurn(Append(handled, Head(chan)), earlier)
      BY <1>1, <1>2, <2>2, <2>6, InTurnAppend
    <2>8. NotBefore(Range(Tail(chan)) \cup Range(wire), Range(handled) \cup {Head(chan)}, earlier)
      BY <1>2, <2>3, <2>5 DEF NotBefore
    <2>9. NotBefore(Range(wire), Range(Tail(chan)), earlier)
      BY <1>2, <2>3 DEF NotBefore
    <2>. QED
      BY <1>2, <2>1, <2>4, <2>5, <2>7, <2>8, <2>9
  <1>P. CASE Reply
    <2>1. /\ redis[1].write \in Write
          /\ chan' = chan /\ handled' = handled
          /\ \/ wire' = wire
             \/ /\ Head(redis[1].keys) = link
                /\ wire' = Append(wire, redis[1].write)
      BY <1>0, <1>P, ReplyShape DEF Loop
    <2>2. CASE wire' = wire
      BY <1>2, <2>1, <2>2
    <2>3. CASE Head(redis[1].keys) = link /\ wire' = Append(wire, redis[1].write)
      <3>1. NotBefore({redis[1].write}, Arrived, earlier)
        BY <1>0, <1>P, <2>3, SentInTurn
      <3>2. Range(wire') = Range(wire) \cup {redis[1].write}
        BY <1>1, <2>1, <2>3, RangeAppend
      <3>3. NotBefore({redis[1].write}, Range(wire), earlier)
        BY <3>1 DEF Arrived, NotBefore
      <3>4. InTurn(wire', earlier)
        BY <1>1, <1>2, <2>1, <2>3, <3>3, InTurnAppend
      <3>5. /\ NotBefore(Range(chan) \cup Range(wire'), Range(handled), earlier)
            /\ NotBefore(Range(wire'), Range(chan), earlier)
        BY <1>2, <3>1, <3>2 DEF Arrived, NotBefore
      <3>. QED
        BY <1>2, <2>1, <3>4, <3>5
    <2>. QED
      BY <2>1, <2>2, <2>3
  <1>L. CASE LoseLink \/ RestartServer
    <2>1. wire' = <<>> /\ chan' = chan /\ handled' = handled
      BY <1>L DEF LoseLink, RestartServer, plc
    <2>. QED
      BY <1>2, <2>1, InTurnEmpty DEF NotBefore
  <1>A. CASE RestartAgent
    <2>1. wire' = <<>> /\ chan' = <<>> /\ handled' = handled
      BY <1>A DEF RestartAgent, plc
    <2>. QED
      BY <1>2, <2>1, InTurnEmpty DEF NotBefore
  <1>O. CASE UNCHANGED <<wire, chan, handled>>
    BY <1>2, <1>O
  <1>. QED
    BY <1>R, <1>E, <1>P, <1>L, <1>A, <1>O
       DEF Next, Give, Found, Connect, Stored, Disconnected, vars, network, plc

LEMMA TurnInvStep ==
  ASSUME OrderAssumption, PathInv, [Next]_vars
  PROVE  TurnInv'
  <1>0. TypeOK /\ TurnInv /\ SentInv
    BY DEF PathInv
  <1>1. /\ \A n \in DOMAIN turn' : order'[turn'[n]].pc = "sent"
        /\ \A m, n \in DOMAIN turn' : turn'[m] = turn'[n] => m = n
    BY <1>0, EarlierStep
  <1>2. ASSUME ~left'
        PROVE  /\ \A s \in {handled', chan', wire'} : InTurn(s, Earlier')
               /\ NotBefore(Range(chan') \cup Range(wire'), Range(handled'), Earlier')
               /\ NotBefore(Range(wire'), Range(chan'), Earlier')
    <2>1. /\ \A s \in {handled', chan', wire'} : InTurn(s, Earlier)
          /\ NotBefore(Range(chan') \cup Range(wire'), Range(handled'), Earlier)
          /\ NotBefore(Range(wire'), Range(chan'), Earlier)
      BY <1>2, ArrivedInTurn
    <2>2. CASE Earlier' = Earlier
      BY <2>1, <2>2
    <2>3. CASE \E o \in Orders : Found(o)
      <3>1. UNCHANGED <<wire, chan, handled>>
        BY <2>3 DEF Found, network, plc
      <3>2. \A w \in Arrived' : w.order \in Orders /\ order[w.order].pc = "sent"
        <4>1. Arrived' = Arrived /\ Arrived \subseteq Write
          BY <1>0, <3>1, ArrivedType DEF Arrived
        <4>. QED
          BY <1>0, <4>1 DEF SentInv, Write
      <3>3. \A v, w \in Arrived' : <<w.order, v.order>> \in Earlier'
                                     => <<w.order, v.order>> \in Earlier
        BY <1>0, <3>2, EarlierStep
      <3>4. Arrived' = Range(handled') \cup Range(chan') \cup Range(wire')
        BY DEF Arrived
      <3>. QED
        BY <2>1, <3>3, <3>4, InTurnLess DEF NotBefore
    <2>. QED
      BY <1>0, <2>2, <2>3, EarlierStep
  <1>. QED
    BY <1>1, <1>2 DEF TurnInv

\* The orders of what has arrived and of the loops were found.
LEMMA TurnsKnown ==
  ASSUME OrderAssumption, PathInv, [Next]_vars
  PROVE  /\ \A w \in Arrived : w.order \in Orders /\ order[w.order].pc = "sent"
         /\ \A j \in DOMAIN redis : /\ redis[j].write.order \in Orders
                                    /\ order[redis[j].write.order].pc = "sent"
                                    /\ redis[j].keys \in Seq(Sockets \cup Others)
         /\ \A v, w \in Orders : <<v, w>> \in Earlier' /\ order[v].pc = "sent"
                                 /\ order[w].pc = "sent" => <<v, w>> \in Earlier
  <1>1. TypeOK /\ SentInv /\ TurnInv
    BY DEF PathInv
  <1>2. Arrived \subseteq Write
    BY <1>1, ArrivedType
  <1>3. \A j \in DOMAIN redis : redis[j] \in Loop
    BY <1>1 DEF TypeOK
  <1>4. \A w \in Arrived : w.order \in Orders /\ order[w.order].pc = "sent"
    BY <1>1, <1>2 DEF SentInv, Write
  <1>5. \A j \in DOMAIN redis : /\ redis[j].write.order \in Orders
                              /\ order[redis[j].write.order].pc = "sent"
                              /\ redis[j].keys \in Seq(Sockets \cup Others)
    BY <1>1, <1>3 DEF SentInv, Loop, Write
  <1>6. \A v, w \in Orders : <<v, w>> \in Earlier' /\ order[v].pc = "sent"
                                 /\ order[w].pc = "sent" => <<v, w>> \in Earlier
    BY <1>1, EarlierStep
  <1>. QED
    BY <1>4, <1>5, <1>6

\* A step that leaves the loops and the link alone.
LEMMA LoopTurnsStay ==
  ASSUME OrderAssumption, PathInv, [Next]_vars, redis' = redis, link' = link,
         ~left' => \A c \in DOMAIN store' : \A j \in DOMAIN redis :
           store'[c] = link /\ Contains(redis[j].keys, link)
             => c \in DOMAIN store /\ store[c] = link,
         Arrived' \subseteq Arrived
  PROVE  LoopTurnInv'
  <1>1. TypeOK
    BY DEF PathInv
  <1> SUFFICES ASSUME ~left',
                      NEW j \in DOMAIN redis, NEW b \in DOMAIN redis[j].keys,
                      redis[j].keys[b] = link
               PROVE  /\ NotBefore({redis[j].write}, Arrived', Earlier')
                      /\ \A c \in DOMAIN store' : store'[c] = link => b <= c
                      /\ \A i \in DOMAIN redis : \A a \in DOMAIN redis[i].keys :
                           /\ redis[i].keys[a] = link
                           /\ <<redis[i].write.order, redis[j].write.order>> \in Earlier'
                           => a < b \/ (a = b /\ i < j)
    BY DEF LoopTurnInv
  <1>2. /\ NotBefore({redis[j].write}, Arrived, Earlier)
        /\ \A c \in DOMAIN store : store[c] = link => b <= c
        /\ \A i \in DOMAIN redis : \A a \in DOMAIN redis[i].keys :
             /\ redis[i].keys[a] = link
             /\ <<redis[i].write.order, redis[j].write.order>> \in Earlier
             => a < b \/ (a = b /\ i < j)
    BY <1>1, LeftStays DEF PathInv, LoopTurnInv
  <1>3. Contains(redis[j].keys, link)
    BY TurnsKnown, LenProperties DEF Contains
  <1>. QED
    BY <1>2, <1>3, TurnsKnown DEF NotBefore

\* New loops are of the last order, and go as far as the store does.
LEMMA LoopTurnsFound ==
  ASSUME OrderAssumption, PathInv, NEW o \in Orders, Found(o)
  PROVE  LoopTurnInv'
  <1>0. TypeOK /\ TurnInv /\ [Next]_vars /\ order[o].pc = "asked"
    BY DEF PathInv, Next, Found
  <1>1. redis' \in Seq(Loop) /\ Len(redis) \in Nat /\ DOMAIN redis = 1 .. Len(redis)
    <2>1. TypeOK' /\ Loop' = Loop
      BY <1>0, StepTypes, SentStays, SamePlc
    <2>. QED
      BY <1>0, <2>1 DEF TypeOK
  <1>2. link' = link /\ store' = store /\ Arrived' = Arrived /\ left' = left
    BY DEF Found, network, plc, Arrived
  <1> SUFFICES ASSUME ~left,
                      NEW j \in DOMAIN redis', NEW b \in DOMAIN redis'[j].keys,
                      redis'[j].keys[b] = link
               PROVE  /\ NotBefore({redis'[j].write}, Arrived, Earlier')
                      /\ \A c \in DOMAIN store : store[c] = link => b <= c
                      /\ \A i \in DOMAIN redis' : \A a \in DOMAIN redis'[i].keys :
                           /\ redis'[i].keys[a] = link
                           /\ <<redis'[i].write.order, redis'[j].write.order>> \in Earlier'
                           => a < b \/ (a = b /\ i < j)
    BY <1>2 DEF LoopTurnInv
  <1>3. ASSUME NEW n \in DOMAIN redis'
        PROVE  \/ n \in DOMAIN redis /\ redis'[n] = redis[n]
               \/ /\ redis'[n].write.order = o /\ redis'[n].keys = store
                  /\ \A i \in DOMAIN redis : i < n
    <2>1. CASE n \in DOMAIN redis /\ redis'[n] = redis[n]
      BY <2>1
    <2>2. ASSUME NEW m \in 1 .. Len(Data(o)) + 1, n = Len(redis) + m,
                 redis'[n] = [write |-> Writes(o)[m], keys |-> store]
          PROVE  /\ redis'[n].write.order = o /\ redis'[n].keys = store
                 /\ \A i \in DOMAIN redis : i < n
      <3>1. Writes(o)[m].order = o /\ Len(Data(o)) \in Nat
        BY <1>0, <2>2, WritesShape
      <3>. QED
        BY <1>1, <2>2, <3>1
    <2>. QED
      BY SMTT(30), <1>0, <1>1, <2>1, <2>2, FoundIndex
  <1>4. \A p \in Orders : <<o, p>> \notin Earlier'
    BY <1>0, EarlierStep
  <1>5. \A n \in DOMAIN redis' : redis'[n].write.order \in Orders
    BY <1>0, <1>3, TurnsKnown
  <1>6. CASE j \in DOMAIN redis /\ redis'[j] = redis[j]
    <2>1. /\ NotBefore({redis[j].write}, Arrived, Earlier)
          /\ \A c \in DOMAIN store : store[c] = link => b <= c
          /\ \A i \in DOMAIN redis : \A a \in DOMAIN redis[i].keys :
               /\ redis[i].keys[a] = link
               /\ <<redis[i].write.order, redis[j].write.order>> \in Earlier
               => a < b \/ (a = b /\ i < j)
      BY <1>6 DEF PathInv, LoopTurnInv
    <2>2. NotBefore({redis'[j].write}, Arrived, Earlier')
      BY <1>0, <1>6, <2>1, TurnsKnown DEF NotBefore
    <2>3. ASSUME NEW i \in DOMAIN redis', NEW a \in DOMAIN redis'[i].keys,
                 redis'[i].keys[a] = link,
                 <<redis'[i].write.order, redis'[j].write.order>> \in Earlier'
          PROVE  a < b \/ (a = b /\ i < j)
      <3>1. redis'[i].write.order # o
        BY <1>4, <1>5, <2>3
      <3>2. i \in DOMAIN redis /\ redis'[i] = redis[i]
        BY <1>3, <3>1
      <3>3. <<redis[i].write.order, redis[j].write.order>> \in Earlier
        BY <1>0, <1>6, <2>3, <3>2, TurnsKnown
      <3>. QED
        BY <1>6, <2>1, <2>3, <3>2, <3>3
    <2>. QED
      BY <2>1, <2>2, <2>3
  <1>7. CASE /\ redis'[j].write.order = o /\ redis'[j].keys = store
             /\ \A i \in DOMAIN redis : i < j
    <2>1. NotBefore({redis'[j].write}, Arrived, Earlier')
      BY <1>0, <1>4, <1>7, TurnsKnown DEF NotBefore
    <2>2. b \in DOMAIN store /\ store[b] = link
      BY <1>7
    <2>3. \A c \in DOMAIN store : store[c] = link => b <= c
      <3>1. link \in Sockets /\ b \in Nat
        <4>1. store \in Seq(Sockets \cup Others) /\ Range(store) \in SUBSET (Sockets \cup Others)
          BY <1>0, RangeOfSeq DEF TypeOK
        <4>2. link \in Range(store) /\ b \in Nat
          BY <2>2, <4>1 DEF Range
        <4>. QED
          BY <1>0, <4>1, <4>2 DEF TypeOK, OrderAssumption
      <3>. QED
        BY <2>2, <3>1 DEF PathInv, StoredOnce
    <2>4. ASSUME NEW i \in DOMAIN redis', NEW a \in DOMAIN redis'[i].keys,
                 redis'[i].keys[a] = link,
                 <<redis'[i].write.order, redis'[j].write.order>> \in Earlier'
          PROVE  a < b \/ (a = b /\ i < j)
      <3>1. redis'[i].write.order # o
        BY <1>4, <1>5, <2>4
      <3>2. i \in DOMAIN redis /\ redis'[i] = redis[i] /\ i < j
        BY <1>3, <1>7, <3>1
      <3>3. a <= b
        BY <2>2, <2>4, <3>2 DEF PathInv, LoopTurnInv
      <3>4. a \in Nat /\ b \in Nat
        <4>1. store \in Seq(Sockets \cup Others) /\ redis[i].keys \in Seq(Sockets \cup Others)
          BY <1>0, <3>2, TurnsKnown DEF TypeOK
        <4>. QED
          BY <2>2, <2>4, <3>2, <4>1
      <3>. QED
        BY <3>2, <3>3, <3>4
    <2>. QED
      BY <2>1, <2>3, <2>4
  <1>. QED
    BY <1>3, <1>6, <1>7

\* A loop goes on: if it has come to the agent's socket, no loop of an earlier
\* order has that before it.
LEMMA LoopTurnsReply ==
  ASSUME OrderAssumption, PathInv, Reply
  PROVE  LoopTurnInv'
  <1> DEFINE L == Len(redis)
  <1>0. TypeOK /\ [Next]_vars
    BY DEF PathInv, Next
  <1>1. /\ L \in Nat \ {0} /\ DOMAIN redis = 1 .. L
        /\ redis' \in Seq(Loop) /\ \A i \in DOMAIN redis' : i \in Nat
        /\ \A i \in DOMAIN redis : redis[i] \in Loop
    <2>1. TypeOK' /\ Loop' = Loop
      BY <1>0, StepTypes, SentStays, SamePlc
    <2>2. redis \in Seq(Loop) /\ redis' \in Seq(Loop)
      BY <1>0, <2>1 DEF TypeOK
    <2>. QED
      BY <1>0, <2>2, ReplyShape
  <1>2. /\ link' = link /\ store' = store /\ left' = left /\ Earlier' = Earlier
        /\ Arrived' \subseteq Arrived \cup {redis[1].write}
        /\ Head(redis[1].keys) # link => Arrived' = Arrived
    <2>1. turn' = turn /\ left' = left
      BY DEF Reply, server
    <2>2. Earlier' = Earlier
      BY <2>1 DEF Earlier, Before
    <2>. QED
      BY <1>0, <2>1, <2>2, ReplyShape, ArrivedStep DEF Arrived
  <1> HIDE DEF L
  <1>3. 1 \in DOMAIN redis
    BY <1>1
  <1>4. \A i \in DOMAIN redis :
          /\ redis[i].keys \in Seq(Sockets \cup Others) /\ redis[i].keys # <<>>
          /\ redis[i].write.order \in Orders
    BY <1>1 DEF Loop, Write
  \* Where the loop n was, and its place for the key at a.
  <1>5. ASSUME NEW n \in DOMAIN redis', NEW a \in DOMAIN redis'[n].keys
        PROVE  \E q \in DOMAIN redis : \E c \in DOMAIN redis[q].keys :
                 /\ redis'[n].write = redis[q].write
                 /\ redis'[n].keys[a] = redis[q].keys[c]
                 /\ a \in Nat /\ c \in Nat \ {0}
                 /\ (q = n + 1 /\ c = a) \/ (q = 1 /\ n = L /\ c = a + 1)
    <2>1. CASE n + 1 \in DOMAIN redis /\ redis'[n] = redis[n + 1]
      <3>1. a \in DOMAIN redis[n + 1].keys /\ a \in Nat \ {0}
        BY <1>4, <2>1
      <3>. QED
        BY <2>1, <3>1
    <2>2. CASE /\ n = L /\ redis'[n].write = redis[1].write
               /\ redis'[n].keys = Tail(redis[1].keys)
      <3>1. /\ a \in Nat /\ a + 1 \in DOMAIN redis[1].keys
            /\ redis'[n].keys[a] = redis[1].keys[a + 1] /\ a + 1 \in Nat \ {0}
        <4>1. redis[1].keys \in Seq(Sockets \cup Others) /\ redis[1].keys # <<>>
          BY <1>3, <1>4
        <4>2. a \in DOMAIN Tail(redis[1].keys)
          BY <2>2
        <4>. QED
          BY <2>2, <4>1, <4>2
      <3>. QED
        BY <1>3, <2>2, <3>1
    <2>. QED
      BY <1>0, <1>1, <2>1, <2>2, ReplyIndex DEF L
  <1> SUFFICES ASSUME ~left,
                      NEW j \in DOMAIN redis', NEW b \in DOMAIN redis'[j].keys,
                      redis'[j].keys[b] = link
               PROVE  /\ NotBefore({redis'[j].write}, Arrived', Earlier)
                      /\ \A c \in DOMAIN store : store[c] = link => b <= c
                      /\ \A i \in DOMAIN redis' : \A a \in DOMAIN redis'[i].keys :
                           /\ redis'[i].keys[a] = link
                           /\ <<redis'[i].write.order, redis'[j].write.order>> \in Earlier
                           => a < b \/ (a = b /\ i < j)
    BY <1>2 DEF LoopTurnInv
  <1>Q. PICK q \in DOMAIN redis : \E d \in DOMAIN redis[q].keys :
          /\ redis'[j].write = redis[q].write /\ redis[q].keys[d] = link
          /\ b \in Nat /\ d \in Nat \ {0}
          /\ (q = j + 1 /\ d = b) \/ (q = 1 /\ j = L /\ d = b + 1)
    BY <1>5
  <1>6. PICK d \in DOMAIN redis[q].keys :
          /\ redis'[j].write = redis[q].write /\ redis[q].keys[d] = link
          /\ b \in Nat /\ d \in Nat \ {0}
          /\ (q = j + 1 /\ d = b) \/ (q = 1 /\ j = L /\ d = b + 1)
    BY <1>Q
  <1>7. /\ NotBefore({redis[q].write}, Arrived, Earlier)
        /\ \A c \in DOMAIN store : store[c] = link => d <= c
        /\ \A i \in DOMAIN redis : \A a \in DOMAIN redis[i].keys :
             /\ redis[i].keys[a] = link
             /\ <<redis[i].write.order, redis[q].write.order>> \in Earlier
             => a < d \/ (a = d /\ i < q)
    BY <1>6 DEF PathInv, LoopTurnInv
  <1>8. NotBefore({redis'[j].write}, Arrived', Earlier)
    <2>1. CASE Head(redis[1].keys) # link
      BY <1>2, <1>6, <1>7, <2>1
    <2>2. CASE Head(redis[1].keys) = link
      <3>1. redis[1].keys[1] = link /\ 1 \in DOMAIN redis[1].keys
        BY <1>3, <1>4, <2>2
      <3>2. /\ \A i \in DOMAIN redis : \A a \in DOMAIN redis[i].keys :
                 /\ redis[i].keys[a] = link
                 /\ <<redis[i].write.order, redis[1].write.order>> \in Earlier
                 => a < 1 \/ (a = 1 /\ i < 1)
        BY <1>3, <3>1 DEF PathInv, LoopTurnInv
      <3>3. ~(d < 1) /\ ~(q < 1)
        BY <1>1, <1>6
      <3>4. <<redis[q].write.order, redis[1].write.order>> \notin Earlier
        BY <1>6, <3>2, <3>3
      <3>. QED
        BY <1>2, <1>6, <1>7, <3>4 DEF NotBefore
    <2>. QED
      BY <2>1, <2>2
  <1>9. \A c \in DOMAIN store : store[c] = link => b <= c
    <2>1. \A c \in DOMAIN store : c \in Nat
      BY <1>0 DEF TypeOK
    <2>. QED
      BY <1>6, <1>7, <2>1
  <1>10. ASSUME NEW i \in DOMAIN redis', NEW a \in DOMAIN redis'[i].keys,
                redis'[i].keys[a] = link,
                <<redis'[i].write.order, redis'[j].write.order>> \in Earlier
         PROVE  a < b \/ (a = b /\ i < j)
    <2>P. PICK p \in DOMAIN redis : \E c \in DOMAIN redis[p].keys :
            /\ redis'[i].write = redis[p].write /\ redis[p].keys[c] = link
            /\ a \in Nat /\ c \in Nat \ {0}
            /\ (p = i + 1 /\ c = a) \/ (p = 1 /\ i = L /\ c = a + 1)
      BY <1>5, <1>10
    <2>1. PICK c \in DOMAIN redis[p].keys :
            /\ redis'[i].write = redis[p].write /\ redis[p].keys[c] = link
            /\ a \in Nat /\ c \in Nat \ {0}
            /\ (p = i + 1 /\ c = a) \/ (p = 1 /\ i = L /\ c = a + 1)
      BY <2>P
    <2>2. c < d \/ (c = d /\ p < q)
      BY <1>6, <1>7, <1>10, <2>1
    <2>3. i \in Nat /\ j \in Nat /\ p \in 1 .. L /\ q \in 1 .. L
      BY <1>1
    <2>4. p # q
      <3>1. <<redis[p].write.order, redis[q].write.order>> \in Earlier
        BY <1>6, <1>10, <2>1
      <3>. QED
        BY <1>0, <1>4, <3>1, EarlierStep DEF PathInv
    <2>. QED
      BY <1>1, <1>6, <2>1, <2>2, <2>3, <2>4
  <1>. QED
    BY <1>8, <1>9, <1>10

LEMMA LoopTurnStep ==
  ASSUME OrderAssumption, PathInv, [Next]_vars
  PROVE  LoopTurnInv'
  <1>0. TypeOK /\ SocketInv
    BY DEF PathInv
  <1>1. \A j \in DOMAIN redis : redis[j].keys \in Seq(Sockets \cup Others)
    BY TurnsKnown
  <1>2. \A j \in DOMAIN redis : \A b : b \in DOMAIN redis[j].keys
                                     => Contains(redis[j].keys, redis[j].keys[b])
    BY <1>1, LenProperties DEF Contains
  <1>3. ASSUME redis' = redis, \A j \in DOMAIN redis : ~Contains(redis[j].keys, link')
        PROVE  LoopTurnInv'
    BY <1>2, <1>3 DEF LoopTurnInv
  <1>L. CASE LoseLink \/ RestartAgent
    <2>1. redis' = redis /\ link' = None
      BY <1>L DEF LoseLink, RestartAgent, gateway
    <2>2. None \notin Sockets \cup Others
      BY DEF OrderAssumption
    <2>3. \A j \in DOMAIN redis : Range(redis[j].keys) \in SUBSET (Sockets \cup Others)
      BY <1>1, RangeOfSeq
    <2>4. \A j \in DOMAIN redis : ~Contains(redis[j].keys, None)
      BY <1>1, <2>2, <2>3, ContainsRange
    <2>. QED
      BY <1>3, <2>1, <2>4
  <1>S. CASE RestartServer
    <2>1. redis' = <<>>
      BY <1>S DEF RestartServer
    <2>. QED
      BY <2>1 DEF LoopTurnInv
  <1>C. ASSUME NEW k \in Sockets, Connect(k) PROVE LoopTurnInv'
    <2>1. redis' = redis /\ link' = k /\ conn[k] = "free"
      BY <1>C DEF Connect
    <2>2. \A j \in DOMAIN redis : ~Contains(redis[j].keys, k)
      BY <1>0, <2>1 DEF SocketInv, Known
    <2>. QED
      BY <1>3, <2>1, <2>2
  <1>T. ASSUME NEW k \in Sockets, Stored(k) PROVE LoopTurnInv'
    <2>1. /\ redis' = redis /\ link' = link /\ store' = Append(store, k)
          /\ conn[k] = "new" /\ Arrived' = Arrived
      BY <1>T DEF Stored, network, plc, Arrived
    <2>2. \A j \in DOMAIN redis : ~Contains(redis[j].keys, k)
      BY <1>0, <2>1 DEF SocketInv, Known
    <2>3. \A c \in DOMAIN store' : store'[c] = link => link = k \/ (c \in DOMAIN store /\ store[c] = link)
      BY <1>0, <2>1 DEF TypeOK
    <2>. QED
      BY <2>1, <2>2, <2>3, LoopTurnsStay
  <1>D. ASSUME NEW k \in Sockets \cup Others, Disconnected(k) PROVE LoopTurnInv'
    <2>1. redis' = redis /\ (~left' => redis = <<>>)
      BY <1>D DEF Disconnected
    <2>. QED
      BY <2>1 DEF LoopTurnInv
  <1>R. CASE Receive \/ Execute
    <2>1. redis' = redis /\ link' = link /\ store' = store
      BY <1>R DEF Receive, Execute, gateway, network
    <2>2. Arrived' \subseteq Arrived
      BY <1>0, <1>R, ArrivedStep
    <2>. QED
      BY <2>1, <2>2, LoopTurnsStay
  <1>O. CASE UNCHANGED <<redis, store, link, wire, chan, handled>>
    <2>1. Arrived' = Arrived
      BY <1>O DEF Arrived
    <2>. QED
      BY <1>O, <2>1, LoopTurnsStay
  <1>. QED
    BY <1>L, <1>S, <1>C, <1>T, <1>D, <1>R, <1>O, LoopTurnsFound, LoopTurnsReply
       DEF Next, Give, vars, gateway, network, plc

LEMMA StoredOnceStep ==
  ASSUME OrderAssumption, PathInv, [Next]_vars
  PROVE  StoredOnce'
  <1>1. /\ store \in Seq(Sockets \cup Others) /\ Len(store) \in Nat
        /\ DOMAIN store = 1 .. Len(store) /\ Known(store) /\ StoredOnce
    BY DEF PathInv, TypeOK, SocketInv
  <1>T. ASSUME NEW k \in Sockets, Stored(k) PROVE StoredOnce'
    <2>1. store' = Append(store, k) /\ ~Contains(store, k)
      BY <1>1, <1>T DEF Stored, Known
    <2>2. /\ DOMAIN store' = 1 .. Len(store) + 1 /\ store'[Len(store) + 1] = k
          /\ \A n \in 1 .. Len(store) : store'[n] = store[n] /\ store[n] # k
      BY <1>1, <2>1 DEF Contains
    <2>3. \A n \in DOMAIN store' : n = Len(store) + 1 \/ n \in 1 .. Len(store)
      BY <1>1, <2>2
    <2>. QED
      BY <1>1, <2>2, <2>3 DEF StoredOnce
  <1>D. ASSUME NEW k \in Sockets \cup Others, Disconnected(k) PROVE StoredOnce'
    <2>1. PICK n \in 1 .. Len(store) : store' = RemoveAt(store, n)
      BY <1>1, <1>D DEF Disconnected
    <2>2. /\ DOMAIN store' = 1 .. Len(store) - 1
          /\ \A i \in 1 .. Len(store) - 1 :
               store'[i] = IF i < n THEN store[i] ELSE store[i + 1]
      <3> DEFINE front == SubSeq(store, 1, n - 1)
                 back  == SubSeq(store, n + 1, Len(store))
      <3>1. /\ front \in Seq(Sockets \cup Others) /\ Len(front) = n - 1
            /\ \A i \in 1 .. n - 1 : front[i] = store[i]
        BY <1>1, SubSeqProperties
      <3>2. /\ back \in Seq(Sockets \cup Others) /\ Len(back) = Len(store) - n
            /\ \A i \in 1 .. Len(store) - n : back[i] = store[n + i]
        <4> DEFINE m == n + 1
        <4>1. \A i \in m .. Len(store) : store[i] \in Sockets \cup Others
          BY <1>1
        <4>2. m \in Int /\ Len(store) \in Int
          BY <1>1
        <4> HIDE DEF m
        <4>3. /\ back = SubSeq(store, m, Len(store))
              /\ back \in Seq(Sockets \cup Others)
              /\ Len(back) = IF m <= Len(store) THEN Len(store) - m + 1 ELSE 0
              /\ \A i \in 1 .. Len(store) - m + 1 : back[i] = store[m + i - 1]
          <5>1. back = SubSeq(store, m, Len(store))
            BY DEF m
          <5> HIDE DEF back
          <5>2. QED
            BY <4>1, <4>2, <5>1, SubSeqProperties
        <4> HIDE DEF back
        <4>4. Len(store) - m + 1 = Len(store) - n /\ \A i \in Int : m + i - 1 = n + i
          BY <1>1, <2>1 DEF m
        <4>5. /\ m <= Len(store) => Len(store) - m + 1 = Len(store) - n
              /\ ~(m <= Len(store)) => Len(store) - n = 0
          <5>1. \A l \in Nat : \A c \in 1 .. l :
                  /\ c + 1 <= l => l - (c + 1) + 1 = l - c
                  /\ ~(c + 1 <= l) => l - c = 0
            OBVIOUS
          <5>. QED
            BY <1>1, <2>1, <5>1 DEF m
        <4>6. \A i \in 1 .. Len(store) - n : i \in Int
          BY <1>1, <2>1
        <4>. QED
          BY <4>3, <4>4, <4>5, <4>6
      <3>3. store' = front \o back
        BY <2>1 DEF RemoveAt
      <3> HIDE DEF front, back
      <3>4. /\ store' \in Seq(Sockets \cup Others) /\ Len(store') = Len(store) - 1
            /\ \A i \in 1 .. Len(store) - 1 :
                 store'[i] = IF i <= n - 1 THEN front[i] ELSE back[i - (n - 1)]
        <4>1. Len(front) + Len(back) = Len(store) - 1
          <5>1. \A l \in Nat : \A c \in 1 .. l : (c - 1) + (l - c) = l - 1
            OBVIOUS
          <5>. QED
            BY <1>1, <2>1, <3>1, <3>2, <5>1
        <4>2. /\ front \o back \in Seq(Sockets \cup Others)
              /\ Len(front \o back) = Len(store) - 1
              /\ \A i \in 1 .. Len(store) - 1 : (front \o back)[i] =
                   IF i <= Len(front) THEN front[i] ELSE back[i - Len(front)]
          <5>0. front \in Seq(Sockets \cup Others) /\ back \in Seq(Sockets \cup Others)
            BY <3>1, <3>2
          <5> HIDE DEF front, back
          <5> DEFINE l == Len(front) + Len(back)
          <5>1. /\ front \o back \in Seq(Sockets \cup Others)
                /\ Len(front \o back) = l
                /\ \A i \in 1 .. l : (front \o back)[i] =
                     IF i <= Len(front) THEN front[i] ELSE back[i - Len(front)]
            BY <5>0, ConcatProperties
          <5>2. l = Len(store) - 1
            BY <4>1
          <5> HIDE DEF l
          <5>. QED
            BY <5>1, <5>2
        <4>3. Len(front) = n - 1
          BY <3>1
        <4> HIDE DEF front, back
        <4>4. /\ store' \in Seq(Sockets \cup Others) /\ Len(store') = Len(store) - 1
              /\ \A i \in 1 .. Len(store) - 1 : store'[i] =
                   IF i <= Len(front) THEN front[i] ELSE back[i - Len(front)]
          BY <3>3, <4>2
        <4>. QED
          BY <4>3, <4>4, Zenon
      <3>5. ASSUME NEW i \in 1 .. Len(store) - 1
            PROVE  store'[i] = IF i < n THEN store[i] ELSE store[i + 1]
        <4>1. CASE i < n
          BY <1>1, <3>1, <3>4, <4>1
        <4>2. CASE ~(i < n)
          <5>1. i - (n - 1) \in 1 .. Len(store) - n /\ n + (i - (n - 1)) = i + 1
            BY <1>1, <4>2
          <5>. QED
            BY <1>1, <3>2, <3>4, <4>2, <5>1
        <4>. QED
          BY <4>1, <4>2
      <3>. QED
        BY <3>4, <3>5
    <2>3. \A i \in 1 .. Len(store) - 1 : i \in 1 .. Len(store) /\ i + 1 \in 1 .. Len(store)
      BY <1>1
    <2> SUFFICES ASSUME NEW s \in Sockets, NEW i \in 1 .. Len(store) - 1,
                        NEW j \in 1 .. Len(store) - 1, store'[i] = s, store'[j] = s
                 PROVE  i = j
      BY <2>2 DEF StoredOnce
    <2>4. \A x, y \in DOMAIN store : store[x] = s /\ store[y] = s => x = y
      BY <1>1 DEF StoredOnce
    <2>5. PICK x \in DOMAIN store : store[x] = s /\ x = IF i < n THEN i ELSE i + 1
      BY <1>1, <2>2, <2>3
    <2>6. PICK y \in DOMAIN store : store[y] = s /\ y = IF j < n THEN j ELSE j + 1
      BY <1>1, <2>2, <2>3
    <2>7. x = y
      BY <2>4, <2>5, <2>6
    <2>8. i \in Nat /\ j \in Nat /\ n \in Nat
      BY <1>1
    <2>. QED
      BY <2>5, <2>6, <2>7, <2>8
  <1>S. CASE RestartServer
    BY <1>S DEF RestartServer, StoredOnce
  <1>O. CASE store' = store
    BY <1>1, <1>O DEF StoredOnce
  <1>. QED
    BY <1>T, <1>D, <1>S, <1>O
       DEF Next, Give, Found, Reply, Receive, Execute, Connect, LoseLink,
           RestartAgent, vars, gateway

LEMMA InitPath == ASSUME OrderAssumption, Init PROVE PathInv
  <1>1. TypeOK
    BY InitTypes
  <1>2. redis = <<>> /\ handled = <<>> /\ chan = <<>> /\ wire = <<>>
    BY DEF Init
  <1>3. SentInv
    BY <1>2 DEF SentInv, Arrived, Range
  <1>4. SocketInv
    <2>1. Cardinality(Others) \in Nat
      BY FS_CardinalityType DEF OrderAssumption
    <2>2. store \in Seq(Others)
      <3>1. store \in [1..Cardinality(Others) -> Others]
        BY DEF Init
      <3>. QED
        BY <2>1, <3>1, ListIsSeq
    <2>3. \A k \in Sockets : ~Contains(store, k)
      <3>1. Range(store) \in SUBSET Others
        BY <2>2, RangeOfSeq
      <3>. QED
        BY <2>2, <3>1, ContainsRange DEF OrderAssumption
    <2>. QED
      BY <1>2, <2>3 DEF SocketInv, Known
  <1>5. PipeInv
    BY <1>2, FollowsEmpty DEF PipeInv
  <1>6. LoopInv /\ LoopTurnInv
    BY <1>2 DEF LoopInv, LoopTurnInv
  <1>7. TurnInv
    <2>1. turn = <<>>
      BY DEF Init
    <2>2. \A s \in {handled, chan, wire} : InTurn(s, Earlier) /\ Range(s) = {}
      BY <1>2, InTurnEmpty
    <2>3. \A n \in DOMAIN turn : FALSE
      BY <2>1
    <2>. QED
      BY <2>2, <2>3 DEF TurnInv, NotBefore
  <1>8. StoredOnce
    <2>1. store \in [1 .. Cardinality(Others) -> Others]
      BY DEF Init
    <2>. QED
      BY <2>1 DEF StoredOnce, OrderAssumption
  <1>. QED
    BY <1>1, <1>3, <1>4, <1>5, <1>6, <1>7, <1>8 DEF PathInv

\* PathInv holds in every state, for any number of orders and connections: the
\* loops of an order's values stay ahead of its trigger's wherever it can still
\* reach the agent, and what the agent gets keeps that order on its way.
THEOREM PathInvariant == ASSUME OrderAssumption PROVE Spec => []PathInv
  <1>1. Init => PathInv
    BY InitPath
  <1>2. PathInv /\ [Next]_vars => PathInv'
    <2> SUFFICES ASSUME PathInv, [Next]_vars PROVE PathInv'
      OBVIOUS
    <2>1. TypeOK /\ SentInv /\ SocketInv
      BY DEF PathInv
    <2>2. TypeOK' /\ SentInv' /\ SocketInv'
      BY <2>1, StepTypes, SentStep, SocketStep
    <2>3. PipeInv' /\ LoopInv' /\ TurnInv' /\ StoredOnce' /\ LoopTurnInv'
      BY PipeStep, LoopStep, TurnInvStep, StoredOnceStep, LoopTurnStep
    <2>. QED
      BY <2>2, <2>3 DEF PathInv
  <1>. QED
    BY <1>1, <1>2, PTL DEF Spec

\* The PLC never gets an order's trigger before those of its values that the
\* agent can parse, whatever is lost, restarted, overtaken or refused.
THEOREM TriggersWait == ASSUME OrderAssumption PROVE Spec => []TriggerFollowsData
  <1>1. ASSUME PathInv PROVE TriggerFollowsData
    <2> DEFINE need == [o \in Orders |-> Needed(o)]
    <2>1. Follows(handled, {}, need) /\ handled \in Seq(Write)
      BY <1>1 DEF PathInv, PipeInv, TypeOK
    <2>2. \A n \in DOMAIN handled : handled[n].order \in Orders
      <3>1. \A n \in DOMAIN handled : handled[n] \in Write
        BY <2>1, ElementOfSeq, LenProperties
      <3>. QED
        BY <3>1 DEF Write
    <2>3. \A n \in DOMAIN handled : need[handled[n].order] = Needed(handled[n].order)
      BY <2>2
    <2> HIDE DEF need
    <2>. QED
      BY <2>1, <2>3 DEF Follows, TriggerFollowsData
  <1>. QED
    BY <1>1, PathInvariant, PTL

\* Orders reach the PLC one after another, in the order in which their
\* processes were found, unless the server forgets a socket while one of its
\* loops is under way.
THEOREM OrdersKeepTurn == ASSUME OrderAssumption PROVE Spec => []OrdersInTurn
  <1>1. ASSUME PathInv PROVE OrdersInTurn
    <2>1. handled \in Seq(Write) /\ (~left => InTurn(handled, Earlier))
      BY <1>1 DEF PathInv, TypeOK, TurnInv
    <2>2. \A n \in DOMAIN handled : handled[n].order \in Orders
      <3>1. \A n \in DOMAIN handled : handled[n] \in Write
        BY <2>1, ElementOfSeq, LenProperties
      <3>. QED
        BY <3>1 DEF Write
    <2>. QED
      BY <2>1, <2>2 DEF OrdersInTurn, InTurn, Earlier
  <1>. QED
    BY <1>1, PathInvariant, PTL

=============================================================================
