-------------------------- MODULE PJONPackets_proofs --------------------------
(***************************************************************************)
(* Proofs about the packets of PJON.h.                                     *)
(*                                                                         *)
(* Their format (PJONFrame), for any devices, any configuration of each,   *)
(* and every packet the application may send: each field is read where it  *)
(* was written, the packet is taken by those it is for, and one of them    *)
(* answers.                                                                *)
(*                                                                         *)
(* The list they wait in (PJONSendList), for every number of slots, every  *)
(* back-off table and every use the application and the error handler      *)
(* make of it.                                                             *)
(***************************************************************************)
EXTENDS PJONSendList, PJONFrame, FiniteSetTheorems, TLAPS

-----------------------------------------------------------------------------
(* Sequences of cells, and what is found in them at an offset. *)

Cell     == Int \cup SUBSET Flags
Cells(S, n) == {s \in Seq(S) : Len(s) = n}

At(f, offset, s) == /\ offset + Len(s) <= Len(f)
                    /\ \A i \in 1 .. Len(s) : f[offset + i] = s[i]

LEMMA ConcatCells ==
  ASSUME NEW S, NEW m \in Nat, NEW n \in Nat, NEW s \in Cells(S, m), NEW t \in Cells(S, n)
  PROVE  /\ s \o t \in Cells(S, m + n)
         /\ \A i \in 1 .. m : (s \o t)[i] = s[i]
         /\ \A i \in 1 .. n : (s \o t)[m + i] = t[i]
BY DEF Cells

LEMMA AtWhole == ASSUME NEW f \in Seq(Cell) PROVE At(f, 0, f)
BY DEF At

\* What is found at an offset is found part by part.
LEMMA AtConcat ==
  ASSUME NEW f \in Seq(Cell), NEW o \in Nat, NEW m \in Nat, NEW n \in Nat,
         NEW s \in Cells(Cell, m), NEW t \in Cells(Cell, n), At(f, o, s \o t)
  PROVE  At(f, o, s) /\ At(f, o + m, t)
<1>1. Len(s) = m /\ Len(t) = n /\ Len(s \o t) = m + n BY DEF Cells
<1> DEFINE u == s \o t
<1>2. (\A i \in 1 .. m : u[i] = s[i]) /\ (\A i \in 1 .. n : u[m + i] = t[i])
  BY SMTT(30) DEF Cells
<1>3. /\ Len(f) \in Nat /\ o + (m + n) <= Len(f)
      /\ \A i \in 1 .. m + n : f[o + i] = u[i]
  BY <1>1 DEF At
<1> HIDE DEF u
<1>4. \A i \in 1 .. m : i \in 1 .. m + n OBVIOUS
<1>5. \A i \in 1 .. n : m + i \in 1 .. m + n /\ o + (m + i) = (o + m) + i OBVIOUS
<1>6. At(f, o, s) BY <1>1, <1>2, <1>3, <1>4 DEF At
<1>7. At(f, o + m, t)
  <2>1. \A i \in 1 .. n : f[(o + m) + i] = t[i] BY <1>2, <1>3, <1>5
  <2> QED BY <2>1, <1>1, <1>3 DEF At
<1> QED BY <1>6, <1>7

LEMMA AtCell ==
  ASSUME NEW f, NEW o, NEW n, NEW s \in Cells(Cell, n), At(f, o, s)
  PROVE  \A i \in 1 .. n : f[o + i] = s[i]
BY DEF At, Cells

\* Reading as many cells gives them back.
LEMMA AtSlice ==
  ASSUME NEW f \in Seq(Cell), NEW o \in Nat, NEW n \in Nat, NEW s \in Cells(Cell, n), At(f, o, s)
  PROVE  Slice(f, o, n) = s
<1>1. s \in Seq(Cell) /\ Len(s) = n /\ Len(f) \in Nat /\ o + n <= Len(f) BY DEF At, Cells
<1>2. \A i \in 1 .. n : Slice(f, o, n)[i] = f[o + i] BY <1>1 DEF Slice
<1>3. Slice(f, o, n) \in Seq(Cell) /\ Len(Slice(f, o, n)) = n BY <1>1 DEF Slice
<1>4. \A i \in 1 .. n : Slice(f, o, n)[i] = s[i] BY <1>2, AtCell
<1> QED BY <1>1, <1>3, <1>4

LEMMA NumbersAreCells ==
  ASSUME NEW n, NEW s \in Cells(Nat, n)
  PROVE  s \in Cells(Cell, n) /\ \A i \in 1 .. n : s[i] \in Nat
BY DEF Cell, Cells

LEMMA BytesType ==
  ASSUME NEW v \in Nat, NEW n \in Nat
  PROVE  Bytes(v, n) \in Cells(Nat, n) /\ \A i \in 1 .. n : Bytes(v, n)[i] = v
BY DEF Bytes, Cell, Cells

LEMMA PayloadType ==
  ASSUME NEW n \in Nat
  PROVE  Payload(n) \in Cells(Nat, n) /\ \A i \in 1 .. n : Payload(n)[i] \in Nat
BY DEF Payload, Cell, Cells

\* A number in two cells is read as it was written.
LEMMA PairType ==
  ASSUME NEW v \in Nat
  PROVE  /\ v \div ByteSize \in Nat /\ v % ByteSize \in Nat
         /\ (v \div ByteSize) * ByteSize + (v % ByteSize) = v
         /\ Pair(v) \in Cells(Nat, 2)
         /\ Pair(v)[1] = v \div ByteSize /\ Pair(v)[2] = v % ByteSize
         /\ v < ByteSize => v % ByteSize = v
<1>1. ByteSize \in Nat \ {0} BY FrameAssumption
<1>2. v \div ByteSize \in Nat /\ v % ByteSize \in Nat BY <1>1
<1>3. (v \div ByteSize) * ByteSize + (v % ByteSize) = v BY <1>1
<1>4. v < ByteSize => v % ByteSize = v BY <1>1
<1> QED BY <1>2, <1>3, <1>4 DEF Pair, Cell, Cells

-----------------------------------------------------------------------------
(* What a frame is made of. *)

LEMMA RequestType ==
  ASSUME NEW r \in Requests
  PROVE  /\ r.from \in Devices /\ Config[r.from] \in Device
         /\ r.id \in Nat /\ r.bus \in Nat /\ r.mac \in Nat /\ r.hops \in Nat
         /\ r.packet_id \in Nat /\ r.size \in Nat /\ PortOf(r) \in Nat
         /\ Config[r.from].id \in Nat /\ Config[r.from].bus \in Nat /\ Config[r.from].mac \in Nat
<1>1. r \in Request BY FrameAssumption
<1>2. r.from \in Devices /\ Config[r.from] \in Device BY <1>1, FrameAssumption DEF Request
<1>3. /\ r.id \in Nat /\ r.bus \in Nat /\ r.mac \in Nat /\ r.hops \in Nat
      /\ r.packet_id \in Nat /\ r.size \in Nat /\ r.port \in Nat
  BY <1>1 DEF Request
<1>4. /\ Config[r.from].id \in Nat /\ Config[r.from].bus \in Nat /\ Config[r.from].mac \in Nat
      /\ Config[r.from].port \in Nat
  BY <1>2 DEF Device
<1> QED BY <1>2, <1>3, <1>4 DEF PortOf

LEMMA HeaderType ==
  ASSUME NEW r \in Requests
  PROVE  /\ Header(r) \in SUBSET Flags
         /\ Asked(r) \subseteq WithCrc(r) /\ WithCrc(r) \subseteq Header(r)
         /\ Header(r) \subseteq Asked(r) \cup {"CRC", "EXT_LEN"}
<1>1. r \in Request /\ Config[r.from] \in Device BY RequestType, FrameAssumption
<1>2. Given(r) \in SUBSET Flags BY <1>1 DEF Given, Request, Device
<1>3. Asked(r) \in SUBSET Flags BY <1>2 DEF Asked, Flags
<1>4. WithCrc(r) \in SUBSET Flags /\ Asked(r) \subseteq WithCrc(r)
      /\ WithCrc(r) \subseteq Asked(r) \cup {"CRC"}
  BY <1>3 DEF WithCrc, Flags
<1>5. Header(r) \in SUBSET Flags /\ WithCrc(r) \subseteq Header(r)
      /\ Header(r) \subseteq WithCrc(r) \cup {"EXT_LEN"}
  BY <1>4 DEF Header, Flags
<1> QED BY <1>4, <1>5

LEMMA OverheadType ==
  ASSUME NEW h
  PROVE  /\ Overhead(h) \in Nat /\ CrcOverhead(h) \in Nat
         /\ CrcOverhead(h) + 4 <= Overhead(h) /\ Overhead(h) <= 43
BY DEF Overhead, CrcOverhead, Has

\* A packet whose length is in one byte fits it, and one with CRC8 has 15 bytes at most.
LEMMA TotalType ==
  ASSUME NEW r \in Requests
  PROVE  /\ Total(r) \in Nat /\ Total(r) = r.size + Overhead(Header(r))
         /\ "EXT_LEN" \notin Header(r) => Total(r) < ByteSize
         /\ "CRC" \notin Header(r) /\ "EXT_LEN" \notin Header(r) => Total(r) <= 15
         /\ "MAC" \in Header(r) => "CRC" \in Header(r)
<1>1. r.size \in Nat /\ ByteSize \in Nat BY RequestType, FrameAssumption
<1>2. Total(r) \in Nat /\ Total(r) = r.size + Overhead(Header(r)) BY <1>1, OverheadType DEF Total
<1>3. ASSUME "EXT_LEN" \notin Header(r) PROVE Header(r) = WithCrc(r) /\ Total(r) < ByteSize
  <2>1. ~(r.size + Overhead(WithCrc(r)) >= ByteSize) /\ Header(r) = WithCrc(r) BY <1>3 DEF Header
  <2>2. Overhead(WithCrc(r)) \in Nat BY OverheadType
  <2> QED BY <1>1, <1>2, <2>1, <2>2
<1>4. ASSUME "CRC" \notin Header(r), "EXT_LEN" \notin Header(r) PROVE Total(r) <= 15
  <2>1. "CRC" \notin WithCrc(r) BY <1>4, HeaderType
  <2>2. ~(r.size + Overhead(Asked(r)) > 15) /\ WithCrc(r) = Asked(r) BY <2>1 DEF WithCrc
  <2>3. Overhead(Asked(r)) \in Nat BY OverheadType
  <2> QED BY <1>1, <1>2, <1>3, <1>4, <2>2, <2>3
<1>5. ASSUME "MAC" \in Header(r), "CRC" \notin Header(r) PROVE FALSE
  <2>1. "MAC" \in Asked(r) /\ "CRC" \notin WithCrc(r) BY <1>5, HeaderType
  <2>2. r.size + Overhead(Asked(r)) <= 15
    <3>1. ~(r.size + Overhead(Asked(r)) > 15) BY <2>1 DEF WithCrc
    <3>2. Overhead(Asked(r)) \in Nat BY OverheadType
    <3> QED BY <3>1, <3>2, <1>1
  <2>3. Overhead(Asked(r)) >= 16 BY <2>1 DEF Overhead, Has
  <2>4. Overhead(Asked(r)) \in Nat BY OverheadType
  <2> QED BY <1>1, <2>2, <2>3, <2>4
<1> QED BY <1>2, <1>3, <1>4, <1>5

-----------------------------------------------------------------------------
(* Where the parts of a frame are. *)

\* The length is written in as many bytes as the header says.
Consistent(r) == "EXT_LEN" \in Header(r) => Extended(r)

Lengths(r) == IF Extended(r) THEN Pair(Total(r)) \o <<Crc8(4)>> ELSE <<Total(r) % ByteSize, Crc8(3)>>
Tail32(r)  == IF "CRC" \in Header(r) THEN Crc32(Total(r) - 4) ELSE <<Crc8(Total(r) - 1)>>

AddressesLen(h) == (IF "MODE" \in h THEN 5 + Has(h, "TX_INFO", 4) ELSE 0) + Has(h, "TX_INFO", 1)
OptionsLen(h)   == Has(h, "PACKET_ID", 2) + Has(h, "PORT", 2) + Has(h, "MAC", 12)

LEMMA IfType ==
  ASSUME NEW S, NEW flag, NEW h, NEW n \in Nat, NEW s \in Cells(S, n)
  PROVE  If(flag, h, s) \in Cells(S, Has(h, flag, n)) /\ Has(h, flag, n) \in Nat
BY DEF If, Has, Cells

LEMMA LengthsType ==
  ASSUME NEW r \in Requests
  PROVE  /\ Lengths(r) \in Cells(Cell, IF Extended(r) THEN 3 ELSE 2)
         /\ Total(r) < ByteSize /\ ~Extended(r) => Lengths(r)[1] = Total(r) /\ Lengths(r)[2] = Crc8(3)
         /\ Extended(r) => /\ Lengths(r)[1] * ByteSize + Lengths(r)[2] = Total(r)
                           /\ Lengths(r)[3] = Crc8(4)
<1>1. Total(r) \in Nat BY TotalType
<1>2. /\ Pair(Total(r)) \in Cells(Cell, 2)
      /\ Pair(Total(r))[1] * ByteSize + Pair(Total(r))[2] = Total(r)
      /\ Total(r) % ByteSize \in Nat /\ (Total(r) < ByteSize => Total(r) % ByteSize = Total(r))
  BY <1>1, PairType, NumbersAreCells
<1>3. <<Crc8(4)>> \in Cells(Cell, 1) BY DEF Crc8, Cell, Cells
<1>4. CASE Extended(r)
  <2>1. Lengths(r) = Pair(Total(r)) \o <<Crc8(4)>> BY <1>4 DEF Lengths
  <2> DEFINE a == Pair(Total(r))  b == <<Crc8(4)>>  c == a \o b
  <2>2. a \in Cells(Cell, 2) /\ b \in Cells(Cell, 1) /\ b[1] = Crc8(4) BY <1>2, <1>3
  <2>3. a[1] * ByteSize + a[2] = Total(r) BY <1>2
  <2> HIDE DEF a, b
  <2>4. /\ c \in Cells(Cell, 2 + 1)
        /\ \A i \in 1 .. 2 : c[i] = a[i]
        /\ \A i \in 1 .. 1 : c[2 + i] = b[i]
    <3> DEFINE m == 2  n == 1
    <3>1. m \in Nat /\ n \in Nat /\ a \in Cells(Cell, m) /\ b \in Cells(Cell, n) BY <2>2
    <3> HIDE DEF m, n
    <3>2. /\ c \in Cells(Cell, m + n)
          /\ \A i \in 1 .. m : c[i] = a[i]
          /\ \A i \in 1 .. n : c[m + i] = b[i]
      BY <3>1 DEF Cells
    <3> QED BY <3>2 DEF m, n
  <2> HIDE DEF c
  <2>5. c[1] = a[1] /\ c[2] = a[2] /\ c[3] = b[1] /\ c \in Cells(Cell, 3)
    <3>1. 2 + 1 = 3 /\ 1 \in 1 .. 2 /\ 2 \in 1 .. 2 /\ 1 \in 1 .. 1 OBVIOUS
    <3> QED BY <3>1, <2>4
  <2>6. Lengths(r) = c BY <2>1 DEF a, b, c
  <2> QED BY <1>4, <2>2, <2>3, <2>5, <2>6
<1>5. CASE ~Extended(r)
  <2>1. Lengths(r) = <<Total(r) % ByteSize, Crc8(3)>> BY <1>5 DEF Lengths
  <2>2. Total(r) % ByteSize \in Cell /\ Crc8(3) \in Cell BY <1>2 DEF Cell, Crc8
  <2>3. Lengths(r) \in Cells(Cell, 2) BY <2>1, <2>2 DEF Cells
  <2> QED BY <1>2, <1>5, <2>1, <2>3
<1> QED BY <1>4, <1>5

LEMMA AddressesType ==
  ASSUME NEW r \in Requests, NEW h
  PROVE  Addresses(r, h) \in Cells(Nat, AddressesLen(h)) /\ AddressesLen(h) \in Nat
<1> DEFINE me   == Config[r.from]
           bus  == Bytes(r.bus, 4)
           from == Bytes(me.bus, 4)
           mine == If("TX_INFO", h, from)
           hops == <<r.hops>>
           all  == bus \o mine \o hops
           tx   == <<me.id>>
           n    == Has(h, "TX_INFO", 4)
<1>1. bus \in Cells(Nat, 4) /\ from \in Cells(Nat, 4)
  <2>1. r.bus \in Nat /\ me.bus \in Nat /\ 4 \in Nat BY RequestType
  <2> QED BY <2>1, BytesType
<1>2. hops \in Cells(Nat, 1) /\ tx \in Cells(Nat, 1) BY RequestType DEF Cell, Cells
<1>3. Addresses(r, h) = If("MODE", h, all) \o If("TX_INFO", h, tx) BY DEF Addresses
<1> HIDE DEF bus, from, hops, tx, n
<1>4. n \in Nat /\ mine \in Cells(Nat, n) BY <1>1, IfType DEF n
<1> HIDE DEF mine
<1>5. all \in Cells(Nat, 5 + n)
  <2>1. bus \o mine \in Cells(Nat, 4 + n) /\ 4 + n \in Nat BY <1>1, <1>4, ConcatCells
  <2>2. bus \o mine \o hops \in Cells(Nat, 4 + n + 1) BY <2>1, <1>2, ConcatCells
  <2>3. 4 + n + 1 = 5 + n BY <1>4
  <2> QED BY <2>2, <2>3
<1> HIDE DEF all
<1> DEFINE a == If("MODE", h, all)
           b == If("TX_INFO", h, tx)
           k == Has(h, "MODE", 5 + n)
           l == Has(h, "TX_INFO", 1)
<1>6. a \in Cells(Nat, k) /\ k \in Nat BY <1>4, <1>5, IfType
<1>7. b \in Cells(Nat, l) /\ l \in Nat BY <1>2, IfType
<1>8. AddressesLen(h) = k + l BY DEF AddressesLen, Has, n
<1> HIDE DEF a, b, k, l
<1>9. a \o b \in Cells(Nat, k + l) BY <1>6, <1>7, ConcatCells
<1> QED BY <1>3, <1>6, <1>7, <1>8, <1>9 DEF a, b

LEMMA OptionsType ==
  ASSUME NEW r \in Requests, NEW h
  PROVE  Options(r, h) \in Cells(Nat, OptionsLen(h)) /\ OptionsLen(h) \in Nat
<1> DEFINE id   == Pair(r.packet_id)
           to   == Pair(PortOf(r))
           rx   == Bytes(r.mac, 6)
           tx   == Bytes(Config[r.from].mac, 6)
           macs == rx \o tx
<1>1. id \in Cells(Nat, 2) /\ to \in Cells(Nat, 2) BY RequestType, PairType
<1>2. rx \in Cells(Nat, 6) /\ tx \in Cells(Nat, 6)
  <2>1. r.mac \in Nat /\ Config[r.from].mac \in Nat /\ 6 \in Nat BY RequestType
  <2> QED BY <2>1, BytesType
<1>3. Options(r, h) = If("PACKET_ID", h, id) \o If("PORT", h, to) \o If("MAC", h, macs)
  BY DEF Options
<1> HIDE DEF id, to, rx, tx
<1>4. macs \in Cells(Nat, 12) BY <1>2, ConcatCells
<1> HIDE DEF macs
<1> DEFINE a == If("PACKET_ID", h, id)
           b == If("PORT", h, to)
           c == If("MAC", h, macs)
           k == Has(h, "PACKET_ID", 2)
           l == Has(h, "PORT", 2)
           m == Has(h, "MAC", 12)
<1>5. a \in Cells(Nat, k) /\ k \in Nat BY <1>1, IfType
<1>6. b \in Cells(Nat, l) /\ l \in Nat BY <1>1, IfType
<1>7. c \in Cells(Nat, m) /\ m \in Nat BY <1>4, IfType
<1>8. OptionsLen(h) = k + l + m BY DEF OptionsLen, Has
<1> HIDE DEF a, b, c, k, l, m
<1>9. a \o b \in Cells(Nat, k + l) /\ k + l \in Nat BY <1>5, <1>6, ConcatCells
<1>10. a \o b \o c \in Cells(Nat, k + l + m) BY <1>7, <1>9, ConcatCells
<1> QED BY <1>3, <1>5, <1>6, <1>7, <1>8, <1>10 DEF a, b, c

LEMMA TailType ==
  ASSUME NEW r \in Requests
  PROVE  Tail32(r) \in Cells(Cell, CrcOverhead(Header(r)))
<1>1. Total(r) \in Nat BY TotalType
<1>2. CASE "CRC" \in Header(r)
  <2>1. CrcOverhead(Header(r)) = 4 /\ Tail32(r) = Crc32(Total(r) - 4)
    BY <1>2 DEF CrcOverhead, Has, Tail32
  <2>2. Crc32(Total(r) - 4) \in Cells(Cell, 4) BY <1>1 DEF Crc32, Cell, Cells
  <2> QED BY <2>1, <2>2
<1>3. CASE "CRC" \notin Header(r)
  <2>1. CrcOverhead(Header(r)) = 1 /\ Tail32(r) = <<Crc8(Total(r) - 1)>>
    BY <1>3 DEF CrcOverhead, Has, Tail32
  <2>2. <<Crc8(Total(r) - 1)>> \in Cells(Cell, 1) BY <1>1 DEF Crc8, Cell, Cells
  <2> QED BY <2>1, <2>2
<1> QED BY <1>2, <1>3

\* The bytes of the length, beyond the first.
Second(r) == IF Extended(r) THEN 1 ELSE 0

\* packet_overhead() is the sum of what is written.
LEMMA OverheadParts ==
  ASSUME NEW h
  PROVE  Overhead(h) = 4 + Has(h, "EXT_LEN", 1) + AddressesLen(h) + OptionsLen(h) + CrcOverhead(h)
BY DEF Overhead, AddressesLen, OptionsLen, CrcOverhead, Has

LEMMA SecondType ==
  ASSUME NEW r \in Requests
  PROVE  /\ Second(r) \in 0 .. Has(Header(r), "EXT_LEN", 1)
         /\ Has(Header(r), "EXT_LEN", 1) \in 0 .. 1
         /\ Consistent(r) => Second(r) = Has(Header(r), "EXT_LEN", 1)
<1>1. Extended(r) => "EXT_LEN" \in Header(r) BY HeaderType DEF Extended
<1> QED BY <1>1 DEF Second, Has, Consistent

\* Where the addresses begin, and what comes after them.
AddressesAt(r) == 4 + Second(r)
OptionsAt(r)   == AddressesAt(r) + AddressesLen(Header(r))
PayloadAt(r)   == OptionsAt(r) + OptionsLen(Header(r))

\* The parts of a frame are at their offsets, and end where the CRC begins.
LEMMA FrameParts ==
  ASSUME NEW r \in Requests, Composed(r) # <<>>
  PROVE  LET f == Composed(r)  h == Header(r)
         IN  /\ f \in Seq(Cell) /\ Len(f) = Total(r)
             /\ At(f, 0, <<r.id, h>>) /\ At(f, 2, Lengths(r))
             /\ At(f, AddressesAt(r), Addresses(r, h)) /\ At(f, OptionsAt(r), Options(r, h))
             /\ At(f, PayloadAt(r), Payload(r.size))
             /\ At(f, Total(r) - CrcOverhead(h), Tail32(r))
             /\ ~Consistent(r) => f[5] \in Nat
<1> DEFINE f     == Composed(r)
           h     == Header(r)
           x     == Second(r)
           a     == AddressesLen(h)
           o     == OptionsLen(h)
           n     == r.size
           c     == CrcOverhead(h)
           front == <<r.id, h>>
           len   == Lengths(r)
           addr  == Addresses(r, h)
           opts  == Options(r, h)
           pay   == Payload(n)
           p1    == front \o len
           p2    == p1 \o addr
           p3    == p2 \o opts
           p4    == p3 \o pay
           z     == Total(r) - c - Len(p4)
           zero  == Bytes(0, z)
           p5    == p4 \o zero
           tail  == Tail32(r)
<1>1. /\ x \in 0 .. 1 /\ a \in Nat /\ o \in Nat /\ n \in Nat /\ c \in Nat
      /\ addr \in Cells(Nat, a) /\ opts \in Cells(Nat, o) /\ pay \in Cells(Nat, n)
      /\ tail \in Cells(Cell, c)
  <2>1. x \in 0 .. 1 BY DEF Second
  <2>2. n \in Nat BY RequestType
  <2>3. pay \in Cells(Nat, n) BY <2>2, PayloadType
  <2>4. c \in Nat BY OverheadType
  <2> QED BY <2>1, <2>2, <2>3, <2>4, AddressesType, OptionsType, TailType
<1>2. front \in Cells(Cell, 2) /\ len \in Cells(Cell, 2 + x)
  <2>1. r.id \in Cell /\ h \in Cell BY RequestType, HeaderType DEF Cell
  <2>2. len \in Cells(Cell, IF Extended(r) THEN 3 ELSE 2) BY LengthsType
  <2> QED BY <2>1, <2>2 DEF Cells, Second
<1>3. addr \in Cells(Cell, a) /\ opts \in Cells(Cell, o) /\ pay \in Cells(Cell, n)
  BY <1>1, NumbersAreCells
<1>4. f = p5 \o tail
  <2>1. Composed(r) = Body(r) \o tail BY DEF Composed, Tail32
  <2>2. Body(r) = p5 BY DEF Body, Lengths
  <2> QED BY <2>1, <2>2
<1>5. Total(r) = n + (4 + Has(h, "EXT_LEN", 1) + a + o + c) /\ Total(r) \in Nat
  BY TotalType, OverheadParts
<1>6. x <= Has(h, "EXT_LEN", 1) /\ Has(h, "EXT_LEN", 1) \in 0 .. 1
      /\ (~Consistent(r) => x = 0 /\ Has(h, "EXT_LEN", 1) = 1)
  BY SecondType DEF Consistent, Second, Has
<1> HIDE DEF x, a, o, n, c, front, len, addr, opts, pay, tail, h
<1> DEFINE k0 == 2
           kl == 2 + x
           k1 == k0 + kl
           k2 == k1 + a
           k3 == k2 + o
           k4 == k3 + n
           k5 == k4 + z
<1>7. k0 \in Nat /\ kl \in Nat /\ k1 \in Nat /\ k2 \in Nat /\ k3 \in Nat /\ k4 \in Nat BY <1>1
<1>8. front \in Cells(Cell, k0) /\ len \in Cells(Cell, kl) BY <1>2
<1>9. k1 = 4 + x /\ k2 = 4 + x + a /\ k3 = 4 + x + a + o /\ k4 = 4 + x + a + o + n BY <1>1
<1>10. p4 \in Cells(Cell, k4) /\ p3 \in Cells(Cell, k3) /\ p2 \in Cells(Cell, k2) /\ p1 \in Cells(Cell, k1)
  <2> HIDE DEF k0, kl
  <2>1. p1 \in Cells(Cell, k1) BY <1>7, <1>8, ConcatCells
  <2> HIDE DEF k1, p1
  <2>2. p2 \in Cells(Cell, k2) BY <1>1, <1>3, <1>7, <2>1, ConcatCells
  <2> HIDE DEF k2, p2
  <2>3. p3 \in Cells(Cell, k3) BY <1>1, <1>3, <1>7, <2>2, ConcatCells
  <2> HIDE DEF k3, p3
  <2>4. p4 \in Cells(Cell, k4) BY <1>1, <1>3, <1>7, <2>3, ConcatCells
  <2> QED BY <2>1, <2>2, <2>3, <2>4
<1> HIDE DEF p1, p2, p3, p4, k0, kl, k1, k2, k3, k4
<1>11. Len(p4) = k4 BY <1>10 DEF Cells
<1>12. z = Has(h, "EXT_LEN", 1) - x /\ z \in Nat
  <2> DEFINE w == Has(h, "EXT_LEN", 1)
             t == Total(r)
  <2>1. z = t - c - k4 BY <1>11
  <2>2. w \in Nat /\ x \in Nat /\ x <= w /\ t = n + (4 + w + a + o + c) BY <1>1, <1>5, <1>6
  <2> HIDE DEF z, w, t
  <2>3. t - c = 4 + w + a + o + n BY <2>2, <1>1
  <2>4. z = w - x BY <2>1, <2>2, <2>3, <1>1, <1>9
  <2> QED BY <2>2, <2>4 DEF w
<1> HIDE DEF z
<1>13. zero \in Cells(Nat, z) /\ zero \in Cells(Cell, z)
  <2>1. 0 \in Nat OBVIOUS
  <2> QED BY <2>1, <1>12, BytesType, NumbersAreCells
<1>14. k5 \in Nat /\ k5 = Total(r) - c /\ k5 + c = Total(r) /\ c <= Total(r)
  <2> DEFINE w == Has(h, "EXT_LEN", 1)
             t == Total(r)
  <2>1. w \in Nat /\ x \in Nat /\ z = w - x /\ z \in Nat /\ t = n + (4 + w + a + o + c)
    BY <1>1, <1>5, <1>6, <1>12
  <2> HIDE DEF w, t
  <2>2. k5 = 4 + w + a + o + n BY <2>1, <1>1, <1>9
  <2>3. k5 \in Nat /\ k5 = t - c /\ k5 + c = t /\ c <= t
    <3> HIDE DEF k5
    <3> QED BY <2>1, <2>2, <1>1
  <2> QED BY <2>3 DEF t
<1> HIDE DEF zero
<1>15. p5 \in Cells(Cell, k5) BY <1>7, <1>10, <1>12, <1>13, ConcatCells
<1> HIDE DEF p5, k5
<1>16. p5 \o tail \in Cells(Cell, k5 + c) BY <1>1, <1>14, <1>15, ConcatCells
<1>17. f \in Seq(Cell) /\ Len(f) = Total(r) BY <1>4, <1>14, <1>16 DEF Cells
<1> HIDE DEF f
<1> DEFINE zr == 0
<1>18. zr \in Nat /\ At(f, zr, f) BY <1>17, AtWhole
<1> HIDE DEF zr
<1>19. At(f, zr, p5) /\ At(f, zr + k5, tail)
  BY <1>1, <1>4, <1>14, <1>15, <1>17, <1>18, AtConcat
<1>20. At(f, zr, p4) /\ At(f, zr + k4, zero)
  BY <1>7, <1>10, <1>12, <1>13, <1>17, <1>18, <1>19, AtConcat DEF p5
<1>21. At(f, zr, p3) /\ At(f, zr + k3, pay)
  BY <1>1, <1>3, <1>7, <1>10, <1>17, <1>18, <1>20, AtConcat DEF p4
<1>22. At(f, zr, p2) /\ At(f, zr + k2, opts)
  BY <1>1, <1>3, <1>7, <1>10, <1>17, <1>18, <1>21, AtConcat DEF p3
<1>23. At(f, zr, p1) /\ At(f, zr + k1, addr)
  BY <1>1, <1>3, <1>7, <1>10, <1>17, <1>18, <1>22, AtConcat DEF p2
<1>24. At(f, zr, front) /\ At(f, zr + k0, len)
  BY <1>7, <1>8, <1>17, <1>18, <1>23, AtConcat DEF p1
<1>25. /\ zr = 0 /\ zr + k0 = 2 /\ AddressesAt(r) = zr + k1 /\ OptionsAt(r) = zr + k2
       /\ PayloadAt(r) = zr + k3 /\ Total(r) - c = zr + k5
  <2>1. /\ AddressesAt(r) = 4 + x /\ OptionsAt(r) = (4 + x) + a /\ PayloadAt(r) = ((4 + x) + a) + o
    BY DEF AddressesAt, OptionsAt, PayloadAt, x, a, o, h
  <2>2. zr = 0 /\ k0 = 2 BY DEF zr, k0
  <2> QED BY <2>1, <2>2, <1>1, <1>7, <1>9, <1>14
<1>26. ASSUME ~Consistent(r) PROVE f[5] \in Nat
  <2>1. x = 0 /\ z = 1 /\ zr = 0 BY <1>26, <1>6, <1>12, <1>25
  <2>2. CASE a > 0
    <3>1. (zr + k1) + 1 = 5 /\ 1 \in 1 .. a BY <2>1, <2>2, <1>1, <1>9
    <3>2. f[(zr + k1) + 1] = addr[1] BY <3>1, <1>3, <1>23, AtCell
    <3>3. addr[1] \in Nat BY <3>1, <1>1, NumbersAreCells
    <3> QED BY <3>1, <3>2, <3>3
  <2>3. CASE a = 0 /\ o > 0
    <3>1. (zr + k2) + 1 = 5 /\ 1 \in 1 .. o BY <2>1, <2>3, <1>1, <1>9
    <3>2. f[(zr + k2) + 1] = opts[1] BY <3>1, <1>3, <1>22, AtCell
    <3>3. opts[1] \in Nat BY <3>1, <1>1, NumbersAreCells
    <3> QED BY <3>1, <3>2, <3>3
  <2>4. CASE a = 0 /\ o = 0 /\ n > 0
    <3>1. (zr + k3) + 1 = 5 /\ 1 \in 1 .. n BY <2>1, <2>4, <1>1, <1>9
    <3>2. f[(zr + k3) + 1] = pay[1] BY <3>1, <1>3, <1>21, AtCell
    <3>3. pay[1] \in Nat BY <3>1, <1>1, NumbersAreCells
    <3> QED BY <3>1, <3>2, <3>3
  <2>5. CASE a = 0 /\ o = 0 /\ n = 0
    <3>1. (zr + k4) + 1 = 5 /\ 1 \in 1 .. z BY <2>1, <2>5, <1>1, <1>9
    <3>2. f[(zr + k4) + 1] = zero[1] BY <3>1, <1>13, <1>20, AtCell
    <3>3. zero[1] \in Nat BY <3>1, <1>13, NumbersAreCells
    <3> QED BY <3>1, <3>2, <3>3
  <2> QED BY <2>2, <2>3, <2>4, <2>5, <1>1
<1>27. /\ f \in Seq(Cell) /\ Len(f) = Total(r)
       /\ At(f, 0, front) /\ At(f, 2, len)
       /\ At(f, AddressesAt(r), addr) /\ At(f, OptionsAt(r), opts)
       /\ At(f, PayloadAt(r), pay)
       /\ At(f, Total(r) - c, tail)
       /\ ~Consistent(r) => f[5] \in Nat
  BY <1>17, <1>19, <1>21, <1>22, <1>23, <1>24, <1>25, <1>26
<1> QED BY <1>27 DEF f, h, front, len, addr, opts, pay, tail, c, n

-----------------------------------------------------------------------------
(* What receive() reads. *)

\* The header, the length and both CRCs are found as they were written.
LEMMA LengthIsRead ==
  ASSUME NEW r \in Requests, Composed(r) # <<>>
  PROVE  LET f == Composed(r)
         IN  /\ f[1] = r.id /\ HeaderOf(f) = Header(r)
             /\ Consistent(r) => /\ X(f) = Second(r) /\ LengthOf(f) = Total(r)
                                 /\ ~CrcWrong(f)
             /\ ~Consistent(r) => CrcWrong(f)
<1> DEFINE f == Composed(r)
           h == Header(r)
           c == CrcOverhead(h)
           t == Total(r)
           tail == Tail32(r)
           len  == Lengths(r)
           front == <<r.id, h>>
<1>1. /\ f \in Seq(Cell) /\ Len(f) = t
      /\ At(f, 0, front) /\ At(f, 2, len) /\ At(f, t - c, tail)
      /\ ~Consistent(r) => f[5] \in Nat
  BY FrameParts
<1>2. f[1] = r.id /\ f[2] = h
  <2>1. \A i \in 1 .. Len(front) : f[0 + i] = front[i] BY <1>1 DEF At
  <2>2. Len(front) = 2 /\ front[1] = r.id /\ front[2] = h OBVIOUS
  <2> HIDE DEF front, f, h
  <2>3. f[0 + 1] = front[1] /\ f[0 + 2] = front[2] BY <2>1, <2>2
  <2> QED BY <2>2, <2>3
<1>3. /\ t \in Nat /\ c \in Nat /\ c + 4 <= t
      /\ "EXT_LEN" \notin h => t < ByteSize
  <2>1. /\ t \in Nat /\ t = r.size + Overhead(h) /\ ("EXT_LEN" \notin h => t < ByteSize) BY TotalType
  <2>2. Overhead(h) \in Nat /\ c \in Nat /\ c + 4 <= Overhead(h) BY OverheadType
  <2>3. r.size \in Nat BY RequestType
  <2> HIDE DEF t, c, h
  <2> QED BY <2>1, <2>2, <2>3
<1>4. ASSUME Consistent(r) PROVE X(f) = Second(r) /\ LengthOf(f) = t /\ ~CrcWrong(f)
  <2>1. X(f) = Second(r) BY <1>2, <1>4, SecondType DEF X, HeaderOf
  <2>2. Extended(r) <=> "EXT_LEN" \in h BY <1>4, HeaderType DEF Consistent, Extended
  <2>3. \A i \in 1 .. 2 + Second(r) : f[2 + i] = len[i]
    <3>1. len \in Cells(Cell, 2 + Second(r)) BY LengthsType DEF Second
    <3> HIDE DEF f, len
    <3> QED BY <3>1, <1>1, AtCell
  <2>4. tail \in Cells(Cell, c) BY TailType
  <2>5. LengthOf(f) = t /\ f[4 + X(f)] = Crc8(3 + X(f))
    <3>1. CASE Extended(r)
      <4>1. Second(r) = 1 BY <3>1 DEF Second
      <4>2. f[2 + 1] = len[1] /\ f[2 + 2] = len[2] /\ f[2 + 3] = len[3] BY <4>1, <2>3
      <4>3. len[1] * ByteSize + len[2] = t /\ len[3] = Crc8(4) BY <3>1, LengthsType
      <4>4. f[3] = len[1] /\ f[4] = len[2] /\ f[5] = len[3] BY <4>2
      <4> HIDE DEF f, t, len
      <4> QED BY <2>1, <4>1, <4>3, <4>4 DEF LengthOf
    <3>2. CASE ~Extended(r)
      <4>1. Second(r) = 0 /\ t < ByteSize BY <3>2, <2>2, <1>3 DEF Second
      <4>2. f[2 + 1] = len[1] /\ f[2 + 2] = len[2] BY <4>1, <2>3
      <4>3. len[1] = t /\ len[2] = Crc8(3) BY <3>2, <4>1, LengthsType
      <4>4. f[3] = len[1] /\ f[4] = len[2] BY <4>2
      <4> HIDE DEF f, t, len
      <4> QED BY <2>1, <4>1, <4>3, <4>4 DEF LengthOf
    <3> QED BY <3>1, <3>2
  <2>6. CASE "CRC" \in h
    <3>1. c = 4 /\ tail = Crc32(t - 4) BY <2>6 DEF CrcOverhead, Has, Tail32
    <3>2. Slice(f, t - c, c) = tail
      <4>1. t - c \in Nat BY <1>3
      <4> HIDE DEF f, t, c, tail
      <4> QED BY <4>1, <1>1, <1>3, <2>4, AtSlice
    <3> QED BY <2>1, <2>5, <2>6, <3>1, <3>2, <1>2 DEF CrcWrong, HeaderOf
  <2>7. CASE "CRC" \notin h
    <3>1. c = 1 /\ tail = <<Crc8(t - 1)>> BY <2>7 DEF CrcOverhead, Has, Tail32
    <3>2. f[t] = Crc8(t - 1)
      <4>1. tail[1] = Crc8(t - 1) BY <3>1
      <4>2. \A i \in 1 .. c : f[(t - c) + i] = tail[i]
        <5> HIDE DEF f, t, c, tail
        <5> QED BY <1>1, <2>4, AtCell
      <4>3. f[(t - c) + 1] = tail[1] BY <4>2, <3>1
      <4>4. (t - c) + 1 = t BY <1>3, <3>1
      <4> QED BY <4>1, <4>3, <4>4
    <3> QED BY <2>1, <2>5, <2>7, <3>2, <1>2 DEF CrcWrong, HeaderOf
  <2> QED BY <2>1, <2>5, <2>6, <2>7
\* A second byte of the length was announced and not written: what is in the
\* place of the first CRC is no CRC.
<1>5. ASSUME ~Consistent(r) PROVE CrcWrong(f)
  <2>1. X(f) = 1 BY <1>2, <1>5 DEF X, HeaderOf, Has, Consistent
  <2>2. f[5] \in Nat /\ Crc8(4) \notin Nat BY <1>1, <1>5 DEF Crc8
  <2>3. 4 + X(f) = 5 /\ 3 + X(f) = 4 BY <2>1
  <2>4. f[4 + X(f)] # Crc8(3 + X(f)) BY <2>2, <2>3
  <2> QED BY <2>4 DEF CrcWrong
<1> QED BY <1>2, <1>4, <1>5 DEF HeaderOf

\* Bus ids, hops and sender are where the composer has put them.
LEMMA AddressesAreRead ==
  ASSUME NEW r \in Requests, NEW f \in Seq(Cell), NEW o \in Nat, NEW h,
         At(f, o, Addresses(r, h))
  PROVE  LET me   == Config[r.from]
             tbus == o + Has(h, "MODE", 4)
             hops == tbus + (IF "MODE" \in h THEN Has(h, "TX_INFO", 4) ELSE 0)
             tx   == hops + Has(h, "MODE", 1)
         IN  /\ "MODE" \in h => Slice(f, o, 4) = Bytes(r.bus, 4) /\ f[hops + 1] = r.hops
             /\ {"MODE", "TX_INFO"} \subseteq h => Slice(f, tbus, 4) = Bytes(me.bus, 4)
             /\ "TX_INFO" \in h => f[tx + 1] = me.id
             /\ tx + Has(h, "TX_INFO", 1) = o + AddressesLen(h)
<1> DEFINE me   == Config[r.from]
           four == 4
           one  == 1
           bus  == Bytes(r.bus, 4)
           from == Bytes(me.bus, 4)
           mine == If("TX_INFO", h, from)
           hop  == <<r.hops>>
           all  == bus \o mine \o hop
           tx   == <<me.id>>
           n    == Has(h, "TX_INFO", four)
           k    == Has(h, "MODE", (four + n) + one)
           l    == Has(h, "TX_INFO", one)
<1>1. four \in Nat /\ one \in Nat /\ bus \in Cells(Nat, four) /\ from \in Cells(Nat, four)
  <2>1. r.bus \in Nat /\ me.bus \in Nat /\ 4 \in Nat BY RequestType
  <2> QED BY <2>1, BytesType
<1>2. /\ hop \in Cells(Nat, one) /\ tx \in Cells(Nat, one) /\ hop[1] = r.hops /\ tx[1] = me.id
      /\ 1 \in 1 .. one
  BY RequestType DEF Cells
<1>3. Addresses(r, h) = If("MODE", h, all) \o If("TX_INFO", h, tx) BY DEF Addresses
<1>4. n \in Nat /\ mine \in Cells(Nat, n)
  <2> HIDE DEF from, four
  <2> QED BY <1>1, IfType
<1>5. bus \in Cells(Cell, four) /\ from \in Cells(Cell, four) /\ mine \in Cells(Cell, n)
      /\ hop \in Cells(Cell, one) /\ tx \in Cells(Cell, one)
  <2> HIDE DEF bus, from, four, mine, hop, tx, one, n
  <2> QED BY <1>1, <1>2, <1>4, NumbersAreCells
<1> HIDE DEF bus, from, four, mine, hop, tx, one, n
<1>6. bus \o mine \in Cells(Cell, four + n) /\ all \in Cells(Cell, (four + n) + one)
  <2>1. bus \o mine \in Cells(Cell, four + n) BY <1>1, <1>4, <1>5, ConcatCells
  <2> DEFINE u == bus \o mine
             i == four + n
  <2>2. u \in Cells(Cell, i) /\ i \in Nat BY <2>1, <1>1, <1>4
  <2> HIDE DEF u, i
  <2>3. u \o hop \in Cells(Cell, i + one) BY <2>2, <1>1, <1>5, ConcatCells
  <2> QED BY <2>1, <2>3 DEF u, i
<1>7. If("MODE", h, all) \in Cells(Cell, k) /\ k \in Nat
      /\ If("TX_INFO", h, tx) \in Cells(Cell, l) /\ l \in Nat
  <2>1. (four + n) + one \in Nat BY <1>1, <1>4
  <2> HIDE DEF all
  <2> QED BY <2>1, <1>1, <1>5, <1>6, IfType
<1>8. At(f, o, If("MODE", h, all)) /\ At(f, o + k, If("TX_INFO", h, tx))
  <2> DEFINE u == If("MODE", h, all)
             v == If("TX_INFO", h, tx)
  <2>1. At(f, o, u \o v) BY <1>3
  <2>2. u \in Cells(Cell, k) /\ v \in Cells(Cell, l) BY <1>7
  <2> HIDE DEF u, v, k, l
  <2>3. At(f, o, u) /\ At(f, o + k, v) BY <2>1, <2>2, <1>7, AtConcat
  <2> QED BY <2>3 DEF u, v
<1>9. ASSUME "MODE" \in h
      PROVE  /\ At(f, o, bus) /\ At(f, o + four, mine)
             /\ At(f, o + (four + n), hop)
  <2>1. At(f, o, all) BY <1>8, <1>9 DEF If
  <2>2. At(f, o, bus \o mine) /\ At(f, o + (four + n), hop)
    <3> DEFINE u == bus \o mine
               i == four + n
    <3>1. u \in Cells(Cell, i) /\ i \in Nat /\ At(f, o, u \o hop) BY <1>1, <1>4, <1>6, <2>1
    <3> HIDE DEF u, i
    <3>2. At(f, o, u) /\ At(f, o + i, hop) BY <3>1, <1>1, <1>5, AtConcat
    <3> QED BY <3>2 DEF u, i
  <2>3. At(f, o, bus) /\ At(f, o + four, mine) BY <2>2, <1>1, <1>4, <1>5, AtConcat
  <2> QED BY <2>2, <2>3
<1>10. ASSUME "MODE" \in h
       PROVE  /\ Slice(f, o, four) = bus
              /\ "TX_INFO" \in h => Slice(f, o + four, four) = from
              /\ f[(o + (four + n)) + 1] = r.hops
  <2>1. Slice(f, o, four) = bus BY <1>1, <1>5, <1>9, <1>10, AtSlice
  <2>2. ASSUME "TX_INFO" \in h PROVE Slice(f, o + four, four) = from
    <3>1. At(f, o + four, from) BY <1>9, <1>10, <2>2 DEF If, mine
    <3>2. o + four \in Nat BY <1>1
    <3> QED BY <3>1, <3>2, <1>1, <1>5, AtSlice
  <2>3. f[(o + (four + n)) + 1] = r.hops
    <3>1. f[(o + (four + n)) + 1] = hop[1] BY <1>2, <1>5, <1>9, <1>10, AtCell
    <3> QED BY <3>1, <1>2
  <2> QED BY <2>1, <2>2, <2>3
<1>11. "TX_INFO" \in h => f[(o + k) + 1] = me.id
  <2>1. ASSUME "TX_INFO" \in h PROVE f[(o + k) + 1] = me.id
    <3>1. At(f, o + k, tx) BY <1>8, <2>1 DEF If
    <3>2. f[(o + k) + 1] = tx[1]
      <4> HIDE DEF k
      <4> QED BY <3>1, <1>2, <1>5, AtCell
    <3> QED BY <3>2, <1>2
  <2> QED BY <2>1
<1>12. four = 4 /\ one = 1 /\ n = Has(h, "TX_INFO", 4) BY DEF four, one, n
<1>13. "MODE" \in h => /\ Has(h, "MODE", 4) = four /\ o + k = (o + (four + n)) + 1
                       /\ Has(h, "MODE", 1) = 1
                       /\ (o + four) + n = o + (four + n)
  BY <1>1, <1>4, <1>12 DEF Has
<1>14. "MODE" \notin h => /\ Has(h, "MODE", 4) = 0 /\ Has(h, "MODE", 1) = 0 /\ k = 0
  BY DEF Has
<1>15. AddressesLen(h) = k + Has(h, "TX_INFO", 1)
  BY <1>1, <1>4, <1>12 DEF AddressesLen, Has
<1>16. bus = Bytes(r.bus, 4) /\ from = Bytes(me.bus, 4) BY DEF bus, from
<1>17. Has(h, "TX_INFO", 1) \in Nat BY DEF Has
<1> HIDE DEF k, l
<1>18. CASE "MODE" \in h
  <2>1. Slice(f, o, 4) = Bytes(r.bus, 4) BY <1>10, <1>12, <1>16, <1>18
  <2>2. "TX_INFO" \in h => Slice(f, o + Has(h, "MODE", 4), 4) = Bytes(me.bus, 4)
    BY <1>10, <1>12, <1>13, <1>16, <1>18
  <2>3. f[((o + Has(h, "MODE", 4)) + Has(h, "TX_INFO", 4)) + 1] = r.hops
    BY <1>10, <1>12, <1>13, <1>18
  <2>4. ((o + Has(h, "MODE", 4)) + Has(h, "TX_INFO", 4)) + Has(h, "MODE", 1) = o + k
    BY <1>12, <1>13, <1>18
  <2>5. (o + k) + Has(h, "TX_INFO", 1) = o + AddressesLen(h) BY <1>7, <1>15, <1>17
  <2> QED BY <2>1, <2>2, <2>3, <2>4, <2>5, <1>11, <1>18
<1>19. CASE "MODE" \notin h
  <2>1. ((o + Has(h, "MODE", 4)) + 0) + Has(h, "MODE", 1) = o + k
    BY <1>14, <1>19
  <2>2. (o + k) + Has(h, "TX_INFO", 1) = o + AddressesLen(h) BY <1>7, <1>15, <1>17
  <2> QED BY <2>1, <2>2, <1>11, <1>19
<1> QED BY <1>18, <1>19

\* Packet id, port and MAC addresses are where the composer has put them.
LEMMA OptionsAreRead ==
  ASSUME NEW r \in Requests, NEW f \in Seq(Cell), NEW o \in Nat, NEW h,
         At(f, o, Options(r, h))
  PROVE  LET port == o + Has(h, "PACKET_ID", 2)
             mac  == port + Has(h, "PORT", 2)
         IN  /\ "PACKET_ID" \in h => Number(f, o) = r.packet_id
             /\ "PORT" \in h => Number(f, port) = PortOf(r)
             /\ "MAC" \in h => /\ Slice(f, mac, 12) = Bytes(r.mac, 6) \o Bytes(Config[r.from].mac, 6)
                               /\ Slice(f, mac, 6) = Bytes(r.mac, 6)
             /\ mac + Has(h, "MAC", 12) = o + OptionsLen(h)
<1> DEFINE two  == 2
           six  == 6
           id   == Pair(r.packet_id)
           to   == Pair(PortOf(r))
           rx   == Bytes(r.mac, 6)
           tx   == Bytes(Config[r.from].mac, 6)
           macs == rx \o tx
           a == If("PACKET_ID", h, id)
           b == If("PORT", h, to)
           c == If("MAC", h, macs)
           k == Has(h, "PACKET_ID", two)
           l == Has(h, "PORT", two)
           m == Has(h, "MAC", six + six)
<1>1. id \in Cells(Nat, two) /\ to \in Cells(Nat, two) /\ two \in Nat BY RequestType, PairType
<1>2. rx \in Cells(Nat, six) /\ tx \in Cells(Nat, six) /\ six \in Nat
  <2>1. r.mac \in Nat /\ Config[r.from].mac \in Nat /\ 6 \in Nat BY RequestType
  <2> QED BY <2>1, BytesType
<1>3. At(f, o, (a \o b) \o c) BY DEF Options
<1> HIDE DEF two, six, id, to, rx, tx
<1>4. /\ id \in Cells(Cell, two) /\ to \in Cells(Cell, two)
      /\ rx \in Cells(Cell, six) /\ tx \in Cells(Cell, six)
  BY <1>1, <1>2, NumbersAreCells
<1>5. macs \in Cells(Cell, six + six) /\ six + six \in Nat BY <1>2, <1>4, ConcatCells
<1>6. /\ a \in Cells(Cell, k) /\ k \in Nat /\ b \in Cells(Cell, l) /\ l \in Nat
      /\ c \in Cells(Cell, m) /\ m \in Nat
  <2> HIDE DEF macs
  <2> QED BY <1>1, <1>4, <1>5, IfType
<1> HIDE DEF a, b, c, k, l, m
<1>7. a \o b \in Cells(Cell, k + l) /\ k + l \in Nat
  <2>1. a \o b \in Cells(Cell, k + l) BY <1>6, ConcatCells
  <2> QED BY <2>1, <1>6
<1>8. At(f, o, a \o b) /\ At(f, o + (k + l), c)
  <2> DEFINE u == a \o b
             i == k + l
  <2>1. At(f, o, u \o c) /\ u \in Cells(Cell, i) /\ i \in Nat BY <1>3, <1>7
  <2> HIDE DEF u, i
  <2>2. At(f, o, u) /\ At(f, o + i, c) BY <2>1, <1>6, AtConcat
  <2> QED BY <2>2 DEF u, i
<1>9. At(f, o, a) /\ At(f, o + k, b) BY <1>6, <1>8, AtConcat
<1>10. two = 2 /\ six = 6 /\ k = Has(h, "PACKET_ID", 2) /\ l = Has(h, "PORT", 2)
       /\ m = Has(h, "MAC", 12)
  BY DEF two, six, k, l, m
<1>11. ASSUME NEW p \in Nat, NEW v \in Nat, At(f, p, Pair(v)) PROVE Number(f, p) = v
  <2> DEFINE u == Pair(v)
             i == 2
  <2>1. u[1] * ByteSize + u[2] = v BY PairType
  <2>2. 1 \in 1 .. i /\ 2 \in 1 .. i OBVIOUS
  <2>3. u \in Cells(Cell, i)
    <3>1. u \in Cells(Nat, i) BY PairType
    <3> HIDE DEF u, i
    <3> QED BY <3>1, NumbersAreCells
  <2>4. At(f, p, u) BY <1>11
  <2> HIDE DEF u, i
  <2>5. f[p + 1] = u[1] /\ f[p + 2] = u[2] BY <2>2, <2>3, <2>4, AtCell
  <2> QED BY <2>1, <2>5 DEF Number
<1>12. "PACKET_ID" \in h => Number(f, o) = r.packet_id
  <2>1. ASSUME "PACKET_ID" \in h PROVE Number(f, o) = r.packet_id
    <3>1. At(f, o, Pair(r.packet_id)) BY <1>9, <2>1 DEF a, id, If
    <3>2. r.packet_id \in Nat BY RequestType
    <3> QED BY <3>1, <3>2, <1>11
  <2> QED BY <2>1
<1>13. "PORT" \in h => Number(f, o + k) = PortOf(r)
  <2>1. ASSUME "PORT" \in h PROVE Number(f, o + k) = PortOf(r)
    <3>1. At(f, o + k, Pair(PortOf(r))) BY <1>9, <2>1 DEF b, to, If
    <3>2. PortOf(r) \in Nat /\ o + k \in Nat BY RequestType, <1>6
    <3> QED BY <3>1, <3>2, <1>11
  <2> QED BY <2>1
<1>14. ASSUME "MAC" \in h
       PROVE  /\ Slice(f, (o + k) + l, 12) = macs /\ Slice(f, (o + k) + l, 6) = rx
  <2>1. At(f, (o + k) + l, macs)
    <3>1. o + (k + l) = (o + k) + l BY <1>6
    <3> QED BY <3>1, <1>8, <1>14 DEF c, If
  <2>2. (o + k) + l \in Nat BY <1>6
  <2>3. At(f, (o + k) + l, rx) BY <1>2, <1>4, <2>1, <2>2, AtConcat
  <2>4. Slice(f, (o + k) + l, six) = rx BY <1>2, <1>4, <2>2, <2>3, AtSlice
  <2>5. Slice(f, (o + k) + l, six + six) = macs
    <3> DEFINE i == six + six
    <3>1. macs \in Cells(Cell, i) /\ i \in Nat BY <1>5
    <3> HIDE DEF i, macs
    <3>2. Slice(f, (o + k) + l, i) = macs BY <3>1, <2>1, <2>2, AtSlice
    <3> QED BY <3>2 DEF i
  <2> QED BY <2>4, <2>5, <1>10
<1>15. ((o + k) + l) + m = o + OptionsLen(h)
  <2>1. OptionsLen(h) = k + l + m BY <1>10 DEF OptionsLen
  <2> QED BY <2>1, <1>6
<1> QED BY <1>10, <1>12, <1>13, <1>14, <1>15 DEF rx, tx

\* Where parse_header() and the MAC filter look is where the composer wrote.
LEMMA FieldsAreRead ==
  ASSUME NEW r \in Requests, Composed(r) # <<>>, Consistent(r)
  PROVE  LET f    == Composed(r)
             h    == Header(r)
             me   == Config[r.from]
             bus  == 4 + X(f)
             tbus == bus + Has(h, "MODE", 4)
             hops == tbus + (IF "MODE" \in h THEN Has(h, "TX_INFO", 4) ELSE 0)
             tx   == hops + Has(h, "MODE", 1)
             pid  == tx + Has(h, "TX_INFO", 1)
             port == pid + Has(h, "PACKET_ID", 2)
             mac  == port + Has(h, "PORT", 2)
         IN  /\ "MODE" \in h => Slice(f, bus, 4) = Bytes(r.bus, 4) /\ f[hops + 1] = r.hops
             /\ {"MODE", "TX_INFO"} \subseteq h => Slice(f, tbus, 4) = Bytes(me.bus, 4)
             /\ "TX_INFO" \in h => f[tx + 1] = me.id
             /\ "PACKET_ID" \in h => Number(f, pid) = r.packet_id
             /\ "PORT" \in h => Number(f, port) = PortOf(r)
             /\ "MAC" \in h => /\ Slice(f, mac, 12) = Bytes(r.mac, 6) \o Bytes(me.mac, 6)
                               /\ Slice(f, Overhead(h) - 16, 6) = Bytes(r.mac, 6)
                               /\ mac \in Nat /\ mac + 12 <= Len(f)
             /\ Slice(f, Overhead(h) - CrcOverhead(h), LengthOf(f) - Overhead(h)) = Payload(r.size)
<1> DEFINE f    == Composed(r)
           h    == Header(r)
           bus  == 4 + X(f)
           tbus == bus + Has(h, "MODE", 4)
           hops == tbus + (IF "MODE" \in h THEN Has(h, "TX_INFO", 4) ELSE 0)
           tx   == hops + Has(h, "MODE", 1)
           pid  == tx + Has(h, "TX_INFO", 1)
           port == pid + Has(h, "PACKET_ID", 2)
           mac  == port + Has(h, "PORT", 2)
           a    == AddressesAt(r)
           b    == OptionsAt(r)
           n    == r.size
           o    == Overhead(h)
           c    == CrcOverhead(h)
<1>1. /\ f \in Seq(Cell) /\ At(f, a, Addresses(r, h)) /\ At(f, b, Options(r, h))
      /\ At(f, PayloadAt(r), Payload(n))
  BY FrameParts
<1>2. bus = a BY LengthIsRead DEF AddressesAt
<1>3. Second(r) \in Nat /\ a \in Nat BY DEF Second, AddressesAt
<1>4. b = a + AddressesLen(h) /\ AddressesLen(h) \in Nat /\ b \in Nat
  BY <1>3, AddressesType DEF OptionsAt
<1>5. PayloadAt(r) = b + OptionsLen(h) /\ OptionsLen(h) \in Nat BY OptionsType DEF PayloadAt
<1>6. pid = b
  <2> HIDE DEF f, h, a, b
  <2>1. (((a + Has(h, "MODE", 4)) + (IF "MODE" \in h THEN Has(h, "TX_INFO", 4) ELSE 0))
         + Has(h, "MODE", 1)) + Has(h, "TX_INFO", 1) = a + AddressesLen(h)
    BY <1>1, <1>3, AddressesAreRead
  <2> QED BY <2>1, <1>2, <1>4
<1>7. /\ "MODE" \in h => Slice(f, bus, 4) = Bytes(r.bus, 4) /\ f[hops + 1] = r.hops
      /\ {"MODE", "TX_INFO"} \subseteq h => Slice(f, tbus, 4) = Bytes(Config[r.from].bus, 4)
      /\ "TX_INFO" \in h => f[tx + 1] = Config[r.from].id
  <2> HIDE DEF f, h, a
  <2> QED BY <1>1, <1>2, <1>3, AddressesAreRead
<1>8. /\ "PACKET_ID" \in h => Number(f, pid) = r.packet_id
      /\ "PORT" \in h => Number(f, port) = PortOf(r)
      /\ "MAC" \in h => /\ Slice(f, mac, 12) = Bytes(r.mac, 6) \o Bytes(Config[r.from].mac, 6)
                        /\ Slice(f, mac, 6) = Bytes(r.mac, 6)
      /\ mac + Has(h, "MAC", 12) = b + OptionsLen(h)
  <2> HIDE DEF f, h, b, pid
  <2> QED BY <1>1, <1>4, <1>6, OptionsAreRead
<1>9. /\ o \in Nat /\ c \in Nat /\ c <= o
      /\ o - c = PayloadAt(r)
  <2>1. o = 4 + Has(h, "EXT_LEN", 1) + AddressesLen(h) + OptionsLen(h) + c BY OverheadParts
  <2>2. Second(r) = Has(h, "EXT_LEN", 1) BY SecondType
  <2>3. o \in Nat /\ c \in Nat /\ c + 4 <= o BY OverheadType
  <2>4. PayloadAt(r) = 4 + Second(r) + AddressesLen(h) + OptionsLen(h)
    BY DEF PayloadAt, OptionsAt, AddressesAt
  <2> HIDE DEF o, c, h
  <2>5. o - c = 4 + Second(r) + AddressesLen(h) + OptionsLen(h)
    BY <2>1, <2>2, <2>3, <1>3, <1>4, <1>5, SMTT(30)
  <2> QED BY <2>3, <2>4, <2>5
<1>10. "MAC" \in h => o - 16 = mac
  <2>1. "MAC" \in h => c = 4 /\ Has(h, "MAC", 12) = 12 BY TotalType DEF CrcOverhead, Has
  <2>2. port \in Nat /\ mac \in Nat BY <1>4, <1>6 DEF Has
  <2> HIDE DEF h, o, c, mac, b
  <2> QED BY <2>1, <2>2, <1>5, <1>8, <1>9
<1>11. Slice(f, o - c, LengthOf(f) - o) = Payload(n)
  <2>1. LengthOf(f) = Total(r) /\ Total(r) = n + o BY LengthIsRead, TotalType
  <2>2. n \in Nat BY RequestType
  <2>3. LengthOf(f) - o = n
    <3> HIDE DEF o, f
    <3> QED BY <1>9, <2>1, <2>2
  <2>4. Payload(n) \in Cells(Cell, n) BY <2>2, PayloadType, NumbersAreCells
  <2>5. PayloadAt(r) \in Nat BY <1>4, <1>5
  <2>6. Slice(f, PayloadAt(r), n) = Payload(n)
    <3> HIDE DEF f
    <3> QED BY <1>1, <2>2, <2>4, <2>5, AtSlice
  <2> QED BY <1>9, <2>3, <2>6
<1>12. ASSUME "MAC" \in h PROVE mac \in Nat /\ mac + 12 <= Len(f)
  <2>1. PayloadAt(r) + Len(Payload(n)) <= Len(f) BY <1>1 DEF At
  <2>2. Len(Payload(n)) \in Nat /\ Len(f) \in Nat
    <3>1. n \in Nat BY RequestType
    <3>2. Len(Payload(n)) = n BY <3>1, PayloadType DEF Cells
    <3> QED BY <3>1, <3>2, <1>1
  <2>3. mac + 12 = PayloadAt(r) BY <1>5, <1>8, <1>12 DEF Has
  <2>4. mac \in Nat BY <1>4, <1>6 DEF Has
  <2>5. PayloadAt(r) \in Nat BY <1>4, <1>5
  <2> HIDE DEF mac, f
  <2> QED BY <2>1, <2>2, <2>3, <2>4, <2>5
<1> QED BY <1>7, <1>8, <1>10, <1>11, <1>12

\* What is copied from within the frame is what is there.
LEMMA CopiedIsSlice ==
  ASSUME NEW f \in Seq(Cell), NEW o \in Nat, NEW n \in Nat, o + n <= Len(f)
  PROVE  Copied(f, o, n) = Slice(f, o, n)
<1>1. Len(f) \in Nat /\ Slice(f, o, n) \in Seq(Cell) /\ Len(Slice(f, o, n)) = n
      /\ \A k \in 1 .. n : Slice(f, o, n)[k] = f[o + k]
  BY DEF Slice
<1>2. Slice(f, o, n) = [k \in 1 .. n |-> Slice(f, o, n)[k]] BY <1>1
<1>3. \A k \in 1 .. n : o + k <= Len(f) BY <1>1
<1> QED BY <1>1, <1>2, <1>3 DEF Copied

\* A device that takes a packet knows its optional fields, ports excepted.
LEMMA TakesKnown ==
  ASSUME NEW r \in Requests, Composed(r) # <<>>, NEW d \in Devices, Takes(d, Composed(r))
  PROVE  LET h == Header(r)  knows == Config[d].knows
         IN  /\ "PACKET_ID" \in h => "PACKET_ID" \in knows
             /\ "MAC" \in h => {"MAC"} \cup (h \cap {"PORT"}) \subseteq knows
             /\ Consistent(r)
<1>1. HeaderOf(Composed(r)) = Header(r) /\ (~Consistent(r) => CrcWrong(Composed(r)))
  BY LengthIsRead
<1>2. Config[d].class \in {"PJON", "PJONLocal"} BY FrameAssumption DEF Device
<1>3. CASE Config[d].class = "PJON"
  BY <1>1, <1>3 DEF Takes, Taken, HeaderRefused
<1>4. CASE Config[d].class = "PJONLocal"
  <2>1. Header(r) \cap {"MODE", "MAC", "PACKET_ID"} = {} /\ ~CrcWrong(Composed(r))
    BY <1>1, <1>4 DEF Takes, LocalTaken, LocalHeaderRefused
  <2> QED BY <1>1, <2>1
<1> QED BY <1>2, <1>3, <1>4

\* What the application asked to have written.
Read(d, r) == IF "PORT" \in Config[d].knows THEN Meaning(r)
              ELSE [Meaning(r) EXCEPT !.port = PJON_BROADCAST]

LEMMA ParsedAsWritten ==
  ASSUME NEW r \in Requests, Composed(r) # <<>>, NEW d \in Devices, Takes(d, Composed(r))
  PROVE  Learns(Parsed(d, Composed(r)), r) = Read(d, r)
<1> DEFINE f     == Composed(r)
           h     == Header(r)
           me    == Config[r.from]
           knows == Config[d].knows
           bus   == 4 + X(f)
           tbus  == bus + Has(h, "MODE", 4)
           hops  == tbus + (IF "MODE" \in h THEN Has(h, "TX_INFO", 4) ELSE 0)
           tx    == hops + Has(h, "MODE", 1)
           pid   == tx + Has(h, "TX_INFO", 1)
           port  == pid + (IF "PACKET_ID" \in knows THEN Has(h, "PACKET_ID", 2) ELSE 0)
           mac   == port + (IF "PORT" \in knows THEN Has(h, "PORT", 2) ELSE 0)
           port_ == pid + Has(h, "PACKET_ID", 2)
           mac_  == port_ + Has(h, "PORT", 2)
<1>1. /\ "PACKET_ID" \in h => "PACKET_ID" \in knows
      /\ "MAC" \in h => "MAC" \in knows /\ ("PORT" \in h => "PORT" \in knows)
      /\ Consistent(r)
  BY TakesKnown
<1>2. HeaderOf(f) = h /\ f[1] = r.id BY LengthIsRead
<1>3. port = port_ BY <1>1 DEF Has
<1>4. "MAC" \in h => mac = mac_ BY <1>1, <1>3 DEF Has
<1>5. /\ "MODE" \in h => Slice(f, bus, 4) = Bytes(r.bus, 4) /\ f[hops + 1] = r.hops
      /\ {"MODE", "TX_INFO"} \subseteq h => Slice(f, tbus, 4) = Bytes(me.bus, 4)
      /\ "TX_INFO" \in h => f[tx + 1] = me.id
      /\ "PACKET_ID" \in h => Number(f, pid) = r.packet_id
      /\ "PORT" \in h => Number(f, port_) = PortOf(r)
      /\ "MAC" \in h => /\ Slice(f, mac_, 12) = Bytes(r.mac, 6) \o Bytes(me.mac, 6)
                        /\ mac_ \in Nat /\ mac_ + 12 <= Len(f)
      /\ Slice(f, Overhead(h) - CrcOverhead(h), LengthOf(f) - Overhead(h)) = Payload(r.size)
  BY <1>1, FieldsAreRead
<1>6. (IF "TX_INFO" \in h THEN f[tx + 1] ELSE PJON_NOT_ASSIGNED) = Meaning(r).from
  BY <1>5 DEF Meaning
<1>7. (IF "MODE" \in h THEN Slice(f, bus, 4) ELSE Bytes(0, 4)) = Meaning(r).bus
  BY <1>5 DEF Meaning, Localhost
<1>8. (IF {"MODE", "TX_INFO"} \subseteq h THEN Slice(f, tbus, 4) ELSE Bytes(0, 4)) = Meaning(r).from_bus
  BY <1>5 DEF Meaning, Localhost
<1>9. (IF "MODE" \in h THEN f[hops + 1] ELSE 0) = Meaning(r).hops BY <1>5 DEF Meaning
<1>10. (IF "PACKET_ID" \in h \cap knows THEN Number(f, pid) ELSE 0) = Meaning(r).packet_id
  BY <1>1, <1>5 DEF Meaning
<1>11. (IF "PORT" \in h \cap knows THEN Number(f, port) ELSE PJON_BROADCAST)
         = IF "PORT" \in knows THEN Meaning(r).port ELSE PJON_BROADCAST
  BY <1>3, <1>5 DEF Meaning
<1> DEFINE copied == IF "MAC" \in knows THEN Copied(f, mac, 12) ELSE <<>>
           told   == IF "MAC" \in h THEN copied ELSE <<>>
<1>12. told = Meaning(r).macs
  <2>1. CASE "MAC" \in h
    <3>1. f \in Seq(Cell) BY FrameParts
    <3>2. Copied(f, mac, 12) = Slice(f, mac, 12)
      <4> DEFINE n == 12
      <4>1. mac \in Nat /\ mac + n <= Len(f) /\ n \in Nat BY <2>1, <1>4, <1>5
      <4> HIDE DEF f, mac, n
      <4>2. Copied(f, mac, n) = Slice(f, mac, n) BY <3>1, <4>1, CopiedIsSlice
      <4> QED BY <4>2 DEF n
    <3> QED BY <2>1, <3>2, <1>1, <1>4, <1>5 DEF Meaning
  <2>2. CASE "MAC" \notin h BY <2>2 DEF Meaning
  <2> QED BY <2>1, <2>2
<1>13. Slice(f, Overhead(h) - CrcOverhead(h), LengthOf(f) - Overhead(h)) = Meaning(r).payload
  BY <1>5 DEF Meaning
<1>14. f[1] = Meaning(r).id BY <1>2 DEF Meaning
<1>15. Parsed(d, f) =
         [id |-> Meaning(r).id, from |-> Meaning(r).from, bus |-> Meaning(r).bus,
          from_bus |-> Meaning(r).from_bus, hops |-> Meaning(r).hops,
          packet_id |-> Meaning(r).packet_id,
          port |-> IF "PORT" \in knows THEN Meaning(r).port ELSE PJON_BROADCAST,
          macs |-> copied, payload |-> Meaning(r).payload]
  <2> HIDE DEF f, h
  <2> QED BY <1>2, <1>6, <1>7, <1>8, <1>9, <1>10, <1>11, <1>13, <1>14 DEF Parsed
<1> HIDE DEF copied
<1> DEFINE m == Meaning(r)
<1>16. m = [id |-> m.id, from |-> m.from, bus |-> m.bus, from_bus |-> m.from_bus, hops |-> m.hops,
            packet_id |-> m.packet_id, port |-> m.port, macs |-> m.macs, payload |-> m.payload]
  BY DEF Meaning
<1> DEFINE p == IF "PORT" \in knows THEN m.port ELSE PJON_BROADCAST
<1>17. Learns(Parsed(d, f), r) =
         [id |-> m.id, from |-> m.from, bus |-> m.bus, from_bus |-> m.from_bus, hops |-> m.hops,
          packet_id |-> m.packet_id, port |-> p, macs |-> m.macs, payload |-> m.payload]
  <2>1. CASE "MAC" \in h
    <3>1. copied = m.macs /\ Learns(Parsed(d, f), r) = Parsed(d, f) BY <2>1, <1>12 DEF Learns
    <3> HIDE DEF m, f
    <3> QED BY <1>15, <3>1 DEF m
  <2>2. CASE "MAC" \notin h
    <3>1. m.macs = <<>> BY <2>2, <1>12
    <3>2. Learns(Parsed(d, f), r) = [Parsed(d, f) EXCEPT !.macs = <<>>] BY <2>2 DEF Learns
    <3> HIDE DEF m, f
    <3> QED BY <1>15, <3>1, <3>2 DEF m
  <2> QED BY <2>1, <2>2
<1> HIDE DEF f
<1>18. CASE "PORT" \in knows
  <2>1. Read(d, r) = m /\ p = m.port BY <1>18 DEF Read
  <2> HIDE DEF m, p
  <2> QED BY <1>16, <1>17, <2>1 DEF f
<1>19. CASE "PORT" \notin knows
  <2>1. Read(d, r) = [m EXCEPT !.port = PJON_BROADCAST] /\ p = PJON_BROADCAST BY <1>19 DEF Read
  <2> HIDE DEF m, p
  <2>2. [m EXCEPT !.port = PJON_BROADCAST]
          = [id |-> m.id, from |-> m.from, bus |-> m.bus, from_bus |-> m.from_bus, hops |-> m.hops,
             packet_id |-> m.packet_id, port |-> PJON_BROADCAST, macs |-> m.macs,
             payload |-> m.payload]
    BY <1>16
  <2> QED BY <1>17, <2>1, <2>2 DEF f
<1> QED BY <1>18, <1>19

\* A header that says what receive() refuses is never composed: no broadcast asks to
\* be acknowledged, and what is too long for CRC8 has CRC32.
LEMMA HeaderIsLegal ==
  ASSUME NEW r \in Requests
  PROVE  /\ r.id = PJON_BROADCAST => "ACK_REQ" \notin Header(r)
         /\ "MAC" \in Header(r) => "CRC" \in Header(r) /\ Total(r) > 15
         /\ Carried(r) => /\ Total(r) >= Overhead(Header(r)) + 1
                          /\ Total(r) > 15 => "CRC" \in Header(r)
                          /\ "EXT_LEN" \in Header(r) => "CRC" \in Header(r)
                          /\ Consistent(r)
<1>1. r.id = PJON_BROADCAST => "ACK_REQ" \notin Header(r)
  <2>1. r.id = PJON_BROADCAST => "ACK_REQ" \notin Asked(r) BY DEF Asked
  <2> QED BY <2>1, HeaderType
<1>2. /\ Total(r) \in Nat /\ r.size \in Nat /\ Overhead(Header(r)) \in Nat
      /\ Total(r) = r.size + Overhead(Header(r))
      /\ "CRC" \notin Header(r) /\ "EXT_LEN" \notin Header(r) => Total(r) <= 15
      /\ "MAC" \in Header(r) => "CRC" \in Header(r)
  BY TotalType, OverheadType, RequestType
<1>3. "MAC" \in Header(r) => Overhead(Header(r)) >= 16 BY <1>2 DEF Overhead, Has
<1> QED BY <1>1, <1>2, <1>3 DEF Carried, Consistent

\* The bus and MAC filters, in terms of what was sent.
LEMMA FiltersAreRead ==
  ASSUME NEW r \in Requests, Composed(r) # <<>>, Consistent(r), NEW d \in Devices
  PROVE  LET f == Composed(r)  h == Header(r)  me == Config[d]
         IN  /\ BusRefused(d, f) <=>
                  /\ "MODE" \in h /\ ~me.router /\ "MAC" \notin h
                  /\ r.bus # (IF Shared(me) THEN me.bus ELSE Localhost)
             /\ MacRefused(d, f) <=>
                  "MAC" \in me.knows /\ "MAC" \in h /\ ~me.router /\ r.mac \notin {me.mac, NoMac}
<1> DEFINE f  == Composed(r)
           h  == Header(r)
           me == Config[d]
           t  == Total(r)
<1>1. me \in Device BY FrameAssumption
<1>2. HeaderOf(f) = h /\ LengthOf(f) = t BY LengthIsRead
<1>3. "MAC" \in h => t > 15 BY HeaderIsLegal
<1>4. /\ "MODE" \in h => Slice(f, 4 + X(f), 4) = Bytes(r.bus, 4)
      /\ "MAC" \in h => Slice(f, Overhead(h) - 16, 6) = Bytes(r.mac, 6)
  BY FieldsAreRead
<1>5. r.bus \in Nat /\ r.mac \in Nat /\ me.bus \in Nat /\ me.mac \in Nat /\ 0 \in Nat
  BY <1>1, RequestType DEF Device
<1> HIDE DEF f, h, t
<1>6. BusRefused(d, f) <=>
        /\ "MODE" \in h /\ ~me.router /\ "MAC" \notin h
        /\ r.bus # (IF Shared(me) THEN me.bus ELSE Localhost)
  <2>1. \A k \in 1 .. 4 : Bytes(r.bus, 4)[k] = r.bus BY DEF Bytes
  <2>2. 1 \in 1 .. 4 OBVIOUS
  <2>3. CASE "MODE" \in h
    <3>1. (\E k \in 1 .. 4 : Slice(f, 4 + X(f), 4)[k] # (IF Shared(me) THEN me.bus ELSE Localhost))
            <=> r.bus # (IF Shared(me) THEN me.bus ELSE Localhost)
      BY <1>4, <2>1, <2>2, <2>3
    <3> QED BY <1>2, <3>1 DEF BusRefused
  <2>4. CASE "MODE" \notin h BY <2>4, <1>2 DEF BusRefused
  <2> QED BY <2>3, <2>4
<1>7. MacRefused(d, f) <=>
         "MAC" \in me.knows /\ "MAC" \in h /\ ~me.router /\ r.mac \notin {me.mac, NoMac}
  <2>1. ASSUME NEW u \in Nat, NEW v \in Nat PROVE Bytes(u, 6) = Bytes(v, 6) <=> u = v
    <3>1. Bytes(u, 6)[1] = u /\ Bytes(v, 6)[1] = v BY DEF Bytes
    <3> QED BY <3>1
  <2>2. CASE "MAC" \in h
    <3>1. Slice(f, Overhead(h) - 16, 6) = Bytes(r.mac, 6) /\ t > 15 BY <2>2, <1>3, <1>4
    <3>2. Slice(f, Overhead(h) - 16, 6) # Bytes(me.mac, 6) <=> r.mac # me.mac
      BY <2>1, <3>1, <1>5
    <3>3. Slice(f, Overhead(h) - 16, 6) # Bytes(NoMac, 6) <=> r.mac # NoMac
      BY <2>1, <3>1, <1>5 DEF NoMac
    <3> QED BY <1>2, <2>2, <3>1, <3>2, <3>3 DEF MacRefused
  <2>3. CASE "MAC" \notin h BY <2>3, <1>2 DEF MacRefused
  <2> QED BY <2>2, <2>3
<1> QED BY <1>6, <1>7 DEF f, h

\* The filters of receive() take a packet for those it is for, and for no other.
LEMMA TakesIsFor ==
  ASSUME NEW r \in Requests, Composed(r) # <<>>, Carried(r), NEW d \in Devices
  PROVE  Takes(d, Composed(r)) <=> IsFor(d, r)
<1> DEFINE f  == Composed(r)
           h  == Header(r)
           me == Config[d]
           t  == Total(r)
<1>1. me \in Device BY FrameAssumption
<1>2. /\ f[1] = r.id /\ HeaderOf(f) = h /\ LengthOf(f) = t /\ ~CrcWrong(f)
  BY LengthIsRead, HeaderIsLegal
<1>3. /\ r.id = PJON_BROADCAST => "ACK_REQ" \notin h
      /\ "MAC" \in h => "CRC" \in h /\ t > 15
      /\ t >= Overhead(h) + 1 /\ Overhead(h) \in Nat /\ t \in Nat
      /\ t > 15 => "CRC" \in h
      /\ "EXT_LEN" \in h => "CRC" \in h
      /\ Consistent(r)
  BY HeaderIsLegal, OverheadType, TotalType
<1>4. t < MaxLength
  <2>1. ~(t >= MaxLength) BY DEF Composed
  <2> QED BY <2>1, <1>3, FrameAssumption
<1> HIDE DEF f, h, t
<1>7. ~LengthRefused(f) /\ ~LocalLengthRefused(f)
  BY <1>2, <1>3, <1>4, FrameAssumption DEF LengthRefused, LocalLengthRefused
<1>8. HeaderRefused(d, f) <=>
        \/ ~me.router /\ Shared(me) /\ "MODE" \notin h
        \/ ~((h \cap {"PORT", "PACKET_ID", "MAC"}) \subseteq me.knows)
        \/ r.id \notin {me.id, PJON_BROADCAST} /\ ~me.router /\ "MAC" \notin h
  BY <1>2, <1>3 DEF HeaderRefused
<1>9. BusRefused(d, f) <=>
        /\ "MODE" \in h /\ ~me.router /\ "MAC" \notin h
        /\ r.bus # (IF Shared(me) THEN me.bus ELSE Localhost)
  BY <1>3, FiltersAreRead DEF f, h
<1>10. MacRefused(d, f) <=>
         "MAC" \in me.knows /\ "MAC" \in h /\ ~me.router /\ r.mac \notin {me.mac, NoMac}
  BY <1>3, FiltersAreRead DEF f, h
<1>11. CASE me.class = "PJON"
  <2>1. Takes(d, f) <=> ~(HeaderRefused(d, f) \/ BusRefused(d, f) \/ MacRefused(d, f))
    BY <1>2, <1>7, <1>11 DEF Takes, Taken
  <2>2. IsFor(d, r) <=>
          /\ h \cap {"PORT", "PACKET_ID", "MAC"} \subseteq me.knows
          /\ \/ me.router
             \/ /\ Shared(me) => "MODE" \in h
                /\ IF "MAC" \in h THEN r.mac \in {me.mac, NoMac}
                   ELSE /\ r.id \in {me.id, PJON_BROADCAST}
                        /\ "MODE" \in h => r.bus = (IF Shared(me) THEN me.bus ELSE Localhost)
    BY <1>11 DEF IsFor, h
  <2> DEFINE a == h \cap {"PORT", "PACKET_ID", "MAC"} \subseteq me.knows
             i == r.id \in {me.id, PJON_BROADCAST}
             j == r.bus = (IF Shared(me) THEN me.bus ELSE Localhost)
             k == r.mac \in {me.mac, NoMac}
             m == "MAC" \in h
             s == "MODE" \in h
             u == Shared(me)
             w == me.router
             g == "MAC" \in me.knows
             p == Takes(d, f)
             q == IsFor(d, r)
  <2>3. a /\ m => g OBVIOUS
  <2>4. p <=> ~((~w /\ u /\ ~s) \/ ~a \/ (~i /\ ~w /\ ~m) \/ (s /\ ~w /\ ~m /\ ~j) \/ (g /\ m /\ ~w /\ ~k))
    BY <2>1, <1>8, <1>9, <1>10, Zenon
  <2>5. q <=> (a /\ (w \/ ((u => s) /\ (IF m THEN k ELSE i /\ (s => j)))))
    BY <2>2, Zenon
  <2> HIDE DEF a, i, j, k, m, s, u, w, g, p, q
  <2>6. p <=> q
    <3>1. CASE m BY <3>1, <2>3, <2>4, <2>5, Zenon
    <3>2. CASE ~m BY <3>2, <2>3, <2>4, <2>5, Zenon
    <3> QED BY <3>1, <3>2
  <2> QED BY <2>6 DEF p, q, f
<1>12. CASE me.class = "PJONLocal"
  <2>1. me.knows \subseteq {"PORT"} /\ ~Shared(me) BY <1>12, FrameAssumption DEF Shared
  <2>2. Takes(d, f) <=> /\ me.router \/ r.id \in {me.id, PJON_BROADCAST}
                        /\ h \cap {"MODE", "MAC", "PACKET_ID"} = {}
    BY <1>2, <1>3, <1>7, <1>12 DEF Takes, LocalTaken, LocalHeaderRefused
  <2>3. IsFor(d, r) <=>
          /\ h \cap {"PORT", "PACKET_ID", "MAC"} \subseteq me.knows \cup {"PORT"}
          /\ "MODE" \notin h
          /\ \/ me.router
             \/ IF "MAC" \in h THEN r.mac \in {me.mac, NoMac}
                ELSE r.id \in {me.id, PJON_BROADCAST}
    BY <2>1, <1>12 DEF IsFor, h
  <2>4. (h \cap {"PORT", "PACKET_ID", "MAC"} \subseteq me.knows \cup {"PORT"} /\ "MODE" \notin h)
          <=> h \cap {"MODE", "MAC", "PACKET_ID"} = {}
    BY <2>1
  <2> QED BY <2>2, <2>3, <2>4 DEF f
<1> QED BY <1>1, <1>11, <1>12 DEF Device

-----------------------------------------------------------------------------
(* Who answers. *)

\* Who answers a packet has the address it was sent to.
LEMMA AnswersAddress ==
  ASSUME NEW r \in Requests, Composed(r) # <<>>, ~("MAC" \in Header(r) /\ r.mac = NoMac),
         NEW d \in Devices, Takes(d, Composed(r)), Answers(d, Composed(r))
  PROVE  LET h == Header(r)
         IN  /\ MayAnswer(d)
             /\ "MAC" \in h => "MAC" \in Config[d].knows /\ Config[d].mac = r.mac
             /\ "MAC" \notin h => /\ Config[d].id = r.id
                                  /\ BusOf(d) = IF "MODE" \in h THEN r.bus ELSE Localhost
<1> DEFINE f  == Composed(r)
           h  == Header(r)
           me == Config[d]
<1>1. Consistent(r) /\ ("MAC" \in h => "MAC" \in me.knows) BY TakesKnown
<1>2. f[1] = r.id /\ HeaderOf(f) = h BY LengthIsRead
<1>3. MayAnswer(d) /\ r.id # PJON_BROADCAST BY <1>2 DEF Answers, MayAnswer
<1>4. CASE me.class = "PJON"
  <2>1. ~HeaderRefused(d, f) /\ ~BusRefused(d, f) /\ ~MacRefused(d, f)
    BY <1>4 DEF Takes, Taken
  <2>2. ~("MODE" \in h /\ ~me.router /\ "MAC" \notin h /\ r.bus # BusOf(d))
    BY <2>1, <1>1, FiltersAreRead DEF BusOf
  <2>3. ~("MAC" \in me.knows /\ "MAC" \in h /\ ~me.router /\ r.mac \notin {me.mac, NoMac})
    BY <2>1, <1>1, FiltersAreRead
  <2>4. /\ ~(~me.router /\ Shared(me) /\ "MODE" \notin h)
        /\ ~(r.id \notin {me.id, PJON_BROADCAST} /\ ~me.router /\ "MAC" \notin h)
    BY <2>1, <1>2 DEF HeaderRefused
  <2> HIDE DEF f, h
  <2>5. "MAC" \in h => "MAC" \in me.knows /\ me.mac = r.mac BY <2>3, <1>1, <1>3 DEF MayAnswer, h
  <2>6. "MAC" \notin h => me.id = r.id BY <2>4, <1>3 DEF MayAnswer
  <2>7. "MAC" \notin h /\ "MODE" \in h => BusOf(d) = r.bus BY <2>2, <1>3 DEF MayAnswer
  <2>8. "MODE" \notin h => BusOf(d) = Localhost BY <2>4, <1>3 DEF MayAnswer, BusOf
  <2> QED BY <2>5, <2>6, <2>7, <2>8, <1>3 DEF h
<1>5. CASE me.class = "PJONLocal"
  <2>1. ~LocalHeaderRefused(d, f) BY <1>5 DEF Takes, LocalTaken
  <2>2. /\ ~(~me.router /\ r.id \notin {me.id, PJON_BROADCAST})
        /\ h \cap {"MODE", "MAC", "PACKET_ID"} = {}
    BY <2>1, <1>2 DEF LocalHeaderRefused
  <2>3. BusOf(d) = Localhost BY <1>5, FrameAssumption DEF BusOf, Shared
  <2>4. "MAC" \notin h /\ "MODE" \notin h BY <2>2
  <2>5. me.id = r.id BY <2>2, <1>3 DEF MayAnswer
  <2> QED BY <2>3, <2>4, <2>5, <1>3
<1>6. me.class \in {"PJON", "PJONLocal"} BY FrameAssumption DEF Device
<1> QED BY <1>4, <1>5, <1>6

LEMMA OneAnswers ==
  ASSUME EachAddressOnce, NEW r \in Requests, Composed(r) # <<>>,
         ~("MAC" \in Header(r) /\ r.mac = NoMac),
         NEW d \in Devices, Takes(d, Composed(r)), Answers(d, Composed(r)),
         NEW e \in Devices, Takes(e, Composed(r)), Answers(e, Composed(r))
  PROVE  d = e
<1>1. CASE "MAC" \in Header(r)
  <2>1. /\ MayAnswer(d) /\ MayAnswer(e)
        /\ "MAC" \in Config[d].knows /\ "MAC" \in Config[e].knows
        /\ Config[d].mac = Config[e].mac
    BY <1>1, AnswersAddress
  <2> QED BY <2>1 DEF EachAddressOnce
<1>2. CASE "MAC" \notin Header(r)
  <2>1. MayAnswer(d) /\ MayAnswer(e) /\ Config[d].id = Config[e].id /\ BusOf(d) = BusOf(e)
    BY <1>2, AnswersAddress
  <2> QED BY <2>1 DEF EachAddressOnce
<1> QED BY <1>1, <1>2

-----------------------------------------------------------------------------
(* The transmission of a frame. *)

\* A device's receiver is given what the device reads, if it takes the frame and
\* serves its port.
Handed(d, f) == Takes(d, f) /\ Config[d].port \in {PJON_BROADCAST, Parsed(d, f).port}

Silent ==
  /\ sent = Nothing /\ frame = <<>> /\ heard = {} /\ answered = {}
  /\ got = [d \in Devices |-> Nothing]

Sending ==
  /\ sent \in Requests /\ frame = Composed(sent)
  /\ heard \subseteq Devices /\ (frame = <<>> => heard = {})
  /\ answered = {d \in heard : Takes(d, frame) /\ Answers(d, frame)}
  /\ got = [d \in Devices |-> IF d \in heard /\ Handed(d, frame) THEN Parsed(d, frame) ELSE Nothing]

FrameInv == Silent \/ Sending

LEMMA NothingIsNoRequest == Nothing \notin Requests
<1>1. SUFFICES ASSUME Nothing \in Requests PROVE FALSE OBVIOUS
<1>2. Nothing \in Request BY <1>1, FrameAssumption
<1>3. "id" \in DOMAIN Nothing BY <1>2 DEF Request
<1> QED BY <1>3 DEF Nothing

LEMMA ParsedIsSomething == ASSUME NEW d, NEW f PROVE Parsed(d, f) # Nothing
<1>1. "id" \in DOMAIN Parsed(d, f) BY DEF Parsed
<1>2. "id" \notin DOMAIN Nothing BY DEF Nothing
<1> QED BY <1>1, <1>2

LEMMA FrameInvInit == FrameInit => FrameInv
BY DEF FrameInit, FrameInv, Silent

LEMMA FrameInvStep == FrameInv /\ [FrameNext]_frame_vars => FrameInv'
<1> SUFFICES ASSUME FrameInv, [FrameNext]_frame_vars PROVE FrameInv' OBVIOUS
<1>1. ASSUME NEW r \in Requests, Send(r) PROVE FrameInv'
  <2>1. Silent BY <1>1, NothingIsNoRequest DEF Send, FrameInv, Sending
  <2>2. Sending' BY <1>1, <2>1 DEF Send, Silent, Sending
  <2> QED BY <2>2 DEF FrameInv
<1>2. ASSUME NEW d \in Devices, Receive(d) PROVE FrameInv'
  <2>1. Sending BY <1>2 DEF Receive, FrameInv, Silent
  <2>2. /\ sent' = sent /\ frame' = frame /\ frame # <<>> /\ d \notin heard
        /\ heard' = heard \cup {d}
    BY <1>2 DEF Receive
  <2>3. answered' = {e \in heard' : Takes(e, frame) /\ Answers(e, frame)}
    BY <1>2, <2>1, <2>2 DEF Receive, Sending
  <2>4. got' = [e \in Devices |-> IF e \in heard' /\ Handed(e, frame) THEN Parsed(e, frame) ELSE Nothing]
    <3>1. CASE Handed(d, frame)
      <4>1. got' = [got EXCEPT ![d] = Parsed(d, frame)] BY <1>2, <3>1 DEF Receive, Handed
      <4> QED BY <4>1, <3>1, <2>1, <2>2 DEF Sending
    <3>2. CASE ~Handed(d, frame)
      <4>1. got' = got BY <1>2, <3>2 DEF Receive, Handed
      <4> QED BY <4>1, <3>2, <2>1, <2>2 DEF Sending
    <3> QED BY <3>1, <3>2
  <2>5. heard' \subseteq Devices BY <2>1, <2>2 DEF Sending
  <2>6. Sending' BY <2>1, <2>2, <2>3, <2>4, <2>5 DEF Sending
  <2> QED BY <2>6 DEF FrameInv
<1>3. ASSUME EndOfFrame PROVE FrameInv'
  BY <1>3 DEF EndOfFrame, FrameInv, Silent
<1>4. ASSUME UNCHANGED frame_vars PROVE FrameInv'
  BY <1>4 DEF frame_vars, FrameInv, Silent, Sending
<1> QED BY <1>1, <1>2, <1>3, <1>4 DEF FrameNext

LEMMA FrameInvHolds == FrameSpec => []FrameInv
BY FrameInvInit, FrameInvStep, PTL DEF FrameSpec

\* A receiver function, of PJON or of PJONLocal, is given every field as the sender
\* meant it, whatever the devices have compiled and however their headers are set:
\* parse_header() finds each where compose_packet() put it.
THEOREM ReadAsWrittenHolds == FrameSpec => []ReadAsWritten
<1>1. FrameInv => ReadAsWritten
  <2> SUFFICES ASSUME FrameInv, NEW d \in Devices, got[d] # Nothing
               PROVE  Learns(got[d], sent) = Read(d, sent)
    BY DEF ReadAsWritten, Read
  <2>1. Sending BY DEF FrameInv, Silent
  <2>2. d \in heard /\ Handed(d, frame) /\ got[d] = Parsed(d, frame) BY <2>1 DEF Sending
  <2>3. sent \in Requests /\ frame = Composed(sent) /\ frame # <<>> BY <2>1, <2>2 DEF Sending
  <2>4. Takes(d, Composed(sent)) BY <2>2, <2>3 DEF Handed
  <2> QED BY <2>2, <2>3, <2>4, ParsedAsWritten
<1> QED BY <1>1, FrameInvHolds, PTL

\* The filters of receive(), by id, bus, MAC address and feature, hand a packet to
\* those it is for and to nobody else, for any set of devices on the medium.
THEOREM HandedToItsRecipientsHolds == FrameSpec => []HandedToItsRecipients
<1>1. FrameInv => HandedToItsRecipients
  <2> SUFFICES ASSUME FrameInv, frame # <<>>, Carried(sent), NEW d \in heard
               PROVE  (got[d] # Nothing) =
                        (IsFor(d, sent) /\ Config[d].port \in {PJON_BROADCAST, Meaning(sent).port})
    BY DEF HandedToItsRecipients
  <2>1. Sending BY DEF FrameInv, Silent
  <2>2. d \in Devices /\ sent \in Requests /\ frame = Composed(sent) /\ Composed(sent) # <<>>
    BY <2>1 DEF Sending
  <2>3. got[d] # Nothing <=> Handed(d, frame) BY <2>1, <2>2, ParsedIsSomething DEF Sending
  <2>4. Takes(d, frame) <=> IsFor(d, sent) BY <2>2, TakesIsFor
  <2>5. ASSUME Takes(d, frame)
        PROVE  Config[d].port \in {PJON_BROADCAST, Parsed(d, frame).port}
                 <=> Config[d].port \in {PJON_BROADCAST, Meaning(sent).port}
    <3>1. Learns(Parsed(d, frame), sent) = Read(d, sent) BY <2>2, <2>5, ParsedAsWritten
    <3> DEFINE info == Parsed(d, frame)
    <3>2. "port" \in DOMAIN info
      BY DEF Parsed
    <3>3. Learns(info, sent).port = info.port
      <4> HIDE DEF info
      <4> QED BY <3>2 DEF Learns
    <3> HIDE DEF info
    <3>4. Parsed(d, frame).port = Read(d, sent).port BY <3>1, <3>3 DEF info
    <3>5. CASE "PORT" \in Config[d].knows BY <3>4, <3>5 DEF Read
    <3>6. CASE "PORT" \notin Config[d].knows BY <3>6, <2>2, FrameAssumption
    <3> QED BY <3>5, <3>6
  <2>6. got[d] # Nothing
          <=> (IsFor(d, sent) /\ Config[d].port \in {PJON_BROADCAST, Meaning(sent).port})
    BY <2>3, <2>4, <2>5 DEF Handed
  <2> QED BY <2>6 DEF IsFor
<1> QED BY <1>1, FrameInvHolds, PTL

\* No two devices send PJON_ACK for one frame, if no two have been given one address:
\* local, shared and hardware addressing never make two answers collide.
THEOREM OneAnswerHolds == ASSUME EachAddressOnce PROVE FrameSpec => []OneAnswer
<1>1. FrameInv => OneAnswer
  <2> SUFFICES ASSUME FrameInv, sent # Nothing, ~("MAC" \in Header(sent) /\ sent.mac = NoMac)
               PROVE  Cardinality(answered) <= 1
    BY DEF OneAnswer
  <2>1. Sending BY DEF FrameInv, Silent
  <2>2. CASE answered = {} BY <2>2, FS_EmptySet
  <2>3. ASSUME NEW d \in answered PROVE answered = {d}
    <3>1. sent \in Requests /\ frame = Composed(sent) /\ Composed(sent) # <<>>
      BY <2>1, <2>3 DEF Sending
    <3>2. \A e \in answered : e \in Devices /\ Takes(e, Composed(sent)) /\ Answers(e, Composed(sent))
      BY <2>1, <3>1 DEF Sending
    <3>3. \A e \in answered : e = d BY <2>3, <3>1, <3>2, OneAnswers
    <3> QED BY <3>3
  <2>4. ASSUME answered # {} PROVE Cardinality(answered) = 1
    <3>1. PICK d \in answered : TRUE BY <2>4
    <3>2. answered = {d} BY <2>3
    <3> QED BY <3>2, FS_Singleton
  <2> QED BY <2>2, <2>4
<1> QED BY <1>1, FrameInvHolds, PTL

-----------------------------------------------------------------------------
(* The send list. *)

USE SizesAssumption, UseAssumption DEF SizesAssumption, UseAssumption

\* Every result of a transmission is a state of a slot.
LEMMA ResultsAreStates ==
  ASSUME NEW c, NEW r \in Results(c)
  PROVE  r \in States /\ r # FREE
  BY DEF Results, States, FREE, PJON_ACK, PJON_BUSY, PJON_FAIL

\* Transmitting, removing and rescheduling make packets of packets.
LEMMA PacketOperators ==
  ASSUME NEW p \in Packet, auto_delete \in BOOLEAN
  PROVE  /\ Removed(p) \in Packet
         /\ Rescheduled(p) \in Packet
         /\ ResetPacket(p) \in Packet
         /\ \A r \in States : Transmitted(p, r) \in Packet
<1>0. 0 \in Attempts /\ 0 \in 0 .. Horizon /\ {FREE, PJON_TO_BE_SENT} \subseteq States
  BY DEF Attempts, States
<1>1. Removed(p) \in Packet
  BY <1>0 DEF Removed, Packet
<1>2. Rescheduled(p) \in Packet
  BY <1>0 DEF Rescheduled, Packet
<1>3. ResetPacket(p) \in Packet
  BY <1>1, <1>2 DEF ResetPacket
<1>4. ASSUME NEW r \in States
      PROVE  Transmitted(p, r) \in Packet
  <2>1. p.attempts \in Nat
    BY DEF Packet, Attempts
  <2>2. (p.attempts + 1) % AttemptMod \in Attempts
    BY <2>1 DEF Attempts
  <2>3. QED
    BY <2>2 DEF Transmitted, Packet
<1>5. QED
  BY <1>1, <1>2, <1>3, <1>4

-----------------------------------------------------------------------------
(* Type correctness.  packets_count stays in range because update() counts  *)
(* each slot it visits at most once, and takes back only what it counted.   *)

CountBound ==
  /\ pc = "loop" => count <= index
  /\ pc = "lost" => 1 <= count /\ count <= index + 1

TypeInv == TypeOK /\ CountBound

LEMMA TypeInvInit == Init => TypeInv
<1> SUFFICES ASSUME Init PROVE TypeInv
  OBVIOUS
<1>1. packets \in [Slots -> Packet]
  <2>1. (CHOOSE c \in Contents : TRUE) \in Contents
    BY ContentsAssumption DEF ContentsAssumption
  <2>2. 0 \in Attempts /\ 0 \in 0 .. Horizon /\ FREE \in States
    BY DEF Attempts, States
  <2>3. QED
    BY <2>1, <2>2 DEF Init, Packet
<1>2. hist \in [Slots -> History]
  BY DEF Init, Fresh, History, Attempts
<1>3. QED
  BY <1>1, <1>2 DEF Init, TypeInv, TypeOK, CountBound

\* The two forms of dispatch, and whatever else schedules a packet.
LEMMA ScheduleType ==
  ASSUME TypeInv, NEW i \in Slots, NEW c \in Contents, NEW t \in Timings,
         Schedule(i, c, t)
  PROVE  TypeInv'
<1>1. packets' \in [Slots -> Packet]
  <2>1. 0 \in 0 .. Horizon /\ PJON_TO_BE_SENT \in States
    BY DEF States
  <2>2. [packets[i] EXCEPT !.content = c, !.length = 1, !.state = PJON_TO_BE_SENT,
                           !.age = 0, !.timing = t] \in Packet
    BY <2>1, ZenonT(60) DEF TypeInv, TypeOK, Packet
  <2>3. QED
    BY <2>2 DEF TypeInv, TypeOK, Schedule
<1>2. packets[i].attempts \in Attempts /\ 0 \in Attempts
  BY DEF TypeInv, TypeOK, Packet, Attempts
<1>3. hist' \in [Slots -> History]
  <2>1. [tries |-> 0, acked |-> FALSE,
         inherited |-> IF Busy(i) THEN packets[i].attempts ELSE 0] \in History
    BY <1>2 DEF History
  <2>2. QED
    BY <2>1 DEF TypeInv, TypeOK, Schedule
<1>4. QED
  BY <1>1, <1>3 DEF TypeInv, TypeOK, CountBound, Schedule

LEMMA TypeInvNext == TypeInv /\ [Next]_vars => TypeInv'
<1> SUFFICES ASSUME TypeInv, [Next]_vars
             PROVE  TypeInv'
  OBVIOUS
<1> USE DEF TypeInv
<1>0. /\ auto_delete \in BOOLEAN
      /\ Fresh \in History
      /\ \A h \in History : [h EXCEPT !.tries = (@ + 1) % AttemptMod] \in History
      /\ \A h \in History :
           [h EXCEPT !.tries = (@ + 1) % AttemptMod, !.acked = TRUE] \in History
  <2>1. auto_delete \in BOOLEAN
    BY DEF TypeOK
  <2>2. 0 \in Attempts /\ \A n \in Attempts : (n + 1) % AttemptMod \in Attempts
    BY DEF Attempts
  <2>3. Fresh \in History
    BY <2>2 DEF Fresh, History
  <2>4. ASSUME NEW h \in History
        PROVE  /\ [h EXCEPT !.tries = (@ + 1) % AttemptMod] \in History
               /\ [h EXCEPT !.tries = (@ + 1) % AttemptMod, !.acked = TRUE] \in History
    BY <2>2 DEF History
  <2>5. QED
    BY <2>1, <2>3, <2>4
<1>01. /\ PJON_ACK \in States /\ PJON_BUSY \in States /\ PJON_FAIL \in States
       /\ Visiting => index \in Slots
       /\ pc = "lost" => index \in Slots
  BY DEF States, Visiting, TypeOK, Slots
<1>1. ASSUME NEW c \in Contents, NEW t \in Timings, Dispatch(c, t)
      PROVE  TypeInv'
  BY <1>1, ScheduleType DEF Dispatch
<1>2. ASSUME NEW i \in Slots, NEW c \in Contents, NEW t \in Timings, DispatchAt(i, c, t)
      PROVE  TypeInv'
  BY <1>2, ScheduleType DEF DispatchAt
<1>3. ASSUME NEW i \in Slots, Remove(i)
      PROVE  TypeInv'
  <2>1. packets[i] \in Packet
    BY DEF TypeOK
  <2>2. Removed(packets[i]) \in Packet
    BY <2>1, <1>0, PacketOperators
  <2>3. QED
    BY <1>3, <1>0, <2>2 DEF Remove, TypeOK, CountBound
<1>4. ASSUME NEW d, RemoveAllPackets(d)
      PROVE  TypeInv'
  <2>1. \A i \in Slots : Removed(packets[i]) \in Packet
    BY <1>0, PacketOperators DEF TypeOK
  <2>2. packets' \in [Slots -> Packet] /\ hist' \in [Slots -> History]
    BY <1>4, <1>0, <2>1 DEF RemoveAllPackets, TypeOK
  <2>3. QED
    BY <1>4, <2>2 DEF RemoveAllPackets, TypeOK, CountBound
<1>5. ASSUME NEW b \in AutoDeleteModes, SetPacketAutoDeletion(b)
      PROVE  TypeInv'
  BY <1>5 DEF SetPacketAutoDeletion, TypeOK, CountBound
<1>6. ASSUME BeginUpdate PROVE TypeInv'
  BY <1>6 DEF BeginUpdate, TypeOK, CountBound
<1>7. ASSUME SkipFree PROVE TypeInv'
  BY <1>7 DEF SkipFree, Visiting, TypeOK, CountBound
<1>8. ASSUME SkipEarly PROVE TypeInv'
  BY <1>8 DEF SkipEarly, Visiting, TypeOK, CountBound
<1>9. ASSUME TransmitOK PROVE TypeInv'
  <2>1. index \in Slots /\ packets[index] \in Packet /\ hist[index] \in History
    BY <1>9, <1>01 DEF TransmitOK, TypeOK
  <2> DEFINE p == Transmitted(packets[index], PJON_ACK)
             h == [hist[index] EXCEPT !.tries = (@ + 1) % AttemptMod, !.acked = TRUE]
  <2>2. p \in Packet
    BY <2>1, <1>0, <1>01, PacketOperators
  <2>3. ResetPacket(p) \in Packet
    BY <2>2, <1>0, PacketOperators
  <2>4. HistReset(p, h) \in History
    BY <2>1, <1>0 DEF HistReset
  <2> HIDE DEF p, h
  <2>5. packets' = [packets EXCEPT ![index] = ResetPacket(p)]
        /\ hist' = [hist EXCEPT ![index] = HistReset(p, h)]
        /\ (count' = count \/ count' = count + 1)
        /\ index' = index + 1 /\ UNCHANGED <<auto_delete, pc>>
        /\ pc = "loop" /\ index < MaxPackets
    BY <1>9 DEF TransmitOK, Visiting, p, h
  <2>6. packets' \in [Slots -> Packet] /\ hist' \in [Slots -> History]
    BY <2>3, <2>4, <2>5 DEF TypeOK
  <2>7. QED
    BY <2>5, <2>6 DEF TypeOK, CountBound
<1>10. ASSUME NEW r \in {PJON_BUSY, PJON_FAIL}, TransmitFails(r) PROVE TypeInv'
  <2>1. index \in Slots /\ packets[index] \in Packet /\ hist[index] \in History
    BY <1>10, <1>01 DEF TransmitFails, TypeOK
  <2> DEFINE p == Transmitted(packets[index], r)
  <2>2. p \in Packet
    BY <2>1, <1>0, <1>01, PacketOperators
  <2> HIDE DEF p
  <2>3. packets' = [packets EXCEPT ![index] = p]
        /\ hist' = [hist EXCEPT ![index].tries = (@ + 1) % AttemptMod]
        /\ count' = count + 1
        /\ (\/ pc' = "lost" /\ index' = index
            \/ pc' = pc /\ index' = index + 1)
        /\ UNCHANGED auto_delete
        /\ pc = "loop" /\ index < MaxPackets
    BY <1>10 DEF TransmitFails, Visiting, p
  <2>4. packets' \in [Slots -> Packet] /\ hist' \in [Slots -> History]
    BY <2>1, <2>2, <2>3, <1>0 DEF TypeOK
  <2>5. QED
    BY <2>3, <2>4 DEF TypeOK, CountBound
<1>11. ASSUME VisitDelivered PROVE TypeInv'
  <2>1. index \in Slots /\ packets[index] \in Packet /\ hist[index] \in History
    BY <1>11, <1>01 DEF VisitDelivered, TypeOK
  <2> DEFINE p == Transmitted(packets[index], PJON_ACK)
  <2>2. p \in Packet
    BY <2>1, <1>0, <1>01, PacketOperators
  <2>3. ResetPacket(p) \in Packet
    BY <2>2, <1>0, PacketOperators
  <2>4. HistReset(p, hist[index]) \in History
    BY <2>1, <1>0 DEF HistReset
  <2> HIDE DEF p
  <2>5. packets' = [packets EXCEPT ![index] = ResetPacket(p)]
        /\ hist' = [hist EXCEPT ![index] = HistReset(p, hist[index])]
        /\ (count' = count \/ count' = count + 1)
        /\ index' = index + 1 /\ UNCHANGED <<auto_delete, pc>>
        /\ pc = "loop" /\ index < MaxPackets
    BY <1>11 DEF VisitDelivered, Visiting, p
  <2>6. packets' \in [Slots -> Packet] /\ hist' \in [Slots -> History]
    BY <2>3, <2>4, <2>5 DEF TypeOK
  <2>7. QED
    BY <2>5, <2>6 DEF TypeOK, CountBound
<1>12. ASSUME HandlerReturns PROVE TypeInv'
  <2>1. index \in Slots /\ packets[index] \in Packet /\ hist[index] \in History
    BY <1>12, <1>01 DEF HandlerReturns, TypeOK
  <2>2. ResetPacket(packets[index]) \in Packet
    BY <2>1, <1>0, PacketOperators
  <2>3. HistReset(packets[index], hist[index]) \in History
    BY <2>1, <1>0 DEF HistReset
  <2>4. packets' \in [Slots -> Packet] /\ hist' \in [Slots -> History]
    BY <1>12, <2>2, <2>3 DEF HandlerReturns, TypeOK
  <2>5. QED
    BY <1>12, <2>1, <2>4 DEF HandlerReturns, TypeOK, CountBound
<1>13. ASSUME EndUpdate PROVE TypeInv'
  BY <1>13 DEF EndUpdate, TypeOK, CountBound
<1>14. ASSUME Tick PROVE TypeInv'
  <2>1. \A i \in Slots : packets[i].age < Horizon
                           => [packets[i] EXCEPT !.age = @ + 1] \in Packet
    BY DEF TypeOK, Packet
  <2>2. packets' \in [Slots -> Packet]
    BY <1>14, <2>1 DEF Tick, TypeOK
  <2>3. QED
    BY <1>14, <2>2 DEF Tick, TypeOK, CountBound
<1>15. CASE UNCHANGED vars
  BY <1>15 DEF vars, TypeOK, CountBound
<1>16. QED
  BY <1>1, <1>2, <1>3, <1>4, <1>5, <1>6, <1>7, <1>8, <1>9, <1>10, <1>11,
     <1>12, <1>13, <1>14, <1>15 DEF Next, Application, Update

LEMMA TypeInvHolds == Spec => []TypeInv
  BY TypeInvInit, TypeInvNext, PTL DEF Spec

\* The send list stays well-formed: every slot holds a packet, update() never
\* leaves the array, and packets_count never goes below zero or above the size
\* of the list, whatever the application and the error handler call.
THEOREM TypeCorrect == Spec => []TypeOK
<1>1. TypeInv => TypeOK
  BY DEF TypeInv
<1>2. QED
  BY <1>1, TypeInvHolds, PTL DEF Spec

-----------------------------------------------------------------------------
(* Repeated transmissions.                                                  *)

\* update() reschedules a repeated packet, delivered or lost, and never frees
\* its slot.
THEOREM RepeatedIsKeptHolds == Spec => RepeatedIsKept
<1>1. TypeInv /\ [Next]_vars =>
        [\A i \in Slots : (Busy(i) /\ packets[i].timing # 0 /\ index' > index)
                             => packets'[i].state # FREE]_vars
  <2> SUFFICES ASSUME TypeInv, Next, index' > index,
                      NEW i \in Slots, Busy(i), packets[i].timing # 0
               PROVE  packets'[i].state # FREE
    OBVIOUS
  <2>1. /\ packets \in [Slots -> Packet] /\ packets[i] \in Packet
        /\ index \in 0 .. MaxPackets
        /\ PJON_TO_BE_SENT # FREE
    BY DEF TypeInv, TypeOK, PJON_TO_BE_SENT, FREE
  <2>2. ASSUME NEW p \in Packet, p.timing # 0
        PROVE  ResetPacket(p).state = PJON_TO_BE_SENT
    BY <2>2 DEF ResetPacket, Rescheduled, Packet
  <2>3. ASSUME NEW r \in States, i = index
        PROVE  /\ Transmitted(packets[index], r) \in Packet
               /\ Transmitted(packets[index], r).timing # 0
               /\ Transmitted(packets[index], r).state = r
    <3>1. auto_delete \in BOOLEAN
      BY DEF TypeInv, TypeOK
    <3>2. QED
      BY <2>1, <2>3, <3>1, PacketOperators DEF Transmitted, Packet
  <2>4. CASE TransmitOK \/ VisitDelivered
    <3>1. PJON_ACK \in States
      BY DEF States
    <3>2. packets' = [packets EXCEPT ![index] =
                        ResetPacket(Transmitted(packets[index], PJON_ACK))]
      BY <2>4 DEF TransmitOK, VisitDelivered
    <3>3. QED
      BY <2>1, <2>2, <2>3, <3>1, <3>2 DEF Busy
  <2>5. ASSUME NEW r \in {PJON_BUSY, PJON_FAIL}, TransmitFails(r)
        PROVE  packets'[i].state # FREE
    <3>1. r \in States /\ r # FREE
      BY DEF States, PJON_BUSY, PJON_FAIL, FREE
    <3>2. QED
      BY <2>1, <2>3, <2>5, <3>1 DEF TransmitFails, Busy
  <2>6. CASE HandlerReturns
    BY <2>1, <2>2, <2>6 DEF HandlerReturns, Busy
  <2>7. CASE SkipFree \/ SkipEarly
    BY <2>7 DEF SkipFree, SkipEarly, Busy
  <2>8. CASE Tick
    BY <2>8, <2>1 DEF Tick
  <2>9. CASE BeginUpdate \/ EndUpdate
    BY <2>9, <2>1 DEF BeginUpdate, EndUpdate
  <2>10. CASE Application
    <3>1. ASSUME NEW j \in Slots, NEW c \in Contents, NEW t \in Timings, Schedule(j, c, t)
          PROVE  index' = index
      BY <3>1 DEF Schedule
    <3>2. ASSUME NEW j \in Slots, Remove(j) PROVE index' = index
      BY <3>2 DEF Remove
    <3>3. ASSUME NEW d, RemoveAllPackets(d) PROVE index' = index
      BY <3>3 DEF RemoveAllPackets
    <3>4. ASSUME NEW b, SetPacketAutoDeletion(b) PROVE index' = index
      BY <3>4 DEF SetPacketAutoDeletion
    <3>5. index' = index
      BY <2>10, <3>1, <3>2, <3>3, <3>4 DEF Application, Dispatch, DispatchAt
    <3>6. QED
      BY <2>1, <3>5
  <2>11. QED
    BY <2>4, <2>5, <2>6, <2>7, <2>8, <2>9, <2>10 DEF Next, Update
<1>2. QED
  BY <1>1, TypeInvHolds, PTL DEF Spec, RepeatedIsKept

-----------------------------------------------------------------------------
(* Manual deletion.                                                         *)

\* A delivered packet left in the list is never transmitted again, and nothing
\* but its own removal or replacement takes it out of its delivered state.
THEOREM DeliveredStaysQuietHolds == Spec => []DeliveredStaysQuiet
<1>1. Init => DeliveredStaysQuiet
  BY DEF Init, DeliveredStaysQuiet, Fresh
<1>2. TypeInv /\ DeliveredStaysQuiet /\ [Next]_vars => DeliveredStaysQuiet'
  <2> SUFFICES ASSUME TypeInv, DeliveredStaysQuiet, [Next]_vars
               PROVE  DeliveredStaysQuiet'
    OBVIOUS
  <2> USE DEF DeliveredStaysQuiet
  <2>0. /\ packets \in [Slots -> Packet] /\ hist \in [Slots -> History]
        /\ auto_delete \in BOOLEAN
        /\ pc = "lost" => index \in Slots
        /\ Visiting => index \in Slots
        /\ ~Fresh.acked
    BY DEF TypeInv, TypeOK, Slots, Visiting, Fresh
  <2>1. ASSUME NEW i \in Slots, NEW c \in Contents, NEW t \in Timings, Schedule(i, c, t)
        PROVE  DeliveredStaysQuiet'
    BY <2>0, <2>1 DEF Schedule
  <2>2. ASSUME NEW i \in Slots, Remove(i)
        PROVE  DeliveredStaysQuiet'
    BY <2>0, <2>2 DEF Remove
  <2>3. ASSUME NEW d, RemoveAllPackets(d)
        PROVE  DeliveredStaysQuiet'
    BY <2>0, <2>3 DEF RemoveAllPackets
  \* A slot that update() resets.
  <2>4. ASSUME NEW p \in Packet, NEW h, index \in Slots,
               h.acked => p.state = PJON_ACK,
               packets' = [packets EXCEPT ![index] = ResetPacket(p)],
               hist' = [hist EXCEPT ![index] = HistReset(p, h)]
        PROVE  DeliveredStaysQuiet'
    <3>1. HistReset(p, h).acked => ResetPacket(p).state = PJON_ACK
      BY <2>0, <2>4 DEF HistReset, ResetPacket
    <3>2. QED
      BY <2>0, <2>4, <3>1
  <2>5. ASSUME Visiting
        PROVE  /\ Transmitted(packets[index], PJON_ACK) \in Packet
               /\ Transmitted(packets[index], PJON_ACK).state = PJON_ACK
    <3>1. PJON_ACK \in States
      BY DEF States
    <3>2. QED
      BY <2>0, <2>5, <3>1, PacketOperators DEF Transmitted, Packet
  <2>6. CASE TransmitOK
    BY <2>0, <2>4, <2>5, <2>6 DEF TransmitOK
  <2>7. CASE VisitDelivered
    BY <2>0, <2>4, <2>5, <2>7 DEF VisitDelivered
  <2>8. CASE HandlerReturns
    BY <2>0, <2>4, <2>8 DEF HandlerReturns
  <2>9. ASSUME NEW r \in {PJON_BUSY, PJON_FAIL}, TransmitFails(r)
        PROVE  DeliveredStaysQuiet'
    <3>1. index \in Slots /\ ~hist[index].acked
      BY <2>0, <2>9 DEF TransmitFails, Undelivered
    <3>2. ~hist'[index].acked
      BY <2>0, <2>9, <3>1 DEF TransmitFails, History
    <3>3. \A j \in Slots \ {index} : packets'[j] = packets[j] /\ hist'[j] = hist[j]
      BY <2>0, <2>9 DEF TransmitFails
    <3>4. QED
      BY <3>1, <3>2, <3>3
  <2>10. CASE Tick
    BY <2>0, <2>10 DEF Tick, Packet
  <2>11. CASE \/ BeginUpdate \/ SkipFree \/ SkipEarly \/ EndUpdate
              \/ \E b \in AutoDeleteModes : SetPacketAutoDeletion(b)
              \/ UNCHANGED vars
    BY <2>11 DEF BeginUpdate, SkipFree, SkipEarly, EndUpdate, SetPacketAutoDeletion, vars
  <2>12. QED
    BY <2>1, <2>2, <2>3, <2>6, <2>7, <2>8, <2>9, <2>10, <2>11
       DEF Next, Application, Update, Dispatch, DispatchAt
<1>3. QED
  BY <1>1, <1>2, TypeInvHolds, PTL DEF Spec
-----------------------------------------------------------------------------
(* Attempts.  The attempts counted in a slot are the transmissions of its    *)
(* packet and those it inherited, less one round of the counter when that    *)
(* wrapped around; a delivered packet goes on counting the visits of         *)
(* update(), and a free slot has none.                                       *)

Sound(p, h) ==
  /\ p.state # PJON_ACK => \/ p.attempts = h.tries + h.inherited
                           \/ p.attempts + AttemptMod = h.tries + h.inherited
  /\ p.state = FREE => p.attempts = 0

AttemptsInv == \A i \in Slots : Sound(packets[i], hist[i])

\* A slot that starts over is counted from nothing.
LEMMA FreshIsSound ==
  ASSUME NEW p, p.attempts = 0
  PROVE  Sound(p, Fresh)
BY DEF Sound, Fresh

LEMMA ResetIsSound ==
  ASSUME NEW p \in Packet, NEW h, Sound(p, h)
  PROVE  Sound(ResetPacket(p), HistReset(p, h))
<1>1. CASE p.timing # 0 \/ auto_delete
  <2>1. ResetPacket(p).attempts = 0 /\ HistReset(p, h) = Fresh
    BY <1>1 DEF ResetPacket, Rescheduled, Removed, HistReset, Packet
  <2>2. QED
    BY <2>1, FreshIsSound
<1>2. CASE ~(p.timing # 0 \/ auto_delete)
  BY <1>2 DEF ResetPacket, HistReset
<1>3. QED
  BY <1>1, <1>2

\* A transmission counts one attempt and one try.
LEMMA FailureIsSound ==
  ASSUME NEW p \in Packet, NEW h \in History, NEW r \in {PJON_BUSY, PJON_FAIL},
         Sound(p, h), p.state # PJON_ACK
  PROVE  Sound(Transmitted(p, r), [h EXCEPT !.tries = (@ + 1) % AttemptMod])
<1> DEFINE a  == p.attempts
           t  == h.tries
           n  == h.inherited
           a1 == (a + 1) % AttemptMod
           t1 == (t + 1) % AttemptMod
           q  == Transmitted(p, r)
           g  == [h EXCEPT !.tries = t1]
<1>1. /\ a \in 0 .. AttemptMod - 1 /\ t \in 0 .. AttemptMod - 1 /\ n \in 0 .. AttemptMod - 1
      /\ AttemptMod \in Nat
      /\ a = t + n \/ a + AttemptMod = t + n
  BY SizesAssumption DEF Packet, History, Attempts, Sound
<1>2. /\ q.attempts = a1 /\ q.state = r /\ g.tries = t1 /\ g.inherited = n
  BY DEF Transmitted, Packet, History
<1>3. r # FREE
  BY DEF PJON_BUSY, PJON_FAIL, FREE
<1>4. /\ a + 1 < AttemptMod => a1 = a + 1
      /\ a + 1 = AttemptMod => a1 = 0
      /\ t + 1 < AttemptMod => t1 = t + 1
      /\ t + 1 = AttemptMod => t1 = 0
  <2> HIDE DEF a, t
  <2>1. QED
    BY <1>1
<1> HIDE DEF a, t, n, a1, t1, q
<1>5. a1 = t1 + n \/ a1 + AttemptMod = t1 + n
  BY <1>1, <1>4
<1>6. QED
  BY <1>2, <1>3, <1>5 DEF Sound, q, t1, t

\* A step that changes one slot.
LEMMA SlotIsSound ==
  ASSUME TypeInv, AttemptsInv, NEW i \in Slots, NEW p, NEW h, Sound(p, h),
         packets' = [packets EXCEPT ![i] = p], hist' = [hist EXCEPT ![i] = h]
  PROVE  AttemptsInv'
<1>1. packets \in [Slots -> Packet] /\ hist \in [Slots -> History]
  BY DEF TypeInv, TypeOK
<1>2. /\ packets'[i] = p /\ hist'[i] = h
      /\ \A j \in Slots \ {i} : packets'[j] = packets[j] /\ hist'[j] = hist[j]
  BY <1>1
<1>3. \A j \in Slots : Sound(packets'[j], hist'[j])
  BY <1>2 DEF AttemptsInv
<1>4. QED
  BY <1>3 DEF AttemptsInv, Sound

LEMMA AttemptsInvNext == TypeInv /\ AttemptsInv /\ [Next]_vars => AttemptsInv'
<1> SUFFICES ASSUME TypeInv, AttemptsInv, [Next]_vars
             PROVE  AttemptsInv'
  OBVIOUS
<1>0. /\ packets \in [Slots -> Packet] /\ hist \in [Slots -> History]
      /\ auto_delete \in BOOLEAN
      /\ pc = "lost" => index \in Slots
      /\ Visiting => index \in Slots
  BY DEF TypeInv, TypeOK, Visiting, Slots
<1>1. ASSUME NEW i \in Slots, NEW c \in Contents, NEW t \in Timings, Schedule(i, c, t)
      PROVE  AttemptsInv'
  <2> DEFINE p == [packets[i] EXCEPT !.content = c, !.length = 1, !.state = PJON_TO_BE_SENT,
                                     !.age = 0, !.timing = t]
             h == [tries |-> 0, acked |-> FALSE,
                   inherited |-> IF Busy(i) THEN packets[i].attempts ELSE 0]
  <2>1. packets' = [packets EXCEPT ![i] = p] /\ hist' = [hist EXCEPT ![i] = h]
    BY <1>1 DEF Schedule
  <2>2. /\ p.attempts = packets[i].attempts /\ p.state = PJON_TO_BE_SENT
        /\ packets[i].attempts \in Nat
        /\ ~Busy(i) => packets[i].attempts = 0
    BY <1>0 DEF Packet, Attempts, AttemptsInv, Sound, Busy
  <2>3. PJON_TO_BE_SENT # FREE
    BY DEF PJON_TO_BE_SENT, FREE
  <2>4. h.tries + h.inherited = packets[i].attempts
    BY <2>2
  <2>5. Sound(p, h)
    BY <2>2, <2>3, <2>4 DEF Sound
  <2> HIDE DEF p, h
  <2>6. QED
    BY <2>1, <2>5, SlotIsSound
<1>2. ASSUME NEW i \in Slots, Remove(i)
      PROVE  AttemptsInv'
  <2>1. Removed(packets[i]).attempts = 0
    BY <1>0 DEF Removed, Packet
  <2>2. QED
    BY <1>2, <2>1, FreshIsSound, SlotIsSound DEF Remove
<1>3. ASSUME NEW d, RemoveAllPackets(d)
      PROVE  AttemptsInv'
  <2> SUFFICES ASSUME NEW i \in Slots
               PROVE  Sound(packets'[i], hist'[i])
    BY DEF AttemptsInv, Sound
  <2>1. \/ packets'[i] = packets[i] /\ hist'[i] = hist[i]
        \/ packets'[i] = Removed(packets[i]) /\ hist'[i] = Fresh
    BY <1>3 DEF RemoveAllPackets
  <2>2. Removed(packets[i]).attempts = 0
    BY <1>0 DEF Removed, Packet
  <2>3. QED
    BY <2>1, <2>2, FreshIsSound DEF AttemptsInv
<1>4. ASSUME NEW h \in History, index \in Slots, Busy(index),
             packets' = [packets EXCEPT ![index] =
                           ResetPacket(Transmitted(packets[index], PJON_ACK))],
             hist' = [hist EXCEPT ![index] =
                        HistReset(Transmitted(packets[index], PJON_ACK), h)]
      PROVE  AttemptsInv'
  <2> DEFINE p == Transmitted(packets[index], PJON_ACK)
  <2>1. PJON_ACK \in States /\ PJON_ACK # FREE
    BY DEF States, PJON_ACK, FREE
  <2>2. packets[index] \in Packet
    BY <1>0, <1>4
  <2>3. p \in Packet
    BY <1>0, <2>1, <2>2, PacketOperators
  <2>4. p.state = PJON_ACK
    BY <2>2 DEF Transmitted, Packet
  <2>5. Sound(p, h)
    BY <2>1, <2>4 DEF Sound
  <2> HIDE DEF p
  <2>6. Sound(ResetPacket(p), HistReset(p, h))
    BY <2>3, <2>5, ResetIsSound
  <2>7. QED
    BY <1>4, <2>6, SlotIsSound DEF p
<1>5. CASE TransmitOK
  <2> DEFINE h == [hist[index] EXCEPT !.tries = (@ + 1) % AttemptMod, !.acked = TRUE]
  <2>1. index \in Slots /\ Busy(index)
    BY <1>0, <1>5 DEF TransmitOK
  <2>2. h \in History
    <3>1. hist[index] \in History /\ hist[index].tries \in Nat
      BY <1>0, <2>1 DEF History, Attempts
    <3>2. (hist[index].tries + 1) % AttemptMod \in Attempts
      BY <3>1, SizesAssumption DEF Attempts
    <3>3. QED
      BY <3>1, <3>2 DEF History
  <2>3. QED
    BY <1>4, <1>5, <2>1, <2>2 DEF TransmitOK
<1>6. CASE VisitDelivered
  <2>1. index \in Slots /\ Busy(index)
    BY <1>0, <1>6 DEF VisitDelivered
  <2>2. hist[index] \in History
    BY <1>0, <2>1
  <2>3. QED
    BY <1>0, <1>4, <1>6, <2>1, <2>2 DEF VisitDelivered
<1>7. ASSUME NEW r \in {PJON_BUSY, PJON_FAIL}, TransmitFails(r)
      PROVE  AttemptsInv'
  <2> DEFINE h == [hist[index] EXCEPT !.tries = (@ + 1) % AttemptMod]
  <2>1. index \in Slots /\ packets[index].state # PJON_ACK
    BY <1>0, <1>7 DEF TransmitFails, Undelivered
  <2>2. packets[index] \in Packet /\ hist[index] \in History
    BY <1>0, <2>1
  <2>3. /\ packets' = [packets EXCEPT ![index] = Transmitted(packets[index], r)]
        /\ hist' = [hist EXCEPT ![index] = h]
    BY <1>0, <1>7 DEF TransmitFails
  <2>4. Sound(packets[index], hist[index])
    BY <2>1 DEF AttemptsInv
  <2>5. Sound(Transmitted(packets[index], r), h)
    BY <2>1, <2>2, <2>4, FailureIsSound
  <2> HIDE DEF h
  <2>6. QED
    BY <2>1, <2>3, <2>5, SlotIsSound
<1>8. CASE HandlerReturns
  <2>1. index \in Slots
    BY <1>0, <1>8 DEF HandlerReturns
  <2>2. /\ packets' = [packets EXCEPT ![index] = ResetPacket(packets[index])]
        /\ hist' = [hist EXCEPT ![index] = HistReset(packets[index], hist[index])]
    BY <1>0, <1>8 DEF HandlerReturns
  <2>3. Sound(ResetPacket(packets[index]), HistReset(packets[index], hist[index]))
    BY <1>0, <2>1, ResetIsSound DEF AttemptsInv
  <2>4. QED
    BY <2>1, <2>2, <2>3, SlotIsSound
<1>9. CASE Tick
  <2>1. \A i \in Slots : /\ packets'[i].attempts = packets[i].attempts
                         /\ packets'[i].state = packets[i].state
                         /\ hist'[i] = hist[i]
    BY <1>0, <1>9 DEF Tick, Packet
  <2>2. QED
    BY <2>1 DEF AttemptsInv, Sound
<1>10. CASE \/ BeginUpdate \/ SkipFree \/ SkipEarly \/ EndUpdate
            \/ \E b \in AutoDeleteModes : SetPacketAutoDeletion(b)
            \/ UNCHANGED vars
  <2>1. UNCHANGED <<packets, hist>>
    BY <1>10 DEF BeginUpdate, SkipFree, SkipEarly, EndUpdate, SetPacketAutoDeletion, vars
  <2>2. QED
    BY <2>1 DEF AttemptsInv, Sound
<1>11. QED
  BY <1>1, <1>2, <1>3, <1>5, <1>6, <1>7, <1>8, <1>9, <1>10
     DEF Next, Application, Update, Dispatch, DispatchAt

LEMMA AttemptsInvHolds == Spec => []AttemptsInv
<1>1. Init => AttemptsInv
  BY DEF Init, AttemptsInv, Sound, Fresh
<1>2. QED
  BY <1>1, AttemptsInvNext, TypeInvHolds, PTL DEF Spec

\* The error handler is told of a lost connection only for a packet that was
\* never acknowledged and for which the attempts of the strategy were made,
\* whatever the application and the handler do to the list, with automatic
\* deletion or without.
THEOREM LostAfterAllAttemptsHolds == Spec => LostAfterAllAttempts
<1>1. TypeInv /\ AttemptsInv /\ DeliveredStaysQuiet /\ AttemptsInv' /\ [Next]_vars =>
        [pc = "loop" /\ pc' = "lost" =>
           /\ ~hist'[index].acked
           /\ hist'[index].tries + hist'[index].inherited >= MaxAttempts]_vars
  <2> SUFFICES ASSUME TypeInv, AttemptsInv, DeliveredStaysQuiet, AttemptsInv', Next,
                      pc = "loop", pc' = "lost"
               PROVE  /\ ~hist'[index].acked
                      /\ hist'[index].tries + hist'[index].inherited >= MaxAttempts
    OBVIOUS
  <2>1. PICK r \in {PJON_BUSY, PJON_FAIL} : TransmitFails(r)
    BY DEF Next, Application, Update, Dispatch, DispatchAt, Schedule, Remove,
           RemoveAllPackets, SetPacketAutoDeletion, BeginUpdate, SkipFree, SkipEarly,
           TransmitOK, VisitDelivered, HandlerReturns, EndUpdate, Tick, Calls
  <2> DEFINE p == Transmitted(packets[index], r)
             h == [hist[index] EXCEPT !.tries = (@ + 1) % AttemptMod]
  <2>2. /\ index \in Slots /\ packets \in [Slots -> Packet] /\ hist \in [Slots -> History]
        /\ packets[index].state # PJON_ACK
    BY <2>1 DEF TransmitFails, Visiting, Slots, TypeInv, TypeOK, Undelivered
  <2>3. ~hist[index].acked
    BY <2>2 DEF DeliveredStaysQuiet
  <2>4. hist'[index] = h /\ packets'[index] = p /\ (p.attempts > MaxAttempts)
    BY <2>1, <2>2 DEF TransmitFails
  <2>5. h \in [tries : Nat, inherited : Nat, acked : BOOLEAN] /\ h.acked = hist[index].acked
    <3>1. hist[index] \in History
      BY <2>2
    <3>2. hist[index].tries \in Nat /\ hist[index].inherited \in Nat
      BY <3>1 DEF History, Attempts
    <3>3. (hist[index].tries + 1) % AttemptMod \in Nat
      BY <3>2, SizesAssumption
    <3>4. QED
      BY <3>1, <3>2, <3>3 DEF History
  <2>6. p.state = r /\ p.attempts \in Nat
    <3>1. packets[index] \in Packet /\ packets[index].attempts \in Nat
      BY <2>2 DEF Packet, Attempts
    <3>2. (packets[index].attempts + 1) % AttemptMod \in Nat
      BY <3>1, SizesAssumption
    <3>3. QED
      BY <3>1, <3>2 DEF Transmitted, Packet
  <2>7. r # PJON_ACK
    BY DEF PJON_BUSY, PJON_FAIL, PJON_ACK
  <2> HIDE DEF p, h
  <2>8. Sound(packets'[index], hist'[index])
    BY <2>2 DEF AttemptsInv, Sound
  <2>9. p.attempts = h.tries + h.inherited \/ p.attempts + AttemptMod = h.tries + h.inherited
    BY <2>4, <2>6, <2>7, <2>8 DEF Sound
  <2>10. h.tries + h.inherited >= MaxAttempts
    BY <2>4, <2>5, <2>6, <2>9, SizesAssumption
  <2>11. QED
    BY <2>3, <2>4, <2>5, <2>10
<1>2. QED
  BY <1>1, TypeInvHolds, AttemptsInvHolds, DeliveredStaysQuietHolds, PTL
     DEF Spec, LostAfterAllAttempts
=============================================================================
