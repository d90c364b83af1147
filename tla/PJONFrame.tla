------------------------------ MODULE PJONFrame ------------------------------
(***************************************************************************)
(* The format of a packet: compose_packet() of the sender, and the checks  *)
(* and the parsing of receive(), for devices of every kind on one medium,  *)
(* those that run PJON and those that run the smaller PJONLocal.           *)
(*                                                                         *)
(* A frame is a sequence of cells, one for each byte, laid out by the      *)
(* composer field by field and read back by position.  A CRC is a cell     *)
(* that names the cells it covers; a frame that is heard is heard whole.   *)
(* The header is a set of flags.  The bytes of a bus id or of a MAC        *)
(* address have one value; payloads have their length and order.           *)
(***************************************************************************)
EXTENDS Integers, Sequences, FiniteSets

CONSTANTS
  Devices,     \* the instances on the medium
  Config,      \* what each has been configured and compiled with
  ByteSize,    \* 256: a length of ByteSize or more needs two bytes
  MaxLength,   \* PJON_PACKET_MAX_LENGTH
  Requests     \* the packets the application may send

PJON_BROADCAST    == 0
PJON_NOT_ASSIGNED == 255
PJON_NO_HEADER    == {"MAC", "EXT_LEN"}
Localhost == 0   \* the bus id 0.0.0.0
NoMac     == 0

Flags == {"MODE", "TX_INFO", "ACK_REQ", "MAC", "PORT", "CRC", "EXT_LEN", "PACKET_ID"}

\* config is the header of a device, MODE that of shared mode; knows holds the
\* features compiled in: PJON_INCLUDE_PORT, _PACKET_ID and _MAC.  packet_id is what
\* the packet was given, or new_packet_id().
Device  == [class: {"PJON", "PJONLocal"}, id: 0 .. 255, bus: Nat, mac: Nat, port: Nat,
            config: SUBSET Flags, router: BOOLEAN, simplex: BOOLEAN,
            knows: SUBSET {"PORT", "PACKET_ID", "MAC"}]
Request == [from: Devices, id: 0 .. 255, bus: Nat, mac: Nat, header: SUBSET Flags,
            hops: Nat, packet_id: Nat, port: Nat, size: Nat]

\* An application sets no flag of a feature it does not compile, and there is a port
\* to configure only where ports are compiled.  PJONLocal knows local buses and ports
\* (with packet ids it does not compile).
ASSUME FrameAssumption ==
  /\ Config \in [Devices -> Device]
  /\ ByteSize \in Nat \ {0} /\ MaxLength \in Nat
  /\ Requests \subseteq Request
  /\ \A d \in Devices : Config[d].port # PJON_BROADCAST => "PORT" \in Config[d].knows
  /\ \A d \in Devices : Config[d].class = "PJONLocal" =>
       Config[d].bus = Localhost /\ Config[d].knows \subseteq {"PORT"} /\ "MODE" \notin Config[d].config
  /\ \A r \in Requests :
       (r.header \cup Config[r.from].config) \cap {"PORT", "PACKET_ID", "MAC"}
         \subseteq Config[r.from].knows

VARIABLES
  sent,      \* the request being transmitted
  frame,     \* its frame, <<>> when there is none
  heard,     \* the devices that have run receive() on it
  answered,  \* those of them that sent PJON_ACK
  got        \* what their receiver functions were given

frame_vars == <<sent, frame, heard, answered, got>>

Nothing == [from |-> "nobody"]

FrameInit ==
  /\ sent = Nothing /\ frame = <<>> /\ heard = {} /\ answered = {}
  /\ got = [d \in Devices |-> Nothing]

Has(h, flag, n) == IF flag \in h THEN n ELSE 0

\* packet_overhead().
Overhead(h) ==
  (IF "MODE" \in h THEN 6 + Has(h, "TX_INFO", 5) ELSE 1 + Has(h, "TX_INFO", 1))
  + (1 + Has(h, "EXT_LEN", 1)) + (1 + Has(h, "CRC", 3))
  + Has(h, "PORT", 2) + Has(h, "PACKET_ID", 2) + Has(h, "MAC", 12) + 2

CrcOverhead(h) == 1 + Has(h, "CRC", 3)

-----------------------------------------------------------------------------
(* Composing. *)

\* A packet with no header of its own gets that of the sender.
Given(r) == IF r.header = PJON_NO_HEADER THEN Config[r.from].config ELSE r.header

\* The port of a packet: the sender's when the flag asks for one and none is given;
\* PJONLocal does not ask for the flag.
PortOf(r) ==
  LET me == Config[r.from]
  IN  IF /\ me.port # PJON_BROADCAST /\ r.port = PJON_BROADCAST
         /\ "PORT" \in Given(r) \/ me.class = "PJONLocal"
      THEN me.port ELSE r.port

\* The header before the length of the packet is looked at: two length bytes for
\* a long payload, a port if there is one, no acknowledgement of a broadcast.
Asked(r) ==
  LET long == IF r.size >= ByteSize THEN {"EXT_LEN"} ELSE {}
      port == IF "PORT" \in Config[r.from].knows /\ PortOf(r) # PJON_BROADCAST
              THEN {"PORT"} ELSE {}
      ack  == IF r.id = PJON_BROADCAST THEN {"ACK_REQ"} ELSE {}
  IN  ((Given(r) \ {"PORT"}) \ ack) \cup long \cup port

\* Whether two length bytes are written, which is decided here.
Extended(r) == "EXT_LEN" \in Asked(r)

\* Mutant: the limit of CRC8 is one byte off.
WithCrcOff(r) ==
  Asked(r) \cup IF r.size + Overhead(Asked(r)) > 16 THEN {"CRC"} ELSE {}

\* A packet of more than 15 bytes gets CRC32,
WithCrc(r) ==
  Asked(r) \cup IF r.size + Overhead(Asked(r)) > 15 THEN {"CRC"} ELSE {}

\* and a packet whose length does not fit a byte two length bytes.
Header(r) ==
  WithCrc(r) \cup IF r.size + Overhead(WithCrc(r)) >= ByteSize THEN {"EXT_LEN"} ELSE {}

Total(r) == r.size + Overhead(Header(r))

Bytes(v, n)   == [k \in 1 .. n |-> v]
Pair(v)       == <<v \div ByteSize, v % ByteSize>>
If(flag, h, s) == IF flag \in h THEN s ELSE <<>>
Payload(n)    == [k \in 1 .. n |-> 1000 + k]
\* The CRC of the first k cells, over one cell and over four.
Crc8(k)       == -k
Crc32(k)      == [j \in 1 .. 4 |-> -1000 * j - k]

\* Mutant: the bus ids are written sender first.
AddressesSwapped(r, h) ==
  LET me == Config[r.from]
  IN  If("MODE", h, If("TX_INFO", h, Bytes(me.bus, 4)) \o Bytes(r.bus, 4) \o <<r.hops>>)
      \o If("TX_INFO", h, <<me.id>>)

\* Bus ids, hops and sender, in the order they are written.
Addresses(r, h) ==
  LET me == Config[r.from]
  IN  If("MODE", h, Bytes(r.bus, 4) \o If("TX_INFO", h, Bytes(me.bus, 4)) \o <<r.hops>>)
      \o If("TX_INFO", h, <<me.id>>)

Options(r, h) ==
  If("PACKET_ID", h, Pair(r.packet_id)) \o If("PORT", h, Pair(PortOf(r)))
  \o If("MAC", h, Bytes(r.mac, 6) \o Bytes(Config[r.from].mac, 6))

\* Everything before the CRC.  The CRC is written at its place from the end, so
\* what is between is left as it was.
Body(r) ==
  LET h    == Header(r)
      len  == IF Extended(r) THEN Pair(Total(r)) \o <<Crc8(4)>>
              ELSE <<Total(r) % ByteSize, Crc8(3)>>
      used == <<r.id, h>> \o len \o Addresses(r, h) \o Options(r, h) \o Payload(r.size)
  IN  used \o Bytes(0, Total(r) - CrcOverhead(h) - Len(used))

\* compose_packet(); a packet that does not fit is not sent.
Composed(r) ==
  IF Total(r) >= MaxLength THEN <<>>
  ELSE Body(r) \o (IF "CRC" \in Header(r) THEN Crc32(Total(r) - 4) ELSE <<Crc8(Total(r) - 1)>>)

Send(r) ==
  /\ sent = Nothing
  /\ sent' = r /\ frame' = Composed(r)
  /\ UNCHANGED <<heard, answered, got>>

-----------------------------------------------------------------------------
(* Receiving.  The cell at byte offset i is f[i + 1]. *)

Shared(me)  == "MODE" \in me.config
HeaderOf(f) == f[2]
X(f)        == Has(HeaderOf(f), "EXT_LEN", 1)
LengthOf(f) == IF X(f) = 1 THEN f[3] * ByteSize + f[4] ELSE f[3]
Slice(f, offset, n) == SubSeq(f, offset + 1, offset + n)
Number(f, offset)   == f[offset + 1] * ByteSize + f[offset + 2]

\* The first two bytes: a packet for another device, of another kind of bus, or
\* with flags that cannot stand together.
HeaderRefused(d, f) ==
  LET me == Config[d]  h == HeaderOf(f)
  IN  \/ ~me.router /\ Shared(me) /\ "MODE" \notin h
      \/ f[1] = PJON_BROADCAST /\ "ACK_REQ" \in h
      \/ "EXT_LEN" \in h /\ "CRC" \notin h
      \/ ~((h \cap {"PORT", "PACKET_ID", "MAC"}) \subseteq me.knows)
      \/ "MAC" \in h /\ "CRC" \notin h
      \/ f[1] \notin {me.id, PJON_BROADCAST} /\ ~me.router /\ "MAC" \notin h

LengthRefused(f) ==
  LET n == LengthOf(f)
  IN  n < Overhead(HeaderOf(f)) + 1 \/ n >= MaxLength \/ (n > 15 /\ "CRC" \notin HeaderOf(f))

\* Mutant: a device of a local bus takes every bus id for its own.
BusRefusedShared(d, f) ==
  LET me == Config[d]
  IN  /\ "MODE" \in HeaderOf(f) /\ ~me.router /\ "MAC" \notin HeaderOf(f)
      /\ Shared(me) /\ \E k \in 1 .. 4 : Slice(f, 4 + X(f), 4)[k] # me.bus

\* The recipient's bus id: the own one, or that of local buses.
BusRefused(d, f) ==
  LET me == Config[d]
  IN  /\ "MODE" \in HeaderOf(f) /\ ~me.router /\ "MAC" \notin HeaderOf(f)
      /\ \E k \in 1 .. 4 :
           Slice(f, 4 + X(f), 4)[k] # (IF Shared(me) THEN me.bus ELSE Localhost)

CrcWrong(f) ==
  LET n == LengthOf(f)
  IN  \/ f[4 + X(f)] # Crc8(3 + X(f))
      \/ IF "CRC" \in HeaderOf(f) THEN Slice(f, n - 4, 4) # Crc32(n - 4)
         ELSE f[n] # Crc8(n - 1)

MacRefused(d, f) ==
  LET me == Config[d]  there == Slice(f, Overhead(HeaderOf(f)) - 16, 6)
  IN  /\ "MAC" \in me.knows /\ "MAC" \in HeaderOf(f) /\ LengthOf(f) > 15 /\ ~me.router
      /\ there # Bytes(me.mac, 6) /\ there # Bytes(NoMac, 6)

\* The packet is the device's own, and it says so.
Taken(d, f) == ~(HeaderRefused(d, f) \/ LengthRefused(f) \/ BusRefused(d, f)
                 \/ CrcWrong(f) \/ MacRefused(d, f))

\* receive() of PJONLocal: the id first; a port it has not compiled is no reason.
LocalHeaderRefused(d, f) ==
  LET me == Config[d]  h == HeaderOf(f)
  IN  \/ ~me.router /\ f[1] \notin {me.id, PJON_BROADCAST}
      \/ f[1] = PJON_BROADCAST /\ "ACK_REQ" \in h
      \/ "EXT_LEN" \in h /\ "CRC" \notin h
      \/ h \cap {"MODE", "MAC", "PACKET_ID"} # {}

\* A packet with no payload is taken, and answered.
LocalLengthRefused(f) ==
  LET n == LengthOf(f)
  IN  n < Overhead(HeaderOf(f)) \/ n >= MaxLength \/ (n > 15 /\ "CRC" \notin HeaderOf(f))

LocalTaken(d, f) == ~(LocalHeaderRefused(d, f) \/ LocalLengthRefused(f) \/ CrcWrong(f))

Takes(d, f) == IF Config[d].class = "PJON" THEN Taken(d, f) ELSE LocalTaken(d, f)

Answers(d, f) ==
  /\ "ACK_REQ" \in HeaderOf(f) /\ f[1] # PJON_BROADCAST
  /\ ~Config[d].simplex /\ ~Config[d].router

\* n bytes of the buffer a frame was received in: beyond the frame it holds what
\* was there before.
Stale == "stale"
Copied(f, offset, n) ==
  [k \in 1 .. n |-> IF offset + k <= Len(f) THEN f[offset + k] ELSE Stale]

\* parse_header(): each field from where the ones before it end.  A field the
\* header does not name keeps its default; but the MAC addresses are copied
\* whatever the header says, from where they would be.
Parsed(d, f) ==
  LET h    == HeaderOf(f)
      bus  == 4 + X(f)
      tbus == bus + Has(h, "MODE", 4)
      hops == tbus + (IF "MODE" \in h THEN Has(h, "TX_INFO", 4) ELSE 0)
      tx   == hops + Has(h, "MODE", 1)
      pid  == tx + Has(h, "TX_INFO", 1)
      port == pid + (IF "PACKET_ID" \in Config[d].knows THEN Has(h, "PACKET_ID", 2) ELSE 0)
      mac  == port + (IF "PORT" \in Config[d].knows THEN Has(h, "PORT", 2) ELSE 0)
  IN  [id   |-> f[1],
       from |-> IF "TX_INFO" \in h THEN f[tx + 1] ELSE PJON_NOT_ASSIGNED,
       bus  |-> IF "MODE" \in h THEN Slice(f, bus, 4) ELSE Bytes(0, 4),
       from_bus |-> IF {"MODE", "TX_INFO"} \subseteq h THEN Slice(f, tbus, 4) ELSE Bytes(0, 4),
       hops |-> IF "MODE" \in h THEN f[hops + 1] ELSE 0,
       packet_id |-> IF "PACKET_ID" \in h \cap Config[d].knows THEN Number(f, pid) ELSE 0,
       port |-> IF "PORT" \in h \cap Config[d].knows THEN Number(f, port) ELSE PJON_BROADCAST,
       macs |-> IF "MAC" \in Config[d].knows THEN Copied(f, mac, 12) ELSE <<>>,
       payload |-> Slice(f, Overhead(h) - CrcOverhead(h), LengthOf(f) - Overhead(h))]

\* receive() of one device; it acknowledges before it looks at the port.  PJONLocal
\* leaves the frame to the application, which parses it.
Receive(d) ==
  /\ frame # <<>> /\ d # sent.from /\ d \notin heard
  /\ heard' = heard \cup {d}
  /\ IF Takes(d, frame)
     THEN LET info == Parsed(d, frame)
              mine == Config[d].port \in {PJON_BROADCAST, info.port}
          IN  /\ answered' = IF Answers(d, frame) THEN answered \cup {d} ELSE answered
              /\ got' = IF mine THEN [got EXCEPT ![d] = info] ELSE got
     ELSE UNCHANGED <<answered, got>>
  /\ UNCHANGED <<sent, frame>>

\* The medium is free again, whether or not every device has heard the frame.
EndOfFrame ==
  /\ sent # Nothing
  /\ sent' = Nothing /\ frame' = <<>> /\ heard' = {} /\ answered' = {}
  /\ got' = [d \in Devices |-> Nothing]

FrameNext == (\E r \in Requests : Send(r)) \/ (\E d \in Devices : Receive(d)) \/ EndOfFrame

FrameSpec == FrameInit /\ [][FrameNext]_frame_vars

-----------------------------------------------------------------------------
(* Properties. *)

\* What the format cannot carry: no payload, two length bytes with CRC8, and a
\* length that needs its second byte only because of the overhead, which the
\* header announces and compose_packet() does not write.
Carried(r) ==
  /\ r.size > 0
  /\ "EXT_LEN" \in Header(r) => Extended(r) /\ "CRC" \in Header(r)

\* What the sender meant, field by field.
Meaning(r) ==
  LET h == Header(r)  me == Config[r.from]
  IN  [id   |-> r.id,
       from |-> IF "TX_INFO" \in h THEN me.id ELSE PJON_NOT_ASSIGNED,
       bus  |-> Bytes(IF "MODE" \in h THEN r.bus ELSE Localhost, 4),
       from_bus |-> Bytes(IF {"MODE", "TX_INFO"} \subseteq h THEN me.bus ELSE Localhost, 4),
       hops |-> IF "MODE" \in h THEN r.hops ELSE 0,
       packet_id |-> IF "PACKET_ID" \in h THEN r.packet_id ELSE 0,
       port |-> IF "PORT" \in h THEN PortOf(r) ELSE PJON_BROADCAST,
       macs |-> IF "MAC" \in h THEN Bytes(r.mac, 6) \o Bytes(me.mac, 6) ELSE <<>>,
       payload |-> Payload(r.size)]

\* What a receiver function learns of a packet: its MAC addresses only if the
\* header names them, since twelve bytes are copied there in any case.
Learns(info, r) == IF "MAC" \in Header(r) THEN info ELSE [info EXCEPT !.macs = <<>>]

\* A receiver function is given what was sent: each optional field the header
\* names is found where it was written, whichever of the others are there, and the
\* payload whole.  Only a port is passed over by a device that has not compiled
\* them.
ReadAsWritten ==
  \A d \in Devices : (got[d] # Nothing /\ Carried(sent)) =>
    Learns(got[d], sent) = IF "PORT" \in Config[d].knows THEN Meaning(sent)
                           ELSE [Meaning(sent) EXCEPT !.port = PJON_BROADCAST]

\* Who a packet is for, by the rules of the protocol: a router takes everything;
\* with hardware identification the MAC address decides, an empty one being
\* everybody's; otherwise the device id, or the broadcast, on the recipient's bus.
\* A shared device takes shared packets only, a device of a local bus also those
\* for bus 0.0.0.0, and nobody a packet with a feature it lacks, except that
\* PJONLocal takes ports and leaves all that is shared.
IsFor(d, r) ==
  LET me    == Config[d]
      h     == Header(r)
      lite  == me.class = "PJONLocal"
  IN  /\ h \cap {"PORT", "PACKET_ID", "MAC"} \subseteq me.knows \cup (IF lite THEN {"PORT"} ELSE {})
      /\ ~(lite /\ "MODE" \in h)
      /\ \/ me.router
         \/ /\ Shared(me) => "MODE" \in h
            /\ IF "MAC" \in h THEN r.mac \in {me.mac, NoMac}
               ELSE /\ r.id \in {me.id, PJON_BROADCAST}
                    /\ "MODE" \in h => r.bus = (IF Shared(me) THEN me.bus ELSE Localhost)

\* A packet is handed to the devices it is for, and to no other; a device that
\* serves one port may leave the rest.
HandedToItsRecipients ==
  (frame # <<>> /\ Carried(sent)) =>
    \A d \in heard :
      (got[d] # Nothing) =
        (IsFor(d, sent) /\ Config[d].port \in {PJON_BROADCAST, Meaning(sent).port})

BusOf(d) == IF Shared(Config[d]) THEN Config[d].bus ELSE Localhost
MayAnswer(d) == ~Config[d].router /\ ~Config[d].simplex

\* Addresses are given out once: two devices that acknowledge have different ids
\* or different buses, and different MAC addresses where they have one.
EachAddressOnce ==
  \A d, e \in {x \in Devices : MayAnswer(x)} :
    /\ Config[d].id = Config[e].id /\ BusOf(d) = BusOf(e) => d = e
    /\ "MAC" \in Config[d].knows \cap Config[e].knows /\ Config[d].mac = Config[e].mac => d = e

\* No two devices answer one frame, so that no two acknowledgements collide,
\* although local, shared and unassigned devices with one id share the medium.
\* The empty MAC address alone speaks to many at once.
OneAnswer ==
  (sent # Nothing /\ ~("MAC" \in Header(sent) /\ sent.mac = NoMac)) => Cardinality(answered) <= 1
=============================================================================
