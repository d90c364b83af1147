------------------------ MODULE PJONStrategies_proofs ------------------------
(***************************************************************************)
(* What holds of PJONMqtt in every mode, for everything that is sent and   *)
(* arrives, and for every way the library calls back; and what holds of    *)
(* PJONThroughSerial for all frames, lengths and losses.                   *)
(***************************************************************************)
EXTENDS PJONMqtt, PJONThroughSerial, TLAPS


Packets  == [keys: Seq(STRING) \ {<<>>}, fits: BOOLEAN]
Messages == [size: Nat, to: Nat, from: Nat, data: BOOLEAN]

ConfigInv == out \in Seq(Packets) /\ broker \in Seq(Messages)

LEMMA ConfigInvInit == Init => ConfigInv
BY MqttAssumption DEF Init, ConfigInv, Packets, Messages

LEMMA ConfigInvNext == ConfigInv /\ [Next]_vars => ConfigInv' /\ UNCHANGED config
<1> SUFFICES ASSUME ConfigInv, [Next]_vars PROVE ConfigInv' /\ UNCHANGED config OBVIOUS
<1>1. UNCHANGED config
  BY DEF Next, HandOver, BeginReceive, EndReceive, BeginSend, SendFrame, Published, vars
<1> QED BY <1>1 DEF ConfigInv, config

-----------------------------------------------------------------------------
(* What is read is what was handed over. *)

Buffered == [n: Int, from: Nat]

\* The messages that have named their sender.
Naming == {k \in DOMAIN broker : Accepted(broker[k]) /\ broker[k].from # 0}

NamedBefore(n) == \E k \in Naming : k < n

\* What the packet of message n, in the buffer or read, has of it.
Faithful(b, n) ==
  Stored(broker[n]) =>
    /\ Message(b) = n /\ (b.n = n \/ n \in put_over)
    /\ (mode = "JSON" /\ b.n = n /\ NamedBefore(n)) => b.from = broker[n].from

\* The packet in the buffer was handed over; one that waits is that of the message
\* accepted last.
BufferInv ==
  /\ handed \in Nat /\ handed <= Len(broker) /\ latest \in 0..handed
  /\ packet_buffer \in Buffered /\ incoming_packet_size \in Nat
  /\ Waits => latest > 0 /\ Faithful(packet_buffer, latest)

ReadRecord == [packet: Buffered, for: Nat]

\* What was read was handed over, in order; a packet that waits was not read.
ReadInv ==
  /\ read \in Seq(ReadRecord)
  /\ \A i \in DOMAIN read :
       /\ read[i].for \in 1..latest /\ Faithful(read[i].packet, read[i].for)
       /\ Waits => read[i].for < latest
  /\ \A i, j \in DOMAIN read : i < j => read[i].for < read[j].for

\* The member header tells whether a message has named its sender.
NamesInv ==
  /\ names_sender \in BOOLEAN
  /\ (mode = "JSON" /\ NamedBefore(handed + 1)) => names_sender

HandedInv == BufferInv /\ ReadInv /\ NamesInv

LEMMA MessageType ==
  ASSUME NEW b \in Buffered
  PROVE  Message(b) \in Nat /\ (b.n > 0 => Message(b) = b.n)
BY DEF Message, Buffered

\* A text stands for the message it was composed over.
LEMMA TextType ==
  ASSUME NEW b \in Buffered
  PROVE  Text(b) \in Buffered /\ Message(Text(b)) = Message(b) /\ Text(b).n <= 0
<1>1. Message(b) \in Nat BY MessageType
<1>2. Text(b).n = 0 - Message(b) BY DEF Text
<1>3. Text(b) \in Buffered BY <1>1 DEF Text, Buffered
<1>4. Message(Text(b)) = Message(b) BY <1>1, <1>2 DEF Message
<1> QED BY <1>1, <1>2, <1>3, <1>4

LEMMA HandedInvInit == Init => HandedInv
<1> SUFFICES ASSUME Init PROVE HandedInv OBVIOUS
<1>1. broker \in Seq(Messages) BY ConfigInvInit DEF ConfigInv
<1>2. /\ handed = 0 /\ latest = 0 /\ packet_buffer = Nothing /\ incoming_packet_size = 0
      /\ names_sender = FALSE /\ read = <<>>
  BY DEF Init
<1>3. Nothing \in Buffered BY DEF Nothing, Buffered
<1>4. BufferInv BY <1>1, <1>2, <1>3 DEF BufferInv, Waits
<1>5. ReadInv BY <1>2 DEF ReadInv
<1>6. ~NamedBefore(handed + 1) BY <1>1, <1>2 DEF NamedBefore, Naming
<1> QED BY <1>2, <1>4, <1>5, <1>6 DEF HandedInv, NamesInv

LEMMA ReadType ==
  ASSUME ReadInv, BufferInv
  PROVE  /\ Len(read) \in Nat /\ DOMAIN read = 1..Len(read)
         /\ \A i \in DOMAIN read : /\ read[i] \in ReadRecord /\ read[i].packet \in Buffered
                                   /\ read[i].for \in Nat /\ read[i].for <= latest
<1>1. read \in Seq(ReadRecord) /\ latest \in Nat BY DEF ReadInv, BufferInv
<1>2. \A i \in DOMAIN read : read[i] \in ReadRecord BY <1>1
<1>3. \A i \in DOMAIN read : read[i].for \in 1..latest BY DEF ReadInv
<1> QED BY <1>1, <1>2, <1>3 DEF ReadRecord

LEMMA NamingStays == UNCHANGED config => UNCHANGED <<mode, broker, Naming>>
BY DEF config, Naming, Accepted

LEMMA FaithfulStays ==
  ASSUME UNCHANGED config, put_over \subseteq put_over', NEW b, NEW n, Faithful(b, n)
  PROVE  Faithful(b, n)'
<1>1. UNCHANGED <<mode, broker, Naming>> BY NamingStays
<1> QED BY <1>1 DEF Faithful, NamedBefore, Message, Stored, PacketSize

\* What is read stays as it was, when none is read and no packet that was comes to
\* wait again.
LEMMA ReadStays ==
  ASSUME ReadInv, BufferInv, UNCHANGED <<config, read>>, put_over \subseteq put_over',
         latest <= latest', latest' \in Nat,
         Waits' => latest < latest' \/ (Waits /\ latest' = latest)
  PROVE  ReadInv'
<1>1. \A i \in DOMAIN read : /\ read[i].for \in 1..latest /\ latest \in Nat
                             /\ Faithful(read[i].packet, read[i].for)
                             /\ Waits => read[i].for < latest
  BY DEF ReadInv, BufferInv
<1>2. \A i \in DOMAIN read : read[i].for \in 1..latest' /\ (Waits' => read[i].for < latest')
  BY <1>1
<1>3. \A i \in DOMAIN read : Faithful(read[i].packet, read[i].for)' BY <1>1, FaithfulStays
<1>4. \A i \in DOMAIN read' : Faithful(read[i].packet, read[i].for)' BY <1>3
<1> QED BY <1>2, <1>4 DEF ReadInv

\* receive_frame() returns the packet that waits.
LEMMA HandledKeeps ==
  ASSUME HandedInv, Waits, Handled, incoming_packet_size' = 0,
         UNCHANGED <<config, packet_buffer, handed, latest, names_sender, put_over>>
  PROVE  HandedInv'
<1> USE DEF HandedInv
<1> DEFINE r == [packet |-> packet_buffer, for |-> latest]
           n == Len(read)
<1>1. UNCHANGED <<mode, broker, Naming>> /\ read' = Append(read, r) /\ ~Waits'
  BY NamingStays DEF Handled, Waits
<1>2. /\ r \in ReadRecord /\ r.for = latest /\ latest \in 1..handed /\ handed \in Nat
      /\ Faithful(r.packet, r.for)
  BY DEF BufferInv, ReadRecord
<1>3. /\ n \in Nat /\ DOMAIN read = 1..n /\ read \in Seq(ReadRecord)
      /\ \A i \in 1..n : /\ read[i].for \in 1..latest /\ read[i].for < latest
                         /\ Faithful(read[i].packet, read[i].for)
  BY ReadType DEF ReadInv
<1> HIDE DEF r, n
<1>4. /\ read' \in Seq(ReadRecord) /\ DOMAIN read' = 1..n + 1
      /\ read'[n + 1] = r /\ \A i \in 1..n : read'[i] = read[i]
  BY <1>1, <1>2, <1>3 DEF n
<1>5. \A i \in 1..n + 1 : i \in 1..n \/ i = n + 1 BY <1>3
<1>6. \A i \in 1..n + 1 : read'[i].for \in 1..latest BY <1>2, <1>3, <1>4, <1>5
<1>7. \A i \in 1..n + 1 : Faithful(read'[i].packet, read'[i].for)
  BY <1>2, <1>3, <1>4, <1>5
<1>8. \A i \in DOMAIN read' : Faithful(read[i].packet, read[i].for)'
  BY <1>1, <1>4, <1>7 DEF Faithful, NamedBefore, Message, Stored, PacketSize
<1>9. ASSUME NEW i \in 1..n + 1, NEW j \in 1..n + 1, i < j
      PROVE  read'[i].for < read'[j].for
  <2>1. i \in 1..n BY <1>3, <1>9
  <2>2. CASE j = n + 1 BY <1>2, <1>3, <1>4, <2>1, <2>2
  <2>3. CASE j \in 1..n BY <1>3, <1>4, <1>9, <2>1, <2>3 DEF ReadInv
  <2> QED BY <1>5, <2>2, <2>3
<1>10. ReadInv' BY <1>1, <1>4, <1>6, <1>8, <1>9 DEF ReadInv
<1>11. BufferInv' BY <1>1 DEF BufferInv
<1>12. NamesInv' BY <1>1 DEF NamesInv, NamedBefore
<1> QED BY <1>10, <1>11, <1>12

LEMMA InwardStays ==
  ASSUME HandedInv, UNCHANGED <<config, inward>>
  PROVE  HandedInv'
<1>1. UNCHANGED <<mode, broker, Naming>> BY NamingStays
<1> QED BY <1>1
     DEF HandedInv, BufferInv, ReadInv, NamesInv, NamedBefore, Faithful, Message, Stored,
         PacketSize, Waits, inward

LEMMA TakePacketKeeps ==
  ASSUME HandedInv, TakePacket, UNCHANGED <<config, handed, names_sender, put_over>>
  PROVE  HandedInv'
<1>1. CASE incoming_packet_size \in 1..PJON_PACKET_MAX_LENGTH
  <2>1. Waits BY <1>1, MqttAssumption DEF Waits
  <2>2. Handled /\ incoming_packet_size' = 0 /\ UNCHANGED <<packet_buffer, latest>>
    BY <1>1 DEF TakePacket
  <2> QED BY <2>1, <2>2, HandledKeeps
<1>2. CASE incoming_packet_size \notin 1..PJON_PACKET_MAX_LENGTH
  <2>1. UNCHANGED inward BY <1>2 DEF TakePacket, inward
  <2> QED BY <2>1, InwardStays
<1> QED BY <1>1, <1>2

LEMMA PacketSizeType == ASSUME NEW m \in Messages PROVE PacketSize(m) \in Nat
BY MqttAssumption DEF PacketSize, Messages

\* The library hands a message over.
LEMMA HandOverKeeps ==
  ASSUME ConfigInv, HandedInv, HandOver
  PROVE  HandedInv'
<1> USE DEF HandedInv
<1> DEFINE n == handed + 1
           m == broker[n]
<1>1. /\ UNCHANGED <<config, read>> /\ handed' = n /\ Receiver(n) /\ handed < Len(broker)
      /\ put_over \subseteq put_over'
  BY DEF HandOver
<1>2. UNCHANGED <<mode, broker, Naming, read>> BY <1>1, NamingStays
<1>3. /\ n \in 1..Len(broker) /\ DOMAIN broker = 1..Len(broker) /\ Len(broker) \in Nat
      /\ m \in Messages /\ handed \in Nat /\ latest \in 0..handed
  BY <1>1 DEF ConfigInv, BufferInv
<1>4. NamedBefore(n + 1) => NamedBefore(n) \/ (Accepted(m) /\ m.from # 0)
  BY <1>3 DEF NamedBefore, Naming
<1>5. names_sender \in BOOLEAN /\ ((mode = "JSON" /\ NamedBefore(n)) => names_sender)
  BY DEF NamesInv
<1>6. NamedBefore(handed + 1)' = NamedBefore(n + 1) BY <1>1, <1>2 DEF NamedBefore
<1> HIDE DEF n, m
<1>7. CASE Accepted(m)
  <2> DEFINE b == [n |-> n, from |-> SenderIn(m)]
  <2>1. /\ packet_buffer' = IF Stored(m) THEN b ELSE packet_buffer
        /\ incoming_packet_size' = PacketSize(m) /\ latest' = n
        /\ names_sender' = (names_sender \/ (mode = "JSON" /\ m.from # 0))
    BY <1>1, <1>7 DEF Receiver, m
  <2>2. b \in Buffered /\ b.n = n /\ n > 0
    BY <1>3 DEF SenderIn, Messages, Buffered
  <2>3. Message(b) = n BY <2>2, MessageType
  <2>4. (mode = "JSON" /\ NamedBefore(n)) => b.from = m.from BY <1>5 DEF SenderIn
  <2> HIDE DEF b
  <2>5. Faithful(packet_buffer, latest)'
    <3>1. CASE Stored(m)
      <4>1. packet_buffer' = b BY <2>1, <3>1
      <4> QED BY <1>2, <2>1, <2>2, <2>3, <2>4, <4>1 DEF Faithful, NamedBefore, Message, m
    <3>2. CASE ~Stored(m)
      <4>1. ~Stored(broker[latest])' BY <1>2, <2>1, <3>2 DEF Stored, PacketSize, m
      <4> QED BY <4>1 DEF Faithful
    <3> QED BY <3>1, <3>2
  <2>6. BufferInv'
    <3>1. packet_buffer' \in Buffered BY <2>1, <2>2 DEF BufferInv
    <3>2. incoming_packet_size' \in Nat BY <1>3, <2>1, PacketSizeType
    <3> QED BY <1>1, <1>2, <1>3, <2>1, <2>5, <3>1, <3>2 DEF BufferInv
  <2>7. NamesInv'
    <3>1. (mode = "JSON" /\ NamedBefore(n + 1)) => names_sender' BY <1>4, <1>5, <2>1, Zenon
    <3>2. names_sender' \in BOOLEAN BY <1>5, <2>1
    <3> QED BY <1>2, <1>6, <3>1, <3>2 DEF NamesInv
  <2>8. ReadInv' BY <1>1, <1>3, <2>1, ReadStays DEF n
  <2> QED BY <2>6, <2>7, <2>8
<1>8. CASE ~Accepted(m)
  <2>1. UNCHANGED <<packet_buffer, incoming_packet_size, latest, names_sender>>
    BY <1>1, <1>8 DEF Receiver, m
  <2>2. Waits' = Waits BY <2>1 DEF Waits
  <2>3. Waits => latest > 0 /\ Faithful(packet_buffer, latest) BY DEF BufferInv
  <2>4. Waits => Faithful(packet_buffer, latest)'
    BY <1>1, <1>2, <2>1, <2>3 DEF Faithful, NamedBefore, Message, Stored, PacketSize
  <2>5. BufferInv' BY <1>1, <1>2, <1>3, <2>1, <2>2, <2>4 DEF BufferInv, n
  <2>6. NamesInv' BY <1>2, <1>4, <1>5, <1>6, <1>8, <2>1 DEF NamesInv
  <2>7. ReadInv' BY <1>1, <1>3, <2>1, <2>2, ReadStays
  <2> QED BY <2>5, <2>6, <2>7
<1> QED BY <1>7, <1>8

\* A text is composed where a packet may wait.
LEMMA TextKeeps ==
  ASSUME HandedInv,
         UNCHANGED <<config, incoming_packet_size, names_sender, handed, latest, read>>,
         packet_buffer' = Text(packet_buffer),
         put_over' = IF Waits THEN put_over \cup {latest} ELSE put_over
  PROVE  HandedInv'
<1> USE DEF HandedInv
<1> DEFINE b == packet_buffer
           t == Text(b)
<1>1. UNCHANGED <<mode, broker, Naming>> BY NamingStays
<1>2. b \in Buffered /\ handed \in Nat /\ latest \in 0..handed BY DEF BufferInv
<1>3. t \in Buffered /\ Message(t) = Message(b) /\ t.n <= 0 BY <1>2, TextType
<1>4. Waits' = Waits /\ packet_buffer' = t BY DEF Waits
<1> HIDE DEF t
<1>5. Waits => Faithful(packet_buffer, latest)'
  <2> SUFFICES ASSUME Waits PROVE Faithful(packet_buffer, latest)' OBVIOUS
  <2>1. latest > 0 /\ Faithful(b, latest) /\ latest \in put_over' BY DEF BufferInv
  <2>2. t.n # latest BY <1>2, <1>3, <2>1 DEF Buffered
  <2> QED BY <1>1, <1>3, <1>4, <2>1, <2>2 DEF Faithful, Message, Stored, PacketSize
<1>6. BufferInv' BY <1>1, <1>2, <1>3, <1>4, <1>5 DEF BufferInv
<1>7. NamesInv' BY <1>1 DEF NamesInv, NamedBefore
<1>8. ReadInv' BY <1>2, <1>4, ReadStays
<1> QED BY <1>6, <1>7, <1>8

LEMMA HandedInvNext == ConfigInv /\ HandedInv /\ [Next]_vars => HandedInv'
<1> SUFFICES ASSUME ConfigInv, HandedInv, [Next]_vars PROVE HandedInv' OBVIOUS
<1>1. UNCHANGED config BY ConfigInvNext
<1>2. ASSUME UNCHANGED inward PROVE HandedInv' BY <1>1, <1>2, InwardStays
<1>3. CASE HandOver BY <1>3, HandOverKeeps
<1>4. CASE BeginReceive
  <2>1. UNCHANGED inward \/ (TakePacket /\ UNCHANGED <<names_sender, handed, put_over>>)
    BY <1>4 DEF BeginReceive, AsksMore
  <2> QED BY <1>1, <1>2, <2>1, TakePacketKeeps
<1>5. CASE EndReceive BY <1>1, <1>5, TakePacketKeeps DEF EndReceive
<1>6. CASE SendFrame
  <2>1. \/ UNCHANGED inward
        \/ /\ packet_buffer' = Text(packet_buffer)
           /\ put_over' = IF Waits THEN put_over \cup {latest} ELSE put_over
           /\ UNCHANGED <<incoming_packet_size, names_sender, handed, latest, read>>
    BY <1>6 DEF SendFrame, inward
  <2> QED BY <1>1, <1>2, <2>1, TextKeeps
<1>7. CASE BeginSend \/ Published \/ UNCHANGED vars
  BY <1>2, <1>7 DEF BeginSend, Published, vars
<1> QED BY <1>3, <1>4, <1>5, <1>6, <1>7 DEF Next

\* Every reading of packet_buffer is of the message accepted last, in the order they
\* were handed over and once each, and of its own packet if compose_packet() made one:
\* changed only by a text composed over it, and in JSON mode with the sender of the
\* message as soon as one was named.
THEOREM ReadAsHandedHolds == Spec => []ReadAsHanded
<1>1. ConfigInv /\ HandedInv => ReadAsHanded
  <2> SUFFICES ASSUME ConfigInv, ReadInv, BufferInv PROVE ReadAsHanded BY DEF HandedInv
  <2>1. ASSUME NEW i \in DOMAIN read, NEW k \in 1..read[i].for - 1,
               Accepted(broker[k]), broker[k].from # 0
        PROVE  NamedBefore(read[i].for)
    <3>1. read[i].for \in Nat /\ read[i].for <= latest BY ReadType
    <3>2. k \in DOMAIN broker /\ k < read[i].for BY <3>1 DEF BufferInv, ConfigInv
    <3> QED BY <2>1, <3>2 DEF NamedBefore, Naming
  <2>2. \A i \in DOMAIN read : Faithful(read[i].packet, read[i].for) BY DEF ReadInv
  <2>3. \A i, j \in DOMAIN read : i < j => read[i].for < read[j].for BY DEF ReadInv
  <2> QED BY <2>1, <2>2, <2>3 DEF ReadAsHanded, Faithful
<1> QED BY <1>1, ConfigInvInit, ConfigInvNext, HandedInvInit, HandedInvNext, PTL DEF Spec

-----------------------------------------------------------------------------
(* ThroughSerial. *)


\* What holds of the variables in every state.
SerialTypeInv ==
  /\ line \in Seq(Byte) /\ back \in Seq(Byte) /\ buffer \in Seq(Byte)
  /\ state \in {"TS_WAITING", "TS_RECEIVING", "TS_WAITING_ESCAPE", "TS_DONE"}
  /\ todo \in Seq(Frames) /\ Len(todo) <= Len(ToSend)
  /\ \A j \in 1 .. Len(todo) : todo[j] = ToSend[(Len(ToSend) - Len(todo)) + j]
  /\ place \in Int /\ second \in BOOLEAN /\ fail \in BOOLEAN
  /\ place # Idle => /\ todo # <<>> /\ place \in 0 .. Len(Head(todo)) + 1
                     /\ second => Escaped(Head(todo), place)
                     /\ awaited = <<>>
  /\ awaited # <<>> => todo # <<>>
  /\ awaited \in Seq(Byte)
  /\ accepted \subseteq Frames
  /\ losses \in Nat /\ (fail => losses # 0)

LEMMA FrameType ==
  ASSUME NEW f \in Frames
  PROVE  f \in Seq(Byte) /\ Len(f) \in Nat /\ Len(f) >= ResponseLength /\ DOMAIN f = 1 .. Len(f)
BY SerialAssumption DEF Frames

LEMMA FlippedType ==
  /\ \A b \in Symbols : Flipped[b] \in Byte /\ Flipped[b] \notin Symbols /\ Unflip(Flipped[b]) = b
  /\ Symbols \subseteq Byte
<1>1. Symbols = {149, 234, 187} BY DEF Symbols, TS_START, TS_END, TS_ESC
<1>2. Flipped[149] = 46 /\ Flipped[234] = 81 /\ Flipped[187] = 0
  BY <1>1 DEF Flipped, TS_START, TS_END, TS_ESC
<1>3. \A b \in Symbols : Flipped[b] \in Byte /\ Flipped[b] \notin Symbols BY <1>1, <1>2 DEF Byte
<1>4. ASSUME NEW b \in Symbols PROVE Unflip(Flipped[b]) = b
  <2>1. \A c \in Symbols : Flipped[c] = Flipped[b] => c = b BY <1>1, <1>2
  <2>2. \E c \in Symbols : Flipped[c] = Flipped[b] OBVIOUS
  <2> QED BY <2>1, <2>2 DEF Unflip
<1> QED BY <1>1, <1>3, <1>4 DEF Byte

LEMMA ResponseType ==
  ASSUME NEW f \in Frames
  PROVE  Response(f) \in Seq(Byte) /\ Len(Response(f)) = ResponseLength
<1>1. ResponseLength \in Nat \ {0} BY SerialAssumption
<1>2. \A i \in 1 .. ResponseLength : f[(Len(f) - ResponseLength) + i] \in Byte BY <1>1, FrameType
<1>3. \A v \in Byte : (IF v \in Symbols THEN v - 1 ELSE v) \in Byte
  BY DEF Byte, Symbols, TS_START, TS_END, TS_ESC
<1>4. \A i \in 1 .. ResponseLength : Response(f)[i] \in Byte BY <1>2, <1>3 DEF Response
<1>5. Response(f) \in [1 .. ResponseLength -> Byte] BY <1>4 DEF Response
<1> QED BY <1>1, <1>5

\* What is written at the places of a frame, and what follows a place.
LEMMA WrittenType ==
  ASSUME NEW f \in Frames, NEW i \in 0 .. Len(f) + 1, NEW e \in BOOLEAN, e => Escaped(f, i)
  PROVE  /\ Written(f, i, e) \in Byte
         /\ Written(f, i, e) = TS_START <=> i = 0
         /\ Written(f, i, e) = TS_END <=> i = Len(f) + 1
         /\ Written(f, i, e) = TS_ESC <=> Escaped(f, i) /\ ~e
         /\ e => Written(f, i, e) = Flipped[f[i]] /\ f[i] \in Symbols /\ i \in 1 .. Len(f)
         /\ i \in 1 .. Len(f) /\ ~Escaped(f, i) => Written(f, i, e) = f[i] /\ f[i] \notin Symbols
<1>1. Len(f) \in Nat /\ DOMAIN f = 1 .. Len(f) /\ \A j \in 1 .. Len(f) : f[j] \in Byte BY FrameType
<1>2. /\ TS_START \in Symbols /\ TS_END \in Symbols /\ TS_ESC \in Symbols
      /\ TS_START # TS_END /\ TS_START # TS_ESC /\ TS_END # TS_ESC
  BY DEF Symbols, TS_START, TS_END, TS_ESC
<1>3. CASE i = 0
  <2>1. ~Escaped(f, i) /\ i \notin 1 .. Len(f) /\ i # Len(f) + 1 BY <1>1, <1>3 DEF Escaped
  <2>2. Written(f, i, e) = TS_START BY <1>3, <2>1 DEF Written
  <2> QED BY <1>2, <1>3, <2>1, <2>2, FlippedType
<1>4. CASE i = Len(f) + 1
  <2>1. ~Escaped(f, i) /\ i \notin 1 .. Len(f) /\ i # 0 BY <1>1, <1>4 DEF Escaped
  <2>2. i \notin DOMAIN f BY <1>1, <1>4
  <2>3. Written(f, i, e) = TS_END BY <1>4, <2>1, <2>2 DEF Written
  <2> QED BY <1>2, <1>4, <2>1, <2>3, FlippedType
<1>5. CASE i \in 1 .. Len(f) /\ e
  <2>1. i # 0 /\ i # Len(f) + 1 /\ i \in DOMAIN f /\ f[i] \in Symbols BY <1>1, <1>5 DEF Escaped
  <2>2. Written(f, i, e) = Flipped[f[i]] BY <1>5, <2>1 DEF Written
  <2> QED BY <1>2, <1>5, <2>1, <2>2, FlippedType
<1>6. CASE i \in 1 .. Len(f) /\ ~e /\ Escaped(f, i)
  <2>1. i # 0 /\ i # Len(f) + 1 BY <1>1, <1>6
  <2>2. Written(f, i, e) = TS_ESC BY <1>6, <2>1 DEF Written
  <2> QED BY <1>2, <1>6, <2>1, <2>2, FlippedType
<1>7. CASE i \in 1 .. Len(f) /\ ~e /\ ~Escaped(f, i)
  <2>1. i # 0 /\ i # Len(f) + 1 /\ i \in DOMAIN f BY <1>1, <1>7
  <2>2. f[i] \notin Symbols /\ f[i] \in Byte BY <1>1, <1>7, <2>1 DEF Escaped
  <2>3. Written(f, i, e) = f[i] BY <1>7, <2>1 DEF Written
  <2> QED BY <1>2, <1>7, <2>1, <2>2, <2>3
<1> QED BY <1>1, <1>3, <1>4, <1>5, <1>6, <1>7

LEMMA HeadType ==
  ASSUME SerialTypeInv, todo # <<>>
  PROVE  Head(todo) \in Frames /\ Len(todo) \in Nat \ {0}
BY DEF SerialTypeInv

\* Where send_frame() goes on after a byte.
LEMMA AdvanceType ==
  ASSUME SerialTypeInv, place # Idle, NEW failed \in BOOLEAN, Advance(failed)
  PROVE  LET f == Head(todo)
         IN  /\ f \in Frames /\ todo # <<>>
             /\ place' \in Int /\ second' \in BOOLEAN /\ awaited' \in Seq(Byte)
             /\ place' # Idle => /\ place' \in 0 .. Len(f) + 1
                                 /\ second' => Escaped(f, place')
                                 /\ awaited' = <<>>
             /\ ~failed /\ Escaped(f, place) /\ ~second => place' = place /\ second'
             /\ ~failed /\ ~(Escaped(f, place) /\ ~second) =>
                  ~second' /\ place' = IF place = Len(f) + 1 THEN Idle ELSE place + 1
<1> DEFINE f == Head(todo)
           esc == Escaped(f, place) /\ ~second
           last == place = Len(f) + 1
<1>1. todo # <<>> /\ place \in 0 .. Len(f) + 1 /\ second \in BOOLEAN BY DEF SerialTypeInv
<1>2. f \in Frames BY <1>1, HeadType
<1>3. Len(f) \in Nat /\ DOMAIN f = 1 .. Len(f) BY <1>2, FrameType
<1>4. /\ second' \in BOOLEAN /\ (second' <=> esc)
      /\ place' = IF esc THEN place
                  ELSE IF last \/ (failed /\ place + 1 \in DOMAIN f) THEN Idle ELSE place + 1
      /\ awaited' = IF last /\ ~failed THEN Response(f) ELSE <<>>
  <2>1. second' = esc BY DEF Advance
  <2>2. second' \in BOOLEAN /\ (second' <=> esc) BY <2>1, Zenon
  <2> QED BY <2>2 DEF Advance
<1>5. awaited' \in Seq(Byte)
  <2>1. Response(f) \in Seq(Byte) BY <1>2, ResponseType
  <2> QED BY <2>1, <1>4
<1>6. Idle = -1 BY DEF Idle
<1>7. esc => place \in 1 .. Len(f) BY <1>3 DEF Escaped
<1>8. CASE esc
  <2>1. second' /\ place' = place BY <1>4, <1>8
  <2>2. ~last BY <1>3, <1>7, <1>8
  <2>3. awaited' = <<>> BY <1>4, <2>2
  <2> QED BY <2>1, <2>3, <1>1, <1>2, <1>4, <1>5, <1>8
<1>9. CASE ~esc
  <2>1. ~second'
        /\ place' = IF last \/ (failed /\ place + 1 \in DOMAIN f) THEN Idle ELSE place + 1
    BY <1>4, <1>9
  <2>2. CASE last \/ (failed /\ place + 1 \in DOMAIN f)
    <3>1. place' = Idle BY <2>1, <2>2
    <3>2. ~failed => last BY <2>2
    <3> QED BY <3>1, <3>2, <2>1, <1>1, <1>2, <1>4, <1>5, <1>6, <1>9
  <2>3. CASE ~(last \/ (failed /\ place + 1 \in DOMAIN f))
    <3>1. place' = place + 1 /\ ~last /\ awaited' = <<>> BY <2>1, <2>3, <1>4
    <3>2. place' \in 0 .. Len(f) + 1 /\ place' \in Int BY <3>1, <1>1, <1>3
    <3> QED BY <3>1, <3>2, <2>1, <1>1, <1>2, <1>4, <1>5, <1>9
  <2> QED BY <2>2, <2>3
<1> QED BY <1>8, <1>9

\* What a byte does to the receiver.
LEMMA TakesType ==
  ASSUME SerialTypeInv, NEW v \in Byte, WaitStart(v) \/ TakeByte(v) \/ TakeEscaped(v)
  PROVE  /\ line # <<>> /\ v = Head(line) /\ line' = Tail(line) /\ line' \in Seq(Byte)
         /\ buffer' \in Seq(Byte)
         /\ state' \in {"TS_WAITING", "TS_RECEIVING", "TS_WAITING_ESCAPE", "TS_DONE"}
         /\ UNCHANGED <<back, todo, place, second, fail, awaited, accepted, losses>>
<1>1. line # <<>> /\ v = Head(line) /\ line' = Tail(line)
      /\ UNCHANGED <<back, todo, place, second, fail, awaited, accepted, losses>>
  BY DEF WaitStart, TakeByte, TakeEscaped, Takes, Others
<1>2. line' \in Seq(Byte) BY <1>1 DEF SerialTypeInv
<1>3. buffer \in Seq(Byte) /\ state \in {"TS_WAITING", "TS_RECEIVING", "TS_WAITING_ESCAPE", "TS_DONE"}
  BY DEF SerialTypeInv
<1> DEFINE Typed == /\ buffer' \in Seq(Byte)
                    /\ state' \in {"TS_WAITING", "TS_RECEIVING", "TS_WAITING_ESCAPE", "TS_DONE"}
<1>4. ASSUME NEW t \in {"TS_WAITING", "TS_RECEIVING", "TS_WAITING_ESCAPE", "TS_DONE"},
             NEW b \in Seq(Byte), Goes(t, b)
      PROVE  Typed
  BY <1>4 DEF Goes
<1>5. ASSUME WaitStart(v) PROVE Typed
  <2>1. Goes("TS_RECEIVING", <<>>) \/ Goes(state, buffer) BY <1>5 DEF WaitStart
  <2>2. <<>> \in Seq(Byte) OBVIOUS
  <2> HIDE DEF Typed
  <2> QED BY <2>1, <2>2, <1>3, <1>4
<1>6. ASSUME TakeByte(v) PROVE Typed
  <2>1. \/ Goes("TS_WAITING", buffer) \/ Goes("TS_WAITING_ESCAPE", buffer)
        \/ Goes("TS_DONE", buffer) \/ Goes(state, Append(buffer, v))
    BY <1>6 DEF TakeByte
  <2>2. Append(buffer, v) \in Seq(Byte) BY <1>3
  <2> HIDE DEF Typed
  <2> QED BY <2>1, <2>2, <1>3, <1>4
<1>7. ASSUME TakeEscaped(v) PROVE Typed
  <2>1. \/ v \in {Flipped[b] : b \in Symbols} /\ Goes("TS_RECEIVING", Append(buffer, Unflip(v)))
        \/ Goes("TS_WAITING", buffer)
    BY <1>7 DEF TakeEscaped
  <2>2. v \in {Flipped[b] : b \in Symbols} => Unflip(v) \in Byte BY FlippedType
  <2>3. v \in {Flipped[b] : b \in Symbols} => Append(buffer, Unflip(v)) \in Seq(Byte) BY <2>2, <1>3
  <2> HIDE DEF Typed
  <2> QED BY <2>1, <2>3, <1>3, <1>4
<1> QED BY <1>1, <1>2, <1>5, <1>6, <1>7

LEMMA SerialTypeInit == SerialInit => SerialTypeInv
<1> SUFFICES ASSUME SerialInit PROVE SerialTypeInv OBVIOUS
<1>1. ToSend \in Seq(Frames) /\ Len(ToSend) \in Nat BY SerialAssumption DEF Frames
<1>2. \A j \in 1 .. Len(ToSend) : ToSend[j] = ToSend[(Len(ToSend) - Len(ToSend)) + j] BY <1>1
<1>3. /\ line = <<>> /\ back = <<>> /\ state = "TS_WAITING" /\ buffer = <<>> /\ todo = ToSend
      /\ place = Idle /\ Idle = -1 /\ awaited = <<>> /\ accepted = {} /\ losses = 0
  BY DEF SerialInit, Idle
<1>4. second \in BOOLEAN /\ fail \in BOOLEAN /\ ~fail BY Zenon DEF SerialInit
<1> QED BY <1>1, <1>2, <1>3, <1>4 DEF SerialTypeInv

LEMMA SerialTypeNext == SerialTypeInv /\ [SerialNext]_serial_vars => SerialTypeInv'
<1> SUFFICES ASSUME SerialTypeInv, [SerialNext]_serial_vars PROVE SerialTypeInv' OBVIOUS
<1> DEFINE Todo == /\ todo \in Seq(Frames) /\ Len(todo) <= Len(ToSend)
                   /\ \A j \in 1 .. Len(todo) : todo[j] = ToSend[(Len(ToSend) - Len(todo)) + j]
<1>1. CASE BeginFrame
  <2>1. Head(todo) \in Frames BY <1>1, HeadType DEF BeginFrame
  <2>2. Len(Head(todo)) \in Nat BY <2>1, FrameType
  <2>3. /\ place' = 0 /\ awaited = <<>> /\ todo # <<>>
        /\ UNCHANGED <<line, back, state, buffer, todo, awaited, accepted, losses>>
    BY <1>1 DEF BeginFrame
  <2>4. place' \in 0 .. Len(Head(todo)) + 1 BY <2>2, <2>3
  <2>5. second' \in BOOLEAN /\ fail' \in BOOLEAN /\ ~second' /\ ~fail' BY <1>1, Zenon DEF BeginFrame
  <2> QED BY <2>3, <2>4, <2>5 DEF SerialTypeInv
<1>2. CASE WriteByte
  <2>1. place # Idle /\ Advance(fail) /\ line' = Append(line, Written(Head(todo), place, second))
        /\ UNCHANGED <<back, state, buffer, todo, fail, accepted, losses>>
    BY <1>2 DEF WriteByte
  <2>2. Written(Head(todo), place, second) \in Byte
    <3>1. Head(todo) \in Frames BY <2>1, HeadType DEF SerialTypeInv
    <3> QED BY <3>1, <2>1, WrittenType DEF SerialTypeInv
  <2>3. line' \in Seq(Byte) BY <2>1, <2>2 DEF SerialTypeInv
  <2>4. fail \in BOOLEAN BY DEF SerialTypeInv
  <2> QED BY <2>1, <2>3, <2>4, AdvanceType DEF SerialTypeInv
<1>3. CASE WriteFails
  <2>1. place # Idle /\ Advance(TRUE) /\ fail' = TRUE /\ losses' = losses + 1
        /\ UNCHANGED <<line, back, state, buffer, todo, accepted>>
    BY <1>3 DEF WriteFails
  <2>2. losses' \in Nat /\ losses' # 0 BY <2>1 DEF SerialTypeInv
  <2> QED BY <2>1, <2>2, AdvanceType DEF SerialTypeInv
<1>4. CASE ReadResponse
  <2>1. todo # <<>> /\ place = Idle /\ awaited # <<>> /\ back # <<>>
    BY <1>4 DEF ReadResponse, SerialTypeInv
  <2>2. /\ back' \in Seq(Byte) /\ awaited' \in Seq(Byte)
        /\ UNCHANGED <<line, state, buffer, place, second, fail, accepted, losses>>
        /\ todo' \in {todo, Tail(todo)} /\ (awaited' # <<>> => todo' = todo)
    <3>1. Tail(back) \in Seq(Byte) /\ Tail(awaited) \in Seq(Byte) BY <2>1 DEF SerialTypeInv
    <3>2. Len(awaited) = 1 => Tail(awaited) = <<>>
      <4>1. awaited \in Seq(Byte) BY DEF SerialTypeInv
      <4>2. Len(awaited) = 1 => Len(Tail(awaited)) = 0 BY <4>1, <2>1
      <4>3. \A s \in Seq(Byte) : Len(s) = 0 => s = <<>> OBVIOUS
      <4> QED BY <4>2, <4>3, <3>1
    <3> QED BY <3>1, <3>2, <1>4 DEF ReadResponse
  <2>3. Todo'
    <3>1. CASE todo' = todo BY <3>1 DEF SerialTypeInv
    <3>2. CASE todo' = Tail(todo)
      <4>1. Tail(todo) \in Seq(Frames) /\ Len(Tail(todo)) = Len(todo) - 1 /\ Len(todo) \in Nat \ {0}
            /\ \A j \in 1 .. Len(todo) - 1 : Tail(todo)[j] = todo[j + 1]
        BY <2>1 DEF SerialTypeInv
      <4>2. Len(ToSend) \in Nat BY SerialAssumption
      <4>3. ASSUME NEW j \in 1 .. Len(todo) - 1
            PROVE  Tail(todo)[j] = ToSend[(Len(ToSend) - (Len(todo) - 1)) + j]
        <5>1. j + 1 \in 1 .. Len(todo) /\ Tail(todo)[j] = todo[j + 1] BY <4>1
        <5>2. todo[j + 1] = ToSend[(Len(ToSend) - Len(todo)) + (j + 1)] BY <5>1 DEF SerialTypeInv
        <5>3. (Len(ToSend) - Len(todo)) + (j + 1) = (Len(ToSend) - (Len(todo) - 1)) + j BY <4>1, <4>2
        <5> QED BY <5>1, <5>2, <5>3
      <4>4. Len(todo) - 1 <= Len(ToSend) BY <4>1, <4>2 DEF SerialTypeInv
      <4> QED BY <3>2, <4>1, <4>3, <4>4
    <3> QED BY <3>1, <3>2, <2>2
  <2> QED BY <2>1, <2>2, <2>3 DEF SerialTypeInv
<1>5. CASE ResponseTimeOut
  <2>1. losses' \in Nat /\ (losses # 0 => losses' # 0) BY <1>5 DEF ResponseTimeOut, Early, SerialTypeInv
  <2> QED BY <2>1, <1>5 DEF ResponseTimeOut, SerialTypeInv
<1>6. CASE Discard
  <2>1. back' \in Seq(Byte) BY <1>6 DEF Discard, SerialTypeInv
  <2> QED BY <2>1, <1>6 DEF Discard, SerialTypeInv
<1>7. ASSUME NEW v \in Byte, WaitStart(v) \/ TakeByte(v) \/ TakeEscaped(v) PROVE SerialTypeInv'
  BY <1>7, TakesType DEF SerialTypeInv
<1>8. CASE ByteTimeOut
  <2>1. losses' \in Nat /\ (losses # 0 => losses' # 0) BY <1>8 DEF ByteTimeOut, Early, SerialTypeInv
  <2> QED BY <2>1, <1>8 DEF ByteTimeOut, Goes, SerialTypeInv
<1>9. CASE FrameDone
  <2>1. buffer \in Frames => back \o Response(buffer) \in Seq(Byte) BY ResponseType DEF SerialTypeInv
  <2> QED BY <2>1, <1>9 DEF FrameDone, Goes, SerialTypeInv
<1>10. CASE Lose
  <2>1. ASSUME NEW s \in Seq(Byte), NEW k \in DOMAIN s PROVE Without(s, k) \in Seq(Byte)
    BY DEF Without
  <2>2. line' \in Seq(Byte) /\ back' \in Seq(Byte) BY <1>10, <2>1 DEF Lose, SerialTypeInv
  <2>3. losses' \in Nat /\ losses' # 0 BY <1>10 DEF Lose, SerialTypeInv
  <2> QED BY <2>2, <2>3, <1>10 DEF Lose, SerialTypeInv
<1>11. CASE UNCHANGED serial_vars BY <1>11 DEF serial_vars, SerialTypeInv
<1> QED BY <1>1, <1>2, <1>3, <1>4, <1>5, <1>6, <1>7, <1>8, <1>9, <1>10, <1>11
  DEF SerialNext, SenderStep, ReceiverStep

LEMMA SerialTypeHolds == SerialSpec => []SerialTypeInv
BY SerialTypeInit, SerialTypeNext, PTL DEF SerialSpec

-----------------------------------------------------------------------------
(* A line that loses nothing. *)

\* A place in what the sender writes: byte i of frame f, or what follows its ESC.
\* Before START it may still be open which frame it is.
Place ==
  {x \in [f : Seq(Byte), i : Nat, e : BOOLEAN] :
     /\ x.i <= Len(x.f) + 1
     /\ x.i # 0 => x.f \in Frames
     /\ x.e => Escaped(x.f, x.i)}

At(f, i, e) == [f |-> f, i |-> i, e |-> e]
ByteAt(x)   == Written(x.f, x.i, x.e)

\* What the sender writes next, after a byte and its escaped half, or after END
\* the START of another frame.
Follows(x, y) ==
  /\ x.f \in Frames
  /\ IF Escaped(x.f, x.i) /\ ~x.e THEN y = At(x.f, x.i, TRUE)
     ELSE IF x.i = Len(x.f) + 1 THEN y.i = 0
     ELSE y = At(x.f, x.i + 1, FALSE)

\* The places of the bytes on the line, and of the one written next.
OnTheLine(p) ==
  /\ p \in [1 .. Len(line) + 1 -> Place]
  /\ \A j \in 1 .. Len(line) : line[j] = ByteAt(p[j]) /\ Follows(p[j], p[j + 1])
  /\ IF place = Idle THEN p[Len(line) + 1].i = 0
     ELSE p[Len(line) + 1] = At(Head(todo), place, second)

\* The receiver is at the place of the byte it reads next, and has read what is
\* before it; while it waits it may be anywhere.
Reading(x) ==
  /\ state = "TS_RECEIVING" => x.i # 0 /\ ~x.e /\ buffer = SubSeq(x.f, 1, x.i - 1)
  /\ state = "TS_WAITING_ESCAPE" => x.e /\ buffer = SubSeq(x.f, 1, x.i - 1)
  /\ state = "TS_DONE" => buffer \in Frames

InStep == losses = 0 => \E p : OnTheLine(p) /\ Reading(p[1])

LEMMA PlaceType ==
  ASSUME NEW x \in Place
  PROVE  /\ x.f \in Seq(Byte) /\ x.i \in 0 .. Len(x.f) + 1 /\ x.e \in BOOLEAN
         /\ x = At(x.f, x.i, x.e) /\ Len(x.f) \in Nat
         /\ x.i # 0 => x.f \in Frames
         /\ x.e => Escaped(x.f, x.i) /\ x.i \in 1 .. Len(x.f)
BY DEF Place, At, Escaped

LEMMA PlaceIntro ==
  ASSUME NEW f \in Frames, NEW i \in 0 .. Len(f) + 1, NEW e \in BOOLEAN, e => Escaped(f, i)
  PROVE  At(f, i, e) \in Place
BY FrameType DEF Place, At

\* The sender goes on to the place that follows.
LEMMA NextPlace ==
  ASSUME SerialTypeInv, place # Idle, ~fail, Advance(fail)
  PROVE  LET x == At(Head(todo), place, second)
             y == IF place' = Idle THEN At(<<>>, 0, FALSE) ELSE At(Head(todo), place', second')
         IN  x \in Place /\ y \in Place /\ Follows(x, y)
<1> DEFINE f == Head(todo)
           x == At(f, place, second)
           y == IF place' = Idle THEN At(<<>>, 0, FALSE) ELSE At(f, place', second')
<1>1. /\ f \in Frames /\ fail \in BOOLEAN
      /\ place' # Idle => place' \in 0 .. Len(f) + 1 /\ (second' => Escaped(f, place'))
      /\ second' \in BOOLEAN
      /\ Escaped(f, place) /\ ~second => place' = place /\ second'
      /\ ~(Escaped(f, place) /\ ~second) =>
           ~second' /\ place' = IF place = Len(f) + 1 THEN Idle ELSE place + 1
  <2>1. fail \in BOOLEAN BY DEF SerialTypeInv
  <2> QED BY <2>1, AdvanceType
<1>2. place \in 0 .. Len(f) + 1 /\ second \in BOOLEAN /\ (second => Escaped(f, place))
  BY DEF SerialTypeInv
<1>3. x \in Place BY <1>1, <1>2, PlaceIntro
<1>4. At(<<>>, 0, FALSE) \in Place BY DEF Place, At
<1>5. y \in Place
  <2>1. CASE place' = Idle BY <2>1, <1>4
  <2>2. CASE place' # Idle BY <2>2, <1>1, PlaceIntro
  <2> QED BY <2>1, <2>2
<1>6. x.f = f /\ x.i = place /\ x.e = second BY DEF At
<1>7. Follows(x, y)
  <2>1. CASE Escaped(f, place) /\ ~second
    <3>1. place' # Idle BY <2>1, <1>1, <1>2 DEF Idle
    <3>2. y = At(f, place, TRUE) BY <2>1, <3>1, <1>1 DEF At
    <3> QED BY <2>1, <3>2, <1>1, <1>6 DEF Follows
  <2>2. CASE ~(Escaped(f, place) /\ ~second) /\ place = Len(f) + 1
    <3>1. y.i = 0 BY <2>2, <1>1 DEF At
    <3> QED BY <2>2, <3>1, <1>1, <1>6 DEF Follows
  <2>3. CASE ~(Escaped(f, place) /\ ~second) /\ place # Len(f) + 1
    <3>1. place' = place + 1 /\ place' # Idle BY <2>3, <1>1, <1>2 DEF Idle
    <3>2. y = At(f, place + 1, FALSE) BY <2>3, <3>1, <1>1 DEF At
    <3> QED BY <2>3, <3>2, <1>1, <1>6 DEF Follows
  <2> QED BY <2>1, <2>2, <2>3
<1> QED BY <1>3, <1>5, <1>7

\* The receiver takes the byte of its place, and is at the place that follows.
LEMMA ReadsPlace ==
  ASSUME SerialTypeInv, NEW x \in Place, NEW y \in Place, Follows(x, y), Reading(x),
         WaitStart(ByteAt(x)) \/ TakeByte(ByteAt(x)) \/ TakeEscaped(ByteAt(x))
  PROVE  Reading(y)'
<1> DEFINE f == x.f
           v == ByteAt(x)
<1>1. /\ f \in Frames /\ x.i \in 0 .. Len(f) + 1 /\ x.e \in BOOLEAN /\ (x.e => Escaped(f, x.i))
      /\ Len(f) \in Nat /\ f \in Seq(Byte) /\ DOMAIN f = 1 .. Len(f)
  BY PlaceType, FrameType DEF Follows
<1>2. /\ v = TS_START <=> x.i = 0
      /\ v = TS_END <=> x.i = Len(f) + 1
      /\ v = TS_ESC <=> Escaped(f, x.i) /\ ~x.e
      /\ x.e => v = Flipped[f[x.i]] /\ f[x.i] \in Symbols /\ x.i \in 1 .. Len(f)
      /\ x.i \in 1 .. Len(f) /\ ~Escaped(f, x.i) => v = f[x.i] /\ f[x.i] \notin Symbols
  BY <1>1, WrittenType DEF ByteAt
<1>3. state' = "TS_WAITING" => Reading(y)' BY DEF Reading
<1>4. CASE WaitStart(v)
  <2>1. CASE v = TS_START
    <3>1. state' = "TS_RECEIVING" /\ buffer' = <<>> BY <1>4, <2>1 DEF WaitStart, Goes
    <3>2. x.i = 0 /\ ~Escaped(f, x.i) /\ x.i # Len(f) + 1 BY <1>1, <1>2, <2>1 DEF Escaped
    <3>3. y = At(f, 1, FALSE) BY <3>2 DEF Follows
    <3>4. y.i = 1 /\ ~y.e /\ y.f = f BY <3>3 DEF At
    <3>5. SubSeq(f, 1, 0) = <<>> BY <1>1
    <3> QED BY <3>1, <3>4, <3>5 DEF Reading
  <2>2. CASE v # TS_START
    <3>1. state' = "TS_WAITING" BY <1>4, <2>2 DEF WaitStart, Goes
    <3> QED BY <3>1, <1>3
  <2> QED BY <2>1, <2>2
<1>5. CASE TakeByte(v)
  <2>1. x.i # 0 /\ ~x.e /\ buffer = SubSeq(f, 1, x.i - 1) BY <1>5 DEF TakeByte, Reading
  <2>2. CASE Goes("TS_WAITING", buffer) BY <2>2, <1>3 DEF Goes
  <2>3. CASE v = TS_ESC /\ Goes("TS_WAITING_ESCAPE", buffer)
    <3>1. y = At(f, x.i, TRUE) BY <2>1, <2>3, <1>2 DEF Follows
    <3>2. y.f = f /\ y.i = x.i /\ y.e BY <3>1 DEF At
    <3>3. state' = "TS_WAITING_ESCAPE" /\ buffer' = buffer BY <2>3 DEF Goes
    <3> QED BY <3>2, <3>3, <2>1 DEF Reading
  <2>4. CASE v = TS_END /\ Goes("TS_DONE", buffer)
    <3>1. x.i = Len(f) + 1 BY <2>4, <1>2
    <3>2. SubSeq(f, 1, x.i - 1) = f BY <3>1, <1>1
    <3>3. state' = "TS_DONE" /\ buffer' = f BY <3>2, <2>1, <2>4 DEF Goes
    <3> QED BY <3>3, <1>1 DEF Reading
  <2>5. CASE v \notin Symbols /\ Goes(state, Append(buffer, v))
    <3>1. v # TS_ESC /\ v # TS_START /\ v # TS_END BY <2>5 DEF Symbols
    <3>2. ~Escaped(f, x.i) /\ x.i \in 1 .. Len(f) BY <3>1, <2>1, <1>1, <1>2
    <3>3. v = f[x.i] BY <3>2, <1>2
    <3>4. x.i # Len(f) + 1 BY <3>2, <1>1
    <3>5. y = At(f, x.i + 1, FALSE) BY <3>2, <3>4 DEF Follows
    <3>6. y.f = f /\ y.i = x.i + 1 /\ ~y.e BY <3>5 DEF At
    <3>7. Append(SubSeq(f, 1, x.i - 1), f[x.i]) = SubSeq(f, 1, x.i) BY <3>2, <1>1
    <3>8. y.i - 1 = x.i /\ y.i # 0 BY <3>2, <3>6
    <3>9. state' = "TS_RECEIVING" /\ buffer' = SubSeq(f, 1, x.i)
      BY <2>1, <2>5, <3>3, <3>7, <1>5 DEF Goes, TakeByte
    <3> QED BY <3>6, <3>8, <3>9 DEF Reading
  <2> QED BY <2>2, <2>3, <2>4, <2>5, <1>5 DEF TakeByte
<1>6. CASE TakeEscaped(v)
  <2>1. x.e /\ buffer = SubSeq(f, 1, x.i - 1) BY <1>6 DEF TakeEscaped, Reading
  <2>2. v = Flipped[f[x.i]] /\ f[x.i] \in Symbols /\ x.i \in 1 .. Len(f) BY <2>1, <1>2
  <2>3. v \in {Flipped[b] : b \in Symbols} /\ Unflip(v) = f[x.i] BY <2>2, FlippedType
  <2>4. Append(SubSeq(f, 1, x.i - 1), f[x.i]) = SubSeq(f, 1, x.i) BY <2>2, <1>1
  <2>5. state' = "TS_RECEIVING" /\ buffer' = SubSeq(f, 1, x.i)
    BY <2>1, <2>3, <2>4, <1>6 DEF Goes, TakeEscaped
  <2>6. x.i # Len(f) + 1 BY <2>2, <1>1
  <2>7. y = At(f, x.i + 1, FALSE) BY <2>1, <2>6 DEF Follows
  <2>8. y.f = f /\ y.i = x.i + 1 /\ ~y.e BY <2>7 DEF At
  <2>9. y.i - 1 = x.i /\ y.i # 0 BY <2>2, <2>8
  <2> QED BY <2>5, <2>8, <2>9 DEF Reading
<1> QED BY <1>4, <1>5, <1>6

\* The first byte of the line is taken.
LEMMA TakesInStep ==
  ASSUME SerialTypeInv, NEW p, OnTheLine(p), Reading(p[1]), NEW v \in Byte,
         WaitStart(v) \/ TakeByte(v) \/ TakeEscaped(v)
  PROVE  \E q : OnTheLine(q)' /\ Reading(q[1])'
<1> DEFINE n == Len(line)
<1>0. PICK q : q = [j \in 1 .. n |-> p[j + 1]] OBVIOUS
<1>1. /\ line # <<>> /\ v = Head(line) /\ line' = Tail(line)
      /\ UNCHANGED <<todo, place, second>>
  BY TakesType
<1>2. line \in Seq(Byte) /\ n \in Nat \ {0} BY <1>1 DEF SerialTypeInv
<1>3. Len(line') = n - 1 /\ \A j \in 1 .. n - 1 : line'[j] = line[j + 1] BY <1>1, <1>2
<1>4. v = line[1] BY <1>1, <1>2
<1>5. /\ p \in [1 .. n + 1 -> Place]
      /\ \A j \in 1 .. n : line[j] = ByteAt(p[j]) /\ Follows(p[j], p[j + 1])
      /\ IF place = Idle THEN p[n + 1].i = 0 ELSE p[n + 1] = At(Head(todo), place, second)
  BY DEF OnTheLine
<1>6. p[1] \in Place /\ p[2] \in Place /\ v = ByteAt(p[1]) /\ Follows(p[1], p[2])
  BY <1>2, <1>4, <1>5
<1>7. Reading(p[2])' BY <1>6, ReadsPlace
<1>8. q \in [1 .. n -> Place] /\ q[1] = p[2] /\ q[n] = p[n + 1] BY <1>0, <1>2, <1>5
<1>9. ASSUME NEW j \in 1 .. n - 1 PROVE line'[j] = ByteAt(q[j]) /\ Follows(q[j], q[j + 1])
  <2>1. j + 1 \in 1 .. n /\ j \in 1 .. n /\ q[j] = p[j + 1] /\ q[j + 1] = p[(j + 1) + 1] BY <1>0, <1>2
  <2> QED BY <2>1, <1>3, <1>5
<1>10. (n - 1) + 1 = n BY <1>2
<1>11. OnTheLine(q)' BY <1>1, <1>3, <1>5, <1>8, <1>9, <1>10 DEF OnTheLine
<1>12. Reading(q[1])' BY <1>7, <1>8
<1> QED BY <1>11, <1>12

\* A byte is written behind the others.
LEMMA WritesInStep ==
  ASSUME SerialTypeInv, NEW p, OnTheLine(p), Reading(p[1]), WriteByte, ~fail
  PROVE  \E q : OnTheLine(q)' /\ Reading(q[1])'
<1> DEFINE n == Len(line)
           x == At(Head(todo), place, second)
           y == IF place' = Idle THEN At(<<>>, 0, FALSE) ELSE At(Head(todo), place', second')
<1>0. PICK q : q = [j \in 1 .. n + 2 |-> IF j = n + 2 THEN y ELSE p[j]] OBVIOUS
<1>1. /\ place # Idle /\ line' = Append(line, Written(Head(todo), place, second)) /\ Advance(fail)
      /\ UNCHANGED <<state, buffer, todo>>
  BY DEF WriteByte
<1>2. line \in Seq(Byte) /\ n \in Nat BY DEF SerialTypeInv
<1>3. x \in Place /\ y \in Place /\ Follows(x, y) BY <1>1, NextPlace
<1>4. Written(Head(todo), place, second) = ByteAt(x) BY DEF ByteAt, At
<1>5. Len(line') = n + 1 /\ line'[n + 1] = ByteAt(x) /\ \A j \in 1 .. n : line'[j] = line[j]
  BY <1>1, <1>2, <1>4
<1>6. /\ p \in [1 .. n + 1 -> Place] /\ p[n + 1] = x
      /\ \A j \in 1 .. n : line[j] = ByteAt(p[j]) /\ Follows(p[j], p[j + 1])
  BY <1>1 DEF OnTheLine
<1>7. place' = Idle => y.i = 0 BY DEF At
<1>8. place' # Idle => y = At(Head(todo'), place', second') BY <1>1
<1> HIDE DEF n, x, y
<1>9. /\ q \in [1 .. n + 2 -> Place] /\ q[n + 2] = y /\ q[n + 1] = x /\ q[1] = p[1]
      /\ \A j \in 1 .. n + 1 : q[j] = p[j]
  BY <1>0, <1>2, <1>3, <1>6
<1>10. ASSUME NEW j \in 1 .. n + 1 PROVE line'[j] = ByteAt(q[j]) /\ Follows(q[j], q[j + 1])
  <2>1. CASE j = n + 1
    <3>1. j + 1 = n + 2 BY <2>1, <1>2
    <3> QED BY <2>1, <3>1, <1>3, <1>5, <1>9
  <2>2. CASE j # n + 1
    <3>1. j \in 1 .. n /\ j + 1 \in 1 .. n + 1 BY <2>2, <1>2
    <3> QED BY <3>1, <1>5, <1>6, <1>9
  <2> QED BY <2>1, <2>2
<1>11. (n + 1) + 1 = n + 2 BY <1>2
<1>12. OnTheLine(q)' BY <1>5, <1>7, <1>8, <1>9, <1>10, <1>11 DEF OnTheLine
<1>13. Reading(q[1])' BY <1>1, <1>9 DEF Reading
<1> QED BY <1>12, <1>13

\* It is settled which frame the next START begins.
LEMMA BeginsInStep ==
  ASSUME SerialTypeInv, NEW p, OnTheLine(p), Reading(p[1]), BeginFrame
  PROVE  \E q : OnTheLine(q)' /\ Reading(q[1])'
<1> DEFINE n == Len(line)
           x == At(Head(todo), 0, FALSE)
<1>0. PICK q : q = [p EXCEPT ![n + 1] = x] OBVIOUS
<1>1. /\ place = Idle /\ place' = 0 /\ todo # <<>> /\ UNCHANGED <<line, state, buffer, todo>>
      /\ second' = FALSE
  BY DEF BeginFrame
<1>2. line \in Seq(Byte) /\ n \in Nat BY DEF SerialTypeInv
<1>3. x \in Place
  <2>1. Head(todo) \in Frames BY <1>1, HeadType
  <2>2. 0 \in 0 .. Len(Head(todo)) + 1 BY <2>1, FrameType
  <2> QED BY <2>1, <2>2, PlaceIntro
<1>4. /\ p \in [1 .. n + 1 -> Place] /\ p[n + 1].i = 0
      /\ \A j \in 1 .. n : line[j] = ByteAt(p[j]) /\ Follows(p[j], p[j + 1])
  BY <1>1 DEF OnTheLine
<1>5. x.i = 0 /\ ~x.e /\ x = At(Head(todo'), place', second') BY <1>1 DEF At
<1>6. place' # Idle BY <1>1 DEF Idle
<1> HIDE DEF n, x
<1>7. /\ q \in [1 .. n + 1 -> Place] /\ q[n + 1] = x
      /\ \A j \in 1 .. n : q[j] = p[j]
  BY <1>0, <1>2, <1>3, <1>4
<1>8. ASSUME NEW j \in 1 .. n PROVE line[j] = ByteAt(q[j]) /\ Follows(q[j], q[j + 1])
  <2>1. CASE j = n
    <3>1. p[j] \in Place /\ p[j + 1] \in Place /\ Follows(p[j], p[j + 1]) /\ p[j + 1].i = 0
      BY <2>1, <1>2, <1>4
    <3>2. p[j].i \in Nat /\ (Escaped(p[j].f, p[j].i) => p[j].i # 0)
      BY <3>1, PlaceType, FrameType DEF Follows, Escaped
    <3>3. ~(Escaped(p[j].f, p[j].i) /\ ~p[j].e) /\ p[j].i = Len(p[j].f) + 1
      BY <3>1, <3>2 DEF Follows, At
    <3>4. Follows(p[j], x) BY <3>1, <3>3, <1>5 DEF Follows
    <3>5. q[j] = p[j] /\ q[j + 1] = x BY <2>1, <1>7
    <3> QED BY <3>4, <3>5, <1>4
  <2>2. CASE j # n
    <3>1. j + 1 \in 1 .. n BY <2>2, <1>2
    <3> QED BY <3>1, <1>4, <1>7
  <2> QED BY <2>1, <2>2
<1>9. OnTheLine(q)' BY <1>1, <1>5, <1>6, <1>7, <1>8 DEF OnTheLine, n
<1>10. Reading(q[1])'
  <2>1. CASE n = 0
    <3>1. p[1].i = 0 /\ p[1] \in Place BY <2>1, <1>4
    <3>2. ~p[1].e BY <3>1, PlaceType
    <3>3. state \notin {"TS_RECEIVING", "TS_WAITING_ESCAPE"} BY <3>1, <3>2 DEF Reading
    <3> QED BY <3>3, <1>1 DEF Reading
  <2>2. CASE n # 0
    <3>1. q[1] = p[1] BY <2>2, <1>2, <1>7
    <3> QED BY <3>1, <1>1 DEF Reading
  <2> QED BY <2>1, <2>2
<1> QED BY <1>9, <1>10


\* The other steps leave the line, the sender and what was read alone.
LEMMA StaysInStep ==
  ASSUME InStep, losses' = 0 => losses = 0,
         UNCHANGED <<line, place, second>>, place # Idle => todo' = todo,
         UNCHANGED <<state, buffer>> \/ state' = "TS_WAITING"
  PROVE  InStep'
<1> SUFFICES ASSUME losses' = 0 PROVE \E q : OnTheLine(q)' /\ Reading(q[1])' BY DEF InStep
<1>1. PICK p : OnTheLine(p) /\ Reading(p[1]) BY DEF InStep
<1>2. OnTheLine(p)' BY <1>1 DEF OnTheLine
<1>3. Reading(p[1])' BY <1>1 DEF Reading
<1> QED BY <1>2, <1>3

LEMMA InStepInit == SerialInit => InStep
<1> SUFFICES ASSUME SerialInit PROVE \E p : OnTheLine(p) /\ Reading(p[1]) BY DEF InStep
<1>1. line = <<>> /\ state = "TS_WAITING" /\ place = Idle BY DEF SerialInit
<1>2. PICK p : p = [j \in 1 .. 1 |-> At(<<>>, 0, FALSE)] OBVIOUS
<1>3. At(<<>>, 0, FALSE) \in Place /\ At(<<>>, 0, FALSE).i = 0 BY DEF Place, At
<1>4. Len(line) = 0 BY <1>1
<1> DEFINE x == At(<<>>, 0, FALSE)
<1> HIDE DEF x
<1>5. /\ p \in [1 .. Len(line) + 1 -> Place] /\ p[Len(line) + 1].i = 0
      /\ \A j \in 1 .. Len(line) : FALSE
  <2>1. p = [j \in 1 .. 1 |-> x] /\ x \in Place /\ x.i = 0 BY <1>2, <1>3 DEF x
  <2>2. Len(line) + 1 = 1 /\ 1 .. Len(line) = {} BY <1>4
  <2> QED BY <2>1, <2>2
<1>6. OnTheLine(p) /\ Reading(p[1]) BY <1>1, <1>5 DEF OnTheLine, Reading
<1> QED BY <1>6

LEMMA InStepNext == SerialTypeInv /\ InStep /\ [SerialNext]_serial_vars => InStep'
<1> SUFFICES ASSUME SerialTypeInv, InStep, [SerialNext]_serial_vars PROVE InStep' OBVIOUS
<1>1. ASSUME losses' = losses,
             losses = 0 => \A p : OnTheLine(p) /\ Reading(p[1]) =>
                                    \E q : OnTheLine(q)' /\ Reading(q[1])'
      PROVE  InStep'
  BY <1>1 DEF InStep
<1>2. CASE BeginFrame
  <2>1. losses' = losses BY <1>2 DEF BeginFrame
  <2> QED BY <2>1, <1>1, <1>2, BeginsInStep
<1>3. CASE WriteByte
  <2>1. losses' = losses /\ (losses = 0 => ~fail) BY <1>3 DEF WriteByte, SerialTypeInv
  <2> QED BY <2>1, <1>1, <1>3, WritesInStep
<1>4. CASE ReadResponse
  <2>1. place = Idle BY <1>4 DEF ReadResponse, SerialTypeInv
  <2> QED BY <2>1, <1>4, StaysInStep DEF ReadResponse
<1>5. CASE ResponseTimeOut
  <2>1. losses' = 0 => losses = 0 BY <1>5 DEF ResponseTimeOut, Early, SerialTypeInv
  <2> QED BY <2>1, <1>5, StaysInStep DEF ResponseTimeOut
<1>6. CASE Discard BY <1>6, StaysInStep DEF Discard
<1>7. ASSUME NEW v \in Byte, WaitStart(v) \/ TakeByte(v) \/ TakeEscaped(v) PROVE InStep'
  <2>1. losses' = losses BY <1>7, TakesType
  <2> QED BY <2>1, <1>1, <1>7, TakesInStep
<1>8. CASE ByteTimeOut
  <2>1. losses' = 0 => losses = 0 BY <1>8 DEF ByteTimeOut, Early, SerialTypeInv
  <2> QED BY <2>1, <1>8, StaysInStep DEF ByteTimeOut, Goes
<1>9. CASE FrameDone BY <1>9, StaysInStep DEF FrameDone, Goes
<1>10. CASE WriteFails \/ Lose
  <2>1. losses \in Nat /\ losses' = losses + 1 BY <1>10 DEF WriteFails, Lose, SerialTypeInv
  <2> QED BY <2>1 DEF InStep
<1>11. CASE UNCHANGED serial_vars BY <1>11, StaysInStep DEF serial_vars
<1> QED BY <1>2, <1>3, <1>4, <1>5, <1>6, <1>7, <1>8, <1>9, <1>10, <1>11
  DEF SerialNext, SenderStep, ReceiverStep

\* The room is looked at before END is.
DoneFits == state = "TS_DONE" => Len(buffer) + 1 < MaxLength

LEMMA DoneFitsNext == SerialTypeInv /\ DoneFits /\ [SerialNext]_serial_vars => DoneFits'
<1> SUFFICES ASSUME SerialTypeInv, DoneFits, [SerialNext]_serial_vars PROVE DoneFits' OBVIOUS
<1>1. ASSUME UNCHANGED <<state, buffer>> \/ (state' # "TS_DONE") PROVE DoneFits'
  BY <1>1 DEF DoneFits
<1>2. ASSUME NEW v \in Byte, WaitStart(v) PROVE DoneFits'
  BY <1>2, <1>1 DEF WaitStart, Goes
<1>3. ASSUME NEW v \in Byte, TakeByte(v) PROVE DoneFits'
  <2>1. state = "TS_RECEIVING" BY <1>3 DEF TakeByte
  <2>2. \/ state' # "TS_DONE"
        \/ Len(buffer) + 1 < MaxLength /\ buffer' = buffer
    BY <2>1, <1>3 DEF TakeByte, Goes
  <2> QED BY <2>2 DEF DoneFits
<1>4. ASSUME NEW v \in Byte, TakeEscaped(v) PROVE DoneFits'
  BY <1>4, <1>1 DEF TakeEscaped, Goes
<1>5. CASE ByteTimeOut \/ FrameDone BY <1>5, <1>1 DEF ByteTimeOut, FrameDone, Goes
<1>6. CASE SenderStep \/ WriteFails \/ Lose \/ UNCHANGED serial_vars
  BY <1>6, <1>1 DEF SenderStep, BeginFrame, WriteByte, ReadResponse, ResponseTimeOut, Discard,
                    WriteFails, Lose, serial_vars
<1> QED BY <1>2, <1>3, <1>4, <1>5, <1>6 DEF SerialNext, ReceiverStep

\* Byte stuffing is transparent: what receive_frame() has at END is what send_frame()
\* was given, for all frames and all lengths, as long as no byte is lost or late.
THEOREM TransparentHolds == SerialSpec => []Transparent
<1>1. SerialInit => DoneFits BY DEF SerialInit, DoneFits
<1>2. SerialTypeInv /\ InStep /\ DoneFits => Transparent
  BY DEF InStep, DoneFits, Transparent, Reading
<1> QED BY <1>1, <1>2, SerialTypeInit, SerialTypeNext, InStepInit, InStepNext, DoneFitsNext, PTL
    DEF SerialSpec

-----------------------------------------------------------------------------
(* Responses. *)

\* The bytes of the responses the receiver gave.
Said == {Response(g)[j] : g \in accepted, j \in 1 .. ResponseLength}

\* Nothing else comes back to the sender.
BackIsSaid == \A n \in 1 .. Len(back) : back[n] \in Said

\* What the sender still expects is the end of the response to the frame it sent,
\* and it has read what is before it.
RestIsAwaited ==
  awaited # <<>> =>
    /\ Len(awaited) <= ResponseLength
    /\ \A j \in 1 .. Len(awaited) :
         awaited[j] = Response(Head(todo))[(ResponseLength - Len(awaited)) + j]
    /\ \A j \in 1 .. ResponseLength - Len(awaited) : Response(Head(todo))[j] \in Said

LEMMA BytesJoined ==
  ASSUME NEW s \in Seq(Byte), NEW t \in Seq(Byte)
  PROVE  /\ Len(s \o t) = Len(s) + Len(t)
         /\ \A j \in 1 .. Len(s) : (s \o t)[j] = s[j]
         /\ \A j \in 1 .. Len(t) : (s \o t)[Len(s) + j] = t[j]
OBVIOUS

LEMMA AcceptedOnce ==
  ASSUME EachResponseOwnByte, SerialTypeInv, NEW f \in Frames,
         \A j \in 1 .. ResponseLength : Response(f)[j] \in Said
  PROVE  f \in accepted
<1>1. PICK i \in 1 .. ResponseLength :
        \A g \in Frames \ {f} : \A j \in 1 .. ResponseLength : Response(g)[j] # Response(f)[i]
  BY DEF EachResponseOwnByte
<1>2. PICK g \in accepted, j \in 1 .. ResponseLength : Response(f)[i] = Response(g)[j]
  BY <1>1 DEF Said
<1>3. g \in Frames BY DEF SerialTypeInv
<1> QED BY <1>1, <1>2, <1>3

\* The steps that neither read the response nor add to it.
LEMMA StaysAcked ==
  ASSUME SerialTypeInv, BackIsSaid, RestIsAwaited, AckedIsAccepted,
         UNCHANGED <<back, todo, accepted>>, UNCHANGED awaited \/ awaited' = <<>>
  PROVE  BackIsSaid' /\ RestIsAwaited' /\ AckedIsAccepted'
BY DEF BackIsSaid, RestIsAwaited, AckedIsAccepted, Said

LEMMA AdvanceAcked ==
  ASSUME SerialTypeInv, BackIsSaid, RestIsAwaited, AckedIsAccepted, place # Idle,
         NEW failed \in BOOLEAN, Advance(failed), UNCHANGED <<back, todo, accepted>>
  PROVE  BackIsSaid' /\ RestIsAwaited' /\ AckedIsAccepted'
<1>1. awaited' = Response(Head(todo)) \/ awaited' = <<>> BY DEF Advance
<1>2. CASE awaited' = <<>> BY <1>2, StaysAcked
<1>3. CASE awaited' = Response(Head(todo))
  <2>1. Head(todo) \in Frames BY HeadType DEF SerialTypeInv
  <2>2. Len(awaited') = ResponseLength BY <1>3, <2>1, ResponseType
  <2>3. ResponseLength \in Nat BY SerialAssumption
  <2>4. \A j \in 1 .. Len(awaited') : awaited'[j] = Response(Head(todo))[(ResponseLength - Len(awaited')) + j]
    BY <1>3, <2>2, <2>3
  <2>5. RestIsAwaited' BY <2>2, <2>3, <2>4 DEF RestIsAwaited
  <2> QED BY <2>5 DEF BackIsSaid, AckedIsAccepted, Said
<1> QED BY <1>1, <1>2, <1>3

\* The sender reads a byte of the response.
LEMMA ReadAcked ==
  ASSUME EachResponseOwnByte, SerialTypeInv, BackIsSaid, RestIsAwaited, AckedIsAccepted,
         ReadResponse
  PROVE  BackIsSaid' /\ RestIsAwaited' /\ AckedIsAccepted'
<1> DEFINE f == Head(todo)
           n == Len(awaited)
           R == ResponseLength
<1>1. /\ awaited # <<>> /\ back # <<>> /\ back' = Tail(back) /\ accepted' = accepted
      /\ awaited' = IF Head(awaited) = Head(back) THEN Tail(awaited) ELSE <<>>
      /\ todo' = IF Head(awaited) = Head(back) /\ Len(awaited) = 1 THEN Tail(todo) ELSE todo
  BY DEF ReadResponse
<1>2. /\ back \in Seq(Byte) /\ awaited \in Seq(Byte) /\ todo # <<>> /\ todo \in Seq(Frames)
      /\ R \in Nat \ {0}
  BY <1>1, SerialAssumption DEF SerialTypeInv
<1>3. Said' = Said BY <1>1 DEF Said
<1>4. BackIsSaid'
  <2>1. Len(Tail(back)) = Len(back) - 1 /\ \A k \in 1 .. Len(back) - 1 : Tail(back)[k] = back[k + 1]
    BY <1>1, <1>2
  <2>2. \A k \in 1 .. Len(back) - 1 : k + 1 \in 1 .. Len(back) BY <1>2
  <2> QED BY <2>1, <2>2, <1>1, <1>3 DEF BackIsSaid
<1>5. CASE Head(awaited) # Head(back)
  BY <1>1, <1>4, <1>5 DEF RestIsAwaited, AckedIsAccepted
<1>6. CASE Head(awaited) = Head(back)
  <2>1. n \in Nat \ {0} /\ n <= R BY <1>1, <1>2 DEF RestIsAwaited
  <2>2. \A j \in 1 .. n : awaited[j] = Response(f)[(R - n) + j] BY <1>1 DEF RestIsAwaited
  <2>3. \A j \in 1 .. R - n : Response(f)[j] \in Said BY <1>1 DEF RestIsAwaited
  <2>4. awaited[1] = back[1] /\ back[1] \in Said BY <1>1, <1>2, <1>6 DEF BackIsSaid
  <2>5. Response(f)[(R - n) + 1] \in Said BY <2>1, <2>2, <2>4
  <2>6. ASSUME NEW j \in 1 .. (R - n) + 1 PROVE Response(f)[j] \in Said
    <3>1. j \in 1 .. R - n \/ j = (R - n) + 1 BY <1>2, <2>1
    <3> QED BY <3>1, <2>3, <2>5
  <2>7. CASE n = 1
    <3>1. Len(Tail(awaited)) = 0 /\ Tail(awaited) \in Seq(Byte) BY <2>7, <1>1, <1>2
    <3>2. awaited' = <<>> BY <3>1, <1>1, <1>6
    <3>3. f \in Frames BY <1>2
    <3>4. (R - n) + 1 = R BY <2>7, <1>2
    <3>5. f \in accepted BY <3>3, <3>4, <2>6, AcceptedOnce
    <3>6. AckedIsAccepted'
      <4>1. todo' = Tail(todo) BY <2>7, <1>1, <1>6
      <4>2. Len(todo') = Len(todo) - 1 /\ Len(todo) \in Nat \ {0} /\ todo[1] = f
        BY <4>1, <1>2
      <4>3. Len(ToSend) \in Nat BY SerialAssumption
      <4>4. todo[1] = ToSend[(Len(ToSend) - Len(todo)) + 1] BY <4>2 DEF SerialTypeInv
      <4>5. ASSUME NEW k \in 1 .. Len(ToSend) - Len(todo') PROVE ToSend[k] \in accepted
        <5>1. k \in 1 .. Len(ToSend) - Len(todo) \/ k = (Len(ToSend) - Len(todo)) + 1
          BY <4>2, <4>3
        <5> QED BY <5>1, <4>2, <4>4, <3>5 DEF AckedIsAccepted
      <4> QED BY <4>5, <1>1 DEF AckedIsAccepted
    <3> QED BY <3>2, <3>6, <1>4 DEF RestIsAwaited
  <2>8. CASE n # 1
    <3>1. awaited' = Tail(awaited) /\ todo' = todo BY <2>8, <1>1, <1>6
    <3>2. Len(awaited') = n - 1 /\ \A j \in 1 .. n - 1 : awaited'[j] = awaited[j + 1]
      BY <3>1, <1>1, <1>2
    <3>3. R - (n - 1) = (R - n) + 1 BY <1>2, <2>1
    <3>4. ASSUME NEW j \in 1 .. n - 1 PROVE awaited'[j] = Response(f)[(R - (n - 1)) + j]
      <4>1. j + 1 \in 1 .. n /\ (R - n) + (j + 1) = (R - (n - 1)) + j BY <1>2, <2>1
      <4> QED BY <4>1, <3>2, <2>2
    <3>5. \A j \in 1 .. R - (n - 1) : Response(f)[j] \in Said' BY <3>3, <2>6, <1>3
    <3>6. n - 1 <= R BY <2>1, <1>2
    <3> HIDE DEF n, f, R
    <3>7. RestIsAwaited' BY <3>1, <3>2, <3>4, <3>5, <3>6 DEF RestIsAwaited, f, R
    <3>8. AckedIsAccepted' BY <3>1, <1>1 DEF AckedIsAccepted
    <3> QED BY <3>7, <3>8, <1>4
  <2> QED BY <2>7, <2>8
<1> QED BY <1>5, <1>6

\* The receiver takes a frame and responds.
LEMMA RespondAcked ==
  ASSUME SerialTypeInv, BackIsSaid, RestIsAwaited, AckedIsAccepted, FrameDone
  PROVE  BackIsSaid' /\ RestIsAwaited' /\ AckedIsAccepted'
<1>1. UNCHANGED <<todo, awaited>> BY DEF FrameDone
<1>2. CASE buffer \notin Frames
  <2>1. UNCHANGED <<back, accepted>> BY <1>2 DEF FrameDone
  <2> QED BY <2>1, <1>1, StaysAcked
<1>3. CASE buffer \in Frames
  <2>1. accepted' = accepted \cup {buffer} /\ back' = back \o Response(buffer)
    BY <1>3 DEF FrameDone
  <2>2. Said \subseteq Said' BY <2>1 DEF Said
  <2>3. Response(buffer) \in Seq(Byte) /\ Len(Response(buffer)) = ResponseLength
    BY <1>3, ResponseType
  <2>4. back \in Seq(Byte) /\ ResponseLength \in Nat BY SerialAssumption DEF SerialTypeInv
  <2>5. \A j \in 1 .. ResponseLength : Response(buffer)[j] \in Said' BY <2>1 DEF Said
  <2>6. ASSUME NEW k \in 1 .. Len(back') PROVE back'[k] \in Said'
    <3>1. Len(back') = Len(back) + ResponseLength BY <2>1, <2>3, <2>4, BytesJoined
    <3>2. CASE k <= Len(back)
      <4>1. k \in 1 .. Len(back) BY <3>2, <2>4
      <4>2. back'[k] = back[k] BY <4>1, <2>1, <2>3, <2>4, BytesJoined
      <4> QED BY <4>1, <4>2, <2>2 DEF BackIsSaid
    <3>3. CASE k > Len(back)
      <4>1. k - Len(back) \in 1 .. ResponseLength /\ k = Len(back) + (k - Len(back))
        BY <3>1, <3>3, <2>4
      <4>2. back'[k] = Response(buffer)[k - Len(back)] BY <4>1, <2>1, <2>3, <2>4, BytesJoined
      <4> QED BY <4>1, <4>2, <2>5
    <3> QED BY <3>2, <3>3, <2>4
  <2>7. BackIsSaid' BY <2>6 DEF BackIsSaid
  <2>8. RestIsAwaited' BY <1>1, <2>2 DEF RestIsAwaited
  <2>9. AckedIsAccepted' BY <1>1, <2>1 DEF AckedIsAccepted
  <2> QED BY <2>7, <2>8, <2>9
<1> QED BY <1>2, <1>3

\* What the line loses of the responses leaves bytes of responses.
LEMMA LoseAcked ==
  ASSUME SerialTypeInv, BackIsSaid, RestIsAwaited, AckedIsAccepted, Lose
  PROVE  BackIsSaid' /\ RestIsAwaited' /\ AckedIsAccepted'
<1>1. UNCHANGED <<todo, awaited, accepted>> BY DEF Lose
<1>2. CASE UNCHANGED back BY <1>1, <1>2, StaysAcked
<1>3. ASSUME NEW k \in DOMAIN back, back' = Without(back, k) PROVE BackIsSaid'
  <2>1. back \in Seq(Byte) /\ k \in 1 .. Len(back) /\ Len(back) \in Nat BY DEF SerialTypeInv
  <2>2. back' = SubSeq(back, 1, k - 1) \o SubSeq(back, k + 1, Len(back)) BY <1>3 DEF Without
  <2> DEFINE l == SubSeq(back, 1, k - 1)
             r == SubSeq(back, k + 1, Len(back))
  <2>3. l \in Seq(Byte) /\ Len(l) = k - 1 /\ \A j \in 1 .. k - 1 : l[j] = back[j]
    BY <2>1
  <2>4. /\ r \in Seq(Byte) /\ Len(r) = Len(back) - k
        /\ \A j \in 1 .. Len(back) - k : r[j] = back[k + j]
    BY <2>1
  <2> HIDE DEF l, r
  <2>5. ASSUME NEW j \in 1 .. Len(back') PROVE \E i \in 1 .. Len(back) : back'[j] = back[i]
    <3>1. back' = l \o r BY <2>2 DEF l, r
    <3>2. Len(back') = (k - 1) + (Len(back) - k) BY <3>1, <2>3, <2>4, BytesJoined
    <3>3. CASE j <= k - 1
      <4>1. j \in 1 .. k - 1 /\ j \in 1 .. Len(back) BY <3>3, <2>1
      <4>2. back'[j] = l[j] BY <4>1, <3>1, <2>3, <2>4, BytesJoined
      <4> QED BY <4>1, <4>2, <2>3
    <3>4. CASE j > k - 1
      <4> DEFINE m == j - (k - 1)
      <4>1. j <= (k - 1) + (Len(back) - k) BY <3>2
      <4>2. m \in 1 .. Len(back) - k /\ j = (k - 1) + m BY <4>1, <3>4, <2>1, SMTT(30)
      <4> HIDE DEF m
      <4>3. k + m \in 1 .. Len(back) BY <4>2, <2>1
      <4>4. (l \o r)[Len(l) + m] = r[m] BY <4>2, <2>3, <2>4, BytesJoined
      <4>5. back'[j] = r[m] BY <4>2, <4>4, <3>1, <2>3
      <4> QED BY <4>2, <4>5, <4>3, <2>4
    <3> QED BY <3>3, <3>4, <2>1
  <2> QED BY <2>5, <1>1 DEF BackIsSaid, Said
<1>4. RestIsAwaited' /\ AckedIsAccepted' BY <1>1 DEF RestIsAwaited, AckedIsAccepted, Said
<1> QED BY <1>2, <1>3, <1>4 DEF Lose

\* A frame for which receive_response() returned PJON_ACK was taken by the receiver, for
\* any losses and time-outs, if the response to each frame has a byte of its own.
THEOREM AckedIsAcceptedHolds ==
  ASSUME EachResponseOwnByte
  PROVE  SerialSpec => []AckedIsAccepted
<1> DEFINE AckInv == BackIsSaid /\ RestIsAwaited /\ AckedIsAccepted
<1>1. SerialInit => AckInv
  <2> SUFFICES ASSUME SerialInit PROVE AckInv OBVIOUS
  <2>1. back = <<>> /\ awaited = <<>> /\ todo = ToSend BY DEF SerialInit
  <2>2. Len(ToSend) \in Nat BY SerialAssumption
  <2>3. 1 .. Len(ToSend) - Len(todo) = {} /\ 1 .. Len(back) = {} BY <2>1, <2>2
  <2> QED BY <2>1, <2>3 DEF BackIsSaid, RestIsAwaited, AckedIsAccepted
<1>2. SerialTypeInv /\ AckInv /\ [SerialNext]_serial_vars => AckInv'
  <2> SUFFICES ASSUME SerialTypeInv, AckInv, [SerialNext]_serial_vars PROVE AckInv' OBVIOUS
  <2>1. CASE WriteByte
    <3>1. fail \in BOOLEAN BY DEF SerialTypeInv
    <3> QED BY <3>1, <2>1, AdvanceAcked DEF WriteByte
  <2>2. CASE WriteFails BY <2>2, AdvanceAcked DEF WriteFails
  <2>3. CASE ReadResponse BY <2>3, ReadAcked
  <2>4. CASE Discard
    <3>1. back' = Tail(back) /\ UNCHANGED <<todo, awaited, accepted>> BY <2>4 DEF Discard
    <3>2. back \in Seq(Byte) /\ back # <<>> BY <2>4 DEF Discard, SerialTypeInv
    <3>3. Len(Tail(back)) = Len(back) - 1 /\ \A k \in 1 .. Len(back) - 1 : Tail(back)[k] = back[k + 1]
      BY <3>2
    <3>4. \A k \in 1 .. Len(back) - 1 : k + 1 \in 1 .. Len(back) BY <3>2
    <3>5. BackIsSaid' BY <3>1, <3>3, <3>4 DEF BackIsSaid, Said
    <3> QED BY <3>1, <3>5 DEF RestIsAwaited, AckedIsAccepted, Said
  <2>5. ASSUME NEW v \in Byte, WaitStart(v) \/ TakeByte(v) \/ TakeEscaped(v) PROVE AckInv'
    BY <2>5, TakesType, StaysAcked
  <2>6. CASE FrameDone BY <2>6, RespondAcked
  <2>7. CASE Lose BY <2>7, LoseAcked
  <2>8. CASE BeginFrame \/ ResponseTimeOut \/ ByteTimeOut \/ UNCHANGED serial_vars
    BY <2>8, StaysAcked DEF BeginFrame, ResponseTimeOut, ByteTimeOut, serial_vars
  <2> QED BY <2>1, <2>2, <2>3, <2>4, <2>5, <2>6, <2>7, <2>8
      DEF SerialNext, SenderStep, ReceiverStep
<1> QED BY <1>1, <1>2, SerialTypeInit, SerialTypeNext, PTL DEF SerialSpec

=============================================================================
