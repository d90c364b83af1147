------------------------------- MODULE PJONMqtt -------------------------------
(***************************************************************************)
(* The MQTTTranslate strategy of one device, in its four modes.  It        *)
(* publishes what PJON transmits through an MQTT client library, and the   *)
(* library hands it messages of the broker by a call back from the calls   *)
(* it is given.  A message becomes a packet in packet_buffer, the only     *)
(* buffer, where receive_frame() finds it by its size; JSON mode composes  *)
(* what it publishes in the same buffer.                                   *)
(*   RAW        packets as they are;                                       *)
(*   JSON       a text with the ids and the payload;                       *)
(*   TRANSLATE  one topic for each item "key=value" of the payload, its    *)
(*              key translated by a table;                                 *)
(*   DIRECT     the payload as it is.                                      *)
(* The acknowledgement of a packet is what publish() returned.  PJON makes *)
(* one attempt, since get_max_attempts() is 0.                             *)
(***************************************************************************)
EXTENDS Integers, Sequences

CONSTANTS
  Modes,     \* the modes explored
  Clients,   \* how the library calls back: the calls it does so from, and how
             \* many messages it hands over in one call at most
  Outgoing,  \* what the device sends: sequences of packets
  Arriving,  \* what the broker has for it: sequences of messages
  Table,     \* the translation table: pairs of a PJON key and an MQTT key
  LongKeys,  \* MQTT keys with which a topic exceeds SMCTOPICSIZE
  PJON_PACKET_MAX_LENGTH, MQTTT_BUFFER_SIZE,
  ItemSize,  \* what an item is cut to: MQTTT_KEY_SIZE + MQTTT_VALUE_SIZE
  Overhead   \* packet_overhead() of the packets made of messages

Calls == {"update", "connect", "publish"}

\* A packet to send: the keys of its payload, and whether its JSON text fits.  A
\* message: its length, in JSON mode that of its data, in TRANSLATE mode that of its
\* item; the ids a JSON text gives, 0 for none; whether it has data.
ASSUME MqttAssumption ==
  /\ Modes \subseteq {"RAW", "JSON", "TRANSLATE", "DIRECT"}
  /\ \A c \in Clients : c.calls \subseteq Calls /\ c.burst \in Nat
  /\ Outgoing \subseteq Seq([keys: Seq(STRING) \ {<<>>}, fits: BOOLEAN])
  /\ Arriving \subseteq Seq([size: Nat, to: Nat, from: Nat, data: BOOLEAN])
  /\ {PJON_PACKET_MAX_LENGTH, MQTTT_BUFFER_SIZE, ItemSize, Overhead} \subseteq Nat

VARIABLES
  mode, client, out, broker,  \* chosen at the start: a mode, a client, and from Outgoing and Arriving
  packet_buffer,       \* Nothing, Text, or a packet
  incoming_packet_size,
  names_sender,        \* whether the member header has PJON_TX_INFO_BIT
  last_send_success,
  pc,                  \* "idle", or the call of the library that runs
  handed, burst,       \* messages handed over so far, and in this call
  sending, item, sent, \* the packet, the item of it, and send_cnt
  told,                \* what PJON made of each packet: "none", "ack" or "lost"
  published,           \* history: the keys published of each packet
  latest,              \* history: the message that set incoming_packet_size, 0 for none
  read,                \* history: what receive_frame() returned, and for which message
  put_over             \* history: messages whose packet waited when another, or a text,
                       \* came over it from a call that does not look

config == <<mode, client, out, broker>>
inward == <<packet_buffer, incoming_packet_size, names_sender, handed, latest, read, put_over>>
result == <<last_send_success, told, sending>>
vars   == <<config, inward, result, pc, burst, item, sent, published>>

\* A packet is known by the message it was made of, a text composed over it by the
\* same number below zero.
Nothing    == [n |-> 0, from |-> 0]
Message(b) == IF b.n < 0 THEN 0 - b.n ELSE b.n
Text(b)    == [n |-> 0 - Message(b), from |-> 0]

Init ==
  /\ mode \in Modes /\ client \in Clients /\ out \in Outgoing /\ broker \in Arriving
  /\ packet_buffer = Nothing /\ incoming_packet_size = 0 /\ names_sender = FALSE
  /\ last_send_success = FALSE
  /\ pc = "idle" /\ handed = 0 /\ burst = 0
  /\ sending = 1 /\ item = 1 /\ sent = 0
  /\ told = [n \in DOMAIN out |-> "none"] /\ published = [n \in DOMAIN out |-> {}]
  /\ latest = 0 /\ read = <<>> /\ put_over = {}

-----------------------------------------------------------------------------
(* Receiving. *)

\* The messages receiver() does not return on.
Accepted(m) ==
  CASE mode = "RAW"  -> m.size <= MQTTT_BUFFER_SIZE
    [] mode = "JSON" -> m.to # 0 /\ m.data
    [] OTHER         -> TRUE

\* The length of the packet a message makes.
PacketSize(m) ==
  CASE mode = "RAW"       -> m.size
    [] mode = "TRANSLATE" -> Overhead + (IF m.size > ItemSize THEN ItemSize ELSE m.size)
    [] OTHER              -> Overhead + m.size

\* compose_packet() returns the length of a packet that is too long, and leaves its
\* destination as it was.  RAW mode composes nothing.
Stored(m) == mode = "RAW" \/ PacketSize(m) < PJON_PACKET_MAX_LENGTH

\* The sender its packet names.  JSON mode has set PJON_TX_INFO_BIT in the member
\* header after it took the copy it composes with: the next packets have it.  In the
\* last two modes no device sent the message, and the receiver is named as sender.
SenderIn(m) == IF mode = "RAW" \/ (mode = "JSON" /\ names_sender) THEN m.from ELSE 0

\* receiver(), called by the library.
Receiver(n) ==
  LET m == broker[n] IN
  IF Accepted(m)
  THEN /\ packet_buffer' = IF Stored(m) THEN [n |-> n, from |-> SenderIn(m)] ELSE packet_buffer
       /\ incoming_packet_size' = PacketSize(m) /\ latest' = n
       /\ names_sender' = (names_sender \/ (mode = "JSON" /\ m.from # 0))
  ELSE UNCHANGED <<packet_buffer, incoming_packet_size, latest, names_sender>>

Waits == incoming_packet_size > 0

HandOver ==
  /\ pc \in client.calls /\ burst < client.burst /\ handed < Len(broker)
  /\ Receiver(handed + 1) /\ handed' = handed + 1 /\ burst' = burst + 1
  /\ put_over' = IF Waits /\ (pc # "update" \/ burst > 0) THEN put_over \cup {latest} ELSE put_over
  /\ UNCHANGED <<config, result, pc, item, sent, published, read>>

Handled == read' = Append(read, [packet |-> packet_buffer, for |-> latest])

\* Mutant: the packet is not flagged as handled.
TakePacketKeepsSize ==
  /\ IF incoming_packet_size \in 1..PJON_PACKET_MAX_LENGTH THEN Handled ELSE UNCHANGED read
  /\ UNCHANGED <<packet_buffer, incoming_packet_size, latest>>

\* What receive_frame() does when it does not, or no longer, run update(): it returns
\* what the buffer holds, if that fits the buffer of PJON.
TakePacket ==
  /\ IF incoming_packet_size \in 1..PJON_PACKET_MAX_LENGTH
     THEN Handled /\ incoming_packet_size' = 0
     ELSE UNCHANGED <<read, incoming_packet_size>>
  /\ UNCHANGED <<packet_buffer, latest>>

\* Mutant: the library is asked for more while a packet waits.
AsksMoreAlways == TRUE

\* receive_frame() runs update() of the library only when no packet waits.
AsksMore == ~Waits

BeginReceive ==
  /\ pc = "idle" /\ burst' = 0
  /\ IF AsksMore THEN pc' = "update" /\ UNCHANGED inward
     ELSE /\ pc' = pc /\ TakePacket /\ UNCHANGED <<names_sender, handed, put_over>>
  /\ UNCHANGED <<config, result, item, sent, published>>

EndReceive ==
  /\ pc = "update" /\ pc' = "idle" /\ TakePacket
  /\ UNCHANGED <<config, result, names_sender, handed, burst, item, sent, published, put_over>>

-----------------------------------------------------------------------------
(* Sending. *)

\* update() of PJON: the packet leaves the list, acknowledged or lost.
Decided(ok) ==
  /\ told' = [told EXCEPT ![sending] = IF ok THEN "ack" ELSE "lost"]
  /\ sending' = sending + 1 /\ pc' = "idle"

\* can_start() connects; when it cannot, the attempt is lost.
BeginSend ==
  /\ pc = "idle" /\ sending <= Len(out) /\ burst' = 0
  /\ \/ pc' = "connect" /\ UNCHANGED result
     \/ Decided(FALSE) /\ UNCHANGED last_send_success
  /\ UNCHANGED <<config, inward, item, sent, published>>

\* translate(), and the lower case of a key that is not in the table.
Translated(key) ==
  LET at == {i \in DOMAIN Table : Table[i][1] = key}
  IN  IF at = {} THEN key ELSE Table[CHOOSE i \in at : \A j \in at : i <= j][2]

\* What stops send_frame() before publish(): it returns and last_send_success is
\* that of an earlier packet.
TooLong(n, k) ==
  \/ mode = "JSON" /\ ~out[n].fits
  \/ mode = "TRANSLATE" /\ Translated(out[n].keys[k]) \in LongKeys

\* send_frame(): the JSON text goes to packet_buffer.
SendFrame ==
  /\ pc = "connect" /\ item' = 1 /\ sent' = 0 /\ burst' = 0
  /\ IF TooLong(sending, 1)
     THEN Decided(last_send_success) /\ UNCHANGED <<last_send_success, packet_buffer, put_over>>
     ELSE /\ pc' = "publish" /\ UNCHANGED result
          /\ IF mode = "JSON"
             THEN /\ packet_buffer' = Text(packet_buffer)
                  /\ put_over' = IF Waits THEN put_over \cup {latest} ELSE put_over
             ELSE UNCHANGED <<packet_buffer, put_over>>
  /\ UNCHANGED <<config, incoming_packet_size, names_sender, handed, latest, read, published>>

\* The topics published of this packet.
Counted(ok) == sent + (IF ok THEN 1 ELSE 0)

\* publish() returns; TRANSLATE mode goes on with the next item.
Published ==
  /\ pc = "publish" /\ burst' = 0 /\ UNCHANGED <<config, inward>>
  /\ \E ok \in BOOLEAN :
       LET keys == out[sending].keys
           last == mode # "TRANSLATE" \/ item = Len(keys)
           cnt  == Counted(ok)
       IN  /\ published' = [published EXCEPT ![sending] =
                              @ \cup (IF ok THEN {Translated(keys[item])} ELSE {})]
           /\ item' = item + 1 /\ sent' = cnt
           /\ IF last
              THEN last_send_success' = (cnt > 0) /\ Decided(cnt > 0)
              ELSE IF TooLong(sending, item + 1)
              THEN Decided(last_send_success) /\ UNCHANGED last_send_success
              ELSE UNCHANGED <<result, pc>>

Next == HandOver \/ BeginReceive \/ EndReceive \/ BeginSend \/ SendFrame \/ Published

Spec == Init /\ [][Next]_vars

\* The device calls receive() forever, and every call of the library returns.
FairSpec ==
  Spec /\ WF_vars(BeginReceive) /\ WF_vars(EndReceive) /\ WF_vars(SendFrame) /\ WF_vars(Published)

-----------------------------------------------------------------------------
(* Properties. *)

\* Each time a message is read it is the one the library handed over last of those
\* receiver() accepts, after all that were read before; its packet is whole, but for
\* a text composed over it while it waited, and names the sender of the message once
\* a message has named one.  Only a message compose_packet() finds too long, and
\* receive_frame() does not, is read as what was in the buffer before.
ReadAsHanded ==
  /\ \A i, j \in DOMAIN read : i < j => read[i].for < read[j].for
  /\ \A i \in DOMAIN read :
       LET r == read[i].packet  n == read[i].for  m == broker[n]
       IN  Stored(m) =>
             /\ Message(r) = n /\ (r.n = n \/ n \in put_over)
             /\ (mode = "JSON" /\ r.n = n
                 /\ \E k \in 1..n - 1 : Accepted(broker[k]) /\ broker[k].from # 0)
                => r.from = m.from

\* receive_frame() can return the packet of this message.
Readable(m) == Accepted(m) /\ Stored(m) /\ PacketSize(m) \in 1..PJON_PACKET_MAX_LENGTH

\* Every message that can be is read if no other comes over it: one that waits is safe
\* from receive_frame(), which asks the library for nothing then.  It is not from a
\* library that hands messages over when it connects or publishes, or several at
\* once, nor from the text of a packet sent in JSON mode.
EveryMessageIsRead ==
  \A n \in UNION {DOMAIN a : a \in Arriving} :
    [](n <= handed /\ Readable(broker[n])
       => <>(n \in put_over \/ \E i \in DOMAIN read : read[i].packet.n = n))
=============================================================================
