# A TLA+ model of PJON

PJON is a network protocol stack for small devices: an instance composes packets,
keeps them in a send list, transmits them over a *strategy* (a serial line, a wire, a
file, UDP ...), acknowledges what it receives, and switches or routers forward packets
between buses. This directory holds TLA+ modules that model its core logic, TLC
configurations that check them on small instances, and proofs of theorems about them for
TLAPS. Paths below are those of the repository; `PJON.h` stands for `src/src/PJON.h`, and
so on.

1. [The system](#1-the-system)
2. [The modules](#2-the-modules)
3. [The runs](#3-the-runs)
4. [Fairness](#4-fairness)
5. [The proofs](#5-the-proofs)
6. [Where code and documentation disagree](#6-where-code-and-documentation-disagree)
7. [What is not modelled](#7-what-is-not-modelled)
8. [What is left](#8-what-is-left)

To run: `tlc -config Link_default.cfg MCLink` checks a configuration, `tlapm
PJONLink_proofs.tla` checks proofs. `PROJECT.json` lists the runs, maps each definition to
the lines it models, and gives for each property a mutated definition that breaks it (the
operators marked *Mutant* in the modules, which no specification uses).

## 1. The system

All of it is single-threaded C++ made of callbacks: the application calls `update()` and
`receive()` in its loop, and its receiver function and error handler are called from
inside them. Concurrency comes from several devices on one medium, from time passing
between calls, from handlers that call back into the instance, and from libraries that
call back into a strategy (MQTTTranslate); with LocalFile also from processes that share a
file, and with EthernetTCP from peers that each wait for the other.

| Component | State | Operations | Talks to |
|---|---|---|---|
| Send list (`PJON.h`) | `packets[]`: state, attempts, registration, timing, content, length; automatic deletion | `dispatch` (`send`, `send_repeatedly`, `reply`, `forward`), `remove`, `remove_all_packets`, `update` | strategy through `send_packet`; application through the error handler |
| Acknowledged transmission (`PJON.h`, `PJONDefines.h`) | packet id seed, `recent_packet_ids[]`, `_recursion` | `send_packet`, `send_packet_blocking`, the answer and the duplicate check of `receive` | strategy; receiver function |
| Packet format (`PJON.h`, `PJONDefines.h`) | none (header, id, bus, MAC, port of the instance) | `compose_packet`, the checks of `receive`, `parse_header` | the medium |
| SimpleSwitch, Switch | identity (`tx`) of each attached instance, `current_bus` | `dynamic_receiver_function`, `forward_packet`, `forward`, NAT | the send lists of the attached instances |
| Router, DynamicRouter | routing table | `find_bus_with_id`, `add` | the switch |
| VirtualBusRouter, InteractiveRouter | `device_via_attached_bus[]`, `unknown_device_location`, callbacks | registration of senders, search for a device, unregistration on a lost copy; packets for the router itself | the switch |
| PJONLocal | id and port of the device | `compose_packet`, `receive` of a local bus | the medium, beside PJON devices |
| ThroughSerial | receiver state machine, `buffer`, `response` | `send_frame`, `receive_frame`, `receive_response`, `send_response` | the serial port |
| LocalFile | the file (last number, index, records), `lastRecordIdRead` | opening, `send_frame`, `receive_frame` | the file system and its lock |
| LocalUDP, GlobalUDP, DualUDP, ESPNOW | last sender, node table with failure counts | the same interface over datagrams; `add_node`, `remove_node`, `autoregister_sender` | sockets |
| EthernetTCP | `_client_out`, `_client_in`, the server's queue | `connect`, `accept`, `send`, `receive`, `single_socket_transfer` | sockets of two peers |
| MQTTTranslate | `packet_buffer`, `incoming_packet_size`, `header`, `last_send_success` | `send_frame`, `receiver` (called by the library), `receive_frame`, `receive_response` | an MQTT client library |
| SoftwareBitBang, OverSampling, AnalogSampling | bit timing, thresholds | the same over pins | pins |
| ThroughLoRa, Any | radio, another strategy | delegation | external libraries |
| CRC, platform interfaces | none | CRC8, CRC32, clocks and input/output | hardware |

What is hard in each, and what makes it correct:

- **Send list.** The error handler runs in the middle of `update()` and may send and
  remove; `update()` then goes on with the slot it was at. Attempts, registration times
  and the count are updated on several paths. Correct: nothing is transmitted that was not
  composed; a loss is reported after the allowed attempts and not before; nothing is
  dropped untried; a packet leaves, or is rescheduled, in the end; the count is that of
  the packets to be sent; a packet that was delivered is not sent again.
- **Acknowledged transmission.** An acknowledgement may be lost or late, so the sender
  repeats what was delivered, and the receiver must recognise it, from a short ring of
  ids, after it has already acknowledged. Correct: at most once to the receiver function;
  confirmed only if delivered; every packet decided.
- **Format.** Eight header flags move every later field, three parts of the code compute
  the positions, lengths and CRC sizes change with each other. Devices of local and shared
  buses, with and without ids and MAC addresses, hear the same frames. Correct: read as
  written, taken by whom it is for, answered once.
- **Switching and routing.** One packet gives several copies; each copy is queued by an
  instance that takes the sender's identity meanwhile; NAT rewrites ids; the search for a
  bus is also the loop that enumerates the copies; the table fills up. Correct: the
  identity comes back; a reply finds its way; one copy per bus, one acknowledgement.
- **ThroughSerial.** The receiver keeps its state between calls, bytes get lost, frames
  run together, a late response meets the next frame. Correct: stuffing is transparent;
  the sender is not misled; the receiver gets in step again.
- **LocalFile.** Several processes, a creation race, record numbers that wrap, a queue
  that laps its readers, and processes that die between two writes. Correct: frames in
  order, once, without gaps as far as the file still has them; the last ones kept; a
  reader that polls comes to the end.

- **Virtual bus.** Devices move between parts of one bus; the router learns only from what
  it hears, and copies for the part a device has left are still queued when it has been
  heard elsewhere. Correct: a known device is where the router has it; a stale copy ends
  no registration; one answer for each packet; a device that moved is reached again.
- **Datagram strategies.** An acknowledgement names nobody (or, in DualUDP, only a
  device), what arrives while one is awaited is thrown away, and the table of nodes grows
  and shrinks under the positions kept of it. Correct: an answer in time is a true one;
  the table stays sound; a device that moved is found again where the strategy broadcasts.
- **EthernetTCP.** Two peers connect, accept, send and read with blocking calls, each of
  which may meet the other in the same call, a connection that was reset, or one that
  waits from an earlier attempt. Correct: what is acknowledged was read; no older copy is
  read after it; both ends mean the same by a socket; nobody waits for ever.
- **MQTTTranslate.** One buffer serves for the packet to read, the text to publish and the
  messages the library hands over from any of its calls. Correct: acknowledged only if
  published; packets in order, once, with their sender; what waits is read, and the device
  goes on listening.

The hazards, each at its line with the properties that cover it, are in `PROJECT.json`.

## 2. The modules

    PJONSendList ----------- PJONPackets_proofs        the list and update()
    PJONDelivery <- refines - PJONLink -- PJONLink_proofs   ids, acknowledgements, medium
    PJONFrame -------------- PJONPackets_proofs        the format of a packet
    PJONRouting ------------ PJONRouting_proofs        one switch or router
    PJONVirtualBus --------- PJONVirtualBus_proofs     the router of a virtual bus
    PJONThroughSerial ------ PJONStrategies_proofs     two devices on a serial line
    PJONLocalFile ---------- PJONLocalFile_proofs      processes that share a file
    PJONUdp ---------------- PJONUdp_proofs            devices that exchange datagrams
    PJONEthernetTCP -------- PJONEthernetTCP_proofs    two peers with sockets
    PJONMqtt --------------- PJONStrategies_proofs     a device and its MQTT library

Each has an `MC` module with the constants of its small instances. PJONFrame and
PJONThroughSerial name their specification after themselves (`FrameSpec`, `SerialSpec`),
because a module of proofs extends each of them beside another component. The modules meet at
the interfaces of the code: PJONLink uses the strategy by its contract (`can_start`,
`send_frame`, `receive_response`), which PJONThroughSerial models in detail;
PJONRouting and PJONVirtualBus queue their copies in lists that PJONSendList models in
detail; PJONLink takes frames as wholes, whose layout PJONFrame models; PJONUdp and
PJONMqtt have the transmissions of PJON above them, reduced to attempts and results. Each
level keeps of the others what its own properties tell apart.

### PJONSendList

| Model | Code |
|---|---|
| `packets[i]`: `state`, `attempts`, `timing`, `age`, `content`, `length` | `PJON_Packet packets[]`; `age` is `PJON_MICROS() - registration` |
| `pc`, `index`, `count` | where `update()` is: outside, at slot `i`, in the error handler; `packets_count` |
| `Dispatch`, `DispatchAt`, `Remove`, `RemoveAllPackets`, `SetPacketAutoDeletion` | the calls of the application; the first four also of the error handler, when `pc = "lost"` |
| `BeginUpdate`, `SkipFree`, `SkipEarly`, `TransmitOK`, `TransmitFails`, `VisitDelivered`, `HandlerReturns`, `EndUpdate` | the paths of one turn of the loop of `update()` |
| `Tick` | time passes, at most up to `Horizon`, past which every packet is due |

`hist` is a history: the transmissions of the packet in a slot since it was queued, what
the slot had counted before it, and whether it was acknowledged. `AttemptMod` stands for
the 8 bits of `attempts`. `send_packet()` is seen through its result; the content is a
model value with a recipient and a wish to be acknowledged.

### PJONDelivery and PJONLink

PJONDelivery is what acknowledged transmission promises: a message is taken, arrives at
most once, is confirmed only after it arrived if it asked for that, or given up. PJONLink
is the code: senders with a send list or in `send_packet_blocking()`, packet ids drawn
from a seed, one recipient that runs `receive()`, a medium.

| Model | Code |
|---|---|
| `seed`, `NewPacketId`, `DrawId` | `_packet_id_seed`, `new_packet_id()` |
| `list`, `call`, `flight` | composed packets in `packets[]`; `send_packet_blocking()`; the frame between `send_frame()` and the result of `receive_response()` |
| `recent`, `Known`, `Save` | `recent_packet_ids`, `known_packet_id()`, `save_packet_id()` |
| `Transmit`, `FindBusy`, `Succeed`, `TimeOut` | the outcomes of `send_packet()` |
| `Accept`, `Receive` | `receive()`: acknowledge, duplicate check, port check, receiver function |
| `strays`, `ReceiveStray`, `Lose`, `LoseStray` | external: the medium |

The refinement `Delivery` maps the status of a message and the number of its copies in
the log of the receiver function.

### PJONFrame

A frame is a sequence of cells, one for each byte, that `Composed` writes field by field as
`compose_packet()` does and `Parsed` reads by position as `parse_header()` does. A CRC is a
cell that names what it covers. `HeaderRefused`, `LengthRefused`, `BusRefused`, `CrcWrong`
and `MacRefused` are the returns of `receive()` before a packet is taken, in that order.
Devices differ in id, bus, MAC address, port, header, compiled features and router mode.
Some are of the class PJONLocal, whose own `compose_packet()` and `receive()`
(`LocalHeaderRefused`, `LocalLengthRefused`, `LocalTaken`) read and write the same frames
with fewer features; the two kinds of device hear each other. `Copied` is what
`parse_header()` does with MAC addresses: with the feature compiled it copies twelve bytes,
whatever they are, so that `ReadAsWritten` asks for them only of packets whose header
announces them (`Learns`). `Meaning` and `IsFor` are reference definitions, written from the
sender's and the protocol's side, that the properties compare with.

### PJONRouting

| Model | Code |
|---|---|
| `tx[b]` | `tx.bus_id` of the instance attached to bus `b` |
| `current`, `packet`, `search`, `acks` | `current_bus`, the packet in `dynamic_receiver_function()`, `start_search`, `ack_sent` and the answers given |
| `table`, `Find`, `Learned` | the table of `PJONRouter`, its search, `add()` of `PJONDynamicRouter` |
| `Receive`, `Turn`, `Update` | reception and learning; one turn of the loop (find, NAT, answer, `forward()`); a queued copy leaves |

`Shared`, `BusIds` and `OwnBusId` say how the attached instances are configured. One of
them may be a local bus with a NAT id. `sent` is a history of the buses this packet was
copied to.

### PJONVirtualBus

| Model | Code |
|---|---|
| `device_via_attached_bus`, `Registered`, `Located` | the table of `PJONVirtualBusRouter`; registration of a sender, search for a receiver |
| `CopiesAsk`, `Recipients`, `Forwarded` | `send_packet()`: copies for a device that is not known ask for no acknowledgement; which parts get one; `forward()` into the lists |
| `ForRouter` | `PJONInteractiveRouter`: what is for the router itself is not routed |
| `Transmit` | a device sends; its receiver, if it is on the same part, gets it directly; the router hears it or misses it |
| `Update`, `Lost` | `update()` of an attached bus; `handle_send_error()` |
| `Move` | external: a device is carried to another part |

`strayed` is a history of who has moved and not been heard since, which is what the router
cannot know; `last` records who answered the last transmission.

### PJONThroughSerial

| Model | Code |
|---|---|
| `place`, `second`, `fail` | where `send_frame()` is: the byte it writes next, whether that follows `TS_ESC`, `_fail` |
| `Written`, `Escaped`, `Response` | the bytes `send_frame()` writes; `prepare_response()` |
| `BeginFrame`, `WriteByte`, `WriteFails` | `can_start()`, then `send_byte()` for each byte, which the port takes or not in time |
| `awaited`, `ReadResponse`, `ResponseTimeOut`, `Discard` | `receive_response()`, and what the sender's own `receive_frame()` throws away |
| `state`, `buffer`, `WaitStart`, `TakeByte`, `TakeEscaped`, `ByteTimeOut`, `FrameDone` | the state machine of `receive_frame()`, one byte per step, and the response |
| `Lose` | external: the line |

The receiver reads while the frame is being written. A time-out may come at any time; one
that comes although a byte is on its way, or still to be written, counts as a loss.

### PJONLocalFile

A process is `closed`, between the check and the creation (`absent`), between creation
and initialisation (`created`), `open`, or in one of the three writes of a record
(`record`, `last`, `index`), which are separate steps under the lock. A reader writes
nothing, so its section is one step. `Crash` is a process that dies or exits at any point;
the system then releases its lock. `Reusable` and `NextUnread` are
`findReusablePosition()` and `findNextUnreadPosition()`, with the numbers modulo `IdMod`.

### PJONUdp

| Model | Code |
|---|---|
| `kind` | which of LocalUDP, GlobalUDP, DualUDP, ESPNOW all devices run |
| `tbl[d]`, `AddNode`, `RemoveNode`, `Register`, `RegisterAnswer` | the arrays of remote nodes; `add_node()`, `remove_node()`, `autoregister_sender()` |
| `SendLocal`, `SendGlobal`, `SendDual`, `SendEspNow` | `send_frame()` of each strategy |
| `ReadResponse`, `ReadOther` | `receive_response()`: a datagram that is taken for the acknowledgement, and any other, which is dropped |
| `ReceiveFrame`, `ReceiveLateAnswer` | `receive_frame()` and `PJON::receive()`; an answer that comes after its time-out is read as the start of a packet |
| `TimeOut`, `TimeOutEarly` | no answer; an answer that is still on its way |
| `Lose`, `Move` | external: the network, a device that takes another address |

### PJONEthernetTCP

`EthernetLink` of two peers. A step is one socket operation and what is computed until the
next, so that everything the other peer may do in between is explored.

| Model | Code |
|---|---|
| `out`, `in` | `_client_out`, `_client_in` |
| `conn`, `backlog` | external: connections (what each end has not read yet, which ends are closed) and those a server has not accepted |
| `StartConnect`, `Connected`, `ConnectedRev`, `ConnectFails`, `DiscardWhileConnecting` | `connect()` and `disconnect_out()` |
| `StartAccept`, `AcceptRev` | `accept()`, with the headers that say what a connection is for |
| `SendBusy`, `SendChecked`, `SendWrites`, `SendEnds`, `ReceiveBegins`, `ReceiveEnds` | `send()` and `receive()` |
| `pc` from `m_...` and `s_...` | `single_socket_transfer()` of the master and of the other side, which announce what they have to send before they send it |

What is written at once is one item of the stream. A reset discards what was not read. A
write that fails shows as the read that fails after it, since both end the transfer.

### PJONMqtt

| Model | Code |
|---|---|
| `packet_buffer`, `incoming_packet_size`, `last_send_success`; `names_sender` | the members of the same names; `PJON_TX_INFO_BIT` in `header` |
| `HandOver`, `Receiver`, `PacketSize`, `Stored` | external: the library calls back; `receiver()`, the length of the packet it makes, and whether `compose_packet()` writes it or returns a length that is too long |
| `BeginReceive`, `EndReceive`, `TakePacket` | `receive_frame()` around `update()` of the library |
| `BeginSend`, `SendFrame`, `Published` | `can_start()`, `send_frame()` up to `publish()`, and after it |

`Clients` says from which of its calls a library may call back, and how many messages it may
hand over in one. A packet is the number of the message it was made of, with the sender it
names. `latest` is a history of the message that set `incoming_packet_size`, which is not
always the one in the buffer.

## 3. The runs

Twelve runs. Eleven must pass, and one must find a violation (`Link_blocking`):

| Run | Shows | Bounds |
|---|---|---|
| `SendList_default` | With automatic deletion, a packet sent once leaves and a repeated one starts its next round (`EveryPacketLeaves`). | 2 slots, 2 retries, two contents, a handler that sends and removes |
| `SendList_manual` | Types; with automatic deletion switched while packets are pending and every call of the application and of the handler: a loss is reported only of a packet that was never acknowledged and after its attempts (`LostAfterAllAttempts`), a delivered packet stays quiet, a repeated one keeps its slot. | 2 slots, 2 retries, `attempts` modulo 4 |
| `Link_default` | Types; two copies are at least a window apart (`DuplicatesFarApart`); the link implements PJONDelivery (`Delivery`): at most once, confirmed only after it arrived; `EveryMessageIsDecided`. | two senders with one device id on two buses, three messages, 1 retry, ids modulo 8, window of 4, a medium that loses, delays and repeats, a log of 5 |
| `Link_blocking` | Violates `AtMostOnce`: with acknowledged blocking calls a message is handed over twice (section 6). | three messages, two of them sent with `send_packet_blocking()`, 1 retry, a medium that loses frames and answers |
| `Routing_default` | `ReplyComesBack`; `TableIsAMap`; `NoTwoCopies` with one acknowledgement. | packets with hops left, 4 buses, two with one bus id, one with NAT, a default gateway, a table of 2 for 3 remote senders, lists of 2 |
| `VirtualBus_default` | `KnownWhereItIs`; `AnsweredOnce`; `StaysRegistered`; `MovedIsReached`. | 2 devices, 3 parts, lists of 1, 1 retry, 2 moves, 1 loss |
| `Serial_default` | `AckedIsAccepted`; `Transparent`, within the buffer; `EveryFrameAcked` | 2 frames, 3 losses, responses of 2 bytes |
| `Frame_default` | `ReadAsWritten`; `HandedToItsRecipients`; `OneAnswer`. | seven devices, two of them PJONLocal, every header, lengths at each limit, a byte of 32 values |
| `LocalFile_default` | `InOrder`; `LastFramesKept`; `NothingPassedOver`; `EveryoneCatchesUp`. | 2 processes, a queue of 3, 6 frames, 1 death, numbers modulo 12 that wrap in the run |
| `Udp_default` | `AckedIsReceived`; `TableSound`; `MovedIsFoundAgain`. | 3 devices, tables of 2, one node by hand, four strategies, one fault: a datagram lost, an answer late, or a move |
| `Tcp_default` | `AckedIsReceived`; `NoStaleCopy`; `SocketsPaired`; `OneWayGetsThrough`. | two packets one way and none or one the other, 3 connections, four modes, one fault: a reset, an early time-out or an idle time-out |
| `Mqtt_default` | `ReadAsHanded`; `EveryMessageIsRead`. | three packets out, three messages in, of lengths within, at and beyond the limit, four modes, three kinds of library |

Why the bounds are enough to be interesting:

- *SendList.* Two slots are what it takes for the handler to touch the slot `update()` is
  at and another one, behind or ahead. Two retries give every kind of attempt (first, in
  between, last); the back-off has the two values that matter, due at once and due later.
  A small `AttemptMod` lets the counter wrap with automatic deletion off. The liveness run
  leaves out the packet index, by which an application could replace a packet for ever.
  The theorems hold for every number of slots.
- *Link.* Two senders that differ only in their bus exercise the comparison of senders; a
  sender with two messages exercises two packets with neighbouring ids. The window is as
  long as what can be handed over between two copies of a frame: within it delivery is at
  most once even on a medium that delays and repeats, and what happens past it is the
  theorem `DuplicatesFarApartHolds`, for every window.
- *Routing.* Two buses with one id make the search find two matches; NAT and a gateway on
  other buses make every branch of the translation run; a table one short of the remote
  senders shows what a full table does. A chain of routers is not composed: the hop count
  is the only thing a packet carries from one to the next.
- *VirtualBus.* Three parts are those of the sender, of the receiver and one the receiver
  may move to; two moves let it come back, or move again before it is found. A list of one
  slot is full as soon as one copy waits. One device never stops sending, the other may
  never send, so that it is found by lost copies only.
- *Serial.* The frames hold each symbol and what it is escaped to; three losses remove an
  END, the START after it, and a byte of the response. The line holds two frames,
  so that a repeated frame follows what is left of the first.
- *Frame.* The byte is scaled to 32 so that the second length byte, the change from CRC8
  to CRC32 at 15 bytes and the longest packet all fall within frames of 60 cells. Device
  ids keep their values.
- *LocalFile.* `QueueAssumption` states what the bounds must respect: a reader that starts
  looks `QueueSize` numbers back, so the numbers lost with senders that die, and 0, must
  be fewer (`MaxCrashes + 1 < QueueSize`); what is ahead of a reader must be less than
  `Ahead` (`0x8FFF` of 2^16 in the code). With six frames the queue goes round twice.
- *Udp.* A table of two for two other devices and one registered by hand is full while one
  of them is removed and comes back; a device sends forever, so that the failures of DualUDP
  remove a node within a few rounds. One fault is enough for each of the hazards, and
  devices send to each other, so that frames are thrown away while answers are awaited.
- *Tcp.* Three connections are the two of a pair and one of a later attempt that waits in
  the queue of the server; the fault may fall at any step of either peer.
- *Mqtt.* Three messages are what it takes for one to wait, one to come over it, and one to
  follow; the libraries call back only when they are asked to receive, from every call, and
  several times in one. The texts and topics too long to be sent are among them, and messages
  whose packets have the length `PJON_PACKET_MAX_LENGTH` and more. A RAW message of
  the limit is read, a packet of that length is not composed, a longer one does not fit the
  buffer of PJON.

`CHECK_DEADLOCK FALSE` stands where the system may really stop: all messages decided
(Link), all frames acknowledged (Serial), all frames sent and the file wiped after the
last one (LocalFile), nobody with anything to send or move left (Udp, VirtualBus). The other
runs check that the system never stops.

What the properties leave out, deliberately: `NoTwoCopies` exempts the default gateway
(section 6); `ReplyComesBack` is about routers that learn and exempts senders for whom the
full table had no room; `Delivery` is about packets for the recipient's port;
`ReadAsWritten` and `HandedToItsRecipients` are about packets the format can carry
(`Carried`); `OneAnswer` exempts the empty MAC address, which is everybody's; the LocalFile
properties that need the history of the file exempt the states after the creation race wiped
it (`spoiled`). `AnsweredOnce` and `KnownWhereItIs` are about devices the router has heard
where they are; `MovedIsReached` exempts lists that are never empty, and a device that
silently left the part its sender is on. `AckedIsReceived` of PJONUdp is about answers in
time, and, where answers name nobody, addresses that stay; `MovedIsFoundAgain` is about the
two strategies that broadcast. `AckedIsReceived` of PJONEthernetTCP asks of a single socket
only that the link has read the packet; `OneWayGetsThrough` is about one direction: with
packets both ways two peers may meet in the same call again and again, and only their timing
ends that. `EveryMessageIsRead` exempts messages that others came over and those too long to
be read, `ReadAsHanded` a reading for a message `compose_packet()` found too long.
`MovedIsFoundAgain` exempts receivers a DualUDP device has added by hand, which the README
of DualUDP says are never looked for elsewhere. `LostAfterAllAttempts` counts the attempts a
slot had made before another packet was put into it. Section 6 says which of these
exceptions are flaws of the code.

## 4. Fairness

- `PJONSendList!FairSpec`: weak fairness of `Update` (the application calls `update()`
  in its loop, as the documentation asks) and of `Tick` (time passes). Nothing is assumed of
  the medium or of the application's calls.
- `PJONLink!FairSpec`: weak fairness of each sender's `Transmits` (its loop) and of
  `Medium` for its frame (it is lost or it arrives). Nothing says that a frame ever
  arrives: every message is decided because the attempts end. What is delayed stays
  bounded, so that a sender is not kept waiting by late frames for ever.
- `PJONThroughSerial!SerialFairSpec`: weak fairness of the loops of both devices. The losses
  are bounded (`MaxLoss`), which says that the line is good in the end.
- `PJONLocalFile!FairSpec`: weak fairness of what a process has begun and of its polling.
  The lock is held for three steps that are always possible, and a process that dies gives
  it back. `EveryoneCatchesUp` counts on polling going on; sends are bounded.
- `PJONVirtualBus!FairSpec`: weak fairness of each list's `Update` (the router calls its
  loop), and strong fairness of the transmissions of the `Talkers` at times when the lists
  are empty: an application that goes on sending does so also when nothing else is being
  forwarded. `MovedIsReached` says itself that there are such times.
- `PJONUdp!FairSpec`: weak fairness of sending, of time-outs and of reading, for each device:
  its loop, and the clock. The faults are bounded.
- `PJONEthernetTCP!FairSpec`: weak fairness of a call once begun (`Continue`), and strong
  fairness of beginning a `send` and a `receive`: the loop calls both in turn, and is not
  kept from one by the other.
- `PJONMqtt!FairSpec`: weak fairness of the calls of the library returning, and of
  `receive()` being called. Nothing says that the library hands anything over.

PJONRouting and PJONFrame have no liveness property: a turn of the loop of the switch
always ends, and what happens to the copies is the subject of PJONSendList.

## 5. The proofs

Twenty-seven theorems, each for every value of the constants that the assumptions of its
module allow. The assumptions (`SizesAssumption`, `NumbersAssumption`, `RoutingAssumption`,
...) say that sizes are numbers and that constants are consistent; TLC evaluates them in
every run. Every safety property that a passing run checks is the subject of a theorem,
under the hypotheses named here, but for `StaysRegistered`, which the guard of `Lost` makes
plain; liveness is left to the runs.

**PJONPackets_proofs**, on PJONFrame

The constants are the devices with their configurations, the packets they are asked to send,
the size of a byte and the longest packet. `FrameAssumption` says what compiling settles: a
device serves a port, and sends a field, only with the feature compiled; a PJONLocal has no
bus of its own.

- `ReadAsWrittenHolds`: `FrameInv` says that nothing is on the medium (`Silent`), or that
  the frame is what its sender composed and each device that heard it was handed what it
  parses of it (`Sending`). So everything is about one frame: `FrameParts` says at which
  offset of `Composed(r)` each field is, for every header and both lengths of the length
  field; the offsets come out of `AtConcat` (what is found at an offset is found part by
  part) and the types of the parts, which give their lengths. MAC addresses are compared
  only where the header announces them, since `parse_header()` copies twelve bytes in any
  case. `AddressesAreRead` and `OptionsAreRead` show that `parse_header()`, which goes from
  field to field by the bits of the header, arrives at the same offsets. A device looks for
  no field of a feature it has not compiled, so that `ParsedAsWritten` needs that
  `receive()` refuses frames with such features.
- `HandedToItsRecipientsHolds`: `TakesIsFor` shows, for packets the format carries
  (`Carried`), that the returns of `receive()`, by header, length, bus, CRC and MAC address,
  leave exactly the devices `IsFor` names, of either class.
- `OneAnswerHolds`: *if no two devices that acknowledge have one address*
  (`EachAddressOnce`: neither one id on one bus nor one MAC address). A device that answers
  has the id, bus or MAC address that the frame names (`AnswersAddress`).

**PJONPackets_proofs**, on PJONSendList

- `TypeCorrect`: from `TypeInv == TypeOK /\ CountBound`. `TypeOK` alone is not inductive:
  that `count` stays within the slots needs that it is at most the number of slots the
  loop has passed, which `CountBound` adds.
- `LostAfterAllAttemptsHolds`: with automatic deletion or without, whatever the application
  and the handler do, the handler is told of a loss only for a packet that was never
  acknowledged, and not before `MaxAttempts` transmissions, less those inherited from a
  packet the slot held before. `AttemptsInv` ties the counter of the slot to the history:
  until a packet is acknowledged it equals tries plus what was inherited, or is behind by
  the 8 bits it wraps in, and in a free slot it is 0. (It is reported one attempt later than
  that, section 6.)
- `RepeatedIsKeptHolds`: `update()` never frees the slot of a repeated packet.
- `DeliveredStaysQuietHolds`: a packet that was acknowledged and is still in the list, as
  with automatic deletion off, is in state `PJON_ACK`, in which `update()` transmits nothing.

**PJONLink_proofs**

- `LinkTypeCorrect`: `LinkTypeInv == TypeOK /\ CallRuns`; what is in flight for a blocking
  call is there only while the call runs.
- `DuplicatesFarApartHolds`: for every window and every medium, also one that delays and
  repeats frames. `RingInv` adds `RecentIsLog`: the ring holds the ids and senders of the
  last packets of the log, in order. Saving a packet shifts both; a packet that is not
  known differs from all of them, so an equal one lies a window back.

- `SendCopiesFarApartHolds`: with packet ids, in a session of any length, the copies of a
  message sent with `send()` lie more than a window apart. A message is composed once, so
  that its copies are one packet with one id (`PacketsInv`), and `DuplicatesFarApart`
  applies.
- `DeliveryHolds`: the link implements PJONDelivery, step by step, in a session that satisfies
  `SessionFits`: ids are included, messages are sent with `send()`, no two senders look the
  same to the recipient, no more packets are composed than the ring holds, no seed wraps, and
  the ring starts with none of the ids to be drawn. The instance of `Link_default` satisfies
  it. `IdsInv` says that each sender's packets have ids between its first seed and its
  present one, no two the same; each id is named by a composition, and a finite set of
  compositions names at most as many (`NamedAtMost`). So two copies in the log would be more
  than a window apart in a log that is no longer than the window (`TakenIsNew`), and a known
  packet is in the log (`KnownIsLogged`): what is refused as a duplicate arrived, and what is
  confirmed was either taken now or before.

**PJONRouting_proofs**

The theorems assume `HopsLeft`: no packet arrives at the hop limit, where `forward()` breaks
the identity of an instance (section 6). `IdentityInv` says that it is kept otherwise.

- `TableIsAMapHolds`: assuming also that the static routes name each bus once and no attached
  one, learning keeps it so. It rests on `IdentityInv`, since `Unknown` compares with the
  identities the instances have at that moment.
- `NoTwoCopiesHolds`: under the same assumptions (hops left, and static routes that are a
  map and lead to no attached bus), for any buses and packets, a packet is copied to a bus
  once at most, never back to where it came from, and answered once at most. `CopiesInv`
  says that every bus copied to lies behind the place the search goes on from; the argument
  is that the search only moves forward (`FindGoesOn`, with the least position,
  `LeastIsIn`), that an attached bus is passed once, and that a route of the table leads to
  a copy only for an id that no attached bus has.
- `ReplyComesBackHolds`: assuming `HopsLeft`, static routes that are a map, and `OneWayEach`
  (no bus is behind two of the attached ones, so that packets from it arrive on one bus). A
  queued copy is compared with a table that has changed since it was made; `WayBack` says of
  a bus id what is left by every later step: it is attached, routed, or unknown to a full
  table. `RoutesInv` says that each route is one given or one learned, and that the search
  reaches what has a route is shown from the least position again.

**PJONVirtualBus_proofs**

- `KnownWhereItIsHolds`, for any parts, devices, lists and losses: a device heard since its
  last move is registered where it is or nowhere. With the types of the places (`PlacesInv`)
  it is inductive: what is queued for a part the device has left can unregister it, never
  register it elsewhere.
- `AnsweredOnceHolds`: the router answers only with a copy to the part the receiver is
  registered on, which, by `KnownInv`, is where it is, so that it has not answered itself.

**PJONUdp_proofs**

- `TableSoundHolds`: for the four strategies, each table has one entry for a device, no more
  than there is room for, and counts of failures that do not pass `MaxTries * Failures + 1`
  (which `UdpAssumption` has below 255, as the code's defaults are). `Sound` adds what
  removing needs: a table with nodes has none that `remove_node()` would leave, since the
  first `add_node()` sets `_unremovable_node_count` to 0 (section 6).
- `AckedIsReceivedHolds`: for the four strategies and any devices, lists and losses, a packet
  that was told `PJON_ACK` was received, unless an answer came late or reached another
  device. An answer is one byte and names no packet. `LiveInv` says that of all the datagrams
  under way at most one is `Live` for a device, a frame of its own that goes where its
  recipient is or an answer to it, and that it belongs to the transmission the device waits
  for. Frames that go nowhere and answers to a device that has moved may be many.

**PJONLocalFile_proofs**

For any number of processes and any size of the queue, in a run of fewer frames than count
as ahead of a reader (`QueueAssumption`: a reader further behind sees nothing, section 6),
and under `Fits`: there are more record numbers than count as ahead, with the queue and the
crashes added. The constants of the code (`0x8FFF`, 20, 65536) and those of the run satisfy
it. Numbers wrap wherever the file was left, which is what makes order hard to state;
`QueueInv(b)` states it seen from a number `b` behind every record of the file, which does
not change until the file is made anew: `U(b, i)`, how far `i` is ahead of `b`, then orders
numbers as they were drawn. It has five parts: numbers are at most `lastRecordId`
(`NumbersInv`); the process that has the lock is writing the latest frame with the next
number over an oldest record (`JobInv`); a number is missing between two records only for a
sender that died (`GapsInv`); frames and numbers are in one order, and a record without its
frame is an oldest one (`FramesInv`); a reader has read all that is in the file up to its
number and nothing after (`ReadersInv`). From `GapsInv`, a pigeonhole argument bounds how
far the oldest record is behind (`AgeBound`), so that `findNextUnreadPosition()` never takes
a record behind for one ahead (`NextIsAhead`).

- `InOrderHolds`: each reader returns frames in the order in which they were stored, each
  once.
- `NothingPassedOverHolds`: a reader's step passes over no frame that is still in the file.
- `LastFramesKeptHolds`: the file keeps the last `QueueSize` frames, one less while a record
  is written and after a sender died there.

All three are about the frames stored and read until the file is wiped by a second process
that creates it, or used before it is initialised (`spoiled`, section 6): the histories
stop there.

**PJONEthernetTCP_proofs**

- `SocketsPairedHolds`: for any number of connections, packets and faults, the two sockets of
  the listening device are the first and the second of one `connect()`. A connection does
  not say which other it belongs to; its header says only whether it is a first (`A_ACK`) or
  a second (`B`). What pairs them is their order, which `FollowsInv` states: a second one
  follows its first in the queue of the server, or is at its head while its first is the
  socket just accepted, because A opens nothing between the two. `HeldInv` says that what is
  queued or held is open and held once, so that no connection is opened anew meanwhile, and
  `TodoInv` that a packet being sent is there. The operations on sockets are shown once each
  to keep the connections of B (`StopsKeeps`, `WritesKeeps`, `ReadsKeeps`, `OpenedKeeps`),
  and the steps are of three kinds: those that leave the queue (`QuietKeeps`), append to it
  (`AppendKeeps`) and take from it (`PopKeeps`).
- `AckedIsReceivedHolds`: in all four modes, for any number of connections, packets and
  faults. A device takes the next acknowledgement on its socket for that of its packet, so
  the invariant has to say which items can be on which connection. `AnswersInv` is the
  conjunction of the types and five parts. `PlacesInv`: each device is at a place of the
  code of its mode, with the sockets that place needs. `SocketsInv`: a connection is open on
  a side exactly when the device there holds it or has it in its queue, each once, and
  nothing was written to one not accepted yet. `ApartInv`: the two devices never use one
  connection for the same purpose. `FlightInv`, for each direction of the traffic: every
  packet in a stream is the one its sender is sending (`F1`), on the socket the receiver
  reads or one it has not accepted (`F2`), never on one queued behind the socket the sender
  uses now (`F3`, `F4`) or on the second of a pair that is still queued (`F8`); on the
  sender's own socket there is at most one, and only while the sender waits and no answer is
  under way (`F5`); an answer in a stream, or one read whose transfer goes on, means that
  the packet arrived and no copy is left (`F6`, `F7`). Without these last two the property
  is not inductive: an answer left over from a failed attempt would acknowledge the next
  packet. The proof describes a step by its `Effect` on the streams (what it reads, writes
  and closes, where a reset may lose what is in flight), shows what each kind of step keeps
  (`QuietStep`: writes neither packet nor answer; `AnswerStep`; `SendStep`; `OpensGo`: makes
  a connection), and then that each action is of one of these kinds.
- `NoStaleCopyHolds`: from `F1`, a copy in a stream is of the packet now being sent, and from
  `FreshInv`, that packet was never told. It assumes that the packets given to a device
  are told apart (`EachPacketOnce`), as in the run: the same name twice would be two packets
  the property cannot distinguish.

**PJONStrategies_proofs**, on PJONMqtt

- `ReadAsHandedHolds`: for any messages, sizes and limits, and any library. `HandedInv` says
  that the message whose size waits was handed over after all that was read for, that the
  buffer holds its packet if `compose_packet()` made one, or a text that stands for it, and
  that `header` has the bit once a message named its sender.

**PJONStrategies_proofs**, on PJONThroughSerial

For any frames, any `PJON_PACKET_MAX_LENGTH` and any number of losses.

- `TransparentHolds`: as long as nothing is lost, what reaches the end of `receive_frame()`
  was sent; and on any line it fits the buffer. That the receiver is where the sender is
  cannot be said of the bytes alone, since a byte after `TS_ESC` may look like any other.
  `InStep` says that there is a place in what the sender writes (a frame, a byte of it, and
  whether its `TS_ESC` is behind) for each byte on the line and for the one written next
  (`OnTheLine`): each byte is the one written at its place, and each place follows the one
  before. The receiver is at the place of the first byte of the line and its buffer holds
  what the frame has before that place, or it waits for a START and may be anywhere
  (`Reading`). Then a byte written adds a place (`WritesInStep`), a byte read removes one
  (`TakesInStep`), by the cases of the state machine (`ReadsPlace`), and before START it is
  open which frame comes (`BeginsInStep`). `WrittenType` is what makes it work: START, END
  and ESC are written at their own places only.
- `AckedIsAcceptedHolds`: a frame the sender sees acknowledged was taken by the receiver,
  whatever is lost, however early or late the time-outs. It assumes `EachResponseOwnByte`:
  the response to a frame has a byte that no other frame's has. The comment before
  `prepare_response()` relies on the response as an identifier of its frame
  (`ThroughSerial.h:274-278`); on a line that loses bytes the identifier must survive that
  what is left of several responses is read as one. With `TS_RESPONSE_LENGTH` 1, the
  default, it says that no two frames end in the same byte, without which the property is
  false. The invariant: what is on its way back are bytes of responses to accepted frames
  (`BackIsSaid`), and what `receive_response()` has read of the response it expects are such
  bytes too (`RestIsAwaited`), so that at the last one the frame is accepted
  (`AcceptedOnce`).

Only model-checked:

- the liveness properties (TLAPS has no `ENABLED` here): `EveryPacketLeaves`,
  `EveryMessageIsDecided`, `EveryFrameAcked`, `EveryoneCatchesUp`, `OneWayGetsThrough`,
  `MovedIsFoundAgain`, `MovedIsReached` and `EveryMessageIsRead`, with the fairness of
  section 4;
- `StaysRegistered`.

The property of `Link_blocking`, `AtMostOnce`, is false of the code; what is true of it beyond
the promise of PJONDelivery is `DuplicatesFarApart`.

## 6. Where code and documentation disagree

Shown by a run, with the line and the sentence in `PROJECT.json` under `findings`:

- **`Link_blocking`**: `send_packet_blocking()` composes each attempt anew with a new packet
  id (`PJON.h:615`), so a lost acknowledgement delivers a message twice.

The modules have the following as the code does it. None is a property of a run: what the
sentence quoted promises is false of the code, and the properties of section 3 either say less
or except the case. On the send list and the link:

- A packet is transmitted once more than the number of attempts that
  `documentation/data-transmission.md:151-153` states (`PJON.h:836`).
- `remove()` from the error handler does not stop a repeated packet whose connection was
  lost: `update()` resets the slot after the handler, and transmits empty frames from then
  on (`PJON.h:838`).
- When the handler removes the lost packet and sends another one that takes its slot,
  `update()` drops the new one untried (`PJON.h:838`).
- With automatic deletion off, delivered packets are counted by `update()`, whose comment
  speaks of packets to be sent (`PJON.h:804-806`, `811`).
- A packet put over another one with an index inherits its attempts, and waits for the
  back-off of the packet it replaced (`PJON.h:186`, `195-204`).
- The packet id 1 is drawn twice running when the seed wraps: its seeds are 65535 and 0
  (`PJONDefines.h:280-284`, `PJON.h:162`), and the second packet is acknowledged and
  dropped.
- `recent_packet_ids` is not initialised (`PJON.h:87`): an instance that is not of static
  storage may take a first packet for a duplicate.

On switches and routers:

- `forward()` returns at the hop limit before it gives the instance its identity back
  (`PJON.h:506`).
- The switch acknowledges, "to notify that the packet will be delivered", before it queues
  the copy, which a full list refuses (`PJONSimpleSwitch.h:111-117`).
- The default gateway gets a copy after each match as well, since the search that ends the
  loop finds nothing; the header comment of `PJONSimpleSwitch.h:22-23` says it gets
  packets for other buses than the attached ones (`PJONSimpleSwitch.h:227`).
- The time-out of a virtual bus, which the comment of `PJONVirtualBusRouter.h:60-63`
  offers for devices that move, is never compiled in: lines 74, 89 and 112 test a macro of
  another name than lines 64-65 define. A device that silently leaves the part its sender
  is on is then never looked for elsewhere: nothing is copied to that part, so nothing is
  lost there (`LeftBehind`).

On frames:

- A payload of at most 255 bytes whose packet is longer than 255 gets a header that says
  two length bytes, and one is written (`PJONDefines.h:323-331`).
- A packet with extended length and at most 15 bytes is composed with CRC8
  (`PJONDefines.h:324`), which `receive()` refuses (`PJON.h:301`).

On strategies:

- The comment before `prepare_response()` of ThroughSerial counts on a response of the
  last 5 bytes of the frame (`ThroughSerial.h:274-278`); the default is 1 byte
  (`Timing.h:74`). With frames that end in the same byte the sender cannot tell their
  responses apart. The run that passes has frames with different ends, and
  `AckedIsAcceptedHolds` assumes `EachResponseOwnByte`.
- `_unremovable_node_count` of DualUDP becomes 0 at the first `add_node()`
  (`DualUDP.h:172-173`), so that nodes registered by hand are removed like others; its
  README (line 72) and the comment of `DualUDP.h:190` say they are not.
- DualUDP takes an answer to an earlier packet for that of the last one
  (`DualUDP.h:299-306`). A remark there accepts that, since the answer still confirms the
  way; PJON reports a packet delivered that may not be.
- In ESPNOW the address of a known node is written only where it is equal (`ESPNOW.h:95`),
  and `find_remote_node()` compares the address with that of the first node only
  (`ESPNOW.h:68`): a device that was replaced is not found again.
- On a single socket a packet may be acknowledged and never reach PJON. The link reads
  packets in the transfer that `send_frame()` runs, when `receiver()` has no buffer
  (`EthernetTCP.h:54-59`); it takes no fault, only two peers that send at once.
  `receive_frame()` also forgets what was copied when the transfer fails after it
  (`:120-145`). The comment of `EthernetLink.h:1088-1091` speaks of guaranteed delivery.
- `send_frame()` of MQTTTranslate returns on a text or a topic that is too long
  (`MQTTTranslate.h:407`, `416`, `450`, `470`) and leaves `last_send_success` as an
  earlier packet set it, so that the packet is taken for acknowledged.
- For MQTTTranslate, `compose_packet()` returns the length of a packet that is too long
  and composes nothing (`PJONDefines.h:332`), and `receiver()` keeps that length. With
  exactly `PJON_PACKET_MAX_LENGTH` bytes `receive_frame()` takes it, and returns the
  packet that was handled before a second time.
- After a message whose packet is longer still, `receive_frame()` of MQTTTranslate neither
  takes the packet (`MQTTTranslate.h:376`) nor calls `update()` of the library again
  (`:375`): nothing is received any more, unless another call of the library brings a
  shorter message.

Smaller ones, modelled as the code does it:

- A router that answers packets for itself (`PJONInteractiveRouter`) learns nothing from
  them, and knows its id only on the part that carries it.
- `parse_header()` copies twelve bytes for MAC addresses whenever the feature is compiled
  (`PJONDefines.h:429-433`): without the bit in the header they mean nothing.
- A payload of 0 bytes is composed and refused. `Carried` names it, beside the two above.
- The diagram at line 287 of the specification places the hop count elsewhere than
  `PJONDefines.h:351-354`. Composer and parser agree with each other.
- A packet with MAC addresses and without bus ids is refused by shared devices
  (specification, line 336).
- PJONLocal takes packets with a port whether or not it has compiled ports, and an empty
  payload, and answers them, which PJON does not; for a packet longer than 15 bytes with
  CRC8 its `receive()` returns `PJON_BUSY` where it returns lengths, 0 for a refusal
  (`PJONLocal.h:207`, `214`). It transmits a packet too long for its buffer although nothing
  was composed, and does not compile with packet ids; neither is modelled.
- ThroughSerial: the receiver drops a frame of `PJON_PACKET_MAX_LENGTH - 1` bytes at its END
  (`ThroughSerial.h:214`), which the sender composes. The frames of the run are shorter.
  `receive_frame()` does not compare an escaped byte with the room left, only the next plain
  byte or END: `Transparent` bounds the frames that end.
- LocalFile: with `LF_QUEUESIZE` 1 no second record is written, although its README
  allows any size above 0 (`QueueAssumption` asks for 2); two processes that create the
  file race, and the second wipes it; a process may use the file before the other has
  initialised it; a reader more than `0x8FFF` records behind sees nothing.
- EthernetTCP: the reads without time-out (`EthernetLink.h:853`, `919`) can hang only when the
  peer dies without its connection being closed, which is not modelled.
- LocalUDP, GlobalUDP, ESPNOW: an answer of one byte that comes after its time-out is read by
  `receive()` as the start of a packet, and swallows the datagram after it. All of them throw
  away what arrives while an answer is awaited.
- MQTTTranslate: in TRANSLATE mode one item published is enough for an acknowledgement. In
  JSON mode `PJON_TX_INFO_BIT` is set in the member after the header was copied
  (`:224-225`): the first text with a sender loses it, and later ones without any name
  device 0.

## 7. What is not modelled

- *Setters, getters, constructors*: single assignments; they appear as constants.
- *The sending side of PJONLocal* beyond `compose_packet()`: it has no list; its attempts are
  calls of the application.
- *A switch without queues* (`PJON_MAX_PACKETS` 0), which forwards with blocking calls.
- *A virtual bus inside a larger network*: every packet of PJONVirtualBus is from and for the
  virtual bus, and there is no gateway; the routing to other buses is that of PJONRouting.
- *SoftwareBitBang, OverSampling, AnalogSampling*: their logic is about microseconds and
  thresholds, which TLC cannot explore in a useful way.
- *ThroughLoRa, Any, the platform interfaces*: delegation, and input and output of external
  drivers.
- *CRC*: taken as exact. A CRC is right for the bytes it covers and for no others.
- *Clock wrap*: ages are kept instead of clock values, which the code's unsigned
  differences justify for intervals up to the documented maximum.
- *A device that sends while it receives*: PJONLink has senders and one recipient, so the
  nesting of `receive()` in `send_packet_blocking()` and `_recursion` are left out.
- *RS485 pins, delays, and `TS_WAITING_END`* of ThroughSerial, which `PJON::receive()`
  never asks for.
- *EthernetTCP* with several nodes on one link, without acknowledgements, the search for the
  next header in a stream out of step, and packets too long for the buffer.
- *Datagrams*: a device's own broadcast, which the sockets may hand back to it, and the
  check of the magic header, since nobody else writes to the port.
- *MQTTTranslate*: the texts; an item without `=`, which the comment of the format excludes
  and on which the loop of lines 440-456 would not end.
- *Examples* (`src/examples`), most of the repository's lines, are uses of the library.

## 8. What is left

The components that carry the program's logic are modelled. What could be added, in this
order:

1. A device that sends and receives: `reply()` with the id of its request and the nested
   `receive()` of `send_packet_blocking()`, composed from PJONLink.
2. A network of several routers: hops, loops, and what a packet meets on its way.
3. The framing of AnalogSampling above the level of bits (the byte after an escape is
   compared with the symbols before it is translated back, `AnalogSampling.h:287`).
