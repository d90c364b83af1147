------------------------------- MODULE PJONUdp -------------------------------
(***************************************************************************)
(* The strategies that send a frame as a datagram and wait for a datagram  *)
(* in answer: LocalUDP, GlobalUDP and DualUDP on the POSIX helper, and     *)
(* ESPNOW.  They differ in where a frame is sent and in what is taken for  *)
(* an acknowledgement:                                                     *)
(*   LocalUDP   broadcasts each frame;                                     *)
(*   GlobalUDP  sends to the address in its table of nodes, or nowhere;    *)
(*   DualUDP    sends to the address in its table, broadcasts when there   *)
(*              is none, and removes a node that does not answer;          *)
(*   ESPNOW     sends to the address in its table, or broadcasts.          *)
(* Nodes are registered by hand, or when something they sent is read.      *)
(*                                                                         *)
(* Datagrams are lost, arrive in any order and late; devices change their  *)
(* addresses.  Above the strategy a device runs PJON: it transmits each of *)
(* its packets in turn, and again from the first, until it is acknowledged *)
(* or its attempts are over, and answers what it receives.                 *)
(***************************************************************************)
EXTENDS Integers, Sequences, FiniteSets

CONSTANTS
  Devices,    \* device ids, positive numbers
  Kinds,      \* the strategies explored
  Home,       \* Home[d]: the address of d at the start
  Spare,      \* the other addresses a device may take
  Lan,        \* the addresses a broadcast reaches
  Lists,      \* what devices may have to send: for each the recipients of its packets
  Manual,     \* Manual[d]: the devices d registers with add_node()
  MaxNodes,   \* DUDP_MAX_REMOTE_NODES, GUDP_MAX_REMOTE_NODES, EN_MAX_REMOTE_NODES
  MaxTries,   \* get_max_attempts()
  Failures,   \* DUDP_MAX_FAILURES
  MaxFaults   \* bound on moves, lost datagrams and time-outs that come early

Broadcast   == 0    \* PJON_BROADCAST
NotAssigned == 255  \* PJON_NOT_ASSIGNED
NoAddress   == 0

ASSUME UdpAssumption ==
  /\ Devices \subseteq Nat \ {Broadcast}
  /\ Kinds \subseteq {"LocalUDP", "GlobalUDP", "DualUDP", "ESPNOW"}
  /\ Home \in [Devices -> Nat \ {NoAddress}] /\ \A d, e \in Devices : Home[d] = Home[e] => d = e
  /\ Spare \subseteq Nat \ {NoAddress}
  /\ MaxNodes \in Nat /\ MaxTries \in Nat /\ Failures \in Nat /\ MaxFaults \in Nat
  /\ MaxTries * Failures < 255
  /\ Manual \in [Devices -> Seq(Devices)]
  /\ \A d \in Devices : /\ Len(Manual[d]) <= MaxNodes
                        /\ \A i, j \in DOMAIN Manual[d] : Manual[d][i] = Manual[d][j] => i = j

VARIABLES
  kind,     \* the strategy of all devices
  list,     \* list[d]: the recipients of the packets of d
  next,     \* next[d]: the packet d transmits, a position in its list
  tries,    \* attempts of that packet
  pc,       \* "idle", or "waiting" for the response to a frame
  started,  \* whether d has sent a frame, so that _last_out_sender_id is set
  addr,     \* where each device is
  tbl,      \* the table of nodes of each device
  net,      \* datagrams in flight
  got,      \* history: <<sender, packet, device>> for what was received this time
  told,     \* history: packets whose sender was told PJON_ACK this time
  moves, early, faults \* history: moves, early time-outs, and all faults

sender == <<list, next, tries, pc, started>>
vars   == <<kind, sender, addr, tbl, net, got, told, moves, early, faults>>

Node(id, at) == [id |-> id, at |-> at, attempts |-> 0]

-----------------------------------------------------------------------------
(* The table of nodes: _remote_id, _remote_ip and _send_attempts, and for   *)
(* DualUDP _unremovable_node_count.                                         *)

\* find_remote_node(): the first position for which the test holds, 0 for none.
First(S)    == IF S = {} THEN 0 ELSE CHOOSE i \in S : \A j \in S : i <= j
Find(t, id) == First({i \in DOMAIN t.nodes : t.nodes[i].id = id})

\* ESPNOW compares the address with that of the first node, at each position.
FindEither(t, id, at) ==
  First({i \in DOMAIN t.nodes : t.nodes[i].id = id \/ t.nodes[1].at = at})

\* add_node().
AddNode(t, id, at) ==
  IF Len(t.nodes) = MaxNodes THEN t
  ELSE [nodes |-> Append(t.nodes, Node(id, at)),
        fixed |-> IF t.fixed = NotAssigned THEN Len(t.nodes) ELSE t.fixed]

\* remove_node(), for which the first _unremovable_node_count nodes stay.
RemoveNode(t, pos) ==
  IF pos <= t.fixed THEN t
  ELSE [t EXCEPT !.nodes = [i \in 1..Len(t.nodes) - 1 |-> IF i < pos THEN t.nodes[i] ELSE t.nodes[i + 1]]]

\* Mutant: the sender is added without a look for it.
RegisterAgain(t, id, at) == AddNode(t, id, at)

\* autoregister_sender().  ESPNOW writes the address only where it is the same.
Register(t, id, at) ==
  IF kind = "ESPNOW"
  THEN IF FindEither(t, id, at) = 0 THEN AddNode(t, id, at) ELSE t
  ELSE IF Find(t, id) = 0 THEN AddNode(t, id, at) ELSE [t EXCEPT !.nodes[Find(t, id)].at = at]

\* DualUDP: the sender of an acknowledgement is registered, and its count reset.
RegisterAnswer(t, id, at) ==
  LET r   == Register(t, id, at)
      pos == Find(r, id)
  IN  IF pos = 0 THEN r ELSE [r EXCEPT !.nodes[pos].attempts = 0]

-----------------------------------------------------------------------------
Init ==
  /\ kind \in Kinds
  /\ list \in Lists
  /\ next = [d \in Devices |-> 1] /\ tries = [d \in Devices |-> 0]
  /\ pc = [d \in Devices |-> "idle"] /\ started = [d \in Devices |-> FALSE]
  /\ addr = Home
  /\ tbl = [d \in Devices |->
              [nodes |-> [i \in DOMAIN Manual[d] |-> Node(Manual[d][i], Home[Manual[d][i]])],
               fixed |-> IF Manual[d] = <<>> THEN NotAssigned ELSE 0]]
  /\ net = {} /\ got = {} /\ told = [d \in Devices |-> {}]
  /\ moves = 0 /\ early = 0 /\ faults = 0

Places       == {addr[d] : d \in Devices}
To(d)        == list[d][next[d]]
Sending(d)   == list[d] # <<>>
Datagram(k, from, to, n, try, src, dst) ==
  [kind |-> k, from |-> from, to |-> to, n |-> n, try |-> try, src |-> src, dst |-> dst]

\* Where a broadcast, and a frame for a node of the table, arrives.
Everyone(d)    == IF addr[d] \in Lan THEN (Places \cap Lan) \ {addr[d]} ELSE {}
Directed(t, p) == {t.nodes[p].at} \cap Places

\* The frame that d transmits.
Frames(d, places) == {Datagram("frame", d, To(d), next[d], tries[d], addr[d], a) : a \in places}

\* What PJON does with the result of a transmission: the next packet, or the same again.
Result(d, ok) ==
  /\ pc' = [pc EXCEPT ![d] = "idle"]
  /\ IF ok \/ tries[d] = MaxTries
     THEN next' = [next EXCEPT ![d] = (@ % Len(list[d])) + 1] /\ tries' = [tries EXCEPT ![d] = 0]
     ELSE tries' = [tries EXCEPT ![d] = @ + 1] /\ UNCHANGED next
  /\ told' = [told EXCEPT ![d] = IF ok /\ To(d) # Broadcast THEN @ \cup {next[d]} ELSE @]
  /\ UNCHANGED list

\* A frame is sent; PJON waits for no response to a broadcast.
Sends(d, places) ==
  /\ pc[d] = "idle" /\ Sending(d)
  /\ net' = net \cup Frames(d, places)
  /\ started' = [started EXCEPT ![d] = TRUE]
  /\ IF To(d) = Broadcast THEN Result(d, TRUE)
     ELSE /\ pc' = [pc EXCEPT ![d] = "waiting"] /\ UNCHANGED <<list, next, tries>>
          /\ told' = [told EXCEPT ![d] = @ \ {next[d]}]
  /\ got' = IF tries[d] = 0 THEN {g \in got : g[1] # d \/ g[2] # next[d]} ELSE got
  /\ UNCHANGED <<kind, addr, moves, early, faults>>

\* send_frame() of each strategy.
SendLocal(d) == kind = "LocalUDP" /\ Sends(d, Everyone(d)) /\ UNCHANGED tbl

SendGlobal(d) ==
  /\ kind = "GlobalUDP" /\ UNCHANGED tbl
  /\ LET t == tbl[d] IN
     Sends(d, IF To(d) = Broadcast THEN UNION {Directed(t, i) : i \in DOMAIN t.nodes}
              ELSE IF Find(t, To(d)) = 0 THEN {} ELSE Directed(t, Find(t, To(d))))

SendEspNow(d) ==
  /\ kind = "ESPNOW" /\ UNCHANGED tbl
  /\ LET pos == FindEither(tbl[d], To(d), NoAddress) IN
     Sends(d, IF To(d) = Broadcast \/ pos = 0 THEN Everyone(d) ELSE Directed(tbl[d], pos))

\* Mutant: failures are not counted.
SendDualKeepsNode(d) ==
  /\ kind = "DualUDP" /\ Sending(d)
  /\ LET pos == IF To(d) = Broadcast THEN 0 ELSE Find(tbl[d], To(d))
     IN  Sends(d, IF pos = 0 THEN Everyone(d) ELSE Directed(tbl[d], pos))
  /\ UNCHANGED tbl

\* DualUDP: a node that failed too often is removed, and the frame broadcast.
SendDual(d) ==
  /\ kind = "DualUDP" /\ Sending(d)
  /\ LET pos   == IF To(d) = Broadcast THEN 0 ELSE Find(tbl[d], To(d))
         tired == pos # 0 /\ tbl[d].nodes[pos].attempts > MaxTries * Failures
         t     == IF tired THEN RemoveNode(tbl[d], pos) ELSE tbl[d]
     IN  IF pos = 0 \/ t # tbl[d]
         THEN Sends(d, Everyone(d)) /\ tbl' = [tbl EXCEPT ![d] = t]
         ELSE /\ Sends(d, Directed(t, pos))
              /\ tbl' = [tbl EXCEPT ![d].nodes[pos].attempts = (@ + 1) % 256]

Send(d) == SendLocal(d) \/ SendGlobal(d) \/ SendEspNow(d) \/ SendDual(d)

-----------------------------------------------------------------------------
(* Reading datagrams. *)

\* Whom receive_frame() registers when it reads a frame: DualUDP the senders of
\* what was sent to the id it last sent from, which is 0 until it sends.
Registers(d, m) ==
  /\ m.kind = "frame"
  /\ \/ kind \in {"GlobalUDP", "ESPNOW"}
     \/ kind = "DualUDP" /\ m.to = (IF started[d] THEN d ELSE Broadcast)

Learns(d, m) ==
  tbl' = IF Registers(d, m) THEN [tbl EXCEPT ![d] = Register(@, m.from, m.src)] ELSE tbl

\* Mutant: the answer is not told from a frame.
AcknowledgesAnyDatagram(d, m) == TRUE

\* What receive_response() takes for the acknowledgement: one byte, or for
\* DualUDP three that name the device.
Acknowledges(d, m) == m.kind = "ack" /\ (kind = "DualUDP" => m.to = d)

ReadResponse(d, m) ==
  /\ pc[d] = "waiting" /\ m.dst = addr[d] /\ Acknowledges(d, m)
  /\ Result(d, TRUE)
  /\ tbl' = IF kind = "DualUDP" THEN [tbl EXCEPT ![d] = RegisterAnswer(@, m.from, m.src)] ELSE tbl
  /\ net' = net \ {m}
  /\ UNCHANGED <<kind, started, addr, got, moves, early, faults>>

\* Everything else is thrown away while a response is awaited.  A frame does not
\* fit the buffer of the UDP strategies, which register its sender in no case.
ReadOther(d, m) ==
  /\ pc[d] = "waiting" /\ m.dst = addr[d] /\ ~Acknowledges(d, m)
  /\ IF kind = "ESPNOW" THEN Learns(d, m) ELSE UNCHANGED tbl
  /\ net' = net \ {m}
  /\ UNCHANGED <<kind, sender, addr, got, told, moves, early, faults>>

\* PJON::receive() reads a frame, and answers before it is handed over.
ReceiveFrame(d, m) ==
  /\ pc[d] = "idle" /\ m.dst = addr[d] /\ m.kind = "frame"
  /\ Learns(d, m)
  /\ got' = IF m.to \in {d, Broadcast} THEN got \cup {<<m.from, m.n, d>>} ELSE got
  /\ net' = (net \ {m}) \cup
            (IF m.to = d /\ m.src \in Places
             THEN {Datagram("ack", d, m.from, m.n, m.try, addr[d], m.src)} ELSE {})
  /\ UNCHANGED <<kind, sender, addr, told, moves, early, faults>>

\* An answer that comes too late.  One of a single byte is taken for the first
\* byte of a packet: the datagram read next, if there is one, is its rest.
ReceiveLateAnswer(d, m) ==
  /\ pc[d] = "idle" /\ m.dst = addr[d] /\ m.kind = "ack"
  /\ \/ net' = net \ {m} /\ UNCHANGED tbl
     \/ /\ kind # "DualUDP"
        /\ \E r \in net \ {m} : r.dst = addr[d] /\ net' = net \ {m, r} /\ Learns(d, r)
  /\ UNCHANGED <<kind, sender, addr, got, told, moves, early, faults>>

Read(d) == \E m \in net : \/ ReadResponse(d, m) \/ ReadOther(d, m)
                          \/ ReceiveFrame(d, m) \/ ReceiveLateAnswer(d, m)

\* Neither the frame that was sent nor an answer to it is on its way.
Unanswered(d) ==
  ~\E m \in net : \/ m.kind = "frame" /\ m.from = d /\ m.n = next[d] /\ m.try = tries[d] /\ m.dst = addr[To(d)]
                  \/ m.kind = "ack" /\ m.dst = addr[d]

TimeOut(d) ==
  /\ pc[d] = "waiting" /\ Unanswered(d)
  /\ Result(d, FALSE)
  /\ UNCHANGED <<kind, started, addr, tbl, net, got, moves, early, faults>>

Fault == faults < MaxFaults /\ faults' = faults + 1

TimeOutEarly(d) ==
  /\ pc[d] = "waiting" /\ ~Unanswered(d) /\ Fault
  /\ Result(d, FALSE) /\ early' = early + 1
  /\ UNCHANGED <<kind, started, addr, tbl, net, got, moves>>

Lose(m) ==
  /\ Fault /\ net' = net \ {m}
  /\ UNCHANGED <<kind, sender, addr, tbl, got, told, moves, early>>

\* A device takes another address; what is on its way to the old one is lost.
Move(d, a) ==
  /\ a \notin Places /\ Fault /\ moves' = moves + 1
  /\ addr' = [addr EXCEPT ![d] = a]
  /\ net' = {m \in net : m.dst # addr[d]}
  /\ UNCHANGED <<kind, sender, tbl, got, told, early>>

Next ==
  \/ \E d \in Devices : Send(d) \/ Read(d) \/ TimeOut(d) \/ TimeOutEarly(d)
  \/ \E m \in net : Lose(m)
  \/ \E d \in Devices, a \in Spare \cup {Home[e] : e \in Devices} : Move(d, a)

Spec == Init /\ [][Next]_vars

\* Devices go on with update() and receive(); what a device is sent is read.
FairSpec == Spec /\ \A d \in Devices : WF_vars(Send(d)) /\ WF_vars(TimeOut(d)) /\ WF_vars(Read(d))

-----------------------------------------------------------------------------
(* Properties. *)

\* A packet whose sender was told PJON_ACK was received, unless an answer came
\* after its time-out, or, for the strategies whose answers name nobody, went to
\* a device that had taken the address of another.
AckedIsReceived ==
  (early = 0 /\ (kind = "DualUDP" \/ moves = 0)) =>
    \A d \in Devices : \A n \in told[d] : <<d, n, list[d][n]>> \in got

\* The table holds each device once and stays within its bounds, and the 8 bits
\* count of DualUDP never wraps, however nodes are registered, fail and are removed.
TableSound ==
  \A d \in Devices : LET nodes == tbl[d].nodes IN
    /\ Len(nodes) <= MaxNodes
    /\ \A i, j \in DOMAIN nodes : nodes[i].id = nodes[j].id => i = j
    /\ \A i \in DOMAIN nodes : nodes[i].attempts <= MaxTries * Failures + 1

ByHand(d) == {Manual[d][i] : i \in DOMAIN Manual[d]}

\* A device that moves within the LAN is found again: whoever broadcasts, at once
\* or after the failures that remove the node, gets every packet acknowledged
\* again and again (the last of its list stands for all), if nobody else sends
\* meanwhile.  A node added by hand is documented to stay where it was said to be.
Silent(d) == \A e \in Devices \ {d} : list[e] = <<>>
MovedIsFoundAgain ==
  \A d \in Devices :
    LET last == Len(list[d]) IN
    (/\ kind \in {"LocalUDP", "DualUDP"} /\ Silent(d) /\ list[d] # <<>>
     /\ kind = "DualUDP" => list[d][last] \notin ByHand(d))
    => []<>(last \in told[d])
=============================================================================
