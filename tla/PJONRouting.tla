----------------------------- MODULE PJONRouting -----------------------------
(***************************************************************************)
(* One switch or router: PJONSimpleSwitch, with the routing table of       *)
(* PJONRouter and the learning of PJONDynamicRouter as options.            *)
(*                                                                         *)
(* A packet received on an attached bus goes through a loop that looks for *)
(* one matching bus after the other and forwards a copy to each, with the  *)
(* sender or receiver bus id rewritten for NAT and the hops counted.       *)
(* forward() makes the attached instance take the identity of the sender   *)
(* while it queues the copy, and gives it back its own afterwards.  One    *)
(* step of the model is one turn of the loop.  Queued packets leave in     *)
(* update(), delivered or lost.                                            *)
(*                                                                         *)
(* A device is left out of the identity of a sender: only its bus matters  *)
(* here.  The payload is left out.                                         *)
(***************************************************************************)
EXTENDS Integers, Sequences, FiniteSets

CONSTANTS
  BusCount,        \* bus_count
  BusIds,          \* the bus ids in use
  Localhost,       \* the bus id 0.0.0.0 of local buses
  OwnBusId,        \* the bus id each attached bus was given
  Shared,          \* the attached buses configured in shared mode
  Gateway,         \* default_gateway
  NOT_ASSIGNED,    \* PJON_NOT_ASSIGNED
  StaticRoutes,    \* the routes added to the table before it starts
  TableSize,       \* PJON_ROUTER_TABLE_SIZE
  Learns,          \* whether it is a PJONDynamicRouter
  MaxPackets,      \* PJON_MAX_PACKETS, the queue of each bus
  MaxHops,         \* PJON_MAX_HOPS
  Arrivals         \* the packets that may be received, and where

Buses  == 0 .. BusCount - 1
Route  == [bus_id: BusIds, via: Buses]
\* shared is PJON_MODE_BIT, ack PJON_ACK_REQ_BIT (never set in a broadcast), rx
\* and tx the bus ids of receiver and sender.
Packet == [shared: BOOLEAN, ack: BOOLEAN, rx: BusIds, tx: BusIds, hops: Nat]
Copy   == [pkt: Packet, from: Buses]

ASSUME RoutingAssumption ==
  /\ BusCount \in Nat /\ MaxPackets \in Nat /\ MaxHops \in Nat /\ TableSize \in Nat
  /\ Localhost \in BusIds
  /\ OwnBusId \in [Buses -> BusIds] /\ Shared \subseteq Buses
  /\ NOT_ASSIGNED \in Int \ (0 .. BusCount + TableSize)
  /\ Gateway \in Buses \cup {NOT_ASSIGNED}
  /\ StaticRoutes \in Seq(Route) /\ Len(StaticRoutes) <= TableSize
  /\ Learns \in BOOLEAN
  /\ Arrivals \subseteq [bus: Buses, pkt: Packet]

VARIABLES
  tx,       \* the bus id each attached instance has at present
  table,    \* the routing table
  queue,    \* the send list of each attached bus: copies, and where they came from
  current,  \* current_bus while a packet is routed, NOT_ASSIGNED otherwise
  packet,   \* the packet being routed
  search,   \* start_search, NOT_ASSIGNED when the loop ends
  acks,     \* history: acknowledgements sent for that packet
  sent      \* history: the buses it was queued on

vars == <<tx, table, queue, current, packet, search, acks, sent>>

Init ==
  /\ tx = OwnBusId
  /\ table = StaticRoutes
  /\ queue = [b \in Buses |-> <<>>]
  /\ current = NOT_ASSIGNED /\ search = NOT_ASSIGNED
  /\ packet = [shared |-> FALSE, ack |-> FALSE, rx |-> Localhost, tx |-> Localhost,
               hops |-> 0]
  /\ acks = 0 /\ sent = <<>>

Routing == current # NOT_ASSIGNED

-----------------------------------------------------------------------------
(* Finding the bus. *)

Attached(id) == {b \in Buses : tx[b] = id}
Known(id)    == {k \in DOMAIN table : table[k].bus_id = id}

\* Mutant: a bus is found twice when the search starts again at its index.
NextAttachedAgain(id, start) == {b \in Attached(id) : b >= start - 1}

NextAttached(id, start) == {b \in Attached(id) : b >= start}
NextKnown(id, start)    == {k \in Known(id) : k > start - BusCount}

Least(S) == CHOOSE x \in S : \A y \in S : x <= y

\* find_bus_with_id(): the attached buses first, then the table; the bus, and
\* where the search goes on.
Find(id, start) ==
  IF start < BusCount /\ NextAttached(id, start) # {}
  THEN LET b == Least(NextAttached(id, start)) IN [bus |-> b, next |-> b + 1]
  ELSE LET from == IF start < BusCount THEN BusCount ELSE start
       IN  IF NextKnown(id, from) # {}
           THEN LET k == Least(NextKnown(id, from))
                IN  [bus |-> table[k].via, next |-> BusCount + k]
           ELSE [bus |-> NOT_ASSIGNED, next |-> NOT_ASSIGNED]

\* Mutant: only the attached buses are searched before a route is added.
LearnedAgain(id, b) ==
  IF Learns /\ Attached(id) = {} /\ Len(table) < TableSize
  THEN Append(table, [bus_id |-> id, via |-> b])
  ELSE table

\* A search from the start finds nothing.
Unknown(id) == Attached(id) = {} /\ Known(id) = {}

\* Mutant: the attached buses are counted as entries of the table.
LearnedTooFew(id, b) ==
  IF Learns /\ Unknown(id) /\ BusCount + Len(table) < TableSize
  THEN Append(table, [bus_id |-> id, via |-> b])
  ELSE table

\* add_sender_to_routing_table() and add(): the table once a packet from bus id
\* was received on b.
Learned(id, b) ==
  IF Learns /\ Unknown(id) /\ Len(table) < TableSize
  THEN Append(table, [bus_id |-> id, via |-> b])
  ELSE table

\* The bus id searched for.
Wanted(p) == IF p.shared THEN p.rx ELSE Localhost

-----------------------------------------------------------------------------
(* Forwarding. *)

\* NAT: a local bus with a bus id stands for its devices in shared packets.
\* NatSender rewrites the sender of what leaves it, NatReceiver the receiver of
\* what comes in.
NatSender(p, from) ==
  IF p.shared /\ from \notin Shared /\ tx[from] # Localhost /\ p.tx = Localhost
  THEN tx[from] ELSE p.tx
NatReceiver(p, to) ==
  IF p.shared /\ to \notin Shared /\ tx[to] # Localhost /\ p.rx = tx[to]
  THEN Localhost ELSE p.rx

Translated(p, from, to) == [p EXCEPT !.tx = NatSender(p, from), !.rx = NatReceiver(p, to)]

\* An acknowledgement is sent once, before forwarding.
Acknowledge(p) == acks' = IF p.ack /\ acks = 0 THEN acks + 1 ELSE acks

\* dispatch() of a copy to the list of bus b; a full list refuses it.
Dispatch(c, b) ==
  IF Len(queue[b]) < MaxPackets
  THEN queue' = [queue EXCEPT ![b] = Append(@, c)] /\ sent' = Append(sent, b)
  ELSE UNCHANGED <<queue, sent>>

\* forward(): the instance takes the sender's identity and gives it back once
\* the copy is dispatched; when the hops are over it returns before either.
Forward(p, b) ==
  IF p.hops + 1 > MaxHops
  THEN tx' = [tx EXCEPT ![b] = p.tx] /\ UNCHANGED <<queue, sent>>
  ELSE /\ UNCHANGED tx
       /\ Dispatch([pkt |-> [p EXCEPT !.hops = @ + 1], from |-> current], b)

-----------------------------------------------------------------------------
(* The steps. *)

\* receive() of an attached bus hands a packet to dynamic_receiver_function().
Receive(a) ==
  /\ ~Routing
  /\ current' = a.bus /\ packet' = a.pkt /\ search' = 0
  /\ table' = Learned(a.pkt.tx, a.bus)
  /\ acks' = 0 /\ sent' = <<>>
  /\ UNCHANGED <<tx, queue>>

\* The bus this turn of the loop forwards to, if any.
Target(f) == IF f.bus = NOT_ASSIGNED THEN Gateway ELSE f.bus

\* One turn of the loop of dynamic_receiver_function().
Turn ==
  LET f == Find(Wanted(packet), search)
      b == Target(f)
  IN  /\ Routing
      /\ IF b # NOT_ASSIGNED /\ b # current
         THEN /\ Acknowledge(packet)
              /\ Forward(Translated(packet, current, b), b)
         ELSE UNCHANGED <<acks, tx, queue, sent>>
      /\ search' = f.next
      /\ current' = IF f.next = NOT_ASSIGNED THEN NOT_ASSIGNED ELSE current
      /\ UNCHANGED <<table, packet>>

\* update() of an attached bus delivers or loses a copy.
Update(b) ==
  /\ ~Routing
  /\ \E k \in DOMAIN queue[b] :
       queue' = [queue EXCEPT ![b] = SubSeq(@, 1, k - 1) \o SubSeq(@, k + 1, Len(@))]
  /\ UNCHANGED <<tx, table, current, packet, search, acks, sent>>

Next == (\E a \in Arrivals : Receive(a)) \/ Turn \/ (\E b \in Buses : Update(b))

Spec == Init /\ [][Next]_vars

-----------------------------------------------------------------------------
(* Properties. *)

\* A copy of a packet is put on a bus once at most, and not on the bus it was
\* received from, and the sender sees one acknowledgement at most: not even by a
\* search that goes on after its first match, and in the table after the attached
\* buses.  The default gateway is left out: the turn that ends the search finds
\* nothing, and gives it a copy whatever was found before.
NoTwoCopies ==
  /\ acks <= 1
  /\ \A j, k \in DOMAIN sent : (j # k /\ sent[j] # Gateway) => sent[j] # sent[k]
  /\ Routing => \A k \in DOMAIN sent : sent[k] # current

\* The search for id comes to bus s at some turn.
Reaches(id, s) == \E start \in 0 .. BusCount + Len(table) : Find(id, start).bus = s

\* The receiver of a forwarded packet can answer: a reply to the bus id the copy
\* names as its sender, after NAT, comes back to the bus the packet was received
\* from.  A router that learns breaks this only for a sender its table had no room
\* for.
ReplyComesBack ==
  Learns => \A b \in Buses : \A k \in DOMAIN queue[b] :
    LET c == queue[b][k]
    IN  \/ Reaches(c.pkt.tx, c.from)
        \/ Unknown(c.pkt.tx) /\ Len(table) = TableSize

\* The routing table is a function, and holds no attached bus: what is learned
\* never stands beside what is known.
TableIsAMap ==
  \A j, k \in DOMAIN table :
    /\ table[j].bus_id = table[k].bus_id => j = k
    /\ \A b \in Buses : table[k].bus_id # OwnBusId[b]
=============================================================================
