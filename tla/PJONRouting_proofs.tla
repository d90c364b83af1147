------------------------- MODULE PJONRouting_proofs -------------------------
(***************************************************************************)
(* What holds of PJONRouting for every number of buses, every table and    *)
(* every traffic whose packets have hops left.                             *)
(***************************************************************************)
EXTENDS PJONRouting, WellFoundedInduction, TLAPS

-----------------------------------------------------------------------------
(* The identity of the attached instances. *)

\* A packet that is routed has hops left, as all that arrive.
HopsLeft == \A a \in Arrivals : a.pkt.hops + 1 <= MaxHops

IdentityInv == tx = OwnBusId /\ (Routing => packet.hops + 1 <= MaxHops)

\* The rewriting for NAT leaves the hops alone.
LEMMA TranslatedKeepsHops ==
  ASSUME NEW p \in Packet, NEW from, NEW to
  PROVE  Translated(p, from, to).hops = p.hops
BY DEF Translated, Packet

\* What is being routed is a packet.
PacketInv == packet \in Packet

LEMMA PacketInvHolds == Spec => []PacketInv
<1>1. Init => PacketInv
  BY RoutingAssumption DEF Init, PacketInv, Packet
<1>2. PacketInv /\ [Next]_vars => PacketInv'
  <2> SUFFICES ASSUME PacketInv, [Next]_vars PROVE PacketInv' OBVIOUS
  <2>1. ASSUME NEW a \in Arrivals, Receive(a) PROVE PacketInv'
    BY <2>1, RoutingAssumption DEF Receive, PacketInv
  <2>2. CASE Turn \/ (\E b \in Buses : Update(b)) \/ UNCHANGED vars
    BY <2>2 DEF Turn, Update, vars, PacketInv
  <2> QED BY <2>1, <2>2 DEF Next
<1> QED BY <1>1, <1>2, PTL DEF Spec

LEMMA IdentityInvNext ==
  ASSUME HopsLeft, PacketInv, IdentityInv, [Next]_vars
  PROVE  IdentityInv'
<1>1. ASSUME NEW a \in Arrivals, Receive(a) PROVE IdentityInv'
  BY <1>1 DEF Receive, IdentityInv, HopsLeft
<1>2. CASE Turn
  <2> DEFINE b == Target(Find(Wanted(packet), search))
  <2>1. packet.hops + 1 <= MaxHops /\ packet.hops \in Nat
    BY <1>2 DEF Turn, IdentityInv, PacketInv, Packet
  <2>2. Translated(packet, current, b).hops = packet.hops
    BY TranslatedKeepsHops DEF PacketInv
  <2>3. \/ Forward(Translated(packet, current, b), b)
        \/ UNCHANGED tx
    BY <1>2 DEF Turn
  <2> HIDE DEF b
  <2>4. UNCHANGED tx BY <2>1, <2>2, <2>3, RoutingAssumption DEF Forward
  <2>5. UNCHANGED packet BY <1>2 DEF Turn
  <2> QED BY <2>1, <2>4, <2>5 DEF IdentityInv
<1>3. CASE (\E b \in Buses : Update(b)) \/ UNCHANGED vars
  BY <1>3 DEF Update, vars, IdentityInv, Routing
<1> QED BY <1>1, <1>2, <1>3 DEF Next

-----------------------------------------------------------------------------
(* The routing table. *)

TableInv == table \in Seq(Route) /\ TableIsAMap

LEMMA TableInvNext ==
  ASSUME TableInv, IdentityInv, [Next]_vars
  PROVE  TableInv'
<1>1. CASE UNCHANGED table BY <1>1 DEF TableInv, TableIsAMap
<1>2. ASSUME NEW a \in Arrivals, Receive(a) PROVE TableInv'
  <2> DEFINE new == [bus_id |-> a.pkt.tx, via |-> a.bus]
  <2>1. CASE table' = table BY <1>1, <2>1
  <2>2. CASE table' # table
    <3>1. Unknown(a.pkt.tx) /\ table' = Append(table, new)
      BY <1>2, <2>2 DEF Receive, Learned
    <3>2. new \in Route /\ new.bus_id = a.pkt.tx
      BY RoutingAssumption DEF Route, Packet
    <3> HIDE DEF new
    <3>3. /\ table' \in Seq(Route) /\ DOMAIN table' = 1 .. Len(table) + 1
          /\ table'[Len(table) + 1] = new
          /\ \A k \in 1 .. Len(table) : table'[k] = table[k]
          /\ Len(table) \in Nat /\ DOMAIN table = 1 .. Len(table)
      BY <3>1, <3>2 DEF TableInv
    <3>4. \A k \in 1 .. Len(table) : table[k].bus_id # new.bus_id
      BY <3>1, <3>2, <3>3 DEF Unknown, Known
    <3>5. \A b \in Buses : new.bus_id # OwnBusId[b]
      BY <3>1, <3>2 DEF Unknown, Attached, IdentityInv
    <3>6. TableIsAMap'
      <4> SUFFICES ASSUME NEW j \in 1 .. Len(table) + 1, NEW k \in 1 .. Len(table) + 1
                   PROVE  /\ table'[j].bus_id = table'[k].bus_id => j = k
                          /\ \A b \in Buses : table'[k].bus_id # OwnBusId[b]
        BY <3>3 DEF TableIsAMap
      <4>1. \A i \in 1 .. Len(table) + 1 : i \in 1 .. Len(table) \/ i = Len(table) + 1
        BY <3>3
      <4> QED BY <3>3, <3>4, <3>5, <4>1 DEF TableInv, TableIsAMap
    <3> QED BY <3>3, <3>6 DEF TableInv
  <2> QED BY <2>1, <2>2
<1> QED BY <1>1, <1>2 DEF Next, Turn, Update, vars

\* A router that starts from such a table, and whose packets have hops left,
\* keeps a table with one route for each remote bus and none for its own: what
\* it learns never contradicts what it knows.
THEOREM TableIsAMapHolds ==
  ASSUME HopsLeft,
         \A j, k \in DOMAIN StaticRoutes :
           /\ StaticRoutes[j].bus_id = StaticRoutes[k].bus_id => j = k
           /\ \A b \in Buses : StaticRoutes[k].bus_id # OwnBusId[b]
  PROVE  Spec => []TableIsAMap
<1>1. Init => TableInv /\ IdentityInv
  BY RoutingAssumption DEF Init, TableInv, TableIsAMap, IdentityInv, Routing
<1>2. PacketInv /\ IdentityInv /\ [Next]_vars => IdentityInv' BY IdentityInvNext
<1>3. TableInv /\ IdentityInv /\ [Next]_vars => TableInv' BY TableInvNext
<1>4. TableInv => TableIsAMap BY DEF TableInv
<1> QED BY <1>1, <1>2, <1>3, <1>4, PacketInvHolds, PTL DEF Spec

-----------------------------------------------------------------------------
(* The copies of a packet. *)

LEMMA LeastIsIn ==
  ASSUME NEW S \in SUBSET Nat, S # {}
  PROVE  Least(S) \in S
<1> DEFINE R == {ss \in Nat \X Nat : ss[1] < ss[2]}
<1>1. IsWellFoundedOn(R, Nat) BY NatLessThanWellFounded DEF OpToRel
<1> HIDE DEF R
<1>2. \E i \in S : \A j \in S : <<j, i>> \notin R BY <1>1, WFMin
<1>3. \A i, j \in Nat : <<j, i>> \notin R => i <= j
  <2> SUFFICES ASSUME NEW i \in Nat, NEW j \in Nat, j < i PROVE <<j, i>> \in R OBVIOUS
  <2> QED BY DEF R
<1>4. \E i \in S : \A j \in S : i <= j BY <1>2, <1>3
<1> QED BY <1>4 DEF Least

\* A match that the loop has left behind when its search goes on at s.
Behind(b, s) ==
  \/ b \in Attached(Wanted(packet)) /\ b < s
  \/ \E k \in Known(Wanted(packet)) : table[k].via = b /\ BusCount + k <= s

\* While a packet is routed, each of its copies is on a match behind the search, or
\* on the default gateway.
CopiesInv ==
  /\ acks \in {0, 1} /\ sent \in Seq(Buses)
  /\ current \in Buses \cup {NOT_ASSIGNED}
  /\ \A j, k \in DOMAIN sent : (j # k /\ sent[j] # Gateway) => sent[j] # sent[k]
  /\ Routing =>
       /\ search \in 0 .. BusCount + Len(table)
       /\ \A k \in DOMAIN sent : /\ sent[k] # current
                                 /\ sent[k] = Gateway \/ Behind(sent[k], search)

\* A search finds a match that is not behind it, and goes on behind what it found.
LEMMA FindGoesOn ==
  ASSUME TableInv, IdentityInv, NEW s \in 0 .. BusCount + Len(table),
         NEW f, f = Find(Wanted(packet), s)
  PROVE  \/ f.bus = NOT_ASSIGNED /\ f.next = NOT_ASSIGNED
         \/ /\ f.bus \in Buses /\ ~Behind(f.bus, s) /\ Behind(f.bus, f.next)
            /\ f.next \in 0 .. BusCount + Len(table) /\ s <= f.next
<1> DEFINE id == Wanted(packet)
<1>1. /\ BusCount \in Nat /\ Len(table) \in Nat /\ s \in Nat
      /\ DOMAIN table = 1 .. Len(table) /\ table \in Seq(Route)
  BY RoutingAssumption DEF TableInv
<1>2. Attached(id) = {} \/ Known(id) = {}
  BY DEF TableInv, TableIsAMap, IdentityInv, Attached, Known
<1> HIDE DEF id
<1>3. CASE s < BusCount /\ NextAttached(id, s) # {}
  <2> DEFINE b == Least(NextAttached(id, s))
  <2>1. f = [bus |-> b, next |-> b + 1] BY <1>3 DEF Find, id
  <2>2. NextAttached(id, s) \in SUBSET Nat BY <1>1 DEF NextAttached, Attached, Buses
  <2>3. b \in NextAttached(id, s) BY <1>3, <2>2, LeastIsIn
  <2> HIDE DEF b
  <2>4. b \in Attached(id) /\ b >= s /\ b \in 0 .. BusCount - 1 /\ Known(id) = {}
    BY <1>2, <2>3 DEF NextAttached, Attached, Buses
  <2> QED BY <1>1, <2>1, <2>4 DEF Behind, Buses, id
<1>4. CASE ~(s < BusCount /\ NextAttached(id, s) # {})
  <2> DEFINE from == IF s < BusCount THEN BusCount ELSE s
             k    == Least(NextKnown(id, from))
  <2>1. CASE NextKnown(id, from) = {} BY <1>4, <2>1 DEF Find, id
  <2>2. CASE NextKnown(id, from) # {}
    <3>1. f = [bus |-> table[k].via, next |-> BusCount + k] BY <1>4, <2>2 DEF Find, id
    <3>2. NextKnown(id, from) \in SUBSET Nat BY <1>1 DEF NextKnown, Known
    <3>3. k \in NextKnown(id, from) BY <2>2, <3>2, LeastIsIn
    <3> HIDE DEF k
    <3>4. k \in Known(id) /\ k > from - BusCount /\ Attached(id) = {} /\ k \in 1 .. Len(table)
      BY <1>1, <1>2, <3>3 DEF NextKnown, Known
    <3>5. table[k] \in Route BY <1>1, <3>4
    <3>6. \A j \in Known(id) : j = k BY <3>4 DEF TableInv, TableIsAMap, Known
    <3>7. s < BusCount + k BY <1>1, <3>4
    <3>8. ~Behind(table[k].via, s) BY <1>1, <3>4, <3>6, <3>7 DEF Behind, id
    <3>9. Behind(table[k].via, BusCount + k) BY <1>1, <3>4 DEF Behind, id
    <3> QED BY <1>1, <3>1, <3>4, <3>5, <3>7, <3>8, <3>9 DEF Route
  <2> QED BY <2>1, <2>2
<1> QED BY <1>3, <1>4

\* What is behind the search stays so as it goes on.
LEMMA BehindStays ==
  ASSUME NEW s \in Nat, NEW u \in Nat, s <= u, TableInv, NEW b, Behind(b, s)
  PROVE  Behind(b, u)
BY RoutingAssumption DEF Behind, Attached, Known, Buses, TableInv

LEMMA TurnKeepsCopies ==
  ASSUME TableInv, IdentityInv, IdentityInv', CopiesInv, Turn
  PROVE  CopiesInv'
<1> DEFINE f == Find(Wanted(packet), search)
           b == Target(f)
           n == Len(sent)
<1>1. Routing /\ search \in 0 .. BusCount + Len(table) /\ BusCount + Len(table) \in Nat
  BY RoutingAssumption DEF Turn, CopiesInv, TableInv
<1>2. /\ search' = f.next /\ UNCHANGED <<table, packet>>
      /\ current' = IF f.next = NOT_ASSIGNED THEN NOT_ASSIGNED ELSE current
  BY DEF Turn
<1>3. UNCHANGED tx BY DEF IdentityInv
<1>4. acks' \in {0, 1}
  <2>1. acks' = acks \/ (acks = 0 /\ acks' = acks + 1) BY DEF Turn, Acknowledge
  <2> QED BY <2>1 DEF CopiesInv
<1>5. \/ UNCHANGED sent
      \/ b # NOT_ASSIGNED /\ b # current /\ sent' = Append(sent, b)
  BY DEF Turn, Forward, Dispatch
<1>6. \/ f.bus = NOT_ASSIGNED /\ f.next = NOT_ASSIGNED
      \/ /\ f.bus \in Buses /\ ~Behind(f.bus, search) /\ Behind(f.bus, f.next)
         /\ f.next \in 0 .. BusCount + Len(table) /\ search <= f.next
  BY <1>1, FindGoesOn
<1>7. b \in Buses \cup {NOT_ASSIGNED} /\ (f.bus = NOT_ASSIGNED => b = Gateway)
      /\ (f.bus # NOT_ASSIGNED => b = f.bus)
  BY <1>6, RoutingAssumption DEF Target
<1> HIDE DEF f, b
<1>8. \A s : (\A c : Behind(c, s)' <=> Behind(c, s))
  BY <1>2, <1>3 DEF Behind, Attached, Known, Wanted
<1>9. \A k \in DOMAIN sent : sent[k] # current /\ (sent[k] = Gateway \/ Behind(sent[k], search))
  BY <1>1 DEF CopiesInv
<1>10. sent \in Seq(Buses) /\ n \in Nat /\ DOMAIN sent = 1 .. n BY DEF CopiesInv
<1>11. CASE UNCHANGED sent
  <2>1. ASSUME Routing' PROVE /\ search' \in 0 .. BusCount + Len(table')
                              /\ \A k \in DOMAIN sent : sent[k] # current' /\ (sent[k] = Gateway \/ Behind(sent[k], search'))
    <3>1. f.next # NOT_ASSIGNED /\ current' = current BY <1>2, <2>1 DEF Routing
    <3>2. f.next \in 0 .. BusCount + Len(table) /\ search <= f.next BY <1>6, <3>1
    <3> QED BY <1>1, <1>2, <1>9, <3>1, <3>2, BehindStays
  <2> QED BY <1>1, <1>2, <1>4, <1>8, <1>11, <2>1 DEF CopiesInv
<1>12. CASE b # NOT_ASSIGNED /\ b # current /\ sent' = Append(sent, b)
  <2>1. /\ sent' \in Seq(Buses) /\ DOMAIN sent' = 1 .. n + 1
        /\ sent'[n + 1] = b /\ \A k \in 1 .. n : sent'[k] = sent[k]
    BY <1>7, <1>10, <1>12
  <2>2. \A k \in 1 .. n + 1 : k \in 1 .. n \/ k = n + 1 BY <1>10
  <2> HIDE DEF n
  <2>3. \A k \in 1 .. n : b # Gateway => sent[k] # b
    BY <1>6, <1>7, <1>9, <1>10
  <2>4. \A j, k \in 1 .. n + 1 : (j # k /\ sent'[j] # Gateway) => sent'[j] # sent'[k]
    BY <1>10, <2>1, <2>2, <2>3 DEF CopiesInv
  <2>5. ASSUME Routing' PROVE /\ search' \in 0 .. BusCount + Len(table')
                              /\ \A k \in 1 .. n + 1 : /\ sent'[k] # current'
                                                       /\ sent'[k] = Gateway \/ Behind(sent'[k], search')
    <3>1. f.next # NOT_ASSIGNED /\ current' = current BY <1>2, <2>5 DEF Routing
    <3>2. f.next \in 0 .. BusCount + Len(table) /\ search <= f.next /\ Behind(f.bus, f.next) BY <1>6, <3>1
    <3>3. b = f.bus \/ b = Gateway BY <1>7
    <3>4. \A k \in 1 .. n : sent[k] # current /\ (sent[k] = Gateway \/ Behind(sent[k], f.next))
      BY <1>1, <1>9, <1>10, <3>2, BehindStays
    <3> QED BY <1>2, <1>12, <2>1, <2>2, <3>1, <3>2, <3>3, <3>4
  <2> QED BY <1>1, <1>2, <1>4, <1>8, <2>1, <2>4, <2>5 DEF CopiesInv
<1> QED BY <1>5, <1>11, <1>12

LEMMA CopiesInvNext ==
  ASSUME TableInv, IdentityInv, IdentityInv', CopiesInv, [Next]_vars
  PROVE  CopiesInv'
<1>1. ASSUME NEW a \in Arrivals, Receive(a) PROVE CopiesInv'
  <2>1. a.bus \in Buses BY RoutingAssumption
  <2>2. acks' = 0 /\ sent' = <<>> /\ current' = a.bus /\ search' = 0 BY <1>1 DEF Receive
  <2>3. BusCount \in Nat /\ Len(table') \in Nat
    <3>1. table' \in Seq(Route) BY TableInvNext DEF TableInv
    <3> QED BY <3>1, RoutingAssumption
  <2> QED BY <2>1, <2>2, <2>3 DEF CopiesInv
<1>2. CASE Turn BY <1>2, TurnKeepsCopies
<1>3. CASE (\E b \in Buses : Update(b)) \/ UNCHANGED vars
  BY <1>3 DEF Update, vars, CopiesInv, Routing, Behind, Attached, Known, Wanted
<1> QED BY <1>1, <1>2, <1>3 DEF Next

\* A router whose table is a map, and whose packets have hops left, puts no packet on
\* a bus twice, and none on the bus it came from, whatever the default gateway gets
\* besides, and answers its sender once at most: the loop visits each match once.
THEOREM NoTwoCopiesHolds ==
  ASSUME HopsLeft,
         \A j, k \in DOMAIN StaticRoutes :
           /\ StaticRoutes[j].bus_id = StaticRoutes[k].bus_id => j = k
           /\ \A b \in Buses : StaticRoutes[k].bus_id # OwnBusId[b]
  PROVE  Spec => []NoTwoCopies
<1>1. Init => TableInv /\ IdentityInv /\ CopiesInv
  BY RoutingAssumption DEF Init, TableInv, TableIsAMap, IdentityInv, CopiesInv, Routing
<1>2. PacketInv /\ IdentityInv /\ [Next]_vars => IdentityInv' BY IdentityInvNext
<1>3. TableInv /\ IdentityInv /\ [Next]_vars => TableInv' BY TableInvNext
<1>4. TableInv /\ IdentityInv /\ IdentityInv' /\ CopiesInv /\ [Next]_vars => CopiesInv'
  BY CopiesInvNext
<1>5. CopiesInv => NoTwoCopies BY DEF CopiesInv, NoTwoCopies
<1> QED BY <1>1, <1>2, <1>3, <1>4, <1>5, PacketInvHolds, PTL DEF Spec

-----------------------------------------------------------------------------
(* The way back to a sender. *)

\* The packets of a that leave with the bus id of their local bus for a sender.
Hidden(a) ==
  /\ a.pkt.shared /\ a.pkt.tx = Localhost
  /\ a.bus \notin Shared /\ OwnBusId[a.bus] # Localhost

\* No bus is behind two of the attached ones: a sender that names an attached bus is
\* on it, and all the packets of another come in on one bus, the one its route leads
\* to when the table was given it at the start.
OneWayEach ==
  \A a \in Arrivals : Hidden(a) \/
    /\ \A b \in Buses : OwnBusId[b] = a.pkt.tx => OwnBusId[a.bus] = a.pkt.tx
    /\ \A k \in DOMAIN StaticRoutes :
         StaticRoutes[k].bus_id = a.pkt.tx => StaticRoutes[k].via = a.bus
    /\ \A c \in Arrivals : c.pkt.tx = a.pkt.tx => c.bus = a.bus

\* Bus id is reached by way of b, or the table had no room for it.
WayBack(id, b) ==
  \/ OwnBusId[b] = id
  \/ \E k \in DOMAIN table : table[k].bus_id = id /\ table[k].via = b
  \/ Unknown(id) /\ Len(table) = TableSize

\* The routes are those the table was given and those of packets that arrived.
RoutesInv ==
  /\ Len(table) <= TableSize
  /\ \A k \in DOMAIN table :
       \/ k \in DOMAIN StaticRoutes /\ table[k] = StaticRoutes[k]
       \/ \E a \in Arrivals : table[k] = [bus_id |-> a.pkt.tx, via |-> a.bus]

ReturnableCopy == {c \in Copy : WayBack(c.pkt.tx, c.from)}

\* ReplyComesBack is not inductive without what holds of the packet being routed,
\* which the queued copies are made of.
ReturnInv ==
  /\ queue \in [Buses -> Seq(ReturnableCopy)]
  /\ Routing => current \in Buses /\ WayBack(NatSender(packet, current), current)

\* What a packet that arrives does to the table.
LEMMA LearnedRoutes ==
  ASSUME TableInv, RoutesInv, IdentityInv, Learns, OneWayEach,
         NEW a \in Arrivals, Receive(a)
  PROVE  /\ RoutesInv'
         /\ Hidden(a) \/ WayBack(a.pkt.tx, a.bus)'
         /\ \A id, b : WayBack(id, b) => WayBack(id, b)'
<1> DEFINE id == a.pkt.tx
           new == [bus_id |-> id, via |-> a.bus]
<1>1. /\ Len(table) \in Nat /\ DOMAIN table = 1 .. Len(table) /\ TableSize \in Nat
      /\ table \in Seq(Route) /\ a.bus \in Buses /\ new \in Route
  BY RoutingAssumption DEF TableInv, Route, Packet
<1>2. UNCHANGED tx /\ tx = OwnBusId /\ table' = Learned(id, a.bus)
  BY DEF Receive, IdentityInv
<1>3. CASE Unknown(id) /\ Len(table) < TableSize
  <2>1. table' = Append(table, new) BY <1>2, <1>3 DEF Learned
  <2> HIDE DEF new
  <2>2. /\ DOMAIN table' = 1 .. Len(table) + 1 /\ Len(table') = Len(table) + 1
        /\ table'[Len(table) + 1] = new /\ \A k \in 1 .. Len(table) : table'[k] = table[k]
    BY <1>1, <2>1
  <2>3. RoutesInv'
    <3>1. \A k \in DOMAIN table' : k \in DOMAIN table \/ k = Len(table) + 1 BY <1>1, <2>2
    <3> QED BY <1>1, <1>3, <2>2, <3>1 DEF RoutesInv, new
  <2>4. WayBack(id, a.bus)' BY <1>1, <2>2 DEF WayBack, new
  <2>5. Len(table) # TableSize
    <3>1. \A m, n \in Nat : m < n => m # n OBVIOUS
    <3> QED BY <1>1, <1>3, <3>1
  <2>6. ASSUME NEW i, NEW b, WayBack(i, b) PROVE WayBack(i, b)'
    <3>1. \/ OwnBusId[b] = i
          \/ \E k \in DOMAIN table : table[k].bus_id = i /\ table[k].via = b
      BY <2>5, <2>6 DEF WayBack
    <3>2. \A k \in DOMAIN table : k \in DOMAIN table' /\ table'[k] = table[k]
      BY <1>1, <2>2
    <3> QED BY <3>1, <3>2 DEF WayBack
  <2> QED BY <2>3, <2>4, <2>6
<1>4. CASE ~(Unknown(id) /\ Len(table) < TableSize)
  <2>1. table' = table BY <1>2, <1>4 DEF Learned
  <2>2. \A i, b : WayBack(i, b) => WayBack(i, b)'
    BY <1>2, <2>1 DEF WayBack, Unknown, Attached, Known
  <2>3. Hidden(a) \/ WayBack(id, a.bus)
    <3>1. CASE Unknown(id)
      <4>1. Len(table) <= TableSize /\ ~(Len(table) < TableSize) BY <1>4, <3>1 DEF RoutesInv
      <4>2. \A m, n \in Nat : m <= n /\ ~(m < n) => m = n OBVIOUS
      <4>3. Len(table) = TableSize BY <1>1, <4>1, <4>2
      <4> QED BY <3>1, <4>3 DEF WayBack
    <3>2. CASE Attached(id) # {} BY <1>2, <3>2 DEF Attached, OneWayEach, WayBack
    <3>3. CASE Known(id) # {}
      <4>1. PICK k \in DOMAIN table : table[k].bus_id = id BY <3>3 DEF Known
      <4>2. Hidden(a) \/ table[k].via = a.bus BY <4>1 DEF RoutesInv, OneWayEach
      <4> QED BY <4>1, <4>2 DEF WayBack
    <3> QED BY <3>1, <3>2, <3>3 DEF Unknown
  <2> QED BY <2>1, <2>2, <2>3 DEF RoutesInv
<1> QED BY <1>3, <1>4

\* A copy that may stay in a queue keeps its way back.
LEMMA ReturnableGrows ==
  ASSUME \A id, b : WayBack(id, b) => WayBack(id, b)',
         UNCHANGED queue, queue \in [Buses -> Seq(ReturnableCopy)]
  PROVE  queue' \in [Buses -> Seq(ReturnableCopy')]
<1>1. ReturnableCopy \subseteq ReturnableCopy' BY DEF ReturnableCopy
<1>2. \A s \in Seq(ReturnableCopy) : s \in Seq(ReturnableCopy')
  <2> SUFFICES ASSUME NEW s \in Seq(ReturnableCopy) PROVE s \in Seq(ReturnableCopy')
    OBVIOUS
  <2>1. \A k \in 1 .. Len(s) : s[k] \in ReturnableCopy' BY <1>1
  <2> QED BY <2>1
<1> QED BY <1>2

LEMMA ReturnInvNext ==
  ASSUME TableInv, RoutesInv, IdentityInv, IdentityInv', PacketInv, ReturnInv,
         Learns, OneWayEach, [Next]_vars
  PROVE  RoutesInv' /\ ReturnInv'
<1>1. ASSUME NEW a \in Arrivals, Receive(a) PROVE RoutesInv' /\ ReturnInv'
  <2>1. /\ RoutesInv' /\ (Hidden(a) \/ WayBack(a.pkt.tx, a.bus)')
        /\ \A id, b : WayBack(id, b) => WayBack(id, b)'
    BY <1>1, LearnedRoutes
  <2>2. /\ UNCHANGED <<queue, tx>> /\ tx = OwnBusId
        /\ current' = a.bus /\ packet' = a.pkt
    BY <1>1 DEF Receive, IdentityInv
  <2>3. queue' \in [Buses -> Seq(ReturnableCopy')] BY <2>1, <2>2, ReturnableGrows DEF ReturnInv
  <2>4. NatSender(packet, current)' = IF Hidden(a) THEN OwnBusId[a.bus] ELSE a.pkt.tx
    BY <2>2 DEF NatSender, Hidden
  <2>5. WayBack(OwnBusId[a.bus], a.bus)' BY DEF WayBack
  <2>6. a.bus \in Buses BY RoutingAssumption
  <2>7. PICK id : id = (IF Hidden(a) THEN OwnBusId[a.bus] ELSE a.pkt.tx) OBVIOUS
  <2>8. WayBack(id, a.bus)' BY <2>1, <2>5, <2>7
  <2>9. WayBack(NatSender(packet, current), current)'
    BY <2>2, <2>4, <2>7, <2>8 DEF WayBack, Unknown, Attached, Known
  <2> QED BY <2>1, <2>2, <2>3, <2>6, <2>9 DEF ReturnInv
<1>2. CASE UNCHANGED table
  <2>1. RoutesInv' BY <1>2 DEF RoutesInv
  <2>2. UNCHANGED tx BY DEF IdentityInv
  <2>3. \A id, b : WayBack(id, b) <=> WayBack(id, b)'
    BY <1>2, <2>2 DEF WayBack, Unknown, Attached, Known
  <2>4. ReturnableCopy' = ReturnableCopy BY <2>3 DEF ReturnableCopy
  <2>5. \/ UNCHANGED <<packet, current>> \/ ~Routing' \/ \E a \in Arrivals : Receive(a)
    BY DEF Next, Turn, Update, vars, Routing
  <2>6. UNCHANGED <<packet, current>> =>
          (WayBack(NatSender(packet, current), current)' <=> WayBack(NatSender(packet, current), current))
    BY <2>2, <2>3 DEF NatSender
  <2>7. CASE UNCHANGED queue
    BY <1>1, <2>1, <2>3, <2>4, <2>5, <2>6, <2>7 DEF ReturnInv, Routing
  <2>8. CASE Turn
    <3> DEFINE b == Target(Find(Wanted(packet), search))
               c == [pkt |-> [Translated(packet, current, b) EXCEPT !.hops = @ + 1], from |-> current]
    <3>1. UNCHANGED queue \/ queue' = [queue EXCEPT ![b] = Append(@, c)]
      BY <2>8 DEF Turn, Forward, Dispatch
    <3>2. current \in Buses /\ WayBack(NatSender(packet, current), current)
      BY <2>8 DEF Turn, ReturnInv
    <3>3. NatSender(packet, current) \in BusIds /\ NatReceiver(packet, b) \in BusIds
      BY <3>2, RoutingAssumption DEF NatSender, NatReceiver, PacketInv, Packet, IdentityInv
    <3>4. Translated(packet, current, b) \in Packet
          /\ Translated(packet, current, b).tx = NatSender(packet, current)
      BY <3>3 DEF Translated, PacketInv, Packet
    <3> HIDE DEF b
    <3>5. c \in Copy /\ c.pkt.tx = NatSender(packet, current) /\ c.from = current
      BY <3>2, <3>4 DEF Copy, Packet
    <3> HIDE DEF c
    <3>6. c \in ReturnableCopy BY <3>2, <3>5 DEF ReturnableCopy
    <3>7. queue' \in [Buses -> Seq(ReturnableCopy)]
      <4>1. \A s \in Seq(ReturnableCopy) : Append(s, c) \in Seq(ReturnableCopy) BY <3>6
      <4> QED BY <3>1, <4>1 DEF ReturnInv
    <3>8. UNCHANGED <<packet, current>> \/ ~Routing' BY <2>8 DEF Turn, Routing
    <3> QED BY <2>1, <2>4, <2>6, <3>2, <3>7, <3>8 DEF ReturnInv, Routing
  <2>9. ASSUME NEW b \in Buses, Update(b) PROVE ReturnInv'
    <3>1. PICK k \in DOMAIN queue[b] :
            queue' = [queue EXCEPT ![b] = SubSeq(@, 1, k - 1) \o SubSeq(@, k + 1, Len(@))]
      BY <2>9 DEF Update
    <3>2. queue[b] \in Seq(ReturnableCopy) /\ k \in 1 .. Len(queue[b]) /\ Len(queue[b]) \in Nat
      BY DEF ReturnInv
    <3> DEFINE q == queue[b]
    <3> HIDE DEF q
    <3>3. SubSeq(q, 1, k - 1) \in Seq(ReturnableCopy) /\ SubSeq(q, k + 1, Len(q)) \in Seq(ReturnableCopy)
      <4>1. \A i \in 1 .. k - 1 : q[i] \in ReturnableCopy BY <3>2 DEF q
      <4>2. \A i \in k + 1 .. Len(q) : q[i] \in ReturnableCopy BY <3>2 DEF q
      <4>3. k \in Nat /\ k >= 1 /\ Len(q) \in Nat BY <3>2 DEF q
      <4> QED BY <4>1, <4>2, <4>3
    <3>4. SubSeq(q, 1, k - 1) \o SubSeq(q, k + 1, Len(q)) \in Seq(ReturnableCopy) BY <3>3
    <3>5. queue' \in [Buses -> Seq(ReturnableCopy)] BY <3>1, <3>4 DEF ReturnInv, q
    <3>6. UNCHANGED <<packet, current>> BY <2>9 DEF Update
    <3> QED BY <2>4, <2>6, <3>5, <3>6 DEF ReturnInv, Routing
  <2> QED BY <1>1, <2>1, <2>7, <2>8, <2>9 DEF Next, vars
<1> QED BY <1>1, <1>2 DEF Next, Turn, Update, vars

\* A bus id with a way back is found by a search.
LEMMA WayBackIsFound ==
  ASSUME TableInv, RoutesInv, IdentityInv, NEW id, NEW b \in Buses, WayBack(id, b)
  PROVE  Reaches(id, b) \/ (Unknown(id) /\ Len(table) = TableSize)
<1>1. /\ Len(table) \in Nat /\ DOMAIN table = 1 .. Len(table) /\ BusCount \in Nat
      /\ b \in 0 .. BusCount - 1
  BY RoutingAssumption DEF TableInv, Buses
<1>2. CASE OwnBusId[b] = id
  <2>1. b \in NextAttached(id, b) /\ NextAttached(id, b) \in SUBSET Nat
    BY <1>1, <1>2 DEF NextAttached, Attached, IdentityInv, Buses
  <2>2. Least(NextAttached(id, b)) = b
    <3>1. b \in NextAttached(id, b) /\ \A y \in NextAttached(id, b) : b <= y
      BY <1>1, <2>1 DEF NextAttached
    <3>2. \A x \in NextAttached(id, b) :
            (\A y \in NextAttached(id, b) : x <= y) => x = b
      BY <1>1, <2>1, <3>1
    <3> QED BY <3>1, <3>2 DEF Least
  <2>3. Find(id, b).bus = b BY <1>1, <2>1, <2>2 DEF Find
  <2>4. b \in 0 .. BusCount + Len(table) BY <1>1
  <2> QED BY <2>3, <2>4 DEF Reaches
<1>3. ASSUME NEW k \in DOMAIN table, table[k].bus_id = id, table[k].via = b
      PROVE  Reaches(id, b)
  <2> DEFINE s == BusCount + k - 1
  <2>1. s \in 0 .. BusCount + Len(table) /\ ~(s < BusCount) /\ s - BusCount = k - 1
    BY <1>1
  <2>2. NextKnown(id, s) = {k}
    <3>1. Known(id) = {k} BY <1>3 DEF Known, TableInv, TableIsAMap
    <3> QED BY <1>1, <2>1, <3>1 DEF NextKnown
  <2> HIDE DEF s
  <2>3. Least({k}) = k BY <1>1 DEF Least
  <2>4. Find(id, s).bus = b BY <1>3, <2>1, <2>2, <2>3 DEF Find
  <2> QED BY <2>1, <2>4 DEF Reaches
<1> QED BY <1>2, <1>3 DEF WayBack

\* When packets arrive with hops left, the routes given at the start are a map, and
\* no bus is behind two attached ones, the receiver of a copy a learning router
\* forwarded can answer it: the reply is found the way back, or the table was full
\* when its sender was first heard.
THEOREM ReplyComesBackHolds ==
  ASSUME HopsLeft, OneWayEach,
         \A j, k \in DOMAIN StaticRoutes :
           /\ StaticRoutes[j].bus_id = StaticRoutes[k].bus_id => j = k
           /\ \A b \in Buses : StaticRoutes[k].bus_id # OwnBusId[b]
  PROVE  Spec => []ReplyComesBack
<1>1. Init => TableInv /\ IdentityInv /\ RoutesInv /\ ReturnInv
  <2> SUFFICES ASSUME Init PROVE TableInv /\ IdentityInv /\ RoutesInv /\ ReturnInv OBVIOUS
  <2>1. TableInv /\ IdentityInv
    BY RoutingAssumption DEF Init, TableInv, TableIsAMap, IdentityInv, Routing
  <2>2. RoutesInv BY RoutingAssumption DEF Init, RoutesInv
  <2>3. ReturnInv BY DEF Init, ReturnInv, Routing
  <2> QED BY <2>1, <2>2, <2>3
<1>2. PacketInv /\ IdentityInv /\ [Next]_vars => IdentityInv' BY IdentityInvNext
<1>3. TableInv /\ IdentityInv /\ [Next]_vars => TableInv' BY TableInvNext
<1>4. (Learns => RoutesInv /\ ReturnInv) /\ TableInv /\ PacketInv /\ IdentityInv /\ IdentityInv'
        /\ [Next]_vars => (Learns => RoutesInv' /\ ReturnInv')
  BY ReturnInvNext
<1>5. (Learns => RoutesInv /\ ReturnInv) /\ TableInv /\ IdentityInv => ReplyComesBack
  <2> SUFFICES ASSUME Learns, RoutesInv, ReturnInv, TableInv, IdentityInv,
                      NEW b \in Buses, NEW k \in DOMAIN queue[b]
               PROVE  LET c == queue[b][k]
                      IN  \/ Reaches(c.pkt.tx, c.from)
                          \/ Unknown(c.pkt.tx) /\ Len(table) = TableSize
    BY DEF ReplyComesBack
  <2>1. queue[b] \in Seq(ReturnableCopy) BY DEF ReturnInv
  <2>2. queue[b][k] \in ReturnableCopy BY <2>1
  <2> QED BY <2>2, WayBackIsFound DEF ReturnableCopy, Copy
<1> DEFINE LearnedInv == Learns => RoutesInv /\ ReturnInv
<1>6. Init => LearnedInv BY <1>1
<1>7. LearnedInv /\ TableInv /\ PacketInv /\ IdentityInv /\ IdentityInv' /\ [Next]_vars => LearnedInv'
  BY <1>4
<1>8. LearnedInv /\ TableInv /\ IdentityInv => ReplyComesBack BY <1>5
<1> HIDE DEF LearnedInv
<1> QED BY <1>1, <1>2, <1>3, <1>6, <1>7, <1>8, PacketInvHolds, PTL DEF Spec

=============================================================================
