------------------------ MODULE PJONEthernetTCP_proofs ------------------------
(***************************************************************************)
(* Theorems about PJONEthernetTCP: both ends agree on what the sockets of  *)
(* a link with two sockets opened by one device are for, and in all four   *)
(* modes an acknowledged packet was read by the other device and leaves no *)
(* copy behind.                                                            *)
(*                                                                         *)
(* The second half follows one direction of the traffic at a time: what is *)
(* in the stream from a device (FlightInv) holds because each device has   *)
(* its sockets once (SocketsInv), never the same for both ways (ApartInv), *)
(* and is in a place of the mode it runs in (PlacesInv).  A step is an     *)
(* Effect on the streams; QuietStep, AnswerStep, SendStep and OpensGo are  *)
(* the four kinds there are, and each action is shown to be one of them.   *)
(***************************************************************************)
EXTENDS PJONEthernetTCP, TLAPS

Kinds    == {"A_ACK", "B", "packet", "ack", "head", "count", "foot"}
ItemType == [kind: Kinds, val: Nat]
ConnType == [open: [Peers -> BOOLEAN], up: BOOLEAN, pair: Conns \cup {NoConn},
             q: [Peers -> Seq(ItemType)]]

\* The places in the code each device may be at in this mode.
ConnectorAt == {"idle", "connecting", "connecting_rev", "connected", "write", "ack", "receive"}
ListenerAt  == {"idle", "accepting_rev", "accepted", "write", "ack", "receive"}

LinkInv ==
  /\ conn \in [Conns -> ConnType]
  /\ out \in [Peers -> Conns \cup {NoConn}] /\ in \in [Peers -> Conns \cup {NoConn}]
  /\ backlog \in [Peers -> Seq(Conns)]
  /\ pc \in [Peers -> ConnectorAt \cup ListenerAt]
  /\ pc[A] \in ConnectorAt /\ pc[B] \in ListenerAt

\* A packet is being sent only while there is one.
TodoInv ==
  /\ todo \in [Peers -> Seq(Nat \ {0})] /\ doing \in [Peers -> {"send", "receive"}]
  /\ \A p \in Peers : /\ (pc[p] # "idle" /\ doing[p] = "send") => todo[p] # <<>>
                      /\ pc[p] = "write" => doing[p] = "send"

\* The connections the listening device has, which are not Unused therefore.
Waiting == {backlog[B][i] : i \in DOMAIN backlog[B]}
Has     == Waiting \cup ({in[B], out[B]} \ {NoConn})

HeldInv ==
  /\ \A c \in Has : conn[c].open[B]
  /\ \A i, j \in DOMAIN backlog[B] : backlog[B][i] = backlog[B][j] => i = j
  /\ in[B] \notin Waiting /\ out[B] \notin Waiting
  /\ in[B] # NoConn => in[B] # out[B]

\* A second socket follows the first of its pair, in the queue of the server or
\* when it is accepted; it does so because A opens it next.
Second(cs, c) == cs[c].q[B] # <<>> /\ Head(cs[c].q[B]).kind = "B"
FollowsInv ==
  /\ \A i \in DOMAIN backlog[B] :
       (i > 1 /\ Second(conn, backlog[B][i])) => conn[backlog[B][i]].pair = backlog[B][i - 1]
  /\ pc[B] = "accepting_rev" =>
       /\ in[B] # NoConn /\ out[B] = NoConn
       /\ (backlog[B] # <<>> /\ Second(conn, backlog[B][1])) => conn[backlog[B][1]].pair = in[B]
  /\ pc[A] = "connecting_rev" =>
       /\ out[A] # NoConn
       /\ backlog[B] # <<>> => backlog[B][Len(backlog[B])] = out[A]
       /\ (backlog[B] = <<>> /\ pc[B] = "accepting_rev") => in[B] = out[A]

PairInv == Direction => LinkInv /\ TodoInv /\ HeldInv /\ FollowsInv /\ SocketsPaired

-----------------------------------------------------------------------------
(* What an operation on sockets leaves of a connection of B. *)

\* Connection c is still open at B, and the second of the same pair.
Stays(cs, c) == cs[c].open[B] /\ cs[c].pair = conn[c].pair

\* It has become no second socket by what was written to it either.
Keeps(cs, c) ==
  /\ Stays(cs, c)
  /\ Second(cs, c) => Second(conn, c)

LEMMA PeersDiffer == A # B /\ A \in Peers /\ B \in Peers /\ Other(A) = B /\ Other(B) = A
BY TcpAssumption DEF Peers, Other

LEMMA UnusedType == Unused \in ConnType /\ ~Unused.open[B]
BY DEF Unused, ConnType, Peers, NoConn

\* stop() by A: connections open at B stay so.  By B: those it does not close.
LEMMA ClosedKeeps ==
  ASSUME NEW r \in ConnType, NEW p \in Peers, NEW reset \in BOOLEAN
  PROVE  /\ Closed(r, p, reset) \in ConnType
         /\ (p = A /\ r.open[B]) =>
              LET s == Closed(r, p, reset) IN
              s.open[B] /\ s.pair = r.pair /\ (s.q[B] = r.q[B] \/ s.q[B] = <<>>)
<1>1. CASE ~r.open[Other(p)]
  <2>1. Closed(r, p, reset) = Unused BY <1>1 DEF Closed
  <2> QED BY <2>1, <1>1, UnusedType, PeersDiffer
<1>2. CASE r.open[Other(p)]
  <2> DEFINE q == [d \in Peers |-> IF d = p \/ (reset /\ r.q[p] # <<>>) THEN <<>> ELSE r.q[d]]
  <2>1. q \in [Peers -> Seq(ItemType)] BY DEF ConnType
  <2>2. Closed(r, p, reset) = [r EXCEPT !.open[p] = FALSE, !.q = q] BY <1>2 DEF Closed
  <2> HIDE DEF q
  <2>3. Closed(r, p, reset) \in ConnType BY <2>1, <2>2, ZenonT(30) DEF ConnType
  <2>4. Closed(r, p, reset).pair = r.pair /\ Closed(r, p, reset).q = q
        /\ (p # B => Closed(r, p, reset).open[B] = r.open[B])
    BY <2>1, <2>2, PeersDiffer DEF ConnType
  <2>5. q[B] = r.q[B] \/ q[B] = <<>> BY PeersDiffer DEF q
  <2> QED BY <2>3, <2>4, <2>5, PeersDiffer
<1> QED BY <1>1, <1>2

LEMMA StopsKeeps ==
  ASSUME NEW cs \in [Conns -> ConnType], NEW C, NEW p \in Peers, NEW es \in Stops(cs, C, p)
  PROVE  /\ es \in [Conns -> ConnType]
         /\ \A c \in Conns : p = A \/ c \notin C => /\ Stays(cs, c) => Stays(es, c)
                                                    /\ Keeps(cs, c) => Keeps(es, c)
         /\ \A c \in Conns : c \notin C => es[c] = cs[c]
<1>1. PICK reset \in BOOLEAN : es = [c \in Conns |-> IF c \in C THEN Closed(cs[c], p, reset) ELSE cs[c]]
  BY DEF Stops
<1>2. es \in [Conns -> ConnType] BY <1>1, ClosedKeeps
<1>3. ASSUME NEW c \in Conns, p = A \/ c \notin C, Stays(cs, c)
      PROVE  Stays(es, c) /\ (Keeps(cs, c) => Keeps(es, c))
  <2>1. CASE c \notin C BY <2>1, <1>1, <1>3 DEF Keeps, Stays, Second
  <2>2. CASE c \in C
    <3>1. es[c] = Closed(cs[c], p, reset) /\ cs[c] \in ConnType BY <2>2, <1>1
    <3>2. es[c].open[B] /\ es[c].pair = cs[c].pair /\ (es[c].q[B] = cs[c].q[B] \/ es[c].q[B] = <<>>)
      BY <3>1, <2>2, <1>3, ClosedKeeps DEF Stays
    <3> QED BY <3>2, <1>3 DEF Keeps, Stays, Second
  <2> QED BY <2>1, <2>2
<1>4. \A c \in Conns : c \notin C => es[c] = cs[c] BY <1>1
<1> QED BY <1>2, <1>3, <1>4 DEF Keeps

\* Nothing but the header of a connection makes it a second socket.
LEMMA WritesKeeps ==
  ASSUME NEW cs \in [Conns -> ConnType], NEW c0 \in Conns \cup {NoConn}, NEW p \in Peers,
         NEW item \in ItemType, item.kind # "B"
  PROVE  /\ Writes(cs, c0, p, <<item>>) \in [Conns -> ConnType]
         /\ \A c \in Conns : /\ Stays(cs, c) => Stays(Writes(cs, c0, p, <<item>>), c)
                             /\ Keeps(cs, c) => Keeps(Writes(cs, c0, p, <<item>>), c)
<1> DEFINE ws == Writes(cs, c0, p, <<item>>)
<1>1. CASE ws = cs BY <1>1
<1>2. CASE c0 \in Conns /\ ws = [cs EXCEPT ![c0].q[Other(p)] = @ \o <<item>>]
  <2>1. Other(p) \in Peers BY DEF Other, Peers
  <2>2. cs[c0] \in ConnType BY <1>2
  <2> DEFINE q == cs[c0].q[Other(p)]
  <2>3. q \in Seq(ItemType) BY <2>1, <2>2 DEF ConnType
  <2>4. q \o <<item>> \in Seq(ItemType) /\ q \o <<item>> # <<>>
        /\ Head(q \o <<item>>) = IF q = <<>> THEN item ELSE Head(q)
    BY <2>3
  <2> DEFINE r == [cs[c0] EXCEPT !.q[Other(p)] = q \o <<item>>]
  <2>5. ws = [cs EXCEPT ![c0] = r] BY <1>2
  <2>6. r \in ConnType BY <2>1, <2>2, <2>4 DEF ConnType
  <2>7. /\ r.open = cs[c0].open /\ r.pair = cs[c0].pair
        /\ r.q[B] = cs[c0].q[B] \/ (Other(p) = B /\ r.q[B] = q \o <<item>>)
    BY <2>1, <2>2, PeersDiffer DEF ConnType
  <2> HIDE DEF r, ws
  <2>8. ws \in [Conns -> ConnType] BY <2>5, <2>6
  <2>9. ASSUME NEW c \in Conns, Stays(cs, c) PROVE Stays(ws, c) /\ (Keeps(cs, c) => Keeps(ws, c))
    BY <2>5, <2>7, <2>4, <2>9 DEF Stays, Keeps, Second
  <2> QED BY <2>8, <2>9 DEF ws, Keeps
<1>3. c0 \notin Conns => [cs EXCEPT ![c0].q[Other(p)] = @ \o <<item>>] = cs OBVIOUS
<1> QED BY <1>1, <1>2, <1>3 DEF Writes

LEMMA ReadsKeeps ==
  ASSUME NEW cs \in [Conns -> ConnType], NEW c0 \in Conns \cup {NoConn}, NEW p \in Peers,
         cs[c0].q[p] # <<>>
  PROVE  /\ Reads(cs, c0, p) \in [Conns -> ConnType]
         /\ \A c \in Conns : /\ Stays(cs, c) => Stays(Reads(cs, c0, p), c)
                             /\ (p = A \/ c # c0) /\ Keeps(cs, c) => Keeps(Reads(cs, c0, p), c)
<1> DEFINE rs == Reads(cs, c0, p)
<1>1. CASE c0 \notin Conns
  <2>1. rs = cs BY <1>1 DEF Reads
  <2> QED BY <2>1
<1>2. CASE c0 \in Conns
  <2>1. cs[c0] \in ConnType BY <1>2
  <2> DEFINE q == cs[c0].q[p]
  <2>2. q \in Seq(ItemType) /\ q # <<>> BY <2>1 DEF ConnType
  <2>3. Tail(q) \in Seq(ItemType) BY <2>2
  <2> DEFINE r == [cs[c0] EXCEPT !.q[p] = Tail(q)]
  <2>4. rs = [cs EXCEPT ![c0] = r] BY <1>2 DEF Reads
  <2>5. r \in ConnType BY <2>1, <2>3 DEF ConnType
  <2>6. r.open = cs[c0].open /\ r.pair = cs[c0].pair /\ (p = A => r.q[B] = cs[c0].q[B])
    BY <2>1, PeersDiffer DEF ConnType
  <2> HIDE DEF r, rs
  <2>7. rs \in [Conns -> ConnType] BY <2>4, <2>5
  <2>8. ASSUME NEW c \in Conns, Stays(cs, c)
        PROVE  Stays(rs, c) /\ ((p = A \/ c # c0) /\ Keeps(cs, c) => Keeps(rs, c))
    BY <2>4, <2>6, <2>8 DEF Stays, Keeps, Second
  <2> QED BY <2>7, <2>8 DEF rs, Keeps
<1> QED BY <1>1, <1>2

\* A new connection is none that B has.
LEMMA OpenedKeeps ==
  ASSUME conn \in [Conns -> ConnType], NEW c0 \in Free, NEW header \in {"A_ACK", "B"},
         NEW pair \in Conns \cup {NoConn}
  PROVE  LET os == Opened(A, c0, header, pair) IN
         /\ os \in [Conns -> ConnType] /\ c0 \in Conns /\ ~conn[c0].open[B]
         /\ os[c0].open[B] /\ os[c0].pair = pair /\ os[c0].q[B] = <<Item(header, 0)>>
         /\ \A c \in Conns : conn[c].open[B] => Keeps(os, c)
<1>1. c0 \in Conns /\ conn[c0] = Unused BY DEF Free
<1> DEFINE open == [d \in Peers |-> TRUE]
           r == [Unused EXCEPT !.open = open, !.pair = pair, !.q[B] = <<Item(header, 0)>>]
           os == Opened(A, c0, header, pair)
<1>2. os = [conn EXCEPT ![c0] = r] BY PeersDiffer DEF Opened
<1>3. <<Item(header, 0)>> \in Seq(ItemType) BY DEF Item, ItemType, Kinds
<1>4. open \in [Peers -> BOOLEAN] /\ open[B] BY PeersDiffer
<1>5. r \in ConnType /\ r.open[B] /\ r.pair = pair /\ r.q[B] = <<Item(header, 0)>>
  BY <1>3, <1>4, UnusedType, PeersDiffer DEF ConnType
<1> HIDE DEF r, os
<1>6. os \in [Conns -> ConnType] /\ os[c0] = r BY <1>1, <1>2, <1>5
<1>7. ASSUME NEW c \in Conns, conn[c].open[B] PROVE Keeps(os, c)
  <2>1. c # c0 BY <1>1, <1>7, UnusedType
  <2>2. os[c] = conn[c] BY <2>1, <1>2
  <2> QED BY <2>2, <1>7 DEF Keeps, Stays, Second
<1> QED BY <1>1, <1>5, <1>6, <1>7, UnusedType DEF os

-----------------------------------------------------------------------------
(* The steps in this mode, and their types. *)

\* What either device does on its two sockets.
Transfers(p) ==
  \/ SendBusy(p) \/ SendChecked(p) \/ SendWrites(p) \/ SendEnds(p)
  \/ ReceiveBegins(p) \/ ReceiveEnds(p)

Connecting ==
  \/ \E call \in {"send", "receive"}, idle \in BOOLEAN : StartConnect(A, call, idle)
  \/ Connected(A) \/ ConnectedRev(A) \/ ConnectFails(A)

Accepting ==
  \/ \E call \in {"send", "receive"}, idle \in BOOLEAN : StartAccept(B, call, idle)
  \/ AcceptRev(B)

LEMMA ModeStays == [Next]_vars => UNCHANGED mode
<1>1. ASSUME NEW p \in Peers, NEW call, NEW idle, StartConnect(p, call, idle) \/ StartAccept(p, call, idle)
      PROVE  UNCHANGED mode
  BY <1>1 DEF StartConnect, StartAccept
<1>2. ASSUME NEW p \in Peers, Connected(p) \/ ConnectedRev(p) \/ ConnectFails(p) \/ AcceptRev(p)
                             \/ DiscardWhileConnecting(p)
      PROVE  UNCHANGED mode
  BY <1>2 DEF Connected, ConnectedRev, ConnectFails, AcceptRev, DiscardWhileConnecting
<1>3. ASSUME NEW p \in Peers, Transfers(p) PROVE UNCHANGED mode
  BY <1>3 DEF Transfers, SendBusy, SendChecked, SendWrites, SendEnds, ReceiveBegins, ReceiveEnds
<1>4. ASSUME NEW p \in Peers, \/ MasterWrites(p) \/ MasterReadsAck(p) \/ MasterReadsCount(p) \/ MasterReceives(p)
                             \/ SlaveWaits(p) \/ SlaveReadsHead(p) \/ SlaveReceives(p) \/ SlaveReadsAck(p)
                             \/ SlaveEnds(p) \/ TransferFails(p)
      PROVE  UNCHANGED mode
  BY <1>4 DEF MasterWrites, MasterReadsAck, MasterReadsCount, MasterReceives, SlaveWaits, SlaveReadsHead,
              SlaveReceives, SlaveReadsAck, SlaveEnds, TransferFails, Exchange
<1>5. ASSUME NEW c \in Conns, Reset(c) PROVE UNCHANGED mode BY <1>5 DEF Reset
<1>6. UNCHANGED vars => UNCHANGED mode BY DEF vars
<1> QED BY <1>1, <1>2, <1>3, <1>4, <1>5, <1>6 DEF Next, Start, Continue, Transfers

LEMMA DirectionSteps ==
  ASSUME Direction, LinkInv, [Next]_vars
  PROVE  \/ Connecting \/ Accepting \/ \E p \in Peers : Transfers(p)
         \/ \E c \in Conns : Reset(c)
         \/ UNCHANGED vars
<1>1. mode = "direction" /\ ~Single BY DEF Direction, Single
<1>2. ASSUME NEW p \in Peers, NEW call \in {"send", "receive"}, Start(p, call)
      PROVE  Connecting \/ Accepting
  <2>1. PICK idle \in BOOLEAN : StartConnect(p, call, idle) \/ StartAccept(p, call, idle)
    BY <1>2 DEF Start
  <2>2. CASE StartConnect(p, call, idle)
    <3>1. p = A BY <2>2, <1>1 DEF StartConnect, Connects
    <3> QED BY <3>1, <2>2 DEF Connecting
  <2>3. CASE StartAccept(p, call, idle)
    <3>1. p = B BY <2>3, <1>1 DEF StartAccept, Connects, Peers
    <3> QED BY <3>1, <2>3 DEF Accepting
  <2> QED BY <2>1, <2>2, <2>3
<1>3. ASSUME NEW p \in Peers, DiscardWhileConnecting(p) PROVE FALSE
  BY <1>3 DEF DiscardWhileConnecting
<1>4. ASSUME NEW p \in Peers, Continue(p)
      PROVE  Connecting \/ Accepting \/ Transfers(p)
  <2>1. pc[p] \in ConnectorAt \cup ListenerAt BY DEF LinkInv
  <2>2. ~(MasterWrites(p) \/ MasterReadsAck(p) \/ MasterReadsCount(p) \/ MasterReceives(p))
    BY <1>1, <2>1 DEF MasterWrites, MasterReadsAck, MasterReadsCount, MasterReceives, ConnectorAt, ListenerAt
  <2>3. ~(SlaveWaits(p) \/ SlaveReadsHead(p) \/ SlaveReceives(p) \/ SlaveReadsAck(p) \/ SlaveEnds(p))
    BY <1>1, <2>1
       DEF SlaveWaits, SlaveReadsHead, SlaveReceives, SlaveReadsAck, SlaveEnds, ConnectorAt, ListenerAt
  <2>4. ~TransferFails(p) BY <1>1 DEF TransferFails
  <2>5. CASE Connected(p) \/ ConnectedRev(p) \/ ConnectFails(p)
    <3>1. pc[p] \in {"connecting", "connecting_rev"} BY <2>5 DEF Connected, ConnectedRev, ConnectFails
    <3>2. p = A BY <3>1 DEF LinkInv, ListenerAt, Peers
    <3> QED BY <3>2, <2>5 DEF Connecting
  <2>6. CASE AcceptRev(p)
    <3>1. p = B BY <2>6 DEF AcceptRev, LinkInv, ConnectorAt, Peers
    <3> QED BY <3>1, <2>6 DEF Accepting
  <2> QED BY <1>4, <2>2, <2>3, <2>4, <2>5, <2>6 DEF Continue, Transfers
<1> QED BY <1>2, <1>3, <1>4 DEF Next

\* A call returns: the device is idle, and a packet that was told goes.
LEMMA ReturnsTodo ==
  ASSUME LinkInv, TodoInv, NEW p \in Peers, pc[p] # "idle", NEW ok \in BOOLEAN, NEW copied,
         Returns(p, ok, copied), UNCHANGED doing
  PROVE  TodoInv' /\ pc' = [pc EXCEPT ![p] = "idle"]
<1>1. pc' = [pc EXCEPT ![p] = "idle"] BY DEF Returns, Goes
<1>2. CASE ok /\ doing[p] = "send"
  <2>1. todo' = [todo EXCEPT ![p] = Tail(@)] BY <1>2 DEF Returns
  <2>2. todo[p] \in Seq(Nat \ {0}) /\ todo[p] # <<>> BY <1>2 DEF TodoInv
  <2>3. Tail(todo[p]) \in Seq(Nat \ {0}) BY <2>2
  <2> QED BY <1>1, <2>1, <2>3 DEF TodoInv, LinkInv
<1>3. CASE ~(ok /\ doing[p] = "send")
  <2>1. UNCHANGED todo BY <1>3 DEF Returns
  <2> QED BY <1>1, <2>1 DEF TodoInv, LinkInv
<1> QED BY <1>1, <1>2, <1>3

LEMMA WaitingType == LinkInv => Waiting \subseteq Conns /\ NoConn \notin Waiting
<1> SUFFICES ASSUME LinkInv PROVE Waiting \subseteq Conns /\ NoConn \notin Waiting OBVIOUS
<1>1. backlog[B] \in Seq(Conns) BY PeersDiffer DEF LinkInv
<1>2. Waiting \subseteq Conns BY <1>1 DEF Waiting
<1>3. NoConn \notin Conns BY TcpAssumption
<1> QED BY <1>2, <1>3

\* A step that adds no connection and takes none keeps the pairs.
LEMMA QuietKeeps ==
  ASSUME LinkInv, LinkInv', HeldInv, FollowsInv, SocketsPaired, Direction, UNCHANGED mode,
         UNCHANGED backlog,
         in'[B] \in {in[B], NoConn}, out'[B] \in {out[B], NoConn},
         pc'[B] = "accepting_rev" => pc[B] = "accepting_rev" /\ in'[B] = in[B],
         pc'[A] = "connecting_rev" => pc[A] = "connecting_rev" /\ out'[A] = out[A],
         \A c \in Waiting : Keeps(conn', c),
         in'[B] # NoConn => Stays(conn', in[B]), out'[B] # NoConn => Stays(conn', out[B])
  PROVE  HeldInv' /\ FollowsInv' /\ SocketsPaired'
<1>1. Waiting' = Waiting BY DEF Waiting
<1>2. HeldInv'
  <2>1. \A c \in Has' : conn'[c].open[B] BY <1>1 DEF Has, Keeps, Stays
  <2>2. NoConn \notin Waiting BY WaitingType
  <2> QED BY <1>1, <2>1, <2>2 DEF HeldInv
<1>3. \A c \in Waiting : Second(conn', c) => Second(conn, c) /\ conn'[c].pair = conn[c].pair
  BY DEF Keeps, Stays, Second
<1>4. \A i \in DOMAIN backlog[B] : backlog[B][i] \in Waiting BY DEF Waiting
<1>5. backlog[B] # <<>> => 1 \in DOMAIN backlog[B]
  <2>1. backlog[B] \in Seq(Conns) BY PeersDiffer DEF LinkInv
  <2> QED BY <2>1
<1>6. FollowsInv' BY <1>3, <1>4, <1>5 DEF FollowsInv
<1>7. SocketsPaired'
  <2> SUFFICES ASSUME in'[B] # NoConn, out'[B] # NoConn PROVE conn'[out'[B]].pair = in'[B]
    BY DEF SocketsPaired
  <2> QED BY DEF Stays, SocketsPaired
<1> QED BY <1>2, <1>6, <1>7

\* The socket whose connection ends is given up.
LEMMA TransfersKeep ==
  ASSUME LinkInv, TodoInv, HeldInv, FollowsInv, SocketsPaired, Direction, UNCHANGED mode,
         NEW p \in Peers, Transfers(p)
  PROVE  LinkInv' /\ TodoInv' /\ HeldInv' /\ FollowsInv' /\ SocketsPaired'
<1> USE PeersDiffer
<1>1. mode = "direction" /\ Keep /\ ~Single BY DEF Direction, Keep, Single
<1>2. /\ conn \in [Conns -> ConnType] /\ NoConn \notin Conns
      /\ out \in [Peers -> Conns \cup {NoConn}] /\ in \in [Peers -> Conns \cup {NoConn}]
  BY TcpAssumption DEF LinkInv
<1>3. \A c \in Has : Stays(conn, c) /\ Keeps(conn, c) /\ c \in Conns
  <2>1. backlog[B] \in Seq(Conns) BY DEF LinkInv
  <2>2. Has \subseteq Conns BY <2>1, <1>2 DEF Has, Waiting
  <2> QED BY <2>2 DEF HeldInv, Keeps, Stays, Second
<1>4. pc[p] \in {"connected", "accepted", "write", "ack", "receive"}
  BY DEF Transfers, SendBusy, SendChecked, SendWrites, SendEnds, ReceiveBegins, ReceiveEnds, Linked
<1>5. UNCHANGED backlog
  BY DEF Transfers, SendBusy, SendChecked, SendWrites, SendEnds, ReceiveBegins, ReceiveEnds, sockets
\* It is enough to look at the sockets of the device, and what stays of the others.
<1>6. ASSUME pc' = [pc EXCEPT ![p] = "idle"] \/ (pc[p] \in {"connected", "accepted"} /\ pc' \in {[pc EXCEPT ![p] = "write"], [pc EXCEPT ![p] = "receive"]})
             \/ pc' = [pc EXCEPT ![p] = "ack"],
             conn' \in [Conns -> ConnType],
             out' \in {out, [out EXCEPT ![p] = NoConn]}, in' \in {in, [in EXCEPT ![p] = NoConn]},
             \A c \in Waiting : Keeps(conn', c),
             in'[B] # NoConn => Stays(conn', in[B]), out'[B] # NoConn => Stays(conn', out[B])
      PROVE  LinkInv' /\ HeldInv' /\ FollowsInv' /\ SocketsPaired'
  <2>1. LinkInv' BY <1>5, <1>6, <1>2 DEF LinkInv, ConnectorAt, ListenerAt
  <2>2. in'[B] \in {in[B], NoConn} /\ out'[B] \in {out[B], NoConn} BY <1>6, <1>2
  <2>3. pc'[B] = "accepting_rev" => pc[B] = "accepting_rev" /\ in'[B] = in[B]
    <3>1. CASE p = B BY <3>1, <1>6 DEF LinkInv
    <3>2. CASE p = A BY <3>2, <1>6, <1>2 DEF LinkInv
    <3> QED BY <3>1, <3>2 DEF Peers
  <2>4. pc'[A] = "connecting_rev" => pc[A] = "connecting_rev" /\ out'[A] = out[A]
    <3>1. CASE p = B BY <3>1, <1>6, <1>2 DEF LinkInv
    <3>2. CASE p = A BY <3>2, <1>6 DEF LinkInv
    <3> QED BY <3>1, <3>2 DEF Peers
  <2> QED BY <2>1, <2>2, <2>3, <2>4, <1>5, <1>6, QuietKeeps
<1>7. CASE UNCHANGED sockets /\ (SendChecked(p) \/ ReceiveBegins(p))
  <2>1. UNCHANGED <<conn, out, in>> BY <1>7 DEF sockets
  <2>2. CASE SendChecked(p)
    <3>1. pc' = [pc EXCEPT ![p] = "write"] /\ doing[p] = "send" BY <2>2 DEF SendChecked, Goes
    <3>2. TodoInv' BY <3>1, <2>2, <1>4 DEF SendChecked, TodoInv, LinkInv
    <3> QED BY <3>1, <3>2, <2>1, <1>2, <1>3, <1>4, <1>6, <2>2 DEF Has, SendChecked, Linked
  <2>3. CASE ReceiveBegins(p)
    <3>1. UNCHANGED doing /\ pc[p] # "idle" /\ doing[p] = "receive" /\ Linked(p)
      BY <2>3 DEF ReceiveBegins, Linked
    <3>2. TodoInv' /\ (pc' = [pc EXCEPT ![p] = "idle"] \/ pc' = [pc EXCEPT ![p] = "receive"])
      <4>1. CASE Returns(p, FALSE, 0) BY <4>1, <3>1, ReturnsTodo
      <4>2. CASE UNCHANGED todo /\ Goes(p, "receive") BY <4>2, <3>1 DEF Goes, TodoInv, LinkInv
      <4> QED BY <4>1, <4>2, <2>3 DEF ReceiveBegins
    <3> QED BY <3>1, <3>2, <2>1, <1>2, <1>3, <1>6 DEF Has, Linked
  <2> QED BY <1>7, <2>2, <2>3
<1>8. CASE SendBusy(p)
  <2>1. conn' \in Stops(conn, {}, p) /\ UNCHANGED <<out, in, doing>> /\ Returns(p, FALSE, 0)
    BY <1>8, <1>1 DEF SendBusy
  <2>2. TodoInv' /\ pc' = [pc EXCEPT ![p] = "idle"] BY <2>1, <1>4, ReturnsTodo
  <2>3. conn' \in [Conns -> ConnType] /\ \A c \in Conns : /\ Stays(conn, c) => Stays(conn', c)
                                                          /\ Keeps(conn, c) => Keeps(conn', c)
    BY <2>1, <1>2, StopsKeeps
  <2> QED BY <2>1, <2>2, <2>3, <1>2, <1>3, <1>6 DEF Has
<1>9. CASE SendWrites(p)
  <2> DEFINE item == Item("packet", Head(todo[p]))
  <2>1. conn' = Writes(conn, out[p], p, <<item>>) /\ pc' = [pc EXCEPT ![p] = "ack"]
        /\ UNCHANGED <<out, in, todo, doing>> /\ pc[p] = "write"
    BY <1>9 DEF SendWrites, Goes
  <2>2. todo[p] \in Seq(Nat \ {0}) /\ todo[p] # <<>> BY <2>1 DEF TodoInv
  <2>3. item \in ItemType /\ item.kind # "B"
    <3>1. Head(todo[p]) \in Nat BY <2>2
    <3>2. item.kind = "packet" BY DEF Item
    <3>3. item \in ItemType BY <3>1, <3>2 DEF Item, ItemType, Kinds
    <3>4. "packet" # "B" OBVIOUS
    <3> QED BY <3>2, <3>3, <3>4
  <2>4. TodoInv' BY <2>1 DEF TodoInv, LinkInv
  <2> HIDE DEF item
  <2>5. conn' \in [Conns -> ConnType] /\ \A c \in Conns : /\ Stays(conn, c) => Stays(conn', c)
                                                          /\ Keeps(conn, c) => Keeps(conn', c)
    BY <2>1, <2>3, <1>2, WritesKeeps
  <2> QED BY <2>1, <2>4, <2>5, <1>2, <1>3, <1>6 DEF Has
<1>10. CASE SendEnds(p)
  <2> DEFINE acked == NextIs(p, out[p], "ack")
             cs    == IF acked THEN Reads(conn, out[p], p) ELSE conn
  <2>1. /\ conn' \in Stops(cs, IF acked THEN {} ELSE {out[p]}, p)
        /\ out' = IF acked THEN out ELSE [out EXCEPT ![p] = NoConn]
        /\ UNCHANGED <<in, doing>> /\ Returns(p, acked, 0)
    BY <1>10, <1>1 DEF SendEnds
  <2>2. TodoInv' /\ pc' = [pc EXCEPT ![p] = "idle"] BY <2>1, <1>4, ReturnsTodo DEF NextIs
  <2>3. cs \in [Conns -> ConnType] /\ \A c \in Conns : /\ Stays(conn, c) => Stays(cs, c)
                                                       /\ (p = A \/ c # out[p]) /\ Keeps(conn, c) => Keeps(cs, c)
    <3>1. CASE acked BY <3>1, <1>2, ReadsKeeps DEF NextIs
    <3>2. CASE ~acked BY <3>2, <1>2
    <3> QED BY <3>1, <3>2
  <2> HIDE DEF cs, acked
  <2>4. conn' \in [Conns -> ConnType] /\ \A c \in Conns :
          /\ (p = A \/ acked \/ c # out[p]) /\ Stays(cs, c) => Stays(conn', c)
          /\ (p = A \/ c # out[p]) /\ Keeps(cs, c) => Keeps(conn', c)
    BY <2>1, <2>3, StopsKeeps
  <2>5. \A c \in Waiting : Keeps(conn', c)
    BY <2>3, <2>4, <1>3 DEF Has, HeldInv, Peers
  <2>6. in'[B] # NoConn => Stays(conn', in[B])
    BY <2>1, <2>3, <2>4, <1>2, <1>3 DEF Has, HeldInv, Peers
  <2>7. out'[B] # NoConn => Stays(conn', out[B])
    BY <2>1, <2>3, <2>4, <1>2, <1>3 DEF Has, Peers
  <2> QED BY <2>1, <2>2, <2>4, <2>5, <2>6, <2>7, <1>6
<1>11. CASE ReceiveEnds(p)
  <2>0. UNCHANGED doing BY <1>11 DEF ReceiveEnds
  <2>1. CASE NextIs(p, in[p], "packet")
    <3> DEFINE rs == Reads(conn, in[p], p)
               ws == Writes(rs, in[p], p, <<Item("ack", 0)>>)
    <3>1. conn' \in Stops(ws, {}, p) /\ UNCHANGED <<out, in>> /\ Returns(p, TRUE, Head(conn[in[p]].q[p]).val)
      BY <1>11, <2>1, <1>1 DEF ReceiveEnds
    <3>2. TodoInv' /\ pc' = [pc EXCEPT ![p] = "idle"] BY <3>1, <2>0, <1>4, ReturnsTodo
    <3>3. rs \in [Conns -> ConnType] /\ \A c \in Conns : /\ Stays(conn, c) => Stays(rs, c)
                                                         /\ (p = A \/ c # in[p]) /\ Keeps(conn, c) => Keeps(rs, c)
      BY <2>1, <1>2, ReadsKeeps DEF NextIs
    <3> HIDE DEF rs
    <3>4. Item("ack", 0) \in ItemType /\ Item("ack", 0).kind # "B"
      <4>1. Item("ack", 0).kind = "ack" BY DEF Item
      <4>2. Item("ack", 0) \in ItemType BY DEF Item, ItemType, Kinds
      <4>3. "ack" # "B" OBVIOUS
      <4> QED BY <4>1, <4>2, <4>3
    <3>5. ws \in [Conns -> ConnType] /\ \A c \in Conns : (Stays(rs, c) => Stays(ws, c)) /\ (Keeps(rs, c) => Keeps(ws, c))
      BY <3>3, <3>4, <1>2, WritesKeeps
    <3> HIDE DEF ws
    <3>6. conn' \in [Conns -> ConnType] /\ \A c \in Conns : (Stays(ws, c) => Stays(conn', c)) /\ (Keeps(ws, c) => Keeps(conn', c))
      BY <3>1, <3>5, StopsKeeps
    <3>7. \A c \in Waiting : Keeps(conn', c)
      BY <3>3, <3>5, <3>6, <1>3 DEF Has, HeldInv, Peers
    <3> QED BY <3>1, <3>2, <3>3, <3>5, <3>6, <3>7, <1>2, <1>3, <1>6 DEF Has
  <2>2. CASE ~NextIs(p, in[p], "packet")
    <3>1. /\ conn' \in Stops(conn, {in[p], out[p]}, p) /\ Returns(p, FALSE, 0)
          /\ in' = [in EXCEPT ![p] = NoConn] /\ out' = [out EXCEPT ![p] = NoConn]
      BY <1>11, <2>2 DEF ReceiveEnds
    <3>2. TodoInv' /\ pc' = [pc EXCEPT ![p] = "idle"] BY <3>1, <2>0, <1>4, ReturnsTodo
    <3>3. conn' \in [Conns -> ConnType] /\ \A c \in Conns : p = A \/ c \notin {in[p], out[p]} =>
             (Stays(conn, c) => Stays(conn', c)) /\ (Keeps(conn, c) => Keeps(conn', c))
      BY <3>1, <1>2, StopsKeeps
    <3>4. \A c \in Waiting : Keeps(conn', c)
      BY <3>3, <1>3 DEF Has, HeldInv, Peers
    <3>5. (in'[B] # NoConn => Stays(conn', in[B])) /\ (out'[B] # NoConn => Stays(conn', out[B]))
      BY <3>1, <3>3, <1>2, <1>3 DEF Has, Peers
    <3> QED BY <3>1, <3>2, <3>3, <3>4, <3>5, <1>6
  <2> QED BY <2>1, <2>2
<1>12. SendChecked(p) \/ ReceiveBegins(p) => UNCHANGED sockets BY DEF SendChecked, ReceiveBegins
<1> QED BY <1>7, <1>8, <1>9, <1>10, <1>11, <1>12 DEF Transfers

\* The positions of a sequence with one more, or one less.
LEMMA AppendFacts ==
  ASSUME NEW S, NEW s \in Seq(S), NEW c \in S, NEW n, n = Len(s)
  PROVE  /\ n \in Nat /\ DOMAIN s = 1 .. n /\ (s = <<>> <=> n = 0)
         /\ DOMAIN Append(s, c) = 1 .. n + 1 /\ Append(s, c)[n + 1] = c
         /\ \A i \in 1 .. n : Append(s, c)[i] = s[i] /\ s[i] \in S
         /\ Append(s, c) # <<>> /\ Len(Append(s, c)) = n + 1
OBVIOUS

LEMMA TailFacts ==
  ASSUME NEW S, NEW s \in Seq(S), s # <<>>
  PROVE  \E m \in Nat :
           /\ Len(s) = m + 1 /\ DOMAIN s = 1 .. m + 1 /\ Head(s) = s[1]
           /\ DOMAIN Tail(s) = 1 .. m /\ Len(Tail(s)) = m /\ (Tail(s) = <<>> <=> m = 0)
           /\ \A i \in 1 .. m + 1 : s[i] \in S
           /\ \A i \in 1 .. m : Tail(s)[i] = s[i + 1]
<1> DEFINE m == Len(s) - 1
<1>1. m \in Nat /\ Len(s) = m + 1 OBVIOUS
<1>2. DOMAIN s = 1 .. m + 1 /\ Head(s) = s[1] BY <1>1
<1>3. DOMAIN Tail(s) = 1 .. m /\ Len(Tail(s)) = m /\ (Tail(s) = <<>> <=> m = 0) BY <1>1
<1>4. \A i \in 1 .. m + 1 : s[i] \in S BY <1>2
<1>5. \A i \in 1 .. m : Tail(s)[i] = s[i + 1] BY <1>1
<1> QED BY <1>1, <1>2, <1>3, <1>4, <1>5

\* A connection that A makes is the last of those that wait: the first of a pair,
\* or the second, which A makes next.
LEMMA AppendKeeps ==
  ASSUME LinkInv, LinkInv', HeldInv, FollowsInv, SocketsPaired, Direction, UNCHANGED mode,
         NEW c \in Conns, ~conn[c].open[B], conn'[c].open[B],
         \A d \in Conns : conn[d].open[B] => Keeps(conn', d),
         backlog' = [backlog EXCEPT ![B] = Append(@, c)],
         UNCHANGED <<in[B], out[B], pc[B]>>,
         \/ ~Second(conn', c) /\ out'[A] = c
         \/ pc[A] = "connecting_rev" /\ conn'[c].pair = out[A] /\ pc'[A] # "connecting_rev"
  PROVE  HeldInv' /\ FollowsInv' /\ SocketsPaired'
<1> USE PeersDiffer
<1> DEFINE s == backlog[B]
           n == Len(s)
<1>0. s \in Seq(Conns) /\ s = backlog[B] /\ n = Len(backlog[B]) BY DEF LinkInv
<1>1. n \in Nat BY <1>0
<1>2. /\ backlog'[B] = Append(s, c) /\ DOMAIN s = 1 .. n /\ (s = <<>> <=> n = 0)
      /\ DOMAIN Append(s, c) = 1 .. n + 1 /\ Append(s, c)[n + 1] = c
      /\ \A i \in 1 .. n : Append(s, c)[i] = s[i] /\ s[i] \in Conns
      /\ Append(s, c) # <<>> /\ Len(Append(s, c)) = n + 1
      /\ s = backlog[B] /\ n = Len(backlog[B]) /\ n \in Nat
  <2>1. backlog'[B] = Append(s, c) BY DEF LinkInv
  <2> HIDE DEF s, n
  <2> QED BY <1>0, <2>1, AppendFacts
<1> HIDE DEF s, n
<1>3. \A i \in 1 .. n : s[i] \in Waiting BY <1>2 DEF Waiting
<1>4. Waiting' = Waiting \cup {c} BY <1>2, SMTT(30) DEF Waiting
<1>5. NoConn \notin Conns /\ c # NoConn BY TcpAssumption
<1>6. c \notin Has BY DEF HeldInv
<1>7. HeldInv'
  <2>1. Has' = Has \cup {c} BY <1>4 DEF Has
  <2>2. Has \subseteq Conns BY WaitingType, <1>5 DEF Has, LinkInv
  <2>3. \A d \in Has' : conn'[d].open[B] BY <2>1, <2>2 DEF HeldInv, Keeps, Stays
  <2>4. c \notin Waiting /\ in[B] # c /\ out[B] # c BY <1>5, <1>6 DEF Has
  <2>5. \A i, j \in 1 .. n + 1 : Append(s, c)[i] = Append(s, c)[j] => i = j
    <3>1. \A i \in 1 .. n + 1 : i = n + 1 \/ i \in 1 .. n BY <1>1
    <3> QED BY <3>1, <1>2, <1>3, <2>4 DEF HeldInv
  <2> QED BY <1>2, <1>4, <2>3, <2>4, <2>5 DEF HeldInv
<1>8. \A d \in Waiting : Second(conn', d) => Second(conn, d) /\ conn'[d].pair = conn[d].pair
  <2>1. \A d \in Waiting : d \in Conns /\ conn[d].open[B] BY WaitingType DEF HeldInv, Has
  <2> QED BY <2>1 DEF Keeps, Stays, Second
<1>9. FollowsInv'
  <2>1. ASSUME NEW i \in DOMAIN backlog'[B], i > 1, Second(conn', backlog'[B][i])
        PROVE  conn'[backlog'[B][i]].pair = backlog'[B][i - 1]
    <3>1. CASE i = n + 1
      <4>1. i - 1 \in 1 .. n /\ i - 1 = n BY <3>1, <2>1, <1>1
      <4>2. backlog'[B][i - 1] = s[n] BY <4>1, <1>2
      <4>3. backlog'[B][i] = c BY <3>1, <1>2
      <4> QED BY <4>1, <4>2, <4>3, <2>1, <1>2 DEF FollowsInv
    <3>2. CASE i # n + 1
      <4>1. i \in 1 .. n /\ i - 1 \in 1 .. n BY <3>2, <2>1, <1>1, <1>2
      <4>2. backlog'[B][i] = s[i] /\ backlog'[B][i - 1] = s[i - 1] BY <4>1, <1>2
      <4> QED BY <4>1, <4>2, <2>1, <1>2, <1>3, <1>8, SMTT(30) DEF FollowsInv
    <3> QED BY <3>1, <3>2
  <2>2. ASSUME pc'[B] = "accepting_rev"
        PROVE  /\ in'[B] # NoConn /\ out'[B] = NoConn
               /\ Second(conn', backlog'[B][1]) => conn'[backlog'[B][1]].pair = in'[B]
    <3>1. pc[B] = "accepting_rev" /\ in[B] # NoConn /\ out[B] = NoConn BY <2>2 DEF FollowsInv
    <3>2. CASE n = 0
      <4>1. backlog'[B][1] = c /\ s = <<>> BY <3>2, <1>2
      <4>2. Second(conn', c) => in[B] = out[A] /\ conn'[c].pair = out[A]
        BY <4>1, <3>1, <1>2 DEF FollowsInv
      <4> QED BY <3>1, <4>1, <4>2, <2>2
    <3>3. CASE n # 0
      <4>1. 1 \in 1 .. n /\ s # <<>> BY <3>3, <1>1, <1>2
      <4>2. backlog'[B][1] = s[1] BY <4>1, <1>2
      <4>3. Second(conn, s[1]) => conn[s[1]].pair = in[B] BY <4>1, <3>1, <1>2 DEF FollowsInv
      <4>4. s[1] \in Waiting BY <4>1, <1>3
      <4> QED BY <3>1, <4>2, <4>3, <4>4, <1>8
    <3> QED BY <3>2, <3>3
  <2>3. pc'[A] = "connecting_rev" => out'[A] # NoConn /\ backlog'[B][Len(backlog'[B])] = out'[A]
    BY <1>2, <1>5
  <2> QED BY <2>1, <2>2, <2>3, <1>2 DEF FollowsInv
<1>10. SocketsPaired'
  <2> SUFFICES ASSUME in'[B] # NoConn, out'[B] # NoConn PROVE conn'[out'[B]].pair = in'[B]
    BY DEF SocketsPaired
  <2>1. out[B] \in Has /\ out[B] \in Conns BY DEF Has, LinkInv
  <2> QED BY <2>1 DEF HeldInv, Keeps, Stays, SocketsPaired
<1> QED BY <1>7, <1>9, <1>10

\* B takes the first connection from those that wait, as a socket or to close it.
LEMMA PopKeeps ==
  ASSUME LinkInv, LinkInv', HeldInv, FollowsInv, SocketsPaired, Direction, UNCHANGED mode,
         backlog[B] # <<>>, backlog' = [backlog EXCEPT ![B] = Tail(@)],
         NEW h, h = Head(backlog[B]),
         \A c \in Waiting \ {h} : Keeps(conn', c),
         in'[B] \in {NoConn, h, in[B]}, out'[B] \in {NoConn, h},
         in'[B] # NoConn => in'[B] # out'[B] /\ Stays(conn', in'[B]),
         out'[B] # NoConn => Stays(conn', out'[B]),
         (out'[B] # NoConn /\ in'[B] # NoConn) => conn[out'[B]].pair = in'[B],
         pc'[B] = "accepting_rev" => in'[B] = h /\ out'[B] = NoConn,
         UNCHANGED <<pc[A], out[A]>>
  PROVE  HeldInv' /\ FollowsInv' /\ SocketsPaired'
<1> USE PeersDiffer
<1> DEFINE s == backlog[B]
<1>1. s \in Seq(Conns) /\ s # <<>> /\ s = backlog[B] /\ h = Head(s) BY DEF LinkInv
<1>2. backlog'[B] = Tail(s) BY DEF LinkInv
<1> HIDE DEF s
<1>3. PICK m \in Nat :
         /\ Len(s) = m + 1 /\ DOMAIN s = 1 .. m + 1 /\ Head(s) = s[1]
         /\ DOMAIN Tail(s) = 1 .. m /\ Len(Tail(s)) = m /\ (Tail(s) = <<>> <=> m = 0)
         /\ \A i \in 1 .. m + 1 : s[i] \in Conns
         /\ \A i \in 1 .. m : Tail(s)[i] = s[i + 1]
  BY <1>1, TailFacts
<1>4. \A i \in 1 .. m + 1 : s[i] \in Waiting /\ s[i] \in Conns BY <1>1, <1>3 DEF Waiting
<1>5. \A i, j \in 1 .. m + 1 : s[i] = s[j] => i = j BY <1>1, <1>3 DEF HeldInv
\* Positions after the first.
<1>6. \A i \in 1 .. m : i + 1 \in 1 .. m + 1 /\ i + 1 # 1 /\ i + 1 > 1 /\ (i + 1) - 1 = i
  OBVIOUS
<1>7. \A i \in 1 .. m : backlog'[B][i] = s[i + 1] /\ s[i + 1] \in Waiting /\ s[i + 1] # h
  <2> TAKE i \in 1 .. m
  <2>1. backlog'[B][i] = s[i + 1] BY <1>2, <1>3
  <2>2. s[i + 1] \in Waiting BY <1>4, <1>6
  <2>3. 1 \in 1 .. m + 1 /\ h = s[1] BY <1>1, <1>3
  <2>4. s[i + 1] # h BY <2>3, <1>5, <1>6
  <2> QED BY <2>1, <2>2, <2>4
<1>8. Waiting' \subseteq Waiting \ {h}
  <2> SUFFICES ASSUME NEW c \in Waiting' PROVE c \in Waiting \ {h} OBVIOUS
  <2>1. PICK i \in DOMAIN backlog'[B] : c = backlog'[B][i] BY DEF Waiting
  <2>2. i \in 1 .. m BY <1>2, <1>3
  <2> QED BY <2>1, <2>2, <1>7
<1>9. NoConn \notin Conns BY TcpAssumption
<1>10. HeldInv'
  <2>1. \A c \in Has' : conn'[c].open[B] BY <1>8 DEF Has, Keeps, Stays
  <2>2. \A i, j \in 1 .. m : backlog'[B][i] = backlog'[B][j] => i = j
    <3> TAKE i, j \in 1 .. m
    <3>1. backlog'[B][i] = s[i + 1] /\ backlog'[B][j] = s[j + 1] BY <1>7
    <3>2. i + 1 \in 1 .. m + 1 /\ j + 1 \in 1 .. m + 1 OBVIOUS
    <3>3. s[i + 1] = s[j + 1] => i + 1 = j + 1 BY <3>2, <1>5
    <3> QED BY <3>1, <3>3
  <2>3. NoConn \notin Waiting /\ in[B] \notin Waiting BY WaitingType DEF HeldInv
  <2>4. in'[B] \notin Waiting' /\ out'[B] \notin Waiting' BY <2>3, <1>8
  <2> QED BY <1>2, <1>3, <2>1, <2>2, <2>4 DEF HeldInv
<1>11. \A c \in Waiting \ {h} : Second(conn', c) => Second(conn, c) /\ conn'[c].pair = conn[c].pair
  BY DEF Keeps, Stays, Second
<1>12. \A i \in 1 .. m : Second(conn', backlog'[B][i]) => conn'[backlog'[B][i]].pair = s[i]
  <2> TAKE i \in 1 .. m
  <2>1. s[i + 1] = backlog[B][i + 1] /\ s[i] = backlog[B][(i + 1) - 1] /\ i + 1 \in DOMAIN backlog[B]
    BY <1>1, <1>3, <1>6
  <2>2. Second(conn, s[i + 1]) => conn[s[i + 1]].pair = s[i] BY <2>1, <1>6 DEF FollowsInv
  <2>3. backlog'[B][i] = s[i + 1] /\ s[i + 1] \in Waiting \ {h} BY <1>7
  <2>4. Second(conn', s[i + 1]) => Second(conn, s[i + 1]) /\ conn'[s[i + 1]].pair = conn[s[i + 1]].pair
    BY <2>3, <1>11
  <2> QED BY <2>2, <2>3, <2>4
<1>13. FollowsInv'
  <2>1. ASSUME NEW i \in DOMAIN backlog'[B], i > 1, Second(conn', backlog'[B][i])
        PROVE  conn'[backlog'[B][i]].pair = backlog'[B][i - 1]
    <3>1. i \in 1 .. m BY <1>2, <1>3
    <3>2. i - 1 \in 1 .. m /\ (i - 1) + 1 = i BY <3>1, <2>1
    <3>3. backlog'[B][i - 1] = s[i] BY <3>2, <1>7
    <3> QED BY <3>1, <3>3, <2>1, <1>12
  <2>2. ASSUME pc'[B] = "accepting_rev"
        PROVE  /\ in'[B] # NoConn /\ out'[B] = NoConn
               /\ (backlog'[B] # <<>> /\ Second(conn', backlog'[B][1])) => conn'[backlog'[B][1]].pair = in'[B]
    <3>1. 1 \in 1 .. m + 1 OBVIOUS
    <3>2. in'[B] = s[1] /\ out'[B] = NoConn /\ s[1] # NoConn BY <3>1, <2>2, <1>1, <1>3, <1>4, <1>9
    <3>3. backlog'[B] # <<>> => 1 \in 1 .. m BY <1>2, <1>3
    <3> QED BY <3>2, <3>3, <1>12
  <2>3. ASSUME pc'[A] = "connecting_rev"
        PROVE  /\ out'[A] # NoConn
               /\ backlog'[B] # <<>> => backlog'[B][Len(backlog'[B])] = out'[A]
               /\ (backlog'[B] = <<>> /\ pc'[B] = "accepting_rev") => in'[B] = out'[A]
    <3>1. out[A] # NoConn /\ s[m + 1] = out[A]
      <4>1. pc[A] = "connecting_rev" BY <2>3
      <4>2. out[A] # NoConn /\ backlog[B][Len(backlog[B])] = out[A] BY <4>1 DEF FollowsInv
      <4> QED BY <4>2, <1>1, <1>3
    <3>2. backlog'[B] # <<>> => backlog'[B][Len(backlog'[B])] = s[m + 1]
      <4>1. backlog'[B] # <<>> => m \in 1 .. m /\ Len(backlog'[B]) = m BY <1>2, <1>3
      <4> QED BY <4>1, <1>7
    <3>3. (backlog'[B] = <<>> /\ pc'[B] = "accepting_rev") => in'[B] = s[m + 1]
      BY <1>1, <1>2, <1>3
    <3> QED BY <3>1, <3>2, <3>3
  <2> QED BY <2>1, <2>2, <2>3 DEF FollowsInv
<1>14. SocketsPaired'
  <2> SUFFICES ASSUME in'[B] # NoConn, out'[B] # NoConn PROVE conn'[out'[B]].pair = in'[B]
    BY DEF SocketsPaired
  <2> QED BY DEF Stays
<1> QED BY <1>10, <1>13, <1>14

LEMMA HasKeeps == (LinkInv /\ HeldInv) => \A c \in Has : Stays(conn, c) /\ Keeps(conn, c) /\ c \in Conns
<1> SUFFICES ASSUME LinkInv, HeldInv PROVE \A c \in Has : Stays(conn, c) /\ Keeps(conn, c) /\ c \in Conns
  OBVIOUS
<1>1. Has \subseteq Conns BY WaitingType, PeersDiffer DEF Has, LinkInv
<1> QED BY <1>1 DEF HeldInv, Keeps, Stays

\* What A does when it connects, opens or gives up its sockets.
LEMMA ConnectingKeeps ==
  ASSUME LinkInv, TodoInv, HeldInv, FollowsInv, SocketsPaired, Direction, UNCHANGED mode, Connecting
  PROVE  LinkInv' /\ TodoInv' /\ HeldInv' /\ FollowsInv' /\ SocketsPaired'
<1> USE PeersDiffer
<1>1. mode = "direction" /\ Keep /\ ~Single BY DEF Direction, Keep, Single
<1>2. /\ conn \in [Conns -> ConnType] /\ NoConn \notin Conns /\ pc \in [Peers -> ConnectorAt \cup ListenerAt]
      /\ out \in [Peers -> Conns \cup {NoConn}] /\ in \in [Peers -> Conns \cup {NoConn}]
  BY TcpAssumption DEF LinkInv
<1>3. \A c \in Has : Stays(conn, c) /\ Keeps(conn, c) /\ c \in Conns BY HasKeeps
<1>4. ASSUME NEW call \in {"send", "receive"}, NEW idle \in BOOLEAN, StartConnect(A, call, idle)
      PROVE  LinkInv' /\ TodoInv' /\ HeldInv' /\ FollowsInv' /\ SocketsPaired'
  <2>1. /\ pc[A] = "idle" /\ UNCHANGED <<todo, backlog>> /\ doing' = [doing EXCEPT ![A] = call]
        /\ call = "send" => todo[A] # <<>>
        /\ \E where \in {"connecting", "connected"} : pc' = [pc EXCEPT ![A] = where]
        /\ \E C : conn' \in Stops(conn, C, A)
        /\ out' \in {out, [out EXCEPT ![A] = NoConn]} /\ in' \in {in, [in EXCEPT ![A] = NoConn]}
    BY <1>4, <1>1 DEF StartConnect, Calls, Goes
  <2>2. conn' \in [Conns -> ConnType] /\ \A c \in Conns : /\ Stays(conn, c) => Stays(conn', c)
                                                          /\ Keeps(conn, c) => Keeps(conn', c)
    BY <2>1, <1>2, StopsKeeps
  <2>3. LinkInv' BY <2>1, <2>2, <1>2, ZenonT(30) DEF LinkInv, ConnectorAt
  <2>4. TodoInv' BY <2>1, <1>2 DEF TodoInv
  <2>5. /\ pc'[B] = pc[B] /\ in'[B] = in[B] /\ out'[B] = out[B]
        /\ pc'[A] # "connecting_rev"
    BY <2>1, <1>2
  <2>6. \A c \in Has : Stays(conn', c) /\ Keeps(conn', c) BY <2>2, <1>3
  <2>7. /\ \A c \in Waiting : Keeps(conn', c)
        /\ in'[B] # NoConn => Stays(conn', in[B])
        /\ out'[B] # NoConn => Stays(conn', out[B])
    BY <2>5, <2>6 DEF Has
  <2> QED BY <2>1, <2>3, <2>4, <2>5, <2>7, QuietKeeps
<1>5. CASE Connected(A)
  <2>1. PICK c \in Free : /\ conn' = Opened(A, c, "A_ACK", NoConn) /\ out' = [out EXCEPT ![A] = c]
                          /\ backlog' = [backlog EXCEPT ![B] = Append(@, c)]
    BY <1>5 DEF Connected
  <2>2. pc' = [pc EXCEPT ![A] = "connecting_rev"] /\ pc[A] = "connecting" /\ UNCHANGED <<todo, doing, in>>
    BY <1>5 DEF Connected, Goes
  <2>3. /\ conn' \in [Conns -> ConnType] /\ c \in Conns /\ ~conn[c].open[B]
        /\ conn'[c].open[B] /\ conn'[c].q[B] = <<Item("A_ACK", 0)>>
        /\ \A d \in Conns : conn[d].open[B] => Keeps(conn', d)
    BY <2>1, <1>2, OpenedKeeps
  <2>4. ~Second(conn', c)
    <3>1. Head(<<Item("A_ACK", 0)>>).kind = "A_ACK" BY DEF Item
    <3>2. "A_ACK" # "B" OBVIOUS
    <3> QED BY <2>3, <3>1, <3>2 DEF Second
  <2>5. LinkInv' BY <2>1, <2>2, <2>3, <1>2 DEF LinkInv, ConnectorAt
  <2>6. TodoInv' BY <2>2, <1>2 DEF TodoInv
  <2>7. UNCHANGED <<in[B], out[B], pc[B]>> /\ out'[A] = c BY <2>1, <2>2, <1>2
  <2> QED BY <2>1, <2>3, <2>4, <2>5, <2>6, <2>7, AppendKeeps
<1>6. CASE ConnectedRev(A)
  <2>1. PICK c \in Free : /\ conn' = Opened(A, c, "B", out[A]) /\ in' = [in EXCEPT ![A] = c]
                          /\ backlog' = [backlog EXCEPT ![B] = Append(@, c)]
    BY <1>6 DEF ConnectedRev
  <2>2. pc' = [pc EXCEPT ![A] = "connected"] /\ pc[A] = "connecting_rev" /\ UNCHANGED <<todo, doing, out>>
    BY <1>6 DEF ConnectedRev, Goes
  <2>3. /\ conn' \in [Conns -> ConnType] /\ c \in Conns /\ ~conn[c].open[B]
        /\ conn'[c].open[B] /\ conn'[c].pair = out[A]
        /\ \A d \in Conns : conn[d].open[B] => Keeps(conn', d)
    <3>1. out[A] \in Conns \cup {NoConn} /\ "B" \in {"A_ACK", "B"} BY <1>2
    <3> QED BY <2>1, <3>1, <1>2, OpenedKeeps
  <2>4. LinkInv' BY <2>1, <2>2, <2>3, <1>2 DEF LinkInv, ConnectorAt
  <2>5. TodoInv' BY <2>2, <1>2 DEF TodoInv
  <2>6. UNCHANGED <<in[B], out[B], pc[B]>> /\ pc'[A] # "connecting_rev" BY <2>1, <2>2, <1>2
  <2> QED BY <2>1, <2>2, <2>3, <2>4, <2>5, <2>6, AppendKeeps
<1>7. CASE ConnectFails(A)
  <2>1. /\ conn' \in Stops(conn, {out[A]}, A) /\ out' = [out EXCEPT ![A] = NoConn]
        /\ UNCHANGED <<in, backlog, doing>> /\ Returns(A, FALSE, 0) /\ pc[A] # "idle"
    BY <1>7 DEF ConnectFails
  <2>2. TodoInv' /\ pc' = [pc EXCEPT ![A] = "idle"] BY <2>1, ReturnsTodo
  <2>3. conn' \in [Conns -> ConnType] /\ \A c \in Conns : /\ Stays(conn, c) => Stays(conn', c)
                                                          /\ Keeps(conn, c) => Keeps(conn', c)
    BY <2>1, <1>2, StopsKeeps
  <2>4. LinkInv' BY <2>1, <2>2, <2>3, <1>2 DEF LinkInv, ConnectorAt
  <2>5. pc'[B] = pc[B] /\ in'[B] = in[B] /\ out'[B] = out[B] /\ pc'[A] # "connecting_rev"
    BY <2>1, <2>2, <1>2
  <2>6. \A c \in Has : Stays(conn', c) /\ Keeps(conn', c) BY <2>3, <1>3
  <2>7. /\ \A c \in Waiting : Keeps(conn', c)
        /\ in'[B] # NoConn => Stays(conn', in[B])
        /\ out'[B] # NoConn => Stays(conn', out[B])
    BY <2>5, <2>6 DEF Has
  <2> QED BY <2>1, <2>2, <2>4, <2>5, <2>7, QuietKeeps
<1> QED BY <1>4, <1>5, <1>6, <1>7 DEF Connecting

\* What B does when it accepts: its sockets are closed, and the first connection
\* that waits is a socket of it or is closed.
LEMMA AcceptingKeeps ==
  ASSUME LinkInv, TodoInv, HeldInv, FollowsInv, SocketsPaired, Direction, UNCHANGED mode, Accepting
  PROVE  LinkInv' /\ TodoInv' /\ HeldInv' /\ FollowsInv' /\ SocketsPaired'
<1> USE PeersDiffer
<1> DEFINE h == Head(backlog[B])
<1>1. mode = "direction" /\ Keep /\ ~Single BY DEF Direction, Keep, Single
<1>2. /\ conn \in [Conns -> ConnType] /\ NoConn \notin Conns /\ pc \in [Peers -> ConnectorAt \cup ListenerAt]
      /\ out \in [Peers -> Conns \cup {NoConn}] /\ in \in [Peers -> Conns \cup {NoConn}]
      /\ backlog \in [Peers -> Seq(Conns)] /\ backlog[B] \in Seq(Conns)
  BY TcpAssumption DEF LinkInv
<1>3. \A c \in Has : Stays(conn, c) /\ Keeps(conn, c) /\ c \in Conns BY HasKeeps
<1>4. in[B] \notin Waiting /\ out[B] \notin Waiting /\ (in[B] # NoConn => in[B] \in Has) BY DEF HeldInv, Has
<1>5. ASSUME backlog[B] # <<>>
      PROVE  /\ h \in Waiting /\ h \in Conns /\ h # NoConn /\ h # in[B] /\ h # out[B]
             /\ h = backlog[B][1] /\ Tail(backlog[B]) \in Seq(Conns)
  <2>1. h = backlog[B][1] /\ 1 \in DOMAIN backlog[B] /\ Tail(backlog[B]) \in Seq(Conns) BY <1>2, <1>5
  <2>2. h \in Waiting BY <2>1 DEF Waiting
  <2> QED BY <2>1, <2>2, <1>2, <1>4, WaitingType
<1> HIDE DEF h
\* What is left to show when the queue of the server stays.
<1>6. ASSUME UNCHANGED backlog, LinkInv', UNCHANGED <<pc[A], out[A]>>, pc'[B] # "accepting_rev",
             in'[B] \in {in[B], NoConn}, out'[B] \in {out[B], NoConn},
             \A c \in Waiting : Keeps(conn', c),
             in'[B] # NoConn => Stays(conn', in[B]), out'[B] # NoConn => Stays(conn', out[B])
      PROVE  HeldInv' /\ FollowsInv' /\ SocketsPaired'
  BY <1>6, QuietKeeps
<1>7. ASSUME NEW call \in {"send", "receive"}, NEW idle \in BOOLEAN, StartAccept(B, call, idle)
      PROVE  LinkInv' /\ TodoInv' /\ HeldInv' /\ FollowsInv' /\ SocketsPaired'
  <2> DEFINE drop == idle \/ ~Keep \/ (Direction /\ NoConn \in {in[B], out[B]})
             next == IF backlog[B] = <<>> THEN NoConn ELSE Head(backlog[B])
             good == next # NoConn /\ NextIs(B, next, "A_ACK")
             old  == IF ~drop THEN {} ELSE IF Direction THEN {in[B], out[B]} ELSE {in[B]}
  <2>1. pc[B] = "idle" /\ (call = "send" => todo[B] # <<>>) /\ doing' = [doing EXCEPT ![B] = call]
    BY <1>7 DEF StartAccept, Calls
  <2>2. CASE Goes(B, "accepted") /\ UNCHANGED <<todo, sockets, hand, history>>
    <3>1. pc' = [pc EXCEPT ![B] = "accepted"] /\ UNCHANGED <<todo, conn, out, in, backlog>>
      BY <2>2 DEF Goes, sockets
    <3>2. LinkInv' BY <3>1, <1>2 DEF LinkInv, ListenerAt
    <3>3. TodoInv' BY <3>1, <2>1, <1>2 DEF TodoInv
    <3>4. /\ \A c \in Waiting : Keeps(conn', c)
          /\ in'[B] # NoConn => Stays(conn', in[B])
          /\ out'[B] # NoConn => Stays(conn', out[B])
      BY <3>1, <1>3 DEF Has
    <3>5. UNCHANGED <<pc[A], out[A]>> /\ pc'[B] # "accepting_rev" BY <3>1, <1>2
    <3> QED BY <3>1, <3>2, <3>3, <3>4, <3>5, <1>3, <1>6 DEF Has
  <2>3. CASE ~(~drop /\ in[B] # NoConn)
    <3>1. drop /\ old = {in[B], out[B]} BY <2>3
    <3>2. /\ \E cs \in Stops(conn, {in[B], out[B]}, B) :
               IF good THEN conn' = Reads(cs, next, B) ELSE conn' \in Stops(cs, {next}, B)
          /\ in' = [in EXCEPT ![B] = IF good THEN next ELSE NoConn]
          /\ out' = [out EXCEPT ![B] = NoConn]
          /\ backlog' = IF next = NoConn THEN backlog ELSE [backlog EXCEPT ![B] = Tail(@)]
          /\ IF good THEN Goes(B, "accepting_rev") /\ UNCHANGED todo ELSE Returns(B, FALSE, 0)
      BY <1>7, <1>1, <2>3, <3>1 DEF StartAccept
    <3>3. PICK cs \in Stops(conn, {in[B], out[B]}, B) :
               IF good THEN conn' = Reads(cs, next, B) ELSE conn' \in Stops(cs, {next}, B)
      BY <3>2
    <3>4. /\ cs \in [Conns -> ConnType]
          /\ \A c \in Conns : c \notin {in[B], out[B]} => /\ Stays(conn, c) => Stays(cs, c)
                                                          /\ Keeps(conn, c) => Keeps(cs, c)
                                                          /\ cs[c] = conn[c]
      BY <1>2, StopsKeeps, SMTT(30)
    <3>5. \A c \in Waiting : c \in Conns /\ Stays(cs, c) /\ Keeps(cs, c) /\ cs[c] = conn[c]
      BY <3>4, <1>3, <1>4 DEF Has
    <3>6. pc' = [pc EXCEPT ![B] = IF good THEN "accepting_rev" ELSE "idle"] /\ UNCHANGED todo
      BY <3>2 DEF Goes, Returns
    <3>7. next = IF backlog[B] = <<>> THEN NoConn ELSE h BY DEF h
    <3>8. good => next # NoConn /\ conn[next].q[B] # <<>> BY DEF NextIs
    <3> HIDE DEF drop, old, next, good
    <3>9. TodoInv' BY <3>6, <2>1, <3>8, <1>2 DEF TodoInv
    <3>10. UNCHANGED <<pc[A], out[A]>> BY <3>2, <3>6, <1>2
    <3>11. CASE backlog[B] = <<>>
      <4>1. next = NoConn /\ ~good BY <3>11, <3>7, <3>8
      <4>2. /\ conn' \in [Conns -> ConnType]
            /\ \A c \in Conns : c # NoConn /\ Keeps(cs, c) => Keeps(conn', c)
        BY <4>1, <3>3, <3>4, StopsKeeps
      <4>3. LinkInv' BY <4>1, <4>2, <3>2, <3>6, <1>2 DEF LinkInv, ListenerAt
      <4>4. \A c \in Waiting : Keeps(conn', c) BY <4>2, <3>5, <1>2
      <4>5. in'[B] = NoConn /\ out'[B] = NoConn /\ pc'[B] = "idle" /\ UNCHANGED backlog
        BY <4>1, <3>2, <3>6, <1>2
      <4> QED BY <4>3, <4>4, <4>5, <3>9, <3>10, <1>6
    <3>12. CASE backlog[B] # <<>>
      <4>1. next = h /\ h \in Waiting /\ h \in Conns /\ h # NoConn /\ Tail(backlog[B]) \in Seq(Conns)
        BY <3>12, <3>7, <1>5
      <4>2. backlog' = [backlog EXCEPT ![B] = Tail(@)] BY <4>1, <3>2
      <4>3. /\ conn' \in [Conns -> ConnType]
            /\ \A c \in Conns : c # h /\ Keeps(cs, c) => Keeps(conn', c)
            /\ good => \A c \in Conns : Stays(cs, c) => Stays(conn', c)
        <5>1. CASE good
          <6>1. conn' = Reads(cs, h, B) /\ cs[h].q[B] # <<>> BY <5>1, <4>1, <3>3, <3>5, <3>8
          <6> QED BY <6>1, <4>1, <3>4, ReadsKeeps
        <5>2. CASE ~good
          <6>1. conn' \in Stops(cs, {h}, B) BY <5>2, <4>1, <3>3
          <6> QED BY <6>1, <5>2, <3>4, StopsKeeps
        <5> QED BY <5>1, <5>2
      <4>4. LinkInv' BY <4>1, <4>2, <4>3, <3>2, <3>6, <1>2 DEF LinkInv, ListenerAt
      <4>5. \A c \in Waiting \ {h} : Keeps(conn', c) BY <4>3, <3>5
      <4>6. /\ in'[B] = (IF good THEN h ELSE NoConn) /\ out'[B] = NoConn
            /\ pc'[B] = IF good THEN "accepting_rev" ELSE "idle"
        BY <4>1, <3>2, <3>6, <1>2
      <4>7. in'[B] # NoConn => in'[B] # out'[B] /\ Stays(conn', in'[B])
        BY <4>1, <4>3, <4>6, <3>5
      <4>8. h = Head(backlog[B]) BY DEF h
      <4>9. in'[B] \in {NoConn, h, in[B]} /\ out'[B] \in {NoConn, h}
            /\ (pc'[B] = "accepting_rev" => in'[B] = h /\ out'[B] = NoConn)
        BY <4>6
      <4> QED BY <4>2, <4>4, <4>5, <4>6, <4>7, <4>8, <4>9, <3>9, <3>10, <3>12, PopKeeps
    <3> QED BY <3>11, <3>12
  <2> QED BY <1>7, <2>2, <2>3 DEF StartAccept
<1>8. ASSUME AcceptRev(B)
      PROVE  LinkInv' /\ TodoInv' /\ HeldInv' /\ FollowsInv' /\ SocketsPaired'
  <2>1. pc[B] = "accepting_rev" /\ UNCHANGED doing BY <1>8 DEF AcceptRev
  <2>2. in[B] # NoConn /\ out[B] = NoConn /\ in[B] \in Has BY <2>1, <1>4 DEF FollowsInv
  <2>3. CASE /\ backlog[B] # <<>> /\ NextIs(B, h, "B")
             /\ out' = [out EXCEPT ![B] = h] /\ conn' = Reads(conn, h, B)
             /\ backlog' = [backlog EXCEPT ![B] = Tail(@)] /\ Goes(B, "accepted")
             /\ UNCHANGED <<todo, in>>
    <3>1. pc' = [pc EXCEPT ![B] = "accepted"] BY <2>3 DEF Goes
    <3>2. /\ h \in Waiting /\ h \in Conns /\ h # NoConn /\ h # in[B] /\ h = backlog[B][1]
          /\ Tail(backlog[B]) \in Seq(Conns) /\ h = Head(backlog[B])
      BY <2>3, <1>5 DEF h
    <3>3. conn[h].q[B] # <<>> /\ Second(conn, h) BY <2>3 DEF NextIs, Second
    <3>4. conn[h].pair = in[B] BY <3>2, <3>3, <2>1, <2>3 DEF FollowsInv
    <3>5. /\ conn' \in [Conns -> ConnType]
          /\ \A c \in Conns : (Stays(conn, c) => Stays(conn', c)) /\ (c # h /\ Keeps(conn, c) => Keeps(conn', c))
      BY <2>3, <3>2, <3>3, <1>2, ReadsKeeps
    <3>6. LinkInv' BY <2>3, <3>1, <3>2, <3>5, <1>2 DEF LinkInv, ListenerAt
    <3>7. TodoInv' BY <2>1, <2>3, <3>1, <1>2 DEF TodoInv
    <3>8. in'[B] = in[B] /\ out'[B] = h /\ pc'[B] = "accepted" /\ UNCHANGED <<pc[A], out[A]>>
      BY <2>3, <3>1, <1>2
    <3>9. Stays(conn', in[B]) /\ Stays(conn', h) /\ \A c \in Waiting \ {h} : Keeps(conn', c)
      BY <3>2, <3>5, <2>2, <1>3 DEF Has
    <3> QED BY <2>3, <3>2, <3>4, <3>6, <3>7, <3>8, <3>9, PopKeeps
  <2>4. CASE /\ backlog[B] # <<>> /\ conn' \in Stops(conn, {in[B], h}, B)
             /\ backlog' = [backlog EXCEPT ![B] = Tail(@)]
             /\ in' = [in EXCEPT ![B] = NoConn] /\ Returns(B, FALSE, 0) /\ UNCHANGED out
    <3>1. TodoInv' /\ pc' = [pc EXCEPT ![B] = "idle"] BY <2>1, <2>4, ReturnsTodo
    <3>2. h \in Waiting /\ Tail(backlog[B]) \in Seq(Conns) /\ h = Head(backlog[B]) BY <2>4, <1>5 DEF h
    <3>3. /\ conn' \in [Conns -> ConnType]
          /\ \A c \in Conns : c \notin {in[B], h} /\ Keeps(conn, c) => Keeps(conn', c)
      BY <2>4, <1>2, StopsKeeps
    <3>4. LinkInv' BY <2>4, <3>1, <3>2, <3>3, <1>2 DEF LinkInv, ListenerAt
    <3>5. in'[B] = NoConn /\ out'[B] = NoConn /\ pc'[B] = "idle" /\ UNCHANGED <<pc[A], out[A]>>
      BY <2>2, <2>4, <3>1, <1>2
    <3>6. \A c \in Waiting \ {h} : Keeps(conn', c) BY <3>3, <1>3, <1>4 DEF Has
    <3> QED BY <2>4, <3>1, <3>2, <3>4, <3>5, <3>6, PopKeeps
  <2>5. CASE /\ conn' \in Stops(conn, {in[B]}, B) /\ UNCHANGED <<backlog, out>>
             /\ in' = [in EXCEPT ![B] = NoConn] /\ Returns(B, FALSE, 0)
    <3>1. TodoInv' /\ pc' = [pc EXCEPT ![B] = "idle"] BY <2>1, <2>5, ReturnsTodo
    <3>2. /\ conn' \in [Conns -> ConnType]
          /\ \A c \in Conns : c \notin {in[B]} /\ Keeps(conn, c) => Keeps(conn', c)
      <4>1. conn' \in Stops(conn, {in[B]}, B) BY <2>5
      <4> QED BY <4>1, <1>2, StopsKeeps
    <3>3. LinkInv' BY <2>5, <3>1, <3>2, <1>2 DEF LinkInv, ListenerAt
    <3>4. in'[B] = NoConn /\ out'[B] = NoConn /\ pc'[B] = "idle" /\ UNCHANGED <<pc[A], out[A]>>
      BY <2>2, <2>5, <3>1, <1>2
    <3>5. \A c \in Waiting : Keeps(conn', c) BY <3>2, <1>3, <1>4 DEF Has
    <3> QED BY <2>5, <3>1, <3>3, <3>4, <3>5, <1>6
  <2> QED BY <1>8, <2>3, <2>4, <2>5 DEF AcceptRev, h
<1> QED BY <1>7, <1>8 DEF Accepting

\* What is in flight is lost, and nothing else.
LEMMA ResetKeeps ==
  ASSUME LinkInv, TodoInv, HeldInv, FollowsInv, SocketsPaired, Direction, NEW c0 \in Conns, Reset(c0)
  PROVE  LinkInv' /\ TodoInv' /\ HeldInv' /\ FollowsInv' /\ SocketsPaired'
<1> USE PeersDiffer
<1> DEFINE q == [p \in Peers |-> <<>>]
           r == [conn[c0] EXCEPT !.up = FALSE, !.q = q]
<1>1. conn' = [conn EXCEPT ![c0] = r] /\ UNCHANGED <<mode, todo, pc, doing, out, in, backlog>>
  BY DEF Reset
<1>2. conn[c0] \in ConnType /\ conn \in [Conns -> ConnType] BY DEF LinkInv
<1>3. q \in [Peers -> Seq(ItemType)] /\ q[B] = <<>> OBVIOUS
<1> HIDE DEF q
<1>4. r \in ConnType /\ r.open = conn[c0].open /\ r.pair = conn[c0].pair /\ r.q[B] = <<>>
  BY <1>2, <1>3 DEF ConnType
<1> HIDE DEF r
<1>5. conn' \in [Conns -> ConnType] BY <1>1, <1>2, <1>4
<1>6. \A c \in Conns : (Stays(conn, c) => Stays(conn', c)) /\ (Keeps(conn, c) => Keeps(conn', c))
  BY <1>1, <1>2, <1>4 DEF Stays, Keeps, Second
<1>7. LinkInv' BY <1>1, <1>5 DEF LinkInv
<1>8. TodoInv' BY <1>1 DEF TodoInv
<1>9. \A c \in Has : Stays(conn', c) /\ Keeps(conn', c) BY <1>6, HasKeeps
<1>10. /\ \A c \in Waiting : Keeps(conn', c)
       /\ in'[B] # NoConn => Stays(conn', in[B])
       /\ out'[B] # NoConn => Stays(conn', out[B])
  BY <1>1, <1>9 DEF Has
<1> QED BY <1>1, <1>7, <1>8, <1>10, QuietKeeps

LEMMA PairInvInit == Init => PairInv
<1> SUFFICES ASSUME Init, Direction PROVE LinkInv /\ TodoInv /\ HeldInv /\ FollowsInv /\ SocketsPaired
  BY DEF PairInv
<1> USE PeersDiffer
<1>1. /\ conn = [c \in Conns |-> Unused] /\ out = [p \in Peers |-> NoConn] /\ in = [p \in Peers |-> NoConn]
      /\ backlog = [p \in Peers |-> <<>>] /\ pc = [p \in Peers |-> "idle"]
      /\ doing = [p \in Peers |-> "receive"]
  BY DEF Init
<1>2. LinkInv BY <1>1, UnusedType DEF LinkInv, ConnectorAt, ListenerAt
<1>3. TodoInv
  <2>1. todo \in [Peers -> UNION {ToSend[p] : p \in Peers}] BY DEF Init
  <2>2. UNION {ToSend[p] : p \in Peers} \subseteq Seq(Nat \ {0}) BY TcpAssumption
  <2>3. todo \in [Peers -> Seq(Nat \ {0})] BY <2>1, <2>2
  <2> QED BY <2>3, <1>1 DEF TodoInv
<1>4. Waiting = {} BY <1>1 DEF Waiting
<1>5. HeldInv BY <1>1, <1>4 DEF HeldInv, Has
<1>6. FollowsInv BY <1>1 DEF FollowsInv
<1>7. SocketsPaired BY <1>1 DEF SocketsPaired
<1> QED BY <1>2, <1>3, <1>5, <1>6, <1>7

LEMMA PairInvNext == PairInv /\ [Next]_vars => PairInv'
<1> SUFFICES ASSUME PairInv, [Next]_vars, Direction' PROVE PairInv' BY DEF PairInv
<1>1. UNCHANGED mode => Direction BY DEF Direction
<1>2. UNCHANGED mode BY ModeStays
<1>3. Direction /\ LinkInv /\ TodoInv /\ HeldInv /\ FollowsInv /\ SocketsPaired BY <1>1, <1>2 DEF PairInv
<1>4. CASE Connecting BY <1>4, <1>2, <1>3, ConnectingKeeps DEF PairInv
<1>5. CASE Accepting BY <1>5, <1>2, <1>3, AcceptingKeeps DEF PairInv
<1>6. CASE \E p \in Peers : Transfers(p) BY <1>6, <1>2, <1>3, TransfersKeep DEF PairInv
<1>7. CASE \E c \in Conns : Reset(c) BY <1>7, <1>3, ResetKeeps DEF PairInv
<1>8. CASE UNCHANGED vars
  BY <1>8, <1>3 DEF PairInv, vars, sockets, LinkInv, TodoInv, HeldInv, Has, Waiting, FollowsInv, SocketsPaired
<1> QED BY <1>3, <1>4, <1>5, <1>6, <1>7, <1>8, DirectionSteps

\* Two sockets opened by one device: whatever is reset, however late the server
\* accepts, its sockets are never the first of one connect() and the second of another.
THEOREM SocketsPairedHolds == Spec => []SocketsPaired
<1>1. PairInv => SocketsPaired BY DEF PairInv, SocketsPaired
<1> QED BY <1>1, PairInvInit, PairInvNext, PTL DEF Spec

-----------------------------------------------------------------------------
(* What holds of the sockets of both devices, in every mode. *)

Types ==
  /\ mode \in {"short", "keep", "direction", "single"}
  /\ todo \in [Peers -> Seq(Nat \ {0})] /\ doing \in [Peers -> {"send", "receive"}]
  /\ pc \in [Peers -> {"idle", "connecting", "connecting_rev", "connected", "accepting_rev", "accepted",
                       "write", "ack", "receive", "m_ack", "m_count", "m_recv",
                       "s_head", "s_recv", "s_ack", "s_foot"}]
  /\ out \in [Peers -> Conns \cup {NoConn}] /\ in \in [Peers -> Conns \cup {NoConn}]
  /\ conn \in [Conns -> ConnType] /\ backlog \in [Peers -> Seq(Conns)]
  /\ hand \in [Peers -> Nat]
  /\ got \in [Peers -> SUBSET Nat] /\ frames \in [Peers -> SUBSET Nat] /\ told \in [Peers -> SUBSET Nat]

\* Where a device may be in this mode, and the sockets it has there.
At(p) ==
  IF Single THEN IF p = A THEN {"idle", "connecting", "connected", "m_ack", "m_count", "m_recv"}
                 ELSE {"idle", "accepted", "s_head", "s_recv", "s_ack", "s_foot"}
  ELSE IF Direction THEN IF p = A THEN ConnectorAt ELSE ListenerAt
  ELSE {"idle", "connecting", "connected", "accepted", "write", "ack", "receive"}

PlaceOf(p) ==
  /\ pc[p] \in At(p)
  /\ pc[p] \in {"write", "ack", "m_ack", "s_ack"} => doing[p] = "send"
  /\ pc[p] = "receive" => doing[p] = "receive"
  /\ (pc[p] # "idle" /\ doing[p] = "send") => todo[p] # <<>>
  /\ pc[p] = "connecting" => out[p] = NoConn
  /\ (pc[p] = "connecting_rev" \/ (Direction /\ pc[p] = "connecting")) => in[p] = NoConn
  /\ pc[p] = "accepting_rev" => out[p] = NoConn
  /\ pc[p] \in {"connecting_rev", "connected", "write", "ack", "m_ack", "m_count", "m_recv"} => out[p] # NoConn
  /\ (Direction /\ pc[p] = "accepted") => out[p] # NoConn
  /\ pc[p] \in {"accepting_rev", "accepted", "receive", "s_head", "s_recv", "s_ack", "s_foot"} => in[p] # NoConn
  /\ (~Single /\ ~Direction /\ pc[p] \in {"connecting", "connected"}) => doing[p] = "send"
  /\ (~Single /\ ~Direction /\ pc[p] = "accepted") => doing[p] = "receive"
  /\ (Single /\ p = A) => in[p] = NoConn
  /\ (Single /\ p = B) => out[p] = NoConn
PlacesInv == /\ \A p \in Peers : PlaceOf(p)
             /\ (Single \/ Direction) => backlog[A] = <<>>

\* A device has its two sockets and those it has not accepted yet, each once.
Pending(p) == {backlog[p][k] : k \in DOMAIN backlog[p]}
Holds(p)   == Pending(p) \cup ({in[p], out[p]} \ {NoConn})

SocketsOf(p) ==
  /\ \A c \in Conns : conn[c].open[p] <=> c \in Holds(p)
  /\ \A j, k \in DOMAIN backlog[p] : backlog[p][j] = backlog[p][k] => j = k
  /\ in[p] \notin Pending(p) /\ out[p] \notin Pending(p)
  /\ in[p] = out[p] => in[p] = NoConn
  /\ \A c \in Conns : ~conn[c].open[p] => conn[c].q[p] = <<>>
  /\ \A c \in Pending(p) : conn[c].q[Other(p)] = <<>>
SocketsInv == \A p \in Peers : SocketsOf(p)

\* What is the socket of one device for the packets it sends is that of the other
\* for those it receives.
ApartOf(p) ==
  /\ out[p] # NoConn => out[p] # out[Other(p)]
  /\ in[p] # NoConn => in[p] # in[Other(p)]
  /\ \A c \in Pending(p) : /\ c \notin Pending(Other(p))
                           /\ NextIs(p, c, "A_ACK") => c # in[Other(p)]
                           /\ NextIs(p, c, "B") => c # out[Other(p)]
ApartInv == \A p \in Peers : ApartOf(p)

\* The socket on which p sends, and the one on which it receives.
Line(p) == IF Single /\ p = B THEN in[p] ELSE out[p]
Port(p) == IF Single /\ p = A THEN out[p] ELSE in[p]

Items(s)          == {s[k] : k \in DOMAIN s}
Contains(s, kind) == \E i \in Items(s) : i.kind = kind
Once(s, kind)     == \A j, k \in DOMAIN s : (s[j].kind = kind /\ s[k].kind = kind) => j = k

Carries(c, p, kind) == Contains(conn[c].q[p], kind)
Result(p)  == IF Single THEN got[p] ELSE frames[p]
Waits(p)   == pc[p] \in {"ack", "m_ack", "s_ack"}
AnswerRead(p) == pc[p] \in {"m_count", "m_recv", "s_foot"} /\ doing[p] = "send"
Arrived(p) == /\ todo[p] # <<>> /\ Head(todo[p]) \in Result(Other(p))
              /\ \A c \in Conns : ~Carries(c, Other(p), "packet")

F1(p) == \A c \in Conns : \A i \in Items(conn[c].q[Other(p)]) :
           i.kind = "packet" => todo[p] # <<>> /\ i.val = Head(todo[p])
F2(p) == \A c \in Conns : Carries(c, Other(p), "packet") => c = Port(Other(p)) \/ c \in Pending(Other(p))
F3(p) == \A j, k \in DOMAIN backlog[Other(p)] :
           (backlog[Other(p)][k] = out[p] /\ j > k) => ~Carries(backlog[Other(p)][j], Other(p), "packet")
F4(p) == (in[Other(p)] # NoConn /\ in[Other(p)] = out[p]) =>
           \A c \in Pending(Other(p)) : ~Carries(c, Other(p), "packet")
F5(p) == \A c \in Conns : (c = Line(p) /\ Carries(c, Other(p), "packet")) =>
           Waits(p) /\ Once(conn[c].q[Other(p)], "packet") /\ ~Carries(c, p, "ack")
F6(p) == \A c \in Conns : Carries(c, p, "ack") =>
           c = Line(p) /\ Waits(p) /\ Arrived(p) /\ Once(conn[c].q[p], "ack")
F7(p) == AnswerRead(p) => Arrived(p)
F8(p) == Direction => \A c \in Pending(Other(p)) :
           NextIs(Other(p), c, "B") => ~Carries(c, Other(p), "packet")
FlightOf(p) == F1(p) /\ F2(p) /\ F3(p) /\ F4(p) /\ F5(p) /\ F6(p) /\ F7(p) /\ F8(p)
FlightInv == \A p \in Peers : FlightOf(p)

\* Packets to send differ from each other and from those told.
FreshInv == \A p \in Peers :
  /\ \A j, k \in DOMAIN todo[p] : todo[p][j] = todo[p][k] => j = k
  /\ \A k \in DOMAIN todo[p] : todo[p][k] \notin told[p]

-----------------------------------------------------------------------------
(* Sequences of items. *)

\* Of a kind, u holds some of what s holds.
Fewer(u, s, kind) ==
  /\ \A i \in Items(u) : i.kind = kind => i \in Items(s)
  /\ Once(s, kind) => Once(u, kind)

LEMMA NoItems == Items(<<>>) = {} /\ \A kind : ~Contains(<<>>, kind) /\ Once(<<>>, kind)
<1>1. <<>> \in Seq(ItemType) /\ Len(<<>>) = 0 OBVIOUS
<1>2. DOMAIN <<>> = {} BY <1>1
<1> QED BY <1>2 DEF Items, Contains, Once

LEMMA FewerOf ==
  ASSUME NEW s, NEW u, u \in {s, <<>>}
  PROVE  \A kind : Fewer(u, s, kind)
BY NoItems DEF Fewer

LEMMA FewerHas ==
  ASSUME NEW s, NEW u, NEW kind, Fewer(u, s, kind), Contains(u, kind)
  PROVE  Contains(s, kind)
BY DEF Fewer, Contains

LEMMA TailItems ==
  ASSUME NEW s \in Seq(ItemType), s # <<>>, NEW kind
  PROVE  /\ Tail(s) \in Seq(ItemType) /\ Fewer(Tail(s), s, kind)
         /\ Head(s) \in Items(s) /\ Head(s) \in ItemType
         /\ (Head(s).kind = kind /\ Once(s, kind)) => ~Contains(Tail(s), kind)
<1>1. /\ Tail(s) \in Seq(ItemType) /\ Len(Tail(s)) = Len(s) - 1 /\ Len(s) \in Nat /\ 1 <= Len(s)
      /\ Head(s) = s[1] /\ \A k \in 1 .. Len(s) - 1 : Tail(s)[k] = s[k + 1]
  OBVIOUS
<1>2. DOMAIN s = 1 .. Len(s) /\ DOMAIN Tail(s) = 1 .. Len(s) - 1 BY <1>1
<1>3. \A k \in DOMAIN Tail(s) : k \in Nat /\ k + 1 \in DOMAIN s /\ k + 1 # 1 /\ Tail(s)[k] = s[k + 1]
  BY <1>1, <1>2
<1>4. 1 \in DOMAIN s BY <1>1, <1>2
<1>5. Once(s, kind) => Once(Tail(s), kind)
  <2> SUFFICES ASSUME Once(s, kind), NEW j \in DOMAIN Tail(s), NEW k \in DOMAIN Tail(s),
                      Tail(s)[j].kind = kind, Tail(s)[k].kind = kind
               PROVE  j = k
    BY DEF Once
  <2>1. j + 1 = k + 1 BY <1>3 DEF Once
  <2> QED BY <2>1, <1>3
<1>6. Fewer(Tail(s), s, kind) BY <1>3, <1>5 DEF Fewer, Items
<1>7. (Head(s).kind = kind /\ Once(s, kind)) => ~Contains(Tail(s), kind)
  BY <1>1, <1>3, <1>4 DEF Once, Contains, Items
<1>8. Head(s) \in Items(s) /\ Head(s) \in ItemType BY <1>1, <1>4 DEF Items
<1> QED BY <1>1, <1>6, <1>7, <1>8

LEMMA JoinItems ==
  ASSUME NEW s \in Seq(ItemType), NEW t \in Seq(ItemType), NEW kind
  PROVE  /\ s \o t \in Seq(ItemType) /\ Items(s \o t) = Items(s) \cup Items(t)
         /\ ~Contains(t, kind) => Fewer(s \o t, s, kind)
         /\ (~Contains(s, kind) /\ Once(t, kind)) => Once(s \o t, kind)
         /\ s # <<>> => s \o t # <<>> /\ Head(s \o t) = Head(s)
<1> DEFINE u == s \o t
<1>1. /\ u \in Seq(ItemType) /\ Len(u) = Len(s) + Len(t) /\ Len(s) \in Nat /\ Len(t) \in Nat
      /\ \A k \in 1 .. Len(u) : u[k] = IF k <= Len(s) THEN s[k] ELSE t[k - Len(s)]
      /\ DOMAIN u = 1 .. Len(u) /\ DOMAIN s = 1 .. Len(s) /\ DOMAIN t = 1 .. Len(t)
  OBVIOUS
<1> HIDE DEF u
<1>2. ASSUME NEW k \in DOMAIN u
      PROVE  \/ k \in DOMAIN s /\ u[k] = s[k]
             \/ k - Len(s) \in DOMAIN t /\ k \in Int /\ u[k] = t[k - Len(s)]
  <2>1. k \in Int /\ 1 <= k /\ k <= Len(s) + Len(t) BY <1>1
  <2>2. CASE k <= Len(s) BY <2>1, <2>2, <1>1
  <2>3. CASE ~(k <= Len(s)) BY <2>1, <2>3, <1>1
  <2> QED BY <2>2, <2>3
<1>3. \A k \in DOMAIN s : k \in DOMAIN u /\ u[k] = s[k] BY <1>1
<1>4. \A k \in DOMAIN t : k + Len(s) \in DOMAIN u /\ u[k + Len(s)] = t[k]
  <2> TAKE k \in DOMAIN t
  <2>1. k \in Int /\ 1 <= k /\ k <= Len(t) BY <1>1
  <2>2. k + Len(s) \in 1 .. Len(u) /\ ~(k + Len(s) <= Len(s)) /\ (k + Len(s)) - Len(s) = k BY <2>1, <1>1
  <2> QED BY <2>2, <1>1
<1>5. Items(u) = Items(s) \cup Items(t)
  <2>1. \A i \in Items(u) : i \in Items(s) \cup Items(t) BY <1>2 DEF Items
  <2>2. \A i \in Items(s) \cup Items(t) : i \in Items(u) BY <1>3, <1>4 DEF Items
  <2> QED BY <2>1, <2>2
<1>6. ASSUME ~Contains(t, kind) PROVE Fewer(u, s, kind)
  <2>1. \A k \in DOMAIN u : u[k].kind = kind => k \in DOMAIN s /\ u[k] = s[k]
    BY <1>2, <1>6 DEF Contains, Items
  <2>2. Once(s, kind) => Once(u, kind) BY <2>1 DEF Once
  <2> QED BY <2>2, <1>5, <1>6 DEF Fewer, Contains
<1>7. ASSUME ~Contains(s, kind), Once(t, kind) PROVE Once(u, kind)
  <2>1. \A k \in DOMAIN u : u[k].kind = kind => k - Len(s) \in DOMAIN t /\ k \in Int /\ t[k - Len(s)].kind = kind
    BY <1>2, <1>7 DEF Contains, Items
  <2> SUFFICES ASSUME NEW j \in DOMAIN u, NEW k \in DOMAIN u, u[j].kind = kind, u[k].kind = kind
               PROVE  j = k
    BY DEF Once
  <2>2. j - Len(s) = k - Len(s) BY <2>1, <1>7 DEF Once
  <2> QED BY <2>1, <2>2, <1>1
<1>8. s # <<>> => u # <<>> /\ Head(u) = Head(s)
  <2> SUFFICES ASSUME s # <<>> PROVE u # <<>> /\ Head(u) = Head(s) OBVIOUS
  <2>1. 1 \in DOMAIN s /\ Head(s) = s[1] BY <1>1
  <2>2. u # <<>> /\ Head(u) = u[1] BY <2>1, <1>1
  <2> QED BY <2>1, <2>2, <1>3
<1> QED BY <1>1, <1>5, <1>6, <1>7, <1>8 DEF u

\* What is written at once: one or two items, or three.
LEMMA FewItems ==
  /\ Items(<<>>) = {} /\ <<>> \in Seq(ItemType)
  /\ \A i \in ItemType : /\ <<i>> \in Seq(ItemType) /\ Items(<<i>>) = {i} /\ Head(<<i>>) = i /\ Len(<<i>>) = 1
                         /\ \A kind : Once(<<i>>, kind)
<1>1. <<>> \in Seq(ItemType) OBVIOUS
<1>2. ASSUME NEW i \in ItemType
      PROVE  /\ <<i>> \in Seq(ItemType) /\ Items(<<i>>) = {i} /\ Head(<<i>>) = i /\ Len(<<i>>) = 1
             /\ \A kind : Once(<<i>>, kind)
  <2>1. <<i>> \in Seq(ItemType) /\ Len(<<i>>) = 1 /\ <<i>>[1] = i /\ Head(<<i>>) = i OBVIOUS
  <2>2. DOMAIN <<i>> = {1} BY <2>1
  <2> HIDE DEF Items
  <2>3. Items(<<i>>) = {i} BY <2>1, <2>2 DEF Items
  <2> QED BY <2>1, <2>2, <2>3 DEF Once
<1> QED BY <1>1, <1>2, NoItems

-----------------------------------------------------------------------------
(* What a device does to its connections: it reads an item of c0, writes   *)
(* others to it and closes those of C.  What is in flight may be lost.     *)

Effect(cs, es, s, c0, reads, items, C) ==
  \A c \in Conns :
    /\ es[c].open[s] <=> (cs[c].open[s] /\ c \notin C)
    /\ es[c].open[Other(s)] <=> cs[c].open[Other(s)]
    /\ es[c].q[s] \in {<<>>, IF reads /\ c = c0 THEN Tail(cs[c].q[s]) ELSE cs[c].q[s]}
    /\ c \in C => es[c].q[s] = <<>>
    /\ \/ es[c].q[Other(s)] \in {<<>>, cs[c].q[Other(s)]}
       \/ /\ c = c0 /\ items # <<>> /\ cs[c].open[Other(s)]
          /\ es[c].q[Other(s)] = cs[c].q[Other(s)] \o items

LEMMA OtherPeer == \A p \in Peers : Other(p) \in Peers /\ Other(p) # p /\ Other(Other(p)) = p
BY TcpAssumption DEF Peers, Other

LEMMA NoEffect ==
  ASSUME NEW cs, NEW s, NEW c0
  PROVE  Effect(cs, cs, s, c0, FALSE, <<>>, {})
BY DEF Effect

LEMMA StopsEffect ==
  ASSUME NEW cs \in [Conns -> ConnType], NEW C, NEW s \in Peers, NEW es \in Stops(cs, C, s), NEW c0
  PROVE  es \in [Conns -> ConnType] /\ Effect(cs, es, s, c0, FALSE, <<>>, C)
<1>1. PICK reset \in BOOLEAN : es = [c \in Conns |-> IF c \in C THEN Closed(cs[c], s, reset) ELSE cs[c]]
  BY DEF Stops
<1>2. es \in [Conns -> ConnType] BY <1>1, ClosedKeeps
<1> DEFINE o == Other(s)
<1>3. o \in Peers /\ o # s BY OtherPeer
<1>4. ASSUME NEW c \in Conns, c \in C
      PROVE  /\ ~es[c].open[s] /\ (es[c].open[o] <=> cs[c].open[o])
             /\ es[c].q[s] = <<>> /\ es[c].q[o] \in {<<>>, cs[c].q[o]}
  <2> DEFINE r == cs[c]
  <2>1. es[c] = Closed(r, s, reset) BY <1>1, <1>4
  <2>2. r \in ConnType OBVIOUS
  <2> HIDE DEF r
  <2>3. CASE ~r.open[o]
    <3>1. es[c] = Unused BY <2>1, <2>3 DEF Closed
    <3>2. ~Unused.open[s] /\ ~Unused.open[o] /\ Unused.q[s] = <<>> /\ Unused.q[o] = <<>>
      BY <1>3 DEF Unused
    <3> QED BY <3>1, <3>2, <2>3 DEF r
  <2>4. CASE r.open[o]
    <3> DEFINE q == [d \in Peers |-> IF d = s \/ (reset /\ r.q[s] # <<>>) THEN <<>> ELSE r.q[d]]
    <3>1. q[s] = <<>> /\ q[o] \in {<<>>, r.q[o]} BY <1>3
    <3>2. es[c] = [r EXCEPT !.open[s] = FALSE, !.q = q] BY <2>1, <2>4 DEF Closed
    <3> HIDE DEF q
    <3>3. es[c].q = q /\ ~es[c].open[s] /\ es[c].open[o] = r.open[o] BY <3>2, <2>2, <1>3 DEF ConnType
    <3> QED BY <3>1, <3>3 DEF r
  <2> QED BY <2>3, <2>4
<1>5. \A c \in Conns : c \notin C => es[c] = cs[c] BY <1>1
<1> HIDE DEF o
<1>6. Effect(cs, es, s, c0, FALSE, <<>>, C) BY <1>4, <1>5 DEF Effect, o
<1> QED BY <1>2, <1>6

LEMMA ReadsEffect ==
  ASSUME NEW cs \in [Conns -> ConnType], NEW s \in Peers, NEW c0 \in Conns, cs[c0].q[s] # <<>>
  PROVE  /\ Reads(cs, c0, s) \in [Conns -> ConnType]
         /\ Effect(cs, Reads(cs, c0, s), s, c0, TRUE, <<>>, {})
         /\ \A c \in Conns : /\ Reads(cs, c0, s)[c].q[Other(s)] = cs[c].q[Other(s)]
                             /\ Reads(cs, c0, s)[c].open = cs[c].open
                             /\ Reads(cs, c0, s)[c].up = cs[c].up
<1> DEFINE q == cs[c0].q[s]
           r == [cs[c0] EXCEPT !.q[s] = Tail(q)]
           rs == Reads(cs, c0, s)
<1>1. cs[c0] \in ConnType OBVIOUS
<1>2. q \in Seq(ItemType) /\ q # <<>> BY <1>1 DEF ConnType
<1>3. Tail(q) \in Seq(ItemType) BY <1>2
<1>4. rs = [cs EXCEPT ![c0] = r] BY DEF Reads
<1>5. /\ r \in ConnType /\ r.open = cs[c0].open /\ r.up = cs[c0].up
      /\ r.q[s] = Tail(q) /\ r.q[Other(s)] = cs[c0].q[Other(s)]
  BY <1>1, <1>3, OtherPeer DEF ConnType
<1> HIDE DEF r, rs
<1>6. rs \in [Conns -> ConnType] BY <1>4, <1>5
<1>7. rs[c0] = r /\ \A c \in Conns : c # c0 => rs[c] = cs[c] BY <1>4
<1>8. Effect(cs, rs, s, c0, TRUE, <<>>, {}) BY <1>5, <1>7 DEF Effect
<1> QED BY <1>5, <1>6, <1>7, <1>8 DEF rs

LEMMA WritesEffect ==
  ASSUME NEW cs \in [Conns -> ConnType], NEW s \in Peers, NEW c0 \in Conns, NEW items \in Seq(ItemType)
  PROVE  /\ Writes(cs, c0, s, items) \in [Conns -> ConnType]
         /\ Effect(cs, Writes(cs, c0, s, items), s, c0, FALSE, items, {})
         /\ \A c \in Conns : Writes(cs, c0, s, items)[c].q[s] = cs[c].q[s]
<1> DEFINE o == Other(s)
           q == cs[c0].q[o]
           ws == Writes(cs, c0, s, items)
<1>1. o \in Peers /\ o # s BY OtherPeer
<1>2. CASE cs[c0].up /\ cs[c0].open[o]
  <2> DEFINE r == [cs[c0] EXCEPT !.q[o] = q \o items]
  <2>1. cs[c0] \in ConnType OBVIOUS
  <2>2. q \in Seq(ItemType) BY <1>1, <2>1 DEF ConnType
  <2>3. q \o items \in Seq(ItemType) /\ (items = <<>> => q \o items = q) BY <2>2
  <2>4. ws = [cs EXCEPT ![c0] = r] BY <1>2 DEF Writes
  <2>5. /\ r \in ConnType /\ r.open = cs[c0].open /\ r.q[s] = cs[c0].q[s] /\ r.q[o] = q \o items
    BY <1>1, <2>1, <2>3 DEF ConnType
  <2> HIDE DEF r, ws
  <2>6. ws \in [Conns -> ConnType] BY <2>4, <2>5
  <2>7. ws[c0] = r /\ \A c \in Conns : c # c0 => ws[c] = cs[c] BY <2>4
  <2>8. Effect(cs, ws, s, c0, FALSE, items, {}) BY <2>3, <2>5, <2>7, <1>2 DEF Effect
  <2> QED BY <2>5, <2>6, <2>7, <2>8 DEF ws
<1>3. CASE ~(cs[c0].up /\ cs[c0].open[o])
  <2>1. ws = cs BY <1>3 DEF Writes
  <2>2. Effect(cs, cs, s, c0, FALSE, items, {}) BY DEF Effect
  <2> QED BY <2>1, <2>2
<1> QED BY <1>2, <1>3

LEMMA EffectThen ==
  ASSUME NEW cs, NEW ms, NEW es, NEW s \in Peers, NEW c0, NEW items, NEW C, NEW D,
         NEW r1 \in BOOLEAN, NEW r2 \in BOOLEAN,
         Effect(cs, ms, s, c0, r1, items, C), Effect(ms, es, s, c0, r2, <<>>, D),
         r2 => ~r1 /\ c0 \notin C /\ ms[c0].q[s] = cs[c0].q[s]
  PROVE  Effect(cs, es, s, c0, r1 \/ r2, items, C \cup D)
<1> SUFFICES ASSUME NEW c \in Conns
    PROVE  /\ es[c].open[s] <=> (cs[c].open[s] /\ c \notin C \cup D)
           /\ es[c].open[Other(s)] <=> cs[c].open[Other(s)]
           /\ es[c].q[s] \in {<<>>, IF (r1 \/ r2) /\ c = c0 THEN Tail(cs[c].q[s]) ELSE cs[c].q[s]}
           /\ c \in C \cup D => es[c].q[s] = <<>>
           /\ \/ es[c].q[Other(s)] \in {<<>>, cs[c].q[Other(s)]}
              \/ /\ c = c0 /\ items # <<>> /\ cs[c].open[Other(s)]
                 /\ es[c].q[Other(s)] = cs[c].q[Other(s)] \o items
  BY DEF Effect
<1>1. /\ ms[c].open[s] <=> (cs[c].open[s] /\ c \notin C)
      /\ ms[c].open[Other(s)] <=> cs[c].open[Other(s)]
      /\ ms[c].q[s] \in {<<>>, IF r1 /\ c = c0 THEN Tail(cs[c].q[s]) ELSE cs[c].q[s]}
      /\ c \in C => ms[c].q[s] = <<>>
      /\ \/ ms[c].q[Other(s)] \in {<<>>, cs[c].q[Other(s)]}
         \/ /\ c = c0 /\ items # <<>> /\ cs[c].open[Other(s)]
            /\ ms[c].q[Other(s)] = cs[c].q[Other(s)] \o items
  BY DEF Effect
<1>2. /\ es[c].open[s] <=> (ms[c].open[s] /\ c \notin D)
      /\ es[c].open[Other(s)] <=> ms[c].open[Other(s)]
      /\ es[c].q[s] \in {<<>>, IF r2 /\ c = c0 THEN Tail(ms[c].q[s]) ELSE ms[c].q[s]}
      /\ c \in D => es[c].q[s] = <<>>
      /\ es[c].q[Other(s)] \in {<<>>, ms[c].q[Other(s)]}
  BY DEF Effect
<1> QED BY <1>1, <1>2

\* A device reads an item, if reads says so, writes items, and stops.
LEMMA ExchangeEffect ==
  ASSUME NEW cs \in [Conns -> ConnType], NEW s \in Peers, NEW c0 \in Conns, NEW items \in Seq(ItemType),
         NEW reads \in BOOLEAN, reads => cs[c0].q[s] # <<>>,
         NEW C, NEW es \in Stops(Writes(IF reads THEN Reads(cs, c0, s) ELSE cs, c0, s, items), C, s)
  PROVE  es \in [Conns -> ConnType] /\ Effect(cs, es, s, c0, reads, items, C)
<1> DEFINE rs == IF reads THEN Reads(cs, c0, s) ELSE cs
           ws == Writes(rs, c0, s, items)
<1>1. /\ rs \in [Conns -> ConnType] /\ Effect(cs, rs, s, c0, reads, <<>>, {})
      /\ \A c \in Conns : rs[c].q[Other(s)] = cs[c].q[Other(s)] /\ rs[c].open = cs[c].open
  <2>1. CASE reads BY <2>1, ReadsEffect
  <2>2. CASE ~reads BY <2>2, NoEffect
  <2> QED BY <2>1, <2>2
<1> HIDE DEF rs
<1>2. /\ ws \in [Conns -> ConnType] /\ Effect(rs, ws, s, c0, FALSE, items, {})
      /\ \A c \in Conns : ws[c].q[s] = rs[c].q[s]
  BY <1>1, WritesEffect
<1>3. es \in Stops(ws, C, s) BY DEF rs
<1> HIDE DEF ws
<1>4. Effect(cs, ws, s, c0, reads, items, {}) BY <1>1, <1>2, ZenonT(30) DEF Effect
<1>5. es \in [Conns -> ConnType] /\ Effect(ws, es, s, c0, FALSE, <<>>, C) BY <1>2, <1>3, StopsEffect
<1>6. Effect(cs, es, s, c0, reads \/ FALSE, items, {} \cup C) BY <1>4, <1>5, EffectThen
<1>7. (reads \/ FALSE) = reads /\ {} \cup C = C OBVIOUS
<1> QED BY <1>5, <1>6, <1>7

LEMMA StopsNothing ==
  ASSUME NEW cs \in [Conns -> ConnType], NEW s
  PROVE  cs \in Stops(cs, {}, s)
BY DEF Stops

\* Nothing to write.
LEMMA WritesNothing ==
  ASSUME NEW cs \in [Conns -> ConnType], NEW s \in Peers, NEW c0 \in Conns
  PROVE  Writes(cs, c0, s, <<>>) = cs
<1>1. Other(s) \in Peers /\ cs[c0] \in ConnType BY OtherPeer
<1>2. cs[c0].q[Other(s)] \in Seq(ItemType) BY <1>1 DEF ConnType
<1>3. cs[c0].q[Other(s)] \o <<>> = cs[c0].q[Other(s)] BY <1>2
<1>4. [cs EXCEPT ![c0].q[Other(s)] = @ \o <<>>] = cs BY <1>1, <1>3 DEF ConnType
<1> QED BY <1>4 DEF Writes

\* Of any kind, what is in flight only becomes less, but for what is written.
LEMMA EffectFewer ==
  ASSUME NEW cs \in [Conns -> ConnType], NEW es, NEW s \in Peers, NEW c0, NEW reads \in BOOLEAN,
         NEW items \in Seq(ItemType), NEW C, NEW kind, Effect(cs, es, s, c0, reads, items, C),
         reads => c0 \in Conns /\ cs[c0].q[s] # <<>>
  PROVE  \A c \in Conns : /\ Fewer(es[c].q[s], cs[c].q[s], kind)
                          /\ (c # c0 \/ ~Contains(items, kind)) =>
                               Fewer(es[c].q[Other(s)], cs[c].q[Other(s)], kind)
<1> TAKE c \in Conns
<1>1. cs[c] \in ConnType /\ Other(s) \in Peers BY OtherPeer
<1>2. cs[c].q[s] \in Seq(ItemType) /\ cs[c].q[Other(s)] \in Seq(ItemType) BY <1>1 DEF ConnType
<1>3. Fewer(es[c].q[s], cs[c].q[s], kind)
  <2>1. CASE es[c].q[s] \in {<<>>, cs[c].q[s]} BY <2>1, FewerOf
  <2>2. CASE reads /\ c = c0 /\ es[c].q[s] = Tail(cs[c].q[s]) BY <2>2, <1>2, TailItems
  <2> QED BY <2>1, <2>2 DEF Effect
<1>4. (c # c0 \/ ~Contains(items, kind)) => Fewer(es[c].q[Other(s)], cs[c].q[Other(s)], kind)
  <2>1. CASE es[c].q[Other(s)] \in {<<>>, cs[c].q[Other(s)]} BY <2>1, FewerOf
  <2>2. CASE c = c0 /\ es[c].q[Other(s)] = cs[c].q[Other(s)] \o items BY <2>2, <1>2, JoinItems
  <2> QED BY <2>1, <2>2 DEF Effect
<1> QED BY <1>3, <1>4

-----------------------------------------------------------------------------
(* The sockets a device has. *)

LEMMA PendingType ==
  ASSUME Types, NEW p \in Peers
  PROVE  /\ Pending(p) \subseteq Conns /\ Holds(p) \subseteq Conns /\ NoConn \notin Conns
         /\ \A k \in DOMAIN backlog[p] : backlog[p][k] \in Pending(p)
         /\ backlog[p] # <<>> =>
              /\ Head(backlog[p]) \in Pending(p) /\ Tail(backlog[p]) \in Seq(Conns)
              /\ 1 \in DOMAIN backlog[p] /\ Head(backlog[p]) = backlog[p][1]
<1>1. backlog[p] \in Seq(Conns) /\ NoConn \notin Conns BY TcpAssumption DEF Types
<1>2. Pending(p) \subseteq Conns BY <1>1 DEF Pending
<1>3. in[p] \in Conns \cup {NoConn} /\ out[p] \in Conns \cup {NoConn} BY DEF Types
<1>4. Holds(p) \subseteq Conns BY <1>2, <1>3 DEF Holds
<1>5. backlog[p] # <<>> => /\ Tail(backlog[p]) \in Seq(Conns)
                           /\ 1 \in DOMAIN backlog[p] /\ Head(backlog[p]) = backlog[p][1]
  BY <1>1
<1> QED BY <1>1, <1>2, <1>4, <1>5 DEF Pending

\* The device closes connections it has, and takes those it has not accepted yet.
LEMMA HoldsKeep ==
  ASSUME Types, Types', SocketsInv, ApartInv, NEW s \in Peers,
         NEW c0, NEW reads \in BOOLEAN, NEW items \in Seq(ItemType), NEW C,
         Effect(conn, conn', s, c0, reads, items, C),
         UNCHANGED <<out[Other(s)], in[Other(s)], backlog[Other(s)]>>,
         reads => conn[c0].q[s] # <<>> /\ c0 \notin Pending(s)',
         items # <<>> => c0 \in {in[s], out[s]},
         \A i \in Items(items) : i.kind \notin {"A_ACK", "B"},
         Holds(s)' = Holds(s) \ C, Pending(s)' \subseteq Pending(s),
         \A j, k \in DOMAIN backlog'[s] : backlog'[s][j] = backlog'[s][k] => j = k,
         in'[s] \notin Pending(s)', out'[s] \notin Pending(s)', in'[s] = out'[s] => in'[s] = NoConn,
         out'[s] \in {out[s], NoConn} \/ (out'[s] \in Pending(s) /\ NextIs(s, out'[s], "B")),
         in'[s] \in {in[s], NoConn} \/ (in'[s] \in Pending(s) /\ NextIs(s, in'[s], "A_ACK"))
  PROVE  SocketsInv' /\ ApartInv'
<1> DEFINE o == Other(s)
<1>1. o \in Peers /\ o # s /\ Other(o) = s /\ \A p \in Peers : p = s \/ p = o
  BY OtherPeer DEF Peers, Other
<1>2. Pending(o)' = Pending(o) /\ Holds(o)' = Holds(o) BY DEF Pending, Holds
<1>3. /\ Pending(s) \subseteq Conns /\ Pending(o) \subseteq Conns /\ NoConn \notin Conns
  BY <1>1, PendingType
<1>4. SocketsOf(s) /\ SocketsOf(o) /\ ApartOf(s) /\ ApartOf(o) BY <1>1 DEF SocketsInv, ApartInv
<1>5. /\ \A c \in Conns : /\ conn'[c].open[s] <=> c \in Holds(s)'
                          /\ conn'[c].open[o] <=> c \in Holds(o)'
  BY <1>2, <1>4 DEF Effect, SocketsOf
<1>6. \A c \in Conns : /\ ~conn[c].open[s] => conn[c].q[s] = <<>>
                       /\ ~conn[c].open[o] => conn[c].q[o] = <<>>
                       /\ c \in Pending(s) => conn[c].q[o] = <<>>
                       /\ c \in Pending(o) => conn[c].q[s] = <<>>
  BY <1>1, <1>4 DEF SocketsOf
<1>7. \A c \in Conns : /\ conn[c].q[s] = <<>> => conn'[c].q[s] = <<>>
                       /\ c \in Pending(s)' => conn'[c].q[s] \in {<<>>, conn[c].q[s]}
                       /\ (c # c0 \/ items = <<>>) => conn'[c].q[o] \in {<<>>, conn[c].q[o]}
  BY DEF Effect
<1>8. SocketsOf(s)'
  <2>1. \A c \in Conns : ~conn'[c].open[s] => conn'[c].q[s] = <<>> BY <1>6, <1>7 DEF Effect
  <2>2. \A c \in Pending(s)' : conn'[c].q[o] = <<>>
    <3> TAKE c \in Pending(s)'
    <3>1. c \in Pending(s) /\ c \in Conns BY <1>3
    <3>2. c = c0 => items = <<>> BY <3>1, <1>4 DEF SocketsOf
    <3> QED BY <3>1, <3>2, <1>6, <1>7
  <2> QED BY <2>1, <2>2, <1>5 DEF SocketsOf
<1>9. SocketsOf(o)'
  <2>1. \A c \in Conns : ~conn'[c].open[o] => conn'[c].q[o] = <<>> BY <1>6 DEF Effect
  <2>2. \A c \in Pending(o)' : conn'[c].q[s] = <<>> BY <1>2, <1>3, <1>6, <1>7
  <2>3. /\ \A j, k \in DOMAIN backlog'[o] : backlog'[o][j] = backlog'[o][k] => j = k
        /\ in'[o] \notin Pending(o)' /\ out'[o] \notin Pending(o)' /\ (in'[o] = out'[o] => in'[o] = NoConn)
    BY <1>2, <1>4 DEF SocketsOf
  <2> QED BY <2>1, <2>2, <2>3, <1>1, <1>5 DEF SocketsOf
<1>10. \A c \in Pending(s)', kind \in {"A_ACK", "B"} : NextIs(s, c, kind)' => NextIs(s, c, kind)
  <2> TAKE c \in Pending(s)', kind \in {"A_ACK", "B"}
  <2>1. c \in Conns BY <1>3
  <2> QED BY <2>1, <1>7 DEF NextIs
<1>11. \A c \in Pending(o), kind \in {"A_ACK", "B"} : NextIs(o, c, kind)' => NextIs(o, c, kind)
  <2> TAKE c \in Pending(o), kind \in {"A_ACK", "B"}
  <2>1. c \in Conns /\ conn[c] \in ConnType BY <1>3 DEF Types
  <2>2. conn[c].q[o] \in Seq(ItemType) BY <2>1, <1>1 DEF ConnType
  <2>3. CASE conn'[c].q[o] \in {<<>>, conn[c].q[o]} BY <2>3 DEF NextIs
  <2>4. CASE conn'[c].q[o] = conn[c].q[o] \o items /\ items # <<>>
    <3>1. CASE conn[c].q[o] # <<>>
      <4>1. Head(conn[c].q[o] \o items) = Head(conn[c].q[o]) BY <3>1, <2>2, JoinItems
      <4> QED BY <4>1, <3>1, <2>4 DEF NextIs
    <3>2. CASE conn[c].q[o] = <<>>
      <4>1. conn'[c].q[o] = items BY <3>2, <2>4
      <4>2. Head(items) \in Items(items) BY <2>4, TailItems
      <4> QED BY <4>1, <4>2 DEF NextIs
    <3> QED BY <3>1, <3>2
  <2> QED BY <2>1, <2>3, <2>4 DEF Effect
<1>12. /\ out'[s] # NoConn => out'[s] # out[o]
       /\ in'[s] # NoConn => in'[s] # in[o]
  BY <1>3, <1>4 DEF ApartOf
<1>13. ApartOf(s)'
  <2>1. \A c \in Pending(s)' : /\ c \notin Pending(o)
                               /\ NextIs(s, c, "A_ACK")' => c # in[o]
                               /\ NextIs(s, c, "B")' => c # out[o]
    BY <1>10, <1>4 DEF ApartOf
  <2> QED BY <2>1, <1>2, <1>12 DEF ApartOf
<1>14. ApartOf(o)'
  <2>1. \A c \in Pending(o) : /\ c \notin Pending(s)'
                              /\ NextIs(o, c, "A_ACK")' => c # in[s]
                              /\ NextIs(o, c, "B")' => c # out[s]
    BY <1>11, <1>1, <1>4 DEF ApartOf
  <2>2. \A c \in Pending(o) : c # NoConn /\ c \notin Pending(s) BY <1>1, <1>3, <1>4 DEF ApartOf
  <2>3. \A c \in Pending(o) : /\ NextIs(o, c, "A_ACK")' => c # in'[s]
                              /\ NextIs(o, c, "B")' => c # out'[s]
    BY <2>1, <2>2
  <2>4. (out[o] # NoConn => out[o] # out'[s]) /\ (in[o] # NoConn => in[o] # in'[s]) BY <1>12
  <2> QED BY <2>1, <2>3, <2>4, <1>1, <1>2 DEF ApartOf
<1> QED BY <1>1, <1>8, <1>9, <1>13, <1>14 DEF SocketsInv, ApartInv

\* The sockets of s that are closed are given up, and nothing is accepted.
Sheds(s, C) ==
  /\ out'[s] = IF out[s] \in C THEN NoConn ELSE out[s]
  /\ in'[s] = IF in[s] \in C THEN NoConn ELSE in[s]
  /\ UNCHANGED <<out[Other(s)], in[Other(s)], backlog[s], backlog[Other(s)]>>

LEMMA ShedsKeep ==
  ASSUME Types, Types', SocketsInv, ApartInv, NEW s \in Peers,
         NEW c0, NEW reads \in BOOLEAN, NEW items \in Seq(ItemType), NEW C,
         Effect(conn, conn', s, c0, reads, items, C), Sheds(s, C),
         reads => conn[c0].q[s] # <<>> /\ c0 \in {in[s], out[s]},
         items # <<>> => c0 \in {in[s], out[s]},
         \A i \in Items(items) : i.kind \notin {"A_ACK", "B"},
         C \subseteq {in[s], out[s]}
  PROVE  SocketsInv' /\ ApartInv'
<1>1. Pending(s)' = Pending(s) BY DEF Sheds, Pending
<1>2. SocketsOf(s) BY DEF SocketsInv
<1>3. Holds(s)' = Holds(s) \ C BY <1>1, <1>2 DEF Holds, Sheds, SocketsOf
<1>4. \A j, k \in DOMAIN backlog'[s] : backlog'[s][j] = backlog'[s][k] => j = k
  BY <1>2 DEF Sheds, SocketsOf
<1>5. NoConn \notin Pending(s) BY PendingType
<1>6. /\ in'[s] \notin Pending(s)' /\ out'[s] \notin Pending(s)' /\ (in'[s] = out'[s] => in'[s] = NoConn)
      /\ reads => c0 \notin Pending(s)'
  BY <1>1, <1>2, <1>5 DEF Sheds, SocketsOf
<1>7. /\ UNCHANGED <<out[Other(s)], in[Other(s)], backlog[Other(s)]>>
      /\ out'[s] \in {out[s], NoConn} /\ in'[s] \in {in[s], NoConn}
  BY DEF Sheds
<1> QED BY <1>1, <1>3, <1>4, <1>6, <1>7, HoldsKeep

\* The first connection that waits is closed, or becomes a socket of the device.
Pops(s, C) ==
  LET h == Head(backlog[s]) IN
  /\ backlog[s] # <<>> /\ backlog'[s] = Tail(backlog[s])
  /\ C \subseteq {in[s], out[s], h}
  /\ UNCHANGED <<out[Other(s)], in[Other(s)], backlog[Other(s)]>>
  /\ \/ /\ h \in C
        /\ out'[s] = IF out[s] \in C THEN NoConn ELSE out[s]
        /\ in'[s] = IF in[s] \in C THEN NoConn ELSE in[s]
     \/ /\ h \notin C /\ NextIs(s, h, "A_ACK") /\ (in[s] = NoConn \/ in[s] \in C)
        /\ out'[s] = IF out[s] \in C THEN NoConn ELSE out[s]
        /\ in'[s] = h
     \/ /\ h \notin C /\ NextIs(s, h, "B") /\ (out[s] = NoConn \/ out[s] \in C)
        /\ in'[s] = IF in[s] \in C THEN NoConn ELSE in[s]
        /\ out'[s] = h

LEMMA PendingPops ==
  ASSUME Types, SocketsInv, NEW s \in Peers, backlog[s] # <<>>, backlog'[s] = Tail(backlog[s])
  PROVE  /\ Head(backlog[s]) \in Pending(s) /\ Pending(s)' = Pending(s) \ {Head(backlog[s])}
         /\ \A j, k \in DOMAIN backlog'[s] : backlog'[s][j] = backlog'[s][k] => j = k
         /\ \A k \in DOMAIN backlog'[s] : k \in Nat /\ k + 1 \in DOMAIN backlog[s]
                                          /\ backlog'[s][k] = backlog[s][k + 1] /\ 1 < k + 1
<1> DEFINE b == backlog[s]
<1>1. b \in Seq(Conns) /\ b # <<>> BY DEF Types
<1>2. \A j, k \in DOMAIN b : b[j] = b[k] => j = k BY DEF SocketsInv, SocketsOf
<1> DEFINE t == Tail(b)
<1>3. /\ Len(b) \in Nat /\ 1 <= Len(b) /\ DOMAIN b = 1 .. Len(b) /\ DOMAIN t = 1 .. Len(b) - 1
      /\ \A k \in 1 .. Len(b) - 1 : t[k] = b[k + 1]
      /\ Head(b) = b[1]
  BY <1>1
<1> HIDE DEF b, t
<1>4. \A k \in DOMAIN t : k \in Nat /\ k + 1 \in DOMAIN b /\ t[k] = b[k + 1] /\ 1 < k + 1 /\ k + 1 # 1
  BY <1>3
<1>5. \A k \in DOMAIN b : k # 1 => k \in Int /\ k - 1 \in DOMAIN t /\ t[k - 1] = b[k]
  <2> TAKE k \in DOMAIN b
  <2> SUFFICES ASSUME k # 1 PROVE k \in Int /\ k - 1 \in DOMAIN t /\ t[k - 1] = b[k] OBVIOUS
  <2>1. k \in Int /\ k - 1 \in 1 .. Len(b) - 1 /\ (k - 1) + 1 = k BY <1>3
  <2> QED BY <2>1, <1>3
<1>6. 1 \in DOMAIN b BY <1>3
<1>7. \A j, k \in DOMAIN t : t[j] = t[k] => j = k
  <2> TAKE j, k \in DOMAIN t
  <2>1. t[j] = t[k] => j + 1 = k + 1 BY <1>2, <1>4
  <2> QED BY <2>1, <1>4
<1>8. {t[k] : k \in DOMAIN t} = {b[k] : k \in DOMAIN b} \ {Head(b)}
  <2>1. \A x \in {t[k] : k \in DOMAIN t} : x \in {b[k] : k \in DOMAIN b} \ {Head(b)}
    BY <1>2, <1>3, <1>4, <1>6
  <2>2. \A x \in {b[k] : k \in DOMAIN b} \ {Head(b)} : x \in {t[k] : k \in DOMAIN t}
    BY <1>3, <1>5
  <2> QED BY <2>1, <2>2
<1>9. Head(b) \in {b[k] : k \in DOMAIN b} BY <1>3, <1>6
<1>10. backlog'[s] = t /\ backlog[s] = b BY DEF b, t
<1>11. Pending(s) = {b[k] : k \in DOMAIN b} /\ Pending(s)' = {t[k] : k \in DOMAIN t} BY <1>10 DEF Pending
<1>12. Head(b) \in Pending(s) /\ Pending(s)' = Pending(s) \ {Head(b)} BY <1>8, <1>9, <1>11
<1> QED BY <1>4, <1>7, <1>10, <1>12

LEMMA PopsKeep ==
  ASSUME Types, Types', SocketsInv, ApartInv, NEW s \in Peers, NEW reads \in BOOLEAN, NEW C,
         Effect(conn, conn', s, Head(backlog[s]), reads, <<>>, C), Pops(s, C),
         reads => conn[Head(backlog[s])].q[s] # <<>>
  PROVE  SocketsInv' /\ ApartInv'
<1> PICK h : h = Head(backlog[s]) OBVIOUS
<1>1. /\ h \in Pending(s) /\ Pending(s)' = Pending(s) \ {h}
      /\ \A j, k \in DOMAIN backlog'[s] : backlog'[s][j] = backlog'[s][k] => j = k
  <2>1. backlog[s] # <<>> /\ backlog'[s] = Tail(backlog[s]) BY DEF Pops
  <2> QED BY <2>1, PendingPops
<1>2. SocketsOf(s) BY DEF SocketsInv
<1>3. h \in Conns /\ NoConn \notin Conns /\ Pending(s) \subseteq Conns BY <1>1, PendingType
<1>4. h # in[s] /\ h # out[s] /\ in[s] \notin Pending(s) /\ out[s] \notin Pending(s) /\ h # NoConn
      /\ (in[s] = out[s] => in[s] = NoConn)
  BY <1>1, <1>2, <1>3 DEF SocketsOf
<1>5. Effect(conn, conn', s, h, reads, <<>>, C) /\ (reads => conn[h].q[s] # <<>>) OBVIOUS
<1>6. /\ UNCHANGED <<out[Other(s)], in[Other(s)], backlog[Other(s)]>>
      /\ C \subseteq {in[s], out[s], h}
      /\ \/ /\ h \in C
            /\ out'[s] = IF out[s] \in C THEN NoConn ELSE out[s]
            /\ in'[s] = IF in[s] \in C THEN NoConn ELSE in[s]
         \/ /\ h \notin C /\ NextIs(s, h, "A_ACK") /\ (in[s] = NoConn \/ in[s] \in C)
            /\ out'[s] = IF out[s] \in C THEN NoConn ELSE out[s]
            /\ in'[s] = h
         \/ /\ h \notin C /\ NextIs(s, h, "B") /\ (out[s] = NoConn \/ out[s] \in C)
            /\ in'[s] = IF in[s] \in C THEN NoConn ELSE in[s]
            /\ out'[s] = h
  BY DEF Pops
<1>7. Holds(s)' = Holds(s) \ C BY <1>1, <1>4, <1>6 DEF Holds
<1>8. /\ in'[s] \notin Pending(s)' /\ out'[s] \notin Pending(s)' /\ (in'[s] = out'[s] => in'[s] = NoConn)
      /\ h \notin Pending(s)'
  BY <1>1, <1>3, <1>4, <1>6
<1>9. /\ out'[s] \in {out[s], NoConn} \/ (out'[s] \in Pending(s) /\ NextIs(s, out'[s], "B"))
      /\ in'[s] \in {in[s], NoConn} \/ (in'[s] \in Pending(s) /\ NextIs(s, in'[s], "A_ACK"))
  BY <1>1, <1>6
<1> PICK items : items = <<>> OBVIOUS
<1>10. items = <<>> /\ items \in Seq(ItemType) BY FewItems
<1>11. Effect(conn, conn', s, h, reads, items, C) BY <1>5, <1>10
<1>12. /\ reads => conn[h].q[s] # <<>> /\ h \notin Pending(s)'
       /\ items # <<>> => h \in {in[s], out[s]}
  BY <1>5, <1>8, <1>10
<1>13. \A i \in Items(items) : i.kind \notin {"A_ACK", "B"} BY <1>10, NoItems
<1>14. /\ UNCHANGED <<out[Other(s)], in[Other(s)], backlog[Other(s)]>>
       /\ Pending(s)' \subseteq Pending(s)
       /\ \A j, k \in DOMAIN backlog'[s] : backlog'[s][j] = backlog'[s][k] => j = k
  BY <1>1, <1>6
<1> QED BY <1>7, <1>8, <1>9, <1>10, <1>11, <1>12, <1>13, <1>14, HoldsKeep, ZenonT(30)

\* A connection is made, which the other device has not accepted yet.
Opens(s, c, header, pair) ==
  /\ c \in Free /\ conn' = Opened(s, c, header, pair)
  /\ backlog'[Other(s)] = Append(backlog[Other(s)], c)
  /\ UNCHANGED <<out[Other(s)], in[Other(s)], backlog[s]>>
  /\ \/ header = "A_ACK" /\ out[s] = NoConn /\ out'[s] = c /\ UNCHANGED in[s]
     \/ header = "B" /\ in[s] = NoConn /\ in'[s] = c /\ UNCHANGED out[s]

LEMMA OpensEffect ==
  ASSUME Types, SocketsInv, NEW s \in Peers, NEW c \in Free, NEW header \in {"A_ACK", "B"},
         NEW pair \in Conns \cup {NoConn}, Opens(s, c, header, pair)
  PROVE  /\ conn' \in [Conns -> ConnType] /\ c \in Conns /\ c # NoConn
         /\ \A d \in Peers : /\ conn'[c].open[d] /\ ~conn[c].open[d] /\ c \notin Holds(d)
                             /\ conn[c].q[d] = <<>>
         /\ conn'[c].q[s] = <<>> /\ conn'[c].q[Other(s)] = <<Item(header, 0)>>
         /\ \A d \in Conns : d # c => conn'[d] = conn[d]
<1> DEFINE o == Other(s)
           open == [d \in Peers |-> TRUE]
           q == [Unused.q EXCEPT ![o] = <<Item(header, 0)>>]
           r == [Unused EXCEPT !.open = open, !.pair = pair, !.q[o] = <<Item(header, 0)>>]
<1>1. c \in Conns /\ conn[c] = Unused BY DEF Free
<1>2. \A d \in Peers : ~Unused.open[d] /\ Unused.q[d] = <<>> BY DEF Unused
<1>3. o \in Peers /\ o # s BY OtherPeer
<1>4. conn' = [conn EXCEPT ![c] = r] BY DEF Opens, Opened
<1>5. Item(header, 0) \in ItemType BY DEF Item, ItemType, Kinds
<1>6. <<Item(header, 0)>> \in Seq(ItemType) BY <1>5, FewItems
<1>7. open \in [Peers -> BOOLEAN] /\ \A d \in Peers : open[d] OBVIOUS
<1> HIDE DEF open
<1>8. /\ r \in ConnType /\ r.open = open /\ r.q[s] = <<>> /\ r.q[o] = <<Item(header, 0)>>
  BY <1>2, <1>3, <1>6, <1>7, UnusedType DEF ConnType
<1> HIDE DEF r
<1>9. conn' \in [Conns -> ConnType] /\ conn'[c] = r /\ \A d \in Conns : d # c => conn'[d] = conn[d]
  BY <1>1, <1>4, <1>8 DEF Types
<1>10. \A d \in Peers : c \notin Holds(d) BY <1>1, <1>2 DEF SocketsInv, SocketsOf
<1>11. c # NoConn BY <1>1, TcpAssumption
<1> QED BY <1>1, <1>2, <1>7, <1>8, <1>9, <1>10, <1>11

LEMMA PendingAppends ==
  ASSUME NEW b, NEW a, NEW c \in Conns, b \in Seq(Conns), a = Append(b, c)
  PROVE  /\ {a[k] : k \in DOMAIN a} = {b[k] : k \in DOMAIN b} \cup {c}
         /\ \A k \in DOMAIN a : \/ k \in DOMAIN b /\ a[k] = b[k]
                                \/ a[k] = c /\ k = Len(b) + 1
         /\ \A k \in DOMAIN a : k \in Nat /\ k <= Len(b) + 1
         /\ \A k \in DOMAIN b : k \in DOMAIN a /\ a[k] = b[k]
         /\ Len(b) + 1 \in DOMAIN a /\ a[Len(b) + 1] = c /\ Len(b) \in Nat
<1>1. /\ Len(b) \in Nat /\ DOMAIN b = 1 .. Len(b) /\ DOMAIN a = 1 .. Len(b) + 1
      /\ \A k \in 1 .. Len(b) + 1 : a[k] = IF k = Len(b) + 1 THEN c ELSE b[k]
  OBVIOUS
<1>2. \A k \in DOMAIN a : /\ k \in Nat /\ k <= Len(b) + 1
                          /\ k # Len(b) + 1 => k \in DOMAIN b
  BY <1>1
<1>3. \A k \in DOMAIN b : k \in DOMAIN a /\ k # Len(b) + 1 BY <1>1
<1>4. Len(b) + 1 \in DOMAIN a BY <1>1
<1> QED BY <1>1, <1>2, <1>3, <1>4

LEMMA OpensKeep ==
  ASSUME Types, Types', SocketsInv, ApartInv, NEW s \in Peers, NEW c \in Free, NEW header \in {"A_ACK", "B"},
         NEW pair \in Conns \cup {NoConn}, Opens(s, c, header, pair)
  PROVE  SocketsInv' /\ ApartInv'
<1> DEFINE o == Other(s)
<1>1. o \in Peers /\ o # s /\ Other(o) = s /\ \A p \in Peers : p = s \/ p = o
  BY OtherPeer DEF Peers, Other
<1>2. /\ c \in Conns /\ c # NoConn /\ c \notin Holds(s) /\ c \notin Holds(o)
      /\ conn'[c].open[s] /\ conn'[c].open[o] /\ conn[c].q[o] = <<>>
      /\ conn'[c].q[s] = <<>> /\ conn'[c].q[o] = <<Item(header, 0)>>
      /\ \A d \in Conns : d # c => conn'[d] = conn[d]
  BY <1>1, OpensEffect
<1>3. SocketsOf(s) /\ SocketsOf(o) /\ ApartOf(s) /\ ApartOf(o) BY <1>1 DEF SocketsInv, ApartInv
<1>4. /\ Pending(s)' = Pending(s) /\ Pending(s) \subseteq Conns /\ Pending(o) \subseteq Conns
      /\ NoConn \notin Conns /\ c \notin Pending(s) /\ c \notin Pending(o)
  BY <1>1, <1>2, PendingType DEF Pending, Opens, Holds
<1>5. /\ UNCHANGED <<out[o], in[o], backlog[s]>>
      /\ \/ header = "A_ACK" /\ out[s] = NoConn /\ out'[s] = c /\ in'[s] = in[s]
         \/ header = "B" /\ in[s] = NoConn /\ in'[s] = c /\ out'[s] = out[s]
  BY DEF Opens
<1>6. /\ Pending(o)' = Pending(o) \cup {c}
      /\ \A j, k \in DOMAIN backlog'[o] : backlog'[o][j] = backlog'[o][k] => j = k
  <2> PICK b : b = backlog[o] OBVIOUS
  <2> PICK a : a = backlog'[o] OBVIOUS
  <2>1. b \in Seq(Conns) /\ a = Append(b, c) BY <1>1 DEF Types, Opens
  <2>2. /\ {a[k] : k \in DOMAIN a} = {b[k] : k \in DOMAIN b} \cup {c}
        /\ \A k \in DOMAIN a : (k \in DOMAIN b /\ a[k] = b[k]) \/ (a[k] = c /\ k = Len(b) + 1)
    <3>1. c \in Conns BY <1>2
    <3> QED BY ONLY <2>1, <3>1, PendingAppends
  <2>3. Pending(o) = {b[k] : k \in DOMAIN b} /\ Pending(o)' = {a[k] : k \in DOMAIN a} BY DEF Pending
  <2>4. \A j, k \in DOMAIN b : b[j] = b[k] => j = k BY <1>3 DEF SocketsOf
  <2>5. \A k \in DOMAIN b : b[k] # c BY <2>3, <1>4
  <2>6. \A j, k \in DOMAIN a : a[j] = a[k] => j = k BY <2>2, <2>4, <2>5
  <2> QED BY <2>2, <2>3, <2>6
<1>7. Holds(s)' = Holds(s) \cup {c} BY <1>2, <1>4, <1>5 DEF Holds
<1>8. Holds(o)' = Holds(o) \cup {c} BY <1>2, <1>5, <1>6 DEF Holds
<1>9. c # in[s] /\ c # out[s] /\ c # in[o] /\ c # out[o] BY <1>2 DEF Holds
<1>10. SocketsOf(s)'
  <2>1. \A d \in Conns : conn'[d].open[s] <=> d \in Holds(s)' BY <1>2, <1>3, <1>7 DEF SocketsOf
  <2>2. /\ in'[s] \notin Pending(s)' /\ out'[s] \notin Pending(s)' /\ (in'[s] = out'[s] => in'[s] = NoConn)
        /\ \A j, k \in DOMAIN backlog'[s] : backlog'[s][j] = backlog'[s][k] => j = k
    BY <1>3, <1>4, <1>5, <1>9 DEF SocketsOf
  <2>3. /\ \A d \in Conns : ~conn'[d].open[s] => conn'[d].q[s] = <<>>
        /\ \A d \in Pending(s)' : conn'[d].q[o] = <<>>
    BY <1>2, <1>3, <1>4 DEF SocketsOf
  <2> QED BY <2>1, <2>2, <2>3 DEF SocketsOf
<1>11. SocketsOf(o)'
  <2>1. \A d \in Conns : conn'[d].open[o] <=> d \in Holds(o)' BY <1>2, <1>3, <1>8 DEF SocketsOf
  <2>2. /\ in'[o] \notin Pending(o)' /\ out'[o] \notin Pending(o)' /\ (in'[o] = out'[o] => in'[o] = NoConn)
    BY <1>3, <1>5, <1>6, <1>9 DEF SocketsOf
  <2>3. /\ \A d \in Conns : ~conn'[d].open[o] => conn'[d].q[o] = <<>>
        /\ \A d \in Pending(o)' : conn'[d].q[s] = <<>>
    BY <1>1, <1>2, <1>3, <1>4, <1>6 DEF SocketsOf
  <2> QED BY <2>1, <2>2, <2>3, <1>1, <1>6 DEF SocketsOf
<1>12. /\ \A d \in Pending(s) : d # c /\ d # NoConn /\ d \in Conns
       /\ \A d \in Pending(o) : d # c /\ d # NoConn /\ d \in Conns
       /\ \A d \in Pending(s), kind \in {"A_ACK", "B"} : NextIs(s, d, kind)' => NextIs(s, d, kind)
       /\ \A d \in Pending(o), kind \in {"A_ACK", "B"} : NextIs(o, d, kind)' => NextIs(o, d, kind)
  <2>1. \A d \in Pending(s) : d # c /\ d # NoConn /\ d \in Conns BY <1>4
  <2>2. \A d \in Pending(o) : d # c /\ d # NoConn /\ d \in Conns BY <1>4
  <2> QED BY <2>1, <2>2, <1>2 DEF NextIs
<1>13. \A kind \in {"A_ACK", "B"} : NextIs(o, c, kind)' => kind = header
  <2>1. Item(header, 0) \in ItemType /\ Item(header, 0).kind = header BY DEF Item, ItemType, Kinds
  <2>2. Head(<<Item(header, 0)>>) = Item(header, 0) BY <2>1, FewItems
  <2> QED BY <2>1, <2>2, <1>2 DEF NextIs
<1>14. ApartOf(s)'
  <2>1. \A d \in Pending(s) : /\ d \notin Pending(o)
                              /\ NextIs(s, d, "A_ACK")' => d # in[o]
                              /\ NextIs(s, d, "B")' => d # out[o]
    BY <1>3, <1>12 DEF ApartOf
  <2>2. /\ out'[s] # NoConn => out'[s] # out'[o]
        /\ in'[s] # NoConn => in'[s] # in'[o]
    BY <1>3, <1>5, <1>9 DEF ApartOf
  <2> QED BY <1>12, <2>1, <2>2, <1>4, <1>5, <1>6 DEF ApartOf
<1>15. ApartOf(o)'
  <2>1. \A d \in Pending(o) : /\ d \notin Pending(s)
                              /\ NextIs(o, d, "A_ACK")' => d # in[s]
                              /\ NextIs(o, d, "B")' => d # out[s]
    BY <1>1, <1>3, <1>12 DEF ApartOf
  <2>2. \A d \in Pending(o) : /\ NextIs(o, d, "A_ACK")' => d # in'[s]
                              /\ NextIs(o, d, "B")' => d # out'[s]
    BY <1>12, <2>1, <1>5
  <2>3. /\ NextIs(o, c, "A_ACK")' => c # in'[s]
        /\ NextIs(o, c, "B")' => c # out'[s]
    BY <1>5, <1>9, <1>13
  <2>4. /\ out'[o] # NoConn => out'[o] # out'[s]
        /\ in'[o] # NoConn => in'[o] # in'[s]
    BY <1>3, <1>1, <1>5, <1>9 DEF ApartOf
  <2> QED BY <2>1, <2>2, <2>3, <2>4, <1>1, <1>4, <1>6 DEF ApartOf
<1> QED BY <1>1, <1>10, <1>11, <1>14, <1>15 DEF SocketsInv, ApartInv

-----------------------------------------------------------------------------
(* What is in flight from p to q, the other device. *)

\* A connection that waits gets no new header.
LEMMA NextStays ==
  ASSUME Types, NEW s \in Peers, NEW c0, NEW reads \in BOOLEAN, NEW items \in Seq(ItemType), NEW C,
         Effect(conn, conn', s, c0, reads, items, C),
         \A i \in Items(items) : i.kind \notin {"A_ACK", "B"}
  PROVE  /\ \A c \in Conns : NextIs(Other(s), c, "B")' => NextIs(Other(s), c, "B")
         /\ \A c \in Conns : (~reads \/ c # c0) => (NextIs(s, c, "B")' => NextIs(s, c, "B"))
<1> DEFINE o == Other(s)
<1>1. ASSUME NEW c \in Conns, NextIs(o, c, "B")' PROVE NextIs(o, c, "B")
  <2>1. conn[c] \in ConnType /\ o \in Peers BY OtherPeer DEF Types
  <2>2. conn[c].q[o] \in Seq(ItemType) BY <2>1 DEF ConnType
  <2>3. CASE conn'[c].q[o] \in {<<>>, conn[c].q[o]} BY <2>3, <1>1 DEF NextIs
  <2>4. CASE conn'[c].q[o] = conn[c].q[o] \o items /\ items # <<>>
    <3>1. CASE conn[c].q[o] # <<>>
      <4>1. Head(conn[c].q[o] \o items) = Head(conn[c].q[o]) BY <3>1, <2>2, JoinItems
      <4> QED BY <4>1, <3>1, <2>4, <1>1 DEF NextIs
    <3>2. CASE conn[c].q[o] = <<>>
      <4>1. conn'[c].q[o] = items BY <3>2, <2>4
      <4>2. Head(items) \in Items(items) BY <2>4, TailItems
      <4> QED BY <4>1, <4>2, <1>1 DEF NextIs
    <3> QED BY <3>1, <3>2
  <2> QED BY <2>3, <2>4 DEF Effect
<1>2. ASSUME NEW c \in Conns, ~reads \/ c # c0, NextIs(s, c, "B")' PROVE NextIs(s, c, "B")
  <2>1. conn'[c].q[s] \in {<<>>, conn[c].q[s]} BY <1>2 DEF Effect
  <2> QED BY <2>1, <1>2 DEF NextIs
<1> QED BY <1>1, <1>2

\* When nothing is in flight there is nothing to show.
LEMMA FlightEnds ==
  ASSUME NEW p \in Peers, ~AnswerRead(p)' \/ Arrived(p)',
         \A c \in Conns : ~Contains(conn'[c].q[Other(p)], "packet") /\ ~Contains(conn'[c].q[p], "ack"),
         Types'
  PROVE  FlightOf(p)'
<1>1. /\ \A c \in Conns : ~Carries(c, Other(p), "packet")' /\ ~Carries(c, p, "ack")'
      /\ \A c \in Conns : \A i \in Items(conn'[c].q[Other(p)]) : i.kind # "packet"
  BY DEF Carries, Contains
<1>2. \A c \in Pending(Other(p))' : c \in Conns
  <2>1. Other(p) \in Peers BY OtherPeer
  <2>2. backlog'[Other(p)] \in Seq(Conns) BY <2>1 DEF Types
  <2> QED BY <2>2 DEF Pending
<1>3. \A j \in DOMAIN backlog'[Other(p)] : backlog'[Other(p)][j] \in Conns BY <1>2 DEF Pending
<1>4. F1(p)' BY <1>1 DEF F1
<1>5. F2(p)' BY <1>1 DEF F2
<1>6. F3(p)' BY <1>1, <1>3 DEF F3
<1>7. F4(p)' BY <1>1, <1>2 DEF F4
<1>8. F5(p)' /\ F6(p)' BY <1>1 DEF F5, F6
<1>9. F7(p)' BY DEF F7
<1>10. F8(p)' BY <1>1, <1>2 DEF F8
<1> QED BY <1>4, <1>5, <1>6, <1>7, <1>8, <1>9, <1>10 DEF FlightOf

\* Of what is in flight, some is lost or read, and Result only grows.
Dwindles(p) ==
  /\ UNCHANGED <<mode, todo[p]>> /\ Result(Other(p)) \subseteq Result(Other(p))'
  /\ \A c \in Conns : /\ Fewer(conn'[c].q[Other(p)], conn[c].q[Other(p)], "packet")
                      /\ Fewer(conn'[c].q[p], conn[c].q[p], "ack")

LEMMA DwindlesKeeps ==
  ASSUME NEW p \in Peers, Dwindles(p)
  PROVE  /\ \A c \in Conns : /\ Carries(c, Other(p), "packet")' => Carries(c, Other(p), "packet")
                             /\ Carries(c, p, "ack")' => Carries(c, p, "ack")
                             /\ Once(conn[c].q[Other(p)], "packet") => Once(conn'[c].q[Other(p)], "packet")
                             /\ Once(conn[c].q[p], "ack") => Once(conn'[c].q[p], "ack")
         /\ F1(p) => F1(p)'
         /\ Arrived(p) => Arrived(p)'
<1>1. \A c \in Conns : /\ Carries(c, Other(p), "packet")' => Carries(c, Other(p), "packet")
                       /\ Carries(c, p, "ack")' => Carries(c, p, "ack")
  BY FewerHas DEF Dwindles, Carries
<1>2. \A c \in Conns : /\ Once(conn[c].q[Other(p)], "packet") => Once(conn'[c].q[Other(p)], "packet")
                       /\ Once(conn[c].q[p], "ack") => Once(conn'[c].q[p], "ack")
  BY DEF Dwindles, Fewer
<1>3. F1(p) => F1(p)' BY DEF F1, Dwindles, Fewer
<1>4. Arrived(p) => Arrived(p)' BY <1>1 DEF Arrived, Dwindles
<1> QED BY <1>1, <1>2, <1>3, <1>4

\* The device that sends writes no packet.  It goes on waiting, or reads the
\* answer, or has given up its socket.
LEMMA SenderQuiet ==
  ASSUME Types, Types', NEW p \in Peers, FlightOf(p), Dwindles(p),
         UNCHANGED <<backlog[Other(p)], in[Other(p)], out[Other(p)]>>,
         out'[p] \in {out[p], NoConn} \/ backlog[Other(p)] = <<>>,
         out'[p] \in {out[p], NoConn} \/ in[Other(p)] # out'[p] \/ backlog[Other(p)] = <<>>,
         \A c \in Pending(Other(p)) : NextIs(Other(p), c, "B")' => NextIs(Other(p), c, "B"),
         \/ Line(p)' = Line(p) /\ (Waits(p)' <=> Waits(p))
         \/ /\ \A c \in Conns : ~Carries(c, p, "ack")'
            /\ \A c \in Conns : c = Line(p)' => ~Carries(c, Other(p), "packet")',
         AnswerRead(p)' => AnswerRead(p) \/ Arrived(p)
  PROVE  FlightOf(p)'
<1> DEFINE q == Other(p)
<1>1. F1(p) /\ F2(p) /\ F3(p) /\ F4(p) /\ F5(p) /\ F6(p) /\ F7(p) /\ F8(p) BY DEF FlightOf
<1>2. \A c \in Conns : /\ Carries(c, q, "packet")' => Carries(c, q, "packet")
                       /\ Carries(c, p, "ack")' => Carries(c, p, "ack")
                       /\ Once(conn[c].q[q], "packet") => Once(conn'[c].q[q], "packet")
                       /\ Once(conn[c].q[p], "ack") => Once(conn'[c].q[p], "ack")
  BY DwindlesKeeps
<1>3. Pending(q)' = Pending(q) /\ Port(q)' = Port(q)
  BY DEF Pending, Port, Single, Dwindles
<1>4. q \in Peers /\ Pending(q) \subseteq Conns /\ NoConn \notin Conns
      /\ \A k \in DOMAIN backlog[q] : backlog[q][k] \in Pending(q)
  BY OtherPeer, PendingType
<1>5. F1(p)' BY <1>1, DwindlesKeeps
<1>6. F2(p)' BY <1>1, <1>2, <1>3 DEF F2
<1>7. F3(p)'
  <2> SUFFICES ASSUME NEW j \in DOMAIN backlog[q], NEW k \in DOMAIN backlog[q],
                      backlog[q][k] = out'[p], j > k
               PROVE  ~Carries(backlog[q][j], q, "packet")'
    BY DEF F3
  <2>1. backlog[q] # <<>>
    <3>1. Pending(q) # {} BY <1>4
    <3> QED BY <3>1, NoItems DEF Pending, Items
  <2>2. backlog[q][k] = out[p] BY <2>1, <1>4
  <2>3. ~Carries(backlog[q][j], q, "packet") BY <2>2, <1>1 DEF F3
  <2> QED BY <2>3, <1>2, <1>4
<1>8. F4(p)'
  <2> SUFFICES ASSUME in[q] # NoConn, in[q] = out'[p], NEW c \in Pending(q)
               PROVE  ~Carries(c, q, "packet")'
    BY <1>3 DEF F4
  <2>1. backlog[q] # <<>> BY NoItems DEF Pending, Items
  <2>2. in[q] = out[p] BY <2>1
  <2> QED BY <2>2, <1>1, <1>2, <1>4 DEF F4
<1>9. F5(p)' /\ F6(p)'
  <2>1. CASE Line(p)' = Line(p) /\ (Waits(p)' <=> Waits(p))
    <3>1. F5(p)' BY <2>1, <1>1, <1>2 DEF F5
    <3>2. F6(p)' BY <2>1, <1>1, <1>2, DwindlesKeeps DEF F6
    <3> QED BY <3>1, <3>2
  <2>2. CASE /\ \A c \in Conns : ~Carries(c, p, "ack")'
             /\ \A c \in Conns : c = Line(p)' => ~Carries(c, q, "packet")'
    BY <2>2 DEF F5, F6
  <2> QED BY <2>1, <2>2
<1>10. F7(p)' BY <1>1, DwindlesKeeps DEF F7
<1>11. F8(p)' BY <1>1, <1>2, <1>3, <1>4 DEF F8, Direction, Dwindles
<1> QED BY <1>5, <1>6, <1>7, <1>8, <1>9, <1>10, <1>11 DEF FlightOf

\* The other device answers no packet.  It reads, gives up sockets or accepts.
LEMMA ReceiverQuiet ==
  ASSUME Types, Types', SocketsInv, NEW p \in Peers, FlightOf(p), Dwindles(p),
         UNCHANGED <<pc[p], doing[p], out[p], in[p]>>,
         \A c \in Conns : Carries(c, Other(p), "packet")' =>
           /\ c = Port(Other(p)) => c = Port(Other(p))'
           /\ c \in Pending(Other(p)) => c \in Pending(Other(p))' \/ c = Port(Other(p))',
         \/ UNCHANGED backlog[Other(p)]
         \/ backlog[Other(p)] # <<>> /\ backlog'[Other(p)] = Tail(backlog[Other(p)]),
         \/ in'[Other(p)] \in {in[Other(p)], NoConn} \/ in'[Other(p)] # out[p]
         \/ /\ backlog[Other(p)] # <<>> /\ backlog'[Other(p)] = Tail(backlog[Other(p)])
            /\ in'[Other(p)] = Head(backlog[Other(p)]),
         \A c \in Pending(Other(p))' : NextIs(Other(p), c, "B")' => NextIs(Other(p), c, "B")
  PROVE  FlightOf(p)'
<1> DEFINE q == Other(p)
<1>1. F1(p) /\ F2(p) /\ F3(p) /\ F4(p) /\ F5(p) /\ F6(p) /\ F7(p) /\ F8(p) BY DEF FlightOf
<1>2. \A c \in Conns : /\ Carries(c, q, "packet")' => Carries(c, q, "packet")
                       /\ Carries(c, p, "ack")' => Carries(c, p, "ack")
                       /\ Once(conn[c].q[q], "packet") => Once(conn'[c].q[q], "packet")
                       /\ Once(conn[c].q[p], "ack") => Once(conn'[c].q[p], "ack")
  BY DwindlesKeeps
<1>3. q \in Peers /\ Pending(q) \subseteq Conns /\ NoConn \notin Conns
      /\ \A k \in DOMAIN backlog[q] : backlog[q][k] \in Pending(q)
  BY OtherPeer, PendingType
<1>4. /\ Line(p)' = Line(p) /\ (Waits(p)' <=> Waits(p)) /\ (AnswerRead(p)' <=> AnswerRead(p))
      /\ (Direction' <=> Direction)
  BY DEF Line, Single, Waits, AnswerRead, Direction, Dwindles
\* Where a connection that still waits was before.
<1>5. /\ Pending(q)' \subseteq Pending(q)
      /\ \A j \in DOMAIN backlog'[q] : backlog'[q][j] \in Conns
      /\ \/ backlog'[q] = backlog[q]
         \/ \A k \in DOMAIN backlog'[q] : k \in Nat /\ k + 1 \in DOMAIN backlog[q]
                                          /\ backlog'[q][k] = backlog[q][k + 1] /\ 1 < k + 1
  <2>1. CASE backlog'[q] = backlog[q] BY <2>1, <1>3 DEF Pending
  <2>2. CASE backlog[q] # <<>> /\ backlog'[q] = Tail(backlog[q])
    <3>1. /\ Pending(q)' = Pending(q) \ {Head(backlog[q])}
          /\ \A k \in DOMAIN backlog'[q] : k \in Nat /\ k + 1 \in DOMAIN backlog[q]
                                           /\ backlog'[q][k] = backlog[q][k + 1] /\ 1 < k + 1
      BY <2>2, <1>3, PendingPops
    <3> QED BY <3>1, <1>3
  <2> QED BY <2>1, <2>2
<1>6. F1(p)' BY <1>1, DwindlesKeeps
<1>7. F2(p)' BY <1>1, <1>2 DEF F2
<1>8. F3(p)'
  <2> SUFFICES ASSUME NEW j \in DOMAIN backlog'[q], NEW k \in DOMAIN backlog'[q],
                      backlog'[q][k] = out[p], j > k, NEW c \in Conns, c = backlog'[q][j]
               PROVE  ~Carries(c, q, "packet")'
    BY <1>5 DEF F3
  <2>1. ~Carries(c, q, "packet")
    <3>1. CASE backlog'[q] = backlog[q] BY <3>1, <1>1 DEF F3
    <3>2. CASE \A i \in DOMAIN backlog'[q] : i \in Nat /\ i + 1 \in DOMAIN backlog[q]
                                             /\ backlog'[q][i] = backlog[q][i + 1] /\ 1 < i + 1
      <4>1. j + 1 \in DOMAIN backlog[q] /\ k + 1 \in DOMAIN backlog[q] /\ j + 1 > k + 1
            /\ backlog'[q][j] = backlog[q][j + 1] /\ backlog[q][k + 1] = out[p]
        BY <3>2
      <4> QED BY <4>1, <1>1 DEF F3
    <3> QED BY <3>1, <3>2, <1>5
  <2> QED BY <2>1, <1>2
<1>9. F4(p)'
  <2> SUFFICES ASSUME in'[q] # NoConn, in'[q] = out[p], NEW c \in Pending(q)'
               PROVE  ~Carries(c, q, "packet")'
    BY DEF F4
  <2>1. c \in Pending(q) /\ c \in Conns BY <1>3, <1>5
  <2>2. CASE in'[q] = in[q] BY <2>1, <2>2, <1>1, <1>2 DEF F4
  <2>3. CASE backlog[q] # <<>> /\ backlog'[q] = Tail(backlog[q]) /\ in'[q] = Head(backlog[q])
    <3>1. PICK k \in DOMAIN backlog'[q] : c = backlog'[q][k] BY DEF Pending
    <3>2. k + 1 \in DOMAIN backlog[q] /\ c = backlog[q][k + 1] /\ 1 < k + 1 /\ k \in Nat
      BY <3>1, <2>3, <1>3, PendingPops
    <3>3. 1 \in DOMAIN backlog[q] /\ Head(backlog[q]) = backlog[q][1] BY <2>3, <1>3, PendingType
    <3>4. ~Carries(c, q, "packet") BY <3>2, <3>3, <2>3, <1>1 DEF F3
    <3> QED BY <3>4, <2>1, <1>2
  <2> QED BY <2>2, <2>3
<1>10. F5(p)' BY <1>1, <1>2, <1>4 DEF F5
<1>11. F6(p)' BY <1>1, <1>2, <1>4, DwindlesKeeps DEF F6
<1>12. F7(p)' BY <1>1, <1>4, DwindlesKeeps DEF F7
<1>13. F8(p)' BY <1>1, <1>2, <1>3, <1>4, <1>5 DEF F8
<1> QED BY <1>6, <1>7, <1>8, <1>9, <1>10, <1>11, <1>12, <1>13 DEF FlightOf

\* The devices agree on which socket a packet is sent and read on.
LEMMA LineMeetsPort ==
  ASSUME Types, PlacesInv, SocketsInv, ApartInv, NEW p \in Peers, NEW c \in Conns
  PROVE  /\ (c = Line(p) /\ conn[c].open[Other(p)]) => c = Port(Other(p)) \/ c \in Pending(Other(p))
         /\ (c = Port(Other(p)) /\ conn[c].open[p] /\ conn[c].q[Other(p)] # <<>>) => c = Line(p)
         /\ (Line(p) = out[p] /\ Port(Other(p)) = in[Other(p)]) \/ backlog[Other(p)] = <<>>
         /\ (Line(p) = Port(Other(p)) /\ Line(p) # NoConn) =>
              out[p] = in[Other(p)] \/ Pending(Other(p)) = {}
<1> DEFINE q == Other(p)
<1>1. /\ q \in Peers /\ Other(q) = p /\ q # p /\ c # NoConn
  BY OtherPeer, TcpAssumption
<1>2. p \in {A, B} /\ A # B /\ Other(A) = B /\ Other(B) = A BY TcpAssumption DEF Peers, Other
<1>3. SocketsOf(p) /\ SocketsOf(q) /\ ApartOf(p) /\ ApartOf(q) BY <1>1 DEF SocketsInv, ApartInv
<1>4. (Single => in[A] = NoConn /\ out[B] = NoConn /\ backlog[A] = <<>>)
  BY <1>2 DEF PlacesInv, PlaceOf, Peers
<1>5. Pending(q) = {} \/ backlog[q] # <<>> BY NoItems DEF Pending, Items
<1>6. ASSUME c = Line(p), conn[c].open[q] PROVE c = Port(q) \/ c \in Pending(q)
  <2>1. c \in Holds(q) BY <1>3, <1>6 DEF SocketsOf
  <2>2. CASE ~Single BY <2>1, <2>2, <1>1, <1>3, <1>6 DEF Line, Port, Holds, ApartOf
  <2>3. CASE Single
    <3>1. p = A => out[q] = NoConn /\ Port(q) = in[q] BY <2>3, <1>2, <1>4 DEF Port
    <3>2. p = B => in[q] = NoConn /\ Port(q) = out[q] BY <2>3, <1>2, <1>4 DEF Port
    <3> QED BY <3>1, <3>2, <2>1, <1>2 DEF Holds
  <2> QED BY <2>2, <2>3
<1>7. ASSUME c = Port(q), conn[c].open[p], conn[c].q[q] # <<>> PROVE c = Line(p)
  <2>1. c \in Holds(p) BY <1>3, <1>7 DEF SocketsOf
  <2>2. c \notin Pending(p) BY <1>3, <1>7 DEF SocketsOf
  <2>3. CASE ~Single BY <2>1, <2>2, <2>3, <1>1, <1>3, <1>7 DEF Line, Port, Holds, ApartOf
  <2>4. CASE Single
    <3>1. p = A => in[p] = NoConn /\ Line(p) = out[p] BY <2>4, <1>2, <1>4 DEF Line
    <3>2. p = B => out[p] = NoConn /\ Line(p) = in[p] BY <2>4, <1>2, <1>4 DEF Line
    <3> QED BY <3>1, <3>2, <2>1, <2>2, <1>2 DEF Holds
  <2> QED BY <2>3, <2>4
<1>8. (Line(p) = out[p] /\ Port(q) = in[q]) \/ backlog[q] = <<>>
  <2>1. ~Single => Line(p) = out[p] /\ Port(q) = in[q] BY DEF Line, Port
  <2>2. Single /\ p = A => Line(p) = out[p] /\ Port(q) = in[q] BY <1>2 DEF Line, Port
  <2>3. Single /\ p = B => backlog[q] = <<>> BY <1>2, <1>4
  <2> QED BY <2>1, <2>2, <2>3, <1>2
<1> QED BY <1>5, <1>6, <1>7, <1>8

\* The device that sends writes its packet, and waits for the answer.
LEMMA SenderWrites ==
  ASSUME Types, Types', PlacesInv, SocketsInv, ApartInv, NEW p \in Peers, FlightOf(p),
         NEW c0 \in Conns, c0 = Line(p), NEW reads \in BOOLEAN, NEW items \in Seq(ItemType),
         Effect(conn, conn', p, c0, reads, items, {}), reads => conn[c0].q[p] # <<>>,
         Once(items, "packet"),
         \A i \in Items(items) : /\ i.kind \notin {"A_ACK", "B"}
                                 /\ i.kind = "packet" => todo[p] # <<>> /\ i.val = Head(todo[p]),
         ~Waits(p), Waits(p)',
         UNCHANGED <<mode, todo[p], doing[p], out[p], in[p]>>,
         UNCHANGED <<backlog[Other(p)], in[Other(p)], out[Other(p)]>>
  PROVE  FlightOf(p)'
<1> DEFINE q == Other(p)
<1>1. F1(p) /\ F2(p) /\ F3(p) /\ F4(p) /\ F5(p) /\ F6(p) /\ F7(p) /\ F8(p) BY DEF FlightOf
<1>2. q \in Peers /\ Pending(q) \subseteq Conns /\ NoConn \notin Conns /\ Other(q) = p
      /\ \A k \in DOMAIN backlog[q] : backlog[q][k] \in Pending(q)
  BY OtherPeer, PendingType
<1>3. SocketsOf(p) /\ SocketsOf(q) /\ ApartOf(p) /\ ApartOf(q) BY <1>2 DEF SocketsInv, ApartInv
<1>4. Pending(q)' = Pending(q) /\ Port(q)' = Port(q) /\ Line(p)' = Line(p) /\ (Direction' <=> Direction)
  BY DEF Pending, Port, Line, Single, Direction
<1>5. \A c \in Conns : conn[c].q[q] \in Seq(ItemType)
  <2>1. \A c \in Conns : conn[c] \in ConnType BY DEF Types
  <2> QED BY <2>1, <1>2 DEF ConnType
<1>6. Types /\ conn \in [Conns -> ConnType] BY DEF Types
\* Elsewhere nothing comes to q.
<1>7. \A c \in Conns : /\ Fewer(conn'[c].q[p], conn[c].q[p], "ack")
                       /\ c # c0 => Fewer(conn'[c].q[q], conn[c].q[q], "packet")
  <2> TAKE c \in Conns
  <2>1. Fewer(conn'[c].q[p], conn[c].q[p], "ack") BY <1>6, EffectFewer
  <2>2. (c # c0 \/ ~Contains(items, "packet")) =>
          Fewer(conn'[c].q[Other(p)], conn[c].q[Other(p)], "packet")
    <3>1. reads => c0 \in Conns /\ conn[c0].q[p] # <<>> OBVIOUS
    <3>2. Effect(conn, conn', p, c0, reads, items, {}) OBVIOUS
    <3> QED BY ONLY <1>6, <3>1, <3>2, EffectFewer, p \in Peers, reads \in BOOLEAN, items \in Seq(ItemType), c \in Conns
  <2> QED BY <2>1, <2>2
<1>8. \A c \in Conns : /\ Carries(c, p, "ack")' => Carries(c, p, "ack")
                       /\ (c # c0 /\ Carries(c, q, "packet")') => Carries(c, q, "packet")
  BY <1>7, FewerHas DEF Carries
<1>9. ~Carries(c0, q, "packet") /\ \A c \in Conns : ~Carries(c, p, "ack") BY <1>1 DEF F5, F6
\* What q finds on c0.
<1>10. \/ conn'[c0].q[q] \in {<<>>, conn[c0].q[q]}
       \/ conn[c0].open[q] /\ conn'[c0].q[q] = conn[c0].q[q] \o items
  BY DEF Effect
<1>11. F1(p)'
  <2> SUFFICES ASSUME NEW c \in Conns, NEW i \in Items(conn'[c].q[q]), i.kind = "packet"
               PROVE  todo[p] # <<>> /\ i.val = Head(todo[p])
    BY DEF F1
  <2>1. i \in Items(conn[c].q[q]) => todo[p] # <<>> /\ i.val = Head(todo[p]) BY <1>1 DEF F1
  <2>2. CASE c # c0 BY <2>1, <2>2, <1>7 DEF Fewer
  <2>3. CASE c = c0
    <3>1. CASE conn'[c0].q[q] = <<>> BY <3>1, <2>3, NoItems
    <3>2. CASE conn'[c0].q[q] = conn[c0].q[q] BY <3>2, <2>1, <2>3
    <3>3. CASE conn'[c0].q[q] = conn[c0].q[q] \o items
      <4>1. i \in Items(conn[c0].q[q]) \cup Items(items) BY <3>3, <2>3, <1>5, JoinItems
      <4> QED BY <4>1, <2>1, <2>3
    <3> QED BY <3>1, <3>2, <3>3, <1>10
  <2> QED BY <2>2, <2>3
<1>12. Carries(c0, q, "packet")' => conn[c0].open[q] /\ Once(conn'[c0].q[q], "packet")
  <2>1. CASE conn'[c0].q[q] \in {<<>>, conn[c0].q[q]}
    <3>1. ~Carries(c0, q, "packet")' BY <2>1, <1>9, NoItems DEF Carries, Contains
    <3> QED BY <3>1
  <2>2. CASE conn[c0].open[q] /\ conn'[c0].q[q] = conn[c0].q[q] \o items
    <3>1. ~Contains(conn[c0].q[q], "packet") BY <1>9 DEF Carries
    <3>2. Once(conn[c0].q[q] \o items, "packet") BY <3>1, <1>5, JoinItems
    <3> QED BY <3>2, <2>2
  <2> QED BY <2>1, <2>2, <1>10
<1>13. F2(p)'
  <2> SUFFICES ASSUME NEW c \in Conns, Carries(c, q, "packet")'
               PROVE  c = Port(q) \/ c \in Pending(q)
    BY <1>4 DEF F2
  <2>1. CASE c # c0 BY <2>1, <1>1, <1>8 DEF F2
  <2>2. CASE c = c0 BY <2>2, <1>12, LineMeetsPort
  <2> QED BY <2>1, <2>2
<1>14. (c0 = out[p] /\ \A c \in Pending(q) : NextIs(q, c, "B") => c # out[p]) \/ Pending(q) = {}
  <2>1. c0 = out[p] \/ backlog[q] = <<>> BY LineMeetsPort
  <2>2. \A c \in Pending(q) : NextIs(q, c, "B") => c # out[p] BY <1>2, <1>3 DEF ApartOf
  <2> QED BY <2>1, <2>2, NoItems DEF Pending, Items
<1>15. F3(p)'
  <2> SUFFICES ASSUME NEW j \in DOMAIN backlog[q], NEW k \in DOMAIN backlog[q],
                      backlog[q][k] = out[p], j > k
               PROVE  ~Carries(backlog[q][j], q, "packet")'
    BY DEF F3
  <2>1. j \in Nat /\ k \in Nat
    <3>1. backlog[q] \in Seq(Conns) BY <1>2 DEF Types
    <3> QED BY <3>1
  <2>2. backlog[q][j] # backlog[q][k] BY <2>1, <1>3 DEF SocketsOf
  <2>3. backlog[q][j] # c0 BY <2>2, <1>2, <1>14
  <2>4. ~Carries(backlog[q][j], q, "packet") BY <1>1 DEF F3
  <2> QED BY <2>3, <2>4, <1>2, <1>8
<1>16. F4(p)'
  <2> SUFFICES ASSUME in[q] # NoConn, in[q] = out[p], NEW c \in Pending(q)
               PROVE  ~Carries(c, q, "packet")'
    BY <1>4 DEF F4
  <2>1. c # c0 BY <1>3, <1>14 DEF SocketsOf
  <2> QED BY <2>1, <1>1, <1>2, <1>8 DEF F4
<1>17. F5(p)' BY <1>4, <1>8, <1>9, <1>12 DEF F5
<1>18. F6(p)' /\ F7(p)'
  <2>1. ~AnswerRead(p)' BY DEF AnswerRead, Waits
  <2> QED BY <2>1, <1>8, <1>9 DEF F6, F7
<1>19. F8(p)'
  <2> SUFFICES ASSUME Direction, NEW c \in Pending(q), NextIs(q, c, "B")'
               PROVE  ~Carries(c, q, "packet")'
    BY <1>4 DEF F8
  <2>1. c \in Conns BY <1>2
  <2>2. NextIs(q, c, "B") BY <2>1, NextStays
  <2>3. c # c0 BY <2>2, <1>14
  <2> QED BY <2>1, <2>2, <2>3, <1>1, <1>8 DEF F8
<1> QED BY <1>11, <1>13, <1>15, <1>16, <1>17, <1>18, <1>19 DEF FlightOf

LEMMA EffectDwindles ==
  ASSUME Types, NEW s \in Peers, NEW p \in Peers, NEW c0, NEW reads \in BOOLEAN, NEW items \in Seq(ItemType), NEW C,
         Effect(conn, conn', s, c0, reads, items, C), reads => c0 \in Conns /\ conn[c0].q[s] # <<>>,
         UNCHANGED <<mode, todo[p]>>, Result(Other(p)) \subseteq Result(Other(p))',
         \/ p = s /\ ~Contains(items, "packet")
         \/ p = Other(s) /\ ~Contains(items, "ack")
         \/ items = <<>>
  PROVE  Dwindles(p)
<1>1. conn \in [Conns -> ConnType] BY DEF Types
<1>2. p = s \/ (p = Other(s) /\ s = Other(p)) BY OtherPeer DEF Peers, Other
<1>3. items = <<>> => \A kind : ~Contains(items, kind) BY NoItems
<1>4. \A kind : \A c \in Conns : /\ Fewer(conn'[c].q[s], conn[c].q[s], kind)
                                 /\ ~Contains(items, kind) =>
                                      Fewer(conn'[c].q[Other(s)], conn[c].q[Other(s)], kind)
  BY <1>1, EffectFewer
<1>5. CASE p = s /\ ~Contains(items, "packet") BY <1>4, <1>5 DEF Dwindles
<1>6. CASE p = Other(s) /\ s = Other(p) /\ ~Contains(items, "ack") BY <1>4, <1>6 DEF Dwindles
<1> QED BY <1>2, <1>3, <1>5, <1>6

\* The other device reads a packet and answers it, if the sender is still there.
LEMMA ReceiverReads ==
  ASSUME Types, Types', PlacesInv, SocketsInv, ApartInv, NEW s \in Peers, FlightOf(Other(s)),
         NEW c0 \in Conns, c0 = Port(s), NEW items \in Seq(ItemType), NEW C, C \subseteq {c0},
         Effect(conn, conn', s, c0, TRUE, items, C), conn[c0].q[s] # <<>>, NextIs(s, c0, "packet"),
         Once(items, "ack"), \A i \in Items(items) : i.kind \notin {"A_ACK", "B"},
         Head(conn[c0].q[s]).val \in Result(s)', Result(s) \subseteq Result(s)',
         UNCHANGED <<mode, todo[Other(s)], pc[Other(s)], doing[Other(s)], out[Other(s)], in[Other(s)]>>,
         UNCHANGED backlog[s], in'[s] \in {in[s], NoConn}, C = {} => Port(s)' = Port(s)
  PROVE  FlightOf(Other(s))'
<1> PICK p : p = Other(s) OBVIOUS
<1>1. p \in Peers /\ Other(p) = s /\ NoConn \notin Conns BY OtherPeer, TcpAssumption
<1>2. FlightOf(p) OBVIOUS
<1>3. F1(p) /\ F2(p) /\ F3(p) /\ F4(p) /\ F5(p) /\ F6(p) BY <1>2 DEF FlightOf
<1>4. conn[c0].q[s] \in Seq(ItemType) /\ conn[c0].q[p] \in Seq(ItemType)
  <2>1. conn[c0] \in ConnType BY DEF Types
  <2> QED BY <2>1, <1>1 DEF ConnType
<1>5. Pending(s)' = Pending(s) /\ Pending(s) \subseteq Conns BY PendingType DEF Pending
<1>6. c0 \notin Pending(s)
  <2>1. c0 \in {in[s], out[s]} BY DEF Port
  <2> QED BY <2>1 DEF SocketsInv, SocketsOf
<1>7. \A c \in Conns : c # c0 => conn'[c].q[s] \in {<<>>, conn[c].q[s]} /\ conn'[c].q[p] \in {<<>>, conn[c].q[p]}
  BY <1>1 DEF Effect
<1>8. conn'[c0].q[s] \in {<<>>, Tail(conn[c0].q[s])} /\ (C # {} => conn'[c0].q[s] = <<>>) BY DEF Effect
<1>9. /\ Head(conn[c0].q[s]).kind = "packet" /\ Head(conn[c0].q[s]) \in Items(conn[c0].q[s])
      /\ \A kind : Fewer(Tail(conn[c0].q[s]), conn[c0].q[s], kind)
      /\ Once(conn[c0].q[s], "packet") => ~Contains(Tail(conn[c0].q[s]), "packet")
  BY <1>4, TailItems DEF NextIs
<1>10. Carries(c0, s, "packet") /\ todo[p] # <<>> /\ Head(conn[c0].q[s]).val = Head(todo[p])
  BY <1>1, <1>3, <1>9 DEF Carries, Contains, F1
<1>11. CASE conn'[c0].q[p] \in {<<>>, conn[c0].q[p]}
  <2>1. \A c \in Conns : \A kind : Fewer(conn'[c].q[s], conn[c].q[s], kind) /\ Fewer(conn'[c].q[p], conn[c].q[p], kind)
    <3> TAKE c \in Conns
    <3> TAKE kind
    <3>1. CASE c # c0 BY <3>1, <1>7, FewerOf
    <3>2. CASE c = c0 BY <3>2, <1>8, <1>9, <1>11, FewerOf
    <3> QED BY <3>1, <3>2
  <2>2. Dwindles(p) BY <2>1, <1>1 DEF Dwindles
  <2>3. \A c \in Conns : Carries(c, s, "packet")' => (c = Port(s) => c = Port(s)')
    <3> SUFFICES ASSUME Carries(c0, s, "packet")' PROVE c0 = Port(s)' OBVIOUS
    <3>1. C = {} BY <1>8, NoItems DEF Carries
    <3> QED BY <3>1
  <2>4. \A c \in Pending(s)' : NextIs(s, c, "B")' => NextIs(s, c, "B")
    BY <1>5, <1>6, <1>7 DEF NextIs
  <2>5. /\ UNCHANGED <<pc[p], doing[p], out[p], in[p]>>
        /\ UNCHANGED backlog[Other(p)]
        /\ in'[Other(p)] \in {in[Other(p)], NoConn} \/ in'[Other(p)] # out[p]
        /\ \A c \in Conns : Carries(c, Other(p), "packet")' =>
             /\ c = Port(Other(p)) => c = Port(Other(p))'
             /\ c \in Pending(Other(p)) => c \in Pending(Other(p))' \/ c = Port(Other(p))'
        /\ \A c \in Pending(Other(p))' : NextIs(Other(p), c, "B")' => NextIs(Other(p), c, "B")
    BY <2>3, <2>4, <1>1, <1>5
  <2>6. FlightOf(p)' BY <2>2, <2>5, <1>1, <1>2, ReceiverQuiet
  <2> QED BY <2>6
<1>12. CASE conn[c0].open[p] /\ conn'[c0].q[p] = conn[c0].q[p] \o items
  <2>1. c0 = Line(p) BY <1>1, <1>12, LineMeetsPort
  <2>2. Waits(p) /\ Once(conn[c0].q[s], "packet") /\ ~Contains(conn[c0].q[p], "ack")
    BY <2>1, <1>1, <1>3, <1>10 DEF F5, Carries
  <2>3. \A c \in Conns : ~Contains(conn'[c].q[s], "packet")
    <3> TAKE c \in Conns
    <3>1. CASE c = c0 BY <3>1, <2>2, <1>8, <1>9, NoItems
    <3>2. CASE c # c0
      <4>1. ~Carries(c, s, "packet")
        <5>1. Pending(s) = {} \/ (out[p] = in[s] /\ in[s] # NoConn)
          <6>1. Line(p) = Port(Other(p)) /\ Line(p) # NoConn BY <2>1, <1>1
          <6>2. out[p] = in[s] \/ Pending(s) = {} BY <6>1, <1>1, LineMeetsPort
          <6>3. (Line(p) = out[p] /\ Port(s) = in[s]) \/ backlog[s] = <<>> BY <1>1, LineMeetsPort
          <6>4. backlog[s] = <<>> => Pending(s) = {} BY NoItems DEF Pending, Items
          <6> QED BY <6>1, <6>2, <6>3, <6>4, <2>1
        <5>2. \A d \in Pending(s) : ~Carries(d, s, "packet") BY <5>1, <1>1, <1>3 DEF F4
        <5> QED BY <5>2, <3>2, <1>1, <1>3 DEF F2
      <4> QED BY <4>1, <3>2, <1>7, NoItems DEF Carries
    <3> QED BY <3>1, <3>2
  <2>4. Arrived(p)' BY <2>3, <1>1, <1>10 DEF Arrived, Carries
  <2>5. Line(p)' = Line(p) /\ Waits(p)' BY <2>2 DEF Line, Single, Waits
  <2>6. \A c \in Conns : Contains(conn'[c].q[p], "ack") => c = c0 /\ Once(conn'[c].q[p], "ack")
    <3> TAKE c \in Conns
    <3>1. CASE c # c0
      <4>1. ~Contains(conn[c].q[p], "ack") BY <3>1, <2>1, <1>3 DEF F6, Carries
      <4> QED BY <4>1, <3>1, <1>7, NoItems
    <3>2. CASE c = c0
      <4>1. Once(conn[c0].q[p] \o items, "ack") BY <2>2, <1>4, JoinItems
      <4> QED BY <4>1, <3>2, <1>12
    <3> QED BY <3>1, <3>2
  <2>7. F6(p)' BY <2>1, <2>4, <2>5, <2>6 DEF F6, Carries
  <2>8. F1(p)' /\ F2(p)' /\ F5(p)' BY <2>3, <1>1 DEF F1, F2, F5, Carries, Contains
  <2>9. F3(p)'
    <3>1. backlog'[s] \in Seq(Conns) BY DEF Types
    <3>2. \A j \in DOMAIN backlog'[s] : backlog'[s][j] \in Conns BY <3>1
    <3> QED BY <3>2, <2>3, <1>1 DEF F3, Carries
  <2>10. F4(p)' /\ F8(p)' BY <2>3, <1>1, <1>5 DEF F4, F8, Carries
  <2>11. F7(p)' BY <2>4 DEF F7
  <2>12. FlightOf(p)' BY <2>7, <2>8, <2>9, <2>10, <2>11 DEF FlightOf
  <2> QED BY <2>12
<1>13. conn'[c0].q[p] \in {<<>>, conn[c0].q[p]} \/ (conn[c0].open[p] /\ conn'[c0].q[p] = conn[c0].q[p] \o items)
  BY DEF Effect
<1> QED BY <1>11, <1>12, <1>13

\* A new connection has no packet and no answer.
LEMMA OpensFlight ==
  ASSUME Types, Types', SocketsInv, NEW s \in Peers, FlightInv, NEW c \in Free, NEW header \in {"A_ACK", "B"},
         NEW pair \in Conns \cup {NoConn}, Opens(s, c, header, pair), Single => s = A /\ header = "A_ACK",
         UNCHANGED <<mode, todo, doing, got, frames>>, UNCHANGED pc[Other(s)],
         ~Waits(s), ~Waits(s)', ~AnswerRead(s)'
  PROVE  FlightInv'
<1> DEFINE o == Other(s)
<1>1. o \in Peers /\ o # s /\ Other(o) = s /\ \A p \in Peers : p = s \/ p = o
  BY OtherPeer DEF Peers, Other
<1>2. /\ c \in Conns /\ c # NoConn /\ c \notin Holds(s) /\ c \notin Holds(o)
      /\ conn[c].q[s] = <<>> /\ conn[c].q[o] = <<>>
      /\ conn'[c].q[s] = <<>> /\ conn'[c].q[o] = <<Item(header, 0)>>
      /\ \A d \in Conns : d # c => conn'[d] = conn[d]
  BY <1>1, OpensEffect
<1>3. Item(header, 0) \in ItemType /\ Item(header, 0).kind \notin {"packet", "ack"}
  BY DEF Item, ItemType, Kinds
<1>4. \A kind \in {"packet", "ack"} : ~Contains(<<Item(header, 0)>>, kind) /\ Once(<<Item(header, 0)>>, kind)
  BY <1>3, FewItems DEF Contains
<1>5. \A d \in Conns : \A kind \in {"packet", "ack"} :
        /\ Fewer(conn'[d].q[s], conn[d].q[s], kind) /\ Fewer(conn'[d].q[o], conn[d].q[o], kind)
        /\ Contains(conn'[d].q[s], kind) => d # c
        /\ Contains(conn'[d].q[o], kind) => d # c
  <2> TAKE d \in Conns
  <2> TAKE kind \in {"packet", "ack"}
  <2>1. CASE d # c BY <2>1, <1>2, FewerOf
  <2>2. CASE d = c
    <3>1. Fewer(conn'[c].q[s], conn[c].q[s], kind) /\ ~Contains(conn'[c].q[s], kind)
      BY <1>2, FewerOf, NoItems
    <3>2. Fewer(conn'[c].q[o], conn[c].q[o], kind) /\ ~Contains(conn'[c].q[o], kind)
      BY <1>2, <1>4 DEF Fewer, Contains
    <3> QED BY <3>1, <3>2, <2>2
  <2> QED BY <2>1, <2>2
<1>6. Dwindles(s) /\ Dwindles(o) BY <1>1, <1>5 DEF Dwindles, Result, Single
<1>7. /\ UNCHANGED <<out[o], in[o], backlog[s]>> /\ c \notin Pending(o) /\ c \notin Pending(s)
      /\ c # in[s] /\ c # out[s] /\ c # in[o] /\ c # out[o]
      /\ \/ header = "A_ACK" /\ out[s] = NoConn /\ out'[s] = c /\ in'[s] = in[s]
         \/ header = "B" /\ in[s] = NoConn /\ in'[s] = c /\ out'[s] = out[s]
  BY <1>2 DEF Opens, Holds
<1>8. Pending(o) \subseteq Conns /\ Pending(s) \subseteq Conns /\ NoConn \notin Conns /\ Pending(s)' = Pending(s)
  BY <1>1, <1>7, PendingType DEF Pending
<1>9. FlightOf(s) /\ FlightOf(o) BY <1>1 DEF FlightInv
\* What the device that listens sends.
<1>10. FlightOf(o)'
  <2>1. \A d \in Conns : Carries(d, s, "packet")' =>
          /\ d = Port(s) => d = Port(s)'
          /\ d \in Pending(s) => d \in Pending(s)' \/ d = Port(s)'
    <3> SUFFICES ASSUME NEW d \in Conns, d = Port(s) PROVE d = Port(s)' BY <1>8
    <3>1. CASE Single /\ s = A BY <3>1, <1>7, <1>8 DEF Port
    <3>2. CASE ~(Single /\ s = A)
      <4>1. d = in[s] /\ Port(s)' = in'[s] BY <3>2, <1>6 DEF Port, Single, Dwindles
      <4> QED BY <4>1, <1>7, <1>8
    <3> QED BY <3>1, <3>2
  <2>2. \A d \in Pending(s)' : NextIs(s, d, "B")' => NextIs(s, d, "B")
    <3>1. \A d \in Pending(s)' : conn'[d] = conn[d] BY <1>2, <1>7, <1>8
    <3> QED BY <3>1 DEF NextIs
  <2>3. in'[s] \in {in[s], NoConn} \/ in'[s] # out[o] BY <1>7
  <2> PICK p : p = o OBVIOUS
  <2>4. /\ p \in Peers /\ FlightOf(p) /\ Dwindles(p) /\ Other(p) = s
        /\ UNCHANGED <<pc[p], doing[p], out[p], in[p]>> /\ UNCHANGED backlog[Other(p)]
        /\ in'[Other(p)] \in {in[Other(p)], NoConn} \/ in'[Other(p)] # out[p]
        /\ \A d \in Conns : Carries(d, Other(p), "packet")' =>
             /\ d = Port(Other(p)) => d = Port(Other(p))'
             /\ d \in Pending(Other(p)) => d \in Pending(Other(p))' \/ d = Port(Other(p))'
        /\ \A d \in Pending(Other(p))' : NextIs(Other(p), d, "B")' => NextIs(Other(p), d, "B")
    BY <2>1, <2>2, <2>3, <1>1, <1>6, <1>7, <1>9
  <2>5. FlightOf(p)' BY <2>4, ReceiverQuiet
  <2> QED BY <2>5
\* What the device that connects sends.
<1>11. FlightOf(s)'
  <2>1. F1(s) /\ F2(s) /\ F3(s) /\ F4(s) /\ F5(s) /\ F6(s) /\ F8(s) BY <1>9 DEF FlightOf
  <2>2. \A d \in Conns : /\ Carries(d, o, "packet")' => d # c /\ Carries(d, o, "packet")
                         /\ ~Carries(d, s, "ack")'
    <3>1. \A d \in Conns : ~Carries(d, s, "ack") BY <2>1 DEF F6
    <3> QED BY <3>1, <1>5, <1>6, DwindlesKeeps DEF Carries
  <2>3. /\ Pending(o)' = Pending(o) \cup {c} /\ Port(o)' = Port(o)
        /\ \A k \in DOMAIN backlog'[o] : \/ k \in DOMAIN backlog[o] /\ backlog'[o][k] = backlog[o][k]
                                         \/ backlog'[o][k] = c /\ \A j \in DOMAIN backlog'[o] : ~(j > k)
    <3> PICK b : b = backlog[o] OBVIOUS
    <3> PICK a : a = backlog'[o] OBVIOUS
    <3>1. b \in Seq(Conns) /\ a = Append(b, c) /\ c \in Conns BY <1>1, <1>2 DEF Types, Opens
    <3>2. /\ {a[k] : k \in DOMAIN a} = {b[k] : k \in DOMAIN b} \cup {c}
          /\ \A k \in DOMAIN a : (k \in DOMAIN b /\ a[k] = b[k]) \/ (a[k] = c /\ k = Len(b) + 1)
          /\ \A k \in DOMAIN a : k \in Nat /\ k <= Len(b) + 1
          /\ Len(b) \in Nat
      BY ONLY <3>1, PendingAppends
    <3>3. Pending(o) = {b[k] : k \in DOMAIN b} /\ Pending(o)' = {a[k] : k \in DOMAIN a} BY DEF Pending
    <3>4. Port(o)' = Port(o) BY <1>6, <1>7 DEF Port, Single, Dwindles
    <3>5. \A k, j \in DOMAIN a : k = Len(b) + 1 => ~(j > k) BY <3>2
    <3> QED BY <3>2, <3>3, <3>4, <3>5
  <2>4. F1(s)' BY <2>1, <1>6, DwindlesKeeps
  <2>5. F2(s)' BY <2>1, <2>2, <2>3 DEF F2
  <2>6. F3(s)'
    <3> SUFFICES ASSUME NEW j \in DOMAIN backlog'[o], NEW k \in DOMAIN backlog'[o],
                        backlog'[o][k] = out'[s], j > k, NEW d \in Conns, d = backlog'[o][j], d # c
                 PROVE  ~Carries(d, o, "packet")
      <4>1. \A j \in DOMAIN backlog'[o] : backlog'[o][j] \in Conns BY <1>2, <1>8, <2>3 DEF Pending
      <4> QED BY <4>1, <2>2 DEF F3
    <3>1. j \in DOMAIN backlog[o] /\ d = backlog[o][j] BY <2>3
    <3>2. k \in DOMAIN backlog[o] /\ backlog[o][k] = out'[s] BY <2>3
    <3>3. out'[s] # c BY <3>2, <1>7 DEF Pending
    <3>4. out'[s] = out[s] BY <3>3, <1>7
    <3> QED BY <3>1, <3>2, <3>4, <2>1 DEF F3
  <2>7. F4(s)'
    <3> SUFFICES ASSUME in[o] # NoConn, in[o] = out'[s], NEW d \in Conns, d \in Pending(o)
                 PROVE  ~Carries(d, o, "packet")
      BY <1>2, <1>7, <1>8, <2>2, <2>3 DEF F4
    <3>1. out'[s] = out[s] BY <1>7
    <3> QED BY <3>1, <2>1 DEF F4
  <2>8. F5(s)'
    <3> SUFFICES ASSUME NEW d \in Conns, d = Line(s)', Carries(d, o, "packet")' PROVE FALSE
      BY <2>2 DEF F5
    <3>1. d # c /\ Carries(d, o, "packet") BY <2>2
    <3>2. Line(s)' \in {c, Line(s)} BY <1>6, <1>7, TcpAssumption DEF Line, Single, Dwindles
    <3> QED BY <3>1, <3>2, <2>1 DEF F5
  <2>9. F6(s)' /\ F7(s)' BY <2>2 DEF F6, F7
  <2>10. F8(s)'
    <3> SUFFICES ASSUME Direction, NEW d \in Conns, d \in Pending(o), d # c, NextIs(o, d, "B")'
                 PROVE  ~Carries(d, o, "packet")
      BY <1>2, <1>6, <1>8, <2>2, <2>3 DEF F8, Direction, Dwindles
    <3>1. NextIs(o, d, "B") BY <1>2 DEF NextIs
    <3> QED BY <3>1, <2>1 DEF F8
  <2> QED BY <2>4, <2>5, <2>6, <2>7, <2>8, <2>9, <2>10 DEF FlightOf
<1> QED BY <1>1, <1>10, <1>11 DEF FlightInv

-----------------------------------------------------------------------------
(* A step of a device that makes no connection. *)

LinkTypes ==
  /\ conn \in [Conns -> ConnType] /\ backlog \in [Peers -> Seq(Conns)]
  /\ out \in [Peers -> Conns \cup {NoConn}] /\ in \in [Peers -> Conns \cup {NoConn}]
  /\ doing \in [Peers -> {"send", "receive"}]

\* What it does to the sockets.
Moves(s, c0, reads, items, C) ==
  /\ Effect(conn, conn', s, c0, reads, items, C)
  /\ reads => c0 \in Conns /\ conn[c0].q[s] # <<>>
  /\ \A i \in Items(items) : i.kind \notin {"A_ACK", "B"}
  /\ LinkTypes' /\ UNCHANGED <<mode, doing[Other(s)], out[Other(s)], in[Other(s)], backlog[Other(s)]>>
  /\ \/ /\ Sheds(s, C) /\ C \subseteq {in[s], out[s]}
        /\ (reads \/ items # <<>>) => c0 \in {in[s], out[s]}
     \/ /\ Pops(s, C) /\ c0 = Head(backlog[s]) /\ items = <<>>
        /\ out'[s] \in {out[s], NoConn} \/ (Direction /\ s = B)

Acts(s, c0, reads, items, C) ==
  /\ Moves(s, c0, reads, items, C)
  /\ UNCHANGED <<pc[Other(s)], todo[Other(s)], told[Other(s)]>>
  /\ Result(s) \subseteq Result(s)' /\ Result(Other(s))' = Result(Other(s))

\* What becomes of the answer the device waits for.
Settled(s, c0, reads, C) ==
  \/ Line(s)' = Line(s) /\ (Waits(s)' <=> Waits(s))
  \/ ~Waits(s)
  \/ Line(s) \in C /\ Sheds(s, C)
  \/ reads /\ NextIs(s, c0, "ack") /\ Sheds(s, C)

\* Whether the sender is told.
Tells(s, c0, reads) ==
  \/ todo'[s] = todo[s] /\ told'[s] = told[s] /\ (AnswerRead(s)' => AnswerRead(s) \/ Arrived(s))
  \/ /\ Arrived(s) /\ told'[s] = told[s] \cup {Head(todo[s])} /\ ~AnswerRead(s)'
     /\ ~Waits(s) \/ (reads /\ NextIs(s, c0, "ack"))

LEMMA AckArrived ==
  ASSUME Types, NEW s \in Peers, FlightOf(s), NEW c \in Conns, NextIs(s, c, "ack")
  PROVE  /\ c = Line(s) /\ Waits(s) /\ Arrived(s)
         /\ Tail(conn[c].q[s]) \in Seq(ItemType) /\ ~Contains(Tail(conn[c].q[s]), "ack")
         /\ \A d \in Conns : d # c => ~Contains(conn[d].q[s], "ack")
<1>1. conn[c].q[s] \in Seq(ItemType)
  <2>1. conn[c] \in ConnType BY DEF Types
  <2> QED BY <2>1 DEF ConnType
<1>2. Head(conn[c].q[s]) \in Items(conn[c].q[s]) /\ Head(conn[c].q[s]).kind = "ack" /\ conn[c].q[s] # <<>>
  BY <1>1, TailItems DEF NextIs
<1>3. Carries(c, s, "ack") BY <1>2 DEF Carries, Contains
<1>4. c = Line(s) /\ Waits(s) /\ Arrived(s) /\ Once(conn[c].q[s], "ack") BY <1>3 DEF FlightOf, F6
<1>5. \A d \in Conns : d # c => ~Contains(conn[d].q[s], "ack") BY <1>4 DEF FlightOf, F6, Carries
<1>6. Tail(conn[c].q[s]) \in Seq(ItemType) /\ ~Contains(Tail(conn[c].q[s]), "ack")
  BY <1>1, <1>2, <1>4, TailItems
<1> QED BY <1>4, <1>5, <1>6

LEMMA ActsSockets ==
  ASSUME Types, Types', SocketsInv, ApartInv, NEW s \in Peers, NEW c0, NEW reads \in BOOLEAN,
         NEW items \in Seq(ItemType), NEW C, Acts(s, c0, reads, items, C)
  PROVE  SocketsInv' /\ ApartInv'
<1>1. /\ Effect(conn, conn', s, c0, reads, items, C) /\ (reads => conn[c0].q[s] # <<>>)
      /\ \A i \in Items(items) : i.kind \notin {"A_ACK", "B"}
  BY DEF Acts, Moves
<1>2. CASE /\ Sheds(s, C) /\ C \subseteq {in[s], out[s]}
           /\ (reads \/ items # <<>>) => c0 \in {in[s], out[s]}
  BY <1>1, <1>2, ShedsKeep
<1>3. CASE Pops(s, C) /\ c0 = Head(backlog[s]) /\ items = <<>>
  BY <1>1, <1>3, PopsKeep
<1> QED BY <1>2, <1>3 DEF Acts, Moves

\* What the device sends itself, when the step writes no packet.
LEMMA ActsSender ==
  ASSUME Types, Types', PlacesInv, SocketsInv, NEW s \in Peers, FlightOf(s), NEW c0, NEW reads \in BOOLEAN,
         NEW items \in Seq(ItemType), NEW C, Acts(s, c0, reads, items, C), ~Contains(items, "packet"),
         Settled(s, c0, reads, C), Tells(s, c0, reads)
  PROVE  FlightOf(s)'
<1> DEFINE o == Other(s)
<1>1. /\ o \in Peers /\ NoConn \notin Conns BY OtherPeer, TcpAssumption
<1>2. /\ Effect(conn, conn', s, c0, reads, items, C) /\ (reads => c0 \in Conns /\ conn[c0].q[s] # <<>>)
      /\ UNCHANGED mode /\ Result(o) \subseteq Result(o)'
      /\ UNCHANGED <<out[o], in[o], backlog[o]>>
      /\ \A i \in Items(items) : i.kind \notin {"A_ACK", "B"}
  BY DEF Acts, Moves
<1>3. conn \in [Conns -> ConnType] BY DEF Types
<1>4. \A c \in Conns : \A kind : Fewer(conn'[c].q[s], conn[c].q[s], kind)
  BY <1>2, <1>3, EffectFewer
<1>5. \A c \in Conns : Fewer(conn'[c].q[o], conn[c].q[o], "packet")
  BY <1>2, <1>3, EffectFewer
<1>6. \A c \in Conns : /\ Carries(c, o, "packet")' => Carries(c, o, "packet")
                       /\ Carries(c, s, "ack")' => Carries(c, s, "ack")
  BY <1>4, <1>5, FewerHas DEF Carries
<1>7. F5(s) /\ F6(s) BY DEF FlightOf
\* The device waits no more: there is no answer left.
<1>8. ASSUME ~Waits(s) \/ (Line(s) \in C /\ Sheds(s, C)) \/ (reads /\ NextIs(s, c0, "ack") /\ Sheds(s, C))
      PROVE  \A c \in Conns : ~Carries(c, s, "ack")' /\ (c = Line(s)' => ~Carries(c, o, "packet")')
  <2>1. CASE ~Waits(s)
    <3>1. \A c \in Conns : ~Carries(c, s, "ack") BY <2>1, <1>7 DEF F6
    <3>2. \A c \in Conns : c = Line(s) => ~Carries(c, o, "packet") BY <2>1, <1>7 DEF F5
    <3>3. Line(s)' \in {Line(s), NoConn} \/ Line(s)' \in Pending(s)
      <4>1. out'[s] \in {out[s], NoConn} \/ out'[s] \in Pending(s)
        BY PendingType DEF Acts, Moves, Sheds, Pops
      <4>2. in'[s] \in {in[s], NoConn} \/ in'[s] \in Pending(s)
        BY PendingType DEF Acts, Moves, Sheds, Pops
      <4> QED BY <4>1, <4>2, <1>2 DEF Line, Single
    <3>4. \A c \in Pending(s) : ~Carries(c, o, "packet")
      BY NoItems DEF SocketsInv, SocketsOf, Carries
    <3> QED BY <3>1, <3>2, <3>3, <3>4, <1>1, <1>6
  <2>2. CASE Line(s) \in C /\ Sheds(s, C)
    <3>1. Line(s)' = NoConn BY <2>2, <1>2 DEF Line, Single, Sheds
    <3>2. \A c \in Conns : ~Carries(c, s, "ack")'
      <4> SUFFICES ASSUME NEW c \in Conns, Carries(c, s, "ack")' PROVE FALSE OBVIOUS
      <4>1. c = Line(s) BY <1>6, <1>7 DEF F6
      <4>2. conn'[c].q[s] = <<>> BY <4>1, <2>2, <1>2 DEF Effect
      <4> QED BY <4>2, NoItems DEF Carries
    <3> QED BY <3>1, <3>2, <1>1
  <2>3. CASE reads /\ NextIs(s, c0, "ack") /\ Sheds(s, C)
    <3>1. /\ Arrived(s) /\ ~Contains(Tail(conn[c0].q[s]), "ack")
          /\ \A d \in Conns : d # c0 => ~Contains(conn[d].q[s], "ack")
      BY <2>3, <1>2, AckArrived
    <3>2. \A c \in Conns : ~Carries(c, o, "packet")' BY <3>1, <1>6 DEF Arrived
    <3>3. conn'[c0].q[s] \in {<<>>, Tail(conn[c0].q[s])} BY <2>3, <1>2 DEF Effect
    <3>4. \A c \in Conns : ~Carries(c, s, "ack")'
      <4> TAKE c \in Conns
      <4>1. CASE c = c0 BY <4>1, <3>1, <3>3, NoItems DEF Carries
      <4>2. CASE c # c0 BY <4>2, <3>1, <1>6 DEF Carries
      <4> QED BY <4>1, <4>2
    <3> QED BY <3>2, <3>4
  <2> QED BY <1>8, <2>1, <2>2, <2>3
<1>9. CASE todo'[s] = todo[s] /\ (AnswerRead(s)' => AnswerRead(s) \/ Arrived(s))
  <2>1. Dwindles(s) BY <1>2, <1>4, <1>5, <1>9 DEF Dwindles
  <2>2. out'[s] \in {out[s], NoConn} \/ backlog[o] = <<>>
    <3>1. out'[s] \in {out[s], NoConn} \/ (Direction /\ s = B) BY DEF Acts, Moves, Sheds
    <3>2. Direction /\ s = B => backlog[o] = <<>> BY PeersDiffer DEF PlacesInv
    <3> QED BY <3>1, <3>2
  <2>3. \A c \in Pending(o) : NextIs(o, c, "B")' => NextIs(o, c, "B")
    BY <1>1, <1>2, NextStays, PendingType
  <2>4. \/ Line(s)' = Line(s) /\ (Waits(s)' <=> Waits(s))
        \/ /\ \A c \in Conns : ~Carries(c, s, "ack")'
           /\ \A c \in Conns : c = Line(s)' => ~Carries(c, o, "packet")'
    BY <1>8 DEF Settled
  <2> QED BY <2>1, <2>2, <2>3, <2>4, <1>2, <1>9, SenderQuiet
<1>10. CASE Arrived(s) /\ ~AnswerRead(s)' /\ (~Waits(s) \/ (reads /\ NextIs(s, c0, "ack")))
  <2>1. \A c \in Conns : ~Contains(conn'[c].q[o], "packet") BY <1>6, <1>10 DEF Arrived, Carries
  <2>2. \A c \in Conns : ~Contains(conn'[c].q[s], "ack")
    <3>1. CASE ~Waits(s) BY <3>1, <1>8 DEF Carries
    <3>2. CASE reads /\ NextIs(s, c0, "ack")
      <4>1. /\ ~Contains(Tail(conn[c0].q[s]), "ack")
            /\ \A d \in Conns : d # c0 => ~Contains(conn[d].q[s], "ack")
        BY <3>2, <1>2, AckArrived
      <4>2. conn'[c0].q[s] \in {<<>>, Tail(conn[c0].q[s])} BY <3>2, <1>2 DEF Effect
      <4> TAKE c \in Conns
      <4>3. CASE c = c0 BY <4>1, <4>2, <4>3, NoItems
      <4>4. CASE c # c0 BY <4>1, <4>4, <1>6 DEF Carries
      <4> QED BY <4>3, <4>4
    <3> QED BY <3>1, <3>2, <1>10
  <2> QED BY <2>1, <2>2, <1>10, FlightEnds
<1> QED BY <1>9, <1>10 DEF Tells

\* What the other device sends, when the step writes no answer.
LEMMA ActsReceiver ==
  ASSUME Types, Types', PlacesInv, SocketsInv, NEW s \in Peers, FlightOf(Other(s)), NEW c0, NEW reads \in BOOLEAN,
         NEW items \in Seq(ItemType), NEW C, Acts(s, c0, reads, items, C), ~Contains(items, "ack")
  PROVE  FlightOf(Other(s))'
<1> PICK p : p = Other(s) OBVIOUS
<1>1. p \in Peers /\ Other(p) = s /\ NoConn \notin Conns BY OtherPeer, TcpAssumption
<1>2. /\ Effect(conn, conn', s, c0, reads, items, C) /\ (reads => c0 \in Conns /\ conn[c0].q[s] # <<>>)
      /\ \A i \in Items(items) : i.kind \notin {"A_ACK", "B"}
      /\ UNCHANGED <<mode, pc[p], doing[p], todo[p], out[p], in[p], backlog[p]>> /\ Result(s) \subseteq Result(s)'
  BY DEF Acts, Moves
<1>3. Dwindles(p) BY <1>1, <1>2, EffectDwindles
<1>4. FlightOf(p) OBVIOUS
<1>5. \A c \in Conns : c \in C => ~Carries(c, s, "packet")' BY <1>2, NoItems DEF Effect, Carries
<1>6. SocketsOf(s) BY DEF SocketsInv
\* The sockets of the device, whether it accepts or not.
<1>7. CASE /\ Sheds(s, C) /\ C \subseteq {in[s], out[s]}
           /\ (reads \/ items # <<>>) => c0 \in {in[s], out[s]}
  <2>1. Pending(s)' = Pending(s) BY <1>7 DEF Sheds, Pending
  <2>2. \A c \in Conns : Carries(c, s, "packet")' => (c = Port(s) => c = Port(s)')
    BY <1>2, <1>5, <1>7 DEF Port, Single, Sheds
  <2>3. \A c \in Pending(s) : NextIs(s, c, "B")' => NextIs(s, c, "B")
    <3>1. \A c \in Pending(s) : c \in Conns /\ (~reads \/ c # c0) BY <1>6, <1>7, PendingType DEF SocketsOf
    <3> QED BY <3>1, <1>2, NextStays
  <2>4. /\ UNCHANGED backlog[Other(p)] /\ in'[Other(p)] \in {in[Other(p)], NoConn}
        /\ \A c \in Conns : Carries(c, Other(p), "packet")' =>
             /\ c = Port(Other(p)) => c = Port(Other(p))'
             /\ c \in Pending(Other(p)) => c \in Pending(Other(p))' \/ c = Port(Other(p))'
        /\ \A c \in Pending(Other(p))' : NextIs(Other(p), c, "B")' => NextIs(Other(p), c, "B")
    BY <2>1, <2>2, <2>3, <1>1, <1>7 DEF Sheds
  <2>5. FlightOf(p)' BY <2>4, <1>1, <1>2, <1>3, <1>4, ReceiverQuiet
  <2> QED BY <2>5
<1>8. CASE /\ Pops(s, C) /\ c0 = Head(backlog[s]) /\ items = <<>>
           /\ out'[s] \in {out[s], NoConn} \/ (Direction /\ s = B)
  <2>1. backlog[s] # <<>> /\ backlog'[s] = Tail(backlog[s]) BY <1>8 DEF Pops
  <2>2. c0 \in Pending(s) /\ Pending(s)' = Pending(s) \ {c0} /\ Pending(s) \subseteq Conns
    BY <2>1, <1>8, PendingPops, PendingType
  <2>3. ~(Single /\ s = A) BY <2>1 DEF PlacesInv
  <2>4. Port(s) = in[s] /\ Port(s)' = in'[s] BY <2>3, <1>2 DEF Port, Single
  <2>5. /\ C \subseteq {in[s], out[s], c0}
        /\ \/ /\ c0 \in C
              /\ in'[s] = IF in[s] \in C THEN NoConn ELSE in[s]
           \/ /\ c0 \notin C /\ (in[s] = NoConn \/ in[s] \in C) /\ in'[s] = c0
           \/ /\ c0 \notin C /\ NextIs(s, c0, "B") /\ out'[s] = c0
              /\ in'[s] = IF in[s] \in C THEN NoConn ELSE in[s]
    BY <1>8 DEF Pops
  <2>6. ASSUME NextIs(s, c0, "B"), out'[s] = c0 PROVE ~Carries(c0, s, "packet")'
    <3>1. c0 \notin {out[s], NoConn} BY <2>2, <1>1, <1>6 DEF SocketsOf
    <3>2. Direction BY <3>1, <2>6, <1>8
    <3>3. ~Carries(c0, s, "packet") BY <3>2, <2>2, <2>6, <1>1, <1>4 DEF FlightOf, F8
    <3> QED BY <3>3, <2>2, <1>1, <1>3, DwindlesKeeps
  <2>7. \A c \in Conns : Carries(c, s, "packet")' =>
          /\ c = Port(s) => c = Port(s)'
          /\ c \in Pending(s) => c \in Pending(s)' \/ c = Port(s)'
    <3> SUFFICES ASSUME NEW c \in Conns, Carries(c, s, "packet")'
                 PROVE  /\ c = in[s] => c = in'[s]
                        /\ c = c0 => c = in'[s]
      BY <2>2, <2>4
    <3>1. c \notin C BY <1>5
    <3>2. c = in[s] => c = in'[s] BY <3>1, <2>5, <1>1
    <3>3. c = c0 => c = in'[s] BY <3>1, <2>5, <2>6
    <3> QED BY <3>2, <3>3
  <2>8. in'[s] \in {in[s], NoConn} \/ in'[s] = c0 BY <2>5
  <2>9. \A c \in Pending(s)' : NextIs(s, c, "B")' => NextIs(s, c, "B")
    <3>1. \A c \in Pending(s)' : c \in Conns /\ c # c0 BY <2>2
    <3> QED BY <3>1, <1>2, NextStays
  <2>10. /\ backlog[Other(p)] # <<>> /\ backlog'[Other(p)] = Tail(backlog[Other(p)])
         /\ in'[Other(p)] \in {in[Other(p)], NoConn} \/ in'[Other(p)] = Head(backlog[Other(p)])
         /\ \A c \in Conns : Carries(c, Other(p), "packet")' =>
              /\ c = Port(Other(p)) => c = Port(Other(p))'
              /\ c \in Pending(Other(p)) => c \in Pending(Other(p))' \/ c = Port(Other(p))'
         /\ \A c \in Pending(Other(p))' : NextIs(Other(p), c, "B")' => NextIs(Other(p), c, "B")
    BY <2>1, <2>7, <2>8, <2>9, <1>1, <1>8
  <2>11. FlightOf(p)' BY <2>10, <1>1, <1>2, <1>3, <1>4, ReceiverQuiet
  <2> QED BY <2>11
<1> QED BY <1>7, <1>8 DEF Acts, Moves

-----------------------------------------------------------------------------
(* What a step has to show. *)

AnswersInv == Types /\ PlacesInv /\ SocketsInv /\ ApartInv /\ FlightInv /\ AckedIsReceived

\* The other device stays where it is, and what was told is still true.
LEMMA ActsRest ==
  ASSUME Types, PlacesInv, AckedIsReceived, NEW s \in Peers, NEW c0, NEW reads, NEW items, NEW C,
         Acts(s, c0, reads, items, C), PlaceOf(s)',
         told'[s] = told[s] \/ (Arrived(s) /\ told'[s] = told[s] \cup {Head(todo[s])})
  PROVE  PlacesInv' /\ AckedIsReceived'
<1> DEFINE o == Other(s)
<1>1. o \in Peers /\ o # s /\ Other(o) = s /\ \A p \in Peers : p = s \/ p = o
  BY OtherPeer DEF Peers, Other
<1>2. /\ UNCHANGED <<mode, pc[o], doing[o], todo[o], told[o], out[o], in[o], backlog[o]>>
      /\ Result(s) \subseteq Result(s)' /\ Result(o)' = Result(o)
  BY DEF Acts, Moves
<1>3. PlaceOf(o)' BY <1>1, <1>2 DEF PlacesInv, PlaceOf, At, Single, Direction
<1>4. (Single \/ Direction)' => backlog'[A] = <<>>
  <2> SUFFICES ASSUME Single \/ Direction PROVE backlog'[A] = <<>> BY <1>2 DEF Single, Direction
  <2>1. backlog[A] = <<>> BY DEF PlacesInv
  <2>2. CASE s = A BY <2>1, <2>2 DEF Acts, Moves, Sheds, Pops
  <2>3. CASE o = A BY <2>1, <2>3, <1>2
  <2> QED BY <2>2, <2>3, <1>1, PeersDiffer
<1>5. PlacesInv' BY <1>1, <1>3, <1>4 DEF PlacesInv
<1>6. \A p \in Peers : told[p] \subseteq Result(Other(p)) BY DEF AckedIsReceived, Result
<1>7. \A p \in Peers : told'[p] \subseteq Result(Other(p))' BY <1>1, <1>2, <1>6 DEF Arrived
<1>8. AckedIsReceived' BY <1>7 DEF AckedIsReceived, Result
<1> QED BY <1>5, <1>8

LEMMA FlightBoth ==
  ASSUME NEW s \in Peers PROVE (FlightOf(s) /\ FlightOf(Other(s))) <=> FlightInv
BY OtherPeer DEF FlightInv, Peers, Other

\* Neither a packet nor an answer is written.
LEMMA QuietStep ==
  ASSUME AnswersInv, Types', NEW s \in Peers, NEW c0, NEW reads \in BOOLEAN,
         NEW items \in Seq(ItemType), NEW C, Acts(s, c0, reads, items, C), PlaceOf(s)',
         ~Contains(items, "packet"), ~Contains(items, "ack"),
         Settled(s, c0, reads, C), Tells(s, c0, reads)
  PROVE  AnswersInv'
<1>1. Types /\ PlacesInv /\ SocketsInv /\ ApartInv /\ FlightInv /\ AckedIsReceived BY DEF AnswersInv
<1>2. FlightOf(s) /\ FlightOf(Other(s)) BY <1>1, FlightBoth
<1>3. SocketsInv' /\ ApartInv' BY <1>1, ActsSockets
<1>4. FlightOf(s)' BY <1>1, <1>2, ActsSender
<1>5. FlightOf(Other(s))' BY <1>1, <1>2, ActsReceiver
<1>6. PlacesInv' /\ AckedIsReceived'
  <2>1. told'[s] = told[s] \/ (Arrived(s) /\ told'[s] = told[s] \cup {Head(todo[s])}) BY DEF Tells
  <2> QED BY <2>1, <1>1, ActsRest
<1>7. FlightInv'
  <2>1. (FlightOf(s) /\ FlightOf(Other(s)))' BY <1>4, <1>5
  <2>2. (FlightOf(s) /\ FlightOf(Other(s)) <=> FlightInv)'
    BY OtherPeer DEF FlightInv, Peers, Other
  <2> QED BY <2>1, <2>2
<1> QED BY <1>3, <1>6, <1>7 DEF AnswersInv

\* A packet is read and answered, and none is written.
LEMMA AnswerStep ==
  ASSUME AnswersInv, Types', NEW s \in Peers, NEW c0 \in Conns, NEW items \in Seq(ItemType), NEW C,
         Acts(s, c0, TRUE, items, C), PlaceOf(s)', ~Contains(items, "packet"), Once(items, "ack"),
         c0 = Port(s), NextIs(s, c0, "packet"), Head(conn[c0].q[s]).val \in Result(s)',
         C \subseteq {c0}, Sheds(s, C), C = {} => Port(s)' = Port(s),
         Settled(s, c0, TRUE, C), Tells(s, c0, TRUE)
  PROVE  AnswersInv'
<1>1. Types /\ PlacesInv /\ SocketsInv /\ ApartInv /\ FlightInv /\ AckedIsReceived BY DEF AnswersInv
<1>2. FlightOf(s) /\ FlightOf(Other(s)) BY <1>1, FlightBoth
<1>3. SocketsInv' /\ ApartInv' BY <1>1, ActsSockets
<1>4. FlightOf(s)' BY <1>1, <1>2, ActsSender
<1>5. FlightOf(Other(s))'
  <2>1. /\ Effect(conn, conn', s, c0, TRUE, items, C) /\ conn[c0].q[s] # <<>>
        /\ \A i \in Items(items) : i.kind \notin {"A_ACK", "B"} /\ Result(s) \subseteq Result(s)'
        /\ UNCHANGED <<mode, todo[Other(s)], pc[Other(s)], doing[Other(s)], out[Other(s)], in[Other(s)]>>
    BY DEF Acts, Moves
  <2>2. /\ Result(s) \subseteq Result(s)' /\ \A i \in Items(items) : i.kind \notin {"A_ACK", "B"}
        /\ UNCHANGED backlog[s] /\ in'[s] \in {in[s], NoConn}
    BY DEF Acts, Moves, Sheds
  <2> QED BY <2>1, <2>2, <1>1, <1>2, ReceiverReads
<1>6. PlacesInv' /\ AckedIsReceived'
  <2>1. told'[s] = told[s] \/ (Arrived(s) /\ told'[s] = told[s] \cup {Head(todo[s])}) BY DEF Tells
  <2> QED BY <2>1, <1>1, ActsRest
<1>7. FlightInv'
  <2>1. (FlightOf(s) /\ FlightOf(Other(s)))' BY <1>4, <1>5
  <2>2. (FlightOf(s) /\ FlightOf(Other(s)) <=> FlightInv)'
    BY OtherPeer DEF FlightInv, Peers, Other
  <2> QED BY <2>1, <2>2
<1> QED BY <1>3, <1>6, <1>7 DEF AnswersInv

\* What may be written with a packet: the next to send, once.
Sending(s, items) ==
  /\ Once(items, "packet")
  /\ \A i \in Items(items) : i.kind = "packet" => todo[s] # <<>> /\ i.val = Head(todo[s])
  /\ ~Waits(s) /\ Waits(s)'
  /\ UNCHANGED <<todo[s], doing[s], told[s], out[s], in[s]>>

\* A packet is written.  Either none is read before, or it is answered as well.
LEMMA SendStep ==
  ASSUME AnswersInv, Types', NEW s \in Peers, NEW c0 \in Conns, NEW reads \in BOOLEAN,
         NEW items \in Seq(ItemType), Acts(s, c0, reads, items, {}), PlaceOf(s)',
         c0 = Line(s), Sending(s, items),
         \/ ~Contains(items, "ack")
         \/ /\ reads /\ NextIs(s, c0, "packet") /\ Once(items, "ack") /\ c0 = Port(s) /\ UNCHANGED backlog[s]
            /\ Head(conn[c0].q[s]).val \in Result(s)'
  PROVE  AnswersInv'
<1>1. Types /\ PlacesInv /\ SocketsInv /\ ApartInv /\ FlightInv /\ AckedIsReceived BY DEF AnswersInv
<1>2. FlightOf(s) /\ FlightOf(Other(s)) BY <1>1, FlightBoth
<1>3. SocketsInv' /\ ApartInv' BY <1>1, ActsSockets
<1>4. /\ Effect(conn, conn', s, c0, reads, items, {}) /\ (reads => conn[c0].q[s] # <<>>)
      /\ UNCHANGED <<mode, pc[Other(s)], doing[Other(s)], todo[Other(s)]>>
      /\ UNCHANGED <<out[Other(s)], in[Other(s)], backlog[Other(s)]>>
      /\ Result(s) \subseteq Result(s)'
      /\ \A i \in Items(items) : i.kind \notin {"A_ACK", "B"}
  BY DEF Acts, Moves
<1>5. /\ Once(items, "packet") /\ ~Waits(s) /\ Waits(s)'
      /\ UNCHANGED <<todo[s], doing[s], told[s], out[s], in[s]>>
      /\ \A i \in Items(items) : i.kind = "packet" => todo[s] # <<>> /\ i.val = Head(todo[s])
  BY DEF Sending
<1>6. FlightOf(s)'
  <2>1. \A i \in Items(items) : /\ i.kind \notin {"A_ACK", "B"}
                                /\ i.kind = "packet" => todo[s] # <<>> /\ i.val = Head(todo[s])
    BY <1>4, <1>5
  <2>2. UNCHANGED <<mode, todo[s], doing[s], out[s], in[s]>> BY <1>4, <1>5
  <2> PICK C : C = {} OBVIOUS
  <2> QED BY <2>1, <2>2, <1>1, <1>2, <1>4, <1>5, SenderWrites
<1>7. FlightOf(Other(s))'
  <2>1. CASE ~Contains(items, "ack") BY <2>1, <1>1, <1>2, ActsReceiver
  <2>2. CASE /\ reads /\ NextIs(s, c0, "packet") /\ Once(items, "ack") /\ c0 = Port(s) /\ UNCHANGED backlog[s]
             /\ Head(conn[c0].q[s]).val \in Result(s)'
    <3>1. Effect(conn, conn', s, c0, TRUE, items, {}) /\ conn[c0].q[s] # <<>>
      <4>1. reads = TRUE BY <2>2
      <4> QED BY <4>1, <1>4
    <3>2. in'[s] \in {in[s], NoConn} /\ Port(s)' = Port(s) /\ {} \subseteq {c0}
      BY <1>4, <1>5 DEF Port, Single
    <3>3. UNCHANGED <<mode, todo[Other(s)], pc[Other(s)], doing[Other(s)], out[Other(s)], in[Other(s)]>>
      BY <1>4
    <3> PICK C : C = {} OBVIOUS
    <3>4. Effect(conn, conn', s, c0, TRUE, items, C) /\ C \subseteq {c0} BY <3>1
    <3> QED BY <3>1, <3>2, <3>3, <3>4, <2>2, <1>1, <1>2, <1>4, ReceiverReads
  <2> QED BY <2>1, <2>2
<1>8. PlacesInv' /\ AckedIsReceived' BY <1>1, <1>5, ActsRest
<1>9. FlightInv'
  <2>1. (FlightOf(s) /\ FlightOf(Other(s)))' BY <1>6, <1>7
  <2>2. (FlightOf(s) /\ FlightOf(Other(s)) <=> FlightInv)'
    BY OtherPeer DEF FlightInv, Peers, Other
  <2> QED BY <2>1, <2>2
<1> QED BY <1>3, <1>8, <1>9 DEF AnswersInv

-----------------------------------------------------------------------------
(* Calls that return, and those that go on. *)

LEMMA PeersSplit ==
  ASSUME NEW s \in Peers
  PROVE  Other(s) \in Peers /\ Other(s) # s /\ Other(Other(s)) = s /\ \A p \in Peers : p = s \/ p = Other(s)
BY OtherPeer DEF Peers, Other

\* The socket a device uses where it is.
LEMMA WhereAt ==
  ASSUME PlacesInv, NEW s \in Peers
  PROVE  /\ pc[s] \in {"write", "ack"} => ~Single /\ Line(s) = out[s]
         /\ pc[s] = "receive" => ~Single /\ Port(s) = in[s]
         /\ pc[s] \in {"m_ack", "m_count", "m_recv"} => Single /\ s = A /\ Line(s) = out[s] /\ Port(s) = out[s]
         /\ pc[s] \in {"s_head", "s_recv", "s_ack", "s_foot"} =>
              Single /\ s = B /\ Line(s) = in[s] /\ Port(s) = in[s]
<1>1. PlaceOf(s) BY DEF PlacesInv
<1>2. pc[s] \in {"write", "ack", "receive"} => ~Single
  BY <1>1 DEF PlaceOf, At
<1>3. pc[s] \in {"m_ack", "m_count", "m_recv"} => Single /\ s = A
  BY <1>1 DEF PlaceOf, At, ConnectorAt, ListenerAt
<1>4. pc[s] \in {"s_head", "s_recv", "s_ack", "s_foot"} => Single /\ s = B
  BY <1>1 DEF PlaceOf, At, ConnectorAt, ListenerAt, Peers
<1> QED BY <1>2, <1>3, <1>4, PeersDiffer DEF Line, Port

LEMMA GoesFacts ==
  ASSUME Types, NEW s \in Peers, NEW where, Goes(s, where)
  PROVE  pc'[s] = where /\ \A p \in Peers : p # s => pc'[p] = pc[p]
BY DEF Goes, Types

LEMMA ReturnsFacts ==
  ASSUME Types, NEW s \in Peers, NEW ok \in BOOLEAN, NEW copied \in Nat, Returns(s, ok, copied),
         (ok /\ doing[s] = "send") => todo[s] # <<>>
  PROVE  /\ pc' = [pc EXCEPT ![s] = "idle"] /\ pc'[s] = "idle" /\ pc'[Other(s)] = pc[Other(s)]
         /\ todo' \in [Peers -> Seq(Nat \ {0})] /\ todo'[Other(s)] = todo[Other(s)]
         /\ told' \in [Peers -> SUBSET Nat] /\ told'[Other(s)] = told[Other(s)]
         /\ frames' \in [Peers -> SUBSET Nat] /\ frames'[Other(s)] = frames[Other(s)]
         /\ frames[s] \subseteq frames'[s]
         /\ (ok /\ doing[s] = "receive" /\ copied # 0) => copied \in frames'[s]
         /\ hand' \in [Peers -> Nat]
         /\ IF ok /\ doing[s] = "send" THEN told'[s] = told[s] \cup {Head(todo[s])}
                                       ELSE todo'[s] = todo[s] /\ told'[s] = told[s]
         /\ ~Waits(s)' /\ ~AnswerRead(s)'
<1> USE PeersSplit
<1>1. pc' = [pc EXCEPT ![s] = "idle"] /\ pc'[s] = "idle" /\ pc'[Other(s)] = pc[Other(s)]
  BY DEF Returns, Goes, Types
<1>2. ~Waits(s)' /\ ~AnswerRead(s)' BY <1>1 DEF Waits, AnswerRead
<1>3. /\ frames' \in [Peers -> SUBSET Nat] /\ frames'[Other(s)] = frames[Other(s)]
      /\ frames[s] \subseteq frames'[s]
      /\ (ok /\ doing[s] = "receive" /\ copied # 0) => copied \in frames'[s]
  BY DEF Returns, Types
<1>4. hand' \in [Peers -> Nat] BY DEF Returns, Types
<1>5. CASE ok /\ doing[s] = "send"
  <2>1. /\ told' = [told EXCEPT ![s] = @ \cup {Head(todo[s])}]
        /\ todo' = [todo EXCEPT ![s] = Tail(@)]
    BY <1>5 DEF Returns
  <2>2. todo[s] \in Seq(Nat \ {0}) /\ todo[s] # <<>> BY <1>5 DEF Types
  <2>3. Head(todo[s]) \in Nat /\ Tail(todo[s]) \in Seq(Nat \ {0}) BY <2>2
  <2> QED BY <2>1, <2>3, <1>1, <1>2, <1>3, <1>4, <1>5, ZenonT(30) DEF Types
<1>6. CASE ~(ok /\ doing[s] = "send")
  <2>1. UNCHANGED <<told, todo>> BY <1>6 DEF Returns
  <2> QED BY <2>1, <1>1, <1>2, <1>3, <1>4, <1>6 DEF Types
<1> QED BY <1>5, <1>6

\* Where a device may be after it returned.
LEMMA PlaceIdle ==
  ASSUME Types, PlacesInv, NEW s \in Peers, NEW c0, NEW reads, NEW items, NEW C, Moves(s, c0, reads, items, C),
         pc'[s] = "idle"
  PROVE  PlaceOf(s)'
<1>1. UNCHANGED mode /\ PlaceOf(s) BY DEF Moves, PlacesInv
<1>2. At(s)' = At(s) /\ "idle" \in At(s) BY <1>1 DEF At, Single, Direction, ConnectorAt, ListenerAt
<1>3. Single /\ s = A => in'[s] = NoConn
  <2>1. CASE Sheds(s, C) BY <2>1, <1>1 DEF Sheds, PlaceOf
  <2>2. CASE Pops(s, C) BY <2>2 DEF Pops, PlacesInv
  <2> QED BY <2>1, <2>2 DEF Moves
<1>4. Single /\ s = B => out'[s] = NoConn
  <2>1. ~(Single /\ Direction) BY DEF Single, Direction
  <2>2. CASE Sheds(s, C) BY <2>2, <1>1 DEF Sheds, PlaceOf
  <2>3. CASE out'[s] \in {out[s], NoConn} \/ (Direction /\ s = B) BY <2>1, <2>3, <1>1 DEF PlaceOf
  <2> QED BY <2>2, <2>3 DEF Moves
<1> QED BY <1>1, <1>2, <1>3, <1>4 DEF PlaceOf, Single, Direction

\* A call returns.
LEMMA ReturnStep ==
  ASSUME AnswersInv, NEW s \in Peers, NEW ok \in BOOLEAN, NEW copied \in Nat, Returns(s, ok, copied),
         NEW c0, NEW reads \in BOOLEAN, NEW items \in Seq(ItemType), NEW C,
         Moves(s, c0, reads, items, C), UNCHANGED got, ~Contains(items, "packet"), ~Contains(items, "ack"),
         (ok /\ doing[s] = "send") =>
           todo[s] # <<>> /\ Arrived(s) /\ (~Waits(s) \/ (reads /\ NextIs(s, c0, "ack"))),
         \/ ~Waits(s)
         \/ Line(s) \in C /\ Sheds(s, C)
         \/ reads /\ NextIs(s, c0, "ack") /\ Sheds(s, C)
  PROVE  AnswersInv'
<1>1. Types /\ PlacesInv BY DEF AnswersInv
<1>2. /\ pc' = [pc EXCEPT ![s] = "idle"] /\ pc'[s] = "idle" /\ pc'[Other(s)] = pc[Other(s)]
      /\ todo' \in [Peers -> Seq(Nat \ {0})] /\ todo'[Other(s)] = todo[Other(s)]
      /\ told' \in [Peers -> SUBSET Nat] /\ told'[Other(s)] = told[Other(s)]
      /\ frames' \in [Peers -> SUBSET Nat] /\ frames'[Other(s)] = frames[Other(s)]
      /\ frames[s] \subseteq frames'[s] /\ hand' \in [Peers -> Nat]
      /\ IF ok /\ doing[s] = "send" THEN told'[s] = told[s] \cup {Head(todo[s])}
                                    ELSE todo'[s] = todo[s] /\ told'[s] = told[s]
      /\ ~Waits(s)' /\ ~AnswerRead(s)'
  BY <1>1, ReturnsFacts
<1>3. LinkTypes' /\ UNCHANGED mode BY DEF Moves
<1>4. Types' BY <1>1, <1>2, <1>3 DEF Types, LinkTypes
<1>5. Acts(s, c0, reads, items, C)
  <2>1. Result(s) \subseteq Result(s)' /\ Result(Other(s))' = Result(Other(s))
    BY <1>2, <1>3 DEF Result, Single
  <2> QED BY <2>1, <1>2 DEF Acts
<1>6. PlaceOf(s)' BY <1>1, <1>2, PlaceIdle
<1>7. Settled(s, c0, reads, C) BY DEF Settled
<1>8. Tells(s, c0, reads) BY <1>2 DEF Tells
<1> QED BY <1>4, <1>5, <1>6, <1>7, <1>8, QuietStep

\* It goes on, with neither a packet nor an answer written.
LEMMA GoStep ==
  ASSUME AnswersInv, NEW s \in Peers, NEW where, Goes(s, where),
         NEW c0, NEW reads \in BOOLEAN, NEW items \in Seq(ItemType), NEW C,
         Moves(s, c0, reads, items, C), ~Contains(items, "packet"), ~Contains(items, "ack"),
         UNCHANGED <<todo, hand, got, frames, told>>, PlaceOf(s)',
         Settled(s, c0, reads, C), AnswerRead(s)' => AnswerRead(s) \/ Arrived(s)
  PROVE  AnswersInv'
<1>1. Types BY DEF AnswersInv
<1>2. pc'[s] = where /\ \A p \in Peers : p # s => pc'[p] = pc[p] BY <1>1, GoesFacts
<1>3. LinkTypes' /\ UNCHANGED mode BY DEF Moves
<1>4. Types'
  <2>1. where \in At(s)' BY <1>2 DEF PlaceOf
  <2>2. where \in {"idle", "connecting", "connecting_rev", "connected", "accepting_rev", "accepted",
                   "write", "ack", "receive", "m_ack", "m_count", "m_recv",
                   "s_head", "s_recv", "s_ack", "s_foot"}
    BY <2>1 DEF At, ConnectorAt, ListenerAt
  <2>3. pc' \in [Peers -> {"idle", "connecting", "connecting_rev", "connected", "accepting_rev", "accepted",
                           "write", "ack", "receive", "m_ack", "m_count", "m_recv",
                           "s_head", "s_recv", "s_ack", "s_foot"}]
    BY <2>2, <1>1 DEF Goes, Types
  <2> QED BY <2>3, <1>1, <1>3 DEF Types, LinkTypes
<1>5. Acts(s, c0, reads, items, C)
  <2>1. Result(s) \subseteq Result(s)' /\ Result(Other(s))' = Result(Other(s))
    BY <1>3 DEF Result, Single
  <2>2. pc'[Other(s)] = pc[Other(s)] BY <1>2, PeersSplit
  <2> QED BY <2>1, <2>2 DEF Acts
<1>6. Tells(s, c0, reads) BY DEF Tells
<1> QED BY <1>4, <1>5, <1>6, QuietStep

\* The socket a device uses is one it has, and an item it reads is of a known kind.
LEMMA ReadsOf ==
  ASSUME Types, NEW s \in Peers, NEW c \in Conns, NEW kind, NextIs(s, c, kind)
  PROVE  /\ conn[c].q[s] # <<>> /\ conn[c].q[s] \in Seq(ItemType) /\ Head(conn[c].q[s]) \in ItemType
         /\ Head(conn[c].q[s]).kind = kind /\ Head(conn[c].q[s]).val \in Nat
<1>1. conn[c].q[s] \in Seq(ItemType)
  <2>1. conn[c] \in ConnType BY DEF Types
  <2> QED BY <2>1 DEF ConnType
<1>2. conn[c].q[s] # <<>> /\ Head(conn[c].q[s]).kind = kind BY DEF NextIs
<1>3. Head(conn[c].q[s]) \in ItemType BY <1>1, <1>2
<1> QED BY <1>1, <1>2, <1>3 DEF ItemType

\* Closing sockets, or none.
LEMMA StopsMove ==
  ASSUME Types, SocketsInv, NEW s \in Peers, NEW C, conn' \in Stops(conn, C, s), C \subseteq {in[s], out[s]},
         out' = (IF out[s] \in C THEN [out EXCEPT ![s] = NoConn] ELSE out),
         in' = (IF in[s] \in C THEN [in EXCEPT ![s] = NoConn] ELSE in),
         UNCHANGED <<mode, backlog>>, doing' \in [Peers -> {"send", "receive"}], UNCHANGED doing[Other(s)]
  PROVE  /\ Moves(s, NoConn, FALSE, <<>>, C) /\ Sheds(s, C)
         /\ <<>> \in Seq(ItemType) /\ \A kind : ~Contains(<<>>, kind)
<1>1. <<>> \in Seq(ItemType) /\ Items(<<>>) = {} /\ \A kind : ~Contains(<<>>, kind) BY FewItems, NoItems
<1>2. conn \in [Conns -> ConnType] BY DEF Types
<1>3. conn' \in [Conns -> ConnType] /\ Effect(conn, conn', s, NoConn, FALSE, <<>>, C) BY <1>2, StopsEffect
<1>4. Sheds(s, C) BY PeersSplit DEF Sheds, Types
<1>5. LinkTypes' BY <1>3 DEF Types, LinkTypes
<1>6. \A i \in Items(<<>>) : i.kind \notin {"A_ACK", "B"} BY <1>1
<1>7. UNCHANGED <<mode, doing[Other(s)], out[Other(s)], in[Other(s)], backlog[Other(s)]>>
  BY <1>4 DEF Sheds
<1> QED BY <1>1, <1>3, <1>4, <1>5, <1>6, <1>7 DEF Moves

\* An exchange on one of the sockets, which may then be closed.
LEMMA ExchangeMove ==
  ASSUME Types, SocketsInv, NEW s \in Peers, NEW c0 \in Conns, NEW reads \in BOOLEAN, NEW items \in Seq(ItemType),
         NEW C, conn' \in Stops(Writes(IF reads THEN Reads(conn, c0, s) ELSE conn, c0, s, items), C, s),
         c0 \in {in[s], out[s]}, reads => conn[c0].q[s] # <<>>, C \subseteq {c0},
         \A i \in Items(items) : i.kind \notin {"A_ACK", "B"},
         out' = (IF out[s] \in C THEN [out EXCEPT ![s] = NoConn] ELSE out),
         in' = (IF in[s] \in C THEN [in EXCEPT ![s] = NoConn] ELSE in),
         UNCHANGED <<mode, backlog, doing>>
  PROVE  Moves(s, c0, reads, items, C) /\ Sheds(s, C)
<1>1. conn \in [Conns -> ConnType] BY DEF Types
<1>2. conn' \in [Conns -> ConnType] /\ Effect(conn, conn', s, c0, reads, items, C)
  <2> PICK cs, es : cs = conn /\ es = conn' OBVIOUS
  <2>1. cs \in [Conns -> ConnType] /\ (reads => cs[c0].q[s] # <<>>)
        /\ es \in Stops(Writes(IF reads THEN Reads(cs, c0, s) ELSE cs, c0, s, items), C, s)
    BY <1>1
  <2>2. es \in [Conns -> ConnType] /\ Effect(cs, es, s, c0, reads, items, C)
    BY ONLY <2>1, ExchangeEffect, s \in Peers, c0 \in Conns, reads \in BOOLEAN, items \in Seq(ItemType)
  <2> QED BY <2>2
<1>3. Sheds(s, C) BY PeersSplit DEF Sheds, Types
<1>4. LinkTypes' BY <1>2 DEF Types, LinkTypes
<1>5. UNCHANGED <<mode, doing[Other(s)], out[Other(s)], in[Other(s)], backlog[Other(s)]>>
  BY <1>3 DEF Sheds
<1>6. C \subseteq {in[s], out[s]} OBVIOUS
<1> QED BY <1>2, <1>3, <1>4, <1>5, <1>6 DEF Moves

\* A call that fails, and closes sockets.
LEMMA StopsReturn ==
  ASSUME AnswersInv, NEW s \in Peers, NEW C, conn' \in Stops(conn, C, s), C \subseteq {in[s], out[s]},
         out' = (IF out[s] \in C THEN [out EXCEPT ![s] = NoConn] ELSE out),
         in' = (IF in[s] \in C THEN [in EXCEPT ![s] = NoConn] ELSE in),
         UNCHANGED <<mode, backlog, doing, got>>, Returns(s, FALSE, 0), ~Waits(s) \/ Line(s) \in C
  PROVE  AnswersInv'
<1> PICK items, c0, reads, ok, copied :
      items = <<>> /\ c0 = NoConn /\ reads = FALSE /\ ok = FALSE /\ copied = 0
  OBVIOUS
<1>1. Types /\ SocketsInv BY DEF AnswersInv
<1>2. doing' \in [Peers -> {"send", "receive"}] /\ UNCHANGED doing[Other(s)] BY <1>1 DEF Types
<1>3. /\ Moves(s, c0, reads, items, C) /\ Sheds(s, C)
      /\ items \in Seq(ItemType) /\ ~Contains(items, "packet") /\ ~Contains(items, "ack")
  BY <1>1, <1>2, StopsMove
<1>4. Returns(s, ok, copied) /\ ok \in BOOLEAN /\ ~ok /\ copied \in Nat /\ reads \in BOOLEAN OBVIOUS
<1> QED BY <1>3, <1>4, ReturnStep

\* One that goes on and may have closed sockets.
LEMMA StopsGo ==
  ASSUME AnswersInv, NEW s \in Peers, NEW C, conn' \in Stops(conn, C, s), C \subseteq {in[s], out[s]},
         out' = (IF out[s] \in C THEN [out EXCEPT ![s] = NoConn] ELSE out),
         in' = (IF in[s] \in C THEN [in EXCEPT ![s] = NoConn] ELSE in),
         doing' \in [Peers -> {"send", "receive"}], UNCHANGED doing[Other(s)],
         UNCHANGED <<mode, backlog, todo, hand, got, frames, told>>, NEW where, Goes(s, where),
         PlaceOf(s)', ~Waits(s), ~AnswerRead(s)'
  PROVE  AnswersInv'
<1> PICK items, c0, reads : items = <<>> /\ c0 = NoConn /\ reads = FALSE OBVIOUS
<1>1. Types /\ SocketsInv BY DEF AnswersInv
<1>2. /\ Moves(s, c0, reads, items, C) /\ Sheds(s, C)
      /\ items \in Seq(ItemType) /\ ~Contains(items, "packet") /\ ~Contains(items, "ack")
  BY <1>1, StopsMove
<1>3. Settled(s, c0, reads, C) BY DEF Settled
<1>4. reads \in BOOLEAN OBVIOUS
<1> QED BY <1>2, <1>3, <1>4, GoStep

LEMMA StartConnectStep ==
  ASSUME AnswersInv, NEW s \in Peers, NEW call \in {"send", "receive"}, NEW idle \in BOOLEAN,
         StartConnect(s, call, idle)
  PROVE  AnswersInv'
<1>1. Types /\ PlacesInv /\ SocketsInv /\ PlaceOf(s) /\ SocketsOf(s)
  BY DEF AnswersInv, PlacesInv, SocketsInv
<1> PICK drop : drop = (~Keep \/ (Direction /\ (idle \/ NoConn \in {in[s], out[s]}))) OBVIOUS
<1> PICK C : C = IF ~drop THEN {} ELSE IF Direction THEN {in[s], out[s]} ELSE {out[s]} OBVIOUS
<1> PICK where : where = IF drop \/ out[s] = NoConn THEN "connecting" ELSE "connected" OBVIOUS
<1>2. /\ conn' \in Stops(conn, C, s) /\ Goes(s, where)
      /\ out' = IF drop THEN [out EXCEPT ![s] = NoConn] ELSE out
      /\ in' = IF drop /\ Direction THEN [in EXCEPT ![s] = NoConn] ELSE in
      /\ Connects(s) /\ (Single \/ Direction \/ call = "send")
      /\ pc[s] = "idle" /\ (call = "send" => todo[s] # <<>>) /\ doing' = [doing EXCEPT ![s] = call]
      /\ UNCHANGED <<mode, todo, backlog, hand, got, frames, told>>
  BY DEF StartConnect, Calls, history
<1>3. C \subseteq {in[s], out[s]} OBVIOUS
<1>4. out[s] \in C <=> drop \/ (out[s] = NoConn /\ out[s] \in C) OBVIOUS
<1>5. out' = IF out[s] \in C THEN [out EXCEPT ![s] = NoConn] ELSE out BY <1>2
<1>6. in' = IF in[s] \in C THEN [in EXCEPT ![s] = NoConn] ELSE in
  <2>1. CASE drop /\ ~Direction /\ in[s] = out[s]
    <3>1. in[s] = NoConn BY <2>1, <1>1 DEF SocketsOf
    <3>2. [in EXCEPT ![s] = NoConn] = in BY <3>1, <1>1 DEF Types
    <3> QED BY <3>2, <2>1, <1>2
  <2>2. CASE ~(drop /\ ~Direction /\ in[s] = out[s]) BY <2>2, <1>2
  <2> QED BY <2>1, <2>2
<1>7. doing' \in [Peers -> {"send", "receive"}] /\ UNCHANGED doing[Other(s)] /\ doing'[s] = call
  BY <1>1, <1>2, PeersSplit DEF Types
<1>8. pc'[s] = where BY <1>1, <1>2, GoesFacts
<1>9. ~Waits(s) /\ ~AnswerRead(s)' BY <1>2, <1>8 DEF Waits, AnswerRead
<1>10. /\ out'[s] = IF drop THEN NoConn ELSE out[s]
       /\ in'[s] \in {in[s], NoConn}
  BY <1>1, <1>2 DEF Types
<1>11. PlaceOf(s)'
  <2>1. where \in At(s)' BY <1>2 DEF Connects, At, ConnectorAt, Single, Direction
  <2>2. (Direction /\ where = "connecting") => in'[s] = NoConn
    <3>1. Direction /\ where = "connecting" => drop OBVIOUS
    <3> QED BY <3>1, <1>1, <1>2 DEF Types
  <2> QED BY <2>1, <2>2, <1>1, <1>2, <1>7, <1>8, <1>10 DEF PlaceOf, Single, Direction
<1> QED BY <1>2, <1>3, <1>5, <1>6, <1>7, <1>9, <1>11, StopsGo

LEMMA ConnectFailsStep ==
  ASSUME AnswersInv, NEW s \in Peers, ConnectFails(s)
  PROVE  AnswersInv'
<1>1. Types /\ SocketsOf(s) BY DEF AnswersInv, SocketsInv
<1> PICK C : C = {out[s]} OBVIOUS
<1>2. /\ pc[s] \in {"connecting", "connecting_rev"} /\ conn' \in Stops(conn, C, s)
      /\ out' = [out EXCEPT ![s] = NoConn] /\ Returns(s, FALSE, 0) /\ UNCHANGED <<mode, doing, in, backlog, got>>
  BY DEF ConnectFails
<1>3. ~Waits(s) BY <1>2 DEF Waits
<1>4. out' = IF out[s] \in C THEN [out EXCEPT ![s] = NoConn] ELSE out BY <1>2
<1>5. in' = IF in[s] \in C THEN [in EXCEPT ![s] = NoConn] ELSE in
  <2>1. in[s] \in C => in[s] = NoConn BY <1>1 DEF SocketsOf
  <2>2. in[s] = NoConn => [in EXCEPT ![s] = NoConn] = in BY <1>1 DEF Types
  <2> QED BY <2>1, <2>2, <1>2
<1>6. C \subseteq {in[s], out[s]} OBVIOUS
<1> QED BY <1>2, <1>3, <1>4, <1>5, <1>6, StopsReturn

LEMMA SendBusyStep ==
  ASSUME AnswersInv, NEW s \in Peers, SendBusy(s)
  PROVE  AnswersInv'
<1>1. Types /\ SocketsOf(s) BY DEF AnswersInv, SocketsInv
<1> PICK C : C = IF Keep THEN {} ELSE {out[s]} OBVIOUS
<1>2. /\ Linked(s) /\ conn' \in Stops(conn, C, s)
      /\ out' = IF Keep THEN out ELSE [out EXCEPT ![s] = NoConn]
      /\ Returns(s, FALSE, 0) /\ UNCHANGED <<mode, doing, in, backlog, got>>
  BY DEF SendBusy
<1>3. ~Waits(s) BY <1>2 DEF Waits, Linked
<1>4. out' = IF out[s] \in C THEN [out EXCEPT ![s] = NoConn] ELSE out BY <1>2
<1>5. in' = IF in[s] \in C THEN [in EXCEPT ![s] = NoConn] ELSE in
  <2>1. in[s] \in C => in[s] = NoConn BY <1>1 DEF SocketsOf
  <2>2. in[s] = NoConn => [in EXCEPT ![s] = NoConn] = in BY <1>1 DEF Types
  <2> QED BY <2>1, <2>2, <1>2
<1>6. C \subseteq {in[s], out[s]} OBVIOUS
<1> QED BY <1>2, <1>3, <1>4, <1>5, <1>6, StopsReturn

\* A step that leaves every socket alone.
LEMMA IdleGo ==
  ASSUME AnswersInv, NEW s \in Peers, UNCHANGED <<mode, todo, doing, conn, out, in, backlog, hand, got, frames, told>>,
         NEW where, Goes(s, where), PlaceOf(s)', ~Waits(s), ~AnswerRead(s)'
  PROVE  AnswersInv'
<1> PICK C : C = {} OBVIOUS
<1>1. Types BY DEF AnswersInv
<1>2. conn' \in Stops(conn, C, s) BY <1>1, StopsNothing DEF Types
<1>3. doing' \in [Peers -> {"send", "receive"}] BY <1>1 DEF Types
<1> QED BY <1>2, <1>3, StopsGo

LEMMA SendCheckedStep ==
  ASSUME AnswersInv, NEW s \in Peers, SendChecked(s)
  PROVE  AnswersInv'
<1>1. Types /\ PlaceOf(s) BY DEF AnswersInv, PlacesInv
<1> PICK where : where = "write" OBVIOUS
<1>2. /\ Linked(s) /\ ~Single /\ doing[s] = "send" /\ Goes(s, where)
      /\ UNCHANGED <<mode, todo, doing, conn, out, in, backlog, hand, got, frames, told>>
  BY DEF SendChecked, sockets, history
<1>3. pc'[s] = "write" BY <1>1, <1>2, GoesFacts
<1>4. ~Waits(s) /\ ~AnswerRead(s)' BY <1>2, <1>3 DEF Waits, AnswerRead, Linked
<1>5. PlaceOf(s)'
  <2>1. "write" \in At(s)' BY <1>2, PeersDiffer DEF At, ConnectorAt, ListenerAt, Single, Direction
  <2>2. out[s] # NoConn BY <1>1, <1>2 DEF PlaceOf, Linked, At, ConnectorAt, ListenerAt
  <2> QED BY <2>1, <2>2, <1>1, <1>2, <1>3 DEF PlaceOf, Linked, Single, Direction
<1> QED BY <1>2, <1>4, <1>5, IdleGo

LEMMA SlaveWaitsStep ==
  ASSUME AnswersInv, NEW s \in Peers, SlaveWaits(s)
  PROVE  AnswersInv'
<1>1. Types /\ PlaceOf(s) BY DEF AnswersInv, PlacesInv
<1> PICK where : where = "s_head" OBVIOUS
<1>2. /\ pc[s] = "accepted" /\ Single /\ Goes(s, where)
      /\ UNCHANGED <<mode, todo, doing, conn, out, in, backlog, hand, got, frames, told>>
  BY DEF SlaveWaits, sockets, history
<1>3. pc'[s] = "s_head" BY <1>1, <1>2, GoesFacts
<1>4. ~Waits(s) /\ ~AnswerRead(s)' BY <1>2, <1>3 DEF Waits, AnswerRead
<1>5. PlaceOf(s)'
  <2>1. "s_head" \in At(s)' BY <1>1, <1>2 DEF PlaceOf, At, Single
  <2> QED BY <2>1, <1>1, <1>2, <1>3 DEF PlaceOf, Single, Direction
<1> QED BY <1>2, <1>4, <1>5, IdleGo

LEMMA ReceiveBeginsStep ==
  ASSUME AnswersInv, NEW s \in Peers, ReceiveBegins(s)
  PROVE  AnswersInv'
<1>1. Types /\ PlaceOf(s) BY DEF AnswersInv, PlacesInv
<1> PICK where, C : where = "receive" /\ C = {} OBVIOUS
<1>2. /\ Linked(s) /\ ~Single /\ doing[s] = "receive" /\ UNCHANGED <<mode, doing, conn, out, in, backlog>>
      /\ \/ Keep /\ Returns(s, FALSE, 0) /\ UNCHANGED got
         \/ (~Keep \/ Readable(s, in[s])) /\ Goes(s, where) /\ UNCHANGED <<todo, hand, got, frames, told>>
  BY DEF ReceiveBegins, sockets, history
<1>3. ~Waits(s) BY <1>2 DEF Waits, Linked
<1>4. CASE Returns(s, FALSE, 0) /\ UNCHANGED got
  <2>1. conn' \in Stops(conn, C, s) BY <1>1, <1>2, StopsNothing DEF Types
  <2> QED BY <2>1, <1>2, <1>3, <1>4, StopsReturn
<1>5. CASE (~Keep \/ Readable(s, in[s])) /\ Goes(s, where) /\ UNCHANGED <<todo, hand, got, frames, told>>
  <2>1. pc'[s] = "receive" BY <1>1, <1>5, GoesFacts
  <2>2. ~AnswerRead(s)' BY <2>1 DEF AnswerRead
  <2>3. in[s] # NoConn
    <3>1. CASE Readable(s, in[s]) BY <3>1 DEF Readable
    <3>2. CASE ~Keep
      <4>1. pc[s] = "accepted" BY <3>2, <1>1, <1>2 DEF PlaceOf, Linked, Keep, Single, Direction
      <4> QED BY <4>1, <1>1 DEF PlaceOf
    <3> QED BY <3>1, <3>2, <1>5
  <2>4. PlaceOf(s)'
    <3>1. "receive" \in At(s)' BY <1>2 DEF At, ConnectorAt, ListenerAt, Single, Direction
    <3> QED BY <3>1, <2>1, <2>3, <1>1, <1>2 DEF PlaceOf, Single, Direction
  <2> QED BY <2>2, <2>4, <1>2, <1>3, <1>5, IdleGo
<1> QED BY <1>2, <1>4, <1>5

LEMMA TransferFailsStep ==
  ASSUME AnswersInv, NEW s \in Peers, TransferFails(s)
  PROVE  AnswersInv'
<1>1. Types /\ PlaceOf(s) /\ SocketsOf(s) /\ PlacesInv BY DEF AnswersInv, PlacesInv, SocketsInv
<1>2. pc[s] \in At(s) /\ Single /\ pc[s] \in Reading BY <1>1 DEF TransferFails, PlaceOf
<1>3. s = A => pc[s] \in {"m_ack", "m_count", "m_recv"} BY <1>2 DEF At, Reading
<1>4. s # A => pc[s] \in {"s_head", "s_recv", "s_ack", "s_foot"} /\ s = B BY <1>2 DEF At, Reading, Peers
<1> PICK C : C = {Socket(s)} OBVIOUS
<1>5. C = {Line(s)} /\ (s = A => C = {out[s]} /\ in[s] = NoConn) /\ (s # A => C = {in[s]} /\ out[s] = NoConn)
  BY <1>1, <1>2, <1>3, <1>4, WhereAt DEF Socket, PlaceOf
<1>6. /\ conn' \in Stops(conn, C, s) /\ Returns(s, FALSE, 0) /\ UNCHANGED <<mode, doing, backlog, got>>
      /\ IF s = A THEN out' = [out EXCEPT ![s] = NoConn] /\ UNCHANGED in
                  ELSE in' = [in EXCEPT ![s] = NoConn] /\ UNCHANGED out
  BY DEF TransferFails
<1>7. /\ out[s] = NoConn => [out EXCEPT ![s] = NoConn] = out
      /\ in[s] = NoConn => [in EXCEPT ![s] = NoConn] = in
  BY <1>1 DEF Types
<1>8. /\ out' = IF out[s] \in C THEN [out EXCEPT ![s] = NoConn] ELSE out
      /\ in' = IF in[s] \in C THEN [in EXCEPT ![s] = NoConn] ELSE in
  BY <1>5, <1>6, <1>7
<1>9. C \subseteq {in[s], out[s]} /\ Line(s) \in C BY <1>5
<1> QED BY <1>6, <1>8, <1>9, StopsReturn

\* Reading an item, after which the socket may be closed.
LEMMA ReadMove ==
  ASSUME Types, SocketsInv, NEW s \in Peers, NEW c0 \in Conns, conn[c0].q[s] # <<>>, c0 \in {in[s], out[s]},
         NEW C, conn' \in Stops(Reads(conn, c0, s), C, s), C \subseteq {c0},
         out' = (IF out[s] \in C THEN [out EXCEPT ![s] = NoConn] ELSE out),
         in' = (IF in[s] \in C THEN [in EXCEPT ![s] = NoConn] ELSE in),
         UNCHANGED <<mode, backlog, doing>>
  PROVE  /\ Moves(s, c0, TRUE, <<>>, C) /\ Sheds(s, C)
         /\ <<>> \in Seq(ItemType) /\ \A kind : ~Contains(<<>>, kind)
<1> PICK items, reads : items = <<>> /\ reads = TRUE OBVIOUS
<1>1. items \in Seq(ItemType) /\ Items(items) = {} /\ (\A kind : ~Contains(items, kind)) /\ reads \in BOOLEAN
  BY FewItems, NoItems
<1>2. conn \in [Conns -> ConnType] BY DEF Types
<1>3. Reads(conn, c0, s) \in [Conns -> ConnType] BY <1>2, ReadsEffect
<1>4. Writes(Reads(conn, c0, s), c0, s, items) = Reads(conn, c0, s) BY <1>3, WritesNothing
<1>5. conn' \in Stops(Writes(IF reads THEN Reads(conn, c0, s) ELSE conn, c0, s, items), C, s) BY <1>4
<1>6. \A i \in Items(items) : i.kind \notin {"A_ACK", "B"} BY <1>1
<1>7. Moves(s, c0, reads, items, C) /\ Sheds(s, C) BY <1>1, <1>5, <1>6, ExchangeMove
<1> QED BY <1>1, <1>7

\* Writing, after having read an item or not.
LEMMA WroteMove ==
  ASSUME Types, SocketsInv, NEW s \in Peers, NEW c0 \in Conns, NEW reads \in BOOLEAN, NEW items \in Seq(ItemType),
         conn' = Writes(IF reads THEN Reads(conn, c0, s) ELSE conn, c0, s, items),
         c0 \in {in[s], out[s]}, reads => conn[c0].q[s] # <<>>,
         \A i \in Items(items) : i.kind \notin {"A_ACK", "B"},
         UNCHANGED <<mode, out, in, backlog, doing>>
  PROVE  Moves(s, c0, reads, items, {}) /\ Sheds(s, {})
<1> PICK C : C = {} OBVIOUS
<1>1. conn \in [Conns -> ConnType] BY DEF Types
<1> PICK rs : rs = IF reads THEN Reads(conn, c0, s) ELSE conn OBVIOUS
<1>2. rs \in [Conns -> ConnType] BY <1>1, ReadsEffect
<1>3. conn' = Writes(rs, c0, s, items) /\ Writes(rs, c0, s, items) \in [Conns -> ConnType]
  BY <1>2, WritesEffect
<1>4. conn' \in Stops(Writes(IF reads THEN Reads(conn, c0, s) ELSE conn, c0, s, items), C, s)
  BY <1>3, StopsNothing
<1>5. /\ out' = IF out[s] \in C THEN [out EXCEPT ![s] = NoConn] ELSE out
      /\ in' = IF in[s] \in C THEN [in EXCEPT ![s] = NoConn] ELSE in
      /\ C \subseteq {c0}
  OBVIOUS
<1>6. Moves(s, c0, reads, items, C) /\ Sheds(s, C) BY <1>4, <1>5, ExchangeMove
<1> QED BY <1>6

\* A socket that is not NoConn is a connection.
LEMMA SocketIs ==
  ASSUME Types, NEW s \in Peers
  PROVE  (out[s] # NoConn => out[s] \in Conns) /\ (in[s] # NoConn => in[s] \in Conns)
BY DEF Types

LEMMA SendEndsStep ==
  ASSUME AnswersInv, NEW s \in Peers, SendEnds(s)
  PROVE  AnswersInv'
<1>1. Types /\ PlaceOf(s) /\ SocketsInv /\ SocketsOf(s) /\ PlacesInv /\ FlightOf(s)
  BY DEF AnswersInv, PlacesInv, SocketsInv, FlightInv
<1> PICK acked : acked = NextIs(s, out[s], "ack") OBVIOUS
<1> PICK C : C = IF acked /\ Keep THEN {} ELSE {out[s]} OBVIOUS
<1>2. /\ pc[s] = "ack"
      /\ conn' \in Stops(IF acked THEN Reads(conn, out[s], s) ELSE conn, C, s)
      /\ out' = IF acked /\ Keep THEN out ELSE [out EXCEPT ![s] = NoConn]
      /\ Returns(s, acked, 0) /\ UNCHANGED <<mode, doing, in, backlog, got>>
  BY DEF SendEnds
<1> PICK c0 : c0 = out[s] OBVIOUS
<1>3. c0 \in Conns /\ Line(s) = c0 /\ doing[s] = "send" /\ todo[s] # <<>> /\ ~Single
  BY <1>1, <1>2, SocketIs, WhereAt DEF PlaceOf
<1>4. out' = IF out[s] \in C THEN [out EXCEPT ![s] = NoConn] ELSE out BY <1>2
<1>5. in' = IF in[s] \in C THEN [in EXCEPT ![s] = NoConn] ELSE in
  <2>1. in[s] \in C => in[s] = NoConn BY <1>1 DEF SocketsOf
  <2>2. in[s] = NoConn => [in EXCEPT ![s] = NoConn] = in BY <1>1 DEF Types
  <2> QED BY <2>1, <2>2, <1>2
<1>6. CASE ~acked
  <2>1. conn' \in Stops(conn, C, s) /\ Returns(s, FALSE, 0) BY <1>2, <1>6 DEF NextIs
  <2>2. Line(s) \in C /\ C \subseteq {in[s], out[s]} BY <1>3, <1>6
  <2> QED BY <2>1, <2>2, <1>2, <1>4, <1>5, StopsReturn
<1>7. CASE acked
  <2>1. NextIs(s, c0, "ack") /\ conn[c0].q[s] # <<>> BY <1>7 DEF NextIs
  <2>2. Arrived(s) BY <2>1, <1>1, <1>3, AckArrived
  <2> PICK items, reads, copied, ok : items = <<>> /\ reads = TRUE /\ copied = 0 /\ ok = TRUE OBVIOUS
  <2>3. conn' \in Stops(Reads(conn, c0, s), C, s) /\ C \subseteq {c0} /\ c0 \in {in[s], out[s]}
    BY <1>2, <1>7
  <2>4. /\ Moves(s, c0, reads, items, C) /\ Sheds(s, C)
        /\ items \in Seq(ItemType) /\ ~Contains(items, "packet") /\ ~Contains(items, "ack")
    BY <2>1, <2>3, <1>1, <1>2, <1>3, <1>4, <1>5, ReadMove
  <2>5. Returns(s, ok, copied) /\ ok \in BOOLEAN /\ copied \in Nat /\ reads \in BOOLEAN
    BY <1>2, <1>7, <2>1 DEF Returns
  <2> QED BY <2>1, <2>2, <2>4, <2>5, <1>2, <1>3, ReturnStep
<1> QED BY <1>6, <1>7 DEF NextIs

LEMMA ReceiveFailsStep ==
  ASSUME AnswersInv, NEW s \in Peers, ReceiveEnds(s), ~NextIs(s, in[s], "packet")
  PROVE  AnswersInv'
<1>1. Types /\ SocketsOf(s) BY DEF AnswersInv, SocketsInv
<1> PICK C : C = IF Direction THEN {in[s], out[s]} ELSE {in[s]} OBVIOUS
<1>2. /\ pc[s] = "receive" /\ conn' \in Stops(conn, C, s)
      /\ in' = [in EXCEPT ![s] = NoConn]
      /\ out' = IF Direction THEN [out EXCEPT ![s] = NoConn] ELSE out
      /\ Returns(s, FALSE, 0) /\ UNCHANGED <<mode, doing, backlog, got>>
  BY DEF ReceiveEnds
<1>3. ~Waits(s) BY <1>2 DEF Waits
<1>4. in' = IF in[s] \in C THEN [in EXCEPT ![s] = NoConn] ELSE in BY <1>2
<1>5. out' = IF out[s] \in C THEN [out EXCEPT ![s] = NoConn] ELSE out
  <2>1. ~Direction /\ out[s] \in C => out[s] = NoConn BY <1>1 DEF SocketsOf
  <2>2. out[s] = NoConn => [out EXCEPT ![s] = NoConn] = out BY <1>1 DEF Types
  <2> QED BY <2>1, <2>2, <1>2
<1>6. C \subseteq {in[s], out[s]} OBVIOUS
<1> QED BY <1>2, <1>3, <1>4, <1>5, <1>6, StopsReturn

\* An item is read in an exchange that goes on.
LEMMA ReadGo ==
  ASSUME AnswersInv, NEW s \in Peers, NEW c0 \in Conns, c0 \in {in[s], out[s]}, NEW kind, NextIs(s, c0, kind),
         NEW where, Exchange(s, c0, TRUE, <<>>, where), UNCHANGED <<hand, got>>, PlaceOf(s)',
         ~Waits(s) \/ kind = "ack", AnswerRead(s)' => AnswerRead(s) \/ Arrived(s)
  PROVE  AnswersInv'
<1>1. Types /\ SocketsInv BY DEF AnswersInv
<1> PICK items, reads, C : items = <<>> /\ reads = TRUE /\ C = {} OBVIOUS
<1>2. items \in Seq(ItemType) /\ Items(items) = {} /\ (\A k : ~Contains(items, k)) /\ reads \in BOOLEAN
  BY FewItems, NoItems
<1>3. conn[c0].q[s] # <<>> BY DEF NextIs
<1>4. /\ conn' = Writes(IF reads THEN Reads(conn, c0, s) ELSE conn, c0, s, items)
      /\ UNCHANGED <<mode, todo, doing, out, in, backlog, frames, told>> /\ Goes(s, where)
  BY DEF Exchange
<1>5. \A i \in Items(items) : i.kind \notin {"A_ACK", "B"} BY <1>2
<1>6. Moves(s, c0, reads, items, C) /\ Sheds(s, C) BY <1>1, <1>2, <1>3, <1>4, <1>5, WroteMove
<1>7. Settled(s, c0, reads, C) BY <1>6 DEF Settled
<1> QED BY <1>2, <1>4, <1>6, <1>7, GoStep

\* What it finds on the one socket, in the place it reads at.
LEMMA MasterAt ==
  ASSUME AnswersInv, NEW s \in Peers, pc[s] \in {"m_ack", "m_count", "m_recv"}
  PROVE  /\ Types /\ PlacesInv /\ SocketsInv /\ FlightOf(s) /\ PlaceOf(s)
         /\ Single /\ s = A /\ out[s] \in Conns /\ Line(s) = out[s] /\ Port(s) = out[s]
BY WhereAt, SocketIs DEF AnswersInv, PlacesInv, FlightInv, PlaceOf

LEMMA SlaveAt ==
  ASSUME AnswersInv, NEW s \in Peers, pc[s] \in {"s_head", "s_recv", "s_ack", "s_foot"}
  PROVE  /\ Types /\ PlacesInv /\ SocketsInv /\ FlightOf(s) /\ PlaceOf(s)
         /\ Single /\ s = B /\ in[s] \in Conns /\ Line(s) = in[s] /\ Port(s) = in[s]
BY WhereAt, SocketIs DEF AnswersInv, PlacesInv, FlightInv, PlaceOf

\* Where the exchange goes on.
LEMMA PlaceExchange ==
  ASSUME Types, NEW s \in Peers, PlaceOf(s), NEW c0, NEW reads, NEW items, NEW where, Exchange(s, c0, reads, items, where),
         Single, \/ s = A /\ out[s] # NoConn /\ where \in {"m_ack", "m_count", "m_recv"}
                 \/ s = B /\ in[s] # NoConn /\ where \in {"s_recv", "s_ack", "s_foot"},
         pc[s] # "idle", where \in {"m_ack", "s_ack"} => doing[s] = "send"
  PROVE  PlaceOf(s)' /\ pc'[s] = where
<1>1. /\ UNCHANGED <<mode, todo, doing, out, in>> /\ pc'[s] = where BY GoesFacts DEF Exchange
<1>2. where \in At(s)' BY <1>1, PeersDiffer DEF At, Single
<1> QED BY <1>1, <1>2, PeersDiffer DEF PlaceOf, Single, Direction

LEMMA MasterReadsAckStep ==
  ASSUME AnswersInv, NEW s \in Peers, MasterReadsAck(s)
  PROVE  AnswersInv'
<1> PICK c0, kind, where, reads, items :
      c0 = out[s] /\ kind = "ack" /\ where = "m_count" /\ reads = TRUE /\ items = <<>>
  OBVIOUS
<1>1. /\ pc[s] = "m_ack" /\ NextIs(s, c0, kind) /\ Exchange(s, c0, TRUE, <<>>, where) /\ UNCHANGED <<hand, got>>
      /\ Exchange(s, c0, reads, items, where)
  BY DEF MasterReadsAck
<1>2. /\ Types /\ FlightOf(s) /\ PlaceOf(s) /\ Single /\ s = A /\ c0 \in Conns BY <1>1, MasterAt
<1>3. c0 # NoConn BY <1>2, TcpAssumption
<1>4. PlaceOf(s)' BY <1>1, <1>2, <1>3, PlaceExchange
<1>5. Arrived(s) BY <1>1, <1>2, AckArrived
<1> QED BY <1>1, <1>2, <1>4, <1>5, ReadGo

LEMMA SlaveReadsAckStep ==
  ASSUME AnswersInv, NEW s \in Peers, SlaveReadsAck(s)
  PROVE  AnswersInv'
<1> PICK c0, kind, where, reads, items :
      c0 = in[s] /\ kind = "ack" /\ where = "s_foot" /\ reads = TRUE /\ items = <<>>
  OBVIOUS
<1>1. /\ pc[s] = "s_ack" /\ NextIs(s, c0, kind) /\ Exchange(s, c0, TRUE, <<>>, where) /\ UNCHANGED <<hand, got>>
      /\ Exchange(s, c0, reads, items, where)
  BY DEF SlaveReadsAck
<1>2. /\ Types /\ FlightOf(s) /\ PlaceOf(s) /\ Single /\ s = B /\ c0 \in Conns BY <1>1, SlaveAt
<1>3. c0 # NoConn BY <1>2, TcpAssumption
<1>4. PlaceOf(s)' BY <1>1, <1>2, <1>3, PlaceExchange
<1>5. Arrived(s) BY <1>1, <1>2, AckArrived
<1> QED BY <1>1, <1>2, <1>4, <1>5, ReadGo

LEMMA SlaveReadsHeadGo ==
  ASSUME AnswersInv, NEW s \in Peers, SlaveReadsHead(s), Head(conn[in[s]].q[s]).val = 1
  PROVE  AnswersInv'
<1> PICK c0, kind, where, reads, items :
      c0 = in[s] /\ kind = "head" /\ where = "s_recv" /\ reads = TRUE /\ items = <<>>
  OBVIOUS
<1>1. /\ pc[s] = "s_head" /\ NextIs(s, c0, kind) /\ Exchange(s, c0, TRUE, <<>>, where) /\ UNCHANGED <<hand, got>>
      /\ Exchange(s, c0, reads, items, where)
  BY DEF SlaveReadsHead
<1>2. /\ Types /\ PlaceOf(s) /\ Single /\ s = B /\ c0 \in Conns BY <1>1, SlaveAt
<1>3. c0 # NoConn BY <1>2, TcpAssumption
<1>4. PlaceOf(s)' /\ pc'[s] = "s_recv" BY <1>1, <1>2, <1>3, PlaceExchange, ZenonT(30)
<1>5. ~Waits(s) /\ ~AnswerRead(s)' BY <1>1, <1>4 DEF Waits, AnswerRead
<1> QED BY <1>1, <1>2, <1>4, <1>5, ReadGo

LEMMA MasterReadsCountStep ==
  ASSUME AnswersInv, NEW s \in Peers, MasterReadsCount(s)
  PROVE  AnswersInv'
<1> PICK c0, kind, where, reads, none :
      c0 = out[s] /\ kind = "count" /\ where = "m_recv" /\ reads = TRUE /\ none = <<>>
  OBVIOUS
<1>1. pc[s] = "m_count" /\ NextIs(s, c0, kind) BY DEF MasterReadsCount
<1>2. /\ Types /\ SocketsInv /\ FlightOf(s) /\ PlaceOf(s) /\ Single /\ s = A /\ c0 \in Conns BY <1>1, MasterAt
<1>3. c0 # NoConn BY <1>2, TcpAssumption
<1>4. ~Waits(s) BY <1>1 DEF Waits
<1>5. CASE Head(conn[c0].q[s]).val = 1
  <2>1. Exchange(s, c0, TRUE, <<>>, where) /\ UNCHANGED <<hand, got>> /\ Exchange(s, c0, reads, none, where)
    BY <1>5 DEF MasterReadsCount
  <2>2. PlaceOf(s)' BY <2>1, <1>1, <1>2, <1>3, PlaceExchange
  <2>3. AnswerRead(s)' => AnswerRead(s) BY <2>1, <1>1 DEF AnswerRead, Exchange
  <2> QED BY <2>1, <2>2, <2>3, <1>1, <1>2, <1>4, ReadGo
<1>6. CASE Head(conn[c0].q[s]).val # 1
  <2> PICK items, copied, ok, C : items = <<Item("foot", 0)>> /\ copied = 0 /\ ok = TRUE /\ C = {} OBVIOUS
  <2>1. items \in Seq(ItemType) /\ \A i \in Items(items) : i.kind = "foot"
    <3>1. Item("foot", 0) \in ItemType /\ Item("foot", 0).kind = "foot" BY DEF Item, ItemType, Kinds
    <3> QED BY <3>1, FewItems
  <2>2. ~Contains(items, "packet") /\ ~Contains(items, "ack") /\ \A i \in Items(items) : i.kind \notin {"A_ACK", "B"}
    BY <2>1 DEF Contains
  <2>3. /\ conn' = Writes(IF reads THEN Reads(conn, c0, s) ELSE conn, c0, s, items)
        /\ Returns(s, ok, copied) /\ UNCHANGED <<mode, doing, out, in, backlog, got>>
    BY <1>6 DEF MasterReadsCount
  <2>4. conn[c0].q[s] # <<>> /\ reads \in BOOLEAN /\ ok \in BOOLEAN /\ copied \in Nat /\ c0 \in {in[s], out[s]}
    BY <1>1 DEF NextIs
  <2>5. Moves(s, c0, reads, items, C) BY <2>1, <2>2, <2>3, <2>4, <1>2, WroteMove
  <2>6. doing[s] = "send" => todo[s] # <<>> /\ Arrived(s)
    BY <1>1, <1>2 DEF PlaceOf, FlightOf, F7, AnswerRead
  <2> QED BY <2>1, <2>2, <2>3, <2>4, <2>5, <2>6, <1>4, ReturnStep
<1> QED BY <1>5, <1>6

LEMMA SlaveEndsStep ==
  ASSUME AnswersInv, NEW s \in Peers, SlaveEnds(s)
  PROVE  AnswersInv'
<1> PICK c0, copied, ok, C, items, reads :
      c0 = in[s] /\ copied = hand[s] /\ ok = TRUE /\ C = {} /\ items = <<>> /\ reads = TRUE
  OBVIOUS
<1>1. /\ pc[s] = "s_foot" /\ NextIs(s, c0, "foot") /\ conn' = Reads(conn, c0, s)
      /\ Returns(s, ok, copied) /\ UNCHANGED <<mode, doing, out, in, backlog, got>>
  BY DEF SlaveEnds
<1>2. /\ Types /\ SocketsInv /\ FlightOf(s) /\ PlaceOf(s) /\ Single /\ s = B /\ c0 \in Conns BY <1>1, SlaveAt
<1>3. ~Waits(s) BY <1>1 DEF Waits
<1>4. conn[c0].q[s] # <<>> /\ reads \in BOOLEAN /\ ok \in BOOLEAN /\ copied \in Nat /\ c0 \in {in[s], out[s]}
  BY <1>1, <1>2 DEF NextIs, Types
<1>5. Reads(conn, c0, s) \in [Conns -> ConnType] BY <1>2, <1>4, ReadsEffect DEF Types
<1>6. conn' \in Stops(Reads(conn, c0, s), C, s) BY <1>1, <1>5, StopsNothing
<1>7. /\ out' = IF out[s] \in C THEN [out EXCEPT ![s] = NoConn] ELSE out
      /\ in' = IF in[s] \in C THEN [in EXCEPT ![s] = NoConn] ELSE in
      /\ C \subseteq {c0}
  BY <1>1
<1>8. /\ Moves(s, c0, reads, items, C)
      /\ items \in Seq(ItemType) /\ ~Contains(items, "packet") /\ ~Contains(items, "ack")
  BY <1>1, <1>2, <1>4, <1>6, <1>7, ReadMove
<1>9. doing[s] = "send" => todo[s] # <<>> /\ Arrived(s)
  BY <1>1, <1>2 DEF PlaceOf, FlightOf, F7, AnswerRead
<1> QED BY <1>1, <1>3, <1>4, <1>8, <1>9, ReturnStep

-----------------------------------------------------------------------------
(* Steps that write a packet, or the answer to one. *)

LEMMA PacketItems ==
  ASSUME Types, NEW s \in Peers, doing[s] = "send" => todo[s] # <<>>
  PROVE  /\ Packets(s) \in Seq(ItemType) /\ Len(Packets(s)) \in Nat /\ Once(Packets(s), "packet")
         /\ \A i \in Items(Packets(s)) : i.kind = "packet" /\ i.val = Head(todo[s]) /\ doing[s] = "send"
<1>1. CASE doing[s] = "send"
  <2>1. todo[s] \in Seq(Nat \ {0}) /\ todo[s] # <<>> BY <1>1 DEF Types
  <2> PICK i : i = Item("packet", Head(todo[s])) OBVIOUS
  <2>2. Head(todo[s]) \in Nat BY <2>1
  <2>3. i \in ItemType /\ i.kind = "packet" /\ i.val = Head(todo[s])
    BY <2>2 DEF Item, ItemType, Kinds
  <2>4. Packets(s) = <<i>> BY <1>1 DEF Packets
  <2>5. <<i>> \in Seq(ItemType) /\ Items(<<i>>) = {i} /\ Len(<<i>>) = 1 /\ Once(<<i>>, "packet")
    BY <2>3, FewItems
  <2> QED BY <2>3, <2>4, <2>5, <1>1
<1>2. CASE doing[s] # "send"
  <2>1. Packets(s) = <<>> BY <1>2 DEF Packets
  <2>2. Len(<<>>) = 0 OBVIOUS
  <2> QED BY <2>1, <2>2, FewItems, NoItems
<1> QED BY <1>1, <1>2

LEMMA HeadedItems ==
  ASSUME NEW kind \in {"head", "count", "ack"}, NEW n \in Nat, NEW t \in Seq(ItemType),
         NEW items, items = <<Item(kind, n)>> \o t
  PROVE  /\ items \in Seq(ItemType) /\ items # <<>>
         /\ \A i \in Items(items) : i.kind = kind \/ i \in Items(t)
         /\ Once(t, "packet") => Once(items, "packet")
         /\ ~Contains(t, "packet") => ~Contains(items, "packet")
         /\ ~Contains(t, "ack") => Once(items, "ack") /\ (kind # "ack" => ~Contains(items, "ack"))
<1> PICK i, h : i = Item(kind, n) /\ h = <<i>> OBVIOUS
<1>1. i \in ItemType /\ i.kind = kind BY DEF Item, ItemType, Kinds
<1>2. h \in Seq(ItemType) /\ Items(h) = {i} /\ Len(h) = 1 /\ \A k : Once(h, k) BY <1>1, FewItems
<1>3. h # <<>> BY <1>2
<1>4. ~Contains(h, "packet") BY <1>1, <1>2 DEF Contains
<1>5. items = h \o t OBVIOUS
<1>6. /\ items \in Seq(ItemType) /\ Items(items) = Items(h) \cup Items(t) /\ items # <<>>
      /\ Once(t, "packet") => Once(items, "packet")
      /\ ~Contains(t, "ack") => Fewer(items, h, "ack")
  <2>1. /\ h \o t \in Seq(ItemType) /\ Items(h \o t) = Items(h) \cup Items(t) /\ h \o t # <<>>
        /\ Once(t, "packet") => Once(h \o t, "packet")
    BY ONLY <1>2, <1>3, <1>4, JoinItems, t \in Seq(ItemType)
  <2>2. ~Contains(t, "ack") => Fewer(h \o t, h, "ack")
    BY ONLY <1>2, JoinItems, t \in Seq(ItemType)
  <2> QED BY <2>1, <2>2, <1>5
<1>7. Fewer(items, h, "ack") => Once(items, "ack") BY <1>2 DEF Fewer
<1>8. \A j \in Items(items) : j.kind = kind \/ j \in Items(t) BY <1>1, <1>2, <1>6
<1> QED BY <1>6, <1>7, <1>8 DEF Contains

LEMMA GoTypes ==
  ASSUME Types, NEW s \in Peers, NEW where, Goes(s, where), PlaceOf(s)', LinkTypes',
         UNCHANGED <<mode, todo, frames, told>>, hand' \in [Peers -> Nat], got' \in [Peers -> SUBSET Nat]
  PROVE  Types'
<1>1. pc'[s] = where BY GoesFacts
<1>2. where \in At(s)' BY <1>1 DEF PlaceOf
<1>3. where \in {"idle", "connecting", "connecting_rev", "connected", "accepting_rev", "accepted",
                 "write", "ack", "receive", "m_ack", "m_count", "m_recv",
                 "s_head", "s_recv", "s_ack", "s_foot"}
  BY <1>2 DEF At, ConnectorAt, ListenerAt
<1>4. pc' \in [Peers -> {"idle", "connecting", "connecting_rev", "connected", "accepting_rev", "accepted",
                         "write", "ack", "receive", "m_ack", "m_count", "m_recv",
                         "s_head", "s_recv", "s_ack", "s_foot"}]
  BY <1>3 DEF Goes, Types
<1> QED BY <1>4 DEF Types, LinkTypes

\* A packet that is read is one of the other device.
LEMMA PacketRead ==
  ASSUME Types, NEW s \in Peers, FlightOf(Other(s)), NEW c \in Conns, NextIs(s, c, "packet")
  PROVE  Head(conn[c].q[s]).val \in Nat \ {0} /\ conn[c].q[s] # <<>>
<1> PICK p : p = Other(s) OBVIOUS
<1>1. p \in Peers /\ Other(p) = s BY PeersSplit
<1>2. conn[c].q[s] # <<>> /\ conn[c].q[s] \in Seq(ItemType) /\ Head(conn[c].q[s]).kind = "packet" BY ReadsOf
<1> PICK i : i = Head(conn[c].q[s]) OBVIOUS
<1>3. i \in Items(conn[c].q[s]) /\ i.kind = "packet" BY <1>2, TailItems
<1>4. todo[p] # <<>> /\ i.val = Head(todo[p]) BY <1>1, <1>3 DEF FlightOf, F1
<1>5. todo[p] \in Seq(Nat \ {0}) BY <1>1 DEF Types
<1>6. Head(todo[p]) \in Nat \ {0} BY <1>4, <1>5
<1> QED BY <1>2, <1>4, <1>6

\* The packet a call returns with is answered.
LEMMA AnswerReturn ==
  ASSUME AnswersInv, NEW s \in Peers, NEW copied \in Nat, Returns(s, TRUE, copied),
         NEW c0 \in Conns, NEW items \in Seq(ItemType), NEW C, Moves(s, c0, TRUE, items, C), Sheds(s, C),
         ~Contains(items, "packet"), Once(items, "ack"), c0 = Port(s), NextIs(s, c0, "packet"),
         got' = [got EXCEPT ![s] = @ \cup {Head(conn[c0].q[s]).val}],
         ~Single => doing[s] = "receive" /\ copied = Head(conn[c0].q[s]).val,
         C \subseteq {c0}, C = {} => Port(s)' = Port(s), ~Waits(s),
         doing[s] = "send" => todo[s] # <<>> /\ Arrived(s)
  PROVE  AnswersInv'
<1>1. Types /\ PlacesInv /\ FlightOf(Other(s)) BY PeersSplit DEF AnswersInv, FlightInv
<1> PICK v, ok, reads : v = Head(conn[c0].q[s]).val /\ ok = TRUE /\ reads = TRUE OBVIOUS
<1>2. v \in Nat /\ v # 0 BY <1>1, PacketRead
<1>3. ok \in BOOLEAN /\ Returns(s, ok, copied) OBVIOUS
<1>4. /\ pc' = [pc EXCEPT ![s] = "idle"] /\ pc'[s] = "idle" /\ pc'[Other(s)] = pc[Other(s)]
      /\ todo' \in [Peers -> Seq(Nat \ {0})] /\ todo'[Other(s)] = todo[Other(s)]
      /\ told' \in [Peers -> SUBSET Nat] /\ told'[Other(s)] = told[Other(s)]
      /\ frames' \in [Peers -> SUBSET Nat] /\ frames'[Other(s)] = frames[Other(s)]
      /\ frames[s] \subseteq frames'[s] /\ hand' \in [Peers -> Nat]
      /\ (ok /\ doing[s] = "receive" /\ copied # 0) => copied \in frames'[s]
      /\ IF ok /\ doing[s] = "send" THEN told'[s] = told[s] \cup {Head(todo[s])}
                                    ELSE todo'[s] = todo[s] /\ told'[s] = told[s]
      /\ ~Waits(s)' /\ ~AnswerRead(s)'
  BY <1>1, <1>3, ReturnsFacts
<1>5. LinkTypes' /\ UNCHANGED mode BY DEF Moves
<1>6. /\ got' \in [Peers -> SUBSET Nat] /\ got'[s] = got[s] \cup {v} /\ got'[Other(s)] = got[Other(s)]
  BY <1>1, <1>2, PeersSplit DEF Types
<1>7. Types' BY <1>1, <1>4, <1>5, <1>6 DEF Types, LinkTypes
<1>8. v \in Result(s)' /\ Result(s) \subseteq Result(s)' /\ Result(Other(s))' = Result(Other(s))
  BY <1>2, <1>4, <1>5, <1>6 DEF Result, Single
<1>9. Acts(s, c0, TRUE, items, C) BY <1>4, <1>8 DEF Acts
<1>10. PlaceOf(s)' BY <1>1, <1>4, PlaceIdle
<1>11. Settled(s, c0, TRUE, C) BY DEF Settled
<1>12. Tells(s, c0, TRUE) BY <1>4 DEF Tells
<1> QED BY <1>7, <1>8, <1>9, <1>10, <1>11, <1>12, AnswerStep

LEMMA ReceiveEndsStep ==
  ASSUME AnswersInv, NEW s \in Peers, ReceiveEnds(s)
  PROVE  AnswersInv'
<1>1. CASE ~NextIs(s, in[s], "packet") BY <1>1, ReceiveFailsStep
<1>2. CASE NextIs(s, in[s], "packet")
  <2>1. Types /\ PlaceOf(s) /\ SocketsInv /\ SocketsOf(s) /\ PlacesInv /\ FlightOf(Other(s))
    BY PeersSplit DEF AnswersInv, PlacesInv, SocketsInv, FlightInv
  <2> PICK c0, items, C, reads, copied :
        /\ c0 = in[s] /\ items = <<Item("ack", 0)>> /\ reads = TRUE
        /\ C = IF Keep THEN {} ELSE {in[s]}
        /\ copied = Head(conn[in[s]].q[s]).val
    OBVIOUS
  <2>2. /\ pc[s] = "receive" /\ NextIs(s, c0, "packet")
        /\ conn' \in Stops(Writes(IF reads THEN Reads(conn, c0, s) ELSE conn, c0, s, items), C, s)
        /\ in' = IF Keep THEN in ELSE [in EXCEPT ![s] = NoConn]
        /\ got' = [got EXCEPT ![s] = @ \cup {copied}] /\ Returns(s, TRUE, copied)
        /\ UNCHANGED <<mode, doing, out, backlog>>
    BY <1>2 DEF ReceiveEnds
  <2>3. c0 \in Conns /\ Port(s) = c0 /\ doing[s] = "receive" /\ ~Single
    BY <2>1, <2>2, SocketIs, WhereAt DEF PlaceOf
  <2>4. items \in Seq(ItemType) /\ Once(items, "ack") /\ \A i \in Items(items) : i.kind = "ack"
    <3>1. Item("ack", 0) \in ItemType /\ Item("ack", 0).kind = "ack" BY DEF Item, ItemType, Kinds
    <3> QED BY <3>1, FewItems
  <2>5. ~Contains(items, "packet") /\ \A i \in Items(items) : i.kind \notin {"A_ACK", "B"}
    BY <2>4 DEF Contains
  <2>6. in' = IF in[s] \in C THEN [in EXCEPT ![s] = NoConn] ELSE in BY <2>2
  <2>7. out' = IF out[s] \in C THEN [out EXCEPT ![s] = NoConn] ELSE out
    <3>1. out[s] \in C => out[s] = NoConn BY <2>1 DEF SocketsOf
    <3>2. out[s] = NoConn => [out EXCEPT ![s] = NoConn] = out BY <2>1 DEF Types
    <3> QED BY <3>1, <3>2, <2>2
  <2>8. copied \in Nat /\ conn[c0].q[s] # <<>> BY <2>1, <2>2, <2>3, PacketRead
  <2>9. C \subseteq {c0} /\ c0 \in {in[s], out[s]} /\ reads \in BOOLEAN OBVIOUS
  <2>10. Moves(s, c0, reads, items, C) /\ Sheds(s, C)
    BY <2>1, <2>2, <2>3, <2>4, <2>5, <2>6, <2>7, <2>8, <2>9, ExchangeMove
  <2>11. Moves(s, c0, TRUE, items, C) BY <2>10
  <2>12. C = {} => Port(s)' = Port(s) BY <2>2, <2>3 DEF Port, Single
  <2>13. ~Waits(s) BY <2>2 DEF Waits
  <2>14. got' = [got EXCEPT ![s] = @ \cup {Head(conn[c0].q[s]).val}] /\ copied = Head(conn[c0].q[s]).val
    BY <2>2
  <2> QED BY <2>2, <2>3, <2>4, <2>5, <2>8, <2>9, <2>10, <2>11, <2>12, <2>13, <2>14, AnswerReturn
<1> QED BY <1>1, <1>2

LEMMA MasterReceivesStep ==
  ASSUME AnswersInv, NEW s \in Peers, MasterReceives(s)
  PROVE  AnswersInv'
<1> PICK c0, items, C, reads, copied, foot :
      /\ c0 = out[s] /\ items = <<Item("ack", 0), Item("foot", 0)>> /\ reads = TRUE /\ C = {}
      /\ copied = Copied(s, Head(conn[out[s]].q[s]).val) /\ foot = <<Item("foot", 0)>>
  OBVIOUS
<1>1. /\ pc[s] = "m_recv" /\ NextIs(s, c0, "packet")
      /\ conn' = Writes(IF reads THEN Reads(conn, c0, s) ELSE conn, c0, s, items)
      /\ got' = [got EXCEPT ![s] = @ \cup {Head(conn[c0].q[s]).val}] /\ Returns(s, TRUE, copied)
      /\ UNCHANGED <<mode, doing, out, in, backlog>>
  BY DEF MasterReceives
<1>2. /\ Types /\ SocketsInv /\ FlightOf(s) /\ PlaceOf(s) /\ Single /\ c0 \in Conns /\ Port(s) = c0
  BY <1>1, MasterAt
<1>3. FlightOf(Other(s)) BY PeersSplit DEF AnswersInv, FlightInv
<1>4. Head(conn[c0].q[s]).val \in Nat /\ conn[c0].q[s] # <<>> BY <1>1, <1>2, <1>3, PacketRead
<1>5. copied \in Nat BY <1>4 DEF Copied
<1>6. foot \in Seq(ItemType) /\ ~Contains(foot, "ack") /\ ~Contains(foot, "packet") /\ \A i \in Items(foot) : i.kind = "foot"
  <2>1. Item("foot", 0) \in ItemType /\ Item("foot", 0).kind = "foot" BY DEF Item, ItemType, Kinds
  <2> QED BY <2>1, FewItems DEF Contains
<1>7. items = <<Item("ack", 0)>> \o foot OBVIOUS
<1>8. /\ items \in Seq(ItemType) /\ Once(items, "ack") /\ ~Contains(items, "packet")
      /\ \A i \in Items(items) : i.kind \notin {"A_ACK", "B"}
  <2> PICK kind, n : kind = "ack" /\ n = 0 OBVIOUS
  <2>1. items = <<Item(kind, n)>> \o foot /\ kind \in {"head", "count", "ack"} /\ n \in Nat BY <1>7
  <2>2. /\ items \in Seq(ItemType) /\ Once(items, "ack") /\ ~Contains(items, "packet")
        /\ \A i \in Items(items) : i.kind = kind \/ i \in Items(foot)
    <3>1. foot \in Seq(ItemType) /\ ~Contains(foot, "ack") /\ ~Contains(foot, "packet") BY <1>6
    <3>2. /\ items \in Seq(ItemType)
          /\ ~Contains(foot, "packet") => ~Contains(items, "packet")
          /\ ~Contains(foot, "ack") => Once(items, "ack")
          /\ \A i \in Items(items) : i.kind = kind \/ i \in Items(foot)
      BY <2>1, <3>1, HeadedItems, Zenon
    <3> QED BY <3>1, <3>2
  <2> QED BY <2>2, <1>6
<1>9. reads \in BOOLEAN /\ c0 \in {in[s], out[s]} OBVIOUS
<1>10. Moves(s, c0, reads, items, C) /\ Sheds(s, C) BY <1>1, <1>2, <1>4, <1>8, <1>9, WroteMove
<1>11. Moves(s, c0, TRUE, items, C) BY <1>10
<1>12. C \subseteq {c0} /\ Port(s)' = Port(s) BY <1>1 DEF Port, Single
<1>13. ~Waits(s) BY <1>1 DEF Waits
<1>14. doing[s] = "send" => todo[s] # <<>> /\ Arrived(s)
  BY <1>1, <1>2 DEF PlaceOf, FlightOf, F7, AnswerRead
<1> QED BY <1>1, <1>2, <1>5, <1>8, <1>10, <1>11, <1>12, <1>13, <1>14, AnswerReturn

\* A packet is written on the line, after the answer to one or not.
LEMMA SendGo ==
  ASSUME AnswersInv, NEW s \in Peers, NEW where, Goes(s, where), PlaceOf(s)', NEW c0 \in Conns, NEW reads \in BOOLEAN,
         NEW items \in Seq(ItemType), Moves(s, c0, reads, items, {}), c0 = Line(s),
         UNCHANGED <<todo, doing, frames, told, out, in, backlog>>, hand' \in [Peers -> Nat],
         Once(items, "packet"), \A i \in Items(items) : i.kind = "packet" => todo[s] # <<>> /\ i.val = Head(todo[s]),
         ~Waits(s), where \in {"ack", "m_ack", "s_ack"},
         \/ ~Contains(items, "ack") /\ UNCHANGED got
         \/ /\ reads /\ NextIs(s, c0, "packet") /\ Once(items, "ack") /\ c0 = Port(s) /\ Single
            /\ got' = [got EXCEPT ![s] = @ \cup {Head(conn[c0].q[s]).val}]
  PROVE  AnswersInv'
<1>1. Types /\ FlightOf(Other(s)) BY PeersSplit DEF AnswersInv, FlightInv
<1> PICK v : v = Head(conn[c0].q[s]).val OBVIOUS
<1>2. pc'[s] = where /\ pc'[Other(s)] = pc[Other(s)] BY <1>1, GoesFacts, PeersSplit
<1>3. LinkTypes' /\ UNCHANGED mode BY DEF Moves
<1>4. \/ got' = got /\ ~Contains(items, "ack")
      \/ /\ got' \in [Peers -> SUBSET Nat] /\ got'[s] = got[s] \cup {v} /\ got'[Other(s)] = got[Other(s)]
         /\ reads /\ NextIs(s, c0, "packet") /\ Once(items, "ack") /\ c0 = Port(s) /\ Single
  <2>1. CASE ~Contains(items, "ack") /\ UNCHANGED got BY <2>1
  <2>2. CASE /\ reads /\ NextIs(s, c0, "packet") /\ Once(items, "ack") /\ c0 = Port(s) /\ Single
             /\ got' = [got EXCEPT ![s] = @ \cup {Head(conn[c0].q[s]).val}]
    <3>1. v \in Nat BY <2>2, <1>1, PacketRead
    <3>2. got' = [got EXCEPT ![s] = @ \cup {v}] BY <2>2
    <3>3. got \in [Peers -> SUBSET Nat] BY <1>1 DEF Types
    <3> QED BY <2>2, <3>1, <3>2, <3>3, PeersSplit
  <2> QED BY <2>1, <2>2
<1>5. got' \in [Peers -> SUBSET Nat] BY <1>1, <1>4 DEF Types
<1>6. Types' BY <1>1, <1>3, <1>5, GoTypes
<1>7. Result(s) \subseteq Result(s)' /\ Result(Other(s))' = Result(Other(s))
  BY <1>3, <1>4 DEF Result, Single
<1> PICK C : C = {} OBVIOUS
<1>8. Acts(s, c0, reads, items, {}) BY <1>2, <1>7 DEF Acts
<1>9. Sending(s, items) BY <1>2 DEF Sending, Waits
<1>10. \/ ~Contains(items, "ack")
       \/ /\ reads /\ NextIs(s, c0, "packet") /\ Once(items, "ack") /\ c0 = Port(s) /\ UNCHANGED backlog[s]
          /\ Head(conn[c0].q[s]).val \in Result(s)'
  BY <1>3, <1>4 DEF Result, Single
<1> QED BY <1>6, <1>8, <1>9, <1>10, SendStep

LEMMA SendWritesStep ==
  ASSUME AnswersInv, NEW s \in Peers, SendWrites(s)
  PROVE  AnswersInv'
<1>1. Types /\ PlaceOf(s) /\ SocketsInv /\ PlacesInv BY DEF AnswersInv, PlacesInv
<1> PICK where, c0, items, reads, i :
      /\ where = "ack" /\ c0 = out[s] /\ i = Item("packet", Head(todo[s])) /\ items = <<i>> /\ reads = FALSE
  OBVIOUS
<1>2. /\ pc[s] = "write" /\ Goes(s, where) /\ conn' = Writes(conn, c0, s, items)
      /\ UNCHANGED <<mode, todo, doing, out, in, backlog, hand, got, frames, told>>
  BY DEF SendWrites, history
<1>3. ~Single /\ Line(s) = c0 /\ c0 \in Conns /\ c0 # NoConn /\ doing[s] = "send" /\ todo[s] # <<>>
  BY <1>1, <1>2, WhereAt, SocketIs DEF PlaceOf
<1>4. i \in ItemType /\ i.kind = "packet" /\ i.val = Head(todo[s])
  <2>1. todo[s] \in Seq(Nat \ {0}) BY <1>1 DEF Types
  <2>2. Head(todo[s]) \in Nat BY <2>1, <1>3
  <2> QED BY <2>2 DEF Item, ItemType, Kinds
<1>5. /\ items \in Seq(ItemType) /\ Items(items) = {i} /\ Once(items, "packet") BY <1>4, FewItems
<1>6. /\ \A j \in Items(items) : j.kind = "packet" => todo[s] # <<>> /\ j.val = Head(todo[s])
      /\ \A j \in Items(items) : j.kind \notin {"A_ACK", "B"}
      /\ ~Contains(items, "ack")
  BY <1>3, <1>4, <1>5 DEF Contains
<1>7. /\ conn' = Writes(IF reads THEN Reads(conn, c0, s) ELSE conn, c0, s, items)
      /\ reads \in BOOLEAN /\ c0 \in {in[s], out[s]} /\ (reads => conn[c0].q[s] # <<>>)
  BY <1>2
<1>8. Moves(s, c0, reads, items, {}) BY <1>1, <1>2, <1>3, <1>5, <1>6, <1>7, WroteMove
<1>9. ~Waits(s) /\ hand' \in [Peers -> Nat] BY <1>1, <1>2 DEF Waits, Types
<1>10. pc'[s] = "ack" BY <1>1, <1>2, GoesFacts
<1>11. PlaceOf(s)'
  <2>1. "ack" \in At(s)' BY <1>2, <1>3 DEF At, ConnectorAt, ListenerAt, Single, Direction
  <2> QED BY <2>1, <1>1, <1>2, <1>3, <1>10 DEF PlaceOf, Single, Direction
<1>12. where \in {"ack", "m_ack", "s_ack"} OBVIOUS
<1> QED BY <1>2, <1>3, <1>5, <1>6, <1>7, <1>8, <1>9, <1>11, <1>12, SendGo

\* What goes with the packet, if there is one.
LEMMA ExchangeItems ==
  ASSUME Types, NEW s \in Peers, doing[s] = "send" => todo[s] # <<>>, NEW kind \in {"head", "count"},
         NEW items, items = <<Item(kind, Len(Packets(s)))>> \o Packets(s)
  PROVE  /\ items \in Seq(ItemType) /\ Once(items, "packet") /\ ~Contains(items, "ack")
         /\ \A i \in Items(items) : /\ i.kind \notin {"A_ACK", "B"}
                                    /\ i.kind = "packet" => todo[s] # <<>> /\ i.val = Head(todo[s])
         /\ doing[s] # "send" => ~Contains(items, "packet")
<1> PICK t, n : t = Packets(s) /\ n = Len(Packets(s)) OBVIOUS
<1>1. /\ t \in Seq(ItemType) /\ n \in Nat /\ Once(t, "packet")
      /\ \A i \in Items(t) : i.kind = "packet" /\ i.val = Head(todo[s]) /\ doing[s] = "send"
  BY PacketItems
<1>2. ~Contains(t, "ack") BY <1>1 DEF Contains
<1>3. items = <<Item(kind, n)>> \o t /\ kind \in {"head", "count", "ack"} /\ kind # "ack" OBVIOUS
<1>4. /\ items \in Seq(ItemType)
      /\ \A i \in Items(items) : i.kind = kind \/ i \in Items(t)
      /\ Once(t, "packet") => Once(items, "packet")
      /\ ~Contains(t, "packet") => ~Contains(items, "packet")
      /\ ~Contains(t, "ack") => Once(items, "ack") /\ (kind # "ack" => ~Contains(items, "ack"))
  BY <1>1, <1>3, HeadedItems, Zenon
<1>5. doing[s] # "send" => ~Contains(t, "packet") BY <1>1 DEF Contains
<1> QED BY <1>1, <1>2, <1>3, <1>4, <1>5

LEMMA MasterWritesStep ==
  ASSUME AnswersInv, NEW s \in Peers, MasterWrites(s)
  PROVE  AnswersInv'
<1>1. Types /\ PlaceOf(s) /\ SocketsInv BY DEF AnswersInv, PlacesInv
<1> PICK where, c0, items, reads, kind, C :
      /\ where = (IF doing[s] = "send" THEN "m_ack" ELSE "m_count") /\ c0 = out[s] /\ kind = "head"
      /\ items = <<Item("head", Len(Packets(s)))>> \o Packets(s) /\ reads = FALSE /\ C = {}
  OBVIOUS
<1>2. /\ pc[s] = "connected" /\ Single /\ Exchange(s, c0, reads, items, where) /\ UNCHANGED <<hand, got>>
  BY DEF MasterWrites
<1>3. s = A /\ c0 # NoConn /\ c0 \in Conns /\ Line(s) = c0 /\ (doing[s] = "send" => todo[s] # <<>>)
  BY <1>1, <1>2, SocketIs, PeersDiffer DEF PlaceOf, At, Line
<1>4. /\ conn' = Writes(IF reads THEN Reads(conn, c0, s) ELSE conn, c0, s, items) /\ Goes(s, where)
      /\ UNCHANGED <<mode, todo, doing, out, in, backlog, frames, told, hand, got>>
  BY <1>2 DEF Exchange
<1>5. kind \in {"head", "count"} /\ items = <<Item(kind, Len(Packets(s)))>> \o Packets(s) OBVIOUS
<1>6. /\ items \in Seq(ItemType) /\ Once(items, "packet") /\ ~Contains(items, "ack")
      /\ \A i \in Items(items) : /\ i.kind \notin {"A_ACK", "B"}
                                 /\ i.kind = "packet" => todo[s] # <<>> /\ i.val = Head(todo[s])
      /\ doing[s] # "send" => ~Contains(items, "packet")
  BY <1>1, <1>3, <1>5, ExchangeItems
<1>7. reads \in BOOLEAN /\ c0 \in {in[s], out[s]} /\ (reads => conn[c0].q[s] # <<>>) OBVIOUS
<1>8. Moves(s, c0, reads, items, {}) /\ Moves(s, c0, reads, items, C)
  BY <1>1, <1>3, <1>4, <1>6, <1>7, WroteMove
<1>9. PlaceOf(s)' /\ pc'[s] = where
  BY <1>1, <1>2, <1>3, PlaceExchange
<1>10. ~Waits(s) /\ hand' \in [Peers -> Nat] BY <1>1, <1>2, <1>4 DEF Waits, Types
<1>11. CASE doing[s] = "send"
  <2>1. where \in {"ack", "m_ack", "s_ack"} BY <1>11
  <2> QED BY <2>1, <1>3, <1>4, <1>6, <1>7, <1>8, <1>9, <1>10, SendGo
<1>12. CASE doing[s] # "send"
  <2>1. ~AnswerRead(s)' BY <1>12, <1>4 DEF AnswerRead
  <2>2. Settled(s, c0, reads, C) BY <1>10 DEF Settled
  <2> QED BY <2>1, <2>2, <1>4, <1>6, <1>7, <1>8, <1>9, <1>12, GoStep
<1> QED BY <1>11, <1>12

LEMMA SlaveReadsHeadStep ==
  ASSUME AnswersInv, NEW s \in Peers, SlaveReadsHead(s)
  PROVE  AnswersInv'
<1>1. CASE Head(conn[in[s]].q[s]).val = 1 BY <1>1, SlaveReadsHeadGo
<1>2. CASE Head(conn[in[s]].q[s]).val # 1
  <2> PICK where, c0, items, reads, kind, C :
        /\ where = Answered(s) /\ c0 = in[s] /\ kind = "count"
        /\ items = Answer(s) /\ reads = TRUE /\ C = {}
    OBVIOUS
  <2>1. /\ pc[s] = "s_head" /\ NextIs(s, c0, "head") /\ Exchange(s, c0, reads, items, where)
        /\ UNCHANGED <<hand, got>>
    BY <1>2 DEF SlaveReadsHead
  <2>2. /\ Types /\ SocketsInv /\ PlaceOf(s) /\ Single /\ s = B /\ c0 \in Conns /\ Line(s) = c0 /\ c0 # NoConn
        /\ (doing[s] = "send" => todo[s] # <<>>)
    BY <2>1, SlaveAt, TcpAssumption DEF PlaceOf
  <2>3. /\ conn' = Writes(IF reads THEN Reads(conn, c0, s) ELSE conn, c0, s, items) /\ Goes(s, where)
        /\ UNCHANGED <<mode, todo, doing, out, in, backlog, frames, told, hand, got>>
    BY <2>1 DEF Exchange
  <2>4. kind \in {"head", "count"} /\ items = <<Item(kind, Len(Packets(s)))>> \o Packets(s) BY DEF Answer
  <2>5. /\ items \in Seq(ItemType) /\ Once(items, "packet") /\ ~Contains(items, "ack")
        /\ \A i \in Items(items) : /\ i.kind \notin {"A_ACK", "B"}
                                   /\ i.kind = "packet" => todo[s] # <<>> /\ i.val = Head(todo[s])
        /\ doing[s] # "send" => ~Contains(items, "packet")
    BY <2>2, <2>4, ExchangeItems
  <2>6. reads \in BOOLEAN /\ c0 \in {in[s], out[s]} /\ (reads => conn[c0].q[s] # <<>>) BY <2>1 DEF NextIs
  <2>7. Moves(s, c0, reads, items, {}) /\ Moves(s, c0, reads, items, C)
    BY <2>2, <2>3, <2>5, <2>6, WroteMove
  <2>8. PlaceOf(s)' /\ pc'[s] = where BY <2>1, <2>2, PlaceExchange DEF Answered
  <2>9. ~Waits(s) /\ hand' \in [Peers -> Nat] BY <2>1, <2>2, <2>3 DEF Waits, Types
  <2>10. CASE doing[s] = "send"
    <3>1. where \in {"ack", "m_ack", "s_ack"} BY <2>10 DEF Answered
    <3>2. ~Contains(items, "ack") /\ UNCHANGED got /\ c0 \in Conns /\ c0 = Line(s) BY <2>2, <2>3, <2>5
    <3>3. \A i \in Items(items) : i.kind = "packet" => todo[s] # <<>> /\ i.val = Head(todo[s]) BY <2>5
    <3> QED BY ONLY <3>1, <3>2, <3>3, <2>3, <2>5, <2>6, <2>7, <2>8, <2>9, SendGo, AnswersInv, s \in Peers
  <2>11. CASE doing[s] # "send"
    <3>1. ~AnswerRead(s)' BY <2>11, <2>3 DEF AnswerRead
    <3>2. Settled(s, c0, reads, C) BY <2>9 DEF Settled
    <3> QED BY <3>1, <3>2, <2>3, <2>5, <2>6, <2>7, <2>8, <2>11, GoStep
  <2> QED BY <2>10, <2>11
<1> QED BY <1>1, <1>2

LEMMA SlaveReceivesStep ==
  ASSUME AnswersInv, NEW s \in Peers, SlaveReceives(s)
  PROVE  AnswersInv'
<1> PICK where, c0, items, reads, kind, C, t, v :
      /\ where = Answered(s) /\ c0 = in[s] /\ kind = "count" /\ v = Head(conn[in[s]].q[s]).val
      /\ items = <<Item("ack", 0)>> \o Answer(s) /\ reads = TRUE /\ C = {} /\ t = Answer(s)
  OBVIOUS
<1>1. /\ pc[s] = "s_recv" /\ NextIs(s, c0, "packet") /\ Exchange(s, c0, reads, items, where)
      /\ got' = [got EXCEPT ![s] = @ \cup {v}] /\ hand' = [hand EXCEPT ![s] = Copied(s, v)]
  BY DEF SlaveReceives
<1>2. /\ Types /\ SocketsInv /\ PlacesInv /\ PlaceOf(s) /\ Single /\ s = B /\ c0 \in Conns
      /\ Line(s) = c0 /\ Port(s) = c0 /\ c0 # NoConn /\ (doing[s] = "send" => todo[s] # <<>>)
  BY <1>1, SlaveAt, TcpAssumption DEF PlaceOf
<1>3. v \in Nat /\ conn[c0].q[s] # <<>>
  <2>1. FlightOf(Other(s)) BY PeersSplit DEF AnswersInv, FlightInv
  <2> QED BY <2>1, <1>1, <1>2, PacketRead
<1>4. /\ conn' = Writes(IF reads THEN Reads(conn, c0, s) ELSE conn, c0, s, items) /\ Goes(s, where)
      /\ UNCHANGED <<mode, todo, doing, out, in, backlog, frames, told>>
  BY <1>1 DEF Exchange
<1>5. /\ hand' \in [Peers -> Nat] /\ got' \in [Peers -> SUBSET Nat] /\ got'[s] = got[s] \cup {v}
      /\ got'[Other(s)] = got[Other(s)]
  BY <1>1, <1>2, <1>3, PeersSplit DEF Types, Copied
<1>6. /\ t \in Seq(ItemType) /\ Once(t, "packet") /\ ~Contains(t, "ack")
      /\ \A i \in Items(t) : /\ i.kind \notin {"A_ACK", "B"}
                             /\ i.kind = "packet" => todo[s] # <<>> /\ i.val = Head(todo[s])
      /\ doing[s] # "send" => ~Contains(t, "packet")
  <2>1. kind \in {"head", "count"} /\ t = <<Item(kind, Len(Packets(s)))>> \o Packets(s) BY DEF Answer
  <2> QED BY <2>1, <1>2, ExchangeItems
<1>7. /\ items \in Seq(ItemType) /\ Once(items, "packet") /\ Once(items, "ack")
      /\ \A i \in Items(items) : i.kind \notin {"A_ACK", "B"}
      /\ \A i \in Items(items) : i.kind = "packet" => todo[s] # <<>> /\ i.val = Head(todo[s])
      /\ doing[s] # "send" => ~Contains(items, "packet")
  <2> PICK k, n : k = "ack" /\ n = 0 OBVIOUS
  <2>1. items = <<Item(k, n)>> \o t /\ k \in {"head", "count", "ack"} /\ n \in Nat OBVIOUS
  <2>2. t \in Seq(ItemType) BY <1>6
  <2>3. /\ items \in Seq(ItemType)
        /\ \A i \in Items(items) : i.kind = k \/ i \in Items(t)
        /\ Once(t, "packet") => Once(items, "packet")
        /\ ~Contains(t, "packet") => ~Contains(items, "packet")
        /\ ~Contains(t, "ack") => Once(items, "ack") /\ (k # "ack" => ~Contains(items, "ack"))
    BY <2>1, <2>2, HeadedItems, Zenon
  <2>4. \A i \in Items(items) : i.kind = "ack" \/ i \in Items(t) BY <2>3
  <2> QED BY <2>3, <2>4, <1>6
<1>8. reads \in BOOLEAN /\ reads /\ c0 \in {in[s], out[s]} OBVIOUS
<1>9. Moves(s, c0, reads, items, {}) /\ Moves(s, c0, reads, items, C) /\ Sheds(s, C)
  BY <1>2, <1>3, <1>4, <1>7, <1>8, WroteMove
<1>10. PlaceOf(s)' /\ pc'[s] = where BY <1>1, <1>2, PlaceExchange DEF Answered
<1>11. ~Waits(s) BY <1>1 DEF Waits
<1>12. CASE doing[s] = "send"
  <2>1. where \in {"ack", "m_ack", "s_ack"} BY <1>12 DEF Answered
  <2>2. got' = [got EXCEPT ![s] = @ \cup {Head(conn[c0].q[s]).val}] BY <1>1
  <2>3. /\ reads /\ NextIs(s, c0, "packet") /\ Once(items, "ack") /\ c0 = Port(s) /\ Single
        /\ c0 = Line(s) /\ c0 \in Conns
    BY <1>1, <1>2, <1>7, <1>8
  <2> QED BY ONLY <2>1, <2>2, <2>3, <1>4, <1>5, <1>7, <1>8, <1>9, <1>10, <1>11, SendGo, AnswersInv, s \in Peers
<1>13. CASE doing[s] # "send"
  <2>1. ~AnswerRead(s)' BY <1>13, <1>4 DEF AnswerRead
  <2>2. Settled(s, c0, TRUE, C) /\ Tells(s, c0, TRUE) BY <2>1, <1>4, <1>11 DEF Settled, Tells
  <2>3. LinkTypes' BY <1>9 DEF Moves
  <2>4. Types' BY <2>3, <1>2, <1>4, <1>5, <1>10, GoTypes
  <2>5. v \in Result(s)' /\ Result(s) \subseteq Result(s)' /\ Result(Other(s))' = Result(Other(s))
    BY <1>2, <1>4, <1>5 DEF Result, Single
  <2>6. pc'[Other(s)] = pc[Other(s)] BY <1>2, <1>4, GoesFacts, PeersSplit
  <2>7. Acts(s, c0, TRUE, items, C)
    <3>1. Moves(s, c0, TRUE, items, C) BY <1>9
    <3> QED BY <3>1, <2>5, <2>6, <1>4 DEF Acts
  <2>8. C \subseteq {c0} /\ Port(s)' = Port(s) BY <1>4 DEF Port, Single
  <2>9. Head(conn[c0].q[s]).val \in Result(s)' BY <2>5
  <2> QED BY <2>2, <2>4, <2>7, <2>8, <2>9, <1>1, <1>2, <1>7, <1>9, <1>10, <1>13, AnswerStep
<1> QED BY <1>12, <1>13

-----------------------------------------------------------------------------
(* What the network and the server do. *)

\* A step that leaves the device where it is.
LEMMA StaysGo ==
  ASSUME AnswersInv, NEW s \in Peers, UNCHANGED <<mode, todo, pc, doing, hand, got, frames, told>>,
         NEW c0, NEW C, Moves(s, c0, FALSE, <<>>, C), PlaceOf(s)',
         ~Waits(s) \/ UNCHANGED <<out[s], in[s]>>
  PROVE  AnswersInv'
<1> PICK items, reads, where : items = <<>> /\ reads = FALSE /\ where = pc[s] OBVIOUS
<1>1. Goes(s, where) BY DEF AnswersInv, Types, Goes
<1>2. items \in Seq(ItemType) /\ ~Contains(items, "packet") /\ ~Contains(items, "ack") BY FewItems, NoItems
<1>3. AnswerRead(s)' => AnswerRead(s) BY DEF AnswerRead
<1>4. UNCHANGED mode BY DEF Moves
<1>5. Settled(s, c0, reads, C) BY <1>4 DEF Settled, Waits, Line, Single
<1>6. Moves(s, c0, reads, items, C) /\ reads \in BOOLEAN OBVIOUS
<1> QED BY <1>1, <1>2, <1>3, <1>5, <1>6, GoStep

LEMMA ResetStep ==
  ASSUME AnswersInv, NEW c \in Conns, Reset(c)
  PROVE  AnswersInv'
<1> PICK s : s = A OBVIOUS
<1>1. s \in Peers /\ Types /\ SocketsInv /\ PlaceOf(s) BY PeersDiffer DEF AnswersInv, PlacesInv
<1> PICK C, c0 : C = {} /\ c0 = NoConn OBVIOUS
<1> DEFINE q == [p \in Peers |-> <<>>]
           r == [conn[c] EXCEPT !.up = FALSE, !.q = q]
<1>2. /\ conn' = [conn EXCEPT ![c] = r]
      /\ UNCHANGED <<mode, todo, pc, doing, out, in, backlog, hand, got, frames, told>>
  BY DEF Reset, history
<1>3. conn[c] \in ConnType /\ q \in [Peers -> Seq(ItemType)] BY <1>1, FewItems DEF Types
<1>4. \A p \in Peers : q[p] = <<>> OBVIOUS
<1> HIDE DEF q
<1>5. r \in ConnType /\ r.open = conn[c].open /\ r.q = q BY <1>3 DEF ConnType
<1> HIDE DEF r
<1>6. conn' \in [Conns -> ConnType] /\ conn'[c] = r /\ \A d \in Conns : d # c => conn'[d] = conn[d]
  BY <1>1, <1>2, <1>5 DEF Types
<1>7. Effect(conn, conn', s, c0, FALSE, <<>>, C)
  BY <1>1, <1>4, <1>5, <1>6, PeersSplit DEF Effect
<1>8. Moves(s, c0, FALSE, <<>>, C)
  <2>1. LinkTypes' BY <1>1, <1>2, <1>6 DEF Types, LinkTypes
  <2>2. Sheds(s, C) BY <1>2 DEF Sheds
  <2> QED BY <2>1, <2>2, <1>2, <1>7, NoItems DEF Moves
<1>9. PlaceOf(s)' BY <1>1, <1>2 DEF PlaceOf, At, Single, Direction
<1> QED BY <1>1, <1>2, <1>8, <1>9, StaysGo

LEMMA StutterStep ==
  ASSUME AnswersInv, UNCHANGED vars
  PROVE  AnswersInv'
<1> PICK s : s = A OBVIOUS
<1>1. s \in Peers /\ Types /\ PlaceOf(s) BY PeersDiffer DEF AnswersInv, PlacesInv
<1> PICK C, c0 : C = {} /\ c0 = NoConn OBVIOUS
<1>2. UNCHANGED <<mode, todo, pc, doing, out, in, conn, backlog, hand, got, frames, told>>
  BY DEF vars, sockets, history
<1>3. Moves(s, c0, FALSE, <<>>, C)
  <2>1. LinkTypes' BY <1>1, <1>2 DEF Types, LinkTypes
  <2>2. Sheds(s, C) BY <1>2 DEF Sheds
  <2>3. Effect(conn, conn', s, c0, FALSE, <<>>, C) BY <1>2, NoEffect
  <2> QED BY <2>1, <2>2, <2>3, <1>2, NoItems DEF Moves
<1>4. PlaceOf(s)' BY <1>1, <1>2 DEF PlaceOf, At, Single, Direction
<1> QED BY <1>1, <1>2, <1>3, <1>4, StaysGo

\* The first of the backlog is none of the sockets.
LEMMA HeadWaits ==
  ASSUME Types, SocketsInv, NEW s \in Peers, backlog[s] # <<>>
  PROVE  /\ Head(backlog[s]) \in Conns /\ Head(backlog[s]) # NoConn
         /\ Head(backlog[s]) \notin {in[s], out[s]}
         /\ [backlog EXCEPT ![s] = Tail(@)] \in [Peers -> Seq(Conns)]
<1>1. backlog[s] \in Seq(Conns) /\ backlog[s] # <<>> BY DEF Types
<1> PICK h, t : h = Head(backlog[s]) /\ t = Tail(backlog[s]) OBVIOUS
<1>2. h \in Conns /\ t \in Seq(Conns) BY <1>1
<1>3. h \in Pending(s)
  <2>1. Len(backlog[s]) \in Nat /\ Len(backlog[s]) >= 1 /\ DOMAIN backlog[s] = 1 .. Len(backlog[s])
        /\ h = backlog[s][1]
    BY <1>1
  <2>2. 1 \in DOMAIN backlog[s] BY <2>1
  <2> QED BY <2>1, <2>2 DEF Pending
<1>4. h \notin {in[s], out[s]} BY <1>3 DEF SocketsInv, SocketsOf
<1>5. [backlog EXCEPT ![s] = t] \in [Peers -> Seq(Conns)] BY <1>2 DEF Types
<1> QED BY <1>2, <1>4, <1>5, TcpAssumption

LEMMA DiscardStep ==
  ASSUME AnswersInv, NEW s \in Peers, DiscardWhileConnecting(s)
  PROVE  AnswersInv'
<1>1. Types /\ SocketsInv /\ PlaceOf(s) BY DEF AnswersInv, PlacesInv
<1> PICK c0, C : c0 = Head(backlog[s]) /\ C = {Head(backlog[s])} OBVIOUS
<1>2. /\ pc[s] = "connecting" /\ backlog[s] # <<>> /\ conn' \in Stops(conn, C, s)
      /\ backlog' = [backlog EXCEPT ![s] = Tail(@)]
      /\ UNCHANGED <<mode, todo, pc, doing, out, in, hand, got, frames, told>>
  BY DEF DiscardWhileConnecting, history
<1>3. conn' \in [Conns -> ConnType] /\ Effect(conn, conn', s, c0, FALSE, <<>>, C)
  BY <1>1, <1>2, StopsEffect DEF Types
<1>4. c0 \notin {in[s], out[s]} /\ backlog' \in [Peers -> Seq(Conns)] BY <1>1, <1>2, HeadWaits
<1>5. backlog'[s] = Tail(backlog[s]) /\ backlog'[Other(s)] = backlog[Other(s)]
  BY <1>1, <1>2, PeersSplit DEF Types
<1>6. Pops(s, C) BY <1>2, <1>4, <1>5 DEF Pops
<1>7. LinkTypes' BY <1>1, <1>2, <1>3, <1>4 DEF Types, LinkTypes
<1>8. Moves(s, c0, FALSE, <<>>, C) BY <1>2, <1>3, <1>5, <1>6, <1>7, NoItems DEF Moves
<1>9. PlaceOf(s)' BY <1>1, <1>2 DEF PlaceOf, At, Single, Direction
<1>10. ~Waits(s) BY <1>2 DEF Waits
<1> QED BY <1>2, <1>8, <1>9, <1>10, StaysGo

\* NoConn is closed for nothing.
LEMMA EffectConns ==
  ASSUME NEW cs, NEW es, NEW s, NEW c0, NEW reads, NEW items, NEW C, Effect(cs, es, s, c0, reads, items, C \cup {NoConn})
  PROVE  Effect(cs, es, s, c0, reads, items, C)
BY TcpAssumption DEF Effect

LEMMA StopsThenReads ==
  ASSUME NEW cs, NEW ms, NEW es, NEW s \in Peers, NEW h, NEW C, h \notin C, ms[h].q[s] = cs[h].q[s],
         Effect(cs, ms, s, h, FALSE, <<>>, C), Effect(ms, es, s, h, TRUE, <<>>, {})
  PROVE  Effect(cs, es, s, h, TRUE, <<>>, C)
<1> SUFFICES ASSUME NEW c \in Conns
    PROVE  /\ es[c].open[s] <=> (cs[c].open[s] /\ c \notin C)
           /\ es[c].open[Other(s)] <=> cs[c].open[Other(s)]
           /\ es[c].q[s] \in {<<>>, IF c = h THEN Tail(cs[c].q[s]) ELSE cs[c].q[s]}
           /\ c \in C => es[c].q[s] = <<>>
           /\ es[c].q[Other(s)] \in {<<>>, cs[c].q[Other(s)]}
  BY DEF Effect
<1>1. /\ ms[c].open[s] <=> (cs[c].open[s] /\ c \notin C)
      /\ ms[c].open[Other(s)] <=> cs[c].open[Other(s)]
      /\ ms[c].q[s] \in {<<>>, cs[c].q[s]} /\ (c \in C => ms[c].q[s] = <<>>)
      /\ ms[c].q[Other(s)] \in {<<>>, cs[c].q[Other(s)]}
  BY DEF Effect
<1>2. /\ es[c].open[s] <=> ms[c].open[s]
      /\ es[c].open[Other(s)] <=> ms[c].open[Other(s)]
      /\ es[c].q[s] \in {<<>>, IF c = h THEN Tail(ms[c].q[s]) ELSE ms[c].q[s]}
      /\ es[c].q[Other(s)] \in {<<>>, ms[c].q[Other(s)]}
  BY DEF Effect
<1> QED BY <1>1, <1>2

LEMMA StopsTwice ==
  ASSUME NEW cs, NEW ms, NEW es, NEW s \in Peers, NEW h, NEW C, NEW D,
         Effect(cs, ms, s, h, FALSE, <<>>, C), Effect(ms, es, s, h, FALSE, <<>>, D)
  PROVE  Effect(cs, es, s, h, FALSE, <<>>, C \cup D)
<1> SUFFICES ASSUME NEW c \in Conns
    PROVE  /\ es[c].open[s] <=> (cs[c].open[s] /\ c \notin C \cup D)
           /\ es[c].open[Other(s)] <=> cs[c].open[Other(s)]
           /\ es[c].q[s] \in {<<>>, cs[c].q[s]}
           /\ c \in C \cup D => es[c].q[s] = <<>>
           /\ es[c].q[Other(s)] \in {<<>>, cs[c].q[Other(s)]}
  BY DEF Effect
<1>1. /\ ms[c].open[s] <=> (cs[c].open[s] /\ c \notin C)
      /\ ms[c].open[Other(s)] <=> cs[c].open[Other(s)]
      /\ ms[c].q[s] \in {<<>>, cs[c].q[s]} /\ (c \in C => ms[c].q[s] = <<>>)
      /\ ms[c].q[Other(s)] \in {<<>>, cs[c].q[Other(s)]}
  BY DEF Effect
<1>2. /\ es[c].open[s] <=> (ms[c].open[s] /\ c \notin D)
      /\ es[c].open[Other(s)] <=> ms[c].open[Other(s)]
      /\ es[c].q[s] \in {<<>>, ms[c].q[s]} /\ (c \in D => es[c].q[s] = <<>>)
      /\ es[c].q[Other(s)] \in {<<>>, ms[c].q[Other(s)]}
  BY DEF Effect
<1> QED BY <1>1, <1>2

\* The first of the backlog is taken, once the sockets it replaces are closed.
LEMMA TakeMove ==
  ASSUME Types, SocketsInv, NEW s \in Peers, NEW h, backlog[s] # <<>>, h = Head(backlog[s]),
         NEW C, C \subseteq {in[s], out[s]}, NEW cs \in Stops(conn, C, s), conn[h].q[s] # <<>>, conn' = Reads(cs, h, s),
         backlog' = [backlog EXCEPT ![s] = Tail(@)], UNCHANGED mode,
         doing' \in [Peers -> {"send", "receive"}], UNCHANGED doing[Other(s)],
         \/ /\ NextIs(s, h, "A_ACK") /\ (in[s] = NoConn \/ in[s] \in C)
            /\ in' = [in EXCEPT ![s] = h]
            /\ out' = IF out[s] \in C THEN [out EXCEPT ![s] = NoConn] ELSE out
         \/ /\ NextIs(s, h, "B") /\ out[s] = NoConn /\ Direction /\ s = B
            /\ out' = [out EXCEPT ![s] = h]
            /\ in' = IF in[s] \in C THEN [in EXCEPT ![s] = NoConn] ELSE in
  PROVE  Moves(s, h, TRUE, <<>>, C)
<1>1. h \in Conns /\ h # NoConn /\ h \notin {in[s], out[s]} /\ backlog' \in [Peers -> Seq(Conns)]
  BY HeadWaits
<1>2. conn \in [Conns -> ConnType] BY DEF Types
<1>3. cs \in [Conns -> ConnType] /\ Effect(conn, cs, s, h, FALSE, <<>>, C) BY <1>2, StopsEffect
<1>4. cs[h] = conn[h]
  <2>1. h \notin C BY <1>1
  <2> QED BY <2>1, <1>1 DEF Stops
<1>5. /\ conn' \in [Conns -> ConnType] /\ Effect(cs, conn', s, h, TRUE, <<>>, {})
  BY <1>1, <1>3, <1>4, ReadsEffect
<1>6. Effect(conn, conn', s, h, TRUE, <<>>, C)
  <2>1. h \notin C /\ cs[h].q[s] = conn[h].q[s] BY <1>1, <1>4
  <2> PICK es : es = conn' OBVIOUS
  <2>2. Effect(cs, es, s, h, TRUE, <<>>, {}) BY <1>5
  <2>3. Effect(conn, es, s, h, TRUE, <<>>, C) BY <2>1, <2>2, <1>3, StopsThenReads
  <2> QED BY <2>3
<1>7. backlog'[s] = Tail(backlog[s]) /\ UNCHANGED <<out[Other(s)], in[Other(s)], backlog[Other(s)]>>
  BY PeersSplit DEF Types
<1>8. Pops(s, C)
  <2>1. CASE /\ NextIs(s, h, "A_ACK") /\ (in[s] = NoConn \/ in[s] \in C)
             /\ in' = [in EXCEPT ![s] = h]
             /\ out' = IF out[s] \in C THEN [out EXCEPT ![s] = NoConn] ELSE out
    <3>1. in'[s] = h /\ out'[s] = IF out[s] \in C THEN NoConn ELSE out[s] BY <2>1 DEF Types
    <3> QED BY <3>1, <2>1, <1>1, <1>7 DEF Pops
  <2>2. CASE /\ NextIs(s, h, "B") /\ out[s] = NoConn
             /\ out' = [out EXCEPT ![s] = h]
             /\ in' = IF in[s] \in C THEN [in EXCEPT ![s] = NoConn] ELSE in
    <3>1. out'[s] = h /\ in'[s] = IF in[s] \in C THEN NoConn ELSE in[s] BY <2>2 DEF Types
    <3> QED BY <3>1, <2>2, <1>1, <1>7 DEF Pops
  <2> QED BY <2>1, <2>2
<1>9. out'[s] \in {out[s], NoConn} \/ (Direction /\ s = B) BY DEF Types
<1>10. LinkTypes'
  <2>1. out' \in [Peers -> Conns \cup {NoConn}] BY <1>1, ZenonT(30) DEF Types
  <2>2. in' \in [Peers -> Conns \cup {NoConn}] BY <1>1 DEF Types
  <2> QED BY <2>1, <2>2, <1>1, <1>5 DEF LinkTypes
<1> QED BY <1>1, <1>6, <1>7, <1>8, <1>9, <1>10, NoItems DEF Moves

\* It is closed, as others are.
LEMMA RefuseMove ==
  ASSUME Types, SocketsInv, NEW s \in Peers, NEW h, backlog[s] # <<>>, h = Head(backlog[s]),
         NEW C, h \in C, C \subseteq {in[s], out[s], h}, conn' \in [Conns -> ConnType],
         Effect(conn, conn', s, h, FALSE, <<>>, C),
         backlog' = [backlog EXCEPT ![s] = Tail(@)], UNCHANGED mode,
         doing' \in [Peers -> {"send", "receive"}], UNCHANGED doing[Other(s)],
         out' = (IF out[s] \in C THEN [out EXCEPT ![s] = NoConn] ELSE out),
         in' = (IF in[s] \in C THEN [in EXCEPT ![s] = NoConn] ELSE in)
  PROVE  Moves(s, h, FALSE, <<>>, C)
<1>1. h \in Conns /\ backlog' \in [Peers -> Seq(Conns)] BY HeadWaits
<1>2. backlog'[s] = Tail(backlog[s]) /\ UNCHANGED <<out[Other(s)], in[Other(s)], backlog[Other(s)]>>
  BY PeersSplit DEF Types
<1>3. /\ out'[s] = IF out[s] \in C THEN NoConn ELSE out[s]
      /\ in'[s] = IF in[s] \in C THEN NoConn ELSE in[s]
  BY DEF Types
<1>4. Pops(s, C) BY <1>2, <1>3 DEF Pops
<1>5. LinkTypes' BY <1>1 DEF LinkTypes, Types
<1> QED BY <1>2, <1>3, <1>4, <1>5, NoItems DEF Moves

\* A device that waits for nothing goes on or returns after such a step.
LEMMA QuietGo ==
  ASSUME AnswersInv, NEW s \in Peers, ~Waits(s), NEW c0, NEW reads \in BOOLEAN, NEW C,
         Moves(s, c0, reads, <<>>, C), UNCHANGED got,
         \/ Returns(s, FALSE, 0)
         \/ /\ \E where : Goes(s, where)
            /\ UNCHANGED <<todo, hand, frames, told>> /\ PlaceOf(s)' /\ ~AnswerRead(s)'
  PROVE  AnswersInv'
<1> PICK items, ok, copied : items = <<>> /\ ok = FALSE /\ copied = 0 OBVIOUS
<1>1. items \in Seq(ItemType) /\ ~Contains(items, "packet") /\ ~Contains(items, "ack") BY FewItems, NoItems
<1>2. Moves(s, c0, reads, items, C) /\ ok \in BOOLEAN /\ ~ok /\ copied \in Nat OBVIOUS
<1>3. CASE Returns(s, FALSE, 0)
  <2>1. Returns(s, ok, copied) BY <1>3
  <2> QED BY <2>1, <1>1, <1>2, ReturnStep
<1>4. CASE /\ \E where : Goes(s, where)
           /\ UNCHANGED <<todo, hand, frames, told>> /\ PlaceOf(s)' /\ ~AnswerRead(s)'
  <2>1. PICK where : Goes(s, where) BY <1>4
  <2>2. Settled(s, c0, reads, C) BY DEF Settled
  <2> QED BY <2>1, <2>2, <1>1, <1>2, <1>4, GoStep
<1> QED BY <1>3, <1>4

LEMMA StartAcceptStep ==
  ASSUME AnswersInv, NEW s \in Peers, NEW call \in {"send", "receive"}, NEW idle \in BOOLEAN,
         StartAccept(s, call, idle)
  PROVE  AnswersInv'
<1>1. Types /\ PlaceOf(s) /\ SocketsInv /\ SocketsOf(s) BY DEF AnswersInv, PlacesInv, SocketsInv
<1> PICK drop : drop = (idle \/ ~Keep \/ (Direction /\ NoConn \in {in[s], out[s]})) OBVIOUS
<1> PICK h : h = IF backlog[s] = <<>> THEN NoConn ELSE Head(backlog[s]) OBVIOUS
<1> PICK good : good = (h # NoConn /\ NextIs(s, h, "A_ACK")) OBVIOUS
<1> PICK C : C = IF ~drop THEN {} ELSE IF Direction THEN {in[s], out[s]} ELSE {in[s]} OBVIOUS
<1>2. /\ Single \/ Direction \/ call = "receive"
      /\ Connects(s) => ~Single /\ ~Direction
      /\ pc[s] = "idle" /\ (call = "send" => todo[s] # <<>>) /\ doing' = [doing EXCEPT ![s] = call]
      /\ UNCHANGED mode
      /\ IF ~drop /\ in[s] # NoConn
         THEN Goes(s, "accepted") /\ UNCHANGED <<todo, out, in, conn, backlog, hand, got, frames, told>>
         ELSE /\ \E cs \in Stops(conn, C, s) : IF good THEN conn' = Reads(cs, h, s) ELSE conn' \in Stops(cs, {h}, s)
              /\ in' = [in EXCEPT ![s] = IF good THEN h ELSE NoConn]
              /\ out' = IF drop /\ Direction THEN [out EXCEPT ![s] = NoConn] ELSE out
              /\ backlog' = IF h = NoConn THEN backlog ELSE [backlog EXCEPT ![s] = Tail(@)]
              /\ IF good THEN /\ Goes(s, IF Direction THEN "accepting_rev" ELSE "accepted")
                              /\ UNCHANGED <<todo, hand, got, frames, told>>
                 ELSE Returns(s, FALSE, 0) /\ UNCHANGED got
  BY DEF StartAccept, Calls, sockets, history
<1>3. doing' \in [Peers -> {"send", "receive"}] /\ UNCHANGED doing[Other(s)] /\ doing'[s] = call
  BY <1>1, <1>2, PeersSplit DEF Types
<1>4. ~Waits(s) BY <1>2 DEF Waits
<1>5. /\ (Single \/ Direction) => s = B
      /\ (~Single /\ ~Direction) => call = "receive"
  BY <1>2 DEF Connects, Peers
<1>6. CASE ~drop /\ in[s] # NoConn
  <2> PICK where, D : where = "accepted" /\ D = {} OBVIOUS
  <2>1. Goes(s, where) /\ UNCHANGED <<todo, out, in, conn, backlog, hand, got, frames, told>> BY <1>2, <1>6
  <2>2. pc'[s] = "accepted" BY <1>1, <2>1, GoesFacts
  <2>3. PlaceOf(s)'
    <3>1. "accepted" \in At(s)' BY <1>2, <1>5, PeersDiffer DEF At, ListenerAt, Single, Direction
    <3>2. Direction => out[s] # NoConn BY <1>6
    <3> QED BY <3>1, <3>2, <2>1, <2>2, <1>1, <1>2, <1>3, <1>5, <1>6 DEF PlaceOf, Single, Direction
  <2>4. ~AnswerRead(s)' BY <2>2 DEF AnswerRead
  <2>5. conn' \in Stops(conn, D, s) BY <1>1, <2>1, StopsNothing DEF Types
  <2> QED BY <2>1, <2>3, <2>4, <2>5, <1>2, <1>3, <1>4, StopsGo
<1>7. CASE drop \/ in[s] = NoConn
  <2>1. PICK cs \in Stops(conn, C, s) : IF good THEN conn' = Reads(cs, h, s) ELSE conn' \in Stops(cs, {h}, s)
    BY <1>2, <1>7
  <2>2. /\ in' = [in EXCEPT ![s] = IF good THEN h ELSE NoConn]
        /\ out' = IF drop /\ Direction THEN [out EXCEPT ![s] = NoConn] ELSE out
        /\ backlog' = IF h = NoConn THEN backlog ELSE [backlog EXCEPT ![s] = Tail(@)]
        /\ IF good THEN /\ Goes(s, IF Direction THEN "accepting_rev" ELSE "accepted")
                        /\ UNCHANGED <<todo, hand, got, frames, told>>
           ELSE Returns(s, FALSE, 0) /\ UNCHANGED got
    BY <1>2, <1>7
  <2>3. C \subseteq {in[s], out[s]} /\ (in[s] = NoConn \/ in[s] \in C) BY <1>7
  <2>4. out' = IF out[s] \in C THEN [out EXCEPT ![s] = NoConn] ELSE out
    <3>1. CASE drop /\ Direction BY <3>1, <2>2
    <3>2. CASE ~(drop /\ Direction)
      <4>1. out[s] \in C => out[s] = NoConn BY <3>2, <1>1 DEF SocketsOf
      <4>2. out[s] = NoConn => [out EXCEPT ![s] = NoConn] = out BY <1>1 DEF Types
      <4> QED BY <4>1, <4>2, <3>2, <2>2
    <3> QED BY <3>1, <3>2
  <2>5. h # NoConn => backlog[s] # <<>> /\ h = Head(backlog[s]) /\ h \in Conns BY <1>1, HeadWaits
  <2>6. CASE good
    <3>1. /\ backlog[s] # <<>> /\ h = Head(backlog[s]) /\ h # NoConn /\ NextIs(s, h, "A_ACK")
          /\ conn[h].q[s] # <<>>
      BY <2>5, <2>6 DEF NextIs
    <3>2. conn' = Reads(cs, h, s) /\ in' = [in EXCEPT ![s] = h] /\ backlog' = [backlog EXCEPT ![s] = Tail(@)]
      BY <2>1, <2>2, <2>6, <3>1
    <3> PICK reads : reads = TRUE OBVIOUS
    <3>3. Moves(s, h, TRUE, <<>>, C) BY <3>1, <3>2, <2>3, <2>4, <1>1, <1>2, <1>3, TakeMove
    <3> PICK where : where = IF Direction THEN "accepting_rev" ELSE "accepted" OBVIOUS
    <3>4. Goes(s, where) /\ UNCHANGED <<todo, hand, got, frames, told>> BY <2>2, <2>6
    <3>5. pc'[s] = where BY <3>4, <1>1, GoesFacts
    <3>6. ~AnswerRead(s)' BY <3>5 DEF AnswerRead
    <3>7. in'[s] = h /\ out'[s] \in {out[s], NoConn} /\ (Direction => out'[s] = NoConn)
      <4>1. Direction => drop \/ out[s] = NoConn BY <1>7
      <4> QED BY <4>1, <3>2, <2>2, <1>1 DEF Types
    <3>8. PlaceOf(s)'
      <4>1. where \in At(s)' BY <1>2, <1>5, PeersDiffer DEF At, ListenerAt, Single, Direction
      <4> QED BY <4>1, <3>1, <3>4, <3>5, <3>7, <1>1, <1>2, <1>3, <1>5, PeersDiffer
              DEF PlaceOf, Single, Direction
    <3>9. Moves(s, h, reads, <<>>, C) /\ reads \in BOOLEAN /\ \E w : Goes(s, w) BY <3>3, <3>4
    <3> QED BY <3>4, <3>6, <3>8, <3>9, <1>4, QuietGo
  <2>7. CASE ~good
    <3>1. conn' \in Stops(cs, {h}, s) /\ in' = [in EXCEPT ![s] = NoConn] /\ Returns(s, FALSE, 0) /\ UNCHANGED got
      BY <2>1, <2>2, <2>7
    <3>2. in' = IF in[s] \in C THEN [in EXCEPT ![s] = NoConn] ELSE in
      <4>1. in[s] = NoConn => [in EXCEPT ![s] = NoConn] = in BY <1>1 DEF Types
      <4> QED BY <4>1, <3>1, <2>3
    <3>3. cs \in [Conns -> ConnType] /\ Effect(conn, cs, s, h, FALSE, <<>>, C)
      BY <1>1, StopsEffect DEF Types
    <3> PICK es, D : es = conn' /\ D = {h} OBVIOUS
    <3>4. es \in Stops(cs, D, s) BY <3>1
    <3>5. es \in [Conns -> ConnType] /\ Effect(cs, es, s, h, FALSE, <<>>, D) BY <3>3, <3>4, StopsEffect
    <3>6. Effect(conn, es, s, h, FALSE, <<>>, C \cup D) BY <3>3, <3>5, StopsTwice
    <3> PICK reads : reads = FALSE OBVIOUS
    <3>7. CASE h = NoConn
      <4>1. Effect(conn, conn', s, h, FALSE, <<>>, C)
        <5>1. Effect(conn, es, s, h, FALSE, <<>>, C \cup {NoConn}) BY <3>6, <3>7
        <5>2. Effect(conn, es, s, h, FALSE, <<>>, C) BY <5>1, EffectConns
        <5> QED BY <5>2
      <4>2. UNCHANGED backlog BY <2>2, <3>7
      <4>3. Sheds(s, C) BY <4>2, <3>2, <2>4, <1>1, PeersSplit DEF Sheds, Types
      <4>4. LinkTypes'
        <5>1. out' \in [Peers -> Conns \cup {NoConn}] /\ in' \in [Peers -> Conns \cup {NoConn}]
          BY <3>2, <2>4, <1>1 DEF Types
        <5> QED BY <5>1, <4>2, <3>5, <1>1, <1>3 DEF LinkTypes, Types
      <4>5. UNCHANGED <<out[Other(s)], in[Other(s)], backlog[Other(s)]>> BY <4>3 DEF Sheds
      <4>6. Moves(s, h, FALSE, <<>>, C) BY <4>1, <4>3, <4>4, <4>5, <2>3, <1>2, <1>3, NoItems DEF Moves
      <4>7. Moves(s, h, reads, <<>>, C) /\ reads \in BOOLEAN BY <4>6
      <4> QED BY <4>7, <3>1, <1>4, QuietGo
    <3>8. CASE h # NoConn
      <4> PICK K : K = C \cup {h} OBVIOUS
      <4>1. Effect(conn, conn', s, h, FALSE, <<>>, K) /\ conn' \in [Conns -> ConnType] BY <3>5, <3>6
      <4>2. backlog[s] # <<>> /\ h = Head(backlog[s]) /\ backlog' = [backlog EXCEPT ![s] = Tail(@)]
        BY <2>2, <2>5, <3>8
      <4>3. h \notin {in[s], out[s]} BY <4>2, <1>1, HeadWaits
      <4>4. h \in K /\ K \subseteq {in[s], out[s], h} /\ (in[s] \in K <=> in[s] \in C) /\ (out[s] \in K <=> out[s] \in C)
        BY <4>3, <2>3
      <4>5. /\ out' = IF out[s] \in K THEN [out EXCEPT ![s] = NoConn] ELSE out
            /\ in' = IF in[s] \in K THEN [in EXCEPT ![s] = NoConn] ELSE in
        BY <4>4, <3>2, <2>4
      <4>6. Moves(s, h, FALSE, <<>>, K) BY <4>1, <4>2, <4>4, <4>5, <1>1, <1>2, <1>3, RefuseMove
      <4>7. Moves(s, h, reads, <<>>, K) /\ reads \in BOOLEAN BY <4>6
      <4> QED BY <4>7, <3>1, <1>4, QuietGo
    <3> QED BY <3>7, <3>8
  <2> QED BY <2>6, <2>7
<1> QED BY <1>6, <1>7

LEMMA AcceptRevStep ==
  ASSUME AnswersInv, NEW s \in Peers, AcceptRev(s)
  PROVE  AnswersInv'
<1>1. Types /\ PlaceOf(s) /\ SocketsInv /\ SocketsOf(s) BY DEF AnswersInv, PlacesInv, SocketsInv
<1>2. pc[s] = "accepting_rev" /\ UNCHANGED <<mode, doing>> BY DEF AcceptRev
<1>3. Direction /\ s = B /\ out[s] = NoConn /\ in[s] # NoConn /\ ~Waits(s)
  BY <1>1, <1>2 DEF PlaceOf, At, ConnectorAt, Waits, Peers
<1>4. doing' \in [Peers -> {"send", "receive"}] /\ UNCHANGED doing[Other(s)] BY <1>1, <1>2 DEF Types
<1> PICK h : h = Head(backlog[s]) OBVIOUS
<1>5. CASE /\ backlog[s] # <<>> /\ NextIs(s, h, "B")
           /\ out' = [out EXCEPT ![s] = h] /\ conn' = Reads(conn, h, s)
           /\ backlog' = [backlog EXCEPT ![s] = Tail(@)] /\ Goes(s, "accepted")
           /\ UNCHANGED <<todo, in, hand, got, frames, told>>
  <2> PICK C, reads, where : C = {} /\ reads = TRUE /\ where = "accepted" OBVIOUS
  <2>1. conn \in Stops(conn, C, s) BY <1>1, StopsNothing DEF Types
  <2>2. /\ C \subseteq {in[s], out[s]} /\ conn[h].q[s] # <<>>
        /\ in' = IF in[s] \in C THEN [in EXCEPT ![s] = NoConn] ELSE in
    BY <1>5 DEF NextIs
  <2>3. Moves(s, h, TRUE, <<>>, C) BY <2>1, <2>2, <1>1, <1>2, <1>3, <1>4, <1>5, TakeMove
  <2>4. Moves(s, h, reads, <<>>, C) /\ reads \in BOOLEAN /\ Goes(s, where) BY <2>3, <1>5
  <2>5. pc'[s] = "accepted" BY <2>4, <1>1, GoesFacts
  <2>6. ~AnswerRead(s)' BY <2>5 DEF AnswerRead
  <2>7. out'[s] = h /\ h # NoConn BY <1>1, <1>5, HeadWaits DEF Types
  <2>8. PlaceOf(s)'
    <3>1. "accepted" \in At(s)' BY <1>2, <1>3, PeersDiffer DEF At, ListenerAt, Single, Direction
    <3> QED BY <3>1, <2>5, <2>7, <1>1, <1>2, <1>3, <1>5, PeersDiffer DEF PlaceOf, Single, Direction
  <2>9. \E w : Goes(s, w) BY <2>4
  <2> QED BY <2>4, <2>6, <2>8, <2>9, <1>3, <1>5, QuietGo
<1>6. CASE /\ backlog[s] # <<>> /\ conn' \in Stops(conn, {in[s], h}, s)
           /\ backlog' = [backlog EXCEPT ![s] = Tail(@)]
           /\ in' = [in EXCEPT ![s] = NoConn] /\ Returns(s, FALSE, 0) /\ UNCHANGED <<out, got>>
  <2> PICK C, reads : C = {in[s], h} /\ reads = FALSE OBVIOUS
  <2>1. conn' \in Stops(conn, C, s) BY <1>6
  <2>2. conn' \in [Conns -> ConnType] /\ Effect(conn, conn', s, h, FALSE, <<>>, C)
    BY <2>1, <1>1, StopsEffect DEF Types
  <2>3. h # NoConn BY <1>1, <1>6, HeadWaits
  <2>4. /\ h \in C /\ C \subseteq {in[s], out[s], h}
        /\ out' = IF out[s] \in C THEN [out EXCEPT ![s] = NoConn] ELSE out
        /\ in' = IF in[s] \in C THEN [in EXCEPT ![s] = NoConn] ELSE in
    BY <2>3, <1>3, <1>6
  <2>5. Moves(s, h, FALSE, <<>>, C) BY <2>2, <2>4, <1>1, <1>2, <1>4, <1>6, RefuseMove
  <2>6. Moves(s, h, reads, <<>>, C) /\ reads \in BOOLEAN BY <2>5
  <2> QED BY <2>6, <1>3, <1>6, QuietGo
<1>7. CASE /\ conn' \in Stops(conn, {in[s]}, s) /\ UNCHANGED backlog
           /\ in' = [in EXCEPT ![s] = NoConn] /\ Returns(s, FALSE, 0) /\ UNCHANGED <<out, got>>
  <2> PICK C : C = {in[s]} OBVIOUS
  <2>1. conn' \in Stops(conn, C, s) /\ C \subseteq {in[s], out[s]} BY <1>7
  <2>2. /\ out' = IF out[s] \in C THEN [out EXCEPT ![s] = NoConn] ELSE out
        /\ in' = IF in[s] \in C THEN [in EXCEPT ![s] = NoConn] ELSE in
    BY <1>3, <1>7
  <2> QED BY <2>1, <2>2, <1>2, <1>3, <1>7, StopsReturn
<1> QED BY <1>5, <1>6, <1>7 DEF AcceptRev, history

\* A connection is made.
LEMMA OpensGo ==
  ASSUME AnswersInv, NEW s \in Peers, NEW c \in Free, NEW header \in {"A_ACK", "B"}, NEW pair \in Conns \cup {NoConn},
         Opens(s, c, header, pair), backlog' = [backlog EXCEPT ![Other(s)] = Append(@, c)],
         out' \in [Peers -> Conns \cup {NoConn}], in' \in [Peers -> Conns \cup {NoConn}],
         UNCHANGED <<mode, todo, doing, hand, got, frames, told>>, NEW where, Goes(s, where), PlaceOf(s)',
         (Single \/ Direction) => s = A, Single => header = "A_ACK", ~Waits(s), ~Waits(s)', ~AnswerRead(s)'
  PROVE  AnswersInv'
<1>1. Types /\ PlacesInv /\ SocketsInv /\ ApartInv /\ FlightInv /\ AckedIsReceived BY DEF AnswersInv
<1>2. conn' \in [Conns -> ConnType] /\ c \in Conns BY <1>1, OpensEffect
<1>3. Other(s) \in Peers /\ Other(s) # s /\ \A p \in Peers : p = s \/ p = Other(s) BY PeersSplit
<1>4. LinkTypes'
  <2>1. backlog[Other(s)] \in Seq(Conns) BY <1>1, <1>3 DEF Types
  <2>2. Append(backlog[Other(s)], c) \in Seq(Conns) BY <2>1, <1>2
  <2>3. backlog' \in [Peers -> Seq(Conns)] BY <2>2, <1>1 DEF Types
  <2> QED BY <2>3, <1>1, <1>2 DEF LinkTypes, Types
<1>5. hand' \in [Peers -> Nat] /\ got' \in [Peers -> SUBSET Nat] BY <1>1 DEF Types
<1>6. Types' BY <1>1, <1>4, <1>5, GoTypes
<1>7. SocketsInv' /\ ApartInv' BY <1>1, <1>6, OpensKeep
<1>8. pc'[Other(s)] = pc[Other(s)] BY <1>1, <1>3, GoesFacts
<1>9. FlightInv'
  <2>1. Single => s = A /\ header = "A_ACK" BY DEF Single
  <2> QED BY <2>1, <1>1, <1>6, <1>8, OpensFlight
<1>10. PlacesInv'
  <2> PICK o : o = Other(s) OBVIOUS
  <2>1. o \in Peers /\ PlaceOf(o) /\ pc'[o] = pc[o] /\ out'[o] = out[o] /\ in'[o] = in[o]
    BY <1>1, <1>3, <1>8 DEF PlacesInv, Opens
  <2>2. PlaceOf(o)' BY <2>1 DEF PlaceOf, At, Single, Direction
  <2>3. (Single \/ Direction)' => backlog'[A] = <<>>
    <3> SUFFICES ASSUME Single \/ Direction PROVE backlog'[A] = <<>> BY DEF Single, Direction
    <3>1. backlog[A] = <<>> BY <1>1 DEF PlacesInv
    <3>2. s = A /\ backlog'[s] = backlog[s] BY DEF Opens
    <3> QED BY <3>1, <3>2
  <2>4. \A p \in Peers : PlaceOf(p)' BY <2>2, <1>3
  <2> QED BY <2>3, <2>4 DEF PlacesInv
<1>11. AckedIsReceived' BY <1>1 DEF AckedIsReceived, Single
<1> QED BY <1>6, <1>7, <1>9, <1>10, <1>11 DEF AnswersInv

LEMMA ConnectedStep ==
  ASSUME AnswersInv, NEW s \in Peers, Connected(s)
  PROVE  AnswersInv'
<1>1. Types /\ PlaceOf(s) BY DEF AnswersInv, PlacesInv
<1> PICK c, header, pair, where :
      /\ c = (CHOOSE d \in Free : TRUE) /\ header = "A_ACK" /\ pair = NoConn
      /\ where = IF Direction THEN "connecting_rev" ELSE "connected"
  OBVIOUS
<1>2. /\ pc[s] = "connecting" /\ Free # {} /\ conn' = Opened(s, c, header, pair)
      /\ out' = [out EXCEPT ![s] = c] /\ backlog' = [backlog EXCEPT ![Other(s)] = Append(@, c)]
      /\ Goes(s, where) /\ UNCHANGED <<mode, todo, doing, in, hand, got, frames, told>>
  BY DEF Connected, history
<1>3. c \in Free BY <1>2
<1>4. c \in Conns /\ c # NoConn BY <1>3, TcpAssumption DEF Free
<1>5. out[s] = NoConn /\ ((Single \/ Direction) => s = A) BY <1>1, <1>2 DEF PlaceOf, At, ListenerAt, Single
<1>6. out'[s] = c /\ out' \in [Peers -> Conns \cup {NoConn}] /\ in' \in [Peers -> Conns \cup {NoConn}]
  BY <1>1, <1>2, <1>4 DEF Types
<1>7. Opens(s, c, header, pair)
  BY <1>1, <1>2, <1>3, <1>5, <1>6, PeersSplit DEF Opens, Types
<1>8. pc'[s] = where BY <1>1, <1>2, GoesFacts
<1>9. ~Waits(s) /\ ~Waits(s)' /\ ~AnswerRead(s)' BY <1>2, <1>8 DEF Waits, AnswerRead
<1>10. PlaceOf(s)'
  <2>1. where \in At(s)' BY <1>2, <1>5 DEF At, ConnectorAt, Single, Direction
  <2>2. Direction => in[s] = NoConn BY <1>1, <1>2 DEF PlaceOf
  <2> QED BY <2>1, <2>2, <1>1, <1>2, <1>4, <1>5, <1>6, <1>8, PeersDiffer DEF PlaceOf, Single, Direction
<1> QED BY <1>2, <1>3, <1>5, <1>6, <1>7, <1>9, <1>10, OpensGo, ZenonT(30)

LEMMA ConnectedRevStep ==
  ASSUME AnswersInv, NEW s \in Peers, ConnectedRev(s)
  PROVE  AnswersInv'
<1>1. Types /\ PlaceOf(s) BY DEF AnswersInv, PlacesInv
<1> PICK c, header, pair, where :
      /\ c = (CHOOSE d \in Free : TRUE) /\ header = "B" /\ pair = out[s] /\ where = "connected"
  OBVIOUS
<1>2. /\ pc[s] = "connecting_rev" /\ Free # {} /\ conn' = Opened(s, c, header, pair)
      /\ in' = [in EXCEPT ![s] = c] /\ backlog' = [backlog EXCEPT ![Other(s)] = Append(@, c)]
      /\ Goes(s, where) /\ UNCHANGED <<mode, todo, doing, out, hand, got, frames, told>>
  BY DEF ConnectedRev, history
<1>3. c \in Free BY <1>2
<1>4. c \in Conns /\ c # NoConn BY <1>3, TcpAssumption DEF Free
<1>5. in[s] = NoConn /\ out[s] # NoConn /\ Direction /\ ~Single /\ s = A
  BY <1>1, <1>2 DEF PlaceOf, At, ListenerAt, Single, Direction
<1>6. in'[s] = c /\ out' \in [Peers -> Conns \cup {NoConn}] /\ in' \in [Peers -> Conns \cup {NoConn}]
      /\ pair \in Conns \cup {NoConn}
  BY <1>1, <1>2, <1>4 DEF Types
<1>7. Opens(s, c, header, pair)
  BY <1>1, <1>2, <1>3, <1>5, <1>6, PeersSplit DEF Opens, Types
<1>8. pc'[s] = where BY <1>1, <1>2, GoesFacts
<1>9. ~Waits(s) /\ ~Waits(s)' /\ ~AnswerRead(s)' BY <1>2, <1>8 DEF Waits, AnswerRead
<1>10. PlaceOf(s)'
  <2>1. where \in At(s)' BY <1>2, <1>5 DEF At, ConnectorAt, Single, Direction
  <2> QED BY <2>1, <1>1, <1>2, <1>4, <1>5, <1>6, <1>8, PeersDiffer DEF PlaceOf, Single, Direction
<1> QED BY <1>2, <1>3, <1>5, <1>6, <1>7, <1>9, <1>10, OpensGo, ZenonT(30)

-----------------------------------------------------------------------------
LEMMA AnswersInvInit == Init => AnswersInv
<1> SUFFICES ASSUME Init PROVE AnswersInv OBVIOUS
<1>1. /\ pc = [p \in Peers |-> "idle"] /\ doing = [p \in Peers |-> "receive"]
      /\ out = [p \in Peers |-> NoConn] /\ in = [p \in Peers |-> NoConn]
      /\ conn = [c \in Conns |-> Unused] /\ backlog = [p \in Peers |-> <<>>]
      /\ hand = [p \in Peers |-> 0] /\ got = [p \in Peers |-> {}]
      /\ frames = [p \in Peers |-> {}] /\ told = [p \in Peers |-> {}]
  BY DEF Init
<1>2. mode \in {"short", "keep", "direction", "single"} BY TcpAssumption DEF Init
<1>3. todo \in [Peers -> Seq(Nat \ {0})]
  <2>1. todo \in [Peers -> UNION {ToSend[p] : p \in Peers}] BY DEF Init
  <2>2. UNION {ToSend[p] : p \in Peers} \subseteq Seq(Nat \ {0}) BY TcpAssumption
  <2> QED BY <2>1, <2>2
<1>4. conn \in [Conns -> ConnType] BY <1>1, UnusedType
<1>5. Types
  <2>1. backlog \in [Peers -> Seq(Conns)] BY <1>1
  <2> QED BY <2>1, <1>1, <1>2, <1>3, <1>4 DEF Types
<1>6. \A p \in Peers : /\ pc[p] = "idle" /\ doing[p] = "receive" /\ out[p] = NoConn /\ in[p] = NoConn
                       /\ backlog[p] = <<>> /\ Pending(p) = {} /\ told[p] = {} /\ Holds(p) = {}
  <2>1. DOMAIN <<>> = {}
    <3>1. Len(<<>>) = 0 /\ <<>> \in Seq(Conns) OBVIOUS
    <3> QED BY <3>1
  <2> QED BY <2>1, <1>1 DEF Pending, Holds
<1>7. \A c \in Conns, p \in Peers : conn[c].q[p] = <<>> /\ ~conn[c].open[p]
  <2>1. \A p \in Peers : Unused.q[p] = <<>> /\ ~Unused.open[p] BY DEF Unused
  <2> QED BY <2>1, <1>1
<1>8. PlacesInv
  <2>1. \A p \in Peers : "idle" \in At(p) BY DEF At, ConnectorAt, ListenerAt
  <2> QED BY <2>1, <1>6, PeersDiffer DEF PlacesInv, PlaceOf
<1>9. SocketsInv
  <2>1. \A p \in Peers : DOMAIN backlog[p] = {}
    <3>1. Len(<<>>) = 0 /\ <<>> \in Seq(Conns) OBVIOUS
    <3>2. DOMAIN <<>> = {} BY <3>1
    <3> QED BY <3>2, <1>6
  <2> QED BY <2>1, <1>6, <1>7, PeersSplit DEF SocketsInv, SocketsOf
<1>10. ApartInv BY <1>6 DEF ApartInv, ApartOf
<1>11. FlightInv
  <2>1. \A c \in Conns, p \in Peers : /\ Items(conn[c].q[p]) = {}
                                      /\ \A kind : ~Carries(c, p, kind)
    BY <1>7, NoItems DEF Carries
  <2> SUFFICES ASSUME NEW p \in Peers PROVE FlightOf(p) BY DEF FlightInv
  <2>2. Other(p) \in Peers /\ Other(Other(p)) = p BY PeersSplit
  <2>3. F1(p) /\ F2(p) /\ F3(p) /\ F4(p)
    <3>1. DOMAIN backlog[Other(p)] = {}
      <4>1. Len(<<>>) = 0 /\ <<>> \in Seq(Conns) OBVIOUS
      <4>2. DOMAIN <<>> = {} BY <4>1
      <4> QED BY <4>2, <2>2, <1>6
    <3> QED BY <3>1, <2>1, <2>2, <1>6 DEF F1, F2, F3, F4
  <2>4. F5(p) /\ F6(p) /\ F8(p) BY <2>1, <2>2, <1>6 DEF F5, F6, F8
  <2>5. F7(p) BY <1>6 DEF F7, AnswerRead
  <2> QED BY <2>3, <2>4, <2>5 DEF FlightOf
<1>12. AckedIsReceived BY <1>6 DEF AckedIsReceived
<1> QED BY <1>5, <1>8, <1>9, <1>10, <1>11, <1>12 DEF AnswersInv

LEMMA AnswersInvNext == AnswersInv /\ [Next]_vars => AnswersInv'
<1> SUFFICES ASSUME AnswersInv, [Next]_vars PROVE AnswersInv' OBVIOUS
<1>1. CASE UNCHANGED vars BY <1>1, StutterStep
<1>2. ASSUME NEW c \in Conns, Reset(c) PROVE AnswersInv' BY <1>2, ResetStep
<1>3. ASSUME NEW p \in Peers, NEW call \in {"send", "receive"}, Start(p, call) PROVE AnswersInv'
  <2>1. PICK idle \in BOOLEAN : StartConnect(p, call, idle) \/ StartAccept(p, call, idle) BY <1>3 DEF Start
  <2> QED BY <2>1, StartConnectStep, StartAcceptStep
<1>4. ASSUME NEW p \in Peers, Continue(p) PROVE AnswersInv'
  <2>1. CASE Connected(p) \/ ConnectedRev(p) \/ ConnectFails(p) \/ AcceptRev(p)
    BY <2>1, ConnectedStep, ConnectedRevStep, ConnectFailsStep, AcceptRevStep
  <2>2. CASE SendBusy(p) \/ SendChecked(p) \/ SendWrites(p) \/ SendEnds(p) \/ ReceiveBegins(p) \/ ReceiveEnds(p)
    BY <2>2, SendBusyStep, SendCheckedStep, SendWritesStep, SendEndsStep, ReceiveBeginsStep, ReceiveEndsStep
  <2>3. CASE MasterWrites(p) \/ MasterReadsAck(p) \/ MasterReadsCount(p) \/ MasterReceives(p)
    BY <2>3, MasterWritesStep, MasterReadsAckStep, MasterReadsCountStep, MasterReceivesStep
  <2>4. CASE \/ SlaveWaits(p) \/ SlaveReadsHead(p) \/ SlaveReceives(p) \/ SlaveReadsAck(p) \/ SlaveEnds(p)
             \/ TransferFails(p)
    BY <2>4, SlaveWaitsStep, SlaveReadsHeadStep, SlaveReceivesStep, SlaveReadsAckStep, SlaveEndsStep,
       TransferFailsStep
  <2> QED BY <1>4, <2>1, <2>2, <2>3, <2>4 DEF Continue
<1>5. ASSUME NEW p \in Peers, DiscardWhileConnecting(p) PROVE AnswersInv' BY <1>5, DiscardStep
<1> QED BY <1>1, <1>2, <1>3, <1>4, <1>5 DEF Next

\* Whatever is reset and however late the answers are, a packet is told acknowledged
\* only once the other device has read it whole, in each of the four modes: no
\* answer that send_frame() takes is that of an earlier packet or of none.
THEOREM AckedIsReceivedHolds == Spec => []AckedIsReceived
<1>1. Init => AnswersInv BY AnswersInvInit
<1>2. AnswersInv /\ [Next]_vars => AnswersInv' BY AnswersInvNext
<1>3. AnswersInv => AckedIsReceived BY DEF AnswersInv
<1> QED BY <1>1, <1>2, <1>3, PTL DEF Spec

-----------------------------------------------------------------------------
(* No packet is given twice to a device: what is told never comes again.  *)

EachPacketOnce == \A p \in Peers : \A t \in ToSend[p] : \A j, k \in DOMAIN t : t[j] = t[k] => j = k

\* A step of a call leaves the packets to send, or tells of the first.
LEMMA TellsNext ==
  ASSUME AnswersInv, [Next]_vars
  PROVE  \A p \in Peers : \/ todo'[p] = todo[p] /\ told'[p] = told[p]
                          \/ /\ todo[p] # <<>> /\ todo'[p] = Tail(todo[p])
                             /\ told'[p] = told[p] \cup {Head(todo[p])}
<1> DEFINE Same == UNCHANGED <<todo, told>>
<1>1. Types /\ \A s \in Peers : PlaceOf(s) BY DEF AnswersInv, PlacesInv
<1>2. ASSUME NEW s \in Peers, pc[s] # "idle", NEW ok, NEW copied, Returns(s, ok, copied)
      PROVE  \A p \in Peers : \/ todo'[p] = todo[p] /\ told'[p] = told[p]
                              \/ /\ todo[p] # <<>> /\ todo'[p] = Tail(todo[p])
                                 /\ told'[p] = told[p] \cup {Head(todo[p])}
  <2>1. CASE ok /\ doing[s] = "send"
    <3>1. /\ told' = [told EXCEPT ![s] = @ \cup {Head(todo[s])}] /\ todo' = [todo EXCEPT ![s] = Tail(@)]
      BY <1>2, <2>1 DEF Returns
    <3>2. todo[s] # <<>> BY <1>1, <1>2, <2>1 DEF PlaceOf
    <3> QED BY <3>1, <3>2, <1>1 DEF Types
  <2>2. CASE ~(ok /\ doing[s] = "send") BY <1>2, <2>2 DEF Returns
  <2> QED BY <2>1, <2>2
<1>3. ASSUME NEW s \in Peers, Continue(s) PROVE Same \/ (pc[s] # "idle" /\ \E ok, copied : Returns(s, ok, copied))
  <2>1. CASE Connected(s) \/ ConnectedRev(s) \/ SendChecked(s) \/ SendWrites(s)
    BY <2>1 DEF Connected, ConnectedRev, SendChecked, SendWrites, history
  <2>2. CASE ConnectFails(s) \/ SendBusy(s) \/ SendEnds(s)
    BY <2>2 DEF ConnectFails, SendBusy, SendEnds, Linked
  <2>3. CASE AcceptRev(s) BY <2>3 DEF AcceptRev, history
  <2>4. CASE ReceiveBegins(s) BY <2>4 DEF ReceiveBegins, Linked, history
  <2>5. CASE ReceiveEnds(s) BY <2>5 DEF ReceiveEnds
  <2>6. CASE MasterWrites(s) \/ MasterReadsAck(s) \/ SlaveReadsHead(s) \/ SlaveReceives(s) \/ SlaveReadsAck(s)
    BY <2>6 DEF MasterWrites, MasterReadsAck, SlaveReadsHead, SlaveReceives, SlaveReadsAck, Exchange
  <2>7. CASE MasterReadsCount(s) BY <2>7 DEF MasterReadsCount, Exchange
  <2>8. CASE MasterReceives(s) BY <2>8 DEF MasterReceives
  <2>9. CASE SlaveWaits(s) BY <2>9 DEF SlaveWaits, history
  <2>10. CASE SlaveEnds(s) BY <2>10 DEF SlaveEnds
  <2>11. CASE TransferFails(s) BY <2>11 DEF TransferFails, Reading
  <2> QED BY <1>3, <2>1, <2>2, <2>3, <2>4, <2>5, <2>6, <2>7, <2>8, <2>9, <2>10, <2>11 DEF Continue
<1>4. ASSUME NEW s \in Peers, NEW call, NEW idle, StartConnect(s, call, idle) \/ StartAccept(s, call, idle)
      PROVE  Same
  <2>1. CASE StartConnect(s, call, idle) BY <2>1 DEF StartConnect, history
  <2>2. CASE StartAccept(s, call, idle) BY <2>2 DEF StartAccept, Returns, history
  <2> QED BY <1>4, <2>1, <2>2
<1>5. ASSUME NEW s \in Peers, DiscardWhileConnecting(s) PROVE Same BY <1>5 DEF DiscardWhileConnecting, history
<1>6. ASSUME NEW c \in Conns, Reset(c) PROVE Same BY <1>6 DEF Reset, history
<1>7. UNCHANGED vars => Same BY DEF vars, history
<1>8. Same \/ \E s \in Peers : pc[s] # "idle" /\ \E ok, copied : Returns(s, ok, copied)
  BY <1>3, <1>4, <1>5, <1>6, <1>7 DEF Next, Start
<1> QED BY <1>2, <1>8

LEMMA FreshInit == EachPacketOnce /\ Init => FreshInv
<1> SUFFICES ASSUME EachPacketOnce, Init, NEW p \in Peers
             PROVE  /\ \A j, k \in DOMAIN todo[p] : todo[p][j] = todo[p][k] => j = k
                    /\ \A k \in DOMAIN todo[p] : todo[p][k] \notin told[p]
  BY DEF FreshInv
<1>1. todo[p] \in ToSend[p] /\ told[p] = {} BY DEF Init
<1> QED BY <1>1 DEF EachPacketOnce

LEMMA FreshNext == AnswersInv /\ FreshInv /\ [Next]_vars => FreshInv'
<1> SUFFICES ASSUME AnswersInv, FreshInv, [Next]_vars, NEW p \in Peers
             PROVE  /\ \A j, k \in DOMAIN todo'[p] : todo'[p][j] = todo'[p][k] => j = k
                    /\ \A k \in DOMAIN todo'[p] : todo'[p][k] \notin told'[p]
  BY DEF FreshInv
<1> PICK t, u : t = todo[p] /\ u = todo'[p] OBVIOUS
<1>1. /\ \A j, k \in DOMAIN t : t[j] = t[k] => j = k
      /\ \A k \in DOMAIN t : t[k] \notin told[p]
  BY DEF FreshInv
<1>2. CASE u = t /\ told'[p] = told[p] BY <1>1, <1>2
<1>3. CASE t # <<>> /\ u = Tail(t) /\ told'[p] = told[p] \cup {Head(t)}
  <2>1. t \in Seq(Nat \ {0}) /\ t # <<>> BY <1>3 DEF AnswersInv, Types
  <2>2. /\ Len(t) \in Nat /\ 1 <= Len(t) /\ DOMAIN t = 1 .. Len(t) /\ DOMAIN Tail(t) = 1 .. Len(t) - 1
        /\ \A k \in 1 .. Len(t) - 1 : Tail(t)[k] = t[k + 1]
        /\ Head(t) = t[1]
    BY <2>1
  <2>3. \A k \in DOMAIN u : k \in Nat /\ k + 1 \in DOMAIN t /\ u[k] = t[k + 1] /\ k + 1 # 1 BY <1>3, <2>2
  <2>4. 1 \in DOMAIN t BY <2>2
  <2>5. \A j, k \in DOMAIN u : u[j] = u[k] => j = k
    <3> SUFFICES ASSUME NEW j \in DOMAIN u, NEW k \in DOMAIN u, u[j] = u[k] PROVE j = k OBVIOUS
    <3>1. j + 1 = k + 1 /\ j \in Nat /\ k \in Nat BY <2>3, <1>1
    <3> QED BY <3>1
  <2>6. \A k \in DOMAIN u : u[k] \notin told[p] /\ u[k] # t[1] BY <2>3, <2>4, <1>1
  <2> QED BY <2>2, <2>5, <2>6, <1>3
<1>4. (u = t /\ told'[p] = told[p]) \/ (t # <<>> /\ u = Tail(t) /\ told'[p] = told[p] \cup {Head(t)})
  BY TellsNext
<1> QED BY <1>2, <1>3, <1>4

\* When a packet is told acknowledged no copy of it is left in any socket, accepted
\* or not: what the receiver reads later is what the sender sends later.  The
\* packets a device has to send are told apart.
THEOREM NoStaleCopyHolds ==
  ASSUME EachPacketOnce
  PROVE  Spec => []NoStaleCopy
<1>1. Init => AnswersInv /\ FreshInv BY AnswersInvInit, FreshInit
<1>2. AnswersInv /\ FreshInv /\ [Next]_vars => AnswersInv' /\ FreshInv'
  BY AnswersInvNext, FreshNext
<1>3. AnswersInv /\ FreshInv => NoStaleCopy
  <2> SUFFICES ASSUME AnswersInv, FreshInv, NEW p \in Peers, NEW c \in Conns,
                      NEW i \in Queued(c, Other(p)), i.kind = "packet"
               PROVE  i.val \notin told[p]
    BY DEF NoStaleCopy
  <2>1. i \in Items(conn[c].q[Other(p)]) BY DEF Queued, Items
  <2>2. todo[p] # <<>> /\ i.val = Head(todo[p]) BY <2>1 DEF AnswersInv, FlightInv, FlightOf, F1
  <2>3. todo[p] \in Seq(Nat \ {0}) BY DEF AnswersInv, Types
  <2>4. Head(todo[p]) = todo[p][1] /\ 1 \in DOMAIN todo[p] BY <2>2, <2>3
  <2> QED BY <2>2, <2>4 DEF FreshInv
<1> QED BY <1>1, <1>2, <1>3, PTL DEF Spec

=============================================================================
