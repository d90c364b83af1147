--------------------------- MODULE PJONEthernetTCP ---------------------------
(***************************************************************************)
(* The EthernetTCP strategy between two devices, on the POSIX helpers: the *)
(* EthernetLink of each opens, accepts and closes sockets, exchanges one   *)
(* packet at a time and takes a 2 bytes answer for its acknowledgement.    *)
(*                                                                         *)
(* The modes are those of the header: "short", a socket for each packet;   *)
(* "keep", a lasting socket for each direction; "direction", the same with *)
(* both sockets opened by A; "single", one socket opened by A, the master, *)
(* on which both exchange packets in turn.  Acknowledgements are requested *)
(* in all of them.                                                         *)
(*                                                                         *)
(* A step is one socket operation with what is computed until the next.    *)
(* What is written at once is one item of the stream.  A connection may be *)
(* reset at any time; a read gives up when nothing comes within its        *)
(* time-out.                                                               *)
(***************************************************************************)
EXTENDS Integers, Sequences

CONSTANTS
  A, B,       \* the devices
  Modes,      \* the modes explored
  ToSend,     \* ToSend[p]: the lists of packets p may have to send
  Conns,      \* connections that may exist at once, positive numbers
  MaxFaults   \* bound on the resets and on the time-outs that come early

Peers    == {A, B}
Other(p) == IF p = A THEN B ELSE A
NoConn   == 0

ASSUME TcpAssumption ==
  /\ A # B
  /\ Modes \subseteq {"short", "keep", "direction", "single"}
  /\ \A p \in Peers : ToSend[p] \subseteq Seq(Nat \ {0})
  /\ Conns \subseteq Nat \ {NoConn}
  /\ MaxFaults \in Nat

VARIABLES
  mode,     \* how both links are configured
  todo,     \* packets not acknowledged yet; the first is sent again until it is
  pc,       \* where the device is in its call of the link
  doing,    \* the call: "send" (send_frame) or "receive" (receive_frame)
  out, in,  \* _client_out and _client_in
  conn,     \* the connections
  backlog,  \* connections each server has not accepted yet
  hand,     \* what receiver() copied in this call, 0 for nothing
  got,      \* history: packets read whole and acknowledged by the link
  frames,   \* history: packets returned to PJON::receive()
  told,     \* history: packets whose sender was told PJON_ACK
  faults    \* resets and early time-outs so far

sockets == <<out, in, conn, backlog>>
history == <<got, frames, told>>
vars    == <<mode, todo, pc, doing, sockets, hand, history, faults>>

Keep      == mode # "short"
Direction == mode = "direction"
Single    == mode = "single"

Item(kind, v) == [kind |-> kind, val |-> v]
Unused == [open |-> [p \in Peers |-> FALSE], up |-> TRUE, pair |-> NoConn,
           q |-> [p \in Peers |-> <<>>]]

Init ==
  /\ mode \in Modes
  /\ todo \in {t \in [Peers -> UNION {ToSend[p] : p \in Peers}] : \A p \in Peers : t[p] \in ToSend[p]}
  /\ pc = [p \in Peers |-> "idle"] /\ doing = [p \in Peers |-> "receive"]
  /\ out = [p \in Peers |-> NoConn] /\ in = [p \in Peers |-> NoConn]
  /\ conn = [c \in Conns |-> Unused] /\ backlog = [p \in Peers |-> <<>>]
  /\ hand = [p \in Peers |-> 0] /\ got = [p \in Peers |-> {}]
  /\ frames = [p \in Peers |-> {}] /\ told = [p \in Peers |-> {}]
  /\ faults = 0

-----------------------------------------------------------------------------
(* Sockets. *)

\* What p writes is lost once the other end is closed or reset; the write that
\* fails because of it shows as the read that fails after it.
Writes(cs, c, p, items) ==
  IF cs[c].up /\ cs[c].open[Other(p)]
  THEN [cs EXCEPT ![c].q[Other(p)] = @ \o items] ELSE cs

Reads(cs, c, p) == [cs EXCEPT ![c].q[p] = Tail(@)]

\* stop(): what was written before still arrives, except after a reset, which
\* closing with data unread causes.
Closed(r, p, reset) ==
  IF ~r.open[Other(p)] THEN Unused
  ELSE [r EXCEPT !.open[p] = FALSE,
                 !.q = [d \in Peers |-> IF d = p \/ (reset /\ r.q[p] # <<>>) THEN <<>> ELSE r.q[d]]]

Stops(cs, C, p) ==
  {[c \in Conns |-> IF c \in C THEN Closed(cs[c], p, reset) ELSE cs[c]] : reset \in BOOLEAN}

Free == {c \in Conns : conn[c] = Unused}

\* A connection made by p, whose header is written at once.
Opened(p, c, header, pair) ==
  [conn EXCEPT ![c] = [Unused EXCEPT !.open = [d \in Peers |-> TRUE], !.pair = pair,
                                     !.q[Other(p)] = <<Item(header, 0)>>]]

Ended(p, c)    == ~conn[c].up \/ ~conn[c].open[Other(p)]
Readable(p, c) == c # NoConn /\ (conn[c].q[p] # <<>> \/ Ended(p, c))

\* The item p reads next.
NextIs(p, c, kind) == conn[c].q[p] # <<>> /\ Head(conn[c].q[p]).kind = kind

\* The socket on which a device reads.
Socket(p)  == IF pc[p] \in {"ack", "m_ack", "m_count", "m_recv"} THEN out[p] ELSE in[p]
Reading    == {"receive", "ack", "m_ack", "m_count", "m_recv", "s_head", "s_recv", "s_ack", "s_foot"}
Blocked(p) == pc[p] \in Reading /\ ~Readable(p, Socket(p))

\* read_bytes() gives up.  It is early, and counts as a fault, while the other
\* device may still write.
TimesOut(p) ==
  /\ conn[Socket(p)].q[p] = <<>>
  /\ IF Ended(p, Socket(p)) \/ Blocked(Other(p)) THEN UNCHANGED faults
     ELSE faults < MaxFaults /\ faults' = faults + 1

Goes(p, where) == pc' = [pc EXCEPT ![p] = where]

\* The call returns; receive_frame() forgets what receiver() copied unless the
\* result is PJON_ACK.
Returns(p, ok, copied) ==
  /\ Goes(p, "idle")
  /\ IF ok /\ doing[p] = "send"
     THEN /\ told' = [told EXCEPT ![p] = @ \cup {Head(todo[p])}]
          /\ todo' = [todo EXCEPT ![p] = Tail(@)]
     ELSE UNCHANGED <<told, todo>>
  /\ frames' = IF ok /\ doing[p] = "receive" /\ copied # 0
               THEN [frames EXCEPT ![p] = @ \cup {copied}] ELSE frames
  /\ hand' = [hand EXCEPT ![p] = 0]

\* receiver(): there is no buffer to copy to while a frame is sent.
Copied(p, v) == IF doing[p] = "receive" THEN v ELSE 0

-----------------------------------------------------------------------------
(* Connecting and accepting. *)

\* Which side opens the sockets of a call.
Connects(p) == (Single \/ Direction) => p = A
Calls(p, call) == pc[p] = "idle" /\ (call = "send" => todo[p] # <<>>) /\ doing' = [doing EXCEPT ![p] = call]

\* _last_receive_time is older than ETCP_IDLE_TIMEOUT; it counts as a fault.
IdleTooLong(p, idle) ==
  IF idle THEN in[p] # NoConn /\ faults < MaxFaults /\ faults' = faults + 1 ELSE UNCHANGED faults

\* connect(), until the socket is there.
StartConnect(p, call, idle) ==
  /\ Connects(p) /\ (Single \/ Direction \/ call = "send") /\ Calls(p, call)
  /\ (idle => Direction) /\ IdleTooLong(p, idle)
  /\ LET drop == ~Keep \/ (Direction /\ (idle \/ NoConn \in {in[p], out[p]}))
     IN  /\ conn' \in Stops(conn, IF ~drop THEN {} ELSE IF Direction THEN {in[p], out[p]} ELSE {out[p]}, p)
         /\ out' = IF drop THEN [out EXCEPT ![p] = NoConn] ELSE out
         /\ in' = IF drop /\ Direction THEN [in EXCEPT ![p] = NoConn] ELSE in
         /\ Goes(p, IF drop \/ out[p] = NoConn THEN "connecting" ELSE "connected")
  /\ UNCHANGED <<mode, todo, backlog, hand, history>>

\* What comes in meanwhile is accepted and closed.
DiscardWhileConnecting(p) ==
  /\ pc[p] = "connecting" /\ ~Direction /\ ~Single /\ backlog[p] # <<>>
  /\ conn' \in Stops(conn, {Head(backlog[p])}, p)
  /\ backlog' = [backlog EXCEPT ![p] = Tail(@)]
  /\ UNCHANGED <<mode, todo, pc, doing, out, in, hand, history, faults>>

\* The connection is made and its header written.
Connected(p) ==
  /\ pc[p] = "connecting" /\ Free # {}
  /\ LET c == CHOOSE c \in Free : TRUE
     IN  /\ conn' = Opened(p, c, "A_ACK", NoConn)
         /\ out' = [out EXCEPT ![p] = c]
         /\ backlog' = [backlog EXCEPT ![Other(p)] = Append(@, c)]
  /\ Goes(p, IF Direction THEN "connecting_rev" ELSE "connected")
  /\ UNCHANGED <<mode, todo, doing, in, hand, history, faults>>

\* The same for the socket of the packets in reverse direction.
ConnectedRev(p) ==
  /\ pc[p] = "connecting_rev" /\ Free # {}
  /\ LET c == CHOOSE c \in Free : TRUE
     IN  /\ conn' = Opened(p, c, "B", out[p])
         /\ in' = [in EXCEPT ![p] = c]
         /\ backlog' = [backlog EXCEPT ![Other(p)] = Append(@, c)]
  /\ Goes(p, "connected")
  /\ UNCHANGED <<mode, todo, doing, out, hand, history, faults>>

\* The server takes no more connections, or none in time.
ConnectFails(p) ==
  /\ pc[p] \in {"connecting", "connecting_rev"}
  /\ IF Free = {} THEN UNCHANGED faults ELSE faults < MaxFaults /\ faults' = faults + 1
  /\ conn' \in Stops(conn, {out[p]}, p)
  /\ out' = [out EXCEPT ![p] = NoConn]
  /\ Returns(p, FALSE, 0)
  /\ UNCHANGED <<mode, doing, in, backlog, got>>

\* accept(): the sockets in use, or the next of the backlog when its header is right.
StartAccept(p, call, idle) ==
  /\ (Single \/ Direction \/ call = "receive") /\ (Connects(p) => ~Single /\ ~Direction)
  /\ Calls(p, call) /\ IdleTooLong(p, idle)
  /\ LET drop == idle \/ ~Keep \/ (Direction /\ NoConn \in {in[p], out[p]})
         next == IF backlog[p] = <<>> THEN NoConn ELSE Head(backlog[p])
         good == next # NoConn /\ NextIs(p, next, "A_ACK")
         old  == IF ~drop THEN {} ELSE IF Direction THEN {in[p], out[p]} ELSE {in[p]}
     IN  IF ~drop /\ in[p] # NoConn
         THEN Goes(p, "accepted") /\ UNCHANGED <<todo, sockets, hand, history>>
         ELSE /\ \E cs \in Stops(conn, old, p) :
                   IF good THEN conn' = Reads(cs, next, p) ELSE conn' \in Stops(cs, {next}, p)
              /\ in' = [in EXCEPT ![p] = IF good THEN next ELSE NoConn]
              /\ out' = IF drop /\ Direction THEN [out EXCEPT ![p] = NoConn] ELSE out
              /\ backlog' = IF next = NoConn THEN backlog ELSE [backlog EXCEPT ![p] = Tail(@)]
              /\ IF good THEN /\ Goes(p, IF Direction THEN "accepting_rev" ELSE "accepted")
                              /\ UNCHANGED <<todo, hand, history>>
                 ELSE Returns(p, FALSE, 0) /\ UNCHANGED got
  /\ UNCHANGED mode

\* Mutant: the header of the second socket is read and not looked at.
AcceptRevAnyHeader(p) ==
  /\ pc[p] = "accepting_rev" /\ backlog[p] # <<>> /\ conn[Head(backlog[p])].q[p] # <<>>
  /\ out' = [out EXCEPT ![p] = Head(backlog[p])]
  /\ conn' = Reads(conn, Head(backlog[p]), p)
  /\ backlog' = [backlog EXCEPT ![p] = Tail(@)]
  /\ Goes(p, "accepted")
  /\ UNCHANGED <<mode, todo, doing, in, hand, history, faults>>

\* The second socket, which must hold the header of the reverse direction; both
\* are closed when it does not, or when it does not come.
AcceptRev(p) ==
  /\ pc[p] = "accepting_rev"
  /\ \/ /\ backlog[p] # <<>> /\ NextIs(p, Head(backlog[p]), "B")
        /\ out' = [out EXCEPT ![p] = Head(backlog[p])]
        /\ conn' = Reads(conn, Head(backlog[p]), p)
        /\ backlog' = [backlog EXCEPT ![p] = Tail(@)]
        /\ Goes(p, "accepted")
        /\ UNCHANGED <<todo, in, hand, history, faults>>
     \/ /\ IF backlog[p] # <<>>
           THEN /\ ~NextIs(p, Head(backlog[p]), "B") /\ UNCHANGED faults
                /\ conn' \in Stops(conn, {in[p], Head(backlog[p])}, p)
                /\ backlog' = [backlog EXCEPT ![p] = Tail(@)]
           ELSE /\ IF pc[Other(p)] # "connecting_rev" THEN UNCHANGED faults
                   ELSE faults < MaxFaults /\ faults' = faults + 1
                /\ conn' \in Stops(conn, {in[p]}, p) /\ UNCHANGED backlog
        /\ in' = [in EXCEPT ![p] = NoConn]
        /\ Returns(p, FALSE, 0) /\ UNCHANGED <<out, got>>
  /\ UNCHANGED <<mode, doing>>

-----------------------------------------------------------------------------
(* A packet on its socket: send() and receive(). *)

Linked(p) == pc[p] \in {"connected", "accepted"}

\* send() returns PJON_BUSY when something came in.
SendBusy(p) ==
  /\ Linked(p) /\ ~Single /\ doing[p] = "send" /\ Readable(p, in[p])
  /\ conn' \in Stops(conn, IF Keep THEN {} ELSE {out[p]}, p)
  /\ out' = IF Keep THEN out ELSE [out EXCEPT ![p] = NoConn]
  /\ Returns(p, FALSE, 0)
  /\ UNCHANGED <<mode, doing, in, backlog, got, faults>>

SendChecked(p) ==
  /\ Linked(p) /\ ~Single /\ doing[p] = "send" /\ ~Readable(p, in[p])
  /\ Goes(p, "write")
  /\ UNCHANGED <<mode, todo, doing, sockets, hand, history, faults>>

SendWrites(p) ==
  /\ pc[p] = "write"
  /\ conn' = Writes(conn, out[p], p, <<Item("packet", Head(todo[p]))>>)
  /\ Goes(p, "ack")
  /\ UNCHANGED <<mode, todo, doing, out, in, backlog, hand, history, faults>>

\* Mutant: a kept socket is not closed after PJON_FAIL.
SendEndsKeepsSocket(p) ==
  /\ pc[p] = "ack"
  /\ LET acked == NextIs(p, out[p], "ack")
         cs    == IF acked THEN Reads(conn, out[p], p) ELSE conn
         stay  == Keep /\ ~Ended(p, out[p])
     IN  /\ IF acked THEN UNCHANGED faults ELSE TimesOut(p)
         /\ conn' \in Stops(cs, IF stay THEN {} ELSE {out[p]}, p)
         /\ out' = IF stay THEN out ELSE [out EXCEPT ![p] = NoConn]
         /\ Returns(p, acked, 0)
  /\ UNCHANGED <<mode, doing, in, backlog, got>>

\* The answer: the socket is closed after PJON_FAIL, and always when it is not kept.
SendEnds(p) ==
  /\ pc[p] = "ack"
  /\ LET acked == NextIs(p, out[p], "ack")
         cs    == IF acked THEN Reads(conn, out[p], p) ELSE conn
     IN  /\ IF acked THEN UNCHANGED faults ELSE TimesOut(p)
         /\ conn' \in Stops(cs, IF acked /\ Keep THEN {} ELSE {out[p]}, p)
         /\ out' = IF acked /\ Keep THEN out ELSE [out EXCEPT ![p] = NoConn]
         /\ Returns(p, acked, 0)
  /\ UNCHANGED <<mode, doing, in, backlog, got>>

\* receive() waits for a packet only on a socket of its own.
ReceiveBegins(p) ==
  /\ Linked(p) /\ ~Single /\ doing[p] = "receive"
  /\ IF Keep /\ ~Readable(p, in[p])
     THEN Returns(p, FALSE, 0) /\ UNCHANGED got
     ELSE Goes(p, "receive") /\ UNCHANGED <<todo, hand, history>>
  /\ UNCHANGED <<mode, doing, sockets, faults>>

\* Mutant: the socket whose read failed is not closed.
ReceiveEndsKeepsSocket(p) ==
  /\ pc[p] = "receive"
  /\ LET ok == NextIs(p, in[p], "packet")
         v  == Head(conn[in[p]].q[p]).val
         cs == Writes(Reads(conn, in[p], p), in[p], p, <<Item("ack", 0)>>)
     IN  IF ok
         THEN /\ conn' \in Stops(cs, IF Keep THEN {} ELSE {in[p]}, p)
              /\ in' = IF Keep THEN in ELSE [in EXCEPT ![p] = NoConn]
              /\ got' = [got EXCEPT ![p] = @ \cup {v}]
              /\ Returns(p, TRUE, v)
              /\ UNCHANGED faults
         ELSE TimesOut(p) /\ Returns(p, FALSE, 0) /\ UNCHANGED <<conn, in, got>>
  /\ UNCHANGED <<mode, doing, out, backlog>>

\* A packet is answered and handed over; a read that fails closes the sockets.
ReceiveEnds(p) ==
  /\ pc[p] = "receive"
  /\ LET ok == NextIs(p, in[p], "packet")
         v  == Head(conn[in[p]].q[p]).val
         cs == Writes(Reads(conn, in[p], p), in[p], p, <<Item("ack", 0)>>)
     IN  IF ok
         THEN /\ conn' \in Stops(cs, IF Keep THEN {} ELSE {in[p]}, p)
              /\ in' = IF Keep THEN in ELSE [in EXCEPT ![p] = NoConn]
              /\ got' = [got EXCEPT ![p] = @ \cup {v}]
              /\ Returns(p, TRUE, v)
              /\ UNCHANGED <<out, faults>>
         ELSE /\ TimesOut(p)
              /\ conn' \in Stops(conn, IF Direction THEN {in[p], out[p]} ELSE {in[p]}, p)
              /\ in' = [in EXCEPT ![p] = NoConn]
              /\ out' = IF Direction THEN [out EXCEPT ![p] = NoConn] ELSE out
              /\ Returns(p, FALSE, 0) /\ UNCHANGED got
  /\ UNCHANGED <<mode, doing, backlog>>

-----------------------------------------------------------------------------
(* single_socket_transfer(). *)

Packets(p) == IF doing[p] = "send" THEN <<Item("packet", Head(todo[p]))>> ELSE <<>>

\* A step that writes items after having read one, if reads says so.
Exchange(p, c, reads, items, where) ==
  /\ conn' = Writes(IF reads THEN Reads(conn, c, p) ELSE conn, c, p, items)
  /\ Goes(p, where)
  /\ UNCHANGED <<mode, todo, doing, out, in, backlog, frames, told, faults>>

\* The master: header, number of packets, and the packet.
MasterWrites(p) ==
  /\ pc[p] = "connected" /\ Single
  /\ Exchange(p, out[p], FALSE, <<Item("head", Len(Packets(p)))>> \o Packets(p),
              IF doing[p] = "send" THEN "m_ack" ELSE "m_count")
  /\ UNCHANGED <<hand, got>>

MasterReadsAck(p) ==
  /\ pc[p] = "m_ack" /\ NextIs(p, out[p], "ack")
  /\ Exchange(p, out[p], TRUE, <<>>, "m_count")
  /\ UNCHANGED <<hand, got>>

\* The number of packets of the slave; without any, the footer ends the transfer.
MasterReadsCount(p) ==
  /\ pc[p] = "m_count" /\ NextIs(p, out[p], "count")
  /\ IF Head(conn[out[p]].q[p]).val = 1
     THEN Exchange(p, out[p], TRUE, <<>>, "m_recv") /\ UNCHANGED <<hand, got>>
     ELSE /\ conn' = Writes(Reads(conn, out[p], p), out[p], p, <<Item("foot", 0)>>)
          /\ Returns(p, TRUE, 0)
          /\ UNCHANGED <<mode, doing, out, in, backlog, got, faults>>

\* The packet of the slave, its acknowledgement and the footer.
MasterReceives(p) ==
  /\ pc[p] = "m_recv" /\ NextIs(p, out[p], "packet")
  /\ LET v == Head(conn[out[p]].q[p]).val
     IN  /\ got' = [got EXCEPT ![p] = @ \cup {v}]
         /\ Returns(p, TRUE, Copied(p, v))
  /\ conn' = Writes(Reads(conn, out[p], p), out[p], p, <<Item("ack", 0), Item("foot", 0)>>)
  /\ UNCHANGED <<mode, doing, out, in, backlog, faults>>

SlaveWaits(p) ==
  /\ pc[p] = "accepted" /\ Single
  /\ Goes(p, "s_head")
  /\ UNCHANGED <<mode, todo, doing, sockets, hand, history, faults>>

\* The slave answers with the number of its packets, and the packet.
Answer(p) == <<Item("count", Len(Packets(p)))>> \o Packets(p)
Answered(p) == IF doing[p] = "send" THEN "s_ack" ELSE "s_foot"

SlaveReadsHead(p) ==
  /\ pc[p] = "s_head" /\ NextIs(p, in[p], "head")
  /\ IF Head(conn[in[p]].q[p]).val = 1
     THEN Exchange(p, in[p], TRUE, <<>>, "s_recv")
     ELSE Exchange(p, in[p], TRUE, Answer(p), Answered(p))
  /\ UNCHANGED <<hand, got>>

SlaveReceives(p) ==
  /\ pc[p] = "s_recv" /\ NextIs(p, in[p], "packet")
  /\ LET v == Head(conn[in[p]].q[p]).val
     IN  /\ got' = [got EXCEPT ![p] = @ \cup {v}]
         /\ hand' = [hand EXCEPT ![p] = Copied(p, v)]
  /\ Exchange(p, in[p], TRUE, <<Item("ack", 0)>> \o Answer(p), Answered(p))

SlaveReadsAck(p) ==
  /\ pc[p] = "s_ack" /\ NextIs(p, in[p], "ack")
  /\ Exchange(p, in[p], TRUE, <<>>, "s_foot")
  /\ UNCHANGED <<hand, got>>

SlaveEnds(p) ==
  /\ pc[p] = "s_foot" /\ NextIs(p, in[p], "foot")
  /\ conn' = Reads(conn, in[p], p)
  /\ Returns(p, TRUE, hand[p])
  /\ UNCHANGED <<mode, doing, out, in, backlog, got, faults>>

\* A read that fails ends the transfer and closes the socket; only a packet that
\* was announced is waited for without a time-out.
TransferFails(p) ==
  /\ Single /\ pc[p] \in Reading
  /\ pc[p] \in {"m_recv", "s_recv"} => Ended(p, Socket(p))
  /\ TimesOut(p)
  /\ conn' \in Stops(conn, {Socket(p)}, p)
  /\ IF p = A THEN out' = [out EXCEPT ![p] = NoConn] /\ UNCHANGED in
              ELSE in' = [in EXCEPT ![p] = NoConn] /\ UNCHANGED out
  /\ Returns(p, FALSE, 0)
  /\ UNCHANGED <<mode, doing, backlog, got>>

-----------------------------------------------------------------------------
\* The network resets a connection: what is in flight is lost.
Reset(c) ==
  /\ conn[c] # Unused /\ conn[c].up /\ faults < MaxFaults
  /\ conn' = [conn EXCEPT ![c].up = FALSE, ![c].q = [p \in Peers |-> <<>>]]
  /\ faults' = faults + 1
  /\ UNCHANGED <<mode, todo, pc, doing, out, in, backlog, hand, history>>

Start(p, call) == \E idle \in BOOLEAN : StartConnect(p, call, idle) \/ StartAccept(p, call, idle)

Continue(p) ==
  \/ Connected(p) \/ ConnectedRev(p) \/ ConnectFails(p)
  \/ AcceptRev(p) \/ SendBusy(p) \/ SendChecked(p) \/ SendWrites(p) \/ SendEnds(p)
  \/ ReceiveBegins(p) \/ ReceiveEnds(p)
  \/ MasterWrites(p) \/ MasterReadsAck(p) \/ MasterReadsCount(p) \/ MasterReceives(p)
  \/ SlaveWaits(p) \/ SlaveReadsHead(p) \/ SlaveReceives(p) \/ SlaveReadsAck(p) \/ SlaveEnds(p)
  \/ TransferFails(p)

Next ==
  \/ \E p \in Peers : \/ Start(p, "send") \/ Start(p, "receive")
                      \/ Continue(p) \/ DiscardWhileConnecting(p)
  \/ \E c \in Conns : Reset(c)

Spec == Init /\ [][Next]_vars

\* Each device goes on with its call, which connects or gives up whatever comes in
\* meanwhile, and its loop calls update() and receive() again and again.
FairSpec ==
  Spec /\ \A p \in Peers : /\ WF_vars(Continue(p))
                           /\ SF_vars(Start(p, "send")) /\ SF_vars(Start(p, "receive"))

-----------------------------------------------------------------------------
(* Properties. *)

Queued(c, p) == {conn[c].q[p][k] : k \in DOMAIN conn[c].q[p]}

\* A packet whose sender was told PJON_ACK was read whole by the other device,
\* whatever was reset and however late the answers: no answer is taken for that
\* of another packet.  With two sockets it is also returned to PJON::receive().
\* With one it may not be: receiver() drops what the link reads while it sends,
\* and receive_frame() what was followed by a failure of the transfer.
AckedIsReceived ==
  \A p \in Peers : told[p] \subseteq (IF Single THEN got[Other(p)] ELSE frames[Other(p)])

\* When a packet is acknowledged no earlier copy of it is left in a socket the
\* receiver may still accept or read: what follows it is newer.
NoStaleCopy ==
  \A p \in Peers, c \in Conns :
    ~\E i \in Queued(c, Other(p)) : i.kind = "packet" /\ i.val \in told[p]

\* Both sockets of the listening device come from one connect() of the other.
SocketsPaired ==
  (Direction /\ NoConn \notin {in[B], out[B]}) => conn[out[B]].pair = in[B]

\* A device with nothing to send leaves the other able to get every packet
\* through, whatever was reset before.
OneWayGetsThrough == todo[B] = <<>> => <>(todo[A] = <<>>)
=============================================================================
