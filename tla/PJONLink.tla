------------------------------ MODULE PJONLink ------------------------------
(***************************************************************************)
(* Several PJON instances that send to one recipient over a medium that    *)
(* loses frames and acknowledgements.                                      *)
(*                                                                         *)
(* A sender either keeps composed packets in its send list, which update() *)
(* transmits again and again, or runs send_packet_blocking(), which        *)
(* composes the packet anew for each attempt.  The recipient runs          *)
(* receive(): it acknowledges first, then drops the packets whose          *)
(* identifier it has on record, then those for another port, and hands the *)
(* rest to the receiver function.                                          *)
(*                                                                         *)
(* The slots and the back-off of the send list are those of PJONSendList;  *)
(* here the list is a set and any packet in it may be due.  The strategy   *)
(* is seen through its contract: can_start(), send_frame(), and a          *)
(* receive_response() that answers for the frame just sent or times out.   *)
(***************************************************************************)
EXTENDS Integers, Sequences, FiniteSets

CONSTANTS
  Senders,       \* the sending instances
  Identity,      \* device id, network mode and bus id the recipient sees of each
  Msgs,          \* the messages, each sent once
  Owner,         \* the sender of each message
  Acked,         \* the messages that ask for an acknowledgement
  OtherPort,     \* the messages for a port the recipient does not serve
  ByList,        \* the messages sent with send()
  ByCall,        \* the messages sent with send_packet_blocking()
  PacketIds,     \* whether packets include the 16 bits packet id
  IdMod,         \* 2^16 in the code
  InitialSeeds,  \* what begin() may draw for _packet_id_seed
  Window,        \* PJON_MAX_RECENT_PACKET_IDS
  InitialRings,  \* what recent_packet_ids may hold at the start
  MaxPackets,    \* PJON_MAX_PACKETS
  MaxAttempts,   \* strategy.get_max_attempts()
  Late,          \* whether the medium may deliver a frame after the time-out,
                 \* or again
  MaxLog         \* bound of the model: late frames arrive while log is shorter

Ids == 0 .. IdMod - 1

\* What the recipient keeps of a packet: the header's PJON_MODE_BIT (shared), the
\* sender's device id and its bus id.
Sender == [id: Nat, shared: BOOLEAN, bus: Nat]
Record == [id: Ids, from: Sender]

ASSUME SetsAssumption ==
  /\ Owner \in [Msgs -> Senders]
  /\ Identity \in [Senders -> Sender]
  /\ Acked \subseteq Msgs /\ OtherPort \subseteq Msgs
  /\ ByList \subseteq Msgs /\ ByCall \subseteq Msgs
  /\ PacketIds \in BOOLEAN /\ Late \in BOOLEAN

ASSUME NumbersAssumption ==
  /\ IdMod \in Nat /\ IdMod > 1
  /\ InitialSeeds \subseteq Ids /\ InitialSeeds # {}
  /\ Window \in Nat \ {0}
  /\ InitialRings \subseteq [1 .. Window -> Record]
  /\ MaxPackets \in Nat /\ MaxAttempts \in Nat /\ MaxLog \in Nat

VARIABLES
  seed,    \* _packet_id_seed of each sender
  list,    \* the send list of each sender: packets with their attempts
  call,    \* the running send_packet_blocking() of each sender, if any
  flight,  \* the exchange each sender is waiting in, if any
  strays,  \* frames the medium may still deliver
  recent,  \* recent_packet_ids of the recipient, newest first
  log,     \* history: the packets the recipient did not take for known ones
  status   \* history: the fate of each message, as its sender knows it

vars == <<seed, list, call, flight, strays, recent, log, status>>

\* A composed packet, an entry of the send list and an exchange.
Packet   == [msg: Msgs, id: Ids, from: Senders]
Entry    == [pkt: Packet, attempts: 0 .. MaxAttempts]
NoCall   == [msg |-> "none"]
Call     == [msg: Msgs, attempts: 0 .. MaxAttempts]
NoFlight == [phase |-> "none"]
\* "sent": the frame is on the medium; "acked": the answer is; "silent": the
\* sender waits in vain; via tells which call transmitted.
Flight   == [phase: {"sent", "acked", "silent"}, via: {"list", "call"}, pkt: Packet]
Moved(f, phase) == [phase |-> phase, via |-> f.via, pkt |-> f.pkt]

Init ==
  /\ seed \in [Senders -> InitialSeeds]
  /\ list = [d \in Senders |-> {}]
  /\ call = [d \in Senders |-> NoCall]
  /\ flight = [d \in Senders |-> NoFlight]
  /\ strays = {}
  /\ recent \in InitialRings
  /\ log = <<>>
  /\ status = [m \in Msgs |-> "new"]

-----------------------------------------------------------------------------
(* Composing. *)

\* new_packet_id(), given the seed before its increment.
NewPacketId(s) == LET n == (s + 1) % IdMod IN IF n = 0 THEN 1 ELSE n

\* compose_packet(): a packet that includes an id and has none gets a new one.
Composed(d, m) ==
  [msg |-> m, from |-> d, id |-> IF PacketIds THEN NewPacketId(seed[d]) ELSE 0]

DrawId(d) == seed' = IF PacketIds THEN [seed EXCEPT ![d] = (@ + 1) % IdMod] ELSE seed

Idle(d) == flight[d] = NoFlight /\ call[d] = NoCall

\* send(): the packet is composed once, when it enters the list.  When the list
\* is full nothing is taken.
Send(d, m) ==
  /\ Idle(d) /\ Owner[m] = d /\ m \in ByList /\ status[m] = "new"
  /\ Cardinality(list[d]) < MaxPackets
  /\ list' = [list EXCEPT ![d] = @ \cup {[pkt |-> Composed(d, m), attempts |-> 0]}]
  /\ DrawId(d)
  /\ status' = [status EXCEPT ![m] = "pending"]
  /\ UNCHANGED <<call, flight, strays, recent, log>>

\* send_packet_blocking() is entered.
BeginCall(d, m) ==
  /\ Idle(d) /\ Owner[m] = d /\ m \in ByCall /\ status[m] = "new"
  /\ call' = [call EXCEPT ![d] = [msg |-> m, attempts |-> 0]]
  /\ status' = [status EXCEPT ![m] = "pending"]
  /\ UNCHANGED <<seed, list, flight, strays, recent, log>>

-----------------------------------------------------------------------------
(* Transmitting: send_packet(), from update() or from send_packet_blocking(). *)

\* Mutant: attempts is not counted.
ListResultUncounted(d, e, ok) ==
  /\ list' = [list EXCEPT ![d] = IF ok THEN @ \ {e} ELSE @]
  /\ status' = IF ok THEN [status EXCEPT ![e.pkt.msg] = "confirmed"] ELSE status
  /\ UNCHANGED call

\* What the sender makes of the result of send_packet().  The entry of the list
\* leaves it when acknowledged or when its attempts are over.
ListResult(d, e, ok) ==
  LET over == ok \/ e.attempts + 1 > MaxAttempts
      next == [pkt |-> e.pkt, attempts |-> e.attempts + 1]
  IN  /\ list' = [list EXCEPT ![d] = (@ \ {e}) \cup IF over THEN {} ELSE {next}]
      /\ status' = IF over
           THEN [status EXCEPT ![e.pkt.msg] = IF ok THEN "confirmed" ELSE "lost"]
           ELSE status
      /\ UNCHANGED call

\* The blocking call returns: acknowledged, out of attempts or out of time.
CallEnds(d, ok) ==
  /\ call' = [call EXCEPT ![d] = NoCall]
  /\ status' = [status EXCEPT ![call[d].msg] = IF ok THEN "confirmed" ELSE "lost"]

\* It goes on with its next attempt.
CallGoesOn(d, ok) ==
  /\ ~ok /\ call[d].attempts < MaxAttempts
  /\ call' = [call EXCEPT ![d] = [msg |-> call[d].msg, attempts |-> call[d].attempts + 1]]
  /\ UNCHANGED status

CallResult(d, ok) == (CallEnds(d, ok) \/ CallGoesOn(d, ok)) /\ UNCHANGED list

Result(d, via, p, ok) ==
  IF via = "list"
  THEN \E e \in list[d] : e.pkt = p /\ ListResult(d, e, ok)
  ELSE CallResult(d, ok)

\* The packets send_packet() may be given now: one of the list, or the one the
\* blocking call has just composed.
ToTransmit(d) ==
  IF call[d] = NoCall THEN {<<"list", e.pkt>> : e \in list[d]}
  ELSE {<<"call", Composed(d, call[d].msg)>>}

DrawIdForCall(d) == IF call[d] = NoCall THEN UNCHANGED seed ELSE DrawId(d)

\* can_start() refuses: the attempt is spent.
FindBusy(d) ==
  /\ flight[d] = NoFlight
  /\ \E tp \in ToTransmit(d) : Result(d, tp[1], tp[2], FALSE)
  /\ DrawIdForCall(d)
  /\ UNCHANGED <<flight, strays, recent, log>>

\* The frame goes out and the sender waits for the answer.
Transmit(d) ==
  /\ flight[d] = NoFlight
  /\ \E tp \in ToTransmit(d) :
       flight' = [flight EXCEPT ![d] = [phase |-> "sent", via |-> tp[1], pkt |-> tp[2]]]
  /\ DrawIdForCall(d)
  /\ UNCHANGED <<list, call, strays, recent, log, status>>

\* receive_response() returns PJON_ACK; a packet that asks for no
\* acknowledgement succeeds as soon as it is sent.
Succeed(d) ==
  LET f == flight[d]
  IN  /\ f # NoFlight
      /\ f.phase = "acked" \/ f.pkt.msg \notin Acked
      /\ Result(d, f.via, f.pkt, TRUE)
      /\ flight' = [flight EXCEPT ![d] = NoFlight]
      /\ strays' = IF Late \/ f.phase = "sent" THEN strays \cup {f.pkt} ELSE strays
      /\ UNCHANGED <<seed, recent, log>>

\* receive_response() times out.
TimeOut(d) ==
  LET f == flight[d]
  IN  /\ f # NoFlight /\ f.pkt.msg \in Acked
      /\ f.phase = "silent" \/ (Late /\ f.phase # "none")
      /\ Result(d, f.via, f.pkt, FALSE)
      /\ flight' = [flight EXCEPT ![d] = NoFlight]
      /\ strays' = IF Late THEN strays \cup {f.pkt} ELSE strays
      /\ UNCHANGED <<seed, recent, log>>

\* The frame is lost, or received corrupted; the answer is.
Lose(d) ==
  /\ flight[d] # NoFlight /\ flight[d].phase \in {"sent", "acked"}
  /\ flight' = [flight EXCEPT ![d] = Moved(flight[d], "silent")]
  /\ UNCHANGED <<seed, list, call, strays, recent, log, status>>

-----------------------------------------------------------------------------
(* Receiving. *)

\* Mutant: the sender is not compared.
SameSenderAlways(a, b) == TRUE

SameSender(a, b) ==
  /\ a.id = b.id
  /\ \/ a.shared /\ b.shared /\ a.bus = b.bus
     \/ ~a.shared /\ ~b.shared

\* Mutant: the last record is not looked at.
KnownButLast(p) == \E k \in 1 .. Window - 1 :
                     /\ recent[k].id = p.id
                     /\ SameSender(recent[k].from, Identity[p.from])

\* known_packet_id(): the id and the sender are on record.
Known(p) == \E k \in 1 .. Window :
              /\ recent[k].id = p.id
              /\ SameSender(recent[k].from, Identity[p.from])

\* Mutant: the loop that shifts the records starts one too high.
SavePastEnd(p) == recent' = [k \in 1 .. Window + 1 |->
                               IF k = 1 THEN [id |-> p.id, from |-> Identity[p.from]]
                               ELSE recent[k - 1]]

\* save_packet_id(): the newest record comes first, the oldest is forgotten.
Save(p) == recent' = [k \in 1 .. Window |->
                        IF k = 1 THEN [id |-> p.id, from |-> Identity[p.from]]
                        ELSE recent[k - 1]]

\* receive(), after the acknowledgement.
Accept(p) ==
  IF PacketIds /\ Known(p) THEN UNCHANGED <<recent, log>>
  ELSE /\ log' = Append(log, p)
       /\ IF PacketIds THEN Save(p) ELSE UNCHANGED recent

Receive(d) ==
  LET f == flight[d]
  IN  /\ f # NoFlight /\ f.phase = "sent"
      /\ Accept(f.pkt)
      /\ flight' = [flight EXCEPT ![d] =
                      Moved(f, IF f.pkt.msg \in Acked THEN "acked" ELSE "silent")]
      /\ UNCHANGED <<seed, list, call, strays, status>>

\* A late frame: nobody waits for its acknowledgement any more.
ReceiveStray(p) ==
  /\ Len(log) < MaxLog
  /\ Accept(p)
  /\ UNCHANGED <<seed, list, call, flight, status>>
  /\ IF Late THEN UNCHANGED strays ELSE strays' = strays \ {p}

LoseStray(p) ==
  /\ strays' = strays \ {p}
  /\ UNCHANGED <<seed, list, call, flight, recent, log, status>>

Calls(d)     == \E m \in Msgs : Send(d, m) \/ BeginCall(d, m)
Transmits(d) == FindBusy(d) \/ Transmit(d) \/ Succeed(d) \/ TimeOut(d)
Medium(d)    == Lose(d) \/ Receive(d)

Next ==
  \/ \E d \in Senders : Calls(d) \/ Transmits(d) \/ Medium(d)
  \/ \E p \in strays : ReceiveStray(p) \/ LoseStray(p)

Spec == Init /\ [][Next]_vars

\* A sender goes on with update() or with its call, and receive_response()
\* always returns; what is on the medium arrives or is lost.  Nothing makes the
\* medium deliver.
FairSpec == Spec /\ \A d \in Senders : WF_vars(Transmits(d)) /\ WF_vars(Medium(d))

-----------------------------------------------------------------------------
(* Properties. *)

TypeOK ==
  /\ seed \in [Senders -> Ids]
  /\ list \in [Senders -> SUBSET Entry]
  /\ call \in [Senders -> Call \cup {NoCall}]
  /\ flight \in [Senders -> Flight \cup {NoFlight}]
  /\ strays \subseteq Packet
  /\ recent \in [1 .. Window -> Record]
  /\ log \in Seq(Packet)
  /\ status \in [Msgs -> {"new", "pending", "confirmed", "lost"}]

\* The messages whose port the recipient serves, and the number of times its
\* receiver function was given one.
Served    == Msgs \ OtherPort
Copies(m) == Cardinality({k \in DOMAIN log : log[k].msg = m})

\* receive() hands a message over at most once, whatever frames and answers are
\* lost and however often the sender repeats itself.
AtMostOnce == \A m \in Served : Copies(m) <= 1

SameKey(p, q) == p.id = q.id /\ SameSender(Identity[p.from], Identity[q.from])

\* What the table of recent ids does promise, on any medium and whatever the
\* senders do: two packets with one id of one sender are both handed over only
\* if at least Window others were in between.
DuplicatesFarApart ==
  PacketIds =>
    \A j, k \in DOMAIN log : (j < k /\ SameKey(log[j], log[k])) => k - j > Window

\* The link implements acknowledged at-most-once delivery.
Abstract ==
  INSTANCE PJONDelivery WITH
    Msgs   <- Served,
    Acked  <- Served \cap Acked,
    status <- [m \in Served |-> status[m]],
    copies <- [m \in Served |-> Copies(m)]
Delivery == Abstract!Spec

\* Every message a sender took is confirmed or reported lost.
EveryMessageIsDecided ==
  \A m \in Msgs : status[m] = "pending" ~> status[m] \in {"confirmed", "lost"}
=============================================================================
