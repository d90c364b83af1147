---------------------------- MODULE PJONVirtualBus ----------------------------
(***************************************************************************)
(* The virtual bus: a router whose attached buses carry one bus id, so     *)
(* that a device may be on any of them and move from one to another.  The  *)
(* router (PJONVirtualBusRouter over PJONSwitch, with the callbacks of     *)
(* PJONInteractiveRouter around it) learns where devices are from what     *)
(* they send.                                                              *)
(*                                                                         *)
(* A packet for a device whose part is known is forwarded there and        *)
(* acknowledged by the router; one for a device that is not known is       *)
(* copied to all other parts, asks for no acknowledgement there and gets   *)
(* none from the router.  A copy that is lost where the device is          *)
(* registered ends the registration.                                       *)
(*                                                                         *)
(* Every packet comes from the virtual bus and is for it; there is no      *)
(* default gateway.                                                        *)
(***************************************************************************)
EXTENDS Integers, FiniteSets

CONSTANTS
  Devices,    \* device ids, positive numbers
  Parts,      \* the attached buses, all of them parts of the virtual bus
  Home,       \* Home[d]: the part d is on at first
  Own,        \* Own[p]: the id of the router on part p, NotAssigned for none
  Slots,      \* PJON_MAX_PACKETS of each attached bus
  MaxTries,   \* get_max_attempts() of its strategy
  Talkers,    \* the devices that never stop sending to the others
  MaxMoves,   \* bound on the moves
  MaxFaults   \* bound on what is lost on a part

Broadcast   == 0    \* PJON_BROADCAST
NotAssigned == 255  \* PJON_NOT_ASSIGNED

ASSUME VirtualBusAssumption ==
  /\ Devices \subseteq Nat \ {Broadcast, NotAssigned}
  /\ NotAssigned \notin Parts /\ IsFiniteSet(Parts)
  /\ Home \in [Devices -> Parts] /\ Talkers \subseteq Devices
  /\ Own \in [Parts -> Nat] /\ \A p \in Parts : Own[p] \notin Devices
  /\ Slots \in Nat /\ MaxTries \in Nat /\ MaxMoves \in Nat /\ MaxFaults \in Nat

VARIABLES
  part,       \* where each device is
  device_via_attached_bus,
  packets,    \* packets[p]: the list of attached bus p, a copy or Free in each slot
  strayed,    \* history: devices that have moved and not been heard by the router since
  last,       \* history: the last transmission of a device and what became of it
  arrived,    \* history: the device the last step delivered a packet to
  moves, faults

reg  == device_via_attached_bus
vars == <<part, device_via_attached_bus, packets, strayed, last, arrived, moves, faults>>

Nowhere == 0
Copy(to, ack) == [to |-> to, ack |-> ack, tries |-> 0]
Free          == Copy(Nowhere, FALSE)

\* A transmission, who answered it, and the parts that got a copy.
Transmission(from, to, ack, answers, parts) ==
  [from |-> from, to |-> to, ack |-> ack, answers |-> answers, parts |-> parts]

Init ==
  /\ part = Home
  /\ device_via_attached_bus = [d \in Devices |-> NotAssigned]
  /\ packets = [p \in Parts |-> [i \in 1..Slots |-> Free]]
  /\ strayed = {} /\ last = Transmission(Nowhere, Nowhere, FALSE, {}, {})
  /\ arrived = Nowhere /\ moves = 0 /\ faults = 0

Fault == faults < MaxFaults /\ faults' = faults + 1

-----------------------------------------------------------------------------
(* The router. *)

\* Mutant: a device stays registered where it was heard first.
RegisteredOnce(d, p) == IF reg[d] = NotAssigned THEN [reg EXCEPT ![d] = p] ELSE reg

\* find_vbus_with_device(), after the sender was registered with its part.
Registered(d, p) == [reg EXCEPT ![d] = p]
Located(r, to)   == IF to \in Devices THEN r[to] ELSE NotAssigned

\* Mutant: copies for a device whose part is not known keep their request.
CopiesAskAll(known, ack) == ack

\* send_packet(): the request for an acknowledgement goes with the packet only to
\* the part the receiver is known on.
CopiesAsk(known, ack) == known /\ ack

\* The parts that get a copy: the one the receiver is on, or all others.
Recipients(p, at) == IF at = NotAssigned THEN Parts \ {p} ELSE {at} \ {p}

\* forward(): the copy takes the first free slot of each of them that has one.
FirstFree(list) == CHOOSE i \in DOMAIN list : list[i] = Free /\ \A j \in 1..i - 1 : list[j] # Free
Forwarded(ps, c) ==
  [q \in Parts |->
     IF q \in ps /\ \E i \in 1..Slots : packets[q][i] = Free
     THEN [packets[q] EXCEPT ![FirstFree(packets[q])] = c] ELSE packets[q]]

\* dynamic_receiver_function(): register the sender, find the receiver, forward;
\* the router answers when it forwards with the request.
Route(p, from, to, ack) ==
  LET r     == Registered(from, p)
      at    == Located(r, to)
      parts == Recipients(p, at)
      asks  == CopiesAsk(at # NotAssigned, ack /\ to # Broadcast)
  IN  /\ device_via_attached_bus' = r
      /\ packets' = Forwarded(parts, Copy(to, asks))
      /\ strayed' = strayed \ {from}
      /\ last' = Transmission(from, to, ack,
           (IF ack /\ to \in Devices /\ part[to] = p THEN {to} ELSE {}) \cup
           (IF asks /\ parts # {} THEN {NotAssigned} ELSE {}), parts)

\* PJONInteractiveRouter: what is for the router itself on that part is answered
\* and handed to the application, and not routed.
ForRouter(p, to) == Own[p] # NotAssigned /\ Own[p] = to

\* A device transmits on its part; a receiver on the same part gets it directly.
\* The router may miss it.
Transmit(d, to, ack) ==
  LET p == part[d] IN
  /\ to # d /\ (to = Broadcast => ~ack)
  /\ arrived' = IF to \in Devices /\ part[to] = p THEN to ELSE Nowhere
  /\ \/ ForRouter(p, to) /\ UNCHANGED <<device_via_attached_bus, packets, strayed, faults>>
        /\ last' = Transmission(d, to, ack, IF ack THEN {NotAssigned} ELSE {}, {})
     \/ ~ForRouter(p, to) /\ Route(p, d, to, ack) /\ UNCHANGED faults
     \/ /\ Fault /\ UNCHANGED <<device_via_attached_bus, packets, strayed>>
        /\ last' = Transmission(d, to, ack, IF ack /\ to \in Devices /\ part[to] = p THEN {to} ELSE {}, {})
  /\ UNCHANGED <<part, moves>>

\* Mutant: a loss on any part ends the registration.
LostAnywhere(p, to) == IF to \in Devices THEN [reg EXCEPT ![to] = NotAssigned] ELSE reg

\* Mutant: no loss ends the registration.
LostNever(p, to) == reg

\* handle_send_error() for PJON_CONNECTION_LOST.
Lost(p, to) ==
  IF to \in Devices /\ reg[to] = p THEN [reg EXCEPT ![to] = NotAssigned] ELSE reg

\* update() of attached bus p transmits the copy in slot i: once if it asks for no
\* acknowledgement, else until the device answers or the attempts are over.
Update(p, i) ==
  LET c     == packets[p][i]
      there == c.to \in Devices /\ part[c.to] = p
  IN  /\ c # Free
      /\ \/ /\ there \/ ~c.ack
            /\ arrived' = IF there THEN c.to ELSE Nowhere
            /\ packets' = [packets EXCEPT ![p][i] = Free]
            /\ UNCHANGED <<device_via_attached_bus, faults>>
         \/ /\ c.ack /\ (IF there THEN Fault ELSE UNCHANGED faults)
            /\ arrived' = Nowhere
            /\ IF c.tries < MaxTries
               THEN packets' = [packets EXCEPT ![p][i].tries = @ + 1] /\ UNCHANGED device_via_attached_bus
               ELSE packets' = [packets EXCEPT ![p][i] = Free] /\ device_via_attached_bus' = Lost(p, c.to)
      /\ UNCHANGED <<part, strayed, last, moves>>

Move(d, p) ==
  /\ p # part[d] /\ moves < MaxMoves
  /\ part' = [part EXCEPT ![d] = p]
  /\ strayed' = strayed \cup {d} /\ moves' = moves + 1 /\ arrived' = Nowhere
  /\ UNCHANGED <<device_via_attached_bus, packets, last, faults>>

Targets == Devices \cup {Broadcast} \cup ({Own[p] : p \in Parts} \ {NotAssigned})

Next ==
  \/ \E d \in Devices, to \in Targets, ack \in BOOLEAN : Transmit(d, to, ack)
  \/ \E p \in Parts, i \in 1..Slots : Update(p, i)
  \/ \E d \in Devices, p \in Parts : Move(d, p)

Spec == Init /\ [][Next]_vars

Idle == \A p \in Parts, i \in 1..Slots : packets[p][i] = Free

\* The router calls loop() forever, and the Talkers go on sending to each other
\* device, at times when nothing else is being forwarded too.
FairSpec ==
  /\ Spec
  /\ \A p \in Parts, i \in 1..Slots : WF_vars(Update(p, i))
  /\ \A d \in Talkers : \A e \in Devices \ {d} : SF_vars(Idle /\ Transmit(d, e, TRUE))

-----------------------------------------------------------------------------
(* Properties. *)

\* The router takes no device to be on another part than the one it is on, once it
\* has heard it there.
KnownWhereItIs == \A d \in Devices \ strayed : reg[d] \in {part[d], NotAssigned}

\* A device that is where it is registered stays so until what it is sent is lost
\* there: copies still queued for a part it was on before change nothing.
StaysRegistered ==
  [][\A d \in Devices : (reg[d] = part[d] /\ part' = part /\ faults' = faults) => reg'[d] = reg[d]]_vars

\* A packet is answered once at most: by its receiver, or by the router for a
\* receiver that is elsewhere.  Only one that has moved without being heard may be
\* answered for while it answers itself.
AnsweredOnce == last.to \notin strayed => Cardinality(last.answers) <= 1

\* Wherever a device moves, and though it never sends, what another sends to it
\* arrives again.  This excepts lists of the router that are never empty, since what
\* comes in then may always find them full, and a device that has left the part its
\* sender is on: no copy is made of what is for that part, so none is lost there, and
\* the time-out of PJONVirtualBusRouter.h:60-63 is not compiled in.
LeftBehind(d, t) == reg[d] = part[t] /\ part[d] # part[t]
MovedIsReached ==
  []<>Idle => \A d \in Devices : \A t \in Talkers \ {d} :
                <>[]~LeftBehind(d, t) => []<>(arrived = d)
=============================================================================
