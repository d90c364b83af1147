------------------------ MODULE PJONVirtualBus_proofs ------------------------
(***************************************************************************)
(* What holds of PJONVirtualBus for every number of devices and parts,     *)
(* every list size, and any number of moves and losses.                    *)
(***************************************************************************)
EXTENDS PJONVirtualBus, FiniteSetTheorems, TLAPS

\* Where devices are, and where the router takes them to be.
PlacesInv ==
  /\ part \in [Devices -> Parts]
  /\ device_via_attached_bus \in [Devices -> Parts \cup {NotAssigned}]
  /\ faults \in Nat

LEMMA LostType ==
  ASSUME PlacesInv, NEW p, NEW to
  PROVE  /\ Lost(p, to) \in [Devices -> Parts \cup {NotAssigned}]
         /\ \A d \in Devices : Lost(p, to)[d] \in {reg[d], NotAssigned}
         /\ \A d \in Devices : (d # to \/ reg[d] # p) => Lost(p, to)[d] = reg[d]
BY DEF Lost, PlacesInv, reg

LEMMA RegisteredType ==
  ASSUME PlacesInv, NEW d \in Devices, NEW p \in Parts
  PROVE  /\ Registered(d, p) \in [Devices -> Parts \cup {NotAssigned}]
         /\ Registered(d, p)[d] = p
         /\ \A e \in Devices : e # d => Registered(d, p)[e] = reg[e]
BY DEF Registered, PlacesInv, reg

\* What an update() leaves of the positions.
LEMMA UpdateKeeps ==
  ASSUME PlacesInv, NEW p \in Parts, NEW i \in 1..Slots, Update(p, i)
  PROVE  /\ UNCHANGED <<part, strayed, last>> /\ PlacesInv'
         /\ \A d \in Devices : reg'[d] \in {reg[d], NotAssigned}
         /\ faults' = faults => \A d \in Devices : reg[d] = part[d] => reg'[d] = reg[d]
<1> DEFINE to == packets[p][i].to
<1>1. UNCHANGED <<part, strayed, last>> BY DEF Update
<1>2. faults' = faults \/ (faults' = faults + 1 /\ to \in Devices)
  BY DEF Update, Fault
<1>3. \/ reg' = reg
      \/ reg' = Lost(p, to) /\ (faults' = faults => ~(to \in Devices /\ part[to] = p))
  <2>1. faults \in Nat BY DEF PlacesInv
  <2> QED BY <2>1 DEF Update, Fault, reg
<1>4. faults' \in Nat BY <1>2 DEF PlacesInv
<1>5. PlacesInv' BY <1>1, <1>3, <1>4, LostType DEF PlacesInv, reg
<1>6. \A d \in Devices : reg'[d] \in {reg[d], NotAssigned} BY <1>3, LostType
<1>7. ASSUME faults' = faults, NEW d \in Devices, reg[d] = part[d] PROVE reg'[d] = reg[d]
  BY <1>3, <1>7, LostType
<1> QED BY <1>1, <1>5, <1>6, <1>7

\* What a transmission on its part leaves of them.
LEMMA TransmitKeeps ==
  ASSUME PlacesInv, NEW d \in Devices, NEW to \in Targets, NEW ack \in BOOLEAN, Transmit(d, to, ack)
  PROVE  /\ UNCHANGED part /\ PlacesInv'
         /\ \/ UNCHANGED <<reg, strayed>>
            \/ reg' = Registered(d, part[d]) /\ strayed' = strayed \ {d}
<1>1. UNCHANGED part /\ (faults' = faults \/ faults' = faults + 1) BY DEF Transmit, Fault
<1>2. \/ UNCHANGED <<reg, strayed>>
      \/ reg' = Registered(d, part[d]) /\ strayed' = strayed \ {d}
  BY DEF Transmit, Route, reg
<1>3. part[d] \in Parts BY DEF PlacesInv
<1>4. reg' \in [Devices -> Parts \cup {NotAssigned}]
  BY <1>2, <1>3, RegisteredType DEF PlacesInv, reg
<1> QED BY <1>1, <1>2, <1>4 DEF PlacesInv, reg

LEMMA MoveKeeps ==
  ASSUME PlacesInv, NEW d \in Devices, NEW p \in Parts, Move(d, p)
  PROVE  /\ PlacesInv' /\ UNCHANGED <<reg, last, faults>> /\ strayed' = strayed \cup {d}
         /\ \A e \in Devices : e # d => part'[e] = part[e]
         /\ part' # part
BY DEF Move, PlacesInv, reg

-----------------------------------------------------------------------------
(* Where the router takes a device to be. *)

KnownInv == PlacesInv /\ KnownWhereItIs

LEMMA KnownInvInit == Init => KnownInv
BY VirtualBusAssumption DEF Init, KnownInv, PlacesInv, KnownWhereItIs, reg

LEMMA KnownInvNext == KnownInv /\ [Next]_vars => KnownInv'
<1> SUFFICES ASSUME KnownInv, [Next]_vars PROVE KnownInv' OBVIOUS
<1> USE DEF KnownInv
<1>1. ASSUME NEW d \in Devices, NEW to \in Targets, NEW ack \in BOOLEAN, Transmit(d, to, ack)
      PROVE  KnownInv'
  <2>1. /\ UNCHANGED part /\ PlacesInv'
        /\ \/ UNCHANGED <<reg, strayed>>
           \/ reg' = Registered(d, part[d]) /\ strayed' = strayed \ {d}
    BY <1>1, TransmitKeeps
  <2>2. part[d] \in Parts BY DEF PlacesInv
  <2>3. CASE UNCHANGED <<reg, strayed>> BY <2>1, <2>3 DEF KnownWhereItIs
  <2>4. CASE reg' = Registered(d, part[d]) /\ strayed' = strayed \ {d}
    BY <2>1, <2>2, <2>4, RegisteredType DEF KnownWhereItIs
  <2> QED BY <2>1, <2>3, <2>4
<1>2. ASSUME NEW p \in Parts, NEW i \in 1..Slots, Update(p, i) PROVE KnownInv'
  BY <1>2, UpdateKeeps DEF KnownWhereItIs
<1>3. ASSUME NEW d \in Devices, NEW p \in Parts, Move(d, p) PROVE KnownInv'
  BY <1>3, MoveKeeps DEF KnownWhereItIs
<1>4. CASE UNCHANGED vars BY <1>4 DEF vars, KnownWhereItIs, PlacesInv, reg
<1> QED BY <1>1, <1>2, <1>3, <1>4 DEF Next

\* The router never takes a device it has heard since its last move to be on a part
\* it is not on.
THEOREM KnownWhereItIsHolds == Spec => []KnownWhereItIs
<1>1. KnownInv => KnownWhereItIs BY DEF KnownInv
<1> QED BY <1>1, KnownInvInit, KnownInvNext, PTL DEF Spec

-----------------------------------------------------------------------------
(* Who answers. *)

\* A set of one element at most.
LEMMA OneAtMost ==
  ASSUME NEW S, NEW x, S = {} \/ S = {x}
  PROVE  Cardinality(S) <= 1
<1>1. CASE S = {}
  <2>1. Cardinality(S) = 0 BY <1>1, FS_EmptySet, Zenon
  <2> QED BY <2>1
<1>2. CASE S = {x}
  <2>1. Cardinality(S) = 1 BY <1>2, FS_Singleton, Zenon
  <2> QED BY <2>1
<1> QED BY <1>1, <1>2

\* The device that answers for itself and the router exclude each other.
LEMMA RouteAnswers ==
  ASSUME KnownInv, NEW d \in Devices, NEW to, NEW ack \in BOOLEAN, Route(part[d], d, to, ack),
         to \notin strayed'
  PROVE  Cardinality(last'.answers) <= 1
<1> DEFINE p     == part[d]
           at    == Located(Registered(d, p), to)
           parts == Recipients(p, at)
           self  == ack /\ to \in Devices /\ part[to] = p
           other == CopiesAsk(at # NotAssigned, ack /\ to # Broadcast) /\ parts # {}
<1>1. last'.answers = (IF self THEN {to} ELSE {}) \cup (IF other THEN {NotAssigned} ELSE {})
  BY DEF Route, Transmission
<1>2. p \in Parts BY DEF KnownInv, PlacesInv
<1>3. ASSUME self PROVE ~other
  <2>1. strayed' = strayed \ {d} BY DEF Route
  <2>2. Registered(d, p)[to] \in {p, NotAssigned}
    <3>1. CASE to = d BY <1>2, <1>3, <3>1, RegisteredType DEF KnownInv
    <3>2. CASE to # d
      <4>1. to \notin strayed BY <2>1, <3>2
      <4> QED BY <1>2, <1>3, <3>2, <4>1, RegisteredType DEF KnownInv, KnownWhereItIs
    <3> QED BY <3>1, <3>2
  <2>3. at \in {p, NotAssigned} BY <1>3, <2>2 DEF Located
  <2> QED BY <2>3 DEF CopiesAsk, Recipients
<1>4. last'.answers = {} \/ last'.answers = {to} \/ last'.answers = {NotAssigned}
  <2>1. CASE self
    <3>1. self /\ ~other BY <1>3, <2>1
    <3> HIDE DEF self, other
    <3>2. last'.answers = {to} BY <1>1, <3>1
    <3> QED BY <3>2
  <2>2. CASE ~self /\ other
    <3>1. ~self /\ other BY <2>2
    <3> HIDE DEF self, other
    <3>2. last'.answers = {NotAssigned} BY <1>1, <3>1
    <3> QED BY <3>2
  <2>3. CASE ~self /\ ~other
    <3>1. ~self /\ ~other BY <2>3
    <3> HIDE DEF self, other
    <3>2. last'.answers = {} BY <1>1, <3>1
    <3> QED BY <3>2
  <2> QED BY <2>1, <2>2, <2>3
<1> QED BY <1>4, OneAtMost

LEMMA AnsweredNext == KnownInv /\ AnsweredOnce /\ [Next]_vars => AnsweredOnce'
<1> SUFFICES ASSUME KnownInv, AnsweredOnce, [Next]_vars PROVE AnsweredOnce' OBVIOUS
<1>1. ASSUME NEW d \in Devices, NEW to \in Targets, NEW ack \in BOOLEAN, Transmit(d, to, ack)
      PROVE  AnsweredOnce'
  <2>1. CASE Route(part[d], d, to, ack)
    <3>1. last'.to = to BY <2>1 DEF Route, Transmission
    <3>2. to \notin strayed' => Cardinality(last'.answers) <= 1 BY <2>1, RouteAnswers
    <3> QED BY <3>1, <3>2, Zenon DEF AnsweredOnce
  <2>2. CASE ~Route(part[d], d, to, ack)
    <3>1. last'.answers = {} \/ last'.answers = {NotAssigned} \/ last'.answers = {to}
      BY <1>1, <2>2 DEF Transmit, Transmission
    <3>2. Cardinality(last'.answers) <= 1 BY <3>1, OneAtMost
    <3> QED BY <3>2, Zenon DEF AnsweredOnce
  <2> QED BY <2>1, <2>2
<1>2. ASSUME NEW p \in Parts, NEW i \in 1..Slots, Update(p, i) PROVE AnsweredOnce'
  BY <1>2, UpdateKeeps DEF AnsweredOnce, KnownInv
<1>3. ASSUME NEW d \in Devices, NEW p \in Parts, Move(d, p) PROVE AnsweredOnce'
  BY <1>3, MoveKeeps DEF AnsweredOnce, KnownInv
<1>4. CASE UNCHANGED vars BY <1>4 DEF vars, AnsweredOnce
<1> QED BY <1>1, <1>2, <1>3, <1>4 DEF Next

\* No packet is answered twice, by the router and by its receiver, unless the
\* receiver has moved without being heard: the request goes with a copy only to the
\* part the receiver is known on.
THEOREM AnsweredOnceHolds == Spec => []AnsweredOnce
<1>1. Init => AnsweredOnce BY FS_EmptySet DEF Init, AnsweredOnce, Transmission
<1> QED BY <1>1, KnownInvInit, KnownInvNext, AnsweredNext, PTL DEF Spec

==============================================================================
