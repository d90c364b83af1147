---------------------------- MODULE PJONSendList ----------------------------
(***************************************************************************)
(* The send list of one PJON instance: the packets[] array of PJON.h, the  *)
(* calls that fill and empty it (dispatch, remove, remove_all_packets) and *)
(* update(), which transmits what is due, counts attempts, reports lost    *)
(* connections through the error handler and frees or reschedules slots.   *)
(*                                                                         *)
(* The program is single-threaded: the application runs between two calls  *)
(* of update(), and the error handler runs inside one.  update() is split  *)
(* at every slot it visits, because time passes and the handler may call   *)
(* back into the list there.  The strategy is seen through what            *)
(* send_packet() returns.  A registration time is kept as its age (the     *)
(* unsigned difference PJON_MICROS() - registration that update() takes),  *)
(* and stops growing at Horizon, past which every packet is due.           *)
(***************************************************************************)
EXTENDS Integers, FiniteSets

CONSTANTS
  MaxPackets,       \* PJON_MAX_PACKETS, the number of slots
  MaxAttempts,      \* strategy.get_max_attempts()
  AttemptMod,       \* 2^8 in the code: attempts is a uint8_t
  BackOff,          \* strategy.back_off, indexed by the number of attempts
  Horizon,          \* an age past every due time
  Contents,         \* the composed packets the application may send
  Broadcast,        \* the device id 0
  RxOf,             \* content[0], the recipient of a composed packet
  AckRequested,     \* the contents whose header asks for an acknowledgement
  Timings,          \* the intervals dispatch is given, 0 for a single delivery
  Simplex,          \* the communication mode is PJON_SIMPLEX
  AutoDeleteModes,  \* the values the application gives to _auto_delete
  AppOps,           \* what the application calls between two updates
  HandlerOps        \* what the error handler calls on a lost connection

Slots    == 0 .. MaxPackets - 1
Attempts == 0 .. AttemptMod - 1
Ops      == {"send", "replace", "remove", "remove_all"}

ASSUME SizesAssumption ==
  /\ MaxPackets \in Nat \ {0}
  /\ AttemptMod \in Nat
  /\ MaxAttempts \in Nat
  /\ MaxAttempts + 1 < AttemptMod
  /\ Horizon \in Nat

ASSUME TimesAssumption ==
  /\ BackOff \in [Attempts -> Nat]
  /\ Timings \subseteq Nat
  /\ \A t \in Timings, a \in Attempts : t + BackOff[a] < Horizon

ASSUME ContentsAssumption ==
  /\ Contents # {}
  /\ AckRequested \subseteq Contents

ASSUME UseAssumption ==
  /\ Simplex \in BOOLEAN
  /\ AutoDeleteModes \subseteq BOOLEAN /\ AutoDeleteModes # {}
  /\ AppOps \subseteq Ops
  /\ HandlerOps \subseteq Ops

PJON_ACK        == 6
PJON_TO_BE_SENT == 74
PJON_BUSY       == 666
PJON_FAIL       == 65535
FREE            == 0
States          == {FREE, PJON_ACK, PJON_TO_BE_SENT, PJON_BUSY, PJON_FAIL}

VARIABLES
  packets,     \* the slots of the list
  auto_delete, \* _auto_delete
  pc,          \* "idle": the application runs; "loop": update() is about to
               \* visit slot index; "lost": the error handler runs for it
  index,       \* update()'s i
  count,       \* update()'s packets_count
  hist         \* history, per slot, of the packet it holds (not in the code):
               \* its transmissions since it was last scheduled, the attempts
               \* of the packet it was put over, and whether it was acknowledged

vars == <<packets, auto_delete, pc, index, count, hist>>

\* struct PJON_Packet.  A length of 1 stands for any composed length.
Packet == [state: States, attempts: Attempts, timing: Timings \cup {0},
           age: 0 .. Horizon, length: {0, 1}, content: Contents]

History == [tries: Attempts, inherited: Attempts, acked: BOOLEAN]
Fresh   == [tries |-> 0, inherited |-> 0, acked |-> FALSE]

\* Nothing is scheduled; what a free slot holds besides is never read.
Init ==
  /\ packets = [i \in Slots |->
                   [state |-> FREE, attempts |-> 0, timing |-> 0, age |-> 0,
                    length |-> 0, content |-> CHOOSE c \in Contents : TRUE]]
  /\ auto_delete \in AutoDeleteModes
  /\ pc = "idle" /\ index = 0 /\ count = 0
  /\ hist = [i \in Slots |-> Fresh]

-----------------------------------------------------------------------------
(* Single slots: what the calls make of a packet. *)

Busy(i)  == packets[i].state # FREE
Due(p)   == p.age > p.timing + BackOff[p.attempts]

\* Mutant: the attempts are not reset.
RemovedKeepsAttempts(p) == [p EXCEPT !.state = FREE, !.length = 0, !.age = 0]

\* Mutant: delivered packets are transmitted again.
UndeliveredOrNot(p) == p.state # FREE

\* What update() transmits when it is due.
Undelivered(p) == p.state # PJON_ACK

\* remove(): the interval and the content stay behind.
Removed(p) == [p EXCEPT !.state = FREE, !.attempts = 0, !.length = 0, !.age = 0]

\* The other branch of reset_packet(): the next delivery of a repeated packet.
Rescheduled(p) == [p EXCEPT !.state = PJON_TO_BE_SENT, !.attempts = 0, !.age = 0]

\* Mutant: automatic deletion takes repeated packets too.
ResetDeletesRepeated(p) ==
  IF auto_delete THEN Removed(p)
  ELSE IF p.timing # 0 THEN Rescheduled(p) ELSE p

\* reset_packet(): what it leaves in the slot, and whether it freed it.
Frees(p)       == p.timing = 0 /\ auto_delete
ResetPacket(p) == IF p.timing # 0 THEN Rescheduled(p)
                  ELSE IF auto_delete THEN Removed(p) ELSE p

\* What send_packet() may return for a composed packet.
Results(c) ==
  IF Simplex THEN {PJON_ACK}
  ELSE IF c \in AckRequested /\ RxOf[c] # Broadcast
       THEN {PJON_ACK, PJON_BUSY, PJON_FAIL}
       ELSE {PJON_ACK, PJON_BUSY}

\* Mutant: the attempt is not counted.
TransmittedUncounted(p, r) == [p EXCEPT !.state = r]

\* A packet after the transmission update() made, with its result.
Transmitted(p, r) ==
  [p EXCEPT !.state = r, !.attempts = (@ + 1) % AttemptMod]

\* History of a slot the library has just reset.
HistReset(p, h) == IF p.timing # 0 \/ auto_delete THEN Fresh ELSE h

-----------------------------------------------------------------------------
(* Calls of the application, and of the error handler when it runs. *)

Calls(op) == \/ pc = "idle" /\ op \in AppOps
             \/ pc = "lost" /\ op \in HandlerOps

\* The common part of the two forms of dispatch(): the packet goes to slot i.
\* The number of attempts the slot had counted is not reset.
Schedule(i, c, t) ==
  /\ packets' = [packets EXCEPT ![i] =
       [@ EXCEPT !.content = c, !.length = 1, !.state = PJON_TO_BE_SENT,
                 !.age = 0, !.timing = t]]
  /\ hist' = [hist EXCEPT ![i] =
       [tries |-> 0, acked |-> FALSE,
        inherited |-> IF Busy(i) THEN packets[i].attempts ELSE 0]]
  /\ UNCHANGED <<auto_delete, pc, index, count>>

\* send(), send_repeatedly(), reply(), forward(): dispatch() to the first free
\* slot.  With no free slot, or content too long, it changes nothing.
Dispatch(c, t) ==
  /\ Calls("send")
  /\ \E i \in Slots : /\ ~Busy(i)
                      /\ \A j \in Slots : j < i => Busy(j)
                      /\ Schedule(i, c, t)

\* dispatch() with a packet_index: whatever the slot holds is replaced.
DispatchAt(i, c, t) == Calls("replace") /\ Schedule(i, c, t)

Remove(i) ==
  /\ Calls("remove")
  /\ packets' = [packets EXCEPT ![i] = Removed(@)]
  /\ hist' = [hist EXCEPT ![i] = Fresh]
  /\ UNCHANGED <<auto_delete, pc, index, count>>

\* remove_all_packets(): those for one device, or all of them when d is 0.
RemoveAllPackets(d) ==
  LET Gone(i) == Busy(i) /\ (d = Broadcast \/ RxOf[packets[i].content] = d)
  IN  /\ Calls("remove_all")
      /\ packets' = [i \in Slots |-> IF Gone(i) THEN Removed(packets[i]) ELSE packets[i]]
      /\ hist' = [i \in Slots |-> IF Gone(i) THEN Fresh ELSE hist[i]]
      /\ UNCHANGED <<auto_delete, pc, index, count>>

SetPacketAutoDeletion(b) ==
  /\ pc = "idle"
  /\ auto_delete' = b
  /\ UNCHANGED <<packets, pc, index, count, hist>>

-----------------------------------------------------------------------------
(* update(), one step per slot. *)

\* Mutant: packets_count is not initialised.
BeginUpdateKeepsCount ==
  /\ pc = "idle"
  /\ pc' = "loop" /\ index' = 0
  /\ UNCHANGED <<packets, auto_delete, count, hist>>

BeginUpdate ==
  /\ pc = "idle"
  /\ pc' = "loop" /\ index' = 0 /\ count' = 0
  /\ UNCHANGED <<packets, auto_delete, hist>>

Visiting == pc = "loop" /\ index < MaxPackets

\* The slot is free.
SkipFree ==
  /\ Visiting /\ ~Busy(index)
  /\ index' = index + 1
  /\ UNCHANGED <<packets, auto_delete, pc, count, hist>>

\* The packet is counted, and it is not its time yet.
SkipEarly ==
  /\ Visiting /\ Busy(index) /\ ~Due(packets[index])
  /\ index' = index + 1 /\ count' = count + 1
  /\ UNCHANGED <<packets, auto_delete, pc, hist>>

\* A due packet is transmitted and acknowledged (or needs no acknowledgement).
TransmitOK ==
  LET p == Transmitted(packets[index], PJON_ACK)
      h == [hist[index] EXCEPT !.tries = (@ + 1) % AttemptMod, !.acked = TRUE]
  IN  /\ Visiting /\ Busy(index) /\ Due(packets[index])
      /\ Undelivered(packets[index])
      /\ PJON_ACK \in Results(packets[index].content)
      /\ packets' = [packets EXCEPT ![index] = ResetPacket(p)]
      /\ hist' = [hist EXCEPT ![index] = HistReset(p, h)]
      /\ index' = index + 1
      /\ count' = IF Frees(p) THEN count ELSE count + 1
      /\ UNCHANGED <<auto_delete, pc>>

\* The medium is busy or no acknowledgement came.  Past the last attempt the
\* error handler is called with the slot's index.
TransmitFails(r) ==
  LET p == Transmitted(packets[index], r)
  IN  /\ Visiting /\ Busy(index) /\ Due(packets[index])
      /\ Undelivered(packets[index])
      /\ r \in Results(packets[index].content) \ {PJON_ACK}
      /\ packets' = [packets EXCEPT ![index] = p]
      /\ hist' = [hist EXCEPT ![index].tries = (@ + 1) % AttemptMod]
      /\ count' = count + 1
      /\ IF p.attempts > MaxAttempts
         THEN pc' = "lost" /\ index' = index
         ELSE pc' = pc /\ index' = index + 1
      /\ UNCHANGED auto_delete

\* A delivered packet that automatic deletion left in the list.
VisitDelivered ==
  LET p == Transmitted(packets[index], PJON_ACK)
  IN  /\ Visiting /\ Busy(index) /\ Due(packets[index])
      /\ ~Undelivered(packets[index])
      /\ packets' = [packets EXCEPT ![index] = ResetPacket(p)]
      /\ hist' = [hist EXCEPT ![index] = HistReset(p, @)]
      /\ index' = index + 1
      /\ count' = IF Frees(p) THEN count ELSE count + 1
      /\ UNCHANGED <<auto_delete, pc>>

\* The error handler returns; the slot it was called for is reset, whatever
\* the handler did to it.
HandlerReturns ==
  LET p == packets[index]
  IN  /\ pc = "lost"
      /\ packets' = [packets EXCEPT ![index] = ResetPacket(p)]
      /\ hist' = [hist EXCEPT ![index] = HistReset(p, @)]
      /\ count' = IF Frees(p) THEN count - 1 ELSE count
      /\ pc' = "loop" /\ index' = index + 1
      /\ UNCHANGED auto_delete

\* update() returns count.
EndUpdate ==
  /\ pc = "loop" /\ index = MaxPackets
  /\ pc' = "idle" /\ index' = 0
  /\ UNCHANGED <<packets, auto_delete, count, hist>>

\* Time passes, in the application, in update() and in the strategy.
Tick ==
  /\ packets' = [i \in Slots |->
       IF Busy(i) /\ packets[i].age < Horizon
       THEN [packets[i] EXCEPT !.age = @ + 1] ELSE packets[i]]
  /\ UNCHANGED <<auto_delete, pc, index, count, hist>>

Application ==
  \/ \E c \in Contents, t \in Timings : Dispatch(c, t)
  \/ \E i \in Slots, c \in Contents, t \in Timings : DispatchAt(i, c, t)
  \/ \E i \in Slots : Remove(i)
  \/ \E d \in {Broadcast} \cup {RxOf[c] : c \in Contents} : RemoveAllPackets(d)
  \/ \E b \in AutoDeleteModes : SetPacketAutoDeletion(b)

Update ==
  \/ BeginUpdate \/ SkipFree \/ SkipEarly \/ TransmitOK
  \/ \E r \in {PJON_BUSY, PJON_FAIL} : TransmitFails(r)
  \/ VisitDelivered \/ HandlerReturns \/ EndUpdate

Next == Application \/ Update \/ Tick

Spec == Init /\ [][Next]_vars

\* The main loop calls update() forever and time passes; nothing is assumed of
\* the application's calls nor of the results of a transmission.
FairSpec == Spec /\ WF_vars(Update) /\ WF_vars(Tick)

-----------------------------------------------------------------------------
(* Properties. *)

TypeOK ==
  /\ packets \in [Slots -> Packet]
  /\ auto_delete \in AutoDeleteModes
  /\ pc \in {"idle", "loop", "lost"}
  /\ index \in 0 .. MaxPackets
  /\ pc = "lost" => index < MaxPackets
  /\ count \in 0 .. MaxPackets
  /\ hist \in [Slots -> History]

\* A delivered packet that stays in the list (manual deletion) is never sent
\* again: it keeps the state update() does not transmit in.
DeliveredStaysQuiet == \A i \in Slots : hist[i].acked => packets[i].state = PJON_ACK

\* A lost connection is reported only for a packet that was never acknowledged,
\* and not before the attempts the strategy allows were made.  A packet put over
\* another one (DispatchAt) is charged the attempts made with that one.
LostAfterAllAttempts ==
  [][pc = "loop" /\ pc' = "lost" =>
       /\ ~hist'[index].acked
       /\ hist'[index].tries + hist'[index].inherited >= MaxAttempts]_vars

\* update() never ends a repeated transmission: only the application does.
RepeatedIsKept ==
  [][\A i \in Slots : (Busy(i) /\ packets[i].timing # 0 /\ index' > index)
                        => packets'[i].state # FREE]_vars

\* A packet sent once leaves the list, delivered or reported as lost, and a
\* repeated one comes to the end of its round and starts the next.
EveryPacketLeaves ==
  \A i \in Slots :
    /\ (Busy(i) /\ packets[i].timing = 0) ~> ~Busy(i)
    /\ (Busy(i) /\ packets[i].timing # 0)
         ~> (~Busy(i) \/ (packets[i].age = 0 /\ packets[i].attempts = 0))
=============================================================================
