--------------------------- MODULE PJONLink_proofs ---------------------------
(***************************************************************************)
(* What holds of PJONLink for every number of senders and messages, every  *)
(* medium and every size of the table of recent ids.                       *)
(***************************************************************************)
EXTENDS PJONLink, FiniteSetTheorems, TLAPS

-----------------------------------------------------------------------------
(* Type correctness. *)

LEMMA NewPacketIdType == ASSUME NEW s \in Ids PROVE NewPacketId(s) \in Ids
BY NumbersAssumption DEF NewPacketId, Ids

LEMMA DrawIdType ==
  ASSUME TypeOK, NEW d \in Senders, DrawId(d)
  PROVE  seed' \in [Senders -> Ids]
<1>1. (seed[d] + 1) % IdMod \in Ids BY NumbersAssumption DEF TypeOK, Ids
<1> QED BY <1>1 DEF TypeOK, DrawId

LEMMA ComposedType ==
  ASSUME TypeOK, NEW d \in Senders, NEW m \in Msgs
  PROVE  Composed(d, m) \in Packet
<1>1. NewPacketId(seed[d]) \in Ids BY NewPacketIdType DEF TypeOK
<1>2. 0 \in Ids BY NumbersAssumption DEF Ids
<1> QED BY <1>1, <1>2 DEF Composed, Packet

\* What a sender is waiting for, when it is.
LEMMA FlightType ==
  ASSUME TypeOK, NEW d \in Senders, flight[d] # NoFlight
  PROVE  flight[d] \in Flight /\ flight[d].pkt \in Packet
BY DEF TypeOK, Flight

LEMMA CallType ==
  ASSUME TypeOK, NEW d \in Senders, call[d] # NoCall
  PROVE  call[d] \in Call /\ call[d].msg \in Msgs
BY DEF TypeOK, Call

\* Result keeps the list, the call and the fates well typed.
LEMMA ResultType ==
  ASSUME TypeOK, NEW d \in Senders, NEW via, NEW p, NEW ok \in BOOLEAN,
         via = "list" \/ call[d] # NoCall,
         Result(d, via, p, ok)
  PROVE  /\ list' \in [Senders -> SUBSET Entry]
         /\ call' \in [Senders -> Call \cup {NoCall}]
         /\ status' \in [Msgs -> {"new", "pending", "confirmed", "lost"}]
<1>1. CASE via = "list"
  <2>1. PICK e \in list[d] : ListResult(d, e, ok) BY <1>1 DEF Result
  <2>2. e \in Entry BY <2>1 DEF TypeOK
  <2>3. e.pkt.msg \in Msgs BY <2>2 DEF Entry, Packet
  <2> DEFINE next == [pkt |-> e.pkt, attempts |-> e.attempts + 1]
  <2>4. e.attempts + 1 <= MaxAttempts => next \in Entry
    BY <2>2, NumbersAssumption DEF Entry
  <2>5. ~(e.attempts + 1 > MaxAttempts) => e.attempts + 1 <= MaxAttempts
    BY <2>2, NumbersAssumption DEF Entry
  <2> DEFINE rest == IF ok \/ e.attempts + 1 > MaxAttempts THEN {} ELSE {next}
  <2>6. rest \subseteq Entry BY <2>4, <2>5
  <2>7. list' = [list EXCEPT ![d] = (@ \ {e}) \cup rest] BY <2>1 DEF ListResult
  <2> HIDE DEF rest
  <2>8. list' \in [Senders -> SUBSET Entry] BY <2>6, <2>7 DEF TypeOK
  <2>9. call' \in [Senders -> Call \cup {NoCall}] BY <2>1 DEF ListResult, TypeOK
  <2>10. status' \in [Msgs -> {"new", "pending", "confirmed", "lost"}]
    <3>1. \/ status' = status
          \/ status' = [status EXCEPT ![e.pkt.msg] = "confirmed"]
          \/ status' = [status EXCEPT ![e.pkt.msg] = "lost"]
      BY <2>1 DEF ListResult
    <3> QED BY <3>1, <2>3 DEF TypeOK
  <2> QED BY <2>8, <2>9, <2>10
<1>2. CASE via # "list"
  <2>1. CallResult(d, ok) BY <1>2 DEF Result
  <2>2. call[d] \in Call /\ call[d].msg \in Msgs BY <1>2, CallType
  <2>3. list' \in [Senders -> SUBSET Entry] BY <2>1 DEF CallResult, TypeOK
  <2>4. CASE CallEnds(d, ok)
    <3>1. call' \in [Senders -> Call \cup {NoCall}] BY <2>4 DEF CallEnds, TypeOK
    <3>2. \/ status' = [status EXCEPT ![call[d].msg] = "confirmed"]
          \/ status' = [status EXCEPT ![call[d].msg] = "lost"]
      BY <2>4 DEF CallEnds
    <3>3. status' \in [Msgs -> {"new", "pending", "confirmed", "lost"}]
      BY <3>2, <2>2 DEF TypeOK
    <3> QED BY <2>3, <3>1, <3>3
  <2>5. CASE CallGoesOn(d, ok)
    <3>1. call[d].attempts + 1 \in 0 .. MaxAttempts
      BY <2>2, <2>5, NumbersAssumption DEF CallGoesOn, Call
    <3>2. [msg |-> call[d].msg, attempts |-> call[d].attempts + 1] \in Call
      BY <3>1, <2>2 DEF Call
    <3>3. call' \in [Senders -> Call \cup {NoCall}]
      BY <2>5, <3>2 DEF CallGoesOn, TypeOK
    <3> QED BY <2>3, <2>5, <3>3 DEF CallGoesOn, TypeOK
  <2> QED BY <2>1, <2>4, <2>5 DEF CallResult
<1> QED BY <1>1, <1>2

\* What send_packet() is given is a packet, and the call it is given by runs.
LEMMA ToTransmitType ==
  ASSUME TypeOK, NEW d \in Senders, NEW tp \in ToTransmit(d)
  PROVE  /\ tp[1] \in {"list", "call"} /\ tp[2] \in Packet
         /\ tp[1] = "list" \/ call[d] # NoCall
<1>1. CASE call[d] = NoCall
  <2>1. PICK e \in list[d] : tp = <<"list", e.pkt>> BY <1>1 DEF ToTransmit
  <2>2. e \in Entry BY <2>1 DEF TypeOK
  <2> QED BY <2>1, <2>2 DEF Entry
<1>2. CASE call[d] # NoCall
  <2>1. tp = <<"call", Composed(d, call[d].msg)>> BY <1>2 DEF ToTransmit
  <2>2. call[d].msg \in Msgs BY <1>2, CallType
  <2> QED BY <1>2, <2>1, <2>2, ComposedType
<1> QED BY <1>1, <1>2

\* A frame is in flight for a call only while the call runs: send_packet() is a
\* call of send_packet_blocking().
CallRuns == \A d \in Senders :
              (flight[d] # NoFlight /\ flight[d].via = "call") => call[d] # NoCall

LEMMA SavedType ==
  ASSUME TypeOK, NEW p \in Packet, Accept(p)
  PROVE  recent' \in [1 .. Window -> Record] /\ log' \in Seq(Packet)
<1>1. CASE UNCHANGED <<recent, log>> BY <1>1 DEF TypeOK
<1>2. CASE log' = Append(log, p) /\ (Save(p) \/ UNCHANGED recent)
  <2>1. log' \in Seq(Packet) BY <1>2 DEF TypeOK
  <2>2. [id |-> p.id, from |-> Identity[p.from]] \in Record
    BY SetsAssumption DEF Packet, Record
  <2>3. Save(p) => recent' \in [1 .. Window -> Record]
    <3>1. \A k \in 1 .. Window : k # 1 => k - 1 \in 1 .. Window BY NumbersAssumption
    <3> QED BY <2>2, <3>1 DEF Save, TypeOK
  <2> QED BY <1>2, <2>1, <2>3 DEF TypeOK
<1> QED BY <1>1, <1>2 DEF Accept

LEMMA MovedType ==
  ASSUME TypeOK, NEW d \in Senders, flight[d] # NoFlight,
         NEW x \in {"sent", "acked", "silent"}
  PROVE  Moved(flight[d], x) \in Flight
BY FlightType DEF Moved, Flight

LinkTypeInv == TypeOK /\ CallRuns

LEMMA LinkTypeInit == Init => LinkTypeInv
<1> SUFFICES ASSUME Init PROVE LinkTypeInv OBVIOUS
<1>1. seed \in [Senders -> Ids] BY NumbersAssumption DEF Init
<1>2. recent \in [1 .. Window -> Record] BY NumbersAssumption DEF Init
<1>3. log \in Seq(Packet) BY DEF Init
<1>4. status \in [Msgs -> {"new", "pending", "confirmed", "lost"}] BY DEF Init
<1>5. list \in [Senders -> SUBSET Entry] /\ strays \subseteq Packet BY DEF Init
<1>6. call \in [Senders -> Call \cup {NoCall}] /\ flight \in [Senders -> Flight \cup {NoFlight}]
  BY DEF Init
<1>7. CallRuns BY DEF Init, CallRuns
<1> QED BY <1>1, <1>2, <1>3, <1>4, <1>5, <1>6, <1>7 DEF LinkTypeInv, TypeOK

\* The steps of one sender.
LEMMA SenderStepType ==
  ASSUME LinkTypeInv, NEW d \in Senders, Calls(d) \/ Transmits(d) \/ Medium(d)
  PROVE  LinkTypeInv'
<1> USE DEF LinkTypeInv
<1>1. ASSUME NEW m \in Msgs, Send(d, m) PROVE LinkTypeInv'
  <2> DEFINE new == [pkt |-> Composed(d, m), attempts |-> 0]
  <2>1. new \in Entry BY ComposedType, NumbersAssumption DEF Entry
  <2>2. list' \in [Senders -> SUBSET Entry] BY <1>1, <2>1 DEF Send, TypeOK
  <2>3. seed' \in [Senders -> Ids] BY <1>1, DrawIdType DEF Send
  <2>4. status' \in [Msgs -> {"new", "pending", "confirmed", "lost"}]
    BY <1>1 DEF Send, TypeOK
  <2> QED BY <1>1, <2>2, <2>3, <2>4 DEF Send, TypeOK, CallRuns
<1>2. ASSUME NEW m \in Msgs, BeginCall(d, m) PROVE LinkTypeInv'
  <2>1. [msg |-> m, attempts |-> 0] \in Call BY NumbersAssumption DEF Call
  <2>2. call' \in [Senders -> Call \cup {NoCall}] BY <1>2, <2>1 DEF BeginCall, TypeOK
  <2>3. status' \in [Msgs -> {"new", "pending", "confirmed", "lost"}]
    BY <1>2 DEF BeginCall, TypeOK
  <2>4. CallRuns'
    BY <1>2 DEF BeginCall, Idle, CallRuns, TypeOK
  <2> QED BY <1>2, <2>2, <2>3, <2>4 DEF BeginCall, TypeOK
<1>3. ASSUME FindBusy(d) PROVE LinkTypeInv'
  <2>1. PICK tp \in ToTransmit(d) : Result(d, tp[1], tp[2], FALSE) BY <1>3 DEF FindBusy
  <2>2. tp[1] = "list" \/ call[d] # NoCall BY ToTransmitType
  <2>3. /\ list' \in [Senders -> SUBSET Entry]
        /\ call' \in [Senders -> Call \cup {NoCall}]
        /\ status' \in [Msgs -> {"new", "pending", "confirmed", "lost"}]
    BY <2>1, <2>2, ResultType
  <2>4. seed' \in [Senders -> Ids] BY <1>3, DrawIdType DEF FindBusy, DrawIdForCall, TypeOK
  <2>5. CallRuns'
    <3>1. \A s \in Senders : s # d => call'[s] = call[s]
      BY <2>1 DEF Result, ListResult, CallResult, CallEnds, CallGoesOn, TypeOK
    <3> QED BY <1>3, <3>1 DEF FindBusy, CallRuns
  <2> QED BY <1>3, <2>3, <2>4, <2>5 DEF FindBusy, TypeOK
<1>4. ASSUME Transmit(d) PROVE LinkTypeInv'
  <2>1. PICK tp \in ToTransmit(d) :
          flight' = [flight EXCEPT ![d] = [phase |-> "sent", via |-> tp[1], pkt |-> tp[2]]]
    BY <1>4 DEF Transmit
  <2>2. /\ tp[1] \in {"list", "call"} /\ tp[2] \in Packet
        /\ tp[1] = "list" \/ call[d] # NoCall
    BY ToTransmitType
  <2>3. [phase |-> "sent", via |-> tp[1], pkt |-> tp[2]] \in Flight BY <2>2 DEF Flight
  <2>4. flight' \in [Senders -> Flight \cup {NoFlight}] BY <2>1, <2>3 DEF TypeOK
  <2>5. seed' \in [Senders -> Ids] BY <1>4, DrawIdType DEF Transmit, DrawIdForCall, TypeOK
  <2>6. CallRuns' BY <1>4, <2>1, <2>2 DEF Transmit, CallRuns, TypeOK
  <2> QED BY <1>4, <2>4, <2>5, <2>6 DEF Transmit, TypeOK
<1>5. ASSUME Succeed(d) \/ TimeOut(d) PROVE LinkTypeInv'
  <2> DEFINE f == flight[d]
  <2>1. flight[d] # NoFlight BY <1>5 DEF Succeed, TimeOut
  <2>2. flight[d] \in Flight /\ flight[d].pkt \in Packet BY <2>1, FlightType
  <2>3. PICK ok \in BOOLEAN : Result(d, f.via, f.pkt, ok) BY <1>5 DEF Succeed, TimeOut
  <2>4. f.via = "list" \/ call[d] # NoCall BY <2>1, <2>2 DEF CallRuns, Flight
  <2>5. /\ list' \in [Senders -> SUBSET Entry]
        /\ call' \in [Senders -> Call \cup {NoCall}]
        /\ status' \in [Msgs -> {"new", "pending", "confirmed", "lost"}]
    BY <2>3, <2>4, ResultType
  <2>6. flight' = [flight EXCEPT ![d] = NoFlight] BY <1>5 DEF Succeed, TimeOut
  <2>7. strays' \subseteq Packet BY <1>5, <2>2 DEF Succeed, TimeOut, TypeOK
  <2>8. CallRuns'
    <3>1. \A s \in Senders : s # d => call'[s] = call[s]
      BY <2>3 DEF Result, ListResult, CallResult, CallEnds, CallGoesOn, TypeOK
    <3> QED BY <2>6, <3>1 DEF CallRuns, TypeOK
  <2> QED BY <1>5, <2>5, <2>6, <2>7, <2>8 DEF Succeed, TimeOut, TypeOK
<1>6. ASSUME Lose(d) PROVE LinkTypeInv'
  <2>1. Moved(flight[d], "silent") \in Flight BY <1>6, MovedType DEF Lose
  <2>2. flight' \in [Senders -> Flight \cup {NoFlight}] BY <1>6, <2>1 DEF Lose, TypeOK
  <2>3. CallRuns' BY <1>6 DEF Lose, CallRuns, Moved, TypeOK
  <2> QED BY <1>6, <2>2, <2>3 DEF Lose, TypeOK
<1>7. ASSUME Receive(d) PROVE LinkTypeInv'
  <2> DEFINE x == IF flight[d].pkt.msg \in Acked THEN "acked" ELSE "silent"
  <2>1. flight[d] # NoFlight /\ Accept(flight[d].pkt)
        /\ flight' = [flight EXCEPT ![d] = Moved(flight[d], x)]
    BY <1>7 DEF Receive
  <2>2. flight[d].pkt \in Packet BY <2>1, FlightType
  <2>3. recent' \in [1 .. Window -> Record] /\ log' \in Seq(Packet)
    BY <2>1, <2>2, SavedType
  <2>4. Moved(flight[d], x) \in Flight BY <2>1, MovedType
  <2> HIDE DEF x
  <2>5. flight' \in [Senders -> Flight \cup {NoFlight}] BY <2>1, <2>4 DEF TypeOK
  <2>6. CallRuns' BY <1>7, <2>1 DEF Receive, CallRuns, Moved, TypeOK
  <2> QED BY <1>7, <2>3, <2>5, <2>6 DEF Receive, TypeOK
<1> QED BY <1>1, <1>2, <1>3, <1>4, <1>5, <1>6, <1>7 DEF Calls, Transmits, Medium

LEMMA StrayStepType ==
  ASSUME LinkTypeInv, NEW p \in strays, ReceiveStray(p) \/ LoseStray(p)
  PROVE  LinkTypeInv'
<1>1. p \in Packet BY DEF LinkTypeInv, TypeOK
<1>2. CallRuns' BY DEF LinkTypeInv, CallRuns, ReceiveStray, LoseStray
<1>3. CASE ReceiveStray(p)
  <2>1. recent' \in [1 .. Window -> Record] /\ log' \in Seq(Packet)
    BY <1>1, <1>3, SavedType DEF ReceiveStray, LinkTypeInv
  <2> QED BY <1>2, <1>3, <2>1 DEF ReceiveStray, LinkTypeInv, TypeOK
<1>4. CASE LoseStray(p) BY <1>2, <1>4 DEF LoseStray, LinkTypeInv, TypeOK
<1> QED BY <1>3, <1>4

LEMMA LinkTypeNext == LinkTypeInv /\ [Next]_vars => LinkTypeInv'
<1> SUFFICES ASSUME LinkTypeInv, [Next]_vars PROVE LinkTypeInv' OBVIOUS
<1>1. CASE UNCHANGED vars BY <1>1 DEF vars, LinkTypeInv, TypeOK, CallRuns
<1>2. CASE Next BY <1>2, SenderStepType, StrayStepType DEF Next
<1> QED BY <1>1, <1>2

\* Ids stay within 16 bits, the table of recent ids keeps its size, a frame sent
\* by send_packet_blocking() is in flight only while that call runs, and the
\* rest of the state has its type.
THEOREM LinkTypeCorrect == Spec => []TypeOK
<1>1. Spec => []LinkTypeInv
  <2>1. Init => LinkTypeInv BY LinkTypeInit
  <2>2. LinkTypeInv /\ [Next]_vars => LinkTypeInv' BY LinkTypeNext
  <2> QED BY <2>1, <2>2, PTL DEF Spec
<1>2. LinkTypeInv => TypeOK BY DEF LinkTypeInv
<1> QED BY <1>1, <1>2, PTL

-----------------------------------------------------------------------------
(* The table of recent ids. *)

\* The table holds the records of the newest packets of the log, newest first.
\* DuplicatesFarApart is not inductive without it: that an id was looked for in
\* the table says something of the log only if the table is that part of it.
RecentIsLog ==
  PacketIds =>
    \A k \in 1 .. Window :
      k <= Len(log) =>
        recent[k] = [id   |-> log[Len(log) + 1 - k].id,
                     from |-> Identity[log[Len(log) + 1 - k].from]]

RingInv == LinkTypeInv /\ RecentIsLog /\ DuplicatesFarApart

LEMMA AcceptKeepsRing ==
  ASSUME RingInv, NEW p \in Packet, Accept(p)
  PROVE  RecentIsLog' /\ DuplicatesFarApart'
<1>1. CASE UNCHANGED <<recent, log>>
  BY <1>1 DEF RingInv, RecentIsLog, DuplicatesFarApart
<1>2. CASE ~PacketIds BY <1>2 DEF RecentIsLog, DuplicatesFarApart
<1>3. CASE PacketIds /\ ~Known(p) /\ log' = Append(log, p) /\ Save(p)
  <2> DEFINE n == Len(log)
  <2>1. n \in Nat /\ log \in Seq(Packet) /\ DOMAIN log = 1 .. n
    BY DEF RingInv, LinkTypeInv, TypeOK
  <2>2. /\ Len(log') = n + 1 /\ DOMAIN log' = 1 .. n + 1
        /\ log'[n + 1] = p
        /\ \A k \in 1 .. n : log'[k] = log[k]
    BY <1>3, <2>1
  <2>3. Window \in Nat /\ Window > 0 BY NumbersAssumption
  <2>4. RecentIsLog'
    <3> SUFFICES ASSUME NEW k \in 1 .. Window, k <= n + 1
                 PROVE  recent'[k] = [id   |-> log'[n + 2 - k].id,
                                      from |-> Identity[log'[n + 2 - k].from]]
      BY <2>1, <2>2 DEF RecentIsLog
    <3>1. CASE k = 1
      <4>1. recent'[1] = [id |-> p.id, from |-> Identity[p.from]]
        BY <1>3, <2>3 DEF Save
      <4>2. n + 2 - k = n + 1 BY <2>1, <3>1
      <4> QED BY <2>2, <3>1, <4>1, <4>2
    <3>2. CASE k # 1
      <4>1. k - 1 \in 1 .. Window /\ k - 1 <= n BY <2>1, <2>3, <3>2
      <4>2. recent'[k] = recent[k - 1] BY <1>3, <3>2 DEF Save
      <4>3. n + 1 - (k - 1) = n + 2 - k /\ n + 2 - k \in 1 .. n BY <2>1, <4>1
      <4>4. recent[k - 1] = [id   |-> log[n + 2 - k].id,
                             from |-> Identity[log[n + 2 - k].from]]
        BY <1>3, <4>1, <4>3 DEF RingInv, RecentIsLog
      <4> QED BY <2>2, <4>2, <4>3, <4>4
    <3> QED BY <3>1, <3>2
  <2>5. DuplicatesFarApart'
    <3> SUFFICES ASSUME NEW j \in 1 .. n + 1, NEW k \in 1 .. n + 1, j < k,
                        SameKey(log'[j], log'[k])
                 PROVE  k - j > Window
      BY <2>2 DEF DuplicatesFarApart, SameKey, SameSender
    <3>1. j \in 1 .. n BY <2>1
    <3>2. CASE k = n + 1
      <4>1. SameKey(log[j], p) BY <2>2, <3>1, <3>2
      <4>2. SUFFICES ASSUME k - j <= Window PROVE FALSE
        BY <2>1, <2>3, <3>1, <3>2
      <4>3. n + 1 - j \in 1 .. Window /\ n + 1 - j <= n /\ n + 1 - (n + 1 - j) = j
        BY <2>1, <2>3, <3>1, <3>2, <4>2
      <4>4. recent[n + 1 - j] = [id |-> log[j].id, from |-> Identity[log[j].from]]
        BY <1>3, <4>3 DEF RingInv, RecentIsLog
      <4>5. Known(p) BY <4>1, <4>3, <4>4 DEF Known, SameKey
      <4> QED BY <1>3, <4>5
    <3>3. CASE k # n + 1
      <4>1. k \in 1 .. n BY <2>1, <3>3
      <4>2. SameKey(log[j], log[k]) BY <2>2, <3>1, <4>1
      <4> QED BY <1>3, <2>1, <3>1, <4>1, <4>2 DEF RingInv, DuplicatesFarApart
    <3> QED BY <3>2, <3>3
  <2> QED BY <2>4, <2>5
<1> QED BY <1>1, <1>2, <1>3 DEF Accept

LEMMA RingInit == Init => RingInv
<1> SUFFICES ASSUME Init PROVE RingInv OBVIOUS
<1>1. LinkTypeInv BY LinkTypeInit
<1>2. log = <<>> /\ Len(log) = 0 /\ DOMAIN log = {} BY DEF Init
<1>3. \A k \in 1 .. Window : ~(k <= Len(log)) BY <1>2, NumbersAssumption
<1> QED BY <1>1, <1>2, <1>3 DEF RingInv, RecentIsLog, DuplicatesFarApart

LEMMA RingNext == RingInv /\ [Next]_vars => RingInv'
<1> SUFFICES ASSUME RingInv, [Next]_vars PROVE RingInv' OBVIOUS
<1>1. LinkTypeInv' BY LinkTypeNext DEF RingInv
<1>2. CASE UNCHANGED <<recent, log>>
  BY <1>1, <1>2 DEF RingInv, RecentIsLog, DuplicatesFarApart
<1>3. ASSUME NEW d \in Senders, Receive(d) PROVE RingInv'
  <2>1. flight[d].pkt \in Packet BY <1>3, FlightType DEF Receive, RingInv, LinkTypeInv
  <2> QED BY <1>1, <1>3, <2>1, AcceptKeepsRing DEF Receive, RingInv
<1>4. ASSUME NEW p \in strays, ReceiveStray(p) PROVE RingInv'
  <2>1. p \in Packet BY DEF RingInv, LinkTypeInv, TypeOK
  <2> QED BY <1>1, <1>4, <2>1, AcceptKeepsRing DEF ReceiveStray, RingInv
<1>5. \/ UNCHANGED <<recent, log>>
      \/ \E d \in Senders : Receive(d)
      \/ \E p \in strays : ReceiveStray(p)
  BY DEF Next, vars, Calls, Transmits, Medium, Send, BeginCall, FindBusy, Transmit,
         Succeed, TimeOut, Lose, LoseStray
<1> QED BY <1>2, <1>3, <1>4, <1>5

\* receive() hands over two packets with one id of one sender only if at least
\* PJON_MAX_RECENT_PACKET_IDS others were handed over or refused by port in
\* between: on every medium, for any number of senders, whatever they send.
THEOREM DuplicatesFarApartHolds == Spec => []DuplicatesFarApart
<1>1. Init => RingInv BY RingInit
<1>2. RingInv /\ [Next]_vars => RingInv' BY RingNext
<1>3. RingInv => DuplicatesFarApart BY DEF RingInv
<1> QED BY <1>1, <1>2, <1>3, PTL DEF Spec

-----------------------------------------------------------------------------
(* Acknowledged delivery: a session whose packets the table can tell apart. *)

\* What is composed in a session: once for each message sent with send(), once for
\* each attempt of send_packet_blocking().
Compositions == (ByList \X {0}) \cup (ByCall \X (0 .. MaxAttempts))

\* The session in which the link can promise at most once.  Packets include the id,
\* the messages are sent with send(), no two senders look the same to the recipient,
\* the session composes as many packets as the table holds at most, no seed
\* reaches its wrap, after which an id is drawn again, and the table holds none of
\* the ids to be drawn.
SessionFits ==
  /\ PacketIds
  /\ ByCall \cap Served = {}
  /\ \A d, e \in Senders : SameSender(Identity[d], Identity[e]) => d = e
  /\ IsFiniteSet(Compositions) /\ Cardinality(Compositions) <= Window
  /\ \A s \in InitialSeeds : s + Cardinality(Compositions) < IdMod
  /\ \A r \in InitialRings, k \in 1 .. Window, d \in Senders, s \in InitialSeeds :
       SameSender(r[k].from, Identity[d]) => r[k].id \notin s + 1 .. s + Cardinality(Compositions)

\* A running call is its sender's, and the sender waits for nothing else.
CallsInv == \A d \in Senders : call[d] # NoCall =>
  /\ call[d].msg \in ByCall /\ Owner[call[d].msg] = d /\ status[call[d].msg] # "new"
  /\ flight[d] # NoFlight => flight[d].via = "call"

\* A send list holds one packet of a message, whose fate is open.
ListsInv == \A d \in Senders : \A e \in list[d] :
  /\ e.pkt.from = d /\ Owner[e.pkt.msg] = d /\ status[e.pkt.msg] # "new"
  /\ e.pkt.msg \notin ByCall => status[e.pkt.msg] = "pending"
  /\ \A f \in list[d] : f.pkt.msg = e.pkt.msg => f = e

SendersInv == LinkTypeInv /\ CallsInv /\ ListsInv

\* No message is new again.
NoneNewAgain == \A m \in Msgs : status[m] # "new" => status'[m] # "new"

\* What the result of send_packet() leaves of the list, the call and the fates.
LEMMA ResultKeeps ==
  ASSUME SendersInv, NEW d \in Senders, NEW via, NEW p,
         NEW ok \in BOOLEAN, via = "list" \/ call[d] # NoCall, Result(d, via, p, ok)
  PROVE  /\ \A s \in Senders : s # d => list'[s] = list[s] /\ call'[s] = call[s]
         /\ \A e \in list'[d] : \E f \in list[d] : e.pkt = f.pkt
         /\ via = "list" => UNCHANGED call /\ \E e \in list[d] : e.pkt = p
         /\ via # "list" => UNCHANGED list
         /\ call[d] # NoCall =>
              \/ call'[d] = NoCall
              \/ via = "list" /\ call'[d] = call[d]
              \/ /\ call'[d] = [msg |-> call[d].msg, attempts |-> call[d].attempts + 1]
                 /\ call[d].attempts < MaxAttempts
         /\ ListsInv' /\ NoneNewAgain
<1> USE DEF SendersInv, LinkTypeInv
<1>1. CASE via = "list"
  <2>1. PICK e \in list[d] : e.pkt = p /\ ListResult(d, e, ok) BY <1>1 DEF Result
  <2>2. e \in Entry /\ e.pkt.msg \in Msgs BY <2>1 DEF TypeOK, Entry, Packet
  <2> DEFINE next == [pkt |-> e.pkt, attempts |-> e.attempts + 1]
             over == ok \/ e.attempts + 1 > MaxAttempts
             rest == IF over THEN {} ELSE {next}
  <2>3. /\ list' = [list EXCEPT ![d] = (list[d] \ {e}) \cup rest] /\ UNCHANGED call
        /\ status' = IF over THEN [status EXCEPT ![e.pkt.msg] = IF ok THEN "confirmed" ELSE "lost"]
                             ELSE status
    BY <2>1 DEF ListResult
  <2>4. list'[d] = (list[d] \ {e}) \cup rest /\ \A s \in Senders : s # d => list'[s] = list[s]
    BY <2>3 DEF TypeOK
  <2>5. \A x \in rest : ~over /\ x.pkt = e.pkt OBVIOUS
  <2>6. /\ ~over => status' = status
        /\ \A m \in Msgs : m # e.pkt.msg => status'[m] = status[m]
        /\ over => status'[e.pkt.msg] \in {"confirmed", "lost"}
    BY <2>2, <2>3 DEF TypeOK
  <2>7. \A x, y \in rest : x = y OBVIOUS
  <2> HIDE DEF next, over, rest
  <2>8. \A x \in list'[d] : \/ x \in list[d] /\ x # e
                            \/ x \in rest /\ ~over /\ x.pkt = e.pkt
    BY <2>4, <2>5
  <2>9. \A f \in list[d] : f # e => f.pkt.msg # e.pkt.msg BY <2>1 DEF ListsInv
  <2>10. \A s \in Senders : \A f \in list[s] : s # d => f.pkt.msg # e.pkt.msg
    BY <2>1 DEF ListsInv
  <2>11. \A s \in Senders : \A f \in list[s] : f \in Entry /\ f.pkt.msg \in Msgs
    BY DEF TypeOK, Entry, Packet
  <2>12. NoneNewAgain
    BY <2>6 DEF NoneNewAgain
  <2>13. ListsInv'
    <3> SUFFICES ASSUME NEW s \in Senders, NEW x \in list'[s]
                 PROVE  /\ x.pkt.from = s /\ Owner[x.pkt.msg] = s /\ status'[x.pkt.msg] # "new"
                        /\ x.pkt.msg \notin ByCall => status'[x.pkt.msg] = "pending"
                        /\ \A f \in list'[s] : f.pkt.msg = x.pkt.msg => f = x
      BY DEF ListsInv
    <3>1. CASE s # d
      BY <2>4, <2>6, <2>10, <2>11, <3>1 DEF ListsInv
    <3>2. CASE s = d /\ x \in list[d] /\ x # e
      <4>1. x.pkt.msg # e.pkt.msg /\ status'[x.pkt.msg] = status[x.pkt.msg]
        BY <2>6, <2>9, <2>11, <3>2
      <4>2. \A f \in list'[s] : f.pkt.msg = x.pkt.msg => f = x
        BY <2>8, <3>2, <4>1 DEF ListsInv
      <4> QED BY <3>2, <4>1, <4>2 DEF ListsInv
    <3>3. CASE s = d /\ x \in rest /\ ~over /\ x.pkt = e.pkt
      <4>1. status'[x.pkt.msg] = status[e.pkt.msg] BY <2>6, <3>3
      <4>2. \A f \in list'[s] : f.pkt.msg = x.pkt.msg => f = x
        BY <2>7, <2>8, <2>9, <3>3
      <4> QED BY <2>1, <3>3, <4>1, <4>2 DEF ListsInv
    <3> QED BY <2>8, <3>1, <3>2, <3>3
  <2> QED BY <1>1, <2>1, <2>3, <2>4, <2>8, <2>12, <2>13
<1>2. CASE via # "list"
  <2>1. call[d] # NoCall /\ call[d].msg \in Msgs BY <1>2, CallType
  <2>2. CallResult(d, ok) /\ UNCHANGED list BY <1>2 DEF Result, CallResult
  <2>3. /\ \A s \in Senders : s # d => call'[s] = call[s]
        /\ \/ call'[d] = NoCall
           \/ /\ call'[d] = [msg |-> call[d].msg, attempts |-> call[d].attempts + 1]
              /\ call[d].attempts < MaxAttempts
    BY <2>2 DEF CallResult, CallEnds, CallGoesOn, TypeOK
  <2>4. \/ status' = status
        \/ \E x \in {"confirmed", "lost"} : status' = [status EXCEPT ![call[d].msg] = x]
    BY <2>2 DEF CallResult, CallEnds, CallGoesOn
  <2>5. /\ \A m \in Msgs : m # call[d].msg => status'[m] = status[m]
        /\ \A m \in Msgs : status'[m] \in {status[m], "confirmed", "lost"}
    BY <2>4 DEF TypeOK
  <2>6. NoneNewAgain BY <2>5 DEF NoneNewAgain
  <2>7. call[d].msg \in ByCall BY <2>1 DEF CallsInv
  <2>8. ListsInv'
    <3> SUFFICES ASSUME NEW s \in Senders, NEW x \in list[s]
                 PROVE  /\ x.pkt.from = s /\ Owner[x.pkt.msg] = s /\ status'[x.pkt.msg] # "new"
                        /\ x.pkt.msg \notin ByCall => status'[x.pkt.msg] = "pending"
                        /\ \A f \in list[s] : f.pkt.msg = x.pkt.msg => f = x
      BY <2>2 DEF ListsInv
    <3>1. x.pkt.msg \in Msgs BY DEF TypeOK, Entry, Packet
    <3> QED BY <2>5, <2>6, <2>7, <3>1 DEF ListsInv, NoneNewAgain
  <2> QED BY <1>2, <2>2, <2>3, <2>6, <2>8
<1> QED BY <1>1, <1>2

\* The packets that were composed and may still be given to the recipient, or were.
Live == {p \in Packet :
  \/ \E d \in Senders : \/ \E e \in list[d] : e.pkt = p
                        \/ flight[d] # NoFlight /\ flight[d].pkt = p
  \/ p \in strays \/ \E k \in DOMAIN log : log[k] = p}

\* The compositions the session has had.
Spent == {t \in Compositions :
  /\ status[t[1]] # "new"
  /\ \A d \in Senders : (call[d] # NoCall /\ call[d].msg = t[1]) =>
       t[2] < call[d].attempts \/ (t[2] = call[d].attempts /\ flight[d] # NoFlight)}

\* What a step does to both: nothing is composed, or d draws an id for composition t.
Quiet == Live' \subseteq Live /\ UNCHANGED seed /\ Spent \subseteq Spent'
Composes(d, t) ==
  /\ t \in Compositions /\ t \notin Spent /\ Owner[t[1]] = d /\ DrawId(d)
  /\ t[1] \notin ByCall => status[t[1]] = "new"
  /\ status'[t[1]] # "new" /\ Spent \cup {t} \subseteq Spent'
  /\ Live' \subseteq Live \cup {Composed(d, t[1])}

LEMMA CompositionType ==
  ASSUME NEW t \in Compositions
  PROVE  t[1] \in Msgs /\ t[2] \in Nat
BY SetsAssumption, NumbersAssumption DEF Compositions

LEMMA SendStep ==
  ASSUME SendersInv, NEW d \in Senders, NEW m \in Msgs, Send(d, m)
  PROVE  SendersInv' /\ NoneNewAgain /\ Composes(d, <<m, 0>>)
<1> DEFINE new == [pkt |-> Composed(d, m), attempts |-> 0]
           t   == <<m, 0>>
<1> USE DEF SendersInv, LinkTypeInv
<1>1. LinkTypeInv' BY SenderStepType DEF Calls
<1>2. /\ flight[d] = NoFlight /\ call[d] = NoCall /\ Owner[m] = d /\ m \in ByList
      /\ status[m] = "new" /\ DrawId(d) /\ UNCHANGED <<call, flight, strays, recent, log>>
      /\ list' = [list EXCEPT ![d] = @ \cup {new}] /\ status' = [status EXCEPT ![m] = "pending"]
  BY DEF Send, Idle
<1>3. new.pkt = Composed(d, m) /\ new.pkt.msg = m /\ new.pkt.from = d BY DEF Composed
<1> HIDE DEF new
<1>4. /\ list'[d] = list[d] \cup {new} /\ \A s \in Senders : s # d => list'[s] = list[s]
      /\ status'[m] = "pending" /\ \A x \in Msgs : x # m => status'[x] = status[x]
  BY <1>2 DEF TypeOK
<1>5. NoneNewAgain BY <1>4 DEF NoneNewAgain
<1>6. \A s \in Senders : \A e \in list[s] : e.pkt.msg \in Msgs /\ e.pkt.msg # m
  BY <1>2 DEF TypeOK, Entry, Packet, ListsInv
<1>7. ListsInv'
  <2> SUFFICES ASSUME NEW s \in Senders, NEW e \in list'[s]
               PROVE  /\ e.pkt.from = s /\ Owner[e.pkt.msg] = s /\ status'[e.pkt.msg] # "new"
                      /\ e.pkt.msg \notin ByCall => status'[e.pkt.msg] = "pending"
                      /\ \A f \in list'[s] : f.pkt.msg = e.pkt.msg => f = e
    BY DEF ListsInv
  <2>1. CASE e \in list[s]
    <3>1. status'[e.pkt.msg] = status[e.pkt.msg] BY <1>4, <1>6, <2>1
    <3>2. \A f \in list'[s] : f \in list[s] \/ f.pkt.msg = m BY <1>3, <1>4
    <3> QED BY <1>6, <2>1, <3>1, <3>2 DEF ListsInv
  <2>2. CASE s = d /\ e = new
    <3>1. \A f \in list'[s] : f \in list[s] \/ f = new BY <1>4, <2>2
    <3> QED BY <1>2, <1>3, <1>4, <1>6, <2>2, <3>1
  <2> QED BY <1>4, <2>1, <2>2
<1>8. CallsInv'
  <2>1. \A s \in Senders : call[s] # NoCall => call[s].msg \in Msgs BY CallType
  <2> QED BY <1>2, <1>5, <2>1 DEF CallsInv, NoneNewAgain
<1>9. t \in Compositions /\ t[1] = m BY <1>2 DEF Compositions
<1> HIDE DEF t
<1>10. t \notin Spent BY <1>2, <1>9 DEF Spent
<1>11. Spent \cup {t} \subseteq Spent'
  <2>1. \A s \in Senders : call[s] # NoCall => call[s].msg # m BY <1>2 DEF CallsInv
  <2>2. ASSUME NEW x \in Spent PROVE x \in Spent'
    <3>1. x[1] \in Msgs BY CompositionType DEF Spent
    <3> QED BY <1>2, <1>5, <3>1 DEF Spent, NoneNewAgain, Compositions
  <2>3. t \in Spent' BY <1>2, <1>4, <1>9, <2>1 DEF Spent
  <2> QED BY <2>2, <2>3
<1>12. Live' \subseteq Live \cup {Composed(d, m)}
  <2>1. \A s \in Senders : \A e \in list'[s] : e \in list[s] \/ e.pkt = Composed(d, m)
    BY <1>3, <1>4
  <2> QED BY <1>2, <2>1 DEF Live
<1> QED BY <1>1, <1>2, <1>4, <1>5, <1>7, <1>8, <1>9, <1>10, <1>11, <1>12 DEF Composes, t

LEMMA BeginCallStep ==
  ASSUME SendersInv, NEW d \in Senders, NEW m \in Msgs, BeginCall(d, m)
  PROVE  SendersInv' /\ NoneNewAgain /\ Quiet
<1> USE DEF SendersInv, LinkTypeInv
<1>1. LinkTypeInv' BY SenderStepType DEF Calls
<1>2. /\ flight[d] = NoFlight /\ call[d] = NoCall /\ Owner[m] = d /\ m \in ByCall
      /\ status[m] = "new" /\ UNCHANGED <<seed, list, flight, strays, recent, log>>
      /\ call' = [call EXCEPT ![d] = [msg |-> m, attempts |-> 0]]
      /\ status' = [status EXCEPT ![m] = "pending"]
  BY DEF BeginCall, Idle
<1>3. /\ call'[d] = [msg |-> m, attempts |-> 0] /\ \A s \in Senders : s # d => call'[s] = call[s]
      /\ status'[m] = "pending" /\ \A x \in Msgs : x # m => status'[x] = status[x]
  BY <1>2 DEF TypeOK
<1>4. NoneNewAgain BY <1>3 DEF NoneNewAgain
<1>5. \A s \in Senders : \A e \in list[s] : e.pkt.msg \in Msgs /\ e.pkt.msg # m
  BY <1>2 DEF TypeOK, Entry, Packet, ListsInv
<1>6. ListsInv' BY <1>2, <1>3, <1>5 DEF ListsInv
<1>7. CallsInv'
  <2>1. \A s \in Senders : call[s] # NoCall => call[s].msg \in Msgs BY CallType
  <2> QED BY <1>2, <1>3, <1>4, <2>1 DEF CallsInv, NoneNewAgain
<1>8. ASSUME NEW x \in Spent PROVE x \in Spent'
  <2>1. x[1] \in Msgs /\ x \in Compositions /\ x[1] # m
    BY <1>2, CompositionType DEF Spent
  <2> QED BY <1>2, <1>3, <1>4, <2>1 DEF Spent, NoneNewAgain
<1>9. Live' = Live BY <1>2 DEF Live
<1> QED BY <1>1, <1>2, <1>4, <1>6, <1>7, <1>8, <1>9 DEF Quiet

\* After send_packet() no composition is forgotten: the attempt it made of a call is
\* over when the sender waits no more.
LEMMA ResultSpends ==
  ASSUME SendersInv, NEW d \in Senders, NEW via, NEW p,
         NEW ok \in BOOLEAN, Result(d, via, p, ok),
         via = "list" <=> call[d] = NoCall,
         flight'[d] = NoFlight, \A s \in Senders : s # d => flight'[s] = flight[s]
  PROVE  /\ CallsInv' /\ ListsInv' /\ NoneNewAgain /\ Spent \subseteq Spent'
         /\ call[d] # NoCall =>
              \A t \in Compositions : (t[1] = call[d].msg /\ t[2] = call[d].attempts) => t \in Spent'
         /\ \A s \in Senders : \A e \in list'[s] : \E f \in list[s] : e.pkt = f.pkt
<1> USE DEF SendersInv, LinkTypeInv
<1>1. /\ \A s \in Senders : s # d => list'[s] = list[s] /\ call'[s] = call[s]
      /\ \A e \in list'[d] : \E f \in list[d] : e.pkt = f.pkt
      /\ call[d] = NoCall => call'[d] = NoCall
      /\ call[d] # NoCall =>
           \/ call'[d] = NoCall
           \/ call'[d] = [msg |-> call[d].msg, attempts |-> call[d].attempts + 1]
      /\ ListsInv' /\ NoneNewAgain
  BY ResultKeeps
<1>2. \A s \in Senders : call[s] # NoCall => call[s].msg \in Msgs /\ call[s].attempts \in Nat
  BY CallType, NumbersAssumption DEF Call
<1>3. CallsInv' BY <1>1, <1>2 DEF CallsInv, NoneNewAgain
<1>4. ASSUME NEW t \in Compositions, status'[t[1]] # "new",
             \A s \in Senders : (call[s] # NoCall /\ call[s].msg = t[1]) =>
               t[2] < call[s].attempts \/ (t[2] = call[s].attempts /\ (flight[s] # NoFlight \/ s = d))
      PROVE  t \in Spent'
  <2> SUFFICES ASSUME NEW s \in Senders, call'[s] # NoCall, call'[s].msg = t[1]
               PROVE  t[2] < call'[s].attempts \/ (t[2] = call'[s].attempts /\ flight'[s] # NoFlight)
    BY <1>4 DEF Spent
  <2>1. CASE s # d BY <1>1, <1>4, <2>1
  <2>2. CASE s = d
    <3>1. call[d] # NoCall /\ call'[d].msg = call[d].msg /\ call'[d].attempts = call[d].attempts + 1
      BY <1>1, <2>2
    <3>2. t[2] < call[d].attempts \/ t[2] = call[d].attempts BY <1>4, <2>2, <3>1
    <3>3. \A m, n \in Nat : m < n \/ m = n => m < n + 1 OBVIOUS
    <3>4. t[2] \in Nat BY CompositionType
    <3> QED BY <1>2, <2>2, <3>1, <3>2, <3>3, <3>4
  <2> QED BY <2>1, <2>2
<1>5. ASSUME NEW t \in Spent PROVE t \in Spent'
  <2>1. t \in Compositions /\ t[1] \in Msgs /\ status[t[1]] # "new" BY CompositionType DEF Spent
  <2>2. status'[t[1]] # "new" BY <1>1, <2>1 DEF NoneNewAgain
  <2> QED BY <1>4, <2>1, <2>2 DEF Spent
<1>6. ASSUME NEW t \in Compositions, call[d] # NoCall, t[1] = call[d].msg, t[2] = call[d].attempts
      PROVE  t \in Spent'
  <2>1. t[1] \in Msgs /\ status[t[1]] # "new" BY <1>2, <1>6 DEF CallsInv
  <2>2. status'[t[1]] # "new" BY <1>1, <2>1 DEF NoneNewAgain
  <2>3. ASSUME NEW s \in Senders, call[s] # NoCall, call[s].msg = t[1] PROVE s = d
    BY <1>6, <2>3 DEF CallsInv
  <2> QED BY <1>4, <1>6, <2>2, <2>3
<1> QED BY <1>1, <1>3, <1>5, <1>6

\* The composition that an attempt of a running call is.
LEMMA CallComposition ==
  ASSUME SendersInv, NEW d \in Senders, call[d] # NoCall, flight[d] = NoFlight
  PROVE  \E t \in Compositions :
           /\ t = <<call[d].msg, call[d].attempts>> /\ t[1] = call[d].msg /\ t[2] = call[d].attempts
           /\ t \notin Spent /\ Owner[t[1]] = d /\ t[1] \in ByCall
<1> DEFINE t == <<call[d].msg, call[d].attempts>>
<1>1. call[d].msg \in ByCall /\ Owner[call[d].msg] = d /\ call[d].attempts \in 0 .. MaxAttempts
  BY CallType DEF SendersInv, LinkTypeInv, CallsInv, Call
<1>2. t \in Compositions /\ t[1] = call[d].msg /\ t[2] = call[d].attempts BY <1>1 DEF Compositions
<1>3. ~(call[d].attempts < call[d].attempts) BY <1>1, NumbersAssumption
<1> HIDE DEF t
<1>4. t \notin Spent BY <1>2, <1>3 DEF Spent
<1> QED BY <1>1, <1>2, <1>4 DEF t

LEMMA FindBusyStep ==
  ASSUME SendersInv, NEW d \in Senders, FindBusy(d)
  PROVE  SendersInv' /\ NoneNewAgain /\ (Quiet \/ \E t \in Compositions : Composes(d, t))
<1> USE DEF SendersInv, LinkTypeInv
<1>1. LinkTypeInv' BY SenderStepType DEF Transmits
<1>2. PICK tp \in ToTransmit(d) : Result(d, tp[1], tp[2], FALSE) BY DEF FindBusy
<1>3. flight[d] = NoFlight /\ UNCHANGED <<flight, strays, recent, log>> /\ DrawIdForCall(d)
  BY DEF FindBusy
<1>4. tp[1] = "list" <=> call[d] = NoCall BY DEF ToTransmit
<1>5. /\ CallsInv' /\ ListsInv' /\ NoneNewAgain /\ Spent \subseteq Spent'
      /\ call[d] # NoCall =>
           \A t \in Compositions : (t[1] = call[d].msg /\ t[2] = call[d].attempts) => t \in Spent'
      /\ \A s \in Senders : \A e \in list'[s] : \E f \in list[s] : e.pkt = f.pkt
  BY <1>2, <1>3, <1>4, ResultSpends
<1>6. Live' \subseteq Live BY <1>3, <1>5 DEF Live
<1>7. CASE call[d] = NoCall BY <1>1, <1>3, <1>5, <1>6, <1>7 DEF DrawIdForCall, Quiet
<1>8. CASE call[d] # NoCall
  <2>1. PICK t \in Compositions : /\ t[1] = call[d].msg /\ t[2] = call[d].attempts
                                  /\ t \notin Spent /\ Owner[t[1]] = d /\ t[1] \in ByCall
    BY <1>3, <1>8, CallComposition
  <2>2. t \in Spent' BY <1>5, <1>8, <2>1
  <2>3. status'[t[1]] # "new" BY <2>2 DEF Spent
  <2>4. Composes(d, t) BY <1>3, <1>5, <1>6, <1>8, <2>1, <2>2, <2>3 DEF Composes, DrawIdForCall
  <2> QED BY <1>1, <1>5, <2>4
<1> QED BY <1>7, <1>8

LEMMA TransmitStep ==
  ASSUME SendersInv, NEW d \in Senders, Transmit(d)
  PROVE  SendersInv' /\ NoneNewAgain /\ (Quiet \/ \E t \in Compositions : Composes(d, t))
<1> USE DEF SendersInv, LinkTypeInv
<1>1. LinkTypeInv' BY SenderStepType DEF Transmits
<1>2. PICK tp \in ToTransmit(d) :
        flight' = [flight EXCEPT ![d] = [phase |-> "sent", via |-> tp[1], pkt |-> tp[2]]]
  BY DEF Transmit
<1>3. /\ flight[d] = NoFlight /\ UNCHANGED <<list, call, strays, recent, log, status>> /\ DrawIdForCall(d)
  BY DEF Transmit
<1>4. /\ call[d] = NoCall => tp[1] = "list" /\ \E e \in list[d] : e.pkt = tp[2]
      /\ call[d] # NoCall => tp[1] = "call" /\ tp[2] = Composed(d, call[d].msg)
  BY DEF ToTransmit
<1>5. /\ flight'[d] # NoFlight /\ flight'[d].via = tp[1] /\ flight'[d].pkt = tp[2]
      /\ \A s \in Senders : s # d => flight'[s] = flight[s]
  BY <1>2 DEF TypeOK, NoFlight
<1>6. CallsInv' /\ ListsInv' /\ NoneNewAgain
  BY <1>3, <1>4, <1>5 DEF CallsInv, ListsInv, NoneNewAgain
<1>7. Spent \subseteq Spent' BY <1>3, <1>5 DEF Spent
<1>8. CASE call[d] = NoCall
  <2>1. PICK e \in list[d] : e.pkt = tp[2] BY <1>4, <1>8
  <2>2. Live' \subseteq Live BY <1>3, <1>5, <2>1 DEF Live
  <2> QED BY <1>1, <1>3, <1>6, <1>7, <1>8, <2>2 DEF DrawIdForCall, Quiet
<1>9. CASE call[d] # NoCall
  <2>1. PICK t \in Compositions : /\ t[1] = call[d].msg /\ t[2] = call[d].attempts
                                  /\ t \notin Spent /\ Owner[t[1]] = d /\ t[1] \in ByCall
    BY <1>3, <1>9, CallComposition
  <2>2. status[t[1]] # "new" BY <1>9, <2>1 DEF CallsInv
  <2>3. t \in Spent'
    <3>1. \A s \in Senders : call[s] # NoCall /\ call[s].msg = t[1] => s = d
      BY <1>9, <2>1 DEF CallsInv
    <3> QED BY <1>3, <1>5, <2>1, <2>2, <3>1 DEF Spent
  <2>4. Live' \subseteq Live \cup {Composed(d, t[1])}
    <3>1. tp[2] = Composed(d, t[1]) BY <1>4, <1>9, <2>1
    <3> QED BY <1>3, <1>5, <3>1 DEF Live
  <2>5. Composes(d, t)
    BY <1>3, <1>7, <1>9, <2>1, <2>2, <2>3, <2>4 DEF Composes, DrawIdForCall
  <2> QED BY <1>1, <1>6, <2>5
<1> QED BY <1>8, <1>9

LEMMA SettleStep ==
  ASSUME SendersInv, NEW d \in Senders, Succeed(d) \/ TimeOut(d)
  PROVE  SendersInv' /\ NoneNewAgain /\ Quiet
<1> USE DEF SendersInv, LinkTypeInv
<1>1. LinkTypeInv' BY SenderStepType DEF Transmits
<1>2. /\ flight[d] # NoFlight /\ flight' = [flight EXCEPT ![d] = NoFlight]
      /\ UNCHANGED <<seed, recent, log>> /\ strays' \subseteq strays \cup {flight[d].pkt}
  BY DEF Succeed, TimeOut
<1>3. PICK ok \in BOOLEAN : Result(d, flight[d].via, flight[d].pkt, ok) BY DEF Succeed, TimeOut
<1>4. flight[d].via = "list" <=> call[d] = NoCall
  BY <1>2, FlightType DEF CallsInv, CallRuns, Flight
<1>5. flight'[d] = NoFlight /\ \A s \in Senders : s # d => flight'[s] = flight[s]
  BY <1>2 DEF TypeOK
<1>6. /\ CallsInv' /\ ListsInv' /\ NoneNewAgain /\ Spent \subseteq Spent'
      /\ \A s \in Senders : \A e \in list'[s] : \E f \in list[s] : e.pkt = f.pkt
  BY <1>3, <1>4, <1>5, ResultSpends
<1>7. Live' \subseteq Live BY <1>2, <1>5, <1>6 DEF Live
<1> QED BY <1>1, <1>2, <1>6, <1>7 DEF Quiet

\* What receive() may put on record is a packet it was given.
LEMMA AcceptLogs ==
  ASSUME LinkTypeInv, NEW p \in Packet, Accept(p)
  PROVE  \A k \in DOMAIN log' : log'[k] = p \/ (k \in DOMAIN log /\ log'[k] = log[k])
<1>1. CASE UNCHANGED log BY <1>1
<1>2. CASE log' = Append(log, p)
  <2>1. log \in Seq(Packet) BY DEF LinkTypeInv, TypeOK
  <2> QED BY <1>2, <2>1
<1> QED BY <1>1, <1>2 DEF Accept

LEMMA MediumStep ==
  ASSUME SendersInv, NEW d \in Senders, Lose(d) \/ Receive(d)
  PROVE  SendersInv' /\ NoneNewAgain /\ Quiet
<1> USE DEF SendersInv, LinkTypeInv
<1>1. LinkTypeInv' BY SenderStepType DEF Medium
<1>2. PICK x : flight' = [flight EXCEPT ![d] = Moved(flight[d], x)]
  BY DEF Lose, Receive
<1>3. flight[d] # NoFlight /\ UNCHANGED <<seed, list, call, strays, status>>
  BY DEF Lose, Receive
<1>4. /\ flight'[d].pkt = flight[d].pkt /\ flight'[d].via = flight[d].via
      /\ \A s \in Senders : s # d => flight'[s] = flight[s]
  BY <1>2 DEF TypeOK, Moved
<1>5. ListsInv' /\ NoneNewAgain BY <1>3 DEF ListsInv, NoneNewAgain
<1>6. CallsInv' BY <1>3, <1>4 DEF CallsInv
<1>7. flight'[d] # NoFlight BY <1>2 DEF TypeOK, Moved, NoFlight
<1>8. Spent \subseteq Spent' BY <1>3, <1>4, <1>7 DEF Spent
<1>9. Live' \subseteq Live
  <2>1. CASE UNCHANGED log BY <1>3, <1>4, <2>1 DEF Live
  <2>2. CASE Receive(d)
    <3>1. \A k \in DOMAIN log' : log'[k] = flight[d].pkt \/ (k \in DOMAIN log /\ log'[k] = log[k])
      BY <1>3, <2>2, AcceptLogs, FlightType DEF Receive
    <3> QED BY <1>3, <1>4, <3>1 DEF Live
  <2> QED BY <2>1, <2>2 DEF Lose
<1> QED BY <1>1, <1>3, <1>5, <1>6, <1>8, <1>9 DEF Quiet

LEMMA StrayStep ==
  ASSUME SendersInv, NEW p \in strays, ReceiveStray(p) \/ LoseStray(p)
  PROVE  SendersInv' /\ NoneNewAgain /\ Quiet
<1> USE DEF SendersInv, LinkTypeInv
<1>1. LinkTypeInv' BY StrayStepType
<1>2. UNCHANGED <<seed, list, call, flight, status>> /\ strays' \subseteq strays
  BY DEF ReceiveStray, LoseStray
<1>3. ListsInv' /\ CallsInv' /\ NoneNewAgain BY <1>2 DEF ListsInv, CallsInv, NoneNewAgain
<1>4. Spent \subseteq Spent' BY <1>2 DEF Spent
<1>5. p \in Packet BY DEF TypeOK
<1>6. \A k \in DOMAIN log' : log'[k] = p \/ (k \in DOMAIN log /\ log'[k] = log[k])
  BY <1>5, AcceptLogs DEF ReceiveStray, LoseStray
<1>7. Live' \subseteq Live BY <1>2, <1>6 DEF Live
<1> QED BY <1>1, <1>2, <1>3, <1>4, <1>7 DEF Quiet

\* Every step composes nothing, or one packet for a composition the session has left.
LEMMA SendersNext ==
  ASSUME SendersInv, [Next]_vars
  PROVE  /\ SendersInv' /\ NoneNewAgain
         /\ Quiet \/ \E d \in Senders : \E t \in Compositions : Composes(d, t)
<1>1. CASE UNCHANGED vars
  <2>1. LinkTypeInv' BY LinkTypeNext DEF SendersInv
  <2>2. CallsInv' /\ ListsInv' /\ NoneNewAgain
    BY <1>1 DEF vars, SendersInv, CallsInv, ListsInv, NoneNewAgain
  <2>3. Quiet BY <1>1 DEF vars, Quiet, Live, Spent
  <2> QED BY <2>1, <2>2, <2>3 DEF SendersInv
<1>2. ASSUME NEW d \in Senders, NEW m \in Msgs, Send(d, m)
      PROVE  SendersInv' /\ NoneNewAgain /\ \E t \in Compositions : Composes(d, t)
  BY <1>2, SendStep DEF Composes
<1>3. ASSUME NEW d \in Senders, Calls(d) \/ Transmits(d) \/ Medium(d)
      PROVE  /\ SendersInv' /\ NoneNewAgain
             /\ Quiet \/ \E t \in Compositions : Composes(d, t)
  BY <1>2, <1>3, BeginCallStep, FindBusyStep, TransmitStep, SettleStep, MediumStep
     DEF Calls, Transmits, Medium
<1> QED BY <1>1, <1>3, StrayStep DEF Next

\* A message sent with send() is composed once: each transmission of it is of one
\* packet.
PacketsInv == \A p, q \in Live :
  /\ status[p.msg] # "new"
  /\ p.msg = q.msg /\ p.msg \notin ByCall => p = q

LEMMA LiveType ==
  ASSUME NEW p \in Live
  PROVE  p \in Packet /\ p.msg \in Msgs /\ p.from \in Senders /\ p.id \in Nat
BY NumbersAssumption DEF Live, Packet, Ids

LEMMA PacketsNext ==
  ASSUME SendersInv, PacketsInv, [Next]_vars
  PROVE  PacketsInv'
<1>1. ASSUME NEW p \in Live PROVE status'[p.msg] # "new"
  BY SendersNext, LiveType DEF PacketsInv, NoneNewAgain
<1>2. CASE Quiet BY <1>1, <1>2 DEF PacketsInv, Quiet
<1>3. ASSUME NEW d \in Senders, NEW t \in Compositions, Composes(d, t) PROVE PacketsInv'
  <2>1. PICK p0 : p0 = Composed(d, t[1]) OBVIOUS
  <2>2. /\ Live' \subseteq Live \cup {p0} /\ p0.msg = t[1] /\ status'[t[1]] # "new"
        /\ t[1] \notin ByCall => status[t[1]] = "new"
    BY <1>3, <2>1 DEF Composes, Composed
  <2>3. \A p \in Live : p.msg = t[1] => t[1] \in ByCall BY <2>2 DEF PacketsInv
  <2>4. \A p \in Live' : p \in Live \/ p = p0 BY <2>2
  <2> QED BY <1>1, <2>2, <2>3, <2>4 DEF PacketsInv
<1> QED BY <1>2, <1>3, SendersNext

LEMMA LoggedIsLive ==
  ASSUME TypeOK, NEW k \in DOMAIN log
  PROVE  log[k] \in Live
<1>1. log \in Seq(Packet) BY DEF TypeOK
<1>2. log[k] \in Packet BY <1>1
<1> QED BY <1>2 DEF Live

LEMMA SendersInit ==
  ASSUME Init
  PROVE  SendersInv /\ PacketsInv /\ Live = {}
<1>1. log = <<>> /\ DOMAIN log = {} BY DEF Init
<1>2. Live = {} BY <1>1 DEF Init, Live
<1> QED BY <1>2, LinkTypeInit DEF Init, SendersInv, CallsInv, ListsInv, PacketsInv

\* The copies of a message sent with send().
SendCopiesFarApart == \A j, k \in DOMAIN log :
  (j < k /\ log[j].msg = log[k].msg /\ log[j].msg \notin ByCall) => k - j > Window

\* In a session of any length, with packet ids and whatever the medium does, receive()
\* takes a message sent with send() a second time only after at least
\* PJON_MAX_RECENT_PACKET_IDS others that it took in between.
THEOREM SendCopiesFarApartHolds ==
  ASSUME PacketIds
  PROVE  Spec => []SendCopiesFarApart
<1>1. Init => SendersInv /\ PacketsInv /\ RingInv BY SendersInit, RingInit
<1>2. SendersInv /\ [Next]_vars => SendersInv' BY SendersNext
<1>3. SendersInv /\ PacketsInv /\ [Next]_vars => PacketsInv' BY PacketsNext
<1>4. RingInv /\ [Next]_vars => RingInv' BY RingNext
<1>5. SendersInv /\ PacketsInv /\ RingInv => SendCopiesFarApart
  <2> SUFFICES ASSUME SendersInv, PacketsInv, RingInv, NEW j \in DOMAIN log, NEW k \in DOMAIN log,
                      j < k, log[j].msg = log[k].msg, log[j].msg \notin ByCall
               PROVE  k - j > Window
    BY DEF SendCopiesFarApart
  <2>1. log[j] \in Live /\ log[k] \in Live BY LoggedIsLive DEF SendersInv, LinkTypeInv
  <2>2. log[j] = log[k] /\ log[j].from \in Senders BY <2>1, LiveType DEF PacketsInv
  <2>3. SameKey(log[j], log[k]) BY <2>2, SetsAssumption DEF SameKey, SameSender, Sender
  <2> QED BY <2>3 DEF RingInv, DuplicatesFarApart
<1> QED BY <1>1, <1>2, <1>3, <1>4, <1>5, PTL DEF Spec

\* As many things are named by the elements of T as T has, at most.
LEMMA NamedAtMost ==
  ASSUME NEW T, IsFiniteSet(T), NEW g, NEW S, NEW key,
         \A i, j \in S : key[i] = key[j] => i = j,
         \A i \in S : \E t \in T : g[t] = key[i]
  PROVE  Cardinality(S) <= Cardinality(T)
<1> DEFINE f == [i \in S |-> CHOOSE t \in T : g[t] = key[i]]
<1>1. \A i \in S : f[i] \in T /\ g[f[i]] = key[i] OBVIOUS
<1>2. f \in [S -> T] BY <1>1
<1> HIDE DEF f
<1>3. f \in Injection(S, T) BY <1>1, <1>2 DEF Injection, IsInjective
<1> QED BY <1>3, FS_Injection

\* g gives each id that was drawn, of its sender, a composition of the session.
DrawnInv(s0, g) == \A d \in Senders :
  /\ s0[d] <= seed[d]
  /\ \A i \in s0[d] + 1 .. seed[d] : \E t \in Spent : g[t] = <<d, i>>

\* Of one sender a packet is known by its id.
LiveInv(s0) ==
  /\ \A p \in Live : p.from = Owner[p.msg] /\ p.id \in s0[p.from] + 1 .. seed[p.from]
  /\ \A p, q \in Live : (p.from = q.from /\ p.id = q.id) => p = q

Seeds0 == [Senders -> InitialSeeds]
Names  == [Compositions -> Senders \X Nat]
IdsInv == \E s0 \in Seeds0, g \in Names : DrawnInv(s0, g) /\ LiveInv(s0)

LEMMA SeedTypes ==
  ASSUME TypeOK, NEW s0 \in Seeds0, NEW d \in Senders
  PROVE  s0[d] \in Nat /\ s0[d] \in InitialSeeds /\ seed[d] \in Nat
<1>1. Ids \subseteq Nat BY DEF Ids
<1>2. s0[d] \in InitialSeeds /\ InitialSeeds \subseteq Ids BY NumbersAssumption DEF Seeds0
<1>3. seed[d] \in Ids BY DEF TypeOK
<1> QED BY <1>1, <1>2, <1>3

\* The ids drawn by one sender are as many as the compositions, at most.
LEMMA DrawsFit ==
  ASSUME SessionFits, NEW g \in Names, NEW d \in Senders, NEW a \in Nat, NEW b \in Nat, a <= b,
         \A i \in a + 1 .. b : \E t \in Compositions : g[t] = <<d, i>>
  PROVE  Cardinality(Compositions) \in Nat /\ b - a <= Cardinality(Compositions)
<1> DEFINE S   == a + 1 .. b
           key == [i \in S |-> <<d, i>>]
<1>1. \A i, j \in S : key[i] = key[j] => i = j OBVIOUS
<1>2. \A i \in S : \E t \in Compositions : g[t] = key[i] OBVIOUS
<1>3. IsFiniteSet(Compositions) BY DEF SessionFits
<1>4. Cardinality(S) = IF a + 1 > b THEN 0 ELSE b - (a + 1) + 1 BY FS_Interval
<1>5. Cardinality(Compositions) \in Nat BY <1>3, FS_CardinalityType
<1> HIDE DEF S, key
<1>6. Cardinality(S) <= Cardinality(Compositions) BY <1>1, <1>2, <1>3, NamedAtMost
<1> QED BY <1>4, <1>5, <1>6

\* As long as no seed comes to its wrap the next id is the one above the seed.
LEMMA NextId ==
  ASSUME NEW s \in Nat, s + 1 < IdMod
  PROVE  (s + 1) % IdMod = s + 1 /\ NewPacketId(s) = s + 1
<1>1. \A m, n \in Nat : m < n => m % n = m OBVIOUS
<1>2. (s + 1) % IdMod = s + 1 BY <1>1, NumbersAssumption
<1> QED BY <1>2 DEF NewPacketId

LEMMA QuietKeepsIds ==
  ASSUME SendersInv, IdsInv, NoneNewAgain, Quiet
  PROVE  IdsInv'
<1>1. PICK s0 \in Seeds0, g \in Names : DrawnInv(s0, g) /\ LiveInv(s0) BY DEF IdsInv
<1>2. DrawnInv(s0, g)' BY <1>1 DEF DrawnInv, Quiet
<1>3. LiveInv(s0)' BY <1>1 DEF LiveInv, Quiet
<1> QED BY <1>2, <1>3 DEF IdsInv

\* The packet that is composed has an id its sender did not draw before.
LEMMA ComposingKeepsIds ==
  ASSUME SessionFits, SendersInv, IdsInv, NoneNewAgain, NEW d \in Senders, NEW t \in Compositions,
         Composes(d, t)
  PROVE  IdsInv'
<1>1. PICK s0 \in Seeds0, g \in Names : DrawnInv(s0, g) /\ LiveInv(s0) BY DEF IdsInv
<1>0. PICK n, g2, p0 : n = seed[d] + 1 /\ g2 = [g EXCEPT ![t] = <<d, n>>] /\ p0 = Composed(d, t[1])
  OBVIOUS
<1>2. s0[d] \in Nat /\ s0[d] \in InitialSeeds /\ seed[d] \in Nat /\ s0[d] <= seed[d] /\ TypeOK
  BY <1>1, SeedTypes DEF SendersInv, LinkTypeInv, DrawnInv
<1>3. g2 \in Names /\ g2[t] = <<d, n>> /\ \A u \in Compositions : u # t => g2[u] = g[u]
  BY <1>0, <1>2 DEF Names
<1>4. ASSUME NEW e \in Senders, NEW i \in s0[e] + 1 .. seed[e] PROVE \E u \in Spent : g2[u] = <<e, i>>
  <2>1. PICK u \in Spent : g[u] = <<e, i>> BY <1>1 DEF DrawnInv
  <2>2. u # t /\ u \in Compositions BY DEF Composes, Spent
  <2> QED BY <1>3, <2>1, <2>2
<1>5. \A i \in s0[d] + 1 .. n : i \in s0[d] + 1 .. seed[d] \/ i = n BY <1>0, <1>2
<1>6. \A i \in s0[d] + 1 .. n : \E u \in Compositions : g2[u] = <<d, i>>
  BY <1>3, <1>4, <1>5 DEF Spent
<1>7. n - s0[d] <= Cardinality(Compositions) /\ Cardinality(Compositions) \in Nat
  <2>1. n \in Nat /\ s0[d] <= n BY <1>0, <1>2
  <2> QED BY <1>2, <1>3, <1>6, <2>1, DrawsFit
<1>8. n < IdMod
  <2>1. s0[d] + Cardinality(Compositions) < IdMod BY <1>2 DEF SessionFits
  <2> QED BY <1>0, <1>2, <1>7, <2>1, NumbersAssumption
<1>9. (seed[d] + 1) % IdMod = n /\ NewPacketId(seed[d]) = n BY <1>0, <1>2, <1>8, NextId
<1>10. seed'[d] = n /\ \A e \in Senders : e # d => seed'[e] = seed[e]
  BY <1>0, <1>2, <1>9 DEF Composes, DrawId, SessionFits, TypeOK
<1>11. p0.id = n /\ p0.from = d /\ p0.msg = t[1] BY <1>0, <1>9 DEF Composed, SessionFits
<1>12. Owner[t[1]] = d /\ Spent \cup {t} \subseteq Spent' /\ Live' \subseteq Live \cup {p0}
  BY <1>0, CompositionType DEF Composes
<1>13. DrawnInv(s0, g2)'
  <2>1. s0[d] <= seed'[d] BY <1>0, <1>2, <1>10
  <2>2. ASSUME NEW i \in s0[d] + 1 .. seed'[d] PROVE \E u \in Spent' : g2[u] = <<d, i>>
    <3>1. i = n \/ i \in s0[d] + 1 .. seed[d] BY <1>5, <1>10
    <3> QED BY <1>3, <1>4, <1>12, <3>1
  <2>3. ASSUME NEW e \in Senders, e # d
        PROVE  s0[e] <= seed'[e] /\ \A i \in s0[e] + 1 .. seed'[e] : \E u \in Spent' : g2[u] = <<e, i>>
    BY <1>1, <1>4, <1>10, <1>12, <2>3 DEF DrawnInv
  <2> QED BY <2>1, <2>2, <2>3 DEF DrawnInv
<1>14. ASSUME NEW p \in Live
       PROVE  /\ p.from = Owner[p.msg] /\ p.id \in s0[p.from] + 1 .. seed'[p.from]
              /\ p.from = d => p.id # n
  <2>1. p.from \in Senders BY LiveType
  <2>2. p.from = Owner[p.msg] /\ p.id \in s0[p.from] + 1 .. seed[p.from] BY <1>1 DEF LiveInv
  <2>3. p.from = d => p.id \in s0[p.from] + 1 .. seed'[p.from] /\ p.id # n
    BY <1>0, <1>2, <1>10, <2>2
  <2>4. p.from # d => p.id \in s0[p.from] + 1 .. seed'[p.from] BY <1>10, <2>1, <2>2
  <2> QED BY <2>2, <2>3, <2>4
<1>15. p0.id \in s0[d] + 1 .. seed'[d] BY <1>0, <1>2, <1>10, <1>11
<1>16. LiveInv(s0)'
  <2>1. \A p \in Live' : p \in Live \/ p = p0 BY <1>12
  <2>2. \A p \in Live' : p.from = Owner[p.msg] /\ p.id \in s0[p.from] + 1 .. seed'[p.from]
    BY <1>11, <1>12, <1>14, <1>15, <2>1
  <2>3. \A p, q \in Live' : (p.from = q.from /\ p.id = q.id) => p = q
    BY <1>1, <1>11, <1>14, <2>1 DEF LiveInv
  <2> QED BY <2>2, <2>3 DEF LiveInv
<1> QED BY <1>3, <1>13, <1>16 DEF IdsInv

\* What the table holds was logged or was there at the start.
RecordsInv == \A k \in 1 .. Window :
  \/ \E j \in DOMAIN log : recent[k] = [id |-> log[j].id, from |-> Identity[log[j].from]]
  \/ \E r \in InitialRings : \E i \in 1 .. Window : recent[k] = r[i]

\* No packet is handed over twice.
LogInv == \A j, k \in DOMAIN log : log[j] = log[k] => j = k

\* An answer on its way to a sender is for a packet that was handed over or refused by
\* port: at this frame or at an earlier one with that id, which was the same packet.
AckInv == \A d \in Senders :
  (flight[d] # NoFlight /\ flight[d].phase = "acked") => \E k \in DOMAIN log : log[k] = flight[d].pkt

DeliveryInv == SendersInv /\ PacketsInv /\ RingInv /\ IdsInv /\ RecordsInv /\ LogInv /\ AckInv

\* A packet of the session that the table knows is one that was logged.
LEMMA KnownIsLogged ==
  ASSUME SessionFits, DeliveryInv, NEW p \in Live, Known(p)
  PROVE  \E k \in DOMAIN log : log[k] = p
<1> USE DEF DeliveryInv, SendersInv, LinkTypeInv
<1>1. PICK s0 \in Seeds0, g \in Names : DrawnInv(s0, g) /\ LiveInv(s0) BY DEF IdsInv
<1>2. PICK k \in 1 .. Window : recent[k].id = p.id /\ SameSender(recent[k].from, Identity[p.from])
  BY DEF Known
<1>3. p.from \in Senders /\ p.id \in Nat BY LiveType
<1>4. ASSUME NEW j \in DOMAIN log, recent[k] = [id |-> log[j].id, from |-> Identity[log[j].from]]
      PROVE  log[j] = p
  <2>1. log[j] \in Live /\ log[j].from \in Senders BY LoggedIsLive, LiveType
  <2>2. log[j].id = p.id /\ SameSender(Identity[log[j].from], Identity[p.from]) BY <1>2, <1>4
  <2>3. log[j].from = p.from BY <1>3, <2>1, <2>2 DEF SessionFits
  <2> QED BY <1>1, <2>1, <2>2, <2>3 DEF LiveInv
<1>5. ASSUME NEW r \in InitialRings, NEW i \in 1 .. Window, recent[k] = r[i] PROVE FALSE
  <2> DEFINE d == p.from
             c == Cardinality(Compositions)
  <2>1. s0[d] \in Nat /\ s0[d] \in InitialSeeds /\ seed[d] \in Nat BY <1>3, SeedTypes
  <2>2. s0[d] <= seed[d] /\ p.id \in s0[d] + 1 .. seed[d] BY <1>1, <1>3 DEF DrawnInv, LiveInv
  <2>3. \A x \in s0[d] + 1 .. seed[d] : \E t \in Compositions : g[t] = <<d, x>>
    BY <1>1, <1>3 DEF DrawnInv, Spent
  <2>4. c \in Nat /\ seed[d] - s0[d] <= c BY <1>3, <2>1, <2>2, <2>3, DrawsFit
  <2>5. p.id \notin s0[d] + 1 .. s0[d] + c BY <1>2, <1>3, <1>5, <2>1 DEF SessionFits
  <2> HIDE DEF c
  <2> QED BY <1>3, <2>1, <2>2, <2>4, <2>5
<1> QED BY <1>4, <1>5 DEF RecordsInv

\* A packet of the session that receive() takes for an unknown one was not logged.
LEMMA TakenIsNew ==
  ASSUME SessionFits, DeliveryInv, DuplicatesFarApart', NEW p \in Live, log' = Append(log, p),
         NEW j \in DOMAIN log, log[j] = p
  PROVE  FALSE
<1> USE DEF DeliveryInv, SendersInv, LinkTypeInv
<1> DEFINE n == Len(log)
<1>1. PICK s0 \in Seeds0, g \in Names : DrawnInv(s0, g) /\ LiveInv(s0) BY DEF IdsInv
<1>2. n \in Nat /\ log \in Seq(Packet) /\ DOMAIN log = 1 .. n /\ j \in 1 .. n BY DEF TypeOK
<1>3. DOMAIN log' = 1 .. n + 1 /\ log'[n + 1] = p /\ log'[j] = p BY <1>2, LiveType
<1>4. p.from \in Senders BY LiveType
<1>5. SameKey(p, p) BY <1>4, SetsAssumption DEF SameKey, SameSender, Sender
<1>6. n + 1 - j > Window
  <2>1. \A x, y \in DOMAIN log' : (x < y /\ SameKey(log'[x], log'[y])) => y - x > Window
    BY DEF DuplicatesFarApart, SessionFits, SameKey, SameSender
  <2>2. j \in DOMAIN log' /\ n + 1 \in DOMAIN log' /\ j < n + 1 BY <1>2, <1>3
  <2> QED BY <1>3, <1>5, <2>1, <2>2
<1> DEFINE S   == j .. n
           key == [i \in S |-> <<log[i].from, log[i].id>>]
<1>7. \A i \in S : i \in DOMAIN log /\ log[i] \in Live
  <2>1. \A i \in S : i \in DOMAIN log BY <1>2
  <2> QED BY <2>1, LoggedIsLive
<1>8. \A i, k \in S : key[i] = key[k] => i = k BY <1>1, <1>7 DEF LiveInv, LogInv
<1>9. \A i \in S : \E t \in Compositions : g[t] = key[i]
  <2> SUFFICES ASSUME NEW i \in S PROVE \E t \in Compositions : g[t] = <<log[i].from, log[i].id>>
    OBVIOUS
  <2>1. log[i].from \in Senders /\ log[i].id \in s0[log[i].from] + 1 .. seed[log[i].from]
    BY <1>1, <1>7, LiveType DEF LiveInv
  <2> QED BY <1>1, <2>1 DEF DrawnInv, Spent
<1>10. Cardinality(S) = n - j + 1 BY <1>2, FS_Interval
<1>11. /\ IsFiniteSet(Compositions) /\ Cardinality(Compositions) <= Window
       /\ Cardinality(Compositions) \in Nat
  BY FS_CardinalityType DEF SessionFits
<1> HIDE DEF S, key
<1>12. Cardinality(S) <= Cardinality(Compositions) BY <1>8, <1>9, <1>11, NamedAtMost
<1> HIDE DEF n
<1> QED BY <1>2, <1>6, <1>10, <1>11, <1>12, NumbersAssumption

\* What receive() leaves of the table and the log.
LEMMA AcceptKeepsLog ==
  ASSUME SessionFits, DeliveryInv, DuplicatesFarApart', NEW p \in Live, Accept(p)
  PROVE  /\ RecordsInv' /\ LogInv'
         /\ \A k \in DOMAIN log : k \in DOMAIN log' /\ log'[k] = log[k]
         /\ \E k \in DOMAIN log' : log'[k] = p
<1>1. CASE Known(p)
  <2>1. UNCHANGED <<recent, log>> BY <1>1 DEF Accept, SessionFits
  <2> QED BY <1>1, <2>1, KnownIsLogged DEF RecordsInv, LogInv, DeliveryInv
<1>2. CASE ~Known(p)
  <2> DEFINE n == Len(log)
  <2>1. log' = Append(log, p) /\ Save(p) BY <1>2 DEF Accept, SessionFits
  <2>2. n \in Nat /\ log \in Seq(Packet) /\ DOMAIN log = 1 .. n /\ p \in Packet
    BY LiveType DEF DeliveryInv, SendersInv, LinkTypeInv, TypeOK
  <2>3. DOMAIN log' = 1 .. n + 1 /\ log'[n + 1] = p /\ \A k \in 1 .. n : log'[k] = log[k]
    BY <2>1, <2>2
  <2> HIDE DEF n
  <2>4. \A k \in 1 .. n + 1 : k \in 1 .. n \/ k = n + 1 BY <2>2
  <2>5. \A k \in DOMAIN log : k \in DOMAIN log' /\ log'[k] = log[k] BY <2>2, <2>3
  <2>6. n + 1 \in DOMAIN log' BY <2>2, <2>3
  <2>7. \A k \in 1 .. n : log[k] # p BY <2>1, <2>2, TakenIsNew
  <2>8. LogInv' BY <2>2, <2>3, <2>4, <2>7 DEF LogInv, DeliveryInv
  <2>9. RecordsInv'
    <3> SUFFICES ASSUME NEW k \in 1 .. Window
                 PROVE  \/ \E j \in DOMAIN log' :
                             recent'[k] = [id |-> log'[j].id, from |-> Identity[log'[j].from]]
                        \/ \E r \in InitialRings : \E i \in 1 .. Window : recent'[k] = r[i]
      BY DEF RecordsInv
    <3>1. CASE k = 1 BY <2>1, <2>3, <2>6, <3>1 DEF Save
    <3>2. CASE k # 1
      <4>1. recent'[k] = recent[k - 1] /\ k - 1 \in 1 .. Window BY <2>1, <3>2, NumbersAssumption DEF Save
      <4>2. CASE \E j \in DOMAIN log :
                   recent[k - 1] = [id |-> log[j].id, from |-> Identity[log[j].from]]
        BY <2>5, <4>1, <4>2
      <4>3. CASE \E r \in InitialRings : \E i \in 1 .. Window : recent[k - 1] = r[i]
        BY <4>1, <4>3
      <4> QED BY <4>1, <4>2, <4>3 DEF RecordsInv, DeliveryInv
    <3> QED BY <3>1, <3>2
  <2> QED BY <2>3, <2>5, <2>6, <2>8, <2>9
<1> QED BY <1>1, <1>2

LEMMA DeliveryInit ==
  ASSUME Init, SessionFits
  PROVE  DeliveryInv
<1>1. SendersInv /\ PacketsInv /\ RingInv /\ Live = {} BY SendersInit, RingInit
<1>2. AckInv BY DEF Init, AckInv
<1>3. log = <<>> /\ DOMAIN log = {} /\ recent \in InitialRings BY DEF Init
<1>4. RecordsInv /\ LogInv BY <1>3 DEF RecordsInv, LogInv
<1>5. IdsInv
  <2>1. seed \in Seeds0 /\ \A d \in Senders : seed[d] \in Ids
    BY NumbersAssumption DEF Init, Seeds0
  <2>3. \A d \in Senders : seed[d] \in Nat /\ seed[d] + 1 .. seed[d] = {} BY <2>1 DEF Ids
  <2>4. \E g : g \in Names
    <3>1. CASE Senders = {}
      <4>1. Compositions = {} BY <3>1, SetsAssumption DEF Compositions
      <4>2. [t \in Compositions |-> 0] \in Names BY <4>1 DEF Names
      <4> QED BY <4>2
    <3>2. CASE Senders # {}
      <4>1. PICK d \in Senders : TRUE BY <3>2
      <4>2. [t \in Compositions |-> <<d, 0>>] \in Names BY DEF Names
      <4> QED BY <4>2
    <3> QED BY <3>1, <3>2
  <2>5. PICK s0 \in Seeds0, g \in Names : s0 = seed BY <2>1, <2>4
  <2>6. DrawnInv(s0, g) BY <2>3, <2>5 DEF DrawnInv
  <2>7. LiveInv(s0) BY <1>1 DEF LiveInv
  <2> QED BY <2>6, <2>7 DEF IdsInv
<1> QED BY <1>1, <1>2, <1>4, <1>5 DEF DeliveryInv

LEMMA DeliveryNext ==
  ASSUME SessionFits, DeliveryInv, [Next]_vars
  PROVE  DeliveryInv'
<1> USE DEF DeliveryInv
<1>1. RingInv' /\ DuplicatesFarApart' BY RingNext DEF RingInv
<1>2. /\ SendersInv' /\ NoneNewAgain /\ PacketsInv'
      /\ Quiet \/ \E d \in Senders : \E t \in Compositions : Composes(d, t)
  BY SendersNext, PacketsNext
<1>3. IdsInv' BY <1>2, QuietKeepsIds, ComposingKeepsIds
<1>4. TypeOK BY DEF SendersInv, LinkTypeInv
<1>5. CASE UNCHANGED <<recent, log>> /\ ~\E d \in Senders : Receive(d)
  <2>1. RecordsInv' /\ LogInv' BY <1>5 DEF RecordsInv, LogInv
  <2>2. \A s \in Senders : \/ flight'[s] = flight[s]
                           \/ flight'[s] = NoFlight \/ flight'[s].phase # "acked"
    <3>1. ASSUME NEW d \in Senders, Calls(d) \/ Transmits(d) \/ Lose(d)
          PROVE  \A s \in Senders : \/ flight'[s] = flight[s]
                                    \/ flight'[s] = NoFlight \/ flight'[s].phase # "acked"
      <4>1. \A s \in Senders : s # d => flight'[s] = flight[s]
        BY <1>4, <3>1 DEF Calls, Transmits, Send, BeginCall, FindBusy, Transmit, Succeed, TimeOut,
                          Lose, TypeOK
      <4>2. \/ flight'[d] = flight[d] \/ flight'[d] = NoFlight \/ flight'[d].phase # "acked"
        <5>1. CASE Calls(d) \/ FindBusy(d)
          BY <5>1 DEF Calls, Send, BeginCall, FindBusy
        <5>2. CASE Succeed(d) \/ TimeOut(d) BY <1>4, <5>2 DEF Succeed, TimeOut, TypeOK
        <5>3. CASE Lose(d) BY <1>4, <5>3 DEF Lose, Moved, TypeOK
        <5>4. CASE Transmit(d) BY <1>4, <5>4 DEF Transmit, TypeOK
        <5> QED BY <3>1, <5>1, <5>2, <5>3, <5>4 DEF Transmits
      <4> QED BY <4>1, <4>2
    <3> QED BY <1>5, <3>1 DEF Next, vars, Medium, ReceiveStray, LoseStray
  <2>3. AckInv' BY <1>5, <2>2 DEF AckInv
  <2> QED BY <1>1, <1>2, <1>3, <2>1, <2>3
<1>6. ASSUME NEW d \in Senders, Receive(d) PROVE DeliveryInv'
  <2>1. flight[d] # NoFlight /\ Accept(flight[d].pkt)
        /\ \E x : flight' = [flight EXCEPT ![d] = Moved(flight[d], x)]
    BY <1>6 DEF Receive
  <2>2. flight[d].pkt \in Live BY <1>4, <2>1, FlightType DEF Live
  <2>3. /\ RecordsInv' /\ LogInv'
        /\ \A k \in DOMAIN log : k \in DOMAIN log' /\ log'[k] = log[k]
        /\ \E k \in DOMAIN log' : log'[k] = flight[d].pkt
    BY <1>1, <2>1, <2>2, AcceptKeepsLog
  <2>4. flight'[d].pkt = flight[d].pkt /\ \A s \in Senders : s # d => flight'[s] = flight[s]
    BY <1>4, <2>1 DEF TypeOK, Moved
  <2>5. AckInv' BY <2>3, <2>4 DEF AckInv
  <2> QED BY <1>1, <1>2, <1>3, <2>3, <2>5
<1>7. ASSUME NEW p \in strays, ReceiveStray(p) PROVE DeliveryInv'
  <2>1. p \in Live BY <1>4 DEF Live, TypeOK
  <2>2. /\ RecordsInv' /\ LogInv'
        /\ \A k \in DOMAIN log : k \in DOMAIN log' /\ log'[k] = log[k]
    BY <1>1, <1>7, <2>1, AcceptKeepsLog DEF ReceiveStray
  <2>3. UNCHANGED flight BY <1>7 DEF ReceiveStray
  <2>4. AckInv' BY <2>2, <2>3 DEF AckInv
  <2> QED BY <1>1, <1>2, <1>3, <2>2, <2>4
<1>8. \/ UNCHANGED <<recent, log>>
      \/ \E d \in Senders : Receive(d)
      \/ \E p \in strays : ReceiveStray(p)
  BY DEF Next, vars, Calls, Transmits, Medium, Send, BeginCall, FindBusy, Transmit,
         Succeed, TimeOut, Lose, LoseStray
<1> QED BY <1>5, <1>6, <1>7, <1>8

\* What the recipient's receiver function was given is a copy of each message at most.
OneCopyEach == \A m \in Served : \A j, k \in DOMAIN log :
                 (log[j].msg = m /\ log[k].msg = m) => j = k

LEMMA DeliveryOneCopy == SessionFits /\ DeliveryInv => OneCopyEach
<1> SUFFICES ASSUME SessionFits, DeliveryInv PROVE OneCopyEach OBVIOUS
<1> USE DEF DeliveryInv, SendersInv, LinkTypeInv
<1>1. \A k \in DOMAIN log : log[k] \in Live BY LoggedIsLive
<1> QED BY <1>1 DEF OneCopyEach, PacketsInv, LogInv, SessionFits

LEMMA CountOne ==
  ASSUME NEW S, \A j, k \in S : j = k
  PROVE  Cardinality(S) = IF S = {} THEN 0 ELSE 1
<1>1. CASE S = {} BY <1>1, FS_EmptySet
<1>2. CASE S # {}
  <2>1. PICK x \in S : TRUE BY <1>2
  <2>2. S = {x} BY <2>1
  <2> QED BY <1>2, <2>2, FS_Singleton
<1> QED BY <1>1, <1>2

\* The copies of a message in a log that holds one of each at most.
LEMMA CopiesIn ==
  ASSUME NEW l, NEW m, \A j, k \in DOMAIN l : (l[j].msg = m /\ l[k].msg = m) => j = k
  PROVE  Cardinality({k \in DOMAIN l : l[k].msg = m})
           = IF \E k \in DOMAIN l : l[k].msg = m THEN 1 ELSE 0
<1> DEFINE S == {k \in DOMAIN l : l[k].msg = m}
<1>1. \A j, k \in S : j = k OBVIOUS
<1>2. S = {} <=> ~\E k \in DOMAIN l : l[k].msg = m OBVIOUS
<1> HIDE DEF S
<1>3. Cardinality(S) = IF S = {} THEN 0 ELSE 1 BY <1>1, CountOne
<1> QED BY <1>2, <1>3 DEF S

\* The variables of the abstract specification.
statusOf == [m \in Served |-> status[m]]
copiesOf == [m \in Served |-> Copies(m)]

\* A step that logs nothing and leaves the fates of the served messages alone, or
\* decides one of them as its sender may, is one of the abstract specification.
LEMMA FateRefines ==
  ASSUME TypeOK, OneCopyEach, UNCHANGED log, NEW m \in Msgs, NEW x,
         status' = [status EXCEPT ![m] = x],
         m \in Served =>
           \/ x = "pending" /\ status[m] = "new"
           \/ x = "lost" /\ status[m] = "pending"
           \/ /\ x = "confirmed" /\ status[m] = "pending"
              /\ m \in Acked => \E k \in DOMAIN log : log[k].msg = m
  PROVE  Abstract!Next \/ UNCHANGED Abstract!vars
<1>1. copiesOf' = copiesOf BY DEF copiesOf, Copies, Served
<1>2. CASE m \notin Served
  <2>1. statusOf' = statusOf BY <1>2 DEF statusOf, TypeOK, Served
  <2> QED BY <1>1, <2>1 DEF Abstract!vars, statusOf, copiesOf
<1>3. CASE m \in Served
  <2>1. statusOf' = [statusOf EXCEPT ![m] = x] /\ statusOf[m] = status[m]
    BY <1>3 DEF statusOf, TypeOK, Served
  <2>2. ASSUME m \in Acked, \E k \in DOMAIN log : log[k].msg = m PROVE copiesOf[m] = 1
    BY <1>3, <2>2, CopiesIn DEF copiesOf, Copies, OneCopyEach
  <2>3. Abstract!Take(m) \/ Abstract!GiveUp(m) \/ Abstract!Confirm(m)
    BY <1>1, <1>3, <2>1, <2>2
       DEF Abstract!Take, Abstract!GiveUp, Abstract!Confirm, statusOf, copiesOf
  <2> QED BY <1>3, <2>3 DEF Abstract!Next
<1> QED BY <1>2, <1>3

\* The frame that is logged is the one arrival of its message.
LEMMA LogRefines ==
  ASSUME DeliveryInv, OneCopyEach, OneCopyEach', NEW p \in Live, UNCHANGED status,
         UNCHANGED log \/ log' = Append(log, p)
  PROVE  Abstract!Next \/ UNCHANGED Abstract!vars
<1> USE DEF DeliveryInv, SendersInv, LinkTypeInv
<1>1. statusOf' = statusOf BY DEF statusOf, Served
<1>2. CASE UNCHANGED log
  <2>1. copiesOf' = copiesOf BY <1>2 DEF copiesOf, Copies, Served
  <2> QED BY <1>1, <2>1 DEF Abstract!vars, statusOf, copiesOf
<1>3. CASE log' = Append(log, p)
  <2> DEFINE n == Len(log)
  <2>1. n \in Nat /\ log \in Seq(Packet) /\ DOMAIN log = 1 .. n /\ p \in Packet /\ p.msg \in Msgs
    BY LiveType DEF TypeOK
  <2>2. DOMAIN log' = 1 .. n + 1 /\ log'[n + 1] = p /\ \A k \in 1 .. n : log'[k] = log[k]
    BY <1>3, <2>1
  <2> HIDE DEF n
  <2>3. \A k \in 1 .. n + 1 : k \in 1 .. n \/ k = n + 1 BY <2>1
  <2>4. \A m : (\E k \in DOMAIN log' : log'[k].msg = m)
                 <=> ((\E k \in DOMAIN log : log[k].msg = m) \/ p.msg = m)
    BY <2>1, <2>2, <2>3
  <2>5. \A m \in Served : copiesOf[m] = IF \E k \in DOMAIN log : log[k].msg = m THEN 1 ELSE 0
    BY CopiesIn DEF copiesOf, Copies, OneCopyEach
  <2>6. \A m \in Served : copiesOf'[m] = IF \E k \in DOMAIN log' : log'[k].msg = m THEN 1 ELSE 0
    BY CopiesIn DEF copiesOf, Copies, OneCopyEach, Served
  <2>7. DOMAIN copiesOf = Served /\ DOMAIN copiesOf' = Served /\ copiesOf = [m \in Served |-> copiesOf[m]]
        /\ copiesOf' = [m \in Served |-> copiesOf'[m]]
    BY DEF copiesOf, Served
  <2>8. CASE p.msg \notin Served
    <3>1. \A m \in Served : copiesOf'[m] = copiesOf[m] BY <2>4, <2>5, <2>6, <2>8
    <3>2. copiesOf' = copiesOf BY <2>7, <3>1
    <3> QED BY <1>1, <3>2 DEF Abstract!vars, statusOf, copiesOf
  <2>9. CASE p.msg \in Served
    <3>1. \A k \in 1 .. n : log[k].msg # p.msg
      <4> SUFFICES ASSUME NEW k \in 1 .. n, log[k].msg = p.msg PROVE FALSE OBVIOUS
      <4>1. \A j, i \in DOMAIN log' : (log'[j].msg = p.msg /\ log'[i].msg = p.msg) => j = i
        BY <2>9 DEF OneCopyEach, Served
      <4>2. k \in DOMAIN log' /\ n + 1 \in DOMAIN log' /\ k # n + 1 BY <2>1, <2>2
      <4> QED BY <2>2, <4>1, <4>2
    <3>2. copiesOf[p.msg] = 0 /\ copiesOf'[p.msg] = 1 BY <2>1, <2>4, <2>5, <2>6, <2>9, <3>1
    <3>3. \A m \in Served : m # p.msg => copiesOf'[m] = copiesOf[m] BY <2>4, <2>5, <2>6
    <3>4. copiesOf' = [copiesOf EXCEPT ![p.msg] = 1] BY <2>7, <3>2, <3>3
    <3>5. statusOf[p.msg] # "new"
      <4>1. status[p.msg] # "new" BY DEF PacketsInv
      <4> QED BY <2>9, <4>1 DEF statusOf
    <3>6. Abstract!Arrive(p.msg) BY <1>1, <3>2, <3>4, <3>5 DEF Abstract!Arrive, statusOf, copiesOf
    <3> QED BY <2>9, <3>6 DEF Abstract!Next
  <2> QED BY <2>8, <2>9
<1> QED BY <1>2, <1>3

\* The result of send_packet() confirms a message that was logged, or gives one up.
LEMMA ResultRefines ==
  ASSUME SessionFits, DeliveryInv, OneCopyEach, UNCHANGED log, NEW d \in Senders, NEW via, NEW p,
         NEW ok \in BOOLEAN, via = "list" \/ call[d] # NoCall, Result(d, via, p, ok),
         (ok /\ via = "list" /\ p.msg \in Acked) => \E k \in DOMAIN log : log[k] = p
  PROVE  Abstract!Next \/ UNCHANGED Abstract!vars
<1> USE DEF DeliveryInv, SendersInv, LinkTypeInv
<1>1. CASE UNCHANGED status
  BY <1>1 DEF Abstract!vars, Copies, Served
<1>2. CASE via = "list" /\ ~UNCHANGED status
  <2>1. PICK e \in list[d] : e.pkt = p /\ ListResult(d, e, ok) BY <1>2 DEF Result
  <2>2. e.pkt.msg \in Msgs /\ (e.pkt.msg \in Served => status[e.pkt.msg] = "pending")
    BY <2>1 DEF TypeOK, Entry, Packet, ListsInv, SessionFits
  <2>3. status' = [status EXCEPT ![e.pkt.msg] = IF ok THEN "confirmed" ELSE "lost"]
    BY <1>2, <2>1 DEF ListResult
  <2>4. (ok /\ e.pkt.msg \in Acked) => \E k \in DOMAIN log : log[k].msg = e.pkt.msg
    BY <1>2, <2>1
  <2>5. CASE ok BY <2>2, <2>3, <2>4, <2>5, FateRefines
  <2>6. CASE ~ok BY <2>2, <2>3, <2>6, FateRefines
  <2> QED BY <2>5, <2>6
<1>3. CASE via # "list" /\ ~UNCHANGED status
  <2>1. call[d].msg \in Msgs /\ call[d].msg \notin Served
    BY <1>3, CallType DEF CallsInv, SessionFits
  <2>2. status' = [status EXCEPT ![call[d].msg] = IF ok THEN "confirmed" ELSE "lost"]
    BY <1>3 DEF Result, CallResult, CallEnds, CallGoesOn
  <2> QED BY <2>1, <2>2, FateRefines
<1> QED BY <1>1, <1>2, <1>3

LEMMA StepRefines ==
  ASSUME SessionFits, DeliveryInv, OneCopyEach, OneCopyEach', [Next]_vars
  PROVE  Abstract!Next \/ UNCHANGED Abstract!vars
<1> USE DEF DeliveryInv, SendersInv, LinkTypeInv
<1>1. CASE UNCHANGED <<status, log>>
  BY <1>1 DEF Abstract!vars, Copies, Served
<1>2. ASSUME NEW d \in Senders, NEW m \in Msgs, Send(d, m) \/ BeginCall(d, m)
      PROVE  Abstract!Next \/ UNCHANGED Abstract!vars
  <2>1. UNCHANGED log /\ status' = [status EXCEPT ![m] = "pending"] /\ status[m] = "new"
    BY <1>2 DEF Send, BeginCall
  <2> QED BY <2>1, FateRefines
<1>3. ASSUME NEW d \in Senders, FindBusy(d) PROVE Abstract!Next \/ UNCHANGED Abstract!vars
  <2>1. PICK tp \in ToTransmit(d) : Result(d, tp[1], tp[2], FALSE) /\ UNCHANGED log
    BY <1>3 DEF FindBusy
  <2>2. tp[1] = "list" \/ call[d] # NoCall BY ToTransmitType
  <2> QED BY <2>1, <2>2, ResultRefines
<1>4. ASSUME NEW d \in Senders, Succeed(d) \/ TimeOut(d)
      PROVE  Abstract!Next \/ UNCHANGED Abstract!vars
  <2>1. flight[d] # NoFlight /\ UNCHANGED log BY <1>4 DEF Succeed, TimeOut
  <2>2. PICK ok \in BOOLEAN : /\ Result(d, flight[d].via, flight[d].pkt, ok)
                              /\ ok => flight[d].phase = "acked" \/ flight[d].pkt.msg \notin Acked
    BY <1>4 DEF Succeed, TimeOut
  <2>3. flight[d].via = "list" \/ call[d] # NoCall BY <2>1, FlightType DEF CallRuns, Flight
  <2>4. (ok /\ flight[d].pkt.msg \in Acked) => \E k \in DOMAIN log : log[k] = flight[d].pkt
    BY <2>1, <2>2 DEF AckInv
  <2> QED BY <2>1, <2>2, <2>3, <2>4, ResultRefines
<1>5. ASSUME NEW d \in Senders, Receive(d) PROVE Abstract!Next \/ UNCHANGED Abstract!vars
  <2>1. flight[d] # NoFlight /\ Accept(flight[d].pkt) /\ UNCHANGED status BY <1>5 DEF Receive
  <2>2. flight[d].pkt \in Live BY <2>1, FlightType DEF Live
  <2>3. UNCHANGED log \/ log' = Append(log, flight[d].pkt) BY <2>1 DEF Accept
  <2> QED BY <2>1, <2>2, <2>3, LogRefines
<1>6. ASSUME NEW p \in strays, ReceiveStray(p) PROVE Abstract!Next \/ UNCHANGED Abstract!vars
  <2>1. Accept(p) /\ UNCHANGED status BY <1>6 DEF ReceiveStray
  <2>2. p \in Live BY DEF Live, TypeOK
  <2>3. UNCHANGED log \/ log' = Append(log, p) BY <2>1 DEF Accept
  <2> QED BY <2>1, <2>2, <2>3, LogRefines
<1>7. ASSUME NEW d \in Senders, Calls(d) \/ Transmits(d) \/ Medium(d)
      PROVE  Abstract!Next \/ UNCHANGED Abstract!vars
  <2>1. Transmit(d) \/ Lose(d) => UNCHANGED <<status, log>> BY DEF Transmit, Lose
  <2> QED BY <1>1, <1>2, <1>3, <1>4, <1>5, <1>7, <2>1 DEF Calls, Transmits, Medium
<1>8. ASSUME NEW p \in strays, LoseStray(p) PROVE Abstract!Next \/ UNCHANGED Abstract!vars
  BY <1>1, <1>8 DEF LoseStray
<1> QED BY <1>1, <1>6, <1>7, <1>8 DEF Next, vars

\* In a session that fits the table of recent ids, for any number of senders and
\* messages and on every medium that loses, delays or repeats frames, the link
\* implements acknowledged at-most-once delivery: receive() hands no message over
\* twice, none that was not sent, and none is confirmed that asked for an
\* acknowledgement and did not arrive.
THEOREM DeliveryHolds ==
  ASSUME SessionFits
  PROVE  Spec => Delivery
<1>1. Init => DeliveryInv BY DeliveryInit
<1>2. DeliveryInv /\ [Next]_vars => DeliveryInv' BY DeliveryNext
<1>3. DeliveryInv => OneCopyEach BY DeliveryOneCopy
<1>4. Init => Abstract!Init
  <2> SUFFICES ASSUME Init PROVE Abstract!Init OBVIOUS
  <2>1. \A m \in Served : status[m] = "new" BY DEF Init, Served
  <2>2. \A m \in Served : Copies(m) = 0
    <3>1. log = <<>> /\ DOMAIN log = {} BY DEF Init
    <3>2. \A m : {k \in DOMAIN log : log[k].msg = m} = {} BY <3>1
    <3> QED BY <3>2, FS_EmptySet DEF Copies
  <2> QED BY <2>1, <2>2 DEF Abstract!Init
<1>5. DeliveryInv /\ OneCopyEach /\ OneCopyEach' /\ [Next]_vars => [Abstract!Next]_(Abstract!vars)
  BY StepRefines
<1> QED BY <1>1, <1>2, <1>3, <1>4, <1>5, PTL DEF Spec, Delivery, Abstract!Spec
=============================================================================
