---------------------------- MODULE PJONUdp_proofs ----------------------------
(***************************************************************************)
(* What holds of the tables of nodes of PJONUdp, and of what its           *)
(* acknowledgements say, for every number of devices, every size and       *)
(* limit, and any losses, moves and delays.                                *)
(***************************************************************************)
EXTENDS PJONUdp, WellFoundedInduction, TLAPS

Limit    == MaxTries * Failures
NodeType == [id: Devices, at: Nat, attempts: Nat]

\* A table that is sound, and has no node that remove_node() would leave: the count
\* of those is set to 0 by the first add_node().
Sound(t) ==
  /\ t \in [nodes: Seq(NodeType), fixed: {0, NotAssigned}]
  /\ Len(t.nodes) <= MaxNodes
  /\ t.nodes # <<>> => t.fixed = 0
  /\ \A i, j \in DOMAIN t.nodes : t.nodes[i].id = t.nodes[j].id => i = j
  /\ \A i \in DOMAIN t.nodes : t.nodes[i].attempts <= Limit + 1

LEMMA LimitType == Limit \in Nat /\ Limit < 255 /\ MaxNodes \in Nat
BY UdpAssumption DEF Limit

\* What a look at the table finds is a position of it.
LEMMA FirstIsIn ==
  ASSUME NEW S \in SUBSET Nat, S # {}
  PROVE  First(S) \in S
<1> DEFINE R == {ss \in Nat \X Nat : ss[1] < ss[2]}
<1>1. IsWellFoundedOn(R, Nat) BY NatLessThanWellFounded DEF OpToRel
<1> HIDE DEF R
<1>2. \E i \in S : \A j \in S : <<j, i>> \notin R BY <1>1, WFMin
<1>3. \A i, j \in Nat : <<j, i>> \notin R => i <= j
  <2> SUFFICES ASSUME NEW i \in Nat, NEW j \in Nat, j < i PROVE <<j, i>> \in R OBVIOUS
  <2> QED BY DEF R
<1>4. \E i \in S : \A j \in S : i <= j BY <1>2, <1>3
<1> QED BY <1>4 DEF First

LEMMA FindIsIn ==
  ASSUME NEW t, Sound(t), NEW id
  PROVE  /\ Find(t, id) \in {0} \cup DOMAIN t.nodes
         /\ Find(t, id) = 0 => \A i \in DOMAIN t.nodes : t.nodes[i].id # id
         /\ Find(t, id) # 0 => t.nodes[Find(t, id)].id = id
<1> DEFINE S == {i \in DOMAIN t.nodes : t.nodes[i].id = id}
<1>1. DOMAIN t.nodes = 1..Len(t.nodes) /\ Len(t.nodes) \in Nat BY DEF Sound
<1>2. S \in SUBSET Nat /\ 0 \notin S BY <1>1
<1>3. CASE S = {} BY <1>3 DEF Find, First
<1>4. CASE S # {}
  <2>1. First(S) \in S BY <1>2, <1>4, FirstIsIn
  <2> QED BY <1>2, <2>1 DEF Find
<1> QED BY <1>3, <1>4

-----------------------------------------------------------------------------
(* What changes a table keeps it sound. *)

LEMMA AddNodeSound ==
  ASSUME NEW t, Sound(t), NEW id \in Devices, NEW at \in Nat,
         \A i \in DOMAIN t.nodes : t.nodes[i].id # id
  PROVE  Sound(AddNode(t, id, at))
<1> DEFINE n == Node(id, at)
           u == AddNode(t, id, at)
<1>1. CASE Len(t.nodes) = MaxNodes BY <1>1 DEF AddNode
<1>2. CASE Len(t.nodes) # MaxNodes
  <2>1. n \in NodeType /\ n.id = id /\ n.attempts = 0 BY DEF Node, NodeType
  <2>2. /\ u.nodes = Append(t.nodes, n)
        /\ u = [nodes |-> Append(t.nodes, n), fixed |-> u.fixed]
        /\ u.fixed = IF t.fixed = NotAssigned THEN Len(t.nodes) ELSE t.fixed
    BY <1>2 DEF AddNode
  <2> HIDE DEF n, u
  <2>3. t.nodes \in Seq(NodeType) /\ Len(t.nodes) \in Nat BY DEF Sound
  <2>4. u.fixed = 0
    <3>1. t.fixed = NotAssigned => Len(t.nodes) = 0 BY DEF Sound, NotAssigned
    <3> QED BY <2>2, <3>1 DEF Sound
  <2>5. /\ u.nodes \in Seq(NodeType) /\ DOMAIN u.nodes = 1..Len(t.nodes) + 1
        /\ Len(u.nodes) = Len(t.nodes) + 1 /\ DOMAIN t.nodes = 1..Len(t.nodes)
        /\ u.nodes[Len(t.nodes) + 1] = n
        /\ \A i \in 1..Len(t.nodes) : u.nodes[i] = t.nodes[i]
    BY <2>1, <2>2, <2>3
  <2>6. Len(u.nodes) <= MaxNodes BY <1>2, <2>3, <2>5, LimitType DEF Sound
  <2>7. \A i \in DOMAIN u.nodes : i \in DOMAIN t.nodes \/ i = Len(t.nodes) + 1
    BY <2>3, <2>5
  <2>8. \A i, j \in DOMAIN u.nodes : u.nodes[i].id = u.nodes[j].id => i = j
    BY <2>1, <2>5, <2>7 DEF Sound
  <2>9. \A i \in DOMAIN u.nodes : u.nodes[i].attempts <= Limit + 1
    BY <2>1, <2>5, <2>7, LimitType DEF Sound
  <2>10. u \in [nodes: Seq(NodeType), fixed: {0, NotAssigned}] BY <2>2, <2>4, <2>5
  <2> QED BY <2>4, <2>6, <2>8, <2>9, <2>10 DEF Sound, u
<1> QED BY <1>1, <1>2

\* A node is written, its id kept.
LEMMA WriteSound ==
  ASSUME NEW t, Sound(t), NEW pos \in DOMAIN t.nodes, NEW at \in Nat, NEW a \in 0..Limit + 1,
         NEW u, u = [t EXCEPT !.nodes[pos] = [id |-> @.id, at |-> at, attempts |-> a]]
  PROVE  Sound(u)
<1>1. /\ t.nodes \in Seq(NodeType) /\ t = [nodes |-> t.nodes, fixed |-> t.fixed]
      /\ t.nodes[pos] \in NodeType
  BY DEF Sound
<1> DEFINE n == [id |-> t.nodes[pos].id, at |-> at, attempts |-> a]
<1>2. n \in NodeType /\ n.id = t.nodes[pos].id /\ n.attempts = a BY <1>1, LimitType DEF NodeType
<1>3. u.nodes = [t.nodes EXCEPT ![pos] = n] /\ u = [nodes |-> u.nodes, fixed |-> t.fixed] BY <1>1
<1> HIDE DEF n
<1>4. /\ u.nodes \in Seq(NodeType) /\ Len(u.nodes) = Len(t.nodes)
      /\ DOMAIN u.nodes = DOMAIN t.nodes
      /\ \A i \in DOMAIN t.nodes : u.nodes[i] = IF i = pos THEN n ELSE t.nodes[i]
  BY <1>1, <1>2, <1>3
<1>5. t.nodes # <<>> BY <1>1
<1>6. \A i \in DOMAIN t.nodes : u.nodes[i].id = t.nodes[i].id BY <1>2, <1>4
<1>7. \A i, j \in DOMAIN u.nodes : u.nodes[i].id = u.nodes[j].id => i = j
  BY <1>4, <1>6 DEF Sound
<1>8. \A i \in DOMAIN u.nodes : u.nodes[i].attempts <= Limit + 1
  BY <1>2, <1>4, LimitType DEF Sound
<1> QED BY <1>3, <1>4, <1>5, <1>7, <1>8 DEF Sound

LEMMA RemoveSound ==
  ASSUME NEW t, Sound(t), NEW pos \in DOMAIN t.nodes
  PROVE  Sound(RemoveNode(t, pos)) /\ RemoveNode(t, pos) # t
<1> DEFINE u       == RemoveNode(t, pos)
           s       == t.nodes
           rest    == [i \in 1..Len(s) - 1 |-> IF i < pos THEN s[i] ELSE s[i + 1]]
           from(i) == IF i < pos THEN i ELSE i + 1
<1>1. s \in Seq(NodeType) /\ t.fixed = 0 /\ pos \in 1..Len(s) /\ Len(s) \in Nat
      /\ DOMAIN s = 1..Len(s) /\ t = [nodes |-> s, fixed |-> 0]
  BY DEF Sound
<1>2. u = [t EXCEPT !.nodes = rest] BY <1>1 DEF RemoveNode
<1>3. \A i \in 1..Len(s) - 1 :
        rest[i] = s[from(i)] /\ rest[i] \in NodeType /\ from(i) \in DOMAIN s
  BY <1>1
<1>4. rest \in Seq(NodeType) /\ Len(rest) = Len(s) - 1 /\ DOMAIN rest = 1..Len(s) - 1
  BY <1>1, <1>3
<1> HIDE DEF rest
<1>5. u = [nodes |-> rest, fixed |-> 0] BY <1>1, <1>2
<1> HIDE DEF u
<1>6. \A i, j \in 1..Len(s) - 1 : from(i) = from(j) => i = j
  <2>1. pos \in Nat /\ \A i \in 1..Len(s) - 1 : i \in Nat BY <1>1
  <2>2. ASSUME NEW i \in Nat, NEW j \in Nat, from(i) = from(j) PROVE i = j BY <2>1, <2>2
  <2> QED BY <2>1, <2>2
<1> HIDE DEF from
<1>7. \A i, j \in DOMAIN rest : rest[i].id = rest[j].id => i = j
  BY <1>3, <1>4, <1>6 DEF Sound
<1>8. \A i \in DOMAIN rest : rest[i].attempts <= Limit + 1
  BY <1>3, <1>4 DEF Sound
<1>9. Len(rest) <= MaxNodes BY <1>1, <1>4, LimitType DEF Sound
<1>10. Sound(u) BY <1>4, <1>5, <1>7, <1>8, <1>9 DEF Sound
<1>11. u # t BY <1>1, <1>4, <1>5
<1> QED BY <1>10, <1>11 DEF u

LEMMA RegisterSound ==
  ASSUME NEW t, Sound(t), NEW id \in Devices, NEW at \in Nat
  PROVE  Sound(Register(t, id, at))
<1>1. CASE kind = "ESPNOW"
  <2>1. CASE FindEither(t, id, at) = 0
    <3> DEFINE S == {i \in DOMAIN t.nodes : t.nodes[i].id = id \/ t.nodes[1].at = at}
    <3>1. S \in SUBSET Nat /\ 0 \notin S BY DEF Sound
    <3>2. S = {} BY <2>1, <3>1, FirstIsIn DEF FindEither
    <3>3. \A i \in DOMAIN t.nodes : t.nodes[i].id # id BY <3>2
    <3> QED BY <1>1, <2>1, <3>3, AddNodeSound DEF Register
  <2>2. CASE FindEither(t, id, at) # 0 BY <1>1, <2>2 DEF Register
  <2> QED BY <2>1, <2>2
<1>2. CASE kind # "ESPNOW"
  <2> DEFINE pos == Find(t, id)
  <2>1. CASE pos = 0 BY <1>2, <2>1, FindIsIn, AddNodeSound DEF Register
  <2>2. CASE pos # 0
    <3>1. pos \in DOMAIN t.nodes BY <2>2, FindIsIn
    <3>2. Register(t, id, at) = [t EXCEPT !.nodes[pos].at = at] BY <1>2, <2>2 DEF Register
    <3> HIDE DEF pos
    <3> DEFINE a == t.nodes[pos].attempts
    <3>3. t.nodes[pos] \in NodeType /\ a \in 0..Limit + 1
      <4>1. t.nodes[pos] \in NodeType BY <3>1 DEF Sound
      <4>2. a \in Nat BY <4>1 DEF NodeType
      <4>3. a <= Limit + 1 BY <3>1 DEF Sound
      <4> QED BY <4>1, <4>2, <4>3, LimitType
    <3>4. [t.nodes[pos] EXCEPT !.at = at] = [id |-> t.nodes[pos].id, at |-> at, attempts |-> a]
      BY <3>3 DEF NodeType
    <3>5. Register(t, id, at) = [t EXCEPT !.nodes[pos] = [id |-> @.id, at |-> at, attempts |-> a]]
      BY <3>2, <3>4
    <3> QED BY <3>1, <3>3, <3>5, WriteSound
  <2> QED BY <2>1, <2>2
<1> QED BY <1>1, <1>2

LEMMA RegisterAnswerSound ==
  ASSUME NEW t, Sound(t), NEW id \in Devices, NEW at \in Nat
  PROVE  Sound(RegisterAnswer(t, id, at))
<1> DEFINE r   == Register(t, id, at)
           pos == Find(r, id)
<1>1. Sound(r) BY RegisterSound
<1>2. CASE pos = 0 BY <1>1, <1>2 DEF RegisterAnswer
<1>3. CASE pos # 0
  <2>1. RegisterAnswer(t, id, at) = [r EXCEPT !.nodes[pos].attempts = 0]
    BY <1>3 DEF RegisterAnswer
  <2>2. pos \in DOMAIN r.nodes BY <1>1, <1>3, FindIsIn
  <2> HIDE DEF r, pos
  <2>3. r.nodes[pos] \in NodeType BY <1>1, <2>2 DEF Sound
  <2> DEFINE p == r.nodes[pos].at
  <2>4. p \in Nat /\ 0 \in 0..Limit + 1 BY <2>3, LimitType DEF NodeType
  <2>5. [r.nodes[pos] EXCEPT !.attempts = 0] = [id |-> r.nodes[pos].id, at |-> p, attempts |-> 0]
    BY <2>3 DEF NodeType
  <2>6. RegisterAnswer(t, id, at) = [r EXCEPT !.nodes[pos] = [id |-> @.id, at |-> p, attempts |-> 0]]
    BY <2>1, <2>5
  <2> QED BY <1>1, <2>2, <2>4, <2>6, WriteSound
<1> QED BY <1>2, <1>3

-----------------------------------------------------------------------------
(* Every step keeps every table sound. *)

\* What a table learns from datagrams is a device and an address.
UdpInv ==
  /\ addr \in [Devices -> Nat]
  /\ \A m \in net : m.from \in Devices /\ m.src \in Nat
  /\ tbl = [d \in Devices |-> tbl[d]] /\ \A d \in Devices : Sound(tbl[d])

LEMMA ManualSound ==
  ASSUME NEW d \in Devices
  PROVE  Sound([nodes |-> [i \in DOMAIN Manual[d] |-> Node(Manual[d][i], Home[Manual[d][i]])],
                fixed |-> IF Manual[d] = <<>> THEN NotAssigned ELSE 0])
<1> DEFINE ids   == Manual[d]
           s     == [i \in DOMAIN ids |-> Node(ids[i], Home[ids[i]])]
           fixed == IF ids = <<>> THEN NotAssigned ELSE 0
<1>1. ids \in Seq(Devices) /\ Len(ids) <= MaxNodes BY UdpAssumption
<1>2. Len(ids) \in Nat /\ DOMAIN ids = 1..Len(ids) BY <1>1
<1>3. \A i \in DOMAIN ids : ids[i] \in Devices BY <1>1
<1>4. \A e \in Devices : Home[e] \in Nat BY UdpAssumption
<1>5. \A i \in DOMAIN ids : s[i] \in NodeType /\ s[i].id = ids[i] /\ s[i].attempts = 0
  BY <1>3, <1>4 DEF Node, NodeType
<1>6. \A i, j \in DOMAIN ids : ids[i] = ids[j] => i = j BY UdpAssumption
<1>7. ids # <<>> => fixed = 0 OBVIOUS
<1>8. DOMAIN s = 1..Len(ids) /\ s = [i \in 1..Len(ids) |-> s[i]] BY <1>2
<1>9. s = <<>> => ids = <<>> BY <1>1, <1>2, <1>8
<1>10. fixed \in {0, NotAssigned} OBVIOUS
<1> HIDE DEF s, ids, fixed
<1>11. s \in Seq(NodeType) /\ Len(s) = Len(ids) BY <1>2, <1>5, <1>8
<1>12. \A i, j \in DOMAIN s : s[i].id = s[j].id => i = j BY <1>2, <1>5, <1>6, <1>8
<1>13. \A i \in DOMAIN s : s[i].attempts <= Limit + 1 BY <1>2, <1>5, <1>8, LimitType
<1>14. Sound([nodes |-> s, fixed |-> fixed])
  BY <1>1, <1>7, <1>9, <1>10, <1>11, <1>12, <1>13 DEF Sound
<1> QED BY <1>14 DEF s, ids, fixed

LEMMA UdpInvInit == Init => UdpInv
<1> SUFFICES ASSUME Init PROVE UdpInv OBVIOUS
<1>1. addr \in [Devices -> Nat] /\ net = {} BY UdpAssumption DEF Init
<1>2. tbl = [d \in Devices |-> tbl[d]] BY DEF Init
<1>3. ASSUME NEW d \in Devices PROVE Sound(tbl[d])
  <2>1. tbl[d] = [nodes |-> [i \in DOMAIN Manual[d] |-> Node(Manual[d][i], Home[Manual[d][i]])],
                  fixed |-> IF Manual[d] = <<>> THEN NotAssigned ELSE 0]
    BY DEF Init
  <2> QED BY <2>1, ManualSound
<1> QED BY <1>1, <1>2, <1>3 DEF UdpInv

\* What is sent names its sender and the address it comes from.
LEMMA SendsKeeps ==
  ASSUME UdpInv, NEW d \in Devices, NEW places, Sends(d, places)
  PROVE  UNCHANGED addr /\ \A m \in net' : m.from \in Devices /\ m.src \in Nat
BY DEF UdpInv, Sends, Frames, Datagram

LEMMA SendKeeps ==
  ASSUME UdpInv, NEW d \in Devices, Send(d)
  PROVE  UdpInv'
<1>1. CASE SendLocal(d) \/ SendGlobal(d) \/ SendEspNow(d)
  <2>1. UNCHANGED tbl /\ \E places : Sends(d, places)
    BY <1>1 DEF SendLocal, SendGlobal, SendEspNow
  <2> QED BY <2>1, SendsKeeps DEF UdpInv
<1>2. CASE SendDual(d)
  <2> DEFINE t   == tbl[d]
             pos == IF To(d) = Broadcast THEN 0 ELSE Find(t, To(d))
             out == pos # 0 /\ t.nodes[pos].attempts > Limit
  <2>1. Sound(t) BY DEF UdpInv
  <2>2. pos # 0 => pos \in DOMAIN t.nodes BY <2>1, FindIsIn
  <2>3. \E places : Sends(d, places) BY <1>2 DEF SendDual
  <2>4. \/ tbl' = tbl
        \/ pos # 0 /\ tbl' = [tbl EXCEPT ![d] = RemoveNode(t, pos)]
        \/ pos # 0 /\ ~out /\ tbl' = [tbl EXCEPT ![d].nodes[pos].attempts = (@ + 1) % 256]
    <3>1. out => pos # 0 /\ RemoveNode(t, pos) # t BY <2>1, <2>2, RemoveSound
    <3>2. LET u == IF out THEN RemoveNode(t, pos) ELSE t
          IN  IF pos = 0 \/ u # t THEN tbl' = [tbl EXCEPT ![d] = u]
              ELSE tbl' = [tbl EXCEPT ![d].nodes[pos].attempts = (@ + 1) % 256]
      BY <1>2 DEF SendDual, Limit
    <3>3. [tbl EXCEPT ![d] = t] = tbl BY DEF UdpInv
    <3> HIDE DEF t, pos, out
    <3>4. CASE out BY <3>1, <3>2, <3>3, <3>4
    <3>5. CASE ~out BY <3>2, <3>3, <3>5
    <3> QED BY <3>4, <3>5
  <2>5. CASE tbl' = tbl BY <2>3, <2>5, SendsKeeps DEF UdpInv
  <2>6. CASE pos # 0 /\ tbl' = [tbl EXCEPT ![d] = RemoveNode(t, pos)]
    BY <2>1, <2>2, <2>3, <2>6, SendsKeeps, RemoveSound DEF UdpInv
  <2>7. CASE pos # 0 /\ ~out /\ tbl' = [tbl EXCEPT ![d].nodes[pos].attempts = (@ + 1) % 256]
    <3> DEFINE a == (t.nodes[pos].attempts + 1) % 256
               p == t.nodes[pos].at
               u == [t EXCEPT !.nodes[pos].attempts = a]
    <3>1. t.nodes[pos] \in NodeType BY <2>1, <2>2, <2>7 DEF Sound
    <3>2. p \in Nat /\ t.nodes[pos].attempts \in Nat BY <3>1 DEF NodeType
    <3>3. t.nodes[pos].attempts <= Limit BY <2>7, <3>2, LimitType
    <3>4. a \in 0..Limit + 1 BY <3>2, <3>3, LimitType
    <3>5. tbl' = [tbl EXCEPT ![d] = u] BY <2>7 DEF UdpInv
    <3> HIDE DEF a, pos
    <3>6. [t.nodes[pos] EXCEPT !.attempts = a] = [id |-> t.nodes[pos].id, at |-> p, attempts |-> a]
      BY <3>1 DEF NodeType
    <3>7. u = [t EXCEPT !.nodes[pos] = [id |-> @.id, at |-> p, attempts |-> a]] BY <3>6
    <3> HIDE DEF u, p
    <3>8. Sound(u) BY <2>1, <2>2, <2>7, <3>2, <3>4, <3>7, WriteSound
    <3> QED BY <2>3, <3>5, <3>8, SendsKeeps DEF UdpInv
  <2> QED BY <2>4, <2>5, <2>6, <2>7
<1> QED BY <1>1, <1>2 DEF Send

LEMMA LearnsKeeps ==
  ASSUME UdpInv, NEW d \in Devices, NEW m \in net, Learns(d, m)
  PROVE  tbl' = [e \in Devices |-> tbl'[e]] /\ \A e \in Devices : Sound(tbl[e])'
BY RegisterSound DEF UdpInv, Learns

LEMMA ReadKeeps ==
  ASSUME UdpInv, NEW d \in Devices, Read(d)
  PROVE  UdpInv'
<1> PICK m \in net : ReadResponse(d, m) \/ ReadOther(d, m) \/ ReceiveFrame(d, m) \/ ReceiveLateAnswer(d, m)
  BY DEF Read
<1>1. CASE ReadResponse(d, m) BY <1>1, RegisterAnswerSound DEF UdpInv, ReadResponse
<1>2. CASE ReadOther(d, m) BY <1>2, LearnsKeeps DEF UdpInv, ReadOther
<1>3. CASE ReceiveFrame(d, m)
  BY <1>3, LearnsKeeps DEF UdpInv, ReceiveFrame, Datagram
<1>4. CASE ReceiveLateAnswer(d, m)
  <2>1. CASE net' = net \ {m} /\ UNCHANGED tbl BY <1>4, <2>1 DEF UdpInv, ReceiveLateAnswer
  <2>2. CASE \E r \in net \ {m} : net' = net \ {m, r} /\ Learns(d, r)
    BY <1>4, <2>2, LearnsKeeps DEF UdpInv, ReceiveLateAnswer
  <2> QED BY <1>4, <2>1, <2>2 DEF ReceiveLateAnswer
<1> QED BY <1>1, <1>2, <1>3, <1>4

LEMMA UdpInvNext == UdpInv /\ [Next]_vars => UdpInv'
<1> SUFFICES ASSUME UdpInv, [Next]_vars PROVE UdpInv' OBVIOUS
<1>1. ASSUME NEW d \in Devices, Send(d) \/ Read(d) PROVE UdpInv' BY <1>1, SendKeeps, ReadKeeps
<1>2. ASSUME NEW d \in Devices, TimeOut(d) \/ TimeOutEarly(d) PROVE UdpInv'
  BY <1>2 DEF UdpInv, TimeOut, TimeOutEarly
<1>3. ASSUME NEW m \in net, Lose(m) PROVE UdpInv' BY <1>3 DEF UdpInv, Lose
<1>4. ASSUME NEW d \in Devices, NEW a \in Spare \cup {Home[e] : e \in Devices}, Move(d, a) PROVE UdpInv'
  <2>1. a \in Nat BY UdpAssumption
  <2> QED BY <1>4, <2>1 DEF UdpInv, Move
<1>5. CASE UNCHANGED vars BY <1>5 DEF UdpInv, vars
<1> QED BY <1>1, <1>2, <1>3, <1>4, <1>5 DEF Next

\* Whatever comes in, and whichever nodes are registered, fail and are removed, each
\* strategy keeps a table with one entry for a device, no more than there is room
\* for, and a count of failures that does not wrap.
THEOREM TableSoundHolds == Spec => []TableSound
<1>1. UdpInv => TableSound BY DEF UdpInv, TableSound, Sound, Limit
<1> QED BY <1>1, UdpInvInit, UdpInvNext, PTL DEF Spec


-----------------------------------------------------------------------------
(* Acknowledgements. *)

Functions ==
  /\ addr \in [Devices -> Nat] /\ moves \in Nat /\ early \in Nat
  /\ pc = [d \in Devices |-> pc[d]] /\ next = [d \in Devices |-> next[d]]
  /\ tries = [d \in Devices |-> tries[d]] /\ told = [d \in Devices |-> told[d]]

\* No two devices share an address, and what is under way goes to a device.
AddressInv ==
  /\ \A d, e \in Devices : addr[d] = addr[e] => d = e
  /\ \A m \in net : m.from \in Devices /\ m.dst \in Places

\* As long as nobody moves, frames come from and answers go to their devices.
HomeInv == moves = 0 => \A m \in net :
  /\ m.kind = "frame" => m.src = addr[m.from]
  /\ m.kind = "ack" => m.to \in Devices /\ m.dst = addr[m.to]

\* A datagram that can still lead to an acknowledgement that d takes.
Live(d, m) ==
  \/ m.kind = "frame" /\ m.from = d /\ m.to \in Devices /\ m.dst = addr[m.to]
  \/ m.kind = "ack" /\ m.to = d /\ m.dst = addr[d]

\* No answer has come late, or to another than it was meant for.
Calm == early = 0 /\ (kind = "DualUDP" \/ moves = 0)

\* There is one at most, of the transmission d waits for; and an answer is given
\* only to what was received.
LiveInv == Calm => \A d \in Devices : \A m \in net : Live(d, m) =>
  /\ pc[d] = "waiting" /\ m.n = next[d] /\ m.try = tries[d]
  /\ m.kind = "frame" => m.to = To(d)
  /\ m.kind = "ack" => m.from = To(d) /\ <<d, m.n, m.from>> \in got
  /\ \A m2 \in net : Live(d, m2) => m2 = m

\* No response to a broadcast is waited for.
ToldInv ==
  /\ \A d \in Devices : pc[d] = "waiting" => To(d) # Broadcast
  /\ \A d \in Devices : \A n \in told[d] : list[d][n] # Broadcast
  /\ AckedIsReceived

AckInv == Functions /\ AddressInv /\ HomeInv /\ LiveInv /\ ToldInv

LEMMA AckInvInit == Init => AckInv
<1> SUFFICES ASSUME Init PROVE AckInv OBVIOUS
<1>1. Functions BY UdpAssumption DEF Init, Functions
<1>2. AddressInv /\ HomeInv /\ LiveInv BY UdpAssumption DEF Init, AddressInv, HomeInv, LiveInv, Calm
<1>3. ToldInv BY DEF Init, ToldInv, AckedIsReceived
<1> QED BY <1>1, <1>2, <1>3 DEF AckInv

\* Datagrams are taken away, and nothing else happens that counts here.
OnlyTakes ==
  /\ net' \subseteq net
  /\ UNCHANGED <<kind, list, next, tries, pc, addr, got, told, moves, early>>

LEMMA OnlyTakesKeeps == AckInv /\ OnlyTakes => AckInv'
<1> SUFFICES ASSUME AckInv, OnlyTakes PROVE AckInv' OBVIOUS
<1> USE DEF AckInv, OnlyTakes
<1>1. Functions' BY DEF Functions
<1>2. AddressInv' BY DEF AddressInv, Places
<1>3. HomeInv' BY DEF HomeInv
<1>4. LiveInv' BY DEF LiveInv, Live, To, Calm
<1>5. ToldInv' BY DEF ToldInv, AckedIsReceived, To
<1> QED BY <1>1, <1>2, <1>3, <1>4, <1>5

\* The end of a transmission, and what it leaves of other devices.
LEMMA ResultFacts ==
  ASSUME Functions, NEW d \in Devices, NEW ok \in BOOLEAN, Result(d, ok)
  PROVE  /\ pc' = [e \in Devices |-> pc'[e]] /\ next' = [e \in Devices |-> next'[e]]
         /\ tries' = [e \in Devices |-> tries'[e]] /\ told' = [e \in Devices |-> told'[e]]
         /\ pc'[d] = "idle" /\ list' = list
         /\ told'[d] = IF ok /\ To(d) # Broadcast THEN told[d] \cup {next[d]} ELSE told[d]
         /\ \A e \in Devices : e # d => /\ pc'[e] = pc[e] /\ next'[e] = next[e]
                                        /\ tries'[e] = tries[e] /\ told'[e] = told[e]
<1>1. pc' = [pc EXCEPT ![d] = "idle"] /\ list' = list
  BY DEF Result
<1>2. \/ next' = [next EXCEPT ![d] = (@ % Len(list[d])) + 1] /\ tries' = [tries EXCEPT ![d] = 0]
      \/ next' = next /\ tries' = [tries EXCEPT ![d] = @ + 1]
  BY DEF Result
<1>3. told' = [told EXCEPT ![d] = IF ok /\ To(d) # Broadcast THEN told[d] \cup {next[d]} ELSE told[d]]
  BY DEF Result, Functions
<1>4. /\ pc' = [e \in Devices |-> pc'[e]] /\ pc'[d] = "idle"
      /\ \A e \in Devices : e # d => pc'[e] = pc[e]
  BY <1>1 DEF Functions
<1>5. /\ next' = [e \in Devices |-> next'[e]] /\ tries' = [e \in Devices |-> tries'[e]]
      /\ \A e \in Devices : e # d => next'[e] = next[e] /\ tries'[e] = tries[e]
  BY <1>2 DEF Functions
<1>6. /\ told' = [e \in Devices |-> told'[e]]
      /\ told'[d] = IF ok /\ To(d) # Broadcast THEN told[d] \cup {next[d]} ELSE told[d]
      /\ \A e \in Devices : e # d => told'[e] = told[e]
  BY <1>3 DEF Functions
<1> QED BY <1>1, <1>4, <1>5, <1>6

\* A transmission of d ends, and nothing that d could take for its answer is left.
LEMMA EndKeeps ==
  ASSUME AckInv, NEW d \in Devices, NEW ok \in BOOLEAN, Result(d, ok),
         net' \subseteq net, early' \in Nat, early' = 0 => early = 0,
         UNCHANGED <<kind, addr, got, moves>>,
         Calm' => \A m \in net' : ~Live(d, m),
         (ok /\ Calm) => <<d, next[d], To(d)>> \in got
  PROVE  AckInv'
<1>1. /\ Functions /\ AddressInv /\ HomeInv /\ LiveInv /\ ToldInv BY DEF AckInv
<1>2. /\ pc' = [e \in Devices |-> pc'[e]] /\ next' = [e \in Devices |-> next'[e]]
      /\ tries' = [e \in Devices |-> tries'[e]] /\ told' = [e \in Devices |-> told'[e]]
      /\ pc'[d] = "idle" /\ list' = list
      /\ told'[d] = IF ok /\ To(d) # Broadcast THEN told[d] \cup {next[d]} ELSE told[d]
      /\ \A e \in Devices : e # d => /\ pc'[e] = pc[e] /\ next'[e] = next[e]
                                     /\ tries'[e] = tries[e] /\ told'[e] = told[e]
  BY <1>1, ResultFacts
<1>3. Functions' BY <1>1, <1>2 DEF Functions
<1>4. AddressInv' /\ HomeInv' BY <1>1 DEF AddressInv, HomeInv, Places
<1>5. Calm' => Calm BY DEF Calm
<1>6. LiveInv'
  <2> SUFFICES ASSUME Calm', NEW e \in Devices, NEW m \in net', Live(e, m)'
               PROVE  /\ pc'[e] = "waiting" /\ m.n = next'[e] /\ m.try = tries'[e]
                      /\ m.kind = "frame" => m.to = list'[e][next'[e]]
                      /\ m.kind = "ack" => m.from = list'[e][next'[e]] /\ <<e, m.n, m.from>> \in got'
                      /\ \A m2 \in net' : Live(e, m2)' => m2 = m
    BY DEF LiveInv, To
  <2>1. \A m2 : Live(e, m2)' <=> Live(e, m2) BY DEF Live
  <2>2. e # d /\ Live(e, m) BY <2>1
  <2> QED BY <2>1, <2>2, <1>1, <1>2, <1>5 DEF LiveInv, To
<1>7. ToldInv'
  <2>1. \A e \in Devices : pc'[e] = "waiting" => list'[e][next'[e]] # Broadcast
    BY <1>1, <1>2 DEF ToldInv, To
  <2>2. \A e \in Devices : \A n \in told'[e] : list'[e][n] # Broadcast
    BY <1>1, <1>2 DEF ToldInv, To
  <2>3. AckedIsReceived'
    <3> SUFFICES ASSUME Calm, NEW e \in Devices, NEW n \in told'[e]
                 PROVE  <<e, n, list[e][n]>> \in got
      BY <1>2 DEF AckedIsReceived, Calm
    <3>1. \A x \in Devices : \A i \in told[x] : <<x, i, list[x][i]>> \in got
      BY <1>1 DEF ToldInv, AckedIsReceived, Calm
    <3> QED BY <3>1, <1>2 DEF To
  <2> QED BY <2>1, <2>2, <2>3 DEF ToldInv, To
<1> QED BY <1>3, <1>4, <1>6, <1>7 DEF AckInv

LEMMA TimeOutKeeps ==
  ASSUME AckInv, NEW d \in Devices, TimeOut(d) \/ TimeOutEarly(d)
  PROVE  AckInv'
<1>1. early \in Nat /\ LiveInv BY DEF AckInv, Functions
<1>2. CASE TimeOut(d)
  <2>1. ASSUME Calm, NEW m \in net, Live(d, m) PROVE FALSE
    <3>1. m.n = next[d] /\ m.try = tries[d] /\ (m.kind = "frame" => m.to = To(d))
      BY <2>1, <1>1 DEF LiveInv
    <3> QED BY <3>1, <2>1, <1>2 DEF TimeOut, Unanswered, Live
  <2>2. /\ Result(d, FALSE) /\ net' = net /\ early' = early
        /\ UNCHANGED <<kind, addr, got, moves>>
    BY <1>2 DEF TimeOut
  <2>3. Calm' => Calm BY <2>2 DEF Calm
  <2>4. Calm' => \A m \in net' : ~Live(d, m) BY <2>1, <2>2, <2>3
  <2> QED BY <1>1, <2>2, <2>4, EndKeeps
<1>3. CASE TimeOutEarly(d)
  <2>1. /\ Result(d, FALSE) /\ net' = net /\ early' = early + 1
        /\ UNCHANGED <<kind, addr, got, moves>>
    BY <1>3 DEF TimeOutEarly
  <2>2. early' \in Nat /\ early' # 0 BY <2>1, <1>1
  <2>3. ~Calm' BY <2>2 DEF Calm
  <2> QED BY <1>1, <2>1, <2>2, <2>3, EndKeeps
<1> QED BY <1>2, <1>3

LEMMA ReadResponseKeeps ==
  ASSUME AckInv, NEW d \in Devices, NEW m \in net, ReadResponse(d, m)
  PROVE  AckInv'
<1>1. early \in Nat /\ LiveInv /\ HomeInv /\ AddressInv BY DEF AckInv, Functions
<1>2. /\ m.kind = "ack" /\ m.dst = addr[d] /\ (kind = "DualUDP" => m.to = d)
      /\ Result(d, TRUE) /\ net' = net \ {m} /\ UNCHANGED <<kind, addr, got, moves, early>>
  BY DEF ReadResponse, Acknowledges
<1>3. ASSUME Calm PROVE Live(d, m)
  <2>1. m.to = d BY <1>1, <1>2, <1>3 DEF Calm, HomeInv, AddressInv
  <2> QED BY <2>1, <1>2 DEF Live
<1>4. Calm => <<d, next[d], To(d)>> \in got BY <1>1, <1>2, <1>3 DEF LiveInv
<1>5. Calm' => Calm BY <1>2 DEF Calm
<1>6. Calm' => \A m2 \in net' : ~Live(d, m2) BY <1>1, <1>2, <1>3, <1>5 DEF LiveInv
<1>7. net' \subseteq net BY <1>2
<1> QED BY <1>1, <1>2, <1>4, <1>6, <1>7, EndKeeps

\* A frame is received, and answered where it came from.
LEMMA ReceiveFrameKeeps ==
  ASSUME UdpInv, AckInv, NEW d \in Devices, NEW m \in net, ReceiveFrame(d, m)
  PROVE  AckInv'
<1>1. /\ Functions /\ AddressInv /\ HomeInv /\ LiveInv /\ ToldInv BY DEF AckInv
<1>2. PICK a : a = Datagram("ack", d, m.from, m.n, m.try, addr[d], m.src) OBVIOUS
<1>3. /\ a.kind = "ack" /\ a.from = d /\ a.to = m.from /\ a.n = m.n /\ a.try = m.try
      /\ a.src = addr[d] /\ a.dst = m.src
  BY <1>2 DEF Datagram
<1>4. /\ m.kind = "frame" /\ m.dst = addr[d] /\ m.from \in Devices
      /\ UNCHANGED <<kind, list, next, tries, pc, addr, told, moves, early>>
      /\ got \subseteq got' /\ (m.to = d => <<m.from, m.n, d>> \in got')
      /\ \/ net' = net \ {m}
         \/ m.to = d /\ m.src \in Places /\ net' = (net \ {m}) \cup {a}
  BY <1>1, <1>2 DEF ReceiveFrame, AddressInv, sender
<1>5. Functions' BY <1>1, <1>4 DEF Functions
<1>6. AddressInv' BY <1>1, <1>3, <1>4 DEF AddressInv, Places
<1>7. HomeInv' BY <1>1, <1>3, <1>4 DEF HomeInv
<1>8. ToldInv'
  <2>1. AckedIsReceived' BY <1>1, <1>4 DEF ToldInv, AckedIsReceived
  <2> QED BY <2>1, <1>1, <1>4 DEF ToldInv, To
<1>9. LiveInv'
  <2> SUFFICES ASSUME Calm, NEW e \in Devices, NEW x \in net', Live(e, x)'
               PROVE  /\ pc[e] = "waiting" /\ x.n = next[e] /\ x.try = tries[e]
                      /\ x.kind = "frame" => x.to = To(e)
                      /\ x.kind = "ack" => x.from = To(e) /\ <<e, x.n, x.from>> \in got'
                      /\ \A y \in net' : Live(e, y)' => y = x
    BY <1>4 DEF LiveInv, To, Calm
  <2>1. \A y : Live(e, y)' <=> Live(e, y) BY <1>4 DEF Live
  <2>2. CASE net' = net \ {m} BY <2>1, <2>2, <1>1, <1>4 DEF LiveInv
  <2>3. CASE m.to = d /\ net' = (net \ {m}) \cup {a}
    <3>1. Live(m.from, m) BY <2>3, <1>4 DEF Live
    <3>2. /\ pc[m.from] = "waiting" /\ m.n = next[m.from] /\ m.try = tries[m.from]
          /\ d = To(m.from) /\ \A y \in net : Live(m.from, y) => y = m
      BY <3>1, <2>3, <1>1, <1>4 DEF LiveInv
    <3>3. CASE e = m.from
      <4>1. \A y \in net' : Live(e, y)' => y = a BY <3>2, <3>3, <2>1, <2>3
      <4> QED BY <4>1, <3>2, <3>3, <2>3, <1>3, <1>4
    <3>4. CASE e # m.from
      <4>1. ~Live(e, a) BY <3>4, <1>3 DEF Live
      <4> QED BY <4>1, <2>1, <2>3, <1>1, <1>4 DEF LiveInv
    <3> QED BY <3>3, <3>4
  <2> QED BY <2>2, <2>3, <1>4
<1> QED BY <1>5, <1>6, <1>7, <1>8, <1>9 DEF AckInv

\* Whatever its table says, a strategy sends to places where somebody is.
LEMMA SendPlaces ==
  ASSUME NEW d \in Devices, Send(d)
  PROVE  \E places \in SUBSET Places : Sends(d, places)
<1>1. Everyone(d) \in SUBSET Places BY DEF Everyone
<1>2. \A t, p : Directed(t, p) \in SUBSET Places BY DEF Directed
<1>3. CASE SendLocal(d) BY <1>1, <1>3 DEF SendLocal
<1>4. CASE SendGlobal(d)
  <2> DEFINE t == tbl[d]
             w == IF To(d) = Broadcast THEN UNION {Directed(t, i) : i \in DOMAIN t.nodes}
                  ELSE IF Find(t, To(d)) = 0 THEN {} ELSE Directed(t, Find(t, To(d)))
  <2>1. w \in SUBSET Places BY <1>2
  <2>2. Sends(d, w) BY <1>4 DEF SendGlobal
  <2> QED BY <2>1, <2>2
<1>5. CASE SendEspNow(d)
  <2> DEFINE pos == FindEither(tbl[d], To(d), NoAddress)
             w == IF To(d) = Broadcast \/ pos = 0 THEN Everyone(d) ELSE Directed(tbl[d], pos)
  <2>1. w \in SUBSET Places BY <1>1, <1>2
  <2>2. Sends(d, w) BY <1>5 DEF SendEspNow
  <2> QED BY <2>1, <2>2
<1>6. CASE SendDual(d) BY <1>1, <1>2, <1>6 DEF SendDual
<1> QED BY <1>3, <1>4, <1>5, <1>6 DEF Send

LEMMA SendsKeepsAck ==
  ASSUME AckInv, NEW d \in Devices, NEW places \in SUBSET Places, Sends(d, places)
  PROVE  AckInv'
<1>1. /\ Functions /\ AddressInv /\ HomeInv /\ LiveInv /\ ToldInv BY DEF AckInv
<1>2. PICK F : F = Frames(d, places) OBVIOUS
<1>3. /\ \A x \in F : /\ x.kind = "frame" /\ x.from = d /\ x.to = To(d) /\ x.n = next[d]
                      /\ x.try = tries[d] /\ x.src = addr[d] /\ x.dst \in Places
      /\ \A x, y \in F : x.dst = y.dst => x = y
  BY <1>2 DEF Frames, Datagram
<1>4. /\ pc[d] = "idle" /\ net' = net \cup F
      /\ UNCHANGED <<kind, list, addr, moves, early>>
      /\ got' = IF tries[d] = 0 THEN {g \in got : g[1] # d \/ g[2] # next[d]} ELSE got
  BY <1>2 DEF Sends, Result
<1>5. /\ pc' = [e \in Devices |-> pc'[e]] /\ next' = [e \in Devices |-> next'[e]]
      /\ tries' = [e \in Devices |-> tries'[e]] /\ told' = [e \in Devices |-> told'[e]]
      /\ \A e \in Devices : e # d => /\ pc'[e] = pc[e] /\ next'[e] = next[e]
                                     /\ tries'[e] = tries[e] /\ told'[e] = told[e]
      /\ IF To(d) = Broadcast THEN pc'[d] = "idle" /\ told'[d] = told[d]
         ELSE /\ pc'[d] = "waiting" /\ next' = next /\ tries' = tries
              /\ told'[d] = told[d] \ {next[d]}
  <2>1. CASE To(d) = Broadcast
    <3>1. Result(d, TRUE) BY <2>1 DEF Sends
    <3> QED BY <3>1, <2>1, <1>1, ResultFacts
  <2>2. CASE To(d) # Broadcast
    <3>1. /\ pc' = [pc EXCEPT ![d] = "waiting"] /\ next' = next /\ tries' = tries
          /\ told' = [told EXCEPT ![d] = @ \ {next[d]}]
      BY <2>2 DEF Sends
    <3> QED BY <3>1, <2>2, <1>1 DEF Functions
  <2> QED BY <2>1, <2>2
<1>6. Functions' BY <1>1, <1>4, <1>5 DEF Functions
<1>7. AddressInv' BY <1>1, <1>3, <1>4 DEF AddressInv, Places
<1>8. HomeInv' BY <1>1, <1>3, <1>4 DEF HomeInv
<1>9. Broadcast \notin Devices BY UdpAssumption
<1>10. Calm' => Calm BY <1>4 DEF Calm
<1>11. LiveInv'
  <2> SUFFICES ASSUME Calm', NEW e \in Devices, NEW x \in net', Live(e, x)'
               PROVE  /\ pc'[e] = "waiting" /\ x.n = next'[e] /\ x.try = tries'[e]
                      /\ x.kind = "frame" => x.to = list'[e][next'[e]]
                      /\ x.kind = "ack" => x.from = list'[e][next'[e]] /\ <<e, x.n, x.from>> \in got'
                      /\ \A y \in net' : Live(e, y)' => y = x
    BY DEF LiveInv, To
  <2>1. \A y : Live(e, y)' <=> Live(e, y) BY <1>4 DEF Live
  <2>2. CASE e # d
    <3>1. \A y \in F : ~Live(e, y) BY <2>2, <1>3 DEF Live
    <3>2. <<e, x.n, x.from>> \in got => <<e, x.n, x.from>> \in got' BY <2>2, <1>4
    <3> QED BY <3>1, <3>2, <2>1, <2>2, <1>1, <1>4, <1>5, <1>10 DEF LiveInv, To
  <2>3. CASE e = d
    <3>1. \A y \in net : ~Live(d, y) BY <1>1, <1>4, <1>10 DEF LiveInv
    <3>2. \A y \in net' : Live(d, y) => y \in F BY <3>1, <1>4
    <3>3. x \in F BY <3>2, <2>1, <2>3
    <3>4. To(d) # Broadcast BY <3>3, <2>1, <2>3, <1>3, <1>9 DEF Live
    <3>5. \A y \in F : Live(d, y) => y = x BY <3>3, <2>1, <2>3, <1>3 DEF Live
    <3> QED BY <3>2, <3>3, <3>4, <3>5, <2>1, <2>3, <1>3, <1>4, <1>5 DEF To
  <2> QED BY <2>2, <2>3
<1>12. ToldInv'
  <2>1. \A e \in Devices : pc'[e] = "waiting" => list'[e][next'[e]] # Broadcast
    BY <1>1, <1>4, <1>5 DEF ToldInv, To
  <2>2. \A e \in Devices : \A n \in told'[e] : n \in told[e] /\ ~(e = d /\ n = next[d])
    BY <1>1, <1>5 DEF ToldInv, To
  <2>3. \A e \in Devices : \A n \in told'[e] : list'[e][n] # Broadcast
    BY <2>2, <1>1, <1>4 DEF ToldInv
  <2>4. AckedIsReceived'
    <3> SUFFICES ASSUME Calm, NEW e \in Devices, NEW n \in told'[e]
                 PROVE  <<e, n, list[e][n]>> \in got'
      BY <1>4 DEF AckedIsReceived, Calm
    <3>1. <<e, n, list[e][n]>> \in got BY <2>2, <1>1 DEF ToldInv, AckedIsReceived, Calm
    <3> QED BY <3>1, <2>2, <1>4
  <2> QED BY <2>1, <2>3, <2>4 DEF ToldInv, To
<1> QED BY <1>6, <1>7, <1>8, <1>11, <1>12 DEF AckInv

\* Who moves takes a place where nobody is, and nothing is on its way to it.
LEMMA MoveKeepsAck ==
  ASSUME AckInv, NEW d \in Devices, NEW a \in Spare \cup {Home[e] : e \in Devices}, Move(d, a)
  PROVE  AckInv'
<1>1. /\ Functions /\ AddressInv /\ HomeInv /\ LiveInv /\ ToldInv BY DEF AckInv
<1>2. /\ a \notin Places /\ moves' = moves + 1 /\ addr' = [addr EXCEPT ![d] = a]
      /\ net' = {m \in net : m.dst # addr[d]}
      /\ UNCHANGED <<kind, list, next, tries, pc, got, told, early>>
  BY DEF Move, sender
<1>3. addr'[d] = a /\ \A e \in Devices : e # d => addr'[e] = addr[e]
  BY <1>1, <1>2 DEF Functions
<1>4. a \in Nat BY UdpAssumption
<1>5. Functions' BY <1>1, <1>2, <1>4 DEF Functions
<1>6. \A e \in Devices : addr[e] # a BY <1>2 DEF Places
<1>7. AddressInv'
  <2>1. \A e, f \in Devices : addr'[e] = addr'[f] => e = f BY <1>1, <1>3, <1>6 DEF AddressInv
  <2>2. ASSUME NEW m \in net' PROVE m.from \in Devices /\ \E e \in Devices : m.dst = addr'[e]
    <3>1. PICK e \in Devices : m.dst = addr[e] BY <1>1, <1>2 DEF AddressInv, Places
    <3> QED BY <3>1, <1>1, <1>2, <1>3 DEF AddressInv
  <2> QED BY <2>1, <2>2 DEF AddressInv, Places
<1>8. HomeInv' BY <1>1, <1>2 DEF HomeInv, Functions
<1>9. Calm' => Calm BY <1>1, <1>2 DEF Calm, Functions
<1>10. \A e \in Devices : \A m \in net' : Live(e, m)' => Live(e, m)
  <2> SUFFICES ASSUME NEW e \in Devices, NEW m \in net', Live(e, m)' PROVE Live(e, m) OBVIOUS
  <2>1. m.dst # a BY <1>1, <1>2 DEF AddressInv
  <2> QED BY <2>1, <1>3 DEF Live
<1>11. LiveInv'
  <2>1. \A e \in Devices : To(e)' = To(e) BY <1>2 DEF To
  <2> QED BY <2>1, <1>1, <1>2, <1>9, <1>10 DEF LiveInv
<1>12. ToldInv'
  <2>1. AckedIsReceived' BY <1>1, <1>2, <1>9 DEF ToldInv, AckedIsReceived, Calm
  <2> QED BY <2>1, <1>1, <1>2 DEF ToldInv, To
<1> QED BY <1>5, <1>7, <1>8, <1>11, <1>12 DEF AckInv

LEMMA AckInvNext == UdpInv /\ AckInv /\ [Next]_vars => AckInv'
<1> SUFFICES ASSUME UdpInv, AckInv, [Next]_vars PROVE AckInv' OBVIOUS
<1>1. ASSUME OnlyTakes PROVE AckInv' BY <1>1, OnlyTakesKeeps
<1>2. ASSUME NEW d \in Devices, Send(d) PROVE AckInv' BY <1>2, SendPlaces, SendsKeepsAck
<1>3. ASSUME NEW d \in Devices, Read(d) PROVE AckInv'
  <2> PICK m \in net : ReadResponse(d, m) \/ ReadOther(d, m) \/ ReceiveFrame(d, m) \/ ReceiveLateAnswer(d, m)
    BY <1>3 DEF Read
  <2>1. CASE ReadResponse(d, m) BY <2>1, ReadResponseKeeps
  <2>2. CASE ReadOther(d, m) \/ ReceiveLateAnswer(d, m)
    <3>1. OnlyTakes BY <2>2 DEF ReadOther, ReceiveLateAnswer, OnlyTakes, sender
    <3> QED BY <3>1, <1>1
  <2>3. CASE ReceiveFrame(d, m) BY <2>3, ReceiveFrameKeeps
  <2> QED BY <2>1, <2>2, <2>3
<1>4. ASSUME NEW d \in Devices, TimeOut(d) \/ TimeOutEarly(d) PROVE AckInv' BY <1>4, TimeOutKeeps
<1>5. ASSUME NEW m \in net, Lose(m) PROVE AckInv'
  <2>1. OnlyTakes BY <1>5 DEF Lose, OnlyTakes, sender
  <2> QED BY <2>1, <1>1
<1>6. ASSUME NEW d \in Devices, NEW a \in Spare \cup {Home[e] : e \in Devices}, Move(d, a) PROVE AckInv'
  BY <1>6, MoveKeepsAck
<1>7. CASE UNCHANGED vars
  <2>1. OnlyTakes BY <1>7 DEF vars, OnlyTakes, sender
  <2> QED BY <2>1, <1>1
<1> QED BY <1>2, <1>3, <1>4, <1>5, <1>6, <1>7 DEF Next

\* A sender that is told PJON_ACK by one of these strategies was heard, as long as no
\* time-out came before the answer: one byte names no packet, but at most one datagram is
\* under way that receive_response() may take for it.  For DualUDP, whose answers name
\* the device, that holds whoever moves.
THEOREM AckedIsReceivedHolds == Spec => []AckedIsReceived
<1>1. AckInv => AckedIsReceived BY DEF AckInv, ToldInv
<1> QED BY <1>1, UdpInvInit, UdpInvNext, AckInvInit, AckInvNext, PTL DEF Spec
=============================================================================
