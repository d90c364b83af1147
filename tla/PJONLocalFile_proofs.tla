------------------------- MODULE PJONLocalFile_proofs -------------------------
(***************************************************************************)
(* What is proved of PJONLocalFile for every number of processes, size of  *)
(* the queue and length of the run.                                        *)
(***************************************************************************)
EXTENDS PJONLocalFile, FiniteSetTheorems, TLAPS

\* How far number i is ahead of number b.
U(b, i) == Diff(i, b)

LEMMA DiffValue ==
  ASSUME NEW i \in Ids, NEW j \in Ids
  PROVE  Diff(i, j) = IF j <= i THEN i - j ELSE i - j + IdMod
<1>1. CASE j <= i
  <2>1. i - j \in 0 .. IdMod - 1 BY <1>1, QueueAssumption DEF Ids
  <2> QED BY <2>1, <1>1, QueueAssumption DEF Diff, Ids
<1>2. CASE i < j
  <2>1. i - j + IdMod \in 0 .. IdMod - 1 BY <1>2, QueueAssumption DEF Ids
  <2>2. (i - j) % IdMod = (i - j + IdMod) % IdMod BY <1>2, QueueAssumption DEF Ids
  <2> QED BY <2>1, <2>2, <1>2, QueueAssumption DEF Diff, Ids
<1> QED BY <1>1, <1>2, QueueAssumption DEF Ids

LEMMA NextIdValue ==
  ASSUME NEW i \in Ids
  PROVE  NextId(i) = IF i + 1 = IdMod THEN 1 ELSE i + 1
<1>1. CASE i + 1 = IdMod
  <2>1. (i + 1) % IdMod = 0 BY <1>1, QueueAssumption DEF Ids
  <2> QED BY <2>1, <1>1 DEF NextId
<1>2. CASE i + 1 < IdMod
  <2>1. (i + 1) % IdMod = i + 1 BY <1>2, QueueAssumption DEF Ids
  <2> QED BY <2>1, <1>2, QueueAssumption DEF NextId, Ids
<1> QED BY <1>1, <1>2, QueueAssumption DEF Ids


\* Seen from b, numbers that are not far apart are in their order.
LEMMA AheadValue ==
  ASSUME NEW b \in Ids, NEW i \in Ids, NEW j \in Ids
  PROVE  /\ U(b, i) \in 0 .. IdMod - 1
         /\ U(b, i) = U(b, j) => i = j
         /\ U(b, j) <= U(b, i) => Diff(i, j) = U(b, i) - U(b, j)
         /\ U(b, i) < U(b, j) => Diff(i, j) = U(b, i) - U(b, j) + IdMod
<1>1. b \in Int /\ i \in Int /\ j \in Int /\ IdMod \in Int BY QueueAssumption DEF Ids
<1>2. 0 <= b /\ b < IdMod /\ 0 <= i /\ i < IdMod /\ 0 <= j /\ j < IdMod
  BY QueueAssumption DEF Ids
<1> QED BY <1>1, <1>2, DiffValue DEF U

\* The longest a run of numbers from b on is after m frames: one more where 0, which
\* is no number of a record, is passed over.
Within(b, i, m) == U(b, i) <= m + QueueSize - (IF b <= i THEN 1 ELSE 0)

\* The numbers do not come round in the lifetime of a file: a reader tells the
\* records before it from those after it.
Fits == Ahead + QueueSize + MaxCrashes + 1 <= IdMod

LEMMA NextAhead ==
  ASSUME Fits, NEW b \in Ids, NEW i \in Ids, NEW m \in Nat, m + 1 < Ahead, Within(b, i, m)
  PROVE  /\ NextId(i) \in Ids /\ NextId(i) # 0
         /\ U(b, i) < U(b, NextId(i))
         /\ Within(b, NextId(i), m + 1)
         /\ \A j \in Ids \ {0} : (U(b, i) < U(b, j) /\ U(b, j) <= U(b, NextId(i))) => j = NextId(i)
<1>1. NextId(i) \in Ids /\ NextId(i) # 0 BY NextIdValue, QueueAssumption DEF Ids
<1>2. b \in Int /\ i \in Int /\ NextId(i) \in Int /\ IdMod \in Int /\ Ahead \in Int /\ QueueSize \in Int
  BY <1>1, QueueAssumption DEF Ids
<1>3. 0 <= b /\ b < IdMod /\ 0 <= i /\ i < IdMod /\ 1 < IdMod /\ 1 < QueueSize
  BY QueueAssumption DEF Ids
<1>4. Ahead + QueueSize + 1 <= IdMod BY QueueAssumption DEF Fits
<1>5. U(b, i) = IF b <= i THEN i - b ELSE i - b + IdMod BY DiffValue DEF U
<1>6. U(b, NextId(i)) = IF b <= NextId(i) THEN NextId(i) - b ELSE NextId(i) - b + IdMod
  BY <1>1, DiffValue DEF U
<1>7. NextId(i) = IF i + 1 = IdMod THEN 1 ELSE i + 1 BY NextIdValue
<1>8. U(b, i) < U(b, NextId(i)) /\ Within(b, NextId(i), m + 1)
  BY <1>2, <1>3, <1>4, <1>5, <1>6, <1>7 DEF Within
<1>9. ASSUME NEW j \in Ids \ {0}, U(b, i) < U(b, j), U(b, j) <= U(b, NextId(i))
      PROVE  j = NextId(i)
  <2>1. U(b, j) = IF b <= j THEN j - b ELSE j - b + IdMod BY DiffValue DEF U
  <2>2. j \in Int /\ 0 < j /\ j < IdMod BY QueueAssumption DEF Ids
  <2> QED BY <2>1, <2>2, <1>9, <1>2, <1>3, <1>5, <1>6, <1>7
<1> QED BY <1>1, <1>8, <1>9

-----------------------------------------------------------------------------
(* The invariant. *)

Places == {"closed", "absent", "created", "open", "record", "last", "index"}

TypeInv ==
  /\ exists \in BOOLEAN /\ ready \in BOOLEAN /\ spoiled \in BOOLEAN
  /\ last \in Ids /\ index \in [Slots -> Ids] /\ rec \in [Slots -> Nat]
  /\ lock \in Procs \cup {Free} /\ at \in [Procs -> Places]
  /\ job \in [Procs -> [frame : Nat, slot : Slots, id : Ids]]
  /\ lastRead \in [Procs -> Ids]
  /\ sends \in Nat /\ crashes \in 0 .. MaxCrashes
  /\ stored \in Seq(Nat) /\ got \in [Procs -> Seq(Nat)]

Frames    == {stored[k] : k \in DOMAIN stored}
Stored(f) == f \in Frames
InFile(f) == \E s \in Slots : rec[s] = f
Clean(s)  == index[s] # 0 /\ Stored(rec[s])

\* Only the process that has the lock is writing.
Writing(p) == at[p] \in {"record", "last", "index"}
MutexInv   == \A p \in Procs : Writing(p) => lock = p

\* A slot that may be written over.
Oldest(b, s) == \/ index[s] = 0
                \/ \A t \in Slots : index[t] # 0 /\ U(b, index[s]) <= U(b, index[t])

\* Nothing in the file or read from it has a number above lastRecordId.
NumbersInv(b) ==
  /\ QueueSize <= U(b, last) /\ Within(b, last, sends) /\ sends < Ahead
  /\ last = 0 => \A s \in Slots : index[s] = 0
  /\ \A s \in Slots : index[s] # 0 => U(b, index[s]) <= U(b, last)
  /\ \A s, t \in Slots : (index[s] # 0 /\ index[s] = index[t]) => s = t
  /\ \A p \in Procs : lastRead[p] # 0 => U(b, lastRead[p]) <= U(b, last)

\* What is being written is the latest frame, with the latest number, over an oldest record.
JobOf(b, p) ==
  /\ job[p].frame = sends /\ job[p].id # 0 /\ Within(b, job[p].id, sends)
  /\ at[p] # "index" => job[p].id = NextId(last)
  /\ at[p] = "index" => job[p].id = last
  /\ at[p] # "record" => rec[job[p].slot] = sends
  /\ \A t \in Slots : t # job[p].slot => rec[t] < sends
  /\ Oldest(b, job[p].slot)
  /\ \A s \in Slots : index[s] # 0 => U(b, index[s]) < U(b, job[p].id)
  /\ \A q \in Procs : lastRead[q] # 0 => U(b, lastRead[q]) < U(b, job[p].id)
  /\ \A k \in DOMAIN stored : stored[k] < sends
  /\ \A q \in Procs : \A k \in DOMAIN got[q] : got[q][k] < sends
  /\ at[p] # "index" => U(b, last) < U(b, job[p].id)
  /\ at[p] # "index" => \A i \in Ids \ {0} :
       (U(b, last) < U(b, i) /\ U(b, i) <= U(b, job[p].id)) => i = job[p].id
JobInv(b) == \A p \in Procs : Writing(p) => JobOf(b, p)

\* The numbers that are missing between those in the file.
Missing(b, i) == U(b, i) <= U(b, last) /\ \E s \in Slots : index[s] # 0 /\ U(b, index[s]) < U(b, i)
Covers(b, lost) == \A i \in Ids \ {0} : Missing(b, i) =>
  i \in lost \/ (\E t \in Slots : index[t] = i) \/ (i = last /\ \E p \in Procs : at[p] = "index")

\* A number is lost only with a sender that died.
GapsInv(b) == \E lost \in SUBSET Ids :
  /\ IsFiniteSet(lost) /\ Cardinality(lost) <= crashes /\ Covers(b, lost)

\* Later frames are in the file with later numbers; a record without its frame is an
\* oldest one; a frame is written over only after those before it.
FramesInv(b) ==
  /\ \A k \in DOMAIN stored : stored[k] <= sends
  /\ \A s \in Slots : rec[s] <= sends /\ (Stored(rec[s]) => index[s] # 0)
  /\ \A s, t \in Slots : (Clean(s) /\ Clean(t) /\ U(b, index[s]) < U(b, index[t])) => rec[s] < rec[t]
  /\ \A s \in Slots : (index[s] # 0 /\ ~Stored(rec[s])) =>
       /\ Oldest(b, s)
       /\ crashes # 0 \/ \E p \in Procs : at[p] \in {"last", "index"} /\ job[p].slot = s
  /\ (\E s \in Slots : index[s] = 0) => \A k \in DOMAIN stored : InFile(stored[k])
  /\ \A j, k \in DOMAIN stored : (j <= k /\ InFile(stored[j])) => InFile(stored[k])

\* A reader has read what is in the file up to lastRecordIdRead, and nothing after it.
ReaderOf(b, p) ==
  /\ got[p] # <<>> => lastRead[p] # 0
  /\ \A k \in DOMAIN got[p] : got[p][k] <= sends
  /\ \A k \in DOMAIN got[p] : \A s \in Slots :
       (Clean(s) /\ Stored(got[p][k]) /\ U(b, lastRead[p]) < U(b, index[s])) => got[p][k] < rec[s]
  /\ \A s \in Slots : (Clean(s) /\ got[p] # <<>> /\ U(b, index[s]) <= U(b, lastRead[p])) =>
       \E k \in DOMAIN got[p] : Stored(got[p][k]) /\ rec[s] <= got[p][k]
ReadersInv(b) == \A p \in Procs : ReaderOf(b, p)

QueueInv(b) == NumbersInv(b) /\ JobInv(b) /\ GapsInv(b) /\ FramesInv(b) /\ ReadersInv(b)

\* Frames are stored, and read, in the order they were sent.
StoredInv  == \A j, k \in DOMAIN stored : j < k => stored[j] < stored[k]
ReadInv(p) ==
  /\ \A j, k \in DOMAIN got[p] :
       (j < k /\ Stored(got[p][j]) /\ Stored(got[p][k])) => got[p][j] < got[p][k]
  /\ (\E j \in DOMAIN got[p] : Stored(got[p][j])) =>
       \E k \in DOMAIN got[p] : /\ Stored(got[p][k])
                                /\ \A j \in DOMAIN got[p] : Stored(got[p][j]) => got[p][j] <= got[p][k]
HistoryInv == StoredInv /\ \A p \in Procs : ReadInv(p)

FileInv == /\ TypeInv /\ MutexInv /\ HistoryInv
           /\ ~spoiled => \E b \in Ids : QueueInv(b)

LEMMA OneMore ==
  ASSUME NEW S, NEW x, NEW n \in Nat, IsFiniteSet(S), Cardinality(S) <= n
  PROVE  IsFiniteSet(S \cup {x}) /\ Cardinality(S \cup {x}) <= n + 1
<1>1. /\ IsFiniteSet(S \cup {x})
      /\ Cardinality(S \cup {x}) = IF x \in S THEN Cardinality(S) ELSE Cardinality(S) + 1
  BY FS_AddElement
<1>2. Cardinality(S) \in Nat BY FS_CardinalityType
<1>3. CASE x \in S BY <1>1, <1>2, <1>3
<1>4. CASE x \notin S BY <1>1, <1>2, <1>4
<1> QED BY <1>1, <1>3, <1>4

LEMMA NothingIn == DOMAIN <<>> = {}
<1>1. <<>> \in Seq(Nat) /\ Len(<<>>) = 0 OBVIOUS
<1>2. DOMAIN <<>> = 1 .. Len(<<>>) BY <1>1
<1> QED BY <1>1, <1>2

LEMMA EmptyFile ==
  ASSUME NEW b \in Ids, b = IdMod - QueueSize,
         last = 0, index = [s \in Slots |-> 0], rec = [s \in Slots |-> 0], sends = 0, stored = <<>>,
         crashes = 0, \A p \in Procs : at[p] = "closed" /\ lastRead[p] = 0 /\ got[p] = <<>>
  PROVE  QueueInv(b)
<1>1. last \in Ids /\ U(b, last) = QueueSize
  BY DiffValue, QueueAssumption DEF U, Ids
<1>2. \A s \in Slots : index[s] = 0 /\ rec[s] = 0 OBVIOUS
<1>3. 1 \in Slots /\ Ahead \in Int /\ QueueSize \in Int BY QueueAssumption DEF Slots
<1>4. NumbersInv(b) BY <1>1, <1>2, QueueAssumption DEF NumbersInv, Within, Ids
<1>5. JobInv(b) BY DEF JobInv, Writing
<1>6. GapsInv(b)
  <2>1. \A i \in Ids : ~Missing(b, i) BY <1>2 DEF Missing
  <2>2. IsFiniteSet({}) /\ Cardinality({}) <= crashes BY FS_EmptySet
  <2> QED BY <2>1, <2>2 DEF GapsInv, Covers
<1>7. FramesInv(b) BY <1>2 DEF FramesInv, Stored, Frames, Clean
<1>8. ReadersInv(b)
  <2>1. \A p \in Procs : got[p] = <<>> /\ DOMAIN got[p] = {} BY NothingIn
  <2> QED BY <2>1, <1>2 DEF ReadersInv, ReaderOf
<1> QED BY <1>4, <1>5, <1>6, <1>7, <1>8 DEF QueueInv

LEMMA UsedFile ==
  ASSUME NEW b \in Ids, b = StartId - QueueSize,
         last = StartId, index = [s \in Slots |-> StartId - QueueSize + s], rec = [s \in Slots |-> s],
         sends = QueueSize, stored = [s \in Slots |-> s],
         crashes = 0, \A p \in Procs : at[p] = "closed" /\ lastRead[p] = 0 /\ got[p] = <<>>
  PROVE  QueueInv(b)
<1>0. /\ QueueSize \in Int /\ StartId \in Int /\ IdMod \in Int /\ Ahead \in Int
      /\ QueueSize <= StartId /\ StartId < IdMod /\ 1 < QueueSize /\ QueueSize < Ahead
  BY QueueAssumption
<1>1. last \in Ids /\ U(b, last) = QueueSize
  <2>1. last \in Ids /\ b <= last BY <1>0 DEF Ids
  <2> QED BY <2>1, <1>0, DiffValue DEF U
<1>2. \A s \in Slots : /\ s \in Int /\ 1 <= s /\ s <= QueueSize
                       /\ index[s] = b + s /\ rec[s] = s /\ index[s] \in Ids /\ index[s] # 0
                       /\ U(b, index[s]) = s
  <2> SUFFICES ASSUME NEW s \in Slots
               PROVE  /\ s \in Int /\ 1 <= s /\ s <= QueueSize
                      /\ index[s] = b + s /\ rec[s] = s /\ index[s] \in Ids /\ index[s] # 0
                      /\ U(b, index[s]) = s
    OBVIOUS
  <2>1. s \in Int /\ 1 <= s /\ s <= QueueSize /\ index[s] = b + s /\ rec[s] = s BY <1>0 DEF Slots
  <2>2. index[s] \in Ids /\ index[s] # 0 /\ b <= index[s] BY <2>1, <1>0 DEF Ids
  <2>3. U(b, index[s]) = s BY <2>1, <2>2, <1>0, DiffValue DEF U, Ids
  <2> QED BY <2>1, <2>2, <2>3
<1>3. DOMAIN stored = Slots /\ \A k \in DOMAIN stored : stored[k] = k OBVIOUS
<1>4. NumbersInv(b)
  <2>1. Within(b, last, sends) BY <1>0, <1>1 DEF Within
  <2>2. last # 0 BY <1>0
  <2>3. \A s, t \in Slots : index[s] = index[t] => s = t BY <1>2
  <2> QED BY <2>1, <2>2, <2>3, <1>0, <1>1, <1>2 DEF NumbersInv
<1>5. JobInv(b) BY DEF JobInv, Writing
<1>6. GapsInv(b)
  <2>1. ASSUME NEW i \in Ids, Missing(b, i) PROVE \E t \in Slots : index[t] = i
    <3>1. U(b, i) \in Int /\ U(b, i) <= QueueSize /\ 1 < U(b, i)
      BY <2>1, <1>1, <1>2, AheadValue, QueueAssumption DEF Missing
    <3>2. U(b, i) \in Slots BY <3>1, <1>0 DEF Slots
    <3>3. U(b, index[U(b, i)]) = U(b, i) /\ index[U(b, i)] \in Ids BY <3>2, <1>2
    <3> QED BY <3>2, <3>3, AheadValue
  <2>2. IsFiniteSet({}) /\ Cardinality({}) <= crashes BY FS_EmptySet
  <2> QED BY <2>1, <2>2 DEF GapsInv, Covers
<1>7. FramesInv(b)
  <2>1. \A s \in Slots : Stored(rec[s]) BY <1>2, <1>3 DEF Stored, Frames
  <2>2. \A k \in DOMAIN stored : InFile(stored[k]) BY <1>2, <1>3 DEF InFile
  <2> QED BY <2>1, <2>2, <1>2, <1>3 DEF FramesInv, Clean
<1>8. ReadersInv(b)
  <2>1. \A p \in Procs : got[p] = <<>> /\ DOMAIN got[p] = {} BY NothingIn
  <2> QED BY <2>1 DEF ReadersInv, ReaderOf
<1> QED BY <1>4, <1>5, <1>6, <1>7, <1>8 DEF QueueInv

LEMMA InitInv == Init => FileInv
<1> SUFFICES ASSUME Init PROVE FileInv OBVIOUS
<1>0. /\ QueueSize \in Int /\ StartId \in Int /\ IdMod \in Int /\ Ahead \in Int /\ MaxCrashes \in Nat
      /\ QueueSize <= StartId /\ StartId < IdMod /\ 1 < QueueSize /\ QueueSize < Ahead /\ Ahead < IdMod
  BY QueueAssumption
<1>1. /\ spoiled = FALSE /\ crashes = 0 /\ crashes \in 0 .. MaxCrashes /\ lock = Free
      /\ \A p \in Procs : at[p] = "closed" /\ lastRead[p] = 0 /\ got[p] = <<>>
  BY <1>0 DEF Init
<1>2. /\ at \in [Procs -> Places] /\ lastRead \in [Procs -> Ids] /\ got \in [Procs -> Seq(Nat)]
      /\ job \in [Procs -> [frame : Nat, slot : Slots, id : Ids]]
  <2>1. NoJob \in [frame : Nat, slot : Slots, id : Ids] BY <1>0 DEF NoJob, Slots, Ids
  <2>2. 0 \in Ids BY <1>0 DEF Ids
  <2> QED BY <2>1, <2>2 DEF Init, Places
<1>3. MutexInv BY <1>1 DEF MutexInv, Writing
<1>4. \A p \in Procs : ReadInv(p)
  <2>1. \A p \in Procs : DOMAIN got[p] = {} BY <1>1, NothingIn
  <2> QED BY <2>1 DEF ReadInv
<1>5. CASE stored = <<>> /\ last = 0 /\ index = [s \in Slots |-> 0] /\ rec = [s \in Slots |-> 0]
           /\ sends = 0 /\ exists = FALSE /\ ready = FALSE
  <2>0. exists \in BOOLEAN /\ ready \in BOOLEAN /\ spoiled \in BOOLEAN BY <1>1, <1>5
  <2>5. 0 \in Ids BY <1>0 DEF Ids
  <2>1. TypeInv BY <2>0, <2>5, <1>0, <1>1, <1>2, <1>5 DEF TypeInv
  <2>2. IdMod - QueueSize \in Ids BY <1>0 DEF Ids
  <2>3. QueueInv(IdMod - QueueSize) BY <2>2, <1>1, <1>5, EmptyFile
  <2>4. HistoryInv BY <1>4, <1>5 DEF HistoryInv, StoredInv
  <2> QED BY <2>1, <2>2, <2>3, <2>4, <1>3 DEF FileInv
<1>6. CASE stored = [s \in Slots |-> s] /\ last = StartId /\ sends = QueueSize
           /\ index = [s \in Slots |-> StartId - QueueSize + s] /\ rec = [s \in Slots |-> s]
           /\ exists = TRUE /\ ready = TRUE
  <2>1. stored \in Seq(Nat) BY <1>0, <1>6 DEF Slots
  <2>2. index \in [Slots -> Ids] /\ rec \in [Slots -> Nat] /\ last \in Ids
    <3>1. \A s \in Slots : StartId - QueueSize + s \in Ids /\ s \in Nat BY <1>0 DEF Slots, Ids
    <3> QED BY <3>1, <1>6, <1>0 DEF Ids
  <2>0. exists \in BOOLEAN /\ ready \in BOOLEAN /\ spoiled \in BOOLEAN BY <1>1, <1>6
  <2>3. TypeInv BY <2>0, <1>0, <1>1, <1>2, <1>6, <2>1, <2>2 DEF TypeInv
  <2>4. StartId - QueueSize \in Ids BY <1>0 DEF Ids
  <2>5. QueueInv(StartId - QueueSize) BY <2>4, <1>1, <1>6, UsedFile
  <2>6. HistoryInv BY <1>4, <1>6 DEF HistoryInv, StoredInv
  <2> QED BY <2>3, <2>4, <2>5, <2>6, <1>3 DEF FileInv
<1> QED BY <1>5, <1>6 DEF Init

-----------------------------------------------------------------------------
(* Types, and the lock. *)

LEMMA NextIdType == \A i \in Ids : NextId(i) \in Ids
<1> SUFFICES ASSUME NEW i \in Ids PROVE NextId(i) \in Ids OBVIOUS
<1>1. i \in Int /\ 0 <= i /\ i < IdMod /\ 1 < IdMod /\ IdMod \in Int BY QueueAssumption DEF Ids
<1>2. NextId(i) = IF i + 1 = IdMod THEN 1 ELSE i + 1 BY NextIdValue
<1> QED BY <1>1, <1>2 DEF Ids

LEMMA ReusableSlots == Reusable \subseteq Slots
  BY DEF Reusable

LEMMA TypeKept == TypeInv /\ [Next]_vars => TypeInv'
<1> SUFFICES ASSUME TypeInv, [Next]_vars PROVE TypeInv' OBVIOUS
<1> USE DEF TypeInv, Goes
<1>0. 0 \in Ids /\ NoJob \in [frame : Nat, slot : Slots, id : Ids]
  BY QueueAssumption DEF NoJob, Ids, Slots
<1>1. CASE UNCHANGED vars BY <1>1 DEF vars
<1>2. ASSUME NEW p \in Procs, Open(p) PROVE TypeInv'
  BY <1>2 DEF Open, Places, fileVars
<1>3. ASSUME NEW p \in Procs, Create(p) PROVE TypeInv'
  BY <1>3 DEF Create, Places
<1>4. ASSUME NEW p \in Procs, Initialise(p) PROVE TypeInv'
  <2>1. spoiled' \in BOOLEAN BY <1>4 DEF Initialise
  <2> QED BY <2>1, <1>0, <1>4 DEF Initialise, Places
<1>5. ASSUME NEW p \in Procs, BeginWrite(p) PROVE TypeInv'
  <2>1. spoiled' \in BOOLEAN BY <1>5 DEF BeginWrite
  <2>2. NextId(last) \in Ids
    <3>1. last \in Ids OBVIOUS
    <3> HIDE DEF TypeInv
    <3> QED BY <3>1, NextIdType
  <2>3. PICK s \in Slots, id \in Ids : Starts(p, s, id) BY <2>2, <1>5, ReusableSlots DEF BeginWrite
  <2> QED BY <2>1, <2>3 DEF Starts, Places, fileVars
<1>6. ASSUME NEW p \in Procs, WriteRecord(p) PROVE TypeInv'
  BY <1>6 DEF WriteRecord, Places
<1>7. ASSUME NEW p \in Procs, WriteLast(p) PROVE TypeInv'
  BY <1>7 DEF WriteLast, Places
<1>8. ASSUME NEW p \in Procs, WriteIndex(p) PROVE TypeInv'
  <2>1. stored' \in Seq(Nat) BY <1>8 DEF WriteIndex
  <2> QED BY <2>1, <1>0, <1>8 DEF WriteIndex, Places
<1>9. ASSUME NEW p \in Procs, Read(p) PROVE TypeInv'
  <2>1. ReadFrom(p) \in Ids BY QueueAssumption DEF ReadFrom, Diff, Ids
  <2>2. spoiled' \in BOOLEAN BY <1>9 DEF Read
  <2>3. lastRead' \in [Procs -> Ids] /\ got' \in [Procs -> Seq(Nat)]
    <3>1. ASSUME NEW s \in Slots, Takes(p, s) PROVE <2>3!:
      BY <3>1 DEF Takes
    <3> QED BY <3>1, <2>1, <1>9 DEF Read, NextUnread, Unread
  <2> QED BY <2>2, <2>3, <1>9 DEF Read, fileVars
<1>10. ASSUME NEW p \in Procs, Crash(p) PROVE TypeInv'
  <2>1. <<>> \in Seq(Nat) OBVIOUS
  <2>2. crashes' \in 0 .. MaxCrashes BY <1>10, QueueAssumption DEF Crash
  <2> QED BY <2>1, <2>2, <1>0, <1>10 DEF Crash, Places, fileVars
<1> QED BY <1>1, <1>2, <1>3, <1>4, <1>5, <1>6, <1>7, <1>8, <1>9, <1>10 DEF Next, Works

LEMMA MutexKept == TypeInv /\ MutexInv /\ [Next]_vars => MutexInv'
<1> SUFFICES ASSUME TypeInv, MutexInv, [Next]_vars PROVE MutexInv' OBVIOUS
<1> USE DEF MutexInv, Writing, Goes
<1>0. at \in [Procs -> Places] BY DEF TypeInv
<1>1. CASE UNCHANGED vars BY <1>1 DEF vars
<1>2. ASSUME NEW p \in Procs, Open(p) \/ Create(p) \/ Initialise(p) PROVE MutexInv'
  BY <1>0, <1>2 DEF Open, Create, Initialise
<1>3. ASSUME NEW p \in Procs, BeginWrite(p) PROVE MutexInv'
  <2>1. \A q \in Procs : ~Writing(q) BY <1>3, ProcsAssumption DEF BeginWrite
  <2>2. lock' = p /\ at' = [at EXCEPT ![p] = "record"] BY <1>3 DEF BeginWrite, Starts
  <2> QED BY <2>1, <2>2, <1>0
<1>4. ASSUME NEW p \in Procs, WriteRecord(p) \/ WriteLast(p) PROVE MutexInv'
  BY <1>0, <1>4 DEF WriteRecord, WriteLast
<1>5. ASSUME NEW p \in Procs, WriteIndex(p) \/ Crash(p) PROVE MutexInv'
  BY <1>0, <1>5 DEF WriteIndex, Crash
<1>6. ASSUME NEW p \in Procs, Read(p) PROVE MutexInv'
  BY <1>6 DEF Read
<1> QED BY <1>1, <1>2, <1>3, <1>4, <1>5, <1>6 DEF Next, Works

\* Whoever writes is alone, and nobody does while the lock is free.
LEMMA OneWriter ==
  ASSUME MutexInv
  PROVE  /\ lock = Free => \A p \in Procs : ~Writing(p)
         /\ \A p, q \in Procs : Writing(p) /\ Writing(q) => p = q
  BY ProcsAssumption DEF MutexInv

-----------------------------------------------------------------------------
(* Every step keeps the invariant of a file that is not spoiled. *)

\* A process opens, creates or initialises the file: the records are left as they are.
Settles ==
  /\ UNCHANGED <<last, index, rec, job, lastRead, sends, crashes, stored, got>>
  /\ \A q \in Procs : at'[q] = at[q] \/ (~Writing(q) /\ ~Writing(q)')

LEMMA SettlesKeeps ==
  ASSUME NEW b \in Ids, QueueInv(b), Settles
  PROVE  QueueInv(b)'
<1>1. /\ \A q \in Procs : Writing(q)' => Writing(q) /\ at'[q] = at[q]
      /\ \A q \in Procs : at'[q] \in {"last", "index"} <=> at[q] \in {"last", "index"}
      /\ \A q \in Procs : at'[q] = "index" <=> at[q] = "index"
  BY DEF Settles, Writing
<1>2. /\ last' = last /\ index' = index /\ rec' = rec /\ job' = job /\ lastRead' = lastRead
      /\ sends' = sends /\ crashes' = crashes /\ stored' = stored /\ got' = got
  BY DEF Settles
<1>3. NumbersInv(b)' BY <1>2 DEF QueueInv, NumbersInv
<1>4. JobInv(b)'
  <2> SUFFICES ASSUME NEW p \in Procs, Writing(p)'
               PROVE  JobOf(b, p)'
    BY DEF JobInv
  <2>1. Writing(p) /\ at'[p] = at[p] BY <1>1
  <2> QED BY <2>1, <1>2 DEF QueueInv, JobInv, JobOf, Oldest
<1>5. GapsInv(b)'
  <2>1. PICK lost \in SUBSET Ids :
          IsFiniteSet(lost) /\ Cardinality(lost) <= crashes /\ Covers(b, lost)
    BY DEF QueueInv, GapsInv
  <2>2. Covers(b, lost)' BY <2>1, <1>1, <1>2 DEF Covers, Missing
  <2> QED BY <2>1, <2>2, <1>2 DEF GapsInv
<1>6. FramesInv(b)' BY <1>1, <1>2 DEF QueueInv, FramesInv, Clean, Stored, Frames, InFile, Oldest
<1>7. ReadersInv(b)' BY <1>2 DEF QueueInv, ReadersInv, ReaderOf, Clean, Stored, Frames
<1> QED BY <1>3, <1>4, <1>5, <1>6, <1>7 DEF QueueInv

LEMMA ReusableIsOldest ==
  ASSUME TypeInv, NEW b \in Ids, NumbersInv(b), NEW s \in Reusable
  PROVE  s \in Slots /\ Oldest(b, s)
<1>0. s \in Slots BY DEF Reusable
<1>1. CASE \E t \in Slots : index[t] = 0 BY <1>1 DEF Reusable, Oldest
<1>2. CASE \A t \in Slots : index[t] # 0
  <2>1. \A t \in Slots : Diff(last, index[t]) = U(b, last) - U(b, index[t])
    BY <1>2, AheadValue DEF TypeInv, NumbersInv
  <2>2. \A t \in Slots : Diff(last, index[t]) <= Diff(last, index[s]) BY <1>2 DEF Reusable
  <2>3. U(b, last) \in Int /\ \A t \in Slots : U(b, index[t]) \in Int
    BY AheadValue, QueueAssumption DEF TypeInv
  <2> QED BY <1>0, <1>2, <2>1, <2>2, <2>3 DEF Oldest
<1> QED BY <1>0, <1>1, <1>2

LEMMA BeginKeeps ==
  ASSUME Fits, TypeInv, MutexInv, NEW b \in Ids, QueueInv(b), NEW p \in Procs, NEW s \in Reusable,
         at[p] = "open", lock = Free, sends < MaxSends, Starts(p, s, NextId(last))
  PROVE  QueueInv(b)'
<1>1. /\ NumbersInv(b) /\ JobInv(b) /\ GapsInv(b) /\ FramesInv(b) /\ ReadersInv(b)
      /\ sends \in Nat /\ MaxSends \in Nat /\ QueueSize \in Nat /\ Ahead \in Nat /\ MaxSends < Ahead
  BY QueueAssumption DEF QueueInv, TypeInv
<1>2. /\ sends' = sends + 1 /\ at' = [at EXCEPT ![p] = "record"]
      /\ job' = [job EXCEPT ![p] = [frame |-> sends + 1, slot |-> s, id |-> NextId(last)]]
      /\ last' = last /\ index' = index /\ rec' = rec /\ lastRead' = lastRead /\ crashes' = crashes
      /\ stored' = stored /\ got' = got
  BY DEF Starts, Goes, fileVars
<1>3. \A q \in Procs : ~Writing(q) BY OneWriter
<1>4. /\ at \in [Procs -> Places] /\ last \in Ids /\ index \in [Slots -> Ids]
      /\ rec \in [Slots -> Nat] /\ lastRead \in [Procs -> Ids]
      /\ job \in [Procs -> [frame : Nat, slot : Slots, id : Ids]]
      /\ \A k \in DOMAIN stored : stored[k] \in Nat
      /\ \A q \in Procs : \A k \in DOMAIN got[q] : got[q][k] \in Nat
  BY DEF TypeInv
<1>5. at'[p] = "record" /\ \A q \in Procs : q # p => at'[q] = at[q] BY <1>2, <1>4
<1>6. s \in Slots /\ Oldest(b, s) BY <1>1, ReusableIsOldest
<1>7. U(b, last) \in Int /\ (\A i \in Ids : U(b, i) \in Int) BY <1>4, AheadValue, QueueAssumption
<1>8. /\ NextId(last) \in Ids /\ NextId(last) # 0 /\ U(b, last) < U(b, NextId(last))
      /\ Within(b, NextId(last), sends + 1)
      /\ \A j \in Ids \ {0} :
           (U(b, last) < U(b, j) /\ U(b, j) <= U(b, NextId(last))) => j = NextId(last)
  <2>1. sends + 1 < Ahead /\ Within(b, last, sends) BY <1>1 DEF NumbersInv
  <2> QED BY <1>1, <1>4, <2>1, NextAhead
<1>9. NumbersInv(b)'
  <2>1. Within(b, last, sends) BY <1>1 DEF NumbersInv
  <2>2. Within(b, last, sends + 1) BY <1>1, <1>7, <2>1 DEF Within
  <2> QED BY <1>1, <1>2, <2>2 DEF NumbersInv, Within
<1>10. JobInv(b)'
  <2> SUFFICES ASSUME NEW q \in Procs, Writing(q)' PROVE JobOf(b, q)' BY DEF JobInv
  <2>1. q = p BY <1>3, <1>5 DEF Writing
  <2>2. job'[p].frame = sends + 1 /\ job'[p].slot = s /\ job'[p].id = NextId(last)
    BY <1>2, <1>4
  <2>3. Oldest(b, s)' BY <1>6, <1>2 DEF Oldest
  <2>4. \A t \in Slots : index[t] # 0 => U(b, index[t]) < U(b, NextId(last))
    BY <1>1, <1>4, <1>7, <1>8 DEF NumbersInv
  <2>5. \A r \in Procs : lastRead[r] # 0 => U(b, lastRead[r]) < U(b, NextId(last))
    BY <1>1, <1>4, <1>7, <1>8 DEF NumbersInv
  <2>6. \A k \in DOMAIN stored : stored[k] < sends + 1 BY <1>1, <1>4 DEF FramesInv
  <2>7. \A r \in Procs : \A k \in DOMAIN got[r] : got[r][k] < sends + 1
    BY <1>1, <1>4 DEF ReadersInv, ReaderOf
  <2>8. \A t \in Slots : rec[t] < sends + 1 BY <1>1, <1>4 DEF FramesInv
  <2> QED BY <2>1, <2>2, <2>3, <2>4, <2>5, <2>6, <2>7, <2>8, <1>2, <1>5, <1>8 DEF JobOf, Within
<1>11. GapsInv(b)'
  <2>1. \A q \in Procs : at'[q] # "index" /\ at[q] # "index" BY <1>3, <1>5 DEF Writing
  <2>2. PICK lost \in SUBSET Ids :
          IsFiniteSet(lost) /\ Cardinality(lost) <= crashes /\ Covers(b, lost)
    BY <1>1 DEF GapsInv
  <2>3. Covers(b, lost)' BY <2>1, <2>2, <1>2 DEF Covers, Missing
  <2> QED BY <2>2, <2>3, <1>2 DEF GapsInv
<1>12. FramesInv(b)'
  <2>1. \A k \in DOMAIN stored : stored[k] <= sends' BY <1>1, <1>2, <1>4 DEF FramesInv
  <2>2. \A t \in Slots : rec[t] <= sends' BY <1>1, <1>2, <1>4 DEF FramesInv
  <2>3. \A q \in Procs : at[q] \notin {"last", "index"} BY <1>3 DEF Writing
  <2> QED BY <2>1, <2>2, <2>3, <1>1, <1>2 DEF FramesInv, Clean, Stored, Frames, InFile, Oldest
<1>13. ReadersInv(b)'
  <2>1. \A q \in Procs : \A k \in DOMAIN got[q] : got[q][k] <= sends'
    BY <1>1, <1>2, <1>4 DEF ReadersInv, ReaderOf
  <2> QED BY <2>1, <1>1, <1>2 DEF ReadersInv, ReaderOf, Clean, Stored, Frames
<1> QED BY <1>9, <1>10, <1>11, <1>12, <1>13 DEF QueueInv

\* What every step of a writer starts from.
LEMMA WriterFacts ==
  ASSUME TypeInv, MutexInv, NEW b \in Ids, QueueInv(b), NEW p \in Procs, Writing(p)
  PROVE  /\ NumbersInv(b) /\ JobInv(b) /\ GapsInv(b) /\ FramesInv(b) /\ ReadersInv(b)
         /\ JobOf(b, p) /\ job[p].slot \in Slots /\ job[p].id \in Ids /\ ~Stored(sends)
         /\ (\A q \in Procs : Writing(q) => q = p) /\ at \in [Procs -> Places]
         /\ (\A i \in Ids : U(b, i) \in Int) /\ last \in Ids /\ index \in [Slots -> Ids]
         /\ rec \in [Slots -> Nat] /\ sends \in Nat /\ (\A k \in DOMAIN stored : stored[k] \in Nat)
<1>1. /\ NumbersInv(b) /\ JobInv(b) /\ GapsInv(b) /\ FramesInv(b) /\ ReadersInv(b)
      /\ JobOf(b, p)
  BY DEF QueueInv, JobInv
<1>2. ~Stored(sends) BY <1>1 DEF JobOf, Stored, Frames, TypeInv
<1>3. \A q \in Procs : Writing(q) => q = p BY OneWriter
<1>4. \A i \in Ids : U(b, i) \in Int BY AheadValue, QueueAssumption
<1>5. /\ job[p].slot \in Slots /\ job[p].id \in Ids /\ at \in [Procs -> Places]
      /\ last \in Ids /\ index \in [Slots -> Ids] /\ rec \in [Slots -> Nat] /\ sends \in Nat
  BY DEF TypeInv
<1>6. \A k \in DOMAIN stored : stored[k] \in Nat BY DEF TypeInv
<1> QED BY <1>1, <1>2, <1>3, <1>4, <1>5, <1>6

LEMMA RecordKeeps ==
  ASSUME TypeInv, MutexInv, HistoryInv, NEW b \in Ids, QueueInv(b), NEW p \in Procs, WriteRecord(p)
  PROVE  QueueInv(b)'
<1>0. Writing(p) /\ at[p] = "record" BY DEF WriteRecord, Writing
<1>1. PICK s : s = job[p].slot OBVIOUS
<1>2. /\ NumbersInv(b) /\ JobInv(b) /\ GapsInv(b) /\ FramesInv(b) /\ ReadersInv(b)
      /\ JobOf(b, p) /\ s \in Slots /\ ~Stored(sends)
      /\ (\A q \in Procs : Writing(q) => q = p) /\ at \in [Procs -> Places]
      /\ (\A i \in Ids : U(b, i) \in Int) /\ index \in [Slots -> Ids]
      /\ rec \in [Slots -> Nat] /\ sends \in Nat /\ (\A k \in DOMAIN stored : stored[k] \in Nat)
  BY <1>0, <1>1, WriterFacts
<1>3. /\ rec' = [rec EXCEPT ![s] = sends] /\ at' = [at EXCEPT ![p] = "last"]
      /\ last' = last /\ index' = index /\ lastRead' = lastRead /\ crashes' = crashes
      /\ stored' = stored /\ got' = got /\ sends' = sends /\ job' = job
  BY <1>1, <1>2 DEF WriteRecord, Goes, JobOf
<1>4. /\ at'[p] = "last" /\ (\A q \in Procs : q # p => at'[q] = at[q] /\ ~Writing(q)')
      /\ rec'[s] = sends /\ (\A t \in Slots : t # s => rec'[t] = rec[t])
  BY <1>2, <1>3 DEF Writing
<1>5. /\ \A f : Stored(f)' <=> Stored(f)
      /\ \A t \in Slots : Oldest(b, t)' <=> Oldest(b, t)
      /\ \A t \in Slots : Clean(t)' <=> Clean(t) /\ t # s
  BY <1>2, <1>3, <1>4 DEF Stored, Frames, Oldest, Clean
<1>6. NumbersInv(b)' BY <1>2, <1>3 DEF NumbersInv
<1>7. JobInv(b)'
  <2> SUFFICES ASSUME NEW q \in Procs, Writing(q)' PROVE JobOf(b, q)' BY DEF JobInv
  <2>1. q = p BY <1>4
  <2> QED BY <2>1, <1>0, <1>1, <1>2, <1>3, <1>4, <1>5 DEF JobOf
<1>8. GapsInv(b)'
  <2>1. PICK lost \in SUBSET Ids :
          IsFiniteSet(lost) /\ Cardinality(lost) <= crashes /\ Covers(b, lost)
    BY <1>2 DEF GapsInv
  <2>2. Covers(b, lost)' BY <2>1, <1>0, <1>3, <1>4 DEF Covers, Missing
  <2> QED BY <2>1, <2>2, <1>3 DEF GapsInv
<1>9. FramesInv(b)'
  <2>1. \A k \in DOMAIN stored : stored[k] <= sends' BY <1>2, <1>3 DEF FramesInv
  <2>2. \A t \in Slots : rec'[t] <= sends' /\ (Stored(rec'[t]) => index[t] # 0)
    BY <1>2, <1>3, <1>4 DEF FramesInv
  <2>3. \A t, u \in Slots : (Clean(t)' /\ Clean(u)' /\ U(b, index[t]) < U(b, index[u])) => rec'[t] < rec'[u]
    BY <1>2, <1>4, <1>5 DEF FramesInv
  <2>4. ASSUME NEW t \in Slots, index[t] # 0, ~Stored(rec'[t])
        PROVE  /\ Oldest(b, t)
               /\ crashes # 0 \/ \E q \in Procs : at'[q] \in {"last", "index"} /\ job[q].slot = t
    <3>1. CASE t = s BY <3>1, <1>1, <1>2, <1>4 DEF JobOf
    <3>2. CASE t # s
      <4>1. ~Stored(rec[t]) BY <3>2, <2>4, <1>4
      <4>2. \A q \in Procs : at[q] \notin {"last", "index"} BY <1>0, <1>2 DEF Writing
      <4> QED BY <4>1, <4>2, <2>4, <1>2 DEF FramesInv
    <3> QED BY <3>1, <3>2
  <2>5. ASSUME NEW t \in Slots, index[t] = 0, NEW k \in DOMAIN stored PROVE InFile(stored[k])'
    <3>1. index[s] = 0 BY <2>5, <1>1, <1>2 DEF JobOf, Oldest
    <3>2. PICK u \in Slots : rec[u] = stored[k] BY <2>5, <1>2 DEF FramesInv, InFile
    <3>3. Stored(rec[u]) BY <3>2 DEF Stored, Frames
    <3>4. u # s BY <3>1, <3>3, <1>2 DEF FramesInv
    <3> QED BY <3>2, <3>4, <1>3, <1>4 DEF InFile
  <2>6. ASSUME NEW j \in DOMAIN stored, NEW k \in DOMAIN stored, j <= k, InFile(stored[j])'
        PROVE  InFile(stored[k])'
    <3>1. PICK t \in Slots : rec'[t] = stored[j] BY <2>6, <1>3 DEF InFile
    <3>2. Stored(stored[j]) /\ Stored(stored[k]) BY DEF Stored, Frames
    <3>3. t # s /\ rec[t] = stored[j] BY <3>1, <3>2, <1>2, <1>4
    <3>4. PICK u \in Slots : rec[u] = stored[k] BY <3>3, <2>6, <1>2 DEF FramesInv, InFile
    <3>5. u # s
      <4> SUFFICES ASSUME u = s PROVE FALSE OBVIOUS
      <4>1. Clean(s) /\ Clean(t) BY <3>2, <3>3, <3>4, <1>2 DEF FramesInv, Clean
      <4>2. U(b, index[s]) <= U(b, index[t]) BY <4>1, <1>1, <1>2 DEF JobOf, Oldest, Clean
      <4>3. U(b, index[s]) # U(b, index[t])
        BY <4>1, <3>3, <1>2, AheadValue DEF NumbersInv, Clean
      <4>4. stored[k] < stored[j] BY <4>1, <4>2, <4>3, <3>3, <3>4, <1>2 DEF FramesInv
      <4>5. j = k \/ stored[j] < stored[k] BY <2>6 DEF HistoryInv, StoredInv, TypeInv
      <4> QED BY <4>4, <4>5, <1>2
    <3> QED BY <3>4, <3>5, <1>3, <1>4 DEF InFile
  <2>7. \A f : Stored(f)' <=> Stored(f) BY <1>5
  <2>8. \A t \in Slots : (index[t] # 0 /\ ~Stored(rec'[t])) =>
          /\ Oldest(b, t)'
          /\ crashes' # 0 \/ \E q \in Procs : at'[q] \in {"last", "index"} /\ job'[q].slot = t
    BY <2>4, <1>3, <1>5
  <2> QED BY <2>1, <2>2, <2>3, <2>5, <2>6, <2>7, <2>8, <1>3 DEF FramesInv
<1>10. ReadersInv(b)' BY <1>2, <1>3, <1>4, <1>5 DEF ReadersInv, ReaderOf
<1> QED BY <1>6, <1>7, <1>8, <1>9, <1>10 DEF QueueInv

LEMMA LastKeeps ==
  ASSUME TypeInv, MutexInv, NEW b \in Ids, QueueInv(b), NEW p \in Procs, WriteLast(p)
  PROVE  QueueInv(b)'
<1>0. Writing(p) /\ at[p] = "last" BY DEF WriteLast, Writing
<1>1. PICK n : n = job[p].id OBVIOUS
<1>2. /\ NumbersInv(b) /\ JobInv(b) /\ GapsInv(b) /\ FramesInv(b) /\ ReadersInv(b)
      /\ JobOf(b, p) /\ n \in Ids
      /\ (\A q \in Procs : Writing(q) => q = p) /\ at \in [Procs -> Places]
      /\ (\A i \in Ids : U(b, i) \in Int) /\ last \in Ids /\ index \in [Slots -> Ids]
      /\ lastRead \in [Procs -> Ids]
  BY <1>0, <1>1, WriterFacts DEF TypeInv
<1>3. /\ last' = n /\ at' = [at EXCEPT ![p] = "index"]
      /\ rec' = rec /\ index' = index /\ lastRead' = lastRead /\ crashes' = crashes
      /\ stored' = stored /\ got' = got /\ sends' = sends /\ job' = job
  BY <1>1 DEF WriteLast, Goes
<1>4. /\ at'[p] = "index" /\ (\A q \in Procs : q # p => at'[q] = at[q] /\ ~Writing(q)')
  BY <1>2, <1>3 DEF Writing
<1>5. /\ n # 0 /\ Within(b, n, sends) /\ U(b, last) < U(b, n)
      /\ (\A s \in Slots : index[s] # 0 => U(b, index[s]) < U(b, n))
      /\ (\A q \in Procs : lastRead[q] # 0 => U(b, lastRead[q]) < U(b, n))
      /\ \A i \in Ids \ {0} : (U(b, last) < U(b, i) /\ U(b, i) <= U(b, n)) => i = n
  BY <1>0, <1>1, <1>2 DEF JobOf
<1>6. NumbersInv(b)'
  <2>1. QueueSize <= U(b, n) BY <1>2, <1>5, QueueAssumption DEF NumbersInv
  <2>2. \A s \in Slots : index[s] # 0 => U(b, index[s]) <= U(b, n) BY <1>2, <1>5
  <2>3. \A q \in Procs : lastRead[q] # 0 => U(b, lastRead[q]) <= U(b, n) BY <1>2, <1>5
  <2> QED BY <2>1, <2>2, <2>3, <1>2, <1>3, <1>5 DEF NumbersInv
<1>7. JobInv(b)'
  <2> SUFFICES ASSUME NEW q \in Procs, Writing(q)' PROVE JobOf(b, q)' BY DEF JobInv
  <2>1. q = p BY <1>4
  <2> QED BY <2>1, <1>0, <1>1, <1>2, <1>3, <1>4 DEF JobOf, Oldest
<1>8. GapsInv(b)'
  <2>1. PICK lost \in SUBSET Ids :
          IsFiniteSet(lost) /\ Cardinality(lost) <= crashes /\ Covers(b, lost)
    BY <1>2 DEF GapsInv
  <2>2. ASSUME NEW i \in Ids \ {0}, Missing(b, i)'
        PROVE  i \in lost \/ (\E t \in Slots : index[t] = i) \/ i = n
    <3>1. CASE U(b, i) <= U(b, last)
      <4>1. Missing(b, i) BY <3>1, <2>2, <1>3 DEF Missing
      <4>2. \A q \in Procs : at[q] # "index" BY <1>0, <1>2 DEF Writing
      <4> QED BY <4>1, <4>2, <2>1 DEF Covers
    <3>2. CASE U(b, last) < U(b, i) BY <3>2, <2>2, <1>3, <1>5 DEF Missing
    <3> QED BY <3>1, <3>2, <1>2
  <2>3. Covers(b, lost)' BY <2>2, <1>3, <1>4 DEF Covers
  <2> QED BY <2>1, <2>3, <1>3 DEF GapsInv
<1>9. FramesInv(b)'
  <2>1. \A q \in Procs : at[q] \in {"last", "index"} => at'[q] \in {"last", "index"}
    BY <1>3, <1>4
  <2> QED BY <2>1, <1>2, <1>3 DEF FramesInv, Clean, Stored, Frames, InFile, Oldest
<1>10. ReadersInv(b)'
  <2>1. ReadersInv(b) BY <1>2
  <2> QED BY <2>1, <1>3 DEF ReadersInv, ReaderOf, Clean, Stored, Frames
<1> QED BY <1>6, <1>7, <1>8, <1>9, <1>10 DEF QueueInv

LEMMA CrashKeeps ==
  ASSUME TypeInv, MutexInv, NEW b \in Ids, QueueInv(b), NEW p \in Procs, Crash(p)
  PROVE  QueueInv(b)'
<1>1. /\ NumbersInv(b) /\ JobInv(b) /\ GapsInv(b) /\ FramesInv(b) /\ ReadersInv(b)
      /\ crashes \in Nat /\ at \in [Procs -> Places] /\ last \in Ids
      /\ job \in [Procs -> [frame : Nat, slot : Slots, id : Ids]]
      /\ lastRead \in [Procs -> Ids] /\ got \in [Procs -> Seq(Nat)]
  BY DEF QueueInv, TypeInv
<1>2. /\ crashes' = crashes + 1 /\ at' = [at EXCEPT ![p] = "closed"]
      /\ last' = last /\ index' = index /\ rec' = rec /\ sends' = sends /\ stored' = stored
      /\ job' = [job EXCEPT ![p] = NoJob] /\ lastRead' = [lastRead EXCEPT ![p] = 0]
      /\ got' = [got EXCEPT ![p] = <<>>]
  BY DEF Crash, Goes, fileVars
<1>3. /\ at'[p] = "closed" /\ lastRead'[p] = 0 /\ got'[p] = <<>> /\ DOMAIN got'[p] = {}
      /\ \A q \in Procs : q # p => /\ at'[q] = at[q] /\ job'[q] = job[q]
                                   /\ lastRead'[q] = lastRead[q] /\ got'[q] = got[q]
  BY <1>1, <1>2, NothingIn
<1>4. NumbersInv(b)' BY <1>1, <1>2, <1>3 DEF NumbersInv
<1>5. JobInv(b)'
  <2> SUFFICES ASSUME NEW q \in Procs, Writing(q)' PROVE JobOf(b, q)' BY DEF JobInv
  <2>1. q # p /\ Writing(q) /\ at'[q] = at[q] /\ job'[q] = job[q] BY <1>3 DEF Writing
  <2>2. JobOf(b, q) BY <2>1, <1>1 DEF JobInv
  <2> QED BY <2>1, <2>2, <1>2, <1>3 DEF JobOf, Oldest
<1>6. GapsInv(b)'
  <2>1. PICK lost \in SUBSET Ids :
          IsFiniteSet(lost) /\ Cardinality(lost) <= crashes /\ Covers(b, lost)
    BY <1>1 DEF GapsInv
  <2>2. PICK l2 : l2 = lost \cup {last} OBVIOUS
  <2>3. l2 \in SUBSET Ids /\ IsFiniteSet(l2) /\ Cardinality(l2) <= crashes + 1
    <3>1. crashes \in Nat /\ last \in Ids BY <1>1
    <3>2. IsFiniteSet(l2) /\ Cardinality(l2) <= crashes + 1 BY <3>1, <2>1, <2>2, OneMore
    <3> QED BY <3>1, <3>2, <2>1, <2>2
  <2>4. Covers(b, l2)' BY <2>1, <2>2, <1>2 DEF Covers, Missing
  <2> QED BY <2>3, <2>4, <1>2 DEF GapsInv
<1>7. FramesInv(b)'
  <2>1. crashes' # 0 BY <1>1, <1>2
  <2>2. FramesInv(b) BY <1>1
  <2>3. /\ \A k \in DOMAIN stored : stored[k] <= sends
        /\ \A s \in Slots : rec[s] <= sends /\ (Stored(rec[s]) => index[s] # 0)
        /\ \A s, t \in Slots : (Clean(s) /\ Clean(t) /\ U(b, index[s]) < U(b, index[t])) => rec[s] < rec[t]
        /\ \A s \in Slots : (index[s] # 0 /\ ~Stored(rec[s])) => Oldest(b, s)
        /\ (\E s \in Slots : index[s] = 0) => \A k \in DOMAIN stored : InFile(stored[k])
        /\ \A j, k \in DOMAIN stored : (j <= k /\ InFile(stored[j])) => InFile(stored[k])
    BY <2>2 DEF FramesInv
  <2> USE DEF Clean, Stored, Frames, InFile, Oldest
  <2>4. /\ (\A k \in DOMAIN stored : stored[k] <= sends)'
        /\ (\A s \in Slots : rec[s] <= sends /\ (Stored(rec[s]) => index[s] # 0))'
    BY <2>3, <1>2
  <2>5. (\A s, t \in Slots : (Clean(s) /\ Clean(t) /\ U(b, index[s]) < U(b, index[t])) => rec[s] < rec[t])'
    BY <2>3, <1>2
  <2>6. (\A s \in Slots : (index[s] # 0 /\ ~Stored(rec[s])) => Oldest(b, s))'
    BY <2>3, <1>2
  <2>7. /\ ((\E s \in Slots : index[s] = 0) => \A k \in DOMAIN stored : InFile(stored[k]))'
        /\ (\A j, k \in DOMAIN stored : (j <= k /\ InFile(stored[j])) => InFile(stored[k]))'
    BY <2>3, <1>2
  <2> QED BY <2>1, <2>4, <2>5, <2>6, <2>7 DEF FramesInv
<1>8. ReadersInv(b)'
  <2> SUFFICES ASSUME NEW q \in Procs PROVE ReaderOf(b, q)' BY DEF ReadersInv
  <2>1. CASE q = p BY <2>1, <1>3 DEF ReaderOf
  <2>2. CASE q # p
    <3>1. ReaderOf(b, q) /\ lastRead'[q] = lastRead[q] /\ got'[q] = got[q]
      BY <2>2, <1>1, <1>3 DEF ReadersInv
    <3> QED BY <3>1, <1>2 DEF ReaderOf, Clean, Stored, Frames
  <2> QED BY <2>1, <2>2
<1> QED BY <1>4, <1>5, <1>6, <1>7, <1>8 DEF QueueInv

\* The record is entered: its frame is the last one stored, and its number the last one.
LEMMA IndexFacts ==
  ASSUME TypeInv, MutexInv, NEW b \in Ids, QueueInv(b), NEW p \in Procs, WriteIndex(p), ~spoiled
  PROVE  /\ stored' = Append(stored, sends) /\ index' = [index EXCEPT ![job[p].slot] = last]
         /\ DOMAIN stored = 1 .. Len(stored) /\ DOMAIN stored' = 1 .. Len(stored) + 1
         /\ (\A k \in DOMAIN stored : stored'[k] = stored[k]) /\ stored'[Len(stored) + 1] = sends
         /\ Frames' = Frames \cup {sends}
         /\ \A q \in Procs : \A k \in DOMAIN got[q] : got[q][k] # sends
<1>1. Writing(p) /\ at[p] = "index" BY DEF WriteIndex, Writing
<1>2. JobOf(b, p) /\ stored \in Seq(Nat) /\ sends \in Nat /\ got \in [Procs -> Seq(Nat)]
  BY <1>1, WriterFacts DEF TypeInv
<1>3. stored' = Append(stored, sends) /\ index' = [index EXCEPT ![job[p].slot] = last]
  BY <1>1, <1>2 DEF WriteIndex, JobOf
<1>4. /\ Len(stored) \in Nat
      /\ DOMAIN stored = 1 .. Len(stored) /\ DOMAIN stored' = 1 .. Len(stored) + 1
      /\ (\A k \in DOMAIN stored : stored'[k] = stored[k]) /\ stored'[Len(stored) + 1] = sends
  BY <1>2, <1>3
<1>5. Frames' = Frames \cup {sends}
  <2>1. \A k \in DOMAIN stored' : k \in DOMAIN stored \/ k = Len(stored) + 1 BY <1>4
  <2>2. \A k \in DOMAIN stored : k \in DOMAIN stored' BY <1>4
  <2>3. Len(stored) + 1 \in DOMAIN stored' BY <1>4
  <2> QED BY <2>1, <2>2, <2>3, <1>4 DEF Frames
<1>6. \A q \in Procs : \A k \in DOMAIN got[q] : got[q][k] # sends
  <2>1. \A q \in Procs : \A k \in DOMAIN got[q] : got[q][k] < sends BY <1>2 DEF JobOf
  <2>2. \A q \in Procs : \A k \in DOMAIN got[q] : got[q][k] \in Nat BY <1>2
  <2> QED BY <2>1, <2>2, <1>2
<1> QED BY <1>3, <1>4, <1>5, <1>6

LEMMA IndexKeeps ==
  ASSUME TypeInv, MutexInv, NEW b \in Ids, QueueInv(b), NEW p \in Procs, WriteIndex(p), ~spoiled
  PROVE  QueueInv(b)'
<1>0. Writing(p) /\ at[p] = "index" BY DEF WriteIndex, Writing
<1>1. PICK s, n, L : s = job[p].slot /\ n = last /\ L = Len(stored) OBVIOUS
<1>2. /\ NumbersInv(b) /\ JobInv(b) /\ GapsInv(b) /\ FramesInv(b) /\ ReadersInv(b)
      /\ JobOf(b, p) /\ s \in Slots /\ n \in Ids /\ ~Stored(sends) /\ L \in Nat
      /\ (\A q \in Procs : Writing(q) => q = p) /\ at \in [Procs -> Places]
      /\ (\A i \in Ids : U(b, i) \in Int) /\ index \in [Slots -> Ids]
      /\ rec \in [Slots -> Nat] /\ sends \in Nat /\ lastRead \in [Procs -> Ids]
  BY <1>0, <1>1, WriterFacts DEF TypeInv
<1>3. /\ last' = n /\ last = n /\ at' = [at EXCEPT ![p] = "open"]
      /\ rec' = rec /\ index' = [index EXCEPT ![s] = n] /\ lastRead' = lastRead
      /\ crashes' = crashes /\ got' = got /\ sends' = sends
  BY <1>1, IndexFacts DEF WriteIndex, Goes
<1>4. /\ DOMAIN stored = 1 .. L /\ DOMAIN stored' = 1 .. L + 1
      /\ (\A k \in DOMAIN stored : stored'[k] = stored[k]) /\ stored'[L + 1] = sends
      /\ Frames' = Frames \cup {sends}
  BY <1>1, IndexFacts
<1>5. /\ \A q \in Procs : ~Writing(q)' /\ at'[q] # "index"
      /\ index'[s] = n /\ \A t \in Slots : t # s => index'[t] = index[t]
  BY <1>2, <1>3 DEF Writing
<1>6. /\ n # 0 /\ Oldest(b, s) /\ rec[s] = sends
      /\ (\A t \in Slots : t # s => rec[t] < sends)
      /\ (\A t \in Slots : index[t] # 0 => U(b, index[t]) < U(b, n))
      /\ (\A q \in Procs : lastRead[q] # 0 => U(b, lastRead[q]) < U(b, n))
      /\ (\A k \in DOMAIN stored : stored[k] < sends)
      /\ \A q \in Procs : \A k \in DOMAIN got[q] : got[q][k] < sends
  BY <1>0, <1>1, <1>2 DEF JobOf
<1>7. \A t \in Slots : Clean(t)' <=> Clean(t) \/ t = s
  <2>1. ~Clean(s) BY <1>2, <1>6 DEF Clean
  <2>2. \A t \in Slots : t # s => rec[t] # sends BY <1>2, <1>6
  <2> QED BY <2>1, <2>2, <1>3, <1>4, <1>5, <1>6 DEF Clean, Stored
<1>8. NumbersInv(b)'
  <2>1. \A t \in Slots : index'[t] # 0 => U(b, index'[t]) <= U(b, n)
    BY <1>2, <1>5, <1>6
  <2>2. \A t, u \in Slots : (index'[t] # 0 /\ index'[t] = index'[u]) => t = u
    <3> SUFFICES ASSUME NEW t \in Slots, NEW u \in Slots, index'[t] # 0, index'[t] = index'[u]
                 PROVE  t = u
      OBVIOUS
    <3>1. \A v \in Slots : v # s /\ index[v] # 0 => index[v] # n BY <1>2, <1>6
    <3>2. t # s /\ u # s => t = u BY <1>2, <1>5 DEF NumbersInv
    <3> QED BY <3>1, <3>2, <1>5, <1>6
  <2> QED BY <2>1, <2>2, <1>2, <1>3, <1>6 DEF NumbersInv
<1>9. JobInv(b)' BY <1>5 DEF JobInv
<1>10. GapsInv(b)'
  <2>1. PICK lost \in SUBSET Ids :
          IsFiniteSet(lost) /\ Cardinality(lost) <= crashes /\ Covers(b, lost)
    BY <1>2 DEF GapsInv
  <2>2. ASSUME NEW i \in Ids \ {0}, Missing(b, i)'
        PROVE  i \in lost \/ \E t \in Slots : index'[t] = i
    <3>1. U(b, i) <= U(b, n) /\ \E t \in Slots : index'[t] # 0 /\ U(b, index'[t]) < U(b, i)
      BY <2>2, <1>3 DEF Missing
    <3>2. PICK t \in Slots : t # s /\ index[t] # 0 /\ U(b, index[t]) < U(b, i)
      BY <3>1, <1>2, <1>5
    <3>3. Missing(b, i) BY <3>1, <3>2, <1>3 DEF Missing
    <3>4. i \in lost \/ (\E u \in Slots : index[u] = i) \/ i = n
      BY <3>3, <2>1, <1>3 DEF Covers
    <3>5. index[s] # i
      <4>1. index[s] = 0 \/ U(b, index[s]) <= U(b, index[t]) BY <3>2, <1>6 DEF Oldest
      <4> QED BY <4>1, <3>2, <1>2
    <3> QED BY <3>4, <3>5, <1>2, <1>5
  <2>3. Covers(b, lost)' BY <2>2, <1>3 DEF Covers
  <2> QED BY <2>1, <2>3, <1>3 DEF GapsInv
<1>11. FramesInv(b)'
  <2>1. \A k \in DOMAIN stored' : stored'[k] <= sends
    <3>0. L \in Nat BY <1>2
    <3>1. \A k \in DOMAIN stored' : k \in DOMAIN stored \/ k = L + 1 BY <3>0, <1>4
    <3>2. \A k \in DOMAIN stored : stored[k] <= sends BY <1>2 DEF FramesInv
    <3> QED BY <3>1, <3>2, <1>2, <1>4
  <2>2. \A t \in Slots : rec[t] <= sends /\ (Stored(rec[t])' => index'[t] # 0)
    <3>1. \A t \in Slots : t # s => rec[t] # sends BY <1>2, <1>6
    <3> QED BY <3>1, <1>2, <1>3, <1>4, <1>5, <1>6 DEF FramesInv, Stored
  <2>3. ASSUME NEW t \in Slots, NEW u \in Slots, Clean(t)', Clean(u)', U(b, index'[t]) < U(b, index'[u])
        PROVE  rec[t] < rec[u]
    <3>1. CASE t # s /\ u # s BY <3>1, <2>3, <1>2, <1>5, <1>7 DEF FramesInv
    <3>2. CASE u = s /\ t # s BY <3>2, <1>6
    <3>3. CASE t = s
      <4>1. u = s \/ (index[u] # 0 /\ index'[u] = index[u]) BY <2>3, <1>5, <1>7 DEF Clean
      <4> QED BY <4>1, <3>3, <2>3, <1>2, <1>5, <1>6
    <3> QED BY <3>1, <3>2, <3>3
  <2>4. ASSUME NEW t \in Slots, index'[t] # 0, ~Stored(rec[t])' PROVE FALSE
    <3>1. t # s /\ index[t] # 0 /\ ~Stored(rec[t]) BY <2>4, <1>3, <1>4, <1>5, <1>6 DEF Stored
    <3>2. Oldest(b, t) BY <3>1, <1>2 DEF FramesInv
    <3>3. index[s] # 0 /\ U(b, index[s]) = U(b, index[t]) BY <3>1, <3>2, <1>2, <1>6 DEF Oldest
    <3>4. index[s] = index[t] BY <3>3, <1>2, AheadValue
    <3> QED BY <3>1, <3>3, <3>4, <1>2 DEF NumbersInv
  <2>5. ASSUME NEW t \in Slots, index'[t] = 0, NEW k \in DOMAIN stored' PROVE InFile(stored'[k])
    <3>1. index[t] = 0 BY <2>5, <1>5, <1>6
    <3>2. k \in DOMAIN stored \/ k = L + 1 BY <1>2, <1>4
    <3> QED BY <3>1, <3>2, <1>2, <1>4, <1>6 DEF FramesInv, InFile
  <2>6. ASSUME NEW j \in DOMAIN stored', NEW k \in DOMAIN stored', j <= k, InFile(stored'[j])
        PROVE  InFile(stored'[k])
    <3>1. CASE k = L + 1 BY <3>1, <1>2, <1>4, <1>6 DEF InFile
    <3>2. CASE k # L + 1
      <4>1. j \in DOMAIN stored /\ k \in DOMAIN stored BY <3>2, <2>6, <1>2, <1>4
      <4> QED BY <4>1, <2>6, <1>2, <1>4 DEF FramesInv
    <3> QED BY <3>1, <3>2
  <2>7. \A f : InFile(f)' <=> InFile(f) BY <1>3 DEF InFile
  <2> QED BY <2>1, <2>2, <2>3, <2>4, <2>5, <2>6, <2>7, <1>3 DEF FramesInv
<1>12. ReadersInv(b)'
  <2> SUFFICES ASSUME NEW q \in Procs PROVE ReaderOf(b, q)' BY DEF ReadersInv
  <2>1. ReaderOf(b, q) BY <1>2 DEF ReadersInv
  <2>2. ASSUME NEW k \in DOMAIN got[q], NEW t \in Slots, Clean(t)', Stored(got[q][k])',
               U(b, lastRead[q]) < U(b, index'[t])
        PROVE  got[q][k] < rec[t]
    <3>1. Stored(got[q][k]) BY <2>2, <1>1, <1>3, <1>4, IndexFacts DEF Stored
    <3>2. CASE t = s BY <3>2, <1>6
    <3>3. CASE t # s BY <3>1, <3>3, <2>1, <2>2, <1>5, <1>7 DEF ReaderOf
    <3> QED BY <3>2, <3>3
  <2>3. ASSUME NEW t \in Slots, Clean(t)', got[q] # <<>>, U(b, index'[t]) <= U(b, lastRead[q])
        PROVE  \E k \in DOMAIN got[q] : Stored(got[q][k])' /\ rec[t] <= got[q][k]
    <3>1. t # s
      <4>1. lastRead[q] # 0 /\ lastRead[q] \in Ids BY <2>1, <2>3, <1>2 DEF ReaderOf
      <4> QED BY <4>1, <2>3, <1>2, <1>5, <1>6
    <3> QED BY <3>1, <2>1, <2>3, <1>3, <1>4, <1>5, <1>7 DEF ReaderOf, Stored
  <2> QED BY <2>1, <2>2, <2>3, <1>3 DEF ReaderOf
<1> QED BY <1>8, <1>9, <1>10, <1>11, <1>12 DEF QueueInv

-----------------------------------------------------------------------------
(* A reader. *)

LEMMA SlotsFinite == IsFiniteSet(Slots) /\ Cardinality(Slots) = QueueSize
<1>1. QueueSize \in Int /\ 1 \in Int /\ 1 < QueueSize BY QueueAssumption
<1> QED BY <1>1, FS_Interval DEF Slots

\* There is a number at every distance.
LEMMA NumberAt ==
  ASSUME NEW b \in Ids, NEW n \in 0 .. IdMod - 1
  PROVE  \E i \in Ids : U(b, i) = n
<1>1. b \in Int /\ 0 <= b /\ b < IdMod /\ n \in Int /\ 0 <= n /\ n < IdMod /\ IdMod \in Int
  BY QueueAssumption DEF Ids
<1>2. PICK i : i = IF b + n < IdMod THEN b + n ELSE b + n - IdMod OBVIOUS
<1>3. i \in Ids BY <1>1, <1>2 DEF Ids
<1>4. U(b, i) = IF b <= i THEN i - b ELSE i - b + IdMod BY <1>3, DiffValue DEF U
<1>5. U(b, i) = n BY <1>1, <1>2, <1>4
<1> QED BY <1>3, <1>5

\* The queue holds no record further back than its slots and the lost numbers allow.
LEMMA AgeBound ==
  ASSUME TypeInv, NEW b \in Ids, NumbersInv(b), GapsInv(b), NEW s \in Slots, index[s] # 0
  PROVE  U(b, last) - U(b, index[s]) <= QueueSize + crashes + 1
<1>0. /\ QueueSize \in Nat /\ index \in [Slots -> Ids] /\ last \in Ids /\ crashes \in Nat
      /\ 0 \in Ids /\ U(b, index[s]) <= U(b, last)
  BY QueueAssumption DEF TypeInv, NumbersInv, Ids
<1>1. PICK lost \in SUBSET Ids :
        IsFiniteSet(lost) /\ Cardinality(lost) <= crashes /\ Covers(b, lost)
  BY DEF GapsInv
<1>2. PICK R : R = {index[t] : t \in Slots} OBVIOUS
<1>3. PICK K : K = ((R \cup lost) \cup {0}) \cup {last} OBVIOUS
<1>4. IsFiniteSet(R) /\ Cardinality(R) <= QueueSize
  <2>1. index \in Surjection(Slots, R) BY <1>0, <1>2 DEF Surjection
  <2>2. IsFiniteSet(Slots) /\ Cardinality(Slots) = QueueSize BY SlotsFinite
  <2> QED BY <2>1, <2>2, FS_Surjection
<1>5. IsFiniteSet(K) /\ Cardinality(K) <= QueueSize + crashes + 2
  <2>1. /\ IsFiniteSet(R \cup lost)
        /\ Cardinality(R \cup lost) = Cardinality(R) + Cardinality(lost) - Cardinality(R \cap lost)
    BY <1>1, <1>4, FS_Union
  <2>2. IsFiniteSet(R \cap lost) BY <1>4, FS_Intersection
  <2>3. /\ Cardinality(R) \in Nat /\ Cardinality(lost) \in Nat /\ Cardinality(R \cap lost) \in Nat
    BY <1>1, <1>4, <2>2, FS_CardinalityType
  <2>4. Cardinality(R \cup lost) \in Nat /\ Cardinality(R \cup lost) <= QueueSize + crashes
    BY <2>1, <2>3, <1>0, <1>1, <1>4, FS_CardinalityType
  <2>5. PICK n \in Nat : n = QueueSize + crashes BY <1>0
  <2>6. IsFiniteSet((R \cup lost) \cup {0}) /\ Cardinality((R \cup lost) \cup {0}) <= n + 1
    BY <2>1, <2>4, <2>5, OneMore
  <2>7. PICK S : S = (R \cup lost) \cup {0} OBVIOUS
  <2>8. IsFiniteSet(S) /\ Cardinality(S) <= n + 1 /\ n + 1 \in Nat BY <2>5, <2>6, <2>7
  <2>9. IsFiniteSet(S \cup {last}) /\ Cardinality(S \cup {last}) <= (n + 1) + 1 BY <2>8, OneMore
  <2>10. K = S \cup {last} BY <2>7, <1>3
  <2> QED BY <2>5, <2>9, <2>10, <1>0
<1>6. PICK N : N = U(b, index[s]) .. U(b, last) OBVIOUS
<1>7. /\ U(b, index[s]) \in Nat /\ U(b, last) \in Nat /\ U(b, last) <= IdMod - 1 /\ IdMod \in Nat
  BY <1>0, AheadValue, QueueAssumption
<1>8. \A n \in N : \E i \in K : U(b, i) = n
  <2> SUFFICES ASSUME NEW n \in N PROVE \E i \in K : U(b, i) = n OBVIOUS
  <2>1. n \in 0 .. IdMod - 1 /\ U(b, index[s]) <= n /\ n <= U(b, last) BY <1>6, <1>7
  <2>2. PICK i \in Ids : U(b, i) = n BY <2>1, NumberAt
  <2>3. CASE n = U(b, index[s]) BY <2>3, <1>2, <1>3
  <2>4. CASE U(b, index[s]) < n /\ i # 0
    <3>1. Missing(b, i) BY <2>1, <2>2, <2>4 DEF Missing
    <3> QED BY <3>1, <2>2, <2>4, <1>1, <1>2, <1>3 DEF Covers
  <2>5. CASE i = 0 BY <2>5, <2>2, <1>3
  <2> QED BY <2>1, <2>3, <2>4, <2>5, <1>7
<1>9. Cardinality(N) <= Cardinality(K)
  <2> DEFINE f == [n \in N |-> CHOOSE i \in K : U(b, i) = n]
  <2>1. \A n \in N : f[n] \in K /\ U(b, f[n]) = n BY <1>8
  <2>2. f \in [N -> K] BY <2>1
  <2> HIDE DEF f
  <2>3. f \in Injection(N, K) BY <2>1, <2>2 DEF Injection, IsInjective
  <2> QED BY <2>3, <1>5, FS_Injection
<1>10. Cardinality(N) = U(b, last) - U(b, index[s]) + 1
  <2>1. U(b, index[s]) \in Int /\ U(b, last) \in Int BY <1>7
  <2> QED BY <2>1, <1>0, <1>6, FS_Interval
<1>11. Cardinality(K) \in Nat BY <1>5, FS_CardinalityType
<1> QED BY <1>0, <1>5, <1>7, <1>9, <1>10, <1>11

\* A reader starts at its last record, or QueueSize numbers back.
LEMMA FromValue ==
  ASSUME TypeInv, NEW b \in Ids, NumbersInv(b), NEW p \in Procs
  PROVE  /\ ReadFrom(p) \in Ids /\ U(b, ReadFrom(p)) <= U(b, last)
         /\ lastRead[p] # 0 => ReadFrom(p) = lastRead[p]
<1>1. CASE lastRead[p] # 0 BY <1>1 DEF ReadFrom, NumbersInv, TypeInv
<1>2. CASE lastRead[p] = 0
  <2>1. PICK f : f = Diff(last, QueueSize) OBVIOUS
  <2>2. /\ QueueSize \in Int /\ 1 < QueueSize /\ QueueSize < IdMod /\ IdMod \in Int
        /\ last \in Int /\ 0 <= last /\ last < IdMod /\ b \in Int /\ 0 <= b /\ b < IdMod
        /\ QueueSize \in Ids /\ last \in Ids
    BY QueueAssumption DEF TypeInv, Ids
  <2>3. f = IF QueueSize <= last THEN last - QueueSize ELSE last - QueueSize + IdMod
    BY <2>1, <2>2, DiffValue
  <2>4. f \in Ids BY <2>2, <2>3 DEF Ids
  <2>5. /\ U(b, f) = IF b <= f THEN f - b ELSE f - b + IdMod
        /\ U(b, last) = IF b <= last THEN last - b ELSE last - b + IdMod
    BY <2>2, <2>4, DiffValue DEF U
  <2>6. QueueSize <= U(b, last) BY DEF NumbersInv
  <2>7. U(b, f) <= U(b, last) BY <2>2, <2>3, <2>5, <2>6
  <2> QED BY <2>1, <2>4, <2>7, <1>2 DEF ReadFrom
<1> QED BY <1>1, <1>2

\* What it takes is the first record after it: 16#8FFF tells those from the ones before.
LEMMA NextIsAhead ==
  ASSUME Fits, TypeInv, NEW b \in Ids, NumbersInv(b), GapsInv(b), NEW p \in Procs,
         NEW s \in NextUnread(ReadFrom(p))
  PROVE  /\ s \in Slots /\ index[s] # 0
         /\ U(b, ReadFrom(p)) < U(b, index[s])
         /\ \A t \in Slots : (index[t] # 0 /\ U(b, ReadFrom(p)) < U(b, index[t]))
                               => U(b, index[s]) <= U(b, index[t])
<1>1. PICK from : from = ReadFrom(p) OBVIOUS
<1>2. s \in Slots /\ index[s] # 0 /\ index[s] # from /\ Diff(index[s], from) < Ahead
  BY <1>1 DEF NextUnread, Unread
<1>3. /\ from \in Ids /\ U(b, from) <= U(b, last) /\ index \in [Slots -> Ids] /\ last \in Ids
  BY <1>1, FromValue DEF TypeInv
<1>4. /\ QueueSize \in Int /\ IdMod \in Int /\ Ahead \in Int /\ MaxCrashes \in Int
      /\ crashes \in Int /\ crashes <= MaxCrashes
  BY QueueAssumption DEF TypeInv
<1>5. \A i \in Ids : U(b, i) \in Int BY AheadValue, QueueAssumption
<1>6. U(b, from) < U(b, index[s])
  <2>1. U(b, index[s]) # U(b, from) BY <1>2, <1>3, AheadValue
  <2>2. ASSUME U(b, index[s]) < U(b, from) PROVE FALSE
    <3>1. Diff(index[s], from) = U(b, index[s]) - U(b, from) + IdMod
      BY <2>2, <1>2, <1>3, AheadValue
    <3>2. U(b, last) - U(b, index[s]) <= QueueSize + crashes + 1 BY <1>2, AgeBound
    <3> QED BY <3>1, <3>2, <1>2, <1>3, <1>4, <1>5 DEF Fits
  <2> QED BY <2>1, <2>2, <1>2, <1>3, <1>5
<1>7. ASSUME NEW t \in Slots, index[t] # 0, U(b, from) < U(b, index[t]),
             U(b, index[t]) < U(b, index[s])
      PROVE  FALSE
  <2>1. /\ Diff(index[t], from) = U(b, index[t]) - U(b, from)
        /\ Diff(index[s], from) = U(b, index[s]) - U(b, from)
    BY <1>2, <1>3, <1>6, <1>7, <1>5, AheadValue
  <2>2. t \in Unread(from) BY <2>1, <1>2, <1>3, <1>7, <1>4, <1>5 DEF Unread
  <2>3. Diff(index[s], from) <= Diff(index[t], from) BY <2>2, <1>1 DEF NextUnread
  <2> QED BY <2>1, <2>3, <1>2, <1>3, <1>7, <1>5
<1> QED BY <1>1, <1>2, <1>3, <1>6, <1>7, <1>5

\* What a reader that takes a record has read, and what it had.
LEMMA TakeFacts ==
  ASSUME Fits, TypeInv, NEW b \in Ids, QueueInv(b), NEW p \in Procs,
         NEW s \in NextUnread(ReadFrom(p)), Takes(p, s), ~spoiled
  PROVE  /\ lastRead' = [lastRead EXCEPT ![p] = index[s]]
         /\ got' = [got EXCEPT ![p] = Append(got[p], rec[s])]
         /\ DOMAIN got[p] = 1 .. Len(got[p]) /\ DOMAIN got'[p] = 1 .. Len(got[p]) + 1
         /\ \A k \in DOMAIN got[p] : got'[p][k] = got[p][k]
         /\ got'[p][Len(got[p]) + 1] = rec[s] /\ Len(got[p]) \in Nat
         /\ s \in Slots /\ index[s] # 0
         /\ \A k \in DOMAIN got[p] : \A t \in Slots :
              (Clean(t) /\ Stored(got[p][k]) /\ U(b, index[s]) <= U(b, index[t])) => got[p][k] < rec[t]
<1>1. lastRead' = [lastRead EXCEPT ![p] = index[s]] /\ got' = [got EXCEPT ![p] = Append(got[p], rec[s])]
  BY DEF Takes
<1>2. /\ s \in Slots /\ index[s] # 0 /\ U(b, ReadFrom(p)) < U(b, index[s])
  BY NextIsAhead DEF QueueInv
<1>3. got[p] \in Seq(Nat) /\ rec[s] \in Nat /\ got \in [Procs -> Seq(Nat)] BY <1>2 DEF TypeInv
<1>4. /\ DOMAIN got[p] = 1 .. Len(got[p]) /\ DOMAIN got'[p] = 1 .. Len(got[p]) + 1
      /\ \A k \in DOMAIN got[p] : got'[p][k] = got[p][k]
      /\ got'[p][Len(got[p]) + 1] = rec[s] /\ Len(got[p]) \in Nat
  BY <1>1, <1>3
<1>5. ASSUME NEW k \in DOMAIN got[p], NEW t \in Slots, Clean(t), Stored(got[p][k]),
             U(b, index[s]) <= U(b, index[t])
      PROVE  got[p][k] < rec[t]
  <2>1. got[p] # <<>> BY NothingIn
  <2>2. ReadersInv(b) /\ NumbersInv(b) BY DEF QueueInv
  <2>3. ReaderOf(b, p) BY <2>2 DEF ReadersInv
  <2>4. lastRead[p] # 0 BY <2>1, <2>3 DEF ReaderOf
  <2>5. ReadFrom(p) = lastRead[p] /\ ReadFrom(p) \in Ids BY <2>2, <2>4, FromValue
  <2>6. index[s] \in Ids /\ index[t] \in Ids BY <1>2 DEF TypeInv
  <2>7. U(b, ReadFrom(p)) \in Int /\ U(b, index[s]) \in Int /\ U(b, index[t]) \in Int
    BY <2>5, <2>6, AheadValue, QueueAssumption
  <2>8. U(b, lastRead[p]) < U(b, index[t]) BY <2>5, <2>7, <1>2, <1>5
  <2> QED BY <2>3, <2>8, <1>5 DEF ReaderOf
<1> QED BY <1>1, <1>2, <1>4, <1>5

\* A step of a reader, which writes nothing.
Reads == /\ UNCHANGED <<last, index, rec, lock, at, job, sends, crashes, stored>>
         /\ lock = Free

LEMMA ReadsKeeps ==
  ASSUME TypeInv, MutexInv, NEW b \in Ids, QueueInv(b), Reads,
         \A q \in Procs : lastRead'[q] # 0 => U(b, lastRead'[q]) <= U(b, last),
         \A q \in Procs : ReaderOf(b, q)'
  PROVE  QueueInv(b)'
<1>1. /\ NumbersInv(b) /\ GapsInv(b) /\ FramesInv(b) /\ \A q \in Procs : ~Writing(q)
  BY OneWriter DEF QueueInv, Reads
<1>2. /\ last' = last /\ index' = index /\ rec' = rec /\ sends' = sends /\ crashes' = crashes
      /\ stored' = stored /\ at' = at /\ job' = job
  BY DEF Reads
<1>3. NumbersInv(b)' BY <1>1, <1>2 DEF NumbersInv
<1>4. JobInv(b)' BY <1>1, <1>2 DEF JobInv, Writing
<1>5. GapsInv(b)'
  <2>1. PICK lost \in SUBSET Ids :
          IsFiniteSet(lost) /\ Cardinality(lost) <= crashes /\ Covers(b, lost)
    BY <1>1 DEF GapsInv
  <2>2. Covers(b, lost)' BY <2>1, <1>2 DEF Covers, Missing
  <2> QED BY <2>1, <2>2, <1>2 DEF GapsInv
<1>6. FramesInv(b)' BY <1>1, <1>2 DEF FramesInv, Clean, Stored, Frames, InFile, Oldest
<1>7. ReadersInv(b)' BY DEF ReadersInv
<1> QED BY <1>3, <1>4, <1>5, <1>6, <1>7 DEF QueueInv

\* It takes a record.
LEMMA TakeKeeps ==
  ASSUME Fits, TypeInv, MutexInv, NEW b \in Ids, QueueInv(b), NEW p \in Procs,
         NEW s \in NextUnread(ReadFrom(p)), Takes(p, s), Reads, ~spoiled
  PROVE  QueueInv(b)'
<1>1. PICK L : L = Len(got[p]) OBVIOUS
<1>2. /\ lastRead' = [lastRead EXCEPT ![p] = index[s]]
      /\ got' = [got EXCEPT ![p] = Append(got[p], rec[s])]
      /\ DOMAIN got[p] = 1 .. L /\ DOMAIN got'[p] = 1 .. L + 1 /\ L \in Nat
      /\ \A k \in DOMAIN got[p] : got'[p][k] = got[p][k]
      /\ got'[p][L + 1] = rec[s]
      /\ s \in Slots /\ index[s] # 0
      /\ \A k \in DOMAIN got[p] : \A t \in Slots :
           (Clean(t) /\ Stored(got[p][k]) /\ U(b, index[s]) <= U(b, index[t])) => got[p][k] < rec[t]
  BY <1>1, TakeFacts
<1>3. /\ NumbersInv(b) /\ FramesInv(b) /\ ReadersInv(b)
      /\ (\A i \in Ids : U(b, i) \in Int) /\ index \in [Slots -> Ids] /\ rec \in [Slots -> Nat]
  <2>1. \A i \in Ids : U(b, i) \in Int BY AheadValue, QueueAssumption
  <2> QED BY <2>1 DEF QueueInv, TypeInv
<1>4. /\ last' = last /\ index' = index /\ rec' = rec /\ sends' = sends /\ stored' = stored
  BY DEF Reads
<1>5. lastRead'[p] = index[s] /\ \A q \in Procs : q # p => lastRead'[q] = lastRead[q] /\ got'[q] = got[q]
  <2>1. lastRead \in [Procs -> Ids] /\ got \in [Procs -> Seq(Nat)] BY DEF TypeInv
  <2> QED BY <2>1, <1>2
<1>6. \A q \in Procs : lastRead'[q] # 0 => U(b, lastRead'[q]) <= U(b, last)
  BY <1>2, <1>3, <1>5 DEF NumbersInv
<1>7. ASSUME NEW q \in Procs, q # p PROVE ReaderOf(b, q)'
  <2>1. ReaderOf(b, q) /\ lastRead'[q] = lastRead[q] /\ got'[q] = got[q]
    BY <1>3, <1>5, <1>7 DEF ReadersInv
  <2> QED BY <2>1, <1>4 DEF ReaderOf, Clean, Stored, Frames
<1>8. ReaderOf(b, p)'
  <2>1. \A k \in DOMAIN got'[p] : k \in DOMAIN got[p] \/ (k = L + 1 /\ got'[p][k] = rec[s])
    BY <1>2
  <2>2. L + 1 \in DOMAIN got'[p] BY <1>2
  <2>3. \A t \in Slots : (Clean(s) /\ Clean(t) /\ U(b, index[s]) < U(b, index[t])) => rec[s] < rec[t]
    BY <1>2, <1>3 DEF FramesInv
  <2>4. \A k \in DOMAIN got'[p] : got'[p][k] <= sends
    <3>1. \A k \in DOMAIN got[p] : got[p][k] <= sends BY <1>3 DEF ReadersInv, ReaderOf
    <3> QED BY <3>1, <2>1, <1>2, <1>3 DEF FramesInv
  <2>5. ASSUME NEW k \in DOMAIN got'[p], NEW t \in Slots, Clean(t), Stored(got'[p][k]),
               U(b, index[s]) < U(b, index[t])
        PROVE  got'[p][k] < rec[t]
    <3>1. CASE k \in DOMAIN got[p] BY <3>1, <2>5, <1>2, <1>3
    <3>2. CASE k = L + 1
      <4>1. Clean(s) BY <3>2, <2>5, <1>2 DEF Clean
      <4> QED BY <4>1, <3>2, <2>3, <2>5, <1>2
    <3> QED BY <3>1, <3>2, <2>1
  <2>6. ASSUME NEW t \in Slots, Clean(t), U(b, index[t]) <= U(b, index[s])
        PROVE  Stored(rec[s]) /\ rec[t] <= rec[s]
    <3>1. U(b, index[t]) = U(b, index[s]) => t = s
      BY <2>6, <1>2, <1>3, AheadValue DEF NumbersInv, Clean
    <3>2. Stored(rec[s])
      <4> SUFFICES ASSUME ~Stored(rec[s]) PROVE FALSE OBVIOUS
      <4>1. U(b, index[s]) <= U(b, index[t]) BY <1>2, <1>3 DEF FramesInv, Oldest
      <4> QED BY <4>1, <3>1, <2>6, <1>2, <1>3 DEF Clean
    <3>3. Clean(s) BY <3>2, <1>2 DEF Clean
    <3>4. t = s \/ U(b, index[t]) < U(b, index[s]) BY <3>1, <2>6, <1>2, <1>3
    <3>5. rec[t] <= rec[s] BY <3>3, <3>4, <2>6, <1>2, <1>3 DEF FramesInv
    <3> QED BY <3>2, <3>5
  <2>7. \A f : f \in Frames' <=> f \in Frames BY <1>4 DEF Frames
  <2> QED BY <2>1, <2>2, <2>4, <2>5, <2>6, <2>7, <1>2, <1>4, <1>5 DEF ReaderOf, Clean, Stored
<1> QED BY <1>6, <1>7, <1>8, ReadsKeeps

\* It finds none: a reader that has read nothing keeps where it started.
LEMMA PassKeeps ==
  ASSUME TypeInv, MutexInv, NEW b \in Ids, QueueInv(b), NEW p \in Procs,
         lastRead' = [lastRead EXCEPT ![p] = ReadFrom(p)], UNCHANGED got, Reads
  PROVE  QueueInv(b)'
<1>1. NumbersInv(b) /\ ReadersInv(b) /\ lastRead \in [Procs -> Ids] BY DEF QueueInv, TypeInv
<1>2. /\ last' = last /\ index' = index /\ rec' = rec /\ sends' = sends /\ stored' = stored
      /\ got' = got
  BY DEF Reads
<1>3. /\ U(b, ReadFrom(p)) <= U(b, last) /\ (lastRead[p] # 0 => ReadFrom(p) = lastRead[p])
  BY <1>1, FromValue
<1>4. \A q \in Procs : lastRead'[q] # 0 => U(b, lastRead'[q]) <= U(b, last)
  BY <1>1, <1>3 DEF NumbersInv
<1>5. ASSUME NEW q \in Procs PROVE ReaderOf(b, q)'
  <2>1. ReaderOf(b, q) BY <1>1 DEF ReadersInv
  <2>2. CASE got[q] = <<>>
    <3>1. DOMAIN got[q] = {} BY <2>2, NothingIn
    <3> QED BY <2>2, <3>1, <1>2 DEF ReaderOf
  <2>3. CASE got[q] # <<>>
    <3>1. lastRead'[q] = lastRead[q] BY <2>1, <2>3, <1>1, <1>3 DEF ReaderOf
    <3> QED BY <2>1, <3>1, <1>2 DEF ReaderOf, Clean, Stored, Frames
  <2> QED BY <2>2, <2>3
<1> QED BY <1>4, <1>5, ReadsKeeps

-----------------------------------------------------------------------------
(* The histories. *)

LEMMA ReadInvSame ==
  ASSUME NEW q \in Procs, ReadInv(q), got'[q] = got[q],
         \A k \in DOMAIN got[q] : got[q][k] \in Frames' <=> got[q][k] \in Frames
  PROVE  ReadInv(q)'
  BY DEF ReadInv, Stored

LEMMA HistoryKept ==
  ASSUME Fits, FileInv, [Next]_vars
  PROVE  HistoryInv'
<1>1. TypeInv /\ MutexInv /\ HistoryInv /\ (~spoiled => \E b \in Ids : QueueInv(b)) BY DEF FileInv
<1>2. StoredInv /\ (\A q \in Procs : ReadInv(q)) BY <1>1 DEF HistoryInv
<1>3. ASSUME UNCHANGED <<stored, got>> PROVE HistoryInv'
  <2>1. Frames' = Frames BY <1>3 DEF Frames
  <2>2. \A q \in Procs : ReadInv(q)' BY <1>2, <1>3, <2>1, ReadInvSame
  <2> QED BY <1>2, <1>3, <2>2 DEF HistoryInv, StoredInv
<1>4. CASE UNCHANGED vars BY <1>3, <1>4 DEF vars
<1>5. ASSUME NEW p \in Procs, Open(p) \/ Create(p) \/ Initialise(p) \/ BeginWrite(p)
                               \/ WriteRecord(p) \/ WriteLast(p)
      PROVE  HistoryInv'
  BY <1>3, <1>5 DEF Open, Create, Initialise, BeginWrite, Starts, WriteRecord, WriteLast
<1>6. ASSUME NEW p \in Procs, WriteIndex(p) PROVE HistoryInv'
  <2>1. CASE spoiled BY <1>3, <1>6, <2>1 DEF WriteIndex
  <2>2. CASE ~spoiled
    <3>1. PICK b \in Ids : QueueInv(b) BY <1>1, <2>2
    <3>2. Writing(p) BY <1>6 DEF WriteIndex, Writing
    <3>3. \A k \in DOMAIN stored : stored[k] < sends BY <1>1, <3>1, <3>2, WriterFacts DEF JobOf
    <3>4. /\ DOMAIN stored = 1 .. Len(stored) /\ DOMAIN stored' = 1 .. Len(stored) + 1
          /\ (\A k \in DOMAIN stored : stored'[k] = stored[k]) /\ stored'[Len(stored) + 1] = sends
          /\ Frames' = Frames \cup {sends}
          /\ \A q \in Procs : \A k \in DOMAIN got[q] : got[q][k] # sends
      BY <1>1, <1>6, <2>2, <3>1, IndexFacts
    <3>5. Len(stored) \in Nat BY <1>1 DEF TypeInv
    <3>6. StoredInv'
      <4> SUFFICES ASSUME NEW j \in DOMAIN stored', NEW k \in DOMAIN stored', j < k
                   PROVE  stored'[j] < stored'[k]
        BY DEF StoredInv
      <4>1. j \in DOMAIN stored BY <3>4, <3>5
      <4>2. k \in DOMAIN stored \/ k = Len(stored) + 1 BY <3>4, <3>5
      <4> QED BY <4>1, <4>2, <3>3, <3>4, <1>2 DEF StoredInv
    <3>7. got' = got BY <1>6 DEF WriteIndex
    <3>8. \A q \in Procs : ReadInv(q)' BY <1>2, <3>4, <3>7, ReadInvSame
    <3> QED BY <3>6, <3>8 DEF HistoryInv
  <2> QED BY <2>1, <2>2
<1>7. ASSUME NEW p \in Procs, Read(p) PROVE HistoryInv'
  <2>1. stored' = stored BY <1>7 DEF Read
  <2>2. CASE UNCHANGED got BY <1>3, <2>1, <2>2
  <2>3. ASSUME NEW s \in NextUnread(ReadFrom(p)), Takes(p, s), ~spoiled PROVE HistoryInv'
    <3>1. PICK b \in Ids : QueueInv(b) BY <1>1, <2>3
    <3>2. PICK L : L = Len(got[p]) OBVIOUS
    <3>3. /\ got' = [got EXCEPT ![p] = Append(got[p], rec[s])]
          /\ DOMAIN got[p] = 1 .. L /\ DOMAIN got'[p] = 1 .. L + 1 /\ L \in Nat
          /\ \A k \in DOMAIN got[p] : got'[p][k] = got[p][k]
          /\ got'[p][L + 1] = rec[s]
          /\ s \in Slots /\ index[s] # 0
          /\ \A k \in DOMAIN got[p] :
               (Stored(rec[s]) /\ Stored(got[p][k])) => got[p][k] < rec[s]
      <4>1. index[s] \in Ids => U(b, index[s]) <= U(b, index[s]) BY AheadValue, QueueAssumption
      <4> QED BY <1>1, <2>3, <3>1, <3>2, <4>1, TakeFacts DEF Clean, TypeInv
    <3>4. Frames' = Frames BY <2>1 DEF Frames
    <3>5. got \in [Procs -> Seq(Nat)] /\ rec \in [Slots -> Nat] BY <1>1 DEF TypeInv
    <3>6. \A q \in Procs : q # p => ReadInv(q)'
      <4>1. \A q \in Procs : q # p => got'[q] = got[q] BY <3>3, <3>5
      <4> QED BY <4>1, <1>2, <3>4, ReadInvSame
    <3>7. ReadInv(p)'
      <4>1. \A k \in DOMAIN got'[p] : k \in DOMAIN got[p] \/ k = L + 1 BY <3>3
      <4>2. L + 1 \in DOMAIN got'[p] /\ \A k \in DOMAIN got[p] : k \in DOMAIN got'[p] /\ k < L + 1
        BY <3>3
      <4>3. \A k \in DOMAIN got[p] : got[p][k] \in Nat BY <3>5
      <4>4. ReadInv(p) BY <1>2
      <4>5. ASSUME NEW j \in DOMAIN got'[p], NEW k \in DOMAIN got'[p], j < k,
                   got'[p][j] \in Frames, got'[p][k] \in Frames
            PROVE  got'[p][j] < got'[p][k]
        <5>1. j \in DOMAIN got[p] BY <4>5, <3>3
        <5>2. CASE k \in DOMAIN got[p] BY <5>1, <5>2, <4>4, <4>5, <3>3 DEF ReadInv, Stored
        <5>3. CASE k = L + 1 BY <5>1, <5>3, <4>5, <3>3 DEF Stored
        <5> QED BY <5>2, <5>3, <4>1
      <4>6. ASSUME NEW j \in DOMAIN got'[p], got'[p][j] \in Frames
            PROVE  \E k \in DOMAIN got'[p] : /\ got'[p][k] \in Frames
                     /\ \A i \in DOMAIN got'[p] : got'[p][i] \in Frames => got'[p][i] <= got'[p][k]
        <5>1. CASE rec[s] \in Frames
          <6>1. \A i \in DOMAIN got'[p] : got'[p][i] \in Frames => got'[p][i] <= rec[s]
            <7>1. \A i \in DOMAIN got[p] : got[p][i] \in Frames => got[p][i] < rec[s]
              BY <5>1, <3>3 DEF Stored
            <7> QED BY <7>1, <4>1, <4>3, <3>3, <3>5
          <6> QED BY <6>1, <5>1, <4>2, <3>3
        <5>2. CASE rec[s] \notin Frames
          <6>1. j \in DOMAIN got[p] /\ got[p][j] \in Frames BY <5>2, <4>1, <4>6, <3>3
          <6>2. PICK k \in DOMAIN got[p] : /\ got[p][k] \in Frames
                  /\ \A i \in DOMAIN got[p] : got[p][i] \in Frames => got[p][i] <= got[p][k]
            BY <6>1, <4>4 DEF ReadInv, Stored
          <6> QED BY <6>2, <5>2, <4>1, <4>2, <3>3
        <5> QED BY <5>1, <5>2
      <4> QED BY <4>5, <4>6, <3>4 DEF ReadInv, Stored
    <3>8. StoredInv' BY <1>2, <2>1 DEF StoredInv
    <3> QED BY <3>6, <3>7, <3>8 DEF HistoryInv
  <2> QED BY <2>2, <2>3, <1>7 DEF Read, Takes
<1>8. ASSUME NEW p \in Procs, Crash(p) PROVE HistoryInv'
  <2>1. stored' = stored /\ got' = [got EXCEPT ![p] = <<>>] /\ got \in [Procs -> Seq(Nat)]
    BY <1>1, <1>8 DEF Crash, TypeInv
  <2>2. Frames' = Frames BY <2>1 DEF Frames
  <2>3. \A q \in Procs : q # p => ReadInv(q)'
    <3>1. \A q \in Procs : q # p => got'[q] = got[q] BY <2>1
    <3> QED BY <3>1, <1>2, <2>2, ReadInvSame
  <2>4. ReadInv(p)'
    <3>1. DOMAIN got'[p] = {} BY <2>1, NothingIn
    <3> QED BY <3>1 DEF ReadInv
  <2> QED BY <2>1, <2>3, <2>4, <1>2 DEF HistoryInv, StoredInv
<1> QED BY <1>4, <1>5, <1>6, <1>7, <1>8 DEF Next, Works

-----------------------------------------------------------------------------
(* The invariant is inductive. *)

\* The file is initialised again without harm only while nothing was written to it.
LEMMA InitialiseSettles ==
  ASSUME TypeInv, NEW b \in Ids, QueueInv(b), NEW p \in Procs, Initialise(p), ~spoiled'
  PROVE  Settles
<1>1. last = 0 /\ \A s \in Slots : rec[s] = 0 BY DEF Initialise
<1>2. \A s \in Slots : index[s] = 0 BY <1>1 DEF QueueInv, NumbersInv
<1>3. last' = last /\ index' = index /\ rec' = rec
  BY <1>1, <1>2 DEF Initialise, TypeInv
<1> QED BY <1>3 DEF Initialise, Goes, Settles, Writing, TypeInv

LEMMA QueueKept ==
  ASSUME Fits, FileInv, [Next]_vars, ~spoiled'
  PROVE  ~spoiled /\ \E b \in Ids : QueueInv(b)'
<1>1. TypeInv /\ MutexInv /\ HistoryInv /\ (~spoiled => \E b \in Ids : QueueInv(b)) BY DEF FileInv
<1>2. ~spoiled
  BY DEF Next, Works, vars, Open, Create, Initialise, BeginWrite, WriteRecord, WriteLast,
         WriteIndex, Read, Crash
<1>3. PICK b \in Ids : QueueInv(b) BY <1>1, <1>2
<1>4. ASSUME Settles PROVE QueueInv(b)' BY <1>3, <1>4, SettlesKeeps
<1>5. CASE UNCHANGED vars
  <2>1. Settles BY <1>5 DEF vars, Settles
  <2> QED BY <1>2, <1>4, <2>1
<1>6. ASSUME NEW p \in Procs, Open(p) \/ Create(p) PROVE QueueInv(b)'
  <2>1. Settles BY <1>1, <1>6 DEF Open, Create, Goes, Settles, Writing, fileVars, TypeInv
  <2> QED BY <1>4, <2>1
<1>7. ASSUME NEW p \in Procs, Initialise(p) PROVE QueueInv(b)'
  BY <1>1, <1>3, <1>4, <1>7, InitialiseSettles
<1>8. ASSUME NEW p \in Procs, BeginWrite(p) PROVE QueueInv(b)'
  <2>1. PICK s \in Reusable : Starts(p, s, NextId(last)) BY <1>8 DEF BeginWrite
  <2> QED BY <2>1, <1>1, <1>3, <1>8, BeginKeeps DEF BeginWrite
<1>9. ASSUME NEW p \in Procs, WriteRecord(p) PROVE QueueInv(b)' BY <1>1, <1>3, <1>9, RecordKeeps
<1>10. ASSUME NEW p \in Procs, WriteLast(p) PROVE QueueInv(b)' BY <1>1, <1>3, <1>10, LastKeeps
<1>11. ASSUME NEW p \in Procs, WriteIndex(p) PROVE QueueInv(b)'
  BY <1>1, <1>2, <1>3, <1>11, IndexKeeps
<1>12. ASSUME NEW p \in Procs, Crash(p) PROVE QueueInv(b)' BY <1>1, <1>3, <1>12, CrashKeeps
<1>13. ASSUME NEW p \in Procs, Read(p) PROVE QueueInv(b)'
  <2>1. Reads BY <1>13 DEF Read, Reads, fileVars
  <2>2. \/ \E s \in NextUnread(ReadFrom(p)) : Takes(p, s)
        \/ lastRead' = [lastRead EXCEPT ![p] = ReadFrom(p)] /\ UNCHANGED got
    BY <1>13 DEF Read
  <2>3. ASSUME NEW s \in NextUnread(ReadFrom(p)), Takes(p, s) PROVE QueueInv(b)'
    BY <2>1, <2>3, <1>1, <1>2, <1>3, TakeKeeps
  <2>4. CASE lastRead' = [lastRead EXCEPT ![p] = ReadFrom(p)] /\ UNCHANGED got
    BY <2>1, <2>4, <1>1, <1>3, PassKeeps
  <2> QED BY <2>2, <2>3, <2>4
<1>14. QueueInv(b)'
  <2>1. CASE Next
    BY <2>1, <1>6, <1>7, <1>8, <1>9, <1>10, <1>11, <1>12, <1>13 DEF Next, Works
  <2> QED BY <2>1, <1>4, <1>5 DEF Settles, vars
<1> QED BY <1>2, <1>14

LEMMA FileInvNext == Fits /\ FileInv /\ [Next]_vars => FileInv'
<1> SUFFICES ASSUME Fits, FileInv, [Next]_vars PROVE FileInv' OBVIOUS
<1>1. TypeInv' BY TypeKept DEF FileInv
<1>2. MutexInv' BY MutexKept DEF FileInv
<1>3. HistoryInv' BY HistoryKept
<1>4. ~spoiled' => \E b \in Ids : QueueInv(b)' BY QueueKept
<1> QED BY <1>1, <1>2, <1>3, <1>4 DEF FileInv

LEMMA FileInvHolds == ASSUME Fits PROVE Spec => []FileInv
<1>1. FileInv /\ [Next]_vars => FileInv' BY FileInvNext
<1> QED BY InitInv, <1>1, PTL DEF Spec

-----------------------------------------------------------------------------
(* What readers read. *)

\* A frame that is stored is found where it was stored; one that is not, nowhere.
LEMMA PositionValue ==
  ASSUME TypeInv, StoredInv
  PROVE  /\ \A k \in DOMAIN stored : Position(stored[k]) = k
         /\ \A f : f \notin Frames => Position(f) = 0
<1>1. stored \in Seq(Nat) /\ \A k \in DOMAIN stored : k \in Nat /\ stored[k] \in Nat BY DEF TypeInv
<1>2. \A j, k \in DOMAIN stored : stored[j] = stored[k] => j = k
  <2> SUFFICES ASSUME NEW j \in DOMAIN stored, NEW k \in DOMAIN stored, stored[j] = stored[k]
               PROVE  j = k
    OBVIOUS
  <2>1. ~(j < k) /\ ~(k < j) BY <1>1 DEF StoredInv
  <2> QED BY <2>1, <1>1
<1>3. ASSUME NEW k \in DOMAIN stored PROVE Position(stored[k]) = k
  <2>1. Position(stored[k]) = CHOOSE j \in DOMAIN stored : stored[j] = stored[k] BY DEF Position
  <2>2. (CHOOSE j \in DOMAIN stored : stored[j] = stored[k]) = k BY <1>2
  <2> QED BY <2>1, <2>2
<1>4. ASSUME NEW f, f \notin Frames PROVE Position(f) = 0
  <2>1. ~\E k \in DOMAIN stored : stored[k] = f BY <1>4 DEF Frames
  <2> QED BY <2>1 DEF Position
<1> QED BY <1>3, <1>4

\* A process reads the frames that were stored in the order they were, each once,
\* however the numbers wrap, whoever dies with a record half written, and however often
\* the queue goes round between two polls: findNextUnreadPosition() tells what is ahead
\* of the reader from what is behind it.
THEOREM InOrderHolds == ASSUME Fits PROVE Spec => []InOrder
<1>1. FileInv => InOrder
  <2> SUFFICES ASSUME FileInv, NEW p \in Procs, NEW j \in DOMAIN got[p], NEW k \in DOMAIN got[p],
                      j < k, Position(got[p][k]) > 0
               PROVE  Position(got[p][j]) < Position(got[p][k])
    BY DEF InOrder
  <2>1. TypeInv /\ StoredInv /\ ReadInv(p) BY DEF FileInv, HistoryInv
  <2>0. \A i \in DOMAIN stored : i \in Nat /\ stored[i] \in Nat
    <3>1. stored \in Seq(Nat) BY <2>1 DEF TypeInv
    <3> QED BY <3>1
  <2>2. got[p][k] \in Frames BY <2>1, PositionValue
  <2>3. PICK n \in DOMAIN stored : stored[n] = got[p][k] BY <2>2 DEF Frames
  <2>4. Position(got[p][k]) = n /\ n \in Nat /\ stored[n] \in Nat
    BY <2>0, <2>1, <2>3, PositionValue
  <2>5. CASE got[p][j] \notin Frames BY <2>5, <2>1, <2>4, PositionValue
  <2>6. CASE got[p][j] \in Frames
    <3>1. PICK m \in DOMAIN stored : stored[m] = got[p][j] BY <2>6 DEF Frames
    <3>2. Position(got[p][j]) = m /\ m \in Nat /\ stored[m] \in Nat
      BY <2>0, <2>1, <3>1, PositionValue
    <3>3. stored[m] < stored[n] BY <2>1, <2>2, <2>3, <2>6, <3>1 DEF ReadInv, Stored
    <3>4. ~(n < m) BY <3>2, <3>3, <2>1, <2>4 DEF StoredInv
    <3> QED BY <3>2, <3>3, <3>4, <2>4
  <2> QED BY <2>5, <2>6
<1> QED BY <1>1, FileInvHolds, PTL

\* The frame a process has read last, among all it has read.
LastIs(p) ==
  \/ LastGot(p) = 0
  \/ /\ LastGot(p) \in DOMAIN stored
     /\ \E k \in DOMAIN got[p] : got[p][k] = stored[LastGot(p)]
     /\ \A j \in DOMAIN got[p] : got[p][j] \in Frames => got[p][j] <= stored[LastGot(p)]

LEMMA LastGotValue == TypeInv /\ HistoryInv => \A p \in Procs : LastIs(p)
<1> SUFFICES ASSUME TypeInv, HistoryInv, NEW p \in Procs PROVE LastIs(p) OBVIOUS
<1>1. StoredInv /\ ReadInv(p) BY DEF HistoryInv
<1>2. PICK S : S = {Position(got[p][k]) : k \in DOMAIN got[p]} OBVIOUS
<1>3. LastGot(p) = IF S = {} THEN 0 ELSE CHOOSE k \in S : \A j \in S : j <= k
  BY <1>2 DEF LastGot
<1>4. CASE S = {} BY <1>3, <1>4 DEF LastIs
<1>5. CASE S # {} /\ \A k \in DOMAIN got[p] : got[p][k] \notin Frames
  <2>1. S = {0} BY <1>1, <1>2, <1>5, PositionValue
  <2> QED BY <2>1, <1>3 DEF LastIs
<1>6. CASE \E k \in DOMAIN got[p] : got[p][k] \in Frames
  <2>1. PICK m \in DOMAIN got[p] : /\ got[p][m] \in Frames
          /\ \A j \in DOMAIN got[p] : got[p][j] \in Frames => got[p][j] <= got[p][m]
    BY <1>1, <1>6 DEF ReadInv, Stored
  <2>2. PICK n \in DOMAIN stored : stored[n] = got[p][m] BY <2>1 DEF Frames
  <2>3. \A k \in DOMAIN stored : k \in Nat /\ stored[k] \in Nat
    <3>1. stored \in Seq(Nat) BY DEF TypeInv
    <3> QED BY <3>1
  <2>4. n \in S BY <1>1, <1>2, <2>1, <2>2, PositionValue
  <2>5. ASSUME NEW j \in S PROVE j \in Nat /\ j <= n
    <3>1. PICK k \in DOMAIN got[p] : j = Position(got[p][k]) BY <1>2
    <3>2. CASE got[p][k] \notin Frames BY <3>1, <3>2, <1>1, <2>3, PositionValue
    <3>3. CASE got[p][k] \in Frames
      <4>1. PICK i \in DOMAIN stored : stored[i] = got[p][k] BY <3>3 DEF Frames
      <4>2. j = i BY <3>1, <4>1, <1>1, PositionValue
      <4>3. stored[i] <= stored[n] BY <2>1, <2>2, <3>3, <4>1
      <4>4. ~(n < i) BY <4>3, <2>3, <1>1 DEF StoredInv
      <4> QED BY <4>2, <4>4, <2>3
    <3> QED BY <3>2, <3>3
  <2>6. (CHOOSE k \in S : \A j \in S : j <= k) = n
    <3>1. PICK c : c = CHOOSE k \in S : \A j \in S : j <= k OBVIOUS
    <3>2. c \in S /\ \A j \in S : j <= c BY <3>1, <2>4, <2>5
    <3>3. c <= n /\ n <= c /\ c \in Nat /\ n \in Nat BY <3>2, <2>4, <2>5
    <3> QED BY <3>1, <3>3
  <2>7. LastGot(p) = n BY <1>3, <2>4, <2>6
  <2> QED BY <2>1, <2>2, <2>7 DEF LastIs
<1> QED BY <1>2, <1>4, <1>5, <1>6

\* A record between the last one p has read and the one it takes would have been taken.
LEMMA TakesTheNext ==
  ASSUME Fits, TypeInv, HistoryInv, NEW b \in Ids, QueueInv(b), NEW p \in Procs,
         NEW s \in NextUnread(ReadFrom(p)), NEW l \in DOMAIN stored, NEW m \in DOMAIN stored,
         stored[m] = rec[s], \E i \in DOMAIN got[p] : got[p][i] = stored[l],
         \A j \in DOMAIN got[p] : got[p][j] \in Frames => got[p][j] <= stored[l],
         NEW k \in DOMAIN stored, l < k, k < m, NEW t \in Slots, rec[t] = stored[k]
  PROVE  FALSE
<1>1. /\ NumbersInv(b) /\ FramesInv(b) /\ ReaderOf(b, p) /\ index \in [Slots -> Ids]
      /\ \A i \in DOMAIN stored : i \in Nat /\ stored[i] \in Nat
      /\ \A i \in DOMAIN got[p] : got[p][i] \in Nat
  <2>1. ReaderOf(b, p) BY DEF QueueInv, ReadersInv
  <2>2. stored \in Seq(Nat) /\ got \in [Procs -> Seq(Nat)] BY DEF TypeInv
  <2>3. \A i \in DOMAIN stored : i \in Nat /\ stored[i] \in Nat BY <2>2
  <2>4. \A i \in DOMAIN got[p] : got[p][i] \in Nat BY <2>2
  <2> QED BY <2>1, <2>3, <2>4 DEF QueueInv, TypeInv
<1>2. /\ s \in Slots /\ index[s] # 0
      /\ \A u \in Slots : (index[u] # 0 /\ U(b, ReadFrom(p)) < U(b, index[u]))
                            => U(b, index[s]) <= U(b, index[u])
  BY NextIsAhead DEF QueueInv
<1>3. stored[l] < stored[k] /\ stored[k] < stored[m] BY DEF HistoryInv, StoredInv
<1>4. Clean(t) /\ Clean(s) BY <1>1, <1>2 DEF FramesInv, Clean, Stored, Frames
<1>5. got[p] # <<>> BY NothingIn
<1>6. ReadFrom(p) = lastRead[p] /\ lastRead[p] \in Ids
  BY <1>1, <1>5, FromValue DEF ReaderOf, TypeInv
<1>7. U(b, index[t]) \in Int /\ U(b, index[s]) \in Int /\ U(b, lastRead[p]) \in Int
  BY <1>1, <1>2, <1>6, AheadValue, QueueAssumption
<1>8. U(b, lastRead[p]) < U(b, index[t])
  <2> SUFFICES ASSUME U(b, index[t]) <= U(b, lastRead[p]) PROVE FALSE BY <1>7
  <2>1. PICK i \in DOMAIN got[p] : got[p][i] \in Frames /\ rec[t] <= got[p][i]
    BY <1>1, <1>4, <1>5 DEF ReaderOf, Stored
  <2>2. got[p][i] <= stored[l] BY <2>1
  <2> QED BY <2>1, <2>2, <1>1, <1>3
<1>9. U(b, index[t]) < U(b, index[s])
  <2>1. t # s BY <1>1, <1>3
  <2>2. U(b, index[t]) # U(b, index[s])
    BY <2>1, <1>1, <1>2, <1>4, AheadValue DEF NumbersInv, Clean
  <2>3. ~(U(b, index[s]) < U(b, index[t]))
    <3>1. U(b, index[s]) < U(b, index[t]) => rec[s] < rec[t] BY <1>1, <1>2, <1>4 DEF FramesInv
    <3> QED BY <3>1, <1>1, <1>3
  <2> QED BY <2>2, <2>3, <1>7
<1> QED BY <1>2, <1>4, <1>6, <1>7, <1>8, <1>9 DEF Clean

\* A step that does not append to what p has read does not raise its last frame.
LEMMA SameLast ==
  ASSUME TypeInv, NEW p \in Procs, LastIs(p), LastIs(p)', got'[p] = got[p], StoredInv',
         DOMAIN stored \subseteq DOMAIN stored', \A k \in DOMAIN stored : stored'[k] = stored[k],
         \A k \in DOMAIN got[p] : got[p][k] \in Frames' => got[p][k] \in Frames,
         LastGot(p) > 0, NEW m, m = LastGot(p)', m > LastGot(p)
  PROVE  FALSE
<1>1. PICK l : l = LastGot(p) OBVIOUS
<1>2. /\ l \in DOMAIN stored
      /\ \A j \in DOMAIN got[p] : got[p][j] \in Frames => got[p][j] <= stored[l]
  BY <1>1 DEF LastIs
<1>3. l \in Nat /\ stored[l] \in Nat BY <1>2 DEF TypeInv
<1>4. m \in DOMAIN stored' /\ \E k \in DOMAIN got[p] : got[p][k] = stored'[m]
  BY <1>1, <1>3 DEF LastIs
<1>5. PICK k \in DOMAIN got[p] : got[p][k] = stored'[m] BY <1>4
<1>6. got[p][k] <= stored[l] BY <1>2, <1>4, <1>5 DEF Frames
<1>7. stored'[l] < stored'[m] BY <1>1, <1>2, <1>4 DEF StoredInv
<1>8. got[p][k] \in Nat BY <1>5 DEF TypeInv
<1> QED BY <1>2, <1>3, <1>5, <1>6, <1>7, <1>8

LEMMA NonePassedOver ==
  ASSUME Fits, FileInv, [Next]_vars, FileInv', \A p \in Procs : LastIs(p), \A p \in Procs : LastIs(p)'
  PROVE  \A p \in Procs :
           (LastGot(p) > 0 /\ LastGot(p)' > LastGot(p)) =>
             \A k \in LastGot(p) + 1 .. LastGot(p)' - 1 : \A s \in Slots : rec[s] # stored[k]
<1> SUFFICES ASSUME NEW p \in Procs, LastGot(p) > 0, LastGot(p)' > LastGot(p),
                    NEW k \in LastGot(p) + 1 .. LastGot(p)' - 1, NEW s \in Slots, rec[s] = stored[k]
             PROVE  FALSE
  OBVIOUS
<1>1. TypeInv /\ MutexInv /\ HistoryInv /\ (~spoiled => \E b \in Ids : QueueInv(b)) BY DEF FileInv
<1>2. StoredInv' /\ LastIs(p) /\ LastIs(p)' BY DEF FileInv, HistoryInv
<1>3. got \in [Procs -> Seq(Nat)] /\ stored \in Seq(Nat) BY <1>1 DEF TypeInv
<1>4. PICK m : m = LastGot(p)' OBVIOUS
<1>5. ASSUME got'[p] = got[p], stored' = stored PROVE FALSE
  <2>1. Frames' = Frames BY <1>5 DEF Frames
  <2> QED BY <2>1, <1>1, <1>2, <1>4, <1>5, SameLast
<1>6. CASE UNCHANGED vars BY <1>5, <1>6 DEF vars
<1>7. ASSUME NEW q \in Procs, Open(q) \/ Create(q) \/ Initialise(q) \/ BeginWrite(q)
                               \/ WriteRecord(q) \/ WriteLast(q)
      PROVE  FALSE
  BY <1>5, <1>7 DEF Open, Create, Initialise, BeginWrite, Starts, WriteRecord, WriteLast
<1>8. ASSUME NEW q \in Procs, WriteIndex(q) PROVE FALSE
  <2>1. got' = got BY <1>8 DEF WriteIndex
  <2>2. CASE spoiled BY <1>5, <1>8, <2>1, <2>2 DEF WriteIndex
  <2>3. CASE ~spoiled
    <3>1. PICK b \in Ids : QueueInv(b) BY <1>1, <2>3
    <3>2. /\ DOMAIN stored = 1 .. Len(stored) /\ DOMAIN stored' = 1 .. Len(stored) + 1
          /\ (\A i \in DOMAIN stored : stored'[i] = stored[i])
          /\ Frames' = Frames \cup {sends}
          /\ \A r \in Procs : \A i \in DOMAIN got[r] : got[r][i] # sends
      BY <1>1, <1>8, <2>3, <3>1, IndexFacts
    <3>3. DOMAIN stored \subseteq DOMAIN stored' BY <1>3, <3>2
    <3> QED BY <3>2, <3>3, <2>1, <1>1, <1>2, <1>4, SameLast
  <2> QED BY <2>2, <2>3
<1>9. ASSUME NEW q \in Procs, Crash(q) PROVE FALSE
  <2>1. stored' = stored /\ got' = [got EXCEPT ![q] = <<>>] BY <1>9 DEF Crash
  <2>2. CASE q # p BY <2>1, <2>2, <1>3, <1>5
  <2>3. CASE q = p
    <3>1. DOMAIN got'[p] = {} BY <2>1, <2>3, <1>3, NothingIn
    <3>2. LastGot(p)' = 0 BY <3>1, <1>2 DEF LastIs
    <3> QED BY <3>2, <1>2, <1>3 DEF LastIs
  <2> QED BY <2>2, <2>3
<1>10. ASSUME NEW q \in Procs, Read(q) PROVE FALSE
  <2>1. stored' = stored BY <1>10 DEF Read
  <2>2. CASE UNCHANGED got BY <1>5, <2>1, <2>2
  <2>3. ASSUME NEW t \in NextUnread(ReadFrom(q)), Takes(q, t), ~spoiled PROVE FALSE
    <3>1. PICK b \in Ids : QueueInv(b) BY <1>1, <2>3
    <3>2. /\ got' = [got EXCEPT ![q] = Append(got[q], rec[t])]
          /\ DOMAIN got[q] = 1 .. Len(got[q]) /\ DOMAIN got'[q] = 1 .. Len(got[q]) + 1
          /\ (\A i \in DOMAIN got[q] : got'[q][i] = got[q][i])
          /\ got'[q][Len(got[q]) + 1] = rec[t] /\ Len(got[q]) \in Nat
      BY <1>1, <2>3, <3>1, TakeFacts
    <3>3. CASE q # p BY <3>2, <3>3, <2>1, <1>3, <1>5
    <3>4. CASE q = p
      <4>1. PICK l : l = LastGot(p) OBVIOUS
      <4>2. /\ l \in DOMAIN stored /\ \E i \in DOMAIN got[p] : got[p][i] = stored[l]
            /\ \A j \in DOMAIN got[p] : got[p][j] \in Frames => got[p][j] <= stored[l]
        BY <4>1, <1>2 DEF LastIs
      <4>3. \A i \in DOMAIN stored : i \in Nat /\ stored[i] \in Nat BY <1>3
      <4>4. m \in DOMAIN stored /\ \E i \in DOMAIN got'[p] : got'[p][i] = stored[m]
        BY <4>1, <4>2, <4>3, <2>1, <1>2, <1>4 DEF LastIs
      <4>5. k \in DOMAIN stored /\ l < k /\ k < m
        <5>1. DOMAIN stored = 1 .. Len(stored) /\ Len(stored) \in Nat BY <1>3
        <5>2. l \in Nat /\ m \in Nat /\ k \in l + 1 .. m - 1 BY <4>1, <4>2, <4>3, <4>4, <1>4
        <5> QED BY <5>1, <5>2, <4>2, <4>4
      <4>6. stored[m] = rec[t]
        <5>1. PICK i \in DOMAIN got'[p] : got'[p][i] = stored[m] BY <4>4
        <5>2. i \in DOMAIN got[p] \/ i = Len(got[q]) + 1 BY <5>1, <3>2, <3>4
        <5>3. ASSUME i \in DOMAIN got[p] PROVE FALSE
          <6>1. got[p][i] = stored[m] BY <5>1, <5>3, <3>2, <3>4
          <6>2. stored[m] <= stored[l] BY <6>1, <5>3, <4>2, <4>4 DEF Frames
          <6>3. stored[l] < stored[m]
            BY <4>1, <4>2, <4>4, <1>1, <1>4 DEF HistoryInv, StoredInv
          <6> QED BY <6>2, <6>3, <4>2, <4>3, <4>4
        <5> QED BY <5>1, <5>2, <5>3, <3>2, <3>4
      <4> QED BY <4>2, <4>4, <4>5, <4>6, <3>1, <3>4, <2>3, <1>1, TakesTheNext
    <3> QED BY <3>3, <3>4
  <2> QED BY <2>2, <2>3, <1>10 DEF Read, Takes
<1> QED BY <1>6, <1>7, <1>8, <1>9, <1>10 DEF Next, Works

\* A reader that has read a frame goes on with the next that is in the file: of the
\* records ahead of it findNextUnreadPosition() takes the nearest, whatever slots they are
\* in and whoever died since.
THEOREM NothingPassedOverHolds == ASSUME Fits PROVE Spec => NothingPassedOver
<1>1. FileInv => \A p \in Procs : LastIs(p) BY LastGotValue DEF FileInv
<1>2. FileInv /\ FileInv' /\ [Next]_vars /\ (\A p \in Procs : LastIs(p)) /\ (\A p \in Procs : LastIs(p))'
        => [\A p \in Procs :
             (LastGot(p) > 0 /\ LastGot(p)' > LastGot(p)) =>
               \A k \in LastGot(p) + 1 .. LastGot(p)' - 1 : \A s \in Slots : rec[s] # stored[k]]_vars
  BY NonePassedOver
<1> QED BY <1>1, <1>2, FileInvHolds, PTL DEF Spec, NothingPassedOver

-----------------------------------------------------------------------------
(* What the file keeps. *)

\* When frame k is in the file no more, the frames that are there are later ones, each
\* in a slot of its own.
LEMMA LaterFrames ==
  ASSUME TypeInv, HistoryInv, NEW b \in Ids, QueueInv(b), NEW k \in DOMAIN stored,
         ~InFile(stored[k]), NEW W \in SUBSET Slots, \A s \in W : rec[s] \in Frames
  PROVE  Cardinality(W) <= Len(stored) - k
<1>1. stored \in Seq(Nat) /\ index \in [Slots -> Ids] /\ rec \in [Slots -> Nat] BY DEF TypeInv
<1>2. NumbersInv(b) /\ FramesInv(b) BY DEF QueueInv
<1>3. k \in Nat /\ Len(stored) \in Nat /\ k <= Len(stored) /\ DOMAIN stored = 1 .. Len(stored)
  BY <1>1
<1>4. PICK T : T = k + 1 .. Len(stored) OBVIOUS
<1>5. \A s \in W : \E j \in T : stored[j] = rec[s]
  <2> SUFFICES ASSUME NEW s \in W PROVE \E j \in T : stored[j] = rec[s] OBVIOUS
  <2>1. PICK j \in DOMAIN stored : stored[j] = rec[s] BY DEF Frames
  <2>2. InFile(stored[j]) BY <2>1 DEF InFile
  <2>3. ~(j <= k) BY <2>2, <1>2 DEF FramesInv
  <2>4. j \in T BY <2>3, <1>3, <1>4
  <2> QED BY <2>1, <2>4
<1>6. \A s, t \in W : rec[s] = rec[t] => s = t
  <2> SUFFICES ASSUME NEW s \in W, NEW t \in W, rec[s] = rec[t] PROVE s = t OBVIOUS
  <2>1. Clean(s) /\ Clean(t) BY <1>2 DEF FramesInv, Clean, Stored
  <2>2. ~(U(b, index[s]) < U(b, index[t])) /\ ~(U(b, index[t]) < U(b, index[s]))
    BY <2>1, <1>1, <1>2 DEF FramesInv
  <2>3. index[s] \in Ids /\ index[t] \in Ids BY <1>1
  <2>4. U(b, index[s]) \in Int /\ U(b, index[t]) \in Int BY <2>3, AheadValue, QueueAssumption
  <2>5. index[s] = index[t] BY <2>2, <2>3, <2>4, AheadValue
  <2> QED BY <2>1, <2>5, <1>2 DEF NumbersInv, Clean
<1>7. IsFiniteSet(T) /\ Cardinality(T) = Len(stored) - k
  <2>1. k + 1 \in Int /\ Len(stored) \in Int BY <1>3
  <2>2. /\ IsFiniteSet(k + 1 .. Len(stored))
        /\ Cardinality(k + 1 .. Len(stored)) = IF k + 1 > Len(stored) THEN 0 ELSE Len(stored) - (k + 1) + 1
    BY <2>1, FS_Interval
  <2> QED BY <2>2, <1>3, <1>4
<1>8. Cardinality(W) <= Cardinality(T)
  <2> DEFINE f == [s \in W |-> CHOOSE j \in T : stored[j] = rec[s]]
  <2>1. \A s \in W : f[s] \in T /\ stored[f[s]] = rec[s] BY <1>5
  <2>2. f \in [W -> T] BY <2>1
  <2> HIDE DEF f
  <2>3. f \in Injection(W, T) BY <2>1, <2>2, <1>6 DEF Injection, IsInjective
  <2> QED BY <2>3, <1>7, FS_Injection
<1> QED BY <1>7, <1>8

\* The file keeps the last QueueSize frames, one less while a record is written and after
\* a sender died there: findReusablePosition() gives up only the oldest record.
THEOREM LastFramesKeptHolds == ASSUME Fits PROVE Spec => []LastFramesKept
<1>1. FileInv => LastFramesKept
  <2> SUFFICES ASSUME FileInv, ~spoiled, NEW k \in DOMAIN stored, ~InFile(stored[k]),
                      Len(stored) - k < (IF lock = Free /\ crashes = 0 THEN QueueSize ELSE QueueSize - 1)
               PROVE  FALSE
    BY DEF LastFramesKept, InFile
  <2>1. PICK b \in Ids : QueueInv(b) BY DEF FileInv
  <2>2. /\ TypeInv /\ MutexInv /\ HistoryInv /\ NumbersInv(b) /\ FramesInv(b) /\ index \in [Slots -> Ids]
    BY <2>1 DEF FileInv, QueueInv, TypeInv
  <2>3. \A s \in Slots : index[s] # 0 BY <2>2 DEF FramesInv
  <2>4. PICK W : W = {s \in Slots : rec[s] \in Frames} OBVIOUS
  <2>5. Cardinality(W) <= Len(stored) - k BY <2>1, <2>2, <2>4, LaterFrames
  <2>6. IsFiniteSet(Slots) /\ Cardinality(Slots) = QueueSize BY SlotsFinite
  <2>7. QueueSize \in Nat /\ Len(stored) \in Nat /\ k \in Nat
    <3>1. stored \in Seq(Nat) BY <2>2 DEF TypeInv
    <3> QED BY <3>1, QueueAssumption
  <2>8. \A s \in Slots : s \notin W =>
          Oldest(b, s) /\ (crashes # 0 \/ \E p \in Procs : at[p] \in {"last", "index"})
    BY <2>2, <2>3, <2>4 DEF FramesInv, Stored
  <2>9. CASE W = Slots BY <2>5, <2>6, <2>7, <2>9
  <2>10. CASE W # Slots
    <3>1. PICK d \in Slots : d \notin W BY <2>4, <2>10
    <3>2. \A s \in Slots : s \notin W => s = d
      <4> SUFFICES ASSUME NEW s \in Slots, s \notin W PROVE s = d OBVIOUS
      <4>1. U(b, index[s]) <= U(b, index[d]) /\ U(b, index[d]) <= U(b, index[s])
        BY <3>1, <2>3, <2>8 DEF Oldest
      <4>2. index[s] \in Ids /\ index[d] \in Ids BY <2>2
      <4>3. U(b, index[s]) \in Int /\ U(b, index[d]) \in Int BY <4>2, AheadValue, QueueAssumption
      <4>4. index[s] = index[d] BY <4>1, <4>2, <4>3, AheadValue
      <4> QED BY <4>4, <2>2, <2>3 DEF NumbersInv
    <3>3. W = Slots \ {d} BY <3>1, <3>2, <2>4
    <3>4. Cardinality(W) = QueueSize - 1 BY <3>3, <2>6, FS_RemoveElement
    <3>5. ~(lock = Free /\ crashes = 0) BY <3>1, <2>2, <2>8, OneWriter DEF Writing
    <3> QED BY <3>4, <3>5, <2>5, <2>7
  <2> QED BY <2>9, <2>10
<1> QED BY <1>1, FileInvHolds, PTL
=============================================================================
