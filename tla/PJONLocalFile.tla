---------------------------- MODULE PJONLocalFile ----------------------------
(***************************************************************************)
(* The LocalFile strategy: processes of one machine exchange frames        *)
(* through a file, a circular queue of the last records with an index of   *)
(* their numbers.                                                          *)
(*                                                                         *)
(* A process opens the file, and creates and initialises it when it finds  *)
(* none; the check, the creation and the initialisation are three steps,   *)
(* and only the last is under the lock.  A sender holds the lock while it  *)
(* writes a record, the number of the last record and the entry of the     *)
(* index; it may die in between, and the system then releases the lock.  A *)
(* reader takes its next record under the lock; it writes nothing, so its  *)
(* whole section is one step.                                              *)
(*                                                                         *)
(* A frame is the number of its send_frame(); every process reads every    *)
(* record, its own included.                                               *)
(***************************************************************************)
EXTENDS Integers, Sequences

CONSTANTS
  Procs,       \* the processes
  QueueSize,   \* LF_QUEUESIZE
  IdMod,       \* 2^16 in the code
  Ahead,       \* 16#8FFF: how far ahead of a reader a record may be
  StartId,     \* lastRecordId of a file that was used before
  MaxSends,    \* bound on the frames sent
  MaxCrashes   \* bound on the processes that die or exit

Ids   == 0 .. IdMod - 1
Slots == 1 .. QueueSize

ASSUME QueueAssumption ==
  /\ QueueSize \in Nat /\ IdMod \in Nat /\ Ahead \in Nat
  /\ 1 < QueueSize /\ QueueSize < Ahead /\ Ahead < IdMod
  /\ StartId \in QueueSize .. IdMod - 1
  /\ MaxSends \in Nat /\ MaxSends < Ahead
  \* A record number is lost with each sender that dies before it has entered it,
  \* and 0 where the numbers wrap: a reader that starts looks QueueSize numbers back.
  /\ MaxCrashes \in Nat /\ MaxCrashes + 1 < QueueSize

VARIABLES
  exists,   \* the file exists
  ready,    \* it holds an index
  last,     \* lastRecordId in the file
  index,    \* the number of the record in each slot, 0 in one never used
  rec,      \* the frame in each slot, 0 in one never used
  lock,     \* the process that holds the lock, if any
  at,       \* where each process is
  job,      \* the frame, slot and number of the record each sender writes
  lastRead, \* lastRecordIdRead of each process
  sends,    \* number of frames sent so far
  crashes,  \* number of processes that died so far
  stored,   \* history: the frames completely written, in order
  got,      \* history: the frames each process has read since its start
  spoiled   \* history: the file was initialised after its first use, or used
            \* before it was initialised

fileVars == <<exists, ready, last, index, rec>>
vars == <<exists, ready, last, index, rec, lock, at, job, lastRead, sends, crashes,
          stored, got, spoiled>>

NoJob == [frame |-> 0, slot |-> 1, id |-> 0]
Free  == "free"

ASSUME ProcsAssumption == Free \notin Procs

\* No file, or one that has been used for long.
Init ==
  /\ \/ /\ exists = FALSE /\ ready = FALSE
        /\ last = 0 /\ index = [s \in Slots |-> 0] /\ rec = [s \in Slots |-> 0]
        /\ sends = 0 /\ stored = <<>>
     \/ /\ exists = TRUE /\ ready = TRUE
        /\ last = StartId /\ index = [s \in Slots |-> StartId - QueueSize + s]
        /\ rec = [s \in Slots |-> s]
        /\ sends = QueueSize /\ stored = [s \in Slots |-> s]
  /\ lock = Free /\ at = [p \in Procs |-> "closed"] /\ job = [p \in Procs |-> NoJob]
  /\ lastRead = [p \in Procs |-> 0] /\ got = [p \in Procs |-> <<>>]
  /\ crashes = 0 /\ spoiled = FALSE

Goes(p, place) == at' = [at EXCEPT ![p] = place]

\* The difference of two 16 bits numbers.
Diff(i, j) == (i - j) % IdMod

-----------------------------------------------------------------------------
(* openContentFile(). *)

\* CheckIfFile(): the file is there and is opened, or must be created.
Open(p) ==
  /\ at[p] = "closed"
  /\ Goes(p, IF exists THEN "open" ELSE "absent")
  /\ UNCHANGED <<fileVars, lock, job, lastRead, sends, crashes, stored, got, spoiled>>

\* doOpen(true): an empty file is created unless there is one by now.
Create(p) ==
  /\ at[p] = "absent"
  /\ Goes(p, "created")
  /\ exists' = TRUE
  /\ UNCHANGED <<ready, last, index, rec, lock, job, lastRead, sends, crashes,
                 stored, got, spoiled>>

\* The file is filled with zeros, under the lock.
Initialise(p) ==
  /\ at[p] = "created" /\ lock = Free
  /\ Goes(p, "open")
  /\ ready' = TRUE /\ last' = 0
  /\ index' = [s \in Slots |-> 0] /\ rec' = [s \in Slots |-> 0]
  /\ spoiled' = (spoiled \/ last # 0 \/ \E s \in Slots : rec[s] # 0)
  /\ UNCHANGED <<exists, lock, job, lastRead, sends, crashes, stored, got>>

-----------------------------------------------------------------------------
(* send_frame(): writePacketToFile(). *)

\* Mutant: the slot of the smallest number is taken.
SmallestReusable ==
  {s \in Slots : \A t \in Slots : index[s] <= index[t]}

\* findReusablePosition(): the first slot never used, else one that holds the
\* oldest record; none when all hold the last.
Reusable ==
  LET unused == {s \in Slots : index[s] = 0}
  IN  IF unused # {} THEN {s \in unused : \A t \in unused : s <= t}
      ELSE {s \in Slots : /\ Diff(last, index[s]) > 0
                          /\ \A t \in Slots : Diff(last, index[t]) <= Diff(last, index[s])}

\* Mutant: 0 is a number like any other.
NextIdZero(i) == (i + 1) % IdMod

\* The number after i; 0 marks a slot never used.
NextId(i) == IF (i + 1) % IdMod = 0 THEN 1 ELSE (i + 1) % IdMod

Starts(p, s, id) ==
  /\ lock' = p /\ Goes(p, "record")
  /\ sends' = sends + 1
  /\ job' = [job EXCEPT ![p] = [frame |-> sends + 1, slot |-> s, id |-> id]]
  /\ UNCHANGED <<fileVars, lastRead, crashes, stored, got>>

\* The lock is taken and the index read.  From an empty file nothing is read: the
\* slot and the number come of variables nobody has set.
BeginWrite(p) ==
  /\ at[p] = "open" /\ lock = Free /\ sends < MaxSends
  /\ \/ ready /\ UNCHANGED spoiled /\ \E s \in Reusable : Starts(p, s, NextId(last))
     \/ ~ready /\ spoiled' = TRUE /\ \E s \in Slots, id \in Ids \ {0} : Starts(p, s, id)

\* The record is written; what comes before it in an empty file becomes zeros.
WriteRecord(p) ==
  /\ at[p] = "record"
  /\ rec' = [rec EXCEPT ![job[p].slot] = job[p].frame]
  /\ ready' = TRUE
  /\ Goes(p, "last")
  /\ UNCHANGED <<exists, last, index, lock, job, lastRead, sends, crashes, stored, got,
                 spoiled>>

\* updateIndex(): first the number of the last record,
WriteLast(p) ==
  /\ at[p] = "last"
  /\ last' = job[p].id
  /\ Goes(p, "index")
  /\ UNCHANGED <<exists, ready, index, rec, lock, job, lastRead, sends, crashes, stored,
                 got, spoiled>>

\* then the entry of the slot.  The lock is released.
WriteIndex(p) ==
  /\ at[p] = "index"
  /\ index' = [index EXCEPT ![job[p].slot] = job[p].id]
  /\ lock' = Free /\ job' = [job EXCEPT ![p] = NoJob]
  /\ Goes(p, "open")
  /\ stored' = IF spoiled THEN stored ELSE Append(stored, job[p].frame)
  /\ UNCHANGED <<exists, ready, last, rec, lastRead, sends, crashes, got, spoiled>>

-----------------------------------------------------------------------------
(* receive_frame(): readNextPacketFromFile(). *)

\* Where the reader starts: a reader that has read nothing takes what is there.
ReadFrom(p) == IF lastRead[p] = 0 THEN Diff(last, QueueSize) ELSE lastRead[p]

\* Mutant: a record behind the reader is not told from one ahead.
UnreadEither(from) == {s \in Slots : index[s] \notin {0, from}}

\* The slots with a record the reader has not read.
Unread(from) ==
  {s \in Slots : index[s] \notin {0, from} /\ Diff(index[s], from) < Ahead}

\* Mutant: the newest record is read.
NextUnreadNewest(from) ==
  {s \in Unread(from) : \A t \in Unread(from) : Diff(index[t], from) <= Diff(index[s], from)}

\* findNextUnreadPosition(): the one nearest to the last read, if any.
NextUnread(from) ==
  {s \in Unread(from) : \A t \in Unread(from) : Diff(index[s], from) <= Diff(index[t], from)}

Takes(p, s) ==
  /\ lastRead' = [lastRead EXCEPT ![p] = index[s]]
  /\ got' = IF spoiled THEN got ELSE [got EXCEPT ![p] = Append(@, rec[s])]

\* From an empty file a record of length 0 is read, or none, and lastRecordIdRead
\* comes of variables nobody has set.
Read(p) ==
  /\ at[p] = "open" /\ lock = Free
  /\ \/ /\ ready /\ last # 0 /\ UNCHANGED spoiled
        /\ \/ \E s \in NextUnread(ReadFrom(p)) : last # ReadFrom(p) /\ Takes(p, s)
           \/ /\ last = ReadFrom(p) \/ NextUnread(ReadFrom(p)) = {}
              /\ lastRead' = [lastRead EXCEPT ![p] = ReadFrom(p)] /\ UNCHANGED got
     \/ /\ ~ready /\ spoiled' = TRUE
        /\ \E id \in Ids : lastRead' = [lastRead EXCEPT ![p] = id]
        /\ UNCHANGED got
  /\ UNCHANGED <<fileVars, lock, at, job, sends, crashes, stored>>

-----------------------------------------------------------------------------
\* A process dies or exits at any point; its lock is released.
Crash(p) ==
  /\ at[p] # "closed" /\ crashes < MaxCrashes
  /\ crashes' = crashes + 1
  /\ Goes(p, "closed")
  /\ lock' = IF lock = p THEN Free ELSE lock
  /\ job' = [job EXCEPT ![p] = NoJob]
  /\ lastRead' = [lastRead EXCEPT ![p] = 0]
  /\ got' = [got EXCEPT ![p] = <<>>]
  /\ UNCHANGED <<fileVars, sends, stored, spoiled>>

Works(p) == \/ Open(p) \/ Create(p) \/ Initialise(p)
            \/ WriteRecord(p) \/ WriteLast(p) \/ WriteIndex(p)

Next == \E p \in Procs : Works(p) \/ BeginWrite(p) \/ Read(p) \/ Crash(p)

Spec == Init /\ [][Next]_vars

\* A process goes on with what it has begun and polls the file.
FairSpec == Spec /\ \A p \in Procs : WF_vars(Works(p)) /\ WF_vars(Read(p))

-----------------------------------------------------------------------------
(* Properties. *)

\* The position of a frame among those stored, 0 for one whose sender died.
Position(f) == IF \E k \in DOMAIN stored : stored[k] = f
               THEN CHOOSE k \in DOMAIN stored : stored[k] = f ELSE 0

\* A process reads the frames that were stored in the order they were, each once,
\* however the numbers wrap, whoever dies with a record half written, and however
\* often the queue goes round between two polls.
InOrder ==
  \A p \in Procs : \A j, k \in DOMAIN got[p] :
    (j < k /\ Position(got[p][k]) > 0) => Position(got[p][j]) < Position(got[p][k])

\* The frame p has read last of those stored, 0 if none.
LastGot(p) == LET S == {Position(got[p][k]) : k \in DOMAIN got[p]}
              IN  IF S = {} THEN 0 ELSE CHOOSE k \in S : \A j \in S : j <= k

\* A reader that has read a frame goes on with the next: it does not pass over
\* one that is still in the file.
NothingPassedOver ==
  [][\A p \in Procs :
       (LastGot(p) > 0 /\ LastGot(p)' > LastGot(p)) =>
         \A k \in LastGot(p) + 1 .. LastGot(p)' - 1 : \A s \in Slots : rec[s] # stored[k]]_vars

\* The file keeps the last QueueSize frames; it may keep one less while a record
\* is written and after a sender died there.
LastFramesKept ==
  ~spoiled => \A k \in DOMAIN stored :
    Len(stored) - k < (IF lock = Free /\ crashes = 0 THEN QueueSize ELSE QueueSize - 1)
      => \E s \in Slots : rec[s] = stored[k]

\* A process that has the file open and polls it comes to the last frame.
EveryoneCatchesUp ==
  \A p \in Procs :
    <>[](at[p] = "open" /\ ~spoiled => LastGot(p) = Len(stored))
=============================================================================
