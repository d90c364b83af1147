-------------------------- MODULE PJONThroughSerial --------------------------
(***************************************************************************)
(* The ThroughSerial strategy between two devices: one sends the frames of *)
(* a list, each again until it is acknowledged, the other receives.        *)
(*                                                                         *)
(* send_frame() puts START, the stuffed bytes and END on a serial line     *)
(* byte by byte; receive_frame() is a state machine that takes what is     *)
(* available at each call and keeps its state between calls; the response  *)
(* is made of the last bytes of the frame, which the sender expects back.  *)
(* The line may lose bytes.                                                *)
(*                                                                         *)
(* The receiver is PJON::receive(): a frame whose CRC is wrong is dropped  *)
(* without a response.  The CRC is modelled as exact: right for the frames *)
(* that are sent and for no other.                                         *)
(***************************************************************************)
EXTENDS Integers, Sequences

CONSTANTS
  ToSend,          \* the frames, sequences of bytes, in the order they are sent
  MaxLength,       \* PJON_PACKET_MAX_LENGTH, the size of buffer
  ResponseLength,  \* TS_RESPONSE_LENGTH
  MaxLoss,         \* bound on the bytes lost and the time-outs that come early
  MaxLine          \* bound on the bytes on the line

TS_START == 149
TS_END   == 234
TS_ESC   == 187
Symbols  == {TS_START, TS_END, TS_ESC}

\* b ^ TS_ESC for the symbols, and the bytes it gives.
Flipped  == [b \in Symbols |-> CASE b = TS_START -> 46 [] b = TS_END -> 81 [] b = TS_ESC -> 0]
Unflip(v) == CHOOSE b \in Symbols : Flipped[b] = v

Byte   == 0 .. 255
Frames == {ToSend[k] : k \in DOMAIN ToSend}

ASSUME SerialAssumption ==
  /\ ToSend \in Seq(Seq(Byte))
  /\ MaxLength \in Nat /\ MaxLoss \in Nat /\ MaxLine \in Nat
  /\ ResponseLength \in Nat \ {0}
  /\ \A f \in Frames : Len(f) >= ResponseLength

VARIABLES
  line,      \* bytes on their way to the receiver, or available to it
  back,      \* bytes on their way to the sender
  state,     \* state of the receiver
  buffer,    \* buffer[0 .. position - 1] of the receiver
  todo,      \* the frames not acknowledged yet, the first of which is being sent
  place,     \* of the byte send_frame() writes next, Idle when it does not run
  second,    \* whether that is the byte after ESC
  fail,      \* _fail: a byte was not written
  awaited,   \* what receive_response() still expects, <<>> when it does not run
  accepted,  \* history: the frames the receiver took
  losses     \* bytes lost and early time-outs so far

Idle == -1

serial_vars == <<line, back, state, buffer, todo, place, second, fail, awaited, accepted, losses>>

SerialInit ==
  /\ line = <<>> /\ back = <<>>
  /\ state = "TS_WAITING" /\ buffer = <<>>
  /\ todo = ToSend /\ place = Idle /\ second = FALSE /\ fail = FALSE /\ awaited = <<>>
  /\ accepted = {} /\ losses = 0

-----------------------------------------------------------------------------
(* Frames and responses. *)

\* Mutant: ESC itself is not escaped.
EscapedButEsc(f, i) == i \in DOMAIN f /\ f[i] \in {TS_START, TS_END}

\* Which bytes of a frame take two on the line.
Escaped(f, i) == i \in DOMAIN f /\ f[i] \in Symbols

\* What send_frame() writes at place i of a frame: START is at 0, END after the last
\* byte; flip says that ESC has been written there.
Written(f, i, flip) ==
  CASE i = 0 -> TS_START
    [] i = Len(f) + 1 -> TS_END
    [] i \in DOMAIN f /\ flip -> Flipped[f[i]]
    [] Escaped(f, i) /\ ~flip -> TS_ESC
    [] i \in DOMAIN f /\ ~Escaped(f, i) /\ ~flip -> f[i]

\* prepare_response(): the last bytes of the frame; a symbol is lowered by one.
Response(f) ==
  [i \in 1 .. ResponseLength |->
     LET raw == f[Len(f) - ResponseLength + i]
     IN  IF raw \in Symbols THEN raw - 1 ELSE raw]

-----------------------------------------------------------------------------
(* The sender. *)

\* can_start(), and the start of send_frame().
BeginFrame ==
  /\ todo # <<>> /\ place = Idle /\ awaited = <<>> /\ back = <<>>
  /\ place' = 0 /\ second' = FALSE /\ fail' = FALSE
  /\ UNCHANGED <<line, back, state, buffer, todo, awaited, accepted, losses>>

\* What send_frame() does after a byte: _fail is looked at before each byte of the
\* frame, not before what follows ESC and not before END; then receive_response()
\* returns at once.
Advance(failed) ==
  LET f     == Head(todo)
      esc   == Escaped(f, place) /\ ~second
      last  == place = Len(f) + 1
  IN  /\ second' = esc
      /\ place' = IF esc THEN place
                  ELSE IF last \/ (failed /\ place + 1 \in DOMAIN f) THEN Idle ELSE place + 1
      /\ awaited' = IF last /\ ~failed THEN Response(f) ELSE <<>>

\* send_byte().
WriteByte ==
  /\ place # Idle /\ Len(line) < MaxLine
  /\ line' = Append(line, Written(Head(todo), place, second))
  /\ Advance(fail)
  /\ UNCHANGED <<back, state, buffer, todo, fail, accepted, losses>>

\* The port does not take the byte within its time-out.  It counts as a loss.
WriteFails ==
  /\ place # Idle /\ losses < MaxLoss
  /\ fail' = TRUE /\ losses' = losses + 1
  /\ Advance(TRUE)
  /\ UNCHANGED <<line, back, state, buffer, todo, accepted>>

\* Mutant: a byte that differs is passed over.
ReadResponseAnyByte ==
  /\ awaited # <<>> /\ back # <<>>
  /\ back' = Tail(back)
  /\ awaited' = Tail(awaited)
  /\ todo' = IF Len(awaited) = 1 THEN Tail(todo) ELSE todo
  /\ UNCHANGED <<line, state, buffer, place, second, fail, accepted, losses>>

\* receive_response() reads a byte: it fails on the first that differs, and
\* returns PJON_ACK after the last.
ReadResponse ==
  /\ awaited # <<>> /\ back # <<>>
  /\ back' = Tail(back)
  /\ awaited' = IF Head(awaited) = Head(back) THEN Tail(awaited) ELSE <<>>
  /\ todo' = IF Head(awaited) = Head(back) /\ Len(awaited) = 1 THEN Tail(todo) ELSE todo
  /\ UNCHANGED <<line, state, buffer, place, second, fail, accepted, losses>>

\* What a time-out costs: it is free when nothing is on its way, and counts as a
\* loss when it comes before the bytes do.
Early(onTheWay) ==
  IF onTheWay THEN losses < MaxLoss /\ losses' = losses + 1 ELSE UNCHANGED losses

\* receive_response() times out: after a loss, or before a slow receiver answers.
ResponseTimeOut ==
  /\ awaited # <<>>
  /\ Early(line # <<>> \/ back # <<>> \/ state = "TS_DONE")
  /\ awaited' = <<>>
  /\ UNCHANGED <<line, back, state, buffer, todo, place, second, fail, accepted>>

\* The sender's own receive_frame() throws away what is not START, and a
\* response holds no symbol.
Discard ==
  /\ place = Idle /\ awaited = <<>> /\ back # <<>>
  /\ back' = Tail(back)
  /\ UNCHANGED <<line, state, buffer, todo, place, second, fail, awaited, accepted, losses>>

-----------------------------------------------------------------------------
(* The receiver: receive_frame(), one byte at a time. *)

Takes(v) == line # <<>> /\ v = Head(line) /\ line' = Tail(line)
Goes(s, b) == state' = s /\ buffer' = b
Others == UNCHANGED <<back, todo, place, second, fail, awaited, accepted, losses>>

\* TS_WAITING: everything before START is thrown away.
WaitStart(v) ==
  /\ state = "TS_WAITING" /\ Takes(v)
  /\ IF v = TS_START THEN Goes("TS_RECEIVING", <<>>) ELSE Goes(state, buffer)
  /\ Others

\* TS_RECEIVING: a START drops the frame; the room left is looked at before END.
TakeByte(v) ==
  /\ state = "TS_RECEIVING" /\ Takes(v)
  /\ \/ v = TS_START /\ Goes("TS_WAITING", buffer)
     \/ v = TS_ESC /\ Goes("TS_WAITING_ESCAPE", buffer)
     \/ v \notin {TS_START, TS_ESC} /\ Len(buffer) + 1 >= MaxLength /\ Goes("TS_WAITING", buffer)
     \/ v = TS_END /\ Len(buffer) + 1 < MaxLength /\ Goes("TS_DONE", buffer)
     \/ v \notin Symbols /\ Len(buffer) + 1 < MaxLength /\ Goes(state, Append(buffer, v))
  /\ Others

\* TS_WAITING_ESCAPE, and the byte after ESC in TS_RECEIVING: it must be a
\* symbol's.  The room left is not looked at here.
TakeEscaped(v) ==
  /\ state = "TS_WAITING_ESCAPE" /\ Takes(v)
  /\ IF v \in {Flipped[b] : b \in Symbols}
     THEN Goes("TS_RECEIVING", Append(buffer, Unflip(v)))
     ELSE Goes("TS_WAITING", buffer)
  /\ Others

\* A byte is late, or receive_frame() was not called for long.
ByteTimeOut ==
  /\ state \in {"TS_RECEIVING", "TS_WAITING_ESCAPE"}
  /\ Early(line # <<>> \/ place # Idle)
  /\ Goes("TS_WAITING", buffer)
  /\ UNCHANGED <<line, back, todo, place, second, fail, awaited, accepted>>

\* TS_DONE: the frame is returned to receive(), which checks it and has the
\* response sent.
FrameDone ==
  /\ state = "TS_DONE"
  /\ Goes("TS_WAITING", buffer)
  /\ IF buffer \in Frames
     THEN accepted' = accepted \cup {buffer} /\ back' = back \o Response(buffer)
     ELSE UNCHANGED <<accepted, back>>
  /\ UNCHANGED <<line, todo, place, second, fail, awaited, losses>>

-----------------------------------------------------------------------------
(* The line. *)

Without(s, k) == SubSeq(s, 1, k - 1) \o SubSeq(s, k + 1, Len(s))

Lose ==
  /\ losses < MaxLoss
  /\ \/ \E k \in DOMAIN line : line' = Without(line, k) /\ UNCHANGED back
     \/ \E k \in DOMAIN back : back' = Without(back, k) /\ UNCHANGED line
  /\ losses' = losses + 1
  /\ UNCHANGED <<state, buffer, todo, place, second, fail, awaited, accepted>>

SenderStep   == BeginFrame \/ WriteByte \/ ReadResponse \/ ResponseTimeOut \/ Discard
ReceiverStep == \/ \E v \in Byte : WaitStart(v) \/ TakeByte(v) \/ TakeEscaped(v)
                \/ ByteTimeOut \/ FrameDone

SerialNext == SenderStep \/ WriteFails \/ ReceiverStep \/ Lose

SerialSpec == SerialInit /\ [][SerialNext]_serial_vars

\* Both devices go on with their loops; the losses and the early
\* time-outs come to an end.
SerialFairSpec == SerialSpec /\ WF_serial_vars(SenderStep) /\ WF_serial_vars(ReceiverStep)

-----------------------------------------------------------------------------
(* Properties. *)

\* A frame the sender sees acknowledged was taken by the receiver, whatever is
\* lost and however late the response: receive_response() does not take the
\* answer to one frame for the answer to another.
AckedIsAccepted ==
  \A k \in 1 .. Len(ToSend) - Len(todo) : ToSend[k] \in accepted

\* What AckedIsAccepted rests on: the response to a frame has a byte that no other
\* frame's has, so that what is left of other responses is never mistaken for it.
EachResponseOwnByte ==
  \A f \in Frames : \E i \in 1 .. ResponseLength :
    \A g \in Frames \ {f} : \A j \in 1 .. ResponseLength : Response(g)[j] # Response(f)[i]

\* Byte stuffing is transparent: a frame that reaches the end of receive_frame()
\* on a line that lost nothing is one that was sent, and on any line it fits
\* PJON_PACKET_MAX_LENGTH, even when the receiver missed where one frame ended and
\* the next one started.
Transparent ==
  state = "TS_DONE" => (losses = 0 => buffer \in Frames) /\ Len(buffer) + 1 < MaxLength

\* A loss is got over: every frame is acknowledged in the end.
EveryFrameAcked == <>(todo = <<>>)
=============================================================================
