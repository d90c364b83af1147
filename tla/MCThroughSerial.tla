-------------------------- MODULE MCThroughSerial --------------------------
(* Small instances of PJONThroughSerial. *)
EXTENDS PJONThroughSerial

\* Frames that hold each symbol and what it is escaped to, with different ends.
MCFrames == <<<<187, 0, 234>>, <<149, 46, 5>>>>

\* Their responses are told apart byte by byte.
ASSUME MCResponses == EachResponseOwnByte
=============================================================================
