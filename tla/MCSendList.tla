----------------------------- MODULE MCSendList -----------------------------
(* Small instances of PJONSendList. *)
EXTENDS PJONSendList

CONSTANTS unicast, beacon

\* Transmission at once, then one unit of time more for each attempt up to one.
MCBackOff == [a \in Attempts |-> IF a = 0 THEN 0 ELSE 1]

\* unicast goes to device 1 and asks for an acknowledgement; beacon goes to all.
MCContents     == {unicast, beacon}
MCAckRequested == {unicast}
MCRxOf         == [c \in MCContents |-> IF c = unicast THEN 1 ELSE 0]
=============================================================================
