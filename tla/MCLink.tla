------------------------------- MODULE MCLink -------------------------------
(* Small instances of PJONLink. *)
EXTENDS PJONLink

CONSTANTS a, b, m1, m2, m3

\* Two senders with the same device id on two buses; a sends two messages.
MCSenders  == {a, b}
MCIdentity == [d \in MCSenders |->
                 [id |-> 1, shared |-> TRUE, bus |-> IF d = a THEN 1 ELSE 2]]
MCMsgs     == {m1, m2, m3}
MCOwner    == [m \in MCMsgs |-> IF m = m3 THEN b ELSE a]

\* A table that holds nothing, as in an object of static storage; 0 is no id.
Nobody     == [id |-> 0, shared |-> FALSE, bus |-> 0]
MCEmpty    == {[k \in 1 .. Window |-> [id |-> 0, from |-> Nobody]]}
=============================================================================
