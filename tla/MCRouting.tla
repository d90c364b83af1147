------------------------------ MODULE MCRouting ------------------------------
(* A small instance of PJONRouting. *)
EXTENDS PJONRouting

CONSTANTS zero, nat, one, two, far, off

Pkt(shared, ack, from, to, hops) ==
  [shared |-> shared, ack |-> ack, tx |-> from, rx |-> to, hops |-> hops]
At(b, p) == [bus |-> b, pkt |-> p]

\* Bus 0 is a local bus with a NAT id; buses 1 and 3 are two parts of one shared
\* bus; bus 2 is another.  The bus far is behind bus 2, off behind
\* bus 1.
MCBusIds   == {zero, nat, one, two, far, off}
MCOwnBusId == [b \in 0 .. 3 |-> CASE b = 0 -> nat [] b = 2 -> two [] b \in {1, 3} -> one]

\* What devices of each bus send, shared: to both parts of an attached bus,
\* to the bus with NAT, to a bus that is known later or never.  Three
\* senders are not attached.
MCArrivals ==
  {At(0, Pkt(TRUE, TRUE, zero, one, 0)), At(0, Pkt(TRUE, FALSE, zero, far, 0)),
   At(1, Pkt(TRUE, TRUE, off, nat, 0)),  At(1, Pkt(TRUE, TRUE, one, one, 0)),
   At(2, Pkt(TRUE, TRUE, far, one, 0)),  At(0, Pkt(FALSE, TRUE, zero, zero, 0))}

MCNoRoutes == <<>>
=============================================================================
