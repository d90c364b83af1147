----------------------------- MODULE MCVirtualBus -----------------------------
(* Small instances of PJONVirtualBus: three parts, the router has an id on one. *)
EXTENDS PJONVirtualBus

MCHome == [d \in Devices |-> d]
MCOwn  == [p \in Parts |-> IF p = 3 THEN 9 ELSE NotAssigned]
==============================================================================
