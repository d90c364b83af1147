--------------------------- MODULE MCEthernetTCP ---------------------------
(* Small instances of PJONEthernetTCP. *)
EXTENDS PJONEthernetTCP

\* A has two packets to send, B none or one.
MCToSend == [p \in Peers |-> IF p = A THEN {<<1, 2>>} ELSE {<<>>, <<11>>}]
=============================================================================
