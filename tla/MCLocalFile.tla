----------------------------- MODULE MCLocalFile -----------------------------
(* Small instances of PJONLocalFile. *)
EXTENDS PJONLocalFile

CONSTANTS alice, bob

MCProcs == {alice, bob}
=============================================================================
