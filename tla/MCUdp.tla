-------------------------------- MODULE MCUdp --------------------------------
(* Small instances of PJONUdp: three devices on a LAN with one address to spare. *)
EXTENDS PJONUdp

MCHome   == [d \in Devices |-> d]
MCManual == [d \in Devices |-> IF d = 1 THEN <<2>> ELSE <<>>]

\* The first device has packets for both others, and is alone, or the second has
\* packets for it, or the third broadcasts.
MCLists == {<< <<2, 3>>, <<>>, <<>> >>, << <<2>>, <<1>>, <<>> >>, << <<2>>, <<>>, <<0>> >>}
==============================================================================
