-------------------------------- MODULE MCMqtt --------------------------------
(* Small instances of PJONMqtt: three packets out, three messages in. *)
EXTENDS PJONMqtt

Packet(keys, fits)           == [keys |-> keys, fits |-> fits]
Arrival(size, to, from, data) == [size |-> size, to |-> to, from |-> from, data |-> data]

\* A client that hands over what it is asked for, one that does so from every call,
\* and one that hands several over at a time.
MCClients == {[calls |-> {"update"}, burst |-> 1], [calls |-> Calls, burst |-> 1], [calls |-> Calls, burst |-> 2]}

\* Items to translate, one that is too long, and a text that does not fit.
MCOutgoing == {<<Packet(<<"T", "P">>, TRUE), Packet(<<"X">>, FALSE), Packet(<<"P">>, TRUE)>>,
           <<Packet(<<"P">>, TRUE), Packet(<<"T", "X">>, TRUE)>>}

\* Texts with and without a sender, one with no receiver, and messages at the limit
\* and beyond it.
MCArriving == {<<Arrival(10, 44, 45, TRUE), Arrival(10, 44, 45, TRUE), Arrival(10, 44, 0, TRUE)>>,
               <<Arrival(10, 44, 45, TRUE), Arrival(41, 44, 0, TRUE), Arrival(10, 44, 45, TRUE)>>,
               <<Arrival(10, 0, 45, TRUE), Arrival(60, 44, 0, FALSE), Arrival(10, 44, 0, TRUE)>>}

MCTable == <<(<<"T", "temperature">>), (<<"X", "much_too_long">>)>>
===============================================================================
