------------------------------- MODULE MCFrame -------------------------------
(* A small instance of PJONFrame. *)
EXTENDS PJONFrame

CONSTANTS local, shared, other, new, router, small, served

Plain(id, bus) == [class |-> "PJON", id |-> id, bus |-> bus, mac |-> NoMac, port |-> PJON_BROADCAST,
                   config |-> {"TX_INFO", "ACK_REQ"} \cup IF bus = Localhost THEN {} ELSE {"MODE"},
                   router |-> FALSE, simplex |-> FALSE, knows |-> {}]
All == {"PORT", "PACKET_ID", "MAC"}

\* Three devices with id 1: of the local bus, of bus 1 and of bus 2; one that has
\* no id yet; a router; and two of PJONLocal, one that serves a port.
MCDevices == {local, shared, other, new, router, small, served}
MCConfig  == [d \in MCDevices |->
  CASE d = local  -> Plain(1, Localhost)
    [] d = shared -> [Plain(1, 1) EXCEPT !.knows = {"PORT", "PACKET_ID"}, !.port = 7]
    [] d = other  -> [Plain(1, 2) EXCEPT !.knows = All, !.mac = 2]
    [] d = new    -> [Plain(PJON_NOT_ASSIGNED, Localhost) EXCEPT !.knows = All, !.mac = 3,
                        !.config = @ \cup {"MAC"}]
    [] d = router -> [Plain(9, 1) EXCEPT !.knows = All, !.router = TRUE]
    [] d = small  -> [Plain(2, Localhost) EXCEPT !.class = "PJONLocal"]
    [] d = served -> [Plain(3, Localhost) EXCEPT !.class = "PJONLocal", !.knows = {"PORT"}, !.port = 7]]

Asks(d, headers, ids, buses, macs, ports, sizes) ==
  {[from |-> d, id |-> i, bus |-> b, mac |-> m, header |-> h, hops |-> 3, packet_id |-> 70,
    port |-> p, size |-> n] :
     i \in ids, b \in buses, m \in macs, h \in headers, p \in ports, n \in sizes}

\* From one device every header, to recipients by id, by bus and by MAC address;
\* from a device that serves a port, headers with and without it; in lengths on
\* both sides of each limit.
MCRequests ==
  Asks(other, SUBSET (Flags \ {"PORT", "MAC"}), {PJON_BROADCAST, 1}, {Localhost, 1}, {NoMac},
       {PJON_BROADCAST, 7}, {1, 5, 32})
  \cup Asks(other, {h \cup {"MAC"} : h \in SUBSET (Flags \ {"PORT", "MAC"})}, {PJON_BROADCAST, 1},
            {Localhost, 1}, {NoMac, 3}, {7}, {1, 5, 32})
  \cup Asks(shared, SUBSET {"MODE", "TX_INFO", "ACK_REQ", "PORT", "PACKET_ID"}, {1, 9}, {1, 2},
            {NoMac}, {PJON_BROADCAST}, {1, 5, 22})
  \cup Asks(served, SUBSET {"TX_INFO", "ACK_REQ", "PORT", "CRC", "EXT_LEN"}, {PJON_BROADCAST, 1, 2}, {Localhost},
            {NoMac}, {PJON_BROADCAST, 9}, {0, 8})
  \cup Asks(other, SUBSET {"MODE", "TX_INFO", "ACK_REQ", "PACKET_ID"}, {2, 3}, {Localhost}, {NoMac}, {7, 9}, {0, 5})

ASSUME MCAddresses == EachAddressOnce
=============================================================================
