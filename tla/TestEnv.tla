------------------------------ MODULE TestEnv -------------------------------
(***************************************************************************)
(* The networks the tests of TCP run in (app/kens/testenv.hpp): hosts on   *)
(* the wires of one switch.  Wires are numbered in the order of addWire,   *)
(* which is the order of the ports of the switch.  Times are nanoseconds,  *)
(* speeds nanoseconds per byte.                                            *)
(***************************************************************************)
EXTENDS RoutingInfo

MSEC == 1000000
GigabitPerSecond == 8
TenMegabitPerSecond == 800

mac1 == <<"BC", "CB">>
mac2 == <<"CD", "DC">>
ip1 == <<<<192, 168, 0, 7>>, <<192, 168, 0, 8>>>>
ip2 == <<<<10, 0, 1, 4>>, <<10, 0, 1, 5>>>>

\* The tables of a host with two ports; a route to each address of the other host.
Tables(mac, ip, peer_mac, peer_ip) ==
    LET macs == setMACAddr(setMACAddr(NoTables, mac[1], 0), mac[2], 1)
        arps == setARPTable(setARPTable(macs, peer_mac[1], peer_ip[1]), peer_mac[2], peer_ip[2])
        ips == setIPAddr(setIPAddr(arps, ip[1], 0), ip[2], 1)
    IN  setRoutingTable(setRoutingTable(ips, peer_ip[1], 16, 0), peer_ip[2], 16, 1)

TwoHosts(isUnreliable, length) ==
    [ports |-> [host1 |-> <<1, 2>>, host2 |-> <<3, 4>>],
     tables |-> [host1 |-> Tables(mac1, ip1, mac2, ip2), host2 |-> Tables(mac2, ip2, mac1, ip1)],
     mac_table |-> <<{mac1[1]}, {mac1[2]}, {mac2[1]}, {mac2[2]}>>,
     delay |-> MSEC, speed |-> GigabitPerSecond, linkSpeed |-> GigabitPerSecond,
     queueSize |-> length, unreliable |-> isUnreliable]

TestEnv1 == TwoHosts(FALSE, 0)
TestEnv2(isUnreliable) == TwoHosts(isUnreliable, 16)

\* A server at the first wire and clients at the others.
server_ip == <<192, 168, 1, 7>>
client_ip(k) == <<10, 0, 1, 10 + k>>
ServerTables(clients) ==
    FoldLeftDomain(LAMBDA info, k : setARPTable(info, clients[k], client_ip(k - 1)),
                   setRoutingTable(setIPAddr(setMACAddr(NoTables, "BC", 0), server_ip, 0),
                                   <<10, 0, 1, 0>>, 24, 0),
                   clients)
ClientTables(clients, k) ==
    setARPTable(setRoutingTable(setIPAddr(setMACAddr(NoTables, clients[k], 0),
                                          client_ip(k - 1), 0),
                                <<192, 168, 1, 0>>, 24, 0),
                "BC", server_ip)

\* clients names the clients, which are also their MAC addresses.
TestEnv3(clients) ==
    LET place(h) == IF h = "server" THEN 0 ELSE CHOOSE k \in DOMAIN clients : clients[k] = h
        hosts == {"server"} \cup {clients[k] : k \in DOMAIN clients}
    IN  [ports |-> [h \in hosts |-> <<place(h) + 1>>],
         tables |-> [h \in hosts |-> IF h = "server" THEN ServerTables(clients)
                                     ELSE ClientTables(clients, place(h))],
         mac_table |-> [w \in 1 .. Len(clients) + 1 |-> IF w = 1 THEN {"BC"} ELSE {clients[w - 1]}],
         delay |-> 10 * MSEC, speed |-> TenMegabitPerSecond,
         linkSpeed |-> TenMegabitPerSecond, queueSize |-> 64, unreliable |-> FALSE]
=============================================================================
