----------------------------- MODULE MCNetwork ------------------------------
(* Instances of Network for TLC. *)
EXTENDS Network, TestEnv

\* With two more routes at host1 that are never the best: a default route, and one
\* that differs from the addresses of host2 inside a byte.
TwoHostEnv ==
    [TestEnv2(TRUE) EXCEPT !.tables.host1 =
        setRoutingTable(setRoutingTable(@, <<0, 0, 0, 0>>, 0, 1), <<10, 0, 64, 4>>, 18, 1)]
CongestionEnv == TestEnv3(<<"client0", "client1">>)

TcpOnly == [h \in Hosts |-> {"Ethernet", "IPv4", "TCP"}]
TcpAndOspf == [h \in Hosts |-> {"Ethernet", "IPv4", "TCP", "OSPF"}]

\* A segment without data, one with, and one whose data have the sum of EEEEEEEE.
Flow(h, m, src, dst, bytes) ==
    [host |-> h, module |-> m, source |-> src, dest |-> dst,
     size |-> 54 + Len(bytes), data |-> bytes]
Plain == <<1, 2, 3, 4>>
SameSum == <<238, 239, 238, 237>>

\* From one host to the other, and from that one to all routers.
TwoHostFlows ==
    {Flow("host1", "TCP", ip1[1], ip2[1], <<>>),
     Flow("host1", "TCP", ip1[1], ip2[1], SameSum),
     Flow("host2", "OSPF", ip2[2], <<224, 0, 0, 5>>, Plain)}

\* A route that is longer than those of TestEnv.
TwoHostRoutes ==
    {[host |-> "host1", ip_mask |-> <<10, 0, 1, 4>>, prefix |-> 31, port |-> 1]}

\* From the clients to the server, and from a client to itself.
CongestionFlows ==
    {Flow("client0", "TCP", client_ip(0), server_ip, <<>>),
     Flow("client1", "TCP", client_ip(1), server_ip, Plain),
     Flow("client0", "TCP", client_ip(0), client_ip(0), <<>>)}

\* A client enters its own address, or a second MAC address for the server.
CongestionArps ==
    {[host |-> "client0", mac |-> "client0", ip |-> client_ip(0)],
     [host |-> "client0", mac |-> "client1", ip |-> server_ip]}
=============================================================================
