------------------------------ MODULE Network -------------------------------
(***************************************************************************)
(* Hosts, wires and one switch around a common event queue, as the tests   *)
(* put them together: Stack, Wire and Switch composed.  The modules above  *)
(* IPv4 (TCP, a routing protocol) are external: they send packets when     *)
(* they like, in the order of the event queue, and take what comes.        *)
(* Between two events the program may change the configuration.            *)
(***************************************************************************)
EXTENDS Messages, NetworkUtil, FiniteSets

CONSTANTS
    Env,            \* the network (module TestEnv)
    Devices,        \* see Switch
    hostModules,    \* host |-> modules of the host
    Flows,          \* what they send: host, module, addresses, size and data
    Draws,          \* see Switch
    NewRoutes,      \* entries the program may add to routing tables
    NewArps,        \* entries the program may add to ARP tables
    ChangedWires,   \* wires whose settings the program may change
    NewDelays,      \* the delays it may give them
    NewSpeeds,      \* the speeds it may give them and the link
    MaxPackets,     \* bound: number of packets sent
    MaxMulticasts,  \* bound: how many of them are multicast
    MaxChanges      \* bound: number of changes to the configuration

VARIABLES
    outputQueue, nextAvailable, bps, max_queue_length, device, drop_base,
    wireAvailable, wireSpeed, propagationDelay, limit_speed, shortened,
    running, info, identification, received, rejected,
    aborted,
    origin,         \* history: the packets as they were sent
    changes         \* number of changes to the configuration

Hosts == DOMAIN Env.ports
Wires == DOMAIN Env.mac_table
HostAt(w) == CHOOSE h \in Hosts : \E i \in DOMAIN Env.ports[h] : Env.ports[h][i] = w
Ends == [w \in Wires |-> [e \in 0 .. 1 |-> IF e = 0 THEN HostAt(w) ELSE "Link"]]

L == INSTANCE Switch WITH
        Ports <- Cardinality(Wires), Sizes <- {}, Speeds <- {}, QueueSizes <- {},
        ShrinkBelow <- FALSE, Horizon <- 0, arrived <- 0, delivered <- <<>>,
        unreliable <- Env.unreliable, mac_table <- Env.mac_table, Broadcast <- "FF"
W == INSTANCE Wire WITH
        connected <- Ends, NoModule <- "none",
        WireSpeeds <- NewSpeeds \cup {Env.speed}, PropDelays <- NewDelays \cup {Env.delay}
S == INSTANCE Stack WITH hostPorts <- Env.ports, BroadcastMac <- "FF"

linkVars == <<outputQueue, nextAvailable, bps, max_queue_length, device, drop_base>>
wireVars == <<wireAvailable, wireSpeed, propagationDelay, limit_speed, shortened>>
stackVars == <<running, info, identification, received, rejected>>
vars == <<queueVars, linkVars, wireVars, stackVars, aborted, origin, changes>>

Init ==
    /\ EmptyQueue
    /\ outputQueue = [w \in Wires |-> <<>>]
    /\ nextAvailable = [w \in Wires |-> 0]
    /\ bps = Env.linkSpeed
    /\ max_queue_length = Env.queueSize
    /\ L!SwitchInit
    /\ wireAvailable = [w \in Wires |-> [e \in 0 .. 1 |-> 0]]
    /\ wireSpeed = [w \in Wires |-> Env.speed]
    /\ propagationDelay = [w \in Wires |-> Env.delay]
    /\ limit_speed = [w \in Wires |-> TRUE]
    /\ shortened = [w \in Wires |-> FALSE]
    /\ S!StackInit(Env.tables)
    /\ aborted = FALSE
    /\ origin = <<>>
    /\ changes = 0
-----------------------------------------------------------------------------
(* Events *)

linkReceives(m) ==
    /\ Receive(m, "PACKET_FROM_PORT")
    /\ pending[m].to = "Link"
    /\ L!packetArrived(Others(m), pending[m].wire, pending[m].packet)
    /\ UNCHANGED <<wireVars, stackVars>>

linkChecks(m) ==
    /\ L!checkQueue(m)
    /\ UNCHANGED <<device, drop_base, wireVars, stackVars>>

wireReceives(m) ==
    /\ W!wireReceives(m)
    /\ UNCHANGED <<linkVars, stackVars, aborted>>

hostReceives(m) ==
    /\ S!hostReceives(m)
    /\ UNCHANGED <<linkVars, wireVars>>

passPacket(m) ==
    /\ S!passPacket(m)
    /\ UNCHANGED <<linkVars, wireVars>>

event ==
    /\ ~aborted
    /\ \E m \in DOMAIN pending :
         \/ linkReceives(m)
         \/ linkChecks(m)
         \/ wireReceives(m)
         \/ hostReceives(m)
         \/ passPacket(m)
    /\ UNCHANGED <<origin, changes>>
-----------------------------------------------------------------------------
(* TCP and routing protocols *)

Addresses(h) == {Env.tables[h].ip[i].ip : i \in DOMAIN Env.tables[h].ip}
Segment(packet) == packet.checksum \o packet.data

\* A fresh packet; the checksum is the one of a TCP segment of this size.
Packet(flow) ==
    [number |-> Len(origin) + 1, size |-> flow.size, damaged |-> FALSE,
     dst_mac |-> "", src_mac |-> "", ethertype |-> "",
     header |-> [i \in 1 .. 12 |-> 0] \o flow.source \o flow.dest,
     checksum |-> Bytes(Complement(tcp_sum(flow.source, flow.dest, flow.data, flow.size - 34))),
     data |-> flow.data]

\* A receiver accepts a segment when its sum is all ones.
Verifies(packet) ==
    tcp_sum(S!Source(packet), S!Destination(packet), Segment(packet), packet.size - 34) = 65535

Multicasts == {i \in DOMAIN origin : S!Destination(origin[i].packet) \in S!ip_broadcasts}

send(flow) ==
    /\ ~aborted
    /\ Len(origin) < MaxPackets
    /\ flow.dest \in S!ip_broadcasts => Cardinality(Multicasts) < MaxMulticasts
    /\ S!ProtocolSends(flow.host, flow.module, Packet(flow))
    /\ origin' = Append(origin, [host |-> flow.host, packet |-> Packet(flow)])
    /\ UNCHANGED <<linkVars, wireVars, changes>>
-----------------------------------------------------------------------------
(* The program *)

change ==
    /\ ~aborted
    /\ changes < MaxChanges
    /\ changes' = changes + 1
    /\ UNCHANGED origin

stackChange ==
    /\ change
    /\ \/ \E h \in Hosts : running[h] /\ S!cleanUp(h)
       \/ \E r \in NewRoutes :
            S!Configure(r.host, S!setRoutingTable(info[r.host], r.ip_mask, r.prefix, r.port))
       \/ \E a \in NewArps :
            S!Configure(a.host, S!setARPTable(info[a.host], a.mac, a.ip))
    /\ UNCHANGED <<linkVars, wireVars>>

wireChange ==
    /\ change
    /\ \E w \in ChangedWires :
         \/ \E delay \in NewDelays : W!setPropagationDelay(w, delay)
         \/ \E speed \in NewSpeeds : W!setWireSpeed(w, speed)
         \/ W!setSpeedLimit(w, ~limit_speed[w])
    /\ UNCHANGED <<linkVars, stackVars, aborted>>

linkChange ==
    /\ change
    /\ \E speed \in NewSpeeds : L!setLinkSpeed(speed)
    /\ UNCHANGED <<device, drop_base, wireVars, stackVars>>

Next ==
    \/ event
    \/ \E flow \in Flows : send(flow)
    \/ stackChange
    \/ wireChange
    \/ linkChange

Spec == Init /\ [][Next]_vars

\* The event loop goes on (DueIsProcessed of System).
FairSpec == Spec /\ WF_vars(event)
-----------------------------------------------------------------------------
(* Properties *)

\* The assertions of Link, Ethernet and IPv4 hold (E_Link.cpp:37 and 133,
\* E_Ethernet.cpp:36, E_IPv4.cpp:28, 86 and 134): every frame a host gets was framed
\* by some Ethernet module, whatever the switch has done to it.
NoAbort == ~aborted

\* The IP header that one host writes passes the check of another (E_IPv4.cpp:35), for
\* the sizes and addresses of Flows and the identifications counted up from 0; a damaged
\* copy does, too, since the switch spares the header.
HeaderPasses == ~rejected

\* The switch knows the destination of a frame at another port than the sender's.
Located(packet) ==
    device = "Switch" /\ \E w \in Wires : /\ packet.dst_mac \in Env.mac_table[w]
                     /\ packet.src_mac \notin Env.mac_table[w]

\* No module of a host compares the destination of a packet with its own addresses:
\* it is up to the switch to send a unicast packet to its destination only.  It does,
\* unless it knows the destination only at the port of the sender (E_Switch.cpp:85).
OnlyForMe ==
    \A h \in Hosts : \A i \in DOMAIN received[h] :
        LET packet == received[h][i]
        IN  \/ S!Destination(packet) \in Addresses(h) \cup S!ip_broadcasts
            \/ ~Located(packet)

\* Two packets on the same way (from one port to one other port) arrive in the order
\* in which they were sent, and none arrives twice: nothing between two TCP modules
\* reorders or duplicates, unless a wire was made faster under way.
InOrder ==
    (\A w \in Wires : ~shortened[w]) =>
        \A h \in Hosts : \A i, j \in DOMAIN received[h] :
            LET first == received[h][i]
                second == received[h][j]
            IN  i < j /\ first.src_mac = second.src_mac /\ first.dst_mac = second.dst_mac
                  /\ Located(first) => first.number < second.number

\* The switch damages a segment so that TCP's checksum shows it, except when the four
\* bytes it overwrites have the same sum as the ones it puts there.
DamageCaught ==
    \A h \in Hosts : \A i \in DOMAIN received[h] :
        LET packet == received[h][i]
            data == origin[packet.number].packet.data
        IN  /\ ~packet.damaged => Verifies(packet) /\ packet.data = data
            /\ packet.damaged /\ Verifies(packet) =>
                  data # packet.data /\ one_sum(data) = one_sum(packet.data)

\* A host that was cleaned up neither sends to a wire nor takes packets in, whatever
\* is still on its way inside the host (E_Host.cpp:55, 69 and 184).
QuietAfterCleanUp ==
    [][\A h \in Hosts : ~running[h] =>
          /\ received'[h] = received[h]
          /\ \A m \in DOMAIN pending' \ DOMAIN pending :
               ~(pending'[m].kind = "PACKET_TO_PORT" /\ pending'[m].from = h)]_vars

\* A packet leaves through the port of the longest matching prefix, the first of
\* several (a multicast one by its source address), with that port's MAC address.
RightPort ==
    [][\A m \in DOMAIN pending' \ DOMAIN pending :
          pending'[m].kind = "PACKET_TO_PORT" /\ pending'[m].from \in Hosts =>
             LET h == pending'[m].from
                 packet == pending'[m].packet
                 dest == S!Destination(packet)
                 key == IF dest \in S!ip_broadcasts THEN S!Source(packet) ELSE dest
             IN  \E port \in 0 .. Len(Env.ports[h]) - 1 :
                    /\ S!IsLongestPrefix(port, info[h], key)
                    /\ pending'[m].wire = Env.ports[h][port + 1]
                    /\ S!getMACAddr(info[h], port) = <<packet.src_mac>>]_vars

\* See Wire.
WireFifo == W!WireFifo

\* The wires and what hosts and switch do to them behave like module Wire: only
\* wires deliver packets, and nobody takes a message for a wire.
ImplementsWire == W!Spec

\* There is room in a queue for all packets that are sent.
NoQueueFills == Env.queueSize = 0 \/ MaxPackets <= Env.queueSize

SentToPeer(n) ==
    /\ n <= Len(origin)
    /\ S!Destination(origin[n].packet) \notin Addresses(origin[n].host) \cup S!ip_broadcasts
Got(n) ==
    /\ n <= Len(origin)
    /\ \E h \in Hosts : /\ S!Destination(origin[n].packet) \in Addresses(h)
                        /\ \E i \in DOMAIN received[h] : received[h][i].number = n

\* Every segment for another host is handed to that host's TCP, if all hosts run and no
\* output queue can fill up: "Random drop occurs when the queue is full" (E_Link.hpp:24).
\* Sent and received segments stay so: once some are sent, there is a time when all are
\* received that were sent until then.
Arrives ==
    NoQueueFills =>
        (\E n \in 1 .. MaxPackets : SentToPeer(n)) ~>
            \/ \E h \in Hosts : ~running[h]
            \/ \A n \in 1 .. MaxPackets : SentToPeer(n) => Got(n)
=============================================================================
