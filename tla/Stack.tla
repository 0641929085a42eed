------------------------------- MODULE Stack --------------------------------
(***************************************************************************)
(* A packet inside a host: Host::messageReceived, sendPacketToModule and   *)
(* sendPacket (src/Networking/E_Host.cpp), Ethernet::packetArrived and     *)
(* IPv4::packetArrived.  The modules of a host hand packets to each other  *)
(* with PacketPass messages of delay 0.                                    *)
(*                                                                         *)
(* A packet is a record: number (identifies it), size, dst_mac, src_mac,   *)
(* ethertype, header (the 20 bytes of the IP header), checksum and data    *)
(* (the bytes at 50 and 54, where TCP has its checksum and the first of    *)
(* its payload), and, for the properties, damaged.                         *)
(***************************************************************************)
EXTENDS Messages, RoutingInfo, NetworkUtil

CONSTANTS
    Hosts,
    hostPorts,       \* host |-> the wires of its ports 0, 1, ... as a sequence
    hostModules,     \* host |-> names in hostModuleMap
    BroadcastMac

VARIABLES
    running,           \* host |-> FALSE after cleanUp
    info,              \* host |-> its RoutingInfo
    identification,    \* host |-> of its IPv4 module
    received,          \* history: host |-> packets handed to TCP, UDP or OSPF
    rejected,          \* history: an IP header failed its check
    aborted            \* an assertion failed

stackVars == <<running, info, identification, received, rejected>>

StackInit(tables) ==
    /\ running = [h \in Hosts |-> TRUE]
    /\ info = tables
    /\ identification = [h \in Hosts |-> 0]
    /\ received = [h \in Hosts |-> <<>>]
    /\ rejected = FALSE

Source(packet) == SubSeq(packet.header, 13, 16)
Destination(packet) == SubSeq(packet.header, 17, 20)
-----------------------------------------------------------------------------
(* Host *)

\* Slip of isRunning: cleanUp has no effect.
isRunning_always(h) == TRUE

isRunning(h) == running[h]

PacketPass(h, from, to, packet, time) ==
    [kind |-> "PacketPass", host |-> h, from |-> from, to |-> to, wakeup |-> time,
     packet |-> packet]

\* The port whose MAC address is the source address of the packet, by default 0.
\* A port without a MAC address before it is an error.
PortMacs(h) == [i \in DOMAIN hostPorts[h] |-> getMACAddr(info[h], i - 1)]
OutPort(h, packet) ==
    LET k == SelectInSeq(PortMacs(h), LAMBDA mac : mac = <<packet.src_mac>>)
    IN  IF k = 0 THEN 0 ELSE k - 1
OutPortFails(h, packet) ==
    LET k == SelectInSeq(PortMacs(h), LAMBDA mac : mac \in {<<>>, <<packet.src_mac>>})
    IN  k # 0 /\ PortMacs(h)[k] = <<>>

\* Slip of sendPacket: the packet does not go through the wire.
sendPacket_direct(h, port, packet, time) ==
    IF ~running[h] THEN <<>>
    ELSE <<[kind |-> "PACKET_FROM_PORT", wire |-> hostPorts[h][port + 1], to |-> "Link",
            end |-> 1, wakeup |-> time, packet |-> packet]>>

sendPacket(h, port, packet, time) ==
    IF ~running[h] THEN <<>>
    ELSE <<[kind |-> "PACKET_TO_PORT", wire |-> hostPorts[h][port + 1], from |-> h,
            wakeup |-> time, packet |-> packet]>>

\* What sendPacketToModule puts into the event queue.
sendPacketToModule(h, from, to, packet, time) ==
    IF to = "Host" THEN sendPacket(h, OutPort(h, packet), packet, time)
    ELSE IF to \notin hostModules[h] THEN <<>>
    ELSE <<PacketPass(h, from, to, packet, time)>>
-----------------------------------------------------------------------------
(* Ethernet *)

ip_broadcasts == {<<255, 255, 255, 255>>, <<224, 0, 0, 5>>, <<224, 0, 0, 6>>}

\* Slip of Typed: the type is left as it was.
Typed_not(packet, type) == packet

Typed(packet, type) == [packet EXCEPT !.ethertype = type]

\* The frame for a packet of IPv4, if the addresses are known.
Framed(h, packet) ==
    LET dst == Destination(packet)
        broadcast == dst \in ip_broadcasts
        port == getRoutingTable(info[h], IF broadcast THEN Source(packet) ELSE dst)
        src_mac == getMACAddr(info[h], port)
        dst_mac == IF broadcast THEN <<BroadcastMac>> ELSE getARPTable(info[h], dst)
    IN  IF src_mac = <<>> \/ dst_mac = <<>> THEN <<>>
        ELSE <<[Typed(packet, "IPv4") EXCEPT !.src_mac = src_mac[1], !.dst_mac = dst_mac[1]]>>

\* The messages Ethernet::packetArrived sends, and whether it fails.
EthernetArrived(h, from, packet, time) ==
    IF from = "Host" THEN sendPacketToModule(h, "Ethernet", packet.ethertype, packet, time)
    ELSE IF from = "IPv4"
      THEN LET frame == Framed(h, packet)
           IN  IF frame = <<>> THEN <<>>
               ELSE sendPacketToModule(h, "Ethernet", "Host", frame[1], time)
    ELSE IF from = "IPv6"
      THEN sendPacketToModule(h, "Ethernet", "Host", Typed(packet, "IPv6"), time)
    ELSE <<>>
EthernetFails(h, from, packet) ==
    \/ from = "Host" /\ packet.ethertype \notin {"IPv4", "IPv6"}
    \/ from = "IPv4" /\ Framed(h, packet) # <<>> /\ OutPortFails(h, Framed(h, packet)[1])
    \/ from = "IPv6" /\ OutPortFails(h, packet)
-----------------------------------------------------------------------------
(* IPv4 *)

Protocols == [TCP |-> PROTO_TCP, UDP |-> 17, OSPF |-> 89]

\* The header without its checksum; the addresses are there already.
BareHeader(h, from, packet) ==
    <<69, 0>> \o Bytes(packet.size - 14) \o Bytes(identification[h])
    \o <<64, 0, 64, Protocols[from], 0, 0>> \o Source(packet) \o Destination(packet)

\* Slip of Header: the checksum is the sum, not its complement.
Header_sum(bare) == SubSeq(bare, 1, 10) \o Bytes(one_sum(bare)) \o SubSeq(bare, 13, 20)

Header(bare) ==
    SubSeq(bare, 1, 10) \o Bytes(Complement(one_sum(bare))) \o SubSeq(bare, 13, 20)

\* Slip of HeaderAccepted: the sum of the checksum's complement is expected.
HeaderAccepted_zero(header) == one_sum(header) = 0

HeaderAccepted(header) == one_sum(header) \in {65535, 0}

Dispatched(h, packet, time) ==
    LET to == {name \in DOMAIN Protocols : Protocols[name] = packet.header[10]}
    IN  IF to = {} THEN <<>>
        ELSE sendPacketToModule(h, "IPv4", CHOOSE name \in to : TRUE, packet, time)

\* The messages IPv4::packetArrived sends, and whether it fails.
IPv4Arrived(h, from, packet, time) ==
    IF from = "Ethernet"
      THEN IF HeaderAccepted(packet.header) THEN Dispatched(h, packet, time) ELSE <<>>
    ELSE IF from \in DOMAIN Protocols
      THEN sendPacketToModule(h, "IPv4", "Ethernet",
               [packet EXCEPT !.header = Header(BareHeader(h, from, packet))], time)
    ELSE <<>>
IPv4Fails(from, packet) ==
    \/ from = "Ethernet" /\ packet.ethertype # "IPv4"
    \/ from \in DOMAIN Protocols /\ packet.size < 34
    \/ from \notin DOMAIN Protocols \cup {"Ethernet"}
-----------------------------------------------------------------------------
(* Events of a host *)

\* A packet comes in from a wire.
hostReceives(m) ==
    LET h == pending[m].to
    IN  /\ Receive(m, "PACKET_FROM_PORT")
        /\ h \in Hosts
        /\ Post(Others(m),
                IF ~isRunning(h) THEN <<>>
                ELSE sendPacketToModule(h, "Host", "Ethernet", pending[m].packet, now'))
        /\ UNCHANGED <<stackVars, aborted>>

\* The header of a packet from the network fails its check; an assertion fails, or
\* a port has no MAC address.
WrongHeader(message) ==
    /\ isRunning(message.host) /\ message.to = "IPv4" /\ message.from = "Ethernet"
    /\ ~HeaderAccepted(message.packet.header)
Fails(message) ==
    /\ isRunning(message.host)
    /\ \/ message.to = "Ethernet" /\ EthernetFails(message.host, message.from, message.packet)
       \/ message.to = "IPv4" /\ IPv4Fails(message.from, message.packet)

\* A PacketPass reaches its module, if the host still runs.
passPacket(m) ==
    LET message == pending[m]
        h == message.host
        live == isRunning(h)
        at(module) == live /\ message.to = module
    IN  /\ Receive(m, "PacketPass")
        /\ Post(Others(m),
                IF at("Ethernet") THEN EthernetArrived(h, message.from, message.packet, now')
                ELSE IF at("IPv4") THEN IPv4Arrived(h, message.from, message.packet, now')
                ELSE <<>>)
        /\ identification' = [identification EXCEPT ![h] =
                IF at("IPv4") /\ message.from \in DOMAIN Protocols
                  THEN (@ + 1) % 65536 ELSE @]
        /\ received' = [received EXCEPT ![h] =
                IF live /\ message.to \in DOMAIN Protocols
                  THEN Append(@, message.packet) ELSE @]
        /\ rejected' = (rejected \/ WrongHeader(message))
        /\ aborted' = Fails(message)
        /\ UNCHANGED <<running, info>>

\* A module above IPv4 sends a packet (external: TCP, OSPF).  It has written the
\* addresses, and TCP its checksum.
ProtocolSends(h, module, packet) ==
    /\ Post(pending, sendPacketToModule(h, module, "IPv4", packet, now))
    /\ UNCHANGED <<now, stackVars, aborted>>

\* cleanUp, as far as packets are concerned (system calls: module Host).
cleanUp(h) ==
    /\ running' = [running EXCEPT ![h] = FALSE]
    /\ UNCHANGED <<queueVars, info, identification, received, rejected, aborted>>

\* One of the setters of RoutingInfo has changed the tables of a host.
Configure(h, tables) ==
    /\ info' = [info EXCEPT ![h] = tables]
    /\ UNCHANGED <<queueVars, running, identification, received, rejected, aborted>>
=============================================================================
