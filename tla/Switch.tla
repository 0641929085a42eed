------------------------------- MODULE Switch -------------------------------
(***************************************************************************)
(* What a Hub (src/Networking/E_Hub.cpp) and a Switch                      *)
(* (src/Networking/E_Switch.cpp) do with a packet that arrives: choose the *)
(* ports and, in an unreliable switch, damage some of the copies.  The     *)
(* copies go out through the queues of Link.                               *)
(***************************************************************************)
EXTENDS Link

CONSTANTS
    Devices,       \* kinds of devices: "Hub", "Switch"
    unreliable,    \* of a Switch
    mac_table,     \* port |-> the MAC addresses entered with addMACEntry
    Broadcast,     \* the MAC address FF:FF:FF:FF:FF:FF
    Draws          \* values of the uniform distribution over [0, 1), in percent

VARIABLES
    device,        \* which of the two it is
    drop_base      \* in percent

SwitchInit == device \in Devices /\ drop_base = 100

\* One step of the schedule: 90, 80, ..., 10 and then 1 for ever.
NextDropBase(base) == IF base < 15 THEN 1 ELSE base - 10

\* The value of drop_base for the k-th copy of a packet.
DropBase == LET after[k \in 0 .. Ports] ==
                  IF k = 0 THEN drop_base ELSE NextDropBase(after[k - 1])
            IN  after

\* A damaged copy: the first four bytes behind the TCP header are overwritten, or
\* the checksum of a segment without data (the integers are little-endian).
Damaged(packet) ==
    IF packet.size >= 58
      THEN [packet EXCEPT !.data = IF @ # <<238, 238, 238, 238>>
                                     THEN <<238, 238, 238, 238>>
                                     ELSE <<239, 238, 238, 238>>,
                          !.damaged = TRUE]
    ELSE IF packet.size >= 54
      THEN [packet EXCEPT !.checksum = IF @ # <<238, 238>> THEN <<238, 238>>
                                       ELSE <<239, 238>>,
                          !.damaged = TRUE]
    ELSE packet

\* Slip of Known: the table is not looked at.
Known_flood(in, packet) == ports \ {in}

\* The other ports the destination is known at.
Known(in, packet) ==
    {w \in ports \ {in} : packet.dst_mac = Broadcast \/ packet.dst_mac \in mac_table[w]}

Flooded(in, packet) == [w \in ports \ {in} |-> packet]

\* The place of a port among the ports a packet is copied to.
Place(w, outs) == Cardinality({v \in outs : v <= w})

packetArrived(queue, in, packet) ==
    /\ UNCHANGED device
    /\ LET outs == Known(in, packet)
       IN  IF device = "Hub" \/ outs = {}
             THEN sendPackets(queue, Flooded(in, packet)) /\ UNCHANGED drop_base
           ELSE IF ~unreliable
             THEN sendPackets(queue, [w \in outs |-> packet]) /\ UNCHANGED drop_base
           ELSE \E val \in [outs -> Draws] :
                  /\ sendPackets(queue, [w \in outs |->
                        IF val[w] < DropBase[Place(w, outs)] THEN Damaged(packet)
                        ELSE packet])
                  /\ drop_base' = DropBase[Cardinality(outs)]
=============================================================================
