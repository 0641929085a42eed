-------------------------------- MODULE Wire --------------------------------
(***************************************************************************)
(* A two-ended wire, E::Wire (src/Networking/E_Wire.cpp): a packet that    *)
(* one end hands over with PACKET_TO_PORT comes out at the other end as    *)
(* PACKET_FROM_PORT, after the transmission of the packets before it in    *)
(* the same direction, its own transmission and the propagation delay.     *)
(* The program may change speed, delay and limit while packets are on the  *)
(* wire.                                                                   *)
(***************************************************************************)
EXTENDS Messages

CONSTANTS
    Wires,         \* the wires
    connected,     \* the modules at the two ends, connected[w][0] and [w][1]
    NoModule,      \* ModuleID 0: nothing is connected
    WireSpeeds,    \* values of bps: time to send a unit of size (0: no limit)
    PropDelays     \* values of propagationDelay

\* What the constants are.
WireAssumption == WireSpeeds \subseteq Nat /\ PropDelays \subseteq Nat

VARIABLES
    wireAvailable,     \* nextAvailable: when a direction (0 or 1) is free again
    wireSpeed,         \* bps
    propagationDelay,
    limit_speed,
    shortened          \* history: a setting was changed that lets packets overtake

settings == <<wireSpeed, propagationDelay, limit_speed, shortened>>
wireVars == <<wireAvailable, settings>>
vars == <<queueVars, wireVars>>

WireInit ==
    /\ wireAvailable = [w \in Wires |-> [d \in 0 .. 1 |-> 0]]
    /\ wireSpeed \in [Wires -> WireSpeeds]
    /\ propagationDelay \in [Wires -> PropDelays]
    /\ limit_speed \in [Wires -> BOOLEAN]
    /\ shortened = [w \in Wires |-> FALSE]

Init == EmptyQueue /\ WireInit
-----------------------------------------------------------------------------
\* The direction in which a packet of this module goes (-1: not our neighbour).
destination(w, from) ==
    IF connected[w][0] = from THEN 1 ELSE IF connected[w][1] = from THEN 0 ELSE -1

Unconnected(w, from) ==
    destination(w, from) = -1 \/ connected[w][destination(w, from)] = NoModule

\* Slip of StartsAt: a packet does not wait for the ones before it.
StartsAt_now(w, d) == now'

\* When the wire can start to transmit.
StartsAt(w, d) == IF now' > wireAvailable[w][d] THEN now' ELSE wireAvailable[w][d]

PacketFromPort(w, d, packet, wakeup) ==
    [kind |-> "PACKET_FROM_PORT", wire |-> w, to |-> connected[w][d], end |-> d,
     wakeup |-> wakeup, packet |-> packet]

\* Slip of ArrivesAt: the transmissions before it do not delay a packet.
ArrivesAt_unqueued(w, d, trans_delay) == now' + trans_delay + propagationDelay[w]

ArrivesAt(w, d, trans_delay) ==
    IF limit_speed[w] THEN StartsAt(w, d) + trans_delay + propagationDelay[w]
    ELSE now' + propagationDelay[w]

\* messageReceived: a packet of a module that is not connected is dropped.
wireReceives(m) ==
    LET w == pending[m].wire
        d == destination(w, pending[m].from)
        trans_delay == pending[m].packet.size * wireSpeed[w]
    IN  /\ Receive(m, "PACKET_TO_PORT")
        /\ IF Unconnected(w, pending[m].from)
             THEN Post(Others(m), <<>>) /\ UNCHANGED wireAvailable
             ELSE /\ wireAvailable' =
                        [wireAvailable EXCEPT ![w][d] = StartsAt(w, d) + trans_delay]
                  /\ Post(Others(m),
                          <<PacketFromPort(w, d, pending[m].packet,
                                           ArrivesAt(w, d, trans_delay))>>)
        /\ UNCHANGED settings
-----------------------------------------------------------------------------
(* The setters.  shortened records the two changes that put a packet ahead of *)
(* the ones on the wire.                                                      *)

setWireSpeed(w, bps) ==
    /\ wireSpeed' = [wireSpeed EXCEPT ![w] = bps]
    /\ UNCHANGED <<queueVars, wireAvailable, propagationDelay, limit_speed, shortened>>

setPropagationDelay(w, delay) ==
    /\ propagationDelay' = [propagationDelay EXCEPT ![w] = delay]
    /\ shortened' = [shortened EXCEPT ![w] = @ \/ delay < propagationDelay[w]]
    /\ UNCHANGED <<queueVars, wireAvailable, wireSpeed, limit_speed>>

setSpeedLimit(w, do_limit) ==
    /\ limit_speed' = [limit_speed EXCEPT ![w] = do_limit]
    /\ shortened' = [shortened EXCEPT ![w] = @ \/ (limit_speed[w] /\ ~do_limit)]
    /\ UNCHANGED <<queueVars, wireAvailable, wireSpeed, propagationDelay>>
-----------------------------------------------------------------------------
(* The modules around the wires *)

\* A message somebody else puts into the event queue: only a wire sends
\* PACKET_FROM_PORT.
Foreign(message) ==
    /\ message.kind # "PACKET_FROM_PORT"
    /\ message.wakeup \in Nat
    /\ message.wakeup >= now'
    /\ message.kind = "PACKET_TO_PORT" =>
          message.wire \in Wires /\ message.packet.size \in Nat

\* The messages in queue stay, others join them.
Joined(queue) ==
    /\ sent' \in Nat /\ sent' >= sent
    /\ DOMAIN pending' \subseteq 1 .. sent'
    /\ \A n \in DOMAIN queue : n \in DOMAIN pending' /\ pending'[n] = queue[n]
    /\ \A n \in DOMAIN pending' \ DOMAIN queue : n > sent /\ Foreign(pending'[n])

\* The program acts between two events, or another module receives a message.
otherActs ==
    /\ Joined(pending)
    /\ UNCHANGED <<now, wireVars>>
otherReceives(m) ==
    /\ pending[m].kind # "PACKET_TO_PORT"
    /\ Receive(m, pending[m].kind)
    /\ Joined(Others(m))
    /\ UNCHANGED wireVars

Next ==
    \/ otherActs
    \/ \E m \in DOMAIN pending : wireReceives(m) \/ otherReceives(m)
    \/ \E w \in Wires, bps \in WireSpeeds : setWireSpeed(w, bps)
    \/ \E w \in Wires, delay \in PropDelays : setPropagationDelay(w, delay)
    \/ \E w \in Wires, do_limit \in BOOLEAN : setSpeedLimit(w, do_limit)

Spec == Init /\ [][Next]_vars
-----------------------------------------------------------------------------
(* Properties *)

OnWire(w, d) == {m \in MessagesOf("PACKET_FROM_PORT", w) : pending[m].end = d}

\* Packets come out of a wire in the order in which they went in, in each
\* direction (E_Wire.hpp:21, "delayed packets are queued"), unless the propagation
\* delay was lowered or the speed limit lifted on the way.  A change of the speed
\* alone lets no packet overtake another.
WireFifo ==
    \A w \in Wires : ~shortened[w] =>
        \A d \in 0 .. 1 : \A m, n \in OnWire(w, d) :
            m < n => pending[m].wakeup <= pending[n].wakeup

\* Why: no packet is still on the wire when one that came later would get there.
Bounded ==
    \A w \in Wires : ~shortened[w] =>
        \A d \in 0 .. 1 : \A m \in OnWire(w, d) :
            \/ pending[m].wakeup <= now + propagationDelay[w]
            \/ /\ limit_speed[w]
               /\ pending[m].wakeup <= wireAvailable[w][d] + propagationDelay[w]
=============================================================================
