-------------------------------- MODULE Link --------------------------------
(***************************************************************************)
(* Output queuing in a network device, E::Link                             *)
(* (src/Networking/E_Link.cpp): a queue per port, the CHECK_QUEUE message  *)
(* that takes packets out of it at the speed of the link, eviction from a  *)
(* full queue.  Link leaves packetArrived to Hub and Switch: here a packet *)
(* may be copied to any of the other ports.  A packet is its number in the *)
(* order of arrival and its size.                                          *)
(***************************************************************************)
EXTENDS Messages, FiniteSets

CONSTANTS
    Ports,        \* number of ports
    Sizes,        \* sizes of packets
    Speeds,       \* time to send a unit of size (0: no limit)
    QueueSizes,   \* values of max_queue_length (0: no limit)
    ShrinkBelow,  \* may setQueueSize ask for less than is queued
    MaxPackets,   \* bound: number of packets
    Horizon       \* bound: time of the last arrival

ASSUME LinkAssumption ==
    /\ Ports \in Nat \ {0}
    /\ Sizes \subseteq Nat
    /\ Speeds \subseteq Nat
    /\ QueueSizes \subseteq Nat
    /\ ShrinkBelow \in BOOLEAN
    /\ MaxPackets \in Nat
    /\ Horizon \in Nat

VARIABLES
    outputQueue,            \* packets of every port
    nextAvailable,          \* when a port is free again
    bps,                    \* the speed, as an element of Speeds
    max_queue_length,
    arrived,                \* number of packets that arrived
    delivered,              \* history: what every wire received, and when
    aborted                 \* an assertion failed

portVars == <<outputQueue, nextAvailable>>
vars == <<queueVars, portVars, bps, max_queue_length, arrived, delivered, aborted>>

ports == 1 .. Ports

Init ==
    /\ EmptyQueue
    /\ outputQueue = [w \in ports |-> <<>>]
    /\ nextAvailable = [w \in ports |-> 0]
    /\ bps \in Speeds
    /\ max_queue_length = 0
    /\ arrived = 0
    /\ delivered = [w \in ports |-> <<>>]
    /\ aborted = FALSE

\* Slip of Later: the second time is not looked at.
Later_first(s, t) == s

Later(s, t) == IF s > t THEN s ELSE t

\* Messages: CHECK_QUEUE to the link itself and PACKET_TO_PORT to a wire.
CheckQueue(w, time) == [kind |-> "CHECK_QUEUE", wire |-> w, wakeup |-> time]
PacketToPort(w, packet, delay) ==
    [kind |-> "PACKET_TO_PORT", wire |-> w, from |-> "Link", wakeup |-> now' + delay,
     packet |-> packet, delay |-> delay]
-----------------------------------------------------------------------------
(* sendPacket *)

Full(w) == max_queue_length # 0 /\ Len(outputQueue[w]) >= max_queue_length

\* Slip of Victims: the whole queue may be hit, the packet at its head included.
Victims_any == 1 .. max_queue_length

\* Positions in a full queue that the random choice may hit.
Victims == max_queue_length \div 2 + 1 .. max_queue_length

\* The queue without the packet at one position.
Erased(queue, i) == SubSeq(queue, 1, i - 1) \o SubSeq(queue, i + 1, Len(queue))

\* What the queue of a port may be once there is room.
MadeRoom(w) ==
    IF Full(w) THEN {Erased(outputQueue[w], i) : i \in Victims}
    ELSE {outputQueue[w]}

\* Slip of Armed: the timer is set for every packet.
Armed_always(queue) == TRUE

\* A port whose queue was empty before gets a CHECK_QUEUE.
Armed(queue) == Len(queue) = 1

\* Slip of Enqueue: at the wrong end.
Enqueue_front(queue, packet) == <<packet>> \o queue

Enqueue(queue, packet) == Append(queue, packet)

\* The ports of a set in their order.
InOrderOf(list, set) ==
    /\ \A i, j \in DOMAIN list : i < j => list[i] < list[j]
    /\ \A w \in set : \E i \in DOMAIN list : list[i] = w

\* packetArrived: the copies (port |-> packet) go to their output queues, in the
\* order of the ports; queue is what is left in the event queue.
sendPackets(queue, copies) ==
    LET outs == DOMAIN copies IN
    \E room \in [outs -> UNION {MadeRoom(w) : w \in outs}] :
        LET filled == [w \in outs |-> Enqueue(room[w], copies[w])]
            armed == {w \in outs : Armed(filled[w])}
        IN  /\ \A w \in outs : room[w] \in MadeRoom(w)
            /\ aborted' = \E w \in outs :
                  max_queue_length # 0 /\ Len(room[w]) >= max_queue_length
            /\ outputQueue' = [w \in ports |->
                  IF w \in outs THEN filled[w] ELSE outputQueue[w]]
            /\ \E list \in [1 .. Cardinality(armed) -> armed] :
                  /\ InOrderOf(list, armed)
                  /\ Post(queue, [i \in DOMAIN list |->
                        CheckQueue(list[i], Later(now', nextAvailable[list[i]]))])
    /\ UNCHANGED <<nextAvailable, bps, max_queue_length>>

\* A packet comes in through a port, before the next event of the link.
Arrival ==
    /\ ~aborted
    /\ arrived < MaxPackets
    /\ \E time \in now .. Horizon :
         /\ \A m \in DOMAIN pending : time <= pending[m].wakeup
         /\ now' = time

Packet(size) == [number |-> arrived + 1, size |-> size]
-----------------------------------------------------------------------------
(* messageReceived *)

\* Slip of Available: the port is free at once.
Available_now(delay) == now'

\* When the port can take the next packet.
Available(delay) == now' + delay

\* CHECK_QUEUE: send the head of the queue if the port is free.  (If it is not,
\* nothing is done, and nothing will be until the queue has been emptied.)
checkQueue(m) ==
    LET w == pending[m].wire
        queue == outputQueue[w]
        delay == Head(queue).size * bps
    IN  /\ ~aborted
        /\ Receive(m, "CHECK_QUEUE")
        /\ IF queue = <<>>
             THEN /\ aborted' = TRUE
                  /\ Post(Others(m), <<>>)
                  /\ UNCHANGED portVars
             ELSE IF now' < nextAvailable[w]
             THEN /\ Post(Others(m), <<>>)
                  /\ UNCHANGED <<portVars, aborted>>
             ELSE /\ outputQueue' = [outputQueue EXCEPT ![w] = Tail(queue)]
                  /\ nextAvailable' = [nextAvailable EXCEPT ![w] = Available(delay)]
                  /\ Post(Others(m),
                          <<PacketToPort(w, Head(queue), delay)>>
                          \o IF Len(queue) > 1 THEN <<CheckQueue(w, Available(delay))>>
                             ELSE <<>>)
                  /\ UNCHANGED aborted
        /\ UNCHANGED <<bps, max_queue_length, arrived, delivered>>

\* The wire receives a packet.
portReceives(m) ==
    LET message == pending[m]
    IN  /\ ~aborted
        /\ Receive(m, "PACKET_TO_PORT")
        /\ delivered' = [delivered EXCEPT ![message.wire] =
              Append(@, [number |-> message.packet.number, at |-> now',
                         delay |-> message.delay])]
        /\ Post(Others(m), <<>>)
        /\ UNCHANGED <<portVars, bps, max_queue_length, arrived, aborted>>
-----------------------------------------------------------------------------
setLinkSpeed(speed) ==
    /\ ~aborted
    /\ bps' = speed
    /\ UNCHANGED <<queueVars, portVars, max_queue_length, arrived, delivered,
                   aborted>>

\* The program that builds the network sets the size; ShrinkBelow says whether it
\* may go below what is queued already.
setQueueSize(size) ==
    /\ ~aborted
    /\ ShrinkBelow \/ size = 0 \/ \A w \in ports : Len(outputQueue[w]) <= size
    /\ max_queue_length' = size
    /\ UNCHANGED <<queueVars, portVars, bps, arrived, delivered, aborted>>

\* A Hub or a Switch copies the packet to some of the other ports.
arrival ==
    /\ Arrival
    /\ \E in \in ports, size \in Sizes :
         \E outs \in SUBSET (ports \ {in}) :
             sendPackets(pending, [w \in outs |-> Packet(size)])
    /\ arrived' = arrived + 1
    /\ UNCHANGED delivered

handle == \E m \in DOMAIN pending : checkQueue(m) \/ portReceives(m)

Next ==
    \/ arrival
    \/ handle
    \/ \E speed \in Speeds : setLinkSpeed(speed)
    \/ \E size \in QueueSizes : setQueueSize(size)

Spec == Init /\ [][Next]_vars

\* The event loop goes on (DueIsProcessed of System).
FairSpec == Spec /\ WF_vars(handle)
-----------------------------------------------------------------------------
(* Properties *)

\* The assertions of Link hold: CHECK_QUEUE never finds an empty queue
\* (E_Link.cpp:37) and there is room when a packet is queued (E_Link.cpp:133).
NoAbort == ~aborted

\* A port is neither forgotten nor served twice: exactly one CHECK_QUEUE is on
\* its way to a port with queued packets and none to an empty one, and it does
\* not come before the port is free, where it would be dropped.
OneCheckEach ==
    \A w \in ports :
        /\ Cardinality(MessagesOf("CHECK_QUEUE", w)) =
              IF outputQueue[w] = <<>> THEN 0 ELSE 1
        /\ \A m \in MessagesOf("CHECK_QUEUE", w) : pending[m].wakeup >= nextAvailable[w]

\* The numbers of the packets of a port: received by the wire, being transmitted,
\* queued.
Numbers(packets) == {packets[i].number : i \in DOMAIN packets}
InTransit(w) == {pending[m].packet.number : m \in MessagesOf("PACKET_TO_PORT", w)}

Ascending(packets) ==
    \A i, j \in DOMAIN packets : i < j => packets[i].number < packets[j].number
Before(S, T) == \A s \in S, t \in T : s < t

\* No port reorders or duplicates packets, whatever is evicted and however the
\* speed changes on the way.
Fifo ==
    \A w \in ports :
        /\ Ascending(delivered[w]) /\ Ascending(outputQueue[w])
        /\ \A m, n \in MessagesOf("PACKET_TO_PORT", w) :
             Queue!Earlier(m, n) => pending[m].packet.number < pending[n].packet.number
        /\ Before(Numbers(delivered[w]), InTransit(w) \cup Numbers(outputQueue[w]))
        /\ Before(InTransit(w), Numbers(outputQueue[w]))

\* A port sends one packet at a time: between the ends of two transmissions lies
\* at least the time the second one takes.
LineRate ==
    \A w \in ports : \A i \in 2 .. Len(delivered[w]) :
        delivered[w][i].at - delivered[w][i - 1].at >= delivered[w][i].delay

\* The packet at the head of a queue, whose transmission CHECK_QUEUE announces,
\* leaves the queue only by being sent.
HeadIsSent ==
    [][\A w \in ports :
          outputQueue[w] # <<>> /\ (outputQueue'[w] = <<>> \/
                                   Head(outputQueue'[w]) # Head(outputQueue[w]))
            => \E m \in DOMAIN pending' \ DOMAIN pending :
                  /\ pending'[m].kind = "PACKET_TO_PORT"
                  /\ pending'[m].packet = Head(outputQueue[w])]_vars

\* Every queue runs empty once no more packets come (their number is bounded):
\* no port is left with packets that nobody sends.
QueuesDrain == \A w \in ports : outputQueue[w] # <<>> ~> outputQueue[w] = <<>>
=============================================================================
