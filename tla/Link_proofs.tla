----------------------------- MODULE Link_proofs ----------------------------
(***************************************************************************)
(* The timers of a Link match its queues, its assertions hold, and packets *)
(* leave it in order and at the line rate, for any number of ports, any    *)
(* speeds and sizes and any queue lengths other than 1, when no queue is   *)
(* longer than a limit that is set.                                        *)
(***************************************************************************)
EXTENDS Link, TLAPS, FiniteSetTheorems, SequenceTheorems

\* Most steps are first-order logic, and Zenon finds them; those with numbers say SMT.
USE ZenonT(30)

\* The run link_one shows that length 1 fails; so does a limit below what is queued.
SafeSizes == 1 \notin QueueSizes /\ ~ShrinkBelow

Packets == [number : Nat, size : Nat]
Receipts == [number : Nat, at : Nat, delay : Nat]
Checks(w) == MessagesOf("CHECK_QUEUE", w)
Transit(w) == MessagesOf("PACKET_TO_PORT", w)

QueueOK ==
    /\ now \in Nat
    /\ sent \in Nat
    /\ DOMAIN pending \subseteq 1 .. sent
    /\ \A m \in DOMAIN pending :
         /\ pending[m].wakeup \in Nat
         /\ pending[m].wakeup >= now
         /\ pending[m].wire \in ports

PortsOK ==
    /\ outputQueue \in [ports -> Seq(Packets)]
    /\ nextAvailable \in [ports -> Nat]
    /\ bps \in Nat
    /\ max_queue_length \in Nat \ {1}
    /\ arrived \in Nat
    /\ delivered \in [ports -> Seq(Receipts)]

\* No queue is longer than allowed, so one eviction makes room.
WithinLimit == \A w \in ports : max_queue_length # 0 => Len(outputQueue[w]) <= max_queue_length

\* OneCheckEach without counting.
Timers(w) ==
    /\ \A m, n \in Checks(w) : m = n
    /\ Checks(w) = {} <=> outputQueue[w] = <<>>
    /\ \A m \in Checks(w) : pending[m].wakeup >= nextAvailable[w]

\* One packet is being transmitted at most, until the port is free, and the CHECK_QUEUE
\* of the next one comes after it even when their times are the same.
OneAtATime(w) ==
    /\ \A m, n \in Transit(w) : m = n
    /\ \A m \in Transit(w) :
         /\ pending[m].packet \in Packets /\ pending[m].delay \in Nat
         /\ pending[m].wakeup = nextAvailable[w]
    /\ \A m \in Transit(w), n \in Checks(w) : m < n

\* Fifo, element by element; the packets to come have higher numbers.
OrderOK(w) ==
    /\ Ascending(delivered[w]) /\ Ascending(outputQueue[w])
    /\ \A i \in DOMAIN delivered[w] : delivered[w][i].number <= arrived
    /\ \A j \in DOMAIN outputQueue[w] :
         /\ outputQueue[w][j].number <= arrived
         /\ \A i \in DOMAIN delivered[w] : delivered[w][i].number < outputQueue[w][j].number
         /\ \A m \in Transit(w) : pending[m].packet.number < outputQueue[w][j].number
    /\ \A m \in Transit(w) :
         /\ pending[m].packet.number <= arrived
         /\ \A i \in DOMAIN delivered[w] : delivered[w][i].number < pending[m].packet.number

\* LineRate, and a transmission begins when the ones before it are over.
RateOK(w) ==
    /\ \A i \in 2 .. Len(delivered[w]) :
         delivered[w][i].at - delivered[w][i - 1].at >= delivered[w][i].delay
    /\ \A i \in DOMAIN delivered[w] :
         /\ delivered[w][i].at <= nextAvailable[w]
         /\ \A m \in Transit(w) : delivered[w][i].at + pending[m].delay <= pending[m].wakeup

WayOK(w) == OneAtATime(w) /\ OrderOK(w) /\ RateOK(w)

Inv ==
    /\ QueueOK /\ PortsOK /\ WithinLimit /\ NoAbort
    /\ \A w \in ports : Timers(w) /\ WayOK(w)

\* HeadIsSent as a relation between two states.
HeadSent(w) ==
    outputQueue[w] # <<>> /\ (outputQueue'[w] = <<>> \/
                             Head(outputQueue'[w]) # Head(outputQueue[w]))
      => \E m \in DOMAIN pending' \ DOMAIN pending :
            /\ pending'[m].kind = "PACKET_TO_PORT"
            /\ pending'[m].packet = Head(outputQueue[w])
-----------------------------------------------------------------------------
\* What eviction leaves of a queue.
LEMMA ErasedShortens ==
    ASSUME NEW S, NEW s \in Seq(S), NEW i \in 1 .. Len(s)
    PROVE  /\ Erased(s, i) \in Seq(S) /\ Len(Erased(s, i)) = Len(s) - 1
           /\ \A j \in 1 .. Len(s) - 1 :
                Erased(s, i)[j] = IF j < i THEN s[j] ELSE s[j + 1]
<1> DEFINE front == SubSeq(s, 1, i - 1)
           back == SubSeq(s, i + 1, Len(s))
<1>1. /\ front \in Seq(S) /\ Len(front) = i - 1
      /\ \A j \in 1 .. i - 1 : front[j] = s[j]
  BY SubSeqProperties, SMT
<1>2. /\ back \in Seq(S) /\ Len(back) = Len(s) - i
      /\ \A j \in 1 .. Len(s) - i : back[j] = s[i + j]
  BY SubSeqProperties, SMT
<1>3. Erased(s, i) = front \o back
  BY DEF Erased
<1>4. Len(s) \in Nat /\ i \in Int
  BY LenProperties, SMT
<1> HIDE DEF front, back
<1>5. /\ front \o back \in Seq(S) /\ Len(front \o back) = Len(front) + Len(back)
      /\ \A j \in 1 .. Len(front) + Len(back) :
           (front \o back)[j] = IF j <= Len(front) THEN front[j] ELSE back[j - Len(front)]
  BY <1>1, <1>2, ConcatProperties
<1>6. Len(front) + Len(back) = Len(s) - 1
  BY <1>1, <1>2, <1>4, SMT
<1>7. ASSUME NEW j \in 1 .. Len(s) - 1
      PROVE  (front \o back)[j] = IF j < i THEN s[j] ELSE s[j + 1]
  <2>1. (front \o back)[j] = IF j <= i - 1 THEN front[j] ELSE back[j - (i - 1)]
    BY <1>1, <1>5, <1>6
  <2>2. CASE j < i
    <3>1. j \in 1 .. i - 1 /\ j <= i - 1
      BY <1>4, <2>2, SMT
    <3> QED BY <1>1, <2>1, <2>2, <3>1
  <2>3. CASE ~(j < i)
    <3>1. ~(j <= i - 1) /\ j - (i - 1) \in 1 .. Len(s) - i /\ i + (j - (i - 1)) = j + 1
      BY <1>4, <2>3, SMT
    <3> QED BY <1>2, <2>1, <2>3, <3>1
  <2> QED BY <2>2, <2>3
<1>8. \A j \in 1 .. Len(s) - 1 : Erased(s, i)[j] = IF j < i THEN s[j] ELSE s[j + 1]
  BY <1>3, <1>7
<1> QED BY <1>3, <1>5, <1>6, <1>8

\* What is left of a queue when its head is sent.
LEMMA HeadAndTail ==
    ASSUME NEW q \in Seq(Packets), q # <<>>
    PROVE  /\ Head(q) \in Packets /\ Tail(q) \in Seq(Packets)
           /\ Len(Tail(q)) = Len(q) - 1 /\ Len(q) \in Nat \ {0}
           /\ Tail(q) = <<>> <=> Len(q) = 1
           /\ Head(q) = q[1] /\ \A j \in 1 .. Len(q) - 1 : Tail(q)[j] = q[j + 1]
<1>1. /\ Head(q) \in Packets /\ Tail(q) \in Seq(Packets) /\ Len(Tail(q)) = Len(q) - 1
      /\ \A j \in 1 .. Len(q) - 1 : Tail(q)[j] = q[j + 1]
  BY HeadTailProperties
<1>2. Len(q) \in Nat \ {0}
  BY EmptySeq
<1>3. Tail(q) = <<>> <=> Len(Tail(q)) = 0
  BY <1>1, EmptySeq
<1>4. Len(q) - 1 = 0 <=> Len(q) = 1
  BY <1>2, SMT
<1>5. Head(q) = q[1]
  BY SMT
<1> QED BY <1>1, <1>2, <1>3, <1>4, <1>5

\* There is room for one more packet, and a queue of packets does not become empty:
\* its head stays, and the order of the rest.
LEMMA RoomIsMade ==
    ASSUME Inv, NEW w \in ports, NEW room \in MadeRoom(w)
    PROVE  /\ room \in Seq(Packets)
           /\ max_queue_length # 0 => Len(room) < max_queue_length
           /\ Len(room) = 0 <=> outputQueue[w] = <<>>
           /\ Len(room) # 0 => room[1] = outputQueue[w][1]
           /\ \A j \in DOMAIN room : \E i \in DOMAIN outputQueue[w] : room[j] = outputQueue[w][i]
           /\ Ascending(outputQueue[w]) => Ascending(room)
<1>1. /\ outputQueue[w] \in Seq(Packets) /\ max_queue_length \in Nat \ {1}
      /\ max_queue_length # 0 => Len(outputQueue[w]) <= max_queue_length
  BY DEF Inv, PortsOK, WithinLimit
<1>2. Len(outputQueue[w]) \in Nat /\ (Len(outputQueue[w]) = 0 <=> outputQueue[w] = <<>>)
  BY <1>1, EmptySeq, SMT
<1>3. CASE Full(w)
  <2>1. PICK i \in Victims : room = Erased(outputQueue[w], i)
    BY <1>3 DEF MadeRoom
  <2>2. Len(outputQueue[w]) = max_queue_length /\ max_queue_length > 1
    BY <1>1, <1>2, <1>3, SMT DEF Full
  <2>3. i \in 1 .. Len(outputQueue[w]) /\ i > 1
    BY <1>1, <2>1, <2>2, SMT DEF Victims
  <2>4. room \in Seq(Packets) /\ Len(room) = Len(outputQueue[w]) - 1
        /\ \A j \in 1 .. Len(outputQueue[w]) - 1 :
             room[j] = IF j < i THEN outputQueue[w][j] ELSE outputQueue[w][j + 1]
    BY <1>1, <2>1, <2>3, ErasedShortens
  <2> DEFINE old(j) == IF j < i THEN j ELSE j + 1
  <2>5. DOMAIN room = 1 .. Len(outputQueue[w]) - 1 /\ DOMAIN outputQueue[w] = 1 .. Len(outputQueue[w])
    BY <1>1, <2>4, LenProperties
  <2>6. \A j \in DOMAIN room : old(j) \in DOMAIN outputQueue[w] /\ room[j] = outputQueue[w][old(j)]
    BY <1>2, <2>3, <2>4, <2>5, SMT
  <2>7. \A j, l \in DOMAIN room : j < l => old(j) < old(l)
    BY <1>2, <2>3, <2>5, SMT
  <2> HIDE DEF old
  <2>8. Ascending(outputQueue[w]) => Ascending(room)
    BY <2>6, <2>7 DEF Ascending
  <2>9. room[1] = outputQueue[w][1]
    BY <1>1, <2>2, <2>3, <2>4, SMT
  <2> QED BY <1>1, <1>2, <2>2, <2>4, <2>6, <2>8, <2>9, SMT
<1>4. CASE ~Full(w)
  <2>1. room = outputQueue[w]
    BY <1>4 DEF MadeRoom
  <2>2. max_queue_length # 0 => Len(room) < max_queue_length
    BY <1>1, <1>2, <1>4, <2>1, SMT DEF Full
  <2> QED BY <1>1, <1>2, <2>1, <2>2
<1> QED BY <1>3, <1>4

\* The message received is the earliest of all, so the clock does not pass any.
LEMMA ReceiveMovesClock ==
    ASSUME QueueOK, NEW m \in DOMAIN pending, NEW kind, Receive(m, kind)
    PROVE  /\ now' \in Nat /\ now' >= now /\ now' = pending[m].wakeup
           /\ pending[m].kind = kind
           /\ \A n \in DOMAIN pending : pending[n].wakeup >= now'
BY SMT DEF QueueOK, Receive, Queue!IsEarliest, Queue!Queued, Queue!Earlier

\* What a step that does not touch a port leaves as it was.
LEMMA UntouchedPort ==
    ASSUME NEW w, WayOK(w), Transit(w)' = Transit(w), Checks(w)' \subseteq Checks(w),
           \A n \in Transit(w) : pending'[n] = pending[n],
           outputQueue'[w] = outputQueue[w], nextAvailable'[w] = nextAvailable[w],
           delivered'[w] = delivered[w], arrived' = arrived
    PROVE  WayOK(w)'
<1>1. OneAtATime(w)'
  BY DEF WayOK, OneAtATime
<1>2. OrderOK(w)'
  BY DEF WayOK, OrderOK, Ascending
<1>3. RateOK(w)'
  BY DEF WayOK, RateOK
<1> QED BY <1>1, <1>2, <1>3 DEF WayOK

LEMMA InitEstablishes == Init => Inv
<1> SUFFICES ASSUME Init PROVE Inv
  OBVIOUS
<1>1. now = 0 /\ sent = 0 /\ DOMAIN pending = {}
  BY DEF Init, EmptyQueue
<1>2. QueueOK
  BY <1>1 DEF QueueOK
<1>3. PortsOK
  BY LinkAssumption, EmptySeq, SMT DEF Init, PortsOK
<1>4. WithinLimit
  BY DEF Init, WithinLimit
<1>5. \A w \in ports : Timers(w)
  BY <1>1 DEF Init, Timers, Checks, MessagesOf
<1>6. NoAbort
  BY DEF Init, NoAbort
<1>7. ASSUME NEW w \in ports
      PROVE  WayOK(w)
  <2>1. Transit(w) = {} /\ delivered[w] = <<>> /\ outputQueue[w] = <<>>
    BY <1>1 DEF Init, Transit, MessagesOf
  <2> QED BY <2>1, SMT DEF WayOK, OneAtATime, OrderOK, RateOK, Ascending
<1> QED BY <1>2, <1>3, <1>4, <1>5, <1>6, <1>7 DEF Inv

\* What an arrival comes to: a copy of the packet is appended to the queues of outs, in
\* which there is room now, and new messages, one each, go to the ports of outs whose
\* queues were empty.
Timer(w) == CheckQueue(w, Later(now', nextAvailable[w]))
New == DOMAIN pending' \ DOMAIN pending

Fills(outs, room, packet) ==
    /\ outs \subseteq ports /\ packet \in Packets /\ packet.number = arrived + 1
    /\ now' \in Nat /\ now' >= now /\ arrived' = arrived + 1
    /\ \A n \in DOMAIN pending : now' <= pending[n].wakeup
    /\ UNCHANGED <<nextAvailable, bps, max_queue_length, delivered>>
    /\ outputQueue' = [w \in ports |->
          IF w \in outs THEN Append(room[w], packet) ELSE outputQueue[w]]
    /\ \A w \in outs : room[w] \in MadeRoom(w)
    /\ aborted' = \E w \in outs : max_queue_length # 0 /\ Len(room[w]) >= max_queue_length
    /\ sent' \in Nat /\ DOMAIN pending' \subseteq 1 .. sent'
    /\ \A n \in DOMAIN pending : n \in DOMAIN pending' /\ pending'[n] = pending[n]
    /\ \A n \in New : n > sent /\ \E w \in outs : outputQueue[w] = <<>> /\ pending'[n] = Timer(w)
    /\ \A w \in outs : outputQueue[w] = <<>> => \E n \in New : pending'[n] = Timer(w)
    /\ \A n, l \in New : pending'[n].wire = pending'[l].wire => n = l

LEMMA ArrivalFills ==
    ASSUME Inv, arrival
    PROVE  \E outs, room, packet : Fills(outs, room, packet)
<1>1. /\ now' \in Nat /\ now' >= now /\ arrived' = arrived + 1 /\ delivered' = delivered
      /\ \A m \in DOMAIN pending : now' <= pending[m].wakeup
  BY LinkAssumption, SMT DEF arrival, Arrival, Inv, QueueOK
<1>2. PICK size \in Sizes, outs \in SUBSET ports :
         sendPackets(pending, [w \in outs |-> Packet(size)])
  BY DEF arrival
<1>3. Packet(size) \in Packets /\ Packet(size).number = arrived + 1
  BY <1>2, LinkAssumption, SMT DEF Packet, Packets, Inv, PortsOK
<1> DEFINE packet == Packet(size)
           copies == [w \in outs |-> packet]
           filled(room) == [w \in DOMAIN copies |-> Enqueue(room[w], copies[w])]
           armed(room) == {w \in DOMAIN copies : Armed(filled(room)[w])}
           timer(w) == CheckQueue(w, Later(now', nextAvailable[w]))
<1>3a. sendPackets(pending, copies) /\ DOMAIN copies = outs /\ \A w \in outs : copies[w] = packet
  BY <1>2
<1>3b. packet \in Packets
  BY <1>3
<1>3d. packet.number = arrived + 1
  BY <1>3
<1> HIDE DEF copies, packet
<1>3c. PICK room \in [DOMAIN copies -> UNION {MadeRoom(w) : w \in DOMAIN copies}] :
         /\ \A w \in DOMAIN copies : room[w] \in MadeRoom(w)
         /\ aborted' = \E w \in DOMAIN copies :
               max_queue_length # 0 /\ Len(room[w]) >= max_queue_length
         /\ outputQueue' = [w \in ports |->
               IF w \in DOMAIN copies THEN filled(room)[w] ELSE outputQueue[w]]
         /\ \E list \in [1 .. Cardinality(armed(room)) -> armed(room)] :
               /\ InOrderOf(list, armed(room))
               /\ Post(pending, [i \in DOMAIN list |-> timer(list[i])])
  BY <1>3a DEF sendPackets
<1>4. /\ \A w \in outs : room[w] \in MadeRoom(w)
      /\ aborted' = \E w \in outs :
            max_queue_length # 0 /\ Len(room[w]) >= max_queue_length
      /\ outputQueue' = [w \in ports |->
            IF w \in outs THEN filled(room)[w] ELSE outputQueue[w]]
      /\ \A w \in outs : filled(room)[w] = Append(room[w], packet)
      /\ armed(room) = {w \in outs : Len(filled(room)[w]) = 1}
  BY <1>3a, <1>3c DEF Enqueue, Armed
<1>5. UNCHANGED <<nextAvailable, bps, max_queue_length>>
  BY <1>2 DEF sendPackets
<1> HIDE DEF armed, filled, timer
<1>6. \A w \in outs : /\ room[w] \in Seq(Packets)
                      /\ Len(room[w]) = 0 <=> outputQueue[w] = <<>>
  BY <1>2, <1>4, RoomIsMade
<1>7. \A w \in outs : outputQueue'[w] = Append(room[w], packet)
  BY <1>2, <1>4
<1>9. \A w \in outs : /\ outputQueue'[w] \in Seq(Packets)
                      /\ Len(outputQueue'[w]) = Len(room[w]) + 1
                      /\ outputQueue'[w] # <<>>
  <2>1. \A q \in Seq(Packets) : /\ Append(q, packet) \in Seq(Packets)
                                /\ Len(Append(q, packet)) = Len(q) + 1
                                /\ Append(q, packet) # <<>>
    BY <1>3b, AppendProperties, SMT
  <2>2. \A w \in outs : room[w] \in Seq(Packets)
    BY <1>6
  <2> QED BY <1>7, <2>1, <2>2
<1>10. \A w \in outs : w \in armed(room) <=> outputQueue[w] = <<>>
  <2>1. \A w \in outs : w \in armed(room) <=> Len(outputQueue'[w]) = 1
    BY <1>4, <1>7
  <2>2. \A w \in outs : Len(room[w]) \in Nat
    BY <1>6, LenProperties
  <2>3. \A w \in outs : Len(room[w]) + 1 = 1 <=> Len(room[w]) = 0
    BY <2>2, SMT
  <2> QED BY <1>6, <1>9, <2>1, <2>3
<1>11. PICK list \in [1 .. Cardinality(armed(room)) -> armed(room)] :
          /\ InOrderOf(list, armed(room))
          /\ Post(pending, [i \in DOMAIN list |-> timer(list[i])])
  BY <1>3c
<1>12. Cardinality(armed(room)) \in Nat
  <2>1. IsFiniteSet(ports)
    BY LinkAssumption, FS_Interval, SMT DEF ports
  <2>2. armed(room) \in SUBSET ports
    BY <1>2, <1>4
  <2> QED BY <2>1, <2>2, FS_Subset, FS_CardinalityType
<1> DEFINE k == Cardinality(armed(room))
           new == [i \in DOMAIN list |-> timer(list[i])]
<1>13. Len(new) = k
  BY <1>11, <1>12, SMT
<1>14. /\ sent' = sent + k
       /\ DOMAIN pending' = DOMAIN pending \cup (sent + 1 .. sent + k)
       /\ \A n \in DOMAIN pending : pending'[n] = pending[n]
       /\ \A i \in 1 .. k : pending'[sent + i] = timer(list[i])
  <2>1. /\ sent' = sent + k
        /\ pending' = [n \in DOMAIN pending \cup (sent + 1 .. sent + k) |->
                         IF n > sent THEN new[n - sent] ELSE pending[n]]
    BY <1>11, <1>13 DEF Post
  <2>2. DOMAIN pending \subseteq 1 .. sent /\ sent \in Nat
    BY DEF Inv, QueueOK
  <2>3. \A i \in 1 .. k : new[i] = timer(list[i])
    BY <1>11
  <2> HIDE DEF new, k
  <2>4. k \in Nat
    BY <1>12 DEF k
  <2> QED BY <2>1, <2>2, <2>3, <2>4, SMT
<1>15. \A w \in ports : /\ timer(w).kind = "CHECK_QUEUE" /\ timer(w).wire = w
                        /\ timer(w).wakeup \in Nat
                        /\ timer(w).wakeup >= now' /\ timer(w).wakeup >= nextAvailable[w]
  BY <1>1, SMT DEF timer, CheckQueue, Later, Inv, PortsOK
<1>16. armed(room) \subseteq outs /\ outs \subseteq ports
  BY <1>2, <1>4
<1>17. \A i \in 1 .. k : list[i] \in armed(room) /\ list[i] \in ports
  BY <1>11, <1>16
<1>18. /\ \A i, j \in 1 .. k : i # j => list[i] # list[j]
       /\ \A w \in armed(room) : \E i \in 1 .. k : list[i] = w
  <2>1. \A i, j \in 1 .. k : i < j => list[i] < list[j]
    BY <1>11 DEF InOrderOf
  <2>2. \A i \in 1 .. k : list[i] \in Nat
    BY <1>17, LinkAssumption, SMT DEF ports
  <2>3. \A w \in armed(room) : \E i \in 1 .. k : list[i] = w
    BY <1>11 DEF InOrderOf
  <2> HIDE DEF k
  <2>4. k \in Nat
    BY <1>12 DEF k
  <2> QED BY <2>1, <2>2, <2>3, <2>4, SMT
<1> HIDE DEF k, new
<1>19. k \in Nat /\ sent \in Nat /\ DOMAIN pending \subseteq 1 .. sent
  BY <1>12 DEF k, Inv, QueueOK
\* A message is an old one or the timer of some armed port.
<1>20. \A n \in DOMAIN pending' :
          \/ n \in DOMAIN pending /\ pending'[n] = pending[n]
          \/ \E i \in 1 .. k : n = sent + i /\ pending'[n] = timer(list[i])
  <2> SUFFICES ASSUME NEW n \in DOMAIN pending', n \notin DOMAIN pending
               PROVE  \E i \in 1 .. k : n = sent + i /\ pending'[n] = timer(list[i])
    BY <1>14
  <2>1. n - sent \in 1 .. k /\ n = sent + (n - sent)
    BY <1>14, <1>19, SMT
  <2> QED BY <1>14, <2>1
<1>21. ASSUME NEW n \in New
       PROVE  n > sent /\ \E w \in outs : outputQueue[w] = <<>> /\ pending'[n] = timer(w)
  <2>1. PICK i \in 1 .. k : n = sent + i /\ pending'[n] = timer(list[i])
    BY <1>20 DEF New
  <2> QED BY <1>10, <1>16, <1>17, <1>19, <2>1, SMT
<1>22. ASSUME NEW w \in outs, outputQueue[w] = <<>>
       PROVE  \E n \in New : pending'[n] = timer(w)
  <2>1. PICK i \in 1 .. k : list[i] = w
    BY <1>10, <1>18, <1>22
  <2>2. sent + i \in New
    BY <1>14, <1>19, SMT DEF New
  <2> QED BY <1>14, <2>1, <2>2
<1>23. ASSUME NEW n \in New, NEW l \in New, pending'[n].wire = pending'[l].wire
       PROVE  n = l
  <2>1. PICK i \in 1 .. k : n = sent + i /\ pending'[n] = timer(list[i])
    BY <1>20 DEF New
  <2>2. PICK j \in 1 .. k : l = sent + j /\ pending'[l] = timer(list[j])
    BY <1>20 DEF New
  <2>3. list[i] = list[j]
    BY <1>15, <1>17, <1>23, <2>1, <2>2
  <2> QED BY <1>18, <2>1, <2>2, <2>3
<1>24. sent' \in Nat /\ DOMAIN pending' \subseteq 1 .. sent'
  BY <1>14, <1>19, SMT
<1>25. outputQueue' = [w \in ports |-> IF w \in outs THEN Append(room[w], packet) ELSE outputQueue[w]]
  BY <1>4
<1>26. \A w \in ports : timer(w) = Timer(w)
  BY DEF timer, Timer
<1>27. /\ \A n \in New : n > sent /\ \E w \in outs : outputQueue[w] = <<>> /\ pending'[n] = Timer(w)
       /\ \A w \in outs : outputQueue[w] = <<>> => \E n \in New : pending'[n] = Timer(w)
  BY <1>16, <1>21, <1>22, <1>26
<1>28. \A n \in DOMAIN pending : n \in DOMAIN pending' /\ pending'[n] = pending[n]
  BY <1>14
<1>29. \A w \in outs : room[w] \in MadeRoom(w)
  BY <1>4
<1>30. aborted' = \E w \in outs : max_queue_length # 0 /\ Len(room[w]) >= max_queue_length
  BY <1>4
<1> HIDE DEF timer, armed
<1>31. Fills(outs, room, packet)
  BY <1>1, <1>3b, <1>3d, <1>5, <1>16, <1>23, <1>24, <1>25, <1>27, <1>28, <1>29, <1>30 DEF Fills
<1> QED BY <1>31

\* The queues stay within their limit and the assertion of sendPacket holds.
LEMMA FillsKeepsQueues ==
    ASSUME Inv, NEW outs, NEW room, NEW packet, Fills(outs, room, packet)
    PROVE  QueueOK' /\ PortsOK' /\ WithinLimit' /\ NoAbort'
<1>1. /\ outs \subseteq ports /\ packet \in Packets
      /\ UNCHANGED <<nextAvailable, bps, max_queue_length, delivered>>
  BY DEF Fills
<1>2. ASSUME NEW w \in outs
      PROVE  /\ room[w] \in Seq(Packets) /\ Len(room[w]) \in Nat
             /\ max_queue_length # 0 => Len(room[w]) < max_queue_length
  <2>1. room[w] \in MadeRoom(w) /\ w \in ports
    BY DEF Fills
  <2> QED BY <2>1, RoomIsMade, LenProperties
<1>3. outputQueue' = [w \in ports |-> IF w \in outs THEN Append(room[w], packet) ELSE outputQueue[w]]
  BY DEF Fills
<1>4. QueueOK'
  <2>1. ASSUME NEW n \in DOMAIN pending'
        PROVE  pending'[n].wakeup \in Nat /\ pending'[n].wakeup >= now' /\ pending'[n].wire \in ports
    <3>1. CASE n \in DOMAIN pending
      BY <3>1 DEF Fills, Inv, QueueOK
    <3>2. CASE n \in New
      <4>1. PICK w \in outs : pending'[n] = Timer(w)
        BY <3>2 DEF Fills
      <4>2. now' \in Nat /\ nextAvailable[w] \in Nat /\ w \in ports
        BY <1>1 DEF Fills, Inv, PortsOK
      <4> QED BY <4>1, <4>2, SMT DEF Timer, CheckQueue, Later
    <3> QED BY <3>1, <3>2 DEF New
  <2>2. now' \in Nat /\ sent' \in Nat /\ DOMAIN pending' \subseteq 1 .. sent'
    BY DEF Fills
  <2> QED BY <2>1, <2>2 DEF QueueOK, ports
<1>5. PortsOK'
  <2>1. \A w \in outs : Append(room[w], packet) \in Seq(Packets)
    BY <1>1, <1>2, AppendProperties
  <2>2. outputQueue \in [ports -> Seq(Packets)]
    BY DEF Inv, PortsOK
  <2>3. outputQueue' \in [ports -> Seq(Packets)]
    BY <1>3, <2>1, <2>2
  <2>4. arrived' \in Nat
    BY SMT DEF Fills, Inv, PortsOK
  <2> QED BY <1>1, <2>3, <2>4 DEF Inv, PortsOK, ports
<1>6. WithinLimit'
  <2> SUFFICES ASSUME NEW w \in ports, max_queue_length # 0
               PROVE  Len(outputQueue'[w]) <= max_queue_length
    BY <1>1 DEF WithinLimit, ports
  <2>1. CASE w \in outs
    <3>1. outputQueue'[w] = Append(room[w], packet)
      BY <1>3, <2>1
    <3>2. Len(outputQueue'[w]) = Len(room[w]) + 1
      BY <1>1, <1>2, <2>1, <3>1, AppendProperties, SMT
    <3> QED BY <1>2, <2>1, <3>2, SMT DEF Inv, PortsOK
  <2>2. CASE w \notin outs
    BY <1>3, <2>2 DEF Inv, WithinLimit
  <2> QED BY <2>1, <2>2
<1>7. NoAbort'
  <2>1. aborted' = \E w \in outs : max_queue_length # 0 /\ Len(room[w]) >= max_queue_length
    BY DEF Fills
  <2>2. \A w \in outs : max_queue_length # 0 => ~(Len(room[w]) >= max_queue_length)
    BY <1>2, SMT DEF Inv, PortsOK
  <2> QED BY <2>1, <2>2 DEF NoAbort
<1> QED BY <1>4, <1>5, <1>6, <1>7

\* A timer is set for exactly the ports whose queues were empty.
LEMMA FillsKeepsTimers ==
    ASSUME Inv, NEW outs, NEW room, NEW packet, Fills(outs, room, packet), NEW w \in ports
    PROVE  Timers(w)'
<1>1. /\ outs \subseteq ports /\ nextAvailable' = nextAvailable
      /\ \A n \in DOMAIN pending : n \in DOMAIN pending' /\ pending'[n] = pending[n]
      /\ now' \in Nat
  BY DEF Fills
<1>2. \A v \in ports : /\ Timer(v).kind = "CHECK_QUEUE" /\ Timer(v).wire = v
                        /\ Timer(v).wakeup >= nextAvailable[v]
  BY <1>1, SMT DEF Timer, CheckQueue, Later, Inv, PortsOK
<1>3. Timers(w)
  BY DEF Inv
<1>4. w \in outs => outputQueue'[w] # <<>>
  <2> SUFFICES ASSUME w \in outs
               PROVE  outputQueue'[w] # <<>>
    OBVIOUS
  <2>1. outputQueue'[w] = Append(room[w], packet) /\ room[w] \in MadeRoom(w) /\ packet \in Packets
    BY DEF Fills
  <2>2. room[w] \in Seq(Packets)
    BY <2>1, RoomIsMade
  <2> QED BY <2>1, <2>2, AppendProperties, SMT
<1>5. CASE w \in outs /\ outputQueue[w] = <<>>
  <2>1. Checks(w) = {}
    BY <1>3, <1>5 DEF Timers
  <2>2. PICK i \in New : pending'[i] = Timer(w)
    BY <1>5 DEF Fills
  <2>3. i \in Checks(w)'
    BY <1>2, <2>2 DEF New, Checks, MessagesOf
  <2>4. \A n \in Checks(w)' : n \in New /\ pending'[n].wire = w
    BY <1>1, <2>1 DEF New, Checks, MessagesOf
  <2>5. \A n \in Checks(w)' : n = i
    <3>1. \A n, l \in New : pending'[n].wire = pending'[l].wire => n = l
      BY DEF Fills
    <3> QED BY <1>2, <2>2, <2>4, <3>1, SMT
  <2>6. \A n \in Checks(w)' : pending'[n].wakeup >= nextAvailable'[w]
    BY <1>1, <1>2, <2>2, <2>5
  <2> QED BY <1>4, <1>5, <2>3, <2>5, <2>6 DEF Timers
<1>6. CASE ~(w \in outs /\ outputQueue[w] = <<>>)
  <2>1. \A n \in New : pending'[n].wire # w
    BY <1>1, <1>2, <1>6, SMT DEF Fills
  <2>2. Checks(w)' = Checks(w) /\ \A n \in Checks(w) : pending'[n] = pending[n]
    BY <1>1, <2>1 DEF New, Checks, MessagesOf
  <2>3. w \notin outs => outputQueue'[w] = outputQueue[w]
    BY DEF Fills
  <2> QED BY <1>1, <1>3, <1>4, <1>6, <2>2, <2>3 DEF Timers
<1> QED BY <1>5, <1>6

\* The new packet has the highest number and goes to the end; the head stays.
LEMMA FillsKeepsWay ==
    ASSUME Inv, NEW outs, NEW room, NEW packet, Fills(outs, room, packet), NEW w \in ports
    PROVE  WayOK(w)' /\ HeadSent(w)
<1>1. /\ nextAvailable' = nextAvailable /\ delivered' = delivered /\ arrived' = arrived + 1
      /\ \A n \in DOMAIN pending : n \in DOMAIN pending' /\ pending'[n] = pending[n]
      /\ w \notin outs => outputQueue'[w] = outputQueue[w]
  BY DEF Fills
<1>2. WayOK(w) /\ arrived \in Nat /\ outputQueue[w] \in Seq(Packets)
  BY DEF Inv, PortsOK
<1>3. \A n \in New : n > sent /\ pending'[n].kind = "CHECK_QUEUE"
  <2>1. \A n \in New : n > sent /\ \E v \in outs : pending'[n] = Timer(v)
    BY DEF Fills
  <2>2. \A v : Timer(v).kind = "CHECK_QUEUE"
    BY DEF Timer, CheckQueue
  <2> QED BY <2>1, <2>2
<1>4. Transit(w)' = Transit(w) /\ \A n \in Transit(w) : pending'[n] = pending[n]
  BY <1>1, <1>3 DEF New, Transit, MessagesOf
<1>5. /\ \A i \in DOMAIN delivered[w] : delivered[w][i].number \in Nat
      /\ \A i \in DOMAIN outputQueue[w] : outputQueue[w][i].number \in Nat
      /\ \A n \in Transit(w) : pending[n].packet.number \in Nat
  <2>1. delivered[w] \in Seq(Receipts)
    BY DEF Inv, PortsOK
  <2>2. \A i \in DOMAIN delivered[w] : delivered[w][i] \in Receipts
    BY <2>1, SMT
  <2>3. \A i \in DOMAIN outputQueue[w] : outputQueue[w][i] \in Packets
    BY <1>2, SMT
  <2>4. \A n \in Transit(w) : pending[n].packet \in Packets
    BY <1>2 DEF WayOK, OneAtATime
  <2> QED BY <2>2, <2>3, <2>4 DEF Packets, Receipts
<1>6. /\ \A i \in DOMAIN delivered[w] : delivered[w][i].number <= arrived
      /\ \A i \in DOMAIN outputQueue[w] : outputQueue[w][i].number <= arrived
      /\ \A n \in Transit(w) : pending[n].packet.number <= arrived
  BY <1>2 DEF WayOK, OrderOK
<1>7. OneAtATime(w)'
  <2>1. \A n \in Checks(w)' : n \in Checks(w) \/ n > sent
    BY <1>1, <1>3 DEF New, Checks, MessagesOf
  <2>2. \A n \in Transit(w) : n <= sent /\ n \in Nat
    BY SMT DEF Transit, MessagesOf, Inv, QueueOK
  <2>3. sent \in Nat /\ \A n \in Checks(w)' : n \in Nat
    BY SMT DEF Checks, MessagesOf, Fills, Inv, QueueOK
  <2>4. \A n \in Transit(w), c \in Checks(w)' : n < c
    BY <1>2, <2>1, <2>2, <2>3, SMT DEF WayOK, OneAtATime
  <2> QED BY <1>1, <1>2, <1>4, <2>4 DEF WayOK, OneAtATime
<1>8. RateOK(w)'
  BY <1>1, <1>2, <1>4 DEF WayOK, RateOK
<1>9. \A a \in Nat : a <= arrived => a <= arrived + 1 /\ a < arrived + 1
  BY <1>2, SMT
<1>10. CASE w \in outs
  <2> DEFINE q == outputQueue'[w]
             l == Len(room[w])
  <2>1. /\ q = Append(room[w], packet) /\ room[w] \in MadeRoom(w)
        /\ packet \in Packets /\ packet.number = arrived + 1
    BY <1>10 DEF Fills
  <2>2. /\ room[w] \in Seq(Packets)
        /\ l = 0 <=> outputQueue[w] = <<>>
        /\ l # 0 => room[w][1] = outputQueue[w][1]
        /\ \A j \in DOMAIN room[w] :
             \E i \in DOMAIN outputQueue[w] : room[w][j] = outputQueue[w][i]
        /\ Ascending(outputQueue[w]) => Ascending(room[w])
    BY <2>1, RoomIsMade
  <2>3. /\ DOMAIN room[w] = 1 .. l /\ l \in Nat
        /\ DOMAIN q = 1 .. l + 1 /\ q[l + 1] = packet
        /\ \A j \in 1 .. l : q[j] = room[w][j]
        /\ q # <<>>
    BY <2>1, <2>2, AppendProperties, LenProperties, SMT
  <2>4. Ascending(room[w])
    BY <1>2, <2>2 DEF WayOK, OrderOK
  <2> HIDE DEF q, l
  <2>5. \A j \in DOMAIN q : j \in 1 .. l \/ j = l + 1
    BY <2>3, SMT
  <2>6. \A j \in 1 .. l : \E i \in DOMAIN outputQueue[w] : q[j] = outputQueue[w][i]
    BY <2>2, <2>3
  <2>7. \A j \in 1 .. l : q[j].number \in Nat /\ q[j].number <= arrived
    BY <1>5, <1>6, <2>6
  <2>8. Ascending(q)
    <3> SUFFICES ASSUME NEW i \in DOMAIN q, NEW j \in DOMAIN q, i < j
                 PROVE  q[i].number < q[j].number
      BY DEF Ascending
    <3>1. i \in 1 .. l
      BY <2>3, SMT
    <3>2. CASE j \in 1 .. l
      BY <2>3, <2>4, <3>1, <3>2 DEF Ascending
    <3>3. CASE j = l + 1
      BY <1>9, <2>1, <2>3, <2>7, <3>1, <3>3
    <3> QED BY <2>5, <3>2, <3>3
  <2>9. ASSUME NEW j \in DOMAIN q
        PROVE  /\ q[j].number <= arrived + 1
               /\ \A i \in DOMAIN delivered[w] : delivered[w][i].number < q[j].number
               /\ \A n \in Transit(w) : pending[n].packet.number < q[j].number
    <3>1. CASE j = l + 1
      <4>1. q[j].number = arrived + 1
        BY <2>1, <2>3, <3>1
      <4> QED BY <1>2, <1>5, <1>6, <1>9, <4>1, SMT
    <3>2. CASE j \in 1 .. l
      <4>1. PICK i \in DOMAIN outputQueue[w] : q[j] = outputQueue[w][i]
        BY <2>6, <3>2
      <4> QED BY <1>2, <1>5, <1>6, <1>9, <4>1 DEF WayOK, OrderOK
    <3> QED BY <2>5, <3>1, <3>2
  <2>10. OrderOK(w)'
    BY <1>1, <1>2, <1>4, <1>5, <1>6, <1>9, <2>8, <2>9 DEF WayOK, OrderOK, q, Ascending
  <2>11. HeadSent(w)
    <3> SUFFICES ASSUME outputQueue[w] # <<>>
                 PROVE  q # <<>> /\ q[1] = outputQueue[w][1]
      BY SMT DEF HeadSent, q
    <3>1. 1 \in 1 .. l /\ l # 0
      BY <2>2, <2>3, SMT
    <3> QED BY <2>2, <2>3, <3>1
  <2> QED BY <1>7, <1>8, <2>10, <2>11 DEF WayOK
<1>11. CASE w \notin outs
  <2>1. OrderOK(w)'
    BY <1>1, <1>2, <1>4, <1>5, <1>9, <1>11 DEF WayOK, OrderOK, Ascending
  <2>2. HeadSent(w)
    BY <1>1, <1>11 DEF HeadSent
  <2> QED BY <1>7, <1>8, <2>1, <2>2 DEF WayOK
<1> QED BY <1>10, <1>11

LEMMA ArrivalPreserves ==
    ASSUME Inv, arrival
    PROVE  Inv' /\ \A w \in ports : HeadSent(w)
<1>1. PICK outs, room, packet : Fills(outs, room, packet)
  BY ArrivalFills
<1>2. QueueOK' /\ PortsOK' /\ WithinLimit' /\ NoAbort'
  BY <1>1, FillsKeepsQueues
<1>3. \A w \in ports : Timers(w)'
  BY <1>1, FillsKeepsTimers
<1>4. \A w \in ports : WayOK(w)' /\ HeadSent(w)
  BY <1>1, FillsKeepsWay
<1> QED BY <1>2, <1>3, <1>4 DEF Inv, ports

\* The packet that a wire receives is the only one of its port on the way; its
\* transmission ends now, and the port is free.
LEMMA PortReceivesPreserves ==
    ASSUME Inv, NEW m \in DOMAIN pending, portReceives(m)
    PROVE  Inv' /\ \A v \in ports : HeadSent(v)
<1> DEFINE w == pending[m].wire
           receipt == [number |-> pending[m].packet.number, at |-> now',
                       delay |-> pending[m].delay]
<1>1. Receive(m, "PACKET_TO_PORT") /\ Post(Others(m), <<>>)
      /\ delivered' = [delivered EXCEPT ![w] = Append(delivered[w], receipt)]
      /\ UNCHANGED <<portVars, bps, max_queue_length, arrived, aborted>>
  BY DEF portReceives
<1>2. /\ now' \in Nat /\ pending[m].kind = "PACKET_TO_PORT" /\ now' = pending[m].wakeup
      /\ \A n \in DOMAIN pending : pending[n].wakeup >= now'
  BY <1>1, ReceiveMovesClock DEF Inv
<1>3. /\ sent' = sent /\ DOMAIN pending' = DOMAIN pending \ {m}
      /\ \A n \in DOMAIN pending' : pending'[n] = pending[n]
  BY <1>1, SMT DEF Post, Others, Inv, QueueOK
<1>4. QueueOK'
  BY <1>2, <1>3 DEF Inv, QueueOK, ports
<1>5. /\ w \in ports /\ m \in Transit(w) /\ WayOK(w)
      /\ delivered \in [ports -> Seq(Receipts)]
  BY <1>2 DEF Inv, PortsOK, QueueOK, Transit, MessagesOf
<1>6. receipt \in Receipts
  BY <1>2, <1>5 DEF WayOK, OneAtATime, Packets, Receipts
<1>7. PortsOK' /\ WithinLimit'
  <2>1. delivered' \in [ports -> Seq(Receipts)]
    <3>1. Append(delivered[w], receipt) \in Seq(Receipts)
      BY <1>5, <1>6, AppendProperties
    <3> HIDE DEF receipt
    <3> QED BY <1>1, <1>5, <3>1
  <2> QED BY <1>1, <2>1 DEF Inv, PortsOK, WithinLimit, portVars, ports
<1>8. NoAbort'
  BY <1>1 DEF Inv, NoAbort
<1>9. outputQueue' = outputQueue /\ nextAvailable' = nextAvailable /\ arrived' = arrived
  BY <1>1 DEF portVars
<1>10. ASSUME NEW v \in ports
       PROVE  Timers(v)' /\ Checks(v)' = Checks(v)
  <2>1. Checks(v)' = Checks(v) /\ \A n \in Checks(v) : pending'[n] = pending[n]
    BY <1>2, <1>3 DEF Checks, MessagesOf
  <2> QED BY <1>9, <2>1 DEF Inv, Timers
<1>11. ASSUME NEW v \in ports, v # w
       PROVE  WayOK(v)'
  <2>1. Transit(v)' = Transit(v) /\ \A n \in Transit(v) : pending'[n] = pending[n]
    BY <1>2, <1>3, <1>11 DEF Transit, MessagesOf
  <2>2. delivered'[v] = delivered[v]
    BY <1>1, <1>5, <1>11
  <2>3. WayOK(v)
    BY DEF Inv
  <2> QED BY <1>9, <1>10, <2>1, <2>2, <2>3, UntouchedPort
<1>12. ASSUME NEW v, v = w
       PROVE  WayOK(v)'
  <2> DEFINE d == delivered[v]
             e == delivered'[v]
             l == Len(d)
             q == outputQueue[v]
  <2>1. Transit(v)' = {}
    BY <1>3, <1>5, <1>12, SMT DEF WayOK, OneAtATime, Transit, MessagesOf
  <2>2. e = Append(d, receipt) /\ d \in Seq(Receipts)
    BY <1>1, <1>5, <1>12
  <2>3. /\ DOMAIN d = 1 .. l /\ l \in Nat /\ DOMAIN e = 1 .. l + 1 /\ Len(e) = l + 1
        /\ e[l + 1] = receipt /\ \A i \in 1 .. l : e[i] = d[i] /\ d[i] \in Receipts
    BY <1>6, <2>2, AppendProperties, LenProperties, ElementOfSeq, SMT
  <2>4. /\ receipt.number = pending[m].packet.number /\ receipt.at = now'
        /\ receipt.delay = pending[m].delay
    OBVIOUS
  <2>5. /\ now' = nextAvailable[v] /\ pending[m].delay \in Nat
        /\ pending[m].packet.number \in Nat
    BY <1>2, <1>5, <1>12 DEF WayOK, OneAtATime, Packets
  <2> HIDE DEF e, l, receipt
  <2>6. OneAtATime(v)'
    BY <2>1 DEF OneAtATime
  <2>7. /\ \A i \in 1 .. l : d[i].number < pending[m].packet.number
        /\ pending[m].packet.number <= arrived
        /\ \A i \in 1 .. l : d[i].number <= arrived
        /\ \A j \in DOMAIN q : q[j].number <= arrived
        /\ \A j \in DOMAIN q : pending[m].packet.number < q[j].number
        /\ \A j \in DOMAIN q, i \in 1 .. l : d[i].number < q[j].number
        /\ Ascending(d) /\ Ascending(q)
    BY <1>5, <1>12, <2>3 DEF WayOK, OrderOK
  <2>8. OrderOK(v)'
    <3>1. \A i \in 1 .. l + 1 : i \in 1 .. l \/ i = l + 1
      BY <2>3, SMT
    <3>2. Ascending(e)
      <4> SUFFICES ASSUME NEW i \in DOMAIN e, NEW j \in DOMAIN e, i < j
                   PROVE  e[i].number < e[j].number
        BY DEF Ascending
      <4>1. i \in 1 .. l
        BY <2>3, SMT
      <4>2. CASE j \in 1 .. l
        BY <2>3, <2>7, <4>1, <4>2 DEF Ascending
      <4>3. CASE j = l + 1
        BY <2>3, <2>4, <2>7, <4>1, <4>3
      <4> QED BY <2>3, <4>2, <4>3, SMT
    <3>3. \A i \in DOMAIN e : e[i].number <= arrived
      BY <2>3, <2>4, <2>7, <3>1
    <3>4. \A j \in DOMAIN q, i \in DOMAIN e : e[i].number < q[j].number
      BY <2>3, <2>4, <2>7, <3>1
    <3> QED BY <1>9, <2>1, <2>7, <3>2, <3>3, <3>4 DEF OrderOK, Ascending, e
  <2>9. RateOK(v)'
    <3>1. \A i \in 1 .. l : d[i].at + pending[m].delay <= now' /\ d[i].at \in Nat
      BY <1>2, <1>5, <1>12, <2>3 DEF WayOK, RateOK, Receipts
    <3>2. \A i \in 2 .. l : d[i].at - d[i - 1].at >= d[i].delay
      BY <1>5, <1>12 DEF WayOK, RateOK, l
    <3>3. ASSUME NEW i \in 2 .. Len(e)
          PROVE  e[i].at - e[i - 1].at >= e[i].delay
      <4>1. CASE i = l + 1
        <5>1. i - 1 \in 1 .. l /\ e[i - 1] = d[i - 1]
          BY <2>3, <4>1, SMT
        <5> QED BY <1>2, <2>3, <2>4, <2>5, <3>1, <4>1, <5>1, SMT
      <4>2. CASE i \in 2 .. l
        <5>1. i \in 1 .. l /\ i - 1 \in 1 .. l
          BY <2>3, <4>2, SMT
        <5> QED BY <2>3, <3>2, <4>2, <5>1
      <4> QED BY <2>3, <4>1, <4>2, SMT
    <3>4. \A i \in DOMAIN e : e[i].at <= nextAvailable[v]
      <4>1. \A i \in 1 .. l : d[i].at <= now'
        BY <1>2, <2>5, <3>1, SMT
      <4>2. \A i \in 1 .. l + 1 : i \in 1 .. l \/ i = l + 1
        BY <2>3, SMT
      <4>3. now' <= now'
        BY <1>2
      <4> QED BY <2>3, <2>4, <2>5, <4>1, <4>2, <4>3
    <3> QED BY <1>9, <2>1, <3>3, <3>4 DEF RateOK, e
  <2> QED BY <2>6, <2>8, <2>9 DEF WayOK
<1>13. \A v \in ports : WayOK(v)'
  BY <1>11, <1>12
<1>14. \A v \in ports : Timers(v)'
  BY <1>10
<1>15. \A v \in ports : HeadSent(v)
  BY <1>9 DEF HeadSent
<1>16. Inv'
  BY <1>4, <1>7, <1>8, <1>13, <1>14 DEF Inv, ports
<1> QED BY <1>15, <1>16

\* What CHECK_QUEUE comes to: it finds a packet and a free port with nothing on the
\* way, sends the packet and is set again exactly when more packets wait.
Sends(m, w, delay) ==
    /\ w \in ports /\ Checks(w) = {m} /\ Transit(w) = {} /\ outputQueue[w] # <<>>
    /\ now' \in Nat /\ now' >= now /\ now' >= nextAvailable[w]
    /\ \A n \in DOMAIN pending : pending[n].wakeup >= now'
    /\ delay \in Nat
    /\ outputQueue' = [outputQueue EXCEPT ![w] = Tail(outputQueue[w])]
    /\ nextAvailable' = [nextAvailable EXCEPT ![w] = Available(delay)]
    /\ UNCHANGED <<bps, max_queue_length, arrived, delivered, aborted>>
    /\ sent' \in Nat /\ DOMAIN pending' \subseteq 1 .. sent'
    /\ \A n \in DOMAIN pending \ {m} : n \in DOMAIN pending' /\ pending'[n] = pending[n]
    /\ \A n \in DOMAIN pending' :
          \/ n \in DOMAIN pending \ {m} /\ pending'[n] = pending[n]
          \/ n = sent + 1 /\ pending'[n] = PacketToPort(w, Head(outputQueue[w]), delay)
          \/ n = sent + 2 /\ Len(outputQueue[w]) > 1 /\ pending'[n] = CheckQueue(w, Available(delay))
    /\ sent + 1 \in DOMAIN pending' \ DOMAIN pending
    /\ pending'[sent + 1] = PacketToPort(w, Head(outputQueue[w]), delay)
    /\ Len(outputQueue[w]) > 1 => /\ sent + 2 \in DOMAIN pending'
                                  /\ pending'[sent + 2] = CheckQueue(w, Available(delay))

LEMMA CheckQueueSends ==
    ASSUME Inv, NEW m \in DOMAIN pending, checkQueue(m)
    PROVE  \E w, delay : Sends(m, w, delay)
<1> DEFINE w == pending[m].wire
           queue == outputQueue[w]
           delay == Head(queue).size * bps
           again == IF Len(queue) > 1 THEN <<CheckQueue(w, Available(delay))>> ELSE <<>>
           new == <<PacketToPort(w, Head(queue), delay)>> \o again
<1>1. Receive(m, "CHECK_QUEUE")
  BY DEF checkQueue
<1>2. /\ now' \in Nat /\ now' >= now /\ now' = pending[m].wakeup
      /\ pending[m].kind = "CHECK_QUEUE"
      /\ \A n \in DOMAIN pending : pending[n].wakeup >= now'
  BY <1>1, ReceiveMovesClock DEF Inv
<1>3. w \in ports /\ m \in Checks(w)
  BY <1>2 DEF Inv, QueueOK, Checks, MessagesOf
<1>4. Checks(w) = {m} /\ queue # <<>> /\ now' >= nextAvailable[w]
  BY <1>2, <1>3, SMT DEF Inv, Timers
<1>5. nextAvailable[w] \in Nat /\ queue \in Seq(Packets) /\ bps \in Nat
  BY <1>3 DEF Inv, PortsOK
<1>6. /\ outputQueue' = [outputQueue EXCEPT ![w] = Tail(queue)]
      /\ nextAvailable' = [nextAvailable EXCEPT ![w] = Available(delay)]
      /\ Post(Others(m), new)
      /\ UNCHANGED <<bps, max_queue_length, arrived, delivered, aborted>>
  <2>1. ~(now' < nextAvailable[w])
    BY <1>2, <1>4, <1>5, SMT
  <2> QED BY <1>4, <2>1 DEF checkQueue
<1>7. /\ Head(queue) \in Packets /\ Tail(queue) \in Seq(Packets)
      /\ Len(Tail(queue)) = Len(queue) - 1 /\ Len(queue) \in Nat \ {0}
      /\ Tail(queue) = <<>> <=> Len(queue) = 1
      /\ Head(queue) = queue[1] /\ \A j \in 1 .. Len(queue) - 1 : Tail(queue)[j] = queue[j + 1]
  BY <1>4, <1>5, HeadAndTail
<1>8. delay \in Nat /\ Available(delay) \in Nat /\ Available(delay) >= now'
  <2>1. Head(queue).size \in Nat
    BY <1>7 DEF Packets
  <2>2. \A a, b \in Nat : a * b \in Nat
    BY SMT
  <2>3. delay \in Nat
    BY <1>5, <2>1, <2>2
  <2> HIDE DEF delay
  <2> QED BY <1>2, <2>3, SMT DEF Available
<1>9. /\ Len(new) = IF Len(queue) > 1 THEN 2 ELSE 1
      /\ new[1] = PacketToPort(w, Head(queue), delay)
      /\ Len(queue) > 1 => new[2] = CheckQueue(w, Available(delay))
  BY SMT DEF new
<1> DEFINE k == IF Len(queue) > 1 THEN 2 ELSE 1
<1> HIDE DEF new
<1>10. /\ sent' = sent + k
       /\ DOMAIN pending' = (DOMAIN pending \ {m}) \cup (sent + 1 .. sent + k)
       /\ \A n \in DOMAIN pending \ {m} : pending'[n] = pending[n]
       /\ pending'[sent + 1] = PacketToPort(w, Head(queue), delay)
       /\ Len(queue) > 1 => pending'[sent + 2] = CheckQueue(w, Available(delay))
  <2>1. sent \in Nat /\ DOMAIN pending \subseteq 1 .. sent
    BY DEF Inv, QueueOK
  <2>2. /\ sent' = sent + k
        /\ pending' = [n \in (DOMAIN pending \ {m}) \cup (sent + 1 .. sent + k) |->
                         IF n > sent THEN new[n - sent] ELSE Others(m)[n]]
    BY <1>6, <1>9 DEF Post, Others
  <2>3. \A n \in DOMAIN pending \ {m} : Others(m)[n] = pending[n]
    BY DEF Others
  <2>4. (sent + 1) - sent = 1 /\ (sent + 2) - sent = 2
    BY <2>1, SMT
  <2> QED BY <1>9, <2>1, <2>2, <2>3, <2>4, SMT
<1> HIDE DEF k, delay
<1>11. k \in 1 .. 2 /\ (k = 2 <=> Len(queue) > 1) /\ sent \in Nat
       /\ DOMAIN pending \subseteq 1 .. sent
  BY SMT DEF k, Inv, QueueOK
\* A message is an old one, the packet on its way, or the new timer.
<1>12. \A n \in DOMAIN pending' :
          \/ n \in DOMAIN pending \ {m} /\ pending'[n] = pending[n]
          \/ n = sent + 1 /\ pending'[n] = PacketToPort(w, Head(queue), delay)
          \/ n = sent + 2 /\ Len(queue) > 1 /\ pending'[n] = CheckQueue(w, Available(delay))
  BY <1>10, <1>11, SMT
\* The earliest message is the timer, so the last packet of the port has gone.
<1>13. Transit(w) = {}
  <2> SUFFICES ASSUME NEW n \in Transit(w)
               PROVE  FALSE
    OBVIOUS
  <2>1. n \in DOMAIN pending /\ pending[n].wakeup = nextAvailable[w] /\ n < m
    BY <1>3 DEF Inv, WayOK, OneAtATime, Transit, MessagesOf
  <2>2. ~Queue!Earlier(n, m)
    BY <1>1, <2>1, SMT DEF Receive, Queue!IsEarliest, Queue!Queued, Queue!Earlier, Inv, QueueOK
  <2>3. n \in Nat /\ m \in Nat /\ pending[n].wakeup \in Nat /\ pending[m].wakeup \in Nat
    BY <2>1, SMT DEF Inv, QueueOK
  <2>4. pending[n].wakeup <= pending[m].wakeup
    BY <1>2, <1>4, <2>1, <2>3
  <2> QED BY <2>1, <2>2, <2>3, <2>4, SMT DEF Queue!Earlier
<1>14. sent' \in Nat /\ DOMAIN pending' \subseteq 1 .. sent'
  BY <1>10, <1>11, SMT
<1>15. /\ sent + 1 \in DOMAIN pending' \ DOMAIN pending
       /\ Len(queue) > 1 => sent + 2 \in DOMAIN pending'
       /\ \A n \in DOMAIN pending \ {m} : n \in DOMAIN pending'
  BY <1>10, <1>11, SMT
<1>16. Sends(m, w, delay)
  BY <1>2, <1>3, <1>4, <1>6, <1>8, <1>10, <1>12, <1>13, <1>14, <1>15 DEF Sends
<1> QED BY <1>16

LEMMA SendsKeepsQueues ==
    ASSUME Inv, NEW m \in DOMAIN pending, NEW w, NEW delay, Sends(m, w, delay)
    PROVE  QueueOK' /\ PortsOK' /\ WithinLimit' /\ NoAbort'
<1> DEFINE queue == outputQueue[w]
<1>1. /\ w \in ports /\ queue # <<>>
      /\ outputQueue' = [outputQueue EXCEPT ![w] = Tail(queue)]
      /\ nextAvailable' = [nextAvailable EXCEPT ![w] = Available(delay)]
      /\ UNCHANGED <<bps, max_queue_length, arrived, delivered, aborted>>
  BY DEF Sends
<1>2. now' \in Nat /\ \A n \in DOMAIN pending : pending[n].wakeup >= now'
  BY DEF Sends
<1>3. delay \in Nat /\ Available(delay) \in Nat /\ Available(delay) >= now'
  BY SMT DEF Sends, Available
<1>4. queue \in Seq(Packets)
  BY <1>1 DEF Inv, PortsOK
<1>5. /\ Tail(queue) \in Seq(Packets) /\ Len(Tail(queue)) = Len(queue) - 1
      /\ Len(queue) \in Nat \ {0}
  BY <1>1, <1>4, HeadAndTail
<1>6. QueueOK'
  <2>1. /\ PacketToPort(w, Head(queue), delay).wakeup \in Nat
        /\ PacketToPort(w, Head(queue), delay).wakeup >= now'
        /\ PacketToPort(w, Head(queue), delay).wire = w
    <3>1. now' + delay \in Nat /\ now' + delay >= now'
      BY <1>3 DEF Available
    <3> QED BY <3>1 DEF PacketToPort
  <2>2. /\ CheckQueue(w, Available(delay)).wakeup = Available(delay)
        /\ CheckQueue(w, Available(delay)).wire = w
    BY DEF CheckQueue
  <2>3. \A n \in DOMAIN pending : /\ pending[n].wakeup \in Nat /\ pending[n].wakeup >= now'
                                  /\ pending[n].wire \in ports
    BY <1>2 DEF Inv, QueueOK
  <2>4. \A n \in DOMAIN pending' :
           \/ n \in DOMAIN pending /\ pending'[n] = pending[n]
           \/ pending'[n] = PacketToPort(w, Head(queue), delay)
           \/ pending'[n] = CheckQueue(w, Available(delay))
    BY DEF Sends
  <2>5. \A n \in DOMAIN pending' :
           /\ pending'[n].wakeup \in Nat /\ pending'[n].wakeup >= now'
           /\ pending'[n].wire \in ports
    BY <1>1, <1>3, <2>1, <2>2, <2>3, <2>4
  <2>6. sent' \in Nat /\ DOMAIN pending' \subseteq 1 .. sent'
    BY DEF Sends
  <2> QED BY <1>2, <2>5, <2>6 DEF QueueOK, ports
<1>7. PortsOK'
  BY <1>1, <1>3, <1>5 DEF Inv, PortsOK, ports
<1>8. WithinLimit'
  <2> SUFFICES ASSUME NEW v \in ports, max_queue_length # 0
               PROVE  Len(outputQueue'[v]) <= max_queue_length
    BY <1>1 DEF WithinLimit, ports
  <2>1. Len(outputQueue[v]) <= max_queue_length /\ max_queue_length \in Nat
    BY DEF Inv, WithinLimit, PortsOK
  <2>2. CASE v = w
    <3>1. outputQueue'[v] = Tail(queue)
      BY <1>1, <2>2 DEF Inv, PortsOK
    <3> QED BY <1>5, <2>1, <2>2, <3>1, SMT
  <2>3. CASE v # w
    <3>1. outputQueue'[v] = outputQueue[v]
      BY <1>1, <2>3 DEF Inv, PortsOK
    <3> QED BY <2>1, <3>1
  <2> QED BY <2>2, <2>3
<1>9. NoAbort'
  BY <1>1 DEF Inv, NoAbort
<1> QED BY <1>6, <1>7, <1>8, <1>9

LEMMA SendsKeepsTimers ==
    ASSUME Inv, NEW m \in DOMAIN pending, NEW w, NEW delay, Sends(m, w, delay), NEW v \in ports
    PROVE  Timers(v)'
<1> DEFINE queue == outputQueue[w]
           packet == PacketToPort(w, Head(queue), delay)
           timer == CheckQueue(w, Available(delay))
<1>1. /\ \A n \in DOMAIN pending \ {m} : n \in DOMAIN pending' /\ pending'[n] = pending[n]
      /\ \A n \in DOMAIN pending' :
            \/ n \in DOMAIN pending \ {m} /\ pending'[n] = pending[n]
            \/ n = sent + 1 /\ pending'[n] = packet
            \/ n = sent + 2 /\ Len(queue) > 1 /\ pending'[n] = timer
      /\ Len(queue) > 1 => sent + 2 \in DOMAIN pending' /\ pending'[sent + 2] = timer
  BY DEF Sends
<1>2. /\ packet.kind # "CHECK_QUEUE" /\ timer.kind = "CHECK_QUEUE"
      /\ timer.wire = w /\ timer.wakeup = Available(delay)
  BY DEF PacketToPort, CheckQueue
<1> HIDE DEF packet, timer
<1>3. w \in ports /\ Checks(w) = {m} /\ queue # <<>>
  BY DEF Sends
<1>4. CASE v # w
  <2>1. Checks(v)' = Checks(v) /\ \A n \in Checks(v) : pending'[n] = pending[n]
    <3>1. pending[m].wire = w
      BY <1>3 DEF Checks, MessagesOf
    <3> QED BY <1>1, <1>2, <1>4, <3>1 DEF Checks, MessagesOf
  <2>2. outputQueue'[v] = outputQueue[v] /\ nextAvailable'[v] = nextAvailable[v]
    BY <1>4 DEF Sends, Inv, PortsOK
  <2> QED BY <2>1, <2>2 DEF Inv, Timers
<1>5. CASE v = w
  <2>1. outputQueue'[v] = Tail(queue) /\ nextAvailable'[v] = Available(delay)
    BY <1>3, <1>5 DEF Sends, Inv, PortsOK
  <2>2. \A n \in Checks(v)' : n = sent + 2 /\ Len(queue) > 1
                              /\ pending'[n].wakeup = Available(delay)
    <3>1. \A n \in DOMAIN pending \ {m} : ~(pending[n].kind = "CHECK_QUEUE" /\ pending[n].wire = v)
      BY <1>3, <1>5 DEF Checks, MessagesOf
    <3> QED BY <1>1, <1>2, <3>1 DEF Checks, MessagesOf
  <2>3. Len(queue) > 1 => sent + 2 \in Checks(v)'
    BY <1>1, <1>2, <1>5 DEF Checks, MessagesOf
  <2>4. Tail(queue) = <<>> <=> ~(Len(queue) > 1)
    <3>1. queue \in Seq(Packets)
      BY <1>3 DEF Inv, PortsOK
    <3>2. Len(queue) \in Nat \ {0} /\ (Tail(queue) = <<>> <=> Len(queue) = 1)
      BY <1>3, <3>1, HeadAndTail
    <3>3. \A n \in Nat \ {0} : n = 1 <=> ~(n > 1)
      BY SMT
    <3> QED BY <3>2, <3>3
  <2>5. Checks(v)' = {} <=> outputQueue'[v] = <<>>
    BY <2>1, <2>2, <2>3, <2>4
  <2>6. Available(delay) >= Available(delay)
    <3>1. now' \in Nat /\ delay \in Nat
      BY DEF Sends
    <3>2. \A i, j \in Nat : i + j >= i + j
      BY SMT
    <3> QED BY <3>1, <3>2 DEF Available
  <2>7. \A n \in Checks(v)' : pending'[n].wakeup >= nextAvailable'[v]
    BY <2>1, <2>2, <2>6
  <2>8. \A i, j \in Checks(v)' : i = j
    BY <2>2
  <2> QED BY <2>5, <2>7, <2>8 DEF Timers
<1> QED BY <1>4, <1>5

\* The packet at the head comes before those that wait, and its transmission ends
\* when the port is free again.
LEMMA SendsKeepsWay ==
    ASSUME Inv, NEW m \in DOMAIN pending, NEW w, NEW delay, Sends(m, w, delay), NEW v \in ports
    PROVE  WayOK(v)' /\ HeadSent(v)
<1> DEFINE queue == outputQueue[w]
           head == Head(queue)
           rest == Tail(queue)
           message == PacketToPort(w, head, delay)
           timer == CheckQueue(w, Available(delay))
<1>1. /\ \A n \in DOMAIN pending \ {m} : n \in DOMAIN pending' /\ pending'[n] = pending[n]
      /\ \A n \in DOMAIN pending' :
            \/ n \in DOMAIN pending \ {m} /\ pending'[n] = pending[n]
            \/ n = sent + 1 /\ pending'[n] = message
            \/ n = sent + 2 /\ pending'[n] = timer
      /\ sent + 1 \in DOMAIN pending' \ DOMAIN pending /\ pending'[sent + 1] = message
  BY DEF Sends
<1>2. /\ message.kind = "PACKET_TO_PORT" /\ message.wire = w /\ message.packet = head
      /\ message.delay = delay /\ message.wakeup = Available(delay)
      /\ timer.kind = "CHECK_QUEUE" /\ timer.wire = w
  BY DEF PacketToPort, CheckQueue, Available
<1> HIDE DEF message, timer
<1>3. w \in ports /\ Checks(w) = {m} /\ Transit(w) = {} /\ queue # <<>>
  BY DEF Sends
<1>4. arrived' = arrived /\ delivered' = delivered /\ arrived \in Nat
  BY DEF Sends, Inv, PortsOK
<1>5. WayOK(v) /\ delivered[v] \in Seq(Receipts) /\ sent \in Nat
  BY DEF Inv, PortsOK, QueueOK
<1>6. CASE v # w
  <2>1. pending[m].wire = w
    BY <1>3 DEF Checks, MessagesOf
  <2>2. Transit(v)' = Transit(v) /\ \A n \in Transit(v) : pending'[n] = pending[n]
    BY <1>1, <1>2, <1>6, <2>1 DEF Transit, MessagesOf
  <2>3. Checks(v)' \subseteq Checks(v)
    BY <1>1, <1>2, <1>6 DEF Checks, MessagesOf
  <2>4. outputQueue'[v] = outputQueue[v] /\ nextAvailable'[v] = nextAvailable[v]
    BY <1>6 DEF Sends, Inv, PortsOK
  <2>5. WayOK(v)'
    BY <1>4, <1>5, <2>2, <2>3, <2>4, UntouchedPort
  <2> QED BY <2>4, <2>5 DEF HeadSent
<1>7. CASE v = w
  <2> DEFINE d == delivered[v]
  <2>1. Transit(v)' = {sent + 1}
    <3>1. \A n \in DOMAIN pending \ {m} :
             ~(pending[n].kind = "PACKET_TO_PORT" /\ pending[n].wire = v)
      BY <1>3, <1>7 DEF Transit, MessagesOf
    <3> QED BY <1>1, <1>2, <1>7, <3>1 DEF Transit, MessagesOf
  <2>2. \A n \in Checks(v)' : n = sent + 2
    <3>1. \A n \in DOMAIN pending \ {m} :
             ~(pending[n].kind = "CHECK_QUEUE" /\ pending[n].wire = v)
      BY <1>3, <1>7 DEF Checks, MessagesOf
    <3> QED BY <1>1, <1>2, <3>1 DEF Checks, MessagesOf
  <2>3. outputQueue'[v] = rest /\ nextAvailable'[v] = Available(delay)
    BY <1>7 DEF Sends, Inv, PortsOK
  <2>4. queue \in Seq(Packets) /\ queue = outputQueue[v]
    BY <1>7 DEF Inv, PortsOK
  <2>5. /\ head \in Packets /\ rest \in Seq(Packets)
        /\ Len(rest) = Len(queue) - 1 /\ Len(queue) \in Nat \ {0}
        /\ head = queue[1] /\ \A j \in 1 .. Len(queue) - 1 : rest[j] = queue[j + 1]
    BY <1>3, <2>4, HeadAndTail
  <2>6. /\ DOMAIN queue = 1 .. Len(queue) /\ DOMAIN rest = 1 .. Len(queue) - 1
        /\ 1 \in DOMAIN queue
        /\ \A j \in DOMAIN rest : /\ j + 1 \in DOMAIN queue /\ rest[j] = queue[j + 1]
                                  /\ 1 < j + 1
    BY <2>4, <2>5, LenProperties, SMT
  <2> HIDE DEF head, rest
  <2>7. /\ delay \in Nat /\ Available(delay) \in Nat
        /\ \A a \in Nat : a <= nextAvailable[v] =>
              a <= Available(delay) /\ a + delay <= Available(delay)
    <3>1. now' \in Nat /\ now' >= nextAvailable[v] /\ nextAvailable[v] \in Nat /\ delay \in Nat
      BY <1>7 DEF Sends, Inv, PortsOK
    <3>2. \A n, t, b, a \in Nat : n >= t /\ a <= t => a <= n + b /\ a + b <= n + b
      BY SMT
    <3>3. \A n, b \in Nat : n + b \in Nat
      BY SMT
    <3> QED BY <3>1, <3>2, <3>3 DEF Available
  <2>8. OneAtATime(v)'
    <3>1. sent + 1 < sent + 2
      BY <1>5, SMT
    <3> QED BY <1>1, <1>2, <2>1, <2>2, <2>3, <2>5, <2>7, <3>1 DEF OneAtATime
  <2>9. OrderOK(v)'
    <3>1. Ascending(rest)
      <4> SUFFICES ASSUME NEW i \in DOMAIN rest, NEW j \in DOMAIN rest, i < j
                   PROVE  rest[i].number < rest[j].number
        BY DEF Ascending
      <4>1. i + 1 < j + 1
        BY <2>5, <2>6, SMT
      <4>2. /\ i + 1 \in DOMAIN queue /\ rest[i] = queue[i + 1]
            /\ j + 1 \in DOMAIN queue /\ rest[j] = queue[j + 1]
        BY <2>6
      <4>3. Ascending(queue)
        BY <1>5, <2>4 DEF WayOK, OrderOK
      <4> QED BY <4>1, <4>2, <4>3 DEF Ascending
    <3>2. \A j \in DOMAIN rest :
             /\ rest[j].number <= arrived /\ head.number < rest[j].number
             /\ \A i \in DOMAIN d : d[i].number < rest[j].number
      BY <1>5, <2>4, <2>5, <2>6 DEF WayOK, OrderOK, Ascending
    <3>3. head.number <= arrived /\ \A i \in DOMAIN d : d[i].number < head.number
      BY <1>5, <2>4, <2>5, <2>6 DEF WayOK, OrderOK
    <3> QED BY <1>1, <1>2, <1>4, <1>5, <2>1, <2>3, <3>1, <3>2, <3>3 DEF WayOK, OrderOK, Ascending
  <2>10. RateOK(v)'
    <3>1. \A i \in DOMAIN d : d[i] \in Receipts
      BY <1>5, SMT
    <3>2. \A i \in DOMAIN d : d[i].at \in Nat /\ d[i].at <= nextAvailable[v]
      BY <1>5, <3>1 DEF WayOK, RateOK, Receipts
    <3>3. \A i \in DOMAIN d : d[i].at <= Available(delay) /\ d[i].at + delay <= Available(delay)
      BY <2>7, <3>2
    <3> QED BY <1>1, <1>2, <1>4, <1>5, <2>1, <2>3, <3>3 DEF WayOK, RateOK
  <2>11. HeadSent(v)
    BY <1>1, <1>2, <2>4 DEF HeadSent, head
  <2> QED BY <2>8, <2>9, <2>10, <2>11 DEF WayOK
<1> QED BY <1>6, <1>7

LEMMA CheckQueuePreserves ==
    ASSUME Inv, NEW m \in DOMAIN pending, checkQueue(m)
    PROVE  Inv' /\ \A v \in ports : HeadSent(v)
<1>1. PICK w, delay : Sends(m, w, delay)
  BY CheckQueueSends
<1>2. QueueOK' /\ PortsOK' /\ WithinLimit' /\ NoAbort'
  BY <1>1, SendsKeepsQueues
<1>3. \A v \in ports : Timers(v)'
  BY <1>1, SendsKeepsTimers
<1>4. \A v \in ports : WayOK(v)' /\ HeadSent(v)
  BY <1>1, SendsKeepsWay
<1> QED BY <1>2, <1>3, <1>4 DEF Inv, ports

\* The speed and the length of the queues are changed between packets.
LEMMA SettersPreserve ==
    ASSUME SafeSizes, Inv,
           \/ \E speed \in Speeds : setLinkSpeed(speed)
           \/ \E size \in QueueSizes : setQueueSize(size)
    PROVE  Inv' /\ \A w \in ports : HeadSent(w)
<1>1. UNCHANGED <<queueVars, portVars, arrived, delivered, aborted>>
  BY DEF setLinkSpeed, setQueueSize
<1>2. bps' \in Nat /\ max_queue_length' \in Nat \ {1}
  BY LinkAssumption DEF setLinkSpeed, setQueueSize, SafeSizes, Inv, PortsOK
<1>3. QueueOK'
  BY <1>1 DEF Inv, QueueOK, queueVars, ports
<1>4. PortsOK'
  BY <1>1, <1>2 DEF Inv, PortsOK, portVars, ports
<1>5. WithinLimit'
  BY <1>1, SMT DEF setLinkSpeed, setQueueSize, SafeSizes, Inv, WithinLimit, portVars, ports
<1>6. NoAbort'
  BY <1>1 DEF Inv, NoAbort
<1>7. \A w \in ports : Timers(w)'
  BY <1>1, SMT DEF Inv, Timers, Checks, MessagesOf, queueVars, portVars
<1>8. \A w \in ports : WayOK(w)'
  BY <1>1, UntouchedPort DEF Inv, Transit, Checks, MessagesOf, queueVars, portVars
<1>9. \A w \in ports : HeadSent(w)
  BY <1>1 DEF HeadSent, portVars
<1>10. Inv'
  BY <1>3, <1>4, <1>5, <1>6, <1>7, <1>8 DEF Inv, ports
<1> QED BY <1>9, <1>10

\* Counting the timers again.
LEMMA TimersCounted == (\A w \in ports : Timers(w)) => OneCheckEach
<1> SUFFICES ASSUME NEW w \in ports, Timers(w)
             PROVE  /\ Cardinality(Checks(w)) = IF outputQueue[w] = <<>> THEN 0 ELSE 1
                    /\ \A m \in Checks(w) : pending[m].wakeup >= nextAvailable[w]
  BY DEF OneCheckEach, Checks
<1>1. CASE outputQueue[w] = <<>>
  BY <1>1, FS_EmptySet DEF Timers
<1>2. CASE outputQueue[w] # <<>>
  <2>1. PICK m : Checks(w) = {m}
    BY <1>2 DEF Timers
  <2> QED BY <1>2, <2>1, FS_Singleton DEF Timers
<1> QED BY <1>1, <1>2

\* Every action of Link keeps the invariant, and a packet at the head of its queue
\* leaves it only when it is sent.
LEMMA NextPreserves ==
    ASSUME SafeSizes, Inv, [Next]_vars
    PROVE  Inv' /\ \A w \in ports : HeadSent(w)
<1> DEFINE Goal == Inv' /\ \A w \in ports : HeadSent(w)
<1>1. CASE arrival
  BY <1>1, ArrivalPreserves
<1>2. ASSUME NEW m \in DOMAIN pending, checkQueue(m)
      PROVE  Goal
  BY <1>2, CheckQueuePreserves
<1>3. ASSUME NEW m \in DOMAIN pending, portReceives(m)
      PROVE  Goal
  BY <1>3, PortReceivesPreserves
<1>4. CASE \/ \E speed \in Speeds : setLinkSpeed(speed)
           \/ \E size \in QueueSizes : setQueueSize(size)
  BY <1>4, SettersPreserve
<1>5. CASE UNCHANGED vars
  <2>1. UNCHANGED <<queueVars, portVars, bps, max_queue_length, arrived, delivered, aborted>>
    BY <1>5 DEF vars
  <2>2. QueueOK' /\ PortsOK' /\ WithinLimit'
    BY <2>1 DEF Inv, QueueOK, PortsOK, WithinLimit, queueVars, portVars, ports
  <2>3. NoAbort'
    BY <2>1 DEF Inv, NoAbort
  <2>4. \A w \in ports : Timers(w)'
    BY <2>1, SMT DEF Inv, Timers, Checks, MessagesOf, queueVars, portVars
  <2>5. \A w \in ports : WayOK(w)'
    BY <2>1, UntouchedPort DEF Inv, Transit, Checks, MessagesOf, queueVars, portVars
  <2>6. \A w \in ports : HeadSent(w)
    BY <2>1 DEF HeadSent, portVars
  <2>7. Inv'
    BY <2>2, <2>3, <2>4, <2>5 DEF Inv, ports
  <2> QED BY <2>6, <2>7
<1> HIDE DEF Goal
<1>6. Goal
  BY <1>1, <1>2, <1>3, <1>4, <1>5 DEF Next, handle, Goal
<1> QED BY <1>6 DEF Goal

\* The invariant holds: timers, order and line rate rest on each other.
LEMMA InvHolds == ASSUME SafeSizes PROVE Spec => []Inv
<1>1. Init => Inv
  BY InitEstablishes
<1>2. Inv /\ [Next]_vars => Inv'
  BY NextPreserves
<1> QED BY <1>1, <1>2, PTL, SMT DEF Spec

\* sendPacket and CHECK_QUEUE keep exactly one timer for every port with packets and
\* none for an empty one, and it never comes before the port is free.
THEOREM TimersMatchQueues == ASSUME SafeSizes PROVE Spec => []OneCheckEach
<1>1. Inv => OneCheckEach
  BY TimersCounted DEF Inv
<1> QED BY <1>1, InvHolds, PTL, SMT

\* The assertions of E_Link.cpp:37 (CHECK_QUEUE finds a packet) and E_Link.cpp:133
\* (there is room for the new one) hold.
THEOREM AssertionsHold == ASSUME SafeSizes PROVE Spec => []NoAbort
<1>1. Inv => NoAbort
  BY DEF Inv
<1> QED BY <1>1, InvHolds, PTL, SMT

\* A port sends its packets in the order in which they came and none twice, whatever
\* sendPacket evicts and however setLinkSpeed changes the time a packet takes.
THEOREM PortsAreFifo == ASSUME SafeSizes PROVE Spec => []Fifo
<1>1. Inv => Fifo
  <2> SUFFICES ASSUME Inv, NEW w \in ports
               PROVE  /\ Ascending(delivered[w]) /\ Ascending(outputQueue[w])
                      /\ \A m, n \in Transit(w) :
                           Queue!Earlier(m, n) => pending[m].packet.number < pending[n].packet.number
                      /\ Before(Numbers(delivered[w]), InTransit(w) \cup Numbers(outputQueue[w]))
                      /\ Before(InTransit(w), Numbers(outputQueue[w]))
    BY DEF Fifo, Transit
  <2>1. OneAtATime(w) /\ OrderOK(w)
    BY DEF Inv, WayOK
  <2>2. \A m, n \in Transit(w) : ~Queue!Earlier(m, n)
    BY <2>1, SMT DEF OneAtATime, Queue!Earlier, Transit, MessagesOf, Inv, QueueOK
  <2>3. Before(InTransit(w), Numbers(outputQueue[w]))
    BY <2>1 DEF OrderOK, Before, InTransit, Numbers, Transit
  <2>4. Before(Numbers(delivered[w]), InTransit(w) \cup Numbers(outputQueue[w]))
    BY <2>1 DEF OrderOK, Before, InTransit, Numbers, Transit
  <2> QED BY <2>1, <2>2, <2>3, <2>4 DEF OrderOK
<1> QED BY <1>1, InvHolds, PTL, SMT

\* nextAvailable keeps the transmissions of a port apart: CHECK_QUEUE never starts one
\* before the last one is over.
THEOREM PortsKeepLineRate == ASSUME SafeSizes PROVE Spec => []LineRate
<1>1. Inv => LineRate
  BY DEF Inv, WayOK, RateOK, LineRate
<1> QED BY <1>1, InvHolds, PTL, SMT

\* The random eviction of sendPacket spares the packet at the head, which only
\* CHECK_QUEUE takes, to send it.
THEOREM HeadsAreSent == ASSUME SafeSizes PROVE Spec => HeadIsSent
<1>1. Inv /\ [Next]_vars => \A w \in ports : HeadSent(w)
  BY NextPreserves
<1>2. Inv /\ [Next]_vars =>
        [\A w \in ports :
          outputQueue[w] # <<>> /\ (outputQueue'[w] = <<>> \/
                                   Head(outputQueue'[w]) # Head(outputQueue[w]))
            => \E m \in DOMAIN pending' \ DOMAIN pending :
                  /\ pending'[m].kind = "PACKET_TO_PORT"
                  /\ pending'[m].packet = Head(outputQueue[w])]_vars
  BY <1>1 DEF HeadSent
<1> QED BY <1>2, InvHolds, PTL, SMT DEF Spec, HeadIsSent

=============================================================================
