---------------------------- MODULE Wire_proofs -----------------------------
(***************************************************************************)
(* Packets come out of a wire in the order in which they went in, for any  *)
(* number of wires, any topology, any speeds and delays, and whatever the  *)
(* modules around the wires send.                                          *)
(***************************************************************************)
EXTENDS Wire, TLAPS

\* What is known of a queued message.
MessageOK(m) ==
    /\ pending[m].wakeup \in Nat
    /\ pending[m].wakeup >= now
    /\ pending[m].kind = "PACKET_TO_PORT" =>
          pending[m].wire \in Wires /\ pending[m].packet.size \in Nat
    /\ pending[m].kind = "PACKET_FROM_PORT" =>
          pending[m].wire \in Wires /\ pending[m].end \in 0 .. 1

QueueOK ==
    /\ now \in Nat
    /\ sent \in Nat
    /\ DOMAIN pending \subseteq 1 .. sent
    /\ \A m \in DOMAIN pending : MessageOK(m)

SettingsOK ==
    /\ wireAvailable \in [Wires -> [0 .. 1 -> Nat]]
    /\ wireSpeed \in [Wires -> Nat]
    /\ propagationDelay \in [Wires -> Nat]
    /\ limit_speed \in [Wires -> BOOLEAN]
    /\ shortened \in [Wires -> BOOLEAN]

Inv == QueueOK /\ SettingsOK /\ Bounded /\ WireFifo

\* The message received is the earliest of all, so the clock does not pass any.
LEMMA ReceiveMovesClock ==
    ASSUME QueueOK, NEW m \in DOMAIN pending, NEW kind, Receive(m, kind)
    PROVE  /\ now' \in Nat /\ now' >= now /\ now' = pending[m].wakeup
           /\ pending[m].kind = kind
           /\ \A n \in DOMAIN pending : pending[n].wakeup >= now'
BY DEF QueueOK, MessageOK, Receive, Queue!IsEarliest, Queue!Queued, Queue!Earlier

\* The messages a step keeps: they stay where they are and are of the same kind.
Kept(queue) ==
    /\ DOMAIN queue \subseteq DOMAIN pending
    /\ \A n \in DOMAIN queue : queue[n] = pending[n]

\* A step that leaves the wires alone and puts no PACKET_FROM_PORT into the queue.
LEMMA OthersPreserve ==
    ASSUME Inv, NEW queue, Kept(queue), Joined(queue), UNCHANGED wireVars,
           now' \in Nat, now' >= now,
           \A n \in DOMAIN queue : pending[n].wakeup >= now'
    PROVE  Inv'
<1>1. QueueOK'
  <2>1. \A n \in DOMAIN pending' : MessageOK(n)'
    BY DEF Inv, QueueOK, Kept, Joined, Foreign, MessageOK
  <2> QED BY <2>1 DEF Inv, QueueOK, Joined
<1>2. SettingsOK'
  BY DEF Inv, SettingsOK, wireVars, settings
<1>3. \A w \in Wires, d \in 0 .. 1 : \A n \in OnWire(w, d)' :
         n \in OnWire(w, d) /\ pending'[n] = pending[n]
  BY DEF OnWire, MessagesOf, Kept, Joined, Foreign
<1>4. Bounded'
  <2> SUFFICES ASSUME NEW w \in Wires, ~shortened'[w], NEW d \in 0 .. 1,
                      NEW n \in OnWire(w, d)'
               PROVE  \/ pending'[n].wakeup <= now' + propagationDelay'[w]
                      \/ /\ limit_speed'[w]
                         /\ pending'[n].wakeup <= wireAvailable'[w][d] + propagationDelay'[w]
    BY DEF Bounded
  <2>1. n \in OnWire(w, d) /\ pending'[n] = pending[n]
    BY <1>3
  <2>2. /\ shortened' = shortened /\ propagationDelay' = propagationDelay
        /\ limit_speed' = limit_speed /\ wireAvailable' = wireAvailable
    BY DEF wireVars, settings
  <2>3. \/ pending[n].wakeup <= now + propagationDelay[w]
        \/ /\ limit_speed[w]
           /\ pending[n].wakeup <= wireAvailable[w][d] + propagationDelay[w]
    BY <2>1, <2>2 DEF Inv, Bounded
  <2>4. pending[n].wakeup \in Nat /\ propagationDelay[w] \in Nat /\ now \in Nat
    BY <2>1 DEF Inv, QueueOK, MessageOK, SettingsOK, OnWire, MessagesOf
  <2> QED BY <2>1, <2>2, <2>3, <2>4
<1>5. WireFifo'
  <2>1. shortened' = shortened
    BY DEF wireVars, settings
  <2> QED BY <1>3, <2>1 DEF Inv, WireFifo
<1> QED BY <1>1, <1>2, <1>4, <1>5 DEF Inv

\* A wire takes a packet: what goes onto the wire arrives after all that is on it.
LEMMA WirePreserves ==
    ASSUME Inv, NEW m \in DOMAIN pending, wireReceives(m)
    PROVE  Inv'
<1> DEFINE w == pending[m].wire
           from == pending[m].from
           d == destination(w, from)
           trans_delay == pending[m].packet.size * wireSpeed[w]
           start == StartsAt(w, d)
           wakeup == ArrivesAt(w, d, trans_delay)
           packet == pending[m].packet
<1>1. Receive(m, "PACKET_TO_PORT")
  BY DEF wireReceives
<1>2. /\ now' \in Nat /\ now' >= now /\ pending[m].kind = "PACKET_TO_PORT"
      /\ \A n \in DOMAIN pending : pending[n].wakeup >= now'
  BY <1>1, ReceiveMovesClock DEF Inv
<1>3. w \in Wires /\ pending[m].packet.size \in Nat /\ wireSpeed[w] \in Nat
      /\ propagationDelay[w] \in Nat
  BY <1>2 DEF Inv, QueueOK, MessageOK, SettingsOK
<1>4. trans_delay \in Nat
  BY <1>3
<1>5. CASE Unconnected(w, from)
  <2>1. Post(Others(m), <<>>) /\ UNCHANGED wireVars
    BY <1>5 DEF wireReceives, wireVars
  <2>2. Kept(Others(m))
    BY DEF Kept, Others
  <2>3. sent' = sent /\ DOMAIN pending' = DOMAIN Others(m)
        /\ \A n \in DOMAIN Others(m) : pending'[n] = Others(m)[n]
    BY <2>1 DEF Post, Others, Inv, QueueOK
  <2>4. Joined(Others(m))
    BY <2>3 DEF Joined, Others, Inv, QueueOK
  <2> QED BY <1>2, <2>1, <2>2, <2>4, OthersPreserve DEF Others
<1>6. CASE ~Unconnected(w, from)
  <2>1. d \in 0 .. 1
    BY <1>6 DEF Unconnected, destination
  <2>2. wireAvailable[w][d] \in Nat
    BY <1>3, <2>1 DEF Inv, SettingsOK
  <2>3. start \in Nat /\ start >= now' /\ start >= wireAvailable[w][d]
    BY <1>2, <2>2 DEF StartsAt
  <2>4. /\ wireAvailable' = [wireAvailable EXCEPT ![w][d] = start + trans_delay]
        /\ Post(Others(m), <<PacketFromPort(w, d, packet, wakeup)>>)
        /\ UNCHANGED settings
    BY <1>6 DEF wireReceives
  <2>5. /\ sent' = sent + 1
        /\ DOMAIN pending' = DOMAIN Others(m) \cup {sent + 1}
        /\ \A n \in DOMAIN Others(m) : pending'[n] = pending[n]
        /\ pending'[sent + 1] = PacketFromPort(w, d, packet, wakeup)
    <3>1. Len(<<PacketFromPort(w, d, packet, wakeup)>>) = 1
          /\ <<PacketFromPort(w, d, packet, wakeup)>>[1] = PacketFromPort(w, d, packet, wakeup)
      OBVIOUS
    <3> HIDE DEF w, from, d, packet, wakeup
    <3>2. sent' = sent + 1
      BY <2>4, <3>1 DEF Post
    <3>3. pending' = [n \in DOMAIN Others(m) \cup {sent + 1} |->
                        IF n > sent THEN <<PacketFromPort(w, d, packet, wakeup)>>[n - sent]
                        ELSE Others(m)[n]]
      BY <2>4, <3>1 DEF Post, Inv, QueueOK
    <3> QED BY <3>1, <3>2, <3>3 DEF Others, Inv, QueueOK
  <2>6. DOMAIN Others(m) \subseteq DOMAIN pending /\ sent + 1 \notin DOMAIN pending
        /\ \A n \in DOMAIN pending : n <= sent
    BY DEF Others, Inv, QueueOK
  <2>7. wakeup \in Nat /\ wakeup >= now'
        /\ wakeup = IF limit_speed[w] THEN start + trans_delay + propagationDelay[w]
                    ELSE now' + propagationDelay[w]
    BY <1>2, <1>3, <1>4, <2>3 DEF ArrivesAt
  <2>8. /\ pending'[sent + 1].wakeup = wakeup /\ pending'[sent + 1].wire = w
        /\ pending'[sent + 1].end = d /\ pending'[sent + 1].kind = "PACKET_FROM_PORT"
    BY <2>5 DEF PacketFromPort
  <2> HIDE DEF w, from, d, trans_delay, start, wakeup, packet
  <2>9. QueueOK'
    <3>1. \A n \in DOMAIN pending' : MessageOK(n)'
      <4> SUFFICES ASSUME NEW n \in DOMAIN pending' PROVE MessageOK(n)'
        OBVIOUS
      <4>1. CASE n = sent + 1
        BY <4>1, <1>3, <2>1, <2>7, <2>8 DEF MessageOK
      <4>2. CASE n # sent + 1
        <5>1. n \in DOMAIN pending /\ pending'[n] = pending[n]
          BY <4>2, <2>5, <2>6
        <5> QED BY <5>1, <1>2 DEF Inv, QueueOK, MessageOK
      <4> QED BY <4>1, <4>2
    <3>2. DOMAIN pending' \subseteq 1 .. sent'
      BY <2>5, <2>6 DEF Inv, QueueOK
    <3> QED BY <3>1, <3>2, <1>2, <2>5 DEF Inv, QueueOK
  <2>10. SettingsOK'
    BY <1>3, <1>4, <2>1, <2>3, <2>4 DEF Inv, SettingsOK, settings
  <2>11. /\ shortened' = shortened /\ propagationDelay' = propagationDelay
         /\ limit_speed' = limit_speed
    BY <2>4 DEF settings
  <2>12. ASSUME NEW v \in Wires, NEW e \in 0 .. 1, NEW n \in OnWire(v, e)'
         PROVE  \/ n \in OnWire(v, e) /\ n \in 1 .. sent /\ pending'[n] = pending[n]
                \/ n = sent + 1 /\ v = w /\ e = d
    BY <2>5, <2>6, <2>8 DEF OnWire, MessagesOf, Inv, QueueOK
  \* Wherever a packet is, it has arrived by then, and what comes now arrives later.
  <2>13. ASSUME NEW v \in Wires, ~shortened[v], NEW e \in 0 .. 1, NEW n \in OnWire(v, e)
         PROVE  /\ pending[n].wakeup \in Nat
                /\ \/ pending[n].wakeup <= now' + propagationDelay[v]
                   \/ /\ limit_speed[v]
                      /\ pending[n].wakeup <= wireAvailable[v][e] + propagationDelay[v]
    <3>1. \/ pending[n].wakeup <= now + propagationDelay[v]
          \/ /\ limit_speed[v]
             /\ pending[n].wakeup <= wireAvailable[v][e] + propagationDelay[v]
      BY <2>13 DEF Inv, Bounded
    <3>2. pending[n].wakeup \in Nat /\ propagationDelay[v] \in Nat /\ now \in Nat
      BY <2>13 DEF Inv, QueueOK, MessageOK, SettingsOK, OnWire, MessagesOf
    <3> QED BY <3>1, <3>2, <1>2
  <2>14. ASSUME NEW v \in Wires, NEW e \in 0 .. 1
         PROVE  /\ wireAvailable[v][e] \in Nat /\ wireAvailable'[v][e] \in Nat
                /\ wireAvailable'[v][e] >= wireAvailable[v][e]
                /\ v = w /\ e = d => wireAvailable'[v][e] = start + trans_delay
    BY <1>3, <1>4, <2>1, <2>2, <2>3, <2>4 DEF Inv, SettingsOK
  <2>15. Bounded'
    <3> SUFFICES ASSUME NEW v \in Wires, ~shortened'[v], NEW e \in 0 .. 1,
                        NEW n \in OnWire(v, e)'
                 PROVE  \/ pending'[n].wakeup <= now' + propagationDelay'[v]
                        \/ /\ limit_speed'[v]
                           /\ pending'[n].wakeup <= wireAvailable'[v][e] + propagationDelay'[v]
      BY DEF Bounded
    <3>1. propagationDelay[v] \in Nat
      BY DEF Inv, SettingsOK
    <3>2. CASE n \in OnWire(v, e) /\ pending'[n] = pending[n]
      BY <3>1, <3>2, <2>11, <2>13, <2>14
    <3>3. CASE n = sent + 1 /\ v = w /\ e = d
      BY <3>1, <3>3, <1>2, <1>4, <2>3, <2>7, <2>8, <2>11, <2>14
    <3> QED BY <2>12, <3>2, <3>3
  <2>16. WireFifo'
    <3> SUFFICES ASSUME NEW v \in Wires, ~shortened'[v], NEW e \in 0 .. 1,
                        NEW i \in OnWire(v, e)', NEW j \in OnWire(v, e)', i < j
                 PROVE  pending'[i].wakeup <= pending'[j].wakeup
      BY DEF WireFifo
    <3>1. sent \in Nat
      BY DEF Inv, QueueOK
    <3>2. i \in OnWire(v, e) /\ pending'[i] = pending[i]
      <4>1. i \in Nat /\ j \in Nat /\ j <= sent + 1
        BY <3>1, <2>12
      <4>2. i # sent + 1
        BY <3>1, <4>1
      <4> QED BY <4>2, <2>12
    <3>3. CASE j \in OnWire(v, e) /\ pending'[j] = pending[j]
      BY <3>2, <3>3, <2>11 DEF Inv, WireFifo
    <3>4. CASE j = sent + 1 /\ v = w /\ e = d
      <4>1. /\ pending[i].wakeup \in Nat
            /\ \/ pending[i].wakeup <= now' + propagationDelay[w]
               \/ /\ limit_speed[w]
                  /\ pending[i].wakeup <= wireAvailable[w][d] + propagationDelay[w]
        BY <3>2, <3>4, <2>11, <2>13
      <4>2. pending[i].wakeup <= wakeup
        BY <4>1, <1>2, <1>3, <1>4, <2>2, <2>3, <2>7
      <4> QED BY <4>2, <3>2, <3>4, <2>8
    <3> QED BY <2>12, <3>3, <3>4
  <2> QED BY <2>9, <2>10, <2>15, <2>16 DEF Inv
<1> QED BY <1>5, <1>6

\* The setters: a longer delay or a stricter limit only moves later packets back.
LEMMA SettersPreserve ==
    ASSUME WireAssumption, Inv, NEW w \in Wires,
           \/ \E speed \in WireSpeeds : setWireSpeed(w, speed)
           \/ \E delay \in PropDelays : setPropagationDelay(w, delay)
           \/ \E do_limit \in BOOLEAN : setSpeedLimit(w, do_limit)
    PROVE  Inv'
<1>1. now' = now /\ sent' = sent /\ pending' = pending /\ wireAvailable' = wireAvailable
  BY DEF setWireSpeed, setPropagationDelay, setSpeedLimit, queueVars
<1>2. QueueOK'
  BY <1>1 DEF Inv, QueueOK, MessageOK
<1>3. SettingsOK'
  BY <1>1 DEF Inv, SettingsOK, WireAssumption, setWireSpeed, setPropagationDelay,
              setSpeedLimit
<1>4. \A v \in Wires : ~shortened'[v] =>
         /\ ~shortened[v]
         /\ propagationDelay'[v] >= propagationDelay[v]
         /\ limit_speed[v] => limit_speed'[v]
  <2>1. CASE \E speed \in WireSpeeds : setWireSpeed(w, speed)
    BY <2>1 DEF Inv, SettingsOK, setWireSpeed
  <2>2. CASE \E delay \in PropDelays : setPropagationDelay(w, delay)
    <3>1. PICK delay \in PropDelays : setPropagationDelay(w, delay)
      BY <2>2
    <3>2. delay \in Nat /\ \A v \in Wires : propagationDelay[v] \in Nat
      BY DEF Inv, SettingsOK, WireAssumption
    <3>3. \A v \in Wires : propagationDelay'[v] = IF v = w THEN delay ELSE propagationDelay[v]
      BY <3>1 DEF Inv, SettingsOK, setPropagationDelay
    <3>4. \A v \in Wires : ~shortened'[v] => ~shortened[v] /\ (v = w => ~(delay < propagationDelay[w]))
      BY <3>1, Zenon DEF Inv, SettingsOK, setPropagationDelay
    <3>5. limit_speed' = limit_speed
      BY <3>1 DEF setPropagationDelay
    <3> QED BY <3>2, <3>3, <3>4, <3>5
  <2>3. CASE \E do_limit \in BOOLEAN : setSpeedLimit(w, do_limit)
    BY <2>3 DEF Inv, SettingsOK, setSpeedLimit
  <2> QED BY <2>1, <2>2, <2>3
<1>5. \A v \in Wires, d \in 0 .. 1 : OnWire(v, d)' = OnWire(v, d)
  BY <1>1 DEF OnWire, MessagesOf
<1>6. Bounded'
  <2> SUFFICES ASSUME NEW v \in Wires, ~shortened'[v], NEW d \in 0 .. 1,
                      NEW m \in OnWire(v, d)
               PROVE  \/ pending'[m].wakeup <= now' + propagationDelay'[v]
                      \/ /\ limit_speed'[v]
                         /\ pending'[m].wakeup <= wireAvailable'[v][d] + propagationDelay'[v]
    BY <1>5 DEF Bounded
  <2>1. \/ pending[m].wakeup <= now + propagationDelay[v]
        \/ /\ limit_speed[v]
           /\ pending[m].wakeup <= wireAvailable[v][d] + propagationDelay[v]
    BY <1>4 DEF Inv, Bounded
  <2>2. /\ pending[m].wakeup \in Nat /\ now \in Nat /\ wireAvailable[v][d] \in Nat
        /\ propagationDelay[v] \in Nat /\ propagationDelay'[v] \in Nat
    BY <1>3 DEF Inv, QueueOK, MessageOK, SettingsOK, OnWire, MessagesOf
  <2> QED BY <1>1, <1>4, <2>1, <2>2
<1>7. WireFifo'
  BY <1>1, <1>4, <1>5 DEF Inv, WireFifo
<1> QED BY <1>2, <1>3, <1>6, <1>7 DEF Inv

\* Init establishes the invariant: nothing is on any wire.
LEMMA InitEstablishes ==
    ASSUME WireAssumption, Init
    PROVE  Inv
<1>1. DOMAIN pending = {}
  BY DEF Init, EmptyQueue
<1>2. QueueOK
  BY <1>1 DEF Init, EmptyQueue, QueueOK
<1>3. SettingsOK
  BY DEF Init, WireInit, SettingsOK, WireAssumption
<1>4. \A w \in Wires, d \in 0 .. 1 : OnWire(w, d) = {}
  BY <1>1 DEF OnWire, MessagesOf
<1> QED BY <1>2, <1>3, <1>4 DEF Inv, Bounded, WireFifo

\* Wire::messageReceived keeps packets in order in each direction of each wire while
\* nobody lowers its propagation delay or lifts its speed limit.
THEOREM WireKeepsOrder == ASSUME WireAssumption PROVE Spec => []WireFifo
<1>1. Init => Inv
  BY InitEstablishes
<1>2. Inv /\ [Next]_vars => Inv'
  <2> SUFFICES ASSUME Inv, [Next]_vars PROVE Inv'
    OBVIOUS
  <2>1. CASE otherActs
    <3>1. Kept(pending) /\ Joined(pending) /\ UNCHANGED wireVars /\ now' = now
      BY <2>1 DEF otherActs, Kept
    <3> QED BY <3>1, OthersPreserve DEF Inv, QueueOK, MessageOK
  <2>2. ASSUME NEW m \in DOMAIN pending, wireReceives(m)
        PROVE  Inv'
    BY <2>2, WirePreserves
  <2>3. ASSUME NEW m \in DOMAIN pending, otherReceives(m)
        PROVE  Inv'
    <3>1. /\ Kept(Others(m)) /\ Joined(Others(m)) /\ UNCHANGED wireVars
          /\ Receive(m, pending[m].kind)
      BY <2>3 DEF otherReceives, Kept, Others
    <3>2. now' \in Nat /\ now' >= now /\ \A n \in DOMAIN pending : pending[n].wakeup >= now'
      BY <3>1, ReceiveMovesClock DEF Inv
    <3> QED BY <3>1, <3>2, OthersPreserve DEF Others
  <2>4. CASE \/ \E w \in Wires, bps \in WireSpeeds : setWireSpeed(w, bps)
             \/ \E w \in Wires, delay \in PropDelays : setPropagationDelay(w, delay)
             \/ \E w \in Wires, do_limit \in BOOLEAN : setSpeedLimit(w, do_limit)
    BY <2>4, SettersPreserve
  <2>5. CASE UNCHANGED vars
    <3>1. now' = now /\ sent' = sent /\ pending' = pending /\ UNCHANGED wireVars
      BY <2>5 DEF vars, queueVars
    <3>2. Kept(pending) /\ Joined(pending)
      BY <3>1 DEF Kept, Joined, Inv, QueueOK
    <3> QED BY <3>1, <3>2, OthersPreserve DEF Inv, QueueOK, MessageOK
  <2> QED BY <2>1, <2>2, <2>3, <2>4, <2>5 DEF Next
<1>3. Inv => WireFifo
  BY DEF Inv
<1> QED BY <1>1, <1>2, <1>3, PTL DEF Spec
=============================================================================
