-------------------------- MODULE HostSteps_proofs --------------------------
(***************************************************************************)
(* What the operators of the host compute, and what each kind of step does *)
(* to Inv (HostInv).  What is used of finite sets is the hypothesis        *)
(* FiniteSetFacts here and in the next modules; Host_proofs proves it.     *)
(***************************************************************************)
EXTENDS HostInv, TLAPS

\* Most steps are first-order logic, and Zenon finds them; those with numbers say SMT.
USE ZenonT(30)
-----------------------------------------------------------------------------
(* Facts about the operators *)

LEMMA MinIsLeast ==
    ASSUME FiniteSetFacts, NEW T \in SUBSET Nat, T # {}
    PROVE  Min(T) \in T /\ \A y \in T : Min(T) <= y
BY DEF Min, FiniteSetFacts, LeastExists

\* The numbers in use are all lower, so the search ends at its first candidate.
LEMMA FreeIDIsNext ==
    ASSUME FiniteSetFacts, QueueOK, CallsOK
    PROVE  FreeID = syscallIDStart
<1> DEFINE free == {k \in syscallIDStart .. syscallIDStart + Cardinality(syscallMap) :
                      \A s \in syscallMap : s.id # k}
<1>1. Cardinality(syscallMap) \in Nat
  BY DEF CallsOK, FiniteSetFacts, CardinalitiesAreNat
<1>2. syscallIDStart \in Nat /\ \A s \in syscallMap : s.id \in Nat /\ s.id < syscallIDStart
  BY DEF QueueOK, CallsOK
<1>3. syscallIDStart \in free /\ free \subseteq Nat /\ \A k \in free : syscallIDStart <= k
  BY <1>1, <1>2, SMT
<1> HIDE DEF free
<1>4. Min(free) \in free /\ \A k \in free : Min(free) <= k
  BY <1>3, MinIsLeast
<1>5. Min(free) = syscallIDStart
  <2>1. Min(free) \in Nat /\ syscallIDStart <= Min(free) /\ Min(free) <= syscallIDStart
    BY <1>3, <1>4
  <2> QED BY <1>2, <2>1, SMT
<1> QED BY <1>5 DEF free, FreeID

LEMMA PidOfFinds ==
    ASSUME TableOK, NEW a \in Apps, state[a] \notin {"NONE", "DESTROYED"}
    PROVE  PidOf(a) \in PIDs /\ process[PidOf(a)] = a
BY DEF TableOK, PidOf

\* The message received is the earliest of all, so the clock does not pass any; and
\* it stays where it is as long as a process has something to be handled.
LEMMA ReceiveMovesClock ==
    ASSUME QueueOK, NEW m \in DOMAIN pending, NEW kind, Receive(m, kind)
    PROVE  /\ now' \in Nat /\ now' >= now /\ now' = pending[m].wakeup
           /\ pending[m].kind = kind
           /\ \A n \in DOMAIN pending : pending[n].wakeup >= now'
           /\ \A a \in Apps : state[a] # "READY"
           /\ UNCHANGED <<till, call, count, running>>
BY SMT DEF QueueOK, QueuedKinds, Receive, Drained, Queue!IsEarliest, Queue!Queued, Queue!Earlier

\* Tracked calls that are answered have different callers, all of which wait: the
\* assertion of Runnable::ready holds.
LEMMA TrackedAnswered ==
    ASSUME FiniteSetFacts, Inv, NEW ids, NEW val, returnSystemCall(ids, syscallMap, val)
    PROVE  /\ \A a \in Callers(ids) : a \in Apps /\ state[a] = "WAITING"
           /\ syscallMap' = syscallMap \ Found(ids)
           /\ state' = [a \in Apps |-> IF a \in Callers(ids) THEN "READY" ELSE state[a]]
           /\ syscallRet' =
                [a \in Apps |-> IF a \in Callers(ids) THEN val ELSE syscallRet[a]]
           /\ phase' = phase
<1>1. \A a \in Callers(ids) : a \in Apps /\ state[a] = "WAITING"
  BY DEF Inv, CallsOK, Callers, Found
<1> DEFINE f == [s \in Found(ids) |-> process[s.pid]]
<1>2. \A s, t \in Found(ids) : f[s] = f[t] => s = t
  <2> SUFFICES ASSUME NEW s \in Found(ids), NEW t \in Found(ids), process[s.pid] = process[t.pid]
               PROVE  s = t
    OBVIOUS
  <2>1. s.pid \in PIDs /\ t.pid \in PIDs /\ process[s.pid] # None
    BY HostAssumption DEF Inv, CallsOK, Found
  <2>2. s.pid = t.pid
    BY <2>1 DEF Inv, TableOK
  <2> QED BY <2>2 DEF Inv, CallsOK, Found
<1>3. Callers(ids) = {f[s] : s \in Found(ids)}
  BY DEF Callers
<1> HIDE DEF f
<1>4. IsFiniteSet(Found(ids))
  BY DEF Inv, CallsOK, Found, FiniteSetFacts, SubsetsCountLess
<1>5. Cardinality({f[s] : s \in Found(ids)}) = Cardinality(Found(ids))
  BY <1>2, <1>4 DEF FiniteSetFacts, ImagesCountSame
<1>6. Cardinality(Callers(ids)) = Cardinality(Found(ids))
  BY <1>3, <1>5
<1> QED BY <1>1, <1>6 DEF returnSystemCall, Found, Callers

\* A call that is answered by its own handler is tracked in between only.
LEMMA AnsweredAtOnce ==
    ASSUME FiniteSetFacts, Inv, NEW m \in DOMAIN pending, NEW kinds, ReceiveSyscall(m, kinds),
           NEW val, returnSystemCall({FreeID}, Tracked(m), val)
    PROVE  /\ Caller(m) \in Apps /\ state[Caller(m)] = "WAITING"
           /\ syscallMap' = syscallMap
           /\ state' = [state EXCEPT ![Caller(m)] = "READY"]
           /\ syscallRet' = [syscallRet EXCEPT ![Caller(m)] = val]
           /\ phase' = phase
<1> DEFINE new == [id |-> FreeID, pid |-> pending[m].arg]
           found == {s \in Tracked(m) : s.id \in {FreeID}}
           callers == {process[s.pid] : s \in found}
<1>1. pending[m].kind = "Syscall"
  BY DEF ReceiveSyscall, Receive
<1>2. Caller(m) \in Apps /\ state[Caller(m)] = "WAITING"
  BY <1>1 DEF Caller, Inv, MessagesOK
<1>3. \A s \in syscallMap : s.id \in Nat /\ s.id < FreeID
  BY FreeIDIsNext DEF Inv, CallsOK
<1>4. FreeID \in Nat
  BY FreeIDIsNext DEF Inv, QueueOK
<1>5. found = {new} /\ Tracked(m) \ found = syscallMap
  BY <1>3, <1>4, SMT DEF Tracked
<1>6. callers = {Caller(m)}
  <2>1. new.pid = pending[m].arg
    OBVIOUS
  <2> HIDE DEF found, new
  <2> QED BY <1>5, <2>1 DEF Caller
<1>7. Cardinality(callers) = Cardinality(found)
  BY <1>5, <1>6 DEF FiniteSetFacts, SingletonsCountOne
<1>8. /\ syscallMap' = Tracked(m) \ found
      /\ state' = [a \in Apps |-> IF a \in callers THEN "READY" ELSE state[a]]
      /\ syscallRet' = [a \in Apps |-> IF a \in callers THEN val ELSE syscallRet[a]]
      /\ phase' = IF /\ \A a \in callers : a \in Apps /\ state[a] = "WAITING"
                     /\ Cardinality(callers) = Cardinality(found)
                   THEN phase ELSE "abort"
  BY DEF returnSystemCall
<1> HIDE DEF found, callers
<1>9. phase' = phase
  BY <1>2, <1>6, <1>7, <1>8
<1>10. /\ state' = [state EXCEPT ![Caller(m)] = "READY"]
       /\ syscallRet' = [syscallRet EXCEPT ![Caller(m)] = val]
  BY <1>6, <1>8 DEF Inv, TypesOK
<1> QED BY <1>2, <1>5, <1>8, <1>9, <1>10

\* The search of registerProcess ends at a free pid when there is one.
LEMMA FirstFreeIsFree ==
    ASSUME FiniteSetFacts, TypesOK, FreePIDs # {}
    PROVE  FirstFree \in FreePIDs
<1> DEFINE distances == {Distance(p) : p \in FreePIDs}
<1>1. \A p \in FreePIDs : Distance(p) \in Nat
  BY HostAssumption, SMT DEF FreePIDs, Distance, PIDs, TypesOK
<1>2. distances \subseteq Nat /\ distances # {}
  BY <1>1
<1> HIDE DEF distances
<1>3. PICK d \in distances : \A e \in distances : d <= e
  BY <1>2 DEF FiniteSetFacts, LeastExists
<1>4. \E p \in FreePIDs : \A q \in FreePIDs : Distance(p) <= Distance(q)
  BY <1>3 DEF distances
<1> QED BY <1>4 DEF FirstFree

\* sendMessageSelf adds one message and touches no other.
LEMMA SendAdds ==
    ASSUME QueueOK, NEW kind, NEW arg, sendMessageSelf(kind, arg)
    PROVE  /\ now' = now /\ sent' = sent + 1
           /\ sent + 1 \notin DOMAIN pending
           /\ DOMAIN pending' = DOMAIN pending \cup {sent + 1}
           /\ \A n \in DOMAIN pending : pending'[n] = pending[n]
           /\ pending'[sent + 1] = [kind |-> kind, arg |-> arg, wakeup |-> now]
BY SMT DEF QueueOK, sendMessageSelf, With, Message

\* What is left of the queue when a message is handled.
LEMMA ConsumeKeeps ==
    ASSUME QueueOK, NEW m \in DOMAIN pending, pending' = Without(m), sent' = sent,
           now' \in Nat, now' >= now, \A n \in DOMAIN pending : pending[n].wakeup >= now',
           syscallIDStart' \in Nat, syscallIDStart' >= syscallIDStart
    PROVE  /\ QueueOK'
           /\ DOMAIN pending' = DOMAIN pending \ {m}
           /\ \A n \in DOMAIN pending' : pending'[n] = pending[n]
<1>1. /\ DOMAIN pending' = DOMAIN pending \ {m}
      /\ \A n \in DOMAIN pending' : pending'[n] = pending[n]
  BY DEF Without
<1>2. ASSUME NEW n \in DOMAIN pending'
      PROVE  /\ pending'[n] \in QueuedKinds
             /\ pending'[n].wakeup >= now'
             /\ pending'[n].kind # "Timer" => pending'[n].arg \in PIDs /\ pending'[n].wakeup = now'
             /\ pending'[n].kind = "Timer" => pending'[n].arg < syscallIDStart'
  BY <1>1, SMT DEF QueueOK, QueuedKinds
<1>3. sent' \in Nat /\ DOMAIN pending' \subseteq 1 .. sent'
  BY <1>1 DEF QueueOK
<1> QED BY <1>1, <1>2, <1>3 DEF QueueOK

\* The Return handler finds the process of the message, which has no call: no
\* assertion fails, and its entry is free again.
LEMMA ReturnedFinds ==
    ASSUME Inv, NEW m \in DOMAIN pending, returned(m)
    PROVE  /\ process[pending[m].arg] \in Apps /\ state[process[pending[m].arg]] = "TERMINATED"
           /\ pending[m].arg \in PIDs
           /\ \A s \in syscallMap : s.pid # pending[m].arg
           /\ state' = [state EXCEPT ![process[pending[m].arg]] = "DESTROYED"]
           /\ process' = [process EXCEPT ![pending[m].arg] = None]
           /\ fds' = [fds EXCEPT ![pending[m].arg] = {}]
           /\ phase' = phase
<1>1. pending[m].kind = "Return"
  BY DEF returned, Receive
<1>2. /\ process[pending[m].arg] \in Apps /\ state[process[pending[m].arg]] = "TERMINATED"
      /\ pending[m].arg \in PIDs
  BY <1>1 DEF Inv, QueueOK, MessagesOK
<1>3. \A s \in syscallMap : s.pid # pending[m].arg
  BY <1>2 DEF Inv, CallsOK
<1> QED BY <1>2, <1>3, HostAssumption DEF returned

\* The walk of createFileDescriptor stops at the lowest number that is not open: below
\* it all are, so the count it compares with is right, and they run out before it ends.
LEMMA WalkStopsAtLowest ==
    ASSUME FiniteSetFacts, NEW open \in SUBSET FDs
    PROVE  /\ Current(open) \in Nat /\ Current(open) >= 3
           /\ Current(open) \notin open
           /\ \A fd \in 3 .. Current(open) - 1 : fd \in open
<1> DEFINE n == Cardinality(open)
           differs == {fd \in 3 .. 3 + n : ~Agrees(open, fd)}
<1>1. IsFiniteSet(open) /\ n \in Nat
  <2>1. IsFiniteSet(FDs)
    BY HostAssumption, SMT DEF FDs, FiniteSetFacts, IntervalsCount
  <2>2. IsFiniteSet(open)
    BY <2>1 DEF FiniteSetFacts, SubsetsCountLess
  <2> QED BY <2>2 DEF FiniteSetFacts, CardinalitiesAreNat
<1>2. \A fd \in open : fd \in Nat /\ fd >= 3
  BY HostAssumption, SMT DEF FDs
<1> HIDE DEF n
<1>3. differs # {}
  <2> SUFFICES ASSUME differs = {} PROVE FALSE
    OBVIOUS
  <2>1. (3 .. 3 + n) \in SUBSET open
    BY <1>1 DEF Agrees
  <2>2. Cardinality(3 .. 3 + n) <= n
    BY <1>1, <2>1 DEF n, FiniteSetFacts, SubsetsCountLess
  <2>3. Cardinality(3 .. 3 + n) = n + 1
    <3>1. 3 \in Int /\ 3 + n \in Int /\ ~(3 > 3 + n) /\ (3 + n) - 3 + 1 = n + 1
      BY <1>1, SMT
    <3>2. Cardinality(3 .. 3 + n) = IF 3 > 3 + n THEN 0 ELSE (3 + n) - 3 + 1
      BY <3>1 DEF FiniteSetFacts, IntervalsCount
    <3> QED BY <3>1, <3>2
  <2> QED BY <1>1, <2>2, <2>3, SMT
<1>4. differs \subseteq Nat
  BY <1>1, SMT
<1> HIDE DEF differs
<1> DEFINE c == Min(differs)
<1>5. c \in differs /\ \A fd \in differs : c <= fd
  BY <1>3, <1>4, MinIsLeast
<1>6. c = Current(open)
  BY DEF Current, differs, n
<1> HIDE DEF c
<1>7. c \in Nat /\ c >= 3 /\ c <= 3 + n /\ ~Agrees(open, c)
  BY <1>1, <1>5, SMT DEF differs
<1>8. \A fd \in 3 .. c - 1 : fd \in open
  <2> SUFFICES ASSUME NEW fd \in 3 .. c - 1 PROVE fd \in open
    OBVIOUS
  <2>1. fd \in 3 .. 3 + n /\ ~(c <= fd)
    BY <1>1, <1>7, SMT
  <2>2. Agrees(open, fd)
    BY <1>5, <2>1 DEF differs
  <2> QED BY <2>2 DEF Agrees
<1>9. c \notin open
  <2>1. {f \in open : f < c} = 3 .. c - 1
    BY <1>2, <1>7, <1>8, SMT
  <2>2. Cardinality(3 .. c - 1) = c - 3
    <3>1. 3 \in Int /\ c - 1 \in Int /\ (3 > c - 1 => c - 3 = 0) /\ (c - 1) - 3 + 1 = c - 3
      BY <1>7, SMT
    <3>2. Cardinality(3 .. c - 1) = IF 3 > c - 1 THEN 0 ELSE (c - 1) - 3 + 1
      BY <3>1 DEF FiniteSetFacts, IntervalsCount
    <3> QED BY <3>1, <3>2
  <2> QED BY <1>7, <2>1, <2>2 DEF Agrees
<1> QED BY <1>6, <1>7, <1>8, <1>9

\* So createFileDescriptor gives out the lowest free descriptor, or -1 when none is free.
LEMMA DescriptorChosen ==
    ASSUME FiniteSetFacts, NEW open \in SUBSET FDs
    PROVE  /\ createFileDescriptor(open) =
                 IF FDs \ open = {} THEN -1 ELSE Min(FDs \ open)
           /\ createFileDescriptor(open) \in (FDs \ open) \cup {-1}
<1> DEFINE c == Current(open)
           closed == FDs \ open
<1>1. c \in Nat /\ c >= 3 /\ c \notin open /\ \A fd \in 3 .. c - 1 : fd \in open
  BY WalkStopsAtLowest
<1> HIDE DEF c
<1>2. \A fd \in closed : fd \in Nat /\ fd >= c
  BY <1>1, HostAssumption, SMT DEF FDs
<1>3. CASE c >= MAX_FD
  <2>1. closed = {}
    BY <1>1, <1>2, <1>3, HostAssumption, SMT DEF FDs
  <2> QED BY <1>3, <2>1 DEF createFileDescriptor, c
<1>4. CASE ~(c >= MAX_FD)
  <2>1. c \in closed
    BY <1>1, <1>4, HostAssumption, SMT DEF FDs
  <2>2. closed \subseteq Nat
    BY <1>2
  <2>3. Min(closed) \in closed /\ \A fd \in closed : Min(closed) <= fd
    BY <2>1, <2>2, MinIsLeast
  <2>4. Min(closed) = c
    <3>1. Min(closed) \in Nat /\ c <= Min(closed) /\ Min(closed) <= c
      BY <1>2, <2>1, <2>3
    <3> QED BY <1>1, <3>1, SMT
  <2> QED BY <1>4, <2>1, <2>4 DEF createFileDescriptor, c
<1> QED BY <1>3, <1>4

LEMMA DistanceIsZeroAtStart ==
    ASSUME NEW n \in Nat \ {0}, NEW p \in 0 .. n - 1, NEW q \in 0 .. n - 1
    PROVE  (p - p) % n = 0 /\ (p # q => (q - p) % n > 0)
<1>1. (p - p) % n = 0
  BY SMT
<1>2. ASSUME p # q, (q - p) % n = 0
      PROVE  FALSE
  <2> DEFINE k == (q - p) \div n
  <2>1. k \in Int /\ q - p = n * k
    BY <1>2, SMTT(30), SMT
  <2>2. k # 0
    BY <1>2, <2>1, SMT
  <2>3. k >= 1 => n * k >= n
    BY <2>1, SMTT(30), SMT
  <2>4. k <= -1 => n * k <= -n
    BY <2>1, SMTT(30), SMT
  <2> QED BY <2>1, <2>2, <2>3, <2>4, SMT
<1> QED BY <1>1, <1>2, SMT

LEMMA KnownAreCounted ==
    ASSUME FiniteSetFacts, Fits
    PROVE  /\ Cardinality(Known) \in Nat
           /\ \A a \in Apps \ Known :
                /\ Cardinality(Known) < MAX_PID
                /\ Cardinality(Known \cup {a}) = Cardinality(Known) + 1
<1>1. IsFiniteSet(Known)
  BY DEF Fits, Known, FiniteSetFacts, SubsetsCountLess
<1>2. Cardinality(Known) \in Nat
  BY <1>1 DEF FiniteSetFacts, CardinalitiesAreNat
<1>3. ASSUME NEW a \in Apps \ Known
      PROVE  /\ Cardinality(Known) < MAX_PID
             /\ Cardinality(Known \cup {a}) = Cardinality(Known) + 1
  <2>1. Cardinality(Known \cup {a}) = Cardinality(Known) + 1
    BY <1>1 DEF FiniteSetFacts, AddedCountsOne
  <2>2. Known \cup {a} \subseteq Apps
    BY DEF Known
  <2>3. Cardinality(Known \cup {a}) <= Cardinality(Apps)
    BY <2>2 DEF Fits, FiniteSetFacts, SubsetsCountLess
  <2>4. Cardinality(Apps) \in Nat
    BY DEF Fits, FiniteSetFacts, CardinalitiesAreNat
  <2> QED BY <1>2, <2>1, <2>3, <2>4, HostAssumption, SMT DEF Fits
<1> QED BY <1>2, <1>3

\* The search finds the first pid that was never used.
LEMMA FirstFreeIsFresh ==
    ASSUME FiniteSetFacts, Fits, Inv, Kept, NEW a \in Apps, state[a] = "NONE"
    PROVE  /\ FreePIDs # {}
           /\ FirstFree = Cardinality(Known)
           /\ Cardinality(Known) \in PIDs
           /\ pidStart = Cardinality(Known)
<1> DEFINE k == Cardinality(Known)
<1>1. k \in Nat /\ k < MAX_PID
  BY KnownAreCounted DEF Known
<1>2. pidStart = k % MAX_PID
  BY DEF Kept, FreshPIDs
<1> HIDE DEF k
<1>3. pidStart = k /\ k \in PIDs
  BY <1>1, <1>2, HostAssumption, SMT DEF PIDs
<1>4. k \in FreePIDs
  BY <1>1, <1>3, SMT DEF Kept, FreshPIDs, FreePIDs, k
<1>5. \A q \in FreePIDs : q # k => Distance(k) = 0 /\ Distance(q) > 0
  BY <1>3, DistanceIsZeroAtStart, HostAssumption DEF FreePIDs, PIDs, Distance
<1>6. Distance(k) = 0
  BY <1>3, DistanceIsZeroAtStart, HostAssumption DEF PIDs, Distance
<1>7. \A q \in FreePIDs : Distance(q) \in Nat
  BY HostAssumption, SMT DEF FreePIDs, Distance, PIDs, Inv, TypesOK
<1>8. \A q \in FreePIDs : Distance(k) <= Distance(q)
  BY <1>6, <1>7, SMT
<1>9. ASSUME NEW p \in FreePIDs, \A q \in FreePIDs : Distance(p) <= Distance(q)
      PROVE  p = k
  <2>1. Distance(p) <= Distance(k)
    BY <1>4, <1>9
  <2> QED BY <1>5, <1>6, <1>7, <2>1, SMT
<1>10. FirstFree = k
  BY <1>4, <1>8, <1>9 DEF FirstFree
<1> QED BY <1>3, <1>4, <1>10 DEF k

\* The processes of two requests in the queue differ, and so do their callers.
LEMMA CallersDiffer ==
    ASSUME Inv, NEW m \in DOMAIN pending, NEW n \in DOMAIN pending, m # n,
           pending[m].kind = "Syscall", pending[n].kind = "Syscall"
    PROVE  /\ pending[m].arg # pending[n].arg
           /\ Caller(m) \in Apps /\ Caller(n) \in Apps /\ Caller(m) # Caller(n)
<1>1. pending[m].arg \in PIDs /\ pending[n].arg \in PIDs /\ pending[m].arg # pending[n].arg
  BY DEF Inv, QueueOK, MessagesOK
<1>2. Caller(m) \in Apps /\ Caller(n) \in Apps
  BY DEF Inv, MessagesOK, Caller
<1> QED BY <1>1, <1>2, HostAssumption DEF Inv, TableOK, Caller

\* What a handler of a request knows of itself and of the other requests.
LEMMA HandlerFrame ==
    ASSUME Inv, NEW m \in DOMAIN pending, NEW kinds, ReceiveSyscall(m, kinds),
           pending' = Without(m), process' = process
    PROVE  /\ pending[m].kind = "Syscall" /\ pending[m].arg \in PIDs
           /\ Caller(m) \in Apps /\ process[pending[m].arg] = Caller(m)
           /\ Request(m).kind \in kinds /\ call' = call
           /\ \A n \in DOMAIN pending' :
                 n \in DOMAIN pending /\ pending'[n] = pending[n]
           /\ \A n \in DOMAIN pending' :
                 pending'[n].kind = "Syscall" =>
                    /\ pending[n].arg # pending[m].arg
                    /\ Caller(n)' = Caller(n) /\ Caller(n) \in Apps /\ Caller(n) # Caller(m)
                    /\ Request(n)' = Request(n)
<1>1. /\ pending[m].kind = "Syscall" /\ Caller(m) \in Apps
      /\ Request(m).kind \in kinds /\ call' = call
  BY DEF ReceiveSyscall, Receive
<1>2. pending[m].arg \in PIDs /\ process[pending[m].arg] = Caller(m)
  BY <1>1 DEF Inv, QueueOK, Caller
<1>3. \A n \in DOMAIN pending' : n \in DOMAIN pending /\ n # m /\ pending'[n] = pending[n]
  BY DEF Without
<1>4. ASSUME NEW n \in DOMAIN pending', pending'[n].kind = "Syscall"
      PROVE  /\ pending[n].arg # pending[m].arg
             /\ Caller(n)' = Caller(n) /\ Caller(n) \in Apps /\ Caller(n) # Caller(m)
             /\ Request(n)' = Request(n)
  <2>1. pending[n].arg # pending[m].arg /\ Caller(n) \in Apps /\ Caller(n) # Caller(m)
    BY <1>1, <1>3, <1>4, CallersDiffer
  <2>2. Caller(n)' = Caller(n)
    BY <1>3 DEF Caller
  <2> QED BY <1>1, <2>1, <2>2 DEF Request
<1> QED BY <1>1, <1>2, <1>3, <1>4
-----------------------------------------------------------------------------
(* Every kind of step keeps the invariant *)

LEMMA InitEstablishes ==
    ASSUME FiniteSetFacts, Init
    PROVE  Inv
<1>1. now = 0 /\ sent = 0 /\ DOMAIN pending = {} /\ syscallIDStart = 0 /\ syscallMap = {}
  BY DEF Init
<1>2. QueueOK
  BY <1>1 DEF QueueOK
<1>3. TypesOK
  BY HostAssumption, SMT DEF Init, TypesOK, States, Kinds, NoCall, PIDs
<1>4. TableOK
  BY HostAssumption DEF Init, TableOK, NoCall
<1>5. CallsOK
  BY <1>1 DEF CallsOK, FiniteSetFacts, EmptyCountsZero
<1>6. MessagesOK /\ TimersOK
  BY <1>1 DEF MessagesOK, TimersOK
<1>7. SleepExact
  BY DEF Init, SleepExact
<1> QED BY <1>2, <1>3, <1>4, <1>5, <1>6, <1>7 DEF Inv

\* A step that changes nothing for the processes of the queued messages keeps what is
\* known of them.
LEMMA MessagesKept ==
    ASSUME MessagesOK,
           \A n \in DOMAIN pending' :
               pending'[n].kind # "Timer" =>
                  /\ n \in DOMAIN pending /\ pending'[n] = pending[n] /\ now' = now
                  /\ process'[pending[n].arg] = process[pending[n].arg]
                  /\ process[pending[n].arg] \in Apps =>
                       /\ state'[process[pending[n].arg]] = state[process[pending[n].arg]]
                       /\ call'[process[pending[n].arg]] = call[process[pending[n].arg]]
                  /\ pending[n].kind = "Syscall" => \A s \in syscallMap' : s.pid # pending[n].arg
    PROVE  MessagesOK'
<1>1. ASSUME NEW m \in DOMAIN pending', NEW n \in DOMAIN pending',
             pending'[m].kind = pending'[n].kind, pending'[m].kind # "Timer",
             pending'[m].arg = pending'[n].arg
      PROVE  m = n
  <2>1. /\ m \in DOMAIN pending /\ pending'[m] = pending[m]
        /\ n \in DOMAIN pending /\ pending'[n] = pending[n]
    BY <1>1
  <2>2. /\ pending[m].kind = pending[n].kind /\ pending[m].kind # "Timer"
        /\ pending[m].arg = pending[n].arg
    BY <1>1, <2>1
  <2> QED BY <2>1, <2>2 DEF MessagesOK
<1>2. ASSUME NEW n \in DOMAIN pending', pending'[n].kind = "Return"
      PROVE  process'[pending'[n].arg] \in Apps /\ state'[process'[pending'[n].arg]] = "TERMINATED"
  <2>1. n \in DOMAIN pending /\ pending'[n] = pending[n]
    BY <1>2
  <2>2. pending[n].kind = "Return"
    BY <1>2, <2>1
  <2>3. process[pending[n].arg] \in Apps /\ state[process[pending[n].arg]] = "TERMINATED"
    BY <2>1, <2>2 DEF MessagesOK
  <2>4. /\ process'[pending[n].arg] = process[pending[n].arg]
        /\ state'[process[pending[n].arg]] = state[process[pending[n].arg]]
    BY <1>2, <2>3
  <2> QED BY <2>1, <2>3, <2>4
<1>3. ASSUME NEW n \in DOMAIN pending', pending'[n].kind = "Syscall"
      PROVE  /\ process'[pending'[n].arg] \in Apps
             /\ state'[process'[pending'[n].arg]] = "WAITING"
             /\ call'[process'[pending'[n].arg]].at = now'
             /\ \A s \in syscallMap' : s.pid # pending'[n].arg
  <2>1. n \in DOMAIN pending /\ pending'[n] = pending[n] /\ now' = now
    BY <1>3
  <2>2. /\ process[pending[n].arg] \in Apps
        /\ state[process[pending[n].arg]] = "WAITING"
        /\ call[process[pending[n].arg]].at = now
    <3>1. pending[n].kind = "Syscall"
      BY <1>3, <2>1
    <3> QED BY <2>1, <3>1 DEF MessagesOK
  <2>3. /\ process'[pending[n].arg] = process[pending[n].arg]
        /\ state'[process[pending[n].arg]] = state[process[pending[n].arg]]
        /\ call'[process[pending[n].arg]] = call[process[pending[n].arg]]
    BY <1>3, <2>2
  <2>4. \A s \in syscallMap' : s.pid # pending[n].arg
    BY <1>3, <2>1
  <2> QED BY <2>1, <2>2, <2>3, <2>4
<1> QED BY <1>1, <1>2, <1>3 DEF MessagesOK

\* The same when one more is sent, by another process.
LEMMA MessageAdded ==
    ASSUME MessagesOK, NEW new, NEW pid,
           DOMAIN pending' = DOMAIN pending \cup {new},
           pending'[new].kind # "Timer", pending'[new].arg = pid,
           pending'[new].kind = "Return" => process'[pid] \in Apps /\ state'[process'[pid]] = "TERMINATED",
           pending'[new].kind = "Syscall" =>
              /\ process'[pid] \in Apps
              /\ state'[process'[pid]] = "WAITING"
              /\ call'[process'[pid]].at = now'
              /\ \A s \in syscallMap' : s.pid # pid,
           now' = now, process' = process, syscallMap' = syscallMap,
           \A n \in DOMAIN pending : pending'[n] = pending[n],
           \A n \in DOMAIN pending :
               pending[n].kind # "Timer" =>
                  /\ pending[n].arg # pid
                  /\ process[pending[n].arg] \in Apps =>
                       /\ state'[process[pending[n].arg]] = state[process[pending[n].arg]]
                       /\ call'[process[pending[n].arg]] = call[process[pending[n].arg]]
    PROVE  MessagesOK'
<1>1. ASSUME NEW m \in DOMAIN pending', NEW n \in DOMAIN pending',
             pending'[m].kind = pending'[n].kind, pending'[m].kind # "Timer",
             pending'[m].arg = pending'[n].arg
      PROVE  m = n
  <2>1. \A i \in DOMAIN pending : pending'[i].kind # "Timer" => pending'[i].arg # pid
    OBVIOUS
  <2>2. CASE m = new
    <3>1. pending'[n].arg = pid /\ pending'[n].kind # "Timer"
      BY <1>1, <2>2
    <3> QED BY <2>1, <2>2, <3>1
  <2>3. CASE n = new
    <3>1. pending'[m].arg = pid /\ pending'[m].kind # "Timer"
      BY <1>1, <2>3
    <3> QED BY <2>1, <2>3, <3>1
  <2>4. CASE m \in DOMAIN pending /\ n \in DOMAIN pending
    <3>1. pending'[m] = pending[m] /\ pending'[n] = pending[n]
      BY <2>4
    <3>2. /\ pending[m].kind = pending[n].kind /\ pending[m].kind # "Timer"
          /\ pending[m].arg = pending[n].arg
      BY <1>1, <3>1
    <3> QED BY <2>4, <3>2 DEF MessagesOK
  <2> QED BY <2>2, <2>3, <2>4
<1>2. ASSUME NEW n \in DOMAIN pending', pending'[n].kind = "Return"
      PROVE  process'[pending'[n].arg] \in Apps /\ state'[process'[pending'[n].arg]] = "TERMINATED"
  <2>1. CASE n \in DOMAIN pending
    <3>1. pending'[n] = pending[n] /\ pending[n].kind = "Return"
      BY <1>2, <2>1
    <3>2. process[pending[n].arg] \in Apps /\ state[process[pending[n].arg]] = "TERMINATED"
      BY <2>1, <3>1 DEF MessagesOK
    <3>3. state'[process[pending[n].arg]] = state[process[pending[n].arg]]
      BY <2>1, <3>1, <3>2
    <3> QED BY <3>1, <3>2, <3>3
  <2> QED BY <1>2, <2>1
<1>3. ASSUME NEW n \in DOMAIN pending', pending'[n].kind = "Syscall"
      PROVE  /\ process'[pending'[n].arg] \in Apps
             /\ state'[process'[pending'[n].arg]] = "WAITING"
             /\ call'[process'[pending'[n].arg]].at = now'
             /\ \A s \in syscallMap' : s.pid # pending'[n].arg
  <2>1. CASE n \in DOMAIN pending
    <3>1. pending'[n] = pending[n] /\ pending[n].kind = "Syscall"
      BY <1>3, <2>1
    <3>2. /\ process[pending[n].arg] \in Apps
          /\ state[process[pending[n].arg]] = "WAITING"
          /\ call[process[pending[n].arg]].at = now
          /\ \A s \in syscallMap : s.pid # pending[n].arg
      BY <2>1, <3>1 DEF MessagesOK
    <3>3. /\ state'[process[pending[n].arg]] = state[process[pending[n].arg]]
          /\ call'[process[pending[n].arg]] = call[process[pending[n].arg]]
      BY <2>1, <3>1, <3>2
    <3> QED BY <3>1, <3>2, <3>3
  <2> QED BY <1>3, <2>1
<1> QED BY <1>1, <1>2, <1>3 DEF MessagesOK

\* Neither a tracked call nor its timer notices what others do.
LEMMA CallsKept ==
    ASSUME CallsOK, syscallMap' = syscallMap,
           \A s \in syscallMap :
               /\ s.id < syscallIDStart'
               /\ process'[s.pid] = process[s.pid]
               /\ process[s.pid] \in Apps =>
                    /\ state'[process[s.pid]] = state[process[s.pid]]
                    /\ call'[process[s.pid]] = call[process[s.pid]]
    PROVE  CallsOK'
<1>1. ASSUME NEW s \in syscallMap'
      PROVE  /\ s.id < syscallIDStart'
             /\ process'[s.pid] \in Apps
             /\ state'[process'[s.pid]] = "WAITING"
             /\ call'[process'[s.pid]].kind \in {"nsleep", "io"}
  <2>1. /\ process[s.pid] \in Apps
        /\ state[process[s.pid]] = "WAITING"
        /\ call[process[s.pid]].kind \in {"nsleep", "io"}
    BY DEF CallsOK
  <2>2. /\ s.id < syscallIDStart'
        /\ process'[s.pid] = process[s.pid]
        /\ state'[process[s.pid]] = state[process[s.pid]]
        /\ call'[process[s.pid]] = call[process[s.pid]]
    BY <2>1
  <2> QED BY <2>1, <2>2
<1> QED BY <1>1 DEF CallsOK

LEMMA TimersKept ==
    ASSUME TimersOK,
           \A n \in DOMAIN pending', s \in syscallMap' :
               pending'[n].kind = "Timer" =>
                  /\ n \in DOMAIN pending /\ pending'[n] = pending[n]
                  /\ s \in syscallMap /\ process'[s.pid] = process[s.pid]
                  /\ call'[process[s.pid]] = call[process[s.pid]]
    PROVE  TimersOK'
<1> SUFFICES ASSUME NEW n \in DOMAIN pending', NEW s \in syscallMap',
                    pending'[n].kind = "Timer", pending'[n].arg = s.id
             PROVE  /\ call'[process'[s.pid]].kind = "nsleep"
                    /\ pending'[n].wakeup =
                         call'[process'[s.pid]].at + call'[process'[s.pid]].arg
  BY DEF TimersOK
<1>1. /\ n \in DOMAIN pending /\ pending'[n] = pending[n]
      /\ s \in syscallMap /\ process'[s.pid] = process[s.pid]
      /\ call'[process[s.pid]] = call[process[s.pid]]
  OBVIOUS
<1>2. pending[n].kind = "Timer" /\ pending[n].arg = s.id
  BY <1>1
<1>3. /\ call[process[s.pid]].kind = "nsleep"
      /\ pending[n].wakeup = call[process[s.pid]].at + call[process[s.pid]].arg
  BY <1>1, <1>2 DEF TimersOK
<1> QED BY <1>1, <1>3

\* addApplication: the new process gets an entry of its own.
LEMMA RegisterPreserves ==
    ASSUME FiniteSetFacts, Inv, NEW a \in Apps, registerProcess(a)
    PROVE  Inv'
<1>1. /\ state[a] = "NONE"
      /\ UNCHANGED <<now, sent, pending, till, fds, syscallMap, syscallIDStart>>
      /\ UNCHANGED <<running, call, syscallRet, own, count, late>>
  BY DEF registerProcess, queueVars, callVars, appVars
<1>2. CASE FreePIDs = {}
  <2>1. UNCHANGED <<state, process, pidStart>>
    BY <1>2 DEF registerProcess
  <2>2. QueueOK' /\ TypesOK' /\ TableOK' /\ CallsOK'
    <3>1. QueueOK'
      BY <1>1 DEF Inv, QueueOK
    <3>2. TypesOK'
      BY <1>1, <2>1 DEF Inv, TypesOK
    <3>3. TableOK'
      BY <1>1, <2>1 DEF Inv, TableOK
    <3>4. CallsOK'
      BY <1>1, <2>1 DEF Inv, CallsOK
    <3> QED BY <3>1, <3>2, <3>3, <3>4
  <2>3. MessagesOK' /\ TimersOK' /\ SleepExact'
    <3>1. MessagesOK'
      BY <1>1, <2>1 DEF Inv, MessagesOK
    <3>2. TimersOK'
      BY <1>1, <2>1 DEF Inv, TimersOK
    <3>3. SleepExact'
      BY <1>1, <2>1 DEF Inv, SleepExact
    <3> QED BY <3>1, <3>2, <3>3
  <2> QED BY <2>2, <2>3 DEF Inv
<1>3. CASE FreePIDs # {}
  <2> DEFINE p == FirstFree
  <2>1. /\ process' = [process EXCEPT ![p] = a]
        /\ pidStart' = (p + 1) % MAX_PID
        /\ state' = [state EXCEPT ![a] = "CREATED"]
    BY <1>3 DEF registerProcess
  <2>2. p \in PIDs /\ process[p] = None
    BY <1>3, FirstFreeIsFree DEF Inv, FreePIDs
  <2> HIDE DEF p
  <2>3. /\ \A q \in PIDs : process[q] # a
        /\ \A q \in PIDs : process'[q] = IF q = p THEN a ELSE process[q]
        /\ \A b \in Apps : state'[b] = IF b = a THEN "CREATED" ELSE state[b]
        /\ None \notin Apps
    BY <1>1, <2>1, HostAssumption DEF Inv, TypesOK, TableOK
  <2>4. QueueOK'
    BY <1>1 DEF Inv, QueueOK
  <2>5. TypesOK'
    <3>1. pidStart' \in PIDs
      BY <2>1, <2>2, HostAssumption, SMT DEF PIDs
    <3> QED BY <1>1, <2>1, <3>1 DEF Inv, TypesOK, States
  <2>6. TableOK'
    <3>1. \A q, r \in PIDs : process'[q] = process'[r] /\ process'[q] # None => q = r
      BY <2>3, SMT DEF Inv, TableOK
    <3>2. \A b \in Apps :
            state'[b] \notin {"NONE", "DESTROYED"} <=> \E q \in PIDs : process'[q] = b
      BY <2>2, <2>3, SMT DEF Inv, TableOK
    <3>3. \A b \in Apps :
            state'[b] \in {"NONE", "CREATED"} => call'[b].kind = "none" /\ own'[b] = {}
      BY <1>1, <2>3 DEF Inv, TableOK
    <3> QED BY <3>1, <3>2, <3>3 DEF TableOK
  <2>7. CallsOK'
    <3>1. \A s \in syscallMap : s.id < syscallIDStart' /\ s.pid \in PIDs /\ process[s.pid] \in Apps
      BY <1>1 DEF Inv, CallsOK
    <3>2. \A s \in syscallMap : process'[s.pid] = process[s.pid] /\ process[s.pid] # a
      BY <2>2, <2>3, <3>1
    <3>3. \A b \in Apps : b # a => state'[b] = state[b]
      BY <2>3
    <3> QED BY <1>1, <3>1, <3>2, <3>3, CallsKept DEF Inv
  <2>8. MessagesOK'
    <3> SUFFICES ASSUME NEW n \in DOMAIN pending', pending'[n].kind # "Timer"
                 PROVE  /\ process'[pending[n].arg] = process[pending[n].arg]
                        /\ process[pending[n].arg] \in Apps =>
                             state'[process[pending[n].arg]] = state[process[pending[n].arg]]
                        /\ pending[n].kind = "Syscall" =>
                             \A s \in syscallMap' : s.pid # pending[n].arg
      BY <1>1, MessagesKept DEF Inv
    <3>1. pending[n].arg \in PIDs /\ process[pending[n].arg] \in Apps
      BY <1>1 DEF Inv, QueueOK, QueuedKinds, MessagesOK
    <3>2. process'[pending[n].arg] = process[pending[n].arg]
      BY <2>2, <2>3, <3>1, SMT
    <3>3. pending[n].kind = "Syscall" => \A s \in syscallMap' : s.pid # pending[n].arg
      BY <1>1 DEF Inv, MessagesOK
    <3> QED BY <1>1, <2>2, <2>3, <3>1, <3>2, <3>3, SMT
  <2>9. TimersOK'
    BY <1>1, <2>2, <2>3, SMT DEF Inv, CallsOK, TimersOK
  <2>10. SleepExact'
    BY <1>1, <2>3 DEF Inv, SleepExact
  <2> QED BY <2>4, <2>5, <2>6, <2>7, <2>8, <2>9, <2>10 DEF Inv
<1> QED BY <1>2, <1>3

\* Runnable::start and wake: an application that does not wait moves on.
LEMMA MovePreserves ==
    ASSUME Inv, NEW a \in Apps, NEW to \in {"READY", "RUNNING"},
           state[a] \in {"CREATED", "READY"}, to = "READY" => state[a] = "CREATED",
           state' = [state EXCEPT ![a] = to],
           UNCHANGED <<now, sent, pending, till, process, fds, pidStart>>,
           UNCHANGED <<syscallMap, syscallIDStart, call, syscallRet, own, late>>
    PROVE  Inv'
<1>1. \A b \in Apps : state'[b] = IF b = a THEN to ELSE state[b]
  BY DEF Inv, TypesOK
<1>2. QueueOK' /\ TimersOK'
  BY DEF Inv, QueueOK, TimersOK
<1>3. TypesOK'
  BY DEF Inv, TypesOK, States
<1>4. TableOK'
  BY <1>1, SMT DEF Inv, TableOK
<1>5. CallsOK'
  <2>1. \A s \in syscallMap : s.id < syscallIDStart' /\ process[s.pid] # a
    BY DEF Inv, CallsOK
  <2> QED BY <1>1, <2>1, CallsKept DEF Inv
<1>6. MessagesOK'
  <2>1. \A n \in DOMAIN pending : pending[n].kind # "Timer" => process[pending[n].arg] # a
    BY DEF Inv, QueueOK, QueuedKinds, MessagesOK
  <2>2. \A n \in DOMAIN pending :
           pending[n].kind = "Syscall" => \A s \in syscallMap' : s.pid # pending[n].arg
    BY DEF Inv, MessagesOK
  <2> QED BY <1>1, <2>1, <2>2, MessagesKept DEF Inv
<1>7. SleepExact'
  BY <1>1, SMT DEF Inv, SleepExact, TableOK
<1> QED BY <1>2, <1>3, <1>4, <1>5, <1>6, <1>7 DEF Inv

\* E_Syscall: the caller waits, and its request is the only one of its process.
LEMMA SyscallPreserves ==
    ASSUME Inv, NEW a \in Apps, E_Syscall(a)
    PROVE  Inv'
<1> DEFINE pid == PidOf(a)
<1>1. PICK request \in Requests(a) :
         /\ call' = [call EXCEPT ![a] =
                       [kind |-> request[1], arg |-> request[2], at |-> now]]
         /\ own' = [own EXCEPT ![a] =
                      IF request[1] = "close" THEN @ \ {request[2]} ELSE @]
  BY DEF E_Syscall
<1>2. /\ state[a] = "RUNNING"
      /\ syscallRet' = [syscallRet EXCEPT ![a] = -1]
      /\ sendMessageSelf("Syscall", pid)
      /\ state' = [state EXCEPT ![a] = "WAITING"]
      /\ UNCHANGED <<till, process, fds, pidStart, syscallMap, syscallIDStart, late>>
  BY DEF E_Syscall, tableVars, callVars
<1>3. pid \in PIDs /\ process[pid] = a
  BY <1>2, PidOfFinds DEF Inv
<1>4. request[1] \in Kinds \ {"none"} /\ request[2] \in Nat
  BY <1>1, HostAssumption, SMT DEF Requests, Inv, TypesOK, FDs, Kinds
<1>5. \A b \in Apps :
         /\ state'[b] = IF b = a THEN "WAITING" ELSE state[b]
         /\ syscallRet'[b] = IF b = a THEN -1 ELSE syscallRet[b]
         /\ b # a => call'[b] = call[b] /\ own'[b] = own[b]
  BY <1>1, <1>2 DEF Inv, TypesOK
<1>6. call'[a] = [kind |-> request[1], arg |-> request[2], at |-> now] /\ own'[a] \subseteq own[a]
  BY <1>1 DEF Inv, TypesOK
<1>6a. call'[a].at = now
  BY <1>6, SMT
<1>7. /\ now' = now /\ sent' = sent + 1
      /\ sent + 1 \notin DOMAIN pending
      /\ DOMAIN pending' = DOMAIN pending \cup {sent + 1}
      /\ \A n \in DOMAIN pending : pending'[n] = pending[n]
      /\ pending'[sent + 1] = [kind |-> "Syscall", arg |-> pid, wakeup |-> now]
  BY <1>2, SendAdds DEF Inv
<1>7a. pending'[sent + 1].kind = "Syscall" /\ pending'[sent + 1].arg = pid
  BY <1>7, SMT
<1> HIDE DEF pid
<1>8. \A s \in syscallMap : s.pid \in PIDs /\ process[s.pid] # a
  BY <1>2 DEF Inv, CallsOK
<1>9. \A n \in DOMAIN pending : pending[n].kind # "Timer" => process[pending[n].arg] # a
  BY <1>2 DEF Inv, QueueOK, QueuedKinds, MessagesOK
<1>10. QueueOK'
  <2>1. now' \in Nat /\ sent' \in Nat /\ DOMAIN pending' \subseteq 1 .. sent'
    BY <1>7, SMT DEF Inv, QueueOK
  <2>2. pid \in Nat
    BY <1>3, HostAssumption, SMT DEF PIDs
  <2>3. ASSUME NEW n \in DOMAIN pending'
        PROVE  /\ pending'[n] \in QueuedKinds
               /\ pending'[n].wakeup >= now
               /\ pending'[n].kind # "Timer" => pending'[n].arg \in PIDs /\ pending'[n].wakeup = now
               /\ pending'[n].kind = "Timer" => pending'[n].arg < syscallIDStart
    <3>1. CASE n \in DOMAIN pending
      BY <1>7, <3>1 DEF Inv, QueueOK
    <3>2. CASE n = sent + 1
      <4>1. now \in Nat
        BY DEF Inv, QueueOK
      <4> QED BY <1>3, <1>7, <2>2, <3>2, <4>1, SMT DEF QueuedKinds
    <3> QED BY <1>7, <3>1, <3>2
  <2> QED BY <1>2, <1>7, <2>1, <2>3 DEF Inv, QueueOK
<1>11. TypesOK'
  <2>1. call' \in [Apps -> [kind : Kinds, arg : Nat, at : Nat]]
    BY <1>1, <1>4 DEF Inv, TypesOK, QueueOK
  <2> QED BY <1>1, <1>2, <2>1, SMT DEF Inv, TypesOK, States
<1>12. TableOK'
  <2>1. \A b \in Apps : state'[b] \notin {"NONE", "DESTROYED"} <=> state[b] \notin {"NONE", "DESTROYED"}
    <3>1. state[a] = "RUNNING" /\ state'[a] = "WAITING"
      BY <1>2, <1>5
    <3>2. \A b \in Apps : b # a => state'[b] = state[b]
      BY <1>5
    <3> QED BY <3>1, <3>2
  <2>2. \A b \in Apps :
           state'[b] \in {"NONE", "CREATED"} => call'[b].kind = "none" /\ own'[b] = {}
    BY <1>5 DEF Inv, TableOK
  <2> QED BY <1>2, <2>1, <2>2 DEF Inv, TableOK
<1>13. CallsOK'
  <2>1. \A s \in syscallMap : s.id < syscallIDStart'
    BY <1>2 DEF Inv, CallsOK
  <2> QED BY <1>2, <1>5, <1>8, <2>1, CallsKept DEF Inv
<1>14. MessagesOK'
  <2>1. process'[pid] = a /\ state'[a] = "WAITING" /\ call'[a].at = now'
    BY <1>2, <1>3, <1>5, <1>6a, <1>7
  <2>2. \A s \in syscallMap' : s.pid # pid
    BY <1>2, <1>3, <1>8
  <2>3. \A n \in DOMAIN pending :
           pending[n].kind # "Timer" => pending[n].arg # pid /\ process[pending[n].arg] # a
    BY <1>3, <1>9
  <2>4. \A n \in DOMAIN pending :
           pending[n].kind # "Timer" =>
              /\ pending[n].arg # pid
              /\ process[pending[n].arg] \in Apps =>
                   /\ state'[process[pending[n].arg]] = state[process[pending[n].arg]]
                   /\ call'[process[pending[n].arg]] = call[process[pending[n].arg]]
    BY <1>5, <2>3
  <2>5. MessagesOK /\ now' = now /\ process' = process /\ syscallMap' = syscallMap
    BY <1>2, <1>7 DEF Inv
  <2>6. /\ pending'[sent + 1].kind # "Timer" /\ pending'[sent + 1].kind # "Return"
        /\ process'[pid] \in Apps
        /\ state'[process'[pid]] = "WAITING"
        /\ call'[process'[pid]].at = now'
    BY <1>7a, <2>1
  <2>7. /\ DOMAIN pending' = DOMAIN pending \cup {sent + 1}
        /\ \A n \in DOMAIN pending : pending'[n] = pending[n]
    BY <1>7
  <2> QED BY <1>7a, <2>2, <2>4, <2>5, <2>6, <2>7, MessageAdded, SMT
<1>15. TimersOK'
  <2>1. \A n \in DOMAIN pending' :
           pending'[n].kind = "Timer" => n \in DOMAIN pending /\ pending'[n] = pending[n]
    BY <1>7, <1>7a
  <2>2. \A s \in syscallMap : call'[process[s.pid]] = call[process[s.pid]]
    BY <1>5, <1>8 DEF Inv, CallsOK
  <2> QED BY <1>2, <2>1, <2>2, TimersKept DEF Inv
<1>16. SleepExact'
  <2>1. SleepExact
    BY DEF Inv
  <2>2. \A b \in Apps : state'[b] = "READY" => b # a
    BY <1>5, <1>6
  <2> QED BY <1>5, <1>7, <2>1, <2>2 DEF SleepExact
<1> QED BY <1>10, <1>11, <1>12, <1>13, <1>14, <1>15, <1>16 DEF Inv

\* exitProcess: the only Return message of the process.
LEMMA MainReturnsPreserves ==
    ASSUME Inv, NEW a \in Apps, mainReturns(a)
    PROVE  Inv'
<1> DEFINE pid == PidOf(a)
<1>1. /\ state[a] = "RUNNING"
      /\ sendMessageSelf("Return", pid)
      /\ state' = [state EXCEPT ![a] = "TERMINATED"]
      /\ UNCHANGED <<till, process, fds, pidStart, syscallMap, syscallIDStart, late>>
      /\ UNCHANGED <<call, syscallRet, own>>
  BY DEF mainReturns, tableVars, callVars, appVars
<1>2. pid \in PIDs /\ process[pid] = a
  BY <1>1, PidOfFinds DEF Inv
<1>3. \A b \in Apps : state'[b] = IF b = a THEN "TERMINATED" ELSE state[b]
  BY <1>1 DEF Inv, TypesOK
<1>4. /\ now' = now /\ sent' = sent + 1
      /\ sent + 1 \notin DOMAIN pending
      /\ DOMAIN pending' = DOMAIN pending \cup {sent + 1}
      /\ \A n \in DOMAIN pending : pending'[n] = pending[n]
      /\ pending'[sent + 1] = [kind |-> "Return", arg |-> pid, wakeup |-> now]
  BY <1>1, SendAdds DEF Inv
<1>4a. pending'[sent + 1].kind = "Return" /\ pending'[sent + 1].arg = pid
  BY <1>4, SMT
<1> HIDE DEF pid
<1>5. \A s \in syscallMap : s.pid \in PIDs /\ process[s.pid] # a
  BY <1>1 DEF Inv, CallsOK
<1>6. \A n \in DOMAIN pending : pending[n].kind # "Timer" => process[pending[n].arg] # a
  BY <1>1 DEF Inv, QueueOK, QueuedKinds, MessagesOK
<1>7. QueueOK'
  <2>1. now' \in Nat /\ sent' \in Nat /\ DOMAIN pending' \subseteq 1 .. sent'
    BY <1>4, SMT DEF Inv, QueueOK
  <2>2. pid \in Nat
    BY <1>2, HostAssumption, SMT DEF PIDs
  <2>3. ASSUME NEW n \in DOMAIN pending'
        PROVE  /\ pending'[n] \in QueuedKinds
               /\ pending'[n].wakeup >= now
               /\ pending'[n].kind # "Timer" => pending'[n].arg \in PIDs /\ pending'[n].wakeup = now
               /\ pending'[n].kind = "Timer" => pending'[n].arg < syscallIDStart
    <3>1. CASE n \in DOMAIN pending
      BY <1>4, <3>1 DEF Inv, QueueOK
    <3>2. CASE n = sent + 1
      <4>1. now \in Nat
        BY DEF Inv, QueueOK
      <4> QED BY <1>2, <1>4, <2>2, <3>2, <4>1, SMT DEF QueuedKinds
    <3> QED BY <1>4, <3>1, <3>2
  <2> QED BY <1>1, <1>4, <2>1, <2>3 DEF Inv, QueueOK
<1>8. TypesOK'
  BY <1>1 DEF Inv, TypesOK, States
<1>9. TableOK'
  <2>1. \A b \in Apps :
           /\ state'[b] \notin {"NONE", "DESTROYED"} <=> state[b] \notin {"NONE", "DESTROYED"}
           /\ state'[b] \in {"NONE", "CREATED"} => state[b] \in {"NONE", "CREATED"}
    <3>1. state[a] = "RUNNING" /\ state'[a] = "TERMINATED"
      BY <1>1, <1>3
    <3>2. \A b \in Apps : b # a => state'[b] = state[b]
      BY <1>3
    <3> QED BY <3>1, <3>2
  <2> QED BY <1>1, <2>1 DEF Inv, TableOK
<1>10. CallsOK'
  <2>1. \A s \in syscallMap : s.id < syscallIDStart'
    BY <1>1 DEF Inv, CallsOK
  <2> QED BY <1>1, <1>3, <1>5, <2>1, CallsKept DEF Inv
<1>11. MessagesOK'
  <2>1. process'[pid] = a /\ state'[a] = "TERMINATED"
    BY <1>1, <1>2, <1>3
  <2>2. \A n \in DOMAIN pending :
           pending[n].kind # "Timer" => pending[n].arg # pid /\ process[pending[n].arg] # a
    BY <1>2, <1>6
  <2>3. \A n \in DOMAIN pending :
           pending[n].kind # "Timer" =>
              /\ pending[n].arg # pid
              /\ process[pending[n].arg] \in Apps =>
                   /\ state'[process[pending[n].arg]] = state[process[pending[n].arg]]
                   /\ call'[process[pending[n].arg]] = call[process[pending[n].arg]]
    BY <1>1, <1>3, <2>2
  <2>4. MessagesOK /\ now' = now /\ process' = process /\ syscallMap' = syscallMap
    BY <1>1, <1>4 DEF Inv
  <2>5. /\ pending'[sent + 1].kind # "Timer" /\ pending'[sent + 1].kind # "Syscall"
        /\ process'[pid] \in Apps
        /\ state'[process'[pid]] = "TERMINATED"
    BY <1>4a, <2>1
  <2>6. /\ DOMAIN pending' = DOMAIN pending \cup {sent + 1}
        /\ \A n \in DOMAIN pending : pending'[n] = pending[n]
    BY <1>4
  <2> QED BY <1>4a, <2>3, <2>4, <2>5, <2>6, MessageAdded, SMT
<1>12. TimersOK'
  <2>1. \A n \in DOMAIN pending' :
           pending'[n].kind = "Timer" => n \in DOMAIN pending /\ pending'[n] = pending[n]
    BY <1>4, <1>4a
  <2> QED BY <1>1, <2>1, TimersKept DEF Inv
<1>13. SleepExact'
  <2>1. SleepExact
    BY DEF Inv
  <2>2. \A b \in Apps : state'[b] = "READY" => state[b] = "READY"
    BY <1>3, SMT
  <2> QED BY <1>1, <1>4, <2>1, <2>2 DEF SleepExact
<1> QED BY <1>7, <1>8, <1>9, <1>10, <1>11, <1>12, <1>13 DEF Inv

LEMMA AtOncePreserves ==
    ASSUME FiniteSetFacts, Inv, NEW m \in DOMAIN pending, NEW kinds, NEW val \in Int,
           AtOnce(m, kinds, val)
    PROVE  Inv'
<1> DEFINE a == Caller(m)
<1>a. ReceiveSyscall(m, kinds) /\ returnSystemCall({FreeID}, Tracked(m), val)
      /\ "nsleep" \notin kinds /\ Allocate
  BY DEF AtOnce
<1>b. pending' = Without(m) /\ sent' = sent
  BY DEF AtOnce
<1>c. process' = process /\ pidStart' = pidStart
  BY DEF AtOnce
<1>1. /\ a \in Apps /\ state[a] = "WAITING" /\ syscallMap' = syscallMap
      /\ state' = [state EXCEPT ![a] = "READY"]
      /\ syscallRet' = [syscallRet EXCEPT ![a] = val]
  BY <1>a, AnsweredAtOnce
<1>2. Receive(m, "Syscall")
  BY <1>a DEF ReceiveSyscall
<1>3. /\ now' \in Nat /\ now' >= now /\ now' = pending[m].wakeup
      /\ pending[m].kind = "Syscall"
      /\ \A n \in DOMAIN pending : pending[n].wakeup >= now'
      /\ till' = till /\ call' = call
  BY <1>2, ReceiveMovesClock DEF Inv
<1>4. now' = now
  BY <1>3 DEF Inv, QueueOK
<1>5. call[a].kind # "nsleep"
  BY <1>a DEF ReceiveSyscall, Request
<1>6. syscallIDStart \in Nat /\ syscallIDStart' = syscallIDStart + 1
  BY <1>a, FreeIDIsNext DEF Allocate, Inv, QueueOK
<1>6a. syscallIDStart' \in Nat /\ syscallIDStart' >= syscallIDStart
  BY <1>6, SMT
<1>7. /\ QueueOK'
      /\ DOMAIN pending' = DOMAIN pending \ {m}
      /\ \A n \in DOMAIN pending' : pending'[n] = pending[n]
  BY <1>b, <1>3, <1>6a, ConsumeKeeps DEF Inv
<1>8. \A b \in Apps : /\ state'[b] = IF b = a THEN "READY" ELSE state[b]
                      /\ b # a => syscallRet'[b] = syscallRet[b] /\ own'[b] = own[b]
  <2>1. \A b \in Apps : state'[b] = IF b = a THEN "READY" ELSE state[b]
    BY <1>1 DEF Inv, TypesOK
  <2>2. \A b \in Apps : b # a => syscallRet'[b] = syscallRet[b]
    BY <1>1 DEF Inv, TypesOK
  <2>3. \A b \in Apps : b # a => own'[b] = own[b]
    BY DEF AtOnce
  <2> QED BY <2>1, <2>2, <2>3
\* Nothing else concerns the process.
<1>9. pending[m].arg \in PIDs /\ process[pending[m].arg] = a
  BY <1>3 DEF Inv, QueueOK, Caller
<1> HIDE DEF a
<1>10. \A s \in syscallMap : s.pid \in PIDs /\ process[s.pid] # a
  <2>1. \A s \in syscallMap : s.pid \in PIDs /\ s.pid # pending[m].arg
    BY <1>3 DEF Inv, CallsOK, MessagesOK
  <2> QED BY <1>1, <1>9, <2>1, HostAssumption DEF Inv, TableOK
<1>11. \A n \in DOMAIN pending' : pending[n].kind # "Timer" => process[pending[n].arg] # a
  <2> SUFFICES ASSUME NEW n \in DOMAIN pending', pending[n].kind # "Timer",
                      process[pending[n].arg] = a
               PROVE  FALSE
    OBVIOUS
  <2>1. n \in DOMAIN pending /\ n # m /\ pending[n].arg \in PIDs
    BY <1>7 DEF Inv, QueueOK
  <2>2. pending[n].arg = pending[m].arg
    BY <1>1, <1>9, <2>1, HostAssumption, SMT DEF Inv, TableOK
  <2>3. pending[n].kind = "Syscall"
    BY <1>1, <2>1 DEF Inv, QueueOK, QueuedKinds, MessagesOK
  <2> QED BY <1>3, <2>1, <2>2, <2>3 DEF Inv, MessagesOK
<1>12. TypesOK'
  <2>1. state' \in [Apps -> States] /\ syscallRet' \in [Apps -> Int]
    BY <1>1 DEF Inv, TypesOK, States
  <2> QED BY <1>c, <1>3, <2>1 DEF Inv, TypesOK, AtOnce
<1>13. TableOK'
  <2>1. \A b \in Apps : state'[b] \notin {"NONE", "DESTROYED"} <=> state[b] \notin {"NONE", "DESTROYED"}
    BY <1>1, <1>8, SMT
  <2>2. \A b \in Apps :
           state'[b] \in {"NONE", "CREATED"} => call'[b].kind = "none" /\ own'[b] = {}
    BY <1>3, <1>8 DEF Inv, TableOK
  <2> QED BY <1>c, <2>1, <2>2 DEF Inv, TableOK
<1>14. CallsOK'
  <2>1. \A s \in syscallMap : s.id < syscallIDStart'
    BY <1>1, <1>6, SMT DEF Inv, CallsOK
  <2> QED BY <1>c, <1>1, <1>3, <1>8, <1>10, <2>1, CallsKept DEF Inv
<1>15. MessagesOK'
  <2> SUFFICES ASSUME NEW n \in DOMAIN pending', pending'[n].kind # "Timer"
               PROVE  /\ n \in DOMAIN pending /\ pending'[n] = pending[n]
                      /\ process[pending[n].arg] \in Apps =>
                           state'[process[pending[n].arg]] = state[process[pending[n].arg]]
                      /\ pending[n].kind = "Syscall" =>
                           \A s \in syscallMap' : s.pid # pending[n].arg
    BY <1>c, <1>3, <1>4, MessagesKept DEF Inv
  <2>1. n \in DOMAIN pending /\ pending'[n] = pending[n]
    BY <1>7
  <2>2. process[pending[n].arg] # a
    BY <1>11, <2>1
  <2>3. pending[n].kind = "Syscall" => \A s \in syscallMap' : s.pid # pending[n].arg
    BY <1>1, <2>1 DEF Inv, MessagesOK
  <2> QED BY <1>8, <2>1, <2>2, <2>3
<1>16. TimersOK'
  BY <1>c, <1>1, <1>3, <1>7, TimersKept DEF Inv
<1>17. SleepExact'
  BY <1>3, <1>4, <1>5, <1>8 DEF Inv, SleepExact
<1> QED BY <1>7, <1>12, <1>13, <1>14, <1>15, <1>16, <1>17 DEF Inv

LEMMA HeldPreserves ==
    ASSUME FiniteSetFacts, Inv, NEW m \in DOMAIN pending, NEW kind \in {"nsleep", "io"},
           Held(m, kind)
    PROVE  Inv'
<1> DEFINE a == Caller(m)
           pid == pending[m].arg
           id == FreeID
<1>a. UNCHANGED <<state, process, fds, pidStart, syscallRet, own, late>>
  BY DEF Held
<1>b. sent' \in Nat /\ sent' >= sent /\ DOMAIN pending' \subseteq 1 .. sent'
  BY DEF Held
<1>1. Receive(m, "Syscall") /\ call[a].kind = kind
  BY DEF Held, ReceiveSyscall, Request
<1>2. /\ now' \in Nat /\ now' >= now /\ now' = pending[m].wakeup
      /\ pending[m].kind = "Syscall"
      /\ \A n \in DOMAIN pending : pending[n].wakeup >= now'
      /\ till' = till /\ call' = call
  BY <1>1, ReceiveMovesClock DEF Inv
<1>3. now' = now
  BY <1>2 DEF Inv, QueueOK
<1>4. pid \in PIDs /\ process[pid] = a /\ a \in Apps /\ state[a] = "WAITING" /\ call[a].at = now
  BY <1>2 DEF Inv, QueueOK, MessagesOK, Caller
<1>5. id = syscallIDStart /\ id \in Nat /\ syscallIDStart' = id + 1
  BY FreeIDIsNext DEF Held, Allocate, Inv, QueueOK
<1>6. syscallMap' = syscallMap \cup {[id |-> id, pid |-> pid]}
  BY DEF Held, Tracked
<1>7. call[a].arg \in Nat /\ Request(m).arg = call[a].arg
  BY <1>4 DEF Inv, TypesOK, Request
<1>8. \A n \in DOMAIN pending' :
         \/ n \in DOMAIN pending \ {m} /\ pending'[n] = pending[n]
         \/ kind = "nsleep" /\ pending'[n] = [kind |-> "Timer", arg |-> id, wakeup |-> now + call[a].arg]
  BY <1>3, <1>7 DEF Held, Message
<1> HIDE DEF a, pid, id
<1>9. \A s \in syscallMap : s.pid \in PIDs /\ s.pid # pid /\ s.id \in Nat /\ s.id < id
  BY <1>2, <1>5 DEF Inv, CallsOK, MessagesOK, pid
<1>10. \A n \in DOMAIN pending \ {m} : pending[n].kind = "Syscall" => pending[n].arg # pid
  BY <1>2 DEF Inv, MessagesOK, pid
<1>11. QueueOK'
  <2>1. ASSUME NEW n \in DOMAIN pending'
        PROVE  /\ pending'[n] \in QueuedKinds
               /\ pending'[n].wakeup >= now'
               /\ pending'[n].kind # "Timer" => pending'[n].arg \in PIDs /\ pending'[n].wakeup = now'
               /\ pending'[n].kind = "Timer" => pending'[n].arg < syscallIDStart'
    <3>1. CASE n \in DOMAIN pending \ {m} /\ pending'[n] = pending[n]
      <4>1. /\ pending[n] \in QueuedKinds
            /\ pending[n].wakeup >= now
            /\ pending[n].kind # "Timer" => pending[n].arg \in PIDs /\ pending[n].wakeup = now
            /\ pending[n].kind = "Timer" => pending[n].arg < syscallIDStart
        BY <3>1 DEF Inv, QueueOK
      <4>2. pending[n].arg \in Nat
        BY <4>1 DEF QueuedKinds
      <4> QED BY <1>3, <1>5, <3>1, <4>1, <4>2, SMT
    <3>2. CASE pending'[n] = [kind |-> "Timer", arg |-> id, wakeup |-> now + call[a].arg]
      BY <1>2, <1>3, <1>5, <1>7, <3>2, SMT DEF QueuedKinds
    <3> QED BY <1>8, <3>1, <3>2
  <2> QED BY <1>b, <1>2, <1>5, <2>1, SMT DEF QueueOK
<1>12. TypesOK' /\ TableOK'
  BY <1>a, <1>2 DEF Inv, TypesOK, TableOK
<1>13. CallsOK'
  <2>1. syscallMap' \subseteq [id : Nat, pid : PIDs] /\ IsFiniteSet(syscallMap')
    <3>1. syscallMap' \subseteq [id : Nat, pid : PIDs]
      BY <1>4, <1>5, <1>6, SMT DEF Inv, CallsOK
    <3>2. IsFiniteSet(syscallMap)
      BY DEF Inv, CallsOK
    <3>3. \A s : IsFiniteSet(syscallMap \cup {s})
      BY <3>2 DEF FiniteSetFacts, AddedCountsOne
    <3> QED BY <1>6, <3>1, <3>3
  <2>2. ASSUME NEW s \in syscallMap'
        PROVE  /\ s.id < syscallIDStart'
               /\ process'[s.pid] \in Apps
               /\ state'[process'[s.pid]] = "WAITING"
               /\ call'[process'[s.pid]].kind \in {"nsleep", "io"}
    <3>1. CASE s \in syscallMap
      <4>1. s.id < syscallIDStart'
        BY <1>5, <1>9, <3>1, SMT
      <4> QED BY <1>a, <1>2, <3>1, <4>1 DEF Inv, CallsOK
    <3>2. CASE s = [id |-> id, pid |-> pid]
      <4>1. s.id = id /\ s.pid = pid
        BY <3>2
      <4>2. s.id < syscallIDStart'
        BY <1>5, <4>1, SMT
      <4> QED BY <1>a, <1>1, <1>2, <1>4, <4>1, <4>2 DEF a
    <3> QED BY <1>6, <3>1, <3>2
  <2>3. ASSUME NEW s \in syscallMap', NEW t \in syscallMap', s.id = t.id \/ s.pid = t.pid
        PROVE  s = t
    <3>1. \A r \in syscallMap : r.id # id /\ r.pid # pid
      BY <1>5, <1>9, SMT
    <3>2. s \in syscallMap <=> t \in syscallMap
      BY <1>6, <2>3, <3>1, SMT
    <3>3. CASE s \in syscallMap
      BY <2>3, <3>2, <3>3 DEF Inv, CallsOK
    <3> QED BY <1>6, <3>2, <3>3
  <2> QED BY <2>1, <2>2, <2>3 DEF CallsOK
<1>14. MessagesOK'
  <2>1. \A n \in DOMAIN pending' :
           pending'[n].kind # "Timer" => n \in DOMAIN pending \ {m} /\ pending'[n] = pending[n]
    BY <1>8, SMT
  <2>2. ASSUME NEW n \in DOMAIN pending', pending'[n].kind = "Syscall"
        PROVE  \A s \in syscallMap' : s.pid # pending'[n].arg
    BY <1>6, <1>10, <2>1, <2>2, SMT DEF Inv, MessagesOK
  <2> QED BY <1>a, <1>2, <1>3, <2>1, <2>2, MessagesKept DEF Inv
<1>15. TimersOK'
  <2> SUFFICES ASSUME NEW n \in DOMAIN pending', NEW s \in syscallMap',
                      pending'[n].kind = "Timer", pending'[n].arg = s.id
               PROVE  /\ call'[process'[s.pid]].kind = "nsleep"
                      /\ pending'[n].wakeup =
                           call'[process'[s.pid]].at + call'[process'[s.pid]].arg
    BY DEF TimersOK
  <2>1. CASE n \in DOMAIN pending \ {m} /\ pending'[n] = pending[n]
    <3>1. pending[n].arg \in Nat /\ pending[n].arg < id
      BY <1>5, <2>1 DEF Inv, QueueOK, QueuedKinds
    <3>2. s \in syscallMap
      BY <1>5, <1>6, <2>1, <3>1, SMT
    <3> QED BY <1>a, <1>2, <2>1, <3>2 DEF Inv, TimersOK
  <2>2. CASE kind = "nsleep" /\ pending'[n] = [kind |-> "Timer", arg |-> id, wakeup |-> now + call[a].arg]
    <3>1. s = [id |-> id, pid |-> pid]
      BY <1>5, <1>6, <1>9, <2>2, SMT
    <3>2. s.pid = pid /\ pending'[n].wakeup = now + call[a].arg
      BY <2>2, <3>1, SMT
    <3> QED BY <1>a, <1>1, <1>2, <1>4, <2>2, <3>2 DEF a
  <2> QED BY <1>8, <2>1, <2>2
<1>16. SleepExact'
  BY <1>a, <1>2, <1>3 DEF Inv, SleepExact
<1> QED BY <1>11, <1>12, <1>13, <1>14, <1>15, <1>16 DEF Inv

LEMMA TrackedPreserves ==
    ASSUME FiniteSetFacts, Inv, NEW ids, NEW val \in Int, AnswersTracked(ids, val)
    PROVE  Inv'
<1>a. Consumes /\ UNCHANGED <<till, process, fds, pidStart, syscallIDStart, call, own, late>>
  BY DEF AnswersTracked
<1>1. /\ \A a \in Callers(ids) : a \in Apps /\ state[a] = "WAITING"
      /\ syscallMap' = syscallMap \ Found(ids)
      /\ state' = [a \in Apps |-> IF a \in Callers(ids) THEN "READY" ELSE state[a]]
      /\ syscallRet' = [a \in Apps |-> IF a \in Callers(ids) THEN val ELSE syscallRet[a]]
  BY TrackedAnswered, SMT DEF AnswersTracked
<1>2. \A a \in Apps : /\ state'[a] = IF a \in Callers(ids) THEN "READY" ELSE state[a]
                      /\ syscallRet'[a] = IF a \in Callers(ids) THEN val ELSE syscallRet[a]
  BY <1>1
\* The calls that stay tracked and the queued ones have other callers.
<1>3. \A s \in syscallMap' : s \in syscallMap /\ s.pid \in PIDs /\ process[s.pid] \notin Callers(ids)
  <2> SUFFICES ASSUME NEW s \in syscallMap', NEW t \in Found(ids), process[s.pid] = process[t.pid]
               PROVE  FALSE
    BY <1>1 DEF Inv, CallsOK, Callers
  <2>1. s \in syscallMap /\ t \in syscallMap /\ s \notin Found(ids)
    BY <1>1 DEF Found
  <2>2. s.pid \in PIDs /\ t.pid \in PIDs /\ process[t.pid] # None
    BY <2>1, HostAssumption DEF Inv, CallsOK
  <2>3. s.pid = t.pid
    BY <2>2 DEF Inv, TableOK
  <2>4. s = t
    BY <2>1, <2>3 DEF Inv, CallsOK
  <2> QED BY <2>1, <2>4
<1>4. \A n \in DOMAIN pending : pending[n].kind # "Timer" => process[pending[n].arg] \notin Callers(ids)
  <2> SUFFICES ASSUME NEW n \in DOMAIN pending, pending[n].kind # "Timer",
                      NEW t \in Found(ids), process[pending[n].arg] = process[t.pid]
               PROVE  FALSE
    BY DEF Callers
  <2>1. t \in syscallMap /\ t.pid \in PIDs /\ process[t.pid] # None /\ state[process[t.pid]] = "WAITING"
    BY HostAssumption DEF Inv, CallsOK, Found
  <2>2. pending[n].arg \in PIDs /\ pending[n].kind \in {"Syscall", "Return"}
    BY DEF Inv, QueueOK, QueuedKinds
  <2>3. pending[n].arg = t.pid
    BY <2>1, <2>2 DEF Inv, TableOK
  <2>4. pending[n].kind = "Syscall"
    BY <2>1, <2>2 DEF Inv, MessagesOK
  <2> QED BY <2>1, <2>3, <2>4 DEF Inv, MessagesOK
<1>5. \A n \in DOMAIN pending : pending[n].kind # "Timer" => now' = now
  BY <1>a, SMT DEF Consumes, Inv, QueueOK
<1>6. TypesOK'
  <2>1. state' \in [Apps -> States]
    BY <1>1 DEF Inv, TypesOK, States
  <2>2. syscallRet' \in [Apps -> Int]
    BY <1>1 DEF Inv, TypesOK
  <2> QED BY <1>a, <2>1, <2>2 DEF Inv, TypesOK
<1>7. TableOK'
  BY <1>a, <1>1, <1>2 DEF Inv, TableOK
<1>8. CallsOK'
  <2>1. IsFiniteSet(syscallMap')
    BY <1>1 DEF Inv, CallsOK, FiniteSetFacts, SubsetsCountLess
  <2> QED BY <1>a, <1>2, <1>3, <2>1 DEF Inv, CallsOK
<1>9. MessagesOK'
  <2> SUFFICES ASSUME NEW n \in DOMAIN pending', pending'[n].kind # "Timer"
               PROVE  /\ n \in DOMAIN pending /\ pending'[n] = pending[n] /\ now' = now
                      /\ process[pending[n].arg] \in Apps =>
                           state'[process[pending[n].arg]] = state[process[pending[n].arg]]
                      /\ pending[n].kind = "Syscall" =>
                           \A s \in syscallMap' : s.pid # pending[n].arg
    BY <1>a, MessagesKept DEF Inv
  <2>1. n \in DOMAIN pending /\ pending'[n] = pending[n]
    BY <1>a DEF Consumes
  <2>2. pending[n].kind = "Syscall" => \A s \in syscallMap' : s.pid # pending[n].arg
    BY <1>3, <2>1 DEF Inv, MessagesOK
  <2> QED BY <1>2, <1>4, <1>5, <2>1, <2>2
<1>10. TimersOK'
  BY <1>a, <1>3, SMT DEF Consumes, Inv, TimersOK
<1>11. SleepExact'
  BY <1>a, <1>2 DEF AnswersTracked, Consumes, Inv, SleepExact
<1> QED BY <1>6, <1>7, <1>8, <1>9, <1>10, <1>11, <1>a DEF Consumes, Inv

LEMMA QuietPreserves ==
    ASSUME Inv, Quiet
    PROVE  Inv'
<1>a. /\ Consumes
      /\ UNCHANGED <<state, process, pidStart, till, syscallMap, syscallIDStart>>
      /\ UNCHANGED <<call, syscallRet, own>>
  BY DEF Quiet
<1>1. \A n \in DOMAIN pending : pending[n].kind # "Timer" => now' = now
  BY <1>a, SMT DEF Consumes, Inv, QueueOK
<1>2. TypesOK'
  BY <1>a DEF Quiet, Inv, TypesOK
<1>3. TableOK'
  BY <1>a DEF Inv, TableOK
<1>4. CallsOK'
  BY <1>a DEF Inv, CallsOK
<1>5. \A n \in DOMAIN pending' : n \in DOMAIN pending /\ pending'[n] = pending[n]
  BY <1>a DEF Consumes
<1>6. MessagesOK'
  <2>1. ASSUME NEW m \in DOMAIN pending', NEW n \in DOMAIN pending',
               pending'[m].kind = pending'[n].kind, pending'[m].kind # "Timer",
               pending'[m].arg = pending'[n].arg
        PROVE  m = n
    <3>1. /\ m \in DOMAIN pending /\ pending'[m] = pending[m]
          /\ n \in DOMAIN pending /\ pending'[n] = pending[n]
      BY <1>5
    <3> QED BY <2>1, <3>1 DEF Inv, MessagesOK
  <2>2. ASSUME NEW m \in DOMAIN pending', pending'[m].kind = "Return"
        PROVE  /\ process'[pending'[m].arg] \in Apps
               /\ state'[process'[pending'[m].arg]] = "TERMINATED"
    <3>1. m \in DOMAIN pending /\ pending'[m] = pending[m]
      BY <1>5
    <3> QED BY <1>a, <2>2, <3>1 DEF Inv, MessagesOK
  <2>3. ASSUME NEW m \in DOMAIN pending', pending'[m].kind = "Syscall"
        PROVE  /\ process'[pending'[m].arg] \in Apps
               /\ state'[process'[pending'[m].arg]] = "WAITING"
               /\ call'[process'[pending'[m].arg]].at = now'
               /\ \A s \in syscallMap' : s.pid # pending'[m].arg
    <3>1. m \in DOMAIN pending /\ pending'[m] = pending[m] /\ now' = now
      BY <1>1, <1>5, <2>3
    <3> QED BY <1>a, <2>3, <3>1 DEF Inv, MessagesOK
  <2> QED BY <2>1, <2>2, <2>3 DEF MessagesOK
<1>7. TimersOK'
  BY <1>a, <1>5 DEF Inv, TimersOK
<1>8. SleepExact'
  BY <1>a DEF Consumes, Inv, SleepExact
<1>9. QueueOK'
  BY <1>a DEF Consumes
<1> QED BY <1>2, <1>3, <1>4, <1>6, <1>7, <1>8, <1>9 DEF Inv

LEMMA ReturnedPreserves ==
    ASSUME Inv, NEW m \in DOMAIN pending, returned(m)
    PROVE  Inv'
<1> DEFINE pid == pending[m].arg
           a == process[pid]
<1>1. /\ a \in Apps /\ state[a] = "TERMINATED" /\ pid \in PIDs
      /\ \A s \in syscallMap : s.pid # pid
      /\ state' = [state EXCEPT ![a] = "DESTROYED"]
      /\ process' = [process EXCEPT ![pid] = None]
      /\ fds' = [fds EXCEPT ![pid] = {}]
  BY ReturnedFinds
<1>2. Receive(m, "Return") /\ pending' = Without(m)
      /\ UNCHANGED <<sent, pidStart, syscallMap, syscallIDStart, syscallRet, own, late>>
  BY DEF returned
<1>3. /\ now' \in Nat /\ now' >= now /\ now' = pending[m].wakeup
      /\ pending[m].kind = "Return"
      /\ \A n \in DOMAIN pending : pending[n].wakeup >= now'
      /\ till' = till /\ call' = call
  BY <1>2, ReceiveMovesClock DEF Inv
<1>4. now' = now
  BY <1>3 DEF Inv, QueueOK
<1>5. /\ QueueOK'
      /\ DOMAIN pending' = DOMAIN pending \ {m}
      /\ \A n \in DOMAIN pending' : pending'[n] = pending[n]
  <2>1. syscallIDStart' \in Nat /\ syscallIDStart' >= syscallIDStart
    BY <1>2, SMT DEF Inv, QueueOK
  <2> QED BY <1>2, <1>3, <2>1, ConsumeKeeps DEF Inv
<1>6. \A b \in Apps : state'[b] = IF b = a THEN "DESTROYED" ELSE state[b]
  BY <1>1 DEF Inv, TypesOK
<1>7. \A q \in PIDs : process'[q] = IF q = pid THEN None ELSE process[q]
  BY <1>1 DEF Inv, TypesOK
<1>8. \A q \in PIDs : q # pid => process[q] # a
  BY <1>1, HostAssumption DEF Inv, TableOK
<1>9. \A n \in DOMAIN pending' : pending[n].kind # "Timer" => pending[n].arg \in PIDs /\ pending[n].arg # pid
  <2> SUFFICES ASSUME NEW n \in DOMAIN pending', pending[n].kind # "Timer"
               PROVE  pending[n].arg \in PIDs /\ pending[n].arg # pid
    OBVIOUS
  <2>1. n \in DOMAIN pending /\ n # m /\ pending[n].arg \in PIDs
        /\ pending[n].kind \in {"Syscall", "Return"}
    BY <1>5 DEF Inv, QueueOK, QueuedKinds
  <2> QED BY <1>1, <1>3, <2>1 DEF Inv, MessagesOK
<1> HIDE DEF a, pid
<1>10. TypesOK'
  BY <1>1, <1>2, <1>3 DEF Inv, TypesOK, States
<1>11. TableOK'
  <2>1. \A p, q \in PIDs : process'[p] = process'[q] /\ process'[p] # None => p = q
    BY <1>7, SMT DEF Inv, TableOK
  <2>2. \A b \in Apps : state'[b] \notin {"NONE", "DESTROYED"} <=> \E p \in PIDs : process'[p] = b
    BY <1>1, <1>6, <1>7, <1>8, HostAssumption, SMT DEF Inv, TableOK, a
  <2>3. \A b \in Apps :
           state'[b] \in {"NONE", "CREATED"} => call'[b].kind = "none" /\ own'[b] = {}
    BY <1>2, <1>3, <1>6 DEF Inv, TableOK
  <2> QED BY <2>1, <2>2, <2>3 DEF TableOK
<1>12. \A s \in syscallMap : s.pid \in PIDs /\ process'[s.pid] = process[s.pid] /\ process[s.pid] # a
  BY <1>1, <1>7, <1>8 DEF Inv, CallsOK
<1>13. CallsOK'
  <2>1. \A s \in syscallMap : s.id < syscallIDStart'
    BY <1>2 DEF Inv, CallsOK
  <2> QED BY <1>2, <1>3, <1>6, <1>12, <2>1, CallsKept DEF Inv
<1>14. \A n \in DOMAIN pending' :
          pending[n].kind # "Timer" =>
             process'[pending[n].arg] = process[pending[n].arg] /\ process[pending[n].arg] # a
  BY <1>7, <1>8, <1>9
<1>15. MessagesOK'
  <2> SUFFICES ASSUME NEW n \in DOMAIN pending', pending'[n].kind # "Timer"
               PROVE  /\ n \in DOMAIN pending /\ pending'[n] = pending[n]
                      /\ process'[pending[n].arg] = process[pending[n].arg]
                      /\ process[pending[n].arg] \in Apps =>
                           state'[process[pending[n].arg]] = state[process[pending[n].arg]]
                      /\ pending[n].kind = "Syscall" =>
                           \A s \in syscallMap' : s.pid # pending[n].arg
    BY <1>3, <1>4, MessagesKept DEF Inv
  <2>1. n \in DOMAIN pending /\ pending'[n] = pending[n]
    BY <1>5
  <2>2. /\ process'[pending[n].arg] = process[pending[n].arg]
        /\ process[pending[n].arg] # a
    BY <1>14, <2>1
  <2>3. pending[n].kind = "Syscall" => \A s \in syscallMap' : s.pid # pending[n].arg
    BY <1>2, <2>1 DEF Inv, MessagesOK
  <2> QED BY <1>6, <2>1, <2>2, <2>3
<1>16. TimersOK'
  BY <1>2, <1>3, <1>5, <1>12, TimersKept DEF Inv
<1>17. SleepExact'
  BY <1>2, <1>3, <1>4, <1>6 DEF Inv, SleepExact
<1> QED BY <1>5, <1>10, <1>11, <1>13, <1>15, <1>16, <1>17 DEF Inv
=============================================================================
