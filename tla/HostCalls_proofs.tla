-------------------------- MODULE HostCalls_proofs --------------------------
(***************************************************************************)
(* Every action keeps Inv (HostInv), as a step of one of the kinds treated *)
(* in HostSteps_proofs; and, given Inv and Kept, it keeps Served: blocked  *)
(* calls are answered.                                                     *)
(***************************************************************************)
EXTENDS HostSteps_proofs

\* Most steps are first-order logic, and Zenon finds them; those with numbers say SMT.
USE ZenonT(30)
-----------------------------------------------------------------------------
(* Every action keeps the invariant *)

LEMMA ReceiveConsumes ==
    ASSUME Inv, NEW m \in DOMAIN pending, NEW kind, Receive(m, kind),
           pending' = Without(m), UNCHANGED <<sent, syscallIDStart>>
    PROVE  Consumes
<1>1. /\ now' \in Nat /\ now' >= now
      /\ \A n \in DOMAIN pending : pending[n].wakeup >= now'
      /\ \A a \in Apps : state[a] # "READY"
  BY ReceiveMovesClock DEF Inv
<1>2. syscallIDStart' \in Nat /\ syscallIDStart' >= syscallIDStart
  BY SMT DEF Inv, QueueOK
<1>3. /\ QueueOK'
      /\ DOMAIN pending' = DOMAIN pending \ {m}
      /\ \A n \in DOMAIN pending' : pending'[n] = pending[n]
  BY <1>1, <1>2, ConsumeKeeps DEF Inv
<1> QED BY <1>1, <1>3 DEF Consumes

\* An event of the protocol comes before any queued message.
LEMMA EventConsumes ==
    ASSUME Inv, protocolEvent
    PROVE  Consumes
<1>1. /\ now' \in Nat /\ now' >= now
      /\ \A n \in DOMAIN pending : pending[n].wakeup >= now'
      /\ \A a \in Apps : state[a] # "READY"
      /\ UNCHANGED <<sent, pending, syscallIDStart>>
  BY HostAssumption, SMT DEF protocolEvent, Drained, Inv, QueueOK, QueuedKinds
<1>2. QueueOK'
  BY <1>1, SMT DEF Inv, QueueOK, QueuedKinds
<1> QED BY <1>1, <1>2 DEF Consumes

LEMMA StillConsumes ==
    ASSUME Inv, UNCHANGED <<now, sent, pending, syscallIDStart>>
    PROVE  Consumes
<1>1. QueueOK'
  BY DEF Inv, QueueOK
<1> QED BY <1>1, SMT DEF Consumes, Inv, QueueOK

LEMMA AnsweringHandlersPreserve ==
    ASSUME FiniteSetFacts, Inv, NEW m \in DOMAIN pending,
           gettimeofday(m) \/ socket(m) \/ ioAnswered(m) \/ closeNow(m) \/ closeLate(m)
    PROVE  Inv'
<1>1. /\ fds \in [PIDs -> SUBSET FDs] /\ own \in [Apps -> SUBSET FDs]
      /\ late \subseteq [pid : PIDs, fd : FDs, app : Apps]
  BY DEF Inv, TypesOK
<1>2. 0 \in Int
  BY SMT
<1>3. CASE gettimeofday(m)
  <2>1. /\ ReceiveSyscall(m, {"gettimeofday"}) /\ Allocate
        /\ returnSystemCall({FreeID}, Tracked(m), 0) /\ pending' = Without(m)
        /\ UNCHANGED <<sent, process, fds, pidStart, own, late>>
    BY <1>3 DEF gettimeofday, tableVars
  <2>2. AtOnce(m, {"gettimeofday"}, 0)
    BY <1>1, <2>1 DEF AtOnce
  <2> QED BY <1>2, <2>2, AtOncePreserves
<1>4. CASE ioAnswered(m)
  <2>1. /\ ReceiveSyscall(m, {"io"}) /\ Allocate
        /\ returnSystemCall({FreeID}, Tracked(m), 0) /\ pending' = Without(m)
        /\ UNCHANGED <<sent, process, fds, pidStart, own, late>>
    BY <1>4 DEF ioAnswered, ReceiveOnFD
  <2>2. AtOnce(m, {"io"}, 0)
    BY <1>1, <2>1 DEF AtOnce
  <2> QED BY <1>2, <2>2, AtOncePreserves
<1>5. CASE closeNow(m)
  <2>1. /\ ReceiveSyscall(m, {"close"}) /\ Allocate
        /\ returnSystemCall({FreeID}, Tracked(m), 0) /\ pending' = Without(m)
        /\ UNCHANGED <<sent, process, pidStart, own, late>>
        /\ fds' = [fds EXCEPT ![pending[m].arg] = @ \ {Request(m).arg}]
    BY <1>5 DEF closeNow, ReceiveOnFD
  <2>2. fds' \in [PIDs -> SUBSET FDs]
    BY <1>1, <2>1
  <2>3. AtOnce(m, {"close"}, 0)
    BY <1>1, <2>1, <2>2 DEF AtOnce
  <2> QED BY <1>2, <2>3, AtOncePreserves
<1>6. CASE closeLate(m)
  <2>1. /\ ReceiveSyscall(m, {"close"}) /\ Allocate
        /\ returnSystemCall({FreeID}, Tracked(m), 0) /\ pending' = Without(m)
        /\ UNCHANGED <<sent, process, fds, pidStart, own>>
        /\ late' = late \cup {[pid |-> pending[m].arg, fd |-> Request(m).arg, app |-> Caller(m)]}
        /\ Request(m).arg \in fds[pending[m].arg]
    BY <1>6 DEF closeLate, ReceiveOnFD
  <2>2. pending[m].arg \in PIDs /\ Caller(m) \in Apps
    BY <2>1 DEF ReceiveSyscall, Receive, Inv, QueueOK
  <2>3. late' \subseteq [pid : PIDs, fd : FDs, app : Apps]
    BY <1>1, <2>1, <2>2, SMT
  <2>4. AtOnce(m, {"close"}, 0)
    BY <1>1, <2>1, <2>3 DEF AtOnce
  <2> QED BY <1>2, <2>4, AtOncePreserves
<1>7. CASE socket(m)
  <2> DEFINE pid == pending[m].arg
             fd == createFileDescriptor(fds[pid])
  <2>1. /\ ReceiveSyscall(m, {"socket"}) /\ Allocate
        /\ returnSystemCall({FreeID}, Tracked(m), fd) /\ pending' = Without(m)
        /\ UNCHANGED <<sent, process, pidStart, late>>
        /\ fds' = [fds EXCEPT ![pid] = @ \cup ({fd} \ {-1})]
        /\ own' = [own EXCEPT ![Caller(m)] = @ \cup ({fd} \ {-1})]
    BY <1>7 DEF socket
  <2>2. pid \in PIDs
    BY <2>1 DEF ReceiveSyscall, Receive, Inv, QueueOK
  <2>3. fd \in (FDs \ fds[pid]) \cup {-1}
    BY <1>1, <2>2, DescriptorChosen
  <2> HIDE DEF fd
  <2>4. fds' \in [PIDs -> SUBSET FDs] /\ own' \in [Apps -> SUBSET FDs]
    BY <1>1, <2>1, <2>3
  <2>5. fd \in Int
    BY <2>3, HostAssumption, SMT DEF FDs
  <2>6. \A b \in Apps \ {Caller(m)} : own'[b] = own[b]
    BY <1>1, <2>1
  <2>7. AtOnce(m, {"socket"}, fd)
    BY <1>1, <2>1, <2>4, <2>6 DEF AtOnce
  <2> QED BY <2>5, <2>7, AtOncePreserves
<1> QED BY <1>3, <1>4, <1>5, <1>6, <1>7

LEMMA HoldingHandlersPreserve ==
    ASSUME FiniteSetFacts, Inv, NEW m \in DOMAIN pending, nsleep(m) \/ ioHeld(m)
    PROVE  Inv'
<1>1. sent \in Nat /\ DOMAIN pending \subseteq 1 .. sent
  BY DEF Inv, QueueOK
<1>2. CASE nsleep(m)
  <2>1. /\ ReceiveSyscall(m, {"nsleep"}) /\ Allocate /\ syscallMap' = Tracked(m)
        /\ pending' = With(Without(m), Message("Timer", FreeID, now' + Request(m).arg))
        /\ sent' = sent + 1
        /\ UNCHANGED <<state, process, fds, pidStart, syscallRet, own, late>>
    BY <1>2 DEF nsleep, tableVars
  <2>2. /\ DOMAIN pending' = (DOMAIN pending \ {m}) \cup {sent + 1}
        /\ \A n \in DOMAIN pending' :
             pending'[n] = IF n = sent + 1
                             THEN Message("Timer", FreeID, now' + Request(m).arg)
                             ELSE pending[n]
    BY <2>1 DEF With, Without
  <2>3. sent' \in Nat /\ sent' >= sent /\ DOMAIN pending' \subseteq 1 .. sent'
    BY <1>1, <2>1, <2>2, SMT
  <2>4. \A n \in DOMAIN pending' :
           \/ n \in DOMAIN pending \ {m} /\ pending'[n] = pending[n]
           \/ /\ "nsleep" = "nsleep"
              /\ pending'[n] = Message("Timer", FreeID, now' + Request(m).arg)
    BY <2>2
  <2>5. Held(m, "nsleep")
    BY <2>1, <2>3, <2>4 DEF Held
  <2> QED BY <2>5, HeldPreserves
<1>3. CASE ioHeld(m)
  <2>1. /\ ReceiveSyscall(m, {"io"}) /\ Allocate /\ syscallMap' = Tracked(m)
        /\ pending' = Without(m) /\ sent' = sent
        /\ UNCHANGED <<state, process, fds, pidStart, syscallRet, own, late>>
    BY <1>3 DEF ioHeld, ReceiveOnFD
  <2>2. \A n \in DOMAIN pending' :
           \/ n \in DOMAIN pending \ {m} /\ pending'[n] = pending[n]
           \/ /\ "io" = "nsleep"
              /\ pending'[n] = Message("Timer", FreeID, now' + Request(m).arg)
    BY <2>1 DEF Without
  <2>3. sent' \in Nat /\ sent' >= sent /\ DOMAIN pending' \subseteq 1 .. sent'
    BY <1>1, <2>1, <2>2, SMT
  <2>4. Held(m, "io")
    BY <2>1, <2>2, <2>3 DEF Held
  <2> QED BY <2>4, HeldPreserves
<1> QED BY <1>2, <1>3

LEMMA OtherHandlersPreserve ==
    ASSUME FiniteSetFacts, Inv, NEW m \in DOMAIN pending,
           unsupported(m) \/ badDescriptor(m) \/ timerCallback(m)
    PROVE  Inv'
<1>1. CASE unsupported(m) \/ badDescriptor(m)
  <2>1. /\ Receive(m, "Syscall") /\ pending' = Without(m)
        /\ UNCHANGED <<sent, state, process, fds, pidStart, syscallMap, syscallIDStart>>
        /\ UNCHANGED <<syscallRet, own, late>>
    BY <1>1 DEF unsupported, badDescriptor, ReceiveSyscall, tableVars
  <2>2. UNCHANGED <<till, call>>
    BY <2>1 DEF Receive
  <2>3. Consumes
    BY <2>1, ReceiveConsumes
  <2>4. fds' \in [PIDs -> SUBSET FDs] /\ late' \subseteq late
    BY <2>1 DEF Inv, TypesOK
  <2>5. Quiet
    BY <2>1, <2>2, <2>3, <2>4 DEF Quiet
  <2> QED BY <2>5, QuietPreserves
<1>2. CASE timerCallback(m)
  <2> DEFINE ids == {pending[m].arg}
  <2>1. /\ Receive(m, "Timer") /\ pending' = Without(m)
        /\ returnSystemCall(ids, syscallMap, 0)
        /\ UNCHANGED <<sent, process, fds, pidStart, syscallIDStart, own, late>>
    BY <1>2 DEF timerCallback, tableVars
  <2>2. UNCHANGED <<till, call>> /\ now' = pending[m].wakeup /\ pending[m].kind = "Timer"
    BY <2>1 DEF Receive
  <2>3. Consumes
    BY <2>1, ReceiveConsumes
  <2>4. \A a \in Callers(ids) : now' = call[a].at + call[a].arg
    BY <2>2 DEF Callers, Found, Inv, TimersOK
  <2>5. 0 \in Int
    BY SMT
  <2>6. AnswersTracked(ids, 0)
    BY <2>1, <2>2, <2>3, <2>4 DEF AnswersTracked
  <2> QED BY <2>5, <2>6, TrackedPreserves
<1> QED BY <1>1, <1>2

\* Between messages: events of the protocol, and what the test program does.
LEMMA OutsidePreserves ==
    ASSUME FiniteSetFacts, Inv,
           protocolAnswers \/ protocolRemoves \/ runCalled \/ runReturns \/ cleanUp
                \/ UNCHANGED vars
    PROVE  Inv'
<1>1. CASE protocolAnswers
  <2>1. PICK s \in syscallMap :
          call[process[s.pid]].kind = "io" /\ returnSystemCall({s.id}, syscallMap, 0)
    BY <1>1 DEF protocolAnswers
  <2>2. /\ protocolEvent
        /\ UNCHANGED <<till, process, fds, pidStart, syscallIDStart, call, own, late>>
    BY <1>1 DEF protocolAnswers, protocolEvent
  <2>3. Consumes
    BY <2>2, EventConsumes
  <2>4. \A a \in Callers({s.id}) : call[a].kind # "nsleep"
    BY <2>1 DEF Callers, Found, Inv, CallsOK
  <2>5. 0 \in Int
    BY SMT
  <2>6. AnswersTracked({s.id}, 0)
    BY <2>1, <2>2, <2>3, <2>4 DEF AnswersTracked
  <2> QED BY <2>5, <2>6, TrackedPreserves
<1>2. CASE protocolRemoves
  <2>1. PICK r \in late : removeFileDescriptor(r.pid, r.fd) /\ late' = late \ {r}
    BY <1>2 DEF protocolRemoves
  <2>2. /\ protocolEvent
        /\ UNCHANGED <<state, process, pidStart, till, syscallMap, syscallIDStart>>
        /\ UNCHANGED <<call, syscallRet, own>>
    BY <1>2 DEF protocolRemoves, protocolEvent
  <2>3. Consumes
    BY <2>2, EventConsumes
  <2>4. fds' \in [PIDs -> SUBSET FDs] /\ late' \subseteq late
    BY <2>1 DEF removeFileDescriptor, Inv, TypesOK
  <2>5. Quiet
    BY <2>2, <2>3, <2>4 DEF Quiet
  <2> QED BY <2>5, QuietPreserves
<1>3. CASE cleanUp
  <2> DEFINE ids == {s.id : s \in syscallMap}
  <2>1. /\ returnSystemCall(ids, syscallMap, -1)
        /\ UNCHANGED <<now, sent, pending, till, process, fds, pidStart, syscallIDStart>>
        /\ UNCHANGED <<call, own, late>>
    BY <1>3 DEF cleanUp, queueVars, tableVars
  <2>2. Consumes
    BY <2>1, StillConsumes
  <2>3. -1 \in Int /\ ~(-1 = 0)
    BY SMT
  <2> HIDE DEF ids
  <2>4. AnswersTracked(ids, -1)
    BY <2>1, <2>2, <2>3 DEF AnswersTracked
  <2> QED BY <2>3, <2>4, TrackedPreserves
<1>4. CASE runCalled
  <2>1. /\ UNCHANGED <<now, sent, pending, state, process, fds, pidStart, syscallMap>>
        /\ UNCHANGED <<syscallIDStart, call, syscallRet, own, late>>
    BY <1>4 DEF runCalled, queueVars, tableVars, callVars, appVars
  <2>2. till' \in Nat
    BY <1>4, HostAssumption DEF runCalled
  <2>3. TypesOK'
    BY <2>1, <2>2 DEF Inv, TypesOK
  <2>4. QueueOK' /\ TableOK' /\ CallsOK'
    BY <2>1 DEF Inv, QueueOK, TableOK, CallsOK
  <2>5. MessagesOK' /\ TimersOK' /\ SleepExact'
    <3>1. MessagesOK'
      BY <2>1 DEF Inv, MessagesOK
    <3>2. TimersOK'
      BY <2>1 DEF Inv, TimersOK
    <3>3. SleepExact'
      BY <2>1 DEF Inv, SleepExact
    <3> QED BY <3>1, <3>2, <3>3
  <2> QED BY <2>3, <2>4, <2>5 DEF Inv
<1>5. CASE runReturns \/ UNCHANGED vars
  <2>1. /\ UNCHANGED <<now, sent, pending, state, process, fds, pidStart, syscallMap>>
        /\ UNCHANGED <<till, syscallIDStart, call, syscallRet, own, late>>
    BY <1>5 DEF runReturns, vars, queueVars, tableVars, callVars, appVars
  <2>2. Consumes
    BY <2>1, StillConsumes
  <2>3. fds' \in [PIDs -> SUBSET FDs] /\ late' \subseteq late
    BY <2>1 DEF Inv, TypesOK
  <2>4. Quiet
    BY <2>1, <2>2, <2>3 DEF Quiet
  <2> QED BY <2>4, QuietPreserves
<1> QED BY <1>1, <1>2, <1>3, <1>4, <1>5

\* The two changes of state that the test program and the event loop make.
LEMMA StartAndWakePreserve ==
    ASSUME Inv, NEW a \in Apps, launchApplication(a) \/ wake(a)
    PROVE  Inv'
<1>1. /\ UNCHANGED <<now, sent, pending, till, process, fds, pidStart>>
      /\ UNCHANGED <<syscallMap, syscallIDStart, call, syscallRet, own, late>>
  BY DEF launchApplication, wake, queueVars, tableVars, callVars, appVars
<1>2. CASE launchApplication(a)
  <2>1. state[a] = "CREATED" /\ state' = [state EXCEPT ![a] = "READY"]
    BY <1>2 DEF launchApplication
  <2> QED BY <1>1, <2>1, MovePreserves
<1>3. CASE wake(a)
  <2>1. state[a] = "READY" /\ state' = [state EXCEPT ![a] = "RUNNING"]
    BY <1>3 DEF wake
  <2> QED BY <1>1, <2>1, MovePreserves
<1> QED BY <1>2, <1>3

LEMMA NextPreserves ==
    ASSUME FiniteSetFacts, Inv, [Next]_vars
    PROVE  Inv'
<1>1. ASSUME NEW a \in Apps, registerProcess(a)
      PROVE  Inv'
  BY <1>1, RegisterPreserves
<1>2. ASSUME NEW a \in Apps, launchApplication(a) \/ wake(a)
      PROVE  Inv'
  BY <1>2, StartAndWakePreserve
<1>3. ASSUME NEW a \in Apps, E_Syscall(a)
      PROVE  Inv'
  BY <1>3, SyscallPreserves
<1>4. ASSUME NEW a \in Apps, mainReturns(a)
      PROVE  Inv'
  BY <1>4, MainReturnsPreserves
<1>5. CASE handleMessage
  <2>1. PICK m \in DOMAIN pending :
          \/ nsleep(m) \/ gettimeofday(m) \/ socket(m) \/ unsupported(m) \/ badDescriptor(m)
          \/ ioAnswered(m) \/ ioHeld(m) \/ closeNow(m) \/ closeLate(m) \/ timerCallback(m)
          \/ returned(m)
    BY <1>5 DEF handleMessage
  <2>2. CASE gettimeofday(m) \/ socket(m) \/ ioAnswered(m) \/ closeNow(m) \/ closeLate(m)
    BY <2>2, AnsweringHandlersPreserve
  <2>3. CASE nsleep(m) \/ ioHeld(m)
    BY <2>3, HoldingHandlersPreserve
  <2>4. CASE unsupported(m) \/ badDescriptor(m) \/ timerCallback(m)
    BY <2>4, OtherHandlersPreserve
  <2>5. CASE returned(m)
    BY <2>5, ReturnedPreserves
  <2> QED BY <2>1, <2>2, <2>3, <2>4, <2>5
<1>6. CASE protocolAnswers \/ protocolRemoves \/ runCalled \/ runReturns \/ cleanUp
           \/ UNCHANGED vars
  BY <1>6, OutsidePreserves
<1> QED BY <1>1, <1>2, <1>3, <1>4, <1>5, <1>6 DEF Next

\* Counting the calls of a process again.
LEMMA CallsCounted ==
    ASSUME FiniteSetFacts, Inv
    PROVE  OneCallEach
<1>1. ASSUME NEW p \in PIDs
      PROVE  Cardinality(CallsOf(p)) + Cardinality(MessagesOf("Syscall", p)) <= 1
  <2>1. CallsOf(p) = {} \/ \E s : CallsOf(p) = {s}
    <3>1. \A s, t \in CallsOf(p) : s = t
      BY DEF Inv, CallsOK, CallsOf
    <3> QED BY <3>1
  <2>2. MessagesOf("Syscall", p) = {} \/ \E m : MessagesOf("Syscall", p) = {m}
    <3>1. \A m, n \in MessagesOf("Syscall", p) : m = n
      BY DEF Inv, MessagesOK, MessagesOf
    <3> QED BY <3>1
  <2>3. CallsOf(p) = {} \/ MessagesOf("Syscall", p) = {}
    BY DEF Inv, MessagesOK, CallsOf, MessagesOf
  <2>4. Cardinality({}) = 0 /\ \A x : Cardinality({x}) = 1
    BY DEF FiniteSetFacts, SingletonsCountOne, EmptyCountsZero
  <2>5. /\ Cardinality(CallsOf(p)) = 0 \/ Cardinality(CallsOf(p)) = 1
        /\ Cardinality(MessagesOf("Syscall", p)) = 0 \/ Cardinality(MessagesOf("Syscall", p)) = 1
        /\ Cardinality(CallsOf(p)) = 0 \/ Cardinality(MessagesOf("Syscall", p)) = 0
    BY <2>1, <2>2, <2>3, <2>4
  <2> QED BY <2>5, SMT
<1>2. ASSUME NEW p \in PIDs
      PROVE  /\ CallsOf(p) # {} \/ MessagesOf("Syscall", p) # {} =>
                   process[p] \in Apps /\ state[process[p]] = "WAITING"
             /\ MessagesOf("Return", p) # {} =>
                   process[p] \in Apps /\ state[process[p]] = "TERMINATED"
  BY DEF Inv, CallsOK, MessagesOK, CallsOf, MessagesOf
<1>3. /\ \A s, t \in syscallMap : s.id = t.id => s = t
      /\ \A s \in syscallMap : s.id < syscallIDStart
  BY DEF Inv, CallsOK
<1> QED BY <1>1, <1>2, <1>3 DEF OneCallEach
-----------------------------------------------------------------------------
(* Nobody is forgotten *)

\* NobodyForgotten for one process.
Remembered(p) ==
    \/ \E m \in DOMAIN pending : pending[m].kind = "Syscall" /\ pending[m].arg = p
    \/ \E s \in syscallMap :
         /\ s.pid = p
         /\ call[process[p]].kind = "nsleep" =>
              \E m \in DOMAIN pending :
                 /\ pending[m].kind = "Timer" /\ pending[m].arg = s.id
                 /\ pending[m].wakeup = call[process[p]].at + call[process[p]].arg

LEMMA RememberedOneByOne ==
    NobodyForgotten <=>
        \A p \in PIDs : process[p] # None /\ state[process[p]] = "WAITING" => Remembered(p)
BY SMT DEF NobodyForgotten, Remembered, MessagesOf, CallsOf

LEMMA RememberedStays ==
    ASSUME NobodyForgotten, NEW p \in PIDs, process[p] # None, state[process[p]] = "WAITING",
           process'[p] = process[p], call'[process[p]] = call[process[p]],
           \A n \in DOMAIN pending :
              pending[n].kind = "Syscall" /\ pending[n].arg = p =>
                 n \in DOMAIN pending' /\ pending'[n] = pending[n],
           \A s \in syscallMap :
              s.pid = p =>
                 /\ s \in syscallMap'
                 /\ \A n \in DOMAIN pending :
                       pending[n].kind = "Timer" /\ pending[n].arg = s.id =>
                          n \in DOMAIN pending' /\ pending'[n] = pending[n]
    PROVE  Remembered(p)'
<1>1. Remembered(p)
  BY RememberedOneByOne
<1>2. CASE \E m \in DOMAIN pending : pending[m].kind = "Syscall" /\ pending[m].arg = p
  BY <1>2 DEF Remembered
<1>3. ASSUME NEW s \in syscallMap, s.pid = p,
             call[process[p]].kind = "nsleep" =>
               \E m \in DOMAIN pending :
                  /\ pending[m].kind = "Timer" /\ pending[m].arg = s.id
                  /\ pending[m].wakeup = call[process[p]].at + call[process[p]].arg
      PROVE  Remembered(p)'
  <2>1. s \in syscallMap'
    BY <1>3
  <2>2. call'[process'[p]].kind = "nsleep" =>
          \E m \in DOMAIN pending' :
             /\ pending'[m].kind = "Timer" /\ pending'[m].arg = s.id
             /\ pending'[m].wakeup = call'[process'[p]].at + call'[process'[p]].arg
    BY <1>3
  <2> QED BY <1>3, <2>1, <2>2 DEF Remembered
<1> QED BY <1>1, <1>2, <1>3 DEF Remembered

\* When nothing but an unrelated message goes and no state becomes "WAITING".
LEMMA NoneForgottenWhenIdle ==
    ASSUME Inv, NobodyForgotten, UNCHANGED <<process, call, syscallMap>>,
           \A a \in Apps : state'[a] = "WAITING" => state[a] = "WAITING",
           \A n \in DOMAIN pending :
              /\ pending[n].kind \in {"Syscall", "Timer"}
              /\ pending[n].kind = "Syscall" => state'[Caller(n)] = "WAITING"
              => n \in DOMAIN pending' /\ pending'[n] = pending[n]
    PROVE  NobodyForgotten'
<1> SUFFICES ASSUME NEW p \in PIDs, process[p] # None, state'[process[p]] = "WAITING"
             PROVE  Remembered(p)'
  BY SMT DEF NobodyForgotten, Remembered, MessagesOf, CallsOf
<1>1. process[p] \in Apps /\ state[process[p]] = "WAITING"
  BY DEF Inv, TypesOK
<1>2. \A n \in DOMAIN pending :
         pending[n].kind = "Syscall" /\ pending[n].arg = p =>
            n \in DOMAIN pending' /\ pending'[n] = pending[n]
  BY DEF Caller
<1> QED BY <1>1, <1>2, RememberedStays

LEMMA AtOnceForgetsNone ==
    ASSUME FiniteSetFacts, Inv, NobodyForgotten, NEW m \in DOMAIN pending, NEW kinds,
           ReceiveSyscall(m, kinds),
           NEW val, returnSystemCall({FreeID}, Tracked(m), val),
           pending' = Without(m), process' = process
    PROVE  NobodyForgotten'
<1>1. Caller(m) \in Apps /\ syscallMap' = syscallMap /\ state' = [state EXCEPT ![Caller(m)] = "READY"]
  BY AnsweredAtOnce
<1>2. state'[Caller(m)] = "READY" /\ \A a \in Apps : state'[a] = "WAITING" => state[a] = "WAITING"
  BY <1>1 DEF Inv, TypesOK
<1>3. call' = call
  BY DEF ReceiveSyscall, Receive
<1>4. pending[m].kind = "Syscall"
  BY DEF ReceiveSyscall, Receive
<1>5. \A n \in DOMAIN pending :
         /\ pending[n].kind \in {"Syscall", "Timer"}
         /\ pending[n].kind = "Syscall" => state'[Caller(n)] = "WAITING"
         => n \in DOMAIN pending' /\ pending'[n] = pending[n]
  BY <1>2, <1>4 DEF Without
<1> QED BY <1>1, <1>2, <1>3, <1>5, NoneForgottenWhenIdle

\* A call that is held is tracked from now on, and a sleep has its timer.
LEMMA HeldForgetsNone ==
    ASSUME Inv, NobodyForgotten, NEW m \in DOMAIN pending, NEW kind, ReceiveSyscall(m, {kind}),
           syscallMap' = Tracked(m), UNCHANGED <<state, process>>,
           \A n \in DOMAIN pending \ {m} : n \in DOMAIN pending' /\ pending'[n] = pending[n],
           kind = "nsleep" =>
             \E n \in DOMAIN pending' :
                pending'[n] = Message("Timer", FreeID, now' + Request(m).arg)
    PROVE  NobodyForgotten'
<1> SUFFICES ASSUME NEW p \in PIDs, process[p] # None, state[process[p]] = "WAITING"
             PROVE  Remembered(p)'
  BY SMT DEF NobodyForgotten, Remembered, MessagesOf, CallsOf
<1>1. Receive(m, "Syscall") /\ Request(m).kind = kind
  BY DEF ReceiveSyscall
<1>2. call' = call /\ now' = pending[m].wakeup /\ pending[m].kind = "Syscall"
  BY <1>1 DEF Receive
<1>3. now' = now /\ Request(m).at = now
  BY <1>2 DEF Inv, QueueOK, MessagesOK, Request, Caller
<1>4. CASE p = pending[m].arg
  <2> DEFINE s == [id |-> FreeID, pid |-> p]
  <2>1. s \in syscallMap' /\ s.pid = p /\ s.id = FreeID
    BY <1>4 DEF Tracked
  <2>2. call'[process'[p]] = Request(m)
    BY <1>2, <1>4 DEF Request, Caller
  <2>3. ASSUME kind = "nsleep"
        PROVE  \E n \in DOMAIN pending' :
                  /\ pending'[n].kind = "Timer" /\ pending'[n].arg = s.id
                  /\ pending'[n].wakeup = Request(m).at + Request(m).arg
    BY <1>3, <2>1, <2>3, SMT DEF Message
  <2> HIDE DEF s
  <2> QED BY <1>1, <2>1, <2>2, <2>3 DEF Remembered
<1>5. CASE p # pending[m].arg
  <2>1. \A n \in DOMAIN pending :
           pending[n].kind = "Syscall" /\ pending[n].arg = p =>
              n \in DOMAIN pending' /\ pending'[n] = pending[n]
    BY <1>5
  <2>2. \A s \in syscallMap : s \in syscallMap'
    BY DEF Tracked
  <2>3. \A n \in DOMAIN pending :
           pending[n].kind = "Timer" => n \in DOMAIN pending' /\ pending'[n] = pending[n]
    BY <1>2
  <2> QED BY <1>2, <2>1, <2>2, <2>3, RememberedStays
<1> QED BY <1>4, <1>5

\* A timer that is consumed answers the call it was set for, if that is still tracked.
LEMMA TrackedForgetsNone ==
    ASSUME FiniteSetFacts, Inv, NobodyForgotten, NEW ids, NEW val,
           returnSystemCall(ids, syscallMap, val),
           UNCHANGED <<process, call>>,
           \A n \in DOMAIN pending :
              \/ n \in DOMAIN pending' /\ pending'[n] = pending[n]
              \/ pending[n].kind = "Timer" /\ pending[n].arg \in ids
    PROVE  NobodyForgotten'
<1> SUFFICES ASSUME NEW p \in PIDs, process[p] # None, state'[process[p]] = "WAITING"
             PROVE  Remembered(p)'
  BY SMT DEF NobodyForgotten, Remembered, MessagesOf, CallsOf
<1>1. /\ syscallMap' = syscallMap \ Found(ids)
      /\ state' = [a \in Apps |-> IF a \in Callers(ids) THEN "READY" ELSE state[a]]
  BY TrackedAnswered
<1>2. process[p] \in Apps
  BY DEF Inv, TypesOK
<1>3. process[p] \notin Callers(ids) /\ state[process[p]] = "WAITING"
  BY <1>1, <1>2
<1>4. \A s \in syscallMap : s.pid = p => s \in syscallMap' /\ s.id \notin ids
  BY <1>1, <1>3 DEF Callers, Found
<1>5. \A n \in DOMAIN pending :
         pending[n].kind = "Syscall" => n \in DOMAIN pending' /\ pending'[n] = pending[n]
  OBVIOUS
<1>6. \A s \in syscallMap :
         s.pid = p =>
            /\ s \in syscallMap'
            /\ \A n \in DOMAIN pending :
                  pending[n].kind = "Timer" /\ pending[n].arg = s.id =>
                     n \in DOMAIN pending' /\ pending'[n] = pending[n]
  BY <1>4
<1> QED BY <1>3, <1>5, <1>6, RememberedStays

LEMMA ReturnedForgetsNone ==
    ASSUME Inv, NobodyForgotten, NEW m \in DOMAIN pending, returned(m)
    PROVE  NobodyForgotten'
<1> DEFINE pid == pending[m].arg
<1> SUFFICES ASSUME NEW p \in PIDs, process'[p] # None, state'[process'[p]] = "WAITING"
             PROVE  Remembered(p)'
  BY SMT DEF NobodyForgotten, Remembered, MessagesOf, CallsOf
<1>1. /\ pid \in PIDs /\ process[pid] \in Apps
      /\ state' = [state EXCEPT ![process[pid]] = "DESTROYED"]
      /\ process' = [process EXCEPT ![pid] = None]
  BY ReturnedFinds
<1>2. Receive(m, "Return") /\ pending' = Without(m) /\ UNCHANGED syscallMap
  BY DEF returned
<1>3. call' = call /\ pending[m].kind = "Return"
  BY <1>2 DEF Receive
<1>4. \A n \in DOMAIN pending :
         pending[n].kind # "Return" => n \in DOMAIN pending' /\ pending'[n] = pending[n]
  BY <1>2, <1>3 DEF Without
<1>5. p # pid /\ process'[p] = process[p]
  BY <1>1 DEF Inv, TypesOK
<1>6. process[p] \in Apps /\ state[process[p]] = "WAITING"
  BY <1>1, <1>5 DEF Inv, TypesOK
<1>7. /\ \A n \in DOMAIN pending :
            pending[n].kind \in {"Syscall", "Timer"} => n \in DOMAIN pending' /\ pending'[n] = pending[n]
      /\ \A s \in syscallMap : s \in syscallMap'
  BY <1>2, <1>4
<1> QED BY <1>3, <1>5, <1>6, <1>7, RememberedStays

LEMMA SyscallForgetsNone ==
    ASSUME Inv, NobodyForgotten, NEW a \in Apps, E_Syscall(a)
    PROVE  NobodyForgotten'
<1> DEFINE pid == PidOf(a)
<1> SUFFICES ASSUME NEW p \in PIDs, process'[p] # None, state'[process'[p]] = "WAITING"
             PROVE  Remembered(p)'
  BY SMT DEF NobodyForgotten, Remembered, MessagesOf, CallsOf
<1>1. /\ state[a] = "RUNNING"
      /\ sendMessageSelf("Syscall", pid)
      /\ state' = [state EXCEPT ![a] = "WAITING"]
      /\ UNCHANGED <<process, syscallMap>>
      /\ \E c : call' = [call EXCEPT ![a] = c]
  BY DEF E_Syscall, tableVars, callVars
<1>2. pid \in PIDs /\ process[pid] = a
  BY <1>1, PidOfFinds DEF Inv
<1>3. /\ DOMAIN pending' = DOMAIN pending \cup {sent + 1}
      /\ \A n \in DOMAIN pending : pending'[n] = pending[n]
      /\ pending'[sent + 1] = [kind |-> "Syscall", arg |-> pid, wakeup |-> now]
  BY <1>1, SendAdds DEF Inv
<1> HIDE DEF pid
<1>4. CASE p = pid
  BY <1>3, <1>4, SMT DEF Remembered
<1>5. CASE p # pid
  <2>1. process[p] \in Apps /\ process[p] # a
    BY <1>1, <1>2, <1>5, HostAssumption, SMT DEF Inv, TypesOK, TableOK
  <2>2. state[process[p]] = "WAITING" /\ call'[process[p]] = call[process[p]]
    BY <1>1, <2>1 DEF Inv, TypesOK
  <2> QED BY <1>1, <1>3, <2>1, <2>2, RememberedStays
<1> QED BY <1>4, <1>5

LEMMA RegisterForgetsNone ==
    ASSUME FiniteSetFacts, Fits, Inv, Kept, NobodyForgotten, NEW a \in Apps, registerProcess(a)
    PROVE  NobodyForgotten'
<1> DEFINE k == FirstFree
<1> SUFFICES ASSUME NEW p \in PIDs, process'[p] # None, state'[process'[p]] = "WAITING"
             PROVE  Remembered(p)'
  BY SMT DEF NobodyForgotten, Remembered, MessagesOf, CallsOf
<1>1. FreePIDs # {}
  BY FirstFreeIsFresh DEF registerProcess
<1>2. /\ process' = [process EXCEPT ![k] = a]
      /\ state' = [state EXCEPT ![a] = "CREATED"]
      /\ UNCHANGED <<pending, call, syscallMap>>
  BY <1>1 DEF registerProcess, queueVars, callVars, appVars
<1> HIDE DEF k
<1>3. process'[p] # a /\ process'[p] = process[p]
  BY <1>2 DEF Inv, TypesOK
<1>4. state[process[p]] = "WAITING"
  BY <1>2, <1>3 DEF Inv, TypesOK
<1> QED BY <1>2, <1>3, <1>4, RememberedStays

\* A step of the loop that is not past its limit.
LEMMA LoopGoesOn ==
    ASSUME phase = "loop", phase' = phase, till' = till, till \in Nat, now' \in Nat, ~PastTill(now')
    PROVE  LoopOK'
<1>1. till # 0 => now' <= till
  BY SMT DEF PastTill
<1> QED BY <1>1 DEF LoopOK

\* Steps that add no request and block nobody.
LEMMA ServedStays ==
    ASSUME Served, phase' # "abort", NobodyForgotten', LoopOK', UNCHANGED <<running, call>>,
           \A a \in Apps : state'[a] = "WAITING" => state[a] = "WAITING",
           \A n \in DOMAIN pending' :
              pending'[n].kind = "Syscall" =>
                 /\ n \in DOMAIN pending /\ pending'[n] = pending[n]
                 /\ Caller(n)' = Caller(n)
                 /\ own[Caller(n)] \subseteq own'[Caller(n)]
    PROVE  Served'
<1>1. CleanUpUnblocks'
  BY DEF Served, CleanUpUnblocks
<1>2. RequestsOK'
  <2> SUFFICES ASSUME NEW n \in DOMAIN pending', pending'[n].kind = "Syscall"
               PROVE  /\ Request(n)'.kind = "io" => Request(n)'.arg \in own'[Caller(n)']
                      /\ Request(n)'.kind # "unsupported"
    BY DEF RequestsOK
  <2>1. /\ n \in DOMAIN pending /\ pending'[n] = pending[n]
        /\ Caller(n)' = Caller(n) /\ own[Caller(n)] \subseteq own'[Caller(n)]
    OBVIOUS
  <2>2. Request(n)' = Request(n)
    BY <2>1 DEF Request
  <2> QED BY <2>1, <2>2 DEF Served, RequestsOK
<1> QED BY <1>1, <1>2 DEF Served

LEMMA AnsweringHandlersServe ==
    ASSUME FiniteSetFacts, Inv, Served, NEW m \in DOMAIN pending,
           gettimeofday(m) \/ socket(m) \/ ioAnswered(m) \/ closeNow(m) \/ closeLate(m)
    PROVE  Served'
<1>1. PICK kinds, val :
        ReceiveSyscall(m, kinds) /\ returnSystemCall({FreeID}, Tracked(m), val)
  BY DEF gettimeofday, socket, ioAnswered, closeNow, closeLate, ReceiveOnFD
<1>2. pending' = Without(m) /\ process' = process
  BY DEF gettimeofday, socket, ioAnswered, closeNow, closeLate, ReceiveOnFD, tableVars
<1>3. /\ Caller(m) \in Apps
      /\ state' = [state EXCEPT ![Caller(m)] = "READY"]
      /\ phase' = phase
  BY <1>1, AnsweredAtOnce
<1>4. Receive(m, "Syscall")
  BY <1>1 DEF ReceiveSyscall
<1>5. phase = "loop" /\ ~PastTill(now') /\ UNCHANGED <<till, call, running>>
  BY <1>4 DEF Receive
<1>6. now' \in Nat /\ till \in Nat
  BY <1>4, ReceiveMovesClock DEF Inv, TypesOK
<1>7. NobodyForgotten'
  BY <1>1, <1>2, AtOnceForgetsNone DEF Served
<1>8. LoopOK'
  BY <1>3, <1>5, <1>6, LoopGoesOn
<1>9. \A a \in Apps : state'[a] = "WAITING" => state[a] = "WAITING"
  BY <1>3 DEF Inv, TypesOK
<1>10. \A b \in Apps : b # Caller(m) => own'[b] = own[b]
  <2>1. own' = own \/ \E new : own' = [own EXCEPT ![Caller(m)] = new]
    BY DEF gettimeofday, socket, ioAnswered, closeNow, closeLate, ReceiveOnFD
  <2> QED BY <2>1 DEF Inv, TypesOK
<1>11. \A n \in DOMAIN pending' :
          pending'[n].kind = "Syscall" =>
             /\ n \in DOMAIN pending /\ pending'[n] = pending[n]
             /\ Caller(n)' = Caller(n)
             /\ own[Caller(n)] \subseteq own'[Caller(n)]
  <2>1. /\ \A n \in DOMAIN pending' : n \in DOMAIN pending /\ pending'[n] = pending[n]
        /\ \A n \in DOMAIN pending' :
              pending'[n].kind = "Syscall" =>
                 /\ Caller(n)' = Caller(n) /\ Caller(n) \in Apps /\ Caller(n) # Caller(m)
    BY <1>1, <1>2, HandlerFrame
  <2> QED BY <1>10, <2>1
<1>12. phase' # "abort"
  BY <1>3 DEF Served
<1> QED BY <1>5, <1>7, <1>8, <1>9, <1>11, <1>12, ServedStays

\* The descriptor of a request is open, so no assertion fails on it.
LEMMA DescriptorsAreGood ==
    ASSUME Inv, Kept, Served, NEW m \in DOMAIN pending
    PROVE  ~badDescriptor(m) /\ ~unsupported(m)
<1> SUFFICES ASSUME pending[m].kind = "Syscall"
             PROVE  /\ Request(m).kind \in {"io", "close"} => Request(m).arg \in fds[pending[m].arg]
                    /\ Request(m).kind # "unsupported"
  BY DEF badDescriptor, unsupported, ReceiveSyscall, Receive
<1>1. Request(m).kind # "unsupported"
  BY DEF Served, RequestsOK
<1>2. CASE Request(m).kind = "close"
  BY <1>1, <1>2 DEF Kept, ClosesOK, Closing
<1>3. CASE Request(m).kind = "io"
  <2>1. Request(m).arg \in own[Caller(m)]
    BY <1>3 DEF Served, RequestsOK
  <2>2. pending[m].arg \in PIDs /\ Caller(m) \in Apps
    BY DEF Inv, QueueOK, MessagesOK, Caller
  <2>3. own[Caller(m)] \subseteq fds[pending[m].arg]
    BY <2>2, HostAssumption DEF Kept, DescriptorsKept, Caller
  <2> QED BY <1>1, <2>1, <2>3
<1> QED BY <1>1, <1>2, <1>3

LEMMA OtherHandlersServe ==
    ASSUME FiniteSetFacts, Inv, Kept, Served, NEW m \in DOMAIN pending,
           nsleep(m) \/ ioHeld(m) \/ timerCallback(m) \/ returned(m)
    PROVE  Served'
<1>1. PICK kind \in {"Syscall", "Timer", "Return"} : Receive(m, kind)
  BY DEF nsleep, ioHeld, timerCallback, returned, ReceiveSyscall, ReceiveOnFD
<1>2. phase = "loop" /\ ~PastTill(now') /\ UNCHANGED <<till, call, running>>
  BY <1>1 DEF Receive
<1>3. now' \in Nat /\ till \in Nat
  BY <1>1, ReceiveMovesClock DEF Inv, TypesOK
<1>4. /\ phase' = phase
      /\ \A a \in Apps : state'[a] = "WAITING" => state[a] = "WAITING"
  <2>1. CASE nsleep(m) \/ ioHeld(m)
    BY <2>1 DEF nsleep, ioHeld
  <2>2. CASE timerCallback(m)
    BY <2>2, TrackedAnswered DEF timerCallback
  <2>3. CASE returned(m)
    <3>1. state' = [state EXCEPT ![process[pending[m].arg]] = "DESTROYED"] /\ phase' = phase
      BY <2>3, ReturnedFinds
    <3> QED BY <3>1 DEF Inv, TypesOK
  <2> QED BY <2>1, <2>2, <2>3
<1>5. LoopOK'
  BY <1>2, <1>3, <1>4, LoopGoesOn
<1>6. own' = own
  BY DEF nsleep, ioHeld, timerCallback, returned, ReceiveOnFD
<1>7. CASE nsleep(m)
  <2>1. /\ ReceiveSyscall(m, {"nsleep"}) /\ syscallMap' = Tracked(m)
        /\ pending' = With(Without(m), Message("Timer", FreeID, now' + Request(m).arg))
        /\ UNCHANGED <<state, process>>
    BY <1>7 DEF nsleep, tableVars
  <2>2. /\ DOMAIN pending' = (DOMAIN pending \ {m}) \cup {sent + 1}
        /\ \A n \in DOMAIN pending' :
             pending'[n] = IF n = sent + 1
                             THEN Message("Timer", FreeID, now' + Request(m).arg)
                             ELSE pending[n]
    BY <2>1 DEF With, Without
  <2>3. \A n \in DOMAIN pending : n # sent + 1
    BY SMT DEF Inv, QueueOK
  <2>4. /\ \A n \in DOMAIN pending \ {m} : n \in DOMAIN pending' /\ pending'[n] = pending[n]
        /\ \E n \in DOMAIN pending' : pending'[n] = Message("Timer", FreeID, now' + Request(m).arg)
    BY <2>2, <2>3
  <2>5. NobodyForgotten'
    BY <2>1, <2>4, HeldForgetsNone DEF Served
  <2>6. \A n \in DOMAIN pending' :
           pending'[n].kind = "Syscall" =>
              n \in DOMAIN pending /\ pending'[n] = pending[n] /\ Caller(n)' = Caller(n)
    BY <2>1, <2>2, SMT DEF Message, Caller
  <2> QED BY <1>2, <1>4, <1>5, <1>6, <2>5, <2>6, ServedStays DEF Served
<1>8. CASE ioHeld(m) \/ timerCallback(m)
  <2>1. pending' = Without(m) /\ process' = process
    BY <1>8 DEF ioHeld, timerCallback, ReceiveOnFD, tableVars
  <2>2. /\ DOMAIN pending' = DOMAIN pending \ {m}
        /\ \A n \in DOMAIN pending' : pending'[n] = pending[n]
    BY <2>1 DEF Without
  <2>3. NobodyForgotten'
    <3>1. CASE ioHeld(m)
      <4>1. ReceiveSyscall(m, {"io"}) /\ syscallMap' = Tracked(m) /\ UNCHANGED <<state, process>>
        BY <3>1 DEF ioHeld, ReceiveOnFD
      <4>2. ~("io" = "nsleep")
        OBVIOUS
      <4> QED BY <2>2, <4>1, <4>2, HeldForgetsNone DEF Served
    <3>2. CASE timerCallback(m)
      <4>1. returnSystemCall({pending[m].arg}, syscallMap, 0) /\ Receive(m, "Timer")
        BY <3>2 DEF timerCallback
      <4>2. \A n \in DOMAIN pending :
               \/ n \in DOMAIN pending' /\ pending'[n] = pending[n]
               \/ pending[n].kind = "Timer" /\ pending[n].arg \in {pending[m].arg}
        BY <2>2, <4>1 DEF Receive
      <4> QED BY <1>2, <2>1, <4>1, <4>2, TrackedForgetsNone DEF Served
    <3> QED BY <1>8, <3>1, <3>2
  <2>4. \A n \in DOMAIN pending' :
              n \in DOMAIN pending /\ pending'[n] = pending[n] /\ Caller(n)' = Caller(n)
    BY <2>1, <2>2 DEF Caller
  <2> QED BY <1>2, <1>4, <1>5, <1>6, <2>3, <2>4, ServedStays DEF Served
<1>9. CASE returned(m)
  <2>1. NobodyForgotten'
    BY <1>9, ReturnedForgetsNone DEF Served
  <2>2. /\ process' = [process EXCEPT ![pending[m].arg] = None] /\ pending[m].arg \in PIDs
        /\ state[process[pending[m].arg]] = "TERMINATED"
    BY <1>9, ReturnedFinds
  <2>3. \A n \in DOMAIN pending' : n \in DOMAIN pending /\ pending'[n] = pending[n]
    BY <1>9 DEF returned, Without
  <2>4. \A n \in DOMAIN pending' : pending'[n].kind = "Syscall" => Caller(n)' = Caller(n)
    <3> SUFFICES ASSUME NEW n \in DOMAIN pending', pending'[n].kind = "Syscall"
                 PROVE  Caller(n)' = Caller(n)
      OBVIOUS
    <3>1. pending'[n] = pending[n] /\ pending[n].arg \in PIDs
          /\ state[process[pending[n].arg]] = "WAITING"
      BY <2>3 DEF Inv, QueueOK, MessagesOK
    <3>2. pending[n].arg # pending[m].arg
      BY <2>2, <3>1
    <3> QED BY <2>2, <3>1, <3>2 DEF Caller, Inv, TypesOK
  <2> QED BY <1>2, <1>4, <1>5, <1>6, <2>1, <2>3, <2>4, ServedStays DEF Served
<1> QED BY <1>7, <1>8, <1>9

LEMMA ApplicationsServe ==
    ASSUME FiniteSetFacts, Proper, Fits, Inv, Kept, Served, NEW a \in Apps,
           registerProcess(a) \/ launchApplication(a) \/ wake(a) \/ E_Syscall(a) \/ mainReturns(a)
    PROVE  Served'
<1>1. CASE registerProcess(a)
  <2>1. FreePIDs # {}
    BY <1>1, FirstFreeIsFresh DEF registerProcess
  <2>2. /\ process' = [process EXCEPT ![FirstFree] = a]
        /\ state' = [state EXCEPT ![a] = "CREATED"]
        /\ UNCHANGED <<phase, now, pending, till, call, own, running>>
    BY <1>1, <2>1 DEF registerProcess, queueVars, callVars, appVars
  <2>3. FirstFree \in PIDs /\ process[FirstFree] = None
    BY <2>1, FirstFreeIsFree DEF Inv, FreePIDs
  <2>4. NobodyForgotten'
    BY <1>1, RegisterForgetsNone DEF Served
  <2>5. LoopOK'
    BY <2>2 DEF Served, LoopOK
  <2>6. \A b \in Apps : state'[b] = "WAITING" => state[b] = "WAITING"
    BY <2>2 DEF Inv, TypesOK
  <2>7. \A n \in DOMAIN pending' : pending'[n].kind = "Syscall" => Caller(n)' = Caller(n)
    <3> SUFFICES ASSUME NEW n \in DOMAIN pending, pending[n].kind = "Syscall"
                 PROVE  process'[pending[n].arg] = process[pending[n].arg]
      BY <2>2 DEF Caller
    <3>1. pending[n].arg \in PIDs /\ process[pending[n].arg] # None
      BY HostAssumption DEF Inv, QueueOK, MessagesOK
    <3> HIDE DEF FirstFree
    <3> QED BY <2>2, <2>3, <3>1 DEF Inv, TypesOK
  <2> QED BY <2>2, <2>4, <2>5, <2>6, <2>7, ServedStays DEF Served
<1>2. CASE launchApplication(a) \/ wake(a)
  <2>1. /\ UNCHANGED <<now, pending, till, process, call, own, running, syscallMap>>
        /\ \A b \in Apps : state'[b] = "WAITING" => state[b] = "WAITING"
        /\ phase' = phase \/ (phase = "loop" /\ phase' = "app")
    BY <1>2 DEF launchApplication, wake, queueVars, tableVars, callVars, appVars, Inv, TypesOK
  <2>2. NobodyForgotten'
    BY <2>1, NoneForgottenWhenIdle DEF Served
  <2>3. LoopOK'
    BY <2>1 DEF Served, LoopOK
  <2>4. phase' # "abort"
    BY <2>1 DEF Served
  <2> QED BY <2>1, <2>2, <2>3, <2>4, ServedStays DEF Caller
<1>3. CASE mainReturns(a)
  <2>1. /\ UNCHANGED <<till, process, call, own, running, syscallMap>>
        /\ sendMessageSelf("Return", PidOf(a))
        /\ state' = [state EXCEPT ![a] = "TERMINATED"]
        /\ phase = "app" /\ phase' = "loop"
    BY <1>3 DEF mainReturns, tableVars, callVars, appVars
  <2>2. /\ now' = now
        /\ DOMAIN pending' = DOMAIN pending \cup {sent + 1}
        /\ \A n \in DOMAIN pending : pending'[n] = pending[n]
        /\ pending'[sent + 1] = [kind |-> "Return", arg |-> PidOf(a), wakeup |-> now]
    BY <2>1, SendAdds DEF Inv
  <2>3. \A b \in Apps : state'[b] = "WAITING" => state[b] = "WAITING"
    BY <2>1 DEF Inv, TypesOK
  <2>4. NobodyForgotten'
    BY <2>1, <2>2, <2>3, NoneForgottenWhenIdle DEF Served
  <2>5. LoopOK'
    BY <2>1, <2>2 DEF Served, LoopOK
  <2>6. \A n \in DOMAIN pending' :
           pending'[n].kind = "Syscall" =>
              n \in DOMAIN pending /\ pending'[n] = pending[n] /\ Caller(n)' = Caller(n)
    BY <2>1, <2>2, SMT DEF Caller
  <2> QED BY <2>1, <2>3, <2>4, <2>5, <2>6, ServedStays
<1>4. CASE E_Syscall(a)
  <2> DEFINE pid == PidOf(a)
  <2>1. PICK request \in Requests(a) :
         /\ call' = [call EXCEPT ![a] =
                       [kind |-> request[1], arg |-> request[2], at |-> now]]
         /\ own' = [own EXCEPT ![a] =
                      IF request[1] = "close" THEN @ \ {request[2]} ELSE @]
    BY <1>4 DEF E_Syscall
  <2>2. /\ state[a] = "RUNNING" /\ running /\ phase = "app" /\ phase' = "loop"
        /\ sendMessageSelf("Syscall", pid)
        /\ UNCHANGED <<till, process, running>>
    BY <1>4 DEF E_Syscall, tableVars, callVars
  <2>3. pid \in PIDs /\ process[pid] = a
    BY <2>2, PidOfFinds DEF Inv
  <2>4. request[1] # "unsupported" /\ (request[1] = "io" => request[2] \in own[a])
    BY <2>1, SMT DEF Proper, Requests
  <2>5. /\ now' = now
        /\ DOMAIN pending' = DOMAIN pending \cup {sent + 1}
        /\ \A n \in DOMAIN pending : pending'[n] = pending[n]
        /\ pending'[sent + 1] = [kind |-> "Syscall", arg |-> pid, wakeup |-> now]
    BY <2>2, SendAdds DEF Inv
  <2>6. /\ \A b \in Apps : b # a => call'[b] = call[b] /\ own'[b] = own[b]
        /\ call'[a] = [kind |-> request[1], arg |-> request[2], at |-> now]
        /\ request[1] # "close" => own'[a] = own[a]
    BY <2>1 DEF Inv, TypesOK
  <2> HIDE DEF pid
  <2>7. NobodyForgotten'
    BY <1>4, SyscallForgetsNone DEF Served
  <2>8. CleanUpUnblocks'
    BY <2>2 DEF CleanUpUnblocks
  <2>9. LoopOK'
    BY <2>2, <2>5 DEF Served, LoopOK
  <2>10. RequestsOK'
    <3> SUFFICES ASSUME NEW n \in DOMAIN pending', pending'[n].kind = "Syscall"
                 PROVE  /\ Request(n)'.kind = "io" => Request(n)'.arg \in own'[Caller(n)']
                        /\ Request(n)'.kind # "unsupported"
      BY DEF RequestsOK
    <3>1. CASE n \in DOMAIN pending
      <4>1. pending'[n] = pending[n]
        BY <2>5, <3>1
      <4>2. Caller(n)' = Caller(n) /\ Caller(n) \in Apps /\ Caller(n) # a
        BY <2>2, <3>1, <4>1 DEF Caller, Inv, MessagesOK
      <4>3. Request(n)' = Request(n) /\ own'[Caller(n)] = own[Caller(n)]
        BY <2>6, <4>2 DEF Request
      <4> QED BY <3>1, <4>1, <4>2, <4>3 DEF Served, RequestsOK
    <3>2. CASE n = sent + 1
      <4>1. Caller(n)' = a
        <5>1. pending'[sent + 1].arg = pid
          BY <2>5, SMT
        <5> QED BY <2>2, <2>3, <3>2, <5>1 DEF Caller
      <4>2. Request(n)'.kind = request[1] /\ Request(n)'.arg = request[2]
        BY <2>6, <4>1, SMT DEF Request
      <4> QED BY <2>4, <2>6, <4>1, <4>2
    <3> QED BY <2>5, <3>1, <3>2
  <2> QED BY <2>2, <2>7, <2>8, <2>9, <2>10 DEF Served
<1> QED BY <1>1, <1>2, <1>3, <1>4

\* The protocol, and the limit of run(): a request is never later than that.
LEMMA OutsideServes ==
    ASSUME FiniteSetFacts, Inv, Served,
           protocolAnswers \/ protocolRemoves \/ runCalled \/ runReturns \/ UNCHANGED vars
    PROVE  Served'
<1>1. UNCHANGED <<pending, process, call, own, running>>
  BY DEF protocolAnswers, protocolRemoves, protocolEvent, runCalled, runReturns, vars, queueVars,
         tableVars, callVars, appVars
<1>2. \A n \in DOMAIN pending' :
         n \in DOMAIN pending /\ pending'[n] = pending[n] /\ Caller(n)' = Caller(n)
         /\ own[Caller(n)] \subseteq own'[Caller(n)]
  BY <1>1 DEF Caller
<1>3. CASE protocolAnswers \/ protocolRemoves
  <2>1. phase = "loop" /\ till' = till /\ ~PastTill(now') /\ now' \in Nat /\ till \in Nat
    <3>1. protocolEvent
      BY <1>3 DEF protocolAnswers, protocolRemoves
    <3>2. PICK time \in now .. Horizon : ~PastTill(time) /\ now' = time
      BY <3>1 DEF protocolEvent
    <3>3. now \in Nat /\ till \in Nat
      BY DEF Inv, QueueOK, TypesOK
    <3>4. now' \in Nat
      BY <3>2, <3>3, HostAssumption, SMT
    <3> QED BY <3>1, <3>2, <3>3, <3>4 DEF protocolEvent
  <2>2. CASE protocolAnswers
    <3>1. PICK s \in syscallMap : returnSystemCall({s.id}, syscallMap, 0)
      BY <2>2 DEF protocolAnswers
    <3>2. NobodyForgotten'
      BY <1>1, <3>1, TrackedForgetsNone DEF Served
    <3>3. phase' = phase /\ \A a \in Apps : state'[a] = "WAITING" => state[a] = "WAITING"
      BY <3>1, TrackedAnswered
    <3>4. LoopOK'
      BY <2>1, <3>3, LoopGoesOn
    <3> QED BY <1>1, <1>2, <3>2, <3>3, <3>4, ServedStays DEF Served
  <2>3. CASE protocolRemoves
    <3>1. UNCHANGED <<syscallMap, state, phase>>
      BY <2>3 DEF protocolRemoves
    <3>2. NobodyForgotten'
      BY <1>1, <3>1, NoneForgottenWhenIdle DEF Served
    <3>3. LoopOK'
      BY <2>1, <3>1, LoopGoesOn
    <3> QED BY <1>1, <1>2, <3>1, <3>2, <3>3, ServedStays DEF Served
  <2> QED BY <1>3, <2>2, <2>3
<1>4. CASE runCalled \/ runReturns \/ UNCHANGED vars
  <2>1. UNCHANGED <<now, syscallMap, state>>
    BY <1>4 DEF runCalled, runReturns, vars, queueVars, callVars
  <2>2. NobodyForgotten'
    BY <1>1, <2>1, NoneForgottenWhenIdle DEF Served
  <2>3. now \in Nat /\ till \in Nat
    BY DEF Inv, QueueOK, TypesOK
  <2>4. LoopOK' /\ phase' # "abort"
    <3>1. CASE runCalled
      <4>1. till' \in Nat /\ (till' = 0 \/ now <= till') /\ phase' = "loop"
        BY <2>3, <3>1, HostAssumption DEF runCalled
      <4> QED BY <2>1, <4>1 DEF LoopOK
    <3>2. CASE runReturns
      <4>1. phase = "loop" /\ phase' = "out" /\ \A m \in DOMAIN pending : PastTill(pending[m].wakeup)
        BY <3>2 DEF runReturns
      <4>2. ASSUME NEW m \in DOMAIN pending, pending[m].kind = "Syscall"
            PROVE  FALSE
        <5>1. pending[m].wakeup = now
          BY <4>2 DEF Inv, QueueOK
        <5>2. till # 0 /\ now > till
          BY <4>1, <5>1 DEF PastTill
        <5> QED BY <2>3, <4>1, <5>2, SMT DEF Served, LoopOK
      <4> QED BY <1>1, <4>1, <4>2 DEF LoopOK
    <3>3. CASE UNCHANGED vars
      BY <3>3 DEF Served, LoopOK, vars, queueVars
    <3> QED BY <1>4, <3>1, <3>2, <3>3
  <2> QED BY <1>1, <1>2, <2>1, <2>2, <2>4, ServedStays
<1> QED BY <1>3, <1>4

\* cleanUp finds every blocked call tracked, and ends it.
LEMMA CleanUpServes ==
    ASSUME FiniteSetFacts, Inv, Served, cleanUp
    PROVE  Served'
<1> DEFINE ids == {s.id : s \in syscallMap}
<1>1. /\ phase = "out" /\ returnSystemCall(ids, syscallMap, -1)
      /\ UNCHANGED <<now, pending, till, process, call, own>>
  BY DEF cleanUp, queueVars, tableVars
<1>2. \A s \in syscallMap : s \in Found(ids)
  BY DEF Found
<1> HIDE DEF ids
<1>3. /\ state' = [a \in Apps |-> IF a \in Callers(ids) THEN "READY" ELSE state[a]]
      /\ phase' = phase
  BY <1>1, TrackedAnswered
<1>4. NobodyForgotten'
  BY <1>1, TrackedForgetsNone DEF Served
<1>5. \A a \in Apps : state'[a] # "WAITING"
  <2> SUFFICES ASSUME NEW a \in Apps, state[a] = "WAITING"
               PROVE  a \in Callers(ids)
    BY <1>3
  <2>1. PICK p \in PIDs : process[p] = a
    BY DEF Inv, TableOK
  <2>2. Remembered(p)
    BY <2>1, RememberedOneByOne, HostAssumption DEF Served
  <2>3. PICK s \in syscallMap : s.pid = p
    BY <1>1, <2>2 DEF Remembered, Served, LoopOK
  <2> QED BY <1>2, <2>1, <2>3 DEF Callers
<1>6. CleanUpUnblocks'
  BY <1>5 DEF CleanUpUnblocks
<1>7. LoopOK'
  BY <1>1, <1>3 DEF Served, LoopOK
<1>8. RequestsOK'
  BY <1>1 DEF Served, RequestsOK, Request, Caller
<1> QED BY <1>3, <1>4, <1>6, <1>7, <1>8 DEF Served

LEMMA InitServed ==
    ASSUME Init
    PROVE  Served
BY HostAssumption DEF Init, Served, NobodyForgotten, CleanUpUnblocks, RequestsOK, LoopOK

LEMMA NextServes ==
    ASSUME FiniteSetFacts, Fits, Proper, Inv, Kept, Served, [Next]_vars
    PROVE  Served'
<1>1. CASE handleMessage
  <2>1. PICK m \in DOMAIN pending :
          \/ nsleep(m) \/ gettimeofday(m) \/ socket(m) \/ unsupported(m) \/ badDescriptor(m)
          \/ ioAnswered(m) \/ ioHeld(m) \/ closeNow(m) \/ closeLate(m) \/ timerCallback(m)
          \/ returned(m)
    BY <1>1 DEF handleMessage
  <2> QED BY <2>1, DescriptorsAreGood, AnsweringHandlersServe, OtherHandlersServe
<1> QED BY <1>1, ApplicationsServe, OutsideServes, CleanUpServes DEF Next
=============================================================================
