----------------------- MODULE HostDescriptors_proofs -----------------------
(***************************************************************************)
(* States of the applications, and their descriptors: every step keeps     *)
(* Kept (HostInv), given Inv.                                              *)
(***************************************************************************)
EXTENDS HostSteps_proofs

\* Most steps are first-order logic, and Zenon finds them; those with numbers say SMT.
USE ZenonT(30)

\* How a step may change the state of an application.
Moves(from, to) ==
    \/ from = to
    \/ from = "NONE" /\ to = "CREATED"
    \/ from = "CREATED" /\ to = "READY"
    \/ from = "READY" /\ to = "RUNNING"
    \/ from = "RUNNING" /\ to \in {"WAITING", "TERMINATED"}
    \/ from = "WAITING" /\ to = "READY"
    \/ from = "TERMINATED" /\ to = "DESTROYED"

LEMMA StatesMove ==
    ASSUME FiniteSetFacts, Inv, [Next]_vars, NEW a \in Apps
    PROVE  Moves(state[a], state'[a])
<1>1. state \in [Apps -> States]
  BY DEF Inv, TypesOK
<1>3. ASSUME NEW b \in Apps,
             registerProcess(b) \/ launchApplication(b) \/ wake(b) \/ E_Syscall(b) \/ mainReturns(b)
      PROVE  Moves(state[a], state'[a])
  BY <1>1, <1>3 DEF registerProcess, launchApplication, wake, E_Syscall, mainReturns, Moves
<1>4. ASSUME NEW m \in DOMAIN pending,
             gettimeofday(m) \/ socket(m) \/ ioAnswered(m) \/ closeNow(m) \/ closeLate(m)
      PROVE  Moves(state[a], state'[a])
  <2>1. PICK kinds, val :
          ReceiveSyscall(m, kinds) /\ returnSystemCall({FreeID}, Tracked(m), val)
    BY <1>4 DEF gettimeofday, socket, ioAnswered, closeNow, closeLate, ReceiveOnFD
  <2>2. state[Caller(m)] = "WAITING" /\ state' = [state EXCEPT ![Caller(m)] = "READY"]
    BY <2>1, AnsweredAtOnce
  <2> QED BY <1>1, <2>2 DEF Moves
<1>5. ASSUME NEW m \in DOMAIN pending,
             nsleep(m) \/ ioHeld(m) \/ unsupported(m) \/ badDescriptor(m)
      PROVE  Moves(state[a], state'[a])
  BY <1>5 DEF nsleep, ioHeld, unsupported, badDescriptor, Moves
<1>6. ASSUME NEW ids, NEW val, returnSystemCall(ids, syscallMap, val)
      PROVE  Moves(state[a], state'[a])
  BY <1>6, TrackedAnswered DEF Moves
<1>7. ASSUME NEW m \in DOMAIN pending, returned(m)
      PROVE  Moves(state[a], state'[a])
  <2>1. /\ state[process[pending[m].arg]] = "TERMINATED"
        /\ state' = [state EXCEPT ![process[pending[m].arg]] = "DESTROYED"]
    BY <1>7, ReturnedFinds
  <2> QED BY <1>1, <2>1 DEF Moves
<1>8. CASE protocolRemoves \/ runCalled \/ runReturns \/ UNCHANGED vars
  BY <1>8 DEF protocolRemoves, runCalled, runReturns, vars, Moves
<1>9. CASE handleMessage
  <2>1. PICK m \in DOMAIN pending :
          \/ nsleep(m) \/ gettimeofday(m) \/ socket(m) \/ unsupported(m) \/ badDescriptor(m)
          \/ ioAnswered(m) \/ ioHeld(m) \/ closeNow(m) \/ closeLate(m) \/ timerCallback(m)
          \/ returned(m)
    BY <1>9 DEF handleMessage
  <2>2. CASE timerCallback(m)
    BY <1>6, <2>2 DEF timerCallback
  <2> QED BY <1>4, <1>5, <1>7, <2>1, <2>2
<1>10. CASE protocolAnswers \/ cleanUp
  BY <1>6, <1>10 DEF protocolAnswers, cleanUp
<1> QED BY <1>3, <1>8, <1>9, <1>10 DEF Next

\* Such a change is a step of a coroutine, or no step of it.
LEMMA MovesAreCoroutineSteps ==
    ASSUME NEW a \in Apps, state[a] \in States, state'[a] \in States, Moves(state[a], state'[a])
    PROVE  [Process(a)!Next]_(View(a))
<1>1. CASE state'[a] = state[a] \/ (state[a] = "NONE" /\ state'[a] = "CREATED")
  BY <1>1 DEF View
<1>2. CASE ~(state'[a] = state[a] \/ (state[a] = "NONE" /\ state'[a] = "CREATED"))
  <2>1. /\ View(a) = [r \in {a} |-> state[a]]
        /\ View(a)' = [r \in {a} |-> state'[a]]
    <3>1. state[a] # "NONE" /\ state'[a] # "NONE"
      BY <1>2 DEF Moves
    <3> QED BY <3>1 DEF View
  <2>2. View(a)' = [View(a) EXCEPT ![a] = state'[a]] /\ View(a)[a] = state[a]
    BY <2>1
  <2>3. Process(a)!Executing = IF state[a] = "RUNNING" THEN {a} ELSE {}
    BY <2>2 DEF Process!Executing
  <2>4. \/ Process(a)!Start(a) \/ Process(a)!Wake(a) \/ Process(a)!Ready(a)
        \/ Process(a)!Destroy(a) \/ Process(a)!Yield(a)
    <3> DEFINE v == View(a)
               w == View(a)'
    <3>1. w = [v EXCEPT ![a] = state'[a]] /\ v[a] = state[a]
      BY <2>2
    <3> HIDE DEF v, w
    <3>2. CASE state[a] = "CREATED" /\ state'[a] = "READY"
      BY <2>3, <3>1, <3>2 DEF Process!Start, Process!Scheduler, v, w
    <3>3. CASE state[a] = "READY" /\ state'[a] = "RUNNING"
      BY <2>3, <3>1, <3>3 DEF Process!Wake, Process!Scheduler, v, w
    <3>4. CASE state[a] = "WAITING" /\ state'[a] = "READY"
      BY <2>3, <3>1, <3>4 DEF Process!Ready, Process!Scheduler, v, w
    <3>5. CASE state[a] = "TERMINATED" /\ state'[a] = "DESTROYED"
      BY <2>3, <3>1, <3>5 DEF Process!Destroy, Process!Scheduler, v, w
    <3>6. CASE state[a] = "RUNNING" /\ state'[a] \in {"WAITING", "TERMINATED"}
      BY <2>3, <3>1, <3>6 DEF Process!Yield, v, w
    <3> QED BY <1>2, <3>2, <3>3, <3>4, <3>5, <3>6 DEF Moves
  <2> QED BY <2>4 DEF Process!Next
<1> QED BY <1>1, <1>2

\* Only its own handler answers a socket call: those that are tracked are of other kinds.
LEMMA OnlySocketAnswersSocket ==
    ASSUME FiniteSetFacts, Inv, [Next]_vars, NEW a \in Apps,
           call[a].kind = "socket", state[a] = "WAITING", state'[a] = "READY"
    PROVE  \E m \in DOMAIN pending : socket(m) /\ Caller(m) = a
<1>1. state \in [Apps -> States]
  BY DEF Inv, TypesOK
<1>2. ASSUME NEW b \in Apps,
             registerProcess(b) \/ launchApplication(b) \/ wake(b) \/ E_Syscall(b) \/ mainReturns(b)
      PROVE  FALSE
  BY <1>1, <1>2 DEF registerProcess, launchApplication, wake, E_Syscall, mainReturns
<1>3. ASSUME NEW m \in DOMAIN pending, NEW kinds, NEW val,
             ReceiveSyscall(m, kinds), returnSystemCall({FreeID}, Tracked(m), val)
      PROVE  Caller(m) = a /\ "socket" \in kinds
  <2>1. state' = [state EXCEPT ![Caller(m)] = "READY"]
    BY <1>3, AnsweredAtOnce
  <2>2. Caller(m) = a
    BY <1>1, <2>1
  <2> QED BY <1>3, <2>2 DEF ReceiveSyscall, Request
<1>4. ASSUME NEW m \in DOMAIN pending, gettimeofday(m) \/ ioAnswered(m) \/ closeNow(m) \/ closeLate(m)
      PROVE  FALSE
  <2>1. \/ ReceiveSyscall(m, {"gettimeofday"}) /\ returnSystemCall({FreeID}, Tracked(m), 0)
        \/ ReceiveSyscall(m, {"io"}) /\ returnSystemCall({FreeID}, Tracked(m), 0)
        \/ ReceiveSyscall(m, {"close"}) /\ returnSystemCall({FreeID}, Tracked(m), 0)
    BY <1>4 DEF gettimeofday, ioAnswered, closeNow, closeLate, ReceiveOnFD
  <2>2. "socket" \in {"gettimeofday"} \/ "socket" \in {"io"} \/ "socket" \in {"close"}
    BY <1>3, <2>1
  <2> QED BY <2>2
<1>5. ASSUME NEW m \in DOMAIN pending, socket(m)
      PROVE  Caller(m) = a
  <2>1. PICK val : ReceiveSyscall(m, {"socket"}) /\ returnSystemCall({FreeID}, Tracked(m), val)
    BY <1>5 DEF socket
  <2> QED BY <1>3, <2>1
<1>6. ASSUME NEW ids, NEW val, returnSystemCall(ids, syscallMap, val)
      PROVE  FALSE
  <2>1. state' = [b \in Apps |-> IF b \in Callers(ids) THEN "READY" ELSE state[b]]
    BY <1>6, TrackedAnswered
  <2>2. a \in Callers(ids)
    BY <2>1
  <2> QED BY <2>2 DEF Callers, Found, Inv, CallsOK
<1>7. ASSUME NEW m \in DOMAIN pending,
             nsleep(m) \/ ioHeld(m) \/ unsupported(m) \/ badDescriptor(m) \/ timerCallback(m)
      PROVE  FALSE
  BY <1>6, <1>7 DEF nsleep, ioHeld, unsupported, badDescriptor, timerCallback
<1>8. ASSUME NEW m \in DOMAIN pending, returned(m)
      PROVE  FALSE
  BY <1>1, <1>8, ReturnedFinds
<1>9. CASE handleMessage
  BY <1>4, <1>5, <1>7, <1>8, <1>9 DEF handleMessage
<1>10. ~(protocolRemoves \/ runCalled \/ runReturns \/ UNCHANGED vars \/ protocolAnswers \/ cleanUp)
  BY <1>6 DEF protocolRemoves, runCalled, runReturns, vars, protocolAnswers, cleanUp
<1> QED BY <1>2, <1>9, <1>10 DEF Next
-----------------------------------------------------------------------------
(* Descriptors *)

LEMMA KnownStays ==
    ASSUME FiniteSetFacts, Inv, [Next]_vars, \A a \in Apps : ~registerProcess(a)
    PROVE  Known' = Known
<1>1. ASSUME NEW a \in Apps
      PROVE  state'[a] # "NONE" <=> state[a] # "NONE"
  <2>1. Moves(state[a], state'[a])
    BY StatesMove
  <2>2. state[a] = "NONE" => state'[a] # "CREATED"
    <3> SUFFICES ASSUME state[a] = "NONE", state'[a] = "CREATED" PROVE FALSE
      OBVIOUS
    <3>1. state \in [Apps -> States]
      BY DEF Inv, TypesOK
    <3>2. ASSUME NEW b \in Apps, launchApplication(b) \/ wake(b) \/ E_Syscall(b) \/ mainReturns(b)
          PROVE  FALSE
      BY <3>1, <3>2 DEF launchApplication, wake, E_Syscall, mainReturns
    <3>3. ASSUME NEW ids, NEW tracked, NEW val, returnSystemCall(ids, tracked, val)
          PROVE  FALSE
      <4>1. state'[a] = "READY" \/ state'[a] = state[a]
        BY <3>3 DEF returnSystemCall
      <4> QED BY <4>1
    <3>4. ASSUME NEW m \in DOMAIN pending,
                 \/ nsleep(m) \/ gettimeofday(m) \/ socket(m) \/ unsupported(m) \/ badDescriptor(m)
                 \/ ioAnswered(m) \/ ioHeld(m) \/ closeNow(m) \/ closeLate(m) \/ timerCallback(m)
          PROVE  FALSE
      <4>1. state' = state \/ \E ids, tracked, val : returnSystemCall(ids, tracked, val)
        BY <3>4 DEF nsleep, gettimeofday, socket, unsupported, badDescriptor, ioAnswered,
                           ioHeld, closeNow, closeLate, timerCallback
      <4> QED BY <3>3, <4>1
    <3>5. ASSUME NEW m \in DOMAIN pending, returned(m)
          PROVE  FALSE
      BY <3>1, <3>5, ReturnedFinds
    <3>6. CASE handleMessage
      BY <3>4, <3>5, <3>6 DEF handleMessage
    <3>7. ~(protocolRemoves \/ runCalled \/ runReturns \/ UNCHANGED vars \/ protocolAnswers \/ cleanUp)
      BY <3>3 DEF protocolRemoves, runCalled, runReturns, vars, protocolAnswers, cleanUp
    <3> QED BY <3>2, <3>6, <3>7 DEF Next
  <2> QED BY <2>1, <2>2 DEF Moves
<1> QED BY <1>1 DEF Known

\* The pids stay fresh when no process appears and removals are those of processes.
LEMMA FreshStays ==
    ASSUME FreshPIDs, Known' = Known, pidStart' = pidStart,
           \A p \in PIDs : process'[p] = process[p] \/ process'[p] = None,
           \A r \in late' : r \in late \/ process[r.pid] # None
    PROVE  FreshPIDs'
<1>1. Cardinality(Known)' = Cardinality(Known)
  OBVIOUS
<1> QED BY <1>1 DEF FreshPIDs

\* Steps that do nothing to descriptors, processes and requests.
LEMMA IdleKeeps ==
    ASSUME Kept, UNCHANGED <<process, fds, pidStart, call, own, late>>, Known' = Known,
           phase' # "hang",
           \A n \in DOMAIN pending' :
              pending'[n].kind = "Syscall" => n \in DOMAIN pending /\ pending'[n] = pending[n]
    PROVE  Kept'
<1>1. FreshPIDs'
  BY FreshStays DEF Kept
<1>2. DescriptorsKept'
  BY DEF Kept, DescriptorsKept
<1>3. ClosesOK'
  <2> SUFFICES ASSUME NEW n \in DOMAIN pending', pending'[n].kind = "Syscall", Request(n)'.kind = "close"
               PROVE  Closing(n)'
    BY DEF ClosesOK
  <2>1. n \in DOMAIN pending /\ pending'[n] = pending[n]
    OBVIOUS
  <2>2. Request(n)' = Request(n) /\ Caller(n)' = Caller(n)
    BY <2>1 DEF Request, Caller
  <2>3. Closing(n)
    BY <2>1, <2>2 DEF Kept, ClosesOK
  <2> QED BY <2>1, <2>2, <2>3 DEF Closing
<1> QED BY <1>1, <1>2, <1>3 DEF Kept

LEMMA RegisterKeeps ==
    ASSUME FiniteSetFacts, Fits, Inv, Kept, NEW a \in Apps, registerProcess(a)
    PROVE  Kept'
<1> DEFINE k == Cardinality(Known)
<1>1. FreePIDs # {} /\ FirstFree = k /\ k \in PIDs /\ pidStart = k /\ state[a] = "NONE"
  BY FirstFreeIsFresh DEF registerProcess
<1>2. /\ process' = [process EXCEPT ![k] = a]
      /\ pidStart' = (k + 1) % MAX_PID
      /\ state' = [state EXCEPT ![a] = "CREATED"]
      /\ phase' = phase
      /\ UNCHANGED <<pending, fds, call, own, late>>
  BY <1>1 DEF registerProcess, queueVars, appVars
<1>3. Known' = Known \cup {a} /\ a \in Apps \ Known
  BY <1>1, <1>2 DEF Known, Inv, TypesOK
<1>4. Cardinality(Known') = k + 1
  BY <1>3, KnownAreCounted
<1>5. k \in Nat
  BY KnownAreCounted
<1>6. \A p \in PIDs : process'[p] = IF p = k THEN a ELSE process[p]
  BY <1>2 DEF Inv, TypesOK
<1>7. process[k] = None /\ \A r \in late : r.pid # k
  BY <1>1, <1>5, SMT DEF Kept, FreshPIDs
<1> HIDE DEF k
<1>8. FreshPIDs'
  <2>1. \A p \in PIDs : p >= k + 1 => process'[p] = None /\ \A r \in late' : r.pid # p
    <3>1. \A p \in PIDs : p >= k + 1 => p >= k /\ p # k
      BY <1>5, HostAssumption, SMT DEF PIDs
    <3> QED BY <1>2, <1>6, <3>1 DEF Kept, FreshPIDs, k
  <2> QED BY <1>2, <1>4, <2>1 DEF FreshPIDs
<1>9. DescriptorsKept'
  <2>1. own[a] = {}
    BY <1>1 DEF Inv, TableOK
  <2>2. \A p \in PIDs : process'[p] # None => own'[process'[p]] \subseteq fds'[p]
    BY <1>2, <1>6, <2>1 DEF Kept, DescriptorsKept
  <2>3. \A r \in late : r.pid \in PIDs /\ process'[r.pid] = process[r.pid]
    BY <1>6, <1>7 DEF Inv, TypesOK
  <2> QED BY <1>2, <2>2, <2>3 DEF Kept, DescriptorsKept
<1>10. ClosesOK'
  <2>1. \A n \in DOMAIN pending : pending[n].kind = "Syscall" =>
           Caller(n)' = Caller(n) /\ Request(n)' = Request(n)
    <3> SUFFICES ASSUME NEW n \in DOMAIN pending, pending[n].kind = "Syscall"
                 PROVE  Caller(n)' = Caller(n) /\ Request(n)' = Request(n)
      OBVIOUS
    <3>1. pending[n].arg \in PIDs /\ process[pending[n].arg] # None
      BY HostAssumption DEF Inv, QueueOK, MessagesOK
    <3> QED BY <1>2, <1>6, <1>7, <3>1 DEF Caller, Request
  <2> QED BY <1>2, <2>1, SMT DEF Kept, ClosesOK, Closing
<1> QED BY <1>2, <1>8, <1>9, <1>10 DEF Kept

\* A descriptor being closed was held, so it is open and no removal of it is to come.
LEMMA SyscallKeeps ==
    ASSUME Inv, Kept, NEW a \in Apps, E_Syscall(a), Known' = Known
    PROVE  Kept'
<1> DEFINE pid == PidOf(a)
<1>1. PICK request \in Requests(a) :
         /\ call' = [call EXCEPT ![a] =
                       [kind |-> request[1], arg |-> request[2], at |-> now]]
         /\ own' = [own EXCEPT ![a] =
                      IF request[1] = "close" THEN @ \ {request[2]} ELSE @]
  BY DEF E_Syscall
<1>2. /\ state[a] = "RUNNING"
      /\ sendMessageSelf("Syscall", pid)
      /\ phase' = "loop"
      /\ UNCHANGED <<process, fds, pidStart, late>>
  BY DEF E_Syscall, tableVars
<1>3. pid \in PIDs /\ process[pid] = a
  BY <1>2, PidOfFinds DEF Inv
<1>4. request[1] = "close" => request[2] \in own[a]
  BY <1>1, SMT DEF Requests
<1>5. /\ sent + 1 \notin DOMAIN pending
      /\ DOMAIN pending' = DOMAIN pending \cup {sent + 1}
      /\ \A n \in DOMAIN pending : pending'[n] = pending[n]
      /\ pending'[sent + 1] = [kind |-> "Syscall", arg |-> pid, wakeup |-> now]
  BY <1>2, SendAdds DEF Inv
<1>6. /\ \A b \in Apps : own'[b] \subseteq own[b]
      /\ \A b \in Apps : b # a => call'[b] = call[b] /\ own'[b] = own[b]
      /\ call'[a] = [kind |-> request[1], arg |-> request[2], at |-> now]
      /\ request[1] = "close" => request[2] \notin own'[a]
  BY <1>1 DEF Inv, TypesOK
<1> HIDE DEF pid
<1>7. FreshPIDs'
  BY <1>2, FreshStays DEF Kept
<1>8. DescriptorsKept'
  <2>1. \A p \in PIDs : process[p] # None => own'[process[p]] \subseteq fds[p]
    BY <1>6, SMT DEF Kept, DescriptorsKept, Inv, TypesOK
  <2>2. \A r \in late : r.app \in Apps
    BY DEF Inv, TypesOK
  <2> QED BY <1>2, <1>6, <2>1, <2>2 DEF Kept, DescriptorsKept
<1>9. ClosesOK'
  <2> SUFFICES ASSUME NEW n \in DOMAIN pending', pending'[n].kind = "Syscall", Request(n)'.kind = "close"
               PROVE  Closing(n)'
    BY DEF ClosesOK
  <2>1. CASE n \in DOMAIN pending
    <3>1. pending'[n] = pending[n]
      BY <1>5, <2>1
    <3>2. Caller(n)' = Caller(n) /\ Caller(n) \in Apps /\ Caller(n) # a
      BY <1>2, <2>1, <3>1 DEF Caller, Inv, MessagesOK
    <3>3. Request(n)' = Request(n)
      BY <1>6, <3>2 DEF Request
    <3>4. Closing(n)
      BY <2>1, <3>1, <3>3 DEF Kept, ClosesOK
    <3> QED BY <1>2, <1>6, <3>1, <3>2, <3>3, <3>4 DEF Closing
  <2>2. CASE n = sent + 1
    <3>1. pending'[n].arg = pid /\ Caller(n)' = a
      BY <1>2, <1>3, <1>5, <2>2, SMT DEF Caller
    <3>2. Request(n)'.arg = request[2] /\ request[1] = "close"
      BY <1>6, <3>1, SMT DEF Request
    <3>3. request[2] \in own[a] /\ own[a] \subseteq fds[pid]
      BY <1>3, <1>4, <3>2, HostAssumption DEF Kept, DescriptorsKept
    <3>4. \A r \in late : r.pid = pid => r.fd # request[2]
      BY <1>3, <3>3, HostAssumption DEF Kept, DescriptorsKept
    <3> QED BY <1>2, <1>6, <3>1, <3>2, <3>3, <3>4 DEF Closing
  <2> QED BY <1>5, <2>1, <2>2
<1> QED BY <1>2, <1>7, <1>8, <1>9 DEF Kept

\* socket: the new descriptor was not open, so no removal of it is to come.
LEMMA SocketKeeps ==
    ASSUME FiniteSetFacts, Inv, Kept, NEW m \in DOMAIN pending, socket(m), Known' = Known,
           phase' # "hang"
    PROVE  Kept'
<1> DEFINE pid == pending[m].arg
           fd == createFileDescriptor(fds[pid])
           a == Caller(m)
<1>1. /\ ReceiveSyscall(m, {"socket"}) /\ pending' = Without(m)
      /\ process' = process /\ pidStart' = pidStart /\ late' = late
      /\ fds' = [fds EXCEPT ![pid] = @ \cup ({fd} \ {-1})]
      /\ own' = [own EXCEPT ![a] = @ \cup ({fd} \ {-1})]
  BY DEF socket
<1>2. /\ pid \in PIDs /\ a \in Apps /\ process[pid] = a
      /\ \A n \in DOMAIN pending' : n \in DOMAIN pending /\ pending'[n] = pending[n]
      /\ \A n \in DOMAIN pending' :
            pending'[n].kind = "Syscall" =>
               /\ pending[n].arg # pid
               /\ Caller(n)' = Caller(n) /\ Caller(n) \in Apps /\ Caller(n) # a
               /\ Request(n)' = Request(n)
  BY <1>1, HandlerFrame
<1>3. fd \in (FDs \ fds[pid]) \cup {-1}
  BY <1>2, DescriptorChosen DEF Inv, TypesOK
<1> DEFINE new == {fd} \ {-1}
<1>4. \A f \in new : f \notin fds[pid]
  BY <1>3
<1>5. /\ \A p \in PIDs : fds'[p] = IF p = pid THEN fds[p] \cup new ELSE fds[p]
      /\ \A b \in Apps : own'[b] = IF b = a THEN own[b] \cup new ELSE own[b]
  BY <1>1 DEF Inv, TypesOK
<1> HIDE DEF pid, fd, a, new
<1>6. FreshPIDs'
  BY <1>1, FreshStays DEF Kept
<1>7. \A p \in PIDs : process[p] = a => p = pid
  BY <1>2, HostAssumption, SMT DEF Inv, TableOK
<1>8. DescriptorsKept'
  <2>1. \A p \in PIDs : process[p] # None => own'[process[p]] \subseteq fds'[p]
    <3> SUFFICES ASSUME NEW p \in PIDs, process[p] # None
                 PROVE  own'[process[p]] \subseteq fds'[p]
      OBVIOUS
    <3>1. process[p] \in Apps /\ own[process[p]] \subseteq fds[p]
      BY DEF Inv, TypesOK, Kept, DescriptorsKept
    <3> QED BY <1>2, <1>5, <1>7, <3>1
  <2>2. ASSUME NEW r \in late, process[r.pid] # None
        PROVE  process[r.pid] = r.app /\ r.fd \notin own'[r.app] /\ r.fd \in fds'[r.pid]
    <3>1. r.pid \in PIDs /\ r.app \in Apps
      BY DEF Inv, TypesOK
    <3>2. process[r.pid] = r.app /\ r.fd \notin own[r.app] /\ r.fd \in fds[r.pid]
      BY <2>2 DEF Kept, DescriptorsKept
    <3>3. r.fd \in fds'[r.pid]
      BY <1>5, <3>1, <3>2
    <3>4. r.fd \notin own'[r.app]
      <4>1. CASE r.app = a
        <5>1. r.pid = pid
          BY <1>7, <3>1, <3>2, <4>1
        <5> QED BY <1>4, <1>5, <3>1, <3>2, <5>1
      <4>2. CASE r.app # a
        BY <1>5, <3>1, <3>2, <4>2
      <4> QED BY <4>1, <4>2
    <3> QED BY <3>2, <3>3, <3>4
  <2> QED BY <1>1, <2>1, <2>2 DEF DescriptorsKept
<1>9. ClosesOK'
  <2> SUFFICES ASSUME NEW n \in DOMAIN pending', pending'[n].kind = "Syscall", Request(n)'.kind = "close"
               PROVE  Closing(n)'
    BY DEF ClosesOK
  <2>1. n \in DOMAIN pending /\ pending'[n] = pending[n] /\ pending[n].arg \in PIDs
    BY <1>2 DEF Inv, QueueOK
  <2>2. /\ pending[n].arg # pid /\ Caller(n)' = Caller(n) /\ Caller(n) \in Apps /\ Caller(n) # a
        /\ Request(n)' = Request(n)
    BY <1>2
  <2>3. Closing(n)
    BY <2>1, <2>2 DEF Kept, ClosesOK
  <2> QED BY <1>1, <1>5, <2>1, <2>2, <2>3 DEF Closing
<1> QED BY <1>6, <1>8, <1>9 DEF Kept

\* close, now or later: the descriptor is not held any longer, and removed once.
LEMMA CloseKeeps ==
    ASSUME Inv, Kept, NEW m \in DOMAIN pending, closeNow(m) \/ closeLate(m), Known' = Known,
           phase' # "hang"
    PROVE  Kept'
<1> DEFINE pid == pending[m].arg
           fd == Request(m).arg
           a == Caller(m)
<1>1. /\ ReceiveSyscall(m, {"close"}) /\ pending' = Without(m)
      /\ UNCHANGED <<process, pidStart, own>>
      /\ \/ fds' = [fds EXCEPT ![pid] = @ \ {fd}] /\ late' = late
         \/ fds' = fds /\ late' = late \cup {[pid |-> pid, fd |-> fd, app |-> a]}
  BY DEF closeNow, closeLate, ReceiveOnFD
<1>2. /\ pending[m].kind = "Syscall" /\ pid \in PIDs /\ a \in Apps /\ process[pid] = a
      /\ Request(m).kind = "close"
      /\ \A n \in DOMAIN pending' : n \in DOMAIN pending /\ pending'[n] = pending[n]
      /\ \A n \in DOMAIN pending' :
            pending'[n].kind = "Syscall" =>
               /\ pending[n].arg # pid
               /\ Caller(n)' = Caller(n)
               /\ Request(n)' = Request(n)
  BY <1>1, HandlerFrame, SMT
<1>3. fd \in fds[pid] /\ fd \notin own[a] /\ \A r \in late : r.pid = pid => r.fd # fd
  BY <1>2 DEF Kept, ClosesOK, Closing
<1> HIDE DEF pid, fd, a
<1>4. /\ \A p \in PIDs : \A f \in fds[p] : f \in fds'[p] \/ (p = pid /\ f = fd)
      /\ \A r \in late' : r \in late \/ (r = [pid |-> pid, fd |-> fd, app |-> a] /\ fds' = fds)
  BY <1>1 DEF Inv, TypesOK
<1>5. FreshPIDs'
  <2>1. \A r \in late' : r \in late \/ process[r.pid] # None
    BY <1>2, <1>4, HostAssumption, SMT
  <2> QED BY <1>1, <2>1, FreshStays DEF Kept
<1>6. \A p \in PIDs : process[p] # None /\ process[p] = a => p = pid
  BY <1>2, HostAssumption DEF Inv, TableOK
<1>7. DescriptorsKept'
  <2>1. \A p \in PIDs : process[p] # None => own[process[p]] \subseteq fds'[p]
    <3> SUFFICES ASSUME NEW p \in PIDs, process[p] # None, NEW f \in own[process[p]]
                 PROVE  f \in fds'[p]
      OBVIOUS
    <3>1. f \in fds[p]
      BY DEF Kept, DescriptorsKept
    <3>2. ~(p = pid /\ f = fd)
      BY <1>2, <1>3
    <3> QED BY <1>4, <3>1, <3>2
  <2>2. ASSUME NEW r \in late', process[r.pid] # None
        PROVE  process[r.pid] = r.app /\ r.fd \notin own[r.app] /\ r.fd \in fds'[r.pid]
    <3>1. CASE r \in late
      <4>1. r.pid \in PIDs
        BY <3>1 DEF Inv, TypesOK
      <4>2. process[r.pid] = r.app /\ r.fd \notin own[r.app] /\ r.fd \in fds[r.pid]
        BY <2>2, <3>1 DEF Kept, DescriptorsKept
      <4>3. ~(r.pid = pid /\ r.fd = fd)
        BY <1>3, <3>1
      <4> QED BY <1>4, <4>1, <4>2, <4>3
    <3>2. CASE r = [pid |-> pid, fd |-> fd, app |-> a] /\ fds' = fds
      BY <1>2, <1>3, <3>2
    <3> QED BY <1>4, <3>1, <3>2
  <2> QED BY <1>1, <2>1, <2>2 DEF DescriptorsKept
<1>8. ClosesOK'
  <2> SUFFICES ASSUME NEW n \in DOMAIN pending', pending'[n].kind = "Syscall", Request(n)'.kind = "close"
               PROVE  Closing(n)'
    BY DEF ClosesOK
  <2>1. n \in DOMAIN pending /\ pending'[n] = pending[n] /\ pending[n].arg \in PIDs
    BY <1>2 DEF Inv, QueueOK
  <2>2. pending[n].arg # pid /\ Caller(n)' = Caller(n) /\ Request(n)' = Request(n)
    BY <1>2
  <2>3. Closing(n)
    BY <2>1, <2>2 DEF Kept, ClosesOK
  <2>4. Request(n).arg \in fds'[pending[n].arg]
    BY <1>4, <2>1, <2>2, <2>3 DEF Closing
  <2>5. \A r \in late' : r.pid = pending[n].arg => r.fd # Request(n).arg
    BY <1>4, <2>2, <2>3, SMT DEF Closing
  <2> QED BY <1>1, <2>1, <2>2, <2>3, <2>4, <2>5 DEF Closing
<1> QED BY <1>5, <1>7, <1>8 DEF Kept

\* A process that is gone needs nothing; the pids of the others are not its own.
LEMMA ReturnedKeeps ==
    ASSUME Inv, Kept, NEW m \in DOMAIN pending, returned(m), Known' = Known
    PROVE  Kept'
<1> DEFINE pid == pending[m].arg
<1>1. /\ process[pid] \in Apps /\ state[process[pid]] = "TERMINATED" /\ pid \in PIDs
      /\ process' = [process EXCEPT ![pid] = None]
      /\ fds' = [fds EXCEPT ![pid] = {}]
      /\ phase' = phase
  BY ReturnedFinds
<1>2. Receive(m, "Return") /\ pending' = Without(m) /\ UNCHANGED <<pidStart, own, late>>
  BY DEF returned
<1>3. call' = call /\ \A n \in DOMAIN pending' : n \in DOMAIN pending /\ pending'[n] = pending[n]
  BY <1>2 DEF Receive, Without
<1>4. \A p \in PIDs : /\ process'[p] = IF p = pid THEN None ELSE process[p]
                      /\ p # pid => fds'[p] = fds[p]
  BY <1>1 DEF Inv, TypesOK
<1> HIDE DEF pid
<1>5. FreshPIDs'
  BY <1>2, <1>4, FreshStays DEF Kept
<1>6. DescriptorsKept'
  <2>1. \A p \in PIDs : process'[p] # None => own[process'[p]] \subseteq fds'[p]
    BY <1>4 DEF Kept, DescriptorsKept
  <2>2. \A r \in late : r.pid \in PIDs
    BY DEF Inv, TypesOK
  <2>3. \A r \in late :
           process'[r.pid] # None =>
              process'[r.pid] = r.app /\ r.fd \notin own[r.app] /\ r.fd \in fds'[r.pid]
    BY <1>4, <2>2 DEF Kept, DescriptorsKept
  <2> QED BY <1>2, <2>1, <2>3 DEF DescriptorsKept
<1>7. ClosesOK'
  <2> SUFFICES ASSUME NEW n \in DOMAIN pending', pending'[n].kind = "Syscall", Request(n)'.kind = "close"
               PROVE  Closing(n)'
    BY DEF ClosesOK
  <2>1. n \in DOMAIN pending /\ pending'[n] = pending[n] /\ pending[n].arg \in PIDs
    BY <1>3 DEF Inv, QueueOK
  <2>2. pending[n].arg # pid
    BY <1>1, <2>1 DEF Inv, MessagesOK
  <2>3. Caller(n)' = Caller(n)
    BY <1>4, <2>1, <2>2 DEF Caller
  <2>4. Request(n)' = Request(n)
    BY <1>3, <2>3 DEF Request
  <2>5. Closing(n)
    BY <2>1, <2>4 DEF Kept, ClosesOK
  <2> QED BY <1>2, <1>4, <2>1, <2>2, <2>3, <2>4, <2>5 DEF Closing
<1> QED BY <1>1, <1>5, <1>6, <1>7 DEF Kept

\* A late removal removes what it was asked for, if the process is still there.
LEMMA RemovalKeeps ==
    ASSUME Inv, Kept, protocolRemoves, Known' = Known
    PROVE  Kept'
<1>1. PICK r \in late : removeFileDescriptor(r.pid, r.fd) /\ late' = late \ {r}
  BY DEF protocolRemoves
<1>2. UNCHANGED <<pending, process, pidStart, call, own, phase>>
  BY DEF protocolRemoves, protocolEvent
<1>3. r.pid \in PIDs
  BY DEF Inv, TypesOK
<1>4. \A p \in PIDs : \A f \in fds[p] : f \in fds'[p] \/ (p = r.pid /\ process[p] # None /\ f = r.fd)
  BY <1>1, <1>3 DEF removeFileDescriptor, Inv, TypesOK
<1>5. FreshPIDs'
  <2>1. \A q \in late' : q \in late
    BY <1>1
  <2> QED BY <1>2, <2>1, FreshStays DEF Kept
<1>6. DescriptorsKept'
  <2>1. \A p \in PIDs : process[p] # None => own[process[p]] \subseteq fds'[p]
    BY <1>4 DEF Kept, DescriptorsKept
  <2>2. ASSUME NEW q \in late', process[q.pid] # None
        PROVE  process[q.pid] = q.app /\ q.fd \notin own[q.app] /\ q.fd \in fds'[q.pid]
    <3>1. q \in late /\ q # r
      BY <1>1
    <3>2. process[q.pid] = q.app /\ q.fd \notin own[q.app] /\ q.fd \in fds[q.pid]
      BY <2>2, <3>1 DEF Kept, DescriptorsKept
    <3>3. q \in [pid : PIDs, fd : FDs, app : Apps] /\ r \in [pid : PIDs, fd : FDs, app : Apps]
      BY <3>1 DEF Inv, TypesOK
    <3>4. ~(q.pid = r.pid /\ q.fd = r.fd)
      <4> SUFFICES ASSUME q.pid = r.pid, q.fd = r.fd PROVE FALSE
        OBVIOUS
      <4>1. q.app = r.app
        BY <2>2, <3>2 DEF Kept, DescriptorsKept
      <4> QED BY <3>1, <3>3, <4>1, SMT
    <3> QED BY <1>4, <3>2, <3>3, <3>4
  <2> QED BY <1>2, <2>1, <2>2 DEF DescriptorsKept
<1>7. ClosesOK'
  <2> SUFFICES ASSUME NEW n \in DOMAIN pending', pending'[n].kind = "Syscall", Request(n)'.kind = "close"
               PROVE  Closing(n)'
    BY DEF ClosesOK
  <2>1. n \in DOMAIN pending /\ pending'[n] = pending[n] /\ pending[n].arg \in PIDs
    BY <1>2 DEF Inv, QueueOK
  <2>2. Caller(n)' = Caller(n) /\ Request(n)' = Request(n)
    BY <1>2 DEF Caller, Request
  <2>3. Closing(n)
    BY <2>1, <2>2 DEF Kept, ClosesOK
  <2>4. Request(n).arg \in fds'[pending[n].arg]
    BY <1>4, <2>1, <2>3 DEF Closing
  <2> QED BY <1>1, <1>2, <2>1, <2>2, <2>3, <2>4 DEF Closing
<1> QED BY <1>2, <1>5, <1>6, <1>7 DEF Kept

\* Only a full process table makes the program hang.
LEMMA PhaseIsNotHang ==
    ASSUME phase # "hang", NEW ids, NEW tracked, NEW val, returnSystemCall(ids, tracked, val)
    PROVE  phase' # "hang"
<1>1. phase' = phase \/ phase' = "abort"
  BY DEF returnSystemCall
<1> QED BY <1>1

LEMMA NextKeeps ==
    ASSUME FiniteSetFacts, Fits, Inv, Kept, [Next]_vars
    PROVE  Kept'
<1>1. ASSUME NEW a \in Apps, registerProcess(a)
      PROVE  Kept'
  BY <1>1, RegisterKeeps
<1>2. CASE \A a \in Apps : ~registerProcess(a)
  <2>1. Known' = Known
    BY <1>2, KnownStays
  <2>2. phase # "hang"
    BY DEF Kept
  <2>3. ASSUME NEW a \in Apps, launchApplication(a) \/ wake(a)
        PROVE  Kept'
    <3>1. UNCHANGED <<pending, process, fds, pidStart, call, own, late>> /\ phase' # "hang"
      BY <2>2, <2>3 DEF launchApplication, wake, queueVars, tableVars, appVars
    <3> QED BY <2>1, <3>1, IdleKeeps
  <2>4. ASSUME NEW a \in Apps, E_Syscall(a)
        PROVE  Kept'
    BY <2>1, <2>4, SyscallKeeps
  <2>5. ASSUME NEW a \in Apps, mainReturns(a)
        PROVE  Kept'
    <3>1. UNCHANGED <<process, fds, pidStart, call, own, late>> /\ phase' # "hang"
      BY <2>5 DEF mainReturns, tableVars, appVars
    <3>2. sendMessageSelf("Return", PidOf(a))
      BY <2>5 DEF mainReturns
    <3>3. /\ DOMAIN pending' = DOMAIN pending \cup {sent + 1}
          /\ \A n \in DOMAIN pending : pending'[n] = pending[n]
          /\ pending'[sent + 1] = [kind |-> "Return", arg |-> PidOf(a), wakeup |-> now]
      BY <3>2, SendAdds DEF Inv
    <3>4. \A n \in DOMAIN pending' :
             pending'[n].kind = "Syscall" => n \in DOMAIN pending /\ pending'[n] = pending[n]
      BY <3>3, SMT
    <3> QED BY <2>1, <3>1, <3>4, IdleKeeps
  <2>6. ASSUME NEW m \in DOMAIN pending, nsleep(m)
        PROVE  Kept'
    <3>1. /\ UNCHANGED <<process, fds, pidStart, call, own, late, phase>>
          /\ pending' = With(Without(m), Message("Timer", FreeID, now' + Request(m).arg))
      BY <2>6 DEF nsleep, ReceiveSyscall, Receive, tableVars
    <3>2. \A n \in DOMAIN pending' :
             pending'[n].kind = "Syscall" => n \in DOMAIN pending /\ pending'[n] = pending[n]
      BY <3>1 DEF With, Without, Message
    <3> QED BY <2>1, <2>2, <3>1, <3>2, IdleKeeps
  <2>7. ASSUME NEW m \in DOMAIN pending,
               \/ gettimeofday(m) \/ ioAnswered(m) \/ timerCallback(m)
               \/ unsupported(m) \/ badDescriptor(m) \/ ioHeld(m)
        PROVE  Kept'
    <3>1. UNCHANGED <<process, fds, pidStart, call, own, late>> /\ pending' = Without(m)
      BY <2>7 DEF gettimeofday, ioAnswered, timerCallback, unsupported, badDescriptor, ioHeld,
                  ReceiveOnFD, ReceiveSyscall, Receive, tableVars
    <3>2. \/ phase' = phase \/ phase' = "abort"
          \/ \E ids, tracked, val : returnSystemCall(ids, tracked, val)
      BY <2>7 DEF gettimeofday, ioAnswered, timerCallback, unsupported, badDescriptor, ioHeld
    <3>3. phase' # "hang"
      BY <2>2, <3>2, PhaseIsNotHang
    <3>4. \A n \in DOMAIN pending' : n \in DOMAIN pending /\ pending'[n] = pending[n]
      BY <3>1 DEF Without
    <3> QED BY <2>1, <3>1, <3>3, <3>4, IdleKeeps
  <2>8. ASSUME NEW m \in DOMAIN pending, socket(m) \/ closeNow(m) \/ closeLate(m)
        PROVE  Kept'
    <3>1. \E ids, tracked, val : returnSystemCall(ids, tracked, val)
      BY <2>8 DEF socket, closeNow, closeLate
    <3>2. phase' # "hang"
      BY <2>2, <3>1, PhaseIsNotHang
    <3> QED BY <2>1, <2>8, <3>2, SocketKeeps, CloseKeeps
  <2>9. ASSUME NEW m \in DOMAIN pending, returned(m)
        PROVE  Kept'
    BY <2>1, <2>9, ReturnedKeeps
  <2>10. CASE handleMessage
    BY <2>6, <2>7, <2>8, <2>9, <2>10 DEF handleMessage
  <2>11. CASE protocolAnswers \/ cleanUp
    <3>1. UNCHANGED <<pending, process, fds, pidStart, call, own, late>>
      BY <2>11 DEF protocolAnswers, protocolEvent, cleanUp, queueVars, tableVars
    <3>2. \E ids, tracked, val : returnSystemCall(ids, tracked, val)
      BY <2>11 DEF protocolAnswers, cleanUp
    <3>3. phase' # "hang"
      BY <2>2, <3>2, PhaseIsNotHang
    <3> QED BY <2>1, <3>1, <3>3, IdleKeeps
  <2>12. CASE runCalled \/ runReturns \/ UNCHANGED vars
    <3>1. UNCHANGED <<pending, process, fds, pidStart, call, own, late>> /\ phase' # "hang"
      BY <2>2, <2>12 DEF runCalled, runReturns, vars, queueVars, tableVars, appVars
    <3> QED BY <2>1, <3>1, IdleKeeps
  <2>13. CASE protocolRemoves
    BY <2>1, <2>13, RemovalKeeps
  <2> QED BY <1>2, <2>3, <2>4, <2>5, <2>10, <2>11, <2>12, <2>13 DEF Next
<1> QED BY <1>1, <1>2

LEMMA InitKept ==
    ASSUME FiniteSetFacts, Fits, Init
    PROVE  Kept
<1>1. Known = {}
  BY DEF Init, Known
<1>2. Cardinality(Known) = 0
  BY <1>1 DEF FiniteSetFacts, EmptyCountsZero
<1>3. FreshPIDs
  BY <1>2, HostAssumption, SMT DEF Init, FreshPIDs
<1> QED BY <1>3 DEF Init, Kept, DescriptorsKept, ClosesOK

\* The answer to socket is the lowest descriptor that is not open, if there is one.
LEMMA SocketAnswersLowest ==
    ASSUME FiniteSetFacts, Inv, [Next]_vars, NEW p \in PIDs, process[p] # None,
           call[process[p]].kind = "socket", state[process[p]] = "WAITING",
           state'[process[p]] = "READY"
    PROVE  syscallRet'[process[p]] =
               IF FDs \ fds[p] = {} THEN -1 ELSE Min(FDs \ fds[p])
<1> DEFINE a == process[p]
           closed == FDs \ fds[p]
<1>1. a \in Apps /\ fds[p] \in SUBSET FDs /\ syscallRet \in [Apps -> Int]
  BY DEF Inv, TypesOK
<1>2. PICK m \in DOMAIN pending : socket(m) /\ Caller(m) = a
  BY <1>1, OnlySocketAnswersSocket
<1> DEFINE fd == createFileDescriptor(fds[pending[m].arg])
<1>3. ReceiveSyscall(m, {"socket"}) /\ returnSystemCall({FreeID}, Tracked(m), fd)
  BY <1>2 DEF socket
<1>4. pending[m].arg \in PIDs
  BY <1>3 DEF ReceiveSyscall, Receive, Inv, QueueOK
<1>5. pending[m].arg = p
  BY <1>1, <1>2, <1>4, HostAssumption DEF Inv, TableOK, Caller
<1> HIDE DEF fd
<1>6. syscallRet' = [syscallRet EXCEPT ![a] = fd]
  BY <1>2, <1>3, AnsweredAtOnce
<1>7. syscallRet'[a] = createFileDescriptor(fds[p])
  BY <1>1, <1>5, <1>6 DEF fd
<1> QED BY <1>1, <1>7, DescriptorChosen
=============================================================================
