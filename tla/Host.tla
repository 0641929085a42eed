-------------------------------- MODULE Host --------------------------------
(***************************************************************************)
(* The operating system of one simulated machine, E::Host                  *)
(* (src/Networking/E_Host.cpp): process table, blocking system calls,      *)
(* sleep timers, file descriptors and cleanUp, on top of the event queue   *)
(* (EventQueue) and of applications as coroutines (Coroutine).             *)
(*                                                                         *)
(* A message handler runs to its end before anything else happens, so each *)
(* is one action.  The only registered protocol (TCP in this repository)   *)
(* is external: it answers a call at once or later, from one of its own    *)
(* events, and may remove a closed descriptor late (TIME_WAIT).  Packets   *)
(* appear only as such events.                                             *)
(***************************************************************************)
EXTENDS Integers, FiniteSets, FiniteSetsExt

CONSTANTS
    Apps,         \* the applications
    None,         \* no application
    MAX_PID,      \* size of the process table
    MAX_FD,       \* descriptors are 3 .. MAX_FD - 1
    Sleeps,       \* arguments of nsleep
    Tills,        \* arguments of run() (0: no limit)
    Unsupported,  \* do applications ask for unregistered protocols
    UseInvalid,   \* do applications use descriptors that are not open
    MaxCalls,     \* bound: system calls of one application
    Horizon       \* bound: time of an event of the protocol

ASSUME HostAssumption ==
    /\ None \notin Apps
    /\ MAX_PID \in Nat \ {0}
    /\ MAX_FD = MAX_PID
    /\ Sleeps \subseteq Nat
    /\ Tills \subseteq Nat
    /\ Unsupported \in BOOLEAN
    /\ UseInvalid \in BOOLEAN
    /\ MaxCalls \in Nat
    /\ Horizon \in Nat

VARIABLES
    now, sent, pending,      \* the event queue
    phase,                   \* "out" of run(), its "loop", an "app"; or the end:
                             \* "abort" (an assertion failed), "hang"
    till,                    \* the limit of run()
    state,                   \* Runnable::state of every application
    process,                 \* processInfoMap: pid |-> application
    fds,                     \* fdToDomain of every pid
    pidStart,
    syscallMap,              \* set of [id, pid]
    syscallIDStart,
    running,
    call,                    \* the call an application is in, or its last one
    syscallRet,              \* what it returned
    own,                     \* descriptors an application holds
    count,                   \* number of its calls
    late                     \* removals of descriptors still to come

queueVars == <<now, sent, pending>>
tableVars == <<process, fds, pidStart>>
callVars == <<syscallMap, syscallIDStart, running>>
appVars == <<call, syscallRet, own, count>>
vars == <<queueVars, phase, till, state, tableVars, callVars, appVars, late>>

Queue == INSTANCE EventQueue

PIDs == 0 .. MAX_PID - 1
FDs == 3 .. MAX_FD - 1
NoCall == [kind |-> "none", arg |-> 0, at |-> 0]

Init ==
    /\ now = 0 /\ sent = 0 /\ pending = [m \in {} |-> NoCall]
    /\ phase = "out" /\ till = 0
    /\ state = [a \in Apps |-> "NONE"]
    /\ process = [p \in PIDs |-> None]
    /\ fds = [p \in PIDs |-> {}]
    /\ pidStart = 0
    /\ syscallMap = {}
    /\ syscallIDStart = 0
    /\ running = TRUE
    /\ call = [a \in Apps |-> NoCall]
    /\ syscallRet = [a \in Apps |-> 0]
    /\ own = [a \in Apps |-> {}]
    /\ count = [a \in Apps |-> 0]
    /\ late = {}

Without(m) == [n \in DOMAIN pending \ {m} |-> pending[n]]
With(queue, message) ==
    [n \in DOMAIN queue \cup {sent + 1} |->
        IF n = sent + 1 THEN message ELSE queue[n]]
Message(kind, arg, time) == [kind |-> kind, arg |-> arg, wakeup |-> time]

sendMessageSelf(kind, arg) ==
    /\ pending' = With(pending, Message(kind, arg, now))
    /\ sent' = sent + 1
    /\ UNCHANGED now
-----------------------------------------------------------------------------
(* Processes *)

\* The free pids in the order the search from pidStart meets them.
Distance(pid) == (pid - pidStart) % MAX_FD
FreePIDs == {p \in PIDs : process[p] = None}
\* Slip of FirstFree: the lowest free pid, as for descriptors.
FirstFree_lowest == Min(FreePIDs)
FirstFree == CHOOSE p \in FreePIDs : \A q \in FreePIDs : Distance(p) <= Distance(q)

\* addApplication, registerProcess.  When the table is full, the application is
\* dropped before it was started: its destructor joins a thread that waits for
\* the mutex its own schedLock holds.
registerProcess(a) ==
    /\ phase = "out"
    /\ state[a] = "NONE"
    /\ IF FreePIDs = {}
         THEN /\ phase' = "hang"
              /\ UNCHANGED <<state, process, pidStart>>
         ELSE /\ process' = [process EXCEPT ![FirstFree] = a]
              /\ pidStart' = (FirstFree + 1) % MAX_PID
              /\ state' = [state EXCEPT ![a] = "CREATED"]
              /\ UNCHANGED phase
    /\ UNCHANGED <<queueVars, till, fds, callVars, appVars, late>>

\* Slip of launchApplication: the application need not be new.
launchApplication_again(a) ==
    /\ phase = "out"
    /\ state[a] # "NONE"
    /\ state' = [state EXCEPT ![a] = "READY"]
    /\ UNCHANGED <<queueVars, phase, till, tableVars, callVars, appVars, late>>

launchApplication(a) ==
    /\ phase = "out"
    /\ state[a] = "CREATED"
    /\ state' = [state EXCEPT ![a] = "READY"]
    /\ UNCHANGED <<queueVars, phase, till, tableVars, callVars, appVars, late>>

PidOf(a) == CHOOSE p \in PIDs : process[p] = a
-----------------------------------------------------------------------------
(* Applications *)

Drained == \A a \in Apps : state[a] # "READY"

wake(a) ==
    /\ phase = "loop"
    /\ state[a] = "READY"
    /\ state' = [state EXCEPT ![a] = "RUNNING"]
    /\ phase' = "app"
    /\ UNCHANGED <<queueVars, till, tableVars, callVars, appVars, late>>

\* What an application may ask for.
Requests(a) ==
    {<<"nsleep", d>> : d \in Sleeps}
    \cup {<<"gettimeofday", 0>>, <<"socket", 0>>}
    \cup {<<"unsupported", 0>> : b \in {TRUE} \cap {Unsupported}}
    \cup {<<kind, fd>> : kind \in {"close", "io"}, fd \in own[a]}
    \cup {<<"io", fd>> : fd \in IF UseInvalid THEN FDs ELSE {}}

\* Slip of E_Syscall: it does not ask whether the host is running.
E_Syscall_unchecked(a) ==
    /\ phase = "app"
    /\ state[a] = "RUNNING"
    /\ count[a] < MaxCalls
    /\ \E request \in Requests(a) :
         /\ call' = [call EXCEPT ![a] =
                       [kind |-> request[1], arg |-> request[2], at |-> now]]
         /\ own' = [own EXCEPT ![a] =
                      IF request[1] = "close" THEN @ \ {request[2]} ELSE @]
    /\ syscallRet' = [syscallRet EXCEPT ![a] = -1]
    /\ sendMessageSelf("Syscall", PidOf(a))
    /\ count' = [count EXCEPT ![a] = @ + 1]
    /\ state' = [state EXCEPT ![a] = "WAITING"]
    /\ phase' = "loop"
    /\ UNCHANGED <<till, tableVars, callVars, late>>

\* E_Syscall while the host is running (otherwise it returns -1 at once).
E_Syscall(a) ==
    /\ phase = "app"
    /\ state[a] = "RUNNING"
    /\ running
    /\ count[a] < MaxCalls
    /\ \E request \in Requests(a) :
         /\ call' = [call EXCEPT ![a] =
                       [kind |-> request[1], arg |-> request[2], at |-> now]]
         /\ own' = [own EXCEPT ![a] =
                      IF request[1] = "close" THEN @ \ {request[2]} ELSE @]
    /\ syscallRet' = [syscallRet EXCEPT ![a] = -1]
    /\ sendMessageSelf("Syscall", PidOf(a))
    /\ count' = [count EXCEPT ![a] = @ + 1]
    /\ state' = [state EXCEPT ![a] = "WAITING"]
    /\ phase' = "loop"
    /\ UNCHANGED <<till, tableVars, callVars, late>>

\* E_Main returns; exitProcess.
mainReturns(a) ==
    /\ phase = "app"
    /\ state[a] = "RUNNING"
    /\ sendMessageSelf("Return", PidOf(a))
    /\ state' = [state EXCEPT ![a] = "TERMINATED"]
    /\ phase' = "loop"
    /\ UNCHANGED <<till, tableVars, callVars, appVars, late>>
-----------------------------------------------------------------------------
(* System calls *)

\* Slip of returnSystemCall: the call stays in syscallMap.
returnSystemCall_keeps(ids, tracked, val) ==
    LET callers == {process[s.pid] : s \in {c \in tracked : c.id \in ids}}
    IN  /\ syscallMap' = tracked
        /\ state' = [a \in Apps |-> IF a \in callers THEN "READY" ELSE state[a]]
        /\ syscallRet' =
             [a \in Apps |-> IF a \in callers THEN val ELSE syscallRet[a]]
        /\ UNCHANGED phase

\* returnSystemCall(id, val) for every id in ids, when the calls being tracked
\* are tracked.  An unknown id is ignored; Runnable::ready asserts that the
\* caller is waiting, which the second of two answers to it would not find.
returnSystemCall(ids, tracked, val) ==
    LET found == {s \in tracked : s.id \in ids}
        callers == {process[s.pid] : s \in found}
    IN  /\ syscallMap' = tracked \ found
        /\ state' = [a \in Apps |-> IF a \in callers THEN "READY" ELSE state[a]]
        /\ syscallRet' =
             [a \in Apps |-> IF a \in callers THEN val ELSE syscallRet[a]]
        /\ phase' = IF /\ \A a \in callers : a \in Apps /\ state[a] = "WAITING"
                       /\ Cardinality(callers) = Cardinality(found)
                     THEN phase ELSE "abort"

\* The event loop hands the earliest message, of that kind, to the host.
PastTill(time) == till # 0 /\ time > till
Receive(m, kind) ==
    /\ phase = "loop"
    /\ Drained
    /\ Queue!IsEarliest(m)
    /\ ~PastTill(pending[m].wakeup)
    /\ pending[m].kind = kind
    /\ now' = pending[m].wakeup
    /\ UNCHANGED <<till, call, count, running>>

\* Syscall messages: the asserts on the process, and the number of the call.
Caller(m) == process[pending[m].arg]
Request(m) == call[Caller(m)]
\* Slip of FreeID: every call has the same number.
FreeID_zero == 0
FreeID ==
    Min({k \in syscallIDStart .. syscallIDStart + Cardinality(syscallMap) :
           \A s \in syscallMap : s.id # k})
Tracked(m) == syscallMap \cup {[id |-> FreeID, pid |-> pending[m].arg]}
ReceiveSyscall(m, kinds) ==
    /\ Receive(m, "Syscall")
    /\ Caller(m) \in Apps
    /\ Request(m).kind \in kinds
Allocate == syscallIDStart' = FreeID + 1

\* Slip of nsleep: no timer for a sleep of no time.
nsleep_skipsZero(m) ==
    /\ ReceiveSyscall(m, {"nsleep"})
    /\ Allocate
    /\ syscallMap' = Tracked(m)
    /\ IF Request(m).arg = 0
         THEN pending' = Without(m) /\ UNCHANGED sent
         ELSE /\ pending' = With(Without(m),
                                Message("Timer", FreeID, now' + Request(m).arg))
              /\ sent' = sent + 1
    /\ UNCHANGED <<state, tableVars, syscallRet, own, late, phase>>

\* DefaultSystemCall: NSLEEP sets a timer, GETTIMEOFDAY answers at once.
nsleep(m) ==
    /\ ReceiveSyscall(m, {"nsleep"})
    /\ Allocate
    /\ syscallMap' = Tracked(m)
    /\ pending' = With(Without(m), Message("Timer", FreeID, now' + Request(m).arg))
    /\ sent' = sent + 1
    /\ UNCHANGED <<state, tableVars, syscallRet, own, late, phase>>

gettimeofday(m) ==
    /\ ReceiveSyscall(m, {"gettimeofday"})
    /\ Allocate
    /\ returnSystemCall({FreeID}, Tracked(m), 0)
    /\ pending' = Without(m)
    /\ UNCHANGED <<sent, tableVars, own, late>>

\* createFileDescriptor walks the sorted descriptors from 3 while they agree.
Agrees(open, fd) == fd \in open /\ Cardinality({f \in open : f < fd}) = fd - 3
Current(open) == Min({fd \in 3 .. 3 + Cardinality(open) : ~Agrees(open, fd)})
\* Slip of createFileDescriptor: no limit.
createFileDescriptor_unlimited(open) == Current(open)
createFileDescriptor(open) == IF Current(open) >= MAX_FD THEN -1 ELSE Current(open)

socket(m) ==
    LET pid == pending[m].arg
        fd == createFileDescriptor(fds[pid])
    IN  /\ ReceiveSyscall(m, {"socket"})
        /\ Allocate
        /\ fds' = [fds EXCEPT ![pid] = @ \cup ({fd} \ {-1})]
        /\ own' = [own EXCEPT ![Caller(m)] = @ \cup ({fd} \ {-1})]
        /\ returnSystemCall({FreeID}, Tracked(m), fd)
        /\ pending' = Without(m)
        /\ UNCHANGED <<sent, process, pidStart, late>>

\* No interface is registered for the protocol: the message is dropped.
unsupported(m) ==
    /\ ReceiveSyscall(m, {"unsupported"})
    /\ pending' = Without(m)
    /\ UNCHANGED <<sent, state, tableVars, syscallMap, syscallIDStart, syscallRet,
                   own, late, phase>>

\* Calls on a descriptor fail an assertion unless it is open.
ReceiveOnFD(m, kinds) ==
    /\ ReceiveSyscall(m, kinds)
    /\ Request(m).arg \in fds[pending[m].arg]
    /\ Allocate
    /\ pending' = Without(m)
    /\ UNCHANGED <<sent, process, pidStart, own>>

badDescriptor(m) ==
    /\ ReceiveSyscall(m, {"io", "close"})
    /\ Request(m).arg \notin fds[pending[m].arg]
    /\ phase' = "abort"
    /\ pending' = Without(m)
    /\ UNCHANGED <<sent, state, tableVars, syscallMap, syscallIDStart, syscallRet,
                   own, late>>

ioAnswered(m) ==
    /\ ReceiveOnFD(m, {"io"})
    /\ returnSystemCall({FreeID}, Tracked(m), 0)
    /\ UNCHANGED <<fds, late>>

ioHeld(m) ==
    /\ ReceiveOnFD(m, {"io"})
    /\ syscallMap' = Tracked(m)
    /\ UNCHANGED <<fds, late, state, syscallRet, phase>>

\* CLOSE answers at once; the protocol calls removeFileDescriptor now or later.
closeNow(m) ==
    /\ ReceiveOnFD(m, {"close"})
    /\ fds' = [fds EXCEPT ![pending[m].arg] = @ \ {Request(m).arg}]
    /\ returnSystemCall({FreeID}, Tracked(m), 0)
    /\ UNCHANGED late

closeLate(m) ==
    /\ ReceiveOnFD(m, {"close"})
    /\ late' = late \cup {[pid |-> pending[m].arg, fd |-> Request(m).arg,
                           app |-> Caller(m)]}
    /\ returnSystemCall({FreeID}, Tracked(m), 0)
    /\ UNCHANGED fds

\* DefaultSystemCall::timerCallback; there is no test of running.
timerCallback(m) ==
    /\ Receive(m, "Timer")
    /\ returnSystemCall({pending[m].arg}, syscallMap, 0)
    /\ pending' = Without(m)
    /\ UNCHANGED <<sent, tableVars, syscallIDStart, own, late>>

\* Slip of returned: the process stays in the table.
returned_keeps(m) ==
    /\ Receive(m, "Return")
    /\ state' = [state EXCEPT ![Caller(m)] = "DESTROYED"]
    /\ pending' = Without(m)
    /\ UNCHANGED <<phase, sent, tableVars, syscallMap, syscallIDStart, syscallRet,
                   own, late>>

\* The Return message of an application: delRunnable, and its destruction.
returned(m) ==
    LET pid == pending[m].arg
    IN  /\ Receive(m, "Return")
        /\ IF process[pid] = None \/ \E s \in syscallMap : s.pid = pid
             THEN /\ phase' = "abort"
                  /\ UNCHANGED <<state, process, fds>>
             ELSE /\ state' = [state EXCEPT ![process[pid]] = "DESTROYED"]
                  /\ process' = [process EXCEPT ![pid] = None]
                  /\ fds' = [fds EXCEPT ![pid] = {}]
                  /\ UNCHANGED phase
        /\ pending' = Without(m)
        /\ UNCHANGED <<sent, pidStart, syscallMap, syscallIDStart, syscallRet, own,
                       late>>
-----------------------------------------------------------------------------
(* Events of the protocol: a packet, while the host runs, or a timer of its *)
(* own.  They happen at their place in the order of events.                 *)

protocolEvent ==
    /\ phase = "loop"
    /\ Drained
    /\ \E time \in now .. Horizon :
         /\ \A m \in DOMAIN pending : time <= pending[m].wakeup
         /\ ~PastTill(time)
         /\ now' = time
    /\ UNCHANGED <<sent, pending, till, process, pidStart, syscallIDStart,
                   running, call, own, count>>

protocolAnswers ==
    /\ protocolEvent
    /\ \E s \in syscallMap :
         /\ call[process[s.pid]].kind = "io"
         /\ returnSystemCall({s.id}, syscallMap, 0)
    /\ UNCHANGED <<fds, late>>

\* removeFileDescriptor: nothing happens when the process is gone.
removeFileDescriptor(pid, fd) ==
    fds' = IF process[pid] # None THEN [fds EXCEPT ![pid] = @ \ {fd}] ELSE fds

protocolRemoves ==
    /\ protocolEvent
    /\ \E r \in late :
         /\ removeFileDescriptor(r.pid, r.fd)
         /\ late' = late \ {r}
    /\ UNCHANGED <<syscallMap, state, syscallRet, phase>>
-----------------------------------------------------------------------------
(* The test program: run the simulation, shut the host down.  It never asks  *)
(* for a time that has passed.                                               *)

runCalled ==
    /\ phase = "out"
    /\ \E t \in Tills : (t = 0 \/ t >= now) /\ till' = t
    /\ phase' = "loop"
    /\ UNCHANGED <<queueVars, state, tableVars, callVars, appVars, late>>

runReturns ==
    /\ phase = "loop"
    /\ Drained
    /\ \A m \in DOMAIN pending : PastTill(pending[m].wakeup)
    /\ phase' = "out"
    /\ UNCHANGED <<queueVars, till, state, tableVars, callVars, appVars, late>>

cleanUp ==
    /\ phase = "out"
    /\ running
    /\ running' = FALSE
    /\ returnSystemCall({s.id : s \in syscallMap}, syscallMap, -1)
    /\ UNCHANGED <<queueVars, till, tableVars, syscallIDStart, call, own, count,
                   late>>

handleMessage ==
    \E m \in DOMAIN pending :
        \/ nsleep(m)
        \/ gettimeofday(m)
        \/ socket(m)
        \/ unsupported(m)
        \/ badDescriptor(m)
        \/ ioAnswered(m)
        \/ ioHeld(m)
        \/ closeNow(m)
        \/ closeLate(m)
        \/ timerCallback(m)
        \/ returned(m)

Next ==
    \/ \E a \in Apps :
         \/ registerProcess(a)
         \/ launchApplication(a)
         \/ wake(a)
         \/ E_Syscall(a)
         \/ mainReturns(a)
    \/ handleMessage
    \/ protocolAnswers
    \/ protocolRemoves
    \/ runCalled
    \/ runReturns
    \/ cleanUp

Spec == Init /\ [][Next]_vars

\* run() works until it returns, and an application it wakes runs on until it
\* makes a system call or ends (count bounds its calls).
loop ==
    \/ handleMessage
    \/ runReturns
    \/ \E a \in Apps : wake(a) \/ E_Syscall(a) \/ mainReturns(a)

FairSpec == Spec /\ WF_vars(loop)
-----------------------------------------------------------------------------
(* Properties *)

\* No assertion of the process table, the system calls or Runnable fails, and
\* the program does not hang (E_Host.cpp:77-79, 107, 131, 147-155, 341, 400).
NoAbort == phase \notin {"abort", "hang"}

\* The messages of a kind that concern a process.
MessagesOf(kind, pid) ==
    {m \in DOMAIN pending : pending[m].kind = kind /\ pending[m].arg = pid}
CallsOf(pid) == {s \in syscallMap : s.pid = pid}

\* A process has at most one system call: a queued Syscall message or an entry of
\* syscallMap, never both, and only while it waits; the ids of two calls differ.
\* So the application that returnSystemCall makes ready is always the one that
\* waits for this very call, and the Return handler never meets a pending one.
OneCallEach ==
    /\ \A p \in PIDs :
         /\ Cardinality(CallsOf(p)) + Cardinality(MessagesOf("Syscall", p)) <= 1
         /\ CallsOf(p) # {} \/ MessagesOf("Syscall", p) # {} =>
              process[p] \in Apps /\ state[process[p]] = "WAITING"
         /\ MessagesOf("Return", p) # {} =>
              process[p] \in Apps /\ state[process[p]] = "TERMINATED"
    /\ \A s, t \in syscallMap : s.id = t.id => s = t
    /\ \A s \in syscallMap : s.id < syscallIDStart

\* An application that waits is not forgotten: its call is queued or tracked, and
\* when it sleeps, the timer that ends the sleep is queued for the right time.
NobodyForgotten ==
    \A p \in PIDs :
        process[p] # None /\ state[process[p]] = "WAITING" =>
            LET c == call[process[p]]
            IN  \/ MessagesOf("Syscall", p) # {}
                \/ \E s \in CallsOf(p) :
                     c.kind = "nsleep" =>
                        \E m \in MessagesOf("Timer", s.id) :
                            pending[m].wakeup = c.at + c.arg

\* nsleep returns 0 exactly when the time is over: neither another sleeper's
\* timer, nor one left over from a call that cleanUp ended, can end it.
SleepExact ==
    \A a \in Apps :
        state[a] = "READY" /\ call[a].kind = "nsleep" /\ syscallRet[a] = 0 =>
            now = call[a].at + call[a].arg

\* After cleanUp no application is blocked: what it found pending returned -1 and
\* later calls return at once ("now we implement auto-closing unclosed system
\* calls", E_Host.cpp:324).
CleanUpUnblocks == ~running => \A a \in Apps : state[a] # "WAITING"

\* A descriptor that a process has obtained and not closed is open in its table,
\* and no removal that is still to come will hit it: the slot of a late removal
\* is not given out again before, and the pid belongs to no other process.
DescriptorsKept ==
    /\ \A p \in PIDs : process[p] # None => own[process[p]] \subseteq fds[p]
    /\ \A r \in late :
         process[r.pid] # None =>
            process[r.pid] = r.app /\ r.fd \notin own[r.app] /\ r.fd \in fds[r.pid]

\* socket returns the lowest descriptor that is not open, or fails when all are
\* ("the lowest-numbered file descriptor not currently open for the process",
\* Documentation, socket(2)).
LowestDescriptor ==
    [][\A p \in PIDs :
          LET a == process[p]
              closed == FDs \ fds[p]
          IN  a # None =>
                (call[a].kind = "socket" /\ state[a] = "WAITING" /\ state'[a] = "READY"
                   => syscallRet'[a] = IF closed = {} THEN -1 ELSE Min(closed))]_vars

\* "Any system call request on invalid file descriptor will fail"
\* (E_Host.hpp:242): the handler of such a request returns -1 to the caller.
InvalidDescriptorFails ==
    [][\A m \in DOMAIN pending \ DOMAIN pending' :
          /\ pending[m].kind = "Syscall"
          /\ Request(m).kind \in {"io", "close"}
          /\ Request(m).arg \notin fds[pending[m].arg]
          => state'[Caller(m)] = "READY" /\ syscallRet'[Caller(m)] = -1]_vars

View(a) == [r \in {a} |-> IF state[a] = "NONE" THEN "CREATED" ELSE state[a]]
Process(a) == INSTANCE Coroutine WITH Runnables <- {a}, state <- View(a)
\* To the event loop every application is a coroutine: the host starts, readies
\* and destroys it only in the states in which Runnable allows that.
AppsAreCoroutines == [][\A a \in Apps : [Process(a)!Next]_(View(a))]_vars

\* In a run without time limit a sleeping application is made ready, and one that
\* has ended is removed from the table, unless the simulation ends at an assertion.
Unlimited == phase # "out" /\ till = 0
SleepEnds ==
    \A a \in Apps :
        (Unlimited /\ state[a] = "WAITING" /\ call[a].kind = "nsleep")
            ~> (state[a] # "WAITING" \/ ~NoAbort)
TerminatedIsRemoved ==
    \A a \in Apps :
        (Unlimited /\ state[a] = "TERMINATED")
            ~> ((state[a] = "DESTROYED" /\ \A p \in PIDs : process[p] # a) \/ ~NoAbort)
=============================================================================
