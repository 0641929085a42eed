------------------------------- MODULE System -------------------------------
(***************************************************************************)
(* The discrete-event core, E::System (src/E/E_System.cpp): the virtual    *)
(* clock, the priority queue of delayed messages, cancellation, the loop   *)
(* of System::run and the set of runnables it wakes before every event.    *)
(*                                                                         *)
(* The callbacks of modules and the bodies of applications are arbitrary   *)
(* code: while one of them executes (UserCode) it may send and cancel      *)
(* messages, and on the scheduler's thread also launch and ready           *)
(* runnables.  Modules and payloads are abstracted away: phase says which  *)
(* end of the current message has its callback on the stack.  A Runnable   *)
(* is its state here; module Runnable opens up the thread behind it.       *)
(***************************************************************************)
EXTENDS Integers, FiniteSets

CONSTANTS
    Runnables,   \* the application threads
    Delays,      \* the values of timeAfter
    Tills,       \* the values run() is called with (0: no limit)
    MaxUUID,     \* bound: number of messages ever sent
    Horizon,     \* bound: latest time a message may be sent for
    TimeMod      \* 2^(width of Time)

ASSUME SystemAssumption ==
    /\ MaxUUID \in Nat
    /\ TimeMod \in Nat \ {0}
    /\ Horizon \in Nat
    /\ Delays \subseteq 0 .. TimeMod - 1
    /\ Tills \subseteq Nat

VARIABLES
    currentTime, currentUUID,
    container,       \* the TimerContainerInner of every uuid handed out
    timerQueue,      \* uuids of the containers in the priority queue
    activeTimer,     \* uuids that cancelMessage finds
    activeUUID,      \* uuids in use
    runnableReady,   \* the runnables run() will wake
    state,           \* Runnable::state of every runnable
    phase,           \* where run() is, see Phases
    current,         \* uuid of the container being processed, 0 if none
    ret,             \* did messageReceived return a response message
    till,            \* the argument of the call of run() in progress
    last,            \* history: uuid of the container popped last, 0 if none
    due,             \* history: send time + delay, not truncated
    calls,           \* history: callbacks invoked for every message
    cancelOK         \* history: <<uuid, was it being processed>> of the calls
                     \* of cancelMessage that returned true

clockVars == <<currentTime, currentUUID, container, timerQueue, activeTimer,
               activeUUID, due>>
runnableVars == <<runnableReady, state>>
runVars == <<phase, current, ret, till, last, calls>>
vars == <<clockVars, runnableVars, runVars, cancelOK>>

UUIDs == 1 .. MaxUUID
States == {"CREATED", "READY", "RUNNING", "WAITING", "TERMINATED", "DESTROYED"}
Callbacks == {"received", "finished", "response", "cancelled"}

\* "out": run() has not been called; "loop": between two iterations; "app": in
\* wake(), the application has the control; otherwise: in that callback.
Phases == {"out", "loop", "app"} \cup Callbacks

Containers == [wakeup : 0 .. TimeMod - 1, canceled : BOOLEAN]

\* Somebody else's code is executing and may call into the System.
UserCode == phase # "loop"

\* Slip of OnSchedulerThread: an application may do what the scheduler may.
OnSchedulerThread_any == UserCode

\* Callbacks and the program that calls run(), but not an application.
OnSchedulerThread == UserCode /\ phase # "app"

\* Slip of AddTime: the delay taken for an absolute time.
AddTime_absolute(t, d) == d

\* Unsigned addition of two Times.
AddTime(t, d) == IF t + d < TimeMod THEN t + d ELSE t + d - TimeMod

\* Slip of Before: ties in the opposite order.
Before_newestFirst(u, v) ==
    \/ container[u].wakeup < container[v].wakeup
    \/ container[u].wakeup = container[v].wakeup /\ u > v

\* The order of the priority queue, TimerContainerLess.
Before(u, v) ==
    \/ container[u].wakeup < container[v].wakeup
    \/ container[u].wakeup = container[v].wakeup /\ u < v

\* Slip of IsTop: a queue by order of sending instead of a priority queue.
IsTop_fifo(u) == u \in timerQueue /\ \A v \in timerQueue : u <= v

IsTop(u) == u \in timerQueue /\ \A v \in timerQueue \ {u} : Before(u, v)

Init ==
    /\ currentTime = 0
    /\ currentUUID = 0
    /\ container = [u \in UUIDs |-> [wakeup |-> 0, canceled |-> FALSE]]
    /\ timerQueue = {}
    /\ activeTimer = {}
    /\ activeUUID = {}
    /\ runnableReady = {}
    /\ state = [r \in Runnables |-> "CREATED"]
    /\ phase = "out"
    /\ current = 0
    /\ ret = FALSE
    /\ till = 0
    /\ last = 0
    /\ due = [u \in UUIDs |-> 0]
    /\ calls = [u \in UUIDs |-> {}]
    /\ cancelOK = {}
-----------------------------------------------------------------------------
(* What modules and applications call *)

sendMessage(timeAfter) ==
    LET uuid == currentUUID + 1 IN
    /\ UserCode
    /\ currentUUID < MaxUUID
    /\ currentTime + timeAfter <= Horizon
    /\ currentUUID' = uuid
    /\ activeUUID' = activeUUID \cup {uuid}
    /\ container' = [container EXCEPT ![uuid] =
                       [wakeup |-> AddTime(currentTime, timeAfter),
                        canceled |-> FALSE]]
    /\ activeTimer' = activeTimer \cup {uuid}
    /\ timerQueue' = timerQueue \cup {uuid}
    /\ due' = [due EXCEPT ![uuid] = currentTime + timeAfter]
    /\ UNCHANGED <<currentTime, runnableVars, runVars, cancelOK>>

\* Slip of cancelMessage: the map forgets the container, the queue does not.
cancelMessage_mapOnly(uuid) ==
    /\ UserCode
    /\ uuid \in activeTimer
    /\ activeTimer' = activeTimer \ {uuid}
    /\ cancelOK' = cancelOK \cup {<<uuid, uuid = current>>}
    /\ UNCHANGED <<currentTime, currentUUID, container, timerQueue, activeUUID,
                   due, runnableVars, runVars>>

\* A call for a uuid that is not in activeTimer returns false and changes
\* nothing.
cancelMessage(uuid) ==
    /\ UserCode
    /\ uuid \in activeTimer
    /\ container' = [container EXCEPT ![uuid].canceled = TRUE]
    /\ cancelOK' = cancelOK \cup {<<uuid, uuid = current>>}
    /\ UNCHANGED <<currentTime, currentUUID, timerQueue, activeTimer,
                   activeUUID, due, runnableVars, runVars>>

\* start() followed by addRunnable().
launch(r) ==
    /\ OnSchedulerThread
    /\ state[r] = "CREATED"
    /\ state' = [state EXCEPT ![r] = "READY"]
    /\ runnableReady' = runnableReady \cup {r}
    /\ UNCHANGED <<clockVars, runVars, cancelOK>>

\* ready() followed by addRunnable().
ready(r) ==
    /\ OnSchedulerThread
    /\ state[r] = "WAITING"
    /\ state' = [state EXCEPT ![r] = "READY"]
    /\ runnableReady' = runnableReady \cup {r}
    /\ UNCHANGED <<clockVars, runVars, cancelOK>>

\* delRunnable(), then the last reference to the runnable is dropped.
delRunnable(r) ==
    /\ phase = "received"
    /\ state[r] = "TERMINATED"
    /\ runnableReady' = runnableReady \ {r}
    /\ state' = [state EXCEPT ![r] = "DESTROYED"]
    /\ UNCHANGED <<clockVars, runVars, cancelOK>>
-----------------------------------------------------------------------------
(* System::run *)

runCalled(t) ==
    /\ phase = "out"
    /\ phase' = "loop"
    /\ till' = t
    /\ UNCHANGED <<clockVars, runnableVars, current, ret, last, calls, cancelOK>>

\* wake() hands the control to the application ...
wake(r) ==
    /\ phase = "loop"
    /\ r \in runnableReady
    /\ phase' = "app"
    /\ state' = [state EXCEPT ![r] = "RUNNING"]
    /\ UNCHANGED <<clockVars, runnableReady, current, ret, till, last, calls,
                   cancelOK>>

\* ... and gets it back when the application waits or its main() is over.
wakeReturns(r) ==
    /\ phase = "app"
    /\ state[r] = "RUNNING"
    /\ \E next \in {"WAITING", "TERMINATED"} : state' = [state EXCEPT ![r] = next]
    /\ runnableReady' = runnableReady \ {r}
    /\ phase' = "loop"
    /\ UNCHANGED <<clockVars, current, ret, till, last, calls, cancelOK>>

\* Slip of Drained: events are processed while somebody is ready.
Drained_never == TRUE

\* The loop over runnableReady is over.
Drained == runnableReady = {}

\* Slip of PastTill: off by one.
PastTill_orAt(u) == till # 0 /\ container[u].wakeup >= till

PastTill(u) == till # 0 /\ container[u].wakeup > till

runReturns ==
    /\ phase = "loop"
    /\ Drained
    /\ \A u \in timerQueue : IsTop(u) => PastTill(u)
    /\ phase' = "out"
    /\ UNCHANGED <<clockVars, runnableVars, current, ret, till, last, calls,
                   cancelOK>>

\* Invoking a callback for message u.
Invoke(callback, u) ==
    /\ phase' = callback
    /\ calls' = [calls EXCEPT ![u] = @ \cup {callback}]

dispatch ==
    /\ phase = "loop"
    /\ Drained
    /\ \E u \in timerQueue :
         /\ IsTop(u)
         /\ ~PastTill(u)
         /\ timerQueue' = timerQueue \ {u}
         /\ currentTime' = container[u].wakeup
         /\ current' = u
         /\ last' = u
         /\ Invoke(IF container[u].canceled THEN "cancelled" ELSE "received", u)
    /\ UNCHANGED <<currentUUID, container, activeTimer, activeUUID, due,
                   runnableVars, ret, till, cancelOK>>

\* Slip of messageReceivedReturns: a response takes the place of the sender's
\* messageFinished.
messageReceivedReturns_either ==
    /\ phase = "received"
    /\ ret' \in BOOLEAN
    /\ Invoke(IF ret' THEN "response" ELSE "finished", current)
    /\ UNCHANGED <<clockVars, runnableVars, current, till, last, cancelOK>>

messageReceivedReturns ==
    /\ phase = "received"
    /\ ret' \in BOOLEAN
    /\ Invoke("finished", current)
    /\ UNCHANGED <<clockVars, runnableVars, current, till, last, cancelOK>>

\* Slip of Erase: the uuid stays in use.
Erase_keepsUUID ==
    /\ activeTimer' = activeTimer \ {current}
    /\ current' = 0
    /\ phase' = "loop"
    /\ ret' = FALSE
    /\ UNCHANGED <<currentTime, currentUUID, container, timerQueue, activeUUID,
                   due, runnableVars, till, last, calls, cancelOK>>

\* The end of the iteration: the container is forgotten.
Erase ==
    /\ activeTimer' = activeTimer \ {current}
    /\ activeUUID' = activeUUID \ {current}
    /\ current' = 0
    /\ phase' = "loop"
    /\ ret' = FALSE
    /\ UNCHANGED <<currentTime, currentUUID, container, timerQueue, due,
                   runnableVars, till, last, calls, cancelOK>>

messageFinishedReturns ==
    /\ phase = "finished"
    /\ \/ ret /\ Invoke("response", current)
              /\ UNCHANGED <<clockVars, runnableVars, current, ret, till, last,
                             cancelOK>>
       \/ ~ret /\ Erase

lastCallbackReturns == phase \in {"response", "cancelled"} /\ Erase
-----------------------------------------------------------------------------
callbackReturns ==
    messageReceivedReturns \/ messageFinishedReturns \/ lastCallbackReturns

loopStep == dispatch \/ runReturns \/ \E r \in Runnables : wake(r)

Next ==
    \/ \E d \in Delays : sendMessage(d)
    \/ \E u \in UUIDs : cancelMessage(u)
    \/ \E r \in Runnables : launch(r) \/ ready(r) \/ delRunnable(r)
    \/ \E t \in Tills : runCalled(t)
    \/ loopStep
    \/ \E r \in Runnables : wakeReturns(r)
    \/ callbackReturns

Spec == Init /\ [][Next]_vars

\* The loop of run() keeps going, callbacks return, and an application that
\* was woken waits or ends.  Nobody is obliged to call anything else.
Fairness ==
    /\ WF_vars(loopStep)
    /\ WF_vars(callbackReturns)
    /\ WF_vars(\E r \in Runnables : wakeReturns(r))

FairSpec == Spec /\ Fairness
-----------------------------------------------------------------------------
(* Properties *)

\* The variables of System hold values of their types (E_System.hpp:31-71); in
\* particular every wakeup fits into a Time.
TypeOK ==
    /\ currentTime \in 0 .. TimeMod - 1
    /\ currentUUID \in 0 .. MaxUUID
    /\ container \in [UUIDs -> Containers]
    /\ timerQueue \subseteq UUIDs
    /\ activeTimer \subseteq UUIDs
    /\ activeUUID \subseteq UUIDs
    /\ runnableReady \subseteq Runnables
    /\ state \in [Runnables -> States]
    /\ phase \in Phases
    /\ current \in 0 .. MaxUUID
    /\ ret \in BOOLEAN
    /\ till \in Nat
    /\ last \in 0 .. MaxUUID
    /\ due \in [UUIDs -> Nat]
    /\ calls \in [UUIDs -> SUBSET Callbacks]
    /\ cancelOK \subseteq UUIDs \X BOOLEAN

\* The priority queue, the map cancelMessage searches and the set of uuids in
\* use never drift apart: both hold exactly the queued containers and the one
\* being processed, so the uuid allocateUUID is about to hand out is free (its
\* assert(0)) and, once erased, the container has no other owner (the assertion
\* on use_count at the end of the loop).
BookkeepingAgrees ==
    /\ activeTimer = timerQueue \cup ({current} \ {0})
    /\ activeUUID = activeTimer
    /\ current \notin timerQueue
    /\ \A u \in activeUUID : u <= currentUUID

\* No message waits for a time that is over: the clock System::run sets from
\* the top of the queue never goes back.
NothingInThePast == \A u \in timerQueue : container[u].wakeup >= currentTime

\* Everything still queued comes after the message processed last: messages are
\* processed by time and, within one instant, in the order they were sent.
TotalOrder ==
    last # 0 => \A u \in timerQueue :
        \/ container[last].wakeup < container[u].wakeup
        \/ container[last].wakeup = container[u].wakeup /\ last < u

\* A message is processed at exactly its send time + delay, whatever was sent
\* or processed in between and however often run() returned meanwhile.
OnTime == current # 0 => currentTime = due[current]

\* The callbacks of a message that was processed.
Complete == {{"cancelled"}, {"received", "finished"},
             {"received", "finished", "response"}}

\* A message gets no callback before it is taken from the queue; once forgotten it had
\* either its messageCancelled alone, or messageReceived and messageFinished
\* (and messageFinished of the response if there was one), each once.
CallbackProtocol ==
    \A u \in UUIDs :
        /\ u \in timerQueue \/ u > currentUUID => calls[u] = {}
        /\ u <= currentUUID /\ u \notin activeTimer => calls[u] \in Complete

\* A message that was still queued when cancelMessage returned true is never
\* received.
CancelHonoured ==
    \A c \in cancelOK : c[2] \/ "received" \notin calls[c[1]]

\* "If the message is already sent, this function has no effect. @return
\* Whether the cancellation is successful." (E_Module.hpp:188): success means
\* that the message is not received.
CancelSuccessMeansUnsent == \A c \in cancelOK : "received" \notin calls[c[1]]

\* The set run() wakes holds exactly the ready runnables and the one executing,
\* so wake() always meets a READY one (its assertion), and at most one
\* application executes, only while run() is inside wake().
ReadySetAgrees ==
    /\ \A r \in Runnables : r \in runnableReady <=> state[r] \in {"READY", "RUNNING"}
    /\ \A r, s \in Runnables : state[r] = "RUNNING" /\ state[s] = "RUNNING" => r = s
    /\ phase = "app" <=> \E r \in Runnables : state[r] = "RUNNING"

\* The clock stands at the message processed last, and the message being
\* processed is that one.
ClockAtLast ==
    /\ last <= currentUUID
    /\ currentTime = IF last = 0 THEN 0 ELSE container[last].wakeup
    /\ current \in {0, last}
    /\ last \notin timerQueue
    /\ \A u \in timerQueue \cup ({current} \ {0}) : container[u].wakeup = due[u]

\* The callbacks that the message being processed had so far, by phase.
PhaseOfCurrent ==
    /\ phase \in Callbacks <=> current # 0
    /\ phase = "received" => calls[current] = {"received"}
    /\ phase = "finished" => calls[current] = {"received", "finished"}
    /\ phase = "response" => calls[current] = {"received", "finished", "response"}
    /\ phase = "cancelled" => calls[current] = {"cancelled"}

\* A message cancelled in time keeps its flag.
FlagsKept ==
    \A c \in cancelOK :
        c[1] <= currentUUID /\ (c[2] \/ container[c[1]].canceled)

\* The invariant that carries the other ones: one clock, one order, and for
\* every message the bookkeeping, the callbacks and the cancellations agree.
SystemInv ==
    /\ TypeOK
    /\ BookkeepingAgrees
    /\ NothingInThePast
    /\ TotalOrder
    /\ ClockAtLast
    /\ PhaseOfCurrent
    /\ CallbackProtocol
    /\ FlagsKept
    /\ CancelHonoured
    /\ ReadySetAgrees

\* A runnable that became ready at some instant executes at that instant: the
\* clock stands still while anybody is ready.
ReadyRunsAtOnce ==
    [][(\E r \in Runnables : state[r] = "READY") => currentTime' = currentTime]_vars

\* A message queued for a time that the call of run() in progress covers is
\* processed and forgotten.
DueIsProcessed ==
    \A u \in UUIDs :
        (u \in timerQueue /\ phase # "out" /\ (till = 0 \/ container[u].wakeup <= till))
            ~> u \notin activeTimer
-----------------------------------------------------------------------------
Abstract == INSTANCE EventQueue WITH
    now <- currentTime,
    sent <- currentUUID,
    pending <- [u \in timerQueue |-> container[u]]

\* The loop of run(), the two sets of uuids and the shared containers implement
\* the queue that modules are promised.
ImplementsEventQueue == Abstract!Spec

Coroutines == INSTANCE Coroutine

\* The loop of run() and the callers of launch, ready and delRunnable use the
\* runnables as coroutines: no call meets one in a state it is not made for.
UsesCoroutines == Coroutines!Spec
=============================================================================
