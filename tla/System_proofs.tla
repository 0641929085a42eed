--------------------------- MODULE System_proofs ----------------------------
(***************************************************************************)
(* Proofs about System, for every set of runnables, every set of delays    *)
(* and arguments of run(), and every bound, provided that no message is    *)
(* sent for a time that Time cannot represent.                             *)
(***************************************************************************)
EXTENDS System, TLAPS

\* No addition of Times wraps around.
NoWrap == Horizon < TimeMod

LEMMA AddTimeExact ==
    ASSUME NEW t \in Nat, NEW d \in Nat, t + d <= Horizon, NoWrap
    PROVE  AddTime(t, d) = t + d
BY SystemAssumption DEF AddTime, NoWrap

LEMMA InitSystem == Init => SystemInv
<1> SUFFICES ASSUME Init PROVE SystemInv
  OBVIOUS
<1> USE SystemAssumption DEF Init, UUIDs, States, Phases, Callbacks
<1>1. TypeOK
  <2>1. [wakeup |-> 0, canceled |-> FALSE] \in Containers
    BY DEF Containers
  <2>2. container \in [UUIDs -> Containers] /\ calls \in [UUIDs -> SUBSET Callbacks]
    BY <2>1
  <2>3. ret \in BOOLEAN /\ cancelOK \subseteq UUIDs \X BOOLEAN
    OBVIOUS
  <2>4. /\ currentTime \in 0 .. TimeMod - 1
        /\ currentUUID \in 0 .. MaxUUID /\ current \in 0 .. MaxUUID
        /\ last \in 0 .. MaxUUID /\ till \in Nat
    OBVIOUS
  <2>5. due \in [UUIDs -> Nat] /\ state \in [Runnables -> States]
    OBVIOUS
  <2>6. phase \in Phases
    OBVIOUS
  <2> HIDE DEF Init
  <2>7. /\ timerQueue \subseteq UUIDs /\ activeTimer \subseteq UUIDs
        /\ activeUUID \subseteq UUIDs /\ runnableReady \subseteq Runnables
    BY DEF Init
  <2> QED BY <2>2, <2>3, <2>4, <2>5, <2>6, <2>7 DEF TypeOK
<1>2. BookkeepingAgrees /\ NothingInThePast /\ TotalOrder /\ ClockAtLast
  BY DEF BookkeepingAgrees, NothingInThePast, TotalOrder, ClockAtLast
<1>3. PhaseOfCurrent /\ CallbackProtocol
  BY DEF PhaseOfCurrent, CallbackProtocol
<1>4. FlagsKept /\ CancelHonoured /\ ReadySetAgrees
  BY DEF FlagsKept, CancelHonoured, ReadySetAgrees
<1> QED
  BY <1>1, <1>2, <1>3, <1>4 DEF SystemInv

LEMMA SendStep ==
    ASSUME SystemInv, NoWrap, NEW d \in Delays, sendMessage(d)
    PROVE  SystemInv'
<1> DEFINE uuid == currentUUID + 1
<1> USE SystemAssumption DEF SystemInv, UUIDs
<1>1. d \in Nat /\ currentTime \in Nat /\ uuid \in UUIDs /\ currentUUID \in Nat
  BY DEF TypeOK, sendMessage
<1>2. container' = [container EXCEPT ![uuid] =
                      [wakeup |-> currentTime + d, canceled |-> FALSE]]
  BY <1>1, AddTimeExact DEF sendMessage
<1>3. currentTime + d \in 0 .. TimeMod - 1
  BY <1>1 DEF sendMessage, NoWrap
<1>4. TypeOK'
  BY <1>1, <1>2, <1>3 DEF sendMessage, TypeOK, Containers, runnableVars, runVars
<1>5. uuid \notin timerQueue /\ uuid # current /\ uuid # last /\ uuid # 0
  BY <1>1 DEF BookkeepingAgrees, ClockAtLast, TypeOK
<1>6. BookkeepingAgrees'
  BY <1>1, <1>5 DEF BookkeepingAgrees, sendMessage, runVars, TypeOK
<1>7. \A u \in UUIDs : u # uuid => container'[u] = container[u] /\ due'[u] = due[u]
  BY <1>1, <1>2 DEF TypeOK, sendMessage
<1>8. container'[uuid].wakeup = currentTime + d /\ due'[uuid] = currentTime + d
  BY <1>1, <1>2 DEF TypeOK, sendMessage
<1>9. NothingInThePast'
  BY <1>1, <1>5, <1>7, <1>8 DEF NothingInThePast, sendMessage, TypeOK
<1>10. ClockAtLast'
  BY <1>1, <1>5, <1>7, <1>8 DEF ClockAtLast, sendMessage, runVars, TypeOK
<1>11. TotalOrder'
  <2> SUFFICES ASSUME last # 0, NEW u \in timerQueue \cup {uuid}
               PROVE  \/ container'[last].wakeup < container'[u].wakeup
                      \/ container'[last].wakeup = container'[u].wakeup /\ last < u
    BY DEF TotalOrder, sendMessage, runVars
  <2>1. last \in UUIDs /\ last <= currentUUID
    BY DEF TypeOK, ClockAtLast
  <2>2. container'[last].wakeup = currentTime
    BY <1>5, <1>7, <2>1 DEF ClockAtLast
  <2>3. CASE u = uuid
    BY <1>1, <1>8, <2>1, <2>2, <2>3
  <2>4. CASE u \in timerQueue
    BY <1>5, <1>7, <2>1, <2>4 DEF TotalOrder, TypeOK
  <2> QED BY <2>3, <2>4
<1>12. PhaseOfCurrent'
  BY DEF PhaseOfCurrent, sendMessage, runVars
<1>13. CallbackProtocol'
  BY <1>1, <1>5 DEF CallbackProtocol, sendMessage, runVars, TypeOK
<1>14. FlagsKept' /\ CancelHonoured'
  BY <1>1, <1>7 DEF FlagsKept, CancelHonoured, sendMessage, runVars, TypeOK
<1>15. ReadySetAgrees'
  BY DEF ReadySetAgrees, sendMessage, runnableVars, runVars
<1> QED
  BY <1>4, <1>6, <1>9, <1>10, <1>11, <1>12, <1>13, <1>14, <1>15

\* What SystemInv says about messages.
EventPart ==
    /\ BookkeepingAgrees
    /\ NothingInThePast
    /\ TotalOrder
    /\ ClockAtLast
    /\ CallbackProtocol
    /\ FlagsKept
    /\ CancelHonoured

\* Steps of runnables and of the loop alone do not touch it.
LEMMA EventFrame ==
    ASSUME SystemInv, UNCHANGED <<clockVars, current, last, calls, cancelOK>>
    PROVE  EventPart'
BY DEF SystemInv, EventPart, clockVars, BookkeepingAgrees, NothingInThePast,
       TotalOrder, ClockAtLast, CallbackProtocol, FlagsKept, CancelHonoured

LEMMA CancelStep ==
    ASSUME SystemInv, NEW uuid \in UUIDs, cancelMessage(uuid)
    PROVE  SystemInv'
<1> USE SystemAssumption DEF SystemInv
<1>1. \A u \in UUIDs : /\ container'[u].wakeup = container[u].wakeup
                       /\ container[u].canceled => container'[u].canceled
  BY DEF cancelMessage, TypeOK, Containers
<1>2. container' \in [UUIDs -> Containers]
  BY DEF cancelMessage, TypeOK, Containers
<1>3. container'[uuid].canceled
  BY DEF cancelMessage, TypeOK, Containers
<1>4. (uuid = current) \in BOOLEAN /\ <<uuid, uuid = current>> \in UUIDs \X BOOLEAN
  OBVIOUS
<1>5. cancelOK' \subseteq UUIDs \X BOOLEAN
  BY <1>4 DEF cancelMessage, TypeOK
<1>6. TypeOK'
  BY <1>2, <1>5 DEF cancelMessage, TypeOK, runnableVars, runVars
<1>7. BookkeepingAgrees'
  BY DEF BookkeepingAgrees, cancelMessage, runVars
<1>8. NothingInThePast'
  BY <1>1 DEF NothingInThePast, cancelMessage, runVars, TypeOK
<1>9. TotalOrder'
  <2>1. timerQueue' = timerQueue /\ last' = last
    BY DEF cancelMessage, runVars
  <2>2. timerQueue \subseteq UUIDs /\ (last # 0 => last \in UUIDs)
    BY DEF TypeOK, UUIDs
  <2>3. TotalOrder
    OBVIOUS
  <2> HIDE DEF SystemInv
  <2> QED
    BY <1>1, <2>1, <2>2, <2>3 DEF TotalOrder
<1>10. ClockAtLast'
  BY <1>1 DEF ClockAtLast, cancelMessage, runVars, TypeOK, UUIDs
<1>11. PhaseOfCurrent' /\ CallbackProtocol' /\ ReadySetAgrees'
  BY DEF PhaseOfCurrent, CallbackProtocol, ReadySetAgrees, cancelMessage,
         runVars, runnableVars
<1>12. uuid <= currentUUID /\ (uuid = current \/ calls[uuid] = {})
  BY DEF cancelMessage, BookkeepingAgrees, CallbackProtocol
<1>13. \A c \in cancelOK' : c \in cancelOK \/ (c[1] = uuid /\ c[2] = (uuid = current))
  BY DEF cancelMessage
<1>14. \A c \in cancelOK : c[1] \in UUIDs
  BY DEF TypeOK
<1>15. currentUUID' = currentUUID /\ calls' = calls
  BY DEF cancelMessage, runVars
<1>16. FlagsKept'
  BY <1>1, <1>3, <1>12, <1>13, <1>14, <1>15 DEF FlagsKept
<1>17. CancelHonoured'
  BY <1>12, <1>13, <1>15 DEF CancelHonoured
<1> QED
  BY <1>6, <1>7, <1>8, <1>9, <1>10, <1>11, <1>16, <1>17

LEMMA RunnableStep ==
    ASSUME SystemInv,
           NEW r \in Runnables,
           launch(r) \/ ready(r) \/ delRunnable(r) \/ wake(r) \/ wakeReturns(r)
    PROVE  SystemInv'
<1> USE DEF SystemInv
<1>1. EventPart'
  BY EventFrame DEF launch, ready, delRunnable, wake, wakeReturns, runVars
<1>2. TypeOK'
  BY DEF TypeOK, launch, ready, delRunnable, wake, wakeReturns, runVars,
         clockVars, States, Phases
<1>3. PhaseOfCurrent'
  BY DEF PhaseOfCurrent, Callbacks, launch, ready, delRunnable, wake,
         wakeReturns, runVars
<1>4. ReadySetAgrees'
  BY DEF ReadySetAgrees, TypeOK, OnSchedulerThread, UserCode, launch, ready,
         delRunnable, wake, wakeReturns, runVars
<1> QED
  BY <1>1, <1>2, <1>3, <1>4 DEF EventPart

LEMMA LoopStep ==
    ASSUME SystemInv, runReturns \/ \E t \in Tills : runCalled(t)
    PROVE  SystemInv'
<1> USE SystemAssumption DEF SystemInv
<1>1. EventPart'
  BY EventFrame DEF runReturns, runCalled
<1>2. TypeOK'
  BY DEF TypeOK, runReturns, runCalled, clockVars, runnableVars, Phases
<1>3. PhaseOfCurrent' /\ ReadySetAgrees'
  BY DEF PhaseOfCurrent, ReadySetAgrees, Callbacks, runReturns, runCalled,
         runnableVars
<1> QED
  BY <1>1, <1>2, <1>3 DEF EventPart

LEMMA DispatchStep ==
    ASSUME SystemInv, dispatch
    PROVE  SystemInv'
<1> USE SystemAssumption DEF SystemInv
<1> PICK u \in timerQueue :
         /\ IsTop(u)
         /\ timerQueue' = timerQueue \ {u}
         /\ currentTime' = container[u].wakeup
         /\ current' = u
         /\ last' = u
         /\ Invoke(IF container[u].canceled THEN "cancelled" ELSE "received", u)
  BY DEF dispatch
<1> DEFINE callback == IF container[u].canceled THEN "cancelled" ELSE "received"
<1>1. /\ phase = "loop"
      /\ UNCHANGED <<currentUUID, container, activeTimer, activeUUID, due,
                     runnableReady, state, ret, till, cancelOK>>
  BY DEF dispatch, runnableVars
<1>2. current = 0 /\ u \in UUIDs /\ u # 0 /\ u <= currentUUID /\ calls[u] = {}
  BY <1>1 DEF PhaseOfCurrent, TypeOK, BookkeepingAgrees, CallbackProtocol, UUIDs,
              Callbacks
<1>3. container[u].wakeup \in 0 .. TimeMod - 1
  BY <1>2 DEF TypeOK, Containers
<1>4. phase' = callback /\ calls' = [calls EXCEPT ![u] = {callback}]
  BY <1>2 DEF Invoke, TypeOK
<1>5. calls'[u] = {callback} /\ \A v \in UUIDs : v # u => calls'[v] = calls[v]
  BY <1>2, <1>4 DEF TypeOK
<1>6. TypeOK'
  BY <1>1, <1>2, <1>3, <1>4 DEF TypeOK, Phases, Callbacks, UUIDs
<1>7. BookkeepingAgrees'
  BY <1>1, <1>2 DEF BookkeepingAgrees
<1>8. NothingInThePast' /\ TotalOrder'
  BY <1>1, <1>2, <1>3 DEF NothingInThePast, TotalOrder, IsTop, Before, TypeOK,
                          Containers
<1>9. ClockAtLast'
  BY <1>1, <1>2 DEF ClockAtLast
<1>10. PhaseOfCurrent'
  BY <1>2, <1>4, <1>5 DEF PhaseOfCurrent, Callbacks
<1>11. CallbackProtocol'
  <2>1. u \in activeTimer /\ ~(u > currentUUID)
    BY <1>2 DEF BookkeepingAgrees, TypeOK, UUIDs
  <2> QED
    BY <1>1, <1>2, <1>5, <2>1 DEF CallbackProtocol
<1>12. \A c \in cancelOK : c[1] \in UUIDs
  BY DEF TypeOK
<1>13. FlagsKept'
  BY <1>1 DEF FlagsKept
<1>14. CancelHonoured'
  BY <1>1, <1>5, <1>12 DEF CancelHonoured, FlagsKept
<1>15. ReadySetAgrees'
  BY <1>1, <1>4 DEF ReadySetAgrees
<1> QED
  BY <1>6, <1>7, <1>8, <1>9, <1>10, <1>11, <1>13, <1>14, <1>15

LEMMA CallbackStep ==
    ASSUME SystemInv, messageReceivedReturns \/ (messageFinishedReturns /\ ret)
    PROVE  SystemInv'
<1> USE SystemAssumption DEF SystemInv
<1> DEFINE callback == IF phase = "received" THEN "finished" ELSE "response"
<1>1. /\ phase \in {"received", "finished"} /\ phase' = callback
      /\ calls' = [calls EXCEPT ![current] = @ \cup {callback}]
      /\ ret' \in BOOLEAN
      /\ UNCHANGED <<clockVars, runnableVars, current, till, last, cancelOK>>
  BY DEF messageReceivedReturns, messageFinishedReturns, Erase, Invoke, TypeOK
<1>2. current \in UUIDs /\ current \in activeTimer /\ current <= currentUUID
  BY <1>1 DEF PhaseOfCurrent, TypeOK, BookkeepingAgrees, UUIDs, Callbacks
<1>3. /\ calls'[current] = calls[current] \cup {callback}
      /\ \A v \in UUIDs : v # current => calls'[v] = calls[v]
  BY <1>1, <1>2 DEF TypeOK
<1>4. TypeOK'
  BY <1>1, <1>2 DEF TypeOK, clockVars, runnableVars, Phases, Callbacks
<1>5. BookkeepingAgrees' /\ NothingInThePast' /\ TotalOrder' /\ ClockAtLast'
  BY <1>1 DEF clockVars, BookkeepingAgrees, NothingInThePast, TotalOrder,
              ClockAtLast
<1>6. PhaseOfCurrent'
  BY <1>1, <1>2, <1>3 DEF PhaseOfCurrent, Callbacks
<1>7. CallbackProtocol'
  <2>1. current \notin timerQueue /\ ~(current > currentUUID)
    BY <1>2 DEF BookkeepingAgrees, TypeOK, UUIDs
  <2> QED
    BY <1>1, <1>2, <1>3, <2>1 DEF CallbackProtocol, clockVars
<1>8. \A c \in cancelOK : c[1] \in UUIDs
  BY DEF TypeOK
<1>9. FlagsKept' /\ CancelHonoured'
  BY <1>1, <1>3, <1>8 DEF FlagsKept, CancelHonoured, clockVars
<1>10. ReadySetAgrees'
  BY <1>1 DEF ReadySetAgrees, runnableVars
<1> QED
  BY <1>4, <1>5, <1>6, <1>7, <1>9, <1>10

LEMMA EraseStep ==
    ASSUME SystemInv, Erase,
           (phase = "finished" /\ ~ret) \/ phase \in {"response", "cancelled"}
    PROVE  SystemInv'
<1> USE SystemAssumption DEF SystemInv, Erase
<1>1. current \in UUIDs /\ calls[current] \in Complete
  BY DEF PhaseOfCurrent, TypeOK, UUIDs, Callbacks, Complete
<1>2. TypeOK'
  <2>1. ret' \in BOOLEAN
    OBVIOUS
  <2>2. current' \in 0 .. MaxUUID /\ phase' \in Phases
    BY DEF Phases
  <2>3. activeTimer' \subseteq UUIDs /\ activeUUID' \subseteq UUIDs
    BY DEF TypeOK
  <2> QED
    BY <2>1, <2>2, <2>3 DEF TypeOK, runnableVars
<1>3. BookkeepingAgrees'
  BY DEF BookkeepingAgrees, TypeOK, UUIDs
<1>4. NothingInThePast' /\ TotalOrder' /\ ClockAtLast'
  BY DEF NothingInThePast, TotalOrder, ClockAtLast
<1>5. PhaseOfCurrent'
  BY DEF PhaseOfCurrent, Callbacks
<1>6. CallbackProtocol'
  BY <1>1 DEF CallbackProtocol
<1>7. FlagsKept' /\ CancelHonoured'
  BY DEF FlagsKept, CancelHonoured
<1>8. ReadySetAgrees'
  BY DEF ReadySetAgrees, runnableVars
<1> QED
  BY <1>2, <1>3, <1>4, <1>5, <1>6, <1>7, <1>8

LEMMA NextSystem ==
    ASSUME SystemInv, NoWrap, [Next]_vars
    PROVE  SystemInv'
<1>1. CASE messageFinishedReturns
  BY <1>1, CallbackStep, EraseStep DEF messageFinishedReturns
<1>2. CASE lastCallbackReturns
  BY <1>2, EraseStep DEF lastCallbackReturns
<1>3. CASE UNCHANGED vars
  <2>1. EventPart'
    BY <1>3, EventFrame DEF vars, runVars
  <2>2. TypeOK' /\ PhaseOfCurrent' /\ ReadySetAgrees'
    BY <1>3 DEF SystemInv, vars, runVars, runnableVars, clockVars, TypeOK,
                PhaseOfCurrent, ReadySetAgrees
  <2> QED BY <2>1, <2>2 DEF SystemInv, EventPart
<1> QED
  BY <1>1, <1>2, <1>3, SendStep, CancelStep, RunnableStep, LoopStep,
     DispatchStep, CallbackStep
  DEF Next, loopStep, callbackReturns

\* The clock, the queue, the bookkeeping, the callbacks and the cancellations
\* agree in every reachable state.
THEOREM SystemCorrect ==
    ASSUME NoWrap
    PROVE  Spec => []SystemInv
<1>1. SystemInv /\ [Next]_vars => SystemInv'
  BY NextSystem
<1> QED
  BY InitSystem, <1>1, PTL DEF Spec

\* Messages are processed in the order of their times and, for equal times, of
\* their sending; the clock never goes back.
THEOREM OrderCorrect ==
    ASSUME NoWrap
    PROVE  Spec => [](TotalOrder /\ NothingInThePast)
<1>1. SystemInv => TotalOrder /\ NothingInThePast
  BY DEF SystemInv
<1> QED
  BY <1>1, SystemCorrect, PTL

\* Every message is processed at its send time + delay.
THEOREM DeliveredOnTime ==
    ASSUME NoWrap
    PROVE  Spec => []OnTime
<1>1. SystemInv => OnTime
  BY DEF SystemInv, OnTime, ClockAtLast, TypeOK
<1> QED
  BY <1>1, SystemCorrect, PTL

\* Every message gets its callbacks completely, in order and once.
THEOREM CallbacksComplete ==
    ASSUME NoWrap
    PROVE  Spec => []CallbackProtocol
<1>1. SystemInv => CallbackProtocol
  BY DEF SystemInv
<1> QED
  BY <1>1, SystemCorrect, PTL

\* A message cancelled while it is queued is never received.
THEOREM CancelCorrect ==
    ASSUME NoWrap
    PROVE  Spec => []CancelHonoured
<1>1. SystemInv => CancelHonoured
  BY DEF SystemInv
<1> QED
  BY <1>1, SystemCorrect, PTL

\* The clock stands still while a runnable is ready.
THEOREM ReadyFirst ==
    ASSUME NoWrap
    PROVE  Spec => ReadyRunsAtOnce
<1>1. SystemInv /\ [Next]_vars =>
        [(\E r \in Runnables : state[r] = "READY") => currentTime' = currentTime]_vars
  <2> SUFFICES ASSUME SystemInv, Next, NEW r \in Runnables, state[r] = "READY"
               PROVE  currentTime' = currentTime
    OBVIOUS
  <2>1. ~dispatch
    BY DEF SystemInv, ReadySetAgrees, dispatch, Drained
  <2> QED
    BY <2>1 DEF Next, loopStep, callbackReturns, sendMessage, cancelMessage,
        launch, ready, delRunnable, runCalled, wake, wakeReturns, runReturns,
        messageReceivedReturns, messageFinishedReturns, lastCallbackReturns,
        Erase, clockVars
<1> QED
  BY <1>1, SystemCorrect, PTL DEF Spec, ReadyRunsAtOnce

\* The queue modules are promised is implemented.
THEOREM RefinesEventQueue ==
    ASSUME NoWrap
    PROVE  Spec => ImplementsEventQueue
<1> DEFINE queue == [u \in timerQueue |-> container[u]]
<1>1. Init => Abstract!Init
  BY DEF Init, Abstract!Init, Abstract!Queued
<1>2. SystemInv /\ [Next]_vars =>
        [Abstract!Next]_<<currentTime, currentUUID, queue>>
  <2> SUFFICES ASSUME SystemInv, [Next]_vars
               PROVE  \/ Abstract!Next
                      \/ UNCHANGED <<currentTime, currentUUID, queue>>
    OBVIOUS
  <2> USE SystemAssumption
      DEF SystemInv, Abstract!Next, Abstract!Call, Abstract!Consume,
          Abstract!Continue, Abstract!Queued
  <2>1. CASE UNCHANGED <<currentTime, currentUUID, timerQueue, container>>
    BY <2>1
  <2>2. ASSUME NEW d \in Delays, sendMessage(d) PROVE Abstract!Call
    <3> DEFINE uuid == currentUUID + 1
    <3>1. /\ currentTime \in Nat /\ d \in Nat /\ currentUUID \in Nat
          /\ timerQueue \subseteq UUIDs
          /\ uuid \in UUIDs /\ uuid \notin timerQueue
      BY <2>2 DEF sendMessage, TypeOK, UUIDs, BookkeepingAgrees
    <3>2. /\ container'[uuid].wakeup = currentTime + d
          /\ \A u \in timerQueue : container'[u] = container[u]
      BY <2>2, <3>1, AddTimeExact DEF sendMessage, TypeOK
    <3>3. /\ timerQueue' = timerQueue \cup {uuid}
          /\ currentUUID' = uuid /\ currentTime' = currentTime
      BY <2>2 DEF sendMessage
    <3> QED BY <3>1, <3>2, <3>3
  <2>3. ASSUME NEW u \in UUIDs, cancelMessage(u) PROVE Abstract!Call
    <3>1. \A v \in UUIDs : /\ container'[v].wakeup = container[v].wakeup
                           /\ container[v].canceled => container'[v].canceled
      BY <2>3 DEF cancelMessage, TypeOK, Containers
    <3>2. /\ timerQueue' = timerQueue /\ timerQueue \subseteq UUIDs
          /\ currentUUID' = currentUUID /\ currentUUID \in Nat
          /\ currentTime' = currentTime
      BY <2>3 DEF cancelMessage, TypeOK
    <3> QED BY <3>1, <3>2
  <2>4. CASE dispatch
    <3> PICK u \in timerQueue :
             /\ IsTop(u)
             /\ timerQueue' = timerQueue \ {u}
             /\ currentTime' = container[u].wakeup
      BY <2>4 DEF dispatch
    <3>1. container' = container /\ currentUUID' = currentUUID /\ currentUUID \in Nat
      BY <2>4 DEF dispatch, TypeOK
    <3>2. Abstract!IsEarliest(u)
      BY DEF IsTop, Before, Abstract!IsEarliest, Abstract!Earlier
    <3>3. Abstract!Consume(u)
      BY <3>1, <3>2
    <3> QED BY <3>3
  <2> QED
    BY <2>1, <2>2, <2>3, <2>4
    DEF Next, vars, clockVars, loopStep, callbackReturns, launch, ready,
        delRunnable, runCalled, wake, wakeReturns, runReturns,
        messageReceivedReturns, messageFinishedReturns, lastCallbackReturns, Erase
<1> QED
  BY <1>1, <1>2, SystemCorrect, PTL
  DEF Spec, ImplementsEventQueue, Abstract!Spec, Abstract!vars

\* The variables keep their types, and queue, map and set of uuids agree, so the
\* assertions of allocateUUID and at the end of the loop hold.
THEOREM BookkeepingCorrect ==
    ASSUME NoWrap
    PROVE  Spec => [](TypeOK /\ BookkeepingAgrees)
<1>1. SystemInv => TypeOK /\ BookkeepingAgrees
  BY DEF SystemInv
<1> QED
  BY <1>1, SystemCorrect, PTL

\* The loop wakes exactly the ready runnables, one at a time.
THEOREM ReadySetCorrect ==
    ASSUME NoWrap
    PROVE  Spec => []ReadySetAgrees
<1>1. SystemInv => ReadySetAgrees
  BY DEF SystemInv
<1> QED
  BY <1>1, SystemCorrect, PTL

\* Runnables are used as coroutines: every call meets one in the right state.
THEOREM RefinesCoroutines ==
    ASSUME NoWrap
    PROVE  Spec => UsesCoroutines
<1>1. Init => Coroutines!Init
  BY DEF Init, Coroutines!Init
<1>2. SystemInv /\ [Next]_vars => [Coroutines!Next]_state
  <2> SUFFICES ASSUME SystemInv, Next
               PROVE  Coroutines!Next \/ UNCHANGED state
    BY DEF vars, runnableVars
  <2> USE DEF SystemInv, ReadySetAgrees, Coroutines!Next, Coroutines!Executing
  <2>1. ASSUME NEW r \in Runnables, launch(r) PROVE Coroutines!Start(r)
    BY <2>1 DEF launch, OnSchedulerThread, Coroutines!Start, Coroutines!Scheduler
  <2>2. ASSUME NEW r \in Runnables, ready(r) PROVE Coroutines!Ready(r)
    BY <2>2 DEF ready, OnSchedulerThread, Coroutines!Ready, Coroutines!Scheduler
  <2>3. ASSUME NEW r \in Runnables, delRunnable(r) PROVE Coroutines!Destroy(r)
    BY <2>3 DEF delRunnable, Coroutines!Destroy, Coroutines!Scheduler
  <2>4. ASSUME NEW r \in Runnables, wake(r) PROVE Coroutines!Wake(r)
    BY <2>4 DEF wake, Coroutines!Wake, Coroutines!Scheduler
  <2>5. ASSUME NEW r \in Runnables, wakeReturns(r) PROVE Coroutines!Yield(r)
    BY <2>5 DEF wakeReturns, Coroutines!Yield
  <2> QED
    BY <2>1, <2>2, <2>3, <2>4, <2>5
    DEF Next, loopStep, callbackReturns, sendMessage, cancelMessage, runCalled,
        runReturns, dispatch, messageReceivedReturns, messageFinishedReturns,
        lastCallbackReturns, Erase, runnableVars
<1> QED
  BY <1>1, <1>2, SystemCorrect, PTL DEF Spec, UsesCoroutines, Coroutines!Spec
=============================================================================
