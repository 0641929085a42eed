-------------------------- MODULE Runnable_proofs ---------------------------
(* Proofs about Runnable, for every set of runnables. *)
EXTENDS Runnable, TLAPS

LEMMA InitHandover == Init => HandoverInv
BY DEF Init, HandoverInv, TypeOK, Handover, NoLostWakeup, StateFollowsPlace, Alive,
       BlockedOn, States, Owners, Places, Ops

LEMMA NextHandover == HandoverInv /\ [Next]_vars => HandoverInv'
<1> SUFFICES ASSUME HandoverInv, [Next]_vars PROVE HandoverInv'
  OBVIOUS
<1> USE DEF HandoverInv, TypeOK, Handover, NoLostWakeup, StateFollowsPlace, Alive,
            BlockedOn, States, Owners, Places, Ops, ThreadPred, SchedPred
<1>1. CASE schedResumes
  BY <1>1 DEF schedResumes
<1>2. CASE joinReturns
  BY <1>2 DEF joinReturns
<1>3. ASSUME NEW r \in Runnables, construct(r) PROVE HandoverInv'
  BY <1>3 DEF construct
<1>4. ASSUME NEW r \in Runnables, start(r) PROVE HandoverInv'
  BY <1>4 DEF start, Block, NotifyAndSleep
<1>5. ASSUME NEW r \in Runnables, wake(r) PROVE HandoverInv'
  BY <1>5 DEF wake, Block, NotifyAndSleep
<1>6. ASSUME NEW r \in Runnables, ready(r) PROVE HandoverInv'
  BY <1>6 DEF ready
<1>7. ASSUME NEW r \in Runnables, destroy(r) PROVE HandoverInv'
  BY <1>7 DEF destroy
<1>8. ASSUME NEW r \in Runnables, threadResumes(r) PROVE HandoverInv'
  BY <1>8 DEF threadResumes, Resumed
<1>9. ASSUME NEW r \in Runnables, preMainReturns(r) PROVE HandoverInv'
  BY <1>9 DEF preMainReturns, NotifyAndSleep
<1>10. ASSUME NEW r \in Runnables, wait(r) PROVE HandoverInv'
  BY <1>10 DEF wait, NotifyAndSleep
<1>11. ASSUME NEW r \in Runnables, mainReturns(r) PROVE HandoverInv'
  BY <1>11 DEF mainReturns
<1>12. ASSUME NEW r \in Runnables, unlock(r) PROVE HandoverInv'
  BY <1>12 DEF unlock
<1>13. ASSUME NEW r \in Runnables, spuriousWakeup(r) PROVE HandoverInv'
  BY <1>13 DEF spuriousWakeup
<1>14. CASE UNCHANGED vars
  BY <1>14 DEF vars
<1> HIDE DEF HandoverInv
<1> QED
  BY <1>1, <1>2, <1>3, <1>4, <1>5, <1>6, <1>7, <1>8, <1>9, <1>10, <1>11,
     <1>12, <1>13, <1>14 DEF Next, schedulerCalls, threadStep

\* Every runnable obeys the hand-over protocol, for any number of runnables and
\* any number of spurious wakeups.
THEOREM HandoverCorrect == Spec => []HandoverInv
<1>1. HandoverInv /\ [Next]_vars => HandoverInv'
  BY NextHandover
<1> QED
  BY InitHandover, <1>1, PTL DEF Spec

\* Type correctness.
THEOREM TypeCorrect == Spec => []TypeOK
<1>1. HandoverInv => TypeOK
  BY DEF HandoverInv
<1> QED
  BY <1>1, HandoverCorrect, PTL

\* No two applications execute at the same time, nor does the scheduler while
\* one of them does.
THEOREM MutualExclusion == Spec => []OneAtATime
<1>1. HandoverInv => OneAtATime
  BY DEF HandoverInv, TypeOK, Handover, StateFollowsPlace, BlockedOn, OneAtATime,
         InUserCode, Ops
<1> QED
  BY <1>1, HandoverCorrect, PTL

\* The assertions on the ownership of schedLock and threadLock never fail.
THEOREM LocksHeld == Spec => []LockDiscipline
<1>1. HandoverInv => LockDiscipline
  BY DEF HandoverInv, TypeOK, Handover, BlockedOn, LockDiscipline, InUserCode,
         Alive
<1> QED
  BY <1>1, HandoverCorrect, PTL

\* Nobody sleeps on the condition variable while its predicate holds.
THEOREM WakeupsArrive == Spec => []NoLostWakeup
<1>1. HandoverInv => NoLostWakeup
  BY DEF HandoverInv
<1> QED
  BY <1>1, HandoverCorrect, PTL

\* wake() returns WAITING or TERMINATED, never READY or RUNNING.
THEOREM WakeReturnsNextState == Spec => WakeResult
<1>1. HandoverInv /\ [Next]_vars =>
        [op = "wake" /\ op' = "free" => state[on] \in {"WAITING", "TERMINATED"}]_vars
  <2> SUFFICES ASSUME HandoverInv, Next, op = "wake", op' = "free"
               PROVE  state[on] \in {"WAITING", "TERMINATED"}
    OBVIOUS
  <2>1. on \in Runnables /\ Handover(on) /\ BlockedOn(on)
    BY DEF HandoverInv, TypeOK, BlockedOn
  <2>2. schedResumes
    BY DEF Next, joinReturns, schedulerCalls, construct, start, wake, ready,
           destroy, Block, threadStep, threadResumes, preMainReturns, wait,
           mainReturns, unlock, spuriousWakeup
  <2> QED
    BY <2>1, <2>2 DEF schedResumes, SchedPred, Handover
<1> QED
  BY <1>1, HandoverCorrect, PTL DEF Spec, WakeResult

\* The hand-over by mutex and condition variable implements coroutines: each
\* step of either thread is a step of Coroutine or invisible there.
THEOREM RefinesCoroutine == Spec => ImplementsCoroutine
<1> DEFINE view == [r \in Runnables |->
             IF state[r] \in {"NONE", "STARTING"} THEN "CREATED" ELSE state[r]]
<1>1. Init => Abstract!Init
  BY DEF Init, Abstract!Init
<1>2. HandoverInv /\ [Next]_vars => [Abstract!Next]_view
  <2> SUFFICES ASSUME HandoverInv, [Next]_vars
               PROVE  Abstract!Next \/ view' = view
    OBVIOUS
  <2> USE DEF Abstract!Next, Abstract!Scheduler, Abstract!Executing
  <2>1. state \in [Runnables -> States]
    BY DEF HandoverInv, TypeOK
  <2>2. op = "free" => \A r \in Runnables : state[r] # "RUNNING"
    BY DEF HandoverInv, Handover, BlockedOn
  <2>3. CASE state' = state
    BY <2>3
  <2>4. ASSUME NEW r \in Runnables, construct(r) PROVE view' = view
    BY <2>1, <2>4 DEF construct
  <2>5. ASSUME NEW r \in Runnables, start(r) PROVE view' = view
    BY <2>1, <2>5 DEF start, Block
  <2>6. ASSUME NEW r \in Runnables, wake(r) PROVE Abstract!Wake(r)
    <3>1. view' = [view EXCEPT ![r] = "RUNNING"]
      BY <2>1, <2>6 DEF wake, Block
    <3> QED BY <2>1, <2>2, <2>6, <3>1 DEF wake, Block, Abstract!Wake
  <2>7. ASSUME NEW r \in Runnables, ready(r) PROVE Abstract!Ready(r)
    <3>1. view' = [view EXCEPT ![r] = "READY"]
      BY <2>1, <2>7 DEF ready
    <3> QED BY <2>1, <2>2, <2>7, <3>1 DEF ready, Abstract!Ready
  <2>8. CASE joinReturns
    <3>1. on \in Runnables /\ state[on] = "TERMINATED" /\ op = "join"
      BY <2>8 DEF joinReturns, HandoverInv, TypeOK, Handover
    <3>2. \A r \in Runnables : state[r] # "RUNNING"
      BY <3>1 DEF HandoverInv, Handover, BlockedOn
    <3>3. view' = [view EXCEPT ![on] = "DESTROYED"]
      BY <2>1, <2>8, <3>1 DEF joinReturns
    <3> QED BY <2>1, <3>1, <3>2, <3>3 DEF Abstract!Destroy
  <2>9. ASSUME NEW r \in Runnables, preMainReturns(r) PROVE Abstract!Start(r)
    <3>1. state[r] = "STARTING" /\ BlockedOn(r) /\ op = "start"
      BY <2>9 DEF preMainReturns, HandoverInv, Handover, StateFollowsPlace,
                  BlockedOn
    <3>2. \A s \in Runnables : state[s] # "RUNNING"
      BY <3>1 DEF HandoverInv, Handover, BlockedOn
    <3>3. view' = [view EXCEPT ![r] = "READY"]
      BY <2>1, <2>9 DEF preMainReturns
    <3> QED BY <2>1, <3>1, <3>2, <3>3 DEF Abstract!Start
  <2>10. ASSUME NEW r \in Runnables, wait(r) \/ mainReturns(r)
         PROVE  Abstract!Yield(r)
    <3>1. state[r] = "RUNNING" /\ BlockedOn(r)
      BY <2>10 DEF wait, mainReturns, HandoverInv, Handover, StateFollowsPlace
    <3>2. \A s \in Runnables : state[s] = "RUNNING" => s = r
      BY <3>1 DEF HandoverInv, Handover, BlockedOn
    <3>3. \E next \in {"WAITING", "TERMINATED"} : view' = [view EXCEPT ![r] = next]
      BY <2>1, <2>10 DEF wait, mainReturns
    <3>4. {s \in Runnables : view[s] = "RUNNING"} = {r}
      BY <2>1, <3>1, <3>2
    <3> QED BY <3>3, <3>4 DEF Abstract!Yield
  <2> QED
    BY <2>3, <2>4, <2>5, <2>6, <2>7, <2>8, <2>9, <2>10
    DEF Next, vars, schedulerCalls, threadStep, schedResumes, destroy,
        threadResumes, unlock, spuriousWakeup
<1> QED
  BY <1>1, <1>2, HandoverCorrect, PTL DEF Spec, ImplementsCoroutine, Abstract!Spec
=============================================================================
