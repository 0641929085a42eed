------------------------------ MODULE Runnable ------------------------------
(***************************************************************************)
(* E::Runnable (src/E/E_System.cpp:167-222): an application thread and the *)
(* scheduler's thread take turns, one mutex and one condition variable per *)
(* runnable.  The scheduler owns the mutex of every runnable (schedLock)   *)
(* except the one it is blocked on in start() or wake().                   *)
(*                                                                         *)
(* A step is what a thread does between acquiring a mutex and releasing it *)
(* (or the user code it runs in between): nobody else can tell the finer   *)
(* steps apart, since state is only accessed under the mutex.  A wait on   *)
(* the condition variable releases the mutex and sleeps in one step; once  *)
(* notified, or woken spuriously, it needs the mutex again to evaluate its *)
(* predicate and goes back to sleep when that is false.                    *)
(***************************************************************************)
EXTENDS Integers, FiniteSets

CONSTANT Runnables

VARIABLES
    state,   \* Runnable::state; "NONE" before the constructor
    mtx,     \* owner of stateMtx
    cv,      \* the threads asleep on cond
    at,      \* where the application thread is in Runnable::run, see Places
    op,      \* what the scheduler's thread is blocked in, "free" if nothing
    on       \* the runnable that op is about

vars == <<state, mtx, cv, at, op, on>>

States == {"NONE", "CREATED", "STARTING", "READY", "RUNNING", "WAITING",
           "TERMINATED", "DESTROYED"}
Owners == {"none", "free", "sched", "thread"}

\* "starting", "first", "wait": in the wait of line 179, 183, 196; "pre_main",
\* "main": in user code; "unlock": after the last notification.
Places == {"unborn", "starting", "pre_main", "first", "main", "wait", "unlock",
           "done"}
Ops == {"free", "start", "wake", "join"}

Init ==
    /\ state = [r \in Runnables |-> "NONE"]
    /\ mtx = [r \in Runnables |-> "none"]
    /\ cv = [r \in Runnables |-> {}]
    /\ at = [r \in Runnables |-> "unborn"]
    /\ op = "free"
    /\ on \in Runnables
-----------------------------------------------------------------------------
(* The scheduler's thread *)

\* Slip of NotifyAndSleep: the notification is forgotten.
NotifyAndSleep_silent(r, who) ==
    /\ cv' = [cv EXCEPT ![r] = @ \cup {who}]
    /\ mtx' = [mtx EXCEPT ![r] = "free"]

\* notify_all, then wait: everybody else is awake, the caller sleeps without
\* the mutex.  Both callers set a state for which their predicate is false.
NotifyAndSleep(r, who) ==
    /\ cv' = [cv EXCEPT ![r] = {who}]
    /\ mtx' = [mtx EXCEPT ![r] = "free"]

construct(r) ==
    /\ op = "free"
    /\ state[r] = "NONE"
    /\ state' = [state EXCEPT ![r] = "CREATED"]
    /\ mtx' = [mtx EXCEPT ![r] = "sched"]
    /\ at' = [at EXCEPT ![r] = "starting"]
    /\ UNCHANGED <<cv, op, on>>

\* Slip of Block: the state it is called in is not looked at.
Block_unchecked(r, name, from, to) ==
    /\ op = "free"
    /\ state[r] \in {from, "WAITING"}
    /\ state' = [state EXCEPT ![r] = to]
    /\ NotifyAndSleep(r, "sched")
    /\ op' = name
    /\ on' = r
    /\ UNCHANGED at

\* Slip of Block: the scheduler does not wait for the thread.
Block_noWait(r, name, from, to) ==
    /\ op = "free"
    /\ state[r] = from
    /\ state' = [state EXCEPT ![r] = to]
    /\ cv' = [cv EXCEPT ![r] = {}]
    /\ mtx' = [mtx EXCEPT ![r] = "free"]
    /\ on' = r
    /\ UNCHANGED <<at, op>>

\* start(), wake(): the assertion on state is the guard, a duty of the caller.
Block(r, name, from, to) ==
    /\ op = "free"
    /\ state[r] = from
    /\ state' = [state EXCEPT ![r] = to]
    /\ NotifyAndSleep(r, "sched")
    /\ op' = name
    /\ on' = r
    /\ UNCHANGED at

start(r) == Block(r, "start", "CREATED", "STARTING")
wake(r) == Block(r, "wake", "READY", "RUNNING")

\* Slip of SchedPred: a wait without predicate.
SchedPred_none == TRUE

\* The predicate of the scheduler's wait.
SchedPred == IF op = "start" THEN state[on] = "READY" ELSE state[on] # "RUNNING"

\* The scheduler's wait evaluates its predicate; start() or wake() returns.
schedResumes ==
    /\ op \in {"start", "wake"}
    /\ "sched" \notin cv[on]
    /\ mtx[on] = "free"
    /\ IF SchedPred
         THEN /\ op' = "free"
              /\ mtx' = [mtx EXCEPT ![on] = "sched"]
              /\ UNCHANGED cv
         ELSE /\ cv' = [cv EXCEPT ![on] = @ \cup {"sched"}]
              /\ UNCHANGED <<op, mtx>>
    /\ UNCHANGED <<state, at, on>>

ready(r) ==
    /\ op = "free"
    /\ state[r] = "WAITING"
    /\ state' = [state EXCEPT ![r] = "READY"]
    /\ UNCHANGED <<mtx, cv, at, op, on>>

\* ~Runnable(): joins the thread while schedLock is held.  The Return handler
\* of Host destroys an application whose main() is over.
destroy(r) ==
    /\ op = "free"
    /\ state[r] = "TERMINATED"
    /\ op' = "join"
    /\ on' = r
    /\ UNCHANGED <<state, mtx, cv, at>>

joinReturns ==
    /\ op = "join"
    /\ at[on] = "done"
    /\ op' = "free"
    /\ state' = [state EXCEPT ![on] = "DESTROYED"]
    /\ mtx' = [mtx EXCEPT ![on] = "none"]
    /\ UNCHANGED <<cv, at, on>>
-----------------------------------------------------------------------------
(* The application's thread *)

\* The predicates of the three waits and where the thread goes then.
ThreadPred(r) == state[r] = IF at[r] = "starting" THEN "STARTING" ELSE "RUNNING"
Resumed(r) == IF at[r] = "starting" THEN "pre_main" ELSE "main"

threadResumes(r) ==
    /\ at[r] \in {"starting", "first", "wait"}
    /\ "thread" \notin cv[r]
    /\ mtx[r] = "free"
    /\ IF ThreadPred(r)
         THEN /\ at' = [at EXCEPT ![r] = Resumed(r)]
              /\ mtx' = [mtx EXCEPT ![r] = "thread"]
              /\ UNCHANGED cv
         ELSE /\ cv' = [cv EXCEPT ![r] = @ \cup {"thread"}]
              /\ UNCHANGED <<at, mtx>>
    /\ UNCHANGED <<state, op, on>>

preMainReturns(r) ==
    /\ at[r] = "pre_main"
    /\ state' = [state EXCEPT ![r] = "READY"]
    /\ at' = [at EXCEPT ![r] = "first"]
    /\ NotifyAndSleep(r, "thread")
    /\ UNCHANGED <<op, on>>

wait(r) ==
    /\ at[r] = "main"
    /\ state' = [state EXCEPT ![r] = "WAITING"]
    /\ at' = [at EXCEPT ![r] = "wait"]
    /\ NotifyAndSleep(r, "thread")
    /\ UNCHANGED <<op, on>>

mainReturns(r) ==
    /\ at[r] = "main"
    /\ state' = [state EXCEPT ![r] = "TERMINATED"]
    /\ at' = [at EXCEPT ![r] = "unlock"]
    /\ cv' = [cv EXCEPT ![r] = {}]
    /\ UNCHANGED <<mtx, op, on>>

unlock(r) ==
    /\ at[r] = "unlock"
    /\ mtx' = [mtx EXCEPT ![r] = "free"]
    /\ at' = [at EXCEPT ![r] = "done"]
    /\ UNCHANGED <<state, cv, op, on>>

\* The standard lets a wait on a condition variable end without notification.
spuriousWakeup(r) ==
    /\ \E who \in cv[r] : cv' = [cv EXCEPT ![r] = @ \ {who}]
    /\ UNCHANGED <<state, mtx, at, op, on>>
-----------------------------------------------------------------------------
schedulerCalls(r) == construct(r) \/ start(r) \/ wake(r) \/ ready(r) \/ destroy(r)

threadStep(r) ==
    threadResumes(r) \/ preMainReturns(r) \/ wait(r) \/ mainReturns(r) \/ unlock(r)

Next ==
    \/ schedResumes
    \/ joinReturns
    \/ \E r \in Runnables : schedulerCalls(r) \/ threadStep(r) \/ spuriousWakeup(r)

Spec == Init /\ [][Next]_vars

\* The operating system runs both threads, and an application in main() waits
\* or returns after a while.  The scheduler need not call anything.
Fairness ==
    /\ WF_vars(schedResumes \/ joinReturns)
    /\ \A r \in Runnables : WF_vars(threadStep(r))

FairSpec == Spec /\ Fairness
-----------------------------------------------------------------------------
(* Properties *)

\* The variables of Runnable hold values of their types (E_System.hpp:181-214).
TypeOK ==
    /\ state \in [Runnables -> States]
    /\ mtx \in [Runnables -> Owners]
    /\ cv \in [Runnables -> SUBSET {"sched", "thread"}]
    /\ at \in [Runnables -> Places]
    /\ op \in Ops
    /\ on \in Runnables

InUserCode(r) == at[r] \in {"pre_main", "main"}
Alive(r) == state[r] \notin {"NONE", "DESTROYED"}

\* "The total ordering of execution is guaranteed by the System."
\* (E_System.hpp:146): no two applications execute at once, nor one of them and
\* the scheduler, although all of them are threads.
OneAtATime ==
    /\ \A r, s \in Runnables : InUserCode(r) /\ InUserCode(s) => r = s
    /\ op = "free" => \A r \in Runnables : ~InUserCode(r)

\* The assertions on schedLock and threadLock: whenever the scheduler can call
\* start, wake, ready or the destructor it owns the mutex of every runnable,
\* and an application in pre_main or main owns its own.
LockDiscipline ==
    /\ op = "free" => \A r \in Runnables : Alive(r) => mtx[r] = "sched"
    /\ \A r \in Runnables : InUserCode(r) => mtx[r] = "thread"

\* Nobody sleeps on the condition variable while what it waits for holds: no
\* notification is missing or comes before the sleep.
NoLostWakeup ==
    /\ \A r \in Runnables : "thread" \in cv[r] => ~ThreadPred(r)
    /\ \A r \in Runnables : "sched" \in cv[r] => on = r /\ op # "free" /\ ~SchedPred

\* The states a runnable can be in, by the place of its thread.
StateFollowsPlace(r) ==
    /\ at[r] = "unborn" <=> state[r] = "NONE"
    /\ at[r] = "starting" => state[r] \in {"CREATED", "STARTING"}
    /\ at[r] = "pre_main" => state[r] = "STARTING"
    /\ at[r] = "first" => state[r] \in {"READY", "RUNNING"}
    /\ at[r] = "main" => state[r] = "RUNNING"
    /\ at[r] = "wait" => state[r] \in {"WAITING", "READY", "RUNNING"}
    /\ at[r] = "unlock" => state[r] = "TERMINATED"
    /\ at[r] = "done" => state[r] \in {"TERMINATED", "DESTROYED"}

BlockedOn(r) == on = r /\ op \in {"start", "wake"}

\* The whole protocol of one runnable: its state follows the place of its
\* thread; the thread owns the mutex exactly while it is between two waits;
\* the scheduler owns it unless it is blocked in start() or wake() of this very
\* runnable, and then only the states that call leads through occur.
Handover(r) ==
    /\ StateFollowsPlace(r)
    /\ mtx[r] = "thread" <=> at[r] \in {"pre_main", "main", "unlock"}
    /\ "thread" \in cv[r] => at[r] \in {"starting", "first", "wait"}
    /\ ~BlockedOn(r) =>
         /\ mtx[r] = IF Alive(r) THEN "sched" ELSE "none"
         /\ state[r] \notin {"STARTING", "RUNNING"}
    /\ BlockedOn(r) =>
         /\ mtx[r] \in {"free", "thread"}
         /\ state[r] \in IF op = "start" THEN {"STARTING", "READY"}
                         ELSE {"RUNNING", "WAITING", "TERMINATED"}
    /\ on = r /\ op = "join" => state[r] = "TERMINATED"

\* The invariant that carries the other ones: the protocol of every runnable
\* is obeyed and no wakeup is lost.
HandoverInv ==
    /\ TypeOK
    /\ \A r \in Runnables : Handover(r)
    /\ NoLostWakeup

\* wake() comes back only when the application waits or is over ("Wake and keep
\* running ... @return next state", E_System.hpp:194), so that System::run
\* always erases it from runnableReady.
WakeResult ==
    [][op = "wake" /\ op' = "free" => state[on] \in {"WAITING", "TERMINATED"}]_vars

Abstract == INSTANCE Coroutine WITH
    state <- [r \in Runnables |->
                IF state[r] \in {"NONE", "STARTING"} THEN "CREATED" ELSE state[r]]

\* Mutex, condition variable and the three waits implement coroutines.
ImplementsCoroutine == Abstract!Spec

\* start(), wake() and the join of the destructor of an application whose
\* main() is over return.
ControlReturns == op # "free" ~> op = "free"
=============================================================================
