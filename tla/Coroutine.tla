------------------------------ MODULE Coroutine ------------------------------
(***************************************************************************)
(* What E::Runnable promises E::System (E_System.hpp:144-205): a runnable  *)
(* is a coroutine.  At most one of them executes, the scheduler acts only  *)
(* when none does, and every transfer of control is one indivisible step.  *)
(***************************************************************************)
CONSTANT Runnables

VARIABLE state    \* of every runnable

Init == state = [r \in Runnables |-> "CREATED"]

Executing == {r \in Runnables : state[r] = "RUNNING"}

\* Nobody but the scheduler executes, and it moves r from one state to another.
Scheduler(r, from, to) ==
    /\ Executing = {}
    /\ state[r] = from
    /\ state' = [state EXCEPT ![r] = to]

Start(r) == Scheduler(r, "CREATED", "READY")
Wake(r) == Scheduler(r, "READY", "RUNNING")
Ready(r) == Scheduler(r, "WAITING", "READY")
Destroy(r) == Scheduler(r, "TERMINATED", "DESTROYED")

\* The executing runnable gives the control back.
Yield(r) ==
    /\ Executing = {r}
    /\ \E next \in {"WAITING", "TERMINATED"} : state' = [state EXCEPT ![r] = next]

Next ==
    \E r \in Runnables : Start(r) \/ Wake(r) \/ Ready(r) \/ Destroy(r) \/ Yield(r)

Spec == Init /\ [][Next]_state
=============================================================================
