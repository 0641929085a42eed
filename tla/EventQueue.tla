----------------------------- MODULE EventQueue -----------------------------
(***************************************************************************)
(* What E::System promises the modules built on it (E_System.hpp:20-28,    *)
(* E_Module.hpp:145-197): one clock, and a set of delayed messages that is *)
(* consumed one at a time by (time, order of sending).  A step may consume *)
(* the earliest message, and may cancel and send any number of messages    *)
(* while it does, but never for a time before the clock.  A message leaves *)
(* the set in no other way; a cancelled one stays until its time comes.    *)
(***************************************************************************)
EXTENDS Integers

VARIABLES
    now,       \* the virtual clock
    sent,      \* number of messages sent so far
    pending    \* the queued messages: number |-> [wakeup, canceled, ...]

vars == <<now, sent, pending>>

Queued == DOMAIN pending

Earlier(m, n) ==
    \/ pending[m].wakeup < pending[n].wakeup
    \/ pending[m].wakeup = pending[n].wakeup /\ m < n

IsEarliest(m) == m \in Queued /\ \A n \in Queued \ {m} : Earlier(m, n)

Init == now = 0 /\ sent = 0 /\ Queued = {}

\* The messages of rest stay (their cancelled flag may be raised) and
\* every other message of the new queue is a new one.
Continue(rest) ==
    /\ sent' \in Nat /\ sent' >= sent
    /\ rest \subseteq Queued'
    /\ \A m \in rest :
         /\ pending'[m].wakeup = pending[m].wakeup
         /\ pending[m].canceled => pending'[m].canceled
    /\ \A m \in Queued' \ rest :
         /\ m \in sent + 1 .. sent'
         /\ pending'[m].wakeup >= now'

Consume(m) == IsEarliest(m) /\ now' = pending[m].wakeup /\ Continue(Queued \ {m})

Call == now' = now /\ Continue(Queued)

Next == Call \/ \E m \in Queued : Consume(m)

Spec == Init /\ [][Next]_vars
=============================================================================
