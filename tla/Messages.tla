------------------------------ MODULE Messages ------------------------------
(***************************************************************************)
(* How the network modules (Link, Wire, Host) use the event queue of       *)
(* E::System: Module::sendMessage, sendMessageSelf and the delivery of the *)
(* earliest message.  What the queue promises is EventQueue, which System  *)
(* is shown to implement.                                                  *)
(***************************************************************************)
EXTENDS Integers, Sequences

VARIABLES
    now,        \* the virtual clock
    sent,       \* number of messages sent so far
    pending     \* the queued messages: number |-> message, a record with wakeup

queueVars == <<now, sent, pending>>

Queue == INSTANCE EventQueue

EmptyQueue == now = 0 /\ sent = 0 /\ pending = [m \in {} |-> 0]

\* The messages in new, numbered from sent + 1 on, join the queue.
Post(queue, new) ==
    /\ sent' = sent + Len(new)
    /\ pending' = [n \in DOMAIN queue \cup (sent + 1 .. sent + Len(new)) |->
                     IF n > sent THEN new[n - sent] ELSE queue[n]]

\* The earliest message is taken out of the queue and the clock goes to its time.
Receive(m, kind) ==
    /\ Queue!IsEarliest(m)
    /\ pending[m].kind = kind
    /\ now' = pending[m].wakeup

Others(m) == [n \in DOMAIN pending \ {m} |-> pending[n]]

MessagesOf(kind, w) ==
    {m \in DOMAIN pending : pending[m].kind = kind /\ pending[m].wire = w}
=============================================================================
