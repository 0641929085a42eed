------------------------------ MODULE HostInv -------------------------------
(***************************************************************************)
(* The invariants behind the theorems of Host_proofs.  Inv holds whatever  *)
(* the applications do; Kept needs a pid of its own for every application, *)
(* and Served, beyond that, that they use open descriptors and registered  *)
(* protocols only.                                                         *)
(***************************************************************************)
EXTENDS Host

States == {"NONE", "CREATED", "READY", "RUNNING", "WAITING", "TERMINATED", "DESTROYED"}
Kinds == {"none", "nsleep", "gettimeofday", "socket", "unsupported", "close", "io"}
QueuedKinds == [kind : {"Syscall", "Timer", "Return"}, arg : Nat, wakeup : Nat]

\* What a process has sent to its host is handled before the clock moves.
QueueOK ==
    /\ now \in Nat /\ sent \in Nat /\ syscallIDStart \in Nat
    /\ DOMAIN pending \subseteq 1 .. sent
    /\ \A m \in DOMAIN pending :
         /\ pending[m] \in QueuedKinds
         /\ pending[m].wakeup >= now
         /\ pending[m].kind # "Timer" => pending[m].arg \in PIDs /\ pending[m].wakeup = now
         /\ pending[m].kind = "Timer" => pending[m].arg < syscallIDStart

TypesOK ==
    /\ state \in [Apps -> States]
    /\ process \in [PIDs -> Apps \cup {None}]
    /\ fds \in [PIDs -> SUBSET FDs]
    /\ own \in [Apps -> SUBSET FDs]
    /\ call \in [Apps -> [kind : Kinds, arg : Nat, at : Nat]]
    /\ syscallRet \in [Apps -> Int]
    /\ late \subseteq [pid : PIDs, fd : FDs, app : Apps]
    /\ pidStart \in PIDs
    /\ till \in Nat

\* The table holds exactly the applications between their start and their end, each once.
TableOK ==
    /\ \A p, q \in PIDs : process[p] = process[q] /\ process[p] # None => p = q
    /\ \A a \in Apps :
         state[a] \notin {"NONE", "DESTROYED"} <=> \E p \in PIDs : process[p] = a
    /\ \A a \in Apps :
         state[a] \in {"NONE", "CREATED"} => call[a].kind = "none" /\ own[a] = {}

\* A tracked call is the only one of its number and of its process, which waits.
CallsOK ==
    /\ syscallMap \subseteq [id : Nat, pid : PIDs]
    /\ IsFiniteSet(syscallMap)
    /\ \A s \in syscallMap :
         /\ s.id < syscallIDStart
         /\ process[s.pid] \in Apps
         /\ state[process[s.pid]] = "WAITING"
         /\ call[process[s.pid]].kind \in {"nsleep", "io"}
    /\ \A s, t \in syscallMap : s.id = t.id \/ s.pid = t.pid => s = t

\* So is a queued one, and it was made just now.
MessagesOK ==
    /\ \A m, n \in DOMAIN pending :
         /\ pending[m].kind = pending[n].kind
         /\ pending[m].kind # "Timer"
         /\ pending[m].arg = pending[n].arg
         => m = n
    /\ \A m \in DOMAIN pending :
         pending[m].kind = "Return" =>
            /\ process[pending[m].arg] \in Apps
            /\ state[process[pending[m].arg]] = "TERMINATED"
    /\ \A m \in DOMAIN pending :
         pending[m].kind = "Syscall" =>
            /\ process[pending[m].arg] \in Apps
            /\ state[process[pending[m].arg]] = "WAITING"
            /\ call[process[pending[m].arg]].at = now
            /\ \A s \in syscallMap : s.pid # pending[m].arg

\* A timer ends the sleep it was set for, or nothing: numbers are not used again.
TimersOK ==
    \A m \in DOMAIN pending, s \in syscallMap :
        pending[m].kind = "Timer" /\ pending[m].arg = s.id =>
            /\ call[process[s.pid]].kind = "nsleep"
            /\ pending[m].wakeup = call[process[s.pid]].at + call[process[s.pid]].arg

Inv == QueueOK /\ TypesOK /\ TableOK /\ CallsOK /\ MessagesOK /\ TimersOK /\ SleepExact
-----------------------------------------------------------------------------
\* A pid of its own for every application that is ever registered.
Fits == IsFiniteSet(Apps) /\ Cardinality(Apps) <= MAX_PID

Known == {a \in Apps : state[a] # "NONE"}

\* Pids are given out in order, so a removal still to come never meets a later process.
FreshPIDs ==
    /\ pidStart = Cardinality(Known) % MAX_PID
    /\ \A p \in PIDs :
         p >= Cardinality(Known) => process[p] = None /\ \A r \in late : r.pid # p

\* The descriptor of a queued close is open, and nobody else will close it.
Closing(m) ==
    /\ Request(m).arg \in fds[pending[m].arg]
    /\ Request(m).arg \notin own[Caller(m)]
    /\ \A r \in late : r.pid = pending[m].arg => r.fd # Request(m).arg

ClosesOK ==
    \A m \in DOMAIN pending :
        pending[m].kind = "Syscall" /\ Request(m).kind = "close" => Closing(m)

Kept == FreshPIDs /\ DescriptorsKept /\ ClosesOK /\ phase # "hang"
-----------------------------------------------------------------------------
Proper == ~Unsupported /\ ~UseInvalid
RequestsOK ==
    \A m \in DOMAIN pending :
        pending[m].kind = "Syscall" =>
            /\ Request(m).kind = "io" => Request(m).arg \in own[Caller(m)]
            /\ Request(m).kind # "unsupported"

\* run() does not return before the requests made in it were handled.
LoopOK ==
    /\ phase = "out" => \A m \in DOMAIN pending : pending[m].kind # "Syscall"
    /\ phase \in {"loop", "app"} /\ till # 0 => now <= till

Served == phase # "abort" /\ NobodyForgotten /\ CleanUpUnblocks /\ RequestsOK /\ LoopOK
-----------------------------------------------------------------------------
(* What the handlers do, in the terms of the invariants *)

Found(ids) == {s \in syscallMap : s.id \in ids}
Callers(ids) == {process[s.pid] : s \in Found(ids)}

\* A handler that answers the call it was asked for, whatever it does to descriptors.
AtOnce(m, kinds, val) ==
    /\ ReceiveSyscall(m, kinds) /\ "nsleep" \notin kinds /\ Allocate
    /\ returnSystemCall({FreeID}, Tracked(m), val)
    /\ pending' = Without(m) /\ sent' = sent /\ process' = process /\ pidStart' = pidStart
    /\ fds' \in [PIDs -> SUBSET FDs] /\ own' \in [Apps -> SUBSET FDs]
    /\ late' \subseteq [pid : PIDs, fd : FDs, app : Apps]
    /\ \A b \in Apps \ {Caller(m)} : own'[b] = own[b]

\* A handler that only tracks the call: nsleep, with its timer, and an io call.
Held(m, kind) ==
    /\ ReceiveSyscall(m, {kind}) /\ Allocate /\ syscallMap' = Tracked(m)
    /\ sent' \in Nat /\ sent' >= sent /\ DOMAIN pending' \subseteq 1 .. sent'
    /\ \A n \in DOMAIN pending' :
         \/ n \in DOMAIN pending \ {m} /\ pending'[n] = pending[n]
         \/ /\ kind = "nsleep"
            /\ pending'[n] = Message("Timer", FreeID, now' + Request(m).arg)
    /\ UNCHANGED <<state, process, fds, pidStart, syscallRet, own, late>>

\* What a step may do to the queue when it sends nothing.
Consumes ==
    /\ now' \in Nat /\ now' >= now
    /\ \A n \in DOMAIN pending : pending[n].wakeup >= now'
    /\ now' # now => \A a \in Apps : state[a] # "READY"
    /\ QueueOK'
    /\ \A n \in DOMAIN pending' : n \in DOMAIN pending /\ pending'[n] = pending[n]

\* The answer to tracked calls: from a timer, from the protocol, from cleanUp.
AnswersTracked(ids, val) ==
    /\ Consumes
    /\ returnSystemCall(ids, syscallMap, val)
    /\ \A a \in Callers(ids) :
         call[a].kind = "nsleep" /\ val = 0 => now' = call[a].at + call[a].arg
    /\ UNCHANGED <<till, process, fds, pidStart, syscallIDStart, call, own, late>>

\* A step that concerns no call that is tracked or queued any longer.
Quiet ==
    /\ Consumes
    /\ UNCHANGED <<state, process, pidStart, till, syscallMap, syscallIDStart>>
    /\ UNCHANGED <<call, syscallRet, own>>
    /\ fds' \in [PIDs -> SUBSET FDs] /\ late' \subseteq late
-----------------------------------------------------------------------------
(* The facts about numbers of elements that the steps use *)

CardinalitiesAreNat == \A S : IsFiniteSet(S) => Cardinality(S) \in Nat
EmptyCountsZero == IsFiniteSet({}) /\ Cardinality({}) = 0
SingletonsCountOne == \A x : IsFiniteSet({x}) /\ Cardinality({x}) = 1

AddedCountsOne ==
    \A S, x : IsFiniteSet(S) =>
        /\ IsFiniteSet(S \cup {x})
        /\ x \notin S => Cardinality(S \cup {x}) = Cardinality(S) + 1

SubsetsCountLess ==
    \A S : IsFiniteSet(S) =>
        \A T \in SUBSET S : IsFiniteSet(T) /\ Cardinality(T) <= Cardinality(S)

IntervalsCount ==
    \A a, b \in Int :
        /\ IsFiniteSet(a .. b)
        /\ Cardinality(a .. b) = IF a > b THEN 0 ELSE b - a + 1

ImagesCountSame ==
    \A S, f : IsFiniteSet(S) /\ (\A s, t \in S : f[s] = f[t] => s = t) =>
        Cardinality({f[s] : s \in S}) = Cardinality(S)

LeastExists == \A T \in SUBSET Nat : T # {} => \E x \in T : \A y \in T : x <= y

FiniteSetFacts ==
    /\ CardinalitiesAreNat /\ EmptyCountsZero /\ SingletonsCountOne /\ AddedCountsOne
    /\ SubsetsCountLess /\ IntervalsCount /\ ImagesCountSame /\ LeastExists
=============================================================================
