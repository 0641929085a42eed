----------------------------- MODULE Host_proofs ----------------------------
(***************************************************************************)
(* The host keeps its promises to the applications, for any number of      *)
(* applications and any times of sleeping.  That every step keeps the      *)
(* invariants of HostInv is proved in HostDescriptors_proofs (Kept) and    *)
(* HostCalls_proofs (Inv and Served).                                      *)
(***************************************************************************)
EXTENDS HostDescriptors_proofs, HostCalls_proofs, FiniteSetTheorems, WellFoundedInduction

\* The steps are simple; on a busy machine a solver may start late.
USE SMTT(30), Zenon
-----------------------------------------------------------------------------
(* Finite sets *)

LEMMA ImagesCount == ImagesCountSame
<1> SUFFICES ASSUME NEW S, NEW f, IsFiniteSet(S), \A s, t \in S : f[s] = f[t] => s = t
             PROVE  Cardinality({f[s] : s \in S}) = Cardinality(S)
  BY DEF ImagesCountSame
<1> DEFINE T == {f[s] : s \in S}
           g == [s \in S |-> f[s]]
<1>1. /\ g \in [S -> T]
      /\ \A s, t \in S : g[s] = g[t] => s = t
      /\ \A y \in T : \E s \in S : g[s] = y
  OBVIOUS
<1> HIDE DEF T, g
<1>2. g \in Bijection(S, T)
  BY <1>1 DEF Bijection, Injection, Surjection, IsInjective
<1>3. Cardinality(T) = Cardinality(S)
  BY <1>2, FS_Bijection DEF ExistsBijection
<1> QED BY <1>3 DEF T

LEMMA LeastElement == LeastExists
<1> SUFFICES ASSUME NEW T \in SUBSET Nat, T # {}
             PROVE  \E x \in T : \A y \in T : x <= y
  BY DEF LeastExists
<1>1. PICK x \in T : \A y \in T : ~(<<y, x>> \in OpToRel(<, Nat))
  BY NatLessThanWellFounded, WFMin, Zenon
<1>2. \A y \in T : ~(y < x)
  BY <1>1, Zenon DEF OpToRel
<1> QED BY <1>2

LEMMA FiniteSetFactsHold == FiniteSetFacts
<1>1. CardinalitiesAreNat
  BY FS_CardinalityType DEF CardinalitiesAreNat
<1>2. EmptyCountsZero /\ SingletonsCountOne
  BY FS_EmptySet, FS_Singleton, Zenon DEF EmptyCountsZero, SingletonsCountOne
<1>3. AddedCountsOne
  BY FS_AddElement DEF AddedCountsOne
<1>4. SubsetsCountLess
  BY FS_Subset DEF SubsetsCountLess
<1>5. IntervalsCount
  BY FS_Interval DEF IntervalsCount
<1> QED BY <1>1, <1>2, <1>3, <1>4, <1>5, ImagesCount, LeastElement, Zenon DEF FiniteSetFacts
-----------------------------------------------------------------------------
(* Whatever the applications do *)

LEMMA InvHolds == Spec => []Inv
<1>1. Init => Inv
  BY InitEstablishes, FiniteSetFactsHold
<1>2. Inv /\ [Next]_vars => Inv'
  BY NextPreserves, FiniteSetFactsHold
<1> QED BY <1>1, <1>2, PTL DEF Spec

\* A process has at most one system call, queued or tracked, and only while it waits; the
\* numbers of calls differ.  So returnSystemCall answers the call its caller waits for.
THEOREM CallsMatchCallers == Spec => []OneCallEach
<1>1. Inv => OneCallEach
  BY CallsCounted, FiniteSetFactsHold
<1> QED BY <1>1, InvHolds, PTL

\* nsleep returns 0 at exactly the time it was asked for, whatever timers are left over.
THEOREM SleepsAreExact == Spec => []SleepExact
<1>1. Inv => SleepExact
  BY DEF Inv
<1> QED BY InvHolds, <1>1, PTL

\* To the event loop every application is a coroutine: it is started, woken, made ready and
\* destroyed only in the states in which Runnable allows that.
THEOREM ApplicationsAreCoroutines == Spec => AppsAreCoroutines
<1>1. Inv /\ [Next]_vars => [\A a \in Apps : [Process(a)!Next]_(View(a))]_vars
  <2> SUFFICES ASSUME Inv, [Next]_vars, NEW a \in Apps
               PROVE  [Process(a)!Next]_(View(a))
    OBVIOUS
  <2>1. state[a] \in States /\ state'[a] \in States /\ Moves(state[a], state'[a])
    BY StatesMove, FiniteSetFactsHold DEF Inv, TypesOK, Moves, States
  <2> QED BY <2>1, MovesAreCoroutineSteps
<1> QED BY InvHolds, <1>1, PTL DEF Spec, AppsAreCoroutines

\* socket returns the lowest descriptor that is not open, and -1 when all are open, whatever
\* was opened, closed and removed late before.
THEOREM SocketGivesLowest == Spec => LowestDescriptor
<1> DEFINE Lowest(p) ==
      LET a == process[p]
          closed == FDs \ fds[p]
      IN  a # None =>
            (call[a].kind = "socket" /\ state[a] = "WAITING" /\ state'[a] = "READY"
               => syscallRet'[a] = IF closed = {} THEN -1 ELSE Min(closed))
<1>1. ASSUME Inv, [Next]_vars, NEW p \in PIDs
      PROVE  Lowest(p)
  BY <1>1, SocketAnswersLowest, FiniteSetFactsHold
<1> HIDE DEF Lowest
<1>2. Inv /\ [Next]_vars => [\A p \in PIDs : Lowest(p)]_vars
  BY <1>1
<1> QED BY InvHolds, <1>2, PTL DEF Spec, LowestDescriptor, Lowest
-----------------------------------------------------------------------------
(* When every application has a pid of its own *)

LEMMA KeptHolds ==
    ASSUME Fits
    PROVE  Spec => []Kept
<1>1. Init => Kept
  BY InitKept, FiniteSetFactsHold
<1>2. Inv /\ Kept /\ [Next]_vars => Kept'
  BY NextKeeps, FiniteSetFactsHold
<1> QED BY InvHolds, <1>1, <1>2, PTL DEF Spec

\* While every application has a pid of its own, a descriptor that a process has obtained
\* and not closed stays open, and no late removal hits it: neither after it was closed and
\* opened again, nor after its process has gone.
THEOREM DescriptorsStayOpen ==
    ASSUME Fits
    PROVE  Spec => []DescriptorsKept
<1>1. Kept => DescriptorsKept
  BY DEF Kept
<1> QED BY KeptHolds, <1>1, PTL
-----------------------------------------------------------------------------
(* When, besides, descriptors are open and protocols registered *)

LEMMA ServedHolds ==
    ASSUME Fits, Proper
    PROVE  Spec => [](Kept /\ Served)
<1>1. Init => Served
  BY InitServed
<1>2. Inv /\ Kept /\ Served /\ [Next]_vars => Served'
  BY NextServes, FiniteSetFactsHold
<1> QED BY InvHolds, KeptHolds, <1>1, <1>2, PTL DEF Spec

\* For applications that use open descriptors and registered protocols, and a process table
\* with room for all of them, no assertion of the host fails and the program does not hang.
THEOREM AssertionsHold ==
    ASSUME Fits, Proper
    PROVE  Spec => []NoAbort
<1>1. Kept /\ Served => NoAbort
  BY DEF Kept, Served, NoAbort
<1> QED BY ServedHolds, <1>1, PTL

\* The call of an application that waits is queued or tracked, and the timer of a sleep is
\* queued for the right time.
THEOREM NobodyIsForgotten ==
    ASSUME Fits, Proper
    PROVE  Spec => []NobodyForgotten
<1>1. Kept /\ Served => NobodyForgotten
  BY DEF Served
<1> QED BY ServedHolds, <1>1, PTL

\* After cleanUp no application is blocked: run() has returned only when every request made
\* in it was handled, so cleanUp finds all that is pending in syscallMap.
THEOREM CleanUpFreesAll ==
    ASSUME Fits, Proper
    PROVE  Spec => []CleanUpUnblocks
<1>1. Kept /\ Served => CleanUpUnblocks
  BY DEF Served
<1> QED BY ServedHolds, <1>1, PTL
=============================================================================
