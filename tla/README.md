# A TLA+ model of KENS

KENS is a network simulator for teaching: applications written against the
socket interface run as threads under a discrete-event scheduler, on simulated
hosts that are connected by wires and links. These modules model its core, TLC
checks them on small instances, and TLAPS proves the main results for instances
of any size. `PROJECT.json` lists components, runs, hazards, theorems, findings,
and the source lines behind every definition.

## The system

| part | state | operations | what makes it hard |
|---|---|---|---|
| `System` (src/E/E_System.cpp) | virtual clock, heap of delayed messages, `activeTimer`, `activeUUID`, `runnableReady` | `sendMessage`, `cancelMessage`, `run`, `addRunnable`, `delRunnable` | callbacks re-enter it; ties; cancelled messages stay in the heap; unsigned time |
| `Runnable` (same file) | `state`, mutex, condition variable, thread | `start`, `wake`, `ready`, `wait`, `run`, destructor | two threads hand over control; spurious wakeups; join |
| `Host` (src/Networking/E_Host.cpp) | process table, `syscallMap`, descriptors, `running` | register, launch, system calls, timers, return, `cleanUp` | calls that block across events; late timers and removals; shutdown in the middle |
| `Link` (E_Link.cpp) | a queue and a busy time per port | `sendPacket`, `CHECK_QUEUE`, setters | one timer per nonempty queue; random eviction |
| `Wire` (E_Wire.cpp) | busy time per direction, speed, delay, limit | deliver, setters | changes of the configuration in flight |
| `Hub`, `Switch` | MAC table, `drop_base` | `packetArrived` | flooding; damaged copies |
| `Host`, `Ethernet`, `IPv4` on packets | `running`, `identification` | `packetArrived`, `sendPacketToModule`, `sendPacket` | every packet crosses them in several events; `cleanUp` in between; assertions on what comes from the wire |
| `RoutingInfo`, `NetworkUtil` | tables that only grow | look-ups, checksums | prefix lengths, ties, carries |
| tests of TCP (app/kens) | environments, programs with `EXPECT`s | socket calls at fixed virtual times | absolute times, deadlines, loops around short reads, what happens after `cleanUp` |

Hosts, links and wires interact only by messages of `System`; applications and
`Host` interact by messages and through `Runnable`.

## Modules

* `EventQueue` is what `System` promises: one clock, and messages consumed by
  (time, order of sending). `Host` and `Link` are written in its terms
  (`now`, `sent`, `pending`).
* `Coroutine` is what `Runnable` promises: control moves in indivisible steps and
  at most one application executes.
* `System` is the loop of `run()`. `phase` says whose code is on the stack: the
  program outside `run` ("out"), the loop, an application, or one of the
  callbacks of the current message. While it is not the loop's, any send or
  cancellation may happen; readying and launching only on the scheduler's thread.
  `container`, `timerQueue`, `activeTimer`, `activeUUID`, `runnableReady` are the
  fields of the same names. `last`, `due`, `calls`, `cancelOK` are history.
* `Runnable` opens up one hand-over: who owns the mutex, who sleeps on the
  condition variable, where the thread is (`at`), in which call the scheduler is
  blocked (`op`, `on`). Notification and going to sleep are one step because the
  mutex is held; waking up, testing the predicate and taking the mutex is another.
* `Host` has one action per message kind and per outcome of a system call. The
  argument of a call is in `call`, as the caller is blocked meanwhile. Protocols
  are external: they answer a call in its handler or from a later event, and may
  remove a closed descriptor late. A failed assertion ends in phase "abort".
  `own`, `count`, `late` are history of the environment.
* `Messages` is how the network modules use `EventQueue`: `Post` adds messages,
  `Receive` takes the earliest one and moves the clock.
* `Link` has `arrival`, `checkQueue`, `portReceives` and the setters. The random
  number that selects a victim is a choice among the positions it can give.
  `bps` is kept as the time a unit of size takes (0: unlimited), which avoids
  the division. A device copies a packet to any of its other ports.
* `Switch` extends `Link` by what a hub or a switch does with a packet
  (`packetArrived`): which ports, and which copies are damaged. Random numbers are
  choices among `Draws`; `drop_base` counts in percent.
* `Wire` has `wireReceives` (messageReceived) and the three setters. The modules
  around it are left open: `otherActs` and `otherReceives` are any step that does
  not send `PACKET_FROM_PORT` and does not take `PACKET_TO_PORT`, so what is proved
  of `Wire` holds in every network.
* `RoutingInfo` and `NetworkUtil` are operators. `IsLongestPrefix` is the reference
  for `getRoutingTable`: it compares bits, without the walk through the table.
* `Stack` is a packet inside a host: `hostReceives` and `passPacket` are the two
  message kinds of `Host::messageReceived` that carry packets, and they call
  `EthernetArrived` and `IPv4Arrived`, the two `packetArrived`. IP headers are 20
  bytes, with the checksum computed; of TCP's part only the bytes are kept that
  the switch overwrites.
* `Network` composes `Stack`, `Wire` and `Switch` around one queue. Its steps are
  the events of the three, packets that a protocol above IPv4 sends, and changes
  of the configuration by the program. `origin` is history.
* `TestEnv` builds the networks of app/kens/testenv.hpp with the setters of
  `RoutingInfo`.
* `TestCases` has every program of app/kens/test{bind,handshake,close,transfer,
  congestion}.cpp as the sequence of its calls, and every `TEST_F` as the programs
  it starts with the environment variables it sets. `TestPrograms` executes them
  in virtual time: one action per call. After `cleanUp` the hosts are not running:
  every call that waits returns -1, and `E_Syscall` returns -1 at once to every later
  one. The TCP below is external: handshakes, a backlog, a stream with a window, in a
  reliable network. Where the manual pages leave it a choice or disagree with the
  tests, the variable `tcp` says what it does: `read` at the end of a stream gives 0 or
  -1; the backlog counts unfinished handshakes, established connections, or both; a SYN
  without room is refused, ignored, or ignored and sent again (after `RetryTime`).
  `EXPECT`s on the contents of addresses (what `accept`, `getsockname` and `getpeername`
  report of a connection) and on descriptors and ports being distinct are left out.
  Segments have 512 bytes and keep the wire busy, which is
  what the deadline of 92 s of TestCongestion0 allows (91.56 s). The large transfers of the congestion tests move 100
  buffers at a time, and one of their identical pairs of programs is followed, with
  the wire divided among all.
* `MCSystem`, `MCRunnable`, `MCHost`, `MCLink`, `MCNetwork`, `MCTests` are the
  instances for TLC. `System_proofs`, `Runnable_proofs`, `Link_proofs` and
  `Wire_proofs` hold the proofs about these modules. Those about `Host` are many and
  divided: `HostInv` has the invariants, `HostSteps_proofs` what each kind of step
  does to them, `HostDescriptors_proofs` and `HostCalls_proofs` that every action
  keeps them, and `Host_proofs` the theorems. Definitions named `X_something` directly before `X` are slips of `X`, used
  to see that the properties notice them.

Not in the models: payloads, names, log output, the pcap file; destruction of
the `System`; return values other than success, failure and descriptors
(`gettimeofday` with a time zone, which gives -EINVAL, is a call that returns). In
`Host` only `socket` creates descriptors; the ones a protocol creates for `accept`
from a later event are left out, as the protocol is.

Assertions are steps to an aborted state where some caller could break them. Those
in E_Host.cpp:77-80 (a system call comes from a registered process) and 399-400 (a
process is launched once) are guards instead: a message that fails its guard would
stay at the head of the queue, and host_safety, which checks for deadlock, would stop
there. The assertion of `Host::sendPacket` on the port (line 183) is left out, as the
routing tables name only ports that exist.

## Runs

| run | shows | bounds |
|---|---|---|
| system | total order, punctuality, callbacks, cancellation, bookkeeping and ready set (`SystemInv`); `System` implements `EventQueue` and `Coroutine`; a message due within the limit is processed | 2 applications, 3 messages, delays 0 and 1, times up to 2, `run` until 1 (the runs of `Host` also have `run` without a limit): ties, zero delays, a cancelled and a late message together |
| system_cancel (violated) | cancelling the message being handled reports success | |
| runnable | exclusion, hand-over without lost wakeups; implements `Coroutine`; `start`, `wake` and the destructor return | 3 applications |
| host_safety | no assertion fails, calls are tracked, sleeps exact, `cleanUp` unblocks, descriptors survive late removals, the lowest free one is given out | 2 applications, 3 calls each, 2 descriptors |
| host_liveness | sleeps end, finished processes are removed; calls may be invalid, and the program may then end at an assertion | 2 applications, 2 calls each |
| host_badfd (violated) | a call on an invalid descriptor aborts | |
| host_lost (violated) | a call for an unregistered protocol is lost | |
| link_queues | one timer per nonempty queue, FIFO, line rate, head never evicted, queues run empty | 2 ports, 4 packets of sizes 1 and 2 at times 0 and 1, queue unlimited at first, then set to 2 or 3 |
| link_one (violated) | queue length 1 sets two timers | 3 packets |
| network_unreliable | no assertion of the stack fails, headers pass, order is kept, damage shows in TCP's checksum, silence after `cleanUp`, the right port, `Network` implements `Wire` | TestEnv2, unreliable: 2 hosts, 4 wires; 2 packets (1 multicast), 1 change of the configuration |
| network_congestion | packets arrive unless a queue fills up, and through the switch nowhere else | TestEnv3 with a switch or a hub: 3 hosts; 2 packets, 1 change; queues of 64, so none fills up |
| tests | which test accepts which TCP: every `EXPECT` holds but in 13 trials that fail (see Findings); every program ends, with one exception (ditto) | 37 tests, reliable network; the 9 handshake tests with every backlog and every fate of a SYN, the others with both results of `read` |

Bounds. Every property of `System` relates at most two messages and the current
one, so three messages show all orders of ties; a third application adds nothing
that two do not in `Host`, where processes meet only through pids and the clock.
`Link` overfills a queue of length 3 with the fourth packet (an assertion that
fails stops `Link`, so link_queues, which checks for deadlock, also shows that
none does). In `Host`, `MAX_PID`
equals `MAX_FD` as in the source (the search for a pid wraps at `MAX_FD`), and
fewer processes are registered than there are pids: with 65536 of them between a
close and its late removal the pid would be reused. `run()` is called in `Host`
with limits that have not passed, which is how the tests call it when there are
applications; the safety of `System` is proved for any limits, and the run takes one
that some messages are due before, some at and some after. Symmetry is used only in
runs without liveness.

The properties of `Network` relate two packets, so two are sent: through one pair
of wires and queues, crossing, or one of them multicast, of the sizes on both sides of the
switch's test, with data whose sum equals that of the damage. One change of the
configuration may fall between any two events: a longer route (a default route and
one that does not match are in the table from the start), a second ARP entry,
`cleanUp`, a slower wire or link, a
shorter delay, the speed limit of a wire. `Arrives` is stated for queues with
room for every packet ("Random drop occurs when the queue is full", E_Link.hpp:24); full queues are the
subject of `Link`. `HeaderPasses` is about the flows of the runs. Sizes,
speeds, delays and tables are otherwise those of the test environments. The tests
themselves are deterministic but for the external TCP, and are executed as a whole.

Deadlock is checked in `System`, `Link` and host_safety. Elsewhere the system may
stop: all applications are destroyed (`Runnable`), a program ends at an assertion
(host_liveness), all packets have arrived (`Network`), all programs are over
(`TestPrograms`).

Fairness. The loop of `run()` does not stop by itself, a callback returns, and
an application that was woken waits or ends: applications are assumed not to spin
(one that ignores -1 after `cleanUp` would). Threads are scheduled by the
operating system. Nobody is obliged to call anything from outside, no packet is
obliged to arrive, and a protocol need not answer. In `Network` and `Link` only
events are fair (`DueIsProcessed` of `System`); in `TestPrograms` virtual time goes
on as long as anything is to be done.

## Proofs

`Runnable_proofs`, for any set of runnables. `OneAtATime` is not inductive: it
holds because of who owns which mutex. `HandoverInv` says, for every runnable,
which states its thread's place allows, that the thread owns the mutex exactly
between two waits and the scheduler otherwise unless it is blocked in this very
runnable's call, and that no one sleeps whose predicate holds. Every action
preserves it; exclusion, the lock assertions, the result of `wake` and the
refinement of `Coroutine` follow.

`System_proofs`, for any sets of runnables, delays and limits and any bounds,
assuming `NoWrap` (no message is sent for a time beyond `Time`). It is needed: with
`TimeMod` 8, `Horizon` 9 and a delay of 7, TLC finds `OnTime` violated.
`SystemInv` adds to the properties that the clock stands at the message processed last (`ClockAtLast`), which callbacks the current one had
(`PhaseOfCurrent`) and that flags of cancelled messages persist (`FlagsKept`).
Order, punctuality, callbacks, cancellation, the ready set, `ReadyRunsAtOnce` and
the refinements of `EventQueue` and `Coroutine` follow.

`Link_proofs`, for any number of ports, speeds, sizes and arrivals, assuming
`SafeSizes` (queue length 1 is not used, and no limit is set below what is queued:
the findings show that both are needed). All properties of the link are proved from
one invariant, because they rest on each other. A timer finds a packet because there
is one timer per nonempty queue (`Timers`, which says "exactly one" without
`Cardinality`; the theorems on finite sets give the count at the end), and eviction
leaves a queue nonempty because no queue is longer than its limit (`WithinLimit`)
and the limit is not 1. `Fifo` is not inductive: two packets of a port on the way at
once could change places when `setLinkSpeed` makes the second one faster.
`OneAtATime` excludes that: at most one packet is on the way, due when
the port is free again (`nextAvailable`), and its message is older than the timer
that comes no earlier, so the queue hands out the packet first. `OrderOK` bounds
every number by `arrived`, which a new packet exceeds; `RateOK` relates the last
delivery to `nextAvailable`. Eviction keeps order and head (`RoomIsMade`), which
gives `HeadIsSent`. What an arrival and a `CHECK_QUEUE` do to the state is said once
(`Fills`, `Sends`), and each part of the invariant is derived from that.

`Wire_proofs`, for any wires, speeds and delays and any behaviour of the other
modules. `WireFifo` compares two packets on the wire, and what keeps them in order
is where the next one can get: `Bounded` says that no packet is on the wire for a
time later than now or the end of the last transmission, plus the propagation
delay. Raising the delay or changing the speed keeps it; lowering the delay or
lifting the limit does not, and `shortened` records these two. `ImplementsWire`,
checked by TLC, carries the theorem over to `Network`.

`Host_proofs`, for any set of applications, any sleeps, limits and protocols and
whatever the applications do. `Inv` relates four pieces of state that no single
property mentions together: the event queue, the process table, the map of tracked
calls and the state of the caller. A call is queued or tracked, never both, and its
process waits (`CallsOK`, `MessagesOK`); what a process sends to its host is handled
before the clock moves (`QueueOK`); the numbers in the map are all below
`syscallIDStart`, so the search for a free one ends at once and a timer that is left over
from an interrupted sleep meets no later call (`TimersOK`). `OneCallEach` and
`SleepExact` follow, and, step by step, the refinement of `Coroutine` by every application
and `LowestDescriptor`.

The other four theorems add hypotheses on the constants, each needed. `Fits`: the
process table has room for every application, so that pids are not used again
(`FreshPIDs`). With a table of one pid for two applications (and `MAX_FD` left at 5)
TLC shows what happens otherwise: `addApplication` searches for a pid for ever, or
the removal of a descriptor that a protocol delayed is aimed at a later process.
`Proper`: no call for an unregistered protocol and none on a descriptor that is not
open; the findings host_lost and host_badfd are what happens otherwise. With `Fits` alone `Kept` is invariant, hence `DescriptorsKept`: the
descriptor of a queued `close` is open and nobody else will close it. With both,
`Served` is, hence `NoAbort`, `NobodyForgotten` and `CleanUpUnblocks`: that `cleanUp`
finds every caller in the map needs that `run` returns only when every
request made before its end was handled.

The facts about finite sets that these steps use (a set with one more element
counts one more, a set of numbers has a least one) are one hypothesis,
`FiniteSetFacts`, in `HostSteps_proofs`, `HostDescriptors_proofs` and
`HostCalls_proofs`; `Host_proofs` proves it from the library, and no theorem
depends on it.

Only model-checked: all liveness (the prover does not treat fairness); the
properties of `Network`, whose packets travel through a chain of modules with
sequences computed by filters and folds, and of `TestPrograms`; what `one_sum` and
`getRoutingTable` compute for all inputs (an induction over data).

## Findings

* `cancelMessage` called by the handler of the message returns true
  (system_cancel); `E_Module.hpp:188-192` says it has no effect then.
* A call on an invalid descriptor aborts (host_badfd); the documentation says it
  fails.
* A call for an unregistered protocol is lost and `cleanUp` leaves its caller
  blocked (host_lost).
* Queue length 1 fails an assertion of `Link` (link_one). So does `setQueueSize`
  below the current length, as TLC shows when `ShrinkBelow` is set to TRUE; the
  runs exclude it because the programs set the size before they start.

Three more things the models show, outside the runs listed above or as exceptions
that the properties of a run state:

* Time wraps around at `E_System.cpp:37` (see Proofs for the instance), although
  `E_Module.hpp:154-155` promises "[current time] + [delay]". `usleep` of a negative difference, as
  app/kens/testclose.cpp:85 would compute for a connection that takes too long,
  gives such a delay; the run "tests" shows that no test gets there with a TCP
  that keeps the contract.
* A receiver without `LOOP_COUNT` (testtransfer.cpp:151) does not end with a TCP
  whose `read` returns 0 at the end of a stream, as the manual page in
  Documentation/man/read.2.txt says: it needs -1. It calls `read` again at once, so
  virtual time never reaches `cleanUp`. `ProgramsEnd` states it (`Rereads`).
* The tests and the documents disagree on the backlog. Documentation/man/listen.2.txt:60-62:
  "Now it specifies the queue length for completely established sockets waiting to be
  accepted, instead of the number of incomplete connection requests"; lines 18-21: a
  request "may be ignored so that a later reattempt at connection succeeds".
  testtransfer.cpp:36-39: "If the handshake is completed but the established connection is
  not consumed [...] the backlog count will be decreased by one"; lines 192-193: "If
  connections arrive during the sleep, they will consume the backlog count". The run
  "tests" decides which of these TCPs pass (`RejectedTrials` in `MCTests`):

  | backlog counts | SYN without room | rejected by |
  |---|---|---|
  | unfinished handshakes | refused, or ignored for good | no test |
  | unfinished handshakes | sent again | TestAccept_Backlog1 |
  | established connections | refused, or ignored for good | TestAccept_Backlog1, TestAccept_Backlog2, TestAccept_MultipleInterface2 |
  | established connections | sent again | TestAccept_Backlog1 |
  | both | refused, or ignored for good | TestAccept_Backlog2, TestAccept_MultipleInterface2 |
  | both | sent again | TestAccept_Backlog1 |

  Only the meaning that listen.2.txt calls the old one passes, and only without
  a later reattempt: Backlog1 expects three of six handshakes begun within 6 us to
  fail for good, Backlog2 expects six connections to be established
  while a server with a backlog of 1 sleeps.

## Not modelled

* TCP itself, RIP, PWOSPF and the echo assignment: the repository has skeletons
  without behaviour, and the build downloads a binary solution. What their tests (app/rip, app/pwospf,
  app/echo) expect is decided by that code.
* TestOpen: 128 rounds of 1024 sockets; what the host contributes is
  `createFileDescriptor` of `Host`.
* `Packet` as a buffer: a packet is a value. `clone` copies, and the layers read
  and write at fixed offsets inside the headers.
* `TimeUtil`, `Log`, `NetworkLog`, the pcap file: conversion of units and output.
* The random number generator: every value it can give is a choice.
* The tests as built with `UNRELIABLE` (25 of them use `TestEnv_Any`): they need
  the retransmissions of a TCP. `Network` covers what that switch does to packets.
