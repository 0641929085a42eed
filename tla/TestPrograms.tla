---------------------------- MODULE TestPrograms ----------------------------
(***************************************************************************)
(* The programs with which the tests of TCP exercise it (app/kens), run in *)
(* virtual time.  A program is the sequence of the calls and EXPECTs of    *)
(* its E_Main (module TestCases); an action is one call.  The TCP below    *)
(* them is external: a reliable network, handshakes of three segments,     *)
(* streams with a window.  Where the manual pages leave it a choice, or    *)
(* say something else than the tests, it is a parameter of the TCP.        *)
(*                                                                         *)
(* The question is which TCPs the tests accept: whether the EXPECTs hold   *)
(* and the programs end.  A program that fails an EXPECT is not followed   *)
(* further.  Times are microseconds.                                       *)
(***************************************************************************)
EXTENDS Integers, Sequences, FiniteSets, FiniteSetsExt, TLC

CONSTANTS
    Trials,        \* the pairs of a test and a TCP that are tried
    Rejected       \* those of them in which an EXPECT has to fail

VARIABLES
    case,          \* the test
    tcp,           \* what TCP does where it has a choice:
                   \*   eof: what read returns at the end of a stream
                   \*   backlog: the connections that fill the backlog
                   \*   unwanted: the fate of a SYN nobody has room for
    now,
    proc,          \* program |-> next call, when, and the variables of its loops
    segments,      \* SYN, SYNACK, ACK and RST on their way
    half,          \* program |-> clients whose handshakes are not finished
    queue,         \* program |-> connections ready to be accepted
    stream,        \* the data: bytes written, arrived, taken; when more arrive
    bound,         \* the sockets that are bound, with their backlogs (0: no listen)
    running,       \* runTest has not called cleanUp
    failed         \* EXPECTs that failed

vars == <<case, tcp, now, proc, segments, half, queue, stream, bound, running, failed>>
trial == <<case, tcp>>
handshakes == <<segments, half, queue>>

Never == 2147483647
SEC == 1000000
RunTime == 1000 * SEC
RetryTime == 1 * SEC

Programs == DOMAIN case.programs
E_Main(p) == case.programs[p].calls
Done(p) == proc[p].pc > Len(E_Main(p))
Call(p) == E_Main(p)[proc[p].pc]
At(p, call) == ~Done(p) /\ Call(p).call = call

\* loop, total and filled: rounds, successes or bytes, bytes of the buffer in use.
Init ==
    /\ \E t \in Trials : case = t[1] /\ tcp = t[2]
    /\ now = 0
    /\ proc = [p \in Programs |-> [pc |-> 1, at |-> 0, connecting |-> FALSE, loop |-> 0,
                                   total |-> 0, filled |-> 0]]
    /\ segments = {}
    /\ half = [p \in Programs |-> {}]
    /\ queue = [p \in Programs |-> <<>>]
    /\ stream = [written |-> 0, arrived |-> 0, taken |-> 0, at |-> Never, closed |-> FALSE]
    /\ bound = {}
    /\ running = TRUE
    /\ failed = {}
-----------------------------------------------------------------------------
(* Virtual time *)

Available == stream.arrived - stream.taken
Space == case.window - (stream.written - stream.taken)
AtEnd == stream.closed /\ stream.taken = stream.written

\* A call waits, unless its host has been cleaned up: Host::cleanUp returns -1 to the
\* calls that wait, sleeps included, and E_Syscall returns -1 at once to later ones.
Waits(p) ==
    /\ running
    /\ \/ At(p, "accept") /\ queue[p] = <<>>
       \/ At(p, "connect") /\ proc[p].connecting
       \/ At(p, "read") /\ Available = 0 /\ ~AtEnd
       \/ At(p, "write") /\ Space = 0

Due(p) ==
    IF Done(p) \/ Waits(p) THEN Never
    ELSE IF running THEN Max({now, proc[p].at}) ELSE now

Times == {Due(p) : p \in Programs} \cup {s.at : s \in segments} \cup {stream.at}

\* What happens at this time is next.  The first run() of runTest has a limit, inclusive.
Passes(time) ==
    /\ time # Never /\ time = Min(Times)
    /\ running => time <= RunTime
    /\ now' = time

Runs(p, call) == At(p, call) /\ Passes(Due(p))

\* The program changes these fields of its state; its EXPECTs are tests.
Stays(p, changes, tests) ==
    LET wrong == {t \in DOMAIN tests : ~tests[t]}
    IN  /\ proc' = [proc EXCEPT ![p] = (IF wrong = {} THEN changes
                                        ELSE [pc |-> Len(E_Main(p)) + 1]) @@ @]
        /\ failed' = failed \cup {<<p, t>> : t \in wrong}

\* ... and goes on to the next call; in a loop it does so if the loop ends.
Loops(p, ends, changes, tests) ==
    Stays(p, [pc |-> proc[p].pc + (IF ends THEN 1 ELSE 0)] @@ changes, tests)
Goes(p, changes, tests) == Loops(p, TRUE, changes, tests)

usleep(p) ==
    /\ Runs(p, "usleep")
    /\ Goes(p, [at |-> now' + Call(p).time], <<>>)
    /\ UNCHANGED <<trial, handshakes, stream, bound, running>>

\* gettimeofday, and usleep until a time that must not have passed.
sleepUntil(p) ==
    /\ Runs(p, "sleepUntil")
    /\ Goes(p, [at |-> Call(p).time, loop |-> 0, total |-> 0],
            [ret |-> running, sleep_time |-> Call(p).time >= now'])
    /\ UNCHANGED <<trial, handshakes, stream, bound, running>>
-----------------------------------------------------------------------------
(* Sockets *)

Overlap(a, b) == a.host = b.host /\ a.port = b.port /\ (a.ip = b.ip \/ "any" \in {a.ip, b.ip})

Socket(p, call) ==
    [program |-> p, fd |-> call.fd, host |-> case.programs[p].host, ip |-> call.ip,
     port |-> call.port, backlog |-> 0]

\* bind fails for a socket that is bound, and for an address that is taken.
CanBind(socket) ==
    \A other \in bound : /\ <<other.program, other.fd>> # <<socket.program, socket.fd>>
                         /\ ~Overlap(other, socket)

bind(p) ==
    /\ Runs(p, "bind")
    /\ LET socket == Socket(p, Call(p))
           success == running /\ CanBind(socket)
       IN  /\ bound' = IF success THEN bound \cup {socket} ELSE bound
           /\ Goes(p, <<>>, [ret |-> success = Call(p).succeeds])
    /\ UNCHANGED <<trial, handshakes, stream, running>>

getsockname(p) ==
    /\ Runs(p, "getsockname")
    /\ Goes(p, <<>>, [addr |-> running /\ Socket(p, Call(p)) \in bound])
    /\ UNCHANGED <<trial, handshakes, stream, bound, running>>

listen(p) ==
    /\ Runs(p, "listen")
    /\ bound' = {IF running /\ s.program = p THEN [s EXCEPT !.backlog = Call(p).backlog] ELSE s
                    : s \in bound}
    /\ Goes(p, <<>>, [ret |-> running /\ \E s \in bound : s.program = p])
    /\ UNCHANGED <<trial, handshakes, stream, running>>

\* close, which ends the stream of the sender.
close(p) ==
    /\ Runs(p, "close")
    /\ bound' = {s \in bound : running => <<s.program, s.fd>> # <<p, Call(p).fd>>}
    /\ stream' = [stream EXCEPT
          !.closed = @ \/ (running /\ \E i \in DOMAIN E_Main(p) : E_Main(p)[i].call = "write")]
    /\ Goes(p, <<>>, <<>>)
    /\ UNCHANGED <<trial, handshakes, running>>
-----------------------------------------------------------------------------
(* Handshakes; the segments and what TCP does with them are external *)

Sent(kind, client, server) ==
    {[kind |-> kind, client |-> client, server |-> server, at |-> now' + case.latency]}

\* Sockets at the address a client connects to: listening, or connecting themselves.
Remote(client) ==
    {s \in bound : s.port = Call(client).port /\ s.ip \in {"any", Call(client).ip}}
Servers(client) == {s \in Remote(client) : s.backlog > 0}
Peers(client) == {s \in Remote(client) : At(s.program, "connect") /\ proc[s.program].connecting}

\* What fills the backlog of a server: handshakes that are not finished, as the numbers in
\* the backlog tests have it; connections that wait to be accepted, as listen(2) has it
\* (listen.2.txt:60-62); or both, as the comments of testtransfer.cpp have it (lines 36-39
\* and 192-193).
Room(s) ==
    LET unfinished == Cardinality(half[s.program])
        established == Len(queue[s.program])
    IN  s.backlog > [unfinished |-> unfinished, established |-> established,
                     both |-> unfinished + established][tcp.backlog]

\* A SYN nobody has room for is refused with RST, or ignored; the client may try again, so
\* that "a later reattempt at connection succeeds" (listen.2.txt:18-21).
Unwanted(s) ==
    [refused |-> Sent("RST", s.client, s.client), ignored |-> {},
     retried |-> {[s EXCEPT !.at = now' + RetryTime]}][tcp.unwanted]

\* A SYN starts a handshake with a server that has room for it, or with a program that
\* itself connects to the client.
synArrives(s) ==
    /\ s.kind = "SYN" /\ Passes(s.at)
    /\ \/ \E server \in Servers(s.client) :
            /\ Room(server)
            /\ half' = [half EXCEPT ![server.program] = @ \cup {s.client}]
            /\ segments' = (segments \ {s}) \cup Sent("SYNACK", s.client, server.program)
       \/ \E peer \in Peers(s.client) :
            /\ segments' = (segments \ {s}) \cup Sent("SYNACK", s.client, s.client)
            /\ UNCHANGED half
       \/ /\ Peers(s.client) = {} /\ \A server \in Servers(s.client) : ~Room(server)
          /\ segments' = (segments \ {s}) \cup Unwanted(s)
          /\ UNCHANGED half
    /\ UNCHANGED <<trial, proc, queue, stream, bound, running, failed>>

\* The last segment of a handshake.
ackArrives(s) ==
    /\ s.kind = "ACK" /\ Passes(s.at)
    /\ half' = [half EXCEPT ![s.server] = @ \ {s.client}]
    /\ queue' = [queue EXCEPT ![s.server] = Append(@, s.client)]
    /\ segments' = segments \ {s}
    /\ UNCHANGED <<trial, proc, stream, bound, running, failed>>

\* One accept or connect of several: it counts if it succeeds, usleep(period) follows,
\* and after the last one the program goes on.  A single one must succeed.
Counted(p, success) ==
    LET call == Call(p)
        loop == proc[p].loop + 1
    IN  Loops(p, loop >= call.count,
              [loop |-> loop, total |-> proc[p].total + (IF success THEN 1 ELSE 0),
               at |-> now' + call.period, connecting |-> FALSE],
              [ret |-> success \/ ~call.must])

connect(p) ==
    /\ running /\ Runs(p, "connect") /\ ~proc[p].connecting
    /\ Stays(p, [connecting |-> TRUE], <<>>)
    /\ segments' = segments \cup Sent("SYN", p, p)
    /\ UNCHANGED <<trial, half, queue, stream, bound, running>>

\* connect returns when SYNACK or RST arrives ...
connectReturns(s) ==
    /\ s.kind \in {"SYNACK", "RST"} /\ Passes(s.at)
    /\ segments' = (segments \ {s}) \cup
          (IF s.server # s.client THEN Sent("ACK", s.client, s.server) ELSE {})
    /\ Counted(s.client, s.kind = "SYNACK")
    /\ UNCHANGED <<trial, half, queue, stream, bound, running>>

\* ... or fails after cleanUp.
connectFails(p) ==
    /\ ~running /\ Runs(p, "connect")
    /\ Counted(p, FALSE)
    /\ UNCHANGED <<trial, handshakes, stream, bound, running>>

accept(p) ==
    /\ Runs(p, "accept")
    /\ queue' = IF running THEN [queue EXCEPT ![p] = Tail(@)] ELSE queue
    /\ Counted(p, running)
    /\ UNCHANGED <<trial, segments, half, stream, bound, running>>

\* EXPECTs after the loops: on the connections or bytes counted, and on the time.
expect(p) ==
    /\ Runs(p, "expect")
    /\ Goes(p, <<>>, [total |-> proc[p].total = Call(p).total,
                      timeval |-> now' \div SEC < Call(p).timeout])
    /\ UNCHANGED <<trial, handshakes, stream, bound, running>>
-----------------------------------------------------------------------------
(* Data *)

\* The inner loop of a round goes on after a short read or write.  The slip starts the
\* next round, with new random bytes.
NextRound_short(p, n) == n >= 0
NextRound(p, n) == proc[p].filled + n = Call(p).buffer

\* The outer loop ends when a call fails, and after LOOP_COUNT rounds unless that is 0.
\* The slip does not look at the result of the call.
Stops_count(p, n) == NextRound(p, n) /\ Call(p).loops \in 1 .. proc[p].loop + 1
Stops(p, n) == n < 0 \/ (NextRound(p, n) /\ Call(p).loops \in 1 .. proc[p].loop + 1)

\* read or write returned n.  Both ends draw the same random bytes, a buffer in every
\* round: the receiver compares equal bytes if its rounds are where the stream is.
Transferred(p, n, position) ==
    Loops(p, Stops(p, n),
          [total |-> proc[p].total + Max({n, 0})] @@
          (IF NextRound(p, n) THEN [loop |-> proc[p].loop + 1, filled |-> 0]
                              ELSE [filled |-> proc[p].filled + Max({n, 0})]),
          [buffer |-> proc[p].loop * Call(p).buffer + proc[p].filled = position])

read(p) ==
    /\ Runs(p, "read")
    /\ LET n == IF ~running THEN -1
                ELSE IF Available > 0 THEN Min({Available, Call(p).buffer - proc[p].filled})
                ELSE tcp.eof
       IN  /\ Transferred(p, n, stream.taken)
           /\ stream' = [stream EXCEPT !.taken = @ + Max({n, 0})]
    /\ UNCHANGED <<trial, handshakes, bound, running>>

write(p) ==
    /\ Runs(p, "write")
    /\ LET n == IF ~running THEN -1 ELSE Min({Space, Call(p).buffer - proc[p].filled})
       IN  /\ Transferred(p, n, stream.written)
           /\ stream' = [stream EXCEPT !.written = @ + Max({n, 0}),
                !.at = IF @ = Never THEN now' + case.latency + case.segmentTime ELSE @]
    /\ UNCHANGED <<trial, handshakes, bound, running>>

\* The next segment arrives (external).
dataArrives ==
    /\ Passes(stream.at)
    /\ LET arrived == Min({stream.written, stream.arrived + case.segmentSize})
       IN  stream' = [stream EXCEPT !.arrived = arrived,
              !.at = IF arrived < stream.written THEN now' + case.segmentTime ELSE Never]
    /\ UNCHANGED <<trial, proc, handshakes, bound, running, failed>>
-----------------------------------------------------------------------------
\* runTest: nothing is left to do before the limit, and cleanUp stops the hosts.  They
\* neither send nor take in packets any more, and every call of a program fails.
cleanUp ==
    /\ running /\ Min(Times) > RunTime
    /\ now' = RunTime
    /\ running' = FALSE
    /\ segments' = {}
    /\ stream' = [stream EXCEPT !.at = Never]
    /\ UNCHANGED <<trial, proc, half, queue, bound, failed>>

Next ==
    \/ \E p \in Programs :
         \/ usleep(p) \/ sleepUntil(p) \/ bind(p) \/ getsockname(p) \/ listen(p) \/ close(p)
         \/ connect(p) \/ connectFails(p) \/ accept(p) \/ expect(p) \/ read(p) \/ write(p)
    \/ \E s \in segments : synArrives(s) \/ ackArrives(s) \/ connectReturns(s)
    \/ dataArrives
    \/ cleanUp

\* Virtual time goes on as long as there is something to do.
Spec == Init /\ [][Next]_vars /\ WF_vars(Next)
-----------------------------------------------------------------------------
(* Properties *)

\* The tests accept and reject the right TCPs.  In a trial that is not in Rejected no EXPECT
\* fails: binds succeed or fail as told, every sleep until START_TIME and CLOSE_TIME begins
\* in time, connections are counted right, data is compared with the bytes that were sent,
\* sizes and deadlines fit.  (Left out are the EXPECTs on the contents of addresses and on
\* descriptors and ports being distinct.)  In a trial that is in Rejected some EXPECT has
\* failed when the programs have ended: the test does not let that TCP through.
ExpectsHold ==
    IF trial \in Rejected THEN (\A p \in Programs : Done(p)) => failed # {}
                          ELSE failed = {}

\* A receiver without LOOP_COUNT at the end of a stream that read reports with 0.
Rereads(p) == tcp.eof = 0 /\ AtEnd /\ At(p, "read") /\ Call(p).loops = 0

\* Every program of a test ends, the ones that wait when runTest calls cleanUp included.
\* The one exception is a receiver without LOOP_COUNT, with a TCP whose read returns 0 at
\* the end of the stream: it gets there and never leaves, since it calls read again at once
\* and virtual time does not reach the cleanUp that would end it.
ProgramsEnd ==
    /\ <>\A p \in Programs : Done(p) \/ Rereads(p)
    /\ [][\A p \in Programs : Rereads(p) => Rereads(p)']_vars
=============================================================================
