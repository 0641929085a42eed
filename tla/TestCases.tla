------------------------------ MODULE TestCases ------------------------------
(***************************************************************************)
(* The tests of app/kens: for every class of programs the calls of its     *)
(* E_Main, and for every TEST_F the programs it starts with the            *)
(* environment it gives them.  Times are microseconds.                     *)
(***************************************************************************)
EXTENDS Integers, Sequences

MSEC == 1000
SEC == 1000000
NoTimeout == 1001           \* seconds; runTest is over before

\* Addresses: two of host 1, one of host 2.
ip1 == "192.168.0.7"
ip1_2 == "192.168.0.8"
ip2 == "10.0.1.4"

\* Two hosts of TestEnv1 or TestEnv2: two wires of 1 ms, segments of 512 bytes and 54
\* bytes of headers at 1 Gb/s.  window bytes may be written and not yet read.
Case(programs) ==
    [programs |-> programs, latency |-> 2 * MSEC, segmentSize |-> 512, segmentTime |-> 5,
     window |-> 3000]
-----------------------------------------------------------------------------
(* Calls *)

usleep(time) == [call |-> "usleep", time |-> time]
sleepUntil(time) == [call |-> "sleepUntil", time |-> time]
bind(fd, ip, port, succeeds) ==
    [call |-> "bind", fd |-> fd, ip |-> ip, port |-> port, succeeds |-> succeeds]
getsockname(fd, ip, port) == [call |-> "getsockname", fd |-> fd, ip |-> ip, port |-> port]
listen(backlog) == [call |-> "listen", backlog |-> backlog]
close(fd) == [call |-> "close", fd |-> fd]
accepts(count, period) ==
    [call |-> "accept", count |-> count, period |-> period, must |-> FALSE]
accept == [accepts(1, 0) EXCEPT !.must = TRUE]
connects(ip, port, count, period) ==
    [call |-> "connect", ip |-> ip, port |-> port, count |-> count, period |-> period,
     must |-> FALSE]
connect(ip, port) == [connects(ip, port, 1, 0) EXCEPT !.must = TRUE]
transfer(sender, buffer, loops) ==
    [call |-> IF sender THEN "write" ELSE "read", buffer |-> buffer, loops |-> loops]
expect(total, timeout) == [call |-> "expect", total |-> total, timeout |-> timeout]
-----------------------------------------------------------------------------
(* testbind.cpp *)

Bind(calls) == Case(<<[host |-> 1, calls |-> calls]>>)

TestBind_Simple == Bind(<<bind(1, "any", 9999, TRUE), close(1)>>)
TestBind_DoubleBind ==
    Bind(<<bind(1, "any", 9999, TRUE), bind(1, "any", 10000, FALSE), close(1)>>)
TestBind_GetSockName ==
    Bind(<<bind(1, "any", 9999, TRUE), getsockname(1, "any", 9999), close(1)>>)
TestBind_OverlapPort ==
    Bind(<<bind(1, "any", 9999, TRUE), bind(2, ip1, 9999, FALSE), close(1), close(2)>>)
TestBind_OverlapClosed ==
    Bind(<<bind(1, "any", 9999, TRUE), close(1), bind(2, ip1, 9999, TRUE), close(2)>>)
TestBind_DifferentIP_SamePort ==
    Bind(<<bind(1, ip1, 9999, TRUE), bind(2, ip1_2, 9999, TRUE), close(1), close(2)>>)
TestBind_SameIP_DifferentPort ==
    Bind(<<bind(1, ip1, 9999, TRUE), bind(2, ip1, 10000, TRUE), close(1), close(2)>>)
-----------------------------------------------------------------------------
(* testhandshake.cpp *)

TestHandshake_Accept(host, addr, backlog, count, expected) ==
    [host |-> host, calls |->
     <<bind(1, addr, 9999, TRUE), usleep(0), listen(backlog), usleep(1 * SEC),
       accepts(count, 0), expect(expected, NoTimeout), close(1)>>]
TestHandshake_Connect(host, addr, time, count, period, expected) ==
    [host |-> host, calls |->
     <<usleep(time), connects(addr, 9999, count, period), expect(expected, NoTimeout), close(1)>>]
TestHandshake_SimultaneousConnect(host, addr, port, bind_addr, bind_port) ==
    [host |-> host, calls |->
     <<usleep(1 * SEC), bind(1, bind_addr, bind_port, TRUE), connect(addr, port),
       getsockname(1, bind_addr, bind_port), close(1)>>]

OneConnect(server, addr, time) ==
    Case(<<TestHandshake_Accept(server, "any", 1, 1, 1),
           TestHandshake_Connect(3 - server, addr, time, 1, 0, 1)>>)
MultipleInterface(count1, count2, time) ==
    Case(<<TestHandshake_Accept(1, ip1, 1, count1, count1),
           TestHandshake_Accept(1, ip1_2, 1, count2, count2),
           TestHandshake_Connect(2, ip1, time, count1, 1, count1),
           TestHandshake_Connect(2, ip1_2, time, count2, 1, count2)>>)

TestAccept_Backlog1 ==
    Case(<<TestHandshake_Accept(1, "any", 3, 10, 3)>> \o
         [k \in 1 .. 6 |-> TestHandshake_Connect(2, ip1, k, 1, 0, IF k <= 3 THEN 1 ELSE 0)])
TestAccept_Backlog2 ==
    Case(<<TestHandshake_Accept(1, "any", 1, 10, 6)>> \o
         [k \in 1 .. 6 |-> TestHandshake_Connect(2, ip1, 10 * k * MSEC, 1, 0, 1)])
TestAccept_BeforeAccept == OneConnect(1, ip1, 100 * MSEC)
TestAccept_AfterAccept == OneConnect(1, ip1, 2 * SEC)
TestAccept_MultipleInterface1 == MultipleInterface(3, 5, 2 * SEC)
TestAccept_MultipleInterface2 == MultipleInterface(4, 2, 100 * MSEC)
TestConnect_BeforeAccept == OneConnect(2, ip2, 100 * MSEC)
TestConnect_AfterAccept == OneConnect(2, ip2, 2 * SEC)
TestConnect_SimultaneousConnect ==
    Case(<<TestHandshake_SimultaneousConnect(1, ip2, 12345, ip1, 22222),
           TestHandshake_SimultaneousConnect(2, ip1, 22222, ip2, 12345)>>)
-----------------------------------------------------------------------------
(* testclose.cpp *)

TestClose_Accept(host, close_time) ==
    [host |-> host, calls |->
     <<bind(1, "any", 9999, TRUE), usleep(0), listen(1), usleep(1000), accept,
       sleepUntil(close_time), close(2), close(1)>>]
TestClose_Connect(host, close_time) ==
    [host |-> host, calls |->
     <<usleep(2000), connect(IF host = 1 THEN ip2 ELSE ip1, 9999), sleepUntil(close_time), close(1)>>]

TestClose_Connect_CloseFirst ==
    Case(<<TestClose_Accept(2, 1020 * MSEC), TestClose_Connect(1, 1010 * MSEC)>>)
TestClose_Connect_CloseLater ==
    Case(<<TestClose_Accept(2, 1010 * MSEC), TestClose_Connect(1, 1020 * MSEC)>>)
TestClose_Connect_CloseSimultaneous ==
    Case(<<TestClose_Accept(2, 1010 * MSEC), TestClose_Connect(1, 1010 * MSEC)>>)
TestClose_Accept_CloseLater ==
    Case(<<TestClose_Accept(1, 1020 * MSEC), TestClose_Connect(2, 1010 * MSEC)>>)
TestClose_Accept_CloseFirst ==
    Case(<<TestClose_Accept(1, 1010 * MSEC), TestClose_Connect(2, 1020 * MSEC)>>)
TestClose_Accept_CloseSimultaneous ==
    Case(<<TestClose_Accept(1, 1010 * MSEC), TestClose_Connect(2, 1010 * MSEC)>>)
-----------------------------------------------------------------------------
(* testtransfer.cpp *)

Data(sender, buffer, loops, size) ==
    [sender |-> sender, buffer |-> buffer, loops |-> loops, size |-> size]
Send1024 == Data(TRUE, 1024, 128, 131072)
Send53 == Data(TRUE, 53, 1223, 64819)
Recv(buffer, loops) == Data(FALSE, buffer, loops, 131072)
Recv67 == Data(FALSE, 67, 0, 64819)

TestTransfer_Accept(host, data) ==
    [host |-> host, calls |->
     <<bind(1, "any", 9999, TRUE), usleep(0), listen(1), usleep(1000), accept,
       sleepUntil(1 * SEC), transfer(data.sender, data.buffer, data.loops),
       expect(data.size, NoTimeout), close(2), close(1)>>]
TestTransfer_Connect(host, data) ==
    [host |-> host, calls |->
     <<usleep(2000), connect(IF host = 1 THEN ip2 ELSE ip1, 9999),
       sleepUntil(1 * SEC), transfer(data.sender, data.buffer, data.loops),
       expect(data.size, NoTimeout), close(1)>>]

Transfer(server, accept_data, connect_data) ==
    Case(<<TestTransfer_Accept(server, accept_data), TestTransfer_Connect(3 - server, connect_data)>>)

TestTransfer_Connect_Send_Symmetric == Transfer(2, Recv(1024, 128), Send1024)
TestTransfer_Connect_Send_EOF == Transfer(2, Recv(1024, 0), Send1024)
TestTransfer_Connect_Recv_Symmetric == Transfer(2, Send1024, Recv(1024, 128))
TestTransfer_Connect_Recv_EOF == Transfer(2, Send1024, Recv(1024, 0))
TestTransfer_Connect_Recv_SmallBuffer1 == Transfer(2, Send1024, Recv(128, 0))
TestTransfer_Connect_Recv_SmallBuffer2 == Transfer(2, Send53, Recv67)
TestTransfer_Accept_Send_Symmetric == Transfer(1, Send1024, Recv(1024, 128))
TestTransfer_Accept_Send_EOF == Transfer(1, Send1024, Recv(1024, 0))
TestTransfer_Accept_Recv_Symmetric == Transfer(1, Recv(1024, 128), Send1024)
TestTransfer_Accept_Recv_EOF == Transfer(1, Recv(1024, 0), Send1024)
TestTransfer_Accept_Recv_SmallBuffer1 == Transfer(1, Recv(128, 0), Send1024)
TestTransfer_Accept_Recv_SmallBuffer2 == Transfer(1, Recv67, Send53)
-----------------------------------------------------------------------------
(* testcongestion.cpp *)

\* Scale buffers of 1024 bytes are moved as one.
Scale == 100

TestCongestion_Accept(size, timeout) ==
    [host |-> 1, calls |->
     <<bind(1, "any", 10000, TRUE), usleep(0), listen(1), usleep(1000), accept,
       sleepUntil(1 * SEC), transfer(FALSE, 1024 * Scale, 0), expect(size, timeout),
       close(2), close(1)>>]
TestCongestion_Connect(loops, size) ==
    [host |-> 2, calls |->
     <<usleep(2000), connect("192.168.1.7", 10000), sleepUntil(1 * SEC),
       transfer(TRUE, 1024 * Scale, loops \div Scale), expect(size, NoTimeout), close(1)>>]

\* TestEnv3: wires of 10 ms, and 10 Mb/s (0.8 us per byte) for the segments of all
\* clients, two for every buffer.  The pairs of programs are alike: one is followed.
Congestion(clients, loops, size, timeout) ==
    [programs |-> <<TestCongestion_Accept(size, timeout), TestCongestion_Connect(loops, size)>>,
     latency |-> 20 * MSEC, segmentSize |-> 1024 * Scale, window |-> 4 * 1024 * Scale,
     segmentTime |-> (clients * Scale * 2 * (512 + 54) * 8) \div 10]

TestCongestion0 == Congestion(1, 100000, 102400000, 92)
TestCongestion1 == Congestion(2, 10000, 10240000, 60)
TestCongestion2 == Congestion(8, 10000, 10240000, 150)
==============================================================================
