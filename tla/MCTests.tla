------------------------------- MODULE MCTests -------------------------------
(***************************************************************************)
(* All tests of app/kens but TestOpen, for TLC.                            *)
(***************************************************************************)
EXTENDS TestPrograms

T == INSTANCE TestCases

BindTests ==
    {T!TestBind_Simple, T!TestBind_DoubleBind, T!TestBind_GetSockName, T!TestBind_OverlapPort,
     T!TestBind_OverlapClosed, T!TestBind_DifferentIP_SamePort, T!TestBind_SameIP_DifferentPort}
HandshakeTests ==
    {T!TestAccept_Backlog1, T!TestAccept_Backlog2, T!TestAccept_BeforeAccept,
     T!TestAccept_AfterAccept, T!TestAccept_MultipleInterface1, T!TestAccept_MultipleInterface2,
     T!TestConnect_BeforeAccept, T!TestConnect_AfterAccept, T!TestConnect_SimultaneousConnect}
CloseTests ==
    {T!TestClose_Connect_CloseFirst, T!TestClose_Connect_CloseLater,
     T!TestClose_Connect_CloseSimultaneous, T!TestClose_Accept_CloseLater,
     T!TestClose_Accept_CloseFirst, T!TestClose_Accept_CloseSimultaneous}
TransferTests ==
    {T!TestTransfer_Connect_Send_Symmetric, T!TestTransfer_Connect_Send_EOF,
     T!TestTransfer_Connect_Recv_Symmetric, T!TestTransfer_Connect_Recv_EOF,
     T!TestTransfer_Connect_Recv_SmallBuffer1, T!TestTransfer_Connect_Recv_SmallBuffer2,
     T!TestTransfer_Accept_Send_Symmetric, T!TestTransfer_Accept_Send_EOF,
     T!TestTransfer_Accept_Recv_Symmetric, T!TestTransfer_Accept_Recv_EOF,
     T!TestTransfer_Accept_Recv_SmallBuffer1, T!TestTransfer_Accept_Recv_SmallBuffer2}
CongestionTests == {T!TestCongestion0, T!TestCongestion1, T!TestCongestion2}

\* read fails at the end of a stream, or returns 0.
TCPs ==
    [eof : {-1, 0}, backlog : {"unfinished", "established", "both"},
     unwanted : {"refused", "ignored", "retried"}]

\* The other tests make no second connection, and have no use for a backlog.
AllTrials ==
    (HandshakeTests \X {tcp_ \in TCPs : tcp_.eof = -1}) \cup
    ((BindTests \cup CloseTests \cup TransferTests \cup CongestionTests) \X
     {tcp_ \in TCPs : tcp_.backlog = "unfinished" /\ tcp_.unwanted = "ignored"})

\* Backlog1 wants three of six handshakes begun at once to fail for good.  In Backlog2 and
\* MultipleInterface2 more connections wait to be accepted than the backlog has places.
RejectedTrials ==
    ({T!TestAccept_Backlog1} \X
     {tcp_ \in TCPs : tcp_.backlog = "established" \/ tcp_.unwanted = "retried"}) \cup
    ({T!TestAccept_Backlog2, T!TestAccept_MultipleInterface2} \X
     {tcp_ \in TCPs : tcp_.backlog # "unfinished" /\ tcp_.unwanted # "retried"})
==============================================================================
