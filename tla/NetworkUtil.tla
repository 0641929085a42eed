---------------------------- MODULE NetworkUtil -----------------------------
(***************************************************************************)
(* Checksums, E::NetworkUtil (src/Networking/E_NetworkUtil.cpp), on        *)
(* sequences of bytes, and the words of 16 bits they are made of.          *)
(***************************************************************************)
EXTENDS Integers, Sequences

Carry[sum \in Nat] == (sum % 65536) + (sum \div 65536)

\* The k-th byte, the upper or the lower half of a word.
Half(buffer, k) == IF k % 2 = 1 THEN buffer[k] * 256 ELSE buffer[k]

\* Slip of one_sum: the carry is lost.
one_sum_plain(buffer) ==
    LET sum[k \in 0 .. Len(buffer)] ==
          IF k = 0 THEN 0 ELSE (sum[k - 1] + Half(buffer, k)) % 65536
    IN  sum[Len(buffer)]

\* Ones' complement sum.
one_sum(buffer) ==
    LET sum[k \in 0 .. Len(buffer)] ==
          IF k = 0 THEN 0 ELSE Carry[sum[k - 1] + Half(buffer, k)]
    IN  Carry[sum[Len(buffer)]]

PROTO_TCP == 6

\* The sum over a TCP segment of this length and the pseudo header before it.
\* (segment is a part of the segment that holds all its bytes other than 0.)
tcp_sum(source, dest, segment, length) ==
    LET pheader == source \o dest \o <<0, PROTO_TCP, length \div 256, length % 256>>
    IN  IF length < 20 THEN 0 ELSE Carry[one_sum(pheader) + one_sum(segment)]

Complement(sum) == 65535 - sum
Bytes(word) == <<word \div 256, word % 256>>
=============================================================================
