---------------------------- MODULE RoutingInfo -----------------------------
(***************************************************************************)
(* The address tables of a host, E::RoutingInfo                            *)
(* (src/Networking/E_RoutingInfo.cpp): four vectors that only grow, and    *)
(* look-ups that walk through them.  An IP address is its four bytes, a    *)
(* MAC address a name; an optional value is a sequence of length 0 or 1.   *)
(***************************************************************************)
EXTENDS Integers, SequencesExt

NoTables == [ip |-> <<>>, mac |-> <<>>, arp |-> <<>>, route |-> <<>>]

setIPAddr(info, ip, port) == [info EXCEPT !.ip = Append(@, [ip |-> ip, port |-> port])]
setMACAddr(info, mac, port) == [info EXCEPT !.mac = Append(@, [mac |-> mac, port |-> port])]
setARPTable(info, mac, ip) == [info EXCEPT !.arp = Append(@, [ip |-> ip, mac |-> mac])]
setRoutingTable(info, mask, prefix, port) ==
    [info EXCEPT !.route = Append(@, [ip_mask |-> mask, prefix |-> prefix, port |-> port])]

First(vector, Test(_)) ==
    LET i == SelectInSeq(vector, Test) IN IF i = 0 THEN <<>> ELSE <<vector[i]>>

getIPAddr(info, port) ==
    LET found == First(info.ip, LAMBDA entry : entry.port = port)
    IN  [i \in DOMAIN found |-> found[i].ip]
getMACAddr(info, port) ==
    LET found == First(info.mac, LAMBDA entry : entry.port = port)
    IN  [i \in DOMAIN found |-> found[i].mac]
getARPTable(info, ip) ==
    LET found == First(info.arp, LAMBDA entry : entry.ip = ip)
    IN  [i \in DOMAIN found |-> found[i].mac]

\* An entry matches when its whole bytes and the upper bits of the byte after
\* them do.
Matches(entry, ip_addr) ==
    LET bytes == entry.prefix \div 8
        remaining == entry.prefix % 8
        upper(byte) == byte \div 2 ^ (8 - remaining)
    IN  /\ \A k \in 1 .. bytes : ip_addr[k] = entry.ip_mask[k]
        /\ remaining > 0 => upper(ip_addr[bytes + 1]) = upper(entry.ip_mask[bytes + 1])

\* Slip of Better: the last of several entries wins.
Better_last(entry, best) == entry.prefix >= best.prefix

Better(entry, best) == entry.prefix > best.prefix

\* The port of the best entry, 0 when there is none.
getRoutingTable(info, ip_addr) ==
    FoldLeft(LAMBDA best, entry :
                 IF Matches(entry, ip_addr) /\ Better(entry, best)
                   THEN [prefix |-> entry.prefix, port |-> entry.port]
                   ELSE best,
             [prefix |-> 0, port |-> 0], info.route).port
-----------------------------------------------------------------------------
\* What a longest-prefix look-up is, without the walk: an address as a number,
\* an entry as the block of addresses that share its first bits.
AsBits(ip) == [k \in 1 .. 32 |-> (ip[(k - 1) \div 8 + 1] \div 2 ^ (7 - ((k - 1) % 8))) % 2]
InBlock(entry, ip) ==
    SubSeq(AsBits(entry.ip_mask), 1, entry.prefix) = SubSeq(AsBits(ip), 1, entry.prefix)

\* port is the one of the first entry with the longest prefix among those that hold
\* the address; a default route (prefix 0) does not count, and stands for port 0.
IsLongestPrefix(port, info, ip) ==
    LET hits == {i \in DOMAIN info.route :
                   info.route[i].prefix > 0 /\ InBlock(info.route[i], ip)}
    IN  IF hits = {} THEN port = 0
        ELSE \E i \in hits :
               /\ port = info.route[i].port
               /\ \A j \in hits :
                    \/ info.route[j].prefix < info.route[i].prefix
                    \/ info.route[j].prefix = info.route[i].prefix /\ i <= j
=============================================================================
