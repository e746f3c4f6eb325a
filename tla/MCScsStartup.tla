---------------------------- MODULE MCScsStartup ----------------------------
(* Instance of ScsStartup for TLC: two slots, three prefixes, two servers. *)
EXTENDS ScsStartup

CONSTANTS A, B, C, x

Short == <<"d", ".", "d", ".", "d", ".", "d">>
Long == <<"d", "d", ".", "d", "d", ".", "d", ".", "d">>

L(s) == [prefix |-> s, suffix |-> x]
Server(n, t) == [kind |-> "server", no |-> n, ip |-> t]
Extra(t) == [kind |-> "extra", no |-> 1, ip |-> t]
File(n, s) == [kind |-> "range", no |-> n, exists |-> TRUE, lines |-> s]
NoFile(n) == [kind |-> "range", no |-> n, exists |-> FALSE, lines |-> <<>>]
Two == <<Server(1, Short), Server(2, Short), Extra(Short)>>

MCConfigs ==
  { \* two servers, two prefixes
    Two \o <<File(1, <<L(A)>>), File(2, <<L(B)>>)>>,
    \* the slots change; a longer address
    <<Server(1, Short), Server(2, Long), Extra(Short), File(1, <<L(B)>>), File(2, <<L(A)>>)>>,
    \* the slots stay, A changes sides, B is lost to faulty lines
    Two \o <<File(1, <<L(A), L(BadPrefix), L(B)>>),
             File(2, <<L(A), [prefix |-> B, suffix |-> BadSuffix], L(A)>>)>>,
    \* more prefixes than slots, one server, and an EXTRA server without a value
    <<Server(1, Short), Extra(NoValue), File(1, <<L(C), L(A), L(B), L(A)>>), File(2, <<L(C)>>)>>,
    \* a value that is no address
    <<Server(1, Short), Server(2, NoColon)>>,
    \* a range file that does not exist
    <<Server(1, Short), NoFile(1)>> }
=============================================================================
