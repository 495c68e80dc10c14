----------------------------- MODULE MCModbusApp -----------------------------
(***************************************************************************)
(* Configuration files for TLC.                                            *)
(***************************************************************************)
EXTENDS ModbusApp, TLC

CONSTANTS h1, h2, h3, h4, r1, s1, s2, s3, coils, inputs

MCAddrs == {h1, h2, h3, h4, r1}
MCNames == {s1, s2, s3}
MCTypes == {coils, inputs}

M(outs, polls) == [named |-> TRUE, ip |-> None, outs |-> outs, polls |-> polls, simulate |-> TRUE]
O(unit, count) == [ip |-> None, port |-> None, unit |-> unit, count |-> count, simulate |-> TRUE]

Both(c, i) == (coils :> c) @@ (inputs :> i)
Three == (s1 :> O(1, 2)) @@ (s2 :> O(2, 3)) @@ (s3 :> O(3, 1))

File(ms, os, hosts) == [masters |-> ms, outs |-> os, hosts |-> hosts]
Hosts == <<h1, h2, h3, h4>>

\* two outstations at one address, with a port that they agree on
SharedPort == File(<<M({s1}, <<>>), M({s2}, <<>>)>>,
                   [Three EXCEPT ![s1] = [@ EXCEPT !.ip = r1, !.port = 20],
                                 ![s2] = [@ EXCEPT !.ip = r1, !.port = 20]], Hosts)
PortConfigs == {SharedPort}

MCConfigs == PortConfigs \cup {
    \* two masters, an outstation each, ties between two frequencies
    File(<<M({s1}, Both(2, 3)), M({s2}, coils :> 1)>>, Three, Hosts),
    \* a shared outstation; a zero frequency; nothing to poll
    File(<<M({s1, s2}, Both(0, 1)), M({s2}, <<>>)>>, Three, Hosts),
    \* two addresses for one master
    File(<<M({s1}, <<>>), M({s2}, <<>>), M({s1, s2}, <<>>)>>, Three, Hosts \o <<r1>>),
    File(<<M({s1}, <<>>), M({s1, s2}, <<>>)>>,
         [Three EXCEPT ![s1] = [@ EXCEPT !.ip = r1]], Hosts),
    \* two masters at one configured address
    File(<<M({s1}, <<>>), M({s1, s2}, <<>>)>>,
         [Three EXCEPT ![s1] = [@ EXCEPT !.ip = r1], ![s2] = [@ EXCEPT !.ip = r1]], Hosts),
    \* too few addresses: for an outstation, and for a master; no name; no CIDR key
    File(<<M({s1}, coils :> 3), [M({s2}, <<>>) EXCEPT !.ip = r1]>>, Three, <<h1, h2, h3>>),
    File(<<M({s1, s2}, <<>>), M({s1}, <<>>), M({s1, s2}, <<>>)>>, Three, <<h1, h2, h3>>),
    File(<<[M({s1}, <<>>) EXCEPT !.named = FALSE], M({s1}, <<>>)>>, Three, Hosts),
    File(<<M({s1}, <<>>)>>, Three, <<>>),
    \* a device that is not simulated, at an address of its own, and at one with others
    File(<<[M({s1, s2}, Both(1, 1)) EXCEPT !.simulate = FALSE], M({s3}, <<>>)>>,
         [Three EXCEPT ![s1] = [@ EXCEPT !.ip = r1], ![s2] = [@ EXCEPT !.ip = r1],
                       ![s3] = [@ EXCEPT !.simulate = FALSE, !.port = 20]], Hosts),
    File(<<M({s1, s2}, <<>>)>>, [Three EXCEPT ![s2] = [@ EXCEPT !.simulate = FALSE]], Hosts),
    \* ports, and unit ids that are equal or too great
    File(<<M({s1, s2}, <<>>)>>, [Three EXCEPT ![s2] = [@ EXCEPT !.port = 20]], Hosts),
    File(<<M({s1, s2}, <<>>)>>, [Three EXCEPT ![s2] = [@ EXCEPT !.unit = 1]], Hosts),
    File(<<M({s1}, <<>>)>>, [Three EXCEPT ![s1] = [@ EXCEPT !.unit = 4]], Hosts)}
===============================================================================
