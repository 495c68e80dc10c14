------------------------------ MODULE MCDnp3App ------------------------------
(***************************************************************************)
(* Configuration files for TLC: octets of 2 bits, DNP3 addresses of 3.     *)
(***************************************************************************)
EXTENDS Dnp3App

\* A pair with nothing configured.
Plain == [master |-> TRUE, outstation |-> TRUE, malformed |-> FALSE,
          mIp |-> None, oIp |-> None, mAddr |-> None, oAddr |-> None,
          points |-> {}, mapped |-> FALSE, polls |-> {}, bound |-> FALSE]
Malformed == [Plain EXCEPT !.malformed = TRUE]

Point(type, index, class) == [type |-> type, index |-> index, class |-> class]

MCPointTypes == {"Analog Input", "Counter", "Binary Output"}

\* Polls of known and unknown classes, and points that have one of them; a
\* class that only an output has; an index at the limit.
Classed == <<[Plain EXCEPT !.polls = {1, 5, AllClasses}, !.bound = TRUE, !.oAddr = 2,
                           !.points = {Point("Analog Input", 0, 5), Point("Analog Input", 2, 2)}],
             [Plain EXCEPT !.polls = {4, 5}, !.mapped = TRUE,
                           !.points = {Point("Counter", 7, 0), Point("Counter", 1, 1),
                                       Point("Binary Output", 0, 4)}]>>

\* Three pairs in a block of which two addresses can be used; two of the DNP3
\* addresses configured.
Overflowing == <<[Plain EXCEPT !.mAddr = 3], [Plain EXCEPT !.bound = TRUE],
                 [Plain EXCEPT !.mapped = TRUE, !.mAddr = 0]>>

\* A master alone, an outstation alone, addresses set by hand.
Mixed == <<[Plain EXCEPT !.outstation = FALSE, !.oIp = <<1, 1, 1, 1>>, !.oAddr = 6],
           [Plain EXCEPT !.master = FALSE, !.mAddr = 6],
           [Plain EXCEPT !.mIp = <<1, 1, 1, 2>>]>>

\* So many pairs that the count comes to its end and begins again.
ManyPairs == [i \in 1..11 |-> IF i = 11 THEN Malformed ELSE Plain]

File(entries, addr, prefix) == [entries |-> entries, addr |-> addr, prefix |-> prefix]

\* The files that take turns on one host.  Two of the hosts have a file with many
\* aliases and one with few, and one such file is never read to its end.
Hosts == {{File(Classed, <<1, 0, 0, 0>>, 4)},
          {File(Overflowing, <<1, 2, 3, 3>>, 5), File(Mixed, <<1, 2, 1, 1>>, 8)},
          {File(ManyPairs, <<2, 2, 2, 0>>, 6), File(Mixed, <<0, 1, 3, 1>>, 6), File(Mixed, None, 0)}}

MCConfigs == UNION Hosts
MCLater == [c \in MCConfigs |-> UNION {h \in Hosts : c \in h}]
===============================================================================
