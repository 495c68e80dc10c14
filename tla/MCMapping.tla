------------------------------- MODULE MCMapping -------------------------------
(***************************************************************************)
(* Instances of MappingOutstation for TLC.                                 *)
(***************************************************************************)
EXTENDS MappingOutstation

Mapped(s, k, i, n) == [source |-> s, kind |-> k, input_index |-> i, index |-> n]
Reading(i, v, t) == [index |-> i, value |-> v, time |-> t]

\* One destination that aggregates two outstations.
MuxPoints == [d \in Dests |-> {Mapped(1, Analog, 0, 1), Mapped(1, Analog, 1, 2), Mapped(2, Analog, 0, 0)}]
MuxBound == [m \in Masters |-> Dests]

\* One source for two destinations, of which one has a script.
CounterPoints == [d \in Dests |-> {Mapped(1, Counter, 0, 0)}]

\* The second point of an outstation, as the first one of the aggregate.
ShiftedPoints == [d \in Dests |-> {Mapped(1, Analog, 1, 0)}]

\* A static poll without times, an event with a time, and an index that source 2
\* has no slot for.
MuxBatches == {<<Reading(0, 1, 0), Reading(1, 1, 0)>>,
               <<Reading(0, 1, 1), Reading(1, 0, 1)>>,
               <<Reading(1, 0, 0)>>}
TwoBatches == {<<Reading(0, v, 0)>> : v \in Values}

Flip == [v \in Values |-> 1 - v]
================================================================================
