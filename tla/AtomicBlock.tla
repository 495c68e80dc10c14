------------------------------- MODULE AtomicBlock -------------------------------
(***************************************************************************)
(* What ThreadSafeDataBlock promises its callers: setValues replaces the   *)
(* registers of the block, and getValues returns them all, each in one     *)
(* indivisible step, however many threads call them.                       *)
(***************************************************************************)
CONSTANTS Readers, Cells, Vals, Zero

VARIABLES
    value,  \* the registers of the block
    got     \* got[t]: what the last getValues of t returned

vars == <<value, got>>

Init == /\ value = [c \in Cells |-> Zero]
        /\ got = [t \in Readers |-> [c \in Cells |-> Zero]]

setValues(v) == /\ value' = [c \in Cells |-> v]
                /\ UNCHANGED got

getValues(t) == /\ got' = [got EXCEPT ![t] = value]
                /\ UNCHANGED value

Next == \/ \E v \in Vals : setValues(v)
        \/ \E t \in Readers : getValues(t)

Spec == Init /\ [][Next]_vars
===============================================================================
