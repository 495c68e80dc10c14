------------------------------ MODULE PointMirror ------------------------------
(***************************************************************************)
(* What a mapping outstation of the dnp3 generator promises, without its   *)
(* threads: every response of a source takes effect as a whole, and a      *)
(* channel of which something is due is copied, once, from a state in      *)
(* between two whole responses.  A channel is a source and a kind of data. *)
(* Nothing is promised of a destination that is not up yet.                *)
(***************************************************************************)
EXTENDS SequencesExt

CONSTANTS
    Dests,      \* the mapping outstations
    Channels,   \* the pairs of a source and a kind
    Batches,    \* the responses a source may send
    Feeds,      \* Feeds[d]: the points mapped at d, each with its channel
    Channel(_), \* Channel(p): the channel of the point p
    Keep(_, _, _, _), \* Keep(d, c, a, it): the array a of c once it has the item it
    Shown(_, _, _)    \* Shown(d, p, a): what p shows of the array a

VARIABLES
    up,      \* up[d]: d has configured its arrays
    latest,  \* latest[d][c]: the values of c that d has been sent
    due,     \* due[d]: the channels with something to copy
    copied   \* copied[d][p]: the value last copied for p

vars == <<up, latest, due, copied>>

\* An array once the items of a response are in it, one after the other.
Merged(d, c, array, items) ==
    FoldLeft(LAMBDA a, it : Keep(d, c, a, it), array, items)

\* While d starts, what it is sent may be kept, dropped or wiped.
Configure(d) ==
    /\ ~up[d]
    /\ up' \in {up, [up EXCEPT ![d] = TRUE]}
    /\ \A e \in Dests \ {d} : latest'[e] = latest[e] /\ due'[e] = due[e]
    /\ UNCHANGED copied

Respond(d, c, items) ==
    /\ latest' = [latest EXCEPT ![d][c] = Merged(d, c, @, items)]
    /\ due' = [due EXCEPT ![d] = @ \cup {c}]
    /\ UNCHANGED <<up, copied>>

Copy(d, c) ==
    /\ up[d]
    /\ c \in due[d]
    /\ copied' = [copied EXCEPT ![d] = [p \in Feeds[d] |->
                    IF Channel(p) = c THEN Shown(d, p, latest[d][c]) ELSE @[p]]]
    /\ due' = [due EXCEPT ![d] = @ \ {c}]
    /\ UNCHANGED <<up, latest>>

Init == /\ up = [d \in Dests |-> FALSE]
        /\ due = [d \in Dests |-> {}]

Next == \E d \in Dests :
            \/ Configure(d)
            \/ \E c \in Channels :
                   \/ Copy(d, c)
                   \/ up[d] /\ \E items \in Batches : Respond(d, c, items)

Spec == Init /\ [][Next]_vars
===============================================================================
