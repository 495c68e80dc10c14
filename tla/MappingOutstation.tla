--------------------------- MODULE MappingOutstation ---------------------------
(***************************************************************************)
(* A mapping outstation multiplexes points that other outstations report.  *)
(* Master stations poll those; the callback of a master, run by a thread   *)
(* of the DNP3 stack, stores a response into the input array of each       *)
(* destination bound to the master and raises a flag.  The destination's   *)
(* own thread looks at its flags every few milliseconds, copies the arrays *)
(* behind them to its output points, and applies these to its DNP3         *)
(* database, through a Lua script if it has one.                           *)
(*                                                                         *)
(* A callback and a pass hold the destination's mutex throughout; its      *)
(* configuration, at the start of its thread, takes no lock.               *)
(***************************************************************************)
EXTENDS Naturals, SequencesExt

CONSTANTS
    Masters,   \* the source masters, numbered in the order of their names
    Dests,     \* the mapping outstations
    Bound,     \* Bound[m]: the destinations in the DestinationList of m
    Kinds,     \* the kinds of point that occur, of those below
    Points,    \* Points[d]: the MappedDataPoints of d
    Scripted,  \* the destinations with a Lua script
    Modify,    \* what the script makes of a value
    Index,     \* the indices of points
    Values, Times,
    Batches,   \* the responses, sequences of indexed values
    Garbage,   \* what is read behind the end of an array
    Free,      \* nobody holds a mutex
    Station    \* the thread of the destination holds it

Analog == 1
Binary == 2
Counter == 3

Point == [value : Values, time : Times]
Item == [index : Index, value : Values, time : Times]
MappedDataPoint == [source : Masters, kind : Kinds, input_index : Index, index : Index]
Zero == [value |-> 0, time |-> 0]

ASSUME SourceAssumption == Masters \subseteq Nat /\ Kinds \subseteq {Analog, Binary, Counter}
ASSUME DestAssumption == Bound \in [Masters -> SUBSET Dests] /\ Scripted \subseteq Dests
ASSUME IndexAssumption == Index \subseteq Nat
ASSUME ValueAssumption == 0 \in Values /\ 0 \in Times
ASSUME ScriptAssumption == Modify \in [Values -> Values]
ASSUME BatchAssumption == Batches \subseteq Seq(Item)
ASSUME HolderAssumption == Free # Station /\ {Free, Station} \cap Masters = {}
ASSUME GarbageAssumption == Garbage \notin Point
\* An output point is mapped once: two entries for it would take turns.
ASSUME PointAssumption ==
    /\ DOMAIN Points = Dests
    /\ \A d \in Dests :
          /\ Points[d] \subseteq MappedDataPoint
          /\ \A p, q \in Points[d] : p.kind = q.kind /\ p.index = q.index => p = q

Channels == Masters \X Kinds
Channel(p) == <<p.source, p.kind>>

\* The channels a pass of d looks at: every kind, of each of its data sources.
ChannelsOf(d) == {p.source : p \in Points[d]} \X Kinds

\* The order of a pass: sources by name, and analogs, binaries, counters of each.
Before(c, e) == c[1] < e[1] \/ (c[1] = e[1] /\ c[2] < e[2])

\* Mutant: an array as long as the largest index, one element too short.
HasSlotOffByOne(d, c, i) == \E p \in Points[d] : Channel(p) = c /\ i < p.index

\* The array of c at d has an element i: it is as long as the output indices
\* mapped from c need, whatever the input indices are.
HasSlot(d, c, i) == \E p \in Points[d] : Channel(p) = c /\ i <= p.index

VARIABLES
    linked,  \* the masters whose DestinationList is filled in
    kind,    \* kind[m]: the kind of data the callback of m has received
    batch,   \* batch[m]: the items of that response
    todo,    \* todo[m]: the destinations it has yet to store them at
    next,    \* next[m]: the next item to store at the current one
    holder,  \* holder[d]: who holds the mutex of d
    phase,   \* phase[d]: where the thread of d is
    in,      \* in[d][c]: the analogValues, binaryValues or counterValues of d
    flag,    \* flag[d]: the channels whose flag is set
    left,    \* left[d]: the channels the pass has yet to look at
    builder, \* builder[d]: the points collected by passThruDataChanges
    out,     \* out[d][p]: analogOutValues, binaryOutValues, counterOutValues
    db,      \* db[d][p]: the DNP3 database, as far as it is mapped
    missed,  \* history: channels whose flag the start of d threw away
    quitFlag

masterVars == <<linked, kind, batch, todo, next>>
destVars == <<left, builder, out, db>>
vars == <<masterVars, destVars, holder, phase, in, flag, missed, quitFlag>>

Phases == {"created", "resized", "zeroed", "idle", "ready", "pass", "done"}

Init == /\ linked = {}
        /\ kind \in [Masters -> Kinds]
        /\ batch = [m \in Masters |-> <<>>]
        /\ todo = [m \in Masters |-> {}]
        /\ next = [m \in Masters |-> 1]
        /\ holder = [d \in Dests |-> Free]
        /\ phase = [d \in Dests |-> "created"]
        /\ in = [d \in Dests |-> [c \in Channels |-> [i \in Index |-> Zero]]]
        /\ flag = [d \in Dests |-> {}]
        /\ left = [d \in Dests |-> {}]
        /\ builder = [d \in Dests |-> {}]
        /\ out = [d \in Dests |-> [p \in Points[d] |-> Zero]]
        /\ db = out
        /\ missed = [d \in Dests |-> {}]
        /\ quitFlag = FALSE

-------------------------------------------------------------------------------
(* The main thread *)

\* The threads of the masters and of the stations are running by then.
UpdateDestinations(m) ==
    /\ m \notin linked
    /\ linked' = linked \cup {m}
    /\ UNCHANGED <<kind, batch, todo, next, destVars, holder, phase, in, flag, missed, quitFlag>>

Quit == /\ ~quitFlag
        /\ quitFlag' = TRUE
        /\ UNCHANGED <<masterVars, destVars, holder, phase, in, flag, missed>>

-------------------------------------------------------------------------------
(* MappingSoeHandler: the callbacks of a master *)

Holds(m, d) == holder[d] = m

\* The channel that the callback of m is storing.
Current(m) == <<m, kind[m]>>

\* A response comes in.  With an empty DestinationList it changes nothing.
Receive(m) ==
    /\ m \in linked
    /\ todo[m] = {}
    /\ \A d \in Dests : ~Holds(m, d)
    /\ \E k \in Kinds, b \in Batches :
          /\ kind' = [kind EXCEPT ![m] = k]
          /\ batch' = [batch EXCEPT ![m] = b]
    /\ todo' = [todo EXCEPT ![m] = Bound[m]]
    /\ UNCHANGED <<linked, next, destVars, holder, phase, in, flag, missed, quitFlag>>

\* Mutant: the callback does not wait for the mutex.
Unlocked(d) == TRUE

Available(d) == holder[d] = Free

LockDest(m, d) ==
    /\ d \in todo[m]
    /\ \A e \in Dests : ~Holds(m, e)
    /\ Available(d)
    /\ holder' = [holder EXCEPT ![d] = m]
    /\ todo' = [todo EXCEPT ![m] = @ \ {d}]
    /\ UNCHANGED <<linked, kind, batch, next, destVars, phase, in, flag, missed, quitFlag>>

\* An array with one more item in it: one without a slot is dropped, and one
\* with the value that is there and no time leaves the time there as it is.
Stored(d, c, array, it) ==
    IF \/ ~HasSlot(d, c, it.index)
       \/ array[it.index].value = it.value /\ it.time = 0
    THEN array
    ELSE [array EXCEPT ![it.index] = [value |-> it.value, time |-> it.time]]

\* The arrays have no elements before their thread has resized them.
StoreItem(m, d) ==
    /\ Holds(m, d)
    /\ next[m] <= Len(batch[m])
    /\ in' = IF phase[d] = "created" THEN in
             ELSE [in EXCEPT ![d][Current(m)] =
                      Stored(d, Current(m), @, batch[m][next[m]])]
    /\ next' = [next EXCEPT ![m] = @ + 1]
    /\ UNCHANGED <<linked, kind, batch, todo, destVars, holder, phase, flag, missed, quitFlag>>

\* Mutant: the mutex is not released.
RaiseFlagKeepsLock(m, d) ==
    /\ Holds(m, d)
    /\ next[m] > Len(batch[m])
    /\ flag' = [flag EXCEPT ![d] = @ \cup {Current(m)}]
    /\ missed' = [missed EXCEPT ![d] = @ \ {Current(m)}]
    /\ UNCHANGED <<masterVars, destVars, holder, phase, in, quitFlag>>

\* The flag is raised, whatever has been stored, and the mutex released; after
\* the last destination the response is gone.
RaiseFlag(m, d) ==
    /\ Holds(m, d)
    /\ next[m] > Len(batch[m])
    /\ flag' = [flag EXCEPT ![d] = @ \cup {Current(m)}]
    /\ missed' = [missed EXCEPT ![d] = @ \ {Current(m)}]
    /\ holder' = [holder EXCEPT ![d] = Free]
    /\ batch' = IF todo[m] = {} THEN [batch EXCEPT ![m] = <<>>] ELSE batch
    /\ next' = [next EXCEPT ![m] = 1]
    /\ UNCHANGED <<linked, kind, todo, destVars, phase, in, quitFlag>>

-------------------------------------------------------------------------------
(* The thread of a mapping outstation: its start *)

Resize(d) ==
    /\ phase[d] = "created"
    /\ phase' = [phase EXCEPT ![d] = "resized"]
    /\ UNCHANGED <<masterVars, destVars, holder, in, flag, missed, quitFlag>>

\* Only analogs and binaries are set to zero once more, and no lock is held.
ZeroArrays(d) ==
    /\ phase[d] = "resized"
    /\ in' = [in EXCEPT ![d] = [c \in Channels |->
                IF c[2] # Counter /\ c \in ChannelsOf(d) THEN [i \in Index |-> Zero] ELSE @[c]]]
    /\ phase' = [phase EXCEPT ![d] = "zeroed"]
    /\ UNCHANGED <<masterVars, destVars, holder, flag, missed, quitFlag>>

ResetFlags(d) ==
    /\ phase[d] = "zeroed"
    /\ flag' = [flag EXCEPT ![d] = @ \ ChannelsOf(d)]
    /\ missed' = [missed EXCEPT ![d] = flag[d] \cap ChannelsOf(d)]
    /\ phase' = [phase EXCEPT ![d] = "idle"]
    /\ UNCHANGED <<masterVars, destVars, holder, in, quitFlag>>

-------------------------------------------------------------------------------
(* Its loop: passThruDataChanges, or injectDataChanges with a script *)

\* Mutant: the loop does not look at quitFlag.
GoRoundAfterQuit(d) ==
    /\ phase[d] = "idle"
    /\ phase' = [phase EXCEPT ![d] = "ready"]
    /\ UNCHANGED <<masterVars, destVars, holder, in, flag, missed, quitFlag>>

\* The test of quitFlag.  The thread then sleeps, looks for keys that have been
\* pressed (see LuaSwitch), and goes for the mutex, whatever becomes of quitFlag.
GoRound(d) ==
    /\ phase[d] = "idle"
    /\ ~quitFlag
    /\ phase' = [phase EXCEPT ![d] = "ready"]
    /\ UNCHANGED <<masterVars, destVars, holder, in, flag, missed, quitFlag>>

\* Mutant: a pass does not take the mutex.
BeginPassUnlocked(d) ==
    /\ phase[d] = "ready"
    /\ phase' = [phase EXCEPT ![d] = "pass"]
    /\ left' = [left EXCEPT ![d] = ChannelsOf(d)]
    /\ UNCHANGED <<masterVars, builder, out, db, holder, in, flag, missed, quitFlag>>

BeginPass(d) ==
    /\ phase[d] = "ready"
    /\ holder[d] = Free
    /\ holder' = [holder EXCEPT ![d] = Station]
    /\ phase' = [phase EXCEPT ![d] = "pass"]
    /\ left' = [left EXCEPT ![d] = ChannelsOf(d)]
    /\ UNCHANGED <<masterVars, builder, out, db, in, flag, missed, quitFlag>>

Turn(d, c) == /\ phase[d] = "pass"
              /\ c \in left[d]
              /\ \A e \in left[d] \ {c} : Before(c, e)

\* What a mapped point takes from an input array: its length is not looked at.
Element(d, p, array) ==
    IF HasSlot(d, Channel(p), p.input_index) THEN array[p.input_index] ELSE Garbage

Input(d, p) == Element(d, p, in[d][Channel(p)])

\* Mutant: the counters of a source are left out.
CopiedNoCounters(d, c) ==
    [p \in Points[d] |-> IF Channel(p) = c /\ c[2] # Counter THEN Input(d, p) ELSE out[d][p]]

\* Mutant: the input array is read at the output index.
CopiedByIndex(d, c) ==
    [p \in Points[d] |-> IF Channel(p) = c THEN in[d][c][p.index] ELSE out[d][p]]

\* The output points once those of channel c are copied.
Copied(d, c) == [p \in Points[d] |-> IF Channel(p) = c THEN Input(d, p) ELSE out[d][p]]

\* What the database is given for an output point.
View(d, x) == IF d \in Scripted /\ x # Garbage THEN [x EXCEPT !.value = Modify[@]] ELSE x

\* Mutant: the script runs before the new inputs are copied.
InjectedStale(d, k, points) ==
    [p \in Points[d] |-> IF p.kind = k THEN View(d, out[d][p]) ELSE db[d][p]]

\* The database once the script has seen all output points of kind k.
Injected(d, k, points) == [p \in Points[d] |-> IF p.kind = k THEN View(d, points[p]) ELSE db[d][p]]

VisitFlagged(d, c) ==
    /\ Turn(d, c)
    /\ c \in flag[d]
    /\ flag' = [flag EXCEPT ![d] = @ \ {c}]
    /\ out' = [out EXCEPT ![d] = Copied(d, c)]
    /\ IF d \in Scripted
       THEN /\ db' = [db EXCEPT ![d] = Injected(d, c[2], Copied(d, c))]
            /\ UNCHANGED builder
       ELSE /\ builder' = [builder EXCEPT ![d] = @ \cup {p \in Points[d] : Channel(p) = c}]
            /\ UNCHANGED db
    /\ left' = [left EXCEPT ![d] = @ \ {c}]
    /\ UNCHANGED <<masterVars, holder, phase, in, missed, quitFlag>>

\* The counter script runs in every pass, once per source.
VisitUnflagged(d, c) ==
    /\ Turn(d, c)
    /\ c \notin flag[d]
    /\ db' = IF d \in Scripted /\ c[2] = Counter
             THEN [db EXCEPT ![d] = Injected(d, Counter, out[d])]
             ELSE db
    /\ left' = [left EXCEPT ![d] = @ \ {c}]
    /\ UNCHANGED <<masterVars, builder, out, holder, phase, in, flag, missed, quitFlag>>

\* passThruDataChanges applies what it has collected, and the mutex is released.
EndPass(d) ==
    /\ phase[d] = "pass"
    /\ left[d] = {}
    /\ db' = [db EXCEPT ![d] = [p \in Points[d] |-> IF p \in builder[d] THEN out[d][p] ELSE @[p]]]
    /\ holder' = [holder EXCEPT ![d] = Free]
    /\ phase' = [phase EXCEPT ![d] = "idle"]
    /\ builder' = [builder EXCEPT ![d] = {}]
    /\ UNCHANGED <<masterVars, left, out, in, flag, missed, quitFlag>>

Stop(d) ==
    /\ phase[d] = "idle"
    /\ quitFlag
    /\ phase' = [phase EXCEPT ![d] = "done"]
    /\ UNCHANGED <<masterVars, destVars, holder, in, flag, missed, quitFlag>>

-------------------------------------------------------------------------------
Callback(m, d) == LockDest(m, d) \/ StoreItem(m, d) \/ RaiseFlag(m, d)

Run(d) == \/ Resize(d) \/ ZeroArrays(d) \/ ResetFlags(d)
          \/ GoRound(d) \/ EndPass(d) \/ Stop(d)
          \/ \E c \in ChannelsOf(d) : VisitFlagged(d, c) \/ VisitUnflagged(d, c)

Next == \/ Quit
        \/ \E m \in Masters : UpdateDestinations(m) \/ Receive(m)
        \/ \E m \in Masters, d \in Dests : Callback(m, d)
        \/ \E d \in Dests : Run(d) \/ BeginPass(d)

Spec == Init /\ [][Next]_vars

\* Every thread goes on.  A station sleeps for milliseconds between two tries of
\* the mutex, a master for seconds between two responses: neither is shut out
\* for ever by holders who each let go.
FairSpec ==
    /\ Spec
    /\ \A m \in Masters : WF_vars(UpdateDestinations(m))
    /\ \A m \in Masters, d \in Dests :
          /\ SF_vars(LockDest(m, d))
          /\ WF_vars(StoreItem(m, d))
          /\ WF_vars(RaiseFlag(m, d))
    /\ \A d \in Dests : WF_vars(Run(d)) /\ SF_vars(BeginPass(d))

-------------------------------------------------------------------------------
(* Properties *)

\* The variables have their types, and the mutex of a destination is held by
\* its own thread in a pass and at no other time.
TypeOK ==
    /\ linked \subseteq Masters
    /\ kind \in [Masters -> Kinds]
    /\ batch \in [Masters -> Seq(Item)]
    /\ todo \in [Masters -> SUBSET Dests]
    /\ next \in [Masters -> Nat \ {0}]
    /\ holder \in [Dests -> Masters \cup {Free, Station}]
    /\ phase \in [Dests -> Phases]
    /\ in \in [Dests -> [Channels -> [Index -> Point]]]
    /\ flag \in [Dests -> SUBSET Channels]
    /\ left \in [Dests -> SUBSET Channels]
    /\ DOMAIN builder = Dests /\ DOMAIN out = Dests /\ DOMAIN db = Dests
    /\ \A d \in Dests :
          /\ builder[d] \subseteq Points[d]
          /\ out[d] \in [Points[d] -> Point \cup {Garbage}]
          /\ db[d] \in [Points[d] -> Point \cup {Garbage}]
          /\ holder[d] = Station <=> phase[d] = "pass"
    /\ missed \in [Dests -> SUBSET Channels]
    /\ quitFlag \in BOOLEAN

Serving(m, d, c) == Holds(m, d) /\ Current(m) = c

\* Nobody is at work on channel c of d, and nothing of it was lost at the start.
Settled(d, c) == /\ phase[d] # "pass"
                 /\ c \notin flag[d] \cup missed[d]
                 /\ \A m \in Masters : ~Serving(m, d, c)

\* The database has x for a point, or, before any pass came to it, both are zero.
Shows(d, p, x) == db[d][p] = View(d, x) \/ (db[d][p] = Zero /\ x = Zero)

\* No update is lost: whenever a channel is not flagged, not being stored and
\* no pass is under way, the DNP3 database has, for each point mapped from it,
\* what the input array has (MappingOutstation.cpp:160-244 against
\* MappingSoeHandler.cpp:71-164).  The flags thrown away at the start
\* (MappingOutstation.cpp:38-43) are the one exception, until the next response.
Published ==
    \A d \in Dests : \A p \in Points[d] :
        Settled(d, Channel(p)) /\ HasSlot(d, Channel(p), p.input_index)
            => Shows(d, p, Input(d, p))

\* What the callback at work on channel c of d, if there is one, has yet to store.
Unsent(d, c) ==
    IF \E m \in Masters : Serving(m, d, c)
    THEN SubSeq(batch[c[1]], next[c[1]], Len(batch[c[1]]))
    ELSE <<>>

\* The variables of PointMirror.  A whole response is taken to arrive when its
\* callback gets the mutex.
Up == [d \in Dests |-> phase[d] \notin {"created", "resized", "zeroed"}]
Latest == [d \in Dests |-> [c \in Channels |->
              FoldLeft(LAMBDA a, it : Stored(d, c, a, it), in[d][c], Unsent(d, c))]]
Due == [d \in Dests |-> flag[d] \cup {c \in Channels : \E m \in Masters : Serving(m, d, c)}]

Promise == INSTANCE PointMirror WITH
    up <- Up, latest <- Latest, due <- Due, copied <- out,
    Feeds <- Points, Keep <- Stored, Shown <- Element

\* A response takes effect at a destination as a whole or not yet: no pass sees
\* half of it, and no copy is made from an array in the middle of being stored,
\* whatever the threads of the stack and the destination's own do meanwhile
\* (std::lock_guard at MappingSoeHandler.cpp:96, MappingOutstation.cpp:161, 205).
RefinesPointMirror == Promise!Spec

\* A database point has a value that some response could have brought, not what
\* lies behind the array that ConfigureInputMultiplexingArrays allocated
\* (MappingOutstation.cpp:136 sizes it by Index, :173 reads it at InputIndex).
NoGarbage == \A d \in Dests : \A p \in Points[d] : db[d][p] # Garbage

\* What a response brings gets into the database: a flagged channel of a
\* running destination comes to a state where the database has, for all of its
\* points at once, what the array has, unless the program is told to stop.
EventuallyPublished ==
    \A d \in Dests : \A c \in ChannelsOf(d) :
        (c \in flag[d] /\ phase[d] \in {"idle", "ready", "pass"}) ~>
            \/ quitFlag
            \/ \A p \in Points[d] : Channel(p) = c => Shows(d, p, Input(d, p))

\* A callback, which takes the mutexes of its destinations one after the other,
\* gets through all of them and lets the last one go (MappingSoeHandler.cpp:73-99).
CallbackReturns ==
    \A m \in Masters :
        (todo[m] # {}) ~> (todo[m] = {} /\ \A d \in Dests : ~Holds(m, d))

\* A station stops once it is told to, also when it has just looked whether it
\* is and must get the mutex for one more pass (MappingOutstation.cpp:107-108).
QuitStops == \A d \in Dests : quitFlag ~> (phase[d] = "done")

===============================================================================
