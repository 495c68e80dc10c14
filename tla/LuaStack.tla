-------------------------------- MODULE LuaStack --------------------------------
(***************************************************************************)
(* Every station that runs a Lua script calls it over and over on one Lua  *)
(* state, and walks the tables it gets back with lua_next, which wants on  *)
(* the stack a key, or nil, above the table that key is of.  What a call   *)
(* leaves on the stack is there for ever.                                  *)
(*                                                                         *)
(* There are three such routines: an outstation reads up to three tables   *)
(* of values out of data, a mapping outstation reads one table of values   *)
(* for each kind of point, and a master reads a table of commands, each a  *)
(* table itself.  A step is what lies between two calls of lua_next or     *)
(* lua_gettable.                                                           *)
(***************************************************************************)
EXTENDS Naturals, Sequences

CONSTANTS
    Roles,      \* the routines to consider, of those below
    MaxEntries, \* bound: the entries of a table
    MaxStack    \* the slots a Lua state can have, a million in the library

Outstation == "outstation"
Mapping == "mapping"
Master == "master"

ASSUME RoleAssumption == Roles \subseteq {Outstation, Mapping, Master}
ASSUME BoundAssumption == MaxEntries \in Nat /\ MaxStack \in Nat

\* The tables in data, in the order an outstation asks for them.
AnalogInput == 1
CounterInput == 2
BinaryInput == 3
Kinds == {AnalogInput, CounterInput, BinaryInput}

\* The slots: the result of a call, the global data, the table of a kind and a
\* command, a key of each of these, the name of a kind, and any other value.
Tables == {"data", "table", "command"}
KeyOf == [data |-> "dataKey", table |-> "tableKey", command |-> "commandKey"]
Slots == Tables \cup {KeyOf[t] : t \in Tables} \cup {"ret", "nil", "name", "value"}

VARIABLES
    role,       \* which routine the station runs
    configured, \* the kinds that dpTypeIndexMap has
    pc,         \* what the routine does next
    kind,       \* the kind of the table being read
    entries,    \* the entries of data lua_next has yet to give
    inside,     \* the entries of the table or the command, likewise
    stack       \* the stack of the Lua state, its top last

vars == <<role, configured, pc, kind, entries, inside, stack>>

Counts == 0..MaxEntries

Init == /\ role \in Roles
        /\ configured \in SUBSET Kinds
        /\ pc = "idle"
        /\ kind = AnalogInput
        /\ entries = 0
        /\ inside = 0
        /\ stack = <<>>

Popped(s, n) == SubSeq(s, 1, Len(s) - n)

\* lua_pop(L, lua_gettop(L))
Emptied == <<>>

-------------------------------------------------------------------------------
(* The call, and the look into data that tells whether it holds anything *)

\* The function and its argument, if any, give way to one result.
Invoke ==
    /\ pc = "idle"
    /\ Len(stack) <= MaxStack
    /\ kind' \in IF role = Mapping THEN Kinds ELSE {AnalogInput}
    /\ entries' \in Counts
    /\ stack' = stack \o <<"ret", "data", "nil">>
    /\ pc' = "probe"
    /\ UNCHANGED <<role, configured, inside>>

\* An outstation and a mapping outstation empty the stack; a master returns.
ProbeNothing ==
    /\ pc = "probe"
    /\ entries = 0
    /\ stack' = IF role = Master THEN Popped(stack, 1) ELSE Emptied
    /\ pc' = "idle"
    /\ UNCHANGED <<role, configured, kind, entries, inside>>

ProbeOutstation ==
    /\ pc = "probe"
    /\ role = Outstation
    /\ entries > 0
    /\ stack' = Popped(stack, 1) \o <<"name">>
    /\ pc' = "gettable"
    /\ UNCHANGED <<role, configured, kind, entries, inside>>

ProbeMapping ==
    /\ pc = "probe"
    /\ role = Mapping
    /\ entries > 0
    /\ stack' = Popped(stack, 1) \o <<"nil">>
    /\ pc' = "values"
    /\ UNCHANGED <<role, configured, kind, entries, inside>>

\* The key and the value that were found stay, and data is fetched once more.
ProbeMaster ==
    /\ pc = "probe"
    /\ role = Master
    /\ entries > 0
    /\ stack' = Popped(stack, 1) \o <<"dataKey", "value", "data", "nil">>
    /\ pc' = "commands"
    /\ UNCHANGED <<role, configured, kind, entries, inside>>

\* The call finds no room, and Lua's error aborts the program.
Overflow ==
    /\ pc = "idle"
    /\ Len(stack) > MaxStack
    /\ pc' = "aborted"
    /\ UNCHANGED <<role, configured, kind, entries, inside, stack>>

-------------------------------------------------------------------------------
(* OutStation::LuaInvokeScript: one table after the other *)

\* Mutant: there is always a next kind.
NextTablePastEnd(s) ==
    /\ stack' = Popped(s, 1) \o <<"name">>
    /\ pc' = "gettable"
    /\ kind' = kind + 1

\* On to the next kind, or, after the last, to the end of the routine.
NextTable(s) ==
    IF kind = BinaryInput
    THEN /\ stack' = Emptied
         /\ pc' = "idle"
         /\ UNCHANGED kind
    ELSE /\ stack' = Popped(s, 1) \o <<"name">>
         /\ pc' = "gettable"
         /\ kind' = kind + 1

GetTable ==
    /\ pc = "gettable"
    /\ \/ /\ stack' = Popped(stack, 1) \o <<"table", "nil">>
          /\ pc' = "entries"
          /\ inside' \in Counts
          /\ UNCHANGED kind
       \/ /\ NextTable(Popped(stack, 1) \o <<"value">>)
          /\ UNCHANGED inside
    /\ UNCHANGED <<role, configured, entries>>

TableEnds ==
    /\ pc = "entries"
    /\ inside = 0
    /\ NextTable(Popped(stack, 1))
    /\ UNCHANGED <<role, configured, entries, inside>>

\* Mutant: the loop is left without taking the key off as well.
BreakPopsOne(s) == Popped(s, 1)

\* What the loop takes off before it breaks.
BreakPops(s) == Popped(s, 2)

\* The database is not set up for the kind: key and value go, and the loop ends.
TableUnwanted ==
    /\ pc = "entries"
    /\ inside > 0
    /\ kind \notin configured
    /\ NextTable(BreakPops(Popped(stack, 1) \o <<"tableKey", "value">>))
    /\ UNCHANGED <<role, configured, entries, inside>>

\* The value goes, into the builder or not, and the key stays for lua_next.
TableEntry ==
    /\ pc = "entries"
    /\ inside > 0
    /\ kind \in configured
    /\ inside' = inside - 1
    /\ stack' = Popped(Popped(stack, 1) \o <<"tableKey", "value">>, 1)
    /\ UNCHANGED <<role, configured, pc, kind, entries>>

-------------------------------------------------------------------------------
(* MappingOutstation::LuaInvoke...Script: one table, of the kind *)

\* The loop ends, or is left at once with key and value where they are; in both
\* cases the stack is emptied.
ValuesEnd ==
    /\ pc = "values"
    /\ entries = 0 \/ kind \notin configured
    /\ stack' = Emptied
    /\ pc' = "idle"
    /\ UNCHANGED <<role, configured, kind, entries, inside>>

ValuesEntry ==
    /\ pc = "values"
    /\ entries > 0
    /\ kind \in configured
    /\ entries' = entries - 1
    /\ stack' = Popped(Popped(stack, 1) \o <<"dataKey", "value">>, 1)
    /\ UNCHANGED <<role, configured, pc, kind, inside>>

-------------------------------------------------------------------------------
(* MasterStation::LuaInvokeScript: a table of commands *)

\* A command is an inner table: a copy of its key, one of it, and nil go on top.
Command ==
    /\ pc = "commands"
    /\ entries > 0
    /\ entries' = entries - 1
    /\ inside' \in Counts
    /\ stack' = Popped(stack, 1) \o <<"dataKey", "command", "dataKey", "command", "nil">>
    /\ pc' = "fields"
    /\ UNCHANGED <<role, configured, kind>>

\* Anything else is skipped, with the copy of its key.
NoCommand ==
    /\ pc = "commands"
    /\ entries > 0
    /\ entries' = entries - 1
    /\ stack' = Popped(Popped(stack, 1) \o <<"dataKey", "value", "dataKey">>, 2)
    /\ UNCHANGED <<role, configured, pc, kind, inside>>

\* A field: key, value and a copy of the key, of which the key stays.
Field ==
    /\ pc = "fields"
    /\ inside > 0
    /\ inside' = inside - 1
    /\ stack' = Popped(Popped(stack, 1) \o <<"commandKey", "value", "commandKey">>, 2)
    /\ UNCHANGED <<role, configured, pc, kind, entries>>

\* The inner table goes, then the value and the copy of the key.
CommandEnds ==
    /\ pc = "fields"
    /\ inside = 0
    /\ stack' = Popped(Popped(Popped(stack, 1), 1), 2)
    /\ pc' = "commands"
    /\ UNCHANGED <<role, configured, kind, entries, inside>>

CommandsEnd ==
    /\ pc = "commands"
    /\ entries = 0
    /\ stack' = Popped(Popped(stack, 1), 1)
    /\ pc' = "idle"
    /\ UNCHANGED <<role, configured, kind, entries, inside>>

-------------------------------------------------------------------------------
Next == \/ Invoke \/ Overflow
        \/ ProbeNothing \/ ProbeOutstation \/ ProbeMapping \/ ProbeMaster
        \/ GetTable \/ TableEnds \/ TableUnwanted \/ TableEntry
        \/ ValuesEnd \/ ValuesEntry
        \/ Command \/ NoCommand \/ Field \/ CommandEnds \/ CommandsEnd

Spec == Init /\ [][Next]_vars

-------------------------------------------------------------------------------
(* Properties *)

TypeOK ==
    /\ role \in Roles
    /\ configured \subseteq Kinds
    /\ pc \in {"idle", "probe", "gettable", "entries", "values", "commands", "fields", "aborted"}
    /\ kind \in Kinds
    /\ entries \in Counts
    /\ inside \in Counts
    /\ stack \in Seq(Slots)

Top == stack[Len(stack)]
Under == stack[Len(stack) - 1]

\* lua_next is given a table and a key of that very table, or nil, and
\* lua_gettable the name of a kind above data: with anything else Lua raises an
\* error that nothing catches, and the program aborts.  All the paths through
\* the loops must meet there (OutStation.cpp:69-92, MappingOutstation.cpp:277-300,
\* MasterStation.cpp:147-188).
WalksTables ==
    /\ pc \in {"probe", "entries", "values", "commands", "fields"} =>
          /\ Len(stack) >= 2
          /\ Under \in Tables
          /\ Top \in {"nil", KeyOf[Under]}
    /\ pc = "gettable" => Len(stack) >= 2 /\ Under = "data" /\ Top = "name"

\* When a master has walked its commands, says MasterStation.cpp:191, it has its
\* "stack empty again".
StackEmptyAgain == [][CommandsEnd => stack' = <<>>]_vars

===============================================================================
