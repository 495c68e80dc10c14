-------------------------------- MODULE KeyLog --------------------------------
(***************************************************************************)
(* What the Lua switch of the dnp3 generator promises, without its cache:  *)
(* every trigger the user enters is appended to a log, and every station   *)
(* reads the whole log, in order, one entry at a time.  An entry that is   *)
(* the station's own trigger moves it to the next of its Lua files.        *)
(***************************************************************************)
EXTENDS Naturals, Sequences

CONSTANTS
    Stations,   \* the station threads that run a Lua script
    Trigger,    \* Trigger[s]: the luaKeySwitch of s, if it has one
    NumFiles,   \* NumFiles[s]: how many Lua files s cycles through
    luaTriggers \* the keys of all nodes

VARIABLES
    log,    \* every trigger entered so far
    seen,   \* seen[s]: how many entries of log s has dealt with
    file    \* file[s]: the index of the Lua file s runs

vars == <<log, seen, file>>

Init == /\ log = <<>>
        /\ seen = [s \in Stations |-> 0]
        /\ file = [s \in Stations |-> 0]

Press(k) == /\ log' = Append(log, k)
            /\ UNCHANGED <<seen, file>>

NextFile(s) == (file[s] + 1) % NumFiles[s]

Observe(s) ==
    /\ seen[s] < Len(log)
    /\ seen' = [seen EXCEPT ![s] = @ + 1]
    /\ file' = IF log[seen[s] + 1] = Trigger[s]
               THEN [file EXCEPT ![s] = NextFile(s)]
               ELSE file
    /\ UNCHANGED log

Next == \/ \E k \in luaTriggers : Press(k)
        \/ \E s \in Stations : Observe(s)

Spec == Init /\ [][Next]_vars
===============================================================================
