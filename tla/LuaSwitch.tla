------------------------------- MODULE LuaSwitch -------------------------------
(***************************************************************************)
(* The dnp3 generator lets its user change, while it runs, the Lua script  *)
(* that every station executes.  The main thread reads lines from a named  *)
(* pipe; a line that is some station's luaKeySwitch goes into the shared   *)
(* ThreadSafeUserInput object, a counter and a map of the latest keys.     *)
(* Every station thread polls the counter, looks up the keys it has not    *)
(* seen yet, and moves to its next Lua file at each one that is its own.   *)
(*                                                                         *)
(* readCount, readInputStr and unconditionalWriter each hold _accessMutex  *)
(* for their whole body, so each is one step; a station's poll and its     *)
(* lookup are two, and the main thread may write in between.               *)
(***************************************************************************)
EXTENDS Integers, Sequences, FiniteSets

CONSTANTS
    Stations,     \* the station threads that run a Lua script
    Trigger,      \* Trigger[s]: the luaKeySwitch of s, or NoKey
    NumFiles,     \* NumFiles[s]: the size of luaFileNames of s
    NoKey,        \* the empty luaKeySwitch: s never switches
    ExitStr,      \* the line that ends the program ("x")
    OtherInput,   \* any other line, and the empty string at end of file
    luaTriggers,  \* the keys of all nodes, with a script or without
    Limit,        \* the cache limit, 10 in the code
    MaxPresses,   \* bound: triggers entered in one behaviour
    PipeMayVanish \* whether the pipe file may be removed while we run

Lines == luaTriggers \cup {ExitStr, OtherInput}

ASSUME NumFilesAssumption == NumFiles \in [Stations -> Nat \ {0}]
ASSUME LimitAssumption == Limit \in Nat \ {0}
ASSUME BoundAssumption == MaxPresses \in Nat
ASSUME PipeAssumption == PipeMayVanish \in BOOLEAN
ASSUME TriggerAssumption ==
    /\ \A s \in Stations : Trigger[s] \in luaTriggers \cup {NoKey}
    /\ luaTriggers \cap {NoKey, OtherInput} = {}
    /\ ExitStr # OtherInput

VARIABLES
    currentCount, \* ThreadSafeUserInput::currentCount
    keyPresses,   \* ThreadSafeUserInput::keyPresses, a partial map of Nat
    quitFlag,     \* main's std::atomic<bool>
    mainPc,       \* where the main thread is in its loop
    pipeOpen,     \* pipe.is_open()
    pipeThere,    \* the pipe file still exists
    usrInput,     \* usr_input
    pc,           \* pc[s]: where the thread of s is in its loop
    local,        \* localLuaFlag of s
    file,         \* currentLuaFileIndex of s
    aborted,      \* an exception left a thread function: std::terminate
    pressed       \* history: every key written, in order

shared == <<currentCount, keyPresses, pressed>>
mainVars == <<quitFlag, mainPc, pipeOpen, pipeThere, usrInput>>
stationVars == <<pc, local, file>>
vars == <<shared, mainVars, stationVars, aborted>>

Init == /\ currentCount = 0
        /\ keyPresses = [k \in {} |-> OtherInput]
        /\ pressed = <<>>
        /\ quitFlag = FALSE
        /\ mainPc = "opening"
        /\ pipeOpen = FALSE
        /\ pipeThere = TRUE
        /\ usrInput = OtherInput
        /\ pc = [s \in Stations |-> "top"]
        /\ local = [s \in Stations |-> 0]
        /\ file = [s \in Stations |-> 0]
        /\ aborted = FALSE

-------------------------------------------------------------------------------
(* ThreadSafeUserInput *)

\* Mutant: the index of the key to drop is taken one too low.
OldestOffByOne == currentCount - Limit

\* The key that unconditionalWriter drops before it stores the next one.
Oldest == currentCount + 1 - Limit

\* Mutant: a full cache is emptied rather than relieved of one key.
EvictedAll == IF Cardinality(DOMAIN keyPresses) > Limit THEN DOMAIN keyPresses ELSE {}

Evicted == IF /\ Cardinality(DOMAIN keyPresses) > Limit
              /\ Oldest \in DOMAIN keyPresses
           THEN {Oldest}
           ELSE {}

unconditionalWriter(key) ==
    /\ currentCount' = currentCount + 1
    /\ keyPresses' = [k \in (DOMAIN keyPresses \ Evicted) \cup {currentCount + 1} |->
                        IF k = currentCount + 1 THEN key ELSE keyPresses[k]]
    /\ pressed' = Append(pressed, key)

-------------------------------------------------------------------------------
(* The main thread: open the pipe, read a line, act on it *)

\* pipe.open blocks until the user opens the other end; it fails at once when
\* the file is gone, and then getline leaves usr_input as it was.
OpenPipe ==
    /\ mainPc = "opening"
    /\ pipeOpen' = pipeThere
    /\ mainPc' = IF pipeThere THEN "reading" ELSE "dispatch"
    /\ UNCHANGED <<quitFlag, pipeThere, usrInput, shared, stationVars, aborted>>

\* What else the user has written stays in the pipe, and is lost at close.
ReadLine ==
    /\ mainPc = "reading"
    /\ usrInput' \in Lines
    /\ mainPc' = "dispatch"
    /\ UNCHANGED <<quitFlag, pipeOpen, pipeThere, shared, stationVars, aborted>>

Quit ==
    /\ mainPc = "dispatch"
    /\ usrInput = ExitStr
    /\ quitFlag' = TRUE
    /\ mainPc' = "joining"
    /\ UNCHANGED <<pipeOpen, pipeThere, usrInput, shared, stationVars, aborted>>

Press ==
    /\ mainPc = "dispatch"
    /\ usrInput # ExitStr
    /\ usrInput \in luaTriggers
    /\ currentCount < MaxPresses
    /\ unconditionalWriter(usrInput)
    /\ pipeOpen' = FALSE
    /\ mainPc' = "opening"
    /\ UNCHANGED <<quitFlag, pipeThere, usrInput, stationVars, aborted>>

IgnoreLine ==
    /\ mainPc = "dispatch"
    /\ usrInput # ExitStr
    /\ usrInput \notin luaTriggers
    /\ pipeOpen' = FALSE
    /\ mainPc' = "opening"
    /\ UNCHANGED <<quitFlag, pipeThere, usrInput, shared, stationVars, aborted>>

JoinThreads ==
    /\ mainPc = "joining"
    /\ \A s \in Stations : pc[s] = "done"
    /\ mainPc' = "exited"
    /\ UNCHANGED <<quitFlag, pipeOpen, pipeThere, usrInput, shared, stationVars, aborted>>

\* Someone removes the pipe file (the start-up message asks the user to, when
\* an earlier run left it behind).
PipeVanishes ==
    /\ PipeMayVanish
    /\ pipeThere
    /\ pipeThere' = FALSE
    /\ UNCHANGED <<quitFlag, mainPc, pipeOpen, usrInput, shared, stationVars, aborted>>

-------------------------------------------------------------------------------
(* A station thread *)

Goto(s, label) == pc' = [pc EXCEPT ![s] = label]

\* Mutant: the outer loop never looks at quitFlag again.
TopIgnoresQuit(s) ==
    /\ pc[s] = "top"
    /\ Goto(s, "poll")
    /\ UNCHANGED <<local, file, shared, mainVars, aborted>>

\* while (!quitFlag)
Top(s) ==
    /\ pc[s] = "top"
    /\ Goto(s, IF quitFlag THEN "done" ELSE "poll")
    /\ UNCHANGED <<local, file, shared, mainVars, aborted>>

\* Mutant: the latest key is never new.
NewKeyOffByOne(s) == currentCount > local[s] + 1

NewKey(s) == currentCount > local[s]

\* Mutant: a station that lags goes straight to the latest key.
NextKeyLatest(s) == currentCount

NextKey(s) == local[s] + 1

\* while (readCount() > localLuaFlag) localLuaFlag += 1; when nothing is new,
\* script number file[s] is invoked and the thread sleeps.
Poll(s) ==
    /\ pc[s] = "poll"
    /\ IF NewKey(s)
       THEN /\ local' = [local EXCEPT ![s] = NextKey(s)]
            /\ Goto(s, IF Trigger[s] # NoKey THEN "lookup" ELSE "poll")
       ELSE /\ Goto(s, "top")
            /\ UNCHANGED local
    /\ UNCHANGED <<file, shared, mainVars, aborted>>

\* Mutant: one index past the last file.
GetNextLuaFilePastEnd(s) ==
    file' = [file EXCEPT ![s] = IF @ < NumFiles[s] THEN @ + 1 ELSE 0]

GetNextLuaFile(s) ==
    file' = [file EXCEPT ![s] = IF @ < NumFiles[s] - 1 THEN @ + 1 ELSE 0]

\* Mutant: the latest key is compared, not the one the station has reached.
KeyReadLatest(s) == keyPresses[currentCount]

KeyRead(s) == keyPresses[local[s]]

\* readInputStr(localLuaFlag) == luaKeySwitch, the key still being cached
Lookup(s) ==
    /\ pc[s] = "lookup"
    /\ local[s] \in DOMAIN keyPresses
    /\ IF KeyRead(s) = Trigger[s]
       THEN GetNextLuaFile(s)
       ELSE UNCHANGED file
    /\ Goto(s, "poll")
    /\ UNCHANGED <<local, shared, mainVars, aborted>>

\* return '\0' from a function that returns std::string: a null pointer, from
\* which the std::string constructor throws; nothing catches it.
LookupMiss(s) ==
    /\ pc[s] = "lookup"
    /\ local[s] \notin DOMAIN keyPresses
    /\ aborted' = TRUE
    /\ UNCHANGED <<stationVars, shared, mainVars>>

-------------------------------------------------------------------------------
Main == OpenPipe \/ ReadLine \/ Quit \/ Press \/ IgnoreLine \/ JoinThreads

Station(s) == Top(s) \/ Poll(s) \/ Lookup(s) \/ LookupMiss(s)

\* The process is over: main has returned, or std::terminate has run.
Over == mainPc = "exited" \/ aborted

Running == /\ ~Over
           /\ \/ Main
              \/ PipeVanishes
              \/ \E s \in Stations : Station(s)

Ended == Over /\ UNCHANGED vars

Next == Running \/ Ended

\* The operating system schedules every thread; the user owes nothing.
Fairness == /\ \A s \in Stations : WF_vars(~Over /\ Station(s))
            /\ WF_vars(~Over /\ JoinThreads)
            /\ WF_vars(~Over /\ Quit)

Spec == Init /\ [][Next]_vars
FairSpec == Spec /\ Fairness

-------------------------------------------------------------------------------
(* Properties *)

InputTypeOK ==
    /\ currentCount \in 0 .. MaxPresses
    /\ keyPresses \in [DOMAIN keyPresses -> luaTriggers]
    /\ DOMAIN keyPresses \subseteq 1 .. currentCount
    /\ pressed \in Seq(luaTriggers)
    /\ Len(pressed) = currentCount

MainTypeOK ==
    /\ quitFlag \in BOOLEAN
    /\ mainPc \in {"opening", "reading", "dispatch", "joining", "exited"}
    /\ pipeOpen \in BOOLEAN
    /\ pipeThere \in BOOLEAN
    /\ usrInput \in Lines

StationTypeOK ==
    /\ pc \in [Stations -> {"top", "poll", "lookup", "done"}]
    /\ local \in [Stations -> Nat]
    /\ \A s \in Stations : local[s] <= currentCount
    /\ \A s \in Stations : pc[s] = "lookup" => local[s] >= 1 /\ Trigger[s] # NoKey
    /\ file \in [Stations -> Nat]
    /\ \A s \in Stations : file[s] < NumFiles[s]
    /\ aborted \in BOOLEAN

\* Every variable keeps its type: the cache holds only keys that were pressed,
\* no station runs ahead of the counter or past the end of its luaFileNames.
TypeOK == InputTypeOK /\ MainTypeOK /\ StationTypeOK

\* The cache holds exactly the latest Limit keys and, for ever, the first one
\* (the eviction starts at key 2), each with what the user entered: one more
\* than "limit size of cached keys to 10" says (dnp3app.h:27).  A station that
\* lags by fewer than Limit keys never misses one.
CacheWindow ==
    /\ DOMAIN keyPresses = (1 .. currentCount) \ (2 .. currentCount - Limit)
    /\ \A k \in DOMAIN keyPresses : keyPresses[k] = pressed[k]

\* How many keys of pressed the station has dealt with.
Seen(s) == IF pc[s] = "lookup" THEN local[s] - 1 ELSE local[s]

OwnPresses(s, n) == {k \in 1 .. n : pressed[k] = Trigger[s]}

\* A station runs the file that the presses of its own trigger, among all those
\* it has dealt with, select: none is counted twice, none skipped, and those of
\* other stations do not move it.
SwitchFaithful ==
    \A s \in Stations : file[s] = Cardinality(OwnPresses(s, Seen(s))) % NumFiles[s]

\* The process aborts in readInputStr only when some station was Limit or more
\* presses behind at that moment.
AbortOnlyIfLagging ==
    aborted => \E s \in Stations : pc[s] = "lookup" /\ currentCount - local[s] >= Limit

\* A key that was entered is seen by every station, unless the program ends.
PressObserved ==
    \A n \in 1 .. MaxPresses : \A s \in Stations :
        currentCount >= n ~> (Seen(s) >= n \/ quitFlag \/ aborted)

\* "x" ends the program: every station thread leaves its loop and main joins
\* them all, whatever was being pressed before.
QuitEnds == quitFlag ~> Over

\* The cache and the polling implement a log that every station reads in order.
KL == INSTANCE KeyLog WITH log <- pressed, seen <- [s \in Stations |-> Seen(s)]
RefinesKeyLog == KL!Spec

\* dnp3app.cpp:149 "Error opening pipe! Will not be able to process user
\* input.": no key is processed while the pipe is not open.
NoPressWithoutPipe == [][pressed' # pressed => pipeOpen]_vars
===============================================================================
