---------------------------- MODULE LuaSwitch_proofs ----------------------------
(***************************************************************************)
(* Proofs about LuaSwitch, for every set of stations, every cache limit    *)
(* and every bound on the presses.                                         *)
(***************************************************************************)
EXTENDS LuaSwitch, FiniteSetTheorems, TLAPS

USE NumFilesAssumption, LimitAssumption, BoundAssumption, PipeAssumption

LEMMA InitTypes == Init => TypeOK
<1> SUFFICES ASSUME Init
             PROVE  TypeOK
  OBVIOUS
<1>1. InputTypeOK
  BY DEF Init, InputTypeOK
<1>2. MainTypeOK
  BY DEF Init, MainTypeOK, Lines
<1>3. StationTypeOK
  <2>1. /\ pc \in [Stations -> {"top", "poll", "lookup", "done"}]
        /\ local \in [Stations -> Nat]
        /\ file \in [Stations -> Nat]
        /\ aborted \in BOOLEAN
    BY DEF Init
  <2>2. ASSUME NEW s \in Stations
        PROVE  /\ local[s] <= currentCount
               /\ pc[s] # "lookup"
               /\ file[s] < NumFiles[s]
    BY DEF Init
  <2>3. QED
    BY <2>1, <2>2 DEF StationTypeOK
<1>4. QED
  BY <1>1, <1>2, <1>3 DEF TypeOK

\* The writer appends to the history and stores the same key in the cache.
LEMMA WriterTypes ==
  ASSUME InputTypeOK, NEW key \in luaTriggers, currentCount < MaxPresses,
         unconditionalWriter(key)
  PROVE  InputTypeOK'
<1> USE DEF InputTypeOK, unconditionalWriter
<1>1. currentCount' \in 0 .. MaxPresses
  OBVIOUS
<1>2. /\ keyPresses' \in [DOMAIN keyPresses' -> luaTriggers]
      /\ DOMAIN keyPresses' \subseteq 1 .. currentCount'
  OBVIOUS
<1>3. pressed' \in Seq(luaTriggers) /\ Len(pressed') = currentCount'
  OBVIOUS
<1>4. QED
  BY <1>1, <1>2, <1>3

LEMMA NextTypes == TypeOK /\ [Next]_vars => TypeOK'
<1> SUFFICES ASSUME InputTypeOK, MainTypeOK, StationTypeOK, [Next]_vars
             PROVE  InputTypeOK' /\ MainTypeOK' /\ StationTypeOK'
  BY DEF TypeOK
<1> USE DEF InputTypeOK, MainTypeOK, StationTypeOK, shared, mainVars, stationVars
<1>1. CASE OpenPipe
  BY <1>1 DEF OpenPipe
<1>2. CASE ReadLine
  BY <1>2 DEF ReadLine
<1>3. CASE Quit
  BY <1>3 DEF Quit
<1>4. CASE Press
  <2>1. InputTypeOK'
    BY <1>4, WriterTypes DEF Press
  <2>2. MainTypeOK'
    BY <1>4 DEF Press
  <2>3. StationTypeOK'
    BY <1>4 DEF Press, unconditionalWriter
  <2>4. QED
    BY <2>1, <2>2, <2>3
<1>5. CASE IgnoreLine
  BY <1>5 DEF IgnoreLine
<1>6. CASE JoinThreads
  BY <1>6 DEF JoinThreads
<1>7. CASE PipeVanishes
  BY <1>7 DEF PipeVanishes
<1>8. ASSUME NEW s \in Stations, Station(s)
      PROVE  InputTypeOK' /\ MainTypeOK' /\ StationTypeOK'
  <2>1. CASE Top(s)
    BY <2>1 DEF Top, Goto
  <2>2. CASE Poll(s)
    <3>1. InputTypeOK' /\ MainTypeOK'
      BY <2>2 DEF Poll, NewKey, NextKey
    <3>2. CASE currentCount > local[s]
      <4>1. local' = [local EXCEPT ![s] = @ + 1]
        BY <2>2, <3>2 DEF Poll, NewKey, NextKey
      <4>2. pc' = [pc EXCEPT ![s] = IF Trigger[s] # NoKey THEN "lookup" ELSE "poll"]
        BY <2>2, <3>2 DEF Poll, NewKey, NextKey, Goto
      <4>3. pc' \in [Stations -> {"top", "poll", "lookup", "done"}]
        BY <4>2
      <4>4. /\ local' \in [Stations -> Nat]
            /\ \A t \in Stations : local'[t] <= currentCount /\ local'[t] >= local[t]
            /\ local'[s] >= 1
        BY <4>1, <3>2
      <4>5. ASSUME NEW t \in Stations, pc'[t] = "lookup"
            PROVE  local'[t] >= 1 /\ Trigger[t] # NoKey
        <5>1. CASE t = s
          BY <4>2, <4>4, <4>5, <5>1
        <5>2. CASE t # s
          BY <4>1, <4>2, <4>5, <5>2
        <5>3. QED
          BY <5>1, <5>2
      <4>6. QED
        BY <2>2, <3>1, <4>3, <4>4, <4>5 DEF Poll, NewKey, NextKey
    <3>3. CASE ~(currentCount > local[s])
      BY <2>2, <3>3 DEF Poll, NewKey, NextKey, Goto
    <3>4. QED
      BY <3>1, <3>2, <3>3
  <2>3. CASE Lookup(s)
    <3>1. InputTypeOK' /\ MainTypeOK'
      BY <2>3 DEF Lookup
    <3>2. CASE GetNextLuaFile(s)
      <4>1. file' \in [Stations -> Nat]
        BY <3>2 DEF GetNextLuaFile
      <4>2. \A t \in Stations : file'[t] < NumFiles[t]
        BY <3>2 DEF GetNextLuaFile
      <4>3. QED
        BY <2>3, <3>1, <4>1, <4>2 DEF Lookup, Goto
    <3>3. CASE UNCHANGED file
      BY <2>3, <3>1, <3>3 DEF Lookup, Goto
    <3>4. QED
      BY <2>3, <3>2, <3>3 DEF Lookup
  <2>4. CASE LookupMiss(s)
    BY <2>4 DEF LookupMiss
  <2>5. QED
    BY <1>8, <2>1, <2>2, <2>3, <2>4 DEF Station
<1>9. CASE UNCHANGED vars
  BY <1>9 DEF vars
<1>10. QED
  BY <1>1, <1>2, <1>3, <1>4, <1>5, <1>6, <1>7, <1>8, <1>9
     DEF Next, Running, Ended, Main

\* Every behaviour of the switch keeps its types: the poll loop never runs past
\* the shared counter and the file index stays within luaFileNames.
THEOREM Typing == Spec => []TypeOK
<1>1. QED
  BY InitTypes, NextTypes, PTL DEF Spec
-------------------------------------------------------------------------------
(* The cache *)

\* Writing a key slides the window of cached keys by one: nothing is dropped
\* before the cache holds Limit + 1 keys, and then it is the oldest but the first.
LEMMA WriterSlidesWindow ==
  ASSUME InputTypeOK, CacheWindow, NEW key \in luaTriggers,
         unconditionalWriter(key)
  PROVE  CacheWindow'
<1> USE DEF InputTypeOK
<1> DEFINE Kept == DOMAIN keyPresses \ Evicted
<1>1. DOMAIN keyPresses = (1 .. currentCount) \ (2 .. currentCount - Limit)
  BY DEF CacheWindow
<1>2. Kept = (1 .. currentCount) \ (2 .. currentCount + 1 - Limit)
  <2>1. CASE currentCount < Limit
    BY <1>1, <2>1 DEF Evicted, Oldest
  <2>2. CASE currentCount = Limit
    <3>1. DOMAIN keyPresses = 1 .. Limit
      BY <1>1, <2>2
    <3>2. Cardinality(DOMAIN keyPresses) = Limit
      <4>1. 1 \in Int /\ Limit \in Int /\ ~(1 > Limit)
        OBVIOUS
      <4>2. Cardinality(1 .. Limit) = Limit - 1 + 1
        BY <4>1, FS_Interval
      <4>3. QED
        BY <3>1, <4>2
    <3>3. Evicted = {}
      BY <3>2 DEF Evicted
    <3>4. QED
      BY <1>1, <2>2, <3>3
  <2>3. CASE currentCount > Limit
    <3> DEFINE Window == Oldest .. currentCount
    <3>1. IsFiniteSet(Window) /\ Cardinality(Window) = Limit
      <4>1. Oldest \in Int /\ currentCount \in Int /\ Oldest <= currentCount
        BY <2>3 DEF Oldest
      <4>2. IsFiniteSet(Window) /\ Cardinality(Window) = currentCount - Oldest + 1
        BY <4>1, FS_Interval
      <4>3. QED
        BY <4>2 DEF Oldest
    <3>2. DOMAIN keyPresses = Window \cup {1} /\ 1 \notin Window
      BY <1>1, <2>3 DEF Oldest
    <3>3. Cardinality(DOMAIN keyPresses) = Limit + 1
      BY <3>1, <3>2, FS_AddElement
    <3>4. Oldest \in DOMAIN keyPresses
      BY <3>2, <2>3 DEF Oldest
    <3>5. Evicted = {Oldest}
      BY <3>3, <3>4 DEF Evicted
    <3>6. QED
      BY <1>1, <2>3, <3>5 DEF Oldest
  <2>4. QED
    BY <2>1, <2>2, <2>3
<1>3. DOMAIN keyPresses' = Kept \cup {currentCount + 1}
  BY DEF unconditionalWriter
<1>4. DOMAIN keyPresses' = (1 .. currentCount') \ (2 .. currentCount' - Limit)
  <2>1. currentCount' = currentCount + 1
    BY DEF unconditionalWriter
  <2>2. QED
    BY <1>2, <1>3, <2>1
<1>5. ASSUME NEW k \in DOMAIN keyPresses'
      PROVE  keyPresses'[k] = pressed'[k]
  <2>1. pressed' = Append(pressed, key)
    BY DEF unconditionalWriter
  <2>2. CASE k = currentCount + 1
    BY <1>3, <2>1, <2>2 DEF unconditionalWriter
  <2>3. CASE k # currentCount + 1
    <3>1. k \in DOMAIN keyPresses /\ k \in 1 .. currentCount
      BY <1>2, <1>3, <2>3
    <3>2. keyPresses'[k] = keyPresses[k]
      BY <1>5, <1>3, <2>3 DEF unconditionalWriter
    <3>3. pressed'[k] = pressed[k]
      BY <2>1, <3>1
    <3>4. QED
      BY <3>1, <3>2, <3>3 DEF CacheWindow
  <2>4. QED
    BY <2>2, <2>3
<1>6. QED
  BY <1>4, <1>5 DEF CacheWindow

LEMMA NextWindow == TypeOK /\ CacheWindow /\ [Next]_vars => CacheWindow'
<1> SUFFICES ASSUME TypeOK, CacheWindow, [Next]_vars
             PROVE  CacheWindow'
  OBVIOUS
<1>1. CASE Press
  BY <1>1, WriterSlidesWindow DEF Press, TypeOK
<1>2. CASE UNCHANGED shared
  BY <1>2 DEF CacheWindow, shared
<1>3. Press \/ UNCHANGED shared
  BY DEF Next, Running, Ended, Main, Station, OpenPipe, ReadLine, Quit, IgnoreLine,
         JoinThreads, PipeVanishes, Top, Poll, Lookup, LookupMiss, vars
<1>4. QED
  BY <1>1, <1>2, <1>3

LEMMA InitWindow == Init => CacheWindow
  BY DEF Init, CacheWindow

\* The cache always holds the first key and the latest Limit ones, as entered.
THEOREM Window == Spec => []CacheWindow
<1>1. QED
  BY InitTypes, NextTypes, InitWindow, NextWindow, PTL DEF Spec

LEMMA NextAbort ==
  TypeOK /\ CacheWindow /\ AbortOnlyIfLagging /\ [Next]_vars => AbortOnlyIfLagging'
<1> SUFFICES ASSUME TypeOK, CacheWindow, AbortOnlyIfLagging, [Next]_vars
             PROVE  AbortOnlyIfLagging'
  OBVIOUS
<1>1. ASSUME NEW s \in Stations, LookupMiss(s)
      PROVE  AbortOnlyIfLagging'
  <2>1. local[s] \in 1 .. currentCount
    BY <1>1 DEF LookupMiss, TypeOK, InputTypeOK, StationTypeOK
  <2>2. local[s] \in 2 .. currentCount - Limit
    BY <1>1, <2>1 DEF LookupMiss, CacheWindow
  <2>3. currentCount - local[s] >= Limit
    BY <2>1, <2>2 DEF TypeOK, InputTypeOK
  <2>4. QED
    BY <1>1, <2>3 DEF LookupMiss, AbortOnlyIfLagging, shared, stationVars
<1>2. CASE UNCHANGED vars
  BY <1>2 DEF AbortOnlyIfLagging, vars, shared, mainVars, stationVars
<1>3. CASE ~aborted /\ aborted' = aborted
  BY <1>3 DEF AbortOnlyIfLagging
<1>4. \/ \E s \in Stations : LookupMiss(s)
      \/ UNCHANGED vars
      \/ ~aborted /\ aborted' = aborted
  BY DEF Next, Running, Ended, Over, Main, Station, OpenPipe, ReadLine, Quit, Press,
         IgnoreLine, JoinThreads, PipeVanishes, Top, Poll, Lookup
<1>5. QED
  BY <1>1, <1>2, <1>3, <1>4

\* readInputStr throws only at a station that is Limit or more keys behind.
THEOREM AbortsOnlyIfLagging == Spec => []AbortOnlyIfLagging
<1>1. Init => AbortOnlyIfLagging
  BY DEF Init, AbortOnlyIfLagging
<1>2. QED
  BY <1>1, InitTypes, NextTypes, InitWindow, NextWindow, NextAbort, PTL DEF Spec
-------------------------------------------------------------------------------
(* The file each station runs *)

LEMMA WrapAround ==
  ASSUME NEW m \in Nat \ {0}, NEW f \in 0 .. m - 1
  PROVE  (f + 1) % m = IF f < m - 1 THEN f + 1 ELSE 0
OBVIOUS

LEMMA Remainder ==
  ASSUME NEW q \in Nat, NEW m \in Nat \ {0}, NEW r \in 0 .. m - 1
  PROVE  (q * m + r) % m = r
OBVIOUS

\* SwitchFaithful with the quotient named, so that a step adds one to a sum
\* and never to a remainder.
Turns(s, q) == Cardinality(OwnPresses(s, Seen(s))) = q * NumFiles[s] + file[s]
SwitchInv == \A s \in Stations : \E q \in Nat : Turns(s, q)

LEMMA OwnPressesFinite ==
  ASSUME NEW s \in Stations, NEW n \in Nat
  PROVE  /\ IsFiniteSet(OwnPresses(s, n))
         /\ Cardinality(OwnPresses(s, n)) \in Nat
<1>1. 1 \in Int /\ n \in Int
  OBVIOUS
<1>2. IsFiniteSet(1 .. n)
  BY <1>1, FS_Interval
<1>3. OwnPresses(s, n) \subseteq 1 .. n
  BY DEF OwnPresses
<1>4. QED
  BY <1>2, <1>3, FS_Subset, FS_CardinalityType

\* Dealing with one more key counts it exactly when it is the station's own.
LEMMA OwnPressesNext ==
  ASSUME NEW s \in Stations, NEW n \in Nat
  PROVE  Cardinality(OwnPresses(s, n + 1)) =
            Cardinality(OwnPresses(s, n)) + (IF pressed[n + 1] = Trigger[s] THEN 1 ELSE 0)
<1>1. CASE pressed[n + 1] = Trigger[s]
  <2>1. OwnPresses(s, n + 1) = OwnPresses(s, n) \cup {n + 1}
    BY <1>1 DEF OwnPresses
  <2>2. n + 1 \notin OwnPresses(s, n)
    BY DEF OwnPresses
  <2>3. QED
    BY <1>1, <2>1, <2>2, OwnPressesFinite, FS_AddElement
<1>2. CASE pressed[n + 1] # Trigger[s]
  <2>1. OwnPresses(s, n + 1) = OwnPresses(s, n)
    BY <1>2 DEF OwnPresses
  <2>2. QED
    BY <1>2, <2>1, OwnPressesFinite
<1>3. QED
  BY <1>1, <1>2

LEMMA SeenType ==
  ASSUME TypeOK, NEW s \in Stations
  PROVE  Seen(s) \in Nat /\ Seen(s) <= currentCount
BY DEF TypeOK, InputTypeOK, StationTypeOK, Seen

\* A new key leaves what the stations have already dealt with as it was.
LEMMA PressKeepsOwnPresses ==
  ASSUME TypeOK, NEW key \in luaTriggers, unconditionalWriter(key),
         NEW s \in Stations, NEW n \in Nat, n <= currentCount
  PROVE  OwnPresses(s, n)' = OwnPresses(s, n)
<1>1. \A k \in 1 .. n : pressed'[k] = pressed[k]
  BY DEF unconditionalWriter, TypeOK, InputTypeOK
<1>2. QED
  BY <1>1 DEF OwnPresses

\* What a station's step does to what it has seen: nothing, or one more key,
\* on which its file changes if the key is its own.
Same(s) == Seen(s)' = Seen(s) /\ file' = file

OneMore(s) ==
    /\ Seen(s)' = Seen(s) + 1
    /\ Seen(s) < currentCount
    /\ file' = IF pressed[Seen(s) + 1] = Trigger[s]
               THEN [file EXCEPT ![s] = (file[s] + 1) % NumFiles[s]]
               ELSE file

LEMMA StationStep ==
  ASSUME TypeOK, CacheWindow, NEW s \in Stations, Station(s)
  PROVE  /\ Same(s) \/ OneMore(s)
         /\ UNCHANGED shared
         /\ \A t \in Stations \ {s} : Seen(t)' = Seen(t)
<1> USE DEF TypeOK, InputTypeOK, StationTypeOK
<1>1. UNCHANGED shared
  BY DEF Station, Top, Poll, Lookup, LookupMiss
<1>2. ASSUME NEW t \in Stations \ {s}
      PROVE  Seen(t)' = Seen(t)
  <2>1. pc'[t] = pc[t] /\ local'[t] = local[t]
    BY DEF Station, Top, Poll, Lookup, LookupMiss, Goto, stationVars
  <2>2. QED
    BY <2>1 DEF Seen
<1>3. CASE Top(s)
  <2>1. Same(s)
    BY <1>3 DEF Top, Goto, Seen, Same
  <2>2. QED
    BY <1>1, <1>2, <2>1
<1>4. CASE Poll(s)
  <2>1. CASE currentCount > local[s] /\ Trigger[s] # NoKey
    <3>1. pc'[s] = "lookup" /\ local'[s] = local[s] + 1 /\ file' = file
      BY <1>4, <2>1 DEF Poll, NewKey, NextKey, Goto
    <3>2. pc[s] = "poll"
      BY <1>4 DEF Poll, NewKey, NextKey
    <3>3. Same(s)
      BY <3>1, <3>2 DEF Seen, Same
    <3>4. QED
      BY <1>1, <1>2, <3>3
  <2>2. CASE currentCount > local[s] /\ Trigger[s] = NoKey
    <3>1. pc'[s] = "poll" /\ local'[s] = local[s] + 1 /\ file' = file
      BY <1>4, <2>2 DEF Poll, NewKey, NextKey, Goto
    <3>2. Seen(s) = local[s] /\ Seen(s)' = local[s] + 1
      BY <1>4, <3>1 DEF Seen, Poll
    <3>3. pressed[local[s] + 1] \in luaTriggers
      BY <2>2
    <3>4. pressed[local[s] + 1] # Trigger[s]
      BY <2>2, <3>3, TriggerAssumption
    <3>5. OneMore(s)
      BY <2>2, <3>1, <3>2, <3>4 DEF OneMore
    <3>6. QED
      BY <1>1, <1>2, <3>5
  <2>3. CASE ~(currentCount > local[s])
    <3>1. pc'[s] = "top" /\ pc[s] = "poll" /\ local' = local /\ file' = file
      BY <1>4, <2>3 DEF Poll, NewKey, NextKey, Goto
    <3>2. Same(s)
      BY <3>1 DEF Seen, Same
    <3>3. QED
      BY <1>1, <1>2, <3>2
  <2>4. QED
    BY <2>1, <2>2, <2>3
<1>5. CASE Lookup(s)
  <2>1. /\ local[s] \in 1 .. currentCount
        /\ keyPresses[local[s]] = pressed[local[s]]
    BY <1>5 DEF Lookup, CacheWindow
  <2>2. Seen(s) = local[s] - 1 /\ Seen(s)' = local[s]
    BY <1>5 DEF Lookup, Goto, Seen
  <2>3. local[s] = Seen(s) + 1
    BY <2>1, <2>2
  <2>4. file[s] \in 0 .. NumFiles[s] - 1
    OBVIOUS
  <2>5. CASE pressed[local[s]] = Trigger[s]
    <3>1. GetNextLuaFile(s)
      BY <1>5, <2>1, <2>5 DEF Lookup, KeyRead
    <3>2. (file[s] + 1) % NumFiles[s] =
             IF file[s] < NumFiles[s] - 1 THEN file[s] + 1 ELSE 0
      BY <2>4, WrapAround
    <3>3. file' = [file EXCEPT ![s] = (file[s] + 1) % NumFiles[s]]
      BY <3>1, <3>2 DEF GetNextLuaFile
    <3>4. OneMore(s)
      BY <2>1, <2>2, <2>3, <2>5, <3>3 DEF OneMore
    <3>5. QED
      BY <1>1, <1>2, <3>4
  <2>6. CASE pressed[local[s]] # Trigger[s]
    <3>1. file' = file
      BY <1>5, <2>1, <2>6 DEF Lookup, KeyRead
    <3>2. OneMore(s)
      BY <2>1, <2>2, <2>3, <2>6, <3>1 DEF OneMore
    <3>3. QED
      BY <1>1, <1>2, <3>2
  <2>7. QED
    BY <2>5, <2>6
<1>6. CASE LookupMiss(s)
  <2>1. Same(s)
    BY <1>6 DEF LookupMiss, Same, Seen, stationVars
  <2>2. QED
    BY <1>1, <1>2, <2>1
<1>7. QED
  BY <1>3, <1>4, <1>5, <1>6 DEF Station

LEMMA OtherSteps ==
  [Next]_vars => \/ Press
                 \/ \E s \in Stations : Station(s)
                 \/ UNCHANGED <<shared, stationVars>>
BY DEF Next, Running, Ended, Main, OpenPipe, ReadLine, Quit, IgnoreLine, JoinThreads,
       PipeVanishes, vars

LEMMA NextSwitch == TypeOK /\ CacheWindow /\ SwitchInv /\ [Next]_vars => SwitchInv'
<1> SUFFICES ASSUME TypeOK, CacheWindow, SwitchInv, [Next]_vars, NEW t \in Stations
             PROVE  \E q \in Nat : Turns(t, q)'
  BY DEF SwitchInv
<1>1. PICK q \in Nat : Turns(t, q)
  BY DEF SwitchInv
<1>2. file \in [Stations -> Nat] /\ file[t] \in 0 .. NumFiles[t] - 1
  BY DEF TypeOK, StationTypeOK
<1>3. Seen(t) \in Nat /\ Seen(t) <= currentCount
  BY SeenType
<1>4. CASE pressed' = pressed /\ Seen(t)' = Seen(t) /\ file'[t] = file[t]
  BY <1>1, <1>4 DEF Turns, OwnPresses
<1>5. CASE Press
  <2>1. usrInput \in luaTriggers /\ unconditionalWriter(usrInput)
    BY <1>5 DEF Press
  <2>2. Seen(t)' = Seen(t) /\ file'[t] = file[t]
    BY <1>5 DEF Press, stationVars, Seen
  <2>3. \A k \in 1 .. Seen(t) : pressed'[k] = pressed[k]
    BY <1>3, <2>1 DEF unconditionalWriter, TypeOK, InputTypeOK
  <2>4. OwnPresses(t, Seen(t))' = OwnPresses(t, Seen(t))
    BY <2>2, <2>3 DEF OwnPresses
  <2>5. QED
    BY <1>1, <2>2, <2>4 DEF Turns
<1>6. ASSUME NEW s \in Stations, Station(s)
      PROVE  \E r \in Nat : Turns(t, r)'
  <2>1. /\ Same(s) \/ OneMore(s)
        /\ UNCHANGED shared
        /\ \A u \in Stations \ {s} : Seen(u)' = Seen(u)
    BY <1>6, StationStep
  <2>2. CASE Same(s) \/ t # s
    BY <1>2, <1>4, <2>1, <2>2 DEF Same, OneMore, shared
  <2>3. CASE OneMore(s) /\ t = s
    <3>1. OwnPresses(t, Seen(t))' = OwnPresses(t, Seen(t) + 1)
      BY <2>1, <2>3 DEF OneMore, OwnPresses, shared
    <3>2. Cardinality(OwnPresses(t, Seen(t)))' =
             Cardinality(OwnPresses(t, Seen(t)))
             + (IF pressed[Seen(t) + 1] = Trigger[t] THEN 1 ELSE 0)
      BY <1>3, <3>1, OwnPressesNext
    <3>3. CASE pressed[Seen(t) + 1] # Trigger[t]
      BY <1>1, <1>2, <2>3, <3>2, <3>3 DEF OneMore, Turns
    <3>4. CASE pressed[Seen(t) + 1] = Trigger[t]
      <4>1. file'[t] = IF file[t] < NumFiles[t] - 1 THEN file[t] + 1 ELSE 0
        BY <1>2, <2>3, <3>4, WrapAround DEF OneMore
      <4>2. Cardinality(OwnPresses(t, Seen(t)))' = q * NumFiles[t] + file[t] + 1
        BY <1>1, <3>2, <3>4 DEF Turns
      <4>3. CASE file[t] < NumFiles[t] - 1
        <5>1. Turns(t, q)'
          BY <1>2, <4>1, <4>2, <4>3 DEF Turns
        <5>2. QED
          BY <5>1
      <4>4. CASE ~(file[t] < NumFiles[t] - 1)
        <5>1. file[t] + 1 = NumFiles[t] /\ file'[t] = 0
          BY <1>2, <4>1, <4>4
        <5>2. q * NumFiles[t] + file[t] + 1 = (q + 1) * NumFiles[t] + 0
          BY <1>2, <5>1
        <5>3. Turns(t, q + 1)'
          BY <4>2, <5>1, <5>2 DEF Turns
        <5>4. QED
          BY <5>3
      <4>5. QED
        BY <4>3, <4>4
    <3>5. QED
      BY <3>3, <3>4
  <2>4. QED
    BY <2>1, <2>2, <2>3
<1>7. CASE UNCHANGED <<shared, stationVars>>
  BY <1>4, <1>7 DEF shared, stationVars, Seen
<1>8. QED
  BY <1>5, <1>6, <1>7, OtherSteps

LEMMA InitSwitch == Init => SwitchInv
<1> SUFFICES ASSUME Init, NEW s \in Stations
             PROVE  Turns(s, 0)
  BY DEF SwitchInv
<1>1. OwnPresses(s, Seen(s)) = {}
  BY DEF Init, OwnPresses, Seen
<1>2. Cardinality(OwnPresses(s, Seen(s))) = 0
  BY <1>1, FS_EmptySet
<1>3. 0 * NumFiles[s] + file[s] = 0
  BY DEF Init
<1>4. QED
  BY <1>2, <1>3 DEF Turns

LEMMA SwitchInvSuffices == TypeOK /\ SwitchInv => SwitchFaithful
<1> SUFFICES ASSUME TypeOK, SwitchInv, NEW s \in Stations
             PROVE  file[s] = Cardinality(OwnPresses(s, Seen(s))) % NumFiles[s]
  BY DEF SwitchFaithful
<1>1. PICK q \in Nat : Turns(s, q)
  BY DEF SwitchInv
<1>2. file[s] \in 0 .. NumFiles[s] - 1
  BY DEF TypeOK, StationTypeOK
<1>3. QED
  BY <1>1, <1>2, Remainder DEF Turns

\* Whatever the interleaving of writer and stations, a station runs the Lua
\* file that the presses of its own trigger select.
THEOREM FaithfulSwitch == Spec => []SwitchFaithful
<1>1. QED
  BY InitTypes, NextTypes, InitWindow, NextWindow, InitSwitch, NextSwitch,
     SwitchInvSuffices, PTL DEF Spec

-------------------------------------------------------------------------------
(* The switch implements the log *)

LEMMA NextRefines == TypeOK /\ CacheWindow /\ [Next]_vars => [KL!Next]_(KL!vars)
<1> SUFFICES ASSUME TypeOK, CacheWindow, [Next]_vars
             PROVE  KL!Next \/ UNCHANGED KL!vars
  OBVIOUS
<1> DEFINE seen == [s \in Stations |-> Seen(s)]
<1>1. CASE Press
  <2>1. usrInput \in luaTriggers /\ pressed' = Append(pressed, usrInput)
    BY <1>1 DEF Press, unconditionalWriter
  <2>2. seen' = seen /\ file' = file
    BY <1>1 DEF Press, stationVars, Seen
  <2>3. KL!Press(usrInput)
    BY <2>1, <2>2 DEF KL!Press
  <2>4. QED
    BY <2>1, <2>3 DEF KL!Next
<1>2. ASSUME NEW s \in Stations, Station(s)
      PROVE  KL!Next \/ UNCHANGED KL!vars
  <2>1. /\ Same(s) \/ OneMore(s)
        /\ pressed' = pressed
        /\ \A t \in Stations \ {s} : Seen(t)' = Seen(t)
    BY <1>2, StationStep DEF shared
  <2>2. CASE Same(s)
    <3>1. seen' = seen /\ file' = file
      BY <2>1, <2>2 DEF Same
    <3>2. QED
      BY <2>1, <3>1 DEF KL!vars
  <2>3. CASE OneMore(s)
    <3>1. seen[s] = Seen(s) /\ Len(pressed) = currentCount
      BY DEF TypeOK, InputTypeOK
    <3>2. seen' = [seen EXCEPT ![s] = seen[s] + 1]
      BY <2>1, <2>3 DEF OneMore
    <3>3. KL!Observe(s)
      BY <2>1, <2>3, <3>1, <3>2 DEF OneMore, KL!Observe, KL!NextFile
    <3>4. QED
      BY <3>3 DEF KL!Next
  <2>4. QED
    BY <2>1, <2>2, <2>3
<1>3. CASE UNCHANGED <<shared, stationVars>>
  BY <1>3 DEF shared, stationVars, Seen, KL!vars
<1>4. QED
  BY <1>1, <1>2, <1>3, OtherSteps

\* The counter, the cache and the polling loops implement a log that every
\* station reads completely and in order.
THEOREM Refinement == Spec => RefinesKeyLog
<1>1. Init => KL!Init
  BY DEF Init, KL!Init, Seen
<1>2. QED
  BY <1>1, InitTypes, NextTypes, InitWindow, NextWindow, NextRefines, PTL
     DEF Spec, RefinesKeyLog, KL!Spec
=================================================================================
