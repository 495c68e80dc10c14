------------------------ MODULE MasterCommands_proofs ------------------------
(***************************************************************************)
(* Proofs about LuaStack and MasterCommands.  Whatever tables the scripts  *)
(* return, and however long, no routine ever asks Lua for the next entry   *)
(* of something that is not a table, or after a key that is not of that    *)
(* table; and a master sends every command of its table, once.             *)
(*                                                                         *)
(* The second is an induction over the walk and then over the list of      *)
(* commands: the list is what the entries behind the walk bring, and when  *)
(* it is fired off, what has been asked for is what the commands done      *)
(* stand for, the commands done and those left being the whole list.       *)
(***************************************************************************)
EXTENDS MasterCommands, FoldFacts

USE DEF Outstation, Mapping, Master, AnalogInput, CounterInput, BinaryInput

-------------------------------------------------------------------------------
(* Pushing onto a sequence and popping off it *)

\* A push keeps what was there below the new slots.
LEMMA PushLemma ==
  ASSUME NEW S, NEW s \in Seq(S), NEW t \in Seq(S)
  PROVE  /\ s \o t \in Seq(S)
         /\ Len(s \o t) = Len(s) + Len(t)
         /\ \A i \in 1..Len(s) : (s \o t)[i] = s[i]
         /\ \A i \in 1..Len(t) : (s \o t)[Len(s) + i] = t[i]
  OBVIOUS

\* A pop takes the last slots away and keeps the others.
LEMMA PopLemma ==
  ASSUME NEW S, NEW s \in Seq(S), NEW n \in 0..Len(s)
  PROVE  /\ Popped(s, n) \in Seq(S)
         /\ Len(Popped(s, n)) = Len(s) - n
         /\ \A i \in 1..(Len(s) - n) : Popped(s, n)[i] = s[i]
  BY DEF Popped

\* A pop and a push: what stays keeps its place, what comes lies on top of it.
LEMMA PopPushLemma ==
  ASSUME NEW S, NEW s \in Seq(S), NEW n \in 0..Len(s), NEW t \in Seq(S)
  PROVE  /\ Popped(s, n) \o t \in Seq(S)
         /\ Len(Popped(s, n) \o t) = Len(s) - n + Len(t)
         /\ \A i \in 1..(Len(s) - n) : (Popped(s, n) \o t)[i] = s[i]
         /\ \A i \in 1..Len(t) : (Popped(s, n) \o t)[Len(s) - n + i] = t[i]
  <1>1. /\ Popped(s, n) \in Seq(S)
        /\ Len(Popped(s, n)) = Len(s) - n
        /\ \A i \in 1..(Len(s) - n) : Popped(s, n)[i] = s[i]
    BY PopLemma
  <1>2. DEFINE p == Popped(s, n)
  <1>3. /\ p \o t \in Seq(S)
        /\ Len(p \o t) = Len(p) + Len(t)
        /\ \A i \in 1..Len(p) : (p \o t)[i] = p[i]
        /\ \A i \in 1..Len(t) : (p \o t)[Len(p) + i] = t[i]
    <2> HIDE DEF p
    <2>1. p \in Seq(S)
      BY <1>1 DEF p
    <2> QED BY <2>1, PushLemma
  <1> QED BY <1>1, <1>3

LEMMA SlotNames ==
  /\ {"data", "table", "command", "dataKey", "tableKey", "commandKey"} \subseteq Slots
  /\ {"ret", "nil", "name", "value"} \subseteq Slots
  /\ KeyOf["data"] = "dataKey" /\ KeyOf["table"] = "tableKey"
  /\ KeyOf["command"] = "commandKey"
  BY DEF Slots, Tables, KeyOf

-------------------------------------------------------------------------------
(* What is on top of the stack wherever a routine asks Lua for something *)

AtProbe == pc = "probe" => Len(stack) >= 3 /\ Under = "data" /\ Top = "nil"
AtGettable == pc = "gettable" => Len(stack) >= 3 /\ Under = "data" /\ Top = "name"
AtEntries == pc = "entries" => /\ Len(stack) >= 4
                               /\ stack[Len(stack) - 2] = "data"
                               /\ Under = "table"
                               /\ Top \in {"nil", "tableKey"}
AtValues == pc = "values" => Len(stack) >= 3 /\ Under = "data" /\ Top \in {"nil", "dataKey"}
AtCommands == pc = "commands" => Len(stack) >= 2 /\ Under = "data" /\ Top \in {"nil", "dataKey"}

\* Beneath the walk of a command there is that of the commands.
AtFields == pc = "fields" => /\ Len(stack) >= 6
                             /\ stack[Len(stack) - 5] = "data"
                             /\ stack[Len(stack) - 4] = "dataKey"
                             /\ Under = "command"
                             /\ Top \in {"nil", "commandKey"}

Inv == TypeOK /\ AtProbe /\ AtGettable /\ AtEntries /\ AtValues /\ AtCommands /\ AtFields

USE DEF Top, Under

LEMMA InvWalks == Inv => WalksTables
  BY SlotNames DEF Inv, AtProbe, AtGettable, AtEntries, AtValues, AtCommands, AtFields,
     WalksTables, Tables, TypeOK

LEMMA InvInit == Init => Inv
  <1> SUFFICES ASSUME Init PROVE Inv
    OBVIOUS
  <1>1. <<>> \in Seq(Slots)
    OBVIOUS
  <1> QED BY <1>1, BoundAssumption
        DEF Init, Inv, TypeOK, Counts, Kinds, AtProbe, AtGettable, AtEntries, AtValues,
            AtCommands, AtFields

-------------------------------------------------------------------------------
(* The steps *)

\* The stack is a sequence of slots, as long as its length says.
LEMMA StackLength == Inv => stack \in Seq(Slots) /\ Len(stack) \in Nat
  BY DEF Inv, TypeOK

LEMMA InvIdle ==
  ASSUME Inv, UNCHANGED <<role, configured>>, kind' \in Kinds, entries' \in Counts,
         inside' \in Counts, stack' \in Seq(Slots), pc' \in {"idle", "aborted"}
  PROVE  Inv'
  BY DEF Inv, TypeOK, AtProbe, AtGettable, AtEntries, AtValues, AtCommands, AtFields

LEMMA InvInvoke == ASSUME Inv, Invoke PROVE Inv'
  <1> DEFINE t == <<"ret", "data", "nil">>
  <1>1. stack' = stack \o t /\ t \in Seq(Slots) /\ Len(t) = 3
    BY SlotNames DEF Invoke
  <1>2. /\ stack' \in Seq(Slots)
        /\ Len(stack') = Len(stack) + 3
        /\ stack'[Len(stack) + 2] = "data"
        /\ stack'[Len(stack) + 3] = "nil"
    <2>1. \A i \in 1..Len(t) : (stack \o t)[Len(stack) + i] = t[i]
      BY <1>1, StackLength, PushLemma
    <2> QED BY <1>1, <2>1, StackLength, PushLemma
  <1>3. AtProbe'
    BY <1>2, StackLength DEF AtProbe
  <1>4. TypeOK'
    BY <1>2 DEF Invoke, Inv, TypeOK, Kinds
  <1> QED BY <1>3, <1>4
        DEF Invoke, Inv, AtGettable, AtEntries, AtValues, AtCommands, AtFields

\* Whatever is pushed for the one slot that lua_next or lua_gettable takes.
LEMMA TopReplaced ==
  ASSUME NEW s \in Seq(Slots), Len(s) >= 1, NEW a \in Slots
  PROVE  /\ Popped(s, 1) \o <<a>> \in Seq(Slots)
         /\ Len(Popped(s, 1) \o <<a>>) = Len(s)
         /\ (Popped(s, 1) \o <<a>>)[Len(s)] = a
         /\ \A i \in 1..(Len(s) - 1) : (Popped(s, 1) \o <<a>>)[i] = s[i]
  <1> DEFINE t == <<a>>
             r == Popped(s, 1) \o t
  <1>1. t \in Seq(Slots) /\ Len(t) = 1 /\ t[1] = a /\ 1 \in 0..Len(s)
    OBVIOUS
  <1>2. /\ r \in Seq(Slots)
        /\ Len(r) = Len(s) - 1 + Len(t)
        /\ \A i \in 1..(Len(s) - 1) : r[i] = s[i]
        /\ \A i \in 1..Len(t) : r[Len(s) - 1 + i] = t[i]
    BY <1>1, PopPushLemma
  <1> HIDE DEF r, t
  <1>3. r[Len(s) - 1 + 1] = a
    BY <1>1, <1>2
  <1>4. Len(s) - 1 + 1 = Len(s)
    OBVIOUS
  <1>5. /\ r \in Seq(Slots)
        /\ Len(r) = Len(s)
        /\ r[Len(s)] = a
        /\ \A i \in 1..(Len(s) - 1) : r[i] = s[i]
    BY <1>1, <1>2, <1>3, <1>4
  <1> QED BY <1>5 DEF r, t

LEMMA InvProbe ==
  ASSUME Inv, ProbeNothing \/ ProbeOutstation \/ ProbeMapping \/ ProbeMaster PROVE Inv'
  <1>1. pc = "probe" /\ Len(stack) >= 3 /\ Under = "data"
    BY DEF ProbeNothing, ProbeOutstation, ProbeMapping, ProbeMaster, Inv, AtProbe
  <1>2. CASE ProbeNothing
    <2>1. <<>> \in Seq(Slots)
      OBVIOUS
    <2>2. Popped(stack, 1) \in Seq(Slots)
      <3>1. 1 \in 0..Len(stack)
        BY <1>1, StackLength
      <3> QED BY <3>1, StackLength, PopLemma
    <2>3. stack' \in Seq(Slots)
      BY <1>2, <2>1, <2>2 DEF ProbeNothing, Emptied
    <2> QED BY <1>2, <2>3, InvIdle DEF ProbeNothing, Inv, TypeOK
  <1>3. CASE ProbeOutstation
    <2>1. stack' = Popped(stack, 1) \o <<"name">>
      BY <1>3 DEF ProbeOutstation
    <2>2. /\ stack' \in Seq(Slots)
          /\ Len(stack') = Len(stack)
          /\ stack'[Len(stack)] = "name"
          /\ \A i \in 1..(Len(stack) - 1) : stack'[i] = stack[i]
      BY <1>1, <2>1, SlotNames, StackLength, TopReplaced
    <2> QED BY <1>1, <1>3, <2>2, StackLength
          DEF ProbeOutstation, Inv, TypeOK, AtProbe, AtGettable, AtEntries, AtValues,
              AtCommands, AtFields
  <1>4. CASE ProbeMapping
    <2>1. stack' = Popped(stack, 1) \o <<"nil">>
      BY <1>4 DEF ProbeMapping
    <2>2. /\ stack' \in Seq(Slots)
          /\ Len(stack') = Len(stack)
          /\ stack'[Len(stack)] = "nil"
          /\ \A i \in 1..(Len(stack) - 1) : stack'[i] = stack[i]
      BY <1>1, <2>1, SlotNames, StackLength, TopReplaced
    <2> QED BY <1>1, <1>4, <2>2, StackLength
          DEF ProbeMapping, Inv, TypeOK, AtProbe, AtGettable, AtEntries, AtValues,
              AtCommands, AtFields
  <1>5. CASE ProbeMaster
    <2> DEFINE t == <<"dataKey", "value", "data", "nil">>
    <2>1. stack' = Popped(stack, 1) \o t /\ t \in Seq(Slots) /\ Len(t) = 4 /\ 1 \in 0..Len(stack)
      BY <1>1, <1>5, SlotNames, StackLength DEF ProbeMaster
    <2>2. /\ stack' \in Seq(Slots)
          /\ Len(stack') = Len(stack) - 1 + Len(t)
          /\ \A i \in 1..Len(t) : stack'[Len(stack) - 1 + i] = t[i]
      BY <2>1, StackLength, PopPushLemma
    <2>3. stack'[Len(stack) - 1 + 3] = "data" /\ stack'[Len(stack) - 1 + 4] = "nil"
      BY <2>1, <2>2
    <2>4. /\ stack' \in Seq(Slots)
          /\ Len(stack') = Len(stack) + 3
          /\ stack'[Len(stack) + 2] = "data"
          /\ stack'[Len(stack) + 3] = "nil"
      BY <2>1, <2>2, <2>3, StackLength
    <2> HIDE DEF t
    <2> QED BY <1>1, <1>5, <2>4, StackLength
          DEF ProbeMaster, Inv, TypeOK, AtProbe, AtGettable, AtEntries, AtValues,
              AtCommands, AtFields
  <1> QED BY <1>2, <1>3, <1>4, <1>5

\* Before the next kind is asked for, data lies under one slot to be dropped.
LEMMA InvNextTable ==
  ASSUME Inv, NEW s \in Seq(Slots), Len(s) >= 3, s[Len(s) - 1] = "data", NextTable(s),
         UNCHANGED <<role, configured, entries>>, inside' \in Counts
  PROVE  Inv'
  <1>1. CASE kind = BinaryInput
    <2>1. stack' \in Seq(Slots)
      BY <1>1 DEF NextTable, Emptied
    <2> QED BY <1>1, <2>1, InvIdle DEF NextTable, Inv, TypeOK
  <1>2. CASE kind # BinaryInput
    <2> DEFINE t == <<"name">>
    <2>1. stack' = Popped(s, 1) \o t /\ t \in Seq(Slots) /\ Len(t) = 1 /\ 1 \in 0..Len(s)
      BY <1>2, SlotNames DEF NextTable
    <2>2. /\ stack' \in Seq(Slots)
          /\ Len(stack') = Len(s)
          /\ stack'[Len(s) - 1] = "data"
          /\ stack'[Len(s)] = "name"
      BY <2>1, PopPushLemma
    <2>3. kind' \in Kinds /\ pc' = "gettable"
      BY <1>2 DEF NextTable, Inv, TypeOK, Kinds
    <2> QED BY <2>2, <2>3
          DEF Inv, TypeOK, AtProbe, AtGettable, AtEntries, AtValues, AtCommands, AtFields
  <1> QED BY <1>1, <1>2

\* The last n slots go, and nothing else changes.
LEMMA SlotsDropped ==
  ASSUME NEW s \in Seq(Slots), NEW n \in Nat, Len(s) >= n
  PROVE  /\ Popped(s, n) \in Seq(Slots)
         /\ Len(Popped(s, n)) = Len(s) - n
         /\ \A i \in 1..(Len(s) - n) : Popped(s, n)[i] = s[i]
  <1>1. n \in 0..Len(s)
    OBVIOUS
  <1> QED BY <1>1, PopLemma

\* lua_next puts a key and its value for the key before.
LEMMA PairPushed ==
  ASSUME NEW s \in Seq(Slots), Len(s) >= 1, NEW a \in Slots, NEW b \in Slots
  PROVE  /\ Popped(s, 1) \o <<a, b>> \in Seq(Slots)
         /\ Len(Popped(s, 1) \o <<a, b>>) = Len(s) + 1
         /\ (Popped(s, 1) \o <<a, b>>)[Len(s)] = a
         /\ \A i \in 1..(Len(s) - 1) : (Popped(s, 1) \o <<a, b>>)[i] = s[i]
  <1> DEFINE t == <<a, b>>
             q == Popped(s, 1) \o t
  <1>0. t \in Seq(Slots) /\ 1 \in 0..Len(s)
    OBVIOUS
  <1>1. Len(t) = 2 /\ t[1] = a
    OBVIOUS
  <1> HIDE DEF t
  <1>2. /\ q \in Seq(Slots)
        /\ Len(q) = Len(s) - 1 + Len(t)
        /\ \A i \in 1..(Len(s) - 1) : q[i] = s[i]
        /\ \A i \in 1..Len(t) : q[Len(s) - 1 + i] = t[i]
    BY <1>0, PopPushLemma
  <1> HIDE DEF q
  <1>3. q[Len(s) - 1 + 1] = a
    BY <1>1, <1>2
  <1>4. Len(s) - 1 + 1 = Len(s)
    OBVIOUS
  <1>5. /\ q \in Seq(Slots)
        /\ Len(q) = Len(s) + 1
        /\ q[Len(s)] = a
        /\ \A i \in 1..(Len(s) - 1) : q[i] = s[i]
    BY <1>1, <1>2, <1>3, <1>4
  <1> QED BY <1>5 DEF q, t

\* lua_next puts a key, its value and a copy of the key for the key before.
LEMMA TriplePushed ==
  ASSUME NEW s \in Seq(Slots), Len(s) >= 1, NEW a \in Slots, NEW b \in Slots, NEW c \in Slots
  PROVE  /\ Popped(s, 1) \o <<a, b, c>> \in Seq(Slots)
         /\ Len(Popped(s, 1) \o <<a, b, c>>) = Len(s) + 2
         /\ (Popped(s, 1) \o <<a, b, c>>)[Len(s)] = a
         /\ \A i \in 1..(Len(s) - 1) : (Popped(s, 1) \o <<a, b, c>>)[i] = s[i]
  <1> DEFINE t == <<a, b, c>>
             q == Popped(s, 1) \o t
  <1>1. t \in Seq(Slots) /\ Len(t) = 3 /\ t[1] = a /\ 1 \in 0..Len(s)
    OBVIOUS
  <1>2. /\ q \in Seq(Slots)
        /\ Len(q) = Len(s) - 1 + Len(t)
        /\ \A i \in 1..(Len(s) - 1) : q[i] = s[i]
        /\ \A i \in 1..Len(t) : q[Len(s) - 1 + i] = t[i]
    BY <1>1, PopPushLemma
  <1> HIDE DEF q, t
  <1>3. q[Len(s) - 1 + 1] = a
    BY <1>1, <1>2
  <1>4. Len(s) - 1 + 1 = Len(s)
    OBVIOUS
  <1>5. /\ q \in Seq(Slots)
        /\ Len(q) = Len(s) + 2
        /\ q[Len(s)] = a
        /\ \A i \in 1..(Len(s) - 1) : q[i] = s[i]
    BY <1>1, <1>2, <1>3, <1>4
  <1> QED BY <1>5 DEF q, t

LEMMA CountsDown == \A n \in Counts : n > 0 => n - 1 \in Counts
  BY BoundAssumption DEF Counts

LEMMA InvTable ==
  ASSUME Inv, GetTable \/ TableEnds \/ TableUnwanted \/ TableEntry PROVE Inv'
  <1>1. CASE GetTable
    <2>1. pc = "gettable" /\ Len(stack) >= 3 /\ Under = "data"
      BY <1>1 DEF GetTable, Inv, AtGettable
    <2>2. CASE NextTable(Popped(stack, 1) \o <<"value">>) /\ UNCHANGED inside
      <3> DEFINE r == Popped(stack, 1) \o <<"value">>
      <3>1. /\ r \in Seq(Slots)
            /\ Len(r) = Len(stack)
            /\ \A i \in 1..(Len(stack) - 1) : r[i] = stack[i]
        BY <2>1, SlotNames, StackLength, TopReplaced
      <3> HIDE DEF r
      <3>2. Len(r) >= 3 /\ r[Len(r) - 1] = "data"
        BY <2>1, <3>1, StackLength
      <3>3. NextTable(r)
        BY <2>2 DEF r
      <3>4. UNCHANGED <<role, configured, entries>> /\ inside' \in Counts
        BY <1>1, <2>2 DEF GetTable, Inv, TypeOK
      <3> QED BY <3>1, <3>2, <3>3, <3>4, InvNextTable
    <2>3. CASE /\ stack' = Popped(stack, 1) \o <<"table", "nil">>
               /\ pc' = "entries"
               /\ inside' \in Counts
               /\ UNCHANGED kind
      <3> DEFINE t == <<"table", "nil">>
      <3>1. stack' = Popped(stack, 1) \o t /\ t \in Seq(Slots) /\ Len(t) = 2 /\ 1 \in 0..Len(stack)
        BY <2>1, <2>3, SlotNames, StackLength
      <3>2. /\ stack' \in Seq(Slots)
            /\ Len(stack') = Len(stack) - 1 + Len(t)
            /\ \A i \in 1..(Len(stack) - 1) : stack'[i] = stack[i]
            /\ \A i \in 1..Len(t) : stack'[Len(stack) - 1 + i] = t[i]
        BY <3>1, StackLength, PopPushLemma
      <3>3. stack'[Len(stack) - 1 + 1] = "table" /\ stack'[Len(stack) - 1 + 2] = "nil"
        BY <3>1, <3>2
      <3>4. /\ stack' \in Seq(Slots)
            /\ Len(stack') = Len(stack) + 1
            /\ stack'[Len(stack) - 1] = "data"
            /\ stack'[Len(stack)] = "table"
            /\ stack'[Len(stack) + 1] = "nil"
        BY <2>1, <3>1, <3>2, <3>3, StackLength
      <3> HIDE DEF t
      <3>5. AtEntries'
        BY <2>1, <3>4, StackLength DEF AtEntries
      <3> QED BY <1>1, <2>3, <3>4, <3>5
            DEF GetTable, Inv, TypeOK, AtProbe, AtGettable, AtValues, AtCommands, AtFields
    <2> QED BY <1>1, <2>2, <2>3 DEF GetTable
  <1>2. ASSUME pc = "entries"
        PROVE  /\ Len(stack) >= 4 /\ stack[Len(stack) - 2] = "data" /\ Under = "table"
    BY <1>2 DEF Inv, AtEntries
  <1>3. CASE TableEnds
    <2> DEFINE r == Popped(stack, 1)
    <2>1. Len(stack) >= 4 /\ stack[Len(stack) - 2] = "data"
      BY <1>2, <1>3 DEF TableEnds
    <2>2. /\ r \in Seq(Slots)
          /\ Len(r) = Len(stack) - 1
          /\ \A i \in 1..(Len(stack) - 1) : r[i] = stack[i]
      BY <2>1, StackLength, SlotsDropped
    <2> HIDE DEF r
    <2>3. Len(r) >= 3 /\ r[Len(r) - 1] = "data"
      BY <2>1, <2>2, StackLength
    <2>4. NextTable(r) /\ UNCHANGED <<role, configured, entries>> /\ inside' \in Counts
      BY <1>3 DEF TableEnds, Inv, TypeOK, r
    <2> QED BY <2>2, <2>3, <2>4, InvNextTable
  <1>4. CASE TableUnwanted
    <2>1. Len(stack) >= 4 /\ stack[Len(stack) - 2] = "data"
      BY <1>2, <1>4 DEF TableUnwanted
    <2> DEFINE q == Popped(stack, 1) \o <<"tableKey", "value">>
    <2>2. /\ q \in Seq(Slots)
          /\ Len(q) = Len(stack) + 1
          /\ \A i \in 1..(Len(stack) - 1) : q[i] = stack[i]
      BY <2>1, SlotNames, StackLength, PairPushed
    <2>4. NextTable(Popped(q, 2)) /\ UNCHANGED <<role, configured, entries>> /\ inside' \in Counts
      BY <1>4 DEF TableUnwanted, BreakPops, Inv, TypeOK
    <2> HIDE DEF q
    <2>3. Len(q) >= 2
      BY <2>1, <2>2, StackLength
    <2>5. /\ Popped(q, 2) \in Seq(Slots)
          /\ Len(Popped(q, 2)) = Len(q) - 2
          /\ \A i \in 1..(Len(q) - 2) : Popped(q, 2)[i] = q[i]
      BY <2>2, <2>3, SlotsDropped
    <2>6. Len(Popped(q, 2)) >= 3 /\ Popped(q, 2)[Len(Popped(q, 2)) - 1] = "data"
      BY <2>1, <2>2, <2>5, StackLength
    <2> QED BY <2>4, <2>5, <2>6, InvNextTable
  <1>5. CASE TableEntry
    <2>1. pc = "entries" /\ Len(stack) >= 4 /\ stack[Len(stack) - 2] = "data" /\ Under = "table"
      BY <1>2, <1>5 DEF TableEntry
    <2> DEFINE q == Popped(stack, 1) \o <<"tableKey", "value">>
    <2>2. stack' = Popped(q, 1)
      BY <1>5 DEF TableEntry
    <2>3. /\ q \in Seq(Slots)
          /\ Len(q) = Len(stack) + 1
          /\ q[Len(stack)] = "tableKey"
          /\ \A i \in 1..(Len(stack) - 1) : q[i] = stack[i]
      BY <2>1, SlotNames, StackLength, PairPushed
    <2> HIDE DEF q
    <2>4. Len(q) >= 1 /\ Len(q) - 1 = Len(stack)
      BY <2>3, StackLength
    <2>5. /\ stack' \in Seq(Slots)
          /\ Len(stack') = Len(q) - 1
          /\ \A i \in 1..(Len(q) - 1) : stack'[i] = q[i]
      BY <2>2, <2>3, <2>4, SlotsDropped
    <2>6. Len(stack') = Len(stack) /\ stack'[Len(stack)] = "tableKey" /\ \A i \in 1..(Len(stack) - 1) : stack'[i] = stack[i]
      BY <2>1, <2>3, <2>4, <2>5, StackLength
    <2>7. AtEntries'
      BY <2>1, <2>5, <2>6, StackLength, SMTT(30) DEF AtEntries
    <2>8. inside' \in Counts
      BY <1>5, CountsDown DEF TableEntry, Inv, TypeOK
    <2> QED BY <1>5, <2>1, <2>5, <2>7, <2>8
          DEF TableEntry, Inv, TypeOK, AtProbe, AtGettable, AtValues, AtCommands, AtFields
  <1> QED BY <1>1, <1>3, <1>4, <1>5

LEMMA InvValues == ASSUME Inv, ValuesEnd \/ ValuesEntry PROVE Inv'
  <1>1. CASE ValuesEnd
    <2>1. stack' \in Seq(Slots)
      BY <1>1 DEF ValuesEnd, Emptied
    <2> QED BY <1>1, <2>1, InvIdle DEF ValuesEnd, Inv, TypeOK
  <1>2. CASE ValuesEntry
    <2> DEFINE q == Popped(stack, 1) \o <<"dataKey", "value">>
    <2>1. pc = "values" /\ Len(stack) >= 3 /\ Under = "data"
      BY <1>2 DEF ValuesEntry, Inv, AtValues
    <2>2. stack' = Popped(q, 1)
      BY <1>2 DEF ValuesEntry
    <2>3. /\ q \in Seq(Slots)
          /\ Len(q) = Len(stack) + 1
          /\ q[Len(stack)] = "dataKey"
          /\ \A i \in 1..(Len(stack) - 1) : q[i] = stack[i]
      BY <2>1, SlotNames, StackLength, PairPushed
    <2> HIDE DEF q
    <2>4. Len(q) >= 1 /\ Len(q) - 1 = Len(stack)
      BY <2>3, StackLength
    <2>5. /\ stack' \in Seq(Slots)
          /\ Len(stack') = Len(q) - 1
          /\ \A i \in 1..(Len(q) - 1) : stack'[i] = q[i]
      BY <2>2, <2>3, <2>4, SlotsDropped
    <2>6. /\ Len(stack') = Len(stack)
          /\ stack'[Len(stack)] = "dataKey"
          /\ \A i \in 1..(Len(stack) - 1) : stack'[i] = stack[i]
      BY <2>1, <2>3, <2>4, <2>5, StackLength
    <2>7. AtValues'
      BY <2>1, <2>5, <2>6, StackLength DEF AtValues
    <2>8. entries' \in Counts
      BY <1>2, CountsDown DEF ValuesEntry, Inv, TypeOK
    <2> QED BY <1>2, <2>1, <2>5, <2>7, <2>8
          DEF ValuesEntry, Inv, TypeOK, AtProbe, AtGettable, AtEntries, AtCommands, AtFields
  <1> QED BY <1>1, <1>2

LEMMA InvCommands ==
  ASSUME Inv, Command \/ NoCommand \/ CommandsEnd PROVE Inv'
  <1>1. CASE Command
    <2> DEFINE t == <<"dataKey", "command", "dataKey", "command", "nil">>
    <2>1. pc = "commands" /\ Len(stack) >= 2 /\ Under = "data"
      BY <1>1 DEF Command, Inv, AtCommands
    <2>2. stack' = Popped(stack, 1) \o t /\ t \in Seq(Slots) /\ Len(t) = 5 /\ 1 \in 0..Len(stack)
      BY <1>1, <2>1, SlotNames, StackLength DEF Command
    <2>3. /\ stack' \in Seq(Slots)
          /\ Len(stack') = Len(stack) - 1 + Len(t)
          /\ \A i \in 1..(Len(stack) - 1) : stack'[i] = stack[i]
          /\ \A i \in 1..Len(t) : stack'[Len(stack) - 1 + i] = t[i]
      BY <2>2, StackLength, PopPushLemma, SMTT(30)
    <2>4. /\ stack'[Len(stack) - 1 + 1] = "dataKey"
          /\ stack'[Len(stack) - 1 + 4] = "command"
          /\ stack'[Len(stack) - 1 + 5] = "nil"
      BY <2>2, <2>3
    <2>5. Len(stack') = Len(stack) + 4
      BY <2>1, <2>2, <2>3, StackLength
    <2> HIDE DEF t
    <2>6. AtFields'
      <3>1. /\ Len(stack') >= 6
            /\ Len(stack') - 5 = Len(stack) - 1
            /\ Len(stack') - 4 = Len(stack) - 1 + 1
            /\ Len(stack') - 1 = Len(stack) - 1 + 4
            /\ Len(stack') = Len(stack) - 1 + 5
        BY <2>1, <2>5, StackLength
      <3>2. Len(stack) - 1 \in 1..(Len(stack) - 1)
        BY <2>1, StackLength
      <3>3. stack'[Len(stack) - 1] = "data"
        BY <2>1, <2>3, <3>2
      <3> QED BY <2>4, <3>1, <3>3 DEF AtFields
    <2>7. entries' \in Counts /\ inside' \in Counts
      BY <1>1, CountsDown DEF Command, Inv, TypeOK
    <2> QED BY <1>1, <2>1, <2>3, <2>6, <2>7
          DEF Command, Inv, TypeOK, AtProbe, AtGettable, AtEntries, AtValues, AtCommands
  <1>2. CASE NoCommand
    <2> DEFINE q == Popped(stack, 1) \o <<"dataKey", "value", "dataKey">>
    <2>1. pc = "commands" /\ Len(stack) >= 2 /\ Under = "data"
      BY <1>2 DEF NoCommand, Inv, AtCommands
    <2>2. stack' = Popped(q, 2)
      BY <1>2 DEF NoCommand
    <2>3. /\ q \in Seq(Slots)
          /\ Len(q) = Len(stack) + 2
          /\ q[Len(stack)] = "dataKey"
          /\ \A i \in 1..(Len(stack) - 1) : q[i] = stack[i]
      BY <2>1, SlotNames, StackLength, TriplePushed
    <2> HIDE DEF q
    <2>4. Len(q) >= 2 /\ Len(q) - 2 = Len(stack)
      BY <2>3, StackLength
    <2>5. /\ stack' \in Seq(Slots)
          /\ Len(stack') = Len(q) - 2
          /\ \A i \in 1..(Len(q) - 2) : stack'[i] = q[i]
      BY <2>2, <2>3, <2>4, SlotsDropped
    <2>6. /\ Len(stack') = Len(stack)
          /\ stack'[Len(stack)] = "dataKey"
          /\ \A i \in 1..(Len(stack) - 1) : stack'[i] = stack[i]
      BY <2>1, <2>3, <2>4, <2>5, StackLength
    <2>7. AtCommands'
      BY <2>1, <2>5, <2>6, StackLength DEF AtCommands
    <2>8. entries' \in Counts
      BY <1>2, CountsDown DEF NoCommand, Inv, TypeOK
    <2> QED BY <1>2, <2>1, <2>5, <2>7, <2>8
          DEF NoCommand, Inv, TypeOK, AtProbe, AtGettable, AtEntries, AtValues, AtFields
  <1>3. CASE CommandsEnd
    <2>1. Len(stack) >= 2
      BY <1>3 DEF CommandsEnd, Inv, AtCommands
    <2>2. Popped(stack, 1) \in Seq(Slots) /\ Len(Popped(stack, 1)) = Len(stack) - 1
      BY <2>1, StackLength, SlotsDropped
    <2>3. Len(Popped(stack, 1)) >= 1
      BY <2>1, <2>2, StackLength
    <2>4. stack' \in Seq(Slots)
      BY <1>3, <2>2, <2>3, SlotsDropped DEF CommandsEnd
    <2> QED BY <1>3, <2>4, InvIdle DEF CommandsEnd, Inv, TypeOK
  <1> QED BY <1>1, <1>2, <1>3

LEMMA InvFields == ASSUME Inv, Field \/ CommandEnds PROVE Inv'
  <1>1. CASE Field
    <2> DEFINE q == Popped(stack, 1) \o <<"commandKey", "value", "commandKey">>
    <2>1. pc = "fields" /\ Len(stack) >= 6 /\ Under = "command"
          /\ stack[Len(stack) - 5] = "data" /\ stack[Len(stack) - 4] = "dataKey"
      BY <1>1 DEF Field, Inv, AtFields
    <2>2. stack' = Popped(q, 2)
      BY <1>1 DEF Field
    <2>3. /\ q \in Seq(Slots)
          /\ Len(q) = Len(stack) + 2
          /\ q[Len(stack)] = "commandKey"
          /\ \A i \in 1..(Len(stack) - 1) : q[i] = stack[i]
      BY <2>1, SlotNames, StackLength, TriplePushed
    <2> HIDE DEF q
    <2>4. Len(q) >= 2 /\ Len(q) - 2 = Len(stack)
      BY <2>3, StackLength
    <2>5. /\ stack' \in Seq(Slots)
          /\ Len(stack') = Len(q) - 2
          /\ \A i \in 1..(Len(q) - 2) : stack'[i] = q[i]
      BY <2>2, <2>3, <2>4, SlotsDropped
    <2>6. /\ Len(stack') = Len(stack)
          /\ stack'[Len(stack)] = "commandKey"
          /\ \A i \in 1..(Len(stack) - 1) : stack'[i] = stack[i]
      BY <2>1, <2>3, <2>4, <2>5, StackLength
    <2>7. AtFields'
      <3>1. {Len(stack) - 5, Len(stack) - 4, Len(stack) - 1} \subseteq 1..(Len(stack) - 1)
        BY <2>1, StackLength
      <3>2. /\ stack'[Len(stack) - 5] = "data"
            /\ stack'[Len(stack) - 4] = "dataKey"
            /\ stack'[Len(stack) - 1] = "command"
        BY <2>1, <2>6, <3>1
      <3> QED BY <2>1, <2>6, <3>2 DEF AtFields
    <2>8. inside' \in Counts
      BY <1>1, CountsDown DEF Field, Inv, TypeOK
    <2> QED BY <1>1, <2>1, <2>5, <2>7, <2>8
          DEF Field, Inv, TypeOK, AtProbe, AtGettable, AtEntries, AtValues, AtCommands
  <1>2. CASE CommandEnds
    <2> DEFINE p == Popped(stack, 1)
               q == Popped(p, 1)
    <2>1. /\ Len(stack) >= 6
          /\ stack[Len(stack) - 5] = "data"
          /\ stack[Len(stack) - 4] = "dataKey"
      BY <1>2 DEF CommandEnds, Inv, AtFields
    <2>2. stack' = Popped(q, 2)
      BY <1>2 DEF CommandEnds
    <2>3. /\ p \in Seq(Slots)
          /\ Len(p) = Len(stack) - 1
          /\ \A i \in 1..(Len(stack) - 1) : p[i] = stack[i]
      BY <2>1, StackLength, SlotsDropped, SMTT(30)
    <2>4. Len(p) >= 1
      BY <2>1, <2>3, StackLength
    <2> HIDE DEF p
    <2>5. /\ q \in Seq(Slots)
          /\ Len(q) = Len(p) - 1
          /\ \A i \in 1..(Len(p) - 1) : q[i] = p[i]
      BY <2>3, <2>4, SlotsDropped
    <2>6. Len(q) >= 2
      BY <2>1, <2>3, <2>5, StackLength
    <2> HIDE DEF q
    <2>7. /\ stack' \in Seq(Slots)
          /\ Len(stack') = Len(q) - 2
          /\ \A i \in 1..(Len(q) - 2) : stack'[i] = q[i]
      BY <2>2, <2>5, <2>6, SlotsDropped
    <2>8. /\ Len(stack') = Len(stack) - 4
          /\ stack'[Len(stack) - 4] = "dataKey"
          /\ stack'[Len(stack) - 5] = "data"
      <3>1. Len(q) - 2 = Len(stack) - 4 /\ Len(p) - 1 = Len(stack) - 2
        BY <2>3, <2>5, StackLength
      <3>2. {Len(stack) - 4, Len(stack) - 5} \subseteq 1..(Len(stack) - 4)
        BY <2>1, StackLength
      <3>3. \A i \in 1..(Len(stack) - 4) : stack'[i] = stack[i]
        BY <2>3, <2>5, <2>7, <3>1, StackLength
      <3> QED BY <2>1, <2>7, <3>1, <3>2, <3>3, StackLength
    <2>9. AtCommands'
      BY <2>1, <2>8, StackLength DEF AtCommands
    <2> QED BY <1>2, <2>7, <2>9
          DEF CommandEnds, Inv, TypeOK, AtProbe, AtGettable, AtEntries, AtValues, AtFields
  <1> QED BY <1>1, <1>2

-------------------------------------------------------------------------------
(* The results *)

\* No step of a routine breaks it.
LEMMA InvStep == Inv /\ [Next]_vars => Inv'
  <1> SUFFICES ASSUME Inv, [Next]_vars PROVE Inv'
    OBVIOUS
  <1>1. CASE Overflow
    BY <1>1, InvIdle DEF Overflow, Inv, TypeOK
  <1>2. CASE UNCHANGED vars
    BY <1>2 DEF vars, Inv, TypeOK, AtProbe, AtGettable, AtEntries, AtValues, AtCommands, AtFields
  <1> QED BY <1>1, <1>2, InvInvoke, InvProbe, InvTable, InvValues, InvCommands, InvFields DEF Next

LEMMA Invariance == Spec => []Inv
  BY InvInit, InvStep, PTL DEF Spec

\* The walks of OutStation.cpp:28-164, MappingOutstation.cpp:246-417 and
\* MasterStation.cpp:126-193 keep every variable in its type, for tables of any
\* number of entries.
THEOREM Typing == Spec => []TypeOK
  <1>1. Inv => TypeOK
    BY DEF Inv
  <1> QED BY <1>1, Invariance, PTL

\* lua_next and lua_gettable always find a table below the key they are asked
\* about, however many entries the tables have, whatever is configured, and
\* whatever earlier calls left on the stack of a master.
THEOREM TablesWalked == Spec => []WalksTables
  BY InvWalks, Invariance, PTL

-------------------------------------------------------------------------------
(* The commands that a table holds *)

\* The command of an inner table, and those of the entries of d.
CmdOf(t) == [fType |-> Written(t, 1, ""), fName |-> Written(t, 2, ""),
             index |-> Written(t, 3, 0), value |-> Written(t, 4, 0)]
CmdsIn(d) == [i \in DOMAIN d |-> IF d[i] = NotATable THEN <<>> ELSE <<CmdOf(d[i])>>]
Listing(d, n) == Gathered(CmdsIn(d), n)

\* What occurs in them.
Cmds(d) == {CmdOf(d[i]) : i \in DOMAIN d}
Datum(d) == {c.fType : c \in Cmds(d)} \cup {c.fName : c \in Cmds(d)} \cup {c.index : c \in Cmds(d)}
              \cup {c.value : c \in Cmds(d)} \cup {ControlCode[v] : v \in DOMAIN ControlCode}
              \cup {"Scan"}

LEMMA DatumOf ==
  ASSUME NEW d, NEW c \in Cmds(d)
  PROVE  /\ {c.fType, c.fName, c.index, c.value} \subseteq Datum(d)
         /\ "Scan" \in Datum(d)
         /\ \A v \in DOMAIN ControlCode : ControlCode[v] \in Datum(d)
  BY DEF Datum

\* An entry of d has one command, or none.
LEMMA CmdsSingle ==
  ASSUME NEW d, NEW n \in Nat, DOMAIN d = 1..n
  PROVE  /\ Singles(CmdsIn(d), n, Cmds(d))
         /\ \A i \in 1..n : CmdsIn(d)[i] = IF d[i] = NotATable THEN <<>> ELSE <<CmdOf(d[i])>>
         /\ \A i \in 1..n : CmdOf(d[i]) \in Cmds(d)
<1>1. /\ \A i \in 1..n : CmdsIn(d)[i] = IF d[i] = NotATable THEN <<>> ELSE <<CmdOf(d[i])>>
      /\ \A i \in 1..n : CmdOf(d[i]) \in Cmds(d)
  BY DEF CmdsIn, Cmds
<1> QED BY <1>1 DEF Singles

\* The next entry of d brings its command, if it is a table.
LEMMA ListingNext ==
  ASSUME NEW d, NEW n \in Nat, DOMAIN d = 1..n, NEW k \in Nat, k + 1 <= n
  PROVE  /\ Listing(d, k) \in Seq(Cmds(d))
         /\ Listing(d, k + 1) = IF d[k + 1] = NotATable THEN Listing(d, k)
                                ELSE Append(Listing(d, k), CmdOf(d[k + 1]))
<1>1. k + 1 \in 1..n
  OBVIOUS
<1>2. /\ Listing(d, k) \in Seq(Cmds(d))
      /\ Listing(d, k + 1) = Listing(d, k) \o CmdsIn(d)[k + 1]
      /\ CmdsIn(d)[k + 1] = <<>> => Listing(d, k + 1) = Listing(d, k)
  <2>1. Grows(CmdsIn(d), n, Cmds(d))
    BY CmdsSingle, SinglesNext
  <2> QED BY <2>1 DEF Grows, Listing
<1>3. CASE d[k + 1] = NotATable
  BY <1>1, <1>2, <1>3, CmdsSingle
<1>4. CASE d[k + 1] # NotATable
  <2>1. CmdsIn(d)[k + 1] = <<CmdOf(d[k + 1])>> /\ CmdOf(d[k + 1]) \in Cmds(d)
    BY <1>1, <1>4, CmdsSingle
  <2>2. ASSUME NEW S, NEW s \in Seq(S), NEW x \in S PROVE s \o <<x>> = Append(s, x)
    OBVIOUS
  <2> QED BY <1>2, <1>4, <2>1, <2>2
<1> QED BY <1>3, <1>4

\* The first k entries bring as many commands as there are tables among them.
LEMMA ListingLength ==
  ASSUME NEW d, NEW n \in Nat, DOMAIN d = 1..n, NEW k \in 0..n
  PROVE  /\ Listing(d, k) \in Seq(Cmds(d))
         /\ Len(Listing(d, k)) = Cardinality({i \in 1..k : d[i] # NotATable})
<1>1. Singles(CmdsIn(d), k, Cmds(d))
  BY CmdsSingle DEF Singles
<1>2. Listing(d, k) \in Seq(Cmds(d))
  BY <1>1, SinglesType, GatheredType DEF Listing
<1>3. {i \in 1..k : CmdsIn(d)[i] # <<>>} = {i \in 1..k : d[i] # NotATable}
  <2>1. ASSUME NEW i \in 1..k PROVE CmdsIn(d)[i] # <<>> <=> d[i] # NotATable
    <3>1. i \in 1..n
      OBVIOUS
    <3>2. CmdsIn(d)[i] = IF d[i] = NotATable THEN <<>> ELSE <<CmdOf(d[i])>>
      BY <3>1, CmdsSingle
    <3> QED BY <3>2
  <2> QED BY <2>1
<1>4. Len(Listing(d, k)) = Cardinality({i \in 1..k : CmdsIn(d)[i] # <<>>})
  BY <1>1, GatheredLength DEF Listing
<1> QED BY <1>2, <1>3, <1>4

-------------------------------------------------------------------------------
(* What becomes of the commands *)

\* The object that a command gets into the request of kind k, with its header's
\* name, and the scan that it is.
Told(k, c) ==
    IF c.fType = k /\ (c.fName \in AnalogNames \/ (c.fName = "CROB" /\ c.value \in DOMAIN ControlCode))
    THEN <<<<c.fName, c.index, IF c.fName = "CROB" THEN ControlCode[c.value] ELSE c.value>>>>
    ELSE <<>>
Scanned(c) ==
    IF c.fType = "Scan" /\ c.fName \in ScanNames
    THEN <<[kind |-> "Scan", name |-> c.fName, from |-> c.index, to |-> c.value]>> ELSE <<>>

Teller(d, k) == [c \in Cmds(d) |-> Told(k, c)]
Scanner(d) == [c \in Cmds(d) |-> Scanned(c)]
ScanReq(d) == [kind : {"Scan"}, name : Datum(d), from : Datum(d), to : Datum(d)]

LEMMA TellerMaps ==
  ASSUME NEW d, NEW k PROVE Maps(Teller(d, k), Cmds(d), Seq(Datum(d)))
<1>1. ASSUME NEW c \in Cmds(d) PROVE Told(k, c) \in Seq(Seq(Datum(d)))
  <2> DEFINE v == IF c.fName = "CROB" THEN ControlCode[c.value] ELSE c.value
  <2>1. CASE c.fType = k /\ (c.fName \in AnalogNames \/ (c.fName = "CROB" /\ c.value \in DOMAIN ControlCode))
    <3>1. v \in Datum(d) /\ c.fName \in Datum(d) /\ c.index \in Datum(d)
      BY <2>1, DatumOf, NameAssumption
    <3> HIDE DEF v
    <3>2. <<c.fName, c.index, v>> \in Seq(Datum(d))
      BY <3>1
    <3>3. <<<<c.fName, c.index, v>>>> \in Seq(Seq(Datum(d)))
      BY <3>2
    <3> QED BY <2>1, <3>3 DEF Told, v
  <2>2. CASE ~(c.fType = k /\ (c.fName \in AnalogNames \/ (c.fName = "CROB" /\ c.value \in DOMAIN ControlCode)))
    <3>1. Told(k, c) = <<>>
      BY <2>2 DEF Told
    <3> QED BY <3>1
  <2> QED BY <2>1, <2>2
<1> QED BY <1>1 DEF Maps, Teller

LEMMA ScannerMaps ==
  ASSUME NEW d PROVE Maps(Scanner(d), Cmds(d), ScanReq(d))
<1>1. ASSUME NEW c \in Cmds(d) PROVE Scanned(c) \in Seq(ScanReq(d))
  <2> DEFINE r == [kind |-> "Scan", name |-> c.fName, from |-> c.index, to |-> c.value]
  <2>1. r \in ScanReq(d)
    BY DatumOf DEF ScanReq
  <2> HIDE DEF r
  <2>2. <<r>> \in Seq(ScanReq(d)) /\ <<>> \in Seq(ScanReq(d))
    BY <2>1
  <2>3. Scanned(c) \in {<<r>>, <<>>}
    BY DEF Scanned, r
  <2> QED BY <2>2, <2>3
<1> QED BY <1>1 DEF Maps, Scanner

-------------------------------------------------------------------------------
(* The headers of a request *)

\* The headers of a request, and the objects under one, as ObjectsIn gives them.
Obj(d) == [index : Datum(d), value : Datum(d)]
Hdr(d) == [name : Datum(d), objects : Seq(Obj(d))]
Label(h) == [o \in DOMAIN h.objects |-> <<h.name, h.objects[o].index, h.objects[o].value>>]
Labels(d) == [h \in Hdr(d) |-> Label(h)]

LEMMA LabelsMap == ASSUME NEW d PROVE Maps(Labels(d), Hdr(d), Seq(Datum(d)))
<1>0. ASSUME NEW S, NEW s \in Seq(S), NEW n \in Nat, n = Len(s)
      PROVE  DOMAIN s = 1..n /\ \A o \in 1..n : s[o] \in S
  BY <1>0
<1>1. ASSUME NEW h \in Hdr(d) PROVE Label(h) \in Seq(Seq(Datum(d)))
  <2>1. /\ h.name \in Datum(d)
        /\ h.objects \in Seq(Obj(d))
    BY DEF Hdr
  <2>2. PICK n \in Nat : n = Len(h.objects)
    BY <2>1
  <2>3. /\ DOMAIN h.objects = 1..n
        /\ \A o \in 1..n : h.objects[o] \in Obj(d)
    BY <1>0, <2>1, <2>2
  <2>4. ASSUME NEW o \in 1..n
        PROVE  <<h.name, h.objects[o].index, h.objects[o].value>> \in Seq(Datum(d))
    <3>1. h.objects[o].index \in Datum(d) /\ h.objects[o].value \in Datum(d)
      BY <2>3 DEF Obj
    <3> QED BY <2>1, <3>1
  <2> DEFINE F == [o \in 1..n |-> <<h.name, h.objects[o].index, h.objects[o].value>>]
  <2>5. F \in Seq(Seq(Datum(d)))
    <3> DEFINE G(o) == <<h.name, h.objects[o].index, h.objects[o].value>>
    <3>1. \A o \in 1..n : G(o) \in Seq(Datum(d))
      BY <2>4
    <3> HIDE DEF G
    <3>2. [o \in 1..n |-> G(o)] \in [1..n -> Seq(Datum(d))]
      BY <3>1
    <3>3. [o \in 1..n |-> G(o)] \in Seq(Seq(Datum(d)))
      BY <3>2
    <3> QED BY <3>3 DEF G
  <2>6. Label(h) = F
    BY <2>3 DEF Label
  <2> QED BY <2>5, <2>6
<1> QED BY <1>1 DEF Maps, Labels

\* ObjectsIn puts together what is under each header.
LEMMA ObjectsMapped ==
  ASSUME NEW d, NEW hs \in Seq(Hdr(d)) PROVE ObjectsIn(hs) = Mapped(Labels(d), hs)
<1>1. PICK n \in Nat : n = Len(hs)
  OBVIOUS
<1>2. DOMAIN hs = 1..n /\ \A j \in 1..n : hs[j] \in Hdr(d)
  BY <1>1
<1>3. [h \in DOMAIN hs |-> Label(hs[h])] = [j \in 1..Len(hs) |-> Labels(d)[hs[j]]]
  <2>1. \A j \in 1..n : Labels(d)[hs[j]] = Label(hs[j])
    BY <1>2 DEF Labels
  <2> QED BY <1>1, <1>2, <2>1
<1> QED BY <1>3 DEF ObjectsIn, Mapped, Label

LEMMA ObjectsNone == ObjectsIn(<<>>) = <<>>
<1>1. <<>> \in Seq(Hdr(<<>>))
  OBVIOUS
<1> QED BY <1>1, ObjectsMapped, MappedNone

\* A command adds to the objects of its request the one it is told with.
LEMMA HeadersTold ==
  ASSUME NEW d, NEW c \in Cmds(d), NEW hs \in Seq(Hdr(d))
  PROVE  /\ hs \o Headers(c) \in Seq(Hdr(d))
         /\ ObjectsIn(hs \o Headers(c)) = ObjectsIn(hs) \o Told(c.fType, c)
<1> DEFINE h == [name |-> c.fName, objects |-> Objects(c)]
<1>1. CASE c.fName \notin AnalogNames \cup {"CROB"}
  <2>1. Headers(c) = <<>> /\ Told(c.fType, c) = <<>>
    BY <1>1 DEF Headers, Told
  <2>2. hs \o <<>> = hs
    OBVIOUS
  <2>3. ObjectsIn(hs) \in Seq(Seq(Datum(d)))
    BY ObjectsMapped, LabelsMap, MappedType
  <2>4. ObjectsIn(hs) \o <<>> = ObjectsIn(hs)
    BY <2>3
  <2> QED BY <2>1, <2>2, <2>4
<1>2. CASE c.fName \in AnalogNames \cup {"CROB"}
  <2>1. Objects(c) \in Seq(Obj(d)) /\ Label(h) = Told(c.fType, c)
    <3>1. ASSUME NEW v \in Datum(d), Objects(c) = <<[index |-> c.index, value |-> v]>>,
                 Told(c.fType, c) = <<<<c.fName, c.index, v>>>>
          PROVE  /\ Objects(c) \in Seq(Obj(d))
                 /\ Label(h) = Told(c.fType, c)
      <4>1. [index |-> c.index, value |-> v] \in Obj(d)
        BY DatumOf DEF Obj
      <4>2. Objects(c) \in Seq(Obj(d))
        BY <3>1, <4>1
      <4>3. /\ DOMAIN Objects(c) = 1..1
            /\ Objects(c)[1].index = c.index /\ Objects(c)[1].value = v
        BY <3>1
      <4>4. Label(h) = [o \in 1..1 |-> <<c.fName, c.index, v>>]
        BY <4>3 DEF Label
      <4>5. \A x : [o \in 1..1 |-> x] = <<x>>
        OBVIOUS
      <4> QED BY <3>1, <4>2, <4>4, <4>5
    <3>2. CASE c.fName # "CROB"
      <4>1. c.value \in Datum(d)
        BY DatumOf
      <4>2. Objects(c) = <<[index |-> c.index, value |-> c.value]>>
        BY <3>2 DEF Objects
      <4>3. Told(c.fType, c) = <<<<c.fName, c.index, c.value>>>>
        BY <1>2, <3>2 DEF Told
      <4> QED BY <3>1, <4>1, <4>2, <4>3
    <3>3. CASE c.fName = "CROB" /\ c.value \in DOMAIN ControlCode
      <4>1. ControlCode[c.value] \in Datum(d)
        BY <3>3, DatumOf
      <4>2. Objects(c) = <<[index |-> c.index, value |-> ControlCode[c.value]]>>
        BY <3>3 DEF Objects
      <4>3. Told(c.fType, c) = <<<<c.fName, c.index, ControlCode[c.value]>>>>
        BY <3>3 DEF Told
      <4> QED BY <3>1, <4>1, <4>2, <4>3
    <3>4. CASE c.fName = "CROB" /\ c.value \notin DOMAIN ControlCode
      <4>1. Objects(c) = <<>>
        BY <3>4 DEF Objects
      <4>2. Told(c.fType, c) = <<>>
        BY <3>4, NameAssumption DEF Told
      <4>3. DOMAIN h.objects = {}
        BY <4>1
      <4>4. Label(h) = <<>>
        BY <4>3 DEF Label
      <4> QED BY <4>1, <4>2, <4>4
    <3> QED BY <3>2, <3>3, <3>4
  <2>2. h \in Hdr(d)
    BY <2>1, DatumOf DEF Hdr
  <2>3. Headers(c) = <<h>>
    BY <1>2 DEF Headers
  <2>4. Labels(d)[h] = Label(h)
    BY <2>2 DEF Labels
  <2> HIDE DEF h
  <2>5. hs \o <<h>> \in Seq(Hdr(d))
    BY <2>2
  <2>6. Mapped(Labels(d), hs \o <<h>>) = Mapped(Labels(d), hs) \o Labels(d)[h]
    <3>1. Extends(Labels(d), Hdr(d))
      BY LabelsMap, MappedNext
    <3> QED BY <2>2, <3>1 DEF Extends
  <2> QED BY <2>1, <2>3, <2>4, <2>5, <2>6, ObjectsMapped
<1> QED BY <1>1, <1>2

-------------------------------------------------------------------------------
(* Halfway through the list *)

\* The commands of d that have been done, those that have not, and what has
\* been made of the former.
Midway(d, done, rest, ss, w, rs) ==
    /\ Listing(d, Len(d)) = done \o rest
    /\ w = {k \in SetKinds : \E j \in 1..Len(done) : done[j].fType = k}
    /\ \A k \in SetKinds : ObjectsIn(ss[k]) = Mapped(Teller(d, k), done)
    /\ rs = Mapped(Scanner(d), done)

MidwayAt(d, rest, ss, w, rs) ==
    /\ rest \in Seq(Cmds(d))
    /\ ss \in [SetKinds -> Seq(Hdr(d))]
    /\ \E done \in Seq(Cmds(d)) : Midway(d, done, rest, ss, w, rs)

\* Before the first command, all are left, and nothing has been made of them.
LEMMA MidwayStart ==
  ASSUME NEW d, NEW n \in Nat, DOMAIN d = 1..n, n = Len(d)
  PROVE  MidwayAt(d, Listing(d, Len(d)), EmptySets, {}, <<>>)
<1>1. n \in 0..n
  OBVIOUS
<1>2. Listing(d, Len(d)) \in Seq(Cmds(d))
  BY <1>1, ListingLength
<1>3. ASSUME NEW S, NEW s \in Seq(S) PROVE s = <<>> \o s /\ <<>> \in Seq(S)
  OBVIOUS
<1>4. EmptySets \in [SetKinds -> Seq(Hdr(d))]
  BY <1>3 DEF EmptySets
<1>5. Midway(d, <<>>, Listing(d, Len(d)), EmptySets, {}, <<>>)
  <2>1. Listing(d, Len(d)) = <<>> \o Listing(d, Len(d))
    BY <1>2, <1>3
  <2>2. \A k \in SetKinds : ObjectsIn(EmptySets[k]) = Mapped(Teller(d, k), <<>>)
    BY ObjectsNone, MappedNone DEF EmptySets
  <2>3. {} = {k \in SetKinds : \E j \in 1..Len(<<>>) : <<>>[j].fType = k}
    OBVIOUS
  <2> QED BY <2>1, <2>2, <2>3, MappedNone DEF Midway
<1>6. <<>> \in Seq(Cmds(d))
  OBVIOUS
<1> QED BY <1>2, <1>4, <1>5, <1>6 DEF MidwayAt

LEMMA TellerNext ==
  ASSUME NEW d, NEW k, NEW s \in Seq(Cmds(d)), NEW c \in Cmds(d)
  PROVE  Mapped(Teller(d, k), s \o <<c>>) = Mapped(Teller(d, k), s) \o Told(k, c)
<1>1. Mapped(Teller(d, k), s \o <<c>>) = Mapped(Teller(d, k), s) \o Teller(d, k)[c]
  <2>1. Extends(Teller(d, k), Cmds(d))
    BY TellerMaps, MappedNext
  <2> QED BY <2>1 DEF Extends
<1> QED BY <1>1 DEF Teller

LEMMA ScannerNext ==
  ASSUME NEW d, NEW s \in Seq(Cmds(d)), NEW c \in Cmds(d)
  PROVE  Mapped(Scanner(d), s \o <<c>>) = Mapped(Scanner(d), s) \o Scanned(c)
<1>1. Mapped(Scanner(d), s \o <<c>>) = Mapped(Scanner(d), s) \o Scanner(d)[c]
  <2>1. Extends(Scanner(d), Cmds(d))
    BY ScannerMaps, MappedNext
  <2> QED BY <2>1 DEF Extends
<1> QED BY <1>1 DEF Scanner

\* The requests ss have become tt with one more command.
Adds(ss, tt, c) == \A k \in SetKinds : ObjectsIn(tt[k]) = ObjectsIn(ss[k]) \o Told(k, c)

\* The next command is done.
LEMMA MidwayNext ==
  ASSUME NEW d, NEW rest, NEW ss, NEW w, NEW rs, MidwayAt(d, rest, ss, w, rs), rest # <<>>,
         NEW c, c = Head(rest),
         NEW tt \in [SetKinds -> Seq(Hdr(d))], Adds(ss, tt, c)
  PROVE  MidwayAt(d, Tail(rest), tt, w \cup ({c.fType} \cap SetKinds), rs \o Scanned(c))
<1>0. PICK v, qs : v = w \cup ({c.fType} \cap SetKinds) /\ qs = rs \o Scanned(c)
  OBVIOUS
<1>1. PICK done \in Seq(Cmds(d)) : Midway(d, done, rest, ss, w, rs)
  BY DEF MidwayAt
<1>3. PICK more : more = done \o <<c>>
  OBVIOUS
<1>4. ASSUME NEW S, NEW s \in Seq(S), NEW t \in Seq(S), t # <<>>
      PROVE  /\ Head(t) \in S /\ Tail(t) \in Seq(S)
             /\ s \o t = (s \o <<Head(t)>>) \o Tail(t)
  BY <1>4
<1>5. /\ rest \in Seq(Cmds(d)) /\ c \in Cmds(d) /\ Tail(rest) \in Seq(Cmds(d))
      /\ done \o rest = more \o Tail(rest)
  BY <1>3, <1>4 DEF MidwayAt
<1>6. /\ more \in Seq(Cmds(d)) /\ Len(done) \in Nat /\ Len(more) = Len(done) + 1
      /\ more[Len(done) + 1] = c /\ \A j \in 1..Len(done) : more[j] = done[j]
  BY <1>3, <1>5
<1>7. v = {k \in SetKinds : \E j \in 1..Len(more) : more[j].fType = k}
  <2>1. w = {k \in SetKinds : \E j \in 1..Len(done) : done[j].fType = k}
    BY <1>1 DEF Midway
  <2>2. ASSUME NEW k \in SetKinds
        PROVE  (\E j \in 1..Len(more) : more[j].fType = k)
                  <=> (\E j \in 1..Len(done) : done[j].fType = k) \/ c.fType = k
    <3>1. 1..Len(more) = 1..Len(done) \cup {Len(done) + 1}
      BY <1>6
    <3>2. \A j \in 1..Len(done) : more[j].fType = done[j].fType
      BY <1>6
    <3>3. more[Len(done) + 1].fType = c.fType
      BY <1>6
    <3> QED BY <3>1, <3>2, <3>3
  <2> QED BY <1>0, <2>1, <2>2
<1>8. ASSUME NEW k \in SetKinds PROVE ObjectsIn(tt[k]) = Mapped(Teller(d, k), more)
  <2>1. Mapped(Teller(d, k), more) = Mapped(Teller(d, k), done) \o Told(k, c)
    BY <1>3, <1>5, TellerNext
  <2>3. ObjectsIn(ss[k]) = Mapped(Teller(d, k), done)
    BY <1>1 DEF Midway
  <2> QED BY <2>1, <2>3 DEF Adds
<1>9. qs = Mapped(Scanner(d), more)
  <2>1. Mapped(Scanner(d), more) = Mapped(Scanner(d), done) \o Scanned(c)
    BY <1>3, <1>5, ScannerNext
  <2> QED BY <1>0, <1>1, <2>1 DEF Midway
<1>10. Midway(d, more, Tail(rest), tt, v, qs)
  BY <1>1, <1>5, <1>7, <1>8, <1>9 DEF Midway
<1> QED BY <1>0, <1>5, <1>6, <1>10 DEF MidwayAt

\* A command says nothing to the requests that are not of its kind.
LEMMA ToldOthers ==
  ASSUME NEW c, NEW k, c.fType # k PROVE Told(k, c) = <<>>
  BY DEF Told

LEMMA Silence ==
  ASSUME NEW d, NEW hs \in Seq(Hdr(d)) PROVE ObjectsIn(hs) = ObjectsIn(hs) \o <<>>
<1>1. ObjectsIn(hs) \in Seq(Seq(Datum(d)))
  BY ObjectsMapped, LabelsMap, MappedType
<1> QED BY <1>1

LEMMA MidwayType ==
  ASSUME NEW d, NEW rest, NEW ss, NEW w, NEW rs, MidwayAt(d, rest, ss, w, rs)
  PROVE  /\ rest \in Seq(Cmds(d)) /\ ss \in [SetKinds -> Seq(Hdr(d))]
         /\ rs \in Seq(ScanReq(d)) /\ rs = rs \o <<>>
<1>1. PICK done \in Seq(Cmds(d)) : Midway(d, done, rest, ss, w, rs)
  BY DEF MidwayAt
<1>2. rs \in Seq(ScanReq(d))
  BY <1>1, ScannerMaps, MappedType DEF Midway
<1>3. rs = rs \o <<>>
  BY <1>2
<1> QED BY <1>2, <1>3 DEF MidwayAt

\* Gather does a command of a kind of request.
LEMMA MidwayGather ==
  ASSUME NEW d, NEW rest, NEW ss, NEW w, NEW rs, MidwayAt(d, rest, ss, w, rs), rest # <<>>,
         NEW c, c = Head(rest), c.fType \in SetKinds
  PROVE  MidwayAt(d, Tail(rest), [ss EXCEPT ![c.fType] = @ \o Headers(c)], w \cup {c.fType}, rs)
<1>1. PICK tt : tt = [ss EXCEPT ![c.fType] = @ \o Headers(c)]
  OBVIOUS
<1>2. rest \in Seq(Cmds(d)) /\ ss \in [SetKinds -> Seq(Hdr(d))] /\ rs = rs \o <<>>
  BY MidwayType
<1>3. c \in Cmds(d)
  <2>1. ASSUME NEW S, NEW s \in Seq(S), s # <<>> PROVE Head(s) \in S
    BY <2>1
  <2> QED BY <1>2, <2>1
<1>4. ss[c.fType] \in Seq(Hdr(d))
  BY <1>2
<1>5. /\ ss[c.fType] \o Headers(c) \in Seq(Hdr(d))
      /\ ObjectsIn(ss[c.fType] \o Headers(c)) = ObjectsIn(ss[c.fType]) \o Told(c.fType, c)
  BY <1>3, <1>4, HeadersTold
<1>6. /\ tt \in [SetKinds -> Seq(Hdr(d))]
      /\ tt[c.fType] = ss[c.fType] \o Headers(c)
      /\ \A k \in SetKinds : k # c.fType => tt[k] = ss[k]
  BY <1>1, <1>2, <1>5
<1>7. ASSUME NEW k \in SetKinds PROVE ObjectsIn(tt[k]) = ObjectsIn(ss[k]) \o Told(k, c)
  <2>1. CASE k = c.fType
    BY <1>5, <1>6, <2>1
  <2>2. CASE k # c.fType
    <3>1. tt[k] = ss[k] /\ ss[k] \in Seq(Hdr(d))
      BY <1>2, <1>6, <2>2
    <3>2. ObjectsIn(ss[k]) = ObjectsIn(ss[k]) \o <<>>
      BY <3>1, Silence
    <3> QED BY <2>2, <3>1, <3>2, ToldOthers
  <2> QED BY <2>1, <2>2
<1>8. rs = rs \o Scanned(c)
  BY <1>2 DEF Scanned, SetKinds
<1>9. w \cup {c.fType} = w \cup ({c.fType} \cap SetKinds)
  OBVIOUS
<1>10. Adds(ss, tt, c)
  BY <1>7 DEF Adds
<1>11. MidwayAt(d, Tail(rest), tt, w \cup ({c.fType} \cap SetKinds), rs \o Scanned(c))
  BY <1>6, <1>10, MidwayNext
<1> QED BY <1>1, <1>8, <1>9, <1>11

\* ScanAtOnce and Unrecognized do one of no such kind.
LEMMA MidwayOther ==
  ASSUME NEW d, NEW rest, NEW ss, NEW w, NEW rs, MidwayAt(d, rest, ss, w, rs), rest # <<>>,
         NEW c, c = Head(rest), c.fType \notin SetKinds
  PROVE  MidwayAt(d, Tail(rest), ss, w, rs \o Scanned(c))
<1>1. ss \in [SetKinds -> Seq(Hdr(d))]
  BY MidwayType
<1>2. ASSUME NEW k \in SetKinds PROVE ObjectsIn(ss[k]) = ObjectsIn(ss[k]) \o Told(k, c)
  <2>1. ss[k] \in Seq(Hdr(d))
    BY <1>1
  <2>2. ObjectsIn(ss[k]) = ObjectsIn(ss[k]) \o <<>>
    BY <2>1, Silence
  <2> QED BY <2>2, ToldOthers
<1>3. w = w \cup ({c.fType} \cap SetKinds)
  OBVIOUS
<1>4. Adds(ss, ss, c)
  BY <1>2 DEF Adds
<1>5. MidwayAt(d, Tail(rest), ss, w \cup ({c.fType} \cap SetKinds), rs \o Scanned(c))
  BY <1>1, <1>4, MidwayNext
<1> QED BY <1>3, <1>5

\* What a table asks for is what its command does.
LEMMA AskedOfTable ==
  ASSUME NEW t, t # NotATable, NEW k
  PROVE  /\ ScanAsked(t) = Scanned(CmdOf(t))
         /\ ObjectAsked(k, t) = Told(k, CmdOf(t))
         /\ OfType(t, k) <=> CmdOf(t).fType = k
<1>1. /\ CmdOf(t).fType = Written(t, 1, "") /\ CmdOf(t).fName = Written(t, 2, "")
      /\ CmdOf(t).index = Written(t, 3, 0) /\ CmdOf(t).value = Written(t, 4, 0)
  BY DEF CmdOf
<1>2. \A x : OfType(t, x) <=> CmdOf(t).fType = x
  BY <1>1 DEF OfType
<1>3. ScanAsked(t) = Scanned(CmdOf(t))
  BY <1>1, <1>2 DEF ScanAsked, Scanned
<1>4. ObjectAsked(k, t) = Told(k, CmdOf(t))
  BY <1>1, <1>2 DEF ObjectAsked, Told
<1> QED BY <1>2, <1>3, <1>4

LEMMA AskedOfNone ==
  ASSUME NEW k
  PROVE  /\ ScanAsked(NotATable) = <<>> /\ ObjectAsked(k, NotATable) = <<>>
         /\ ~OfType(NotATable, k)
  BY DEF ScanAsked, ObjectAsked, OfType

\* What the entries of d ask for.
ScansOf(d) == [i \in DOMAIN d |-> ScanAsked(d[i])]
ObjectsOf(d, k) == [i \in DOMAIN d |-> ObjectAsked(k, d[i])]

\* Gathering what the entries ask for goes along with mapping their commands.
LEMMA AskedAgree ==
  ASSUME NEW d, NEW n \in Nat, DOMAIN d = 1..n, NEW k
  PROVE  /\ Agrees(CmdsIn(d), n, Cmds(d), Scanner(d), ScansOf(d))
         /\ Agrees(CmdsIn(d), n, Cmds(d), Teller(d, k), ObjectsOf(d, k))
<1>1. ASSUME NEW i \in 1..n
      PROVE  /\ CmdsIn(d)[i] = <<>> => ScansOf(d)[i] = <<>> /\ ObjectsOf(d, k)[i] = <<>>
             /\ \A y \in Cmds(d) : CmdsIn(d)[i] = <<y>> =>
                    ScansOf(d)[i] = Scanner(d)[y] /\ ObjectsOf(d, k)[i] = Teller(d, k)[y]
  <2>1. /\ ScansOf(d)[i] = ScanAsked(d[i]) /\ ObjectsOf(d, k)[i] = ObjectAsked(k, d[i])
        /\ CmdsIn(d)[i] = IF d[i] = NotATable THEN <<>> ELSE <<CmdOf(d[i])>>
    BY CmdsSingle DEF ScansOf, ObjectsOf
  <2>2. CASE d[i] = NotATable
    BY <2>1, <2>2, AskedOfNone
  <2>3. CASE d[i] # NotATable
    <3>1. CmdsIn(d)[i] = <<CmdOf(d[i])>>
      BY <2>1, <2>3
    <3>2. \A y \in Cmds(d) : Scanner(d)[y] = Scanned(y) /\ Teller(d, k)[y] = Told(k, y)
      BY DEF Scanner, Teller
    <3>3. \A x : \A y : <<x>> = <<y>> => x = y
      OBVIOUS
    <3> QED BY <2>1, <2>3, <3>1, <3>2, <3>3, AskedOfTable
  <2> QED BY <2>2, <2>3
<1> QED BY <1>1 DEF Agrees

\* When there is nothing left to do, everything that the entries ask for is there.
LEMMA MidwayEnd ==
  ASSUME NEW d, NEW n \in Nat, DOMAIN d = 1..n, n = Len(d), NEW ss, NEW w, NEW rs,
         MidwayAt(d, <<>>, ss, w, rs)
  PROVE  /\ rs = FlattenSeq(ScansOf(d))
         /\ \A k \in SetKinds : /\ ObjectsIn(ss[k]) = FlattenSeq(ObjectsOf(d, k))
                                /\ k \in w <=> \E i \in DOMAIN d : OfType(d[i], k)
<1>1. PICK done \in Seq(Cmds(d)) : Midway(d, done, <<>>, ss, w, rs)
  BY DEF MidwayAt
<1>2. PICK all : all = Listing(d, n)
  OBVIOUS
<1>3. done = all /\ all \in Seq(Cmds(d))
  <2>1. done \o <<>> = done
    OBVIOUS
  <2> QED BY <1>1, <1>2, <2>1 DEF Midway
<1>4. Singles(CmdsIn(d), n, Cmds(d))
  BY CmdsSingle
<1>5. ASSUME NEW X, NEW H, DOMAIN H = 1..n, NEW F, Maps(F, Cmds(d), X),
             Agrees(CmdsIn(d), n, Cmds(d), F, H)
      PROVE  Mapped(F, all) = Gathered(H, n)
  BY <1>2, <1>4, <1>5, GatheredMapped DEF Listing
<1>6. FlattenSeq(ScansOf(d)) = Gathered(ScansOf(d), n)
      /\ \A k : FlattenSeq(ObjectsOf(d, k)) = Gathered(ObjectsOf(d, k), n)
  <2>1. ScansOf(d) = [i \in 1..n |-> ScansOf(d)[i]]
    BY DEF ScansOf
  <2>2. \A k : ObjectsOf(d, k) = [i \in 1..n |-> ObjectsOf(d, k)[i]]
    BY DEF ObjectsOf
  <2> QED BY <2>1, <2>2 DEF Gathered
<1>7. rs = FlattenSeq(ScansOf(d))
  <2>1. DOMAIN ScansOf(d) = 1..n
    BY DEF ScansOf
  <2>2. Mapped(Scanner(d), all) = Gathered(ScansOf(d), n)
    BY <2>1, <1>5, ScannerMaps, AskedAgree
  <2> QED BY <1>1, <1>3, <1>6, <2>2 DEF Midway
<1>8. ASSUME NEW k \in SetKinds PROVE ObjectsIn(ss[k]) = FlattenSeq(ObjectsOf(d, k))
  <2>1. DOMAIN ObjectsOf(d, k) = 1..n
    BY DEF ObjectsOf
  <2>2. Mapped(Teller(d, k), all) = Gathered(ObjectsOf(d, k), n)
    BY <2>1, <1>5, TellerMaps, AskedAgree
  <2> QED BY <1>1, <1>3, <1>6, <2>2 DEF Midway
<1>9. ASSUME NEW k \in SetKinds PROVE k \in w <=> \E i \in DOMAIN d : OfType(d[i], k)
  <2>1. k \in w <=> \E j \in 1..Len(all) : all[j].fType = k
    BY <1>1, <1>3 DEF Midway
  <2>2. \A j \in 1..Len(all) : all[j] \in Cmds(d)
    BY <1>3
  <2>3. \A y \in Cmds(d) : (\E j \in 1..Len(all) : all[j] = y) <=> (\E i \in 1..n : CmdsIn(d)[i] = <<y>>)
    <3>1. all = Gathered(CmdsIn(d), n)
      BY <1>2 DEF Listing
    <3> TAKE y \in Cmds(d)
    <3>2. Occurs(Gathered(CmdsIn(d), n), y) <=> Brought(CmdsIn(d), n, y)
      BY <1>4, GatheredElements
    <3> QED BY <3>1, <3>2 DEF Occurs, Brought
  <2>4. k \in w <=> \E y \in Cmds(d) : y.fType = k /\ \E i \in 1..n : CmdsIn(d)[i] = <<y>>
    BY <2>1, <2>2, <2>3
  <2>5. ASSUME NEW i \in 1..n
        PROVE  OfType(d[i], k) <=> \E y \in Cmds(d) : y.fType = k /\ CmdsIn(d)[i] = <<y>>
    <3>1. /\ CmdsIn(d)[i] = IF d[i] = NotATable THEN <<>> ELSE <<CmdOf(d[i])>>
          /\ CmdOf(d[i]) \in Cmds(d)
      BY CmdsSingle
    <3>2. \A x : \A y : (<<x>> = <<y>> => x = y) /\ <<>> # <<y>>
      OBVIOUS
    <3> QED BY <3>1, <3>2, AskedOfTable, AskedOfNone
  <2> QED BY <2>4, <2>5
<1> QED BY <1>7, <1>8, <1>9

-------------------------------------------------------------------------------
(* What has been sent *)

SentAll(s) == [i \in DOMAIN s |-> Sent(s[i])]

\* z is p and then q.
Follows(z, p, q) ==
    /\ Len(z) = Len(p) + Len(q)
    /\ \A i \in 1..Len(p) : z[i] = p[i]
    /\ \A i \in 1..Len(q) : z[Len(p) + i] = q[i]

LEMMA Joined ==
  ASSUME NEW S, NEW p \in Seq(S), NEW q \in Seq(S)
  PROVE  p \o q \in Seq(S) /\ Follows(p \o q, p, q)
  BY DEF Follows

\* What is sent of two sequences of requests is what is sent of each, joined.
LEMMA SentJoined ==
  ASSUME NEW A, NEW s \in Seq(A), NEW t \in Seq(A)
  PROVE  SentAll(s \o t) = SentAll(s) \o SentAll(t)
<1> DEFINE B == {Sent(a) : a \in A}
           u == s \o t
<1>1. PICK m \in Nat, n \in Nat : m = Len(s) /\ n = Len(t)
  OBVIOUS
<1>2. /\ DOMAIN s = 1..m /\ DOMAIN t = 1..n /\ DOMAIN u = 1..(m + n)
      /\ \A i \in 1..m : u[i] = s[i] /\ s[i] \in A
      /\ \A i \in 1..n : u[m + i] = t[i] /\ t[i] \in A
      /\ u \in Seq(A)
  BY <1>1
<1> HIDE DEF u
<1>3. SentAll(s) \in [1..m -> B] /\ SentAll(t) \in [1..n -> B]
  BY <1>2 DEF SentAll
<1>4. \A i \in 1..m : SentAll(s)[i] = Sent(s[i])
  BY <1>2 DEF SentAll
<1>5. \A i \in 1..n : SentAll(t)[i] = Sent(t[i])
  BY <1>2 DEF SentAll
<1>6. /\ DOMAIN SentAll(u) = 1..(m + n)
      /\ \A i \in 1..(m + n) : SentAll(u)[i] = Sent(u[i])
  BY <1>2 DEF SentAll
<1>7. PICK p, q, r : p = SentAll(s) /\ q = SentAll(t) /\ r = SentAll(u)
  OBVIOUS
<1> HIDE DEF B
<1>8. p \in Seq(B) /\ q \in Seq(B) /\ Len(p) = m /\ Len(q) = n
  BY <1>3, <1>7
<1>9. r = p \o q
  <2>0. PICK z : z = p \o q
    OBVIOUS
  <2>1. /\ z \in Seq(B) /\ Len(z) = m + n
        /\ \A i \in 1..m : z[i] = p[i]
        /\ \A i \in 1..n : z[m + i] = q[i]
    <3>1. z \in Seq(B) /\ Follows(z, p, q)
      BY <1>8, <2>0, Joined
    <3> QED BY <1>8, <3>1 DEF Follows
  <2>2. ASSUME NEW i \in 1..(m + n) PROVE r[i] = z[i]
    <3>1. CASE i <= m
      <4>1. i \in 1..m
        BY <3>1
      <4> QED BY <4>1, <2>1, <1>2, <1>4, <1>6, <1>7
    <3>2. CASE i > m
      <4>1. PICK j \in 1..n : i = m + j
        <5>1. i - m \in 1..n /\ i = m + (i - m)
          BY <3>2
        <5> QED BY <5>1
      <4> QED BY <4>1, <2>1, <1>2, <1>5, <1>6, <1>7
    <3> QED BY <3>1, <3>2
  <2>3. r = [i \in 1..(m + n) |-> r[i]]
    BY <1>7, <1>6 DEF SentAll
  <2>4. z = [i \in 1..(m + n) |-> z[i]]
    BY <2>1
  <2> QED BY <2>0, <2>2, <2>3, <2>4
<1> QED BY <1>7, <1>9 DEF u

SetReq(d) == [kind : SetKinds, headers : Seq(Hdr(d))]

\* Scans are sent as they are.
LEMMA ScansAreSent ==
  ASSUME NEW d, NEW rs \in Seq(ScanReq(d)) PROVE SentAll(rs) = rs
<1>1. ASSUME NEW r \in ScanReq(d) PROVE Sent(r) = r
  BY DEF Sent, ScanReq
<1>2. PICK n \in Nat : n = Len(rs)
  OBVIOUS
<1>3. /\ DOMAIN rs = 1..n /\ rs = [i \in 1..n |-> rs[i]]
      /\ \A i \in 1..n : rs[i] \in ScanReq(d)
  BY <1>2
<1> QED BY <1>1, <1>3 DEF SentAll

\* The request of a kind is the one that was asked for, once the sets are complete.
LEMMA RequestSent ==
  ASSUME NEW k \in SetKinds, sets[k] \in Seq(Hdr(data)), ObjectsIn(sets[k]) = ObjectsAsked(k),
         k \in wanted <=> \E i \in DOMAIN data : OfType(data[i], k)
  PROVE  Request(k) \in Seq(SetReq(data)) /\ SentAll(Request(k)) = RequestAsked(k)
<1>1. CASE k \in wanted
  <2>1. PICK r : r = [kind |-> k, headers |-> sets[k]]
    OBVIOUS
  <2>2. Request(k) = <<r>> /\ r \in SetReq(data) /\ k # "Scan"
    BY <1>1, <2>1 DEF Request, SetReq, SetKinds
  <2>3. Sent(r) = [kind |-> k, objects |-> ObjectsAsked(k)]
    BY <2>1, <2>2 DEF Sent
  <2>4. DOMAIN <<r>> = 1..1 /\ <<r>>[1] = r /\ <<r>> \in Seq(SetReq(data))
    BY <2>2
  <2>5. \A x : [i \in 1..1 |-> x] = <<x>>
    OBVIOUS
  <2>6. \A i \in 1..1 : <<r>>[i] = r
    BY <2>4
  <2>7. SentAll(<<r>>) = [i \in 1..1 |-> Sent(r)]
    BY <2>4, <2>6 DEF SentAll
  <2>8. RequestAsked(k) = <<Sent(r)>>
    BY <1>1, <2>3 DEF RequestAsked
  <2> QED BY <2>2, <2>4, <2>5, <2>7, <2>8
<1>2. CASE k \notin wanted
  <2>1. Request(k) = <<>> /\ RequestAsked(k) = <<>>
    BY <1>2 DEF Request, RequestAsked
  <2>2. <<>> \in Seq(SetReq(data)) /\ DOMAIN <<>> = {}
    OBVIOUS
  <2>3. SentAll(<<>>) = <<>>
    BY <2>2 DEF SentAll
  <2> QED BY <2>1, <2>2, <2>3
<1> QED BY <1>1, <1>2

\* When the list is done, what goes out is what the table asks for.
LEMMA AllGoOut ==
  ASSUME NEW n \in Nat, DOMAIN data = 1..n, n = Len(data),
         MidwayAt(data, <<>>, sets, wanted, requests)
  PROVE  SentAll(requests \o Request("SBO") \o Request("DO"))
            = ScansAsked \o RequestAsked("SBO") \o RequestAsked("DO")
<1> DEFINE A == ScanReq(data) \cup SetReq(data)
<1>1. /\ requests = ScansAsked
      /\ \A k \in SetKinds : /\ ObjectsIn(sets[k]) = ObjectsAsked(k)
                             /\ k \in wanted <=> \E i \in DOMAIN data : OfType(data[i], k)
  BY MidwayEnd DEF ScansAsked, ObjectsAsked, ScansOf, ObjectsOf
<1>2. requests \in Seq(ScanReq(data)) /\ sets \in [SetKinds -> Seq(Hdr(data))]
  BY MidwayType
<1>3. ASSUME NEW k \in SetKinds
      PROVE  Request(k) \in Seq(SetReq(data)) /\ SentAll(Request(k)) = RequestAsked(k)
  <2>1. sets[k] \in Seq(Hdr(data))
    BY <1>2
  <2> QED BY <1>1, <2>1, RequestSent
<1>4. PICK q, s, t : q = requests /\ s = Request("SBO") /\ t = Request("DO")
  OBVIOUS
<1>5. ASSUME NEW S, NEW T, S \subseteq T PROVE Seq(S) \subseteq Seq(T)
  BY <1>5
<1>6. ScanReq(data) \subseteq A /\ SetReq(data) \subseteq A
  OBVIOUS
<1>7. "SBO" \in SetKinds /\ "DO" \in SetKinds
  BY DEF SetKinds
<1>8. PICK B : B = A
  OBVIOUS
<1> HIDE DEF A
<1>9. q \in Seq(B) /\ s \in Seq(B) /\ t \in Seq(B)
  <2>1. Seq(ScanReq(data)) \subseteq Seq(A) /\ Seq(SetReq(data)) \subseteq Seq(A)
    BY <1>5, <1>6
  <2> QED BY <1>2, <1>3, <1>4, <1>7, <1>8, <2>1
<1>10. q \o s \in Seq(B)
  BY <1>9
<1>11. SentAll((q \o s) \o t) = SentAll(q \o s) \o SentAll(t)
  BY <1>9, <1>10, SentJoined
<1>12. SentAll(q \o s) = SentAll(q) \o SentAll(s)
  BY <1>9, SentJoined
<1>13. SentAll(q) = ScansAsked
  BY <1>1, <1>2, <1>4, ScansAreSent
<1>14. SentAll(s) = RequestAsked("SBO") /\ SentAll(t) = RequestAsked("DO")
  BY <1>3, <1>4, <1>7
<1> QED BY <1>4, <1>11, <1>12, <1>13, <1>14

-------------------------------------------------------------------------------
(* The inductive invariant *)

\* The script's table: entries one after the other, with finitely many fields each.
Scripted ==
    /\ data \in Seq(Range(data))
    /\ \A t \in Range(data) \ {NotATable} : IsFiniteSet(DOMAIN t)

\* Where each variable has something to say.
AtWork ==
    /\ role = Master => pc \in {"idle", "probe", "commands", "fields", "aborted"}
    /\ role # Master => pc \notin {"commands", "fields"} /\ cmdList = <<>>
    /\ firing => pc = "idle" /\ role = Master
    /\ pc # "fields" => unread = {}
    /\ pc \in {"idle", "probe"} /\ ~firing => cmdList = <<>>
    /\ wanted \subseteq SetKinds
    /\ \A k \in SetKinds : sets[k] # <<>> => k \in wanted
    /\ cmd = [fType |-> cmd.fType, fName |-> cmd.fName, index |-> cmd.index, value |-> cmd.value]

\* Nothing has been made of the commands while the table is walked.
Fresh ==
    pc \in {"probe", "commands", "fields"} => requests = <<>> /\ sets = EmptySets /\ wanted = {}

\* A field that has been read is in the command, the others have their default.
Filled(c, t, left) ==
    /\ c.fType = IF 1 \in left THEN "" ELSE Written(t, 1, "")
    /\ c.fName = IF 2 \in left THEN "" ELSE Written(t, 2, "")
    /\ c.index = IF 3 \in left THEN 0 ELSE Written(t, 3, 0)
    /\ c.value = IF 4 \in left THEN 0 ELSE Written(t, 4, 0)

\* The commands of the entries that the walk has behind it are listed.
AtStart == pc = "probe" /\ role = Master => entries = Len(data)
AtEntry == pc = "commands" => /\ entries <= Len(data)
                              /\ cmdList = Listing(data, Len(data) - entries)
AtField ==
    pc = "fields" => /\ entries < Len(data)
                     /\ Inner # NotATable
                     /\ cmdList = Listing(data, Len(data) - entries - 1)
                     /\ unread \subseteq DOMAIN Inner
                     /\ Cardinality(unread) = inside
                     /\ Filled(cmd, Inner, unread)

Firing == firing => MidwayAt(data, cmdList, sets, wanted, requests)

CInv == Inv /\ Scripted /\ AtWork /\ Fresh /\ AtStart /\ AtEntry /\ AtField /\ Firing /\ CommandsGoOut

\* The entries of data have the numbers from 1 to its length.
LEMMA ScriptLength ==
  ASSUME Scripted
  PROVE  \E n \in Nat : /\ n = Len(data) /\ DOMAIN data = 1..n
                        /\ \A i \in 1..n : data[i] # NotATable => IsFiniteSet(DOMAIN data[i])
<1>1. PICK n \in Nat : n = Len(data)
  BY DEF Scripted
<1>2. DOMAIN data = 1..n
  BY <1>1 DEF Scripted
<1>3. \A i \in 1..n : data[i] \in Range(data)
  BY <1>2 DEF Range
<1> QED BY <1>1, <1>2, <1>3 DEF Scripted

\* What CommandsGoOut says of an idle master, in terms of the whole list.
LEMMA GoOutSent ==
  CommandsGoOut <=> (pc = "idle" /\ ~firing /\ role = Master =>
                        SentAll(requests) = ScansAsked \o RequestAsked("SBO") \o RequestAsked("DO"))
  BY DEF CommandsGoOut, SentAll

\* A table without entries asks for nothing.
LEMMA NothingAsked ==
  ASSUME Scripted, Len(data) = 0, requests = <<>>, sets = EmptySets, wanted = {}
  PROVE  SentAll(requests) = ScansAsked \o RequestAsked("SBO") \o RequestAsked("DO")
<1>1. PICK n \in Nat : n = Len(data) /\ DOMAIN data = 1..n
  BY ScriptLength
<1>2. Listing(data, Len(data)) = <<>>
  BY <1>1, GatheredNone DEF Listing
<1>3. MidwayAt(data, <<>>, sets, wanted, requests)
  BY <1>1, <1>2, MidwayStart
<1>4. Request("SBO") = <<>> /\ Request("DO") = <<>>
  BY DEF Request
<1>5. requests \o Request("SBO") \o Request("DO") = requests
  <2>1. <<>> \o <<>> \o <<>> = <<>>
    OBVIOUS
  <2> QED BY <1>4, <2>1
<1> QED BY <1>1, <1>3, <1>5, AllGoOut

-------------------------------------------------------------------------------
(* The beginning *)

LEMMA CInvInit == CommandsInit => CInv
<1> SUFFICES ASSUME CommandsInit PROVE CInv
  OBVIOUS
<1>1. Inv
  BY InvInit DEF CommandsInit
<1>2. Scripted
  <2>1. Range(<<>>) = {}
    BY DEF Range
  <2>2. <<>> \in Seq({})
    OBVIOUS
  <2> QED BY <2>1, <2>2 DEF Scripted, CommandsInit
<1>3. CommandsGoOut
  <2>1. Len(data) = 0
    BY DEF CommandsInit
  <2> QED BY <1>2, <2>1, NothingAsked, GoOutSent DEF CommandsInit
<1>4. AtWork /\ Fresh /\ AtStart /\ AtEntry /\ AtField /\ Firing
  BY DEF CommandsInit, Init, AtWork, Fresh, AtStart, AtEntry, AtField, Firing, EmptySets, NewCmd
<1> QED BY <1>1, <1>2, <1>3, <1>4 DEF CInv

-------------------------------------------------------------------------------
(* The walk *)

LEMMA CInvCall ==
  ASSUME CInv, ~firing, CallScript PROVE CInv'
<1>1. Inv'
  BY InvInvoke DEF CInv, CallScript
<1>2. pc = "idle" /\ pc' = "probe" /\ role' = role
  BY DEF CallScript, Invoke
<1>3. Scripted'
  <2>1. CASE role = Master
    BY <2>1, ScriptAssumption DEF CallScript, Scripted
  <2>2. CASE role # Master
    <3>1. data' = <<>>
      BY <2>2 DEF CallScript
    <3>2. Range(<<>>) = {}
      BY DEF Range
    <3>3. <<>> \in Seq({})
      OBVIOUS
    <3> QED BY <3>1, <3>2, <3>3 DEF Scripted
  <2> QED BY <2>1, <2>2
<1>4. AtWork'
  BY <1>2 DEF CInv, AtWork, CallScript, EmptySets
<1>5. Fresh' /\ AtStart' /\ AtEntry' /\ AtField' /\ Firing' /\ CommandsGoOut'
  BY <1>2 DEF CallScript, Fresh, AtStart, AtEntry, AtField, Firing, CommandsGoOut
<1> QED BY <1>1, <1>3, <1>4, <1>5 DEF CInv

LEMMA CInvOpen ==
  ASSUME CInv, ~firing, OpenCommand PROVE CInv'
<1>1. Inv'
  BY InvStep DEF CInv, OpenCommand, Next
<1>2. /\ pc = "commands" /\ pc' = "fields" /\ entries > 0 /\ entries' = entries - 1
      /\ role' = role /\ entries \in Nat
      /\ UNCHANGED <<data, cmdList, firing, sets, wanted, requests>>
      /\ Entry # NotATable /\ unread' = DOMAIN Entry /\ inside' = Cardinality(unread')
      /\ cmd' = NewCmd
  BY DEF OpenCommand, Command, FreshCmd, CInv, Inv, TypeOK, Counts
<1>3. PICK n \in Nat : n = Len(data)
  BY ScriptLength DEF CInv
<1>4. entries <= n /\ cmdList = Listing(data, n - entries)
  BY <1>2, <1>3 DEF CInv, AtEntry
<1>5. Inner' = Entry
  <2>1. Len(data') - entries' = Len(data) - entries + 1
    BY <1>2, <1>3
  <2> QED BY <1>2, <2>1 DEF Inner, Entry
<1>6. AtField'
  <2>1. entries' < Len(data') /\ Len(data') - entries' - 1 = n - entries
    BY <1>2, <1>3, <1>4
  <2>2. Filled(NewCmd, Entry, DOMAIN Entry)
    BY DEF Filled, NewCmd, Written
  <2> QED BY <1>2, <1>4, <1>5, <2>1, <2>2 DEF AtField
<1>7. Scripted'
  BY <1>2 DEF CInv, Scripted
<1>8. AtWork'
  BY <1>2 DEF CInv, AtWork, NewCmd
<1>9. Fresh' /\ AtStart' /\ AtEntry' /\ Firing' /\ CommandsGoOut'
  BY <1>2 DEF CInv, Fresh, AtStart, AtEntry, Firing, CommandsGoOut
<1> QED BY <1>1, <1>6, <1>7, <1>8, <1>9 DEF CInv

LEMMA CInvSkip ==
  ASSUME CInv, ~firing, SkipEntry PROVE CInv'
<1>1. Inv'
  BY InvStep DEF CInv, SkipEntry, Next
<1>2. /\ pc = "commands" /\ pc' = "commands" /\ entries > 0 /\ entries' = entries - 1
      /\ role' = role /\ entries \in Nat
      /\ UNCHANGED commandVars
      /\ Entry = NotATable
  BY DEF SkipEntry, NoCommand, CInv, Inv, TypeOK, Counts
<1>3. PICK n \in Nat : n = Len(data) /\ DOMAIN data = 1..n
  BY ScriptLength DEF CInv
<1>4. entries <= n /\ cmdList = Listing(data, n - entries)
  BY <1>2, <1>3 DEF CInv, AtEntry
<1>5. PICK k \in Nat : k = n - entries /\ k + 1 <= n
  BY <1>2, <1>4
<1>6. data[k + 1] = NotATable
  BY <1>2, <1>3, <1>5 DEF Entry
<1>7. Listing(data, k + 1) = Listing(data, k)
  BY <1>3, <1>5, <1>6, ListingNext
<1>8. AtEntry'
  <2>1. entries' <= Len(data') /\ Len(data') - entries' = k + 1
    BY <1>2, <1>3, <1>4, <1>5 DEF commandVars
  <2> QED BY <1>2, <1>4, <1>5, <1>7, <2>1 DEF AtEntry, commandVars
<1>9. Scripted' /\ AtWork'
  BY <1>2 DEF CInv, Scripted, AtWork, commandVars
<1>10. Fresh' /\ AtStart' /\ AtField' /\ Firing' /\ CommandsGoOut'
  BY <1>2 DEF CInv, Fresh, AtStart, AtField, Firing, CommandsGoOut, commandVars
<1> QED BY <1>1, <1>8, <1>9, <1>10 DEF CInv

\* The table at hand, whose fields can be counted.
LEMMA TableAtHand ==
  ASSUME CInv, pc = "fields"
  PROVE  /\ IsFiniteSet(unread)
         /\ \E n, k \in Nat : /\ n = Len(data) /\ DOMAIN data = 1..n /\ k = n - entries - 1
                              /\ k + 1 <= n /\ Inner = data[k + 1] /\ Inner # NotATable
                              /\ cmdList = Listing(data, k)
<1>1. PICK n \in Nat : /\ n = Len(data) /\ DOMAIN data = 1..n
                       /\ \A i \in 1..n : data[i] # NotATable => IsFiniteSet(DOMAIN data[i])
  BY ScriptLength DEF CInv
<1>2. /\ entries \in Nat /\ entries < n /\ Inner # NotATable /\ unread \subseteq DOMAIN Inner
      /\ cmdList = Listing(data, n - entries - 1)
  BY <1>1 DEF CInv, Inv, TypeOK, Counts, AtField
<1>3. PICK k \in Nat : k = n - entries - 1 /\ k + 1 <= n /\ n - entries = k + 1
  BY <1>2
<1>4. Inner = data[k + 1] /\ k + 1 \in 1..n
  BY <1>1, <1>3 DEF Inner
<1>5. IsFiniteSet(unread)
  BY <1>1, <1>2, <1>4, FS_Subset
<1> QED BY <1>1, <1>2, <1>3, <1>4, <1>5

\* A field that is read fills the command by one more, whichever of them it is.
LEMMA FilledNext ==
  ASSUME NEW c, NEW t, NEW left, left \subseteq DOMAIN t, NEW f \in left, Filled(c, t, left),
         c = [fType |-> c.fType, fName |-> c.fName, index |-> c.index, value |-> c.value],
         NEW e, e = IF f \in DOMAIN FieldName THEN [c EXCEPT ![FieldName[f]] = t[f]] ELSE c
  PROVE  /\ Filled(e, t, left \ {f})
         /\ e = [fType |-> e.fType, fName |-> e.fName, index |-> e.index, value |-> e.value]
<1>1. /\ DOMAIN FieldName = 1..4
      /\ FieldName[1] = "fType" /\ FieldName[2] = "fName" /\ FieldName[3] = "index"
      /\ FieldName[4] = "value"
  BY DEF FieldName
<1>2. CASE f \notin 1..4
  <2>1. e = c
    BY <1>1, <1>2
  <2>2. f # 1 /\ f # 2 /\ f # 3 /\ f # 4
    BY <1>2
  <2> QED BY <2>1, <2>2 DEF Filled
<1>3. CASE f = 1
  <2>1. e = [c EXCEPT !["fType"] = t[1]]
    <3>1. f \in DOMAIN FieldName /\ FieldName[f] = "fType" /\ t[f] = t[1]
      BY <1>1, <1>3
    <3> QED BY <3>1
  <2>2. /\ e = [fType |-> e.fType, fName |-> e.fName, index |-> e.index, value |-> e.value]
        /\ e.fType = t[1] /\ e.fName = c.fName /\ e.index = c.index /\ e.value = c.value
    BY <2>1
  <2>3. /\ 1 \notin left \ {f} /\ 1 \in DOMAIN t
        /\ \A g \in {2, 3, 4} : g \in left \ {f} <=> g \in left
    BY <1>3
  <2> QED BY <2>2, <2>3 DEF Filled, Written
<1>4. CASE f = 2
  <2>1. e = [c EXCEPT !["fName"] = t[2]]
    <3>1. f \in DOMAIN FieldName /\ FieldName[f] = "fName" /\ t[f] = t[2]
      BY <1>1, <1>4
    <3> QED BY <3>1
  <2>2. /\ e = [fType |-> e.fType, fName |-> e.fName, index |-> e.index, value |-> e.value]
        /\ e.fName = t[2] /\ e.fType = c.fType /\ e.index = c.index /\ e.value = c.value
    BY <2>1
  <2>3. /\ 2 \notin left \ {f} /\ 2 \in DOMAIN t
        /\ \A g \in {1, 3, 4} : g \in left \ {f} <=> g \in left
    BY <1>4
  <2> QED BY <2>2, <2>3 DEF Filled, Written
<1>5. CASE f = 3
  <2>1. e = [c EXCEPT !["index"] = t[3]]
    <3>1. f \in DOMAIN FieldName /\ FieldName[f] = "index" /\ t[f] = t[3]
      BY <1>1, <1>5
    <3> QED BY <3>1
  <2>2. /\ e = [fType |-> e.fType, fName |-> e.fName, index |-> e.index, value |-> e.value]
        /\ e.index = t[3] /\ e.fType = c.fType /\ e.fName = c.fName /\ e.value = c.value
    BY <2>1
  <2>3. /\ 3 \notin left \ {f} /\ 3 \in DOMAIN t
        /\ \A g \in {1, 2, 4} : g \in left \ {f} <=> g \in left
    BY <1>5
  <2> QED BY <2>2, <2>3 DEF Filled, Written
<1>6. CASE f = 4
  <2>1. e = [c EXCEPT !["value"] = t[4]]
    <3>1. f \in DOMAIN FieldName /\ FieldName[f] = "value" /\ t[f] = t[4]
      BY <1>1, <1>6
    <3> QED BY <3>1
  <2>2. /\ e = [fType |-> e.fType, fName |-> e.fName, index |-> e.index, value |-> e.value]
        /\ e.value = t[4] /\ e.fType = c.fType /\ e.fName = c.fName /\ e.index = c.index
    BY <2>1
  <2>3. /\ 4 \notin left \ {f} /\ 4 \in DOMAIN t
        /\ \A g \in {1, 2, 3} : g \in left \ {f} <=> g \in left
    BY <1>6
  <2> QED BY <2>2, <2>3 DEF Filled, Written
<1> QED BY <1>2, <1>3, <1>4, <1>5, <1>6

LEMMA CInvRead ==
  ASSUME CInv, ~firing, ReadField PROVE CInv'
<1>1. Inv'
  BY InvStep DEF CInv, ReadField, Next
<1>2. PICK f \in unread :
        /\ unread' = unread \ {f}
        /\ cmd' = IF f \in DOMAIN FieldName THEN [cmd EXCEPT ![FieldName[f]] = Inner[f]] ELSE cmd
  BY DEF ReadField
<1>3. /\ pc = "fields" /\ pc' = "fields" /\ entries' = entries /\ inside' = inside - 1
      /\ role' = role
      /\ UNCHANGED <<data, cmdList, firing, sets, wanted, requests>>
  BY DEF ReadField, Field
<1>4. /\ entries < Len(data) /\ Inner # NotATable /\ unread \subseteq DOMAIN Inner
      /\ cmdList = Listing(data, Len(data) - entries - 1)
      /\ Cardinality(unread) = inside /\ Filled(cmd, Inner, unread)
  BY <1>3 DEF CInv, AtField
<1>5. cmd = [fType |-> cmd.fType, fName |-> cmd.fName, index |-> cmd.index, value |-> cmd.value]
  BY DEF CInv, AtWork
<1>6. PICK c, e, t, left : c = cmd /\ e = cmd' /\ t = Inner /\ left = unread
  OBVIOUS
<1>7. /\ Filled(e, t, left \ {f})
      /\ e = [fType |-> e.fType, fName |-> e.fName, index |-> e.index, value |-> e.value]
  BY <1>2, <1>4, <1>5, <1>6, FilledNext
<1>8. Inner' = Inner
  BY <1>3 DEF Inner
<1>9. Cardinality(unread') = inside'
  <2>1. IsFiniteSet(unread)
    BY <1>3, TableAtHand
  <2>2. Cardinality(unread \ {f}) = Cardinality(unread) - 1
    BY <1>2, <2>1, FS_RemoveElement
  <2> QED BY <1>2, <1>3, <1>4, <2>2
<1>10. AtField'
  BY <1>2, <1>3, <1>4, <1>6, <1>7, <1>8, <1>9 DEF AtField
<1>11. AtWork'
  BY <1>3, <1>6, <1>7 DEF CInv, AtWork
<1>12. Scripted'
  BY <1>3 DEF CInv, Scripted
<1>13. Fresh' /\ AtStart' /\ AtEntry' /\ Firing' /\ CommandsGoOut'
  BY <1>3 DEF CInv, Fresh, AtStart, AtEntry, Firing, CommandsGoOut
<1> QED BY <1>1, <1>10, <1>11, <1>12, <1>13 DEF CInv

LEMMA CInvClose ==
  ASSUME CInv, ~firing, CloseCommand PROVE CInv'
<1>1. Inv'
  BY InvStep DEF CInv, CloseCommand, Next
<1>2. /\ pc = "fields" /\ pc' = "commands" /\ entries' = entries /\ inside = 0
      /\ role' = role /\ entries \in Nat /\ cmdList' = Append(cmdList, cmd)
      /\ UNCHANGED <<data, unread, cmd, firing, sets, wanted, requests>>
  BY DEF CloseCommand, CommandEnds, Listed, CInv, Inv, TypeOK, Counts
<1>3. Cardinality(unread) = 0 /\ Filled(cmd, Inner, unread)
  BY <1>2 DEF CInv, AtField
<1>4. unread = {}
  BY <1>2, <1>3, TableAtHand, FS_EmptySet
<1>5. cmd = CmdOf(Inner)
  <2>1. /\ cmd.fType = Written(Inner, 1, "") /\ cmd.fName = Written(Inner, 2, "")
        /\ cmd.index = Written(Inner, 3, 0) /\ cmd.value = Written(Inner, 4, 0)
    BY <1>3, <1>4 DEF Filled
  <2>2. cmd = [fType |-> cmd.fType, fName |-> cmd.fName, index |-> cmd.index, value |-> cmd.value]
    BY DEF CInv, AtWork
  <2> QED BY <2>1, <2>2 DEF CmdOf
<1>6. PICK n, k \in Nat : /\ n = Len(data) /\ DOMAIN data = 1..n /\ k = n - entries - 1
                          /\ k + 1 <= n /\ Inner = data[k + 1] /\ Inner # NotATable
                          /\ cmdList = Listing(data, k)
  BY <1>2, TableAtHand
<1>7. Listing(data, k + 1) = Append(Listing(data, k), CmdOf(data[k + 1]))
  BY <1>6, ListingNext
<1>8. AtEntry'
  <2>1. entries' <= Len(data') /\ Len(data') - entries' = k + 1
    BY <1>2, <1>6
  <2> QED BY <1>2, <1>5, <1>6, <1>7, <2>1 DEF AtEntry
<1>9. AtWork'
  BY <1>2, <1>4 DEF CInv, AtWork
<1>10. Scripted'
  BY <1>2 DEF CInv, Scripted
<1>11. Fresh' /\ AtStart' /\ AtField' /\ Firing' /\ CommandsGoOut'
  BY <1>2 DEF CInv, Fresh, AtStart, AtField, Firing, CommandsGoOut
<1> QED BY <1>1, <1>8, <1>9, <1>10, <1>11 DEF CInv

LEMMA CInvEnd ==
  ASSUME CInv, ~firing, EndWalk PROVE CInv'
<1>1. Inv'
  BY InvStep DEF CInv, EndWalk, Next
<1>2. /\ pc = "commands" /\ pc' = "idle" /\ entries = 0 /\ role' = role /\ firing'
      /\ UNCHANGED <<data, unread, cmd, cmdList, sets, wanted, requests>>
  BY DEF EndWalk, CommandsEnd
<1>3. PICK n \in Nat : n = Len(data) /\ DOMAIN data = 1..n
  BY ScriptLength DEF CInv
<1>4. cmdList = Listing(data, Len(data)) /\ requests = <<>> /\ sets = EmptySets /\ wanted = {}
  <2>1. n - 0 = n
    OBVIOUS
  <2> QED BY <1>2, <1>3, <2>1 DEF CInv, AtEntry, Fresh
<1>5. MidwayAt(data, cmdList, sets, wanted, requests)
  BY <1>3, <1>4, MidwayStart
<1>6. Firing'
  BY <1>2, <1>5 DEF Firing
<1>7. AtWork'
  BY <1>2 DEF CInv, AtWork
<1>8. Scripted'
  BY <1>2 DEF CInv, Scripted
<1>9. Fresh' /\ AtStart' /\ AtEntry' /\ AtField' /\ CommandsGoOut'
  BY <1>2 DEF Fresh, AtStart, AtEntry, AtField, CommandsGoOut
<1> QED BY <1>1, <1>6, <1>7, <1>8, <1>9 DEF CInv

\* What the other steps of LuaStack may do to a master, and to the others.
LEMMA OtherSteps ==
  ASSUME CInv, OtherWalk
  PROVE  /\ [Next]_vars /\ role' = role /\ UNCHANGED commandVars
         /\ \/ pc' = "aborted"
            \/ role = Master /\ ProbeNothing
            \/ role = Master /\ ProbeMaster
            \/ role # Master /\ pc' \in {"idle", "gettable", "entries", "values"}
<1>1. [Next]_vars /\ UNCHANGED commandVars
  BY DEF OtherWalk, Next
<1>2. role' = role
  BY DEF OtherWalk, Overflow, ProbeNothing, ProbeOutstation, ProbeMapping, ProbeMaster,
         GetTable, TableEnds, TableUnwanted, TableEntry, ValuesEnd, ValuesEntry
<1>3. CASE Overflow \/ ProbeNothing \/ ProbeOutstation \/ ProbeMapping \/ ProbeMaster
  <2>1. CASE Overflow
    BY <1>1, <1>2, <2>1 DEF Overflow
  <2>2. CASE ProbeNothing
    <3>1. pc' = "idle"
      BY <2>2 DEF ProbeNothing
    <3> QED BY <1>1, <1>2, <2>2, <3>1
  <2>3. CASE ProbeOutstation \/ ProbeMapping
    <3>1. role # Master
      BY <2>3 DEF ProbeOutstation, ProbeMapping, Outstation, Mapping, Master
    <3>2. pc' \in {"idle", "gettable", "entries", "values"} \/ pc' = "aborted"
      BY <2>3 DEF ProbeOutstation, ProbeMapping
    <3> QED BY <1>1, <1>2, <3>1, <3>2
  <2>4. CASE ProbeMaster
    <3>1. role = Master
      BY <2>4 DEF ProbeMaster
    <3> QED BY <1>1, <1>2, <2>4, <3>1
  <2> QED BY <1>3, <2>1, <2>2, <2>3, <2>4
<1>4. CASE GetTable \/ TableEnds \/ TableUnwanted \/ TableEntry \/ ValuesEnd \/ ValuesEntry
  <2>1. pc \in {"gettable", "entries", "values"}
    BY <1>4 DEF GetTable, TableEnds, TableUnwanted, TableEntry, ValuesEnd, ValuesEntry
  <2>2. role # Master
    BY <2>1 DEF CInv, AtWork
  <2>3. pc' \in {"idle", "gettable", "entries", "values"}
    BY <1>4 DEF GetTable, TableEnds, TableUnwanted, TableEntry, ValuesEnd, ValuesEntry, NextTable
  <2> QED BY <1>1, <1>2, <2>2, <2>3
<1> QED BY <1>3, <1>4 DEF OtherWalk

LEMMA CInvOther ==
  ASSUME CInv, ~firing, OtherWalk PROVE CInv'
<1>1. Inv' /\ role' = role /\ UNCHANGED commandVars
  BY OtherSteps, InvStep DEF CInv
<1>2. Scripted'
  BY <1>1 DEF CInv, Scripted, commandVars
<1>3. CASE pc' = "aborted" /\ pc # "fields"
  BY <1>1, <1>2, <1>3
     DEF CInv, commandVars, AtWork, Fresh, AtStart, AtEntry, AtField, Firing, CommandsGoOut
<1>4. CASE role = Master /\ ProbeNothing
  <2>1. pc = "probe" /\ pc' = "idle" /\ Len(data) = 0
    BY <1>4 DEF ProbeNothing, CInv, AtStart
  <2>2. requests = <<>> /\ sets = EmptySets /\ wanted = {}
    BY <2>1 DEF CInv, Fresh
  <2>3. SentAll(requests) = ScansAsked \o RequestAsked("SBO") \o RequestAsked("DO")
    BY <2>1, <2>2, NothingAsked DEF CInv
  <2>4. CommandsGoOut'
    <3>1. data' = data /\ requests' = requests
      BY <1>1 DEF commandVars
    <3>2. [i \in DOMAIN requests |-> Sent(requests[i])]
             = ScansAsked \o RequestAsked("SBO") \o RequestAsked("DO")
      BY <2>3 DEF SentAll
    <3> QED BY <3>1, <3>2 DEF CommandsGoOut, ScansAsked, RequestAsked, ObjectsAsked
  <2>5. AtWork' /\ Fresh' /\ AtStart' /\ AtEntry' /\ AtField' /\ Firing'
    BY <1>1, <1>4, <2>1 DEF CInv, commandVars, AtWork, Fresh, AtStart, AtEntry, AtField, Firing
  <2> QED BY <1>1, <1>2, <2>4, <2>5 DEF CInv
<1>5. CASE role = Master /\ ProbeMaster
  <2>1. pc = "probe" /\ pc' = "commands" /\ entries = Len(data) /\ entries' = entries
    BY <1>5 DEF ProbeMaster, CInv, AtStart
  <2>2. PICK n \in Nat : n = Len(data)
    BY ScriptLength DEF CInv
  <2>3. cmdList = Listing(data, 0)
    BY <2>1, GatheredNone DEF Listing, CInv, AtWork
  <2>4. AtEntry'
    <3>1. data' = data /\ cmdList' = cmdList
      BY <1>1 DEF commandVars
    <3>2. entries' <= Len(data') /\ Len(data') - entries' = 0
      BY <2>1, <2>2, <3>1
    <3> QED BY <2>3, <3>1, <3>2 DEF AtEntry
  <2>5. AtWork' /\ Fresh' /\ AtStart' /\ AtField' /\ Firing' /\ CommandsGoOut'
    BY <1>1, <1>5, <2>1
       DEF CInv, commandVars, AtWork, Fresh, AtStart, AtField, Firing, CommandsGoOut
  <2> QED BY <1>1, <1>2, <2>4, <2>5 DEF CInv
<1>6. CASE role # Master /\ pc' \in {"idle", "gettable", "entries", "values"}
  BY <1>1, <1>2, <1>6
     DEF CInv, commandVars, AtWork, Fresh, AtStart, AtEntry, AtField, Firing, CommandsGoOut
<1>7. pc # "fields"
  BY DEF OtherWalk, Overflow, ProbeNothing, ProbeOutstation, ProbeMapping, ProbeMaster,
         GetTable, TableEnds, TableUnwanted, TableEntry, ValuesEnd, ValuesEntry
<1> QED BY <1>3, <1>4, <1>5, <1>6, <1>7, OtherSteps

-------------------------------------------------------------------------------
(* Firing off *)

LEMMA NextOfList ==
  ASSUME CInv, firing, cmdList # <<>>
  PROVE  /\ MidwayAt(data, cmdList, sets, wanted, requests)
         /\ NextCmd = Head(cmdList)
         /\ pc = "idle" /\ role = Master
  BY DEF CInv, Firing, AtWork, NextCmd

LEMMA CInvGather ==
  ASSUME CInv, Gather PROVE CInv'
<1>1. /\ firing /\ cmdList # <<>> /\ NextCmd.fType \in SetKinds
      /\ wanted' = wanted \cup {NextCmd.fType}
      /\ sets' = [sets EXCEPT ![NextCmd.fType] = @ \o Headers(NextCmd)]
      /\ cmdList' = Tail(cmdList)
      /\ UNCHANGED <<vars, data, unread, cmd, firing, requests>>
  BY DEF Gather
<1>2. Inv'
  BY <1>1, InvStep DEF CInv
<1>3. PICK c : c = NextCmd
  OBVIOUS
<1>4. MidwayAt(data, Tail(cmdList), [sets EXCEPT ![c.fType] = @ \o Headers(c)],
               wanted \cup {c.fType}, requests)
  BY <1>1, <1>3, NextOfList, MidwayGather
<1>5. Firing'
  BY <1>1, <1>3, <1>4 DEF Firing
<1>6. AtWork'
  <2>1. sets \in [SetKinds -> Seq(Hdr(data))]
    BY <1>1, NextOfList, MidwayType
  <2>2. \A k \in SetKinds : k # c.fType => sets'[k] = sets[k]
    BY <1>1, <1>3, <2>1
  <2>3. \A k \in SetKinds : sets'[k] # <<>> => k \in wanted'
    BY <1>1, <1>3, <2>2 DEF CInv, AtWork
  <2>4. wanted' \subseteq SetKinds
    BY <1>1 DEF CInv, AtWork
  <2> QED BY <1>1, <2>3, <2>4 DEF CInv, AtWork, vars
<1>7. Scripted'
  BY <1>1 DEF CInv, Scripted
<1>8. Fresh' /\ AtStart' /\ AtEntry' /\ AtField' /\ CommandsGoOut'
  BY <1>1, NextOfList DEF vars, Fresh, AtStart, AtEntry, AtField, CommandsGoOut
<1> QED BY <1>2, <1>5, <1>6, <1>7, <1>8 DEF CInv

LEMMA CInvScan ==
  ASSUME CInv, ScanAtOnce PROVE CInv'
<1>1. /\ firing /\ cmdList # <<>> /\ NextCmd.fType = "Scan" /\ cmdList' = Tail(cmdList)
      /\ UNCHANGED <<vars, data, unread, cmd, firing, sets, wanted>>
  BY DEF ScanAtOnce
<1>2. Inv'
  BY <1>1, InvStep DEF CInv
<1>3. PICK c : c = NextCmd
  OBVIOUS
<1>4. PICK qs : qs = requests
  OBVIOUS
<1>5. qs \in Seq(ScanReq(data)) /\ qs = qs \o <<>> /\ cmdList \in Seq(Cmds(data))
  BY <1>1, <1>4, NextOfList, MidwayType
<1>6. requests' = qs \o Scanned(c)
  <2>1. c \in Cmds(data)
    <3>1. ASSUME NEW S, NEW s \in Seq(S), s # <<>> PROVE Head(s) \in S
      BY <3>1
    <3> QED BY <1>1, <1>3, <1>5, <3>1, NextOfList
  <2>2. CASE c.fName \notin ScanNames
    <3>1. requests' = qs /\ Scanned(c) = <<>>
      BY <1>3, <1>4, <2>2 DEF ScanAtOnce, Scanned
    <3> QED BY <1>5, <3>1
  <2>3. CASE c.fName \in ScanNames
    <3>1. PICK r : r = [kind |-> "Scan", name |-> c.fName, from |-> c.index, to |-> c.value]
      OBVIOUS
    <3>2. requests' = Append(qs, r) /\ Scanned(c) = <<r>>
      BY <1>1, <1>3, <1>4, <2>3, <3>1 DEF ScanAtOnce, Scanned
    <3>3. r \in ScanReq(data)
      BY <2>1, <3>1, DatumOf DEF ScanReq
    <3>4. Append(qs, r) = qs \o <<r>>
      BY <1>5, <3>3
    <3> QED BY <3>2, <3>4
  <2> QED BY <2>2, <2>3
<1>7. c.fType \notin SetKinds
  BY <1>1, <1>3 DEF SetKinds
<1>8. MidwayAt(data, Tail(cmdList), sets, wanted, qs \o Scanned(c))
  BY <1>1, <1>3, <1>4, <1>7, NextOfList, MidwayOther
<1>9. Firing'
  BY <1>1, <1>6, <1>8 DEF Firing
<1>10. AtWork'
  BY <1>1 DEF CInv, AtWork, vars
<1>11. Scripted'
  BY <1>1 DEF CInv, Scripted
<1>12. Fresh' /\ AtStart' /\ AtEntry' /\ AtField' /\ CommandsGoOut'
  BY <1>1, NextOfList DEF vars, Fresh, AtStart, AtEntry, AtField, CommandsGoOut
<1> QED BY <1>2, <1>9, <1>10, <1>11, <1>12 DEF CInv

LEMMA CInvUnrecognized ==
  ASSUME CInv, Unrecognized PROVE CInv'
<1>1. /\ firing /\ cmdList # <<>> /\ NextCmd.fType \notin SetKinds \cup {"Scan"}
      /\ pc' \in {pc, "aborted"} /\ firing' = (pc' = pc) /\ cmdList' = Tail(cmdList)
      /\ UNCHANGED <<role, configured, kind, entries, inside, stack,
                     data, unread, cmd, sets, wanted, requests>>
  BY DEF Unrecognized
<1>2. pc = "idle" /\ role = Master
  BY <1>1, NextOfList
<1>3. Inv'
  BY <1>1, <1>2, InvIdle DEF CInv, Inv, TypeOK
<1>4. PICK c : c = NextCmd
  OBVIOUS
<1>5. PICK qs : qs = requests
  OBVIOUS
<1>6. Scanned(c) = <<>> /\ c.fType \notin SetKinds /\ qs \o <<>> = qs
  BY <1>1, <1>4, <1>5, NextOfList, MidwayType DEF Scanned
<1>7. MidwayAt(data, Tail(cmdList), sets, wanted, qs \o Scanned(c))
  BY <1>1, <1>4, <1>5, <1>6, NextOfList, MidwayOther
<1>8. MidwayAt(data, Tail(cmdList), sets, wanted, qs)
  BY <1>6, <1>7
<1>9. Firing'
  BY <1>1, <1>5, <1>8 DEF Firing
<1>10. AtWork'
  BY <1>1, <1>2 DEF CInv, AtWork
<1>11. Scripted'
  BY <1>1 DEF CInv, Scripted
<1>12. Fresh' /\ AtStart' /\ AtEntry' /\ AtField' /\ CommandsGoOut'
  BY <1>1, <1>2 DEF Fresh, AtStart, AtEntry, AtField, CommandsGoOut
<1> QED BY <1>3, <1>9, <1>10, <1>11, <1>12 DEF CInv

LEMMA CInvSend ==
  ASSUME CInv, Send PROVE CInv'
<1>1. /\ firing /\ cmdList = <<>> /\ ~firing'
      /\ requests' = requests \o Request("SBO") \o Request("DO")
      /\ UNCHANGED <<vars, data, unread, cmd, cmdList, sets, wanted>>
  BY DEF Send
<1>2. Inv'
  BY <1>1, InvStep DEF CInv
<1>3. MidwayAt(data, <<>>, sets, wanted, requests) /\ pc = "idle" /\ role = Master
  BY <1>1 DEF CInv, Firing, AtWork
<1>4. PICK n \in Nat : n = Len(data) /\ DOMAIN data = 1..n
  BY ScriptLength DEF CInv
<1>5. PICK out : out = requests \o Request("SBO") \o Request("DO")
  OBVIOUS
<1>6. [i \in DOMAIN out |-> Sent(out[i])]
         = ScansAsked \o RequestAsked("SBO") \o RequestAsked("DO")
  BY <1>3, <1>4, <1>5, AllGoOut DEF SentAll
<1>7. CommandsGoOut'
  BY <1>1, <1>5, <1>6 DEF CommandsGoOut, ScansAsked, RequestAsked, ObjectsAsked
<1>8. AtWork'
  BY <1>1 DEF CInv, AtWork, vars
<1>9. Scripted'
  BY <1>1 DEF CInv, Scripted
<1>10. Fresh' /\ AtStart' /\ AtEntry' /\ AtField' /\ Firing'
  BY <1>1, <1>3 DEF vars, Fresh, AtStart, AtEntry, AtField, Firing
<1> QED BY <1>2, <1>7, <1>8, <1>9, <1>10 DEF CInv

LEMMA CInvStutter ==
  ASSUME CInv, UNCHANGED allVars PROVE CInv'
<1>1. Inv'
  BY InvStep DEF CInv, allVars
<1>2. Scripted' /\ CommandsGoOut'
  BY DEF CInv, Scripted, CommandsGoOut, ScansAsked, RequestAsked, ObjectsAsked,
         allVars, vars, commandVars
<1>3. AtWork' /\ Fresh' /\ AtStart' /\ AtEntry' /\ AtField' /\ Firing'
  BY DEF CInv, AtWork, Fresh, AtStart, AtEntry, AtField, Inner, Firing, allVars, vars, commandVars
<1> QED BY <1>1, <1>2, <1>3 DEF CInv

\* No step of a master breaks the invariant.
LEMMA CInvStep == CInv /\ [CommandsNext]_allVars => CInv'
<1> SUFFICES ASSUME CInv, [CommandsNext]_allVars PROVE CInv'
  OBVIOUS
<1>1. CASE Walk
  BY <1>1, CInvCall, CInvOpen, CInvSkip, CInvRead, CInvClose, CInvEnd, CInvOther DEF Walk
<1> QED BY <1>1, CInvGather, CInvScan, CInvUnrecognized, CInvSend, CInvStutter DEF CommandsNext

LEMMA CommandsInvariance == CommandsSpec => []CInv
  BY CInvInit, CInvStep, PTL DEF CommandsSpec

\* What CommandsTypeOK says is part of it.
LEMMA CInvTypeOK == CInv => CommandsTypeOK
<1> SUFFICES ASSUME CInv PROVE CommandsTypeOK
  OBVIOUS
<1>1. DOMAIN cmd = Range(FieldName)
  <2>1. DOMAIN cmd = {"fType", "fName", "index", "value"}
    <3>1. cmd = [fType |-> cmd.fType, fName |-> cmd.fName, index |-> cmd.index, value |-> cmd.value]
      BY DEF CInv, AtWork
    <3> QED BY <3>1
  <2>2. DOMAIN FieldName = {1, 2, 3, 4}
    BY DEF FieldName
  <2>3. Range(FieldName) = {FieldName[1], FieldName[2], FieldName[3], FieldName[4]}
    BY <2>2 DEF Range
  <2> QED BY <2>1, <2>3 DEF FieldName
<1>2. ASSUME pc = "commands"
      PROVE  Len(cmdList) = Cardinality({i \in 1..Len(data) - entries : data[i] # NotATable})
  <2>1. PICK n \in Nat : n = Len(data) /\ DOMAIN data = 1..n
    BY ScriptLength DEF CInv
  <2>2. entries \in Nat /\ entries <= n /\ cmdList = Listing(data, n - entries)
    BY <1>2, <2>1 DEF CInv, AtEntry, Inv, TypeOK, Counts
  <2>3. n - entries \in 0..n
    BY <2>2
  <2> QED BY <2>1, <2>2, <2>3, ListingLength
<1>3. pc = "fields" => unread \subseteq DOMAIN Inner /\ Cardinality(unread) = inside
  BY DEF CInv, AtField
<1> QED BY <1>1, <1>2, <1>3 DEF CInv, AtWork, CommandsTypeOK

\* The variables of the commands fit the walk: each inner table behind it has left
\* one command, and what is unread is of the table at hand (MasterStation.cpp:147-188).
THEOREM CommandsTyped == CommandsSpec => []CommandsTypeOK
  BY CommandsInvariance, CInvTypeOK, PTL

\* With scripts that return such tables, and commands that are fired off between
\* two calls, lua_next still gets a table and a key of it, or nil.
THEOREM CommandsWalk == CommandsSpec => [](TypeOK /\ WalksTables)
<1>1. CInv => TypeOK /\ WalksTables
  BY InvWalks DEF CInv, Inv
<1> QED BY <1>1, CommandsInvariance, PTL

\* For every script, of any length and with any fields, and in whatever order
\* lua_next gives them: when a call is over, each command of the table has gone out
\* once, in the request of its kind, in the order of the table
\* (MasterStation.cpp:224-286).
THEOREM GoneOut == CommandsSpec => []CommandsGoOut
<1>1. CInv => CommandsGoOut
  BY DEF CInv
<1> QED BY <1>1, CommandsInvariance, PTL
===============================================================================
