----------------------------- MODULE MasterCommands -----------------------------
(***************************************************************************)
(* What a master makes of the table of commands its script returns.  While *)
(* LuaStack's walk goes over the inner tables, whose fields lua_next gives *)
(* in any order, a cmdStruct is filled for each of them; then              *)
(* FireOffMasterCommand asks the DNP3 master for a scan at once, and       *)
(* gathers the other commands into two requests that go out at the end.    *)
(***************************************************************************)
EXTENDS LuaStack, FiniteSets, SequencesExt

CONSTANTS
    Scripts,     \* what data may hold: inner tables, as lua_next gives them
    NotATable,   \* a value in data that is none
    AnalogNames, \* the names AnalogOutputInt16 ... AnalogOutputDouble64
    ScanNames    \* the names of the form Group<n>Var<n>

\* A table has finitely many fields, and its entries come one after the other.
ASSUME ScriptAssumption ==
    \A s \in Scripts :
        /\ s \in Seq(Range(s))
        /\ \A t \in Range(s) \ {NotATable} : IsFiniteSet(DOMAIN t)
ASSUME NameAssumption == "CROB" \notin AnalogNames

SetKinds == {"SBO", "DO"}
FieldName == <<"fType", "fName", "index", "value">>

\* new cmdStruct(): value-initialised.
NewCmd == [fType |-> "", fName |-> "", index |-> 0, value |-> 0]

VARIABLES
    data,     \* the table of the present call
    unread,   \* the fields of the inner table that lua_next has yet to give
    cmd,      \* the command being filled
    cmdList,  \* those filled, and not yet fired off
    firing,   \* FireOffMasterCommand is running
    sets,     \* sets[k]: the headers of the CommandSet of kind k
    wanted,   \* sboFuncCodes and doFuncCodes, as the set of those that are true
    requests  \* what the DNP3 master has been asked for in the present call

commandVars == <<data, unread, cmd, cmdList, firing, sets, wanted, requests>>
allVars == <<vars, commandVars>>

EmptySets == [k \in SetKinds |-> <<>>]

CommandsInit ==
    /\ Init
    /\ data = <<>>
    /\ unread = {}
    /\ cmd = NewCmd
    /\ cmdList = <<>>
    /\ firing = FALSE
    /\ sets = EmptySets
    /\ wanted = {}
    /\ requests = <<>>

-------------------------------------------------------------------------------
(* The walk *)

\* The value in data that lua_next gives next.
Entry == data[Len(data) - entries + 1]

CallScript ==
    /\ Invoke
    /\ data' \in IF role = Master THEN Scripts ELSE {<<>>}
    /\ role = Master => entries' = Len(data')
    /\ sets' = EmptySets
    /\ wanted' = {}
    /\ requests' = <<>>
    /\ UNCHANGED <<unread, cmd, cmdList, firing>>

\* Mutant: one cmdStruct for all inner tables.
FreshCmdShared == cmd

FreshCmd == NewCmd

OpenCommand ==
    /\ Command
    /\ Entry # NotATable
    /\ unread' = DOMAIN Entry
    /\ inside' = Cardinality(unread')
    /\ cmd' = FreshCmd
    /\ UNCHANGED <<data, cmdList, firing, sets, wanted, requests>>

SkipEntry == NoCommand /\ Entry = NotATable /\ UNCHANGED commandVars

\* The inner table whose fields are being read.
Inner == data[Len(data) - entries]

\* Any other key than 1 to 4 is read and ignored.
ReadField ==
    /\ Field
    /\ \E f \in unread :
         /\ unread' = unread \ {f}
         /\ cmd' = IF f \in DOMAIN FieldName THEN [cmd EXCEPT ![FieldName[f]] = Inner[f]] ELSE cmd
    /\ UNCHANGED <<data, cmdList, firing, sets, wanted, requests>>

\* Mutant: an inner table without fields is passed over.
ListedIfAny == IF DOMAIN Inner = {} THEN cmdList ELSE Append(cmdList, cmd)

Listed == Append(cmdList, cmd)

CloseCommand ==
    /\ CommandEnds
    /\ cmdList' = Listed
    /\ UNCHANGED <<data, unread, cmd, firing, sets, wanted, requests>>

EndWalk ==
    /\ CommandsEnd
    /\ firing' = TRUE
    /\ UNCHANGED <<data, unread, cmd, cmdList, sets, wanted, requests>>

\* What has to do with no command.
OtherWalk ==
    /\ \/ Overflow
       \/ ProbeNothing \/ ProbeOutstation \/ ProbeMapping \/ ProbeMaster
       \/ GetTable \/ TableEnds \/ TableUnwanted \/ TableEntry
       \/ ValuesEnd \/ ValuesEntry
    /\ UNCHANGED commandVars

Walk == /\ ~firing
        /\ \/ CallScript \/ OpenCommand \/ SkipEntry \/ ReadField
           \/ CloseCommand \/ EndWalk \/ OtherWalk

-------------------------------------------------------------------------------
(* FireOffMasterCommand, one command after the other *)

\* The control codes of the values 1 to 4.
ControlCode == <<"PULSE_ON", "PULSE_OFF", "LATCH_ON", "LATCH_OFF">>

\* The objects of the header that a command starts; a CROB of another value
\* has none, and a name that is not known no header.
Objects(c) ==
    IF c.fName = "CROB"
    THEN IF c.value \in DOMAIN ControlCode
         THEN <<[index |-> c.index, value |-> ControlCode[c.value]]>> ELSE <<>>
    ELSE <<[index |-> c.index, value |-> c.value]>>

Headers(c) ==
    IF c.fName \in AnalogNames \cup {"CROB"}
    THEN <<[name |-> c.fName, objects |-> Objects(c)]>> ELSE <<>>

NextCmd == Head(cmdList)

Gather ==
    /\ firing
    /\ cmdList # <<>>
    /\ NextCmd.fType \in SetKinds
    /\ wanted' = wanted \cup {NextCmd.fType}
    /\ sets' = [sets EXCEPT ![NextCmd.fType] = @ \o Headers(NextCmd)]
    /\ cmdList' = Tail(cmdList)
    /\ UNCHANGED <<vars, data, unread, cmd, firing, requests>>

\* ScanRange from index to value.
ScanAtOnce ==
    /\ firing
    /\ cmdList # <<>>
    /\ NextCmd.fType = "Scan"
    /\ requests' = IF NextCmd.fName \in ScanNames
                   THEN Append(requests, [kind |-> "Scan", name |-> NextCmd.fName,
                                          from |-> NextCmd.index, to |-> NextCmd.value])
                   ELSE requests
    /\ cmdList' = Tail(cmdList)
    /\ UNCHANGED <<vars, data, unread, cmd, firing, sets, wanted>>

\* The message prints a std::string with %s, which is undefined and may end
\* the program.
Unrecognized ==
    /\ firing
    /\ cmdList # <<>>
    /\ NextCmd.fType \notin SetKinds \cup {"Scan"}
    /\ pc' \in {pc, "aborted"}
    /\ firing' = (pc' = pc)
    /\ cmdList' = Tail(cmdList)
    /\ UNCHANGED <<role, configured, kind, entries, inside, stack,
                   data, unread, cmd, sets, wanted, requests>>

Request(k) ==
    IF k \in wanted THEN <<[kind |-> k, headers |-> sets[k]]>> ELSE <<>>

Send ==
    /\ firing
    /\ cmdList = <<>>
    /\ requests' = requests \o Request("SBO") \o Request("DO")
    /\ firing' = FALSE
    /\ UNCHANGED <<vars, data, unread, cmd, cmdList, sets, wanted>>

CommandsNext == Walk \/ Gather \/ ScanAtOnce \/ Unrecognized \/ Send

CommandsSpec == CommandsInit /\ [][CommandsNext]_allVars

-------------------------------------------------------------------------------
(* Properties *)

\* The commands' variables fit the walk they go along with: what is unread is
\* of the table at hand and as much as the walk has before it, and each inner
\* table that is behind it has left one command until they are fired off.
CommandsTypeOK ==
    /\ pc = "fields" => unread \subseteq DOMAIN Inner /\ Cardinality(unread) = inside
    /\ pc # "fields" => unread = {}
    /\ DOMAIN cmd = Range(FieldName)
    /\ pc = "commands" => Len(cmdList) =
          Cardinality({i \in 1 .. Len(data) - entries : data[i] # NotATable})
    /\ pc \in {"idle", "probe"} /\ ~firing => cmdList = <<>>
    /\ firing => pc = "idle" /\ role = Master
    /\ wanted \subseteq SetKinds
    /\ \A k \in SetKinds : sets[k] # <<>> => k \in wanted

\* What a script has written into field f of an inner table.
Written(t, f, default) == IF f \in DOMAIN t THEN t[f] ELSE default

OfType(t, type) == t # NotATable /\ Written(t, 1, "") = type

\* The scan, and the object of a request of kind k, that an entry asks for, if any.
ScanAsked(t) ==
    IF OfType(t, "Scan") /\ Written(t, 2, "") \in ScanNames
    THEN <<[kind |-> "Scan", name |-> Written(t, 2, ""),
            from |-> Written(t, 3, 0), to |-> Written(t, 4, 0)]>>
    ELSE <<>>

ObjectAsked(k, t) ==
    LET name == Written(t, 2, "")
        value == Written(t, 4, 0)
    IN IF /\ OfType(t, k)
          /\ name \in AnalogNames \/ (name = "CROB" /\ value \in DOMAIN ControlCode)
       THEN <<<<name, Written(t, 3, 0), IF name = "CROB" THEN ControlCode[value] ELSE value>>>>
       ELSE <<>>

ScansAsked == FlattenSeq([i \in DOMAIN data |-> ScanAsked(data[i])])
ObjectsAsked(k) == FlattenSeq([i \in DOMAIN data |-> ObjectAsked(k, data[i])])

RequestAsked(k) ==
    IF \E i \in DOMAIN data : OfType(data[i], k)
    THEN <<[kind |-> k, objects |-> ObjectsAsked(k)]>> ELSE <<>>

\* The objects under headers, each with the name of its header.
ObjectsIn(headers) ==
    FlattenSeq([h \in DOMAIN headers |->
        [o \in DOMAIN headers[h].objects |->
            <<headers[h].name, headers[h].objects[o].index, headers[h].objects[o].value>>]])

Sent(r) ==
    IF r.kind = "Scan" THEN r ELSE [kind |-> r.kind, objects |-> ObjectsIn(r.headers)]

\* When a call is over, every command of the script's table has gone out once,
\* with the fields of its own inner table, whatever order lua_next took, in the
\* one request of its kind, in the order of the table (MasterStation.cpp:224-286).
\* Scans go before both requests, selected commands before direct ones.
CommandsGoOut ==
    pc = "idle" /\ ~firing /\ role = Master =>
        [i \in DOMAIN requests |-> Sent(requests[i])]
            = ScansAsked \o RequestAsked("SBO") \o RequestAsked("DO")
===============================================================================
