---------------------------- MODULE MCMasterCommands ----------------------------
(***************************************************************************)
(* Scripts for TLC.                                                        *)
(***************************************************************************)
EXTENDS MasterCommands

\* Two commands of each kind, one of them without an effect or with defaults.
Pulse == <<"DO", "CROB", 1, 1>>
NoPulse == <<"DO", "CROB", 2, 0>>
Latch == <<"SBO", "CROB", 3, 4>>
Set == <<"SBO", "AnalogOutputInt16", 4, 7, 9>>
SetNothing == <<"SBO", "Counter", 4, 7>>
Scan == <<"Scan", "Group30Var5", 5, 9>>
ScanFirst == <<"Scan", "Group1Var2">>
ScanNothing == <<"Scan", "Group30">>
Other == <<"Freeze", "CROB", 1, 1>>

Tabs == {Pulse, NoPulse, Latch, Set, SetNothing, Scan, ScanFirst, ScanNothing, Other, <<>>}

MCScripts ==
    {<<>>, <<Pulse, Latch, Pulse, Set>>, <<Latch, Scan, NoPulse, Pulse>>}
       \cup {<<a, b>> : a \in Tabs \cup {NotATable}, b \in Tabs \cup {NotATable}}
===============================================================================
