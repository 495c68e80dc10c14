------------------------------- MODULE Dnp3App -------------------------------
(***************************************************************************)
(* The life of the dnp3 generator on its host: main makes the pipe, reads  *)
(* a configuration, starts a thread for each station, waits for the user   *)
(* and joins the threads; it may also be killed at any time, and started   *)
(* again, with the same file or with another.  What outlives a process is  *)
(* the pipe file and the interfaces that are up.  Station threads set up   *)
(* their DNP3 stacks concurrently, over a table that they share.  What     *)
(* main and the stations do once they run is modelled in LuaSwitch and     *)
(* MappingOutstation.                                                      *)
(***************************************************************************)
EXTENDS CfgJsonParser

VARIABLES
    phase,         \* where main is, or how the last process ended
    pipe,          \* the pipe file exists
    pc,            \* pc[n]: where the thread of nodes[n] is
    todo,          \* todo[n]: polls or points that n has still to set up
    pointClasses,  \* the keys of the shared map pointClassVarMap
    scans,         \* scans[n]: the class scans that master n has added
    outside,       \* pairs <<n, p>>: point p of node n was written behind its database
    strays         \* history: the interfaces that the last kill has left up

stations == <<pc, todo, pointClasses, scans, outside>>
vars == <<config, parser, up, phase, pipe, stations, strays>>

Ended == {"off", "killed", "returned"}
KnownClasses == 0..3
InputTypes == {"Analog Input", "Binary Input", "Double Binary Input",
               "Counter", "Frozen Counter"}

EntryOf(n) == config.entries[nodes[n].entry]

StationsInit ==
    /\ pc = <<>>
    /\ todo = <<>>
    /\ pointClasses = KnownClasses
    /\ scans = <<>>
    /\ outside = {}

Init ==
    /\ config \in Configs
    /\ ParserInit
    /\ StationsInit
    /\ up = {}
    /\ phase = "off"
    /\ pipe = FALSE
    /\ strays = {}

\* The memory of a process that ends is lost.
Forget ==
    /\ UNCHANGED config
    /\ ParserReset
    /\ pc' = <<>>
    /\ todo' = <<>>
    /\ pointClasses' = KnownClasses
    /\ scans' = <<>>
    /\ outside' = {}

-------------------------------------------------------------------------------
(* main *)

\* The program refuses to start while the pipe file is there.  The file is the
\* one that the option -c names this time, or Config.json as it is by now.
Start ==
    /\ phase \in Ended
    /\ ~pipe
    /\ pipe' = TRUE
    /\ phase' = "parsing"
    /\ config' \in Later[config]
    /\ ParserReset
    /\ UNCHANGED <<up, stations, strays>>

\* The user does as that message says.
DeletePipe ==
    /\ phase \in Ended
    /\ pipe
    /\ pipe' = FALSE
    /\ UNCHANGED <<config, parser, up, phase, stations, strays>>

Unread == entry + 1 \in DOMAIN config.entries
NextEntry == config.entries[entry + 1]

Parse ==
    /\ phase = "parsing"
    /\ Unread
    /\ ~NextEntry.malformed
    /\ ReadNode(NextEntry)
    /\ UNCHANGED <<config, phase, pipe, stations, strays>>

\* property_tree throws, nobody catches, nothing is destroyed.
ParseFails ==
    /\ phase = "parsing"
    /\ Unread
    /\ NextEntry.malformed
    /\ up' = Interfaces(NextEntry)
    /\ strays' = up'
    /\ phase' = "killed"
    /\ Forget
    /\ UNCHANGED pipe

Parsed ==
    /\ phase = "parsing"
    /\ ~Unread
    /\ phase' = "starting"
    /\ UNCHANGED <<config, parser, up, pipe, stations, strays>>

\* What the thread of the next node has to set up.
Items(n) == IF nodes[n].role = "Master" THEN EntryOf(n).polls ELSE EntryOf(n).points

StartStation ==
    /\ phase = "starting"
    /\ Len(pc) < Len(nodes)
    /\ pc' = Append(pc, "setup")
    /\ todo' = Append(todo, Items(Len(pc) + 1))
    /\ scans' = Append(scans, {})
    /\ UNCHANGED <<config, parser, up, phase, pipe, pointClasses, outside, strays>>

Started ==
    /\ phase = "starting"
    /\ Len(pc) = Len(nodes)
    /\ phase' = "running"
    /\ UNCHANGED <<config, parser, up, pipe, stations, strays>>

\* The user enters x: quitFlag, and then the joins.
Quit ==
    /\ phase = "running"
    /\ phase' = "joining"
    /\ UNCHANGED <<config, parser, up, pipe, stations, strays>>

\* main keeps pointers to masters with bound outstations and to mapping
\* outstations; any other station dies with its thread.
Held(n) == IF nodes[n].role = "Master" THEN EntryOf(n).bound ELSE EntryOf(n).mapped

\* Mutant: what main still holds is not destroyed.
StaysUp == up

\* The stations that main holds are destroyed with its variables.
AfterReturn == {p \in up : \A n \in DOMAIN nodes : Held(n) => nodes[n].vnic # p[1]}

Return ==
    /\ phase = "joining"
    /\ \A n \in DOMAIN pc : pc[n] = "done"
    /\ up' = AfterReturn
    /\ phase' = "returned"
    /\ Forget
    /\ UNCHANGED <<pipe, strays>>

\* SIGINT, whose handler calls exit, or any other end without destructors.
Kill ==
    /\ phase \notin Ended
    /\ phase' = "killed"
    /\ strays' = up
    /\ Forget
    /\ UNCHANGED <<up, pipe>>

-------------------------------------------------------------------------------
(* The station threads *)

\* Mutant: every class of a poll is accepted.
ScansAny(c) == TRUE

\* The shared map is looked at without a lock; what a data race on it may do
\* beyond that is a Kill.
ScansClass(c) == c = AllClasses \/ c \in pointClasses

\* A poll of a master, in any order where the code has that of the list.
AddScan(n) ==
    /\ pc[n] = "setup"
    /\ nodes[n].role = "Master"
    /\ \E c \in todo[n] :
         /\ scans' = IF ScansClass(c) THEN [scans EXCEPT ![n] = @ \cup {c}] ELSE scans
         /\ todo' = [todo EXCEPT ![n] = @ \ {c}]
    /\ UNCHANGED <<config, parser, up, phase, pipe, pc, pointClasses, outside, strays>>

\* Mutant: the greatest index is taken for the size.
DbSizeOffByOne(points, type) == Max({0} \cup {p.index : p \in {q \in points : q.type = type}})

\* dbSize of one point type.
DbSize(points, type) == Max({0} \cup {p.index + 1 : p \in {q \in points : q.type = type}})

\* A point of an outstation.  operator[] enters an unknown class into the
\* shared map.  DatabaseSizes has taken its sizes as 16-bit numbers.
ConfigurePoint(n) ==
    /\ pc[n] = "setup"
    /\ nodes[n].role = "Outstation"
    /\ \E p \in todo[n] :
         /\ todo' = [todo EXCEPT ![n] = @ \ {p}]
         /\ IF p.type \in InputTypes
            THEN /\ pointClasses' = pointClasses \cup {p.class}
                 /\ outside' = IF p.index < DbSize(EntryOf(n).points, p.type) % WordSize
                               THEN outside ELSE outside \cup {<<n, p>>}
            ELSE UNCHANGED <<pointClasses, outside>>
    /\ UNCHANGED <<config, parser, up, phase, pipe, pc, scans, strays>>

Enable(n) ==
    /\ pc[n] = "setup"
    /\ todo[n] = {}
    /\ pc' = [pc EXCEPT ![n] = "loop"]
    /\ UNCHANGED <<config, parser, up, phase, pipe, todo, pointClasses, scans, outside, strays>>

AfterStop(n) == IF Held(n) THEN up ELSE Down(up, nodes[n].vnic)

Stop(n) ==
    /\ pc[n] = "loop"
    /\ phase = "joining"
    /\ pc' = [pc EXCEPT ![n] = "done"]
    /\ up' = AfterStop(n)
    /\ UNCHANGED <<config, parser, phase, pipe, todo, pointClasses, scans, outside, strays>>

Station(n) == AddScan(n) \/ ConfigurePoint(n) \/ Enable(n) \/ Stop(n)

Main == \/ Start \/ DeletePipe \/ Parse \/ ParseFails \/ Parsed
        \/ StartStation \/ Started \/ Quit \/ Return \/ Kill

Next == Main \/ \E n \in DOMAIN pc : Station(n)

Spec == Init /\ [][Next]_vars

-------------------------------------------------------------------------------
(* Properties *)

Nodes == [role: {"Master", "Outstation"}, entry: Nat,
          ip: Addresses \cup {None}, remote: Addresses \cup {None},
          vnic: Nat \cup {None}, local: Dnp3Addrs, peer: Dnp3Addrs]

ParserTypeOK ==
    /\ config \in Configs
    /\ entry \in 0..Len(config.entries)
    /\ networkAddr \in IF Cidr THEN Addresses ELSE {None}
    /\ localDnp3Addrs \in SUBSET Dnp3Addrs
    /\ drawn \in Seq(localDnp3Addrs)
    /\ vnictrack \in Nat
    /\ nodes \in Seq(Nodes)
    /\ \A n \in DOMAIN nodes : nodes[n].entry \in 1..entry

StationTypeOK ==
    /\ pc \in Seq({"setup", "loop", "done"})
    /\ Len(pc) <= Len(nodes)
    /\ todo = [n \in DOMAIN pc |-> todo[n]]
    /\ scans = [n \in DOMAIN pc |-> scans[n]]
    /\ \A n \in DOMAIN pc : todo[n] \subseteq Items(n) /\ scans[n] \subseteq Items(n)
    /\ pointClasses \in SUBSET Nat
    /\ outside \in SUBSET (Nat \X Points)

\* Every variable has the values the code can give it, and a process that has
\* ended has left nothing but the pipe and the interfaces.
TypeOK ==
    /\ ParserTypeOK
    /\ StationTypeOK
    /\ phase \in Ended \cup {"parsing", "starting", "running", "joining"}
    /\ phase \in Ended => ParserInit /\ StationsInit
    /\ phase \in Ended \cup {"parsing"} => pc = <<>>
    /\ phase \in {"running", "joining"} => Len(pc) = Len(nodes)
    /\ phase \in {"starting", "running", "joining"} => entry = Len(config.entries)
    /\ pipe \in BOOLEAN
    /\ up \in SUBSET (Nat \X Addresses)
    /\ strays \in SUBSET (Nat \X Addresses)

\* The greatest address has been given out, or configured: the next is 0.
Wrapped(a) == a = 0 /\ WordSize - 1 \in localDnp3Addrs

\* "the software will allocate unique addresses" (ConfigSpec.txt:36): no
\* address that getNextDNP3Address returns is one of the file, nor returned
\* twice, wherever in the file those stand, until the numbers wrap to 0.
AddressesDistinct ==
    \A i \in DOMAIN drawn :
        /\ drawn[i] \in ConfiguredAddrs => Wrapped(drawn[i])
        /\ \A j \in DOMAIN drawn : i # j /\ drawn[i] = drawn[j] => Wrapped(drawn[i])

Generated == {n \in DOMAIN nodes : nodes[n].vnic # None}
Issued == {nodes[n].ip : n \in Generated}

\* No two stations get the same IP address from GetNextIpAddress, whatever
\* block it started in, until the count has reached x.254.254.254.
IssuedDistinct ==
    \A m, n \in Generated :
        m # n /\ nodes[m].ip = nodes[n].ip => \E a \in Issued : Top(a)

\* GetNextIpAddress, which does not look at the mask, leaves the block only
\* when all addresses of it behind the network address that can be used
\* ("exclude ending in .0 and .255 or having .255 in any octet",
\* tests/MasterTest.cpp:8) have been given out.
FullBeforeLeaving ==
    Cidr => \/ \A a \in Issued : InBlock(a, Net, config.prefix)
            \/ \A a \in Addresses :
                  Safe(a) /\ InBlock(a, Net, config.prefix) /\ a # Net => a \in Issued

\* As long as the thread of a station runs, the interface that was brought up
\* for it is up with its address, whichever stations have ended, and whatever
\* an earlier process has left behind; no alias has two addresses.
ThreadHasInterface ==
    /\ \A n \in DOMAIN pc : pc[n] # "done" /\ nodes[n].vnic # None
                            => <<nodes[n].vnic, nodes[n].ip>> \in up
    /\ \A p, q \in up : p[1] = q[1] => p = q

\* A process that main ends takes down every interface it has brought up,
\* whatever the order in which its stations ended and whichever of them main
\* held (Node.cpp:49-56); an interface that is still up was left by a killed
\* process, under an alias that no station of this one had.
CleanExit ==
    [][phase' = "returned" =>
          \A p \in up' : p \in strays /\ \A n \in DOMAIN nodes : nodes[n].vnic # p[1]]_vars

\* A point is configured behind the end of its database only if the station has
\* one of the same type with the index 65535, whose size does not fit 16 bits.
DatabaseHoldsPoints ==
    \A x \in outside :
        /\ x[1] \in DOMAIN pc
        /\ \E q \in EntryOf(x[1]).points : q.type = x[2].type /\ q.index >= WordSize - 1

Known == KnownClasses \cup {AllClasses}

\* ConfigurePoint has entered class c for a point of an outstation.
Entered(c) ==
    \E n \in DOMAIN pc :
        /\ nodes[n].role = "Outstation"
        /\ \E p \in EntryOf(n).points \ todo[n] : p.type \in InputTypes /\ p.class = c

\* A master has the scans it was configured for, and beyond the known classes
\* only those that some outstation has by then entered into the shared map
\* (Station.cpp:125); which of the two threads comes first is left open.
ScansMatchPolls ==
    \A n \in DOMAIN pc : nodes[n].role = "Master" =>
        /\ pc[n] # "setup" => EntryOf(n).polls \cap Known \subseteq scans[n]
        /\ \A c \in scans[n] \ Known : c \in EntryOf(n).polls /\ Entered(c)
===============================================================================
