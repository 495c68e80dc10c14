------------------------------ MODULE JsonParser ------------------------------
(***************************************************************************)
(* The Modbus generator's configuration.  process_nodes takes one master   *)
(* after the other, gives addresses to masters and outstations that have   *)
(* none, and then gathers the outstations by address into one node each.   *)
(* On the way it brings up interfaces, drops masters and may give up.      *)
(***************************************************************************)
EXTENDS Naturals, Sequences, FiniteSets

CONSTANTS
    None,         \* a key that is absent
    Configs,      \* the configuration files considered
    Names,        \* names of outstations
    Addrs,        \* IP addresses
    Types,        \* "Data type" of a poll
    DefaultPort,  \* 502
    MaxUnit       \* 247

ASSUME NoneAssumption == None \notin Nat \cup Addrs

\* Keys of a master, and of an outstation; a list of names has no repetition.
\* hosts are the addresses cidr.get_addr() returns, one after the other; none if
\* there is no CIDR key.
IsMaster(m) == /\ m \in [named: BOOLEAN, ip: Addrs \cup {None}, outs: SUBSET Names,
                         polls: {m.polls}, simulate: BOOLEAN]
               /\ DOMAIN m.polls \subseteq Types
               /\ m.polls \in [DOMAIN m.polls -> Nat]
OutstationEntries == [ip: Addrs \cup {None}, port: Nat \cup {None}, unit: Nat,
                      count: Nat, simulate: BOOLEAN]

ASSUME ConfigAssumption ==
    \A c \in Configs :
        /\ c.masters \in Seq({c.masters[i] : i \in DOMAIN c.masters})
        /\ \A i \in DOMAIN c.masters : IsMaster(c.masters[i])
        /\ DOMAIN c.outs \subseteq Names
        /\ \A n \in DOMAIN c.outs : c.outs[n] \in OutstationEntries
        /\ c.hosts \in Seq(Addrs)
        /\ \A i, j \in DOMAIN c.hosts : c.hosts[i] = c.hosts[j] => i = j

MasterIds == UNION {DOMAIN c.masters : c \in Configs}

VARIABLES
    config,   \* the file
    phase,    \* where main is
    entry,    \* masters that have been read
    drawn,    \* addresses that get_addr has returned
    masters,  \* master_nodes, by their place in the file
    given,    \* outstation_cidr_addrs
    gathered, \* outstation_set
    stations, \* outstation_nodes, by address
    vnictrack,
    up        \* the host's interfaces: pairs of an alias and its address

parser == <<config, entry, drawn, masters, given, gathered, stations, vnictrack>>

Extend(f, x, v) == [y \in DOMAIN f \cup {x} |-> IF y = x THEN v ELSE f[y]]

Configured(S) == {config.outs[n].ip : n \in S} \ {None}
Exhausted(k) == k >= Len(config.hosts)

\* get_outstation_port and get_outstation_sim give up unless all are the same.
SamePort(S) == \A a, b \in S : config.outs[a].port = config.outs[b].port
SameSim(S) == \A a, b \in S : config.outs[a].simulate = config.outs[b].simulate

\* len(ports)==1 and ports[0] or 502
Port(S) == IF Cardinality(S) = 1 /\ \A n \in S : config.outs[n].port # None
           THEN (CHOOSE p \in {config.outs[n].port : n \in S} : TRUE)
           ELSE DefaultPort

\* get_outstation_datastore.  (A master may have two outstations with one id
\* here; GoodUnits refuses the file later.)
Unit(n) == config.outs[n].unit
Datastore(S) == [u \in {Unit(n) : n \in S} |->
                    config.outs[CHOOSE n \in S : Unit(n) = u].count]

\* Mutant: the ids are not compared.
GoodUnitsUpToMax(S) == \A a \in S : Unit(a) <= MaxUnit

\* get_outstation_unitids gives up otherwise.
GoodUnits(S) == \A a \in S : Unit(a) <= MaxUnit /\ \A b \in S : Unit(a) = Unit(b) => a = b

-------------------------------------------------------------------------------
(* Masters *)

ParserInit ==
    /\ config \in Configs
    /\ phase = "masters"
    /\ entry = 0
    /\ drawn = 0
    /\ masters = <<>>
    /\ given = <<>>
    /\ gathered = {}
    /\ stations = <<>>
    /\ vnictrack = 0
    /\ up = {}

Unread == entry + 1 \in DOMAIN config.masters
Master == config.masters[entry + 1]

\* get_addr() is called whether the master has an address or not; without a
\* CIDR key there is no such method.
Readable == Master.named /\ ~Exhausted(drawn)

\* The bare except hides a missing name, a missing CIDR key and the exit() of
\* an exhausted generator alike.
DropMaster ==
    /\ phase = "masters"
    /\ Unread
    /\ ~Readable
    /\ entry' = entry + 1
    /\ UNCHANGED <<config, phase, drawn, masters, given, gathered, stations, vnictrack, up>>

MasterIp == IF Master.ip = None THEN config.hosts[drawn + 1] ELSE Master.ip

\* ifconfig.  Nothing is released if the program gives up later.
WithMaster == IF Master.ip = None THEN up \cup {<<vnictrack, MasterIp>>} ELSE up

\* Addresses that some of the outstations have been given for another master.
AlreadyGiven == {given[n] : n \in gathered \cap Master.outs}

\* No outstation has an address: take the one that is given, or draw one.
NeedsAddr == Configured(Master.outs) = {} /\ AlreadyGiven = {}

\* Mutant: outstations that were given different addresses are accepted.
OneAddressOfFile ==
    Configured(Master.outs) # {} =>
        \A a, b \in Master.outs : config.outs[a].ip = config.outs[b].ip

\* All outstations of a master are at one address, in the file or given.
OneAddress ==
    IF Configured(Master.outs) # {}
    THEN \A a, b \in Master.outs : config.outs[a].ip = config.outs[b].ip
    ELSE Cardinality(AlreadyGiven) <= 1

Acceptable ==
    /\ Master.outs \subseteq DOMAIN config.outs
    /\ OneAddress
    /\ NeedsAddr => ~Exhausted(drawn + 1)
    /\ SamePort(Master.outs)

\* exit()
RefuseMaster ==
    /\ phase = "masters"
    /\ Unread
    /\ Readable
    /\ ~Acceptable
    /\ up' = WithMaster
    /\ phase' = "exited"
    /\ UNCHANGED parser

\* Just one, in a file that is acceptable.
KnownAddrs ==
    IF Configured(Master.outs) # {} THEN Configured(Master.outs) ELSE AlreadyGiven

\* Mutant: the outstations get the address that the master has drawn.
OutstationAddrOfMaster ==
    IF NeedsAddr THEN config.hosts[drawn + 1] ELSE CHOOSE a \in KnownAddrs : TRUE

OutstationAddr ==
    IF NeedsAddr THEN config.hosts[drawn + 2] ELSE CHOOSE a \in KnownAddrs : TRUE

ReadMaster ==
    /\ phase = "masters"
    /\ Unread
    /\ Readable
    /\ Acceptable
    /\ entry' = entry + 1
    /\ drawn' = drawn + (IF NeedsAddr THEN 2 ELSE 1)
    /\ masters' = Extend(masters, entry + 1,
                    [ip |-> MasterIp, vnic |-> IF Master.ip = None THEN vnictrack ELSE None,
                     addr |-> OutstationAddr, outs |-> Master.outs,
                     info |-> Datastore(Master.outs), port |-> Port(Master.outs)])
    /\ given' = IF Configured(Master.outs) # {} THEN given
                ELSE [n \in DOMAIN given \cup Master.outs |->
                        IF n \in Master.outs THEN OutstationAddr ELSE given[n]]
    /\ gathered' = gathered \cup Master.outs
    /\ vnictrack' = IF Master.ip = None THEN vnictrack + 1 ELSE vnictrack
    /\ up' = WithMaster
    /\ UNCHANGED <<config, phase, stations>>

MastersRead ==
    /\ phase = "masters"
    /\ ~Unread
    /\ phase' = "grouping"
    /\ UNCHANGED <<parser, up>>

-------------------------------------------------------------------------------
(* Outstations *)

AddrOf(n) == IF config.outs[n].ip # None THEN config.outs[n].ip ELSE given[n]
Group(a) == {n \in gathered : AddrOf(n) = a}
Ungrouped == {AddrOf(n) : n \in gathered} \ DOMAIN stations

RefuseGroup ==
    /\ phase = "grouping"
    /\ \E a \in Ungrouped : ~(SamePort(Group(a)) /\ SameSim(Group(a)) /\ GoodUnits(Group(a)))
    /\ phase' = "exited"
    /\ UNCHANGED <<parser, up>>

\* In the order of a dict that was filled from a set.
CreateOutstation(a) ==
    LET allocates == Configured(Group(a)) = {}
    IN /\ phase = "grouping"
       /\ a \in Ungrouped
       /\ SamePort(Group(a)) /\ SameSim(Group(a)) /\ GoodUnits(Group(a))
       /\ stations' = Extend(stations, a,
                        [names |-> Group(a), port |-> Port(Group(a)),
                         simulate |-> \A n \in Group(a) : config.outs[n].simulate,
                         datastore |-> Datastore(Group(a)),
                         vnic |-> IF allocates THEN vnictrack ELSE None])
       /\ vnictrack' = IF allocates THEN vnictrack + 1 ELSE vnictrack
       /\ up' = IF allocates THEN up \cup {<<vnictrack, a>>} ELSE up
       /\ UNCHANGED <<config, phase, entry, drawn, masters, given, gathered>>

Grouped ==
    /\ phase = "grouping"
    /\ Ungrouped = {}
    /\ phase' = "starting"
    /\ UNCHANGED <<parser, up>>

Parse == \/ DropMaster \/ RefuseMaster \/ ReadMaster \/ MastersRead
         \/ RefuseGroup \/ Grouped \/ \E a \in Addrs : CreateOutstation(a)
===============================================================================
