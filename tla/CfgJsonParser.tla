----------------------------- MODULE CfgJsonParser -----------------------------
(***************************************************************************)
(* The dnp3 generator's configuration: a list of entries, each for a       *)
(* master, an outstation or a pair.  The constructor of CfgJsonParser      *)
(* takes one entry after the other, gives addresses to the nodes that have *)
(* none, and brings up a network interface for each IP address it has      *)
(* chosen itself.  Settings that are only copied (lines 81-138) are fields *)
(* of the entry that a node carries along.                                 *)
(***************************************************************************)
EXTENDS CidrCalculator, Sequences, FiniteSetsExt

CONSTANTS
    None,          \* a key that is absent; an empty string
    Configs,       \* the configuration files considered
    Later,         \* Later[c]: those that a process after one with c may be given
    WordSize,      \* 2^16: DNP3 addresses and database sizes are uint16_t
    FirstDnp3Addr, \* 90
    PointTypes,    \* the values of "Type" in data points
    AllClasses     \* "0123", the "Event Class" of an integrity poll

ASSUME WordAssumption == WordSize \in Nat \ {0} /\ FirstDnp3Addr \in 0..(WordSize - 1)
ASSUME NoneAssumption == None \notin Int \cup Addresses

Dnp3Addrs == 0..(WordSize - 1)
MaxInt == 2147483647
Points == [type: PointTypes, index: 0..(MaxInt - 1), class: Nat]

Classes == Nat \cup {AllClasses}

\* The keys of an entry.  malformed: a data point or a poll lacks a key it
\* must have.  points are those of "Data" and of "Mapped Data"; mapped and
\* bound: "Data Sources" and "Bound Outstations" are not empty.
Entries == [master: BOOLEAN, outstation: BOOLEAN, malformed: BOOLEAN,
            mIp: Addresses \cup {None}, oIp: Addresses \cup {None},
            mAddr: Dnp3Addrs \cup {None}, oAddr: Dnp3Addrs \cup {None},
            points: SUBSET Points, mapped: BOOLEAN,
            polls: SUBSET Classes, bound: BOOLEAN]

ASSUME ConfigAssumption ==
    \A c \in Configs : /\ c.entries \in Seq(Entries)
                       /\ c.addr \in Addresses \cup {None}
                       /\ c.prefix \in Prefixes
ASSUME LaterAssumption == Later \in [Configs -> SUBSET Configs]

VARIABLES
    config,         \* the file that the last process was started with
    entry,          \* the entries that have been read
    networkAddr,    \* of the CidrCalculator; None if there is no CIDR key
    localDnp3Addrs, \* as a set
    drawn,          \* history: what getNextDNP3Address has given out
    vnictrack,      \* the static counter of allocateIpAddress
    nodes,          \* of the stations created
    up              \* the host's interfaces: pairs of an alias and its address

parser == <<entry, networkAddr, localDnp3Addrs, drawn, vnictrack, nodes>>

Cidr == config.addr # None

\* readAllDnp3Addresses.
ConfiguredAddrs ==
    (UNION {{config.entries[i].mAddr, config.entries[i].oAddr} :
              i \in DOMAIN config.entries}) \ {None}

Net == NetworkAddr(config.addr, config.prefix)

-------------------------------------------------------------------------------
(* IP addresses *)

MasterNeedsIp(e) == Cidr /\ e.master /\ e.mIp = None
OutstationNeedsIp(e) == Cidr /\ e.outstation /\ e.oIp = None

\* The state of the calculator behind the master, and behind the outstation.
AfterMaster(e) ==
    IF MasterNeedsIp(e) THEN GetNextIpAddress(networkAddr) ELSE networkAddr
AfterOutstation(e) ==
    IF OutstationNeedsIp(e) THEN GetNextIpAddress(AfterMaster(e)) ELSE AfterMaster(e)

MasterIp(e) == IF MasterNeedsIp(e) THEN AfterMaster(e) ELSE e.mIp
OutstationIp(e) == IF OutstationNeedsIp(e) THEN AfterOutstation(e) ELSE e.oIp

\* Mutant: the outstation takes the alias of its master.
OutstationVnicShared(e) == vnictrack

\* The alias that an outstation gets: one more if its master has got one.
OutstationVnic(e) == IF MasterNeedsIp(e) THEN vnictrack + 1 ELSE vnictrack

\* ifconfig <alias> <address>, and ifconfig <alias> down (Node.cpp).
Allocate(ifs, alias, ip) == {p \in ifs : p[1] # alias} \cup {<<alias, ip>>}
Down(ifs, alias) == {p \in ifs : p[1] # alias}

-------------------------------------------------------------------------------
(* DNP3 addresses *)

\* Mutant: the addresses that the file gives are not looked at.
getNextDNP3AddressOfDrawn(addrs) ==
    LET own == {drawn[i] : i \in DOMAIN drawn}
    IN IF own = {} THEN FirstDnp3Addr ELSE Max(own) + 1

getNextDNP3Address(addrs) == IF addrs = {} THEN FirstDnp3Addr ELSE Max(addrs) + 1

\* Both are drawn whether the entry has the station or not.  They are ints
\* until they are stored: in the vector, or in a node.
MasterAddr(e) ==
    IF e.mAddr # None THEN e.mAddr ELSE getNextDNP3Address(localDnp3Addrs)

\* Mutant: the list holds ints.
AddrsWithMasterWide(e) == localDnp3Addrs \cup {MasterAddr(e)}

AddrsWithMaster(e) == localDnp3Addrs \cup {MasterAddr(e) % WordSize}
OutstationAddr(e) ==
    IF e.oAddr # None THEN e.oAddr ELSE getNextDNP3Address(AddrsWithMaster(e))

Drawn(e) ==
    (IF e.mAddr = None THEN <<MasterAddr(e) % WordSize>> ELSE <<>>) \o
    (IF e.oAddr = None THEN <<OutstationAddr(e) % WordSize>> ELSE <<>>)

-------------------------------------------------------------------------------
(* The constructor *)

MasterNode(e) ==
    [role |-> "Master", entry |-> entry + 1, ip |-> MasterIp(e),
     remote |-> IF e.outstation THEN OutstationIp(e) ELSE e.oIp,
     vnic |-> IF MasterNeedsIp(e) THEN vnictrack ELSE None,
     local |-> MasterAddr(e) % WordSize, peer |-> OutstationAddr(e) % WordSize]

OutstationNode(e) ==
    [role |-> "Outstation", entry |-> entry + 1, ip |-> OutstationIp(e),
     remote |-> None,
     vnic |-> IF OutstationNeedsIp(e) THEN OutstationVnic(e) ELSE None,
     local |-> OutstationAddr(e) % WordSize, peer |-> MasterAddr(e) % WordSize]

NewNodes(e) == (IF e.master THEN <<MasterNode(e)>> ELSE <<>>) \o
               (IF e.outstation THEN <<OutstationNode(e)>> ELSE <<>>)

Interfaces(e) ==
    LET withMaster == IF MasterNeedsIp(e) THEN Allocate(up, vnictrack, MasterIp(e)) ELSE up
    IN IF OutstationNeedsIp(e)
       THEN Allocate(withMaster, OutstationVnic(e), OutstationIp(e))
       ELSE withMaster

FirstNetworkAddr == IF Cidr THEN Net ELSE None

ParserInit ==
    /\ entry = 0
    /\ networkAddr = FirstNetworkAddr
    /\ localDnp3Addrs = ConfiguredAddrs
    /\ drawn = <<>>
    /\ vnictrack = 0
    /\ nodes = <<>>

\* The same of the next state: a process has ended, or begins with config'.
ParserReset ==
    /\ entry' = 0
    /\ networkAddr' = FirstNetworkAddr'
    /\ localDnp3Addrs' = ConfiguredAddrs'
    /\ drawn' = <<>>
    /\ vnictrack' = 0
    /\ nodes' = <<>>

\* One entry.  Both addresses are allocated before the rest of it is read.
ReadNode(e) ==
    /\ networkAddr' = AfterOutstation(e)
    /\ localDnp3Addrs' = AddrsWithMaster(e) \cup {OutstationAddr(e) % WordSize}
    /\ drawn' = drawn \o Drawn(e)
    /\ vnictrack' = IF OutstationNeedsIp(e) THEN OutstationVnic(e) + 1 ELSE OutstationVnic(e)
    /\ nodes' = nodes \o NewNodes(e)
    /\ entry' = entry + 1
    /\ up' = Interfaces(e)
===============================================================================
