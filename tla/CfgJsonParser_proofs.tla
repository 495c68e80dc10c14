------------------------- MODULE CfgJsonParser_proofs -------------------------
(***************************************************************************)
(* Proofs about the addresses and interfaces of dnp3app, for every set of  *)
(* configuration files and every width of octets and DNP3 addresses.       *)
(***************************************************************************)
EXTENDS Dnp3App_proofs

-------------------------------------------------------------------------------
(* Steps of the parser *)

\* What a step of the program does to the parser: nothing, one entry, or it is
\* set back, for the same file or for another.
LEMMA ParserSteps ==
  ASSUME TypeOK, [Next]_vars
  PROVE  \/ UNCHANGED <<config, parser>>
         \/ config' = config /\ NextEntry \in Entries /\ ReadNode(NextEntry)
         \/ config' \in Configs /\ ParserInit'
<1>1. CASE Parse
  <2>1. NextEntry \in Entries
    BY <1>1, ConfigTypes DEF Parse, Unread, NextEntry, TypeOK, ParserTypeOK
  <2>2. QED
    BY <1>1, <2>1 DEF Parse
<1>2. CASE ParseFails \/ Return \/ Kill
  <2>1. Forget /\ config \in Configs
    BY <1>2 DEF ParseFails, Return, Kill, TypeOK, ParserTypeOK
  <2>2. QED
    BY <2>1, EndedTypes DEF Forget
<1>3. CASE Start
  <2>1. config' \in Configs /\ ParserReset
    BY <1>3, LaterAssumption DEF Start, TypeOK, ParserTypeOK
  <2>2. QED
    BY <2>1, ResetTypes
<1>4. CASE DeletePipe \/ Parsed \/ StartStation \/ Started \/ Quit
  BY <1>4 DEF DeletePipe, Parsed, StartStation, Started, Quit
<1>5. ASSUME NEW n \in DOMAIN pc, Station(n)
      PROVE  UNCHANGED <<config, parser>>
  BY <1>5 DEF Station, AddScan, ConfigurePoint, Enable, Stop
<1>6. QED
  BY <1>1, <1>2, <1>3, <1>4, <1>5 DEF Next, Main, vars

-------------------------------------------------------------------------------
(* DNP3 addresses *)

\* d are addresses that have been drawn, S those in use, C those of the file.
New(d, S, C) ==
    \A i \in DOMAIN d :
        /\ d[i] \in C => d[i] = 0 /\ WordSize - 1 \in S
        /\ \A j \in DOMAIN d : i # j /\ d[i] = d[j] => d[i] = 0 /\ WordSize - 1 \in S

LEMMA DrawOne ==
  ASSUME NEW S \in SUBSET Dnp3Addrs, NEW d \in Seq(S), NEW C \in SUBSET S, New(d, S, C),
         NEW a, a = getNextDNP3Address(S) % WordSize
  PROVE  New(Append(d, a), S \cup {a}, C) /\ Append(d, a) \in Seq(S \cup {a})
<1> DEFINE f == Append(d, a)
<1>1. a \in S => a = 0 /\ WordSize - 1 \in S
  BY NextDnp3
<1>2. /\ \A i \in DOMAIN f : i \in DOMAIN d \/ i = Len(d) + 1
      /\ \A i \in DOMAIN d : f[i] = d[i] /\ d[i] \in S
      /\ f[Len(d) + 1] = a
  OBVIOUS
<1>3. f \in Seq(S \cup {a})
  OBVIOUS
<1> HIDE DEF f
<1>4. ASSUME NEW i \in DOMAIN f
      PROVE  /\ f[i] \in C => f[i] = 0 /\ WordSize - 1 \in S
             /\ \A j \in DOMAIN f : i # j /\ f[i] = f[j] => f[i] = 0 /\ WordSize - 1 \in S
  <2>1. CASE i \in DOMAIN d
    BY <1>1, <1>2, <2>1 DEF New
  <2>2. CASE i = Len(d) + 1
    BY <1>1, <1>2, <2>2 DEF New
  <2>3. QED
    BY <1>2, <2>1, <2>2
<1>5. New(f, S \cup {a}, C)
  BY <1>4 DEF New
<1>6. QED
  BY <1>3, <1>5 DEF f

LEMMA UseOne ==
  ASSUME NEW S, NEW d \in Seq(S), NEW C, New(d, S, C), NEW a
  PROVE  New(d, S \cup {a}, C) /\ d \in Seq(S \cup {a})
<1>1. d \in Seq(S \cup {a})
  OBVIOUS
<1>2. QED
  BY <1>1 DEF New

Dnp3Inv ==
    /\ ConfiguredAddrs \subseteq localDnp3Addrs
    /\ New(drawn, localDnp3Addrs, ConfiguredAddrs)

LEMMA ReadDnp3 ==
  ASSUME ParserTypeOK, Dnp3Inv, NEW e \in Entries, ReadNode(e), config' = config
  PROVE  Dnp3Inv'
<1> DEFINE S == localDnp3Addrs
           C == ConfiguredAddrs
           m == MasterAddr(e) % WordSize
           o == OutstationAddr(e) % WordSize
           dm == IF e.mAddr = None THEN Append(drawn, m) ELSE drawn
           do == IF e.oAddr = None THEN Append(dm, o) ELSE dm
<1>1. S \in SUBSET Dnp3Addrs /\ drawn \in Seq(S) /\ C \in SUBSET S /\ New(drawn, S, C)
  BY DEF ParserTypeOK, Dnp3Inv
<1>2. m \in Dnp3Addrs
  BY <1>1, EntryDnp3
<1>3. e.mAddr = None => m = getNextDNP3Address(S) % WordSize
  BY DEF MasterAddr
<1>4. e.oAddr = None => o = getNextDNP3Address(S \cup {m}) % WordSize
  BY DEF OutstationAddr, AddrsWithMaster
<1>5. localDnp3Addrs' = S \cup {m} \cup {o} /\ drawn' = drawn \o Drawn(e)
  BY DEF ReadNode, AddrsWithMaster
<1>6. drawn' = do
  <2>1. /\ Drawn(e) = (IF e.mAddr = None THEN <<m>> ELSE <<>>) \o (IF e.oAddr = None THEN <<o>> ELSE <<>>)
        /\ o \in Dnp3Addrs
    BY <1>1, EntryDnp3 DEF Drawn
  <2> HIDE DEF m, o, S
  <2>2. drawn \in Seq(Dnp3Addrs)
    BY <1>1
  <2>3. CASE e.mAddr = None /\ e.oAddr = None
    <3>1. Drawn(e) = <<m>> \o <<o>>
      BY <2>1, <2>3
    <3>2. drawn \o (<<m>> \o <<o>>) = Append(Append(drawn, m), o)
      <4> DEFINE p == <<m>> \o <<o>>
      <4>1. p \in Seq(Dnp3Addrs) /\ Len(p) = 2 /\ p[1] = m /\ p[2] = o
        BY <1>2, <2>1
      <4> HIDE DEF p
      <4>2. drawn \o p = Append(Append(drawn, p[1]), p[2])
        BY Zenon, <2>2, <4>1, AppendTwo
      <4>3. QED
        BY <4>1, <4>2 DEF p
    <3>3. QED
      BY <1>5, <2>3, <3>1, <3>2
  <2>4. CASE e.mAddr = None /\ e.oAddr # None
    <3>1. Drawn(e) = <<m>>
      BY <1>2, <2>1, <2>4
    <3>2. drawn \o <<m>> = Append(drawn, m)
      BY <1>2, <2>2
    <3>3. QED
      BY <1>5, <2>4, <3>1, <3>2
  <2>5. CASE e.mAddr # None /\ e.oAddr = None
    <3>1. Drawn(e) = <<o>>
      BY <2>1, <2>5
    <3>2. drawn \o <<o>> = Append(drawn, o)
      BY <2>1, <2>2
    <3>3. QED
      BY <1>5, <2>5, <3>1, <3>2
  <2>6. CASE e.mAddr # None /\ e.oAddr # None
    <3>1. Drawn(e) = <<>>
      BY <2>1, <2>6
    <3>2. drawn \o <<>> = drawn
      BY <2>2
    <3>3. QED
      BY <1>5, <2>6, <3>1, <3>2
  <2>7. QED
    BY <2>3, <2>4, <2>5, <2>6
<1> HIDE DEF m, o, S, C
<1>7. New(dm, S \cup {m}, C) /\ dm \in Seq(S \cup {m})
  BY <1>1, <1>3, DrawOne, UseOne
<1>8. S \cup {m} \in SUBSET Dnp3Addrs /\ C \in SUBSET (S \cup {m})
  BY <1>1, <1>2
<1>9. New(do, S \cup {m} \cup {o}, C)
  <2> HIDE DEF dm
  <2>1. CASE e.oAddr = None
    BY <1>4, <1>7, <1>8, <2>1, DrawOne
  <2>2. CASE e.oAddr # None
    BY <1>7, <2>2, UseOne
  <2>3. QED
    BY <2>1, <2>2
<1>10. ConfiguredAddrs' = C
  BY DEF ConfiguredAddrs, C
<1>11. C \subseteq S \cup {m} \cup {o}
  BY <1>1
<1> HIDE DEF do
<1>12. QED
  BY <1>5, <1>6, <1>9, <1>10, <1>11 DEF Dnp3Inv, New

\* The DNP3 addresses the program allocates are none of the file, and no two
\* of them are the same, until 16 bits wrap: whatever the file holds.
THEOREM AllocatedDnp3Distinct == Spec => []AddressesDistinct
<1>1. Init => Dnp3Inv
  BY DEF Init, ParserInit, Dnp3Inv, New
<1>2. TypeOK /\ Dnp3Inv /\ [Next]_vars => Dnp3Inv'
  <2> SUFFICES ASSUME TypeOK, Dnp3Inv, [Next]_vars
               PROVE  Dnp3Inv'
    OBVIOUS
  <2>1. CASE UNCHANGED <<config, parser>>
    BY <2>1 DEF ConfiguredAddrs, parser, Dnp3Inv, New
  <2>2. CASE config' = config /\ NextEntry \in Entries /\ ReadNode(NextEntry)
    BY <2>2, ReadDnp3 DEF TypeOK
  <2>3. CASE ParserInit'
    BY <2>3 DEF ParserInit, Dnp3Inv, New
  <2>4. QED
    BY <2>1, <2>2, <2>3, ParserSteps
<1>3. Dnp3Inv => AddressesDistinct
  BY DEF Dnp3Inv, New, AddressesDistinct, Wrapped
<1>4. QED
  BY <1>1, <1>2, <1>3, TypesInvariant, PTL DEF Spec

-------------------------------------------------------------------------------
(* IP addresses *)

\* The addresses that have been given out to a list of nodes.
Gen(ns) == {n \in DOMAIN ns : ns[n].vnic # None}
Ips(ns) == {ns[n].ip : n \in Gen(ns)}

\* All come in order up to cur, unless the count has been at its end.
Ordered(ns, cur) ==
    \/ \E a \in Ips(ns) : Top(a)
    \/ /\ Gen(ns) = {} \/ cur \in Ips(ns)
       /\ \A n \in Gen(ns) : ns[n].ip = cur \/ Before(ns[n].ip, cur)
       /\ \A m, n \in Gen(ns) : m # n => ns[m].ip # ns[n].ip

\* What can be used of a block whose network address is net.
Usable(net, prefix) ==
    {a \in Addresses : Safe(a) /\ InBlock(a, net, prefix) /\ a # net}

\* Those that are left, if any, are behind cur.
Covered(ns, cur, net, prefix) ==
    \/ Usable(net, prefix) \subseteq Ips(ns)
    \/ /\ InBlock(cur, net, prefix)
       /\ \A a \in Ips(ns) : InBlock(a, net, prefix)
       /\ \A s \in Usable(net, prefix) : s \in Ips(ns) \/ Before(cur, s)

Counted(ns, cur, addr, prefix) ==
    /\ Ips(ns) \subseteq Addresses
    /\ Ordered(ns, cur)
    /\ Covered(ns, cur, NetworkAddr(addr, prefix), prefix)

\* A node whose address comes from elsewhere.
LEMMA OtherGen ==
  ASSUME NEW ns \in Seq(Nodes), NEW d \in Nodes, d.vnic = None
  PROVE  Gen(Append(ns, d)) = Gen(ns) /\ Append(ns, d) \in Seq(Nodes)
BY DEF Gen

LEMMA OtherNode ==
  ASSUME NEW ns \in Seq(Nodes), NEW d \in Nodes, d.vnic = None,
         NEW cur, NEW addr, NEW prefix, Counted(ns, cur, addr, prefix)
  PROVE  Counted(Append(ns, d), cur, addr, prefix)
<1> DEFINE f == Append(ns, d)
<1>1. Gen(f) = Gen(ns) /\ \A n \in Gen(ns) : f[n] = ns[n]
  BY DEF Gen
<1> HIDE DEF f
<1>2. Ips(f) = Ips(ns)
  BY <1>1 DEF Ips
<1>3. Ordered(f, cur)
  BY <1>1, <1>2 DEF Ordered, Counted
<1>4. QED
  BY <1>2, <1>3 DEF Counted, Covered, f

\* A node that gets the next address.
LEMMA CountedNode ==
  ASSUME NEW ns \in Seq(Nodes), NEW d \in Nodes, d.vnic # None,
         NEW cur \in Addresses, NEW addr \in Addresses, NEW prefix \in Prefixes,
         Counted(ns, cur, addr, prefix), d.ip = GetNextIpAddress(cur)
  PROVE  Counted(Append(ns, d), GetNextIpAddress(cur), addr, prefix)
<1> DEFINE f == Append(ns, d)
           b == GetNextIpAddress(cur)
           net == NetworkAddr(addr, prefix)
           k == Len(ns) + 1
<1>1. /\ Gen(f) = Gen(ns) \cup {k} /\ k \notin Gen(ns)
      /\ \A n \in Gen(ns) : f[n] = ns[n]
      /\ f[k] = d
  BY DEF Gen
<1>2. b \in Addresses /\ d.ip = b
  BY NextOctets
<1>3. net \in Addresses
  BY NetworkOctets
<1> HIDE DEF f, k
<1>4. Ips(f) = Ips(ns) \cup {b}
  BY <1>1, <1>2 DEF Ips
<1>5. Ips(ns) \subseteq Addresses /\ Ordered(ns, cur) /\ Covered(ns, cur, net, prefix)
  BY DEF Counted
<1>6. \A n \in Gen(ns) : ns[n].ip \in Ips(ns)
  BY DEF Ips
<1> HIDE DEF b
<1>7. Ordered(f, b)
  <2>1. CASE \E a \in Ips(ns) : Top(a)
    BY <1>4, <2>1 DEF Ordered
  <2>2. CASE Gen(ns) = {}
    <3>1. Gen(f) = {k} /\ Ips(f) = {b}
      BY <1>1, <1>4, <2>2 DEF Ips
    <3>2. QED
      BY <1>1, <1>2, <3>1 DEF Ordered
  <2>3. CASE Gen(ns) # {} /\ ~\E a \in Ips(ns) : Top(a)
    <3>1. /\ cur \in Ips(ns)
          /\ \A n \in Gen(ns) : ns[n].ip = cur \/ Before(ns[n].ip, cur)
          /\ \A m, n \in Gen(ns) : m # n => ns[m].ip # ns[n].ip
      BY <1>5, <2>3 DEF Ordered
    <3>2. Before(cur, b)
      BY <2>3, <3>1, NextIncreases DEF b
    <3>3. \A n \in Gen(ns) : Before(ns[n].ip, b)
      BY <1>2, <1>5, <1>6, <3>1, <3>2, BeforeOrder
    <3>4. \A n \in Gen(ns) : ns[n].ip # b
      BY <1>2, <3>3, BeforeOrder
    <3>5. \A n \in Gen(f) : f[n].ip = b \/ Before(f[n].ip, b)
      BY <1>1, <1>2, <3>3
    <3>6. \A m, n \in Gen(f) : m # n => f[m].ip # f[n].ip
      BY <1>1, <1>2, <3>1, <3>4
    <3>7. QED
      BY <1>4, <3>5, <3>6 DEF Ordered
  <2>4. QED
    BY <2>1, <2>2, <2>3
<1>8. Covered(f, b, net, prefix)
  <2>1. CASE Usable(net, prefix) \subseteq Ips(ns)
    BY <1>4, <2>1 DEF Covered
  <2>2. CASE ~(Usable(net, prefix) \subseteq Ips(ns))
    <3>1. PICK s \in Usable(net, prefix) : s \notin Ips(ns)
      BY <2>2
    <3>2. /\ InBlock(cur, net, prefix)
          /\ \A a \in Ips(ns) : InBlock(a, net, prefix)
          /\ \A t \in Usable(net, prefix) : t \in Ips(ns) \/ Before(cur, t)
      BY <1>5, <2>2 DEF Covered
    <3>3. ASSUME NEW t \in Usable(net, prefix), Before(cur, t)
          PROVE  InBlock(b, net, prefix) /\ (b = t \/ Before(b, t))
      <4>1. t \in Addresses /\ Safe(t) /\ InBlock(t, net, prefix)
        BY <3>3 DEF Usable
      <4>2. QED
        BY <3>2, <3>3, <4>1, NextStaysInBlock DEF b
    <3>4. InBlock(b, net, prefix)
      BY <3>1, <3>2, <3>3
    <3> HIDE DEF net
    <3>5. \A t \in Usable(net, prefix) : t \in Ips(f) \/ Before(b, t)
      BY <1>4, <3>2, <3>3
    <3>6. QED
      BY <1>4, <3>2, <3>4, <3>5 DEF Covered
  <2>3. QED
    BY <2>1, <2>2
<1>9. QED
  BY <1>2, <1>4, <1>5, <1>7, <1>8 DEF Counted, f, b

\* The network address itself comes before all others of its block.
LEMMA NetFirst ==
  ASSUME NEW net \in Addresses, NEW prefix, NEW s \in Addresses,
         InBlock(s, net, prefix), s # net
  PROVE  Before(net, s)
<1>1. \A i \in 1..4 : s[i] \in Nat /\ net[i] \in Nat /\ s[i] >= net[i]
  BY Octets DEF InBlock, Addresses
<1>2. \E i \in 1..4 : s[i] # net[i]
  BY DEF Addresses
<1>3. QED
  BY <1>1, <1>2, BeforeIs

IpInv == IF Cidr THEN Counted(nodes, networkAddr, config.addr, config.prefix)
                 ELSE Gen(nodes) = {}

LEMMA InitIp ==
  ASSUME config \in Configs, ParserInit
  PROVE  IpInv
<1>0. CASE ~Cidr
  BY <1>0 DEF ParserInit, IpInv, Gen
<1> SUFFICES ASSUME Cidr
             PROVE  Counted(nodes, networkAddr, config.addr, config.prefix)
  BY <1>0 DEF IpInv
<1> DEFINE net == NetworkAddr(config.addr, config.prefix)
<1>1. nodes = <<>> /\ networkAddr = net
  BY DEF ParserInit, FirstNetworkAddr, Net
<1>2. Gen(nodes) = {} /\ Ips(nodes) = {}
  BY <1>1 DEF Gen, Ips
<1>3. net \in Addresses /\ InBlock(net, net, config.prefix)
  BY ConfigTypes, NetworkOctets
<1>4. \A s \in Usable(net, config.prefix) : Before(net, s)
  <2> HIDE DEF net
  <2> QED
    BY <1>3, NetFirst DEF Usable
<1> HIDE DEF net
<1>5. QED
  BY <1>1, <1>2, <1>3, <1>4 DEF Counted, Ordered, Covered, net

LEMMA ReadIp ==
  ASSUME ParserTypeOK, IpInv, NEW e \in Entries, ReadNode(e), config' = config
  PROVE  IpInv'
<1>0. CASE ~Cidr
  <2>1. /\ MasterNode(e).vnic = None /\ OutstationNode(e).vnic = None
        /\ e.master => MasterNode(e) \in Nodes
        /\ e.outstation => OutstationNode(e) \in Nodes
    BY <1>0, NewNodeTypes DEF MasterNode, OutstationNode, MasterNeedsIp, OutstationNeedsIp
  <2> DEFINE ns == IF e.master THEN Append(nodes, MasterNode(e)) ELSE nodes
  <2>2. nodes' = IF e.outstation THEN Append(ns, OutstationNode(e)) ELSE ns
    BY ReadInTwo DEF ReadNode
  <2>3. Gen(nodes) = {} /\ nodes \in Seq(Nodes)
    BY <1>0 DEF IpInv, ParserTypeOK
  <2>4. Gen(ns) = {} /\ ns \in Seq(Nodes)
    BY <2>1, <2>3, OtherGen
  <2> HIDE DEF ns
  <2>5. Gen(nodes') = {}
    BY <2>1, <2>2, <2>4, OtherGen
  <2>6. QED
    BY <1>0, <2>5 DEF IpInv, Cidr
<1> SUFFICES ASSUME Cidr
             PROVE  Counted(nodes', networkAddr', config.addr, config.prefix)
  BY <1>0 DEF IpInv, Cidr
<1> DEFINE ns == IF e.master THEN Append(nodes, MasterNode(e)) ELSE nodes
           m == AfterMaster(e)
<1>1. /\ nodes \in Seq(Nodes) /\ networkAddr \in Addresses
      /\ config.addr \in Addresses /\ config.prefix \in Prefixes
      /\ Counted(nodes, networkAddr, config.addr, config.prefix)
  BY ConfigTypes DEF ParserTypeOK, IpInv
<1>2. Counted(ns, m, config.addr, config.prefix)
  <2>1. CASE ~e.master
    BY <1>1, <2>1 DEF AfterMaster, MasterNeedsIp
  <2>2. CASE e.master /\ MasterNeedsIp(e)
    <3>1. MasterNode(e) \in Nodes
      BY <2>2, NewNodeTypes
    <3>2. /\ MasterNode(e).vnic # None /\ MasterNode(e).ip = GetNextIpAddress(networkAddr)
          /\ m = GetNextIpAddress(networkAddr)
      BY <2>2, NoneAssumption DEF MasterNode, MasterIp, AfterMaster, ParserTypeOK
    <3>3. QED
      BY <1>1, <2>2, <3>1, <3>2, CountedNode
  <2>3. CASE e.master /\ ~MasterNeedsIp(e)
    <3>1. MasterNode(e) \in Nodes /\ MasterNode(e).vnic = None /\ m = networkAddr
      BY <2>3, NewNodeTypes DEF MasterNode, AfterMaster
    <3>2. QED
      BY <1>1, <2>3, <3>1, OtherNode
  <2>4. QED
    BY <2>1, <2>2, <2>3
<1>3. /\ ns \in Seq(Nodes) /\ m \in Addresses
      /\ nodes' = IF e.outstation THEN Append(ns, OutstationNode(e)) ELSE ns
      /\ networkAddr' = AfterOutstation(e)
  <2>1. m \in Addresses
    BY EntryIp DEF ParserTypeOK
  <2>2. QED
    BY <2>1, ReadInTwo DEF ReadNode
<1> HIDE DEF ns
<1>4. CASE ~e.outstation
  BY <1>2, <1>3, <1>4 DEF AfterOutstation, OutstationNeedsIp
<1>5. CASE e.outstation /\ OutstationNeedsIp(e)
  <2>1. OutstationNode(e) \in Nodes
    BY <1>5, NewNodeTypes
  <2>2. /\ OutstationNode(e).vnic # None /\ OutstationNode(e).ip = GetNextIpAddress(m)
        /\ networkAddr' = GetNextIpAddress(m)
    BY <1>3, <1>5, NoneAssumption DEF OutstationNode, OutstationIp, AfterOutstation, OutstationVnic, ParserTypeOK
  <2> HIDE DEF m
  <2>3. QED
    BY <1>1, <1>2, <1>3, <1>5, <2>1, <2>2, CountedNode
<1>6. CASE e.outstation /\ ~OutstationNeedsIp(e)
  <2>1. OutstationNode(e) \in Nodes /\ OutstationNode(e).vnic = None /\ networkAddr' = m
    BY <1>3, <1>6, NewNodeTypes DEF OutstationNode, AfterOutstation
  <2> HIDE DEF m
  <2>2. QED
    BY <1>2, <1>3, <1>6, <2>1, OtherNode
<1>7. QED
  BY <1>4, <1>5, <1>6

LEMMA IpInvariant == Spec => []IpInv
<1>1. Init => IpInv
  BY InitIp DEF Init
<1>2. TypeOK /\ IpInv /\ [Next]_vars => IpInv'
  <2> SUFFICES ASSUME TypeOK, IpInv, [Next]_vars
               PROVE  IpInv'
    OBVIOUS
  <2>1. CASE UNCHANGED <<config, parser>>
    BY <2>1 DEF parser, IpInv, Cidr
  <2>2. CASE config' = config /\ NextEntry \in Entries /\ ReadNode(NextEntry)
    BY <2>2, ReadIp DEF TypeOK
  <2>3. CASE config' \in Configs /\ ParserInit'
    <3>1. (config \in Configs /\ ParserInit => IpInv)'
      BY InitIp, PTL
    <3>2. QED
      BY <2>3, <3>1
  <2>4. QED
    BY <2>1, <2>2, <2>3, ParserSteps
<1>3. QED
  BY <1>1, <1>2, TypesInvariant, PTL DEF Spec

\* No IP address is given out twice before the count has reached its end.
THEOREM IssuedIpsDistinct == Spec => []IssuedDistinct
<1>1. IpInv => IssuedDistinct
  <2> SUFFICES ASSUME IpInv
               PROVE  IssuedDistinct
    OBVIOUS
  <2>1. Gen(nodes) = {} \/ Ordered(nodes, networkAddr)
    BY DEF IpInv, Counted
  <2>2. Generated = Gen(nodes) /\ Issued = Ips(nodes)
    BY DEF Generated, Issued, Gen, Ips
  <2>3. QED
    BY <2>1, <2>2 DEF Ordered, IssuedDistinct
<1>2. QED
  BY <1>1, IpInvariant, PTL

\* The count leaves its block only when all of it has been given out.
THEOREM BlockFullBeforeLeaving == Spec => []FullBeforeLeaving
<1>1. IpInv => FullBeforeLeaving
  <2> SUFFICES ASSUME Cidr, Counted(nodes, networkAddr, config.addr, config.prefix)
               PROVE  FullBeforeLeaving
    BY DEF IpInv, FullBeforeLeaving
  <2>1. Covered(nodes, networkAddr, Net, config.prefix)
    BY DEF Counted, Net
  <2>2. Issued = Ips(nodes)
    BY DEF Generated, Issued, Gen, Ips
  <2>3. QED
    BY <2>1, <2>2 DEF Covered, Usable, FullBeforeLeaving
<1>2. QED
  BY <1>1, IpInvariant, PTL
-------------------------------------------------------------------------------
(* Interfaces *)

\* The aliases of the nodes that have one are 0..(v - 1), each used once.
Numbered(ns, v) ==
    /\ \A n \in Gen(ns) : ns[n].vnic \in 0..(v - 1)
    /\ \A m, n \in Gen(ns) : ns[m].vnic = ns[n].vnic => m = n
    /\ \A k \in 0..(v - 1) : \E n \in Gen(ns) : ns[n].vnic = k

Functional(ifs) == \A p, q \in ifs : p[1] = q[1] => p = q

\* Each of these nodes has its interface.
Attached(ns, v, ifs) ==
    /\ Numbered(ns, v)
    /\ Functional(ifs)
    /\ \A n \in Gen(ns) : <<ns[n].vnic, ns[n].ip>> \in ifs

LEMMA AttachedOther ==
  ASSUME NEW ns \in Seq(Nodes), NEW d \in Nodes, d.vnic = None,
         NEW v, NEW ifs, Attached(ns, v, ifs)
  PROVE  Attached(Append(ns, d), v, ifs)
<1> DEFINE f == Append(ns, d)
<1>1. Gen(f) = Gen(ns) /\ \A n \in Gen(ns) : f[n] = ns[n]
  BY DEF Gen
<1> HIDE DEF f
<1>2. Numbered(f, v)
  BY <1>1 DEF Attached, Numbered
<1>3. QED
  BY <1>1, <1>2 DEF Attached, f

LEMMA AttachedNode ==
  ASSUME NEW ns \in Seq(Nodes), NEW d \in Nodes, NEW v \in Nat, d.vnic = v,
         NEW ifs, Attached(ns, v, ifs)
  PROVE  Attached(Append(ns, d), v + 1, Allocate(ifs, v, d.ip))
<1> DEFINE f == Append(ns, d)
           k == Len(ns) + 1
           after == Allocate(ifs, v, d.ip)
<1>1. v # None
  BY NoneAssumption
<1>2. /\ Gen(f) = Gen(ns) \cup {k} /\ k \notin Gen(ns)
      /\ \A n \in Gen(ns) : f[n] = ns[n]
      /\ f[k] = d
  BY <1>1 DEF Gen
<1> HIDE DEF f, k
<1>3. \A n \in Gen(ns) : ns[n].vnic \in 0..(v - 1)
  BY DEF Attached, Numbered
<1>4. Numbered(f, v + 1)
  <2>1. \A n \in Gen(f) : f[n].vnic \in 0..v
    BY <1>2, <1>3
  <2>2. \A m, n \in Gen(f) : f[m].vnic = f[n].vnic => m = n
    BY <1>2, <1>3 DEF Attached, Numbered
  <2>3. ASSUME NEW j \in 0..v
        PROVE  \E n \in Gen(f) : f[n].vnic = j
    <3>1. CASE j = v
      BY <1>2, <3>1
    <3>2. CASE j # v
      <4>1. j \in 0..(v - 1)
        BY <3>2
      <4>2. QED
        BY <1>2, <4>1 DEF Attached, Numbered
    <3>3. QED
      BY <3>1, <3>2
  <2>4. v + 1 - 1 = v
    OBVIOUS
  <2>5. QED
    BY <2>1, <2>2, <2>3, <2>4 DEF Numbered
<1>5. /\ \A p \in after : (p \in ifs /\ p[1] # v) \/ p = <<v, d.ip>>
      /\ \A p \in ifs : p[1] # v => p \in after
      /\ <<v, d.ip>> \in after
  BY DEF Allocate
<1>6. <<v, d.ip>>[1] = v
  OBVIOUS
<1> HIDE DEF after
<1>7. Functional(after)
  BY <1>5, <1>6 DEF Attached, Functional
<1>8. ASSUME NEW n \in Gen(f)
      PROVE  <<f[n].vnic, f[n].ip>> \in after
  <2>1. CASE n = k
    BY <1>2, <1>5, <2>1
  <2>2. CASE n \in Gen(ns)
    <3>1. <<ns[n].vnic, ns[n].ip>> \in ifs
      BY <2>2 DEF Attached
    <3>2. <<ns[n].vnic, ns[n].ip>>[1] # v
      BY <1>3, <2>2
    <3>3. QED
      BY <1>2, <1>5, <2>2, <3>1, <3>2
  <2>3. QED
    BY <1>2, <2>1, <2>2
<1>9. QED
  BY <1>4, <1>7, <1>8 DEF Attached, f, after

\* The nodes of one entry.
LEMMA AttachedEntry ==
  ASSUME ParserTypeOK, NEW e \in Entries, ReadNode(e), Attached(nodes, vnictrack, up)
  PROVE  Attached(nodes', vnictrack', up')
<1> DEFINE ns == IF e.master THEN Append(nodes, MasterNode(e)) ELSE nodes
           v == OutstationVnic(e)
           ifs == IF MasterNeedsIp(e) THEN Allocate(up, vnictrack, MasterIp(e)) ELSE up
<1>1. nodes \in Seq(Nodes) /\ vnictrack \in Nat
  BY DEF ParserTypeOK
<1>2. Attached(ns, v, ifs) /\ v \in Nat
  <2>1. CASE ~e.master
    BY <1>1, <2>1 DEF OutstationVnic, MasterNeedsIp
  <2>2. CASE e.master /\ MasterNeedsIp(e)
    <3>1. MasterNode(e) \in Nodes
      BY <2>2, NewNodeTypes
    <3>2. MasterNode(e).vnic = vnictrack /\ MasterNode(e).ip = MasterIp(e)
      BY <2>2 DEF MasterNode
    <3>3. v = vnictrack + 1
      BY <2>2 DEF OutstationVnic
    <3>4. QED
      BY <1>1, <2>2, <3>1, <3>2, <3>3, AttachedNode
  <2>3. CASE e.master /\ ~MasterNeedsIp(e)
    <3>1. MasterNode(e) \in Nodes /\ MasterNode(e).vnic = None /\ v = vnictrack
      BY <2>3, NewNodeTypes DEF MasterNode, OutstationVnic
    <3>2. QED
      BY <1>1, <2>3, <3>1, AttachedOther
  <2>4. QED
    BY <2>1, <2>2, <2>3
<1>3. /\ ns \in Seq(Nodes)
      /\ nodes' = IF e.outstation THEN Append(ns, OutstationNode(e)) ELSE ns
      /\ vnictrack' = IF OutstationNeedsIp(e) THEN v + 1 ELSE v
      /\ up' = IF OutstationNeedsIp(e) THEN Allocate(ifs, v, OutstationIp(e)) ELSE ifs
  BY ReadInTwo DEF ReadNode, Interfaces
<1>4. OutstationNode(e).vnic = IF OutstationNeedsIp(e) THEN v ELSE None
  BY DEF OutstationNode
<1>5. OutstationNode(e).ip = OutstationIp(e) /\ OutstationNode(e) \in Nodes
  BY NewNodeTypes DEF OutstationNode
<1> HIDE DEF ns, v, ifs
<1>6. CASE ~e.outstation
  BY <1>2, <1>3, <1>6 DEF OutstationNeedsIp
<1>7. CASE e.outstation /\ OutstationNeedsIp(e)
  BY <1>2, <1>3, <1>4, <1>5, <1>7, AttachedNode
<1>8. CASE e.outstation /\ ~OutstationNeedsIp(e)
  BY <1>2, <1>3, <1>4, <1>5, <1>8, AttachedOther
<1>9. QED
  BY <1>6, <1>7, <1>8

\* The aliases are numbered, and the interfaces there for nodes whose thread
\* has not ended, or not begun.
UpInv ==
    /\ Numbered(nodes, vnictrack)
    /\ Functional(up)
    /\ \A n \in Gen(nodes) : \/ n \in DOMAIN pc /\ pc[n] = "done"
                             \/ <<nodes[n].vnic, nodes[n].ip>> \in up

LEMMA UpInvariant == Spec => []UpInv
<1>1. ParserInit => Gen(nodes) = {} /\ Numbered(nodes, vnictrack)
  BY DEF ParserInit, Gen, Numbered
<1>2. Init => UpInv
  BY <1>1 DEF Init, UpInv, Functional
<1>3. TypeOK /\ UpInv /\ [Next]_vars => UpInv'
  <2> SUFFICES ASSUME TypeOK, UpInv, [Next]_vars
               PROVE  UpInv'
    OBVIOUS
  <2>1. CASE Parse
    <3>1. pc = <<>> /\ pc' = <<>>
      BY <2>1 DEF Parse, TypeOK, stations
    <3>2. NextEntry \in Entries /\ ReadNode(NextEntry)
      BY <2>1, ConfigTypes DEF Parse, Unread, NextEntry, TypeOK, ParserTypeOK
    <3>3. Attached(nodes, vnictrack, up)
      BY <3>1 DEF UpInv, Attached
    <3>4. Attached(nodes', vnictrack', up')
      BY <3>2, <3>3, AttachedEntry DEF TypeOK
    <3>5. QED
      BY <3>4 DEF UpInv, Attached, Numbered, Functional, Gen
  <2>2. CASE ParseFails \/ Return \/ Kill
    <3>1. ParserInit'
      <4>1. Forget /\ config \in Configs
        BY <2>2 DEF ParseFails, Return, Kill, TypeOK, ParserTypeOK
      <4>2. QED
        BY <4>1, EndedTypes
    <3>2. Gen(nodes)' = {} /\ Numbered(nodes, vnictrack)'
      BY <3>1 DEF ParserInit, Gen, Numbered
    <3>3. Functional(up)'
      <4>1. CASE ParseFails
        <5>1. Functional(up) /\ up' = Interfaces(NextEntry)
          BY <4>1 DEF ParseFails, UpInv
        <5>2. ASSUME NEW ifs, Functional(ifs), NEW a, NEW ip
              PROVE  Functional(Allocate(ifs, a, ip))
          BY <5>2 DEF Functional, Allocate
        <5>3. QED
          BY <5>1, <5>2 DEF Interfaces, Functional
      <4>2. CASE Return \/ Kill
        BY <4>2 DEF Return, Kill, AfterReturn, Functional, UpInv
      <4>3. QED
        BY <2>2, <4>1, <4>2
    <3>4. QED
      BY <3>2, <3>3 DEF UpInv
  <2>3. CASE Start \/ DeletePipe \/ Parsed \/ Started \/ Quit \/ UNCHANGED vars
    <3>1. CASE Start
      <4>1. nodes' = <<>> /\ vnictrack' = 0 /\ UNCHANGED up
        BY <3>1 DEF Start, ParserReset
      <4>2. Gen(nodes)' = {} /\ Numbered(nodes, vnictrack)'
        BY <4>1 DEF Gen, Numbered
      <4>3. QED
        BY <4>1, <4>2 DEF UpInv, Functional
    <3>2. CASE DeletePipe \/ Parsed \/ Started \/ Quit \/ UNCHANGED vars
      BY <3>2 DEF DeletePipe, Parsed, Started, Quit, vars, parser, stations,
                  UpInv, Gen, Numbered, Functional
    <3>3. QED
      BY <2>3, <3>1, <3>2
  <2>4. CASE StartStation
    <3>1. UNCHANGED <<nodes, vnictrack, up>>
      BY <2>4 DEF StartStation, parser
    <3>2. /\ Len(pc') = Len(pc) + 1 /\ StationTypeOK'
          /\ \A k \in 1..Len(pc) : UNCHANGED pc[k]
      BY <2>4, StartStationTypes DEF TypeOK
    <3>3. \A k \in DOMAIN pc : k \in DOMAIN pc' /\ pc'[k] = pc[k]
      <4>1. DOMAIN pc = 1..Len(pc) /\ Len(pc) \in Nat
        BY DEF TypeOK, StationTypeOK
      <4>2. DOMAIN pc' = 1..Len(pc')
        BY <3>2 DEF StationTypeOK
      <4>3. QED
        BY <3>2, <4>1, <4>2
    <3>4. QED
      BY <3>1, <3>3 DEF UpInv, Gen, Numbered, Functional
  <2>5. ASSUME NEW n \in DOMAIN pc, Station(n)
        PROVE  UpInv'
    <3>1. UNCHANGED <<nodes, vnictrack>> /\ DOMAIN pc' = DOMAIN pc
      <4>1. StationTypeOK' /\ Len(pc') = Len(pc) /\ UNCHANGED parser
        BY <2>5, StationSteps DEF TypeOK
      <4>2. QED
        BY <4>1 DEF parser, StationTypeOK, TypeOK
    <3>2. \A k \in DOMAIN pc : k # n => pc'[k] = pc[k]
      BY <2>5 DEF Station, AddScan, ConfigurePoint, Enable, Stop
    <3>3. CASE ~Stop(n)
      <4>1. up' = up /\ (pc'[n] = pc[n] \/ pc[n] # "done")
        BY <2>5, <3>3 DEF Station, AddScan, ConfigurePoint, Enable
      <4>2. QED
        BY <3>1, <3>2, <4>1 DEF UpInv, Gen, Numbered, Functional
    <3>4. CASE Stop(n)
      <4>1. /\ pc' = [pc EXCEPT ![n] = "done"]
            /\ up' \subseteq up /\ \A p \in up : p[1] # nodes[n].vnic => p \in up'
        BY <3>4 DEF Stop, AfterStop, Down
      <4>2. pc'[n] = "done"
        BY <4>1 DEF TypeOK, StationTypeOK
      <4>3. ASSUME NEW k \in Gen(nodes), ~(k \in DOMAIN pc /\ pc'[k] = "done")
            PROVE  <<nodes[k].vnic, nodes[k].ip>> \in up'
        <5>1. k # n /\ <<nodes[k].vnic, nodes[k].ip>> \in up
          BY <3>2, <4>2, <4>3 DEF UpInv
        <5>2. nodes[k].vnic # nodes[n].vnic
          <6>1. n \in DOMAIN nodes
            BY DEF TypeOK, StationTypeOK, ParserTypeOK
          <6>2. nodes[n].vnic # None => n \in Gen(nodes)
            BY <6>1 DEF Gen
          <6>3. nodes[k].vnic # None
            BY DEF Gen
          <6>4. QED
            BY <5>1, <6>2, <6>3 DEF UpInv, Numbered
        <5>3. QED
          BY <4>1, <5>1, <5>2
      <4>4. Functional(up')
        BY <4>1 DEF UpInv, Functional
      <4>5. QED
        BY <3>1, <4>3, <4>4 DEF UpInv, Gen, Numbered
    <3>5. QED
      BY <3>3, <3>4
  <2>6. QED
    BY <2>1, <2>2, <2>3, <2>4, <2>5 DEF Next, Main
<1>4. QED
  BY <1>2, <1>3, TypesInvariant, PTL DEF Spec

\* A station's thread has the interface that was brought up for it, as long as
\* it runs, and no alias two addresses: whatever earlier processes have left.
THEOREM InterfacesOfThreads == Spec => []ThreadHasInterface
<1>1. TypeOK /\ UpInv => ThreadHasInterface
  <2> SUFFICES ASSUME TypeOK, UpInv
               PROVE  ThreadHasInterface
    OBVIOUS
  <2>1. DOMAIN pc \subseteq DOMAIN nodes
    BY DEF TypeOK, StationTypeOK, ParserTypeOK
  <2>2. QED
    BY <2>1 DEF UpInv, Functional, Gen, ThreadHasInterface
<1>2. QED
  BY <1>1, UpInvariant, TypesInvariant, PTL
-------------------------------------------------------------------------------
(* What a regular end leaves up *)

\* A list of nodes that begins with ns.
Longer(ns, f) == \A n \in Gen(ns) : n \in Gen(f) /\ f[n] = ns[n]

\* The interfaces ifs are some of old, and those of nodes.
OfNodes(ifs, old, ns) == \A p \in ifs : p \in old \/ \E n \in Gen(ns) : ns[n].vnic = p[1]

LEMMA LongerNode ==
  ASSUME NEW ns \in Seq(Nodes), NEW d \in Nodes
  PROVE  Longer(ns, Append(ns, d))
<1> DEFINE f == Append(ns, d)
<1>1. \A n \in DOMAIN ns : n \in DOMAIN f /\ f[n] = ns[n]
  OBVIOUS
<1> HIDE DEF f
<1>2. Longer(ns, f)
  BY <1>1 DEF Longer, Gen
<1>3. QED
  BY <1>2 DEF f

LEMMA OfNodesLonger ==
  ASSUME NEW ifs, NEW old, NEW ns, NEW f, OfNodes(ifs, old, ns), Longer(ns, f)
  PROVE  OfNodes(ifs, old, f)
BY DEF OfNodes, Longer

\* An interface is brought up for the node that is added.
LEMMA OfNodesMore ==
  ASSUME NEW ns \in Seq(Nodes), NEW d \in Nodes, d.vnic # None,
         NEW ifs, NEW old, OfNodes(ifs, old, ns), NEW ip
  PROVE  OfNodes(Allocate(ifs, d.vnic, ip), old, Append(ns, d))
<1> DEFINE f == Append(ns, d)
           k == Len(ns) + 1
<1>1. k \in DOMAIN f /\ f[k] = d
  OBVIOUS
<1>2. OfNodes(ifs, old, f)
  BY LongerNode, OfNodesLonger
<1> HIDE DEF f, k
<1>3. k \in Gen(f)
  BY <1>1 DEF Gen
<1>4. \A p \in Allocate(ifs, d.vnic, ip) : p \in ifs \/ p[1] = d.vnic
  BY DEF Allocate
<1>5. OfNodes(Allocate(ifs, d.vnic, ip), old, f)
  BY <1>1, <1>2, <1>3, <1>4 DEF OfNodes
<1>6. QED
  BY <1>5 DEF f

\* An entry brings up interfaces for nodes that it adds, and no others.
LEMMA OwnEntry ==
  ASSUME ParserTypeOK, NEW e \in Entries, ReadNode(e), NEW old, OfNodes(up, old, nodes)
  PROVE  OfNodes(up', old, nodes')
<1> DEFINE ns == IF e.master THEN Append(nodes, MasterNode(e)) ELSE nodes
           ifs == IF MasterNeedsIp(e) THEN Allocate(up, vnictrack, MasterIp(e)) ELSE up
           v == OutstationVnic(e)
<1>1. nodes \in Seq(Nodes) /\ vnictrack # None /\ v # None
  BY NoneAssumption DEF ParserTypeOK, OutstationVnic
<1>2. /\ nodes' = IF e.outstation THEN Append(ns, OutstationNode(e)) ELSE ns
      /\ up' = IF OutstationNeedsIp(e) THEN Allocate(ifs, v, OutstationIp(e)) ELSE ifs
      /\ e.master => MasterNode(e) \in Nodes
      /\ e.outstation => OutstationNode(e) \in Nodes
  BY ReadInTwo, NewNodeTypes DEF ReadNode, Interfaces
<1>3. /\ MasterNeedsIp(e) => e.master /\ MasterNode(e).vnic = vnictrack
      /\ OutstationNeedsIp(e) => e.outstation /\ OutstationNode(e).vnic = v
  BY DEF MasterNode, OutstationNode, MasterNeedsIp, OutstationNeedsIp
<1>4. ns \in Seq(Nodes) /\ OfNodes(ifs, old, ns)
  <2>1. CASE MasterNeedsIp(e)
    <3>1. ns = Append(nodes, MasterNode(e)) /\ ifs = Allocate(up, MasterNode(e).vnic, MasterIp(e))
      BY <1>3, <2>1
    <3>2. MasterNode(e) \in Nodes /\ MasterNode(e).vnic # None
      BY <1>1, <1>2, <1>3, <2>1
    <3>3. ns \in Seq(Nodes)
      BY <1>1, <3>1, <3>2
    <3> HIDE DEF ns, ifs
    <3>4. QED
      BY <1>1, <3>1, <3>2, <3>3, OfNodesMore
  <2>2. CASE e.master /\ ~MasterNeedsIp(e)
    BY <1>1, <1>2, <2>2, LongerNode, OfNodesLonger
  <2>3. CASE ~e.master
    BY <1>1, <1>3, <2>3
  <2>4. QED
    BY <2>1, <2>2, <2>3
<1> HIDE DEF ns, ifs, v
<1>5. CASE OutstationNeedsIp(e)
  <2>1. /\ nodes' = Append(ns, OutstationNode(e))
        /\ up' = Allocate(ifs, OutstationNode(e).vnic, OutstationIp(e))
    BY <1>2, <1>3, <1>5
  <2>2. OutstationNode(e) \in Nodes /\ OutstationNode(e).vnic # None
    BY <1>1, <1>2, <1>3, <1>5
  <2>3. QED
    BY <1>4, <2>1, <2>2, OfNodesMore
<1>6. CASE e.outstation /\ ~OutstationNeedsIp(e)
  BY <1>2, <1>4, <1>6, LongerNode, OfNodesLonger
<1>7. CASE ~e.outstation
  BY <1>2, <1>3, <1>4, <1>7
<1>8. QED
  BY <1>5, <1>6, <1>7

\* Every interface was left by a killed process or has the alias of a node, and
\* none the alias of a station that is gone.
OwnInv ==
    /\ OfNodes(up, strays, nodes)
    /\ \A n \in DOMAIN pc :
          pc[n] = "done" /\ ~Held(n) => \A p \in up : p[1] # nodes[n].vnic

\* What Return leaves up when every thread has ended.
LEMMA OwnReturn ==
  ASSUME TypeOK, OwnInv, Return, NEW p \in up'
  PROVE  p \in strays /\ \A n \in DOMAIN nodes : nodes[n].vnic # p[1]
<1>1. /\ p \in up /\ \A n \in DOMAIN nodes : Held(n) => nodes[n].vnic # p[1]
      /\ \A n \in DOMAIN pc : pc[n] = "done"
  BY DEF Return, AfterReturn
<1>2. DOMAIN pc = DOMAIN nodes
  BY DEF Return, TypeOK, StationTypeOK, ParserTypeOK
<1>3. \A n \in DOMAIN nodes : nodes[n].vnic # p[1]
  BY <1>1, <1>2 DEF OwnInv
<1>4. QED
  BY <1>1, <1>3 DEF OwnInv, OfNodes, Gen

LEMMA OwnStep == TypeOK /\ OwnInv /\ [Next]_vars => OwnInv'
<1> SUFFICES ASSUME TypeOK, OwnInv, [Next]_vars
             PROVE  OwnInv'
  OBVIOUS
<1>1. CASE Start
  <2>1. nodes = <<>> /\ pc = <<>>
    BY <1>1 DEF Start, TypeOK, ParserInit
  <2>2. up \subseteq strays
    BY <2>1 DEF OwnInv, OfNodes, Gen
  <2>3. UNCHANGED <<up, strays, pc>>
    BY <1>1 DEF Start, stations
  <2>4. QED
    BY <2>1, <2>2, <2>3 DEF OwnInv, OfNodes
<1>2. CASE Parse
  <2>1. NextEntry \in Entries /\ ReadNode(NextEntry)
    BY <1>2, ConfigTypes DEF Parse, Unread, NextEntry, TypeOK, ParserTypeOK
  <2>2. pc' = <<>> /\ UNCHANGED strays
    BY <1>2 DEF Parse, TypeOK, stations
  <2>3. OfNodes(up', strays, nodes')
    BY <2>1, OwnEntry DEF TypeOK, OwnInv
  <2>4. QED
    BY <2>2, <2>3 DEF OwnInv, OfNodes, Gen
<1>3. CASE ParseFails \/ Kill
  <2>1. strays' = up' /\ pc' = <<>>
    BY <1>3 DEF ParseFails, Kill, Forget
  <2>2. QED
    BY <2>1 DEF OwnInv, OfNodes
<1>4. CASE Return
  <2>1. up' \subseteq strays' /\ pc' = <<>>
    BY <1>4, OwnReturn DEF Return, Forget
  <2>2. QED
    BY <2>1 DEF OwnInv, OfNodes
<1>5. CASE DeletePipe \/ Parsed \/ Started \/ Quit \/ UNCHANGED vars
  BY <1>5 DEF DeletePipe, Parsed, Started, Quit, vars, parser, stations,
              OwnInv, OfNodes, Gen, Held, EntryOf
<1>6. CASE StartStation
  <2>1. UNCHANGED <<config, nodes, up, strays>>
    BY <1>6 DEF StartStation, parser
  <2>2. \A k \in DOMAIN pc' : pc'[k] = "done" => k \in DOMAIN pc /\ pc[k] = "done"
    BY <1>6 DEF StartStation, TypeOK, StationTypeOK
  <2>3. QED
    BY <2>1, <2>2 DEF OwnInv, OfNodes, Gen, Held, EntryOf
<1>7. ASSUME NEW n \in DOMAIN pc, Station(n)
      PROVE  OwnInv'
  <2>1. UNCHANGED <<config, nodes, strays>> /\ DOMAIN pc' = DOMAIN pc
    <3>1. StationTypeOK' /\ Len(pc') = Len(pc) /\ UNCHANGED <<config, parser>>
      BY <1>7, StationSteps DEF TypeOK
    <3>2. UNCHANGED strays
      BY <1>7 DEF Station, AddScan, ConfigurePoint, Enable, Stop
    <3>3. QED
      BY <3>1, <3>2 DEF parser, StationTypeOK, TypeOK
  <2>2. \A k : Held(k)' = Held(k)
    BY <2>1 DEF Held, EntryOf
  <2>3. up' \subseteq up
    BY <1>7 DEF Station, AddScan, ConfigurePoint, Enable, Stop, AfterStop, Down
  <2>4. ASSUME NEW k \in DOMAIN pc, pc'[k] = "done", ~Held(k)
        PROVE  \A p \in up' : p[1] # nodes[k].vnic
    <3>1. CASE pc[k] = "done"
      BY <2>3, <2>4, <3>1 DEF OwnInv
    <3>2. CASE pc[k] # "done"
      <4>1. k = n /\ Stop(n)
        BY <1>7, <2>4, <3>2 DEF Station, AddScan, ConfigurePoint, Enable, Stop, TypeOK, StationTypeOK
      <4>2. up' = Down(up, nodes[k].vnic)
        BY <2>4, <4>1 DEF Stop, AfterStop
      <4>3. QED
        BY <4>2 DEF Down
    <3>3. QED
      BY <3>1, <3>2
  <2>5. QED
    BY <2>1, <2>2, <2>3, <2>4 DEF OwnInv, OfNodes, Gen
<1>8. QED
  BY <1>1, <1>2, <1>3, <1>4, <1>5, <1>6, <1>7 DEF Next, Main

\* A process that main ends leaves none of its interfaces up, whatever files
\* this one and those before it were started with: what is up then is of killed
\* processes, under other aliases than those of this one.
THEOREM OwnInterfacesDown == Spec => CleanExit
<1>1. Init => OwnInv
  BY DEF Init, StationsInit, OwnInv, OfNodes
<1>2. TypeOK /\ OwnInv /\ [Next]_vars =>
        (phase' = "returned" =>
           \A p \in up' : p \in strays /\ \A n \in DOMAIN nodes : nodes[n].vnic # p[1])
  <2> SUFFICES ASSUME TypeOK, OwnInv, [Next]_vars, phase' = "returned", NEW p \in up'
               PROVE  p \in strays /\ \A n \in DOMAIN nodes : nodes[n].vnic # p[1]
    OBVIOUS
  <2>1. CASE Return
    BY <2>1, OwnReturn
  <2>2. CASE ~Return
    <3>1. phase = "returned" /\ UNCHANGED up
      <4>1. ASSUME NEW n \in DOMAIN pc, Station(n)
            PROVE  UNCHANGED phase /\ phase \notin Ended
        BY <4>1 DEF Station, AddScan, ConfigurePoint, Enable, Stop, TypeOK
      <4>2. QED
        BY <2>2, <4>1 DEF Next, Main, Start, DeletePipe, Parse, ParseFails, Parsed, StartStation,
                          Started, Quit, Kill, vars, Ended
    <3>2. nodes = <<>>
      BY <3>1 DEF TypeOK, Ended, ParserInit
    <3>3. QED
      BY <3>1, <3>2 DEF OwnInv, OfNodes, Gen
  <2>3. QED
    BY <2>1, <2>2
<1>3. QED
  BY <1>1, <1>2, OwnStep, TypesInvariant, PTL DEF Spec, CleanExit
===============================================================================
