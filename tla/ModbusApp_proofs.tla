--------------------------- MODULE ModbusApp_proofs ---------------------------
(***************************************************************************)
(* Proofs about the Modbus generator: for every set of configuration files *)
(* its parser accepts or gives up on, any number of stations, polls and    *)
(* data types, and any order in which their threads run.                   *)
(***************************************************************************)
EXTENDS ModbusApp, FiniteSetTheorems, WellFoundedInduction, TLAPS

-------------------------------------------------------------------------------
(* What the configuration files are *)

LEMMA FileFacts ==
  ASSUME config \in Configs
  PROVE  /\ Len(config.masters) \in Nat /\ DOMAIN config.masters = 1..Len(config.masters)
         /\ Len(config.hosts) \in Nat /\ DOMAIN config.hosts = 1..Len(config.hosts)
         /\ \A i \in DOMAIN config.hosts : config.hosts[i] \in Addrs
         /\ \A i, j \in DOMAIN config.hosts : config.hosts[i] = config.hosts[j] => i = j
         /\ \A m \in DOMAIN config.masters :
              /\ config.masters[m].ip \in Addrs \cup {None}
              /\ DOMAIN config.masters[m].polls \subseteq Types
              /\ config.masters[m].polls \in [DOMAIN config.masters[m].polls -> Nat]
              /\ m \in MasterIds
         /\ DOMAIN config.outs \subseteq Names
         /\ \A n \in DOMAIN config.outs : config.outs[n].ip \in Addrs \cup {None}
<1>1. PICK c \in Configs : c = config
  OBVIOUS
<1>2. Len(c.masters) \in Nat /\ DOMAIN c.masters = 1..Len(c.masters)
  BY ConfigAssumption
<1>3. /\ Len(c.hosts) \in Nat /\ DOMAIN c.hosts = 1..Len(c.hosts)
      /\ \A i \in DOMAIN c.hosts : c.hosts[i] \in Addrs
      /\ \A i, j \in DOMAIN c.hosts : c.hosts[i] = c.hosts[j] => i = j
  <2>1. c.hosts \in Seq(Addrs) /\ \A i, j \in DOMAIN c.hosts : c.hosts[i] = c.hosts[j] => i = j
    BY ConfigAssumption
  <2>2. QED
    BY <2>1
<1>4. ASSUME NEW m \in DOMAIN c.masters
      PROVE  /\ c.masters[m].ip \in Addrs \cup {None}
             /\ DOMAIN c.masters[m].polls \subseteq Types
             /\ c.masters[m].polls \in [DOMAIN c.masters[m].polls -> Nat]
             /\ m \in MasterIds
  <2>1. IsMaster(c.masters[m])
    BY ConfigAssumption
  <2>2. QED
    BY <2>1 DEF IsMaster, MasterIds
<1>5. DOMAIN c.outs \subseteq Names /\ \A n \in DOMAIN c.outs : c.outs[n].ip \in Addrs \cup {None}
  BY ConfigAssumption DEF OutstationEntries
<1>6. QED
  BY <1>1, <1>2, <1>3, <1>4, <1>5

\* The addresses that get_addr has returned.
Hosts(k) == {config.hosts[i] : i \in 1..k}

LEMMA AtMostOne ==
  ASSUME NEW S, IsFiniteSet(S), Cardinality(S) <= 1, NEW x \in S, NEW y \in S
  PROVE  x = y
<1> SUFFICES ASSUME x # y
             PROVE  FALSE
  OBVIOUS
<1>1. IsFiniteSet({x}) /\ Cardinality({x}) = 1
  BY FS_Singleton
<1>2. IsFiniteSet({x} \cup {y}) /\ Cardinality({x} \cup {y}) = 2
  <2> DEFINE X == {x}
  <2>1. y \notin X /\ IsFiniteSet(X) /\ Cardinality(X) = 1
    BY <1>1
  <2> HIDE DEF X
  <2>2. IsFiniteSet(X \cup {y}) /\ Cardinality(X \cup {y}) = 2
    BY <2>1, FS_AddElement
  <2>3. QED
    BY <2>2 DEF X
<1>3. Cardinality({x} \cup {y}) <= Cardinality(S) /\ Cardinality(S) \in Nat
  BY <1>2, FS_Subset, FS_CardinalityType
<1>4. QED
  BY <1>2, <1>3

LEMMA HostsFinite ==
  ASSUME NEW k \in Nat, NEW S, S \subseteq Hosts(k)
  PROVE  IsFiniteSet(S)
<1>1. IsFiniteSet(Hosts(k))
  <2> DEFINE H == Hosts(k)
             h == [i \in 1..k |-> config.hosts[i]]
  <2>1. h \in [1..k -> H] /\ \A x \in H : \E i \in 1..k : h[i] = x
    BY DEF Hosts
  <2> HIDE DEF H, h
  <2>2. ExistsSurjection(1..k, H)
    BY <2>1 DEF ExistsSurjection, Surjection
  <2>3. IsFiniteSet(H)
    BY <2>2, FS_NatSurjection
  <2>4. QED
    BY <2>3 DEF H
<1>2. QED
  BY <1>1, FS_Subset

-------------------------------------------------------------------------------
(* The parser *)

GivenInv ==
    /\ gathered \subseteq DOMAIN config.outs
    /\ DOMAIN given = {n \in gathered : config.outs[n].ip = None}
    /\ \A n \in DOMAIN given : given[n] \in Hosts(drawn)

\* A master knows its outstations, and all of them are at one address.
MasterInv(m) ==
    /\ masters[m].ip \in Addrs /\ masters[m].addr \in Addrs
    /\ masters[m].outs \subseteq gathered
    /\ \A n \in masters[m].outs : AddrOf(n) = masters[m].addr
    /\ masters[m].info = Datastore(masters[m].outs)
    /\ masters[m].port = Port(masters[m].outs)

\* A station has all outstations of its address, and no two with one unit.
StationInv(a) ==
    /\ stations[a].names = Group(a)
    /\ GoodUnits(Group(a))
    /\ stations[a].datastore = Datastore(Group(a))
    /\ stations[a].port = Port(Group(a))

ParserInv ==
    /\ config \in Configs
    /\ entry \in 0..Len(config.masters)
    /\ drawn \in 0..Len(config.hosts)
    /\ GivenInv
    /\ DOMAIN masters \subseteq 1..entry
    /\ \A m \in DOMAIN masters : MasterInv(m)
    /\ phase = "masters" => DOMAIN stations = {}
    /\ \A a \in DOMAIN stations : StationInv(a)
    /\ Accepted => Ungrouped = {}
    /\ vnictrack \in Nat

\* The addresses of a master that is accepted, and of its outstations.
LEMMA MasterAddrs ==
  ASSUME ParserInv, Unread, Readable
  PROVE  /\ Master.ip \in Addrs \cup {None}
         /\ MasterIp \in Addrs
         /\ Master.ip = None => MasterIp = config.hosts[drawn + 1]
         /\ drawn + 1 \in 1..Len(config.hosts)
<1>1. Master.ip \in Addrs \cup {None} /\ Len(config.hosts) \in Nat /\ drawn \in Nat
      /\ DOMAIN config.hosts = 1..Len(config.hosts)
  BY FileFacts DEF ParserInv, Unread, Master
<1>2. drawn + 1 \in 1..Len(config.hosts)
  BY <1>1 DEF Readable, Exhausted
<1>3. QED
  BY <1>1, <1>2, FileFacts DEF MasterIp, ParserInv

LEMMA OutstationAddrs ==
  ASSUME ParserInv, Unread, Readable, Acceptable,
         NEW d, d = drawn + (IF NeedsAddr THEN 2 ELSE 1)
  PROVE  /\ d \in 0..Len(config.hosts)
         /\ Master.outs \subseteq DOMAIN config.outs
         /\ OutstationAddr \in Addrs
         /\ Configured(Master.outs) # {} =>
              \A n \in Master.outs : config.outs[n].ip = OutstationAddr /\ config.outs[n].ip # None
         /\ Configured(Master.outs) = {} =>
              /\ \A n \in Master.outs : config.outs[n].ip = None
              /\ \A n \in gathered \cap Master.outs : given[n] = OutstationAddr
              /\ OutstationAddr \in Hosts(d)
              /\ \/ OutstationAddr = config.hosts[drawn + 2] /\ drawn + 2 \in 1..Len(config.hosts)
                 \/ OutstationAddr \in {given[n] : n \in DOMAIN given}
<1> DEFINE L == Len(config.hosts)
<1>1. /\ L \in Nat /\ drawn \in 0..L /\ DOMAIN config.hosts = 1..L
      /\ \A i \in 1..L : config.hosts[i] \in Addrs
      /\ \A n \in DOMAIN config.outs : config.outs[n].ip \in Addrs \cup {None}
      /\ drawn + 1 \in 1..L
  BY FileFacts, MasterAddrs DEF ParserInv
<1>2. NeedsAddr => drawn + 2 \in 1..L
  BY <1>1 DEF Acceptable, Exhausted
<1> HIDE DEF L
<1>3. d \in 0..L /\ d \in Nat /\ drawn <= d /\ (NeedsAddr => d = drawn + 2)
  BY <1>1, <1>2
<1>4. Master.outs \subseteq DOMAIN config.outs
  BY DEF Acceptable
<1>5. CASE Configured(Master.outs) # {}
  <2>1. \A a, b \in Master.outs : config.outs[a].ip = config.outs[b].ip
    BY <1>5 DEF Acceptable, OneAddress
  <2>2. PICK w \in Master.outs : config.outs[w].ip # None
    BY <1>5 DEF Configured
  <2>3. Configured(Master.outs) = {config.outs[w].ip}
    BY <2>1, <2>2 DEF Configured
  <2>4. OutstationAddr = config.outs[w].ip
    BY <1>5, <2>3 DEF OutstationAddr, NeedsAddr, KnownAddrs
  <2>5. OutstationAddr \in Addrs
    BY <1>1, <1>4, <2>2, <2>4
  <2>6. QED
    BY <1>3, <1>4, <1>5, <2>1, <2>2, <2>4, <2>5 DEF L
<1>6. Configured(Master.outs) = {} => \A n \in Master.outs : config.outs[n].ip = None
  BY DEF Configured
<1>7. CASE NeedsAddr
  <2>1. OutstationAddr = config.hosts[drawn + 2]
    BY <1>7 DEF OutstationAddr
  <2>2. OutstationAddr \in Addrs /\ OutstationAddr \in Hosts(d)
    BY <1>1, <1>2, <1>3, <1>7, <2>1 DEF Hosts
  <2>3. Configured(Master.outs) = {} /\ gathered \cap Master.outs = {}
    BY <1>7 DEF NeedsAddr, AlreadyGiven
  <2>4. QED
    BY <1>2, <1>3, <1>4, <1>6, <1>7, <2>1, <2>2, <2>3 DEF L
<1>8. CASE Configured(Master.outs) = {} /\ ~NeedsAddr
  <2>1. gathered \cap Master.outs \subseteq DOMAIN given
    BY <1>6, <1>8 DEF ParserInv, GivenInv
  <2>2. AlreadyGiven \subseteq Hosts(drawn) /\ AlreadyGiven \subseteq {given[n] : n \in DOMAIN given}
    BY <2>1 DEF AlreadyGiven, ParserInv, GivenInv
  <2>3. IsFiniteSet(AlreadyGiven)
    <3>1. drawn \in Nat
      BY <1>1
    <3>2. QED
      BY <2>2, <3>1, HostsFinite
  <2>4. Cardinality(AlreadyGiven) <= 1
    BY <1>8 DEF Acceptable, OneAddress
  <2>5. OutstationAddr \in AlreadyGiven
    BY <1>8 DEF OutstationAddr, NeedsAddr, KnownAddrs
  <2>6. \A n \in gathered \cap Master.outs : given[n] = OutstationAddr
    <3>1. \A n \in gathered \cap Master.outs : given[n] \in AlreadyGiven
      BY DEF AlreadyGiven
    <3>2. QED
      BY <2>3, <2>4, <2>5, <3>1, AtMostOne
  <2>7. Hosts(drawn) \subseteq Hosts(d) /\ Hosts(drawn) \subseteq Addrs
    BY <1>1, <1>3 DEF Hosts
  <2>8. QED
    BY <1>3, <1>4, <1>6, <1>8, <2>2, <2>5, <2>6, <2>7 DEF L
<1>9. QED
  BY <1>5, <1>7, <1>8 DEF NeedsAddr
LEMMA ParserStart ==
  ASSUME ParserInit
  PROVE  ParserInv
<1>1. Len(config.masters) \in Nat /\ Len(config.hosts) \in Nat
  BY FileFacts DEF ParserInit
<1>2. QED
  BY <1>1 DEF ParserInit, ParserInv, GivenInv, Accepted

\* Nothing is read, and nothing can be started that is not grouped.
LEMMA ParserStays ==
  ASSUME ParserInv, UNCHANGED parser, Accepted' => Accepted \/ Ungrouped = {},
         phase' = "masters" => phase = "masters"
  PROVE  ParserInv'
<1>1. Ungrouped' = Ungrouped /\ \A a : Group(a)' = Group(a)
  BY DEF parser, Ungrouped, Group, AddrOf
<1>2. \A m : MasterInv(m) => MasterInv(m)'
  BY DEF parser, MasterInv, AddrOf, Datastore, Port, Unit
<1>3. \A a : StationInv(a) => StationInv(a)'
  BY DEF parser, StationInv, Group, AddrOf, Datastore, Port, GoodUnits, Unit
<1>4. QED
  BY <1>1, <1>2, <1>3 DEF ParserInv, GivenInv, Hosts, parser

LEMMA ReadMasterInv ==
  ASSUME ParserInv, ReadMaster
  PROVE  ParserInv'
<1> DEFINE outs == Master.outs
           addr == OutstationAddr
           node == [ip |-> MasterIp, vnic |-> IF Master.ip = None THEN vnictrack ELSE None,
                    addr |-> addr, outs |-> outs, info |-> Datastore(outs), port |-> Port(outs)]
           fresh == Configured(outs) = {}
<1>1. Unread /\ Readable /\ Acceptable /\ phase = "masters"
  BY DEF ReadMaster
<1>2. /\ config' = config /\ phase' = phase /\ stations' = stations
      /\ entry' = entry + 1
      /\ masters' = Extend(masters, entry + 1, node)
      /\ given' = IF ~fresh THEN given
                  ELSE [n \in DOMAIN given \cup outs |-> IF n \in outs THEN addr ELSE given[n]]
      /\ gathered' = gathered \cup outs
      /\ vnictrack' = IF Master.ip = None THEN vnictrack + 1 ELSE vnictrack
  BY DEF ReadMaster
<1>3. drawn' \in 0..Len(config.hosts) /\ drawn <= drawn' /\ drawn \in Nat /\ drawn' \in Nat
  <2>1. drawn' = drawn + (IF NeedsAddr THEN 2 ELSE 1)
    BY DEF ReadMaster
  <2>2. drawn \in Nat /\ Len(config.hosts) \in Nat
    BY FileFacts DEF ParserInv
  <2>3. drawn' \in 0..Len(config.hosts)
    BY <1>1, <2>1, OutstationAddrs
  <2>4. QED
    BY <2>1, <2>2, <2>3
<1>4. /\ outs \subseteq DOMAIN config.outs
      /\ addr \in Addrs
      /\ ~fresh => \A n \in outs : config.outs[n].ip = addr /\ config.outs[n].ip # None
      /\ fresh => /\ \A n \in outs : config.outs[n].ip = None
                  /\ \A n \in gathered \cap outs : given[n] = addr
                  /\ addr \in Hosts(drawn')
  <2>1. drawn' = drawn + (IF NeedsAddr THEN 2 ELSE 1)
    BY DEF ReadMaster
  <2>2. QED
    BY <1>1, <2>1, OutstationAddrs
<1>5. MasterIp \in Addrs
  BY <1>1, MasterAddrs
<1>6. /\ gathered \subseteq DOMAIN config.outs
      /\ DOMAIN given = {n \in gathered : config.outs[n].ip = None}
      /\ \A n \in DOMAIN given : given[n] \in Hosts(drawn)
  BY DEF ParserInv, GivenInv
<1> HIDE DEF outs, addr, fresh
<1>7. Hosts(drawn) \subseteq Hosts(drawn')
  BY <1>3 DEF Hosts
<1>8. GivenInv'
  <2>1. gathered' \subseteq DOMAIN config.outs
    BY <1>2, <1>4, <1>6
  <2>2. DOMAIN given' = {n \in gathered' : config.outs[n].ip = None}
    <3>1. CASE fresh
      BY <1>2, <1>4, <1>6, <3>1
    <3>2. CASE ~fresh
      BY <1>2, <1>4, <1>6, <3>2
    <3>3. QED
      BY <3>1, <3>2
  <2>3. \A n \in DOMAIN given' : given'[n] \in Hosts(drawn')
    BY <1>2, <1>4, <1>6, <1>7
  <2>4. Hosts(drawn)' = Hosts(drawn')
    BY <1>2 DEF Hosts
  <2>5. QED
    BY <1>2, <2>1, <2>2, <2>3, <2>4 DEF GivenInv
<1>9. \A n \in gathered : AddrOf(n)' = AddrOf(n)
  BY <1>2, <1>4, <1>6 DEF AddrOf
<1>10. \A n \in outs : AddrOf(n)' = addr
  BY <1>2, <1>4, <1>6 DEF AddrOf
<1>11. /\ DOMAIN masters' = DOMAIN masters \cup {entry + 1}
       /\ masters'[entry + 1] = node
       /\ \A m \in DOMAIN masters : m # entry + 1 => masters'[m] = masters[m]
  BY <1>2 DEF Extend
<1>12. \A S : Datastore(S)' = Datastore(S) /\ Port(S)' = Port(S)
  BY <1>2 DEF Datastore, Port, Unit
<1>13. ASSUME NEW m \in DOMAIN masters'
       PROVE  MasterInv(m)'
  <2>1. CASE m = entry + 1
    BY <1>2, <1>4, <1>5, <1>10, <1>11, <1>12, <2>1 DEF MasterInv
  <2>2. CASE m \in DOMAIN masters /\ m # entry + 1
    BY <1>2, <1>9, <1>11, <1>12, <2>2 DEF MasterInv, ParserInv
  <2>3. QED
    BY <1>11, <2>1, <2>2
<1>14. entry' \in 0..Len(config.masters) /\ DOMAIN masters' \subseteq 1..entry'
  <2>1. /\ Len(config.masters) \in Nat /\ entry \in Nat /\ DOMAIN masters \subseteq 1..entry
        /\ entry + 1 \in 1..Len(config.masters)
    BY <1>1, FileFacts DEF ParserInv, Unread
  <2>2. QED
    BY <1>2, <1>11, <2>1
<1>15. DOMAIN stations' = {} /\ ~Accepted' /\ vnictrack' \in Nat
  BY <1>1, <1>2 DEF ParserInv, Accepted
<1>16. QED
  BY <1>1, <1>2, <1>3, <1>8, <1>13, <1>14, <1>15 DEF ParserInv

LEMMA CreateOutstationInv ==
  ASSUME ParserInv, NEW a \in Addrs, CreateOutstation(a)
  PROVE  ParserInv'
<1> DEFINE alias == IF Configured(Group(a)) = {} THEN vnictrack ELSE None
           node == [names |-> Group(a), port |-> Port(Group(a)),
                    simulate |-> \A n \in Group(a) : config.outs[n].simulate,
                    datastore |-> Datastore(Group(a)), vnic |-> alias]
<1>1. /\ phase = "grouping" /\ a \notin DOMAIN stations /\ GoodUnits(Group(a))
      /\ stations' = Extend(stations, a, node)
      /\ vnictrack' = vnictrack + 1 \/ vnictrack' = vnictrack
      /\ UNCHANGED <<config, phase, entry, drawn, masters, given, gathered>>
  BY DEF CreateOutstation, Ungrouped
<1>2. /\ \A b : Group(b)' = Group(b) /\ GoodUnits(Group(b))' = GoodUnits(Group(b))
      /\ \A S : Datastore(S)' = Datastore(S) /\ Port(S)' = Port(S)
  BY <1>1 DEF Group, AddrOf, GoodUnits, Datastore, Port, Unit
<1>3. /\ DOMAIN stations' = DOMAIN stations \cup {a}
      /\ stations'[a] = node
      /\ \A b \in DOMAIN stations : stations'[b] = stations[b]
  BY <1>1 DEF Extend
<1>4. ASSUME NEW b \in DOMAIN stations'
      PROVE  StationInv(b)'
  <2>1. CASE b = a
    BY <1>1, <1>2, <1>3, <2>1 DEF StationInv
  <2>2. CASE b \in DOMAIN stations
    BY <1>2, <1>3, <2>2 DEF StationInv, ParserInv
  <2>3. QED
    BY <1>3, <2>1, <2>2
<1>5. \A m : MasterInv(m) => MasterInv(m)'
  BY <1>1 DEF MasterInv, AddrOf, Datastore, Port, Unit
<1>6. GivenInv'
  BY <1>1 DEF ParserInv, GivenInv, Hosts
<1>7. QED
  BY <1>1, <1>4, <1>5, <1>6 DEF ParserInv, Accepted
-------------------------------------------------------------------------------
(* Threads *)

LEMMA LeastElement ==
  ASSUME NEW S, S \subseteq Nat, S # {}
  PROVE  \E m \in S : \A x \in S : m <= x
<1> DEFINE R == OpToRel(<, Nat)
<1>1. PICK m \in S : \A x \in S : ~ (<<x, m>> \in R)
  BY NatLessThanWellFounded, WFMin
<1>2. R = {ss \in Nat \X Nat : ss[1] < ss[2]}
  BY Zenon DEF OpToRel
<1>3. ASSUME NEW x \in S
      PROVE  m <= x
  <2>1. x \in Nat /\ m \in Nat /\ <<x, m>> \in Nat \X Nat
    OBVIOUS
  <2>2. ~(<<x, m>>[1] < <<x, m>>[2])
    <3> HIDE DEF R
    <3> QED
      BY Zenon, <1>1, <1>2, <1>3, <2>1
  <2> HIDE DEF R
  <2> QED
    BY <2>1, <2>2
<1> HIDE DEF R
<1>4. QED
  BY <1>3

\* The least remaining time of a function of them.
LEMMA LeastOf ==
  ASSUME NEW f, DOMAIN f # {}, \A t \in DOMAIN f : f[t] \in Nat
  PROVE  /\ Least(f) \in Nat
         /\ \E t \in DOMAIN f : f[t] = Least(f)
         /\ \A t \in DOMAIN f : Least(f) <= f[t]
<1> DEFINE S == {f[t] : t \in DOMAIN f}
<1>1. S \subseteq Nat /\ S # {}
  OBVIOUS
<1>2. Least(f) = Min(S)
  BY DEF Least
<1>3. (\A t \in DOMAIN f : f[t] \in S) /\ \A x \in S : \E t \in DOMAIN f : f[t] = x
  OBVIOUS
<1> HIDE DEF S
<1>4. PICK x \in S : \A y \in S : x <= y
  BY <1>1, LeastElement
<1>5. Min(S) \in S /\ \A y \in S : Min(S) <= y
  BY <1>4 DEF Min
<1>6. QED
  BY <1>1, <1>2, <1>3, <1>5

\* How long master m has slept, and will sleep, for each of its data types.
PollInv(m) ==
    /\ m \in DOMAIN masters
    /\ left[m] = [t \in DOMAIN Freq(m) |-> left[m][t]]
    /\ DOMAIN since[m] = DOMAIN Freq(m)
    /\ \A t \in DOMAIN Freq(m) :
          /\ left[m][t] \in 0..Freq(m)[t]
          /\ since[m][t] \in Nat
          /\ since[m][t] = Freq(m)[t] - left[m][t]
                             + (IF pollPc[m] = "polling" THEN Least(left[m]) ELSE 0)
    /\ pollPc[m] = "polling" => due[m] = {t \in DOMAIN Freq(m) : left[m][t] = Least(left[m])}

\* The variables of the masters are functions.
PollTypes ==
    /\ pollPc \in [MasterIds -> {"none", "connecting", "asleep", "polling", "ended"}]
    /\ timer \in [MasterIds -> Nat]
    /\ left = [m \in MasterIds |-> left[m]]
    /\ since = [m \in MasterIds |-> since[m]]
    /\ due \in [MasterIds -> SUBSET Types]

PollingInv == PollTypes /\ \A m \in MasterIds : pollPc[m] # "none" => PollInv(m)

LEMMA FreqFacts ==
  ASSUME ParserInv, NEW m \in DOMAIN masters
  PROVE  /\ m \in DOMAIN config.masters
         /\ DOMAIN Freq(m) \subseteq Types
         /\ Freq(m) \in [DOMAIN Freq(m) -> Nat]
<1>1. m \in DOMAIN config.masters
  <2>1. /\ DOMAIN config.masters = 1..Len(config.masters) /\ Len(config.masters) \in Nat
        /\ entry \in 0..Len(config.masters) /\ m \in 1..entry
    BY FileFacts DEF ParserInv
  <2>2. QED
    BY <2>1
<1>2. QED
  BY <1>1, FileFacts DEF ParserInv, Freq

\* What a master's own state depends on.
LEMMA PollStays ==
  ASSUME NEW m, PollInv(m), UNCHANGED <<config, masters, pollPc[m], left[m], since[m], due[m]>>
  PROVE  PollInv(m)'
BY DEF PollInv, Freq

\* The least remaining time of a master that has types to poll.
LEMMA LeftFacts ==
  ASSUME ParserInv, NEW m, PollInv(m), DOMAIN Freq(m) # {}
  PROVE  /\ Least(left[m]) \in Nat
         /\ \A t \in DOMAIN Freq(m) : Least(left[m]) <= left[m][t]
<1>1. Freq(m) \in [DOMAIN Freq(m) -> Nat] /\ DOMAIN left[m] = DOMAIN Freq(m)
  BY FreqFacts DEF PollInv
<1>2. \A t \in DOMAIN left[m] : left[m][t] \in Nat
  BY <1>1 DEF PollInv
<1>3. QED
  BY <1>1, <1>2, LeastOf

\* The head of the loop for a master that has slept as long as it remains to
\* sleep.
LEMMA HeadInv ==
  ASSUME ParserInv, PollingInv, NEW m \in MasterIds, m \in DOMAIN masters,
         NEW r, LoopHead(m, r),
         r = [t \in DOMAIN Freq(m) |-> r[t]],
         \A t \in DOMAIN Freq(m) : r[t] \in 0..Freq(m)[t],
         DOMAIN since'[m] = DOMAIN Freq(m),
         \A t \in DOMAIN Freq(m) : since'[m][t] = Freq(m)[t] - r[t],
         since' = [k \in MasterIds |-> since'[k]], due' \in [MasterIds -> SUBSET Types],
         \A k \in MasterIds : k # m => UNCHANGED <<since[k], due[k]>>
  PROVE  PollingInv'
<1>1. UNCHANGED <<config, masters>>
  BY DEF LoopHead, parser
<1>2. /\ left' = [left EXCEPT ![m] = r]
      /\ pollPc' = [pollPc EXCEPT ![m] = "ended"] \/ pollPc' = [pollPc EXCEPT ![m] = "asleep"]
      /\ \/ timer' = timer
         \/ timer' = [timer EXCEPT ![m] = IF r = <<>> THEN 1 ELSE Least(r)]
  BY DEF LoopHead
<1>3. Freq(m) \in [DOMAIN Freq(m) -> Nat]
  BY FreqFacts
<1>4. (IF r = <<>> THEN 1 ELSE Least(r)) \in Nat
  <2>1. CASE DOMAIN Freq(m) = {}
    <3>1. r = <<>>
      BY <2>1
    <3>2. QED
      BY <3>1
  <2>2. CASE DOMAIN Freq(m) # {}
    <3>1. \A t \in DOMAIN r : r[t] \in Nat
      BY <1>3
    <3>2. Least(r) \in Nat
      BY <2>2, <3>1, LeastOf
    <3>3. QED
      BY <3>2
  <2>3. QED
    BY <2>1, <2>2
<1>5. /\ left'[m] = r /\ pollPc'[m] \in {"ended", "asleep"}
      /\ \A k \in MasterIds : k # m => UNCHANGED <<left[k], pollPc[k]>>
  BY <1>2 DEF PollingInv, PollTypes
<1>6. PollTypes'
  <2>1. PollTypes
    BY DEF PollingInv
  <2>2. pollPc' \in [MasterIds -> {"none", "connecting", "asleep", "polling", "ended"}]
    BY <1>2, <2>1 DEF PollTypes
  <2>3. timer' \in [MasterIds -> Nat]
    <3> DEFINE s == IF r = <<>> THEN 1 ELSE Least(r)
    <3>1. s \in Nat /\ (timer' = timer \/ timer' = [timer EXCEPT ![m] = s])
      BY <1>2, <1>4
    <3> HIDE DEF s
    <3>2. QED
      BY <2>1, <3>1 DEF PollTypes
  <2>4. left' = [k \in MasterIds |-> left'[k]]
    BY <1>2, <2>1 DEF PollTypes
  <2>5. QED
    BY <2>2, <2>3, <2>4 DEF PollTypes
<1>7. Freq(m)' = Freq(m)
  BY <1>1 DEF Freq
<1>8. PollInv(m)'
  <2>1. \A t \in DOMAIN Freq(m) : since'[m][t] \in Nat
    BY <1>3
  <2>2. QED
    BY <1>1, <1>3, <1>5, <1>7, <2>1 DEF PollInv
<1>9. \A k \in MasterIds : k # m /\ pollPc'[k] # "none" => PollInv(k)'
  BY <1>1, <1>5, PollStays DEF PollingInv
<1>10. QED
  BY <1>6, <1>8, <1>9 DEF PollingInv

LEMMA StationPolls ==
  ASSUME ParserInv, PollingInv, NEW m \in MasterIds, MasterStation(m)
  PROVE  PollingInv'
<1>1. PollTypes /\ pollPc[m] # "none" /\ PollInv(m)
  BY DEF PollingInv, MasterStation, Connected, Idle, BeginPoll, EndPoll
<1>2. m \in DOMAIN masters /\ Freq(m) \in [DOMAIN Freq(m) -> Nat] /\ DOMAIN Freq(m) \subseteq Types
  BY <1>1, FreqFacts DEF PollInv
<1>3. CASE Connected(m) \/ Idle(m)
  <2>1. LoopHead(m, left[m]) /\ UNCHANGED <<due, since>> /\ pollPc[m] # "polling"
    BY <1>3 DEF Connected, Idle
  <2>2. \A t \in DOMAIN Freq(m) : since[m][t] = Freq(m)[t] - left[m][t]
    BY <1>1, <1>2, <2>1 DEF PollInv
  <2>3. QED
    BY <1>1, <1>2, <2>1, <2>2, HeadInv DEF PollInv, PollTypes
<1>4. CASE BeginPoll(m)
  <2>1. /\ due' = [due EXCEPT ![m] = {t \in DOMAIN left[m] : left[m][t] = Least(left[m])}]
        /\ since' = [since EXCEPT ![m] = [t \in DOMAIN left[m] |-> since[m][t] + Least(left[m])]]
        /\ pollPc' = [pollPc EXCEPT ![m] = "polling"] /\ pollPc[m] = "asleep"
        /\ UNCHANGED <<config, masters, timer, left>>
    BY <1>4 DEF BeginPoll, parser
  <2>2. DOMAIN left[m] = DOMAIN Freq(m)
    BY <1>1 DEF PollInv
  <2>3. PollTypes'
    <3> DEFINE D == {t \in DOMAIN left[m] : left[m][t] = Least(left[m])}
               s == [t \in DOMAIN left[m] |-> since[m][t] + Least(left[m])]
    <3>1. D \in SUBSET Types /\ due' = [due EXCEPT ![m] = D] /\ since' = [since EXCEPT ![m] = s]
      BY <1>2, <2>1, <2>2
    <3> HIDE DEF D, s
    <3>2. QED
      BY <1>1, <2>1, <3>1 DEF PollTypes
  <2>4. /\ since'[m] = [t \in DOMAIN Freq(m) |-> since[m][t] + Least(left[m])]
        /\ due'[m] = {t \in DOMAIN Freq(m) : left[m][t] = Least(left[m])}
        /\ pollPc'[m] = "polling"
        /\ \A k \in MasterIds : k # m => UNCHANGED <<left[k], pollPc[k], since[k], due[k]>>
    BY <1>1, <2>1, <2>2 DEF PollTypes
  <2>5. PollInv(m)'
    <3>1. Freq(m)' = Freq(m)
      BY <2>1 DEF Freq
    <3>2. DOMAIN Freq(m) # {} => Least(left[m]) \in Nat
      BY <1>1, LeftFacts
    <3>3. \A t \in DOMAIN Freq(m) : /\ left[m][t] \in 0..Freq(m)[t] /\ Freq(m)[t] \in Nat
                                    /\ since[m][t] = Freq(m)[t] - left[m][t] /\ since[m][t] \in Nat
      BY <1>1, <1>2, <2>1 DEF PollInv
    <3>4. \A t \in DOMAIN Freq(m) : /\ since'[m][t] \in Nat
                                    /\ since'[m][t] = Freq(m)[t] - left[m][t] + Least(left[m])
      BY <2>4, <3>2, <3>3
    <3>5. QED
      BY <1>1, <2>1, <2>4, <3>1, <3>3, <3>4 DEF PollInv
  <2>6. \A k \in MasterIds : k # m /\ pollPc'[k] # "none" => PollInv(k)'
    BY <2>1, <2>4, PollStays DEF PollingInv
  <2>7. QED
    BY <2>3, <2>5, <2>6 DEF PollingInv
<1>5. CASE EndPoll(m)
  <2> DEFINE r == Remaining(m)
  <2>1. /\ LoopHead(m, r) /\ pollPc[m] = "polling"
        /\ due' = [due EXCEPT ![m] = {}]
        /\ since' = [since EXCEPT ![m] = [t \in DOMAIN left[m] |->
                                             IF t \in due[m] THEN 0 ELSE since[m][t]]]
    BY <1>5 DEF EndPoll
  <2>2. DOMAIN left[m] = DOMAIN Freq(m)
    BY <1>1 DEF PollInv
  <2>3. r = [t \in DOMAIN Freq(m) |->
               IF left[m][t] > Least(left[m]) THEN left[m][t] - Least(left[m]) ELSE Freq(m)[t]]
    BY <2>2 DEF Remaining, Freq
  <2> HIDE DEF r
  <2>4. DOMAIN Freq(m) # {} => /\ Least(left[m]) \in Nat
                               /\ \A t \in DOMAIN Freq(m) : Least(left[m]) <= left[m][t]
    BY <1>1, LeftFacts
  <2>5. \A t \in DOMAIN Freq(m) :
           /\ left[m][t] \in 0..Freq(m)[t] /\ Freq(m)[t] \in Nat
           /\ since[m][t] = Freq(m)[t] - left[m][t] + Least(left[m])
           /\ t \in due[m] <=> left[m][t] = Least(left[m])
    BY <1>1, <1>2, <2>1 DEF PollInv
  <2>6. /\ since' = [k \in MasterIds |-> since'[k]] /\ due' \in [MasterIds -> SUBSET Types]
        /\ since'[m] = [t \in DOMAIN Freq(m) |-> IF t \in due[m] THEN 0 ELSE since[m][t]]
        /\ \A k \in MasterIds : k # m => UNCHANGED <<since[k], due[k]>>
    BY <1>1, <2>1, <2>2 DEF PollTypes
  <2>7. ASSUME NEW t \in DOMAIN Freq(m)
        PROVE  r[t] \in 0..Freq(m)[t] /\ since'[m][t] = Freq(m)[t] - r[t]
    <3>1. Least(left[m]) \in Nat /\ Least(left[m]) <= left[m][t]
      BY <2>4
    <3>2. CASE left[m][t] > Least(left[m])
      BY <2>3, <2>5, <2>6, <3>1, <3>2
    <3>3. CASE left[m][t] = Least(left[m])
      BY <2>3, <2>5, <2>6, <3>1, <3>3
    <3>4. QED
      BY <2>5, <3>1, <3>2, <3>3
  <2>8. r = [t \in DOMAIN Freq(m) |-> r[t]] /\ DOMAIN since'[m] = DOMAIN Freq(m)
    BY <2>3, <2>6
  <2>9. QED
    BY <1>2, <2>1, <2>6, <2>7, <2>8, HeadInv
<1>6. QED
  BY <1>3, <1>4, <1>5 DEF MasterStation
\* The threads of the outstations belong to stations that have been created.
ServeInv ==
    /\ server \in [Addrs -> {"none", "starting", "serving", "closed", "failed"}]
    /\ \A a \in Addrs : server[a] # "none" => a \in DOMAIN stations
    /\ pingPc \in [Names -> {"none", "asleep", "busy", "dead", "ended"}]
    /\ \A n \in Names : pingPc[n] # "none" => n \in gathered /\ AddrOf(n) \in DOMAIN stations
    /\ nap \in [Names -> 0..1]

\* There is no thread while the file is being read.
Quiet ==
    phase \in {"masters", "grouping"} =>
        /\ \A m \in MasterIds : pollPc[m] = "none"
        /\ \A a \in Addrs : server[a] = "none"
        /\ \A n \in Names : pingPc[n] = "none"

ThreadInv ==
    /\ phase \in Phases
    /\ grace \in 0..Grace
    /\ PollingInv
    /\ ServeInv
    /\ Quiet

LEMMA PollingStays ==
  ASSUME PollingInv, UNCHANGED <<config, masters, polling>>
  PROVE  PollingInv'
<1>1. PollTypes'
  BY DEF PollingInv, PollTypes, polling
<1>2. \A m : PollInv(m) => PollInv(m)'
  BY PollStays DEF polling
<1>3. QED
  BY <1>1, <1>2 DEF PollingInv, polling

LEMMA ServeStays ==
  ASSUME ServeInv, UNCHANGED <<parser, pinging>>
  PROVE  ServeInv'
BY DEF ServeInv, parser, pinging, AddrOf

LEMMA ThreadStart ==
  ASSUME Init
  PROVE  ThreadInv
<1>1. PollingInv
  BY DEF Init, PollingInv, PollTypes
<1>2. ServeInv
  BY DEF Init, ServeInv
<1>3. QED
  BY <1>1, <1>2, GraceAssumption DEF Init, ParserInit, ThreadInv, Quiet, Phases

LEMMA StationServes ==
  ASSUME ParserInv, ServeInv, NEW a \in Addrs,
         StartOutstation(a) \/ Serve(a) \/ BindFails(a)
  PROVE  ServeInv' /\ UNCHANGED <<parser, phase, up, grace, polling>>
<1>1. UNCHANGED <<parser, phase, up, grace, polling>>
  BY DEF StartOutstation, Serve, BindFails
<1>2. \A n : AddrOf(n)' = AddrOf(n)
  BY <1>1 DEF parser, AddrOf
<1>3. CASE StartOutstation(a) \/ BindFails(a)
  BY <1>1, <1>2, <1>3 DEF StartOutstation, BindFails, ServeInv, parser
<1>4. CASE Serve(a)
  <2>1. a \in DOMAIN stations /\ stations[a].names = Group(a)
    BY <1>4 DEF Serve, ServeInv, ParserInv, StationInv
  <2>2. \A n \in stations[a].names : n \in gathered /\ AddrOf(n) = a
    BY <2>1 DEF Group
  <2>3. /\ server' = [server EXCEPT ![a] = "serving"] /\ nap' = nap
        /\ pingPc' = [n \in Names |-> IF n \in stations[a].names THEN "busy" ELSE pingPc[n]]
    BY <1>4 DEF Serve
  <2>4. \A n \in Names : pingPc'[n] # "none" => n \in gathered /\ AddrOf(n) \in DOMAIN stations
    BY <2>1, <2>2, <2>3 DEF ServeInv
  <2>5. pingPc' \in [Names -> {"none", "asleep", "busy", "dead", "ended"}]
    BY <2>3 DEF ServeInv
  <2>6. QED
    BY <1>1, <1>2, <2>1, <2>3, <2>4, <2>5 DEF ServeInv, parser
<1>5. QED
  BY <1>1, <1>3, <1>4

LEMMA PingSteps ==
  ASSUME ParserInv, ServeInv, NEW n \in Names, Ping(n)
  PROVE  ServeInv' /\ UNCHANGED <<parser, phase, grace, polling>> /\ up' \subseteq up
<1>1. UNCHANGED <<parser, phase, grace, polling>> /\ up' \subseteq up
  BY DEF Ping, Wake, PingDies, Sleep, StopPing, Down
<1>2. \A k : AddrOf(k)' = AddrOf(k)
  BY <1>1 DEF parser, AddrOf
<1>3. CASE Wake(n) \/ PingDies(n) \/ Sleep(n)
  <2>1. /\ server' = server /\ pingPc[n] # "none"
        /\ \E x \in {"asleep", "busy", "dead"} : pingPc' = [pingPc EXCEPT ![n] = x]
        /\ nap' = nap \/ nap' = [nap EXCEPT ![n] = 1]
    BY <1>3 DEF Wake, PingDies, Sleep
  <2>2. QED
    BY <1>1, <1>2, <2>1 DEF ServeInv, parser
<1>4. CASE StopPing(n)
  <2>1. /\ server' = [server EXCEPT ![AddrOf(n)] = "closed"] /\ pingPc[n] # "none"
        /\ pingPc' = [pingPc EXCEPT ![n] = "ended"] /\ nap' = nap
    BY <1>4 DEF StopPing
  <2>2. AddrOf(n) \in DOMAIN stations
    BY <2>1 DEF ServeInv
  <2>3. QED
    BY <1>1, <1>2, <2>1, <2>2 DEF ServeInv, parser
<1>5. QED
  BY <1>1, <1>3, <1>4 DEF Ping

LEMMA MasterStarts ==
  ASSUME ParserInv, PollingInv, NEW m \in MasterIds, StartMaster(m)
  PROVE  PollingInv'
<1>1. m \in DOMAIN masters /\ UNCHANGED <<config, masters, timer, due>>
  BY DEF StartMaster, parser
<1>2. Freq(m) \in [DOMAIN Freq(m) -> Nat]
  BY <1>1, FreqFacts
<1>3. /\ pollPc' = [pollPc EXCEPT ![m] = "connecting"]
      /\ left' = [left EXCEPT ![m] = Freq(m)]
      /\ since' = [since EXCEPT ![m] = [t \in DOMAIN Freq(m) |-> 0]]
  BY DEF StartMaster, Freq
<1>4. PollTypes
  BY DEF PollingInv
<1>5. PollTypes'
  BY <1>1, <1>3, <1>4 DEF PollTypes
<1>6. /\ pollPc'[m] = "connecting" /\ left'[m] = Freq(m)
      /\ since'[m] = [t \in DOMAIN Freq(m) |-> 0]
      /\ \A k \in MasterIds : k # m => UNCHANGED <<left[k], pollPc[k], since[k]>>
  BY <1>3, <1>4 DEF PollTypes
<1>7. Freq(m)' = Freq(m)
  BY <1>1 DEF Freq
<1>8. PollInv(m)'
  BY <1>1, <1>2, <1>6, <1>7 DEF PollInv
<1>9. \A k \in MasterIds : k # m /\ pollPc'[k] # "none" => PollInv(k)'
  BY <1>1, <1>6, PollStays DEF PollingInv
<1>10. QED
  BY <1>5, <1>8, <1>9 DEF PollingInv

LEMMA TickSteps ==
  ASSUME ThreadInv, Tick
  PROVE  ThreadInv' /\ UNCHANGED <<parser, phase, up>>
<1>1. UNCHANGED <<parser, phase, up, pollPc, left, due, since, server, pingPc>>
  BY DEF Tick
<1>2. PollTypes'
  <2>1. PollTypes
    BY DEF ThreadInv, PollingInv
  <2>2. \A m \in MasterIds : timer'[m] \in Nat
    BY <2>1 DEF Tick, PollTypes
  <2>3. timer' = [m \in MasterIds |-> timer'[m]]
    BY DEF Tick
  <2>4. timer' \in [MasterIds -> Nat]
    BY <2>2, <2>3
  <2>5. QED
    BY <1>1, <2>1, <2>4 DEF PollTypes
<1>3. PollingInv'
  <2>1. \A m : PollInv(m) => PollInv(m)'
    BY <1>1, PollStays DEF parser
  <2>2. QED
    BY <1>1, <1>2, <2>1 DEF ThreadInv, PollingInv
<1>4. ServeInv'
  <2>1. \A n \in Names : nap'[n] \in 0..1
    BY DEF Tick, ThreadInv, ServeInv
  <2>2. nap' = [n \in Names |-> nap'[n]]
    BY DEF Tick
  <2>3. nap' \in [Names -> 0..1]
    BY <2>1, <2>2
  <2>4. \A n : AddrOf(n)' = AddrOf(n)
    BY <1>1 DEF parser, AddrOf
  <2>5. QED
    BY <1>1, <2>3, <2>4 DEF ThreadInv, ServeInv, parser
<1>5. grace' \in 0..Grace
  BY GraceAssumption DEF Tick, ThreadInv
<1>6. Quiet'
  BY <1>1 DEF ThreadInv, Quiet
<1>7. QED
  BY <1>1, <1>3, <1>4, <1>5, <1>6 DEF ThreadInv

\* What a step does that does not read the file.
LEMMA OtherSteps ==
  ASSUME ParserInv, ThreadInv, [Next]_vars, ~ReadConfig
  PROVE  /\ ThreadInv'
         /\ UNCHANGED parser /\ up' \subseteq up
         /\ Accepted' => Accepted
         /\ phase' \in {"masters", "grouping"} => phase' = phase
<1>1. PollingInv /\ ServeInv /\ Quiet /\ phase \in Phases /\ grace \in 0..Grace
  BY DEF ThreadInv
<1>2. ASSUME UNCHANGED <<parser, up, polling, pinging>>, grace' \in 0..Grace,
             phase' \in Phases, Accepted' => Accepted,
             phase' \in {"masters", "grouping"} => phase' = phase
      PROVE  ThreadInv' /\ UNCHANGED parser /\ up' \subseteq up
  <2>1. PollingInv' /\ ServeInv'
    BY <1>1, <1>2, PollingStays, ServeStays DEF parser
  <2>2. Quiet'
    BY <1>1, <1>2 DEF Quiet, polling, pinging
  <2>3. QED
    BY <1>2, <2>1, <2>2 DEF ThreadInv
<1>3. CASE Started
  BY <1>1, <1>2, <1>3 DEF Started, Accepted, Phases
<1>4. CASE InterruptEarly
  <2>1. phase \in {"masters", "grouping"} => phase' = "exited"
    BY <1>1, <1>4 DEF InterruptEarly, Quiet
  <2>2. UNCHANGED <<parser, up, grace, polling, pinging>> /\ phase' \in {"abandoned", "exited"}
        /\ phase \in {"masters", "grouping", "starting"}
    BY <1>4 DEF InterruptEarly
  <2>3. Accepted' => Accepted
    BY <2>1, <2>2 DEF Accepted
  <2>4. QED
    BY <1>1, <1>2, <2>2, <2>3 DEF Phases
<1>5. CASE Interrupt
  <2>1. Grace \in 0..Grace
    BY GraceAssumption
  <2>2. QED
    BY <1>1, <1>2, <1>5, <2>1 DEF Interrupt, Accepted, Phases
<1>6. CASE Exit \/ Exited \/ UNCHANGED vars
  BY <1>1, <1>2, <1>6 DEF Exit, Exited, vars, Accepted, Phases
<1>7. CASE Tick
  BY <1>7, TickSteps DEF Accepted
<1>8. ASSUME NEW m \in MasterIds, StartMaster(m) \/ MasterStation(m)
      PROVE  ThreadInv' /\ UNCHANGED <<parser, phase>> /\ up' \subseteq up
  <2>1. UNCHANGED <<parser, phase, grace, pinging>> /\ up' \subseteq up
    BY <1>8 DEF StartMaster, MasterStation, Connected, Idle, BeginPoll, EndPoll, LoopHead, Down
  <2>2. PollingInv'
    BY <1>1, <1>8, MasterStarts, StationPolls
  <2>3. ServeInv'
    BY <1>1, <2>1, ServeStays
  <2>4. phase \notin {"masters", "grouping"}
    BY <1>1, <1>8 DEF StartMaster, MasterStation, Connected, Idle, BeginPoll, EndPoll, Quiet
  <2>5. QED
    BY <1>1, <2>1, <2>2, <2>3, <2>4 DEF ThreadInv, Quiet
<1>9. ASSUME NEW a \in Addrs, StartOutstation(a) \/ Serve(a) \/ BindFails(a)
      PROVE  ThreadInv' /\ UNCHANGED <<parser, phase>> /\ up' \subseteq up
  <2>1. ServeInv' /\ UNCHANGED <<parser, phase, up, grace, polling>>
    BY <1>1, <1>9, StationServes
  <2>2. PollingInv'
    BY <1>1, <2>1, PollingStays DEF parser
  <2>3. phase \notin {"masters", "grouping"}
    BY <1>1, <1>9 DEF StartOutstation, Serve, BindFails, Quiet
  <2>4. QED
    BY <1>1, <2>1, <2>2, <2>3 DEF ThreadInv, Quiet
<1>10. ASSUME NEW n \in Names, Ping(n)
       PROVE  ThreadInv' /\ UNCHANGED <<parser, phase>> /\ up' \subseteq up
  <2>1. ServeInv' /\ UNCHANGED <<parser, phase, grace, polling>> /\ up' \subseteq up
    BY <1>1, <1>10, PingSteps
  <2>2. PollingInv'
    BY <1>1, <2>1, PollingStays DEF parser
  <2>3. phase \notin {"masters", "grouping"}
    BY <1>1, <1>10 DEF Ping, Wake, PingDies, Sleep, StopPing, Quiet
  <2>4. QED
    BY <1>1, <2>1, <2>2, <2>3 DEF ThreadInv, Quiet
<1>11. CASE Threads
  BY <1>8, <1>9, <1>10, <1>11 DEF Threads, Accepted
<1>12. QED
  BY <1>2, <1>3, <1>4, <1>5, <1>6, <1>7, <1>11 DEF Next
-------------------------------------------------------------------------------
(* Reading the file *)

LEMMA ParseSteps ==
  ASSUME ParserInv, Parse
  PROVE  ParserInv'
<1>1. CASE DropMaster
  <2>1. UNCHANGED <<config, phase, drawn, masters, given, gathered, stations, vnictrack>>
        /\ entry' = entry + 1 /\ phase = "masters" /\ entry + 1 \in DOMAIN config.masters
    BY <1>1 DEF DropMaster, Unread
  <2>2. /\ Len(config.masters) \in Nat /\ DOMAIN config.masters = 1..Len(config.masters)
        /\ entry \in Nat /\ DOMAIN masters \subseteq 1..entry
    BY FileFacts DEF ParserInv
  <2>3. entry' \in 0..Len(config.masters) /\ DOMAIN masters' \subseteq 1..entry'
    BY <2>1, <2>2
  <2>4. \A m : MasterInv(m) => MasterInv(m)'
    BY <2>1 DEF MasterInv, AddrOf, Datastore, Port, Unit
  <2>5. GivenInv'
    BY <2>1 DEF ParserInv, GivenInv, Hosts
  <2>6. QED
    BY <2>1, <2>3, <2>4, <2>5 DEF ParserInv, Accepted
<1>2. CASE ReadMaster
  BY <1>2, ReadMasterInv
<1>3. CASE RefuseMaster \/ MastersRead \/ RefuseGroup \/ Grouped
  BY <1>3, ParserStays DEF RefuseMaster, MastersRead, RefuseGroup, Grouped, Accepted
<1>4. ASSUME NEW a \in Addrs, CreateOutstation(a)
      PROVE  ParserInv'
  BY <1>4, CreateOutstationInv
<1>5. QED
  BY <1>1, <1>2, <1>3, <1>4 DEF Parse

LEMMA ReadingKeepsThreads ==
  ASSUME ThreadInv, ReadConfig
  PROVE  ThreadInv'
<1>1. /\ UNCHANGED <<grace, polling, pinging>>
      /\ phase \in {"masters", "grouping"} /\ phase' \in Phases
  BY DEF ReadConfig, Parse, DropMaster, ReadMaster, RefuseMaster, MastersRead, RefuseGroup,
         Grouped, CreateOutstation, Phases
<1>2. /\ \A m \in MasterIds : pollPc[m] = "none"
      /\ \A a \in Addrs : server[a] = "none"
      /\ \A n \in Names : pingPc[n] = "none"
  BY <1>1 DEF ThreadInv, Quiet
<1>3. PollingInv'
  BY <1>1, <1>2 DEF ThreadInv, PollingInv, PollTypes, polling
<1>4. ServeInv'
  BY <1>1, <1>2 DEF ThreadInv, ServeInv, pinging
<1>5. QED
  BY <1>1, <1>2, <1>3, <1>4 DEF ThreadInv, Quiet, polling, pinging

\* The interfaces that are up have aliases that have been counted, and
\* addresses that are nobody else's: while the masters are read, of masters;
\* then also of stations that have been created.
UpInv ==
    /\ up \in SUBSET ((0..(vnictrack + 1)) \X Addrs)
    /\ phase \in {"masters", "grouping"} => \A p \in up : p[1] < vnictrack
    /\ phase = "masters" => \A p \in up : /\ p[2] \in Hosts(drawn)
                                          /\ \A n \in DOMAIN given : given[n] # p[2]
    /\ phase = "grouping" => \A p \in up : \/ p[2] \in DOMAIN stations
                                           \/ \A n \in DOMAIN given : given[n] # p[2]
    /\ AddressesOwned

\* An interface of a master: with an address that has not been drawn before.
LEMMA MasterUp ==
  ASSUME ParserInv, UpInv, phase = "masters", Unread, Readable
  PROVE  /\ WithMaster \in SUBSET ((0..(vnictrack + 1)) \X Addrs)
         /\ \A p \in WithMaster :
              \/ p \in up
              \/ Master.ip = None /\ p = <<vnictrack, config.hosts[drawn + 1]>>
         /\ up \subseteq WithMaster
         /\ config.hosts[drawn + 1] \notin Hosts(drawn)
         /\ \A p, q \in WithMaster : p[1] = q[1] \/ p[2] = q[2] => p = q
<1> DEFINE h == config.hosts[drawn + 1]
<1>1. /\ MasterIp \in Addrs /\ (Master.ip = None => MasterIp = h)
      /\ drawn + 1 \in 1..Len(config.hosts)
  BY MasterAddrs
<1>2. /\ Len(config.hosts) \in Nat /\ DOMAIN config.hosts = 1..Len(config.hosts)
      /\ \A i, j \in DOMAIN config.hosts : config.hosts[i] = config.hosts[j] => i = j
      /\ drawn \in Nat /\ vnictrack \in Nat
  BY FileFacts DEF ParserInv
<1>3. h \notin Hosts(drawn)
  BY <1>1, <1>2 DEF Hosts
<1>4. WithMaster = IF Master.ip = None THEN up \cup {<<vnictrack, h>>} ELSE up
  BY <1>1 DEF WithMaster
<1>5. Master.ip = None => h \in Addrs
  BY <1>1
<1> HIDE DEF h
<1>6. /\ up \in SUBSET ((0..(vnictrack + 1)) \X Addrs)
      /\ \A p \in up : p[1] < vnictrack /\ p[2] \in Hosts(drawn)
      /\ \A p, q \in up : p[1] = q[1] \/ p[2] = q[2] => p = q
  BY DEF UpInv, AddressesOwned
<1>7. WithMaster \in SUBSET ((0..(vnictrack + 1)) \X Addrs)
  BY <1>2, <1>4, <1>5, <1>6
<1>8. \A p \in up : p[1] # vnictrack /\ p[2] # h
  BY <1>2, <1>3, <1>6
<1>9. \A p \in WithMaster : p \in up \/ (Master.ip = None /\ p = <<vnictrack, h>>)
  BY <1>4
<1>10. <<vnictrack, h>>[1] = vnictrack /\ <<vnictrack, h>>[2] = h
  OBVIOUS
<1>11. \A p, q \in WithMaster : p[1] = q[1] \/ p[2] = q[2] => p = q
  BY <1>6, <1>8, <1>9, <1>10
<1>12. QED
  BY <1>3, <1>4, <1>7, <1>9, <1>11 DEF h

LEMMA ReadMasterUp ==
  ASSUME ParserInv, UpInv, ReadMaster
  PROVE  UpInv'
<1> DEFINE h == config.hosts[drawn + 1]
<1>1. /\ Unread /\ Readable /\ Acceptable /\ phase = "masters"
      /\ UNCHANGED <<config, phase, stations>> /\ up' = WithMaster
      /\ drawn' = drawn + (IF NeedsAddr THEN 2 ELSE 1)
      /\ vnictrack' = IF Master.ip = None THEN vnictrack + 1 ELSE vnictrack
      /\ given' = IF Configured(Master.outs) # {} THEN given
                  ELSE [n \in DOMAIN given \cup Master.outs |->
                          IF n \in Master.outs THEN OutstationAddr ELSE given[n]]
  BY DEF ReadMaster
<1>2. /\ drawn + 1 \in 1..Len(config.hosts) /\ drawn \in Nat /\ vnictrack \in Nat
      /\ Len(config.hosts) \in Nat /\ DOMAIN config.hosts = 1..Len(config.hosts)
      /\ \A i, j \in DOMAIN config.hosts : config.hosts[i] = config.hosts[j] => i = j
  BY <1>1, MasterAddrs, FileFacts DEF ParserInv
<1>3. /\ WithMaster \in SUBSET ((0..(vnictrack + 1)) \X Addrs)
      /\ \A p \in WithMaster : p \in up \/ (Master.ip = None /\ p = <<vnictrack, h>>)
      /\ h \notin Hosts(drawn)
      /\ \A p, q \in WithMaster : p[1] = q[1] \/ p[2] = q[2] => p = q
  BY <1>1, MasterUp
<1>4. /\ \A p \in up : p[1] < vnictrack /\ p[2] \in Hosts(drawn)
                       /\ \A n \in DOMAIN given : given[n] # p[2]
      /\ \A p \in up : p[1] \in Nat
  BY <1>1, <1>2 DEF UpInv
<1>5. \A n \in DOMAIN given : given[n] \in Hosts(drawn)
  BY DEF ParserInv, GivenInv
<1>6. h \in Hosts(drawn') /\ Hosts(drawn) \subseteq Hosts(drawn')
  BY <1>1, <1>2 DEF Hosts
<1>7. \A n \in DOMAIN given' : \/ \E k \in DOMAIN given : given'[n] = given[k]
                               \/ /\ given'[n] = config.hosts[drawn + 2]
                                  /\ drawn + 2 \in 1..Len(config.hosts)
  <2>1. CASE Configured(Master.outs) # {}
    BY <1>1, <2>1
  <2>2. CASE Configured(Master.outs) = {}
    <3>1. \/ OutstationAddr = config.hosts[drawn + 2] /\ drawn + 2 \in 1..Len(config.hosts)
          \/ OutstationAddr \in {given[n] : n \in DOMAIN given}
      BY <1>1, <2>2, OutstationAddrs
    <3>2. QED
      BY <1>1, <2>2, <3>1
  <2>3. QED
    BY <2>1, <2>2
<1>8. drawn + 2 \in 1..Len(config.hosts) =>
        config.hosts[drawn + 2] # h /\ config.hosts[drawn + 2] \notin Hosts(drawn)
  BY <1>2 DEF Hosts
<1>9. <<vnictrack, h>>[1] = vnictrack /\ <<vnictrack, h>>[2] = h
  OBVIOUS
<1> HIDE DEF h
<1>10. \A p \in up' : /\ p[2] \in Hosts(drawn')
                      /\ \A n \in DOMAIN given' : given'[n] # p[2]
  <2>1. ASSUME NEW p \in up', NEW n \in DOMAIN given'
        PROVE  given'[n] # p[2]
    <3>1. (p \in up /\ p[2] \in Hosts(drawn) /\ \A k \in DOMAIN given : given[k] # p[2]) \/ p[2] = h
      BY <1>1, <1>3, <1>4, <1>9
    <3>2. QED
      BY <1>3, <1>5, <1>7, <1>8, <3>1
  <2>2. ASSUME NEW p \in up'
        PROVE  p[2] \in Hosts(drawn')
    BY <1>1, <1>3, <1>4, <1>6, <1>9
  <2>3. QED
    BY <2>1, <2>2
<1>11. \A p \in up' : p[1] < vnictrack'
  BY <1>1, <1>2, <1>3, <1>4, <1>9
<1>12. up' \in SUBSET ((0..(vnictrack' + 1)) \X Addrs)
  <2>1. 0..(vnictrack + 1) \subseteq 0..(vnictrack' + 1)
    BY <1>1, <1>2
  <2>2. QED
    BY <1>1, <1>3, <2>1
<1>13. Hosts(drawn)' = Hosts(drawn')
  BY <1>1 DEF Hosts
<1>14. /\ phase' = "masters"
       /\ \A p, q \in up' : p[1] = q[1] \/ p[2] = q[2] => p = q
  BY <1>1, <1>3
<1>15. QED
  BY <1>10, <1>11, <1>12, <1>13, <1>14 DEF UpInv, AddressesOwned

LEMMA CreateOutstationUp ==
  ASSUME ParserInv, UpInv, NEW a \in Addrs, CreateOutstation(a)
  PROVE  UpInv'
<1>1. /\ phase = "grouping" /\ phase' = phase /\ given' = given /\ a \in Ungrouped
      /\ IF Configured(Group(a)) = {}
         THEN vnictrack' = vnictrack + 1 /\ up' = up \cup {<<vnictrack, a>>}
         ELSE vnictrack' = vnictrack /\ up' = up
  BY DEF CreateOutstation
<1>2. DOMAIN stations' = DOMAIN stations \cup {a} /\ a \notin DOMAIN stations
  BY <1>1 DEF CreateOutstation, Extend, Ungrouped
<1>3. /\ up \in SUBSET ((0..(vnictrack + 1)) \X Addrs) /\ vnictrack \in Nat
      /\ \A p \in up : p[1] < vnictrack
      /\ \A p \in up : p[2] \in DOMAIN stations \/ \A n \in DOMAIN given : given[n] # p[2]
      /\ \A p, q \in up : p[1] = q[1] \/ p[2] = q[2] => p = q
  BY <1>1 DEF UpInv, AddressesOwned, ParserInv
<1>4. CASE Configured(Group(a)) = {}
  <2>1. \E n \in DOMAIN given : given[n] = a
    <3>1. PICK n \in gathered : AddrOf(n) = a
      BY <1>1 DEF Ungrouped
    <3>2. config.outs[n].ip = None
      BY <1>4, <3>1 DEF Configured, Group
    <3>3. QED
      BY <3>1, <3>2 DEF AddrOf, ParserInv, GivenInv
  <2>2. \A p \in up : p[2] # a /\ p[1] # vnictrack
    BY <1>2, <1>3, <2>1
  <2>3. <<vnictrack, a>>[1] = vnictrack /\ <<vnictrack, a>>[2] = a
    OBVIOUS
  <2>4. /\ \A p \in up' : p \in up \/ p = <<vnictrack, a>>
        /\ vnictrack' = vnictrack + 1
    BY <1>1, <1>4
  <2>5. \A p, q \in up' : p[1] = q[1] \/ p[2] = q[2] => p = q
    BY <1>3, <2>2, <2>3, <2>4
  <2>6. up' \in SUBSET ((0..(vnictrack' + 1)) \X Addrs) /\ \A p \in up' : p[1] < vnictrack'
    <3>1. 0..(vnictrack + 1) \subseteq 0..(vnictrack' + 1) /\ vnictrack \in 0..(vnictrack' + 1)
      BY <1>3, <2>4
    <3>2. \A p \in up : p[1] \in Nat
      BY <1>3
    <3>3. \A p \in up' : p[1] < vnictrack'
      BY <1>3, <2>3, <2>4, <3>2
    <3>4. up' \in SUBSET ((0..(vnictrack' + 1)) \X Addrs)
      BY <1>3, <2>4, <3>1
    <3>5. QED
      BY <3>3, <3>4
  <2>7. \A p \in up' : p[2] \in DOMAIN stations' \/ \A n \in DOMAIN given' : given'[n] # p[2]
    BY <1>1, <1>2, <1>3, <2>3, <2>4
  <2>8. QED
    BY <1>1, <2>5, <2>6, <2>7 DEF UpInv, AddressesOwned
<1>5. CASE Configured(Group(a)) # {}
  <2>1. up' = up /\ vnictrack' = vnictrack
    BY <1>1, <1>5
  <2>2. QED
    BY <1>1, <1>2, <1>3, <2>1 DEF UpInv, AddressesOwned
<1>6. QED
  BY <1>4, <1>5

LEMMA ParseUp ==
  ASSUME ParserInv, UpInv, Parse
  PROVE  UpInv'
<1>1. CASE DropMaster
  BY <1>1 DEF DropMaster, UpInv, AddressesOwned, Hosts
<1>2. CASE ReadMaster
  BY <1>2, ReadMasterUp
<1>3. CASE RefuseMaster
  <2>1. up' = WithMaster /\ phase' = "exited" /\ vnictrack' = vnictrack
    BY <1>3 DEF RefuseMaster, parser
  <2>2. /\ WithMaster \in SUBSET ((0..(vnictrack + 1)) \X Addrs)
        /\ \A p, q \in WithMaster : p[1] = q[1] \/ p[2] = q[2] => p = q
    BY <1>3, MasterUp DEF RefuseMaster
  <2>3. QED
    BY <2>1, <2>2 DEF UpInv, AddressesOwned
<1>4. CASE MastersRead \/ RefuseGroup \/ Grouped
  BY <1>4 DEF MastersRead, RefuseGroup, Grouped, parser, UpInv, AddressesOwned
<1>5. ASSUME NEW a \in Addrs, CreateOutstation(a)
      PROVE  UpInv'
  BY <1>5, CreateOutstationUp
<1>6. QED
  BY <1>1, <1>2, <1>3, <1>4, <1>5 DEF Parse

-------------------------------------------------------------------------------
(* What holds of every run *)

IInv == ParserInv /\ ThreadInv /\ UpInv

LEMMA Invariance == Spec => []IInv
<1>1. Init => IInv
  <2> SUFFICES ASSUME Init
               PROVE  IInv
    OBVIOUS
  <2>1. ParserInv /\ ThreadInv
    BY ParserStart, ThreadStart DEF Init
  <2>2. UpInv
    BY DEF Init, ParserInit, UpInv, AddressesOwned
  <2>3. QED
    BY <2>1, <2>2 DEF IInv
<1>2. IInv /\ [Next]_vars => IInv'
  <2> SUFFICES ASSUME ParserInv, ThreadInv, UpInv, [Next]_vars
               PROVE  IInv'
    BY DEF IInv
  <2>1. CASE ReadConfig
    BY <2>1, ParseSteps, ReadingKeepsThreads, ParseUp DEF ReadConfig, IInv
  <2>2. CASE ~ReadConfig
    <3>1. /\ ThreadInv' /\ UNCHANGED parser /\ up' \subseteq up
          /\ Accepted' => Accepted
          /\ phase' \in {"masters", "grouping"} => phase' = phase
      BY <2>2, OtherSteps
    <3>2. ParserInv'
      BY <3>1, ParserStays
    <3>3. UpInv'
      BY <3>1 DEF UpInv, AddressesOwned, Hosts, parser
    <3>4. QED
      BY <3>1, <3>2, <3>3 DEF IInv
  <2>3. QED
    BY <2>1, <2>2
<1>3. QED
  BY <1>1, <1>2, PTL DEF Spec

\* Every variable keeps its type, whatever the threads do.
THEOREM TypesInvariant == Spec => []TypeOK
<1>1. IInv => TypeOK
  <2> SUFFICES ASSUME ParserInv, ThreadInv, UpInv
               PROVE  TypeOK
    BY DEF IInv
  <2>1. \A n \in gathered : AddrOf(n) \in Addrs
    <3>1. /\ \A n \in DOMAIN config.outs : config.outs[n].ip \in Addrs \cup {None}
          /\ Hosts(drawn) \subseteq Addrs
      BY FileFacts DEF ParserInv, Hosts
    <3>2. QED
      BY <3>1 DEF ParserInv, GivenInv, AddrOf
  <2>2. ASSUME NEW m \in MasterIds, pollPc[m] # "none"
        PROVE  /\ m \in DOMAIN masters
               /\ DOMAIN left[m] = DOMAIN Freq(m) /\ DOMAIN since[m] = DOMAIN Freq(m)
               /\ \A t \in DOMAIN left[m] : left[m][t] \in 0..Freq(m)[t] /\ since[m][t] \in Nat
    <3>1. PollInv(m)
      BY <2>2 DEF ThreadInv, PollingInv
    <3>2. DOMAIN left[m] = DOMAIN Freq(m)
      BY <3>1 DEF PollInv
    <3>3. QED
      BY <3>1, <3>2 DEF PollInv
  <2>3. /\ config \in Configs /\ entry \in 0..Len(config.masters) /\ drawn \in 0..Len(config.hosts)
        /\ DOMAIN masters \subseteq 1..entry
        /\ \A m \in DOMAIN masters : masters[m].ip \in Addrs /\ masters[m].addr \in Addrs
        /\ DOMAIN given \subseteq gathered /\ gathered \subseteq DOMAIN config.outs
        /\ \A a \in DOMAIN stations : stations[a].names = Group(a)
        /\ vnictrack \in Nat
    BY DEF ParserInv, GivenInv, MasterInv, StationInv
  <2>4. /\ phase \in Phases /\ grace \in 0..Grace
        /\ pollPc \in [MasterIds -> {"none", "connecting", "asleep", "polling", "ended"}]
        /\ timer \in [MasterIds -> Nat]
        /\ \A m \in MasterIds : due[m] \in SUBSET Types
    BY DEF ThreadInv, PollingInv, PollTypes
  <2>5. /\ server \in [Addrs -> {"none", "starting", "serving", "closed", "failed"}]
        /\ \A a \in Addrs : server[a] # "none" => a \in DOMAIN stations
        /\ pingPc \in [Names -> {"none", "asleep", "busy", "dead", "ended"}]
        /\ \A n \in Names : pingPc[n] # "none" => n \in gathered
        /\ nap \in [Names -> 0..1]
    BY DEF ThreadInv, ServeInv
  <2>6. up \in SUBSET ((0..(vnictrack + 1)) \X Addrs)
    BY DEF UpInv
  <2>7. QED
    BY <2>1, <2>2, <2>3, <2>4, <2>5, <2>6 DEF TypeOK
<1>2. QED
  BY <1>1, Invariance, PTL

\* For any number of data types and any frequencies a master polls each when
\* it has slept for its frequency since it polled it before, and only then.
THEOREM PollsOnTime == Spec => []OnTime
<1>1. IInv => OnTime
  <2> SUFFICES ASSUME ParserInv, ThreadInv,
                      NEW m \in MasterIds, pollPc[m] # "none", NEW t \in DOMAIN since[m]
               PROVE  /\ since[m][t] <= Freq(m)[t]
                      /\ pollPc[m] = "polling" => (t \in due[m] <=> since[m][t] = Freq(m)[t])
    BY DEF IInv, OnTime
  <2>1. PollInv(m)
    BY DEF ThreadInv, PollingInv
  <2>2. m \in DOMAIN masters /\ t \in DOMAIN Freq(m)
    BY <2>1 DEF PollInv
  <2>3. Freq(m)[t] \in Nat
    BY <2>2, FreqFacts
  <2>4. Least(left[m]) \in Nat /\ Least(left[m]) <= left[m][t]
    BY <2>1, <2>2, LeftFacts
  <2>5. /\ left[m][t] \in 0..Freq(m)[t]
        /\ since[m][t] = Freq(m)[t] - left[m][t]
                           + (IF pollPc[m] = "polling" THEN Least(left[m]) ELSE 0)
        /\ pollPc[m] = "polling" => (t \in due[m] <=> left[m][t] = Least(left[m]))
    BY <2>1, <2>2 DEF PollInv
  <2>6. QED
    BY <2>3, <2>4, <2>5
<1>2. QED
  BY <1>1, Invariance, PTL

\* No two interfaces share an alias or an address, wherever the program ends.
THEOREM OwnAddresses == Spec => []AddressesOwned
<1>1. IInv => AddressesOwned
  BY DEF IInv, UpInv
<1>2. QED
  BY <1>1, Invariance, PTL

\* What a server tells of a unit is what the one outstation with it has.
LEMMA UnitCount ==
  ASSUME NEW S, GoodUnits(S), NEW T \in SUBSET S, NEW n \in T
  PROVE  /\ Unit(n) \in DOMAIN Datastore(S) /\ Unit(n) \in DOMAIN Datastore(T)
         /\ Datastore(S)[Unit(n)] = config.outs[n].count
         /\ Datastore(T)[Unit(n)] = config.outs[n].count
<1>1. \A k \in S : Unit(k) = Unit(n) => k = n
  BY DEF GoodUnits
<1>2. (CHOOSE k \in S : Unit(k) = Unit(n)) = n /\ (CHOOSE k \in T : Unit(k) = Unit(n)) = n
  BY <1>1
<1>3. QED
  BY <1>2 DEF Datastore

\* No two scripts write one block, and each has the block it was given.
THEOREM SeparateUnits == Spec => []UnitsSeparate
<1>1. IInv => UnitsSeparate
  <2> SUFFICES ASSUME ParserInv, ThreadInv, NEW a \in Names, NEW b \in Names,
                      pingPc[a] # "none", pingPc[b] # "none", AddrOf(a) = AddrOf(b)
               PROVE  /\ Unit(a) = Unit(b) => a = b
                      /\ stations[AddrOf(a)].datastore[Unit(a)] = config.outs[a].count
    BY DEF IInv, UnitsSeparate
  <2> DEFINE S == Group(AddrOf(a))
  <2>1. a \in S /\ b \in S /\ AddrOf(a) \in DOMAIN stations
    BY DEF ThreadInv, ServeInv, Group
  <2>2. GoodUnits(S) /\ stations[AddrOf(a)].datastore = Datastore(S)
    BY <2>1 DEF ParserInv, StationInv
  <2> HIDE DEF S
  <2>3. Datastore(S)[Unit(a)] = config.outs[a].count
    BY <2>1, <2>2, UnitCount
  <2>4. QED
    BY <2>1, <2>2, <2>3 DEF GoodUnits
<1>2. QED
  BY <1>1, Invariance, PTL

\* The masters and outstations of every file that is accepted fit together.
THEOREM MeetOutstations == Spec => []MastersMeetOutstations
<1>1. IInv => MastersMeetOutstations
  <2> SUFFICES ASSUME ParserInv, Accepted, NEW m \in DOMAIN masters, masters[m].outs # {}
               PROVE  LET node == masters[m]
                          station == stations[node.addr]
                      IN /\ node.addr \in DOMAIN stations
                         /\ node.outs \subseteq station.names
                         /\ \A u \in DOMAIN node.info : /\ u \in DOMAIN station.datastore
                                                        /\ node.info[u] = station.datastore[u]
    BY DEF IInv, MastersMeetOutstations
  <2> DEFINE a == masters[m].addr
             T == masters[m].outs
             S == Group(a)
  <2>1. /\ T \subseteq gathered /\ \A n \in T : AddrOf(n) = a
        /\ masters[m].info = Datastore(T)
    BY DEF ParserInv, MasterInv
  <2>2. T \subseteq S
    BY <2>1 DEF Group
  <2>3. a \in DOMAIN stations
    BY <2>1 DEF ParserInv, Ungrouped
  <2>4. /\ stations[a].names = S /\ GoodUnits(S)
        /\ stations[a].datastore = Datastore(S)
    BY <2>3 DEF ParserInv, StationInv
  <2> HIDE DEF a, T, S
  <2>5. ASSUME NEW u \in DOMAIN Datastore(T)
        PROVE  u \in DOMAIN Datastore(S) /\ Datastore(T)[u] = Datastore(S)[u]
    <3>1. PICK n \in T : Unit(n) = u
      BY DEF Datastore
    <3>2. QED
      BY <2>2, <2>4, <3>1, UnitCount
  <2>6. QED
    BY <2>1, <2>2, <2>3, <2>4, <2>5 DEF a, T, S
<1>2. QED
  BY <1>1, Invariance, PTL
-------------------------------------------------------------------------------
(* What is left of the interfaces after SIGINT *)

\* Once main has started the threads, each simulated station has one; the
\* seconds of grace run only then.
Launched ==
    /\ phase \notin {"stopping", "exited"} => grace = Grace
    /\ phase \in {"running", "stopping"} \/ grace # Grace =>
          /\ OutstationsStarted
          /\ \A m \in DOMAIN masters : config.masters[m].simulate => pollPc[m] # "none"

\* Every interface is of a master or of a station, unless the file is refused.
Owners ==
    /\ DOMAIN stations \subseteq Addrs
    /\ phase # "exited" \/ grace # Grace => \A p \in up :
          \/ \E m \in DOMAIN masters : masters[m].vnic = p[1]
          \/ \E a \in DOMAIN stations : stations[a].vnic = p[1]

\* A thread that has ended has taken its interface down.
Released ==
    /\ \A m \in MasterIds : pollPc[m] = "ended" => \A p \in up : p[1] # masters[m].vnic
    /\ \A n \in Names : pingPc[n] = "ended" => \A p \in up : p[1] # stations[AddrOf(n)].vnic

\* A server has ping threads for all its names, and only a server has.
Pinged ==
    /\ \A a \in DOMAIN stations : server[a] \in {"serving", "closed"} =>
          \A n \in stations[a].names : pingPc[n] # "none"
    /\ \A n \in Names : pingPc[n] # "none" => server[AddrOf(n)] \in {"serving", "closed"}

\* Who sleeps has begun to before SIGINT: grace - Grace seconds ago or more.
Begun(m) ==
    IF left[m] = <<>> THEN timer[m] + Grace - grace <= 1
    ELSE \A t \in DOMAIN left[m] : timer[m] + Grace - grace <= Freq(m)[t]
Naps ==
    /\ \A m \in MasterIds : pollPc[m] = "asleep" => Begun(m)
    /\ \A n \in Names : pingPc[n] = "asleep" => nap[n] + Grace - grace <= 1

CleanInv == Launched /\ Owners /\ Released /\ Pinged /\ Naps

LEMMA ReadingClean ==
  ASSUME IInv, IInv', CleanInv, ReadConfig
  PROVE  CleanInv'
<1>1. /\ UNCHANGED <<grace, polling, pinging>>
      /\ phase \in {"masters", "grouping"} /\ phase' \notin {"running", "stopping"}
  BY DEF ReadConfig, Parse, DropMaster, ReadMaster, RefuseMaster, MastersRead, RefuseGroup,
         Grouped, CreateOutstation
<1>2. /\ grace = Grace
      /\ \A m \in MasterIds : pollPc[m] = "none"
      /\ \A a \in Addrs : server[a] = "none"
      /\ \A n \in Names : pingPc[n] = "none"
  BY <1>1 DEF CleanInv, Launched, IInv, ThreadInv, Quiet
<1>3. Launched' /\ Released' /\ Naps'
  BY <1>1, <1>2 DEF Launched, Released, Naps, polling, pinging
<1>4. DOMAIN stations' \subseteq Addrs
  <2>1. DOMAIN stations \subseteq Addrs
    BY DEF CleanInv, Owners
  <2>2. ASSUME NEW a \in Addrs, CreateOutstation(a)
        PROVE  DOMAIN stations' \subseteq Addrs
    BY <2>1, <2>2 DEF CreateOutstation, Extend
  <2>3. QED
    BY <2>1, <2>2 DEF ReadConfig, Parse, DropMaster, ReadMaster, RefuseMaster, MastersRead,
                      RefuseGroup, Grouped, parser
<1>5. Pinged'
  BY <1>1, <1>2, <1>4 DEF Pinged, pinging
<1>6. ASSUME NEW p \in up', phase' # "exited"
      PROVE  \/ \E m \in DOMAIN masters' : masters'[m].vnic = p[1]
             \/ \E a \in DOMAIN stations' : stations'[a].vnic = p[1]
  <2>1. p \in up => \/ \E m \in DOMAIN masters : masters[m].vnic = p[1]
                    \/ \E a \in DOMAIN stations : stations[a].vnic = p[1]
    BY <1>1 DEF CleanInv, Owners
  <2>2. CASE DropMaster \/ MastersRead \/ Grouped
    BY <1>6, <2>1, <2>2 DEF DropMaster, MastersRead, Grouped, parser
  <2>3. CASE ReadMaster
    <3>1. /\ up' = WithMaster /\ stations' = stations
          /\ DOMAIN masters' = DOMAIN masters \cup {entry + 1}
          /\ \A m \in DOMAIN masters : m # entry + 1 => masters'[m] = masters[m]
          /\ Master.ip = None => masters'[entry + 1].vnic = vnictrack
      BY <2>3 DEF ReadMaster, Extend
    <3>2. entry + 1 \notin DOMAIN masters
      BY FileFacts DEF IInv, ParserInv
    <3>3. p \in up \/ (Master.ip = None /\ p[1] = vnictrack)
      BY <1>6, <3>1 DEF WithMaster
    <3>4. QED
      BY <2>1, <3>1, <3>2, <3>3
  <2>4. ASSUME NEW a \in Addrs, CreateOutstation(a)
        PROVE  \/ \E m \in DOMAIN masters' : masters'[m].vnic = p[1]
               \/ \E b \in DOMAIN stations' : stations'[b].vnic = p[1]
    <3>1. /\ masters' = masters /\ a \notin DOMAIN stations
          /\ DOMAIN stations' = DOMAIN stations \cup {a}
          /\ \A b \in DOMAIN stations : b # a => stations'[b] = stations[b]
          /\ Configured(Group(a)) = {} => stations'[a].vnic = vnictrack
          /\ up' = IF Configured(Group(a)) = {} THEN up \cup {<<vnictrack, a>>} ELSE up
      BY <2>4 DEF CreateOutstation, Extend, Ungrouped
    <3>2. p \in up \/ (Configured(Group(a)) = {} /\ p[1] = vnictrack)
      BY <1>6, <3>1
    <3>3. QED
      BY <2>1, <3>1, <3>2
  <2>5. CASE RefuseMaster \/ RefuseGroup
    BY <1>6, <2>5 DEF RefuseMaster, RefuseGroup
  <2>6. QED
    BY <2>2, <2>3, <2>4, <2>5 DEF ReadConfig, Parse
<1>7. Owners'
  BY <1>1, <1>2, <1>4, <1>6 DEF Owners
<1>8. QED
  BY <1>3, <1>5, <1>7 DEF CleanInv

\* A step that leaves the file and main alone.
LEMMA OwnersStay ==
  ASSUME Owners, UNCHANGED <<parser, phase, grace>>, up' \subseteq up
  PROVE  Owners'
BY DEF Owners, parser

\* The step of one master's thread takes no other thread away.
LEMMA LaunchedStay ==
  ASSUME IInv, Launched, UNCHANGED <<parser, phase, grace, server>>,
         \A k \in MasterIds : pollPc[k] # "none" => pollPc'[k] # "none"
  PROVE  Launched'
<1>1. DOMAIN masters \subseteq MasterIds
  BY FreqFacts, FileFacts DEF IInv, ParserInv
<1>2. masters' = masters /\ config' = config /\ OutstationsStarted' = OutstationsStarted
  BY DEF parser, OutstationsStarted
<1>3. (\A m \in DOMAIN masters : config.masters[m].simulate => pollPc[m] # "none") =>
         \A m \in DOMAIN masters' : config'.masters[m].simulate => pollPc'[m] # "none"
  BY <1>1, <1>2
<1>4. QED
  BY <1>2, <1>3 DEF Launched

LEMMA MasterClean ==
  ASSUME IInv, IInv', CleanInv, Alive, NEW m \in MasterIds, MasterStation(m)
  PROVE  CleanInv'
<1>1. UNCHANGED <<parser, phase, grace, pinging>> /\ up' \subseteq up
  BY DEF MasterStation, Connected, Idle, BeginPoll, EndPoll, LoopHead, Down
<1>2. /\ PollTypes /\ PollTypes' /\ pollPc[m] # "none"
      /\ pollPc'[m] # "none" => PollInv(m)'
  BY DEF IInv, ThreadInv, PollingInv, MasterStation, Connected, Idle, BeginPoll, EndPoll
<1>3. \A n : AddrOf(n)' = AddrOf(n)
  BY <1>1 DEF parser, AddrOf
<1>4. Pinged'
  BY <1>1, <1>3 DEF CleanInv, Pinged, parser, pinging
<1>5. Owners'
  BY <1>1, OwnersStay DEF CleanInv
<1>6. ASSUME NEW k \in MasterIds, k # m
      PROVE  UNCHANGED <<pollPc[k], timer[k], left[k]>>
  BY <1>2, <1>6 DEF PollTypes, MasterStation, Connected, Idle, BeginPoll, EndPoll, LoopHead
<1>7. CASE BeginPoll(m)
  <2>1. pollPc'[m] = "polling"
    BY <1>2, <1>7 DEF BeginPoll, PollTypes
  <2>2. Launched'
    BY <1>1, <1>6, <2>1, LaunchedStay DEF CleanInv, pinging
  <2>3. Released'
    BY <1>1, <1>3, <1>6, <2>1 DEF CleanInv, Released, parser, pinging
  <2>4. Naps'
    BY <1>1, <1>6, <2>1 DEF CleanInv, Naps, Begun, Freq, parser, pinging
  <2>5. QED
    BY <1>4, <1>5, <2>2, <2>3, <2>4 DEF CleanInv
<1>8. ASSUME NEW r, LoopHead(m, r)
      PROVE  CleanInv'
  <2>1. /\ left' = [left EXCEPT ![m] = r]
        /\ \/ /\ pollPc' = [pollPc EXCEPT ![m] = "ended"]
              /\ up' = Down(masters[m].vnic)
           \/ /\ ~Stop
              /\ pollPc' = [pollPc EXCEPT ![m] = "asleep"]
              /\ timer' = [timer EXCEPT ![m] = IF r = <<>> THEN 1 ELSE Least(r)]
    BY <1>8 DEF LoopHead
  <2>2. left'[m] = r /\ pollPc'[m] \in {"ended", "asleep"}
    BY <1>2, <2>1 DEF PollTypes
  <2>3. Launched'
    BY <1>1, <1>6, <2>2, LaunchedStay DEF CleanInv, pinging
  <2>4. pollPc'[m] = "ended" => \A p \in up' : p[1] # masters'[m].vnic
    BY <1>1, <1>2, <2>1 DEF Down, parser, PollTypes
  <2>5. Released'
    BY <1>1, <1>3, <1>6, <2>4 DEF CleanInv, Released, parser, pinging
  <2>6. ASSUME pollPc'[m] = "asleep"
        PROVE  Begun(m)'
    <3>1. ~Stop /\ timer'[m] = IF r = <<>> THEN 1 ELSE Least(r)
      <4> DEFINE s == IF r = <<>> THEN 1 ELSE Least(r)
      <4>1. ~Stop /\ timer' = [timer EXCEPT ![m] = s]
        BY <1>2, <2>1, <2>6 DEF PollTypes
      <4> HIDE DEF s
      <4>2. timer'[m] = s
        BY <1>2, <4>1 DEF PollTypes
      <4>3. QED
        BY <4>1, <4>2 DEF s
    <3>2. grace' = Grace /\ Grace \in Nat
      BY <1>1, <3>1, GraceAssumption DEF CleanInv, Launched, Stop, Alive
    <3>3. CASE r = <<>>
      BY <2>2, <3>1, <3>2, <3>3 DEF Begun
    <3>4. CASE r # <<>>
      <4>1. PollInv(m)' /\ ParserInv'
        BY <1>2, <2>6 DEF IInv
      <4>2. /\ left'[m] = [t \in DOMAIN Freq(m)' |-> left'[m][t]]
            /\ \A t \in DOMAIN Freq(m)' : left'[m][t] \in 0..Freq(m)'[t]
            /\ m \in DOMAIN masters'
        BY <4>1 DEF PollInv
      <4>3. Freq(m)' \in [DOMAIN Freq(m)' -> Nat]
        <5>1. Freq(m)' = Freq(m) /\ masters' = masters
          BY <1>1 DEF parser, Freq
        <5>2. QED
          BY <4>2, <5>1, FreqFacts DEF IInv
      <4>4. DOMAIN r = DOMAIN Freq(m)' /\ \A t \in DOMAIN r : r[t] \in Nat /\ r[t] <= Freq(m)'[t]
        BY <2>2, <4>2, <4>3
      <4>5. DOMAIN r # {}
        BY <2>2, <3>4, <4>2, <4>4
      <4>6. Least(r) \in Nat /\ \A t \in DOMAIN r : Least(r) <= r[t]
        BY <4>4, <4>5, LeastOf
      <4>7. \A t \in DOMAIN r : timer'[m] + Grace - grace' <= Freq(m)'[t]
        <5>1. \A t \in DOMAIN r : Freq(m)'[t] \in Nat
          BY <4>3, <4>4
        <5>2. QED
          BY <3>1, <3>2, <3>4, <4>4, <4>6, <5>1
      <4>8. QED
        BY <2>2, <3>4, <4>7 DEF Begun
    <3>5. QED
      BY <3>3, <3>4
  <2>7. ASSUME NEW k \in MasterIds, k # m, pollPc'[k] = "asleep"
        PROVE  Begun(k)'
    BY <1>1, <1>6, <2>7 DEF CleanInv, Naps, Begun, Freq, parser
  <2>8. Naps'
    BY <1>1, <2>6, <2>7 DEF CleanInv, Naps, pinging
  <2>9. QED
    BY <1>4, <1>5, <2>3, <2>5, <2>8 DEF CleanInv
<1>9. QED
  BY <1>7, <1>8 DEF MasterStation, Connected, Idle, EndPoll

LEMMA MasterStartClean ==
  ASSUME IInv, CleanInv, NEW m \in MasterIds, StartMaster(m)
  PROVE  CleanInv'
<1>1. /\ UNCHANGED <<parser, phase, grace, timer, pinging, up>> /\ phase = "starting"
      /\ pollPc' = [pollPc EXCEPT ![m] = "connecting"] /\ pollPc[m] = "none"
      /\ left' = [left EXCEPT ![m] = config.masters[m].polls]
  BY DEF StartMaster
<1>2. /\ pollPc'[m] = "connecting"
      /\ \A k \in MasterIds : k # m => UNCHANGED <<pollPc[k], left[k]>>
  BY <1>1 DEF IInv, ThreadInv, PollingInv, PollTypes
<1>3. \A n : AddrOf(n)' = AddrOf(n)
  BY <1>1 DEF parser, AddrOf
<1>4. Launched'
  BY <1>1 DEF CleanInv, Launched
<1>5. Owners' /\ Pinged'
  BY <1>1, <1>3, OwnersStay DEF CleanInv, Pinged, parser, pinging
<1>6. Released'
  BY <1>1, <1>2, <1>3 DEF CleanInv, Released, parser, pinging
<1>7. Naps'
  BY <1>1, <1>2 DEF CleanInv, Naps, Begun, Freq, parser, pinging
<1>8. QED
  BY <1>4, <1>5, <1>6, <1>7 DEF CleanInv

LEMMA StationClean ==
  ASSUME IInv, CleanInv, NEW a \in Addrs, StartOutstation(a) \/ Serve(a) \/ BindFails(a)
  PROVE  CleanInv'
<1>1. UNCHANGED <<parser, phase, up, grace, polling, nap>>
  BY DEF StartOutstation, Serve, BindFails
<1>2. \A n : AddrOf(n)' = AddrOf(n)
  BY <1>1 DEF parser, AddrOf
<1>3. ServeInv /\ ParserInv
  BY DEF IInv, ThreadInv
<1>4. /\ server[a] \in {"none", "starting"}
      /\ server'[a] \in {"starting", "serving", "failed"}
      /\ server'[a] = "serving" <=> Serve(a)
      /\ \A b \in Addrs : b # a => server'[b] = server[b]
  BY <1>3 DEF StartOutstation, Serve, BindFails, ServeInv
<1>5. /\ ~Serve(a) => pingPc' = pingPc
      /\ Serve(a) => /\ a \in DOMAIN stations
                     /\ pingPc' = [n \in Names |->
                                     IF n \in stations[a].names THEN "busy" ELSE pingPc[n]]
  BY <1>3, <1>4 DEF StartOutstation, Serve, BindFails, ServeInv
<1>6. \A n \in Names : \/ pingPc'[n] = pingPc[n]
                       \/ Serve(a) /\ n \in stations[a].names /\ pingPc'[n] = "busy"
  BY <1>5
<1>7. \A b \in DOMAIN stations : /\ b \in Addrs
                                 /\ \A n \in stations[b].names : n \in Names /\ AddrOf(n) = b
  <2>1. \A b \in DOMAIN stations : b \in Addrs /\ stations[b].names = Group(b)
    BY <1>3 DEF CleanInv, Owners, ParserInv, StationInv
  <2>2. gathered \subseteq Names
    BY <1>3, FileFacts DEF ParserInv, GivenInv
  <2>3. QED
    BY <2>1, <2>2 DEF Group
<1>8. \A n \in Names : pingPc[n] # "none" => AddrOf(n) \in DOMAIN stations /\ AddrOf(n) # a
  BY <1>3, <1>4 DEF CleanInv, Pinged, ServeInv
<1>9. Owners'
  BY <1>1, OwnersStay DEF CleanInv
<1>10. Launched'
  <2>1. \A b \in DOMAIN stations : server[b] # "none" => server'[b] # "none"
    BY <1>4, <1>7
  <2>2. OutstationsStarted => OutstationsStarted'
    BY <1>1, <2>1 DEF OutstationsStarted, parser
  <2>3. QED
    BY <1>1, <2>2 DEF CleanInv, Launched, parser, polling
<1>11. Released'
  BY <1>1, <1>2, <1>6 DEF CleanInv, Released, parser, polling
<1>12. Naps'
  BY <1>1, <1>6 DEF CleanInv, Naps, Begun, Freq, parser, polling
<1>13. ASSUME NEW b \in DOMAIN stations, server'[b] \in {"serving", "closed"},
              NEW n \in stations[b].names
       PROVE  pingPc'[n] # "none"
  <2>1. CASE b = a
    <3>1. Serve(a)
      BY <1>4, <1>13, <2>1
    <3>2. QED
      BY <1>5, <1>7, <2>1, <3>1
  <2>2. CASE b # a
    BY <1>4, <1>6, <1>7, <1>13, <2>2 DEF CleanInv, Pinged
  <2>3. QED
    BY <2>1, <2>2
<1>14. ASSUME NEW n \in Names, pingPc'[n] # "none"
       PROVE  server'[AddrOf(n)] \in {"serving", "closed"}
  <2>1. CASE pingPc[n] # "none"
    BY <1>4, <1>7, <1>8, <2>1 DEF CleanInv, Pinged
  <2>2. CASE pingPc[n] = "none"
    <3>1. Serve(a) /\ n \in stations[a].names
      BY <1>6, <1>14, <2>2
    <3>2. AddrOf(n) = a
      BY <1>5, <1>7, <3>1
    <3>3. QED
      BY <1>4, <3>1, <3>2
  <2>3. QED
    BY <2>1, <2>2
<1>15. Pinged'
  <2>1. stations' = stations
    BY <1>1 DEF parser
  <2>2. QED
    BY <1>2, <1>13, <1>14, <2>1 DEF Pinged
<1>16. QED
  BY <1>9, <1>10, <1>11, <1>12, <1>15 DEF CleanInv

LEMMA PingClean ==
  ASSUME IInv, CleanInv, Alive, NEW n \in Names, Ping(n)
  PROVE  CleanInv'
<1>1. UNCHANGED <<parser, phase, grace, polling>> /\ up' \subseteq up
  BY DEF Ping, Wake, PingDies, Sleep, StopPing, Down
<1>2. \A k : AddrOf(k)' = AddrOf(k)
  BY <1>1 DEF parser, AddrOf
<1>3. /\ ServeInv /\ pingPc[n] # "none" /\ AddrOf(n) \in DOMAIN stations
      /\ AddrOf(n) \in Addrs /\ server[AddrOf(n)] \in {"serving", "closed"}
  BY DEF IInv, ThreadInv, ServeInv, Ping, Wake, PingDies, Sleep, StopPing, CleanInv, Pinged, Owners
<1>4. \E x \in {"asleep", "busy", "dead", "ended"} : pingPc' = [pingPc EXCEPT ![n] = x]
  BY DEF Ping, Wake, PingDies, Sleep, StopPing
<1>5. /\ pingPc'[n] # "none"
      /\ \A k \in Names : k # n => pingPc'[k] = pingPc[k]
  BY <1>3, <1>4 DEF ServeInv
<1>6. server' = server \/ server' = [server EXCEPT ![AddrOf(n)] = "closed"]
  BY DEF Ping, Wake, PingDies, Sleep, StopPing
<1>7. /\ server'[AddrOf(n)] \in {"serving", "closed"}
      /\ \A b \in Addrs : b # AddrOf(n) => server'[b] = server[b]
  BY <1>3, <1>6 DEF ServeInv
<1>8. Owners' /\ DOMAIN stations \subseteq Addrs /\ stations' = stations
  BY <1>1, OwnersStay DEF CleanInv, Owners, parser
<1>9. Launched'
  <2>1. OutstationsStarted => OutstationsStarted'
    BY <1>3, <1>7, <1>8 DEF OutstationsStarted
  <2>2. QED
    BY <1>1, <2>1 DEF CleanInv, Launched, parser, polling
<1>10. Released'
  <2>1. ASSUME pingPc'[n] = "ended"
        PROVE  \A p \in up' : p[1] # stations[AddrOf(n)].vnic
    <3>1. StopPing(n)
      BY <1>3, <2>1 DEF Ping, Wake, PingDies, Sleep, ServeInv
    <3>2. QED
      BY <3>1 DEF StopPing, Down
  <2>2. QED
    BY <1>1, <1>2, <1>5, <1>8, <2>1 DEF CleanInv, Released, polling, parser
<1>11. Pinged'
  <2>1. ASSUME NEW b \in DOMAIN stations, server'[b] \in {"serving", "closed"}, NEW k \in stations[b].names
        PROVE  pingPc'[k] # "none"
    <3>1. server[b] \in {"serving", "closed"}
      BY <1>3, <1>7, <1>8, <2>1
    <3>2. pingPc[k] # "none"
      BY <2>1, <3>1 DEF CleanInv, Pinged
    <3>3. QED
      BY <1>3, <1>4, <3>2 DEF ServeInv
  <2>2. ASSUME NEW k \in Names, pingPc'[k] # "none"
        PROVE  server'[AddrOf(k)] \in {"serving", "closed"}
    <3>1. pingPc[k] # "none"
      BY <1>3, <1>5, <2>2
    <3>2. server[AddrOf(k)] \in {"serving", "closed"} /\ AddrOf(k) \in Addrs
      BY <1>3, <1>8, <3>1 DEF CleanInv, Pinged, ServeInv
    <3>3. QED
      BY <1>7, <3>2
  <2>3. QED
    BY <1>2, <1>8, <2>1, <2>2 DEF Pinged
<1>12. Naps'
  <2>1. nap' = nap \/ (Sleep(n) /\ nap' = [nap EXCEPT ![n] = 1])
    BY DEF Ping, Wake, PingDies, Sleep, StopPing
  <2>2. ASSUME pingPc'[n] = "asleep"
        PROVE  nap'[n] + Grace - grace' <= 1
    <3>1. ~Stop /\ nap' = [nap EXCEPT ![n] = 1]
      BY <1>3, <2>2 DEF Ping, Wake, PingDies, Sleep, StopPing, ServeInv
    <3>2. nap'[n] = 1 /\ grace' = Grace /\ Grace \in Nat
      BY <1>1, <1>3, <3>1, GraceAssumption DEF ServeInv, CleanInv, Launched, Alive, Stop
    <3>3. QED
      BY <3>2
  <2>3. \A k \in Names : k # n => nap'[k] = nap[k]
    BY <1>3, <2>1 DEF ServeInv
  <2>4. QED
    BY <1>1, <1>5, <2>2, <2>3 DEF CleanInv, Naps, Begun, Freq, polling, parser
<1>13. QED
  BY <1>8, <1>9, <1>10, <1>11, <1>12 DEF CleanInv

LEMMA TickClean ==
  ASSUME IInv, CleanInv, Tick
  PROVE  CleanInv'
<1>1. /\ UNCHANGED <<parser, phase, up, pollPc, left, due, since, server, pingPc>>
      /\ grace' = IF Stop THEN grace - 1 ELSE grace
      /\ Stop => grace > 0
  BY DEF Tick
<1>2. \A n : AddrOf(n)' = AddrOf(n)
  BY <1>1 DEF parser, AddrOf
<1>3. grace \in Nat /\ Grace \in Nat
  BY GraceAssumption DEF IInv, ThreadInv
<1>4. /\ Alive /\ (phase # "stopping" => grace' = Grace /\ grace = Grace)
  BY <1>1 DEF Tick, Alive, Stop, CleanInv, Launched
<1>5. Launched'
  BY <1>1, <1>4 DEF CleanInv, Launched, OutstationsStarted, parser
<1>6. Owners' /\ Released' /\ Pinged'
  BY <1>1, <1>2, <1>4 DEF Alive, CleanInv, Owners, Released, Pinged, parser
<1>7. ASSUME NEW m \in MasterIds, pollPc'[m] = "asleep"
      PROVE  Begun(m)'
  <2>1. timer[m] \in Nat /\ timer'[m] = timer[m] - 1 /\ Begun(m)
    BY <1>1, <1>7 DEF Tick, IInv, ThreadInv, PollingInv, PollTypes, CleanInv, Naps
  <2>2. timer'[m] + Grace - grace' <= timer[m] + Grace - grace
    BY <1>1, <1>3, <2>1
  <2>3. timer'[m] + Grace - grace' \in Int /\ timer[m] + Grace - grace \in Int
    BY <1>1, <1>3, <2>1
  <2>4. CASE left[m] = <<>>
    BY <1>1, <2>1, <2>2, <2>3, <2>4 DEF Begun
  <2>5. CASE left[m] # <<>>
    <3>1. \A t \in DOMAIN left[m] : Freq(m)[t] \in Nat
      <4>1. PollInv(m) /\ ParserInv
        BY <1>1, <1>7 DEF IInv, ThreadInv, PollingInv
      <4>2. QED
        BY <4>1, FreqFacts DEF PollInv
    <3>2. Freq(m)' = Freq(m)
      BY <1>1 DEF parser, Freq
    <3>3. \A t \in DOMAIN left[m] : timer[m] + Grace - grace <= Freq(m)[t]
      BY <2>1, <2>5 DEF Begun
    <3>4. \A t \in DOMAIN left[m] : timer'[m] + Grace - grace' <= Freq(m)[t]
      BY <2>2, <2>3, <3>1, <3>3
    <3>5. QED
      BY <1>1, <2>5, <3>2, <3>4 DEF Begun
  <2>6. QED
    BY <2>4, <2>5
<1>8. ASSUME NEW n \in Names, pingPc'[n] = "asleep"
      PROVE  nap'[n] + Grace - grace' <= 1
  <2>1. nap[n] \in Nat /\ nap'[n] = nap[n] - 1 /\ nap[n] + Grace - grace <= 1
    BY <1>1, <1>8 DEF Tick, IInv, ThreadInv, ServeInv, CleanInv, Naps
  <2>2. QED
    BY <1>1, <1>3, <2>1
<1>9. QED
  BY <1>5, <1>6, <1>7, <1>8 DEF CleanInv, Naps

\* main's own steps leave the threads alone.
LEMMA MainClean ==
  ASSUME IInv, CleanInv, Started \/ InterruptEarly \/ Interrupt \/ Exit
  PROVE  CleanInv'
<1>1. UNCHANGED <<parser, up, polling, pinging>>
  BY DEF Started, InterruptEarly, Interrupt, Exit
<1>2. \A n : AddrOf(n)' = AddrOf(n)
  BY <1>1 DEF parser, AddrOf
<1>3. Released' /\ Pinged'
  BY <1>1, <1>2 DEF CleanInv, Released, Pinged, parser, polling, pinging
<1>4. grace \in 0..Grace /\ Grace \in Nat /\ Grace > 1
  BY GraceAssumption DEF IInv, ThreadInv
<1>5. Launched' /\ Owners'
  <2>1. OutstationsStarted' <=> OutstationsStarted
    BY <1>1 DEF OutstationsStarted, parser, pinging
  <2>2. CASE Started
    BY <1>1, <2>1, <2>2 DEF Started, CleanInv, Launched, Owners, parser, polling
  <2>3. CASE InterruptEarly
    BY <1>1, <2>1, <2>3 DEF InterruptEarly, CleanInv, Launched, Owners, parser, polling
  <2>4. CASE Interrupt
    BY <1>1, <2>1, <2>4 DEF Interrupt, CleanInv, Launched, Owners, parser, polling
  <2>5. CASE Exit
    BY <1>1, <2>1, <2>5 DEF Exit, CleanInv, Launched, Owners, parser, polling
  <2>6. QED
    BY <2>2, <2>3, <2>4, <2>5
<1>6. Naps'
  <2>1. grace' = grace \/ grace' = Grace
    BY DEF Started, InterruptEarly, Interrupt, Exit
  <2>2. ASSUME NEW m \in MasterIds, pollPc[m] = "asleep"
        PROVE  Begun(m)'
    <3>1. Begun(m) /\ timer[m] \in Nat /\ Freq(m)' = Freq(m) /\ left' = left /\ timer' = timer
      BY <1>1, <2>2 DEF CleanInv, Naps, IInv, ThreadInv, PollingInv, PollTypes, parser, Freq, polling
    <3>2. \A t \in DOMAIN left[m] : Freq(m)[t] \in Nat
      <4>1. PollInv(m) /\ ParserInv
        BY <2>2 DEF IInv, ThreadInv, PollingInv
      <4>2. QED
        BY <4>1, FreqFacts DEF PollInv
    <3>3. timer[m] + Grace - grace' <= timer[m] + Grace - grace
      BY <1>4, <2>1, <3>1
    <3>4. timer[m] + Grace - grace' \in Int /\ timer[m] + Grace - grace \in Int
      BY <1>4, <2>1, <3>1
    <3>5. CASE left[m] = <<>>
      BY <3>1, <3>3, <3>4, <3>5 DEF Begun
    <3>6. CASE left[m] # <<>>
      <4>1. \A t \in DOMAIN left[m] : timer[m] + Grace - grace' <= Freq(m)[t]
        BY <3>1, <3>2, <3>3, <3>4, <3>6 DEF Begun
      <4>2. QED
        BY <3>1, <3>6, <4>1 DEF Begun
    <3>7. QED
      BY <3>5, <3>6
  <2>3. ASSUME NEW n \in Names, pingPc[n] = "asleep"
        PROVE  nap[n] + Grace - grace' <= 1
    <3>1. nap[n] \in 0..1 /\ nap[n] + Grace - grace <= 1
      BY <2>3 DEF CleanInv, Naps, IInv, ThreadInv, ServeInv
    <3>2. QED
      BY <1>4, <2>1, <3>1
  <2>4. QED
    BY <1>1, <2>2, <2>3 DEF Naps, polling, pinging
<1>7. QED
  BY <1>3, <1>5, <1>6 DEF CleanInv

\* Seven seconds after SIGINT nothing is up but what the property names: any
\* thread that was asleep has woken, and has ended.
THEOREM CleanAfterGrace == Spec => []CleanWithinGrace
<1>1. Init => CleanInv
  BY DEF Init, ParserInit, CleanInv, Launched, Owners, Released, Pinged, Naps
<1>2. IInv /\ IInv' /\ CleanInv /\ [Next]_vars => CleanInv'
  <2> SUFFICES ASSUME IInv, IInv', CleanInv, [Next]_vars
               PROVE  CleanInv'
    OBVIOUS
  <2>1. CASE ReadConfig
    BY <2>1, ReadingClean
  <2>2. CASE Started \/ InterruptEarly \/ Interrupt \/ Exit
    BY <2>2, MainClean
  <2>3. CASE Threads
    <3>1. ASSUME NEW m \in MasterIds, StartMaster(m)
          PROVE  CleanInv'
      BY <3>1, MasterStartClean
    <3>2. ASSUME NEW m \in MasterIds, MasterStation(m), Alive
          PROVE  CleanInv'
      BY <3>2, MasterClean
    <3>3. ASSUME NEW a \in Addrs, StartOutstation(a) \/ Serve(a) \/ BindFails(a)
          PROVE  CleanInv'
      BY <3>3, StationClean
    <3>4. ASSUME NEW n \in Names, Ping(n), Alive
          PROVE  CleanInv'
      BY <3>4, PingClean
    <3>5. QED
      BY <2>3, <3>1, <3>2, <3>3, <3>4 DEF Threads
  <2>4. CASE Tick
    BY <2>4, TickClean
  <2>5. CASE Exited \/ UNCHANGED vars
    <3>1. UNCHANGED vars
      BY <2>5 DEF Exited
    <3>2. \A n : AddrOf(n)' = AddrOf(n)
      BY <3>1 DEF vars, parser, AddrOf
    <3>3. QED
      BY <3>1, <3>2 DEF vars, parser, polling, pinging, CleanInv, Launched, OutstationsStarted,
                        Owners, Released, Pinged, Naps, Begun, Freq
  <2>6. QED
    BY <2>1, <2>2, <2>3, <2>4, <2>5 DEF Next
<1>3. IInv /\ CleanInv => CleanWithinGrace
  <2> SUFFICES ASSUME IInv, CleanInv, phase = "exited", grace = 0, NEW p \in up
               PROVE  \/ \E m \in DOMAIN masters : masters[m].vnic = p[1] /\ MasterStuck(m)
                      \/ \E a \in DOMAIN stations : stations[a].vnic = p[1] /\ StationStuck(a)
    BY DEF CleanWithinGrace
  <2>1. grace # Grace /\ Grace \in Nat /\ Grace > 1
    BY GraceAssumption
  <2>2. \/ \E m \in DOMAIN masters : masters[m].vnic = p[1]
        \/ \E a \in DOMAIN stations : stations[a].vnic = p[1]
    BY <2>1 DEF CleanInv, Owners
  <2>3. ASSUME NEW m \in DOMAIN masters, masters[m].vnic = p[1]
        PROVE  MasterStuck(m)
    <3> SUFFICES ASSUME config.masters[m].simulate
                 PROVE  MasterStuck(m)
      BY DEF MasterStuck
    <3>1. m \in MasterIds
      BY FreqFacts, FileFacts DEF IInv, ParserInv
    <3>2. pollPc[m] \in {"connecting", "asleep", "polling"}
      <4>1. pollPc[m] # "none"
        BY <2>1 DEF CleanInv, Launched
      <4>2. pollPc[m] # "ended"
        BY <2>3, <3>1 DEF CleanInv, Released
      <4>3. QED
        BY <3>1, <4>1, <4>2 DEF IInv, ThreadInv, PollingInv, PollTypes
    <3>3. CASE pollPc[m] = "asleep"
      <4>1. Begun(m) /\ timer[m] \in Nat
        BY <3>1, <3>3 DEF CleanInv, Naps, IInv, ThreadInv, PollingInv, PollTypes
      <4>2. left[m] # <<>>
        BY <2>1, <4>1 DEF Begun
      <4>3. \A t \in DOMAIN left[m] : Freq(m)[t] \in Nat
        <5>1. PollInv(m) /\ ParserInv
          BY <3>1, <3>3 DEF IInv, ThreadInv, PollingInv
        <5>2. QED
          BY <5>1, FreqFacts DEF PollInv
      <4>4. \A t \in DOMAIN left[m] : Freq(m)[t] >= Grace
        BY <2>1, <4>1, <4>2, <4>3 DEF Begun
      <4>5. QED
        BY <3>3, <4>2, <4>4 DEF MasterStuck
    <3>4. QED
      BY <3>2, <3>3 DEF MasterStuck
  <2>4. ASSUME NEW a \in DOMAIN stations, stations[a].vnic = p[1]
        PROVE  StationStuck(a)
    <3> SUFFICES ASSUME stations[a].simulate, server[a] \notin {"starting", "failed"},
                        NEW n \in stations[a].names
                 PROVE  pingPc[n] \in {"busy", "dead"}
      BY DEF StationStuck
    <3>1. a \in Addrs /\ n \in Names /\ AddrOf(n) = a
      <4>1. stations[a].names = Group(a) /\ gathered \subseteq Names
        BY FileFacts DEF IInv, ParserInv, StationInv, GivenInv
      <4>2. QED
        BY <4>1 DEF CleanInv, Owners, Group
    <3>2. server[a] \in {"serving", "closed"}
      <4>1. server[a] # "none"
        BY <2>1 DEF CleanInv, Launched, OutstationsStarted
      <4>2. QED
        BY <3>1, <4>1 DEF IInv, ThreadInv, ServeInv
    <3>3. pingPc[n] # "none" /\ pingPc[n] # "ended"
      BY <2>4, <3>1, <3>2 DEF CleanInv, Pinged, Released
    <3>4. pingPc[n] # "asleep"
      <4>1. pingPc[n] = "asleep" => nap[n] + Grace - grace <= 1 /\ nap[n] \in 0..1
        BY <3>1 DEF CleanInv, Naps, IInv, ThreadInv, ServeInv
      <4>2. QED
        BY <2>1, <4>1
    <3>5. QED
      BY <3>1, <3>3, <3>4 DEF IInv, ThreadInv, ServeInv
  <2>5. QED
    BY <2>2, <2>3, <2>4
<1>4. QED
  BY <1>1, <1>2, <1>3, Invariance, PTL DEF Spec
===============================================================================
