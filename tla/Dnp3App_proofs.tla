---------------------------- MODULE Dnp3App_proofs ----------------------------
(***************************************************************************)
(* Proofs about Dnp3App, for every set of configuration files, every width *)
(* of octets and DNP3 addresses, and any number of starts and kills.       *)
(***************************************************************************)
EXTENDS Dnp3App, FiniteSetTheorems, SequenceTheorems, WellFoundedInduction, TLAPS

-------------------------------------------------------------------------------
(* The count through a CIDR block *)

LEMMA Sizes == OctetSize \in Nat /\ OctetSize >= 4 /\ MaxOctet = OctetSize - 2
  BY BitsAssumption DEF OctetSize, Power, MaxOctet

LEMMA CarriedIs ==
  ASSUME NEW a \in Addresses
  PROVE  /\ Carried(a, 4)
         /\ Carried(a, 3) <=> a[4] >= MaxOctet
         /\ Carried(a, 2) <=> a[4] >= MaxOctet /\ a[3] >= MaxOctet
         /\ Carried(a, 1) <=> a[4] >= MaxOctet /\ a[3] >= MaxOctet /\ a[2] >= MaxOctet
<1> DEFINE C(j) == a[j] >= MaxOctet
<1>1. 5..4 = {} /\ 4..4 = {4} /\ 3..4 = {3, 4} /\ 2..4 = {2, 3, 4}
  OBVIOUS
<1>2. \A i \in 1..4 : Carried(a, i) <=> \A j \in (i + 1)..4 : C(j)
  BY DEF Carried
<1>3. 1 + 1 = 2 /\ 2 + 1 = 3 /\ 3 + 1 = 4 /\ 4 + 1 = 5 /\ 1..4 = {1, 2, 3, 4}
  OBVIOUS
<1> HIDE DEF C
<1>4. QED
  <2>1. Carried(a, 4)
    BY <1>1, <1>2, <1>3
  <2>2. Carried(a, 3) <=> C(4)
    BY <1>1, <1>2, <1>3
  <2>3. Carried(a, 2) <=> C(4) /\ C(3)
    BY <1>1, <1>2, <1>3
  <2>4. Carried(a, 1) <=> C(4) /\ C(3) /\ C(2)
    BY <1>1, <1>2, <1>3
  <2>5. QED
    BY <2>1, <2>2, <2>3, <2>4 DEF C

\* GetNextIpAddress, octet by octet, as its nested ifs compute it.
LEMMA NextOctets ==
  ASSUME NEW a \in Addresses, NEW b, b = GetNextIpAddress(a)
  PROVE  /\ b[4] = IF a[4] < MaxOctet THEN a[4] + 1 ELSE 1
         /\ b[3] = IF a[4] < MaxOctet THEN a[3] ELSE IF a[3] < MaxOctet THEN a[3] + 1 ELSE 0
         /\ b[2] = IF a[4] < MaxOctet \/ a[3] < MaxOctet THEN a[2]
                   ELSE IF a[2] < MaxOctet THEN a[2] + 1 ELSE 0
         /\ b[1] = IF a[4] < MaxOctet \/ a[3] < MaxOctet \/ a[2] < MaxOctet THEN a[1]
                   ELSE IF a[1] < MaxOctet THEN a[1] + 1 ELSE a[1]
         /\ b \in Addresses
<1> USE Sizes
<1>1. /\ a[1] \in 0..(OctetSize - 1) /\ a[2] \in 0..(OctetSize - 1)
      /\ a[3] \in 0..(OctetSize - 1) /\ a[4] \in 0..(OctetSize - 1)
  BY DEF Addresses
<1>2. \A i \in 1..4 : b[i] = IF ~Carried(a, i) THEN a[i]
                             ELSE IF a[i] < MaxOctet THEN a[i] + 1
                             ELSE Restart(a, i)
  BY DEF GetNextIpAddress
<1>3. b[4] = IF a[4] < MaxOctet THEN a[4] + 1 ELSE 1
  BY <1>1, <1>2, CarriedIs DEF Restart
<1>4. b[3] = IF a[4] < MaxOctet THEN a[3] ELSE IF a[3] < MaxOctet THEN a[3] + 1 ELSE 0
  BY <1>1, <1>2, CarriedIs DEF Restart
<1>5. b[2] = IF a[4] < MaxOctet \/ a[3] < MaxOctet THEN a[2]
             ELSE IF a[2] < MaxOctet THEN a[2] + 1 ELSE 0
  BY <1>1, <1>2, CarriedIs DEF Restart
<1>6. b[1] = IF a[4] < MaxOctet \/ a[3] < MaxOctet \/ a[2] < MaxOctet THEN a[1]
             ELSE IF a[1] < MaxOctet THEN a[1] + 1 ELSE a[1]
  BY <1>1, <1>2, CarriedIs DEF Restart
<1>7. b \in Addresses
  <2>1. b[1] \in 0..(OctetSize - 1) /\ b[2] \in 0..(OctetSize - 1)
    BY <1>1, <1>5, <1>6
  <2>2. b[3] \in 0..(OctetSize - 1) /\ b[4] \in 0..(OctetSize - 1)
    BY <1>1, <1>3, <1>4
  <2>3. b = [i \in 1..4 |-> b[i]]
    BY DEF GetNextIpAddress
  <2>4. \A i \in 1..4 : i = 1 \/ i = 2 \/ i = 3 \/ i = 4
    OBVIOUS
  <2>5. QED
    BY <2>1, <2>2, <2>3, <2>4 DEF Addresses
<1>8. QED
  BY <1>3, <1>4, <1>5, <1>6, <1>7

\* The order, octet by octet.
LEMMA BeforeIs ==
  ASSUME NEW a \in Addresses, NEW b \in Addresses
  PROVE  Before(a, b) <=> \/ a[1] < b[1]
                          \/ a[1] = b[1] /\ a[2] < b[2]
                          \/ a[1] = b[1] /\ a[2] = b[2] /\ a[3] < b[3]
                          \/ a[1] = b[1] /\ a[2] = b[2] /\ a[3] = b[3] /\ a[4] < b[4]
<1> DEFINE L(i) == a[i] < b[i]
           E(i) == a[i] = b[i]
<1>1. 1..4 = {1, 2, 3, 4} /\ 1..(1 - 1) = {} /\ 1..(2 - 1) = {1} /\ 1..(3 - 1) = {1, 2}
      /\ 1..(4 - 1) = {1, 2, 3}
  OBVIOUS
<1>2. Before(a, b) <=> \E i \in 1..4 : L(i) /\ \A j \in 1..(i - 1) : E(j)
  BY DEF Before
<1> HIDE DEF L, E
<1>3. Before(a, b) <=> \/ L(1)
                       \/ L(2) /\ \A j \in 1..(2 - 1) : E(j)
                       \/ L(3) /\ \A j \in 1..(3 - 1) : E(j)
                       \/ L(4) /\ \A j \in 1..(4 - 1) : E(j)
  BY <1>1, <1>2
<1>4. QED
  BY <1>1, <1>3 DEF L, E

LEMMA Octets ==
  ASSUME NEW a \in Addresses
  PROVE  /\ a[1] \in Nat /\ a[2] \in Nat /\ a[3] \in Nat /\ a[4] \in Nat
         /\ a[1] < OctetSize /\ a[2] < OctetSize /\ a[3] < OctetSize /\ a[4] < OctetSize
  BY Sizes DEF Addresses

LEMMA BeforeOrder ==
  ASSUME NEW a \in Addresses, NEW b \in Addresses, NEW c \in Addresses
  PROVE  /\ ~Before(a, a)
         /\ Before(a, b) /\ Before(b, c) => Before(a, c)
<1>1. ~Before(a, a)
  BY BeforeIs, Octets
<1>2. ASSUME Before(a, b), Before(b, c)
      PROVE  Before(a, c)
  BY <1>2, BeforeIs, Octets
<1>3. QED
  BY <1>1, <1>2

LEMMA TopIs ==
  ASSUME NEW a \in Addresses
  PROVE  Top(a) <=> /\ a[1] >= MaxOctet /\ a[2] >= MaxOctet
                    /\ a[3] >= MaxOctet /\ a[4] >= MaxOctet
<1>1. 1..4 = {1, 2, 3, 4}
  OBVIOUS
<1>2. QED
  BY <1>1, Zenon DEF Top

\* Each address comes after the one before, until the count is at its end.
THEOREM NextIncreases ==
  ASSUME NEW a \in Addresses, ~Top(a)
  PROVE  Before(a, GetNextIpAddress(a))
<1> DEFINE b == GetNextIpAddress(a)
<1>1. b \in Addresses
  BY NextOctets
<1>2. \/ a[1] < MaxOctet \/ a[2] < MaxOctet \/ a[3] < MaxOctet \/ a[4] < MaxOctet
  BY TopIs, Octets, Sizes
<1> HIDE DEF b
<1>3. QED
  BY <1>1, <1>2, BeforeIs, Octets, Sizes, NextOctets DEF b

-------------------------------------------------------------------------------

LEMMA PowerIs ==
  ASSUME NEW n \in 0..Bits
  PROVE  /\ Power[n + 1] \in {1, 2, 4, 8, 16, 32, 64, 128, 256}
         /\ Power[n + 1] <= OctetSize
         /\ n = 0 => Power[n + 1] = 1
         /\ n = Bits => Power[n + 1] = OctetSize
<1>1. Bits \in {2, 3, 4, 5, 6, 7, 8}
  BY BitsAssumption
<1>2. n \in {0, 1, 2, 3, 4, 5, 6, 7, 8} /\ n <= Bits
  BY <1>1
<1>3. QED
  BY <1>1, <1>2 DEF Power, OctetSize

\* How much of an octet a block leaves free: nothing of those before the mask's
\* end, all of those behind it.
LEMMA HostSizes ==
  ASSUME NEW prefix \in Prefixes, NEW i \in 1..4
  PROVE  /\ HostSize(prefix, i) \in {1, 2, 4, 8, 16, 32, 64, 128, 256}
         /\ HostSize(prefix, i) <= OctetSize
         /\ \A k \in (i + 1)..4 : HostSize(prefix, i) > 1 => HostSize(prefix, k) = OctetSize
<1> DEFINE free(j) == j * Bits - prefix
           n(j) == IF free(j) < 0 THEN 0 ELSE IF free(j) > Bits THEN Bits ELSE free(j)
<1>1. Bits \in Nat /\ Bits >= 2 /\ prefix \in Nat
  BY BitsAssumption DEF Prefixes
<1>2. \A j \in 1..4 : n(j) \in 0..Bits /\ HostSize(prefix, j) = Power[n(j) + 1]
  <2>1. ASSUME NEW j \in 1..4
        PROVE  n(j) \in 0..Bits /\ HostSize(prefix, j) = Power[n(j) + 1]
    <3>1. free(j) \in Int
      BY <1>1
    <3>2. n(j) \in 0..Bits
      BY <1>1, <3>1
    <3>3. HostSize(prefix, j) = Power[1 + n(j)]
      BY DEF HostSize
    <3>4. 1 + n(j) = n(j) + 1
      BY <3>2
    <3>5. QED
      BY <3>2, <3>3, <3>4
  <2>2. QED
    BY <2>1
<1>3. ASSUME NEW k \in (i + 1)..4, HostSize(prefix, i) > 1
      PROVE  HostSize(prefix, k) = OctetSize
  <2>1. n(i) # 0
    <3> HIDE DEF n
    <3>1. HostSize(prefix, i) = Power[n(i) + 1] /\ n(i) \in 0..Bits
      BY <1>2
    <3>2. QED
      BY <3>1, <1>3, PowerIs
  <2>2. free(i) > 0
    BY <2>1, <1>1
  <2>3. k * Bits >= i * Bits + Bits
    <3>1. \/ i = 1 /\ k \in {2, 3, 4}
          \/ i = 2 /\ k \in {3, 4}
          \/ i = 3 /\ k = 4
      OBVIOUS
    <3>2. QED
      BY <3>1, <1>1
  <2>4. n(k) = Bits
    BY <2>2, <2>3, <1>1
  <2>5. k \in 1..4
    OBVIOUS
  <2> HIDE DEF n
  <2>6. QED
    BY <1>2, <2>4, <2>5, PowerIs
<1> HIDE DEF n
<1>4. QED
  BY <1>2, <1>3, PowerIs

LEMMA NetworkOctets ==
  ASSUME NEW a \in Addresses, NEW prefix \in Prefixes, NEW net, net = NetworkAddr(a, prefix)
  PROVE  /\ net \in Addresses
         /\ InBlock(net, net, prefix)
         /\ \A i \in 1..4 : HostSize(prefix, i) = OctetSize => net[i] = 0
<1>1. ASSUME NEW i \in 1..4
      PROVE  /\ net[i] \in 0..(OctetSize - 1)
             /\ net[i] \in net[i]..(net[i] + HostSize(prefix, i) - 1)
             /\ HostSize(prefix, i) = OctetSize => net[i] = 0
  <2> DEFINE h == HostSize(prefix, i)
  <2>1. h \in {1, 2, 4, 8, 16, 32, 64, 128, 256}
    BY HostSizes
  <2>2. a[i] \in 0..(OctetSize - 1)
    BY DEF Addresses
  <2>3. net[i] = a[i] - (a[i] % h)
    BY DEF NetworkAddr
  <2> HIDE DEF h
  <2>4. a[i] % h \in 0..a[i] /\ (a[i] < h => a[i] % h = a[i])
    BY <2>1, <2>2, Sizes
  <2>5. net[i] \in 0..(OctetSize - 1) /\ (h = OctetSize => net[i] = 0)
    BY <2>2, <2>3, <2>4, Sizes
  <2>6. QED
    BY <2>1, <2>5, Sizes DEF h
<1>2. net \in Addresses
  BY <1>1 DEF NetworkAddr, Addresses
<1>3. QED
  BY <1>1, <1>2 DEF InBlock

\* Behind the first octet that can vary, a block has all values.
LEMMA BlockShape ==
  ASSUME NEW a \in Addresses, NEW prefix \in Prefixes, NEW net, net = NetworkAddr(a, prefix),
         NEW b \in Addresses, NEW c \in Addresses, InBlock(b, net, prefix), InBlock(c, net, prefix),
         NEW i \in 1..4, b[i] < c[i]
  PROVE  /\ \A x \in b[i]..c[i] : x \in net[i]..(net[i] + HostSize(prefix, i) - 1)
         /\ \A k \in (i + 1)..4 :
               \A x \in 0..(OctetSize - 1) : x \in net[k]..(net[k] + HostSize(prefix, k) - 1)
<1>1. /\ b[i] \in net[i]..(net[i] + HostSize(prefix, i) - 1)
      /\ c[i] \in net[i]..(net[i] + HostSize(prefix, i) - 1)
  BY DEF InBlock
<1>2. net[i] \in Nat /\ HostSize(prefix, i) \in Nat /\ b[i] \in Nat /\ c[i] \in Nat
  BY NetworkOctets, HostSizes DEF Addresses
<1>3. HostSize(prefix, i) > 1
  BY <1>1, <1>2
<1>4. \A k \in (i + 1)..4 : k \in 1..4 /\ HostSize(prefix, k) = OctetSize
  BY <1>3, HostSizes
<1>5. \A k \in (i + 1)..4 : net[k] = 0 /\ net[k] + HostSize(prefix, k) - 1 = OctetSize - 1
  BY <1>4, NetworkOctets, Sizes
<1>6. QED
  BY <1>1, <1>2, <1>5, Sizes

LEMMA BlockIs ==
  ASSUME NEW net, NEW prefix, NEW a
  PROVE  InBlock(a, net, prefix) <=>
           /\ a[1] \in net[1]..(net[1] + HostSize(prefix, 1) - 1)
           /\ a[2] \in net[2]..(net[2] + HostSize(prefix, 2) - 1)
           /\ a[3] \in net[3]..(net[3] + HostSize(prefix, 3) - 1)
           /\ a[4] \in net[4]..(net[4] + HostSize(prefix, 4) - 1)
<1> DEFINE I(i) == a[i] \in net[i]..(net[i] + HostSize(prefix, i) - 1)
<1>1. 1..4 = {1, 2, 3, 4}
  OBVIOUS
<1>2. InBlock(a, net, prefix) <=> \A i \in 1..4 : I(i)
  BY DEF InBlock
<1> HIDE DEF I
<1>3. InBlock(a, net, prefix) <=> I(1) /\ I(2) /\ I(3) /\ I(4)
  BY <1>1, <1>2
<1>4. QED
  BY <1>3 DEF I

\* As long as an address of the block that can be used lies ahead, the next
\* address is in the block too, and not behind it.
THEOREM NextStaysInBlock ==
  ASSUME NEW addr \in Addresses, NEW prefix \in Prefixes, NEW net, net = NetworkAddr(addr, prefix),
         NEW a \in Addresses, InBlock(a, net, prefix),
         NEW s \in Addresses, Safe(s), InBlock(s, net, prefix), Before(a, s)
  PROVE  /\ InBlock(GetNextIpAddress(a), net, prefix)
         /\ GetNextIpAddress(a) = s \/ Before(GetNextIpAddress(a), s)
<1> DEFINE b == GetNextIpAddress(a)
           R(x, i) == x \in net[i]..(net[i] + HostSize(prefix, i) - 1)
<1>1. b \in Addresses
  BY NextOctets
<1>2. /\ b[4] = IF a[4] < MaxOctet THEN a[4] + 1 ELSE 1
      /\ b[3] = IF a[4] < MaxOctet THEN a[3] ELSE IF a[3] < MaxOctet THEN a[3] + 1 ELSE 0
      /\ b[2] = IF a[4] < MaxOctet \/ a[3] < MaxOctet THEN a[2]
                ELSE IF a[2] < MaxOctet THEN a[2] + 1 ELSE 0
      /\ b[1] = IF a[4] < MaxOctet \/ a[3] < MaxOctet \/ a[2] < MaxOctet THEN a[1]
                ELSE IF a[1] < MaxOctet THEN a[1] + 1 ELSE a[1]
  BY NextOctets
<1>3. /\ R(a[1], 1) /\ R(a[2], 2) /\ R(a[3], 3) /\ R(a[4], 4)
      /\ R(s[1], 1) /\ R(s[2], 2) /\ R(s[3], 3) /\ R(s[4], 4)
  BY BlockIs
<1>4. /\ s[4] # 0
      /\ s[1] <= MaxOctet /\ s[2] <= MaxOctet /\ s[3] <= MaxOctet /\ s[4] <= MaxOctet
  BY DEF Safe
<1>5. /\ b[1] < OctetSize /\ b[2] < OctetSize /\ b[3] < OctetSize /\ b[4] < OctetSize
      /\ b[1] \in Nat /\ b[2] \in Nat /\ b[3] \in Nat /\ b[4] \in Nat
      /\ a[1] \in Nat /\ a[2] \in Nat /\ a[3] \in Nat /\ a[4] \in Nat
      /\ s[1] \in Nat /\ s[2] \in Nat /\ s[3] \in Nat /\ s[4] \in Nat
  BY <1>1, Octets
<1>6. InBlock(b, net, prefix) <=> R(b[1], 1) /\ R(b[2], 2) /\ R(b[3], 3) /\ R(b[4], 4)
  BY BlockIs
<1>7. \A i \in 1..4 : a[i] < s[i] =>
         /\ \A x \in a[i]..s[i] : R(x, i)
         /\ \A k \in (i + 1)..4 : \A x \in 0..(OctetSize - 1) : R(x, k)
  BY BlockShape
<1>8. b = s <=> b[1] = s[1] /\ b[2] = s[2] /\ b[3] = s[3] /\ b[4] = s[4]
  <2>1. b = [i \in 1..4 |-> b[i]] /\ s = [i \in 1..4 |-> s[i]]
    BY <1>1 DEF Addresses
  <2>2. 1..4 = {1, 2, 3, 4}
    OBVIOUS
  <2> HIDE DEF b
  <2>3. QED
    BY <2>1, <2>2
<1>9. Before(b, s) <=> \/ b[1] < s[1]
                       \/ b[1] = s[1] /\ b[2] < s[2]
                       \/ b[1] = s[1] /\ b[2] = s[2] /\ b[3] < s[3]
                       \/ b[1] = s[1] /\ b[2] = s[2] /\ b[3] = s[3] /\ b[4] < s[4]
  BY <1>1, BeforeIs
<1> HIDE DEF b, R
<1>10. CASE a[1] < s[1]
  <2>1. /\ \A x \in a[1]..s[1] : R(x, 1)
        /\ \A x \in 0..(OctetSize - 1) : R(x, 2) /\ R(x, 3) /\ R(x, 4)
    BY <1>10, <1>7
  <2>2. b[1] \in a[1]..s[1]
    BY <1>2, <1>4, <1>5, <1>10, Sizes
  <2>3. InBlock(b, net, prefix)
    BY <2>1, <2>2, <1>5, <1>6, Sizes
  <2>4. b = s \/ Before(b, s)
    BY <1>2, <1>4, <1>5, <1>8, <1>9, <1>10, Sizes
  <2>5. QED
    BY <2>3, <2>4 DEF b
<1>11. CASE a[1] = s[1] /\ a[2] < s[2]
  <2>1. /\ \A x \in a[2]..s[2] : R(x, 2)
        /\ \A x \in 0..(OctetSize - 1) : R(x, 3) /\ R(x, 4)
    BY <1>11, <1>7
  <2>2. b[2] \in a[2]..s[2] /\ b[1] = a[1]
    BY <1>2, <1>4, <1>5, <1>11, Sizes
  <2>3. InBlock(b, net, prefix)
    BY <2>1, <2>2, <1>3, <1>5, <1>6, Sizes
  <2>4. b = s \/ Before(b, s)
    BY <1>2, <1>4, <1>5, <1>8, <1>9, <1>11, Sizes
  <2>5. QED
    BY <2>3, <2>4 DEF b
<1>12. CASE a[1] = s[1] /\ a[2] = s[2] /\ a[3] < s[3]
  <2>1. /\ \A x \in a[3]..s[3] : R(x, 3)
        /\ \A x \in 0..(OctetSize - 1) : R(x, 4)
    BY <1>12, <1>7
  <2>2. b[3] \in a[3]..s[3] /\ b[1] = a[1] /\ b[2] = a[2]
    BY <1>2, <1>4, <1>5, <1>12, Sizes
  <2>3. InBlock(b, net, prefix)
    BY <2>1, <2>2, <1>3, <1>5, <1>6, Sizes
  <2>4. b = s \/ Before(b, s)
    BY <1>2, <1>4, <1>5, <1>8, <1>9, <1>12, Sizes
  <2>5. QED
    BY <2>3, <2>4 DEF b
<1>13. CASE a[1] = s[1] /\ a[2] = s[2] /\ a[3] = s[3] /\ a[4] < s[4]
  <2>1. \A x \in a[4]..s[4] : R(x, 4)
    BY <1>13, <1>7
  <2>2. b[4] \in a[4]..s[4] /\ b[1] = a[1] /\ b[2] = a[2] /\ b[3] = a[3]
    BY <1>2, <1>4, <1>5, <1>13, Sizes
  <2>3. InBlock(b, net, prefix)
    BY <2>1, <2>2, <1>3, <1>5, <1>6
  <2>4. b = s \/ Before(b, s)
    BY <1>2, <1>4, <1>5, <1>8, <1>9, <1>13, Sizes
  <2>5. QED
    BY <2>3, <2>4 DEF b
<1>14. QED
  BY <1>10, <1>11, <1>12, <1>13, BeforeIs

-------------------------------------------------------------------------------
(* Greatest elements, and sequences *)

LEMMA LeastElement ==
  ASSUME NEW S, S \subseteq Nat, S # {}
  PROVE  \E m \in S : \A x \in S : m <= x
<1> DEFINE R == OpToRel(<, Nat)
<1>1. PICK m \in S : \A x \in S : ~ (<<x, m>> \in R)
  BY NatLessThanWellFounded, WFMin
<1>2. R = {ss \in Nat \X Nat : ss[1] < ss[2]}
  BY Zenon DEF OpToRel
<1>3. ASSUME NEW x \in S
      PROVE  m <= x
  <2>1. x \in Nat /\ m \in Nat /\ <<x, m>> \in Nat \X Nat
    OBVIOUS
  <2>2. ~(<<x, m>>[1] < <<x, m>>[2])
    <3> HIDE DEF R
    <3> QED
      BY Zenon, <1>1, <1>2, <1>3, <2>1
  <2> HIDE DEF R
  <2> QED
    BY <2>1, <2>2
<1> HIDE DEF R
<1>4. QED
  BY <1>3

LEMMA GreatestElement ==
  ASSUME NEW N \in Nat, NEW S \in SUBSET (0..N), S # {}
  PROVE  /\ Max(S) \in S
         /\ \A x \in S : x <= Max(S)
<1> DEFINE T == {N - x : x \in S}
<1>1. T \subseteq Nat /\ T # {}
  OBVIOUS
<1> HIDE DEF T
<1>2. PICK m \in T : \A y \in T : m <= y
  BY <1>1, LeastElement
<1>3. PICK n \in S : m = N - n
  BY DEF T
<1>4. \A x \in S : N - x \in T /\ x \in 0..N
  BY DEF T
<1>5. \A x \in S : n >= x
  BY <1>2, <1>3, <1>4
<1>6. Max(S) \in S /\ \A x \in S : Max(S) >= x
  BY <1>5, Zenon DEF Max
<1>7. QED
  BY <1>4, <1>6

LEMMA AppendTwo ==
  ASSUME NEW T, NEW s \in Seq(T), NEW p \in Seq(T), Len(p) = 2
  PROVE  s \o p = Append(Append(s, p[1]), p[2])
<1> DEFINE m == p[1]
           o == p[2]
           c == Append(s, m)
<1>1. m \in T /\ o \in T
  <2>1. 1 \in 1..Len(p) /\ 2 \in 1..Len(p)
    OBVIOUS
  <2>2. QED
    BY <2>1, ElementOfSeq
<1> HIDE DEF m, o
<1>2. c \in Seq(T) /\ Len(c) = Len(s) + 1 /\ c[Len(s) + 1] = m /\ \A i \in 1..Len(s) : c[i] = s[i]
  BY <1>1
<1> HIDE DEF c
<1> DEFINE a == s \o p
           b == Append(c, o)
<1>3. /\ a \in Seq(T) /\ Len(a) = Len(s) + 2
      /\ a[Len(s) + 1] = m /\ a[Len(s) + 2] = o /\ \A i \in 1..Len(s) : a[i] = s[i]
  <2>1. Len(s) \in Nat
    OBVIOUS
  <2>2. /\ a \in Seq(T) /\ Len(a) = Len(s) + Len(p)
        /\ \A i \in 1..(Len(s) + Len(p)) : a[i] = IF i <= Len(s) THEN s[i] ELSE p[i - Len(s)]
    BY Zenon, ConcatProperties
  <2>3. /\ Len(s) + 1 \in 1..(Len(s) + Len(p)) /\ Len(s) + 2 \in 1..(Len(s) + Len(p))
        /\ ~(Len(s) + 1 <= Len(s)) /\ ~(Len(s) + 2 <= Len(s))
        /\ (Len(s) + 1) - Len(s) = 1 /\ (Len(s) + 2) - Len(s) = 2
    BY <2>1
  <2> HIDE DEF a
  <2>4. a[Len(s) + 1] = m /\ a[Len(s) + 2] = o
    BY <2>2, <2>3 DEF m, o
  <2>5. \A i \in 1..Len(s) : a[i] = s[i]
    BY <2>1, <2>2
  <2>6. QED
    BY <2>1, <2>2, <2>4, <2>5
<1>4. /\ b \in Seq(T) /\ Len(b) = Len(s) + 2
      /\ b[Len(s) + 1] = m /\ b[Len(s) + 2] = o /\ \A i \in 1..Len(s) : b[i] = s[i]
  <2>1. /\ b \in Seq(T) /\ Len(b) = Len(c) + 1 /\ b[Len(c) + 1] = o
        /\ \A i \in 1..Len(c) : b[i] = c[i]
    BY <1>1, <1>2, AppendProperties
  <2>2. Len(s) \in Nat /\ Len(c) = Len(s) + 1
    BY <1>2
  <2>3. Len(c) + 1 = Len(s) + 2 /\ Len(s) + 1 \in 1..Len(c) /\ \A i \in 1..Len(s) : i \in 1..Len(c)
    BY <2>2
  <2> HIDE DEF b
  <2>4. QED
    BY <1>2, <2>1, <2>3
<1>5. \A i \in 1..(Len(s) + 2) : i \in 1..Len(s) \/ i = Len(s) + 1 \/ i = Len(s) + 2
  OBVIOUS
<1> HIDE DEF a, b
<1>6. a = b
  <2>1. Len(a) = Len(b) /\ \A i \in 1..Len(a) : a[i] = b[i]
    BY <1>3, <1>4, <1>5
  <2>2. QED
    BY Zenon, <1>3, <1>4, <2>1, SeqEqual
<1>7. QED
  BY <1>6 DEF a, b, c, m, o

-------------------------------------------------------------------------------
(* Types *)

\* What getNextDNP3Address returns, as it is stored in 16 bits.
LEMMA NextDnp3 ==
  ASSUME NEW S \in SUBSET Dnp3Addrs
  PROVE  /\ getNextDNP3Address(S) \in 0..WordSize
         /\ getNextDNP3Address(S) % WordSize \in Dnp3Addrs
         /\ getNextDNP3Address(S) % WordSize \in S =>
              getNextDNP3Address(S) % WordSize = 0 /\ WordSize - 1 \in S
<1> DEFINE a == getNextDNP3Address(S)
<1>1. WordSize \in Nat /\ WordSize > 0 /\ FirstDnp3Addr \in 0..(WordSize - 1)
  BY WordAssumption
<1>2. CASE S = {}
  <2>1. a = FirstDnp3Addr
    BY <1>2 DEF getNextDNP3Address
  <2> HIDE DEF a
  <2>2. a % WordSize = a
    BY <1>1, <2>1
  <2>3. QED
    BY <1>1, <1>2, <2>1, <2>2 DEF Dnp3Addrs, a
<1>3. CASE S # {}
  <2>1. a = Max(S) + 1 /\ Max(S) \in S /\ \A x \in S : x <= Max(S)
    <3>1. S \in SUBSET (0..(WordSize - 1)) /\ WordSize - 1 \in Nat
      BY <1>1 DEF Dnp3Addrs
    <3>2. Max(S) \in S /\ \A x \in S : x <= Max(S)
      BY <1>3, <3>1, GreatestElement
    <3>3. QED
      BY <1>3, <3>2 DEF getNextDNP3Address
  <2>2. Max(S) \in 0..(WordSize - 1)
    BY <2>1 DEF Dnp3Addrs
  <2> HIDE DEF a
  <2>3. a % WordSize = IF Max(S) = WordSize - 1 THEN 0 ELSE a
    <3>1. CASE Max(S) = WordSize - 1
      <4>1. a = WordSize
        BY <1>1, <2>1, <3>1
      <4>2. QED
        BY <1>1, <3>1, <4>1
    <3>2. CASE Max(S) # WordSize - 1
      <4>1. a \in 0..(WordSize - 1)
        BY <1>1, <2>1, <2>2, <3>2
      <4>2. QED
        BY <1>1, <3>2, <4>1
    <3>3. QED
      BY <3>1, <3>2
  <2>4. \A x \in S : x \in 0..(WordSize - 1)
    BY DEF Dnp3Addrs
  <2>5. CASE Max(S) = WordSize - 1
    BY <1>1, <2>1, <2>2, <2>3, <2>5 DEF a, Dnp3Addrs
  <2>6. CASE Max(S) # WordSize - 1
    <3>1. a % WordSize = a /\ a \in 0..(WordSize - 1)
      BY <1>1, <2>1, <2>2, <2>3, <2>6
    <3>2. a \notin S
      BY <2>1, <2>2, <2>4
    <3>3. QED
      BY <1>1, <3>1, <3>2 DEF a, Dnp3Addrs
  <2>7. QED
    BY <2>5, <2>6
<1>4. QED
  BY <1>2, <1>3

\* The DNP3 addresses of an entry.
LEMMA EntryDnp3 ==
  ASSUME NEW e \in Entries, localDnp3Addrs \in SUBSET Dnp3Addrs
  PROVE  /\ MasterAddr(e) % WordSize \in Dnp3Addrs
         /\ OutstationAddr(e) % WordSize \in Dnp3Addrs
         /\ AddrsWithMaster(e) \in SUBSET Dnp3Addrs
<1>1. \A a \in Dnp3Addrs : a % WordSize = a
  BY WordAssumption DEF Dnp3Addrs
<1>2. MasterAddr(e) % WordSize \in Dnp3Addrs
  <2>1. e.mAddr # None => e.mAddr \in Dnp3Addrs
    BY DEF Entries
  <2>2. QED
    BY <1>1, <2>1, NextDnp3 DEF MasterAddr
<1>3. AddrsWithMaster(e) \in SUBSET Dnp3Addrs
  BY <1>2 DEF AddrsWithMaster
<1>4. OutstationAddr(e) % WordSize \in Dnp3Addrs
  <2>1. e.oAddr # None => e.oAddr \in Dnp3Addrs
    BY DEF Entries
  <2>2. QED
    BY <1>1, <1>3, <2>1, NextDnp3 DEF OutstationAddr
<1>5. QED
  BY <1>2, <1>3, <1>4

\* The IP addresses of an entry.
LEMMA EntryIp ==
  ASSUME NEW e \in Entries, networkAddr \in IF Cidr THEN Addresses ELSE {None}
  PROVE  /\ AfterOutstation(e) \in IF Cidr THEN Addresses ELSE {None}
         /\ MasterIp(e) \in Addresses \cup {None}
         /\ OutstationIp(e) \in Addresses \cup {None}
         /\ MasterNeedsIp(e) => MasterIp(e) \in Addresses
         /\ OutstationNeedsIp(e) => OutstationIp(e) \in Addresses
         /\ AfterMaster(e) \in IF Cidr THEN Addresses ELSE {None}
<1>1. AfterMaster(e) \in IF Cidr THEN Addresses ELSE {None}
  BY NextOctets DEF AfterMaster, MasterNeedsIp
<1>2. AfterOutstation(e) \in IF Cidr THEN Addresses ELSE {None}
  BY <1>1, NextOctets DEF AfterOutstation, OutstationNeedsIp
<1>3. e.mIp \in Addresses \cup {None} /\ e.oIp \in Addresses \cup {None}
  BY DEF Entries
<1>4. QED
  BY <1>1, <1>2, <1>3 DEF MasterIp, OutstationIp, MasterNeedsIp, OutstationNeedsIp

\* The types of the nodes of an entry.
LEMMA NewNodeTypes ==
  ASSUME NEW e \in Entries, ParserTypeOK
  PROVE  /\ e.master => MasterNode(e) \in Nodes
         /\ OutstationNode(e) \in Nodes
<1>1. e.master => MasterNode(e) \in Nodes
  <2>1. vnictrack \in Nat /\ entry + 1 \in Nat
    BY DEF ParserTypeOK
  <2>2. (IF e.outstation THEN OutstationIp(e) ELSE e.oIp) \in Addresses \cup {None}
    BY EntryIp DEF Entries, ParserTypeOK
  <2>3. QED
    BY <2>1, <2>2, EntryIp, EntryDnp3 DEF MasterNode, Nodes, ParserTypeOK
<1>2. OutstationNode(e) \in Nodes
  <2>1. OutstationVnic(e) \in Nat /\ entry + 1 \in Nat
    BY DEF ParserTypeOK, OutstationVnic
  <2>2. QED
    BY <2>1, EntryIp, EntryDnp3 DEF OutstationNode, Nodes, ParserTypeOK
<1>3. QED
  BY <1>1, <1>2

\* ReadNode adds the master, and then the outstation.
LEMMA ReadInTwo ==
  ASSUME NEW e \in Entries, ParserTypeOK, ReadNode(e),
         NEW ns, ns = IF e.master THEN Append(nodes, MasterNode(e)) ELSE nodes
  PROVE  /\ ns \in Seq(Nodes)
         /\ nodes' = IF e.outstation THEN Append(ns, OutstationNode(e)) ELSE ns
<1> DEFINE a == MasterNode(e)
           b == OutstationNode(e)
<1>1. nodes \in Seq(Nodes) /\ (e.master => a \in Nodes) /\ b \in Nodes
  BY NewNodeTypes DEF ParserTypeOK
<1>2. nodes' = nodes \o ((IF e.master THEN <<a>> ELSE <<>>) \o (IF e.outstation THEN <<b>> ELSE <<>>))
  BY DEF ReadNode, NewNodes
<1> HIDE DEF a, b
<1>3. ns \in Seq(Nodes)
  BY <1>1 DEF a
<1>4. CASE e.master /\ e.outstation
  <2> DEFINE p == <<a>> \o <<b>>
  <2>1. p \in Seq(Nodes) /\ Len(p) = 2 /\ p[1] = a /\ p[2] = b
    BY <1>1, <1>4
  <2>2. nodes' = nodes \o p
    BY <1>2, <1>4
  <2> HIDE DEF p
  <2>3. nodes \o p = Append(Append(nodes, p[1]), p[2])
    BY Zenon, <1>1, <2>1, AppendTwo
  <2>4. QED
    BY <1>3, <1>4, <2>1, <2>2, <2>3 DEF a, b
<1>5. CASE e.master /\ ~e.outstation
  <2>1. nodes' = nodes \o <<a>>
    BY <1>1, <1>2, <1>5
  <2>2. QED
    BY <1>1, <1>3, <1>5, <2>1 DEF a
<1>6. CASE ~e.master /\ e.outstation
  <2>1. nodes' = nodes \o <<b>>
    BY <1>1, <1>2, <1>6
  <2>2. QED
    BY <1>1, <1>3, <1>6, <2>1 DEF b
<1>7. CASE ~e.master /\ ~e.outstation
  BY <1>1, <1>2, <1>3, <1>7
<1>8. QED
  BY <1>4, <1>5, <1>6, <1>7 DEF Entries

\* What ReadNode adds to the list of nodes.
LEMMA AddedNodes ==
  ASSUME NEW e \in Entries, ParserTypeOK, ReadNode(e)
  PROVE  /\ nodes' \in Seq(Nodes)
         /\ Len(nodes') = Len(nodes) + (IF e.master THEN 1 ELSE 0) + (IF e.outstation THEN 1 ELSE 0)
         /\ \A n \in DOMAIN nodes : n \in DOMAIN nodes' /\ nodes'[n] = nodes[n]
         /\ e.master => nodes'[Len(nodes) + 1] = MasterNode(e)
         /\ e.outstation => nodes'[Len(nodes')] = OutstationNode(e)
<1>1. nodes \in Seq(Nodes)
  BY DEF ParserTypeOK
<1>2. e.master => MasterNode(e) \in Nodes
  <2>1. vnictrack \in Nat /\ entry + 1 \in Nat
    BY DEF ParserTypeOK
  <2>2. (IF e.outstation THEN OutstationIp(e) ELSE e.oIp) \in Addresses \cup {None}
    BY EntryIp DEF Entries, ParserTypeOK
  <2>3. QED
    BY <2>1, <2>2, EntryIp, EntryDnp3 DEF MasterNode, Nodes, ParserTypeOK
<1>3. OutstationNode(e) \in Nodes
  <2>1. OutstationVnic(e) \in Nat /\ entry + 1 \in Nat
    BY DEF ParserTypeOK, OutstationVnic
  <2>2. QED
    BY <2>1, EntryIp, EntryDnp3 DEF OutstationNode, Nodes, ParserTypeOK
<1>4. nodes' = nodes \o NewNodes(e)
  BY DEF ReadNode
<1>5. CASE e.master /\ e.outstation
  <2> DEFINE a == MasterNode(e)
             b == OutstationNode(e)
  <2>1. NewNodes(e) = <<a>> \o <<b>>
    BY <1>5 DEF NewNodes
  <2>2. a \in Nodes /\ b \in Nodes
    BY <1>2, <1>3, <1>5
  <2> HIDE DEF a, b
  <2>3. <<a>> \in Seq(Nodes) /\ <<b>> \in Seq(Nodes)
    BY <2>2
  <2>4. /\ <<a>> \o <<b>> \in Seq(Nodes)
        /\ Len(<<a>> \o <<b>>) = 2
        /\ (<<a>> \o <<b>>)[1] = a /\ (<<a>> \o <<b>>)[2] = b
    BY <2>3
  <2>5. /\ nodes' \in Seq(Nodes)
        /\ Len(nodes') = Len(nodes) + 2
        /\ \A n \in DOMAIN nodes : n \in DOMAIN nodes' /\ nodes'[n] = nodes[n]
        /\ nodes'[Len(nodes) + 1] = a
        /\ nodes'[Len(nodes')] = b
    BY <1>1, <1>4, <2>1, <2>4
  <2>6. QED
    BY <1>5, <2>5 DEF a, b
<1>6. CASE e.master /\ ~e.outstation
  <2>1. NewNodes(e) = <<MasterNode(e)>>
    BY <1>6 DEF NewNodes
  <2>2. QED
    BY <1>1, <1>2, <1>4, <1>6, <2>1
<1>7. CASE ~e.master /\ e.outstation
  <2>1. NewNodes(e) = <<OutstationNode(e)>>
    BY <1>7 DEF NewNodes
  <2>2. QED
    BY <1>1, <1>3, <1>4, <1>7, <2>1
<1>8. CASE ~e.master /\ ~e.outstation
  <2>1. NewNodes(e) = <<>>
    BY <1>8 DEF NewNodes
  <2>2. QED
    BY <1>1, <1>4, <1>8, <2>1
<1>9. QED
  BY <1>5, <1>6, <1>7, <1>8 DEF Entries

\* Where the nodes of the new list come from.
LEMMA NodeOrigin ==
  ASSUME NEW e \in Entries, ParserTypeOK, ReadNode(e), NEW n \in DOMAIN nodes'
  PROVE  \/ n \in DOMAIN nodes /\ nodes'[n] = nodes[n]
         \/ e.master /\ n = Len(nodes) + 1 /\ nodes'[n] = MasterNode(e)
         \/ e.outstation /\ n = Len(nodes') /\ n > Len(nodes) /\ nodes'[n] = OutstationNode(e)
              /\ (e.master => n # Len(nodes) + 1)
<1>1. /\ nodes \in Seq(Nodes) /\ nodes' \in Seq(Nodes)
      /\ Len(nodes') = Len(nodes) + (IF e.master THEN 1 ELSE 0) + (IF e.outstation THEN 1 ELSE 0)
  BY AddedNodes DEF ParserTypeOK
<1>2. /\ DOMAIN nodes' = 1..Len(nodes') /\ DOMAIN nodes = 1..Len(nodes)
      /\ Len(nodes) \in Nat /\ Len(nodes') \in Nat
  <2>1. nodes \in Seq(Nodes) /\ nodes' \in Seq(Nodes)
    BY <1>1
  <2>2. QED
    BY <2>1
<1>3. \/ n \in 1..Len(nodes)
      \/ n = Len(nodes) + 1 /\ e.master
      \/ n = Len(nodes') /\ e.outstation /\ n > Len(nodes) /\ (e.master => n # Len(nodes) + 1)
  <2> DEFINE k == Len(nodes)
             l == Len(nodes')
  <2>1. n \in 1..l /\ k \in Nat /\ l \in Nat
    BY <1>2
  <2>2. /\ e.master /\ e.outstation => l = k + 2
        /\ e.master /\ ~e.outstation => l = k + 1
        /\ ~e.master /\ e.outstation => l = k + 1
        /\ ~e.master /\ ~e.outstation => l = k
    <3> DEFINE x == IF e.master THEN 1 ELSE 0
               y == IF e.outstation THEN 1 ELSE 0
    <3>1. l = k + x + y
      BY <1>1
    <3>2. (e.master => x = 1) /\ (~e.master => x = 0)
      BY Zenon
    <3>3. (e.outstation => y = 1) /\ (~e.outstation => y = 0)
      BY Zenon
    <3> HIDE DEF x, y
    <3>4. /\ x = 1 /\ y = 1 => l = k + 2
          /\ x = 1 /\ y = 0 => l = k + 1
          /\ x = 0 /\ y = 1 => l = k + 1
          /\ x = 0 /\ y = 0 => l = k
      <4> HIDE DEF k, l
      <4> QED
        BY <2>1, <3>1
    <3>5. QED
      BY <3>2, <3>3, <3>4, Zenon
  <2> HIDE DEF k, l
  <2>3. \/ n \in 1..k
        \/ n = k + 1 /\ e.master
        \/ n = l /\ e.outstation /\ n > k /\ (e.master => n # k + 1)
    BY <2>1, <2>2
  <2>4. QED
    BY <2>3 DEF k, l
<1>4. QED
  BY <1>2, <1>3, AddedNodes

LEMMA ConfigTypes ==
  ASSUME config \in Configs
  PROVE  /\ config.entries \in Seq(Entries)
         /\ Len(config.entries) \in Nat
         /\ DOMAIN config.entries = 1..Len(config.entries)
         /\ \A i \in DOMAIN config.entries : config.entries[i] \in Entries
         /\ config.prefix \in Prefixes
         /\ Cidr => config.addr \in Addresses
<1>1. config.entries \in Seq(Entries)
  BY ConfigAssumption
<1>2. config.prefix \in Prefixes /\ config.addr \in Addresses \cup {None}
  BY ConfigAssumption
<1>3. QED
  BY <1>1, <1>2 DEF Cidr

\* What a process starts from has the right types.
LEMMA InitTypes ==
  ASSUME config \in Configs, ParserInit
  PROVE  ParserTypeOK
<1>1. networkAddr \in IF Cidr THEN Addresses ELSE {None}
  <2>1. Cidr => Net \in Addresses
    BY ConfigTypes, NetworkOctets DEF Net
  <2>2. QED
    BY <2>1 DEF ParserInit, FirstNetworkAddr
<1>2. localDnp3Addrs \in SUBSET Dnp3Addrs
  <2>1. \A i \in DOMAIN config.entries :
           {config.entries[i].mAddr, config.entries[i].oAddr} \subseteq Dnp3Addrs \cup {None}
    BY ConfigTypes DEF Entries
  <2> DEFINE C == {{config.entries[i].mAddr, config.entries[i].oAddr} :
                     i \in DOMAIN config.entries}
  <2>2. \A A \in C : A \subseteq Dnp3Addrs \cup {None}
    BY <2>1
  <2>3. ConfiguredAddrs = (UNION C) \ {None}
    BY Zenon DEF ConfiguredAddrs
  <2> HIDE DEF C
  <2>4. UNION C \subseteq Dnp3Addrs \cup {None}
    BY <2>2
  <2>5. QED
    BY <2>3, <2>4 DEF ParserInit
<1>3. entry \in 0..Len(config.entries)
  BY ConfigTypes DEF ParserInit
<1>4. drawn \in Seq(localDnp3Addrs) /\ nodes \in Seq(Nodes) /\ DOMAIN nodes = {}
  BY DEF ParserInit
<1>5. QED
  BY <1>1, <1>2, <1>3, <1>4 DEF ParserTypeOK, ParserInit

LEMMA ResetTypes ==
  ASSUME config' \in Configs, ParserReset
  PROVE  ParserInit' /\ ParserTypeOK'
<1>1. ParserInit'
  BY DEF ParserReset, ParserInit
<1>2. (config \in Configs /\ ParserInit => ParserTypeOK)'
  BY InitTypes, PTL
<1>3. QED
  BY <1>1, <1>2

LEMMA ReadTypes ==
  ASSUME ParserTypeOK, NEW e \in Entries, entry < Len(config.entries), ReadNode(e),
         config' = config
  PROVE  ParserTypeOK'
<1>1. networkAddr' \in IF Cidr THEN Addresses ELSE {None}
  BY EntryIp DEF ParserTypeOK, ReadNode
<1>2. Cidr' <=> Cidr
  BY DEF Cidr
<1>3. localDnp3Addrs' \in SUBSET Dnp3Addrs /\ localDnp3Addrs \subseteq localDnp3Addrs'
  <2>1. localDnp3Addrs \in SUBSET Dnp3Addrs
    BY DEF ParserTypeOK
  <2>2. localDnp3Addrs' = localDnp3Addrs \cup {MasterAddr(e) % WordSize} \cup {OutstationAddr(e) % WordSize}
    BY DEF ReadNode, AddrsWithMaster
  <2>3. QED
    BY <2>1, <2>2, EntryDnp3
<1>4. drawn' \in Seq(localDnp3Addrs')
  <2>1. drawn \in Seq(localDnp3Addrs')
    BY <1>3 DEF ParserTypeOK
  <2> DEFINE m == MasterAddr(e) % WordSize
             o == OutstationAddr(e) % WordSize
  <2>2. m \in localDnp3Addrs' /\ o \in localDnp3Addrs'
    BY DEF ReadNode, AddrsWithMaster
  <2>3. /\ drawn' = drawn \o Drawn(e)
        /\ Drawn(e) = (IF e.mAddr = None THEN <<m>> ELSE <<>>) \o (IF e.oAddr = None THEN <<o>> ELSE <<>>)
    BY DEF ReadNode, Drawn
  <2> HIDE DEF m, o
  <2>4. <<m>> \in Seq(localDnp3Addrs') /\ <<o>> \in Seq(localDnp3Addrs') /\ <<>> \in Seq(localDnp3Addrs')
    BY <2>2
  <2>5. /\ (IF e.mAddr = None THEN <<m>> ELSE <<>>) \in Seq(localDnp3Addrs')
        /\ (IF e.oAddr = None THEN <<o>> ELSE <<>>) \in Seq(localDnp3Addrs')
    BY <2>4
  <2>6. Drawn(e) \in Seq(localDnp3Addrs')
    BY <2>3, <2>5
  <2>7. QED
    BY <2>1, <2>3, <2>6
<1>5. vnictrack' \in Nat
  BY DEF ReadNode, OutstationVnic, ParserTypeOK
<1>6. entry' = entry + 1 /\ entry' \in 0..Len(config'.entries)
  BY ConfigTypes DEF ReadNode, ParserTypeOK
<1>7. nodes' \in Seq(Nodes)
  BY AddedNodes
<1>8. ASSUME NEW n \in DOMAIN nodes'
      PROVE  nodes'[n].entry \in 1..entry'
  <2>1. \/ n \in DOMAIN nodes /\ nodes'[n] = nodes[n]
        \/ nodes'[n] = MasterNode(e) \/ nodes'[n] = OutstationNode(e)
    BY NodeOrigin
  <2>2. entry \in Nat
    BY ConfigTypes DEF ParserTypeOK
  <2>3. MasterNode(e).entry = entry + 1 /\ OutstationNode(e).entry = entry + 1
    BY DEF MasterNode, OutstationNode
  <2>4. \A k \in DOMAIN nodes : nodes[k].entry \in 1..entry
    BY DEF ParserTypeOK
  <2>5. QED
    BY <2>1, <2>2, <2>3, <2>4, <1>6
<1>9. QED
  BY <1>1, <1>2, <1>3, <1>4, <1>5, <1>6, <1>7, <1>8 DEF ParserTypeOK

LEMMA InterfaceTypes ==
  ASSUME ParserTypeOK, up \in SUBSET (Nat \X Addresses), NEW e \in Entries
  PROVE  Interfaces(e) \in SUBSET (Nat \X Addresses)
<1>1. vnictrack \in Nat /\ OutstationVnic(e) \in Nat
  BY DEF ParserTypeOK, OutstationVnic
<1>2. /\ MasterNeedsIp(e) => MasterIp(e) \in Addresses
      /\ OutstationNeedsIp(e) => OutstationIp(e) \in Addresses
  BY EntryIp DEF ParserTypeOK
<1>3. QED
  BY <1>1, <1>2 DEF Interfaces, Allocate

\* A process that has ended.
LEMMA EndedTypes ==
  ASSUME config \in Configs, Forget
  PROVE  /\ ParserInit' /\ StationsInit' /\ ParserTypeOK' /\ StationTypeOK'
         /\ pc' = <<>>
<1>1. ParserInit' /\ ParserTypeOK'
  BY ResetTypes DEF Forget
<1>2. StationsInit' /\ pc' = <<>>
  BY DEF Forget, StationsInit
<1>3. nodes' = <<>> /\ Len(pc') <= Len(nodes') /\ pc' \in Seq({"setup", "loop", "done"})
  BY DEF Forget, ParserReset
<1>4. pointClasses' \in SUBSET Nat /\ outside' \in SUBSET (Nat \X Points)
  BY DEF Forget, KnownClasses
<1>5. /\ todo' = [n \in DOMAIN pc' |-> todo'[n]]
      /\ scans' = [n \in DOMAIN pc' |-> scans'[n]]
      /\ DOMAIN pc' = {}
  BY DEF Forget
<1>6. QED
  BY <1>1, <1>2, <1>3, <1>4, <1>5 DEF StationTypeOK

LEMMA ItemTypes ==
  ASSUME ParserTypeOK, NEW n \in DOMAIN nodes
  PROVE  /\ EntryOf(n) \in Entries
         /\ Items(n) \subseteq Points \cup Classes
         /\ nodes[n].role = "Outstation" => Items(n) = EntryOf(n).points
         /\ nodes[n].role = "Master" => Items(n) = EntryOf(n).polls
<1>1. nodes[n].entry \in 1..Len(config.entries)
  BY ConfigTypes DEF ParserTypeOK
<1>2. EntryOf(n) \in Entries
  BY <1>1, ConfigTypes DEF EntryOf, ParserTypeOK
<1>3. EntryOf(n).points \subseteq Points /\ EntryOf(n).polls \subseteq Classes
  BY <1>2 DEF Entries
<1>4. QED
  BY <1>2, <1>3 DEF Items

\* Items does not change while the parser's variables do not.
LEMMA ItemsFixed ==
  ASSUME UNCHANGED <<config, nodes>>
  PROVE  \A n : Items(n)' = Items(n) /\ EntryOf(n)' = EntryOf(n)
BY DEF Items, EntryOf

\* Steps of one station thread, whose own position is all that changes of pc.
LEMMA StationSteps ==
  ASSUME ParserTypeOK, StationTypeOK, NEW n \in DOMAIN pc, Station(n)
  PROVE  /\ StationTypeOK' /\ Len(pc') = Len(pc)
         /\ UNCHANGED <<config, parser>>
<1>1. UNCHANGED <<config, parser>>
  BY DEF Station, AddScan, ConfigurePoint, Enable, Stop
<1>2. \A k : Items(k)' = Items(k)
  BY <1>1, ItemsFixed DEF parser
<1>3. /\ pc \in Seq({"setup", "loop", "done"}) /\ DOMAIN pc = 1..Len(pc) /\ Len(pc) <= Len(nodes)
      /\ todo = [k \in DOMAIN pc |-> todo[k]] /\ scans = [k \in DOMAIN pc |-> scans[k]]
      /\ \A k \in DOMAIN pc : todo[k] \subseteq Items(k) /\ scans[k] \subseteq Items(k)
      /\ pointClasses \in SUBSET Nat /\ outside \in SUBSET (Nat \X Points)
  BY DEF StationTypeOK
<1>4. CASE AddScan(n)
  <2>1. PICK c \in todo[n] :
           /\ scans' = IF ScansClass(c) THEN [scans EXCEPT ![n] = @ \cup {c}] ELSE scans
           /\ todo' = [todo EXCEPT ![n] = @ \ {c}]
    BY <1>4 DEF AddScan
  <2>2. c \in Items(n)
    BY <1>3
  <2>3. /\ scans' = [k \in DOMAIN pc |-> scans'[k]] /\ todo' = [k \in DOMAIN pc |-> todo'[k]]
        /\ \A k \in DOMAIN pc : todo'[k] \subseteq Items(k) /\ scans'[k] \subseteq Items(k)
    BY <1>3, <2>1, <2>2
  <2>4. UNCHANGED <<pc, pointClasses, outside>>
    BY <1>4 DEF AddScan
  <2>5. QED
    BY <1>1, <1>2, <1>3, <2>3, <2>4 DEF StationTypeOK, parser
<1>5. CASE ConfigurePoint(n)
  <2>1. PICK p \in todo[n] :
           /\ todo' = [todo EXCEPT ![n] = @ \ {p}]
           /\ pointClasses' = pointClasses \/ pointClasses' = pointClasses \cup {p.class}
           /\ outside' = outside \/ outside' = outside \cup {<<n, p>>}
    BY <1>5 DEF ConfigurePoint
  <2>2. p \in Points
    <3>1. n \in DOMAIN nodes /\ nodes[n].role = "Outstation"
      BY <1>3, <1>5 DEF ConfigurePoint, ParserTypeOK
    <3>2. Items(n) = EntryOf(n).points /\ EntryOf(n) \in Entries
      BY <3>1, ItemTypes
    <3>3. QED
      BY <1>3, <3>2 DEF Entries
  <2>3. /\ todo' = [k \in DOMAIN pc |-> todo'[k]]
        /\ \A k \in DOMAIN pc : todo'[k] \subseteq Items(k)
    BY <1>3, <2>1
  <2>4. pointClasses' \in SUBSET Nat /\ outside' \in SUBSET (Nat \X Points)
    <3>1. n \in Nat /\ p.class \in Nat
      BY <1>3, <2>2 DEF Points
    <3>2. QED
      BY <1>3, <2>1, <2>2, <3>1
  <2>5. UNCHANGED <<pc, scans>>
    BY <1>5 DEF ConfigurePoint
  <2>6. QED
    BY <1>1, <1>2, <1>3, <2>3, <2>4, <2>5 DEF StationTypeOK, parser
<1>6. CASE Enable(n) \/ Stop(n)
  <2>1. pc' = [pc EXCEPT ![n] = "loop"] \/ pc' = [pc EXCEPT ![n] = "done"]
    BY <1>6 DEF Enable, Stop
  <2>2. pc' \in Seq({"setup", "loop", "done"}) /\ DOMAIN pc' = DOMAIN pc /\ Len(pc') = Len(pc)
    <3>1. pc \in Seq({"setup", "loop", "done"}) /\ n \in DOMAIN pc
      BY <1>3
    <3>2. QED
      BY <2>1, <3>1, ExceptSeq
  <2>3. UNCHANGED <<todo, scans, pointClasses, outside>>
    BY <1>6 DEF Enable, Stop
  <2>4. QED
    BY <1>1, <1>2, <1>3, <2>2, <2>3 DEF StationTypeOK, parser
<1>7. QED
  BY <1>4, <1>5, <1>6, <1>1 DEF Station

LEMMA StartStationTypes ==
  ASSUME ParserTypeOK, StationTypeOK, StartStation
  PROVE  /\ StationTypeOK' /\ Len(pc') = Len(pc) + 1
         /\ \A k \in 1..Len(pc) : UNCHANGED <<pc[k], todo[k], scans[k]>>
         /\ pc'[Len(pc')] = "setup" /\ todo'[Len(pc')] = Items(Len(pc')) /\ scans'[Len(pc')] = {}
<1>1. UNCHANGED <<config, nodes, pointClasses, outside>>
  BY DEF StartStation, parser
<1>2. \A k : Items(k)' = Items(k)
  BY <1>1, ItemsFixed
<1>3. /\ pc \in Seq({"setup", "loop", "done"}) /\ DOMAIN pc = 1..Len(pc) /\ Len(pc) < Len(nodes)
      /\ todo = [k \in DOMAIN pc |-> todo[k]] /\ scans = [k \in DOMAIN pc |-> scans[k]]
      /\ \A k \in DOMAIN pc : todo[k] \subseteq Items(k) /\ scans[k] \subseteq Items(k)
      /\ pointClasses \in SUBSET Nat /\ outside \in SUBSET (Nat \X Points)
      /\ Len(pc) \in Nat /\ Len(nodes) \in Nat
  BY DEF StationTypeOK, StartStation, ParserTypeOK
<1>4. \A k \in 1..Len(nodes) : Items(k) \subseteq Points \cup Classes
  BY ItemTypes DEF ParserTypeOK
<1> DEFINE All == SUBSET (Points \cup Classes)
           m == Len(pc) + 1
<1>5. todo \in Seq(All) /\ scans \in Seq(All) /\ Len(todo) = Len(pc) /\ Len(scans) = Len(pc)
  <2>1. \A k \in DOMAIN pc : todo[k] \in All /\ scans[k] \in All
    BY <1>3, <1>4
  <2>2. todo \in [1..Len(pc) -> All] /\ scans \in [1..Len(pc) -> All]
    BY <1>3, <2>1
  <2> HIDE DEF All
  <2>3. QED
    BY <1>3, <2>2
<1>6. Items(m) \in All /\ {} \in All
  BY <1>3, <1>4
<1>7. /\ pc' = Append(pc, "setup") /\ todo' = Append(todo, Items(m)) /\ scans' = Append(scans, {})
  BY DEF StartStation
<1> HIDE DEF All
<1>8. /\ pc' \in Seq({"setup", "loop", "done"}) /\ Len(pc') = m /\ DOMAIN pc' = 1..m
      /\ pc'[m] = "setup" /\ \A k \in 1..Len(pc) : pc'[k] = pc[k]
  BY <1>3, <1>7
<1>9. /\ todo' \in Seq(All) /\ Len(todo') = m /\ todo'[m] = Items(m)
      /\ \A k \in 1..Len(pc) : todo'[k] = todo[k]
  BY <1>5, <1>6, <1>7
<1>10. /\ scans' \in Seq(All) /\ Len(scans') = m /\ scans'[m] = {}
       /\ \A k \in 1..Len(pc) : scans'[k] = scans[k]
  BY <1>5, <1>6, <1>7
<1>11. /\ todo' = [k \in DOMAIN pc' |-> todo'[k]]
       /\ scans' = [k \in DOMAIN pc' |-> scans'[k]]
  BY <1>8, <1>9, <1>10
<1>12. \A k \in 1..m : k \in 1..Len(pc) \/ k = m
  BY <1>3
<1> HIDE DEF m
<1>13. ASSUME NEW k \in DOMAIN pc'
       PROVE  todo'[k] \subseteq Items(k) /\ scans'[k] \subseteq Items(k)
  <2>1. CASE k \in 1..Len(pc)
    BY <1>3, <1>9, <1>10, <2>1
  <2>2. CASE k = m
    BY <1>9, <1>10, <2>2
  <2>3. QED
    BY <1>8, <1>12, <2>1, <2>2
<1>14. Len(pc') <= Len(nodes)
  BY <1>3, <1>8 DEF m
<1>15. StationTypeOK'
  BY <1>1, <1>2, <1>3, <1>8, <1>11, <1>13, <1>14 DEF StationTypeOK, m
<1>16. QED
  BY <1>8, <1>9, <1>10, <1>15 DEF m

\* Each variable of the program keeps its type, whatever files it is started with.
THEOREM TypesInvariant == Spec => []TypeOK
<1>1. Init => TypeOK
  <2> SUFFICES ASSUME Init
               PROVE  TypeOK
    OBVIOUS
  <2>1. ParserTypeOK
    BY InitTypes DEF Init
  <2>2. StationTypeOK
    <3>1. pc = <<>> /\ todo = <<>> /\ scans = <<>> /\ outside = {} /\ pointClasses = KnownClasses
          /\ nodes = <<>>
      BY DEF Init, StationsInit, ParserInit
    <3>2. QED
      BY <3>1 DEF StationTypeOK, KnownClasses
  <2>3. QED
    BY <2>1, <2>2 DEF Init, TypeOK, Ended, StationsInit
<1>2. TypeOK /\ [Next]_vars => TypeOK'
  <2> SUFFICES ASSUME TypeOK, [Next]_vars
               PROVE  TypeOK'
    OBVIOUS
  <2> USE DEF Ended
  <2>1. ParserTypeOK /\ StationTypeOK
    BY DEF TypeOK
  <2>2. ASSUME UNCHANGED <<config, parser>>
        PROVE  ParserTypeOK' /\ (ParserInit => ParserInit')
    BY <2>1, <2>2 DEF parser, ParserTypeOK, Cidr, ParserInit, FirstNetworkAddr, ConfiguredAddrs, Net
  <2>3. ASSUME UNCHANGED <<config, parser, stations>>
        PROVE  StationTypeOK' /\ (StationsInit => StationsInit')
    BY <2>1, <2>3 DEF parser, stations, StationTypeOK, StationsInit, Items, EntryOf
  <2>4. CASE Start
    <3>1. config' \in Configs
      BY <2>1, <2>4, LaterAssumption DEF Start, ParserTypeOK
    <3>2. ParserTypeOK' /\ nodes' = <<>>
      BY <2>4, <3>1, ResetTypes DEF Start, ParserReset
    <3>3. pc = <<>> /\ UNCHANGED stations
      BY <2>4 DEF Start, TypeOK
    <3>4. StationTypeOK'
      BY <2>1, <3>2, <3>3 DEF StationTypeOK, stations
    <3>5. QED
      BY <2>4, <3>2, <3>3, <3>4 DEF Start, TypeOK, stations
  <2>5. CASE DeletePipe
    BY <2>2, <2>3, <2>5 DEF DeletePipe, TypeOK, parser, stations
  <2>6. CASE Parse
    <3>1. entry < Len(config.entries) /\ NextEntry \in Entries
      BY <2>1, <2>6, ConfigTypes DEF Parse, Unread, NextEntry, ParserTypeOK
    <3>2. ParserTypeOK'
      BY <2>1, <2>6, <3>1, ReadTypes DEF Parse
    <3>3. up' \in SUBSET (Nat \X Addresses)
      BY <2>1, <2>6, <3>1, InterfaceTypes DEF Parse, ReadNode, TypeOK
    <3>4. pc = <<>> /\ pc' = <<>> /\ phase' = "parsing"
      BY <2>6 DEF Parse, TypeOK, stations
    <3>5. StationTypeOK'
      <4>1. Len(nodes') \in Nat
        BY <3>2 DEF ParserTypeOK
      <4>2. UNCHANGED stations
        BY <2>6 DEF Parse
      <4>3. QED
        BY <2>1, <3>4, <4>1, <4>2 DEF StationTypeOK, stations
    <3>6. QED
      BY <2>6, <3>2, <3>3, <3>4, <3>5 DEF TypeOK, Parse
  <2>7. CASE ParseFails
    <3>1. NextEntry \in Entries
      BY <2>1, <2>7, ConfigTypes DEF ParseFails, Unread, NextEntry, ParserTypeOK
    <3>2. up' \in SUBSET (Nat \X Addresses)
      BY <2>1, <2>7, <3>1, InterfaceTypes DEF ParseFails, TypeOK
    <3>3. QED
      BY <2>1, <2>7, <3>2, EndedTypes DEF ParseFails, TypeOK, ParserTypeOK
  <2>8. CASE Parsed
    <3>1. entry = Len(config.entries)
      BY <2>1, <2>8, ConfigTypes DEF Parsed, Unread, ParserTypeOK
    <3>2. QED
      BY <2>2, <2>3, <2>8, <3>1 DEF Parsed, TypeOK, parser, stations
  <2>9. CASE StartStation
    BY <2>1, <2>2, <2>9, StartStationTypes DEF StartStation, TypeOK, parser
  <2>10. CASE Started
    BY <2>2, <2>3, <2>10 DEF Started, TypeOK, parser, stations
  <2>11. CASE Quit
    BY <2>2, <2>3, <2>11 DEF Quit, TypeOK, parser, stations
  <2>12. CASE Return
    BY <2>1, <2>12, EndedTypes DEF Return, TypeOK, ParserTypeOK, AfterReturn
  <2>13. CASE Kill
    BY <2>1, <2>13, EndedTypes DEF Kill, TypeOK, ParserTypeOK
  <2>14. ASSUME NEW n \in DOMAIN pc, Station(n)
         PROVE  TypeOK'
    <3>1. /\ StationTypeOK' /\ Len(pc') = Len(pc) /\ UNCHANGED <<config, parser>>
      BY <2>1, <2>14, StationSteps
    <3>2. UNCHANGED <<phase, pipe, strays>>
      BY <2>14 DEF Station, AddScan, ConfigurePoint, Enable, Stop
    <3>3. up' \in SUBSET (Nat \X Addresses)
      BY <2>14 DEF Station, AddScan, ConfigurePoint, Enable, Stop, AfterStop, Down, TypeOK
    <3>4. pc # <<>> /\ phase \notin Ended \cup {"parsing"}
      BY <2>14 DEF TypeOK
    <3>5. QED
      BY <2>2, <3>1, <3>2, <3>3, <3>4 DEF TypeOK, parser
  <2>15. CASE UNCHANGED vars
    BY <2>2, <2>3, <2>15 DEF vars, TypeOK, parser, stations
  <2>16. QED
    BY <2>4, <2>5, <2>6, <2>7, <2>8, <2>9, <2>10, <2>11, <2>12, <2>13, <2>14, <2>15 DEF Next, Main
<1>3. QED
  BY <1>1, <1>2, PTL DEF Spec
-------------------------------------------------------------------------------
(* What the station threads have set up *)

\* What a step of the program does to the stations.
LEMMA AppSteps ==
  ASSUME TypeOK, [Next]_vars
  PROVE  \/ UNCHANGED <<config, nodes, stations>>
         \/ pc = <<>> /\ UNCHANGED stations
         \/ StationsInit'
         \/ StartStation /\ UNCHANGED <<config, nodes>>
         \/ /\ \E n \in DOMAIN pc : Station(n)
            /\ UNCHANGED <<config, nodes>> /\ DOMAIN pc' = DOMAIN pc
<1>1. CASE Parse \/ Start
  BY <1>1 DEF Parse, Start, TypeOK
<1>2. CASE ParseFails \/ Return \/ Kill
  BY <1>2 DEF ParseFails, Return, Kill, Forget, StationsInit
<1>3. CASE DeletePipe \/ Parsed \/ Started \/ Quit
  BY <1>3 DEF DeletePipe, Parsed, Started, Quit, parser
<1>4. CASE StartStation
  BY <1>4 DEF StartStation, parser
<1>5. ASSUME NEW n \in DOMAIN pc, Station(n)
      PROVE  UNCHANGED <<config, nodes>> /\ DOMAIN pc' = DOMAIN pc
  <2>1. /\ StationTypeOK' /\ Len(pc') = Len(pc) /\ UNCHANGED <<config, parser>>
    BY <1>5, StationSteps DEF TypeOK
  <2>2. QED
    BY <2>1 DEF parser, StationTypeOK, TypeOK
<1>6. CASE UNCHANGED vars
  BY <1>6 DEF vars, parser
<1>7. QED
  BY <1>1, <1>2, <1>3, <1>4, <1>5, <1>6 DEF Next, Main

\* The size that is computed for a database has room for a point, if it fits
\* in the bits of a word.
LEMMA PointInside ==
  ASSUME NEW points \in SUBSET Points, NEW p \in points,
         \A q \in points : q.type = p.type => ~(q.index >= WordSize - 1)
  PROVE  p.index < DbSize(points, p.type) % WordSize
<1> DEFINE S == {0} \cup {q.index + 1 : q \in {r \in points : r.type = p.type}}
<1>1. WordSize \in Nat /\ WordSize > 0
  BY WordAssumption
<1>2. S \in SUBSET (0..(WordSize - 1)) /\ p.index + 1 \in S /\ p.index \in Nat
  <2>1. \A q \in points : q.index \in Nat
    <3>1. MaxInt \in Nat
      BY SMT DEF MaxInt
    <3>2. QED
      BY <3>1 DEF Points
  <2>2. \A q \in points : q.type = p.type => q.index + 1 \in 0..(WordSize - 1)
    BY <1>1, <2>1
  <2>3. QED
    BY <1>1, <2>1, <2>2
<1>3. DbSize(points, p.type) = Max(S)
  BY DEF DbSize
<1> HIDE DEF S
<1>4. Max(S) \in 0..(WordSize - 1) /\ p.index + 1 <= Max(S)
  <2>1. S # {} /\ WordSize - 1 \in Nat
    BY <1>1, <1>2
  <2>2. Max(S) \in S /\ \A x \in S : x <= Max(S)
    BY <1>1, <1>2, <2>1, GreatestElement
  <2>3. QED
    BY <1>2, <2>2
<1> DEFINE d == Max(S)
<1> HIDE DEF d
<1>5. d \in 0..(WordSize - 1) /\ p.index + 1 <= d
  BY <1>4 DEF d
<1>6. d % WordSize = d
  BY <1>1, <1>5
<1>7. QED
  BY <1>2, <1>3, <1>5, <1>6 DEF d

\* No point is written behind the end of its database, unless a size has to be
\* cut to 16 bits: whatever points the outstations have.
THEOREM PointsInDatabase == Spec => []DatabaseHoldsPoints
<1>1. Init => DatabaseHoldsPoints
  BY DEF Init, StationsInit, DatabaseHoldsPoints
<1>2. TypeOK /\ DatabaseHoldsPoints /\ [Next]_vars => DatabaseHoldsPoints'
  <2> SUFFICES ASSUME TypeOK, DatabaseHoldsPoints, [Next]_vars
               PROVE  DatabaseHoldsPoints'
    OBVIOUS
  <2>1. CASE UNCHANGED <<config, nodes, stations>>
    BY <2>1 DEF DatabaseHoldsPoints, stations, EntryOf
  <2>2. CASE pc = <<>> /\ UNCHANGED stations
    <3>1. outside = {}
      BY <2>2 DEF DatabaseHoldsPoints
    <3>2. QED
      BY <2>2, <3>1 DEF DatabaseHoldsPoints, stations
  <2>3. CASE StationsInit'
    BY <2>3 DEF DatabaseHoldsPoints, StationsInit
  <2>4. CASE StartStation /\ UNCHANGED <<config, nodes>>
    <3>1. outside' = outside /\ DOMAIN pc \subseteq DOMAIN pc'
      BY <2>4 DEF StartStation, TypeOK, StationTypeOK
    <3>2. QED
      BY <2>4, <3>1 DEF DatabaseHoldsPoints, EntryOf
  <2>5. ASSUME NEW n \in DOMAIN pc, Station(n), UNCHANGED <<config, nodes>>,
              DOMAIN pc' = DOMAIN pc
        PROVE  DatabaseHoldsPoints'
    <3>1. \A k : EntryOf(k)' = EntryOf(k)
      BY <2>5 DEF EntryOf
    <3>2. CASE ~ConfigurePoint(n)
      <4>1. outside' = outside
        BY <2>5, <3>2 DEF Station, AddScan, Enable, Stop
      <4>2. QED
        BY <2>5, <3>1, <4>1 DEF DatabaseHoldsPoints
    <3>3. CASE ConfigurePoint(n)
      <4>1. PICK p \in todo[n] :
              IF p.type \in InputTypes
              THEN outside' = IF p.index < DbSize(EntryOf(n).points, p.type) % WordSize
                              THEN outside ELSE outside \cup {<<n, p>>}
              ELSE outside' = outside
        BY <3>3 DEF ConfigurePoint
      <4>2. EntryOf(n).points \in SUBSET Points /\ p \in EntryOf(n).points
        <5>1. n \in DOMAIN nodes /\ nodes[n].role = "Outstation" /\ todo[n] \subseteq Items(n)
          BY <3>3 DEF ConfigurePoint, TypeOK, StationTypeOK, ParserTypeOK
        <5>2. Items(n) = EntryOf(n).points /\ EntryOf(n) \in Entries
          BY <5>1, ItemTypes DEF TypeOK
        <5>3. QED
          BY <5>1, <5>2 DEF Entries
      <4>3. CASE outside' = outside
        BY <2>5, <3>1, <4>3 DEF DatabaseHoldsPoints
      <4>4. CASE /\ outside' = outside \cup {<<n, p>>}
                 /\ ~(p.index < DbSize(EntryOf(n).points, p.type) % WordSize)
        <5>1. \E q \in EntryOf(n).points : q.type = p.type /\ q.index >= WordSize - 1
          BY <4>2, <4>4, PointInside
        <5>2. QED
          BY <2>5, <3>1, <4>4, <5>1 DEF DatabaseHoldsPoints
      <4>5. QED
        BY <4>1, <4>3, <4>4
    <3>4. QED
      BY <3>2, <3>3
  <2>6. QED
    BY <2>1, <2>2, <2>3, <2>4, <2>5, AppSteps
<1>3. QED
  BY <1>1, <1>2, TypesInvariant, PTL DEF Spec
-------------------------------------------------------------------------------
(* Scans *)

\* The shared map has the known classes and those of points.
ClassInv ==
    /\ KnownClasses \subseteq pointClasses
    /\ \A c \in pointClasses \ KnownClasses : Entered(c)

\* What master n has still to set up, and has set up.
MasterInv(n) ==
    /\ EntryOf(n).polls \cap Known \subseteq todo[n] \cup scans[n]
    /\ pc[n] # "setup" => todo[n] = {}
    /\ \A c \in scans[n] \ Known : Entered(c)

ScanInv == ClassInv /\ \A n \in DOMAIN pc : nodes[n].role = "Master" => MasterInv(n)

\* While the stations are there no class loses the point it comes from.
LEMMA EnteredStays ==
  ASSUME UNCHANGED <<config, nodes>>, DOMAIN pc \subseteq DOMAIN pc',
         \A k \in DOMAIN pc : todo'[k] \subseteq todo[k], NEW c, Entered(c)
  PROVE  Entered(c)'
BY DEF Entered, EntryOf

LEMMA ScanStation ==
  ASSUME TypeOK, ScanInv, NEW n \in DOMAIN pc, Station(n), UNCHANGED <<config, nodes>>,
         DOMAIN pc' = DOMAIN pc
  PROVE  ScanInv'
<1>1. \A c : Entered(c) => Entered(c)'
  <2>1. \A k \in DOMAIN pc : todo'[k] \subseteq todo[k]
    BY DEF Station, AddScan, ConfigurePoint, Enable, Stop, TypeOK, StationTypeOK
  <2>2. QED
    BY <2>1, EnteredStays
<1>2. \A k : EntryOf(k)' = EntryOf(k)
  BY DEF EntryOf
<1>3. /\ todo = [k \in DOMAIN pc |-> todo[k]] /\ scans = [k \in DOMAIN pc |-> scans[k]]
      /\ pc = [k \in DOMAIN pc |-> pc[k]]
  BY DEF TypeOK, StationTypeOK
<1>4. /\ ClassInv
      /\ \A k \in DOMAIN pc : nodes[k].role = "Master" => MasterInv(k)
  BY DEF ScanInv
<1>6. CASE AddScan(n)
  <2>1. PICK c \in todo[n] :
           /\ scans' = IF ScansClass(c) THEN [scans EXCEPT ![n] = @ \cup {c}] ELSE scans
           /\ todo' = [todo EXCEPT ![n] = @ \ {c}]
    BY <1>6 DEF AddScan
  <2>2. UNCHANGED <<pc, pointClasses>> /\ pc[n] = "setup" /\ nodes[n].role = "Master"
    BY <1>6 DEF AddScan
  <2>3. ClassInv'
    BY <1>1, <1>4, <2>2 DEF ClassInv
  <2>4. \A k \in DOMAIN pc : k # n => UNCHANGED <<pc[k], todo[k], scans[k]>>
    BY <1>3, <2>1, <2>2
  <2>5. \A k \in DOMAIN pc : k # n /\ nodes[k].role = "Master" => MasterInv(k)'
    BY <1>1, <1>2, <1>4, <2>4 DEF MasterInv, Known
  <2>6. MasterInv(n)'
    <3>1. todo'[n] = todo[n] \ {c} /\ scans'[n] = IF ScansClass(c) THEN scans[n] \cup {c} ELSE scans[n]
      BY <1>3, <2>1
    <3>2. MasterInv(n)
      BY <1>4, <2>2
    <3>3. c \in Known => ScansClass(c)
      BY <1>4 DEF Known, ScansClass, ClassInv
    <3>4. c \notin Known /\ ScansClass(c) => Entered(c)
      BY <1>4 DEF Known, ScansClass, ClassInv
    <3>5. EntryOf(n).polls \cap Known \subseteq todo'[n] \cup scans'[n]
      BY <3>1, <3>2, <3>3 DEF MasterInv
    <3>6. \A d \in scans'[n] \ Known : Entered(d)
      BY <3>1, <3>2, <3>4 DEF MasterInv
    <3>7. QED
      BY <1>1, <1>2, <2>2, <3>5, <3>6 DEF MasterInv, Known
  <2>7. QED
    BY <2>2, <2>3, <2>5, <2>6 DEF ScanInv
<1>7. CASE ConfigurePoint(n)
  <2>1. PICK p \in todo[n] :
           /\ todo' = [todo EXCEPT ![n] = @ \ {p}]
           /\ \/ pointClasses' = pointClasses
              \/ p.type \in InputTypes /\ pointClasses' = pointClasses \cup {p.class}
    BY <1>7 DEF ConfigurePoint
  <2>2. UNCHANGED <<pc, scans>> /\ nodes[n].role = "Outstation"
    BY <1>7 DEF ConfigurePoint
  <2>3. p \in EntryOf(n).points
    <3>1. n \in DOMAIN nodes /\ todo[n] \subseteq Items(n)
      BY DEF TypeOK, StationTypeOK, ParserTypeOK
    <3>2. QED
      BY <2>1, <2>2, <3>1, ItemTypes DEF TypeOK
  <2>4. p.type \in InputTypes => Entered(p.class)'
    <3>1. p \notin todo'[n]
      BY <1>3, <2>1
    <3>2. QED
      BY <1>2, <2>2, <2>3, <3>1 DEF Entered
  <2>5. ClassInv'
    BY <1>1, <1>4, <2>1, <2>4 DEF ClassInv
  <2>6. \A k \in DOMAIN pc : k # n => todo'[k] = todo[k]
    BY <1>3, <2>1
  <2>7. \A k \in DOMAIN pc : nodes[k].role = "Master" => MasterInv(k)'
    BY <1>1, <1>2, <1>4, <2>2, <2>6 DEF MasterInv, Known
  <2>8. QED
    BY <2>2, <2>5, <2>7 DEF ScanInv
<1>8. CASE Enable(n) \/ Stop(n)
  <2>1. /\ UNCHANGED <<todo, scans, pointClasses>>
        /\ pc' = [pc EXCEPT ![n] = "loop"] \/ pc' = [pc EXCEPT ![n] = "done"]
        /\ todo[n] = {} \/ pc[n] # "setup"
    BY <1>8 DEF Enable, Stop
  <2>2. \A k \in DOMAIN pc : k # n => pc'[k] = pc[k]
    BY <1>3, <2>1
  <2>3. nodes[n].role = "Master" => todo[n] = {}
    BY <1>4, <2>1 DEF MasterInv
  <2>4. \A k \in DOMAIN pc : nodes[k].role = "Master" => MasterInv(k)'
    BY <1>1, <1>2, <1>4, <2>1, <2>2, <2>3 DEF MasterInv, Known
  <2>5. ClassInv'
    BY <1>1, <1>4, <2>1 DEF ClassInv
  <2>6. QED
    BY <2>4, <2>5 DEF ScanInv
<1>9. QED
  BY <1>6, <1>7, <1>8 DEF Station

LEMMA ScanStart ==
  ASSUME TypeOK, ScanInv, StartStation, UNCHANGED <<config, nodes>>
  PROVE  ScanInv'
<1> DEFINE m == Len(pc) + 1
<1>1. StationTypeOK' /\ Len(pc') = m
  BY StartStationTypes DEF TypeOK
<1>2. UNCHANGED pointClasses /\ Len(pc) < Len(nodes)
  BY DEF StartStation
<1>3. /\ Len(pc) \in Nat /\ DOMAIN pc = 1..Len(pc) /\ DOMAIN pc' = 1..m
      /\ Len(nodes) \in Nat /\ DOMAIN nodes = 1..Len(nodes)
  BY <1>1 DEF TypeOK, StationTypeOK, ParserTypeOK
<1>4. /\ \A k \in DOMAIN pc : UNCHANGED <<pc[k], todo[k], scans[k]>>
      /\ pc'[m] = "setup" /\ todo'[m] = Items(m) /\ scans'[m] = {}
  BY <1>1, <1>3, StartStationTypes DEF TypeOK
<1>5. /\ \A c : Entered(c) => Entered(c)'
      /\ \A k : EntryOf(k)' = EntryOf(k)
  BY <1>3, <1>4, EnteredStays DEF EntryOf
<1>6. ClassInv'
  BY <1>2, <1>5 DEF ClassInv, ScanInv
<1>7. \A k \in DOMAIN pc : nodes[k].role = "Master" => MasterInv(k)'
  BY <1>4, <1>5 DEF MasterInv, Known, ScanInv
<1>8. \A k : k = m /\ nodes[k].role = "Master" => MasterInv(k)'
  <2>1. m \in DOMAIN nodes
    BY <1>2, <1>3
  <2>2. nodes[m].role = "Master" => Items(m) = EntryOf(m).polls
    BY <2>1, ItemTypes DEF TypeOK
  <2>3. QED
    BY <1>4, <1>5, <2>2 DEF MasterInv, Known
<1>9. \A k \in DOMAIN pc' : k \in DOMAIN pc \/ k = m
  BY <1>3
<1>10. QED
  BY <1>6, <1>7, <1>8, <1>9 DEF ScanInv

\* A master scans the classes it was configured for, and no others but those
\* that points have entered: in whatever order the threads set themselves up.
THEOREM ScansArePolls == Spec => []ScansMatchPolls
<1>1. Init => ScanInv
  BY DEF Init, StationsInit, ScanInv, ClassInv
<1>2. TypeOK /\ ScanInv /\ [Next]_vars => ScanInv'
  <2> SUFFICES ASSUME TypeOK, ScanInv, [Next]_vars
               PROVE  ScanInv'
    OBVIOUS
  <2>1. CASE UNCHANGED <<config, nodes, stations>>
    BY <2>1 DEF ScanInv, ClassInv, MasterInv, Entered, EntryOf, stations, Known
  <2>2. CASE pc = <<>> /\ UNCHANGED stations
    <3>1. \A c : ~Entered(c)
      BY <2>2 DEF Entered
    <3>2. pc' = <<>> /\ ClassInv'
      BY <2>2, <3>1 DEF ScanInv, ClassInv, stations
    <3>3. QED
      BY <3>2 DEF ScanInv
  <2>3. CASE StationsInit'
    BY <2>3 DEF StationsInit, ScanInv, ClassInv
  <2>4. CASE StartStation /\ UNCHANGED <<config, nodes>>
    BY <2>4, ScanStart
  <2>5. ASSUME NEW n \in DOMAIN pc, Station(n), UNCHANGED <<config, nodes>>,
              DOMAIN pc' = DOMAIN pc
        PROVE  ScanInv'
    BY <2>5, ScanStation
  <2>6. QED
    BY <2>1, <2>2, <2>3, <2>4, <2>5, AppSteps
<1>3. TypeOK /\ ScanInv => ScansMatchPolls
  <2> SUFFICES ASSUME TypeOK, ScanInv, NEW n \in DOMAIN pc, nodes[n].role = "Master"
               PROVE  /\ pc[n] # "setup" => EntryOf(n).polls \cap Known \subseteq scans[n]
                      /\ \A c \in scans[n] \ Known : c \in EntryOf(n).polls /\ Entered(c)
    BY DEF ScansMatchPolls
  <2>1. n \in DOMAIN nodes /\ scans[n] \subseteq Items(n)
    BY DEF TypeOK, StationTypeOK, ParserTypeOK
  <2>2. Items(n) = EntryOf(n).polls
    BY <2>1, ItemTypes DEF TypeOK
  <2>3. QED
    BY <2>1, <2>2 DEF ScanInv, MasterInv
<1>4. QED
  BY <1>1, <1>2, <1>3, TypesInvariant, PTL DEF Spec
===============================================================================
