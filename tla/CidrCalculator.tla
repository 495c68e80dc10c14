---------------------------- MODULE CidrCalculator ----------------------------
(***************************************************************************)
(* How the dnp3 generator walks through the addresses of a CIDR block: the *)
(* constructor finds the network address, and GetNextIpAddress counts up   *)
(* from it.  Octets have Bits bits: 8 in the code, fewer for TLC.          *)
(***************************************************************************)
EXTENDS Integers

CONSTANT Bits

ASSUME BitsAssumption == Bits \in 2..8

Power == <<1, 2, 4, 8, 16, 32, 64, 128, 256>>  \* Power[n + 1] is 1 << n

OctetSize == Power[Bits + 1]
MaxOctet == OctetSize - 2                      \* 254
Addresses == [1..4 -> 0..(OctetSize - 1)]
Prefixes == 0..(4 * Bits)

\* How many values octet i may take in a block: 256 - netMask[i].
HostSize(prefix, i) ==
    LET free == i * Bits - prefix
    IN Power[1 + (IF free < 0 THEN 0 ELSE IF free > Bits THEN Bits ELSE free)]

\* addr & netMask.
NetworkAddr(addr, prefix) ==
    [i \in 1..4 |-> addr[i] - (addr[i] % HostSize(prefix, i))]

\* Mutant: an octet is left one value too early.
CarriedEarly(addr, i) == \A j \in (i + 1)..4 : addr[j] >= MaxOctet - 1

\* Mutant: the last octet runs round and round.
CarriedNever(addr, i) == i = 4

\* The count has run over every octet behind octet i.
Carried(addr, i) == \A j \in (i + 1)..4 : addr[j] >= MaxOctet

\* An octet that has run over: the last starts at 1, the first stays.
Restart(addr, i) == IF i = 4 THEN 1 ELSE IF i = 1 THEN addr[1] ELSE 0

GetNextIpAddress(addr) ==
    [i \in 1..4 |-> IF ~Carried(addr, i) THEN addr[i]
                    ELSE IF addr[i] < MaxOctet THEN addr[i] + 1
                    ELSE Restart(addr, i)]

-------------------------------------------------------------------------------
(* What the addresses are measured by *)

\* addr belongs to the block whose network address is net.
InBlock(addr, net, prefix) ==
    \A i \in 1..4 : addr[i] \in net[i]..(net[i] + HostSize(prefix, i) - 1)

\* "exclude ending in .0 and .255 or having .255 in any octet"
\* (tests/MasterTest.cpp:8-9).
Safe(addr) == addr[4] # 0 /\ \A i \in 1..4 : addr[i] <= MaxOctet

\* The count can go no further: the next address is one given out before.
Top(addr) == \A i \in 1..4 : addr[i] >= MaxOctet

\* The order of addresses.
Before(a, b) == \E i \in 1..4 : /\ a[i] < b[i]
                                /\ \A j \in 1..(i - 1) : a[j] = b[j]
===============================================================================
