------------------------------- MODULE FoldFacts -------------------------------
(***************************************************************************)
(* Induction over the naturals, and what recursion over a sequence         *)
(* defines: facts that the proofs about folds rest on.  They are about     *)
(* sets and functions, since no prover here instantiates an operator.      *)
(***************************************************************************)
EXTENDS SequencesExt, FiniteSetTheorems, WellFoundedInduction, TLAPS

\* A set that has 0, and n + 1 if it has n, has all naturals: otherwise the
\* least that it lacks would have one below it that it lacks as well.
LEMMA NatInduct ==
  ASSUME NEW S, 0 \in S, \A n \in Nat : n \in S => n + 1 \in S
  PROVE  Nat \subseteq S
<1> DEFINE T == Nat \ S
           R == OpToRel(<, Nat)
<1> SUFFICES ASSUME T # {} PROVE FALSE
  OBVIOUS
<1>1. PICK x \in T : \A y \in T : ~ (<<y, x>> \in R)
  <2>1. IsWellFoundedOn(R, Nat)
    BY NatLessThanWellFounded
  <2> HIDE DEF R
  <2>2. T \subseteq Nat
    OBVIOUS
  <2> HIDE DEF T
  <2> QED BY <2>1, <2>2, WFMin
<1>2. x # 0 /\ x - 1 \in Nat /\ x - 1 \notin S
  OBVIOUS
<1>3. <<x - 1, x>> \in R
  BY <1>2 DEF OpToRel
<1> QED BY <1>1, <1>2, <1>3

\* The greatest of a set of numbers that has n and none above it.
LEMMA MaxIs ==
  ASSUME NEW n \in Nat, NEW s \in SUBSET (1..n), n \in s
  PROVE  Max(s) = n
<1>1. \A y \in s : n >= y
  OBVIOUS
<1>2. Max(s) \in s /\ \A y \in s : Max(s) >= y
  BY <1>1 DEF Max
<1>3. Max(s) \in 1..n /\ n >= Max(s) /\ Max(s) >= n
  BY <1>1, <1>2
<1> QED BY <1>3

\* The greatest of a finite set of numbers, not empty, is one of them.
LEMMA MaxIn ==
  ASSUME NEW n \in Nat, NEW s \in SUBSET (1..n), s # {}
  PROVE  Max(s) \in s
<1> DEFINE Bounded == {k \in Nat : \A t \in SUBSET (1..k) : t # {} => Max(t) \in t}
<1>1. 0 \in Bounded
  <2>1. 1..0 = {}
    OBVIOUS
  <2> QED BY <2>1
<1>2. ASSUME NEW k \in Nat, k \in Bounded PROVE k + 1 \in Bounded
  <2> SUFFICES ASSUME NEW t \in SUBSET (1..(k + 1)), t # {} PROVE Max(t) \in t
    OBVIOUS
  <2>1. CASE k + 1 \in t
    BY <2>1, MaxIs
  <2>2. CASE k + 1 \notin t
    <3>1. t \in SUBSET (1..k)
      BY <2>2
    <3> QED BY <1>2, <3>1
  <2> QED BY <2>1, <2>2
<1> HIDE DEF Bounded
<1>3. n \in Bounded
  BY <1>1, <1>2, NatInduct
<1> QED BY <1>3 DEF Bounded

\* The recursion of MapThenFoldSet over the indices of a sequence, with G[i]
\* for what is done at i, has a solution.
Solves(h, k, a, G) ==
    \A s \in SUBSET (1..k) : h[s] = IF s = {} THEN a ELSE G[Max(s)][h[s \ {Max(s)}]]

Solvable(S, k, a, G) == \E h \in [SUBSET (1..k) -> S] : Solves(h, k, a, G)

LEMMA FoldExists ==
  ASSUME NEW S, NEW a \in S, NEW n \in Nat, NEW G \in [1..n -> [S -> S]]
  PROVE  Solvable(S, n, a, G)
<1> DEFINE K == {k \in Nat : k <= n => Solvable(S, k, a, G)}
<1>1. 0 \in K
  <2> DEFINE h == [s \in SUBSET (1..0) |-> a]
  <2>1. h \in [SUBSET (1..0) -> S] /\ Solves(h, 0, a, G)
    BY DEF Solves
  <2> QED BY <2>1 DEF Solvable
<1>2. ASSUME NEW k \in Nat, k \in K PROVE k + 1 \in K
  <2> SUFFICES ASSUME k + 1 <= n
               PROVE  Solvable(S, k + 1, a, G)
    OBVIOUS
  <2>1. PICK g \in [SUBSET (1..k) -> S] : Solves(g, k, a, G)
    <3>1. k <= n
      OBVIOUS
    <3> QED BY <1>2, <3>1 DEF Solvable
  <2> DEFINE h == [s \in SUBSET (1..(k + 1)) |->
                      IF k + 1 \in s THEN G[k + 1][g[s \ {k + 1}]] ELSE g[s]]
  <2>2. ASSUME NEW s \in SUBSET (1..(k + 1))
        PROVE  /\ k + 1 \in s => s \ {k + 1} \in SUBSET (1..k)
               /\ k + 1 \notin s => s \in SUBSET (1..k)
    OBVIOUS
  <2>3. G[k + 1] \in [S -> S]
    OBVIOUS
  <2>4. h \in [SUBSET (1..(k + 1)) -> S]
    BY <2>2, <2>3
  <2>5. ASSUME NEW s \in SUBSET (1..k) PROVE h[s] = g[s] /\ s \in SUBSET (1..(k + 1))
    OBVIOUS
  <2>6. ASSUME NEW s \in SUBSET (1..(k + 1))
        PROVE  h[s] = IF s = {} THEN a ELSE G[Max(s)][h[s \ {Max(s)}]]
    <3>1. CASE k + 1 \in s
      <4>1. Max(s) = k + 1
        BY <3>1, MaxIs
      <4>2. h[s] = G[k + 1][g[s \ {k + 1}]]
        BY <3>1
      <4>3. h[s \ {k + 1}] = g[s \ {k + 1}]
        BY <2>2, <2>5, <3>1
      <4> HIDE DEF h
      <4> QED BY <3>1, <4>1, <4>2, <4>3
    <3>2. CASE k + 1 \notin s
      <4>1. s \in SUBSET (1..k) /\ h[s] = g[s]
        BY <2>2, <2>5, <3>2
      <4>2. g[s] = IF s = {} THEN a ELSE G[Max(s)][g[s \ {Max(s)}]]
        BY <2>1, <4>1 DEF Solves
      <4>3. h[s \ {Max(s)}] = g[s \ {Max(s)}]
        BY <2>5, <4>1
      <4> HIDE DEF h
      <4> QED BY <4>1, <4>2, <4>3
    <3> QED BY <3>1, <3>2
  <2> HIDE DEF h
  <2> QED BY <2>4, <2>6 DEF Solves, Solvable
<1> HIDE DEF K
<1>3. n \in K
  BY <1>1, <1>2, NatInduct
<1> QED BY <1>3 DEF K

-------------------------------------------------------------------------------
(* Recursion from one element to the next *)

\* A recursion over 1..n that goes from one element to the next.
Iterates(f, n, a, G) == f[0] = a /\ \A i \in 1..n : f[i] = G[i][f[i - 1]]

Iterable(S, n, a, G) == \E f \in [0..n -> S] : Iterates(f, n, a, G)

\* A function that solves the recursion exists, whatever is done at each step.
LEMMA IterationExists ==
  ASSUME NEW S, NEW a \in S, NEW n \in Nat, NEW G \in [1..n -> [S -> S]]
  PROVE  Iterable(S, n, a, G)
<1> DEFINE K == {k \in Nat : k <= n => Iterable(S, k, a, G)}
<1>1. 0 \in K
  <2> DEFINE f == [i \in 0..0 |-> a]
  <2>1. f \in [0..0 -> S] /\ Iterates(f, 0, a, G)
    BY DEF Iterates
  <2> QED BY <2>1 DEF Iterable
<1>2. ASSUME NEW k \in Nat, k \in K PROVE k + 1 \in K
  <2> SUFFICES ASSUME k + 1 <= n PROVE Iterable(S, k + 1, a, G)
    OBVIOUS
  <2>1. PICK g \in [0..k -> S] : Iterates(g, k, a, G)
    <3>1. k <= n
      OBVIOUS
    <3> QED BY <1>2, <3>1 DEF Iterable
  <2> DEFINE f == [i \in 0..(k + 1) |-> IF i = k + 1 THEN G[k + 1][g[k]] ELSE g[i]]
  <2>2. G[k + 1] \in [S -> S] /\ g[k] \in S
    OBVIOUS
  <2>3. f \in [0..(k + 1) -> S]
    BY <2>2
  <2>4. f[0] = a
    BY <2>1 DEF Iterates
  <2>5. ASSUME NEW i \in 1..(k + 1) PROVE f[i] = G[i][f[i - 1]]
    <3>1. CASE i = k + 1
      BY <3>1
    <3>2. CASE i # k + 1
      BY <2>1, <3>2 DEF Iterates
    <3> QED BY <3>1, <3>2
  <2> HIDE DEF f
  <2>6. Iterates(f, k + 1, a, G)
    BY <2>4, <2>5 DEF Iterates
  <2> QED BY <2>3, <2>6 DEF Iterable
<1> HIDE DEF K
<1>3. n \in K
  BY <1>1, <1>2, NatInduct
<1> QED BY <1>3 DEF K

-------------------------------------------------------------------------------
(* FlattenSeq *)

\* f[i]: the first i sequences, one after the other.
Joins(f, ss) ==
    /\ f[0] = <<>>
    /\ f[Len(ss)] = FlattenSeq(ss)
    /\ \A i \in 1..Len(ss) : f[i] = f[i - 1] \o ss[i]

\* FlattenSeq, a CHOOSE over what solves a recursion, is the end of such an f.
LEMMA FlattenJoins ==
  ASSUME NEW X, NEW ss \in Seq(Seq(X))
  PROVE  \E f \in [0..Len(ss) -> Seq(X)] : Joins(f, ss)
<1>0. PICK n \in Nat : n = Len(ss)
  OBVIOUS
<1> DEFINE S == Seq(X)
           G == [i \in 1..n |-> [v \in S |-> v \o ss[i]]]
           Fits(h) == h = [i \in 1..n |-> IF i = 1 THEN ss[i] ELSE h[i - 1] \o ss[i]]
           h == CHOOSE h : Fits(h)
<1>1. <<>> \in S /\ \A i \in 1..n : ss[i] \in S
  BY <1>0
<1>2. G \in [1..n -> [S -> S]]
  BY <1>1
<1>3. \A i \in 1..n, v \in S : G[i][v] = v \o ss[i]
  OBVIOUS
<1> HIDE DEF G, S
<1>4. PICK f \in [0..n -> S] : Iterates(f, n, <<>>, G)
  BY <1>1, <1>2, IterationExists DEF Iterable
<1>5. f[0] = <<>> /\ \A i \in 1..n : f[i] = f[i - 1] \o ss[i]
  <2>1. ASSUME NEW i \in 1..n PROVE f[i - 1] \in S
    OBVIOUS
  <2> QED BY <1>1, <1>3, <1>4, <2>1 DEF Iterates
<1>6. \E g : Fits(g)
  <2> DEFINE g == [i \in 1..n |-> f[i]]
  <2>1. ASSUME NEW i \in 1..n PROVE g[i] = IF i = 1 THEN ss[i] ELSE g[i - 1] \o ss[i]
    <3>1. f[i] = f[i - 1] \o ss[i]
      BY <1>5
    <3>2. CASE i = 1
      <4>1. ss[1] \in Seq(X)
        BY <1>1, <3>2 DEF S
      <4>2. <<>> \o ss[1] = ss[1]
        BY <4>1
      <4>3. i - 1 = 0 /\ g[i] = f[i]
        BY <3>2
      <4>4. f[i] = <<>> \o ss[i]
        BY <1>5, <3>1, <4>3
      <4> HIDE DEF g
      <4> QED BY <3>2, <4>2, <4>3, <4>4
    <3>3. CASE i # 1
      <4>1. i - 1 \in 1..n /\ g[i - 1] = f[i - 1] /\ g[i] = f[i]
        BY <3>3
      <4> HIDE DEF g
      <4> QED BY <3>1, <3>3, <4>1
    <3> QED BY <3>2, <3>3
  <2>2. Fits(g)
    BY <2>1
  <2> QED BY <2>2
<1>7. Fits(h)
  BY <1>6
<1>8. n # 0 => FlattenSeq(ss) = h[n]
  BY <1>0 DEF FlattenSeq
<1>9. n = 0 => FlattenSeq(ss) = <<>>
  <2> SUFFICES ASSUME n = 0 PROVE FlattenSeq(ss) = <<>>
    OBVIOUS
  <2>1. ss = <<>>
    BY <1>0
  <2> QED BY <2>1 DEF FlattenSeq
<1> HIDE DEF h
<1> DEFINE K == {k \in Nat : k + 1 <= n => h[k + 1] = f[k + 1]}
<1>10. 0 \in K
  <2> SUFFICES ASSUME 1 <= n PROVE h[1] = f[1]
    OBVIOUS
  <2>1. h[1] = ss[1]
    BY <1>1, <1>7
  <2>2. f[1] = <<>> \o ss[1]
    <3>1. 1 \in 1..n /\ 1 - 1 = 0
      OBVIOUS
    <3> QED BY <1>5, <3>1
  <2>3. ss[1] \in Seq(X)
    BY <1>1 DEF S
  <2>4. <<>> \o ss[1] = ss[1]
    BY <2>3
  <2> QED BY <2>1, <2>2, <2>4
<1>11. ASSUME NEW k \in Nat, k \in K PROVE k + 1 \in K
  <2> SUFFICES ASSUME (k + 1) + 1 <= n PROVE h[(k + 1) + 1] = f[(k + 1) + 1]
    OBVIOUS
  <2>1. k + 1 <= n /\ (k + 1) + 1 \in 1..n /\ ((k + 1) + 1) - 1 = k + 1 /\ (k + 1) + 1 # 1
    BY <1>1
  <2>2. h[(k + 1) + 1] = h[k + 1] \o ss[(k + 1) + 1]
    BY <1>7, <2>1
  <2>3. f[(k + 1) + 1] = f[k + 1] \o ss[(k + 1) + 1]
    BY <1>5, <2>1
  <2> QED BY <1>11, <2>1, <2>2, <2>3
<1>12. n # 0 => h[n] = f[n]
  <2> HIDE DEF K
  <2>1. Nat \subseteq K
    BY <1>10, <1>11, NatInduct
  <2> SUFFICES ASSUME n # 0 PROVE h[n] = f[n]
    OBVIOUS
  <2>2. n - 1 \in K /\ (n - 1) + 1 = n
    BY <1>1, <2>1
  <2> QED BY <2>2 DEF K
<1>13. Joins(f, ss)
  BY <1>0, <1>5, <1>8, <1>9, <1>12 DEF Joins
<1> QED BY <1>0, <1>13 DEF S

LEMMA FlattenType ==
  ASSUME NEW X, NEW ss \in Seq(Seq(X)) PROVE FlattenSeq(ss) \in Seq(X)
<1>1. PICK f \in [0..Len(ss) -> Seq(X)] : Joins(f, ss)
  BY FlattenJoins
<1> QED BY <1>1 DEF Joins

LEMMA FlattenNone == FlattenSeq(<<>>) = <<>>
  BY DEF FlattenSeq

\* One more sequence goes to the end.
LEMMA FlattenAppend ==
  ASSUME NEW X, NEW ss \in Seq(Seq(X)), NEW s \in Seq(X)
  PROVE  FlattenSeq(Append(ss, s)) = FlattenSeq(ss) \o s
<1>0. PICK n \in Nat : n = Len(ss)
  OBVIOUS
<1> DEFINE tt == Append(ss, s)
<1>1. /\ tt \in Seq(Seq(X)) /\ Len(tt) = n + 1
      /\ tt[n + 1] = s /\ \A i \in 1..n : tt[i] = ss[i]
  BY <1>0
<1> HIDE DEF tt
<1>2. PICK f \in [0..n -> Seq(X)] : Joins(f, ss)
  BY <1>0, FlattenJoins
<1>3. PICK g \in [0..(n + 1) -> Seq(X)] : Joins(g, tt)
  BY <1>1, FlattenJoins
<1> DEFINE K == {k \in Nat : k <= n => g[k] = f[k]}
<1>4. 0 \in K
  BY <1>0, <1>2, <1>3 DEF Joins
<1>5. ASSUME NEW k \in Nat, k \in K PROVE k + 1 \in K
  <2> SUFFICES ASSUME k + 1 <= n PROVE g[k + 1] = f[k + 1]
    OBVIOUS
  <2>1. k <= n /\ k + 1 \in 1..n /\ k + 1 \in 1..(n + 1) /\ (k + 1) - 1 = k
    BY <1>1
  <2>2. g[k + 1] = g[k] \o tt[k + 1]
    BY <1>1, <1>3, <2>1 DEF Joins
  <2>3. f[k + 1] = f[k] \o ss[k + 1]
    BY <1>0, <1>2, <2>1 DEF Joins
  <2> QED BY <1>1, <1>5, <2>1, <2>2, <2>3
<1> HIDE DEF K
<1>6. n \in K
  BY <1>1, <1>4, <1>5, NatInduct
<1>7. g[n + 1] = g[n] \o s
  <2>1. n + 1 \in 1..(n + 1) /\ (n + 1) - 1 = n
    OBVIOUS
  <2> QED BY <1>1, <1>3, <2>1 DEF Joins
<1>8. g[n] = f[n]
  BY <1>1, <1>6 DEF K
<1>9. FlattenSeq(ss) = f[n] /\ FlattenSeq(tt) = g[n + 1]
  BY <1>0, <1>1, <1>2, <1>3 DEF Joins
<1> QED BY <1>7, <1>8, <1>9 DEF tt

\* The first n of the sequences G, one after the other.
Gathered(G, n) == FlattenSeq([i \in 1..n |-> G[i]])

LEMMA GatheredType ==
  ASSUME NEW X, NEW n \in Nat, NEW G, \A i \in 1..n : G[i] \in Seq(X)
  PROVE  Gathered(G, n) \in Seq(X)
<1>1. [i \in 1..n |-> G[i]] \in Seq(Seq(X))
  OBVIOUS
<1> QED BY <1>1, FlattenType DEF Gathered

LEMMA GatheredNone == ASSUME NEW G PROVE Gathered(G, 0) = <<>>
<1>1. [i \in 1..0 |-> G[i]] = <<>>
  OBVIOUS
<1> QED BY <1>1, FlattenNone DEF Gathered

LEMMA GatheredNext ==
  ASSUME NEW X, NEW n \in Nat, NEW G, \A i \in 1..(n + 1) : G[i] \in Seq(X)
  PROVE  Gathered(G, n + 1) = Gathered(G, n) \o G[n + 1]
<1> DEFINE ss == [i \in 1..n |-> G[i]]
           tt == [i \in 1..(n + 1) |-> G[i]]
<1>1. ss \in Seq(Seq(X)) /\ G[n + 1] \in Seq(X)
  OBVIOUS
<1>2. tt = Append(ss, G[n + 1])
  OBVIOUS
<1> HIDE DEF ss, tt
<1>3. FlattenSeq(tt) = FlattenSeq(ss) \o G[n + 1]
  BY <1>1, <1>2, FlattenAppend
<1> QED BY <1>3 DEF Gathered, ss, tt

-------------------------------------------------------------------------------
(* Sequences that are mapped, and those with one element or none *)

\* What a function makes of the elements of a sequence, joined.
Mapped(F, s) == FlattenSeq([j \in 1..Len(s) |-> F[s[j]]])

LEMMA MappedNone == ASSUME NEW F PROVE Mapped(F, <<>>) = <<>>
<1>1. [j \in 1..0 |-> F[<<>>[j]]] = <<>>
  OBVIOUS
<1> QED BY <1>1, FlattenNone DEF Mapped

Maps(F, Y, X) == F \in [Y -> Seq(X)]

LEMMA MappedType ==
  ASSUME NEW X, NEW Y, NEW F, Maps(F, Y, X), NEW s \in Seq(Y)
  PROVE  Mapped(F, s) \in Seq(X)
<1>1. PICK n \in Nat : n = Len(s)
  OBVIOUS
<1>2. \A j \in 1..n : F[s[j]] \in Seq(X)
  BY <1>1 DEF Maps
<1>3. [j \in 1..n |-> F[s[j]]] \in Seq(Seq(X))
  BY <1>2
<1> QED BY <1>1, <1>3, FlattenType DEF Mapped

\* One more element adds what F makes of it.
Extends(F, Y) ==
    \A s \in Seq(Y), y \in Y : Mapped(F, s \o <<y>>) = Mapped(F, s) \o F[y]

LEMMA MappedNext ==
  ASSUME NEW X, NEW Y, NEW F, Maps(F, Y, X) PROVE Extends(F, Y)
<1> SUFFICES ASSUME NEW s \in Seq(Y), NEW y \in Y
             PROVE  Mapped(F, s \o <<y>>) = Mapped(F, s) \o F[y]
  BY DEF Extends
<1>0. PICK n \in Nat : n = Len(s)
  OBVIOUS
<1> DEFINE t == s \o <<y>>
<1>1. Len(t) = n + 1 /\ t[n + 1] = y /\ \A j \in 1..n : t[j] = s[j] /\ s[j] \in Y
  BY <1>0
<1> HIDE DEF t
<1> DEFINE ss == [j \in 1..n |-> F[s[j]]]
           tt == [j \in 1..(n + 1) |-> F[t[j]]]
<1>2. ss \in Seq(Seq(X)) /\ F[y] \in Seq(X)
  BY <1>1 DEF Maps
<1>3. tt = Append(ss, F[y])
  <2>1. Len(ss) = n
    OBVIOUS
  <2>2. Append(ss, F[y]) = [j \in 1..(n + 1) |-> IF j = n + 1 THEN F[y] ELSE ss[j]]
    BY <1>2, <2>1
  <2>3. ASSUME NEW j \in 1..(n + 1)
        PROVE  F[t[j]] = IF j = n + 1 THEN F[y] ELSE ss[j]
    <3>1. CASE j = n + 1
      BY <1>1, <3>1
    <3>2. CASE j # n + 1
      <4>1. j \in 1..n
        BY <3>2
      <4> QED BY <1>1, <3>2, <4>1
    <3> QED BY <3>1, <3>2
  <2> HIDE DEF ss
  <2> QED BY <2>2, <2>3
<1> HIDE DEF ss, tt
<1>4. FlattenSeq(tt) = FlattenSeq(ss) \o F[y]
  BY <1>2, <1>3, FlattenAppend
<1>5. Mapped(F, t) = FlattenSeq(tt) /\ Mapped(F, s) = FlattenSeq(ss)
  BY <1>0, <1>1 DEF Mapped, ss, tt
<1> QED BY <1>4, <1>5 DEF t

\* Every one of the first n sequences G is empty or a single element of Y.
Singles(G, n, Y) == \A i \in 1..n : G[i] = <<>> \/ \E y \in Y : G[i] = <<y>>

LEMMA SinglesType ==
  ASSUME NEW Y, NEW n \in Nat, NEW G, Singles(G, n, Y)
  PROVE  \A i \in 1..n : G[i] \in Seq(Y)
<1>1. \A y \in Y : <<y>> \in Seq(Y)
  OBVIOUS
<1>2. <<>> \in Seq(Y)
  OBVIOUS
<1> QED BY <1>1, <1>2 DEF Singles

\* With the next of G, its element is added, if it has one.
Grows(G, n, Y) ==
    \A k \in Nat : k + 1 <= n =>
        /\ Gathered(G, k) \in Seq(Y)
        /\ Gathered(G, k + 1) = Gathered(G, k) \o G[k + 1]
        /\ G[k + 1] = <<>> => Gathered(G, k + 1) = Gathered(G, k)

LEMMA SinglesNext ==
  ASSUME NEW Y, NEW n \in Nat, NEW G, Singles(G, n, Y) PROVE Grows(G, n, Y)
<1> SUFFICES ASSUME NEW k \in Nat, k + 1 <= n
             PROVE  /\ Gathered(G, k) \in Seq(Y)
                    /\ Gathered(G, k + 1) = Gathered(G, k) \o G[k + 1]
                    /\ G[k + 1] = <<>> => Gathered(G, k + 1) = Gathered(G, k)
  BY DEF Grows
<1>1. /\ \A i \in 1..(k + 1) : G[i] \in Seq(Y)
      /\ \A i \in 1..k : G[i] \in Seq(Y)
  BY SinglesType
<1>2. Gathered(G, k) \in Seq(Y)
  BY <1>1, GatheredType
<1>3. Gathered(G, k + 1) = Gathered(G, k) \o G[k + 1]
  BY <1>1, GatheredNext
<1>4. Gathered(G, k) \o <<>> = Gathered(G, k)
  BY <1>2
<1> QED BY <1>2, <1>3, <1>4

\* H[i] is what F makes of the element of C[i], if there is one.
Agrees(C, n, Y, F, H) ==
    \A i \in 1..n : /\ C[i] = <<>> => H[i] = <<>>
                    /\ \A y \in Y : C[i] = <<y>> => H[i] = F[y]

\* Mapping what has been gathered, or gathering what has been mapped.
LEMMA GatheredMapped ==
  ASSUME NEW X, NEW Y, NEW n \in Nat, NEW C, Singles(C, n, Y), NEW F, Maps(F, Y, X),
         NEW H, Agrees(C, n, Y, F, H)
  PROVE  Mapped(F, Gathered(C, n)) = Gathered(H, n)
<1>0. Extends(F, Y) /\ Grows(C, n, Y)
  BY MappedNext, SinglesNext
<1> DEFINE K == {k \in Nat : k <= n => Mapped(F, Gathered(C, k)) = Gathered(H, k)}
<1>1. 0 \in K
  BY GatheredNone, MappedNone
<1>2. ASSUME NEW k \in Nat, k \in K PROVE k + 1 \in K
  <2> SUFFICES ASSUME k + 1 <= n
               PROVE  Mapped(F, Gathered(C, k + 1)) = Gathered(H, k + 1)
    OBVIOUS
  <2>1. k <= n /\ k + 1 \in 1..n
    OBVIOUS
  <2>2. Mapped(F, Gathered(C, k)) = Gathered(H, k)
    BY <1>2, <2>1
  <2> HIDE DEF K
  <2>3. ASSUME NEW i \in 1..n PROVE H[i] \in Seq(X)
    <3>1. CASE C[i] = <<>>
      <4>1. H[i] = <<>>
        BY <3>1 DEF Agrees
      <4>2. <<>> \in Seq(X)
        OBVIOUS
      <4> QED BY <4>1, <4>2
    <3>2. CASE C[i] # <<>>
      <4>1. PICK y \in Y : C[i] = <<y>>
        BY <3>2 DEF Singles
      <4>2. H[i] = F[y]
        BY <4>1 DEF Agrees
      <4> QED BY <4>2 DEF Maps
    <3> QED BY <3>1, <3>2
  <2>4. /\ Gathered(H, k) \in Seq(X)
        /\ Gathered(H, k + 1) = Gathered(H, k) \o H[k + 1]
    <3>1. /\ \A i \in 1..(k + 1) : H[i] \in Seq(X)
          /\ \A i \in 1..k : H[i] \in Seq(X)
      BY <2>3
    <3> QED BY <3>1, GatheredType, GatheredNext
  <2>5. CASE C[k + 1] = <<>>
    <3>1. Gathered(C, k + 1) = Gathered(C, k)
      BY <1>0, <2>5 DEF Grows
    <3>2. Gathered(H, k + 1) = Gathered(H, k)
      <4>1. H[k + 1] = <<>>
        BY <2>1, <2>5 DEF Agrees
      <4>2. Gathered(H, k) \o <<>> = Gathered(H, k)
        BY <2>4
      <4> QED BY <2>4, <4>1, <4>2
    <3> QED BY <2>2, <3>1, <3>2
  <2>6. CASE C[k + 1] # <<>>
    <3>1. PICK y \in Y : C[k + 1] = <<y>>
      BY <2>1, <2>6 DEF Singles
    <3>2. Gathered(C, k + 1) = Gathered(C, k) \o <<y>> /\ Gathered(C, k) \in Seq(Y)
      <4>1. /\ Gathered(C, k) \in Seq(Y)
            /\ Gathered(C, k + 1) = Gathered(C, k) \o C[k + 1]
        BY <1>0 DEF Grows
      <4> QED BY <3>1, <4>1
    <3>3. Mapped(F, Gathered(C, k) \o <<y>>) = Mapped(F, Gathered(C, k)) \o F[y]
      BY <1>0, <3>2 DEF Extends
    <3>4. H[k + 1] = F[y]
      BY <2>1, <3>1 DEF Agrees
    <3> QED BY <2>2, <2>4, <3>2, <3>3, <3>4
  <2> QED BY <2>5, <2>6
<1> HIDE DEF K
<1>3. n \in K
  BY <1>1, <1>2, NatInduct
<1> QED BY <1>3 DEF K

\* What has been gathered is what there was.
Occurs(s, y) == \E j \in 1..Len(s) : s[j] = y
Brought(C, n, y) == \E i \in 1..n : C[i] = <<y>>

LEMMA GatheredElements ==
  ASSUME NEW Y, NEW n \in Nat, NEW C, Singles(C, n, Y), NEW y \in Y
  PROVE  Occurs(Gathered(C, n), y) <=> Brought(C, n, y)
<1>0. Grows(C, n, Y)
  BY SinglesNext
<1> DEFINE Has(s) == \E j \in 1..Len(s) : s[j] = y
           K == {k \in Nat : k <= n => (Has(Gathered(C, k)) <=> \E i \in 1..k : C[i] = <<y>>)}
<1>1. 0 \in K
  <2>1. ~Has(<<>>)
    OBVIOUS
  <2>2. 1..0 = {}
    OBVIOUS
  <2> QED BY <2>1, <2>2, GatheredNone
<1>2. ASSUME NEW k \in Nat, k \in K PROVE k + 1 \in K
  <2> SUFFICES ASSUME k + 1 <= n
               PROVE  Has(Gathered(C, k + 1)) <=> \E i \in 1..(k + 1) : C[i] = <<y>>
    OBVIOUS
  <2>1. k <= n /\ k + 1 \in 1..n
    OBVIOUS
  <2>2. Has(Gathered(C, k)) <=> \E i \in 1..k : C[i] = <<y>>
    BY <1>2, <2>1
  <2> HIDE DEF K
  <2>3. 1..(k + 1) = 1..k \cup {k + 1}
    OBVIOUS
  <2>4. CASE C[k + 1] = <<>>
    <3>1. Gathered(C, k + 1) = Gathered(C, k)
      BY <1>0, <2>4 DEF Grows
    <3>2. C[k + 1] # <<y>>
      BY <2>4
    <3> HIDE DEF Has
    <3> QED BY <2>2, <2>3, <3>1, <3>2
  <2>5. CASE C[k + 1] # <<>>
    <3>1. PICK z \in Y : C[k + 1] = <<z>>
      BY <2>1, <2>5 DEF Singles
    <3>2. Gathered(C, k + 1) = Gathered(C, k) \o <<z>> /\ Gathered(C, k) \in Seq(Y)
      <4>1. /\ Gathered(C, k) \in Seq(Y)
            /\ Gathered(C, k + 1) = Gathered(C, k) \o C[k + 1]
        BY <1>0 DEF Grows
      <4> QED BY <3>1, <4>1
    <3>3. ASSUME NEW s \in Seq(Y) PROVE Has(s \o <<z>>) <=> Has(s) \/ z = y
      <4>1. PICK m \in Nat : m = Len(s)
        OBVIOUS
      <4>2. Len(s \o <<z>>) = m + 1 /\ (s \o <<z>>)[m + 1] = z
            /\ \A j \in 1..m : (s \o <<z>>)[j] = s[j]
        BY <4>1
      <4>3. 1..(m + 1) = 1..m \cup {m + 1}
        OBVIOUS
      <4> QED BY <4>1, <4>2, <4>3
    <3>4. C[k + 1] = <<y>> <=> z = y
      BY <3>1
    <3> HIDE DEF Has
    <3>5. Has(Gathered(C, k + 1)) <=> Has(Gathered(C, k)) \/ z = y
      BY <3>2, <3>3
    <3> QED BY <2>2, <2>3, <3>4, <3>5
  <2> QED BY <2>4, <2>5
<1> HIDE DEF K
<1>3. n \in K
  BY <1>1, <1>2, NatInduct
<1> QED BY <1>3 DEF K, Occurs, Brought

\* As many are gathered as are not empty.
LEMMA GatheredLength ==
  ASSUME NEW Y, NEW n \in Nat, NEW C, Singles(C, n, Y)
  PROVE  Len(Gathered(C, n)) = Cardinality({i \in 1..n : C[i] # <<>>})
<1>0. Grows(C, n, Y)
  BY SinglesNext
<1> DEFINE Full(k) == {i \in 1..k : C[i] # <<>>}
           K == {k \in Nat : k <= n => Len(Gathered(C, k)) = Cardinality(Full(k))}
<1>1. 0 \in K
  <2>1. Full(0) = {}
    OBVIOUS
  <2> HIDE DEF Full
  <2>2. Len(<<>>) = 0
    OBVIOUS
  <2>3. Cardinality(Full(0)) = 0
    BY <2>1, FS_EmptySet
  <2>4. Gathered(C, 0) = <<>>
    BY GatheredNone
  <2> QED BY <2>2, <2>3, <2>4
<1>2. ASSUME NEW k \in Nat, k \in K PROVE k + 1 \in K
  <2> SUFFICES ASSUME k + 1 <= n
               PROVE  Len(Gathered(C, k + 1)) = Cardinality(Full(k + 1))
    OBVIOUS
  <2>1. k <= n /\ k + 1 \in 1..n
    OBVIOUS
  <2>2. Len(Gathered(C, k)) = Cardinality(Full(k))
    BY <1>2, <2>1
  <2> HIDE DEF K
  <2>3. CASE C[k + 1] = <<>>
    <3>1. Gathered(C, k + 1) = Gathered(C, k)
      BY <1>0, <2>3 DEF Grows
    <3>2. Full(k + 1) = Full(k)
      BY <2>3
    <3> HIDE DEF Full
    <3> QED BY <2>2, <3>1, <3>2
  <2>4. CASE C[k + 1] # <<>>
    <3>1. PICK y \in Y : C[k + 1] = <<y>>
      BY <2>1, <2>4 DEF Singles
    <3>2. Gathered(C, k + 1) = Gathered(C, k) \o <<y>> /\ Gathered(C, k) \in Seq(Y)
      <4>1. /\ Gathered(C, k) \in Seq(Y)
            /\ Gathered(C, k + 1) = Gathered(C, k) \o C[k + 1]
        BY <1>0 DEF Grows
      <4> QED BY <3>1, <4>1
    <3>3. Len(Gathered(C, k + 1)) = Len(Gathered(C, k)) + 1
      BY <3>2
    <3>4. Full(k + 1) = Full(k) \cup {k + 1} /\ k + 1 \notin Full(k) /\ Full(k) \subseteq 1..k
      BY <2>4
    <3> HIDE DEF Full
    <3>5. IsFiniteSet(Full(k))
      <4>1. IsFiniteSet(1..k)
        BY FS_Interval
      <4> QED BY <3>4, <4>1, FS_Subset
    <3>6. Cardinality(Full(k + 1)) = Cardinality(Full(k)) + 1
      BY <3>4, <3>5, FS_AddElement
    <3> QED BY <2>2, <3>3, <3>6
  <2> QED BY <2>3, <2>4
<1> HIDE DEF K
<1>3. n \in K
  BY <1>1, <1>2, NatInduct
<1> QED BY <1>3 DEF K
===============================================================================
