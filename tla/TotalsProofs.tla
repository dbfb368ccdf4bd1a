---------------------------- MODULE TotalsProofs ----------------------------
(***************************************************************************)
(* How a total follows its amounts: what it is when one of them changes,    *)
(* comes or goes, and what bounds it.                                       *)
(***************************************************************************)
EXTENDS Integers, Totals, FiniteSetTheorems, TLAPS

\* A finite function to the natural numbers.
Amounts(f) == IsFiniteSet(DOMAIN f) /\ f \in [DOMAIN f -> Nat]

\* The units of one thing.
Piece(f, i) == {i} \X (1..f[i])

\* A thing has as many units as its amount.
LEMMA PieceSize ==
  ASSUME NEW i, NEW n \in Nat
  PROVE  IsFiniteSet({i} \X (1..n)) /\ Cardinality({i} \X (1..n)) = n
<1>1. IsFiniteSet(1..n) /\ Cardinality(1..n) = n
  <2>1. 1 \in Int /\ n \in Int
    OBVIOUS
  <2>2. IsFiniteSet(1..n) /\ Cardinality(1..n) = IF 1 > n THEN 0 ELSE n - 1 + 1
    BY <2>1, FS_Interval, Zenon
  <2>3. QED
    BY <2>2
<1>2. IsFiniteSet({i}) /\ Cardinality({i}) = 1
  BY FS_Singleton, Zenon
<1>3. IsFiniteSet({i} \X (1..n)) /\ Cardinality({i} \X (1..n)) = 1 * n
  BY <1>1, <1>2, FS_Product
<1>4. QED
  BY <1>3

\* Units are pairs of a thing and a number up to its amount.
LEMMA UnitsOf ==
  ASSUME NEW f, NEW p
  PROVE  p \in Units(f) <=> \E i \in DOMAIN f : p \in Piece(f, i)
  BY DEF Units, Piece

\* There are finitely many units.
LEMMA UnitsFinite ==
  ASSUME NEW f, Amounts(f)
  PROVE  IsFiniteSet(Units(f)) /\ Total(f) \in Nat
<1> DEFINE D == DOMAIN f
           g == [i \in D |-> Piece(f, i)]
           T == {Piece(f, i) : i \in D}
<1>1. g \in Surjection(D, T)
  BY DEF Surjection
<1>2. IsFiniteSet(T)
  BY <1>1, FS_Surjection DEF Amounts
<1>3. \A X \in T : IsFiniteSet(X)
  BY PieceSize DEF Piece, Amounts
<1>4. IsFiniteSet(UNION T)
  BY <1>2, <1>3, FS_UNION
<1>5. Units(f) = UNION T
  BY DEF Units, Piece
<1>6. QED
  BY <1>4, <1>5, FS_CardinalityType DEF Total

\* What is not one thing's.
Others(f, i) == {p \in Units(f) : p[1] # i}

\* A total of two parts: the units of one thing and those of the others.
LEMMA TotalSplit ==
  ASSUME NEW f, Amounts(f), NEW i
  PROVE  /\ Cardinality(Others(f, i)) \in Nat /\ Of(f, i) \in Nat
         /\ Total(f) = Cardinality(Others(f, i)) + Of(f, i)
<1> DEFINE rest == Others(f, i)
           mine == {p \in Units(f) : p[1] = i}
<1>1. IsFiniteSet(Units(f))
  BY UnitsFinite
<1>2. /\ IsFiniteSet(rest) /\ IsFiniteSet(mine)
      /\ Cardinality(rest) \in Nat /\ Cardinality(mine) \in Nat
  BY <1>1, FS_Subset, FS_CardinalityType DEF Others
<1>3. Of(f, i) \in Nat /\ Cardinality(mine) = Of(f, i)
  <2>1. CASE i \in DOMAIN f
    <3>1. mine = Piece(f, i)
      BY <2>1 DEF Units, Piece
    <3>2. QED
      BY <2>1, <3>1, PieceSize DEF Of, Piece, Amounts
  <2>2. CASE i \notin DOMAIN f
    <3>1. mine = {}
      BY <2>2 DEF Units
    <3>2. QED
      BY <2>2, <3>1, FS_EmptySet DEF Of
  <2>3. QED
    BY <2>1, <2>2
<1>4. Units(f) = rest \cup mine /\ rest \cap mine = {}
  BY DEF Others
<1> HIDE DEF rest, mine
<1>5. Cardinality(Units(f)) = Cardinality(rest) + Cardinality(mine) - Cardinality(rest \cap mine)
  BY <1>2, <1>4, FS_Union
<1>6. Cardinality(rest \cap mine) = 0
  BY <1>4, FS_EmptySet
<1>7. Total(f) = Cardinality(rest) + Of(f, i)
  BY <1>2, <1>3, <1>5, <1>6 DEF Total
<1>8. QED
  BY <1>2, <1>3, <1>7 DEF rest

\* Whoever gives no thing more has no other units.
LEMMA FewerUnits ==
  ASSUME NEW f, NEW g, Amounts(f), Amounts(g), NEW p \in Units(f),
         Of(f, p[1]) <= Of(g, p[1])
  PROVE  p \in Units(g)
<1>1. PICK i \in DOMAIN f : p \in Piece(f, i)
  BY UnitsOf
<1>2. p[1] = i /\ p[2] \in 1..f[i] /\ p = <<i, p[2]>> /\ f[i] \in Nat
  BY <1>1 DEF Piece, Amounts
<1>3. i \in DOMAIN g /\ f[i] <= g[i] /\ g[i] \in Nat
  BY <1>2 DEF Of, Amounts
<1>4. p \in Piece(g, i)
  BY <1>2, <1>3 DEF Piece
<1>5. QED
  BY <1>3, <1>4, UnitsOf

\* Functions that give no thing more have no greater total.
LEMMA TotalLeq ==
  ASSUME NEW f, NEW g, Amounts(f), Amounts(g), \A j : Of(f, j) <= Of(g, j)
  PROVE  Total(f) <= Total(g) /\ Total(f) \in Nat /\ Total(g) \in Nat
<1>1. Units(f) \subseteq Units(g)
  BY FewerUnits
<1>2. QED
  BY <1>1, UnitsFinite, FS_Subset DEF Total

\* Functions that give the same have the same total.
LEMMA TotalSame ==
  ASSUME NEW f, NEW g, Amounts(f), Amounts(g), \A j : Of(f, j) = Of(g, j)
  PROVE  Total(f) = Total(g)
<1>1. \A j : Of(f, j) \in Nat
  BY DEF Of, Amounts
<1>2. QED
  BY <1>1, TotalLeq

\* Functions that differ at one thing have totals that differ by its amounts.
LEMMA TotalChange ==
  ASSUME NEW f, NEW g, Amounts(f), Amounts(g), NEW i,
         \A j : j # i => Of(f, j) = Of(g, j)
  PROVE  /\ Total(f) \in Nat /\ Total(g) \in Nat /\ Of(f, i) \in Nat /\ Of(g, i) \in Nat
         /\ Total(g) + Of(f, i) = Total(f) + Of(g, i)
<1>1. \A j : Of(f, j) \in Nat
  BY DEF Of, Amounts
<1>2. Others(f, i) = Others(g, i)
  BY <1>1, FewerUnits DEF Others
<1>3. QED
  BY <1>2, TotalSplit, UnitsFinite

\* What one thing has is part of the total.
LEMMA TotalHas ==
  ASSUME NEW f, Amounts(f), NEW i
  PROVE  Of(f, i) \in Nat /\ Total(f) \in Nat /\ Of(f, i) <= Total(f)
  BY TotalSplit, UnitsFinite

\* Nothing adds up to nothing.
LEMMA TotalNone ==
  ASSUME NEW f, Amounts(f), \A j \in DOMAIN f : f[j] = 0
  PROVE  Total(f) = 0
<1>1. Units(f) = {}
  BY DEF Units
<1>2. QED
  BY <1>1, FS_EmptySet DEF Total

LEMMA TotalEmpty ==
  ASSUME NEW f, DOMAIN f = {}
  PROVE  Total(f) = 0
<1>1. Units(f) = {}
  BY DEF Units
<1>2. QED
  BY <1>1, FS_EmptySet DEF Total

\* Things with at most m units each, no more than k of which have any.
LEMMA TotalBound ==
  ASSUME NEW f, Amounts(f), NEW S, IsFiniteSet(S), NEW m \in Nat, NEW k \in Nat,
         Cardinality(S) <= k,
         \A j \in DOMAIN f : f[j] <= m /\ (f[j] # 0 => j \in S)
  PROVE  Total(f) <= k * m
<1>1. IsFiniteSet(1..m) /\ Cardinality(1..m) = m
  BY PieceSize, FS_Interval
<1>2. Cardinality(S) \in Nat
  BY FS_CardinalityType
<1>3. IsFiniteSet(S \X (1..m)) /\ Cardinality(S \X (1..m)) = Cardinality(S) * m
  BY <1>1, FS_Product
<1>4. Units(f) \subseteq S \X (1..m)
  BY DEF Units, Amounts
<1>5. Total(f) <= Cardinality(S) * m
  BY <1>3, <1>4, FS_Subset DEF Total
<1>6. Total(f) \in Nat
  BY UnitsFinite
<1>7. Cardinality(S) * m <= k * m
  BY <1>2
<1>8. QED
  BY <1>2, <1>5, <1>6, <1>7

\* A part of the things.
Part(f, S) == [i \in S |-> f[i]]

\* The total over two parts is the total over the whole.
LEMMA TotalParts ==
  ASSUME NEW f, Amounts(f), NEW S, S \subseteq DOMAIN f
  PROVE  /\ Amounts(Part(f, S)) /\ Amounts(Part(f, DOMAIN f \ S))
         /\ Total(f) = Total(Part(f, S)) + Total(Part(f, DOMAIN f \ S))
<1> DEFINE R == DOMAIN f \ S
           X == Units(Part(f, S))
           Y == Units(Part(f, R))
<1>1. /\ DOMAIN Part(f, S) = S /\ DOMAIN Part(f, R) = R
      /\ \A i \in S : Part(f, S)[i] = f[i]
      /\ \A i \in R : Part(f, R)[i] = f[i]
  BY DEF Part
<1>2. IsFiniteSet(S) /\ IsFiniteSet(R)
  BY FS_Subset DEF Amounts
<1>3. Amounts(Part(f, S)) /\ Amounts(Part(f, R))
  BY <1>2 DEF Amounts, Part
<1>4. /\ \A i \in S : Piece(Part(f, S), i) = Piece(f, i)
      /\ \A i \in R : Piece(Part(f, R), i) = Piece(f, i)
  BY <1>1 DEF Piece
<1>5. Units(f) = X \cup Y
  <2>1. \A p : p \in Units(f) <=> p \in X \/ p \in Y
    <3> SUFFICES ASSUME NEW p PROVE p \in Units(f) <=> p \in X \/ p \in Y
      OBVIOUS
    <3>1. /\ p \in Units(f) <=> \E i \in DOMAIN f : p \in Piece(f, i)
          /\ p \in X <=> \E i \in S : p \in Piece(Part(f, S), i)
          /\ p \in Y <=> \E i \in R : p \in Piece(Part(f, R), i)
      BY <1>1, UnitsOf
    <3> QED
      BY <1>4, <3>1
  <2> QED
    BY <2>1
<1>6. X \cap Y = {}
  BY <1>1 DEF Units
<1>7. IsFiniteSet(X) /\ IsFiniteSet(Y)
  BY <1>3, UnitsFinite
<1>8. /\ Cardinality(X \cup Y) = Cardinality(X) + Cardinality(Y) - Cardinality(X \cap Y)
      /\ Cardinality(X) \in Nat /\ Cardinality(Y) \in Nat
  BY <1>7, FS_Union, FS_CardinalityType
<1>9. Cardinality(X \cap Y) = 0
  BY <1>6, FS_EmptySet
<1> QED
  BY <1>3, <1>5, <1>8, <1>9 DEF Total

\* The total of what comes after the first k does not depend on where it is counted from.
LEMMA TotalShift ==
  ASSUME NEW k \in Nat, NEW n \in Nat, NEW f, NEW g, Amounts(f), Amounts(g),
         DOMAIN f = (k + 1)..(k + n), DOMAIN g = 1..n,
         \A i \in 1..n : g[i] = f[k + i]
  PROVE  Total(g) = Total(f)
<1> DEFINE h == [p \in Units(g) |-> <<k + p[1], p[2]>>]
<1>1. \A i \in 1..n : k + i \in (k + 1)..(k + n) /\ i \in Nat
  OBVIOUS
<1>2. \A p : p \in Units(g) <=> \E i \in 1..n : \E u \in 1..g[i] : p = <<i, u>>
  BY DEF Units
<1>3. \A p : p \in Units(f) <=> \E j \in (k + 1)..(k + n) : \E u \in 1..f[j] : p = <<j, u>>
  BY DEF Units
<1>4. \A p \in Units(g) : h[p] \in Units(f) /\ p[1] \in Nat /\ p = <<p[1], p[2]>>
                           /\ h[p] = <<k + p[1], p[2]>>
  <2> SUFFICES ASSUME NEW p \in Units(g)
               PROVE  h[p] \in Units(f) /\ p[1] \in Nat /\ p = <<p[1], p[2]>>
                      /\ h[p] = <<k + p[1], p[2]>>
    OBVIOUS
  <2>0. PICK i \in 1..n : \E u \in 1..g[i] : p = <<i, u>>
    BY <1>2
  <2>1. PICK u \in 1..g[i] : p = <<i, u>>
    BY <2>0
  <2>2. p[1] = i /\ p[2] = u
    BY <2>1
  <2>3. k + i \in (k + 1)..(k + n) /\ u \in 1..f[k + i]
    BY <1>1
  <2>4. <<k + i, u>> \in Units(f)
    BY <1>3, <2>3
  <2> QED
    BY <2>1, <2>2, <2>4
<1>5. ASSUME NEW q \in Units(f) PROVE \E p \in Units(g) : h[p] = q
  <2>0. PICK j \in (k + 1)..(k + n) : \E u \in 1..f[j] : q = <<j, u>>
    BY <1>3
  <2>1. PICK u \in 1..f[j] : q = <<j, u>>
    BY <2>0
  <2>2. j - k \in 1..n /\ k + (j - k) = j
    BY <2>1
  <2>3. u \in 1..g[j - k]
    BY <2>2
  <2>4. <<j - k, u>> \in Units(g)
    BY <1>2, <2>2, <2>3
  <2>5. h[<<j - k, u>>] = <<k + (j - k), u>>
    BY <2>4
  <2> QED
    BY <2>1, <2>2, <2>4, <2>5
<1>6. ASSUME NEW p \in Units(g), NEW q \in Units(g), h[p] = h[q] PROVE p = q
  <2>1. k + p[1] = k + q[1] /\ p[2] = q[2]
    BY <1>4, <1>6
  <2>2. p[1] = q[1]
    <3>1. p[1] \in Nat /\ q[1] \in Nat
      BY <1>4
    <3> QED
      BY <2>1, <3>1
  <2> QED
    BY <1>4, <2>1, <2>2
<1>7. h \in Bijection(Units(g), Units(f))
  <2>1. h \in [Units(g) -> Units(f)]
    BY <1>4
  <2> HIDE DEF h
  <2>2. h \in Injection(Units(g), Units(f))
    BY <1>6, <2>1 DEF Injection, IsInjective
  <2>3. h \in Surjection(Units(g), Units(f))
    BY <1>5, <2>1 DEF Surjection
  <2> QED
    BY <2>2, <2>3 DEF Bijection
<1>8. IsFiniteSet(Units(g))
  BY UnitsFinite
<1> QED
  <2>1. ExistsBijection(Units(g), Units(f))
    BY <1>7 DEF ExistsBijection
  <2> QED
    BY <1>8, <2>1, FS_Bijection DEF Total
=============================================================================
