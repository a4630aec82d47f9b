---------------------------- MODULE TotalsProofs ----------------------------
(***************************************************************************)
(* What the solvency proofs need to know about Total: it is a natural      *)
(* number, it bounds each summand, and changing one summand changes it by  *)
(* the difference.                                                         *)
(***************************************************************************)
EXTENDS Totals, FiniteSetTheorems, TLAPS

\* One member's column of units has as many elements as the member's value.
LEMMA ColumnSize ==
    ASSUME NEW k, NEW n \in Nat
    PROVE  IsFiniteSet({k} \X (1 .. n)) /\ Cardinality({k} \X (1 .. n)) = n
<1>1. IsFiniteSet(1 .. n) /\ Cardinality(1 .. n) = n
  BY FS_Interval
<1>2. IsFiniteSet({k}) /\ Cardinality({k}) = 1
  BY FS_Singleton
<1>3. QED
  BY <1>1, <1>2, FS_Product

\* The units of a function on a finite set are finitely many.
LEMMA UnitsFinite ==
    ASSUME NEW S, IsFiniteSet(S), NEW h \in [S -> Nat]
    PROVE  IsFiniteSet(Units(h))
<1> DEFINE column == [k \in S |-> {k} \X (1 .. h[k])]
           Columns == {{k} \X (1 .. h[k]) : k \in S}
<1>1. column \in Surjection(S, Columns)
  BY Zenon DEF Surjection
<1>2. IsFiniteSet(Columns)
  BY <1>1, FS_Surjection, Zenon
<1>3. ASSUME NEW T \in Columns PROVE IsFiniteSet(T)
  <2>1. PICK k \in S : T = {k} \X (1 .. h[k])
    BY Zenon
  <2>2. h[k] \in Nat
    BY Zenon
  <2>3. QED
    BY <2>1, <2>2, ColumnSize, Zenon
<1>4. Units(h) = UNION Columns
  BY Zenon DEF Units
<1>5. QED
  BY <1>2, <1>3, <1>4, FS_UNION, Zenon

\* Membership in Units, in the form the proofs below use.
LEMMA UnitsMember ==
    ASSUME NEW S, NEW h \in [S -> Nat], NEW u
    PROVE  u \in Units(h) <=> \E j \in S : u \in {j} \X (1 .. h[j])
BY Zenon DEF Units

\* A total of natural numbers is a natural number.
LEMMA TotalNat ==
    ASSUME NEW S, IsFiniteSet(S), NEW h \in [S -> Nat]
    PROVE  Total(h) \in Nat
BY UnitsFinite, FS_CardinalityType, Zenon DEF Total

\* A total of zeros is zero.
LEMMA TotalZero ==
    ASSUME NEW S, NEW h \in [S -> Nat], \A j \in S : h[j] = 0
    PROVE  Total(h) = 0
<1>1. ASSUME NEW j \in S, NEW u \in {j} \X (1 .. h[j])
      PROVE  FALSE
  <2>1. h[j] = 0
    BY Zenon
  <2>2. 1 .. h[j] = {}
    BY <2>1, SMT
  <2>3. QED
    BY <2>2
<1>2. Units(h) = {}
  BY <1>1, UnitsMember, Zenon
<1>3. QED
  BY <1>2, FS_EmptySet, Zenon DEF Total

\* The total splits into one member's value and the units of the others.
LEMMA TotalSplit ==
    ASSUME NEW S, IsFiniteSet(S), NEW h \in [S -> Nat], NEW k \in S
    PROVE  LET rest == {u \in Units(h) : u[1] # k}
           IN  /\ Cardinality(rest) \in Nat
               /\ Total(h) = Cardinality(rest) + h[k]
<1> DEFINE rest == {u \in Units(h) : u[1] # k}
           col == {k} \X (1 .. h[k])
<1>1. IsFiniteSet(Units(h))
  BY UnitsFinite
<1>2. IsFiniteSet(rest) /\ Cardinality(rest) \in Nat
  <2>1. rest \in SUBSET Units(h)
    BY Zenon
  <2>2. QED
    BY <1>1, <2>1, FS_Subset, FS_CardinalityType, Zenon
<1>3. h[k] \in Nat
  BY Zenon
<1>4. IsFiniteSet(col) /\ Cardinality(col) = h[k]
  BY <1>3, ColumnSize, Zenon
<1>5. Units(h) = rest \cup col
  <2>1. ASSUME NEW u \in Units(h) PROVE u \in rest \cup col
    <3>1. PICK j \in S : u \in {j} \X (1 .. h[j])
      BY UnitsMember, Zenon
    <3>2. CASE j = k
      BY <3>1, <3>2, Zenon
    <3>3. CASE j # k
      <4>1. u[1] = j
        BY <3>1
      <4>2. QED
        BY <4>1, <3>3, Zenon
    <3>4. QED
      BY <3>2, <3>3, Zenon
  <2>2. ASSUME NEW u \in rest \cup col PROVE u \in Units(h)
    BY UnitsMember, Zenon
  <2>3. QED
    BY <2>1, <2>2, Zenon
<1>6. rest \cap col = {}
  <2>1. \A u \in col : u[1] = k
    BY SMT
  <2>2. QED
    BY <2>1, Zenon
<1>7. Cardinality(rest \cup col) = Cardinality(rest) + Cardinality(col) - Cardinality({})
  <2> HIDE DEF rest, col
  <2>1. Cardinality(rest \cup col) =
          Cardinality(rest) + Cardinality(col) - Cardinality(rest \cap col)
    BY <1>2, <1>4, FS_Union
  <2>2. QED
    BY <2>1, <1>6, Zenon
<1>8. Cardinality({}) = 0
  BY FS_EmptySet, Zenon
<1>9. Total(h) = Cardinality(rest) + h[k]
  <2> HIDE DEF rest, col
  <2> QED
    BY <1>2, <1>3, <1>4, <1>5, <1>7, <1>8, SMT DEF Total
<1>10. QED
  BY <1>2, <1>9, Zenon

\* Each summand is at most the total.
LEMMA TotalBound ==
    ASSUME NEW S, IsFiniteSet(S), NEW h \in [S -> Nat], NEW k \in S
    PROVE  h[k] <= Total(h)
<1> DEFINE n == Cardinality({u \in Units(h) : u[1] # k})
<1>1. n \in Nat /\ Total(h) = n + h[k]
  BY TotalSplit, Zenon
<1> HIDE DEF n
<1>2. h[k] \in Nat
  BY Zenon
<1>3. QED
  BY <1>1, <1>2, SMT

\* Changing one summand changes the total by the difference.
LEMMA TotalUpdate ==
    ASSUME NEW S, IsFiniteSet(S), NEW h \in [S -> Nat], NEW g \in [S -> Nat],
           NEW k \in S, \A j \in S \ {k} : g[j] = h[j]
    PROVE  Total(g) = Total(h) - h[k] + g[k]
<1> DEFINE Rest(f) == {u \in Units(f) : u[1] # k}
<1>1. ASSUME NEW f1 \in [S -> Nat], NEW f2 \in [S -> Nat],
             \A j \in S \ {k} : f1[j] = f2[j]
      PROVE  Rest(f1) \subseteq Rest(f2)
  <2> SUFFICES ASSUME NEW u \in Units(f1), u[1] # k
               PROVE  u \in Units(f2)
    BY Zenon
  <2>1. PICK j \in S : u \in {j} \X (1 .. f1[j])
    BY UnitsMember, Zenon
  <2>2. u[1] = j
    BY <2>1
  <2>3. f1[j] = f2[j]
    BY <2>2, <1>1, Zenon
  <2>4. QED
    BY <2>1, <2>3, UnitsMember, Zenon
<1>2. Rest(g) = Rest(h)
  BY <1>1, Zenon
<1> DEFINE n == Cardinality(Rest(h))
<1>3. n \in Nat /\ Total(h) = n + h[k]
  BY TotalSplit, Zenon
<1>4. Total(g) = n + g[k]
  BY <1>2, TotalSplit, Zenon
<1> HIDE DEF n
<1>5. h[k] \in Nat /\ g[k] \in Nat
  BY Zenon
<1>6. QED
  BY <1>3, <1>4, <1>5, SMT

=============================================================================
