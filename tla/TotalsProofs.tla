---------------------------- MODULE TotalsProofs ----------------------------
(***************************************************************************)
(* What the sums of module Totals do when a row changes, when rows join or *)
(* leave the set, and when a debit is spread over the rows.                *)
(***************************************************************************)
EXTENDS Totals, FiniteSetTheorems, TLAPS

\* The members of Units: a unit of row l is a pair of l and a number up to f[l].
LEMMA UnitsMembers ==
    ASSUME NEW S, NEW f, NEW l, NEW i
    PROVE  <<l, i>> \in Units(f, S) <=> l \in S /\ i \in 1..f[l]
BY DEF Units

\* A sum over a finite set of rows with natural values is a natural number.
LEMMA TotalType ==
    ASSUME NEW S, IsFiniteSet(S), NEW f, \A l \in S : f[l] \in Nat
    PROVE  IsFiniteSet(Units(f, S)) /\ Total(f, S) \in Nat
<1> DEFINE unitsOf == [l \in S |-> {l} \X (1..f[l])]
           parts   == { {l} \X (1..f[l]) : l \in S }
<1>1. unitsOf \in Surjection(S, parts)
  BY DEF Surjection
<1>2. IsFiniteSet(parts)
  BY <1>1, FS_Surjection
<1>3. \A T \in parts : IsFiniteSet(T)
  <2> SUFFICES ASSUME NEW l \in S PROVE IsFiniteSet({l} \X (1..f[l]))
    OBVIOUS
  <2>1. IsFiniteSet({l})
    BY FS_Singleton
  <2>2. IsFiniteSet(1..f[l])
    BY FS_Interval
  <2> QED
    BY <2>1, <2>2, FS_Product
<1>4. IsFiniteSet(Units(f, S))
  BY <1>2, <1>3, FS_UNION DEF Units
<1> QED
  BY <1>4, FS_CardinalityType DEF Total

\* The sum depends on the values of the rows in the set only.
LEMMA TotalSame ==
    ASSUME NEW S, NEW f, NEW g, \A l \in S : f[l] = g[l]
    PROVE  Total(f, S) = Total(g, S)
<1>1. Units(f, S) = Units(g, S)
  BY DEF Units
<1> QED
  BY <1>1 DEF Total

\* The empty sum.
LEMMA TotalEmpty ==
    ASSUME NEW f
    PROVE  Total(f, {}) = 0
<1>1. Units(f, {}) = {}
  BY DEF Units
<1> QED
  BY <1>1, FS_EmptySet DEF Total

\* The sum over one row.
LEMMA TotalSingleton ==
    ASSUME NEW l, NEW f, f[l] \in Nat
    PROVE  Total(f, {l}) = f[l]
<1>1. Units(f, {l}) = {l} \X (1..f[l])
  BY DEF Units
<1>2. IsFiniteSet({l}) /\ Cardinality({l}) = 1
  BY FS_Singleton
<1>3. IsFiniteSet(1..f[l]) /\ Cardinality(1..f[l]) = f[l]
  BY FS_Interval
<1>4. Cardinality({l} \X (1..f[l])) = Cardinality({l}) * Cardinality(1..f[l])
  BY <1>2, <1>3, FS_Product
<1>5. Total(f, {l}) = Cardinality({l} \X (1..f[l]))
  BY <1>1 DEF Total
<1>6. Cardinality({l} \X (1..f[l])) = 1 * f[l]
  BY <1>2, <1>3, <1>4
<1> QED
  BY <1>5, <1>6

\* The rows of T can be summed apart from the others.
LEMMA TotalSplit ==
    ASSUME NEW S, IsFiniteSet(S), NEW T \in SUBSET S,
           NEW f, \A l \in S : f[l] \in Nat
    PROVE  Total(f, S) = Total(f, T) + Total(f, S \ T)
<1>1. IsFiniteSet(T) /\ IsFiniteSet(S \ T)
  BY FS_Subset
<1>2. IsFiniteSet(Units(f, T)) /\ IsFiniteSet(Units(f, S \ T))
  BY <1>1, TotalType
<1>3. Units(f, S) = Units(f, T) \cup Units(f, S \ T)
  BY DEF Units
<1>4. Units(f, T) \cap Units(f, S \ T) = {}
  BY DEF Units
<1>5. Cardinality({}) = 0
  BY FS_EmptySet
<1>6. Cardinality(Units(f, T)) \in Nat /\ Cardinality(Units(f, S \ T)) \in Nat
  BY <1>2, FS_CardinalityType
<1>7. Cardinality(Units(f, T) \cup Units(f, S \ T))
        = Cardinality(Units(f, T)) + Cardinality(Units(f, S \ T))
            - Cardinality(Units(f, T) \cap Units(f, S \ T))
  BY <1>2, FS_Union
<1>8. Cardinality(Units(f, T) \cap Units(f, S \ T)) = 0
  BY <1>4, <1>5
<1>9. Total(f, S) = Cardinality(Units(f, T) \cup Units(f, S \ T))
  BY <1>3 DEF Total
<1>10. /\ Total(f, T) = Cardinality(Units(f, T))
       /\ Total(f, S \ T) = Cardinality(Units(f, S \ T))
  BY DEF Total
<1> QED
  BY <1>6, <1>7, <1>8, <1>9, <1>10

\* A row outside the set is added.
LEMMA TotalAdd ==
    ASSUME NEW S, IsFiniteSet(S), NEW l, l \notin S,
           NEW f, \A m \in S \cup {l} : f[m] \in Nat
    PROVE  Total(f, S \cup {l}) = f[l] + Total(f, S)
<1>1. IsFiniteSet(S \cup {l})
  BY FS_AddElement
<1>2. (S \cup {l}) \ {l} = S
  OBVIOUS
<1>3. Total(f, S \cup {l}) = Total(f, {l}) + Total(f, (S \cup {l}) \ {l})
  BY <1>1, TotalSplit
<1> QED
  BY <1>2, <1>3, TotalSingleton

\* One row of the set changes by n.
LEMMA TotalUpdate ==
    ASSUME NEW S, IsFiniteSet(S), NEW l \in S, NEW n \in Int,
           NEW f, \A m \in S : f[m] \in Nat,
           NEW g, \A m \in S \ {l} : g[m] = f[m],
           g[l] = f[l] + n, g[l] \in Nat
    PROVE  Total(g, S) = Total(f, S) + n
<1>1. Total(f, S) = Total(f, {l}) + Total(f, S \ {l})
  BY TotalSplit
<1>2. Total(g, S) = Total(g, {l}) + Total(g, S \ {l})
  BY TotalSplit
<1>3. Total(f, {l}) = f[l] /\ Total(g, {l}) = g[l]
  BY TotalSingleton
<1>4. Total(f, S \ {l}) = Total(g, S \ {l})
  BY TotalSame
<1>5. IsFiniteSet(S \ {l})
  BY FS_RemoveElement
<1>6. Total(f, S \ {l}) \in Nat
  BY <1>5, TotalType
<1> QED
  BY <1>1, <1>2, <1>3, <1>4, <1>6

\* A debit d is taken from the rows: what they keep and what is taken make up
\* what they held.
LEMMA TotalDebit ==
    ASSUME NEW S, IsFiniteSet(S),
           NEW f, \A l \in S : f[l] \in Nat,
           NEW d, \A l \in S : d[l] \in Nat /\ d[l] <= f[l],
           NEW g, \A l \in S : g[l] = f[l] - d[l]
    PROVE  Total(f, S) = Total(d, S) + Total(g, S)
<1> DEFINE kept   == Units(f, S) \ Units(d, S)
           shift  == [u \in kept |-> <<u[1], u[2] - d[u[1]]>>]
<1>1. /\ IsFiniteSet(Units(f, S)) /\ IsFiniteSet(Units(d, S))
      /\ IsFiniteSet(Units(g, S))
  <2>1. \A l \in S : g[l] \in Nat
    OBVIOUS
  <2> QED
    BY <2>1, TotalType
<1>2. Units(d, S) \subseteq Units(f, S)
  <2>1. \A l \in S : 1..d[l] \subseteq 1..f[l]
    OBVIOUS
  <2> QED
    BY <2>1 DEF Units
<1>3. \A u \in kept : /\ u = <<u[1], u[2]>> /\ u[1] \in S
                      /\ u[2] \in d[u[1]] + 1 .. f[u[1]]
  <2> SUFFICES ASSUME NEW l \in S, NEW i \in 1..f[l], <<l, i>> \notin Units(d, S)
               PROVE  i \in d[l] + 1 .. f[l]
    BY DEF Units
  <2>1. i \notin 1..d[l]
    BY UnitsMembers
  <2> QED
    BY <2>1
<1>4. shift \in Bijection(kept, Units(g, S))
  <2>1. \A u \in kept : shift[u] \in Units(g, S)
    <3> SUFFICES ASSUME NEW u \in kept
                 PROVE  <<u[1], u[2] - d[u[1]]>> \in Units(g, S)
      OBVIOUS
    <3>1. u[1] \in S /\ u[2] - d[u[1]] \in 1..g[u[1]]
      BY <1>3
    <3> QED
      BY <3>1, UnitsMembers
  <2>2. \A u, v \in kept : shift[u] = shift[v] => u = v
    <3> SUFFICES ASSUME NEW u \in kept, NEW v \in kept,
                        <<u[1], u[2] - d[u[1]]>> = <<v[1], v[2] - d[v[1]]>>
                 PROVE  u = v
      OBVIOUS
    <3>1. u[1] = v[1] /\ u[2] - d[u[1]] = v[2] - d[u[1]]
      OBVIOUS
    <3>2. u[2] \in Int /\ v[2] \in Int /\ d[u[1]] \in Int
      BY <1>3
    <3>3. u[2] = v[2]
      BY <3>1, <3>2
    <3> QED
      BY <1>3, <3>1, <3>3
  <2>3. ASSUME NEW w \in Units(g, S) PROVE \E u \in kept : shift[u] = w
    <3>1. PICK l \in S : \E i \in 1..g[l] : w = <<l, i>>
      BY DEF Units
    <3>2. PICK i \in 1..g[l] : w = <<l, i>>
      BY <3>1
    <3>3. i + d[l] \in 1..f[l] /\ i + d[l] \notin 1..d[l] /\ i + d[l] - d[l] = i
      OBVIOUS
    <3>4. <<l, i + d[l]>> \in kept
      BY <3>3, UnitsMembers
    <3>5. shift[<<l, i + d[l]>>] = <<l, i>>
      BY <3>3, <3>4
    <3> QED
      BY <3>2, <3>4, <3>5
  <2>4. shift \in [kept -> Units(g, S)]
    BY <2>1
  <2> HIDE DEF kept, shift
  <2>5. shift \in Injection(kept, Units(g, S))
    BY <2>2, <2>4 DEF Injection, IsInjective
  <2>6. shift \in Surjection(kept, Units(g, S))
    BY <2>3, <2>4 DEF Surjection
  <2> QED
    BY <2>5, <2>6 DEF Bijection
<1>5. IsFiniteSet(kept) /\ Cardinality(kept)
        = Cardinality(Units(f, S)) - Cardinality(Units(f, S) \cap Units(d, S))
  BY <1>1, FS_Difference
<1>6. Units(f, S) \cap Units(d, S) = Units(d, S)
  BY <1>2
<1>7. Cardinality(Units(g, S)) = Cardinality(kept)
  <2>1. ExistsBijection(kept, Units(g, S))
    BY <1>4 DEF ExistsBijection
  <2> QED
    BY <1>5, <2>1, FS_Bijection
<1>8. Cardinality(Units(f, S)) \in Nat /\ Cardinality(Units(d, S)) \in Nat
  BY <1>1, FS_CardinalityType
<1>9. /\ Total(f, S) = Cardinality(Units(f, S))
      /\ Total(d, S) = Cardinality(Units(d, S))
      /\ Total(g, S) = Cardinality(Units(g, S))
  BY DEF Total
<1>10. Cardinality(kept) = Cardinality(Units(f, S)) - Cardinality(Units(d, S))
  BY <1>5, <1>6
<1> QED
  BY <1>7, <1>8, <1>9, <1>10

\* A sum of zeros.
LEMMA TotalZero ==
  ASSUME NEW S, NEW f, \A l \in S : f[l] = 0
  PROVE  Total(f, S) = 0
<1>1. \A l \in S : {l} \X (1..f[l]) = {}
  OBVIOUS
<1>2. Units(f, S) = {}
  BY <1>1 DEF Units
<1> QED
  BY <1>2, FS_EmptySet DEF Total

\* A row is not more than the sum.
LEMMA TotalBound ==
  ASSUME NEW S, IsFiniteSet(S), NEW f, \A l \in S : f[l] \in Nat, NEW l \in S
  PROVE  f[l] <= Total(f, S)
<1>1. Total(f, S) = Total(f, {l}) + Total(f, S \ {l})
  BY TotalSplit
<1>2. Total(f, {l}) = f[l]
  BY TotalSingleton
<1>3. Total(f, S \ {l}) \in Nat
  <2>1. IsFiniteSet(S \ {l})
    BY FS_RemoveElement
  <2> QED
    BY <2>1, TotalType
<1> QED
  BY <1>1, <1>2, <1>3

\* The units of smaller rows are among those of the larger.
LEMMA UnitsMonotone ==
  ASSUME NEW S, IsFiniteSet(S), NEW f, NEW g, \A l \in S : f[l] \in Nat /\ g[l] \in Nat /\ f[l] <= g[l]
  PROVE  /\ Cardinality(Units(f, S)) <= Cardinality(Units(g, S))
         /\ Cardinality(Units(g, S)) = Cardinality(Units(f, S)) => Units(g, S) = Units(f, S)
<1>1. Units(f, S) \subseteq Units(g, S)
  <2>1. \A l \in S : 1..f[l] \subseteq 1..g[l]
    OBVIOUS
  <2> QED
    BY <2>1 DEF Units
<1>2. IsFiniteSet(Units(g, S))
  BY TotalType
<1> QED
  BY <1>1, <1>2, FS_Subset

\* A sum of smaller rows is no larger.
LEMMA TotalAtMost ==
  ASSUME NEW S, IsFiniteSet(S), NEW f, NEW g, \A l \in S : f[l] \in Nat /\ g[l] \in Nat /\ f[l] <= g[l]
  PROVE  Total(f, S) <= Total(g, S)
BY UnitsMonotone DEF Total

\* It is equal only if each row is.
LEMMA TotalEqual ==
  ASSUME NEW S, IsFiniteSet(S), NEW f, NEW g, \A l \in S : f[l] \in Nat /\ g[l] \in Nat /\ f[l] <= g[l],
         Total(f, S) = Total(g, S)
  PROVE  \A l \in S : f[l] = g[l]
<1>1. Units(g, S) = Units(f, S)
  BY UnitsMonotone DEF Total
<1> SUFFICES ASSUME NEW l \in S PROVE f[l] = g[l]
  OBVIOUS
<1>2. g[l] \in 1..g[l] => <<l, g[l]>> \in Units(f, S)
  BY <1>1, UnitsMembers
<1>3. g[l] \in 1..g[l] => g[l] \in 1..f[l]
  BY <1>2, UnitsMembers
<1> QED
  BY <1>3
=============================================================================
