---------------------------- MODULE TotalsProofs ----------------------------
(***************************************************************************)
(* What the sums of Totals are, without an induction: of no value, of one     *)
(* more, and of the sizes of the parts of a set.                              *)
(***************************************************************************)
EXTENDS Totals, FiniteSetTheorems, TLAPS

\* What is below the values of a function.
LEMMA BelowMeans ==
    ASSUME NEW S, NEW f \in [S -> Nat]
    PROVE  /\ \A p \in Below(f) : p[1] \in S /\ p[2] \in 1..f[p[1]] /\ p = <<p[1], p[2]>>
           /\ \A x \in S : \A n \in 1..f[x] : <<x, n>> \in Below(f)
  BY DEF Below

\* A sum of naturals is one.
LEMMA TotalIsNat ==
    ASSUME NEW S, IsFiniteSet(S), NEW f \in [S -> Nat]
    PROVE  IsFiniteSet(Below(f)) /\ Total(f) \in Nat
  <1> DEFINE part == [x \in S |-> {x} \X (1..f[x])]
             parts == {{x} \X (1..f[x]) : x \in S}
  <1>1. part \in Surjection(S, parts)
    <2>1. part \in [S -> parts]
      OBVIOUS
    <2>2. ASSUME NEW t \in parts PROVE \E x \in S : part[x] = t
      OBVIOUS
    <2> QED BY <2>1, <2>2 DEF Surjection
  <1>2. IsFiniteSet(parts)
    BY <1>1, FS_Surjection
  <1>3. ASSUME NEW t \in parts PROVE IsFiniteSet(t)
    <2>1. PICK x \in S : t = {x} \X (1..f[x])
      OBVIOUS
    <2>2. IsFiniteSet({x})
      BY FS_Singleton
    <2>3. f[x] \in Int /\ 1 \in Int
      OBVIOUS
    <2>4. IsFiniteSet(1..f[x])
      BY <2>3, FS_Interval
    <2> QED BY <2>1, <2>2, <2>4, FS_Product
  <1>4. Below(f) = UNION parts
    BY DEF Below
  <1> HIDE DEF parts
  <1>5. IsFiniteSet(Below(f))
    BY <1>2, <1>3, <1>4, FS_UNION
  <1> QED BY <1>5, FS_CardinalityType DEF Total

\* One more of a value is one more of the sum.
LEMMA TotalOfOneMore ==
    ASSUME NEW S, IsFiniteSet(S), NEW f \in [S -> Nat], NEW x \in S
    PROVE  Total([f EXCEPT ![x] = @ + 1]) = Total(f) + 1
  <1> DEFINE g == [f EXCEPT ![x] = @ + 1]
             added == <<x, f[x] + 1>>
  <1>1. g \in [S -> Nat] /\ g[x] = f[x] + 1 /\ \A y \in S : y # x => g[y] = f[y]
    OBVIOUS
  <1> HIDE DEF g
  <1>2. added \notin Below(f)
    BY BelowMeans
  <1>3. Below(g) \subseteq Below(f) \cup {added}
    <2> SUFFICES ASSUME NEW p \in Below(g) PROVE p \in Below(f) \cup {added}
      OBVIOUS
    <2>1. p[1] \in S /\ p[2] \in 1..g[p[1]] /\ p = <<p[1], p[2]>>
      BY <1>1, BelowMeans
    <2>2. p[2] \in 1..f[p[1]] \/ (p[1] = x /\ p[2] = f[x] + 1)
      BY <1>1, <2>1
    <2>3. CASE p[2] \in 1..f[p[1]]
      BY <2>1, <2>3, BelowMeans
    <2>4. CASE p[1] = x /\ p[2] = f[x] + 1
      BY <2>1, <2>4
    <2> QED BY <2>2, <2>3, <2>4
  <1>4. Below(f) \cup {added} \subseteq Below(g)
    <2>1. added \in Below(g)
      <3>1. f[x] + 1 \in 1..g[x]
        BY <1>1
      <3> QED BY <1>1, <3>1, BelowMeans
    <2>2. ASSUME NEW p \in Below(f) PROVE p \in Below(g)
      <3>1. p[1] \in S /\ p[2] \in 1..f[p[1]] /\ p = <<p[1], p[2]>>
        BY BelowMeans
      <3>2. p[2] \in 1..g[p[1]]
        BY <1>1, <3>1
      <3>3. <<p[1], p[2]>> \in Below(g)
        BY <1>1, <3>1, <3>2, BelowMeans
      <3> QED BY <3>1, <3>3, Zenon
    <2> QED BY <2>1, <2>2
  <1>5. Below(g) = Below(f) \cup {added}
    BY <1>3, <1>4
  <1>6. IsFiniteSet(Below(f)) /\ Total(f) \in Nat
    BY TotalIsNat
  <1> QED BY <1>2, <1>5, <1>6, FS_AddElement DEF Total, g

\* Nothing adds up to nothing.
LEMMA TotalOfNone ==
    ASSUME NEW S, NEW f \in [S -> Nat], \A x \in S : f[x] = 0
    PROVE  Total(f) = 0
  <1>1. Below(f) = {}
    BY BelowMeans
  <1> QED BY <1>1, FS_EmptySet DEF Total

\* No value is larger than the sum.
LEMMA TotalIsAbove ==
    ASSUME NEW S, IsFiniteSet(S), NEW f \in [S -> Nat], NEW x \in S
    PROVE  f[x] <= Total(f)
  <1> DEFINE part == {<<x, n>> : n \in 1..f[x]}
             g == [n \in 1..f[x] |-> <<x, n>>]
  <1>1. part \subseteq Below(f)
    BY BelowMeans
  <1>2. IsFiniteSet(Below(f)) /\ Total(f) \in Nat
    BY TotalIsNat
  <1>3. g \in Bijection(1..f[x], part)
    <2>1. g \in [1..f[x] -> part] /\ \A n \in 1..f[x] : g[n] = <<x, n>>
      OBVIOUS
    <2>2. \A t \in part : \E n \in 1..f[x] : g[n] = t
      BY <2>1
    <2>3. IsInjective(g)
      BY DEF IsInjective
    <2> HIDE DEF g, part
    <2> QED BY <2>1, <2>2, <2>3 DEF Bijection, Injection, Surjection
  <1>4. IsFiniteSet(1..f[x]) /\ Cardinality(1..f[x]) = f[x]
    <2>1. f[x] \in Int /\ 1 \in Int
      OBVIOUS
    <2> QED BY <2>1, FS_Interval
  <1>5. Cardinality(part) = f[x]
    BY <1>3, <1>4, FS_Bijection DEF ExistsBijection
  <1> HIDE DEF part
  <1> QED BY <1>1, <1>2, <1>5, FS_Subset DEF Total

\* The sizes of the parts of a set, one for each value of a function on it, add up to
\* its size.
LEMMA TotalOfParts ==
    ASSUME NEW S, NEW T, IsFiniteSet(S), IsFiniteSet(T), NEW h \in [T -> S]
    PROVE  Total([x \in S |-> Cardinality({t \in T : h[t] = x})]) = Cardinality(T)
  <1> DEFINE part(x) == {t \in T : h[t] = x}
             f == [x \in S |-> Cardinality(part(x))]
             b == [x \in S |-> CHOOSE g : g \in Bijection(1..f[x], part(x))]
             G == [p \in Below(f) |-> b[p[1]][p[2]]]
  <1>1. ASSUME NEW x \in S
        PROVE  f[x] \in Nat /\ b[x] \in Bijection(1..f[x], part(x))
    <2>1. IsFiniteSet(part(x))
      BY FS_Subset
    <2>2. f[x] \in Nat /\ ExistsBijection(1..f[x], part(x))
      BY <2>1, FS_CardinalityType
    <2>3. \E g : g \in Bijection(1..f[x], part(x))
      BY <2>2 DEF ExistsBijection
    <2>4. b[x] = CHOOSE g : g \in Bijection(1..f[x], part(x))
      OBVIOUS
    <2> HIDE DEF b, f, part
    <2> QED BY <2>2, <2>3, <2>4
  <1>2. f \in [S -> Nat]
    BY <1>1
  <1> HIDE DEF b, f
  <1>3. ASSUME NEW p \in Below(f)
        PROVE  /\ p[1] \in S /\ p[2] \in 1..f[p[1]] /\ p = <<p[1], p[2]>>
               /\ G[p] = b[p[1]][p[2]] /\ G[p] \in T /\ h[G[p]] = p[1]
    <2>1. p[1] \in S /\ p[2] \in 1..f[p[1]] /\ p = <<p[1], p[2]>>
      BY <1>2, BelowMeans
    <2>2. b[p[1]] \in [1..f[p[1]] -> part(p[1])]
      BY <1>1, <2>1 DEF Bijection, Injection
    <2>3. G[p] = b[p[1]][p[2]]
      OBVIOUS
    <2>4. G[p] \in part(p[1])
      BY <2>1, <2>2, <2>3
    <2> QED BY <2>1, <2>3, <2>4
  <1>4. G \in Injection(Below(f), T)
    <2>1. G \in [Below(f) -> T]
      BY <1>3
    <2>2. ASSUME NEW p \in Below(f), NEW q \in Below(f), G[p] = G[q] PROVE p = q
      <3>1. p[1] = q[1]
        BY <1>3, <2>2
      <3>2. b[p[1]][p[2]] = b[p[1]][q[2]] /\ p[2] \in 1..f[p[1]] /\ q[2] \in 1..f[p[1]]
        BY <1>3, <2>2, <3>1
      <3>3. b[p[1]] \in [1..f[p[1]] -> part(p[1])] /\ IsInjective(b[p[1]])
        BY <1>1, <1>3 DEF Bijection, Injection
      <3>4. p[2] = q[2]
        BY <3>2, <3>3 DEF IsInjective
      <3> QED BY <1>3, <3>1, <3>4
    <2> HIDE DEF G
    <2> QED BY <2>1, <2>2 DEF Injection, IsInjective
  <1>5. ASSUME NEW t \in T PROVE \E p \in Below(f) : G[p] = t
    <2> DEFINE x == h[t]
    <2>1. x \in S /\ t \in part(x)
      OBVIOUS
    <2>2. b[x] \in Surjection(1..f[x], part(x))
      BY <1>1, <2>1 DEF Bijection
    <2>3. PICK n \in 1..f[x] : b[x][n] = t
      BY <2>1, <2>2 DEF Surjection
    <2>4. <<x, n>> \in Below(f)
      BY <1>2, <2>1, BelowMeans
    <2>5. G[<<x, n>>] = t
      BY <2>3, <2>4
    <2> QED BY <2>4, <2>5
  <1> HIDE DEF G
  <1>6. G \in Bijection(Below(f), T)
    BY <1>4, <1>5 DEF Bijection, Surjection, Injection
  <1>7. IsFiniteSet(Below(f)) /\ ExistsBijection(Below(f), T)
    BY <1>2, <1>6, TotalIsNat DEF ExistsBijection
  <1>8. Cardinality(T) = Cardinality(Below(f))
    BY <1>7, FS_Bijection
  <1> QED BY <1>8 DEF Total, f
=============================================================================
