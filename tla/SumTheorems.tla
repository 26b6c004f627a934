----------------------------- MODULE SumTheorems -----------------------------
(***************************************************************************)
(* Sums of natural numbers over a finite set.  The models add with the     *)
(* folds of the community modules, which are recursive functions on the    *)
(* subsets of a set.  Such a fold is shown to count a set: the units of    *)
(* its elements, pairs of an element and a number up to its weight; so     *)
(* comparing two sums is comparing two sets.                               *)
(***************************************************************************)
EXTENDS Integers, Functions, FiniteSetTheorems, WellFoundedInduction, TLAPS

(* What the elements of s weigh, one by one.                               *)
Units(w, s) == {u \in s \X Nat : 1 <= u[2] /\ u[2] <= w[u[1]]}
Weight(w, s) == Cardinality(Units(w, s))

LEMMA LeastSubset ==
  ASSUME NEW D, IsFiniteSet(D), NEW B, B \subseteq SUBSET D, B # {}
  PROVE  \E s \in B : \A x \in s : s \ {x} \notin B
  <1>1. IsWellFoundedOn(StrictSubsetOrdering(D), SUBSET D)
    BY FS_StrictSubsetOrderingWellFounded, FS_FiniteSubsetsOfFinite
  <1>2. PICK s \in B : \A t \in B : <<t, s>> \notin StrictSubsetOrdering(D)
    BY <1>1, WFMin, Zenon
  <1>3. ASSUME NEW x \in s, s \ {x} \in B PROVE FALSE
    <2>1. <<s \ {x}, s>> \in StrictSubsetOrdering(D)
      BY <1>3 DEF StrictSubsetOrdering
    <2> QED BY <1>2, <1>3, <2>1
  <1> QED BY <1>2, <1>3

Own(w, x) == {x} \X (1 .. w[x])

LEMMA UnitsSplit ==
  ASSUME NEW w, NEW s, NEW x \in s, w[x] \in Nat
  PROVE  Units(w, s) = Units(w, s \ {x}) \cup Own(w, x) /\ Units(w, s \ {x}) \cap Own(w, x) = {}
  <1>1. \A u : u \in Own(w, x) <=> u \in {x} \X Nat /\ 1 <= u[2] /\ u[2] <= w[u[1]]
    BY DEF Own
  <1>2. ASSUME NEW u PROVE u \in Units(w, s) <=> u \in Units(w, s \ {x}) \/ u \in Own(w, x)
    BY <1>1 DEF Units
  <1>3. Units(w, s \ {x}) \cap Own(w, x) = {}
    BY <1>1 DEF Units
  <1> QED BY <1>2, <1>3

LEMMA OwnUnits ==
  ASSUME NEW w, NEW x, w[x] \in Nat
  PROVE  IsFiniteSet(Own(w, x)) /\ Cardinality(Own(w, x)) = w[x]
  <1>1. IsFiniteSet({x}) /\ Cardinality({x}) = 1
    BY FS_Singleton
  <1>2. IsFiniteSet(1 .. w[x]) /\ Cardinality(1 .. w[x]) = IF 1 > w[x] THEN 0 ELSE w[x] - 1 + 1
    <2>1. 1 \in Int /\ w[x] \in Int
      OBVIOUS
    <2> QED BY <2>1, FS_Interval
  <1>3. Cardinality(1 .. w[x]) = w[x]
    BY <1>2
  <1>4. /\ IsFiniteSet({x} \X (1 .. w[x]))
        /\ Cardinality({x} \X (1 .. w[x])) = Cardinality({x}) * Cardinality(1 .. w[x])
    BY <1>1, <1>2, FS_Product
  <1> QED BY <1>1, <1>3, <1>4 DEF Own

LEMMA UnitsFinite ==
  ASSUME NEW D, IsFiniteSet(D), NEW w \in [D -> Nat]
  PROVE  \A s \in SUBSET D : IsFiniteSet(Units(w, s)) /\ Weight(w, s) \in Nat
  <1> DEFINE B == {s \in SUBSET D : ~IsFiniteSet(Units(w, s))}
  <1>1. ASSUME B # {} PROVE FALSE
    <2>1. PICK s \in B : \A x \in s : s \ {x} \notin B
      BY <1>1, LeastSubset
    <2>2. CASE s = {}
      <3>1. Units(w, s) = {}
        BY <2>2 DEF Units
      <3> QED BY <3>1, FS_EmptySet
    <2>3. CASE s # {}
      <3>1. PICK x \in s : TRUE
        BY <2>3
      <3>2. IsFiniteSet(Units(w, s \ {x}))
        BY <2>1, <3>1
      <3>3. Units(w, s) = Units(w, s \ {x}) \cup Own(w, x)
        BY <3>1, UnitsSplit
      <3>4. IsFiniteSet(Own(w, x))
        BY <3>1, OwnUnits
      <3>5. IsFiniteSet(Units(w, s \ {x}) \cup Own(w, x))
        BY <3>2, <3>4, FS_Union
      <3> QED BY <3>3, <3>5
    <2> QED BY <2>2, <2>3
  <1>2. \A s \in SUBSET D : IsFiniteSet(Units(w, s))
    BY <1>1
  <1> QED BY <1>2, FS_CardinalityType DEF Weight

LEMMA WeightSplit ==
  ASSUME NEW D, IsFiniteSet(D), NEW w \in [D -> Nat], NEW s \in SUBSET D, NEW x \in s
  PROVE  Weight(w, s) = Weight(w, s \ {x}) + w[x]
  <1>1. IsFiniteSet(Units(w, s \ {x})) /\ Cardinality(Units(w, s \ {x})) \in Nat
    BY UnitsFinite DEF Weight
  <1>2. IsFiniteSet(Own(w, x)) /\ Cardinality(Own(w, x)) = w[x] /\ w[x] \in Nat
    BY OwnUnits
  <1>3. Units(w, s) = Units(w, s \ {x}) \cup Own(w, x) /\ Units(w, s \ {x}) \cap Own(w, x) = {}
    BY UnitsSplit
  <1>4. Cardinality(Units(w, s \ {x}) \cup Own(w, x))
          = Cardinality(Units(w, s \ {x})) + Cardinality(Own(w, x)) - Cardinality(Units(w, s \ {x}) \cap Own(w, x))
    BY <1>1, <1>2, FS_Union
  <1>5. Cardinality(Units(w, s \ {x}) \cap Own(w, x)) = 0
    BY <1>3, FS_EmptySet
  <1>6. Cardinality(Units(w, s)) = Cardinality(Units(w, s \ {x})) + w[x]
    BY <1>1, <1>2, <1>3, <1>4, <1>5
  <1> QED BY <1>6 DEF Weight

LEMMA WeightNone == \A w : Weight(w, {}) = 0
  <1>1. \A w : Units(w, {}) = {}
    BY DEF Units
  <1> QED BY <1>1, FS_EmptySet DEF Weight

LEMMA WeightGrows ==
  ASSUME NEW D, IsFiniteSet(D), NEW w \in [D -> Nat], NEW v, NEW s, NEW t \in SUBSET D,
         \A i \in s : v[i] \in Nat /\ (v[i] # 0 => i \in t /\ v[i] <= w[i])
  PROVE  Weight(v, s) <= Weight(w, t)
  <1>1. Units(v, s) \in SUBSET Units(w, t)
    <2>1. ASSUME NEW u \in Units(v, s) PROVE u \in Units(w, t)
      <3>1. u \in s \X Nat /\ 1 <= u[2] /\ u[2] <= v[u[1]]
        BY DEF Units
      <3>2. u[1] \in s /\ u[2] \in Nat /\ v[u[1]] \in Nat /\ v[u[1]] # 0
        BY <3>1
      <3>3. u[1] \in t /\ v[u[1]] <= w[u[1]] /\ w[u[1]] \in Nat
        BY <3>2
      <3>4. u \in t \X Nat /\ u[2] <= w[u[1]]
        BY <3>1, <3>2, <3>3
      <3> QED BY <3>1, <3>4 DEF Units
    <2> QED BY <2>1
  <1>2. IsFiniteSet(Units(w, t))
    BY UnitsFinite
  <1> QED BY <1>1, <1>2, FS_Subset DEF Weight

(* Only the elements that weigh something count.                           *)
LEMMA WeightRest ==
  ASSUME NEW w, NEW v, NEW s, NEW t \in SUBSET s, \A i \in t : v[i] = w[i], \A i \in s \ t : w[i] = 0
  PROVE  Weight(w, s) = Weight(v, t)
  <1>1. ASSUME NEW u PROVE u \in Units(w, s) <=> u \in Units(v, t)
    BY DEF Units
  <1>2. Units(w, s) = Units(v, t)
    BY <1>1
  <1> QED BY <1>2 DEF Weight

(* A fold that adds what each element weighs computes their weight.        *)
Adds(f, w, D) ==
    /\ f[{}] = 0
    /\ \A s \in SUBSET D : s # {} => \E x \in s : f[s \ {x}] \in Nat => f[s] = f[s \ {x}] + w[x]

LEMMA FoldIsWeight ==
  ASSUME NEW D, IsFiniteSet(D), NEW w \in [D -> Nat], NEW f, Adds(f, w, D)
  PROVE  \A s \in SUBSET D : f[s] = Weight(w, s)
  <1> DEFINE B == {s \in SUBSET D : f[s] # Weight(w, s)}
  <1>1. ASSUME B # {} PROVE FALSE
    <2>1. PICK s \in B : \A x \in s : s \ {x} \notin B
      BY <1>1, LeastSubset
    <2>2. s # {}
      BY <2>1, WeightNone DEF Adds
    <2>3. PICK x \in s : f[s \ {x}] \in Nat => f[s] = f[s \ {x}] + w[x]
      BY <2>2 DEF Adds
    <2>4. f[s \ {x}] = Weight(w, s \ {x})
      BY <2>1
    <2>5. Weight(w, s \ {x}) \in Nat
      BY UnitsFinite
    <2>6. Weight(w, s) = Weight(w, s \ {x}) + w[x]
      BY WeightSplit
    <2> QED BY <2>1, <2>3, <2>4, <2>5, <2>6
  <1> QED BY <1>1

(* So does the sum of the community modules.                               *)
LEMMA SumIsWeight ==
  ASSUME NEW D, IsFiniteSet(D), NEW w \in [D -> Nat]
  PROVE  \A s \in SUBSET D : SumFunctionOnSet(w, s) = Weight(w, s)
  <1> SUFFICES ASSUME NEW S \in SUBSET D PROVE SumFunctionOnSet(w, S) = Weight(w, S)
    OBVIOUS
  <1> DEFINE pick(s) == CHOOSE x \in s : TRUE
             Def(f) == [s \in SUBSET S |-> IF s = {} THEN 0 ELSE w[pick(s)] + f[s \ {pick(s)}]]
             g == [s \in SUBSET S |-> Weight(w, s)]
             it == CHOOSE f : f = Def(f)
  <1>1. SumFunctionOnSet(w, S) = it[S]
    BY DEF SumFunctionOnSet, FoldFunctionOnSet, MapThenFoldSet
  <1>2. \A s \in SUBSET S : s # {} => pick(s) \in s
    OBVIOUS
  <1> HIDE DEF pick
  <1>3. g = Def(g)
    <2>1. ASSUME NEW s \in SUBSET S
          PROVE  Weight(w, s) = IF s = {} THEN 0 ELSE w[pick(s)] + g[s \ {pick(s)}]
      <3>1. CASE s = {}
        BY <3>1, WeightNone
      <3>2. CASE s # {}
        <4>1. pick(s) \in s
          BY <1>2, <3>2
        <4>2. Weight(w, s) = Weight(w, s \ {pick(s)}) + w[pick(s)]
          BY <4>1, WeightSplit
        <4>3. Weight(w, s \ {pick(s)}) \in Nat /\ w[pick(s)] \in Nat
          BY <4>1, UnitsFinite
        <4> QED BY <3>2, <4>1, <4>2, <4>3
      <3> QED BY <3>1, <3>2
    <2> QED BY <2>1
  <1> HIDE DEF g
  <1>4. it = Def(it)
    BY <1>3
  <1> HIDE DEF it
  <1>5. it[{}] = 0
    BY <1>4
  <1>6. \A s \in SUBSET S : s # {} => \E x \in s : it[s \ {x}] \in Nat => it[s] = it[s \ {x}] + w[x]
    <2> SUFFICES ASSUME NEW s \in SUBSET S, s # {}
                 PROVE  \E x \in s : it[s \ {x}] \in Nat => it[s] = it[s \ {x}] + w[x]
      OBVIOUS
    <2>1. pick(s) \in s /\ it[s] = w[pick(s)] + it[s \ {pick(s)}] /\ w[pick(s)] \in Nat
      BY <1>2, <1>4
    <2>2. it[s \ {pick(s)}] \in Nat => it[s] = it[s \ {pick(s)}] + w[pick(s)]
      BY <2>1
    <2> QED BY <2>1, <2>2
  <1>7. it[S] = Weight(w, S)
    <2>1. Adds(it, w, S)
      BY <1>5, <1>6 DEF Adds
    <2> DEFINE v == [i \in S |-> w[i]]
    <2>2. v \in [S -> Nat] /\ IsFiniteSet(S)
      BY FS_Subset
    <2>3. Adds(it, v, S)
      BY <2>1 DEF Adds
    <2>4. it[S] = Weight(v, S)
      BY <2>2, <2>3, FoldIsWeight
    <2>5. Weight(w, S) = Weight(v, S)
      BY WeightRest
    <2> QED BY <2>4, <2>5
  <1> QED BY <1>1, <1>7

LEMMA WeightAdd ==
  ASSUME NEW D, IsFiniteSet(D), NEW v \in [D -> Nat], NEW w \in [D -> Nat], NEW x \in [D -> Nat],
         \A i \in D : x[i] = v[i] + w[i]
  PROVE  Weight(x, D) = Weight(v, D) + Weight(w, D)
  <1> DEFINE B == {s \in SUBSET D : Weight(x, s) # Weight(v, s) + Weight(w, s)}
  <1>1. ASSUME B # {} PROVE FALSE
    <2>1. PICK s \in B : \A i \in s : s \ {i} \notin B
      BY <1>1, LeastSubset
    <2>2. s # {}
      <3>1. Weight(x, {}) = 0 /\ Weight(v, {}) = 0 /\ Weight(w, {}) = 0
        BY WeightNone
      <3>2. Weight(x, {}) = Weight(v, {}) + Weight(w, {})
        BY <3>1
      <3>3. Weight(x, s) # Weight(v, s) + Weight(w, s)
        BY <2>1
      <3> QED BY <3>2, <3>3
    <2>3. PICK i \in s : TRUE
      BY <2>2
    <2>4. Weight(x, s \ {i}) = Weight(v, s \ {i}) + Weight(w, s \ {i})
      BY <2>1
    <2>5. /\ Weight(x, s) = Weight(x, s \ {i}) + x[i]
          /\ Weight(v, s) = Weight(v, s \ {i}) + v[i]
          /\ Weight(w, s) = Weight(w, s \ {i}) + w[i]
      BY WeightSplit
    <2>6. /\ Weight(v, s \ {i}) \in Nat /\ Weight(w, s \ {i}) \in Nat
          /\ v[i] \in Nat /\ w[i] \in Nat /\ x[i] = v[i] + w[i]
      BY UnitsFinite
    <2> QED BY <2>1, <2>4, <2>5, <2>6
  <1> QED BY <1>1

(* One weight changes.                                                     *)
LEMMA WeightChange ==
  ASSUME NEW D, IsFiniteSet(D), NEW v \in [D -> Nat], NEW w \in [D -> Nat], NEW x \in D,
         \A i \in D \ {x} : w[i] = v[i]
  PROVE  Weight(w, D) = Weight(v, D) - v[x] + w[x] /\ Weight(v, D) >= v[x]
  <1>1. Weight(v, D \ {x}) = Weight(w, D \ {x})
    BY WeightRest
  <1>2. Weight(v, D) = Weight(v, D \ {x}) + v[x] /\ Weight(w, D) = Weight(w, D \ {x}) + w[x]
    BY WeightSplit
  <1>3. Weight(v, D \ {x}) \in Nat /\ v[x] \in Nat /\ w[x] \in Nat
    BY UnitsFinite
  <1> QED BY <1>1, <1>2, <1>3

(* A sequence of weights grows at its end.                                 *)
LEMMA WeightAppend ==
  ASSUME NEW n \in Nat, NEW v \in [1 .. n -> Nat], NEW w \in [1 .. n + 1 -> Nat], \A i \in 1 .. n : w[i] = v[i]
  PROVE  Weight(w, 1 .. n + 1) = Weight(v, 1 .. n) + w[n + 1]
  <1>1. IsFiniteSet(1 .. n + 1)
    BY FS_Interval
  <1>2. (1 .. n + 1) \ {n + 1} = 1 .. n /\ n + 1 \in 1 .. n + 1
    OBVIOUS
  <1>3. Weight(w, 1 .. n + 1) = Weight(w, 1 .. n) + w[n + 1]
    BY <1>1, <1>2, WeightSplit
  <1>4. Weight(w, 1 .. n) = Weight(v, 1 .. n)
    BY WeightRest
  <1> QED BY <1>3, <1>4

=============================================================================
