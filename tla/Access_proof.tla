---------------------------- MODULE Access_proof ----------------------------
(***************************************************************************)
(* Proofs about who is let in, for any number of concurrent requests: the  *)
(* access tokens of a user whom owners change (UserAccess), the counter    *)
(* and the lock of failed logins (LoginLockout), the grants of a page      *)
(* (PageAccess), and the list of its records that a reader pages through   *)
(* while they are written (Query).                                         *)
(***************************************************************************)
EXTENDS UserAccess, LoginLockout, Query, FiniteSetTheorems, SequenceTheorems,
        WellFoundedInduction, TLAPS

-----------------------------------------------------------------------------
(* Sums over finite sets                                                   *)

\* A set of numbers has a least one.
LEMMA Least ==
    ASSUME NEW B, B \subseteq Nat, B # {}
    PROVE  \E m \in B : \A k \in B : m <= k
<1> DEFINE R == {p \in Nat \X Nat : p[1] < p[2]}
<1>1. IsWellFoundedOn(R, Nat)
  BY NatLessThanWellFounded DEF OpToRel
<1>2. PICK m \in B : \A k \in B : <<k, m>> \notin R
  <2> HIDE DEF R
  <2> QED
    BY <1>1, WFMin
<1>3. ASSUME NEW k \in B PROVE m <= k
  <2>1. <<k, m>> \in Nat \X Nat /\ ~ (k < m)
    BY <1>2
  <2> QED
    BY <2>1
<1> QED
  BY <1>3

\* The element that a fold takes next, and the equation that its sum solves.
PickIn(s) == CHOOSE x \in s : TRUE
IsSum(w, S, f) ==
    f = [s \in SUBSET S |-> IF s = {} THEN 0 ELSE w[PickIn(s)] + f[s \ {PickIn(s)}]]

LEMMA PickFact ==
    ASSUME NEW S, IsFiniteSet(S), NEW s \in SUBSET S, s # {}
    PROVE  /\ PickIn(s) \in s /\ s \ {PickIn(s)} \in SUBSET S
           /\ IsFiniteSet(s) /\ Cardinality(s) \in Nat
           /\ \A x \in s : /\ Cardinality(s \ {x}) = Cardinality(s) - 1
                           /\ Cardinality(s \ {x}) \in Nat
<1>1. PickIn(s) \in s
  BY DEF PickIn
<1>2. IsFiniteSet(s)
  BY FS_Subset
<1>3. Cardinality(s) \in Nat
  BY <1>2, FS_CardinalityType
<1>4. ASSUME NEW x \in s
      PROVE  Cardinality(s \ {x}) = Cardinality(s) - 1 /\ Cardinality(s \ {x}) \in Nat
  BY <1>2, FS_RemoveElement, FS_CardinalityType
<1> QED
  BY <1>1, <1>2, <1>3, <1>4

LEMMA SmallestSet ==
    ASSUME NEW S, IsFiniteSet(S), NEW D, D \subseteq SUBSET S, D # {}
    PROVE  \E s \in D : \A t \in D : Cardinality(s) <= Cardinality(t)
<1> DEFINE B == {Cardinality(t) : t \in D}
<1>1. B \subseteq Nat /\ B # {}
  BY FS_Subset, FS_CardinalityType
<1>2. PICK n \in B : \A k \in B : n <= k
  <2> HIDE DEF B
  <2> QED
    BY <1>1, Least
<1> QED
  BY <1>2

LEMMA SumUnique ==
    ASSUME NEW S, IsFiniteSet(S), NEW w, NEW f, IsSum(w, S, f), NEW g, IsSum(w, S, g)
    PROVE  f = g
<1> DEFINE D == {s \in SUBSET S : f[s] # g[s]}
<1>1. SUFFICES ASSUME D # {} PROVE FALSE
  BY DEF IsSum
<1>2. PICK s \in D : \A t \in D : Cardinality(s) <= Cardinality(t)
  <2>1. D \subseteq SUBSET S
    OBVIOUS
  <2> HIDE DEF D
  <2> QED
    BY <1>1, <2>1, SmallestSet
<1>3. s \in SUBSET S /\ s # {}
  BY DEF IsSum
<1>4. /\ s \ {PickIn(s)} \in SUBSET S
      /\ Cardinality(s \ {PickIn(s)}) = Cardinality(s) - 1 /\ Cardinality(s) \in Nat
  BY <1>3, PickFact
<1>5. s \ {PickIn(s)} \notin D
  BY <1>2, <1>4
<1>6. f[s \ {PickIn(s)}] = g[s \ {PickIn(s)}]
  BY <1>4, <1>5
<1> QED
  BY <1>3, <1>6 DEF IsSum

\* Sums of sets of up to n elements.
SumsTo(w, S, n, f) ==
    \A s \in SUBSET S : Cardinality(s) <= n =>
        f[s] = IF s = {} THEN 0 ELSE w[PickIn(s)] + f[s \ {PickIn(s)}]

LEMMA SumExists ==
    ASSUME NEW S, IsFiniteSet(S), NEW w, \A x \in S : w[x] \in Int
    PROVE  \E f \in [SUBSET S -> Int] : IsSum(w, S, f)
<1> DEFINE B == {n \in Nat : ~ \E f \in [SUBSET S -> Int] : SumsTo(w, S, n, f)}
<1>0. \A s \in SUBSET S : Cardinality(s) \in Nat /\ Cardinality(s) <= Cardinality(S)
                          /\ (Cardinality(s) = 0 <=> s = {})
  BY FS_Subset, FS_CardinalityType, FS_EmptySet
<1>1. B = {}
  <2> SUFFICES ASSUME B # {} PROVE FALSE
    OBVIOUS
  <2>1. PICK n \in B : \A k \in B : n <= k
    <3>1. B \subseteq Nat
      OBVIOUS
    <3> HIDE DEF B
    <3> QED
      BY <3>1, Least
  <2>2. n # 0
    <3>1. SumsTo(w, S, 0, [s \in SUBSET S |-> 0])
      BY <1>0 DEF SumsTo
    <3>2. [s \in SUBSET S |-> 0] \in [SUBSET S -> Int]
      OBVIOUS
    <3> QED
      BY <2>1, <3>1, <3>2
  <2>3. PICK g \in [SUBSET S -> Int] : SumsTo(w, S, n - 1, g)
    <3>1. n \in Nat /\ n - 1 \in Nat
      BY <2>1, <2>2
    <3>2. n - 1 \notin B
      <4> HIDE DEF B
      <4> QED
        BY <2>1, <3>1
    <3> QED
      BY <3>1, <3>2
  <2> DEFINE f == [s \in SUBSET S |->
                     IF Cardinality(s) < n THEN g[s] ELSE w[PickIn(s)] + g[s \ {PickIn(s)}]]
  <2>4. ASSUME NEW s \in SUBSET S, s # {}
        PROVE  /\ PickIn(s) \in S /\ s \ {PickIn(s)} \in SUBSET S
               /\ Cardinality(s \ {PickIn(s)}) = Cardinality(s) - 1
    BY <2>4, PickFact
  <2>5. f \in [SUBSET S -> Int]
    <3> SUFFICES ASSUME NEW s \in SUBSET S
                 PROVE  (IF Cardinality(s) < n THEN g[s]
                         ELSE w[PickIn(s)] + g[s \ {PickIn(s)}]) \in Int
      OBVIOUS
    <3>1. CASE s = {}
      BY <1>0, <2>1, <2>2, <3>1
    <3>2. CASE s # {}
      BY <2>4, <3>2
    <3> QED
      BY <3>1, <3>2
  <2>6. SumsTo(w, S, n, f)
    <3> SUFFICES ASSUME NEW s \in SUBSET S, Cardinality(s) <= n
                 PROVE  f[s] = IF s = {} THEN 0 ELSE w[PickIn(s)] + f[s \ {PickIn(s)}]
      BY DEF SumsTo
    <3>1. CASE s = {}
      BY <1>0, <2>1, <2>2, <2>3, <3>1 DEF SumsTo
    <3>2. CASE s # {}
      <4>1. Cardinality(s) \in Nat /\ f[s \ {PickIn(s)}] = g[s \ {PickIn(s)}]
        BY <1>0, <2>1, <2>4, <3>2
      <4>2. Cardinality(s) < n => g[s] = w[PickIn(s)] + g[s \ {PickIn(s)}]
        BY <1>0, <2>1, <2>3, <3>2 DEF SumsTo
      <4> QED
        BY <3>2, <4>1, <4>2
    <3> QED
      BY <3>1, <3>2
  <2> QED
    BY <2>1, <2>5, <2>6
<1>2. PICK f \in [SUBSET S -> Int] : SumsTo(w, S, Cardinality(S), f)
  BY <1>1, FS_CardinalityType
<1>3. IsSum(w, S, f)
  BY <1>0, <1>2 DEF SumsTo, IsSum
<1> QED
  BY <1>3

\* The order in which the fold takes the elements does not matter.
Splits(w, S, f) == \A s \in SUBSET S : \A x \in s : f[s] = w[x] + f[s \ {x}]

LEMMA SumRemoves ==
    ASSUME NEW S, IsFiniteSet(S), NEW w, \A x \in S : w[x] \in Int,
           NEW f, IsSum(w, S, f)
    PROVE  Splits(w, S, f)
<1>0. f \in [SUBSET S -> Int]
  <2>1. PICK g \in [SUBSET S -> Int] : IsSum(w, S, g)
    BY SumExists
  <2> QED
    BY <2>1, SumUnique
<1> DEFINE D == {t \in SUBSET S : \E y \in t : f[t] # w[y] + f[t \ {y}]}
<1>1. SUFFICES ASSUME D # {} PROVE FALSE
  BY DEF Splits
<1>2. PICK t \in D : \A u \in D : Cardinality(t) <= Cardinality(u)
  <2>1. D \subseteq SUBSET S
    OBVIOUS
  <2> HIDE DEF D
  <2> QED
    BY <1>1, <2>1, SmallestSet
<1>3. PICK y \in t : f[t] # w[y] + f[t \ {y}]
  BY <1>2
<1> DEFINE c == PickIn(t)
<1>4. /\ c \in t /\ t \in SUBSET S /\ t \ {c} \in SUBSET S /\ t \ {y} \in SUBSET S
      /\ Cardinality(t) \in Nat
      /\ Cardinality(t \ {c}) = Cardinality(t) - 1
      /\ Cardinality(t \ {y}) = Cardinality(t) - 1
  BY <1>3, PickFact
<1>5. f[t] = w[c] + f[t \ {c}]
  BY <1>3, <1>4 DEF IsSum
<1> HIDE DEF c
<1>6. y # c
  BY <1>3, <1>5
<1>7. t \ {c} \notin D /\ t \ {y} \notin D
  <2> HIDE DEF D
  <2> QED
    BY <1>2, <1>4
<1>8. f[t \ {c}] = w[y] + f[(t \ {c}) \ {y}]
  BY <1>4, <1>6, <1>7
<1>9. f[t \ {y}] = w[c] + f[(t \ {y}) \ {c}]
  BY <1>4, <1>6, <1>7
<1>10. (t \ {c}) \ {y} = (t \ {y}) \ {c} /\ (t \ {c}) \ {y} \in SUBSET S
  BY <1>4
<1>11. w[c] \in Int /\ w[y] \in Int /\ f[(t \ {c}) \ {y}] \in Int
  BY <1>0, <1>4, <1>10
<1>12. f[t] = w[c] + (w[y] + f[(t \ {c}) \ {y}])
  BY <1>5, <1>8
<1>13. f[t \ {y}] = w[c] + f[(t \ {c}) \ {y}]
  BY <1>9, <1>10
<1> QED
  BY <1>3, <1>11, <1>12, <1>13

\* The sums of the subsets of a set, as the community module computes them.
SumsOf(w, S, f) ==
    /\ f \in [SUBSET S -> Int] /\ IsSum(w, S, f)
    /\ \A T \in SUBSET S : SumFunctionOnSet(w, T) = f[T]

LEMMA SumFact ==
    ASSUME NEW S, IsFiniteSet(S), NEW w, \A x \in S : w[x] \in Int
    PROVE  \E f : SumsOf(w, S, f)
<1>1. PICK f \in [SUBSET S -> Int] : IsSum(w, S, f)
  BY SumExists
<1>2. ASSUME NEW T \in SUBSET S
      PROVE  SumFunctionOnSet(w, T) = f[T]
  <2> DEFINE g == [s \in SUBSET T |-> f[s]]
             h == CHOOSE k : IsSum(w, T, k)
  <2>1. IsSum(w, T, g)
    <3>1. ASSUME NEW s \in SUBSET T
          PROVE  g[s] = IF s = {} THEN 0 ELSE w[PickIn(s)] + g[s \ {PickIn(s)}]
      <4>1. s \ {PickIn(s)} \in SUBSET T /\ s \in SUBSET S
        OBVIOUS
      <4> QED
        BY <1>1, <4>1 DEF IsSum
    <3>2. g = [s \in SUBSET T |-> g[s]]
      OBVIOUS
    <3> HIDE DEF g
    <3> QED
      BY <3>1, <3>2 DEF IsSum
  <2>2. SumFunctionOnSet(w, T) = h[T]
    BY DEF SumFunctionOnSet, FoldFunctionOnSet, MapThenFoldSet, PickIn, IsSum
  <2>3. g[T] = f[T] /\ IsFiniteSet(T)
    BY FS_Subset
  <2> HIDE DEF g
  <2>4. IsSum(w, T, h)
    BY <2>1
  <2> HIDE DEF h
  <2>5. h = g
    BY <2>1, <2>3, <2>4, SumUnique
  <2> QED
    BY <2>2, <2>3, <2>5
<1> QED
  BY <1>1, <1>2 DEF SumsOf

LEMMA SumOfNone ==
    ASSUME NEW w
    PROVE  SumFunctionOnSet(w, {}) = 0
<1>1. IsFiniteSet({}) /\ {} \in SUBSET {} /\ \A x \in {} : w[x] \in Int
  BY FS_EmptySet
<1>2. PICK f : SumsOf(w, {}, f)
  BY <1>1, SumFact
<1> QED
  BY <1>1, <1>2 DEF SumsOf, IsSum

\* A sum is a number, and any of its terms can be taken out of it.
LEMMA SumTakesOut ==
    ASSUME NEW S, IsFiniteSet(S), NEW w, \A x \in S : w[x] \in Int
    PROVE  /\ SumFunctionOnSet(w, S) \in Int
           /\ \A x \in S : /\ SumFunctionOnSet(w, S \ {x}) \in Int
                           /\ SumFunctionOnSet(w, S) = w[x] + SumFunctionOnSet(w, S \ {x})
<1>1. PICK f : SumsOf(w, S, f)
  BY SumFact
<1>2. S \in SUBSET S /\ \A x \in S : S \ {x} \in SUBSET S
  OBVIOUS
<1>3. f \in [SUBSET S -> Int] /\ IsSum(w, S, f)
  BY <1>1 DEF SumsOf
<1>4. Splits(w, S, f)
  BY <1>3, SumRemoves
<1> QED
  BY <1>1, <1>2, <1>4 DEF SumsOf, Splits

LEMMA SumAgrees ==
    ASSUME NEW S, IsFiniteSet(S), NEW w, NEW v, \A x \in S : w[x] \in Int /\ v[x] = w[x]
    PROVE  SumFunctionOnSet(w, S) = SumFunctionOnSet(v, S)
<1>1. PICK f : SumsOf(w, S, f)
  BY SumFact
<1>2. PICK g : SumsOf(v, S, g)
  <2>1. \A x \in S : v[x] \in Int
    OBVIOUS
  <2> QED
    BY <2>1, SumFact
<1>3. IsSum(v, S, f)
  <2>1. \A s \in SUBSET S : s # {} => v[PickIn(s)] = w[PickIn(s)]
    BY DEF PickIn
  <2> QED
    BY <1>1, <2>1 DEF SumsOf, IsSum
<1>4. f = g
  BY <1>2, <1>3, SumUnique DEF SumsOf
<1> QED
  BY <1>1, <1>2, <1>4 DEF SumsOf

LEMMA SumOfZeros ==
    ASSUME NEW S, IsFiniteSet(S), NEW w, \A x \in S : w[x] = 0
    PROVE  SumFunctionOnSet(w, S) = 0
<1> DEFINE D == {T \in SUBSET S : SumFunctionOnSet(w, T) # 0}
<1>1. SUFFICES ASSUME D # {} PROVE FALSE
  OBVIOUS
<1>2. PICK T \in D : \A t \in D : Cardinality(T) <= Cardinality(t)
  <2>1. D \subseteq SUBSET S
    OBVIOUS
  <2> HIDE DEF D
  <2> QED
    BY <1>1, <2>1, SmallestSet
<1>3. T # {}
  BY <1>2, SumOfNone
<1>4. PICK x \in T : TRUE
  BY <1>3
<1>5. /\ T \in SUBSET S /\ T \ {x} \in SUBSET S /\ Cardinality(T) \in Nat
      /\ Cardinality(T \ {x}) = Cardinality(T) - 1 /\ IsFiniteSet(T)
  BY <1>2, <1>4, PickFact
<1>6. T \ {x} \notin D
  BY <1>2, <1>5
<1>7. SumFunctionOnSet(w, T) = w[x] + SumFunctionOnSet(w, T \ {x})
  BY <1>4, <1>5, SumTakesOut
<1> QED
  BY <1>2, <1>4, <1>5, <1>6, <1>7

\* A sum of ones is a count.
LEMMA SumOfOnes ==
    ASSUME NEW S, IsFiniteSet(S), NEW w, \A x \in S : w[x] = 1
    PROVE  SumFunctionOnSet(w, S) = Cardinality(S)
<1> DEFINE D == {T \in SUBSET S : SumFunctionOnSet(w, T) # Cardinality(T)}
<1>1. SUFFICES ASSUME D # {} PROVE FALSE
  OBVIOUS
<1>2. PICK T \in D : \A t \in D : Cardinality(T) <= Cardinality(t)
  <2>1. D \subseteq SUBSET S
    OBVIOUS
  <2> HIDE DEF D
  <2> QED
    BY <1>1, <2>1, SmallestSet
<1>3. T # {}
  BY <1>2, SumOfNone, FS_EmptySet
<1>4. PICK x \in T : TRUE
  BY <1>3
<1>5. /\ T \in SUBSET S /\ T \ {x} \in SUBSET S /\ Cardinality(T) \in Nat
      /\ Cardinality(T \ {x}) = Cardinality(T) - 1 /\ IsFiniteSet(T)
  BY <1>2, <1>4, PickFact
<1>6. T \ {x} \notin D
  BY <1>2, <1>5
<1>7. SumFunctionOnSet(w, T) = w[x] + SumFunctionOnSet(w, T \ {x})
  BY <1>4, <1>5, SumTakesOut
<1> QED
  BY <1>2, <1>4, <1>5, <1>6, <1>7

\* The groups of a set add up to it.
Grouped(w, S, group, keys) ==
    [g \in keys |-> SumFunctionOnSet(w, {x \in S : group[x] = g})]

LEMMA SumOfGroups ==
    ASSUME NEW S, IsFiniteSet(S), NEW w, \A x \in S : w[x] \in Int,
           NEW group, NEW keys, IsFiniteSet(keys), \A x \in S : group[x] \in keys
    PROVE  SumFunctionOnSet(w, S) = SumFunctionOnSet(Grouped(w, S, group, keys), keys)
<1> DEFINE G(T) == Grouped(w, T, group, keys)
           D == {T \in SUBSET S : SumFunctionOnSet(w, T) # SumFunctionOnSet(G(T), keys)}
<1>1. SUFFICES ASSUME D # {} PROVE FALSE
  OBVIOUS
<1>2. PICK T \in D : \A t \in D : Cardinality(T) <= Cardinality(t)
  <2>1. D \subseteq SUBSET S
    OBVIOUS
  <2> HIDE DEF D
  <2> QED
    BY <1>1, <2>1, SmallestSet
<1>3. ASSUME NEW U \in SUBSET S, NEW g \in keys
      PROVE  G(U)[g] = SumFunctionOnSet(w, {x \in U : group[x] = g}) /\ G(U)[g] \in Int
  <2> DEFINE V == {x \in U : group[x] = g}
  <2>1. G(U)[g] = SumFunctionOnSet(w, V)
    BY DEF Grouped
  <2>2. IsFiniteSet(V) /\ \A x \in V : w[x] \in Int
    BY FS_Subset
  <2> HIDE DEF V, G
  <2>3. SumFunctionOnSet(w, V) \in Int
    BY <2>2, SumTakesOut
  <2> QED
    BY <2>1, <2>3 DEF V
<1> HIDE DEF G
<1>4. T # {}
  <2>1. SUFFICES ASSUME T = {} PROVE FALSE
    OBVIOUS
  <2>2. {} \in SUBSET S /\ \A g \in keys : {x \in {} : group[x] = g} = {}
    OBVIOUS
  <2>3. \A g \in keys : G({})[g] = 0
    BY <1>3, <2>2, SumOfNone
  <2>4. SumFunctionOnSet(G({}), keys) = 0
    BY <2>3, SumOfZeros
  <2> QED
    BY <1>2, <2>1, <2>4, SumOfNone
<1>5. PICK x \in T : TRUE
  BY <1>4
<1> DEFINE U == T \ {x}
           h == group[x]
<1>6. /\ T \in SUBSET S /\ U \in SUBSET S /\ Cardinality(T) \in Nat
      /\ Cardinality(U) = Cardinality(T) - 1 /\ IsFiniteSet(T) /\ h \in keys /\ w[x] \in Int
  BY <1>2, <1>5, PickFact
<1>7. SumFunctionOnSet(w, U) = SumFunctionOnSet(G(U), keys)
  <2>1. U \notin D
    <3> HIDE DEF U, D
    <3> QED
      BY <1>2, <1>6
  <2> QED
    BY <1>6, <2>1
<1>8. SumFunctionOnSet(w, T) = w[x] + SumFunctionOnSet(w, U)
  BY <1>5, <1>6, SumTakesOut
<1>9. G(T)[h] = w[x] + G(U)[h]
  <2> DEFINE V == {y \in T : group[y] = h}
  <2>1. x \in V /\ V \ {x} = {y \in U : group[y] = h} /\ V \in SUBSET S
    BY <1>5, <1>6
  <2>2. IsFiniteSet(V) /\ \A y \in V : w[y] \in Int
    BY <2>1, FS_Subset
  <2>3. G(T)[h] = SumFunctionOnSet(w, V) /\ G(U)[h] = SumFunctionOnSet(w, V \ {x})
    BY <1>3, <1>6, <2>1
  <2> HIDE DEF V, h, U
  <2> QED
    BY <2>1, <2>2, <2>3, SumTakesOut
<1>10. \A g \in keys \ {h} : G(T)[g] = G(U)[g]
  <2>1. ASSUME NEW g \in keys \ {h}
        PROVE  {y \in T : group[y] = g} = {y \in U : group[y] = g}
    BY <1>5
  <2>2. T \in SUBSET S /\ U \in SUBSET S
    BY <1>6
  <2> HIDE DEF U
  <2>3. ASSUME NEW g \in keys
        PROVE  /\ G(T)[g] = SumFunctionOnSet(w, {y \in T : group[y] = g})
               /\ G(U)[g] = SumFunctionOnSet(w, {y \in U : group[y] = g})
    BY <1>3, <2>2
  <2> QED
    BY <2>1, <2>3
<1>11. /\ SumFunctionOnSet(G(T), keys) = G(T)[h] + SumFunctionOnSet(G(T), keys \ {h})
       /\ SumFunctionOnSet(G(U), keys) = G(U)[h] + SumFunctionOnSet(G(U), keys \ {h})
       /\ SumFunctionOnSet(G(U), keys \ {h}) \in Int
  <2>1. T \in SUBSET S /\ U \in SUBSET S
    BY <1>6
  <2>2. /\ \A g \in keys : G(T)[g] \in Int
        /\ \A g \in keys : G(U)[g] \in Int
    BY <1>3, <2>1
  <2>3. /\ \A g \in keys : SumFunctionOnSet(G(T), keys \ {g}) \in Int
        /\ \A g \in keys : SumFunctionOnSet(G(T), keys) = G(T)[g] + SumFunctionOnSet(G(T), keys \ {g})
    BY <2>2, SumTakesOut
  <2>4. /\ \A g \in keys : SumFunctionOnSet(G(U), keys \ {g}) \in Int
        /\ \A g \in keys : SumFunctionOnSet(G(U), keys) = G(U)[g] + SumFunctionOnSet(G(U), keys \ {g})
    BY <2>2, SumTakesOut
  <2> HIDE DEF U
  <2> QED
    BY <1>6, <2>3, <2>4
<1>12. SumFunctionOnSet(G(T), keys \ {h}) = SumFunctionOnSet(G(U), keys \ {h})
  <2>1. IsFiniteSet(keys \ {h}) /\ \A g \in keys \ {h} : G(T)[g] \in Int
    BY <1>3, <1>6, FS_Subset
  <2> QED
    BY <1>10, <2>1, SumAgrees
<1>13. G(U)[h] \in Int
  BY <1>3, <1>6
<1>14. SumFunctionOnSet(w, T) # SumFunctionOnSet(G(T), keys)
  BY <1>2
<1> HIDE DEF U, h, D
<1> QED
  BY <1>6, <1>7, <1>8, <1>9, <1>11, <1>12, <1>13, <1>14

\* The same, for the sums of groups that a function has.
LEMMA GroupsAddUp ==
    ASSUME NEW S, IsFiniteSet(S), NEW w, \A x \in S : w[x] \in Int, NEW group,
           NEW u, DOMAIN u = {group[x] : x \in S},
           \A g \in DOMAIN u : u[g] = SumFunctionOnSet(w, {x \in S : group[x] = g})
    PROVE  SumFunctionOnSet(w, S) = SumFunction(u)
<1> DEFINE keys == {group[x] : x \in S}
           G == Grouped(w, S, group, keys)
           those(g) == {x \in S : group[x] = g}
<1>1. IsFiniteSet(keys) /\ \A x \in S : group[x] \in keys
  <2> DEFINE h == [x \in S |-> group[x]]
  <2>1. h \in Surjection(S, keys)
    BY DEF Surjection
  <2>2. \A x \in S : group[x] \in keys
    OBVIOUS
  <2> HIDE DEF keys, h
  <2> QED
    BY <2>1, <2>2, FS_Surjection
<1>2. ASSUME NEW g \in keys
      PROVE  G[g] \in Int /\ u[g] = G[g]
  <2>1. IsFiniteSet(those(g)) /\ \A x \in those(g) : w[x] \in Int
    BY FS_Subset
  <2>2. u[g] = SumFunctionOnSet(w, those(g)) /\ G[g] = SumFunctionOnSet(w, those(g))
    BY DEF Grouped
  <2> HIDE DEF those, G
  <2>3. SumFunctionOnSet(w, those(g)) \in Int
    BY <2>1, SumTakesOut
  <2> QED
    BY <2>2, <2>3
<1>3. DOMAIN u = keys
  OBVIOUS
<1> HIDE DEF keys
<1>4. SumFunctionOnSet(w, S) = SumFunctionOnSet(G, keys)
  BY <1>1, SumOfGroups
<1> HIDE DEF G
<1>5. SumFunctionOnSet(G, keys) = SumFunctionOnSet(u, keys)
  BY <1>1, <1>2, SumAgrees
<1> QED
  BY <1>3, <1>4, <1>5 DEF SumFunction

\* Two sets that share nothing.
LEMMA SumOfBoth ==
    ASSUME NEW S, IsFiniteSet(S), NEW T, IsFiniteSet(T), S \intersect T = {},
           NEW w, \A x \in S \union T : w[x] \in Int
    PROVE  SumFunctionOnSet(w, S \union T) = SumFunctionOnSet(w, S) + SumFunctionOnSet(w, T)
<1> DEFINE Sum(U) == SumFunctionOnSet(w, U)
           D == {U \in SUBSET S : Sum(U \union T) # Sum(U) + Sum(T)}
<1>1. SUFFICES ASSUME D # {} PROVE FALSE
  OBVIOUS
<1>2. PICK U \in D : \A u \in D : Cardinality(U) <= Cardinality(u)
  <2>1. D \subseteq SUBSET S
    OBVIOUS
  <2> HIDE DEF D
  <2> QED
    BY <1>1, <2>1, SmallestSet
<1>3. Sum({}) = 0 /\ Sum(T) \in Int
  BY SumOfNone, SumTakesOut
<1>4. U # {}
  <2>1. SUFFICES ASSUME U = {} PROVE FALSE
    OBVIOUS
  <2>2. U \union T = T
    BY <2>1
  <2> HIDE DEF Sum
  <2> QED
    BY <1>2, <1>3, <2>1, <2>2
<1>5. PICK x \in U : TRUE
  BY <1>4
<1>6. /\ U \in SUBSET S /\ U \ {x} \in SUBSET S /\ Cardinality(U) \in Nat
      /\ Cardinality(U \ {x}) = Cardinality(U) - 1 /\ IsFiniteSet(U)
  BY <1>2, <1>5, PickFact
<1>7. Sum((U \ {x}) \union T) = Sum(U \ {x}) + Sum(T)
  <2>1. U \ {x} \notin D
    <3> HIDE DEF D
    <3> QED
      BY <1>2, <1>6
  <2> QED
    BY <1>6, <2>1
<1>8. (U \union T) \ {x} = (U \ {x}) \union T /\ x \in U \union T
  BY <1>5, <1>6
<1>9. Sum(U \union T) = w[x] + Sum((U \ {x}) \union T)
  <2>1. IsFiniteSet(U \union T) /\ \A y \in U \union T : w[y] \in Int
    BY <1>6, FS_Union
  <2> QED
    BY <1>8, <2>1, SumTakesOut
<1>10. Sum(U) = w[x] + Sum(U \ {x}) /\ Sum(U \ {x}) \in Int /\ w[x] \in Int
  BY <1>5, <1>6, SumTakesOut
<1>11. Sum(U \union T) # Sum(U) + Sum(T)
  BY <1>2
<1> HIDE DEF Sum, D
<1> QED
  BY <1>3, <1>7, <1>9, <1>10, <1>11

\* A sum grows with its terms.
LEMMA SumGrows ==
    ASSUME NEW S, IsFiniteSet(S), NEW w, NEW v,
           \A x \in S : w[x] \in Int /\ v[x] \in Int /\ w[x] <= v[x]
    PROVE  SumFunctionOnSet(w, S) <= SumFunctionOnSet(v, S)
<1> DEFINE D == {U \in SUBSET S : ~(SumFunctionOnSet(w, U) <= SumFunctionOnSet(v, U))}
<1>1. SUFFICES ASSUME D # {} PROVE FALSE
  OBVIOUS
<1>2. PICK U \in D : \A u \in D : Cardinality(U) <= Cardinality(u)
  <2>1. D \subseteq SUBSET S
    OBVIOUS
  <2> HIDE DEF D
  <2> QED
    BY <1>1, <2>1, SmallestSet
<1>3. U # {}
  BY <1>2, SumOfNone
<1>4. PICK x \in U : TRUE
  BY <1>3
<1>5. /\ U \in SUBSET S /\ U \ {x} \in SUBSET S /\ Cardinality(U) \in Nat
      /\ Cardinality(U \ {x}) = Cardinality(U) - 1 /\ IsFiniteSet(U)
  BY <1>2, <1>4, PickFact
<1>6. SumFunctionOnSet(w, U \ {x}) <= SumFunctionOnSet(v, U \ {x})
  <2>1. U \ {x} \notin D
    <3> HIDE DEF D
    <3> QED
      BY <1>2, <1>5
  <2> QED
    BY <1>5, <2>1
<1>7. /\ SumFunctionOnSet(w, U) = w[x] + SumFunctionOnSet(w, U \ {x})
      /\ SumFunctionOnSet(w, U \ {x}) \in Int
  BY <1>4, <1>5, SumTakesOut
<1>8. /\ SumFunctionOnSet(v, U) = v[x] + SumFunctionOnSet(v, U \ {x})
      /\ SumFunctionOnSet(v, U \ {x}) \in Int
  <2>1. \A y \in U : v[y] \in Int
    BY <1>5
  <2> QED
    BY <1>4, <1>5, <2>1, SumTakesOut
<1>9. ~(SumFunctionOnSet(w, U) <= SumFunctionOnSet(v, U))
  BY <1>2
<1>10. w[x] \in Int /\ v[x] \in Int /\ w[x] <= v[x]
  BY <1>4, <1>5
<1> HIDE DEF D
<1> QED
  BY <1>6, <1>7, <1>8, <1>9, <1>10

-----------------------------------------------------------------------------
(* Chosen of k out of n                                                   *)

Chosen(n, k) == Cardinality(kSubset(k, 1 .. n))

LEMMA ChoicesFact ==
    ASSUME NEW n \in Nat, NEW k \in Nat
    PROVE  /\ IsFiniteSet(kSubset(k, 1 .. n)) /\ Chosen(n, k) \in Nat
           /\ IsFiniteSet(1 .. n) /\ Cardinality(1 .. n) = n
           /\ \A s \in kSubset(k, 1 .. n) : s \subseteq 1 .. n /\ IsFiniteSet(s) /\ Cardinality(s) = k
<1>1. IsFiniteSet(1 .. n) /\ Cardinality(1 .. n) = n
  BY FS_Interval
<1>2. IsFiniteSet(kSubset(k, 1 .. n))
  <2>1. IsFiniteSet(SUBSET (1 .. n))
    BY <1>1, FS_SUBSET
  <2>2. kSubset(k, 1 .. n) \in SUBSET SUBSET (1 .. n)
    BY DEF kSubset
  <2> QED
    BY <2>1, <2>2, FS_Subset
<1>3. Chosen(n, k) \in Nat
  BY <1>2, FS_CardinalityType DEF Chosen
<1>4. ASSUME NEW s \in kSubset(k, 1 .. n)
      PROVE  s \subseteq 1 .. n /\ IsFiniteSet(s) /\ Cardinality(s) = k
  <2>1. s \in SUBSET (1 .. n) /\ Cardinality(s) = k
    BY DEF kSubset
  <2> QED
    BY <1>1, <2>1, FS_Subset
<1> QED
  BY <1>1, <1>2, <1>3, <1>4

LEMMA ChooseNone ==
    ASSUME NEW n \in Nat
    PROVE  Chosen(n, 0) = 1
<1>1. \A s \in kSubset(0, 1 .. n) : s = {}
  BY ChoicesFact, FS_EmptySet
<1>2. {} \in kSubset(0, 1 .. n)
  BY FS_EmptySet DEF kSubset
<1>3. kSubset(0, 1 .. n) = {{}}
  BY <1>1, <1>2
<1> QED
  BY <1>3, FS_Singleton DEF Chosen

LEMMA ChooseFromMore ==
    ASSUME NEW m \in Nat, NEW n \in Nat, m <= n, NEW k \in Nat
    PROVE  Chosen(m, k) <= Chosen(n, k)
<1>1. 1 .. m \subseteq 1 .. n
  OBVIOUS
<1>2. kSubset(k, 1 .. m) \in SUBSET kSubset(k, 1 .. n)
  BY <1>1 DEF kSubset
<1>3. IsFiniteSet(kSubset(k, 1 .. n))
  BY ChoicesFact
<1> QED
  BY <1>2, <1>3, FS_Subset DEF Chosen

\* Pascal's rule: a choice of k + 1 out of n + 1 has the last or does not.
LEMMA ChooseLastOrNot ==
    ASSUME NEW n \in Nat, NEW k \in Nat
    PROVE  Chosen(n + 1, k + 1) = Chosen(n, k + 1) + Chosen(n, k)
<1> DEFINE x == n + 1
           S == 1 .. n
           Without == kSubset(k + 1, S)
           With == {s \in kSubset(k + 1, 1 .. x) : x \in s}
           grow == [s \in kSubset(k, S) |-> s \union {x}]
<1>1. 1 .. x = S \union {x} /\ x \notin S /\ x \in Nat
  OBVIOUS
<1> HIDE DEF x, S
<1>2. /\ IsFiniteSet(Without) /\ Chosen(n, k + 1) = Cardinality(Without)
      /\ IsFiniteSet(kSubset(k, S)) /\ Chosen(n, k) = Cardinality(kSubset(k, S))
      /\ IsFiniteSet(S) /\ \A s \in SUBSET S : IsFiniteSet(s)
  <2>1. IsFiniteSet(S)
    BY FS_Interval DEF S
  <2>2. IsFiniteSet(kSubset(k + 1, S)) /\ IsFiniteSet(kSubset(k, S))
    BY ChoicesFact DEF S
  <2>3. \A s \in SUBSET S : IsFiniteSet(s)
    BY <2>1, FS_Subset
  <2> QED
    BY <2>1, <2>2, <2>3 DEF Chosen, S
<1>3. \A s \in kSubset(k, S) : s \in SUBSET S /\ x \notin s /\ IsFiniteSet(s) /\ Cardinality(s) = k
  BY <1>1, <1>2 DEF kSubset
<1>4. grow \in Bijection(kSubset(k, S), With)
  <2>1. ASSUME NEW s \in kSubset(k, S)
        PROVE  grow[s] \in With
    <3>1. Cardinality(s \union {x}) = k + 1 /\ s \union {x} \in SUBSET (1 .. x)
      BY <1>1, <1>3, FS_AddElement
    <3> QED
      BY <3>1 DEF kSubset
  <2>2. ASSUME NEW s \in kSubset(k, S), NEW t \in kSubset(k, S), grow[s] = grow[t]
        PROVE  s = t
    BY <1>3, <2>2
  <2>3. ASSUME NEW t \in With
        PROVE  \E s \in kSubset(k, S) : grow[s] = t
    <3> DEFINE s == t \ {x}
    <3>1. t \in SUBSET (1 .. x) /\ Cardinality(t) = k + 1 /\ x \in t
      BY DEF kSubset
    <3>2. s \in SUBSET S /\ t = s \union {x} /\ x \notin s /\ IsFiniteSet(s)
      BY <1>1, <1>2, <3>1
    <3> HIDE DEF s
    <3>3. Cardinality(s) \in Nat /\ Cardinality(t) = Cardinality(s) + 1
      BY <3>2, FS_AddElement, FS_CardinalityType
    <3>4. s \in kSubset(k, S)
      BY <3>1, <3>2, <3>3 DEF kSubset
    <3> QED
      BY <3>2, <3>4
  <2>4. grow \in Injection(kSubset(k, S), With)
    BY <2>1, <2>2 DEF Injection, IsInjective
  <2>5. grow \in Surjection(kSubset(k, S), With)
    BY <2>1, <2>3 DEF Surjection
  <2> QED
    BY <2>4, <2>5 DEF Bijection
<1> HIDE DEF grow
<1>5. IsFiniteSet(With) /\ Cardinality(With) = Chosen(n, k)
  <2>1. ExistsBijection(kSubset(k, S), With)
    BY <1>4 DEF ExistsBijection
  <2> HIDE DEF With
  <2> QED
    BY <1>2, <2>1, FS_Bijection
<1>6. kSubset(k + 1, 1 .. x) = Without \union With /\ Without \intersect With = {}
  BY <1>1 DEF kSubset
<1>7. Cardinality(Without \union With)
        = Cardinality(Without) + Cardinality(With) - Cardinality({})
  <2> HIDE DEF Without, With
  <2> QED
    BY <1>2, <1>5, <1>6, FS_Union
<1>8. Cardinality(Without) \in Nat /\ Cardinality(With) \in Nat /\ Cardinality({}) = 0
  <2> HIDE DEF Without, With
  <2> QED
    BY <1>2, <1>5, FS_CardinalityType, FS_EmptySet
<1>9. Chosen(n + 1, k + 1) = Cardinality(Without \union With)
  BY <1>6 DEF Chosen, x
<1> HIDE DEF Without, With
<1> QED
  BY <1>2, <1>5, <1>7, <1>8, <1>9

\* Multisets of m out of a.
Ways(m, a) == Chosen(a + m - 1, m)

LEMMA WaysFacts ==
    /\ \A m \in Nat \ {0}, a \in Nat : Ways(m, a) \in Nat
    /\ \A m \in Nat \ {0}, a, b \in Nat : a <= b => Ways(m, a) <= Ways(m, b)
    /\ \A a \in Nat : Ways(0, a + 1) = 1
    /\ \A m \in Nat \ {0}, a \in Nat : Ways(m, a + 1) = Ways(m, a) + Ways(m - 1, a + 1)
<1>1. ASSUME NEW m \in Nat \ {0}, NEW a \in Nat
      PROVE  a + m - 1 \in Nat
  OBVIOUS
<1>2. ASSUME NEW m \in Nat \ {0}, NEW a \in Nat PROVE Ways(m, a) \in Nat
  BY <1>1, ChoicesFact DEF Ways
<1>3. ASSUME NEW m \in Nat \ {0}, NEW a \in Nat, NEW b \in Nat, a <= b
      PROVE  Ways(m, a) <= Ways(m, b)
  <2>1. a + m - 1 \in Nat /\ b + m - 1 \in Nat /\ a + m - 1 <= b + m - 1
    BY <1>3
  <2> QED
    BY <2>1, ChooseFromMore DEF Ways
<1>4. ASSUME NEW a \in Nat PROVE Ways(0, a + 1) = 1
  <2>1. (a + 1) + 0 - 1 = a
    OBVIOUS
  <2> QED
    BY <2>1, ChooseNone DEF Ways
<1>5. ASSUME NEW m \in Nat \ {0}, NEW a \in Nat
      PROVE  Ways(m, a + 1) = Ways(m, a) + Ways(m - 1, a + 1)
  <2> DEFINE n == a + m - 1
             k == m - 1
  <2>1. n \in Nat /\ k \in Nat /\ (a + 1) + m - 1 = n + 1 /\ (a + 1) + (m - 1) - 1 = n /\ k + 1 = m
    OBVIOUS
  <2>2. Ways(m, a + 1) = Chosen(n + 1, m) /\ Ways(m - 1, a + 1) = Chosen(n, k)
    BY <2>1 DEF Ways
  <2>3. Chosen(n + 1, k + 1) = Chosen(n, k + 1) + Chosen(n, k)
    <3> HIDE DEF n, k
    <3> QED
      BY <2>1, ChooseLastOrNot
  <2> QED
    BY <2>1, <2>2, <2>3 DEF Ways
<1> QED
  BY <1>2, <1>3, <1>4, <1>5

-----------------------------------------------------------------------------
(* UserAccess: the user, the tokens and the audit trail                    *)

\* Who holds the row's lock has yet to commit what it wrote over the user that
\* is committed now.
LockIsOwn ==
    lock # None => row[lock] = Written(lock, user)

\* A role and version that may be in a token: not newer than the user, and the
\* user's role if as new.
Agrees(r, v) == v <= user.version /\ (v = user.version => r = user.role)
TokensAgree ==
    ~stale => /\ \A a \in access : Agrees(a.role, a.version)
              /\ \A s \in Sessions : pc[s] = "read" => Agrees(seen[s].role, seen[s].version)

LockHolderWorks == \A u \in Updates : lock = u => pc[u] \notin {"idle", "read"}

IInv == TypeOK /\ LockHolderWorks /\ LockIsOwn /\ TokensAgree /\ TrailTellsUser

-----------------------------------------------------------------------------
LEMMA Facts ==
    ASSUME TypeOK
    PROVE  /\ user \in User /\ user.version \in Nat /\ user.role \in Roles
           /\ \A q \in Updates \union Sessions :
                seen[q] \in User /\ seen[q].version \in Nat /\ seen[q].role \in Roles
           /\ \A a \in access : a.version \in Nat /\ a.role \in Roles
           /\ None \notin Updates
BY UserAccessAssumption DEF UserAccessAssumption, TypeOK, User

\* What an update writes is a user again.
LEMMA WrittenIsUser ==
    ASSUME TypeOK, NEW u \in Updates
    PROVE  Written(u, user) \in User
<1>1. payload[u].role \in Roles \union {None} /\ payload[u].active \in BOOLEAN \union {None}
  BY DEF TypeOK, Payload
<1>2. /\ user.role \in Roles /\ user.active \in BOOLEAN /\ user.version \in Nat
      /\ seen[u].version \in Nat
  BY DEF TypeOK, User
<1>3. (IF ChangesRole(u) THEN payload[u].role ELSE user.role) \in Roles
  BY <1>1, <1>2 DEF ChangesRole
<1>4. (IF ChangesActive(u) THEN payload[u].active ELSE user.active) \in BOOLEAN
  BY <1>1, <1>2 DEF ChangesActive
<1> QED
  BY <1>2, <1>3, <1>4 DEF Written, User

LEMMA InitIInv == Init => IInv
<1> SUFFICES ASSUME Init PROVE IInv
  OBVIOUS
<1>1. user \in User
  BY DEF Init, User
<1>2. stores \subseteq StoreRow
  BY DEF Init, StoreRow
<1>3. TypeOK
  <2>1. trail \in Seq(Entry) /\ access \subseteq [role : Roles, version : Nat]
    BY DEF Init
  <2>2. /\ seen \in [Updates \union Sessions -> User] /\ row \in [Updates -> User]
        /\ found \in [Updates -> SUBSET StoreRow]
    BY <1>1 DEF Init
  <2> QED
    BY <1>1, <1>2, <2>1, <2>2 DEF Init, TypeOK
<1>4. LockHolderWorks /\ LockIsOwn /\ TokensAgree
  BY UserAccessAssumption
     DEF UserAccessAssumption, Init, LockHolderWorks, LockIsOwn, TokensAgree
<1>5. TrailTellsUser
  BY DEF Init, TrailTellsUser
<1> QED
  BY <1>3, <1>4, <1>5 DEF IInv

-----------------------------------------------------------------------------
(* Steps that leave the user as it is *)

\* The update u moves on; what it reads and decides is its own.
LEMMA QuietUpdate ==
    ASSUME IInv, TypeOK', NEW u \in Updates,
           UNCHANGED <<user, access, trail, lock, payload, stale>>,
           \A q \in (Updates \union Sessions) \ {u} : pc'[q] = pc[q] /\ seen'[q] = seen[q],
           \A v \in Updates \ {u} : row'[v] = row[v],
           lock # u \/ (seen'[u] = seen[u] /\ row'[u] = row[u] /\ pc'[u] \notin {"idle", "read"})
    PROVE  IInv'
<1>1. LockHolderWorks'
  BY DEF IInv, LockHolderWorks
<1>2. LockIsOwn'
  <2> SUFFICES ASSUME lock # None
               PROVE  row'[lock] = Written(lock, user)'
    BY DEF LockIsOwn
  <2>1. lock \in Updates /\ row'[lock] = row[lock] /\ seen'[lock] = seen[lock]
    BY DEF IInv, TypeOK
  <2> QED
    BY <2>1 DEF IInv, LockIsOwn, Written, Bumps, Sensitive, ChangesRole, ChangesActive
<1>3. TokensAgree'
  BY UserAccessAssumption DEF UserAccessAssumption, IInv, TokensAgree, Agrees
<1>4. TrailTellsUser'
  BY DEF IInv, TrailTellsUser
<1> QED
  BY <1>1, <1>2, <1>3, <1>4 DEF IInv

LEMMA WriteUserStep ==
    ASSUME IInv, NEW u \in Updates, WriteUser(u)
    PROVE  IInv'
<1>1. /\ lock = None /\ lock' = u
      /\ row'[u] = Written(u, user)
      /\ \A q \in (Updates \union Sessions) \ {u} : pc'[q] = pc[q]
      /\ pc'[u] = "written"
      /\ UNCHANGED <<user, stores, access, trail, payload, seen, found, stale>>
  BY DEF WriteUser, IInv, TypeOK
<1>2. TypeOK'
  <2>1. row' \in [Updates -> User]
    BY WrittenIsUser DEF WriteUser, IInv, TypeOK
  <2>2. pc' \in [Updates \union Sessions ->
                   {"idle", "read", "written", "found", "replaced", "done", "failed"}]
    BY DEF WriteUser, IInv, TypeOK
  <2> QED
    BY <1>1, <2>1, <2>2 DEF IInv, TypeOK
<1>3. LockHolderWorks'
  BY <1>1 DEF LockHolderWorks
<1>4. LockIsOwn'
  BY <1>1 DEF LockIsOwn, Written, Bumps, Sensitive, ChangesRole, ChangesActive
<1>5. TokensAgree'
  BY <1>1, UserAccessAssumption DEF UserAccessAssumption, IInv, TokensAgree, Agrees
<1>6. TrailTellsUser'
  BY <1>1 DEF IInv, TrailTellsUser
<1> QED
  BY <1>2, <1>3, <1>4, <1>5, <1>6 DEF IInv

LEMMA FailStep ==
    ASSUME IInv, NEW u \in Updates, Fail(u)
    PROVE  IInv'
<1>1. /\ lock' = IF lock = u THEN None ELSE lock
      /\ pc'[u] = "failed"
      /\ \A q \in (Updates \union Sessions) \ {u} : pc'[q] = pc[q]
      /\ UNCHANGED <<user, stores, access, trail, payload, seen, row, found, stale>>
  BY DEF Fail, IInv, TypeOK
<1>2. TypeOK'
  BY <1>1 DEF Fail, IInv, TypeOK
<1>3. LockHolderWorks' /\ LockIsOwn'
  <2>1. lock' # None => lock' = lock /\ lock # u /\ lock \in Updates
    BY <1>1 DEF IInv, TypeOK
  <2>2. LockIsOwn'
    BY <1>1, <2>1
       DEF IInv, LockIsOwn, Written, Bumps, Sensitive, ChangesRole, ChangesActive
  <2>3. LockHolderWorks'
    BY <1>1, <2>1, UserAccessAssumption DEF UserAccessAssumption, IInv, LockHolderWorks
  <2> QED
    BY <2>2, <2>3
<1>4. TokensAgree'
  BY <1>1, UserAccessAssumption DEF UserAccessAssumption, IInv, TokensAgree, Agrees
<1>5. TrailTellsUser'
  BY <1>1 DEF IInv, TrailTellsUser
<1> QED
  BY <1>2, <1>3, <1>4, <1>5 DEF IInv

LEMMA SessionStep ==
    ASSUME IInv, NEW s \in Sessions, FindUser(s) \/ IssueTokens(s)
    PROVE  IInv'
<1>1. /\ UNCHANGED <<user, stores, trail, lock, payload, row, found, stale>>
      /\ \A q \in (Updates \union Sessions) \ {s} : pc'[q] = pc[q] /\ seen'[q] = seen[q]
      /\ s \notin Updates
  BY UserAccessAssumption DEF UserAccessAssumption, FindUser, IssueTokens, IInv, TypeOK
<1>2. TypeOK'
  <2>1. seen' \in [Updates \union Sessions -> User]
    BY DEF FindUser, IssueTokens, IInv, TypeOK
  <2>2. access' \subseteq [role : Roles, version : Nat]
    BY Facts DEF FindUser, IssueTokens, IInv, TypeOK
  <2>3. pc' \in [Updates \union Sessions ->
                   {"idle", "read", "written", "found", "replaced", "done", "failed"}]
    BY DEF FindUser, IssueTokens, IInv, TypeOK
  <2> QED
    BY <1>1, <2>1, <2>2, <2>3 DEF IInv, TypeOK
<1>3. LockHolderWorks'
  BY <1>1 DEF IInv, LockHolderWorks
<1>4. LockIsOwn'
  <2>1. lock # None => lock \in Updates /\ seen'[lock] = seen[lock]
    BY <1>1 DEF IInv, TypeOK
  <2> QED
    BY <1>1, <2>1
       DEF IInv, LockIsOwn, Written, Bumps, Sensitive, ChangesRole, ChangesActive
<1>5. TokensAgree'
  <2> SUFFICES ASSUME ~stale PROVE TokensAgree'
    BY <1>1 DEF TokensAgree
  <2>1. \A v \in Sessions : pc[v] = "read" => Agrees(seen[v].role, seen[v].version)
    BY DEF IInv, TokensAgree
  <2>2. CASE FindUser(s)
    <3>1. seen'[s] = user /\ Agrees(user.role, user.version) /\ UNCHANGED access
      BY <2>2, Facts DEF FindUser, IInv, TypeOK, Agrees
    <3>2. \A v \in Sessions : pc'[v] = "read" => Agrees(seen'[v].role, seen'[v].version)
      BY <1>1, <2>1, <3>1
    <3>3. \A a \in access : Agrees(a.role, a.version)
      BY DEF IInv, TokensAgree
    <3> QED
      BY <1>1, <3>1, <3>2, <3>3 DEF TokensAgree, Agrees
  <2>3. CASE IssueTokens(s)
    <3>1. /\ Agrees(seen[s].role, seen[s].version) /\ pc'[s] = "idle" /\ UNCHANGED seen
          /\ access' = access \union {[role |-> seen[s].role, version |-> seen[s].version]}
      BY <2>1, <2>3 DEF IssueTokens, IInv, TypeOK
    <3>2. \A a \in access' : Agrees(a.role, a.version)
      BY <3>1 DEF IInv, TokensAgree
    <3>3. \A v \in Sessions : pc'[v] = "read" => Agrees(seen'[v].role, seen'[v].version)
      BY <1>1, <2>1, <3>1
    <3> QED
      BY <1>1, <3>2, <3>3 DEF TokensAgree, Agrees
  <2> QED
    BY <2>2, <2>3
<1>6. TrailTellsUser'
  BY <1>1 DEF IInv, TrailTellsUser
<1> QED
  BY <1>2, <1>3, <1>4, <1>5, <1>6 DEF IInv

-----------------------------------------------------------------------------
(* The commit *)

\* A user that is written over either keeps its role and version, or has a
\* version that no token can have yet.
LEMMA CommittedUser ==
    ASSUME IInv, NEW u \in Updates, Commit(u), ~stale'
    PROVE  /\ ~stale
           /\ user'.version >= user.version
           /\ user'.version = user.version => user'.role = user.role
<1>1. ~stale /\ (Sensitive(u) => seen[u].version = user.version)
  BY DEF Commit
<1>2. user.version \in Nat
  BY Facts DEF IInv
<1>3. CASE lock # u
  BY <1>1, <1>2, <1>3 DEF Commit
<1>4. CASE lock = u
  <2>1. user' = Written(u, user)
    BY <1>4, Facts DEF Commit, IInv, LockIsOwn
  <2>2. user'.version = (IF Bumps(u) THEN seen[u].version + 1 ELSE user.version)
    BY <2>1 DEF Written
  <2>3. user'.role = (IF ChangesRole(u) THEN payload[u].role ELSE user.role)
    BY <2>1 DEF Written
  <2>4. CASE Sensitive(u)
    BY <1>1, <1>2, <2>2, <2>4 DEF Bumps
  <2>5. CASE ~Sensitive(u)
    BY <1>1, <1>2, <2>2, <2>3, <2>5 DEF Bumps, Sensitive
  <2> QED
    BY <2>4, <2>5
<1> QED
  BY <1>3, <1>4

LEMMA CommitTypeOK ==
    ASSUME IInv, NEW u \in Updates, Commit(u)
    PROVE  TypeOK'
<1>1. user' \in User
  BY DEF Commit, IInv, TypeOK
<1>2. stores' \subseteq StoreRow
  <2>1. payload[u].stores \subseteq Stores
    BY DEF IInv, TypeOK, Payload
  <2>2. Inserted(u) \subseteq StoreRow
    BY <2>1 DEF Inserted, StoreRow
  <2> QED
    BY <2>2 DEF Commit, IInv, TypeOK
<1>3. trail' \in Seq(Entry)
  <2>1. \A w \in User : Shown(w) \in [role : Roles, active : BOOLEAN]
    BY DEF Shown, User
  <2>2. [old |-> Shown(seen[u]), new |-> NewData(u), wrote |-> lock = u] \in Entry
    BY <2>1 DEF NewData, Entry, IInv, TypeOK
  <2> QED
    BY <2>2 DEF Commit, IInv, TypeOK
<1>4. lock' \in Updates \union {None} /\ stale' \in BOOLEAN
  BY DEF Commit, IInv, TypeOK
<1>5. pc' \in [Updates \union Sessions ->
                 {"idle", "read", "written", "found", "replaced", "done", "failed"}]
  BY DEF Commit, IInv, TypeOK
<1> QED
  BY <1>1, <1>2, <1>3, <1>4, <1>5 DEF Commit, IInv, TypeOK

LEMMA CommitStep ==
    ASSUME IInv, NEW u \in Updates, Commit(u)
    PROVE  IInv'
<1>1. /\ user' = IF lock = u THEN row[u] ELSE user
      /\ lock' = IF lock = u THEN None ELSE lock
      /\ pc'[u] = "done"
      /\ \A q \in (Updates \union Sessions) \ {u} : pc'[q] = pc[q]
      /\ UNCHANGED <<access, payload, seen, row, found>>
  BY DEF Commit, IInv, TypeOK
<1>2. TypeOK'
  BY CommitTypeOK
<1>3. LockHolderWorks' /\ LockIsOwn'
  <2>1. lock' # None => lock' = lock /\ lock # u /\ lock \in Updates /\ user' = user
    BY <1>1 DEF IInv, TypeOK
  <2>2. LockIsOwn'
    BY <1>1, <2>1
       DEF IInv, LockIsOwn, Written, Bumps, Sensitive, ChangesRole, ChangesActive
  <2>3. LockHolderWorks'
    BY <1>1, <2>1, UserAccessAssumption DEF UserAccessAssumption, IInv, LockHolderWorks
  <2> QED
    BY <2>2, <2>3
<1>4. TokensAgree'
  <2> SUFFICES ASSUME ~stale' PROVE TokensAgree'
    BY DEF TokensAgree
  <2>1. /\ ~stale /\ user'.version >= user.version
        /\ user'.version = user.version => user'.role = user.role
    BY CommittedUser
  <2>2. user.version \in Nat /\ user'.version \in Nat
    BY <1>2, Facts DEF IInv, TypeOK, User
  <2>3. \A r \in Roles, v \in Nat : Agrees(r, v) => v <= user'.version /\ (v = user'.version => r = user'.role)
    BY <2>1, <2>2 DEF Agrees
  <2>4. \A a \in access : Agrees(a.role, a.version)
    BY <2>1 DEF IInv, TokensAgree
  <2>5. \A s \in Sessions : pc'[s] = "read" => Agrees(seen[s].role, seen[s].version)
    BY <1>1, <2>1, UserAccessAssumption DEF UserAccessAssumption, IInv, TokensAgree
  <2> QED
    BY <1>1, <2>3, <2>4, <2>5, Facts DEF TokensAgree, Agrees, IInv
<1>5. TrailTellsUser'
  <2> DEFINE n == Len(trail)
             e == [old |-> Shown(seen[u]), new |-> NewData(u), wrote |-> lock = u]
  <2>1. /\ n \in Nat /\ Len(trail') = n + 1 /\ trail'[n + 1] = e
        /\ \A i \in 1..n : trail'[i] = trail[i]
    BY DEF Commit, IInv, TypeOK
  <2>2. e.wrote = (lock = u) /\ e.new = Shown(row[u])
    BY DEF NewData
  <2> HIDE DEF n, e
  <2>3. SUFFICES ASSUME NEW i \in 1..n + 1, trail'[i].wrote,
                        \A j \in i + 1..n + 1 : ~trail'[j].wrote
                 PROVE  trail'[i].new = Shown(user')
    BY <2>1 DEF TrailTellsUser, Shown
  <2>4. CASE i = n + 1
    <3>1. lock = u /\ user' = row[u]
      BY <1>1, <2>1, <2>2, <2>3, <2>4
    <3> QED
      BY <2>1, <2>2, <2>4, <3>1
  <2>5. CASE i \in 1..n
    <3>1. ~trail'[n + 1].wrote
      BY <2>1, <2>3, <2>5
    <3>2. lock # u /\ user' = user
      BY <1>1, <2>1, <2>2, <3>1
    <3>3. trail[i].wrote /\ \A j \in i + 1..n : ~trail[j].wrote
      BY <2>1, <2>3, <2>5
    <3>4. trail[i].new = Shown(user)
      BY <2>5, <3>3 DEF IInv, TrailTellsUser, n
    <3> QED
      BY <2>1, <2>5, <3>2, <3>4
  <2> QED
    BY <2>1, <2>4, <2>5
<1> QED
  BY <1>2, <1>3, <1>4, <1>5 DEF IInv

-----------------------------------------------------------------------------
(* The theorems *)

LEMMA NextIInv ==
    ASSUME IInv, [Next]_vars
    PROVE  IInv'
<1>1. ASSUME NEW u \in Updates,
             ReadUser(u) \/ WriteNothing(u) \/ FindStores(u) \/ ReplaceStores(u)
      PROVE  IInv'
  <2>1. TypeOK'
    <3>1. CASE ReadUser(u)
      BY <3>1 DEF ReadUser, IInv, TypeOK
    <3>2. CASE WriteNothing(u)
      BY <3>2 DEF WriteNothing, IInv, TypeOK
    <3>3. CASE FindStores(u)
      BY <3>3 DEF FindStores, IInv, TypeOK
    <3>4. CASE ReplaceStores(u)
      BY <3>4 DEF ReplaceStores, IInv, TypeOK
    <3> QED
      BY <1>1, <3>1, <3>2, <3>3, <3>4
  <2>2. /\ UNCHANGED <<user, access, trail, lock, payload, stale>>
        /\ \A q \in (Updates \union Sessions) \ {u} : pc'[q] = pc[q] /\ seen'[q] = seen[q]
        /\ \A v \in Updates \ {u} : row'[v] = row[v]
    BY <1>1 DEF ReadUser, WriteNothing, FindStores, ReplaceStores, IInv, TypeOK
  <2>3. \/ lock # u
        \/ seen'[u] = seen[u] /\ row'[u] = row[u] /\ pc'[u] \notin {"idle", "read"}
    BY <1>1 DEF ReadUser, WriteNothing, FindStores, ReplaceStores, IInv, TypeOK, LockHolderWorks
  <2> QED
    BY <2>1, <2>2, <2>3, QuietUpdate
<1>2. ASSUME NEW u \in Updates, WriteUser(u) \/ Commit(u) \/ Fail(u)
      PROVE  IInv'
  BY <1>2, WriteUserStep, CommitStep, FailStep
<1>3. ASSUME NEW s \in Sessions, FindUser(s) \/ IssueTokens(s)
      PROVE  IInv'
  BY <1>3, SessionStep
<1>4. CASE UNCHANGED vars
  BY <1>4
     DEF vars, IInv, TypeOK, LockHolderWorks, LockIsOwn, Written, Bumps, Sensitive, ChangesRole,
         ChangesActive, TokensAgree, Agrees, TrailTellsUser
<1> QED
  BY <1>1, <1>2, <1>3, <1>4 DEF Next

LEMMA AlwaysIInv == Spec => []IInv
<1> QED
  BY InitIInv, NextIInv, PTL DEF Spec

\* The user, the tokens and the updates keep their types.
THEOREM TypeCorrect == Spec => []TypeOK
<1>1. IInv => TypeOK
  BY DEF IInv
<1> QED
  BY <1>1, AlwaysIInv, PTL

\* Without an update computed from a version that was no longer current, however
\* updates and logins interleave, an accepted token says the user's role.
THEOREM AcceptedCorrect == Spec => []AcceptedUnlessStale
<1>1. IInv => AcceptedUnlessStale
  BY DEF IInv, TokensAgree, Agrees, AcceptedUnlessStale, AcceptedRoleIsCurrent, Accepted
<1> QED
  BY <1>1, AlwaysIInv, PTL

\* The audit trail tells the user as it is, with any number of updates at once.
THEOREM TrailCorrect == Spec => []TrailTellsUser
<1>1. IInv => TrailTellsUser
  BY DEF IInv
<1> QED
  BY <1>1, AlwaysIInv, PTL

-----------------------------------------------------------------------------
(* LoginLockout: the counter and the lock                                  *)

LoginIInv == LoginTypeOK /\ LockMatchesCounter

LEMMA LoginInitIInv == LoginInit => LoginIInv
<1> SUFFICES ASSUME LoginInit PROVE LoginIInv
  OBVIOUS
<1>1. LoginTypeOK
  BY LockoutAssumption DEF LockoutAssumption, LoginInit, LoginTypeOK, NoLock
<1>2. LockMatchesCounter
  BY LockoutAssumption DEF LockoutAssumption, LoginInit, LockMatchesCounter
<1> QED
  BY <1>1, <1>2 DEF LoginIInv

\* What a failure writes: a lock if and only if the count it writes asks for one.
LEMMA CountFailureStep ==
    ASSUME LoginIInv, NEW q \in Requests, CountFailure(q)
    PROVE  LoginIInv'
<1>1. /\ read[q].failed \in 0..MaxSmallInt /\ read[q].now \in Nat
      /\ Attempts(q) = read[q].failed + 1 /\ Attempts(q) <= MaxSmallInt
  BY LockoutAssumption DEF LockoutAssumption, CountFailure, Attempts, Fits, LoginIInv, LoginTypeOK
<1>2. /\ MaxFailed \in Nat \ {0} /\ Lockout \in Nat \ {0} /\ MaxSmallInt \in Nat
  BY LockoutAssumption DEF LockoutAssumption
<1>3. failed' \in 0..MaxSmallInt /\ lockedUntil' \in Nat /\ LockMatchesCounter'
  BY <1>1, <1>2 DEF CountFailure, LockMatchesCounter, NoLock
<1>4. LoginTypeOK'
  BY <1>3 DEF CountFailure, LoginIInv, LoginTypeOK
<1> QED
  BY <1>3, <1>4 DEF LoginIInv

LEMMA LoginNextIInv ==
    ASSUME LoginIInv, [LoginNext]_loginVars
    PROVE  LoginIInv'
<1>1. CASE Tick
  BY <1>1, LockoutAssumption DEF LockoutAssumption, Tick, LoginIInv, LoginTypeOK, LockMatchesCounter
<1>2. CASE SetActive
  BY <1>2 DEF SetActive, LoginIInv, LoginTypeOK, LockMatchesCounter
<1>3. ASSUME NEW q \in Requests, NEW right \in BOOLEAN, LookUp(q, right)
      PROVE  LoginIInv'
  BY <1>3 DEF LookUp, LoginIInv, LoginTypeOK, LockMatchesCounter
<1>4. ASSUME NEW q \in Requests, CountFailure(q)
      PROVE  LoginIInv'
  BY <1>4, CountFailureStep
<1>5. ASSUME NEW q \in Requests, LogIn(q)
      PROVE  LoginIInv'
  BY <1>5, LockoutAssumption
     DEF LockoutAssumption, LogIn, Unlocked, NoLock, LoginIInv, LoginTypeOK, LockMatchesCounter
<1>6. ASSUME NEW q \in Requests, Abort(q)
      PROVE  LoginIInv'
  BY <1>6 DEF Abort, LoginIInv, LoginTypeOK, LockMatchesCounter
<1>7. CASE UNCHANGED loginVars
  BY <1>7 DEF loginVars, LoginIInv, LoginTypeOK, LockMatchesCounter
<1> QED
  BY <1>1, <1>2, <1>3, <1>4, <1>5, <1>6, <1>7 DEF LoginNext

LEMMA AlwaysLoginIInv == LoginSpec => []LoginIInv
<1> QED
  BY LoginInitIInv, LoginNextIInv, PTL DEF LoginSpec

\* No step but a login takes the counter, or what a login under way has read of
\* it, below a value that all of them had reached.
LEMMA FloorStep ==
    ASSUME LoginIInv, [LoginNext]_loginVars, NEW v \in 0..MaxFailed, AtLeast(v), failed' # 0
    PROVE  AtLeast(v)'
<1>1. failed \in Nat /\ \A q \in Requests : read[q].failed \in Nat
  BY LockoutAssumption DEF LockoutAssumption, LoginIInv, LoginTypeOK
<1>2. CASE Tick \/ SetActive \/ UNCHANGED loginVars
  BY <1>2 DEF Tick, SetActive, loginVars, AtLeast
<1>3. ASSUME NEW q \in Requests, NEW right \in BOOLEAN, LookUp(q, right)
      PROVE  AtLeast(v)'
  BY <1>3 DEF LookUp, AtLeast, LoginIInv, LoginTypeOK
<1>4. ASSUME NEW q \in Requests, CountFailure(q)
      PROVE  AtLeast(v)'
  <2>1. failed' = read[q].failed + 1 /\ read[q].failed >= v
    BY <1>4 DEF CountFailure, Attempts, AtLeast
  <2>2. failed' >= v
    BY <1>1, <2>1, LockoutAssumption DEF LockoutAssumption
  <2>3. \A r \in Requests : login'[r] = "verifying" => login[r] = "verifying" /\ UNCHANGED read
    BY <1>4 DEF CountFailure, LoginIInv, LoginTypeOK
  <2> QED
    BY <2>2, <2>3 DEF AtLeast
<1>5. ASSUME NEW q \in Requests, LogIn(q)
      PROVE  AtLeast(v)'
  BY <1>5 DEF LogIn
<1>6. ASSUME NEW q \in Requests, Abort(q)
      PROVE  AtLeast(v)'
  BY <1>6 DEF Abort, AtLeast, LoginIInv, LoginTypeOK
<1> QED
  BY <1>2, <1>3, <1>4, <1>5, <1>6 DEF LoginNext

\* The counter stays within its column, and the requests keep their types.
THEOREM LoginTypeCorrect == LoginSpec => []LoginTypeOK
<1>1. LoginIInv => LoginTypeOK
  BY DEF LoginIInv
<1> QED
  BY <1>1, AlwaysLoginIInv, PTL

\* However many logins write one after the other what they computed earlier, the
\* account is locked exactly when its counter says so.
THEOREM LockCorrect == LoginSpec => []LockMatchesCounter
<1>1. LoginIInv => LockMatchesCounter
  BY DEF LoginIInv
<1> QED
  BY <1>1, AlwaysLoginIInv, PTL

\* Lost increments and lifted locks notwithstanding, guessing in parallel raises
\* the least count that anybody has read.
THEOREM FloorRises == LoginSpec => FloorNeverFalls
<1>1. ASSUME LoginIInv, [LoginNext]_loginVars
      PROVE  [\A v \in 0..MaxFailed : AtLeast(v) /\ failed' # 0 => AtLeast(v)']_loginVars
  BY <1>1, FloorStep
<1> QED
  BY <1>1, AlwaysLoginIInv, PTL DEF LoginSpec, FloorNeverFalls

-----------------------------------------------------------------------------
(* LoginLockout: guessing in parallel                                      *)

\* The connections above a level, and the guesses that can have been told when
\* each stands at its level: for each level, the multisets of those above it,
\* of as many as the level lies below the limit.
Higher(L, v) == {q \in Requests : L[q] > v}
Terms(L) == [v \in 0 .. MaxFailed - 1 |-> Ways(MaxFailed - v, Cardinality(Higher(L, v)))]
Told(L) == SumFunctionOnSet(Terms(L), 0 .. MaxFailed - 1)

LEMMA TermsFacts ==
    ASSUME IsFiniteSet(Requests), NEW L
    PROVE  /\ MaxFailed \in Nat \ {0} /\ IsFiniteSet(0 .. MaxFailed - 1)
           /\ \A v \in 0 .. MaxFailed - 1 :
                 /\ Cardinality(Higher(L, v)) \in Nat
                 /\ Terms(L)[v] = Ways(MaxFailed - v, Cardinality(Higher(L, v)))
                 /\ Terms(L)[v] \in Nat
           /\ Told(L) \in Int
<1>1. MaxFailed \in Nat \ {0}
  BY LockoutAssumption DEF LockoutAssumption
<1>2. IsFiniteSet(0 .. MaxFailed - 1)
  BY <1>1, FS_Interval
<1>3. ASSUME NEW v \in 0 .. MaxFailed - 1
      PROVE  /\ Cardinality(Higher(L, v)) \in Nat
             /\ Terms(L)[v] = Ways(MaxFailed - v, Cardinality(Higher(L, v)))
             /\ Terms(L)[v] \in Nat
  <2>1. Higher(L, v) \in SUBSET Requests
    BY DEF Higher
  <2>2. Cardinality(Higher(L, v)) \in Nat
    BY <2>1, FS_Subset, FS_CardinalityType
  <2>3. Terms(L)[v] = Ways(MaxFailed - v, Cardinality(Higher(L, v)))
    BY DEF Terms
  <2>4. MaxFailed - v \in Nat \ {0}
    BY <1>1
  <2> QED
    BY <2>2, <2>3, <2>4, WaysFacts
<1>4. Told(L) \in Int
  <2>1. \A v \in 0 .. MaxFailed - 1 : Terms(L)[v] \in Int
    BY <1>3
  <2> QED
    BY <1>2, <2>1, SumTakesOut DEF Told
<1> QED
  BY <1>1, <1>2, <1>3, <1>4

LEMMA HigherGrows ==
    ASSUME IsFiniteSet(Requests), NEW L, NEW N, NEW v, Higher(L, v) \subseteq Higher(N, v),
           v \in 0 .. MaxFailed - 1
    PROVE  Terms(L)[v] <= Terms(N)[v]
<1>1. /\ MaxFailed \in Nat \ {0} /\ MaxFailed - v \in Nat \ {0}
      /\ Cardinality(Higher(L, v)) \in Nat /\ Cardinality(Higher(N, v)) \in Nat
      /\ Terms(L)[v] = Ways(MaxFailed - v, Cardinality(Higher(L, v)))
      /\ Terms(N)[v] = Ways(MaxFailed - v, Cardinality(Higher(N, v)))
  BY TermsFacts
<1>2. Cardinality(Higher(L, v)) <= Cardinality(Higher(N, v))
  <2>1. IsFiniteSet(Higher(N, v))
    <3>1. Higher(N, v) \in SUBSET Requests
      BY DEF Higher
    <3> QED
      BY <3>1, FS_Subset
  <2>2. Higher(L, v) \in SUBSET Higher(N, v)
    OBVIOUS
  <2> QED
    BY <2>1, <2>2, FS_Subset
<1> QED
  BY <1>1, <1>2, WaysFacts

LEMMA ToldGrows ==
    ASSUME IsFiniteSet(Requests), NEW L \in [Requests -> Int], NEW N \in [Requests -> Int],
           \A q \in Requests : L[q] <= N[q]
    PROVE  Told(L) <= Told(N)
<1>1. /\ IsFiniteSet(0 .. MaxFailed - 1)
      /\ \A v \in 0 .. MaxFailed - 1 : Terms(L)[v] \in Int /\ Terms(N)[v] \in Int
  <2>1. IsFiniteSet(0 .. MaxFailed - 1) /\ \A v \in 0 .. MaxFailed - 1 : Terms(L)[v] \in Int
    BY TermsFacts
  <2>2. \A v \in 0 .. MaxFailed - 1 : Terms(N)[v] \in Int
    BY TermsFacts
  <2> QED
    BY <2>1, <2>2
<1>2. ASSUME NEW v \in 0 .. MaxFailed - 1
      PROVE  Terms(L)[v] <= Terms(N)[v]
  <2>1. Higher(L, v) \subseteq Higher(N, v)
    BY DEF Higher
  <2> QED
    BY <2>1, HigherGrows
<1> QED
  BY <1>1, <1>2, SumGrows DEF Told

\* What is told from level e on stays below what one connection more tells at e.
LEMMA TailBounded ==
    ASSUME IsFiniteSet(Requests), NEW L, NEW a \in Nat, NEW e \in 0 .. MaxFailed,
           \A v \in e .. MaxFailed - 1 : Cardinality(Higher(L, v)) <= a
    PROVE  1 + SumFunctionOnSet(Terms(L), e .. MaxFailed - 1) <= Ways(MaxFailed - e, a + 1)
<1> DEFINE w == Terms(L)
           AtOrAbove(d) == (MaxFailed - d) .. MaxFailed - 1
           B == {d \in 0 .. MaxFailed - e :
                    ~(1 + SumFunctionOnSet(w, AtOrAbove(d)) <= Ways(d, a + 1))}
<1>1. /\ MaxFailed \in Nat \ {0} /\ e \in Nat
      /\ \A v \in e .. MaxFailed - 1 :
            /\ w[v] \in Nat /\ w[v] = Ways(MaxFailed - v, Cardinality(Higher(L, v)))
            /\ Cardinality(Higher(L, v)) \in Nat
  BY TermsFacts
<1> HIDE DEF w
<1>2. B = {}
  <2> SUFFICES ASSUME B # {} PROVE FALSE
    OBVIOUS
  <2>1. PICK d \in B : \A k \in B : d <= k
    <3>1. B \subseteq Nat
      BY <1>1
    <3> HIDE DEF B
    <3> QED
      BY <3>1, Least
  <2>2. d \in 0 .. MaxFailed - e /\ ~(1 + SumFunctionOnSet(w, AtOrAbove(d)) <= Ways(d, a + 1))
    BY <2>1
  <2>3. d # 0
    <3>1. SUFFICES ASSUME d = 0 PROVE FALSE
      OBVIOUS
    <3>2. AtOrAbove(0) = {}
      BY <1>1
    <3>3. SumFunctionOnSet(w, AtOrAbove(0)) = 0 /\ Ways(0, a + 1) = 1
      BY <3>2, SumOfNone, WaysFacts
    <3> QED
      BY <2>2, <3>1, <3>3
  <2> DEFINE v == MaxFailed - d
  <2>4. /\ d \in Nat \ {0} /\ d - 1 \in 0 .. MaxFailed - e /\ MaxFailed - v = d
        /\ v \in e .. MaxFailed - 1 /\ v \in AtOrAbove(d) /\ AtOrAbove(d) \ {v} = AtOrAbove(d - 1)
        /\ AtOrAbove(d) \subseteq e .. MaxFailed - 1
    <3>1. d \in Nat \ {0} /\ d <= MaxFailed - e /\ MaxFailed \in Nat /\ e \in Nat
      BY <1>1, <2>2, <2>3
    <3>2. /\ d - 1 \in 0 .. MaxFailed - e /\ MaxFailed - v = d
          /\ v \in e .. MaxFailed - 1 /\ v \in AtOrAbove(d)
      BY <3>1
    <3>3. AtOrAbove(d) \subseteq e .. MaxFailed - 1
      BY <3>1
    <3>4. AtOrAbove(d - 1) = (v + 1) .. MaxFailed - 1 /\ AtOrAbove(d) = v .. MaxFailed - 1 /\ v \in Int
      <4>1. MaxFailed - (d - 1) = v + 1 /\ v \in Int
        BY <3>1
      <4> QED
        BY <4>1
    <3>5. \A x : x \in AtOrAbove(d) \ {v} <=> x \in AtOrAbove(d - 1)
      <4> HIDE DEF AtOrAbove, v
      <4> QED
        BY <3>1, <3>4
    <3> QED
      BY <3>1, <3>2, <3>3, <3>5
  <2>5. 1 + SumFunctionOnSet(w, AtOrAbove(d - 1)) <= Ways(d - 1, a + 1)
    <3>1. d - 1 \notin B
      <4> HIDE DEF B
      <4> QED
        BY <2>1, <2>4
    <3> QED
      BY <2>4, <3>1
  <2>6. /\ SumFunctionOnSet(w, AtOrAbove(d)) = w[v] + SumFunctionOnSet(w, AtOrAbove(d - 1))
        /\ SumFunctionOnSet(w, AtOrAbove(d - 1)) \in Int
    <3>1. IsFiniteSet(AtOrAbove(d)) /\ \A x \in AtOrAbove(d) : w[x] \in Int
      <4>1. v \in Int /\ MaxFailed - 1 \in Int
        BY <1>1, <2>4
      <4>2. IsFiniteSet(v .. MaxFailed - 1)
        <5> HIDE DEF v
        <5> QED
          BY <4>1, FS_Interval
      <4>3. \A x \in AtOrAbove(d) : w[x] \in Int
        <5> HIDE DEF AtOrAbove
        <5> QED
          BY <1>1, <2>4
      <4> QED
        BY <4>2, <4>3
    <3> HIDE DEF AtOrAbove, v
    <3> QED
      BY <2>4, <3>1, SumTakesOut
  <2> HIDE DEF v, AtOrAbove, B
  <2>7. /\ w[v] = Ways(d, Cardinality(Higher(L, v))) /\ w[v] \in Nat
        /\ Cardinality(Higher(L, v)) \in Nat /\ Cardinality(Higher(L, v)) <= a
    BY <1>1, <2>4
  <2>8. w[v] <= Ways(d, a) /\ Ways(d, a) \in Nat
    BY <2>4, <2>7, WaysFacts
  <2>9. Ways(d, a + 1) = Ways(d, a) + Ways(d - 1, a + 1)
    BY <2>4, WaysFacts
  <2>10. Ways(d - 1, a + 1) \in Nat
    <3>1. CASE d - 1 = 0
      <4>1. Ways(0, a + 1) = 1
        BY WaysFacts
      <4> QED
        BY <3>1, <4>1
    <3>2. CASE d - 1 # 0
      <4>1. d - 1 \in Nat \ {0} /\ a + 1 \in Nat
        BY <2>4, <3>2
      <4> QED
        BY <4>1, WaysFacts
    <3> QED
      BY <3>1, <3>2
  <2> QED
    BY <2>2, <2>5, <2>6, <2>7, <2>8, <2>9, <2>10
<1>3. MaxFailed - e \in 0 .. MaxFailed - e /\ MaxFailed - (MaxFailed - e) = e
  BY <1>1
<1> DEFINE d == MaxFailed - e
<1>4. d \in 0 .. MaxFailed - e /\ d \notin B /\ AtOrAbove(d) = e .. MaxFailed - 1
  BY <1>2, <1>3
<1> HIDE DEF d
<1>5. 1 + SumFunctionOnSet(w, AtOrAbove(d)) <= Ways(d, a + 1)
  BY <1>4
<1> QED
  BY <1>4, <1>5 DEF d, w

\* All that can be told.
LEMMA ToldBounded ==
    ASSUME IsFiniteSet(Requests), NEW L
    PROVE  Told(L) < Chosen(MaxFailed + Cardinality(Requests), MaxFailed)
<1> DEFINE K == Cardinality(Requests)
<1>1. K \in Nat /\ MaxFailed \in Nat \ {0} /\ 0 \in 0 .. MaxFailed /\ Told(L) \in Int
  BY TermsFacts, FS_CardinalityType
<1>2. \A v \in 0 .. MaxFailed - 1 : Cardinality(Higher(L, v)) <= K
  <2>1. \A v \in 0 .. MaxFailed - 1 : Higher(L, v) \in SUBSET Requests
    BY DEF Higher
  <2> QED
    BY <2>1, FS_Subset
<1> HIDE DEF K
<1>3. 1 + SumFunctionOnSet(Terms(L), 0 .. MaxFailed - 1) <= Ways(MaxFailed - 0, K + 1)
  BY <1>1, <1>2, TailBounded
<1>4. MaxFailed - 0 = MaxFailed /\ (K + 1) + MaxFailed - 1 = MaxFailed + K
  BY <1>1
<1>5. Ways(MaxFailed, K + 1) = Chosen(MaxFailed + K, MaxFailed)
  BY <1>4 DEF Ways
<1>6. Ways(MaxFailed, K + 1) \in Nat
  <2>1. K + 1 \in Nat
    BY <1>1
  <2> QED
    BY <1>1, <2>1, WaysFacts
<1> QED
  BY <1>1, <1>3, <1>4, <1>5, <1>6 DEF Told, K

\* A guess of q: q rises by at least one, and nobody falls to its level or below.
LEMMA ToldOneMore ==
    ASSUME IsFiniteSet(Requests), NEW L \in [Requests -> Int], NEW N \in [Requests -> Int],
           NEW q \in Requests, L[q] \in 0 .. MaxFailed - 1, N[q] > L[q],
           \A p \in Requests : L[p] <= N[p] \/ L[q] < N[p]
    PROVE  Told(L) + 1 <= Told(N)
<1> DEFINE l == L[q]
           low == 0 .. l - 1
           high == l .. MaxFailed - 1
           a == Cardinality(Higher(L, l))
<1>1. /\ MaxFailed \in Nat \ {0} /\ l \in Int /\ l >= 0 /\ l <= MaxFailed - 1
      /\ \A v \in 0 .. MaxFailed - 1 : Cardinality(Higher(L, v)) \in Nat
      /\ \A v \in 0 .. MaxFailed - 1 : Terms(L)[v] \in Nat
      /\ \A v \in 0 .. MaxFailed - 1 : Terms(N)[v] \in Nat
      /\ \A v \in 0 .. MaxFailed - 1 : Terms(N)[v] = Ways(MaxFailed - v, Cardinality(Higher(N, v)))
  <2>1. /\ \A v \in 0 .. MaxFailed - 1 : Cardinality(Higher(L, v)) \in Nat /\ Terms(L)[v] \in Nat
        /\ MaxFailed \in Nat \ {0}
    BY TermsFacts
  <2>2. \A v \in 0 .. MaxFailed - 1 :
          Terms(N)[v] \in Nat /\ Terms(N)[v] = Ways(MaxFailed - v, Cardinality(Higher(N, v)))
    BY TermsFacts
  <2>3. l \in Int /\ l >= 0 /\ l <= MaxFailed - 1
    BY <2>1
  <2> QED
    BY <2>1, <2>2, <2>3
<1> HIDE DEF l
<1>2. /\ l \in 0 .. MaxFailed - 1 /\ 0 .. MaxFailed - 1 = low \union high
      /\ low \intersect high = {} /\ l \in high /\ low \subseteq Int
      /\ low \subseteq 0 .. MaxFailed - 1 /\ high \subseteq 0 .. MaxFailed - 1
      /\ \A v \in low : v < l
  BY <1>1
<1>3. IsFiniteSet(low) /\ IsFiniteSet(high)
  <2> DEFINE under == l - 1
             top == MaxFailed - 1
  <2>1. under \in Int /\ top \in Int /\ 0 \in Int /\ l \in Int
    BY <1>1
  <2> HIDE DEF under, top
  <2>2. IsFiniteSet(0 .. under) /\ IsFiniteSet(l .. top)
    BY <2>1, FS_Interval
  <2> QED
    BY <2>2 DEF under, top
<1> HIDE DEF low
<1>4. /\ Told(L) = SumFunctionOnSet(Terms(L), low) + SumFunctionOnSet(Terms(L), high)
      /\ Told(N) = SumFunctionOnSet(Terms(N), low) + SumFunctionOnSet(Terms(N), high)
      /\ SumFunctionOnSet(Terms(L), low) \in Int /\ SumFunctionOnSet(Terms(N), low) \in Int
      /\ SumFunctionOnSet(Terms(L), high) \in Int
  <2> HIDE DEF high
  <2>1. /\ \A v \in low \union high : Terms(L)[v] \in Int
        /\ \A v \in low \union high : Terms(N)[v] \in Int
    BY <1>1, <1>2
  <2>2. /\ \A v \in low : Terms(L)[v] \in Int
        /\ \A v \in low : Terms(N)[v] \in Int
        /\ \A v \in high : Terms(L)[v] \in Int
    BY <2>1
  <2>3. SumFunctionOnSet(Terms(L), low \union high)
          = SumFunctionOnSet(Terms(L), low) + SumFunctionOnSet(Terms(L), high)
    BY <1>2, <1>3, <2>1, SumOfBoth
  <2>4. SumFunctionOnSet(Terms(N), low \union high)
          = SumFunctionOnSet(Terms(N), low) + SumFunctionOnSet(Terms(N), high)
    BY <1>2, <1>3, <2>1, SumOfBoth
  <2> QED
    BY <1>2, <1>3, <2>2, <2>3, <2>4, SumTakesOut DEF Told
<1>5. SumFunctionOnSet(Terms(L), low) <= SumFunctionOnSet(Terms(N), low)
  <2>1. ASSUME NEW v \in low
        PROVE  Terms(L)[v] <= Terms(N)[v]
    <3>1. Higher(L, v) \subseteq Higher(N, v)
      <4>1. v \in Int /\ v < l
        BY <1>2
      <4> QED
        BY <1>1, <4>1 DEF Higher, l
    <3>2. v \in 0 .. MaxFailed - 1
      BY <1>2
    <3> QED
      BY <3>1, <3>2, HigherGrows
  <2>2. \A v \in low : Terms(L)[v] \in Int /\ Terms(N)[v] \in Int
    BY <1>1, <1>2
  <2> QED
    BY <1>3, <2>1, <2>2, SumGrows
<1>6. a \in Nat /\ 1 + SumFunctionOnSet(Terms(L), high) <= Ways(MaxFailed - l, a + 1)
  <2>1. a \in Nat
    BY <1>1, <1>2
  <2>2. ASSUME NEW v \in l .. MaxFailed - 1
        PROVE  Cardinality(Higher(L, v)) <= a
    <3>1. Higher(L, v) \in SUBSET Higher(L, l)
      BY <1>1 DEF Higher
    <3>2. IsFiniteSet(Higher(L, l))
      <4>1. Higher(L, l) \in SUBSET Requests
        BY DEF Higher
      <4> QED
        BY <4>1, FS_Subset
    <3> QED
      BY <3>1, <3>2, FS_Subset
  <2>3. l \in 0 .. MaxFailed
    BY <1>1
  <2> HIDE DEF a
  <2> QED
    BY <2>1, <2>2, <2>3, TailBounded
<1>7. Ways(MaxFailed - l, a + 1) <= Terms(N)[l]
  <2>1. Higher(L, l) \union {q} \in SUBSET Higher(N, l) /\ q \notin Higher(L, l)
    BY <1>1 DEF Higher, l
  <2>2. IsFiniteSet(Higher(L, l)) /\ IsFiniteSet(Higher(N, l))
    <3>1. Higher(L, l) \in SUBSET Requests /\ Higher(N, l) \in SUBSET Requests
      BY DEF Higher
    <3> QED
      BY <3>1, FS_Subset
  <2>3. Cardinality(Higher(L, l) \union {q}) = a + 1
    BY <2>1, <2>2, FS_AddElement
  <2>4. a + 1 <= Cardinality(Higher(N, l)) /\ Cardinality(Higher(N, l)) \in Nat
    BY <2>1, <2>2, <2>3, FS_Subset, FS_CardinalityType
  <2>5. MaxFailed - l \in Nat \ {0} /\ a + 1 \in Nat
    BY <1>1, <1>6
  <2> HIDE DEF a
  <2>6. Ways(MaxFailed - l, a + 1) <= Ways(MaxFailed - l, Cardinality(Higher(N, l)))
    BY <2>4, <2>5, WaysFacts
  <2> QED
    BY <1>1, <1>2, <2>6
<1>8. Terms(N)[l] <= SumFunctionOnSet(Terms(N), high)
  <2> DEFINE zero == [v \in high \ {l} |-> 0]
             rest == SumFunctionOnSet(Terms(N), high \ {l})
  <2>1. /\ \A v \in high : Terms(N)[v] \in Int
        /\ IsFiniteSet(high \ {l})
        /\ \A v \in high \ {l} : zero[v] = 0 /\ Terms(N)[v] \in Int /\ zero[v] <= Terms(N)[v]
    <3>1. \A v \in high : Terms(N)[v] \in Int /\ 0 <= Terms(N)[v]
      <4> HIDE DEF high
      <4> QED
        BY <1>1, <1>2
    <3>2. IsFiniteSet(high \ {l})
      BY <1>3, FS_Subset
    <3>3. \A v \in high \ {l} : zero[v] = 0
      OBVIOUS
    <3> HIDE DEF zero, high
    <3> QED
      BY <3>1, <3>2, <3>3
  <2> HIDE DEF zero, high
  <2>2. SumFunctionOnSet(zero, high \ {l}) = 0
    BY <2>1, SumOfZeros
  <2>3. SumFunctionOnSet(zero, high \ {l}) <= rest
    <3>1. \A v \in high \ {l} : zero[v] \in Int /\ Terms(N)[v] \in Int /\ zero[v] <= Terms(N)[v]
      BY <2>1
    <3> QED
      BY <2>1, <3>1, SumGrows
  <2>4. SumFunctionOnSet(Terms(N), high) = Terms(N)[l] + rest /\ rest \in Int
    BY <1>2, <1>3, <2>1, SumTakesOut
  <2>5. Terms(N)[l] \in Int
    BY <1>2, <2>1
  <2> HIDE DEF rest
  <2> QED
    BY <2>2, <2>3, <2>4, <2>5
<1>9. /\ Terms(N)[l] \in Int /\ SumFunctionOnSet(Terms(N), high) \in Int
      /\ Ways(MaxFailed - l, a + 1) \in Int
  <2>1. \A v \in high : Terms(N)[v] \in Int
    BY <1>1, <1>2
  <2>2. SumFunctionOnSet(Terms(N), high) \in Int
    <3> HIDE DEF high
    <3> QED
      BY <1>3, <2>1, SumTakesOut
  <2>3. MaxFailed - l \in Nat \ {0} /\ a + 1 \in Nat
    BY <1>1, <1>6
  <2> HIDE DEF a
  <2>4. Ways(MaxFailed - l, a + 1) \in Int
    <3> DEFINE m == MaxFailed - l
               b == a + 1
    <3>1. m \in Nat \ {0} /\ b \in Nat
      BY <2>3
    <3> HIDE DEF m, b
    <3>2. Ways(m, b) \in Nat
      BY <3>1, WaysFacts
    <3> QED
      BY <3>2 DEF m, b
  <2> QED
    BY <1>2, <2>1, <2>2, <2>4
<1> HIDE DEF a, high
<1> QED
  BY <1>4, <1>5, <1>6, <1>7, <1>8, <1>9

\* Where the next failure of a connection takes the account: a failure that read
\* the clock too long ago to lock the account anew counts as one of two short of
\* the limit, and an account whose lock has run out as one short of it.
Lesser(x, y) == IF x <= y THEN x ELSE y
Standing ==
    IF failed < MaxFailed THEN failed ELSE IF LockedNow THEN MaxFailed ELSE MaxFailed - 1
Held(q) ==
    IF read[q].now + Lockout > clock THEN Lesser(read[q].failed, MaxFailed - 1)
                                     ELSE Lesser(read[q].failed, MaxFailed - 2)
Level(q) == IF login[q] = "verifying" THEN Lesser(Held(q), Standing) ELSE Standing
Levels == [q \in Requests |-> Level(q)]

\* The guesses told so far are among those that take every connection to the
\* level where it stands.
GuessesCounted == guesses <= Told(Levels)

LEMMA LevelFacts ==
    ASSUME LoginIInv, MaxFailed >= 2
    PROVE  /\ Standing \in 0 .. MaxFailed
           /\ \A q \in Requests : Held(q) \in 0 .. MaxFailed - 1
           /\ \A q \in Requests : Levels[q] = Level(q) /\ Levels[q] \in 0 .. MaxFailed
           /\ Levels \in [Requests -> Int]
<1>1. /\ MaxFailed \in Nat \ {0} /\ failed \in Nat
      /\ \A q \in Requests : read[q].failed \in Nat
  BY LockoutAssumption DEF LockoutAssumption, LoginIInv, LoginTypeOK
<1>2. Standing \in 0 .. MaxFailed
  BY <1>1 DEF Standing
<1>3. ASSUME NEW q \in Requests
      PROVE  Held(q) \in 0 .. MaxFailed - 1 /\ Level(q) \in 0 .. MaxFailed
  <2>1. Held(q) \in 0 .. MaxFailed - 1
    BY <1>1 DEF Held, Lesser
  <2> QED
    BY <1>1, <1>2, <2>1 DEF Level, Lesser
<1>4. \A q \in Requests : Levels[q] = Level(q)
  BY DEF Levels
<1>5. Levels \in [Requests -> Int]
  BY <1>3 DEF Levels
<1> QED
  BY <1>2, <1>3, <1>4, <1>5

\* A lookup leaves every connection where it stood, and an abort lets it rise.
LEMMA LevelsRise ==
    ASSUME LoginIInv, LoginIInv', MaxFailed >= 2, UNCHANGED <<failed, lockedUntil, clock>>,
           NEW q \in Requests,
           \A p \in Requests \ {q} : login'[p] = login[p] /\ read'[p] = read[p],
           \/ login'[q] # "verifying"
           \/ /\ login[q] # "verifying" /\ ~LockedNow
              /\ read'[q].failed = failed /\ read'[q].now = clock
    PROVE  \A p \in Requests : Levels[p] <= Levels'[p]
<1>1. /\ MaxFailed \in Nat \ {0} /\ Lockout \in Nat \ {0} /\ failed \in Nat /\ clock \in Nat
  BY LockoutAssumption DEF LockoutAssumption, LoginIInv, LoginTypeOK
<1>2. Standing' = Standing
  BY DEF Standing, LockedNow
<1>3. ASSUME NEW p \in Requests
      PROVE  /\ Standing \in Int /\ Held(p) \in Int /\ Level(p) \in Int
             /\ Levels[p] = Level(p) /\ Levels'[p] = Level(p)' /\ Level(p) <= Standing
  <2>1. Standing \in Int /\ Held(p) \in Int /\ Levels[p] = Level(p) /\ Levels[p] \in Int
    BY LevelFacts
  <2>2. Levels'[p] = Level(p)'
    BY DEF Levels
  <2>3. Level(p) <= Standing
    BY <2>1 DEF Level, Lesser
  <2> QED
    BY <2>1, <2>2, <2>3
<1>4. ASSUME NEW p \in Requests \ {q} PROVE Level(p)' = Level(p)
  <2>1. login'[p] = login[p] /\ read'[p] = read[p]
    OBVIOUS
  <2> QED
    BY <1>2, <2>1 DEF Level, Held
<1>5. Level(q)' = Standing
  <2>1. CASE login'[q] # "verifying"
    BY <1>2, <2>1 DEF Level
  <2>2. CASE login'[q] = "verifying"
    <3>1. Held(q)' = Lesser(failed, MaxFailed - 1) /\ ~LockedNow
      BY <1>1, <2>2 DEF Held
    <3>2. Held(q)' = Standing
      BY <1>1, <3>1 DEF Standing, Lesser
    <3> QED
      BY <1>2, <1>3, <2>2, <3>2 DEF Level, Lesser
  <2> QED
    BY <2>1, <2>2
<1>6. ASSUME NEW p \in Requests PROVE Levels[p] <= Levels'[p]
  <2>1. CASE p = q
    BY <1>3, <1>5, <2>1
  <2>2. CASE p # q
    BY <1>3, <1>4, <2>2
  <2> QED
    BY <2>1, <2>2
<1> QED
  BY <1>6

\* A guess takes who tells it, and all who are idle, to one above its level.
LEMMA GuessStep ==
    ASSUME LoginIInv, LoginIInv', MaxFailed >= 2, NEW q \in Requests, CountFailure(q)
    PROVE  /\ Levels[q] \in 0 .. MaxFailed - 1 /\ Levels'[q] > Levels[q]
           /\ \A p \in Requests : Levels[p] <= Levels'[p] \/ Levels[q] < Levels'[p]
<1>1. /\ MaxFailed \in Nat \ {0} /\ Lockout \in Nat \ {0} /\ failed \in Nat /\ clock \in Nat
      /\ read[q].failed \in Nat /\ read[q].now \in Nat
  BY LockoutAssumption DEF LockoutAssumption, LoginIInv, LoginTypeOK
<1>2. /\ login[q] = "verifying" /\ UNCHANGED <<clock, read>>
      /\ failed' = read[q].failed + 1
      /\ lockedUntil' = IF failed' >= MaxFailed THEN read[q].now + Lockout ELSE NoLock
      /\ login'[q] = "wrong" /\ \A p \in Requests \ {q} : login'[p] = login[p]
  BY DEF CountFailure, Attempts, LoginIInv, LoginTypeOK
<1>3. Standing' = Held(q) + 1
  <2>1. CASE failed' < MaxFailed
    <3>1. Standing' = failed'
      BY <2>1 DEF Standing
    <3>2. read[q].failed <= MaxFailed - 2
      BY <1>1, <1>2, <2>1
    <3>3. Held(q) = read[q].failed
      BY <1>1, <3>2 DEF Held, Lesser
    <3> QED
      BY <1>2, <3>1, <3>3
  <2>2. CASE ~(failed' < MaxFailed)
    <3>1. lockedUntil' = read[q].now + Lockout /\ clock' = clock
      BY <1>1, <1>2, <2>2
    <3>2. read[q].failed >= MaxFailed - 1
      BY <1>1, <1>2, <2>2
    <3>3. CASE read[q].now + Lockout > clock
      <4>1. Standing' = MaxFailed
        BY <2>2, <3>1, <3>3 DEF Standing, LockedNow
      <4>2. Held(q) = MaxFailed - 1
        BY <1>1, <3>2, <3>3 DEF Held, Lesser
      <4> QED
        BY <1>1, <4>1, <4>2
    <3>4. CASE ~(read[q].now + Lockout > clock)
      <4>1. Standing' = MaxFailed - 1
        BY <2>2, <3>1, <3>4 DEF Standing, LockedNow
      <4>2. Held(q) = MaxFailed - 2
        BY <1>1, <3>2, <3>4 DEF Held, Lesser
      <4> QED
        BY <1>1, <4>1, <4>2
    <3> QED
      BY <3>3, <3>4
  <2> QED
    BY <2>1, <2>2
<1>4. /\ Standing \in Int /\ Held(q) \in 0 .. MaxFailed - 1
      /\ \A p \in Requests : Held(p) \in Int /\ Levels[p] = Level(p) /\ Level(p) \in Int /\ Level(p) >= 0
  BY LevelFacts
<1>5. Level(q) = Lesser(Held(q), Standing) /\ Level(q) <= Held(q)
  BY <1>2, <1>4 DEF Level, Lesser
<1>6. \A p \in Requests : Levels'[p] = Level(p)'
  BY DEF Levels
<1>7. Level(q)' = Held(q) + 1
  BY <1>2, <1>3 DEF Level
<1>8. ASSUME NEW p \in Requests \ {q}
      PROVE  Level(p) <= Level(p)' \/ Level(q) < Level(p)'
  <2>1. CASE login[p] # "verifying"
    <3>1. Level(p)' = Held(q) + 1
      BY <1>2, <1>3, <2>1 DEF Level
    <3> QED
      BY <1>4, <1>5, <3>1
  <2>2. CASE login[p] = "verifying"
    <3>1. Held(p)' = Held(p)
      BY <1>2 DEF Held
    <3>2. Level(p)' = Lesser(Held(p), Held(q) + 1)
      BY <1>2, <1>3, <2>2, <3>1 DEF Level
    <3>3. Level(p) <= Held(p)
      BY <1>4, <2>2 DEF Level, Lesser
    <3> QED
      BY <1>4, <1>5, <3>2, <3>3 DEF Lesser
  <2> QED
    BY <2>1, <2>2
<1>9. ASSUME NEW p \in Requests
      PROVE  Levels[p] <= Levels'[p] \/ Levels[q] < Levels'[p]
  <2>1. CASE p = q
    BY <1>4, <1>5, <1>6, <1>7, <2>1
  <2>2. CASE p # q
    BY <1>4, <1>6, <1>8, <2>2
  <2> QED
    BY <2>1, <2>2
<1> QED
  BY <1>1, <1>4, <1>5, <1>6, <1>7, <1>9

LEMMA ToldIsNatural ==
    ASSUME NEW L
    PROVE  Told(L) \in Int /\ 0 <= Told(L)
<1> DEFINE zero == [v \in 0 .. MaxFailed - 1 |-> 0]
<1>1. /\ IsFiniteSet(0 .. MaxFailed - 1) /\ Told(L) \in Int
      /\ \A v \in 0 .. MaxFailed - 1 : Terms(L)[v] \in Nat
  BY LockoutAssumption, TermsFacts DEF LockoutAssumption
<1>2. \A v \in 0 .. MaxFailed - 1 :
         zero[v] = 0 /\ zero[v] \in Int /\ Terms(L)[v] \in Int /\ zero[v] <= Terms(L)[v]
  BY <1>1
<1> HIDE DEF zero
<1>3. SumFunctionOnSet(zero, 0 .. MaxFailed - 1) = 0
  BY <1>1, <1>2, SumOfZeros
<1>4. SumFunctionOnSet(zero, 0 .. MaxFailed - 1) <= Told(L)
  BY <1>1, <1>2, SumGrows DEF Told
<1> QED
  BY <1>1, <1>3, <1>4

\* The same levels, after a step.
LEMMA LevelsAfter ==
    ASSUME LoginIInv', MaxFailed >= 2
    PROVE  Levels' \in [Requests -> Int]
<1>1. /\ MaxFailed \in Nat \ {0} /\ failed' \in Nat
      /\ \A q \in Requests : read'[q].failed \in Nat
  BY LockoutAssumption DEF LockoutAssumption, LoginIInv, LoginTypeOK
<1>2. Standing' \in Int
  BY <1>1 DEF Standing
<1>3. ASSUME NEW q \in Requests
      PROVE  Level(q)' \in Int
  <2>1. Held(q)' \in Int
    BY <1>1 DEF Held, Lesser
  <2> QED
    BY <1>2, <2>1 DEF Level, Lesser
<1> QED
  BY <1>3 DEF Levels

LEMMA NextGuessesCounted ==
    ASSUME LoginIInv, LoginIInv', MaxFailed >= 2, GuessesCounted, [LoginNext]_loginVars
    PROVE  GuessesCounted'
<1> DEFINE here == Levels
           there == Levels'
<1>1. IsFiniteSet(Requests) /\ guesses \in Nat
  BY LockoutAssumption DEF LockoutAssumption, LoginIInv, LoginTypeOK
<1>2. here \in [Requests -> Int] /\ there \in [Requests -> Int]
  BY LevelFacts, LevelsAfter
<1>3. guesses <= Told(here)
  BY DEF GuessesCounted
<1>4. GuessesCounted' <=> guesses' <= Told(there)
  BY DEF GuessesCounted, Told, Terms, Higher
<1> HIDE DEF here, there
<1>5. /\ Told(here) \in Int
      /\ Told(there) \in Int /\ 0 <= Told(there)
  BY ToldIsNatural
<1>6. ASSUME guesses' = guesses, \A p \in Requests : here[p] <= there[p]
      PROVE  GuessesCounted'
  <2>1. Told(here) <= Told(there)
    BY <1>1, <1>2, <1>6, ToldGrows
  <2> QED
    BY <1>1, <1>3, <1>4, <1>5, <1>6, <2>1
<1>7. CASE Tick
  BY <1>4, <1>5, <1>7 DEF Tick
<1>8. CASE SetActive \/ UNCHANGED loginVars
  <2>1. there = here /\ guesses' = guesses
    <3>1. UNCHANGED <<failed, lockedUntil, clock, login, read, guesses>>
      BY <1>8 DEF SetActive, loginVars
    <3>2. Standing' = Standing
      BY <3>1 DEF Standing, LockedNow
    <3>3. ASSUME NEW p \in Requests PROVE Level(p)' = Level(p)
      BY <3>1, <3>2 DEF Level, Held
    <3> QED
      BY <3>1, <3>3 DEF Levels, here, there
  <2> QED
    BY <1>3, <1>4, <2>1
<1>9. ASSUME NEW q \in Requests, NEW right \in BOOLEAN, LookUp(q, right)
      PROVE  GuessesCounted'
  <2>1. /\ UNCHANGED <<failed, lockedUntil, clock, guesses>>
        /\ \A p \in Requests \ {q} : login'[p] = login[p] /\ read'[p] = read[p]
        /\ \/ login'[q] # "verifying"
           \/ /\ login[q] # "verifying" /\ ~LockedNow
              /\ read'[q].failed = failed /\ read'[q].now = clock
    BY <1>9 DEF LookUp, LoginIInv, LoginTypeOK
  <2>2. \A p \in Requests : Levels[p] <= Levels'[p]
    BY <2>1, LevelsRise
  <2> QED
    BY <1>6, <2>1, <2>2 DEF here, there
<1>10. ASSUME NEW q \in Requests, CountFailure(q)
       PROVE  GuessesCounted'
  <2>1. /\ Levels[q] \in 0 .. MaxFailed - 1 /\ Levels'[q] > Levels[q]
        /\ \A p \in Requests : Levels[p] <= Levels'[p] \/ Levels[q] < Levels'[p]
    BY <1>10, GuessStep
  <2>2. /\ here[q] \in 0 .. MaxFailed - 1 /\ there[q] > here[q]
        /\ \A p \in Requests : here[p] <= there[p] \/ here[q] < there[p]
    BY <2>1 DEF here, there
  <2>3. Told(here) + 1 <= Told(there)
    BY <1>1, <1>2, <2>2, ToldOneMore
  <2>4. guesses' = guesses + 1
    BY <1>10 DEF CountFailure
  <2> QED
    BY <1>1, <1>3, <1>4, <1>5, <2>3, <2>4
<1>11. ASSUME NEW q \in Requests, LogIn(q)
       PROVE  GuessesCounted'
  BY <1>4, <1>5, <1>11 DEF LogIn
<1>12. ASSUME NEW q \in Requests, Abort(q)
       PROVE  GuessesCounted'
  <2>1. /\ UNCHANGED <<failed, lockedUntil, clock, guesses>>
        /\ \A p \in Requests \ {q} : login'[p] = login[p] /\ read'[p] = read[p]
        /\ login'[q] # "verifying"
    BY <1>12 DEF Abort, LoginIInv, LoginTypeOK
  <2>2. \A p \in Requests : Levels[p] <= Levels'[p]
    BY <2>1, LevelsRise
  <2> QED
    BY <1>6, <2>1, <2>2 DEF here, there
<1> QED
  BY <1>7, <1>8, <1>9, <1>10, <1>11, <1>12 DEF LoginNext

\* However many connections guess at once, each reading the counter before it
\* writes it, no more wrong passwords are answered between a login, or a tick,
\* and the next than the connections can tell while they climb to the limit.
THEOREM GuessesCorrect ==
    ASSUME MaxFailed >= 2
    PROVE  LoginSpec => []GuessesBounded
<1>1. LoginInit => GuessesCounted
  <2> SUFFICES ASSUME LoginInit PROVE GuessesCounted
    OBVIOUS
  <2>1. guesses = 0 /\ 0 <= Told(Levels)
    BY ToldIsNatural DEF LoginInit
  <2> QED
    BY <2>1 DEF GuessesCounted
<1>2. LoginIInv /\ LoginIInv' /\ GuessesCounted /\ [LoginNext]_loginVars => GuessesCounted'
  BY NextGuessesCounted
<1>3. LoginIInv /\ GuessesCounted => GuessesBounded
  <2> SUFFICES ASSUME LoginIInv, GuessesCounted PROVE GuessesBounded
    OBVIOUS
  <2>1. /\ Told(Levels) < Chosen(MaxFailed + Cardinality(Requests), MaxFailed)
        /\ Told(Levels) \in Int /\ guesses \in Nat /\ guesses <= Told(Levels)
    BY LockoutAssumption, ToldBounded, ToldIsNatural
       DEF LockoutAssumption, LoginIInv, LoginTypeOK, GuessesCounted
  <2>2. Chosen(MaxFailed + Cardinality(Requests), MaxFailed) \in Nat
    <3>1. MaxFailed + Cardinality(Requests) \in Nat /\ MaxFailed \in Nat
      BY LockoutAssumption, FS_CardinalityType DEF LockoutAssumption
    <3> QED
      BY <3>1, ChoicesFact
  <2>3. guesses < Chosen(MaxFailed + Cardinality(Requests), MaxFailed)
    BY <2>1, <2>2
  <2> QED
    BY <2>3 DEF GuessesBounded, Chosen
<1> QED
  BY <1>1, <1>2, <1>3, AlwaysLoginIInv, PTL DEF LoginSpec

-----------------------------------------------------------------------------
(* PageAccess: the grants of a page, and the requests of a reader          *)

\* What a PUT or a request noted as complete when it began stays complete.
CompletedStay ==
    /\ \A q \in DOMAIN puts : puts[q].after \subseteq Completed
    /\ reading # NotAsked => reading.after \subseteq Completed

\* A grant stands in the list of the PUT that wrote it, and whoever all
\* complete PUTs let in has one.
GrantsAreNamed == \A g \in grants : g.by \in Completed /\ (g.view => Names(g.by, g.user))
NamedAreGranted ==
    \A u \in Managers :
        (\A p \in Completed : Names(p, u)) => \E g \in grants : g.user = u /\ g.view

\* Of the PUTs that were complete when a PUT began, it found all the grants that
\* are left, and leaves none.
PutsFindTheirPast ==
    \A q \in DOMAIN puts : \A g \in grants :
        g.by \in puts[q].after =>
            puts[q].state # "done" /\ (puts[q].state = "found" => g \in puts[q].found)

\* A token that is not good will never be again, so one that is good now was
\* good when the request began.
TokenAges ==
    reading # NotAsked =>
        /\ reading.version <= account[reading.reader].version
        /\ ~reading.current => ~Authenticated(reading.reader, reading.version)
        /\ reading.state \in {"authenticated", "granted", "answered", "done"} => reading.current

\* A grant of the reader that nothing its request knows to be complete replaced.
StandingGrant(u, after) ==
    \E p \in Completed : Names(p, u) /\ \A q \in after \ {0} : p \notin puts[q].after

AdmittedOnGrant ==
    reading # NotAsked /\ reading.state \in {"granted", "answered", "done"} =>
        /\ reading.reader \notin Strangers
        /\ reading.reader \in Managers => StandingGrant(reading.reader, reading.after)

RefusedForReason ==
    reading # NotAsked /\ reading.state = "refused" =>
        \/ reading.reader \in Strangers \/ ~Authenticated(reading.reader, reading.version)
        \/ \E p \in Completed : ~Names(p, reading.reader)

AccessIInv ==
    /\ AccessTypeOK /\ CompletedStay /\ GrantsAreNamed /\ NamedAreGranted
    /\ PutsFindTheirPast /\ TokenAges /\ AdmittedOnGrant /\ RefusedForReason

-----------------------------------------------------------------------------
LEMMA AskedIsRequest ==
    ASSUME AccessTypeOK, reading # NotAsked
    PROVE  reading \in Request
BY DEF AccessTypeOK

LEMMA PutFacts ==
    ASSUME AccessTypeOK
    PROVE  /\ \A p \in DOMAIN puts : p \in Nat \ {0} /\ puts[p] \in Put
           /\ Completed \subseteq Nat
BY DEF AccessTypeOK, Completed

\* What the three steps of a PUT do to the PUTs there are.
LEMMA BeginFacts ==
    ASSUME AccessTypeOK, NEW list \in GrantLists, BeginPut(list)
    PROVE  /\ DOMAIN puts' = DOMAIN puts \union {Len(puts) + 1}
           /\ Len(puts) + 1 \notin DOMAIN puts
           /\ \A p \in DOMAIN puts : puts'[p] = puts[p]
           /\ puts'[Len(puts) + 1] = [state |-> "found", list |-> list, found |-> grants,
                                      after |-> Completed]
           /\ Completed' = Completed
           /\ \A p \in Completed, u \in Users : Names(p, u)' <=> Names(p, u)
           /\ puts' \in Seq(Put)
<1> DEFINE new == [state |-> "found", list |-> list, found |-> grants, after |-> Completed]
<1>1. puts \in Seq(Put) /\ puts' = Append(puts, new)
  BY DEF AccessTypeOK, BeginPut
<1>2. new \in Put
  BY PutFacts DEF AccessTypeOK, Put
<1> HIDE DEF new
<1>3. /\ DOMAIN puts' = DOMAIN puts \union {Len(puts) + 1}
      /\ Len(puts) + 1 \notin DOMAIN puts
      /\ \A p \in DOMAIN puts : puts'[p] = puts[p]
      /\ puts'[Len(puts) + 1] = new /\ puts' \in Seq(Put)
  BY <1>1, <1>2
<1>4. puts'[Len(puts) + 1].state = "found"
  BY <1>3 DEF new
<1>5. Completed' = Completed
  BY <1>3, <1>4 DEF Completed
<1>6. \A p \in Completed, u \in Users : Names(p, u)' <=> Names(p, u)
  BY <1>3 DEF Completed, Names
<1> QED
  BY <1>3, <1>5, <1>6 DEF new

LEMMA EndFacts ==
    ASSUME AccessTypeOK, NEW p \in DOMAIN puts, NEW s \in {"done", "failed"},
           puts[p].state = "found", puts' = [puts EXCEPT ![p].state = s]
    PROVE  /\ DOMAIN puts' = DOMAIN puts /\ puts' \in Seq(Put)
           /\ \A q \in DOMAIN puts : /\ puts'[q].after = puts[q].after
                                     /\ puts'[q].found = puts[q].found
                                     /\ puts'[q].list = puts[q].list
                                     /\ puts'[q].state = IF q = p THEN s ELSE puts[q].state
           /\ p \in Nat \ {0} /\ p \notin Completed
           /\ Completed' = IF s = "done" THEN Completed \union {p} ELSE Completed
           /\ \A q \in DOMAIN puts \union {0}, u \in Users : Names(q, u)' <=> Names(q, u)
<1>1. puts \in Seq(Put) /\ puts[p] \in Put /\ p \in Nat \ {0}
  BY PutFacts DEF AccessTypeOK
<1>2. [puts[p] EXCEPT !.state = s] \in Put
  BY <1>1 DEF Put
<1>3. DOMAIN puts' = DOMAIN puts /\ puts' \in Seq(Put)
  BY <1>1, <1>2
<1>4. \A q \in DOMAIN puts : puts'[q] = IF q = p THEN [puts[p] EXCEPT !.state = s] ELSE puts[q]
  BY <1>1
<1>5. \A q \in DOMAIN puts : /\ puts'[q].after = puts[q].after
                             /\ puts'[q].found = puts[q].found
                             /\ puts'[q].list = puts[q].list
                             /\ puts'[q].state = IF q = p THEN s ELSE puts[q].state
  BY <1>1, <1>4 DEF Put
<1>6. p \notin Completed
  BY <1>1 DEF Completed
<1>7. Completed' = IF s = "done" THEN Completed \union {p} ELSE Completed
  BY <1>1, <1>3, <1>5, <1>6 DEF Completed
<1>8. \A q \in DOMAIN puts \union {0}, u \in Users : Names(q, u)' <=> Names(q, u)
  BY <1>5 DEF Names
<1> QED
  BY <1>1, <1>3, <1>5, <1>6, <1>7, <1>8

\* A step of a PUT, which leaves the reader's request as it is, breaks neither what
\* the request knows nor why it was let in or refused.
LEMMA ReaderKeeps ==
    ASSUME AccessIInv, UNCHANGED <<account, reading>>, Completed \subseteq Completed',
           \A q \in Completed \ {0} : puts'[q].after = puts[q].after,
           \A p \in Completed, u \in Users : Names(p, u)' <=> Names(p, u)
    PROVE  /\ reading # NotAsked => reading'.after \subseteq Completed'
           /\ TokenAges' /\ AdmittedOnGrant' /\ RefusedForReason'
<1>1. reading # NotAsked => reading \in Request /\ reading.after \subseteq Completed
  BY AskedIsRequest DEF AccessIInv, CompletedStay
<1>2. reading # NotAsked => reading.reader \in Users
  BY <1>1 DEF Request
<1>3. TokenAges'
  BY DEF AccessIInv, TokenAges, Authenticated
<1>4. ASSUME reading # NotAsked, StandingGrant(reading.reader, reading.after)
      PROVE  StandingGrant(reading.reader, reading.after)'
  BY <1>1, <1>2, <1>4 DEF StandingGrant
<1>5. AdmittedOnGrant'
  BY <1>4 DEF AccessIInv, AdmittedOnGrant
<1>6. RefusedForReason'
  BY <1>2 DEF AccessIInv, RefusedForReason, Authenticated
<1> QED
  BY <1>1, <1>3, <1>5, <1>6

LEMMA BeginPutStep ==
    ASSUME AccessIInv, NEW list \in GrantLists, BeginPut(list)
    PROVE  AccessIInv'
<1> DEFINE n == Len(puts) + 1
<1>1. UNCHANGED <<account, grants, reading>> /\ AccessTypeOK
  BY DEF BeginPut, AccessIInv
<1>2. /\ DOMAIN puts' = DOMAIN puts \union {n} /\ n \notin DOMAIN puts
      /\ \A p \in DOMAIN puts : puts'[p] = puts[p]
      /\ puts'[n].state = "found" /\ puts'[n].found = grants /\ puts'[n].after = Completed
      /\ Completed' = Completed /\ puts' \in Seq(Put)
      /\ \A p \in Completed, u \in Users : Names(p, u)' <=> Names(p, u)
  <2>1. puts'[n] = [state |-> "found", list |-> list, found |-> grants, after |-> Completed]
    BY <1>1, BeginFacts
  <2>2. puts'[n].state = "found" /\ puts'[n].found = grants /\ puts'[n].after = Completed
    BY <2>1
  <2> QED
    BY <1>1, <2>2, BeginFacts
<1> HIDE DEF n
<1>3. AccessTypeOK'
  BY <1>1, <1>2 DEF AccessTypeOK
<1>4. \A q \in Completed \ {0} : q \in DOMAIN puts
  BY DEF Completed
<1>5. /\ reading # NotAsked => reading'.after \subseteq Completed'
      /\ TokenAges' /\ AdmittedOnGrant' /\ RefusedForReason'
  BY <1>1, <1>2, <1>4, ReaderKeeps
<1>6. CompletedStay'
  BY <1>1, <1>2, <1>5 DEF AccessIInv, CompletedStay
<1>7. \A g \in grants : g.user \in Users
  BY <1>1 DEF AccessTypeOK
<1>8. GrantsAreNamed'
  BY <1>1, <1>2, <1>7 DEF AccessIInv, GrantsAreNamed
<1>9. NamedAreGranted'
  BY <1>1, <1>2 DEF AccessIInv, NamedAreGranted, Users
<1>10. PutsFindTheirPast'
  BY <1>1, <1>2 DEF AccessIInv, PutsFindTheirPast
<1> QED
  BY <1>3, <1>5, <1>6, <1>8, <1>9, <1>10 DEF AccessIInv

LEMMA FailPutStep ==
    ASSUME AccessIInv, NEW p \in DOMAIN puts, FailPut(p)
    PROVE  AccessIInv'
<1>1. UNCHANGED <<account, grants, reading>> /\ AccessTypeOK
  BY DEF FailPut, AccessIInv
<1>2. /\ DOMAIN puts' = DOMAIN puts /\ puts' \in Seq(Put)
      /\ \A q \in DOMAIN puts : /\ puts'[q].after = puts[q].after
                                /\ puts'[q].found = puts[q].found
                                /\ puts'[q].state = IF q = p THEN "failed" ELSE puts[q].state
      /\ Completed' = Completed
      /\ \A q \in DOMAIN puts \union {0}, u \in Users : Names(q, u)' <=> Names(q, u)
  BY <1>1, EndFacts DEF FailPut
<1>3. AccessTypeOK'
  BY <1>1, <1>2 DEF AccessTypeOK
<1>4. Completed \subseteq DOMAIN puts \union {0}
  BY DEF Completed
<1>5. /\ reading # NotAsked => reading'.after \subseteq Completed'
      /\ TokenAges' /\ AdmittedOnGrant' /\ RefusedForReason'
  BY <1>1, <1>2, <1>4, ReaderKeeps
<1>6. CompletedStay'
  BY <1>1, <1>2, <1>5 DEF AccessIInv, CompletedStay
<1>7. \A g \in grants : g.user \in Users
  BY <1>1 DEF AccessTypeOK
<1>8. GrantsAreNamed'
  BY <1>1, <1>2, <1>4, <1>7 DEF AccessIInv, GrantsAreNamed
<1>9. NamedAreGranted'
  BY <1>1, <1>2, <1>4 DEF AccessIInv, NamedAreGranted, Users
<1>10. PutsFindTheirPast'
  BY <1>1, <1>2 DEF AccessIInv, PutsFindTheirPast
<1> QED
  BY <1>3, <1>5, <1>6, <1>8, <1>9, <1>10 DEF AccessIInv

\* The commit takes away every grant that was there when the PUT began, and what
\* it inserts no PUT under way knows of.
LEMMA CommitPutStep ==
    ASSUME AccessIInv, NEW p \in DOMAIN puts, CommitPut(p)
    PROVE  AccessIInv'
<1>1. UNCHANGED <<account, reading>> /\ AccessTypeOK /\ puts[p].state = "found"
  BY DEF CommitPut, AccessIInv
<1>2. /\ DOMAIN puts' = DOMAIN puts /\ puts' \in Seq(Put)
      /\ \A q \in DOMAIN puts : /\ puts'[q].after = puts[q].after
                                /\ puts'[q].found = puts[q].found
                                /\ puts'[q].state = IF q = p THEN "done" ELSE puts[q].state
      /\ p \in Nat \ {0} /\ p \notin Completed
      /\ Completed' = Completed \union {p}
      /\ \A q \in DOMAIN puts \union {0}, u \in Users : Names(q, u)' <=> Names(q, u)
  BY <1>1, EndFacts DEF CommitPut
<1>3. /\ grants' = (grants \ puts[p].found) \union InsertedGrants(p)
      /\ \A g \in InsertedGrants(p) :
            g.by = p /\ g \in [user : Users, view : BOOLEAN, by : Nat] /\ (g.view => Names(p, g.user))
  <2>1. puts[p].list \subseteq [user : Users, view : BOOLEAN]
    BY <1>1, PutFacts, PageAccessAssumption DEF PageAccessAssumption, Put
  <2>2. grants' = (grants \ puts[p].found) \union InsertedGrants(p)
    BY DEF CommitPut, Replaced
  <2>3. ASSUME NEW m \in puts[p].list, NEW g, g = [user |-> m.user, view |-> m.view, by |-> p]
        PROVE  /\ g.by = p /\ g \in [user : Users, view : BOOLEAN, by : Nat]
               /\ g.view => [user |-> g.user, view |-> TRUE] \in puts[p].list
    <3>1. m = [user |-> m.user, view |-> m.view] /\ m.user \in Users /\ m.view \in BOOLEAN
      BY <2>1
    <3>2. g.user = m.user /\ g.view = m.view /\ g.by = p
      BY <2>3
    <3>3. g \in [user : Users, view : BOOLEAN, by : Nat]
      BY <1>2, <2>3, <3>1
    <3>4. ASSUME g.view
          PROVE  [user |-> g.user, view |-> TRUE] \in puts[p].list
      <4>1. m.view = TRUE
        BY <3>1, <3>2, <3>4
      <4> QED
        BY <3>1, <3>2, <4>1
    <3> QED
      BY <3>2, <3>3, <3>4
  <2> QED
    BY <2>2, <2>3 DEF InsertedGrants, Names
<1>4. AccessTypeOK'
  BY <1>1, <1>2, <1>3 DEF AccessTypeOK
<1>5. Completed \subseteq DOMAIN puts \union {0}
  BY DEF Completed
<1>6. /\ reading # NotAsked => reading'.after \subseteq Completed'
      /\ TokenAges' /\ AdmittedOnGrant' /\ RefusedForReason'
  BY <1>1, <1>2, <1>5, ReaderKeeps
<1>7. CompletedStay'
  BY <1>1, <1>2, <1>6 DEF AccessIInv, CompletedStay
<1>8. \A g \in grants' : g.user \in Users
  BY <1>4 DEF AccessTypeOK
<1>9. GrantsAreNamed'
  BY <1>2, <1>3, <1>5, <1>8 DEF AccessIInv, GrantsAreNamed
<1>10. NamedAreGranted'
  <2> SUFFICES ASSUME NEW u \in Managers, \A q \in Completed' : Names(q, u)'
               PROVE  \E g \in grants' : g.user = u /\ g.view
    BY DEF NamedAreGranted
  <2>1. Names(p, u)
    BY <1>2 DEF Users
  <2>2. [user |-> u, view |-> TRUE] \in puts[p].list
    BY <1>2, <2>1 DEF Names
  <2> DEFINE m == [user |-> u, view |-> TRUE]
             mine == [user |-> u, view |-> TRUE, by |-> p]
  <2>3. mine = [user |-> m.user, view |-> m.view, by |-> p]
    OBVIOUS
  <2>4. mine.user = u /\ mine.view
    OBVIOUS
  <2>5. m \in puts[p].list
    BY <2>2
  <2> HIDE DEF m, mine
  <2>6. mine \in InsertedGrants(p)
    BY <2>3, <2>5 DEF InsertedGrants
  <2> QED
    BY <1>3, <2>4, <2>6
<1>11. PutsFindTheirPast'
  <2> SUFFICES ASSUME NEW q \in DOMAIN puts, NEW g \in grants', g.by \in puts[q].after
               PROVE  /\ puts'[q].state # "done"
                      /\ puts'[q].state = "found" => g \in puts[q].found
    BY <1>2 DEF PutsFindTheirPast
  <2>1. g.by # p
    BY <1>2 DEF AccessIInv, CompletedStay
  <2>2. g \in grants /\ g \notin puts[p].found
    BY <1>3, <2>1
  <2>3. puts[q].state # "done" /\ (puts[q].state = "found" => g \in puts[q].found)
    BY <2>2 DEF AccessIInv, PutsFindTheirPast
  <2> QED
    BY <1>1, <1>2, <2>2, <2>3
<1> QED
  BY <1>4, <1>6, <1>7, <1>9, <1>10, <1>11 DEF AccessIInv

LEMMA ChangeUserStep ==
    ASSUME AccessIInv, NEW u \in Users, ChangeUser(u)
    PROVE  AccessIInv'
<1>1. UNCHANGED <<grants, puts, reading>> /\ AccessTypeOK
  BY DEF ChangeUser, AccessIInv
<1>2. PICK b \in BOOLEAN : account' = [account EXCEPT ![u] =
                               [active |-> b, version |-> account[u].version + 1]]
  BY DEF ChangeUser
<1>3. /\ account' \in [Users -> Account]
      /\ \A x \in Users : /\ account[x].version \in Nat /\ account'[x].version \in Nat
                          /\ \/ account'[x] = account[x]
                             \/ account'[x].version = account[x].version + 1
  BY <1>1, <1>2 DEF AccessTypeOK, Account
<1>4. AccessTypeOK'
  BY <1>1, <1>3 DEF AccessTypeOK
<1>5. Completed' = Completed /\ \A p \in Completed, x \in Users : Names(p, x)' <=> Names(p, x)
  BY <1>1 DEF Completed, Names
<1>6. reading # NotAsked => reading.reader \in Users /\ reading.version \in Nat
  BY <1>1, AskedIsRequest DEF Request
<1>7. ASSUME reading # NotAsked, ~Authenticated(reading.reader, reading.version)
      PROVE  ~Authenticated(reading.reader, reading.version)'
  <2>1. reading.version <= account[reading.reader].version
    BY <1>7 DEF AccessIInv, TokenAges
  <2> QED
    BY <1>1, <1>3, <1>6, <1>7, <2>1 DEF Authenticated
<1>8. TokenAges'
  BY <1>1, <1>3, <1>6, <1>7 DEF AccessIInv, TokenAges
<1>9. RefusedForReason'
  BY <1>1, <1>5, <1>6, <1>7 DEF AccessIInv, RefusedForReason
<1>10. AdmittedOnGrant'
  BY <1>1, <1>5, <1>6 DEF AccessIInv, AdmittedOnGrant, StandingGrant
<1>11. CompletedStay' /\ PutsFindTheirPast'
  BY <1>1, <1>5 DEF AccessIInv, CompletedStay, PutsFindTheirPast
<1>12. GrantsAreNamed' /\ NamedAreGranted'
  BY <1>1 DEF AccessIInv, GrantsAreNamed, NamedAreGranted, Completed, Names
<1> QED
  BY <1>4, <1>8, <1>9, <1>10, <1>11, <1>12 DEF AccessIInv

\* A step of the reader changes nothing but its request.
LEMMA ReaderStep ==
    ASSUME AccessIInv, UNCHANGED <<account, grants, puts>>, reading' \in Request,
           reading'.after \subseteq Completed,
           TokenAges', AdmittedOnGrant', RefusedForReason'
    PROVE  AccessIInv'
<1>1. AccessTypeOK'
  BY DEF AccessIInv, AccessTypeOK
<1>2. CompletedStay' /\ PutsFindTheirPast'
  BY DEF AccessIInv, CompletedStay, PutsFindTheirPast, Completed
<1>3. GrantsAreNamed' /\ NamedAreGranted'
  BY DEF AccessIInv, GrantsAreNamed, NamedAreGranted, Completed, Names
<1> QED
  BY <1>1, <1>2, <1>3 DEF AccessIInv

\* The access check of a manager finds a grant that still stands, or there is a
\* complete PUT that does not let the manager in.
LEMMA GrantStands ==
    ASSUME AccessIInv, NEW u \in Managers, Granted(u), NEW after \in SUBSET Completed
    PROVE  StandingGrant(u, after)
<1>1. PICK g \in grants : g.user = u /\ g.view
  BY PageAccessAssumption DEF PageAccessAssumption, Granted
<1>2. g.by \in Completed /\ Names(g.by, u)
  BY <1>1 DEF AccessIInv, GrantsAreNamed
<1>3. \A q \in after \ {0} : g.by \notin puts[q].after
  BY DEF AccessIInv, PutsFindTheirPast, Completed
<1> QED
  BY <1>2, <1>3 DEF StandingGrant

LEMMA DenialHasReason ==
    ASSUME AccessIInv, NEW u \in Users, PageFound(u), ~Granted(u)
    PROVE  \E p \in Completed : ~Names(p, u)
BY DEF AccessIInv, NamedAreGranted, PageFound, Granted, Users

LEMMA FirstRequestStep ==
    ASSUME AccessIInv, NEW u \in Users, FirstRequest(u)
    PROVE  AccessIInv'
<1>1. /\ UNCHANGED <<account, grants, puts>> /\ AccessTypeOK
      /\ reading' = [state |-> "asking", reader |-> u, version |-> account[u].version,
                     current |-> TRUE, after |-> Completed, audited |-> FALSE]
  BY DEF FirstRequest, AccessIInv
<1>2. account[u].version \in Nat
  BY <1>1 DEF AccessTypeOK, Account
<1>3. reading' \in Request
  BY <1>1, <1>2, PutFacts DEF Request
<1>4. TokenAges' /\ AdmittedOnGrant' /\ RefusedForReason'
  BY <1>1, <1>2 DEF TokenAges, AdmittedOnGrant, RefusedForReason
<1> QED
  BY <1>1, <1>3, <1>4, ReaderStep

LEMMA NextRequestStep ==
    ASSUME AccessIInv, reading \in Request, NextRequest
    PROVE  AccessIInv'
<1>1. /\ UNCHANGED <<account, grants, puts>> /\ AccessTypeOK
      /\ reading' = [reading EXCEPT !.state = "asking", !.after = Completed,
                         !.current = Authenticated(reading.reader, reading.version)]
  BY DEF NextRequest, AccessIInv
<1>2. account[reading.reader].active \in BOOLEAN
  BY <1>1 DEF AccessTypeOK, Account, Request
<1>3. reading' \in Request
  BY <1>1, <1>2, PutFacts DEF Request, Authenticated
<1>4. reading # NotAsked
  BY DEF Request, NotAsked
<1>5. TokenAges'
  BY <1>1, <1>2, <1>4 DEF AccessIInv, TokenAges, Request, Authenticated
<1>6. AdmittedOnGrant' /\ RefusedForReason'
  BY <1>1 DEF AdmittedOnGrant, RefusedForReason, Request
<1> QED
  BY <1>1, <1>3, <1>5, <1>6, ReaderStep DEF Request

LEMMA AuthenticateStep ==
    ASSUME AccessIInv, reading \in Request, Authenticate
    PROVE  AccessIInv'
<1>1. /\ UNCHANGED <<account, grants, puts>> /\ AccessTypeOK
      /\ reading' = [reading EXCEPT !.state =
                         IF Authenticated(reading.reader, reading.version)
                         THEN "authenticated" ELSE "refused"]
  BY DEF Authenticate, AccessIInv
<1>2. reading' \in Request
  BY <1>1 DEF Request
<1>3. reading # NotAsked
  BY DEF Request, NotAsked
<1>4. TokenAges'
  BY <1>1, <1>3 DEF AccessIInv, TokenAges, Request, Authenticated
<1>5. AdmittedOnGrant' /\ RefusedForReason'
  BY <1>1 DEF AdmittedOnGrant, RefusedForReason, Request, Authenticated
<1>6. reading'.after \subseteq Completed
  BY <1>1, <1>3 DEF AccessIInv, CompletedStay, Request
<1> QED
  BY <1>1, <1>2, <1>4, <1>5, <1>6, ReaderStep

LEMMA CheckAccessStep ==
    ASSUME AccessIInv, reading \in Request, CheckAccess
    PROVE  AccessIInv'
<1>1. UNCHANGED <<account, grants, puts>> /\ AccessTypeOK /\ reading.state = "authenticated"
  BY DEF CheckAccess, AccessIInv
<1>2. /\ reading # NotAsked /\ reading.reader \in Users /\ reading.after \subseteq Completed
      /\ reading.current
  BY <1>1 DEF Request, NotAsked, AccessIInv, CompletedStay, TokenAges
<1>3. ASSUME NEW s \in {"granted", "refused"}, NEW b \in BOOLEAN,
             reading' = [reading EXCEPT !.state = s, !.audited = b],
             s = "granted" => PageFound(reading.reader) /\ Granted(reading.reader),
             s = "refused" => ~PageFound(reading.reader) \/ ~Granted(reading.reader)
      PROVE  AccessIInv'
  <2>1. /\ reading' \in Request /\ reading'.reader = reading.reader
        /\ reading'.after = reading.after /\ reading'.version = reading.version
        /\ reading'.current = reading.current /\ reading'.state = s
    BY <1>3 DEF Request
  <2>2. TokenAges'
    BY <1>1, <1>2, <2>1 DEF AccessIInv, TokenAges, Authenticated
  <2>3. AdmittedOnGrant'
    <3> SUFFICES ASSUME s = "granted"
                 PROVE  /\ reading.reader \notin Strangers
                        /\ reading.reader \in Managers =>
                               StandingGrant(reading.reader, reading.after)
      BY <1>1, <2>1 DEF AdmittedOnGrant, StandingGrant, Completed, Names
    <3> QED
      BY <1>2, <1>3, GrantStands DEF PageFound
  <2>4. RefusedForReason'
    <3> SUFFICES ASSUME s = "refused"
                 PROVE  \/ reading.reader \in Strangers
                        \/ \E p \in Completed : ~Names(p, reading.reader)
      BY <1>1, <2>1 DEF RefusedForReason, Authenticated, Completed, Names
    <3> QED
      BY <1>2, <1>3, DenialHasReason DEF PageFound
  <2> QED
    BY <1>1, <1>2, <2>1, <2>2, <2>3, <2>4, ReaderStep
<1>4. reading.audited \in BOOLEAN
  BY DEF Request
<1>5. CASE PageFound(reading.reader) /\ Granted(reading.reader)
           /\ reading' = [reading EXCEPT !.state = "granted"]
  <2>1. reading' = [reading EXCEPT !.state = "granted", !.audited = reading.audited]
    BY <1>5 DEF Request
  <2> QED
    BY <1>3, <1>4, <1>5, <2>1
<1>6. CASE PageFound(reading.reader) /\ ~Granted(reading.reader) /\ Deny
  BY <1>3, <1>6 DEF Deny
<1>7. CASE ~PageFound(reading.reader) /\ reading' = [reading EXCEPT !.state = "refused"]
  <2>1. reading' = [reading EXCEPT !.state = "refused", !.audited = reading.audited]
    BY <1>7 DEF Request
  <2> QED
    BY <1>3, <1>4, <1>7, <2>1
<1> QED
  BY <1>5, <1>6, <1>7 DEF CheckAccess

LEMMA ReplyStep ==
    ASSUME AccessIInv, reading \in Request, NEW more \in BOOLEAN, Reply(more)
    PROVE  AccessIInv'
<1>1. /\ UNCHANGED <<account, grants, puts>> /\ reading.state = "granted"
      /\ reading' = [reading EXCEPT !.state = IF more THEN "answered" ELSE "done"]
  BY DEF Reply
<1>2. reading # NotAsked /\ reading.after \subseteq Completed
  BY DEF Request, NotAsked, AccessIInv, CompletedStay
<1>3. /\ reading' \in Request /\ reading'.reader = reading.reader
      /\ reading'.after = reading.after /\ reading'.version = reading.version
      /\ reading'.current = reading.current /\ reading'.state \in {"answered", "done"}
  BY <1>1 DEF Request
<1>4. TokenAges'
  BY <1>1, <1>2, <1>3 DEF AccessIInv, TokenAges, Authenticated
<1>5. AdmittedOnGrant' /\ RefusedForReason'
  BY <1>1, <1>2, <1>3
     DEF AccessIInv, AdmittedOnGrant, RefusedForReason, StandingGrant, Completed, Names
<1> QED
  BY <1>1, <1>2, <1>3, <1>4, <1>5, ReaderStep

LEMMA AccessInitIInv == AccessInit => AccessIInv
<1> SUFFICES ASSUME AccessInit PROVE AccessIInv
  OBVIOUS
<1>1. Completed = {0} /\ DOMAIN puts = {}
  BY DEF AccessInit, Completed
<1>2. \A u \in Managers : \A g : g = [user |-> u, view |-> TRUE, by |-> 0] =>
          g.user = u /\ g.view = TRUE /\ g.by = 0 /\ g \in [user : Users, view : BOOLEAN, by : Nat]
  BY DEF Users
<1>3. /\ \A g \in grants : g.by = 0 /\ g \in [user : Users, view : BOOLEAN, by : Nat]
      /\ \A u \in Managers : \E g \in grants : g.user = u /\ g.view
  BY <1>2 DEF AccessInit
<1>4. AccessTypeOK
  <2>1. account \in [Users -> Account]
    BY DEF AccessInit, Account
  <2> QED
    BY <1>3, <2>1 DEF AccessInit, AccessTypeOK
<1>5. CompletedStay /\ PutsFindTheirPast
  BY <1>1 DEF AccessInit, CompletedStay, PutsFindTheirPast
<1>6. GrantsAreNamed /\ NamedAreGranted
  BY <1>1, <1>3 DEF GrantsAreNamed, NamedAreGranted, Names
<1>7. TokenAges /\ AdmittedOnGrant /\ RefusedForReason
  BY DEF AccessInit, TokenAges, AdmittedOnGrant, RefusedForReason
<1> QED
  BY <1>4, <1>5, <1>6, <1>7 DEF AccessIInv

LEMMA AccessNextIInv ==
    ASSUME AccessIInv, [AccessNext]_accessVars
    PROVE  AccessIInv'
<1>1. ASSUME reading # NotAsked
      PROVE  reading \in Request
  BY <1>1, AskedIsRequest DEF AccessIInv
<1>2. ASSUME NEW u \in Users, FirstRequest(u) \/ ChangeUser(u)
      PROVE  AccessIInv'
  BY <1>2, FirstRequestStep, ChangeUserStep
<1>3. CASE NextRequest \/ Authenticate \/ CheckAccess
  <2>1. reading # NotAsked
    BY <1>3 DEF NextRequest, Authenticate, CheckAccess, NotAsked
  <2> QED
    BY <1>1, <1>3, <2>1, NextRequestStep, AuthenticateStep, CheckAccessStep
<1>4. ASSUME NEW more \in BOOLEAN, Reply(more)
      PROVE  AccessIInv'
  <2>1. reading # NotAsked
    BY <1>4 DEF Reply, NotAsked
  <2> QED
    BY <1>1, <1>4, <2>1, ReplyStep
<1>5. ASSUME NEW list \in GrantLists, BeginPut(list)
      PROVE  AccessIInv'
  BY <1>5, BeginPutStep
<1>6. ASSUME NEW p \in DOMAIN puts, CommitPut(p) \/ FailPut(p)
      PROVE  AccessIInv'
  BY <1>6, CommitPutStep, FailPutStep
<1>7. CASE UNCHANGED accessVars
  BY <1>7 DEF accessVars, AccessIInv, AccessTypeOK, CompletedStay, GrantsAreNamed,
     NamedAreGranted, PutsFindTheirPast, TokenAges, AdmittedOnGrant, RefusedForReason,
     StandingGrant, Completed, Names, Authenticated
<1> QED
  BY <1>2, <1>3, <1>4, <1>5, <1>6, <1>7 DEF AccessNext

LEMMA AlwaysAccessIInv == AccessSpec => []AccessIInv
<1> QED
  BY AccessInitIInv, AccessNextIInv, PTL DEF AccessSpec

\* The users, the grants, the PUTs and the request keep their types.
THEOREM AccessTypeCorrect == AccessSpec => []AccessTypeOK
<1>1. AccessIInv => AccessTypeOK
  BY DEF AccessIInv
<1> QED
  BY <1>1, AlwaysAccessIInv, PTL

\* However many PUTs of grants and changes of users interleave with the two
\* transactions of a request, it is answered only on a token and a grant that
\* were good when it began, and refused only for a reason.
THEOREM AnswersCorrect == AccessSpec => []AnsweredOnCurrentGrant
<1>1. ASSUME AccessIInv
      PROVE  AnsweredOnCurrentGrant
  BY <1>1 DEF AccessIInv, TokenAges, AdmittedOnGrant, RefusedForReason, StandingGrant,
     AnsweredOnCurrentGrant
<1> QED
  BY <1>1, AlwaysAccessIInv, PTL

-----------------------------------------------------------------------------
(* Query: the order of rows                                                *)

\* Where a row or a cursor stands: a value for each key that is sorted by.
Place(keys) == [DOMAIN keys -> Int \union {Null}]

\* x stands before y on one key: no value is last.
Comes(key, x, y) == x # Null /\ (y = Null \/ After(key, y, x))

LEMMA ComesIsStrictOrder ==
    ASSUME NEW key
    PROVE  /\ \A x \in Int \union {Null} : ~Comes(key, x, x)
           /\ \A x, y, z \in Int \union {Null} : Comes(key, x, y) /\ Comes(key, y, z) => Comes(key, x, z)
           /\ \A x, y \in Int \union {Null} : x # y => Comes(key, x, y) \/ Comes(key, y, x)
BY QueryAssumption DEF QueryAssumption, Comes, After

LEMMA OrderedIsLexicographic ==
    ASSUME NEW keys, NEW v, NEW w
    PROVE  Ordered(keys, v, w) <=>
             \E n \in DOMAIN keys : (\A m \in 1 .. n - 1 : v[m] = w[m]) /\ Comes(keys[n], v[n], w[n])
BY DEF Ordered, Comes

\* The condition of the next page finds just what is ordered after the cursor.
LEMMA KeysetIsOrdered ==
    ASSUME NEW keys, NEW values, NEW cursor
    PROVE  KeysetPredicate(keys, values, cursor) <=> Ordered(keys, cursor, values)
<1>1. \A n : AtCursor(values[n], cursor[n]) <=> cursor[n] = values[n]
  BY DEF AtCursor
<1>2. \A n : PastCursor(keys[n], values[n], cursor[n]) <=> Comes(keys[n], cursor[n], values[n])
  BY DEF PastCursor, Comes
<1> QED
  BY <1>1, <1>2, OrderedIsLexicographic DEF KeysetPredicate

LEMMA OrderedIsStrictOrder ==
    ASSUME NEW keys, NEW L \in Nat, DOMAIN keys = 1 .. L
    PROVE  /\ \A v \in Place(keys) : ~Ordered(keys, v, v)
           /\ \A v, w, x \in Place(keys) :
                Ordered(keys, v, w) /\ Ordered(keys, w, x) => Ordered(keys, v, x)
           /\ \A v, w \in Place(keys) : v # w => Ordered(keys, v, w) \/ Ordered(keys, w, v)
<1>1. \A v \in Place(keys), n \in DOMAIN keys : v[n] \in Int \union {Null}
  BY DEF Place
<1>2. ASSUME NEW v \in Place(keys)
      PROVE  ~Ordered(keys, v, v)
  BY <1>1, OrderedIsLexicographic, ComesIsStrictOrder
<1>3. ASSUME NEW v \in Place(keys), NEW w \in Place(keys), NEW x \in Place(keys),
             Ordered(keys, v, w), Ordered(keys, w, x)
      PROVE  Ordered(keys, v, x)
  <2>1. PICK a \in 1 .. L : (\A m \in 1 .. a - 1 : v[m] = w[m]) /\ Comes(keys[a], v[a], w[a])
    BY <1>3, OrderedIsLexicographic
  <2>2. PICK b \in 1 .. L : (\A m \in 1 .. b - 1 : w[m] = x[m]) /\ Comes(keys[b], w[b], x[b])
    BY <1>3, OrderedIsLexicographic
  <2>3. CASE a < b
    <3>1. w[a] = x[a]
      BY <2>2, <2>3
    <3>2. \A m \in 1 .. a - 1 : v[m] = x[m]
      BY <2>1, <2>2, <2>3
    <3>3. Comes(keys[a], v[a], x[a])
      BY <2>1, <3>1
    <3> QED
      BY <3>2, <3>3, OrderedIsLexicographic
  <2>4. CASE b < a
    <3>1. v[b] = w[b]
      BY <2>1, <2>4
    <3>2. \A m \in 1 .. b - 1 : v[m] = x[m]
      BY <2>1, <2>2, <2>4
    <3>3. Comes(keys[b], v[b], x[b])
      BY <2>2, <3>1
    <3> QED
      BY <3>2, <3>3, OrderedIsLexicographic
  <2>5. CASE a = b
    <3>1. Comes(keys[a], v[a], x[a])
      BY <1>1, <2>1, <2>2, <2>5, ComesIsStrictOrder
    <3>2. \A m \in 1 .. a - 1 : v[m] = x[m]
      BY <2>1, <2>2, <2>5
    <3> QED
      BY <3>1, <3>2, OrderedIsLexicographic
  <2> QED
    BY <2>3, <2>4, <2>5
<1>4. ASSUME NEW v \in Place(keys), NEW w \in Place(keys), v # w
      PROVE  Ordered(keys, v, w) \/ Ordered(keys, w, v)
  <2> DEFINE B == {n \in 1 .. L : v[n] # w[n]}
  <2>1. B # {} /\ B \subseteq Nat
    BY <1>4 DEF Place
  <2>2. PICK n \in B : \A k \in B : n <= k
    BY <2>1, Least
  <2>3. \A m \in 1 .. n - 1 : v[m] = w[m]
    BY <2>2
  <2>4. Comes(keys[n], v[n], w[n]) \/ Comes(keys[n], w[n], v[n])
    BY <1>1, <2>2, ComesIsStrictOrder
  <2> QED
    BY <2>2, <2>3, <2>4, OrderedIsLexicographic
<1> QED
  BY <1>2, <1>3, <1>4

-----------------------------------------------------------------------------
(* Query: sorting                                                          *)

StrictOrder(S, R) ==
    /\ \A i \in S : <<i, i>> \notin R
    /\ \A i, j, k \in S : <<i, j>> \in R /\ <<j, k>> \in R => <<i, k>> \in R
    /\ \A i, j \in S : i # j => <<i, j>> \in R \/ <<j, i>> \in R

Rank(S, R) == [i \in S |-> Cardinality({j \in S : <<j, i>> \in R})]

\* A strict order of a finite set numbers its members.
LEMMA Ranks ==
    ASSUME NEW S, IsFiniteSet(S), NEW R, StrictOrder(S, R)
    PROVE  /\ Cardinality(S) \in Nat
           /\ \A i \in S : Rank(S, R)[i] \in 0 .. Cardinality(S) - 1
           /\ \A i, j \in S : Rank(S, R)[i] < Rank(S, R)[j] <=> <<i, j>> \in R
           /\ \A i, j \in S : Rank(S, R)[i] = Rank(S, R)[j] => i = j
           /\ \A n \in 0 .. Cardinality(S) - 1 : \E i \in S : Rank(S, R)[i] = n
<1> DEFINE f == Rank(S, R)
<1>1. /\ \A i \in S : <<i, i>> \notin R
      /\ \A i, j, k \in S : <<i, j>> \in R /\ <<j, k>> \in R => <<i, k>> \in R
      /\ \A i, j \in S : i # j => <<i, j>> \in R \/ <<j, i>> \in R
  BY DEF StrictOrder
<1>2. f = [i \in S |-> Cardinality({j \in S : <<j, i>> \in R})]
  BY DEF Rank
<1> HIDE DEF f
<1> DEFINE P(i) == {j \in S : <<j, i>> \in R}
           N == Cardinality(S)
<1>3. N \in Nat
  BY FS_CardinalityType
<1>4. \A i \in S : f[i] = Cardinality(P(i)) /\ P(i) \in SUBSET S /\ IsFiniteSet(P(i))
  BY <1>2, FS_Subset
<1>5. \A i \in S : f[i] \in Nat
  BY <1>4, FS_CardinalityType
<1>6. ASSUME NEW i \in S, NEW j \in S, <<i, j>> \in R
      PROVE  f[i] < f[j]
  <2>1. P(i) \in SUBSET P(j) /\ i \in P(j) /\ i \notin P(i)
    BY <1>1, <1>6
  <2>2. Cardinality(P(i)) <= Cardinality(P(j)) /\ Cardinality(P(i)) # Cardinality(P(j))
    <3> HIDE DEF P
    <3> QED
      BY <1>4, <2>1, FS_Subset
  <2> QED
    BY <1>4, <1>5, <2>2
<1>7. ASSUME NEW i \in S
      PROVE  f[i] \in 0 .. N - 1
  <2>1. P(i) \in SUBSET S /\ i \notin P(i)
    BY <1>1
  <2>2. Cardinality(P(i)) <= N /\ Cardinality(P(i)) # N
    <3> HIDE DEF P
    <3> QED
      BY <2>1, FS_Subset
  <2> QED
    BY <1>3, <1>4, <1>5, <2>2
<1> HIDE DEF P
<1>8. ASSUME NEW i \in S, NEW j \in S
      PROVE  (f[i] < f[j] <=> <<i, j>> \in R) /\ (f[i] = f[j] => i = j)
  <2>1. f[i] \in Nat /\ f[j] \in Nat
    BY <1>5
  <2>2. i = j \/ <<i, j>> \in R \/ <<j, i>> \in R
    BY <1>1
  <2>3. CASE i = j
    BY <1>1, <2>1, <2>3
  <2>4. CASE <<i, j>> \in R
    <3>1. f[i] < f[j]
      BY <1>6, <2>4
    <3> QED
      BY <2>1, <2>4, <3>1
  <2>5. CASE <<j, i>> \in R
    <3>1. f[j] < f[i]
      BY <1>6, <2>5
    <3>2. <<i, j>> \notin R
      BY <1>1, <2>5
    <3> QED
      BY <2>1, <3>1, <3>2
  <2> QED
    BY <2>2, <2>3, <2>4, <2>5
<1>9. ASSUME NEW n \in 0 .. N - 1
      PROVE  \E i \in S : f[i] = n
  <2>1. f \in [S -> 0 .. N - 1]
    BY <1>2, <1>7
  <2>2. f \in Injection(S, 0 .. N - 1)
    BY <1>8, <2>1 DEF Injection, IsInjective
  <2>3. IsFiniteSet(0 .. N - 1) /\ Cardinality(0 .. N - 1) = N
    BY <1>3, FS_Interval
  <2>4. f \in Surjection(S, 0 .. N - 1)
    BY <2>2, <2>3, FS_Injection
  <2> QED
    BY <2>4 DEF Surjection
<1> QED
  BY <1>3, <1>7, <1>8, <1>9 DEF f

LEMMA SameInterval ==
    ASSUME NEW k \in Nat, NEW n \in Nat, 1 .. k = 1 .. n
    PROVE  k = n
<1>1. k \in 1 .. k => k \in 1 .. n
  OBVIOUS
<1>2. n \in 1 .. n => n \in 1 .. k
  OBVIOUS
<1> QED
  BY <1>1, <1>2

ByRank(S, R) == [n \in 1 .. Cardinality(S) |-> CHOOSE i \in S : Rank(S, R)[i] = n - 1]

LEMMA SortedByRank ==
    ASSUME NEW S, IsFiniteSet(S), NEW R, StrictOrder(S, R)
    PROVE  /\ ByRank(S, R) \in Seq(S) /\ Len(ByRank(S, R)) \in Nat
           /\ \A m, n \in 1 .. Len(ByRank(S, R)) : m < n => <<ByRank(S, R)[m], ByRank(S, R)[n]>> \in R
           /\ \A i \in S : \E n \in 1 .. Len(ByRank(S, R)) : ByRank(S, R)[n] = i
<1> DEFINE N == Cardinality(S)
           f == Rank(S, R)
           s == ByRank(S, R)
<1>1. /\ N \in Nat
      /\ \A i \in S : f[i] \in 0 .. N - 1
      /\ \A i, j \in S : f[i] < f[j] <=> <<i, j>> \in R
      /\ \A i, j \in S : f[i] = f[j] => i = j
      /\ \A n \in 0 .. N - 1 : \E i \in S : f[i] = n
  BY Ranks
<1>2. s = [n \in 1 .. N |-> CHOOSE i \in S : f[i] = n - 1]
  BY DEF ByRank
<1> HIDE DEF N, f, s
<1>3. ASSUME NEW n \in 1 .. N
      PROVE  s[n] \in S /\ f[s[n]] = n - 1
  <2>1. n - 1 \in 0 .. N - 1
    BY <1>1
  <2>2. PICK i \in S : f[i] = n - 1
    BY <1>1, <2>1
  <2>3. s[n] = CHOOSE j \in S : f[j] = n - 1
    BY <1>2
  <2> QED
    BY <2>2, <2>3
<1>4. s \in Seq(S) /\ Len(s) = N
  <2>1. s \in [1 .. N -> S]
    BY <1>2, <1>3
  <2>2. s \in UNION {[1 .. n -> S] : n \in Nat}
    BY <1>1, <2>1
  <2>3. s \in Seq(S)
    BY <2>2, SeqDef, Zenon
  <2>4. 1 .. N = 1 .. Len(s) /\ Len(s) \in Nat
    BY <2>1, <2>3, LenProperties
  <2>5. Len(s) = N
    BY <1>1, <2>4, SameInterval, Zenon
  <2> QED
    BY <2>3, <2>5, Zenon
<1>5. ASSUME NEW m \in 1 .. N, NEW n \in 1 .. N, m < n
      PROVE  <<s[m], s[n]>> \in R
  <2>1. s[m] \in S /\ s[n] \in S /\ f[s[m]] = m - 1 /\ f[s[n]] = n - 1
    BY <1>3
  <2>2. m - 1 < n - 1
    BY <1>1, <1>5
  <2>3. f[s[m]] < f[s[n]]
    BY <2>1, <2>2
  <2> QED
    BY <1>1, <2>1, <2>3
<1>6. ASSUME NEW i \in S
      PROVE  \E n \in 1 .. N : s[n] = i
  <2>0. f[i] \in 0 .. N - 1
    BY <1>1
  <2>1. f[i] + 1 \in 1 .. N /\ (f[i] + 1) - 1 = f[i]
    BY <1>1, <2>0
  <2> DEFINE n == f[i] + 1
  <2>2. n \in 1 .. N /\ n - 1 = f[i]
    BY <2>1
  <2> HIDE DEF n
  <2>3. s[n] \in S /\ f[s[n]] = f[i]
    BY <1>3, <2>2
  <2>4. s[n] = i
    BY <1>1, <2>3
  <2> QED
    BY <2>2, <2>4
<1> QED
  BY <1>1, <1>4, <1>5, <1>6 DEF s

-----------------------------------------------------------------------------
(* Query: the place of a row                                               *)

LEMMA KeyFacts ==
    ASSUME NEW q \in QueryRequests, plan \in Plans
    PROVE  LET keys == SortKeys(q)
               columns == Plain \union DOMAIN plan.by_key
           IN  /\ Len(keys) \in Nat \ {0} /\ DOMAIN keys = 1 .. Len(keys)
               /\ keys[Len(keys)].column = "id"
               /\ \A n \in 1 .. Len(keys) - 1 :
                    \/ keys[n].column = "occurred_at"
                    \/ keys[n].column \in columns /\ Numeric(plan, keys[n].column)
<1> DEFINE columns == Plain \union DOMAIN plan.by_key
           Key == [column : columns \union {"occurred_at"}, direction : {"asc", "desc"}]
           one == [column |-> "occurred_at", direction |-> "desc"]
           first == IF q.sort = <<>> THEN <<one>> ELSE q.sort
           last == [column |-> "id", direction |-> "desc"]
<1>1. /\ q.sort \in Seq(Key)
      /\ \A n \in DOMAIN q.sort : q.sort[n].column \in columns => Numeric(plan, q.sort[n].column)
  BY QueryAssumption, Zenon DEF QueryAssumption
<1>2. one \in Key /\ \A k \in Key : k.column \in columns \union {"occurred_at"}
  OBVIOUS
<1>3. SortKeys(q) = first \o <<last>>
  BY DEF SortKeys
<1>4. one.column = "occurred_at" /\ last.column = "id"
  OBVIOUS
<1>5. first = IF q.sort = <<>> THEN <<one>> ELSE q.sort
  OBVIOUS
<1> HIDE DEF first, Key, columns, one, last
<1>6. /\ first \in Seq(Key)
      /\ \A n \in 1 .. Len(first) :
           \/ first[n].column = "occurred_at"
           \/ first[n].column \in columns /\ Numeric(plan, first[n].column)
  <2>1. CASE q.sort = <<>>
    <3>1. first = <<one>>
      BY <1>5, <2>1
    <3> QED
      BY <1>2, <1>4, <3>1
  <2>2. CASE q.sort # <<>>
    <3>1. first = q.sort
      BY <1>5, <2>2
    <3>2. \A n \in 1 .. Len(q.sort) : n \in DOMAIN q.sort /\ q.sort[n] \in Key
      BY <1>1
    <3>3. \A n \in 1 .. Len(q.sort) : q.sort[n].column \in columns \union {"occurred_at"}
      BY <1>2, <3>2
    <3> QED
      BY <1>1, <3>1, <3>2, <3>3
  <2> QED
    BY <2>1, <2>2
<1>7. /\ Len(SortKeys(q)) = Len(first) + 1 /\ Len(first) \in Nat
      /\ DOMAIN SortKeys(q) = 1 .. Len(SortKeys(q))
      /\ \A n \in 1 .. Len(first) : SortKeys(q)[n] = first[n]
      /\ SortKeys(q)[Len(first) + 1] = last
  BY <1>3, <1>6
<1> QED
  BY <1>4, <1>6, <1>7 DEF columns

\* The statement puts a record in a place of its own, and the cursor made of
\* what is shown is a place too, not always the same.
LEMMA PlaceFacts ==
    ASSUME QueryTypeOK, NEW q \in QueryRequests, NEW i \in Stored
    PROVE  /\ SortValues(SortKeys(q), i) \in Place(SortKeys(q))
           /\ SortValues(SortKeys(q), i)[Len(SortKeys(q))] = i
           /\ EncodeCursor(SortKeys(q), i) \in Place(SortKeys(q))
<1> DEFINE keys == SortKeys(q)
           columns == Plain \union DOMAIN plan.by_key
           r == rows[i]
<1>1. /\ i \in Ids /\ r \in Record /\ r.at \in Int /\ r.cells \in Cells /\ r.slots \in Slots
      /\ plan \in Plans /\ i \in Int
  BY QueryAssumption DEF QueryAssumption, QueryTypeOK, Stored, Record
<1>2. /\ Len(keys) \in Nat \ {0} /\ DOMAIN keys = 1 .. Len(keys)
      /\ keys[Len(keys)].column = "id"
      /\ \A n \in 1 .. Len(keys) - 1 :
           \/ keys[n].column = "occurred_at"
           \/ keys[n].column \in columns /\ Numeric(plan, keys[n].column)
  BY <1>1, KeyFacts
<1>3. {"id", "occurred_at", "status"} \intersect columns = {}
  BY <1>1, QueryAssumption DEF QueryAssumption
<1>4. ASSUME NEW k \in columns, Numeric(plan, k)
      PROVE  RowValue(k, i) \in Int \union {Null} /\ SortValue(k, i) \in Int \union {Null}
  <2>1. k # "id" /\ k # "occurred_at" /\ k # "status"
    BY <1>3
  <2>2. /\ (IF k \in DOMAIN plan.by_key THEN InPython(plan, r.cells)[k] ELSE r.cells[k])
              \in Int \union {Null}
        /\ (IF k \in DOMAIN plan.by_key THEN InDatabase(plan, k, Read(r.cells, r.slots))
            ELSE Read(r.cells, r.slots)[k]) \in Int \union {Null}
    BY <1>1, <1>4 DEF Numeric
  <2> HIDE DEF columns
  <2>3. CASE k \in DOMAIN plan.by_key
    BY <2>1, <2>2, <2>3 DEF RowValue, SortValue, ResolveColumn, ShownCells
  <2>4. CASE k \notin DOMAIN plan.by_key
    BY <2>1, <2>2, <2>4 DEF RowValue, SortValue, ResolveColumn
  <2> QED
    BY <2>3, <2>4
<1>5. /\ RowValue("id", i) = i /\ SortValue("id", i) = i
      /\ RowValue("occurred_at", i) = r.at /\ SortValue("occurred_at", i) = r.at
  BY <1>3 DEF RowValue, SortValue
<1> HIDE DEF keys, columns, r
<1>6. ASSUME NEW n \in DOMAIN keys
      PROVE  /\ RowValue(keys[n].column, i) \in Int \union {Null}
             /\ SortValue(keys[n].column, i) \in Int \union {Null}
  <2>1. CASE n = Len(keys)
    BY <1>1, <1>2, <1>5, <2>1
  <2>2. CASE n \in 1 .. Len(keys) - 1
    BY <1>1, <1>2, <1>4, <1>5, <2>2
  <2> QED
    BY <1>2, <2>1, <2>2
<1> QED
  BY <1>2, <1>5, <1>6 DEF keys, EncodeCursor, SortValues, Place

-----------------------------------------------------------------------------
(* Query: one page                                                         *)

RowPlace(q, i) == SortValues(SortKeys(q), i)

\* The rows that are left after a cursor.
Left(q, cursor) ==
    {i \in Matching(q) : cursor # <<>> => Ordered(SortKeys(q), cursor, RowPlace(q, i))}

\* The pairs of a set of rows of which the first is listed before the second.
Listed(q, S) == {p \in S \X S : Ordered(SortKeys(q), RowPlace(q, p[1]), RowPlace(q, p[2]))}

LEMMA ListedIsStrictOrder ==
    ASSUME QueryTypeOK, NEW q \in QueryRequests, NEW S, S \subseteq Stored
    PROVE  StrictOrder(S, Listed(q, S))
<1> DEFINE keys == SortKeys(q)
<1>1. plan \in Plans
  BY DEF QueryTypeOK
<1>2. Len(keys) \in Nat \ {0} /\ DOMAIN keys = 1 .. Len(keys)
  BY <1>1, KeyFacts
<1>3. \A i \in S : RowPlace(q, i) \in Place(keys) /\ RowPlace(q, i)[Len(keys)] = i
  BY PlaceFacts DEF RowPlace
<1> HIDE DEF keys
<1>4. /\ \A v \in Place(keys) : ~Ordered(keys, v, v)
      /\ \A v, w, x \in Place(keys) :
           Ordered(keys, v, w) /\ Ordered(keys, w, x) => Ordered(keys, v, x)
      /\ \A v, w \in Place(keys) : v # w => Ordered(keys, v, w) \/ Ordered(keys, w, v)
  BY <1>2, OrderedIsStrictOrder
<1>5. \A i, j \in S : <<i, j>> \in Listed(q, S) <=> Ordered(keys, RowPlace(q, i), RowPlace(q, j))
  BY DEF Listed, keys
<1>6. \A i, j \in S : i # j => RowPlace(q, i) # RowPlace(q, j)
  BY <1>3
<1>7. \A i \in S : <<i, i>> \notin Listed(q, S)
  BY <1>3, <1>4, <1>5
<1>8. \A i, j, k \in S :
        <<i, j>> \in Listed(q, S) /\ <<j, k>> \in Listed(q, S) => <<i, k>> \in Listed(q, S)
  BY <1>3, <1>4, <1>5
<1>9. \A i, j \in S : i # j => <<i, j>> \in Listed(q, S) \/ <<j, i>> \in Listed(q, S)
  BY <1>3, <1>4, <1>5, <1>6
<1> QED
  BY <1>7, <1>8, <1>9 DEF StrictOrder

\* A page is the first rows of those that are left, in their order: its last
\* row, of which the cursor is made, parts them from the others.
LEMMA PageFacts ==
    ASSUME QueryTypeOK, NEW q \in QueryRequests, NEW cursor
    PROVE  LET answer == QueryRecords(q, cursor)
               left == Left(q, cursor)
           IN  /\ answer.items \in Seq(left) /\ answer.more \in BOOLEAN
               /\ \A m, n \in 1 .. Len(answer.items) :
                    m < n => <<answer.items[m], answer.items[n]>> \in Listed(q, left)
               /\ ~answer.more => ToSet(answer.items) = left /\ answer.cursor = <<>>
               /\ answer.more =>
                    /\ answer.cursor \in Place(SortKeys(q))
                    /\ Last(answer.items) \in left
                    /\ answer.cursor = EncodeCursor(SortKeys(q), Last(answer.items))
                    /\ \A i \in left :
                         i \in ToSet(answer.items)
                           <=> ~Ordered(SortKeys(q), RowPlace(q, Last(answer.items)), RowPlace(q, i))
<1> DEFINE keys == SortKeys(q)
           left == Left(q, cursor)
           R == Listed(q, left)
           answer == QueryRecords(q, cursor)
           N == Cardinality(left)
           all == ByRank(left, R)
           more == Len(all) > q.limit
           items == SubSeq(all, 1, IF more THEN q.limit ELSE Len(all))
<1>1. left \subseteq Stored /\ left \subseteq Ids /\ IsFiniteSet(left)
  <2>1. left \subseteq Stored /\ left \subseteq Ids
    BY DEF Left, Matching, BaseConditions, Stored
  <2> QED
    BY <2>1, QueryAssumption, FS_Subset DEF QueryAssumption
<1>2. StrictOrder(left, R)
  BY <1>1, ListedIsStrictOrder
<1>3. /\ all \in Seq(left) /\ Len(all) \in Nat
      /\ \A m, n \in 1 .. Len(all) : m < n => <<all[m], all[n]>> \in R
      /\ \A i \in left : \E n \in 1 .. Len(all) : all[n] = i
  <2> HIDE DEF left, R
  <2> QED
    BY <1>1, <1>2, SortedByRank
<1>4. /\ answer.items = items /\ answer.more = more
      /\ answer.cursor = IF more THEN EncodeCursor(keys, Last(items)) ELSE <<>>
  <2> DEFINE values == [i \in Matching(q) |-> SortValues(keys, i)]
             rest == {i \in DOMAIN values : cursor # <<>> => KeysetPredicate(keys, values[i], cursor)}
             sorted == Sorted(rest, LAMBDA i, j : Ordered(keys, values[i], values[j]))
             full == Len(sorted) > q.limit
             part == SubSeq(sorted, 1, IF full THEN q.limit ELSE Len(sorted))
  <2>1. \A i \in Matching(q) : values[i] = RowPlace(q, i)
    BY PlaceFacts DEF RowPlace, Matching, BaseConditions, Stored
  <2>2. rest = left
    <3> HIDE DEF keys, values
    <3>1. DOMAIN values = Matching(q)
      BY DEF values
    <3> QED
      BY <2>1, <3>1, KeysetIsOrdered DEF Left, keys
  <2>3. \A i \in left : {j \in rest : Ordered(keys, values[j], values[i])} = {j \in left : <<j, i>> \in R}
    <3>1. left \subseteq Matching(q)
      BY DEF Left
    <3> HIDE DEF values, rest, left
    <3> QED
      BY <2>1, <2>2, <3>1 DEF Listed
  <2>4. sorted = all
    <3>1. \A i \in left : Rank(left, R)[i] = Cardinality({j \in rest : Ordered(keys, values[j], values[i])})
      <4> HIDE DEF left, R, values, rest, keys
      <4> QED
        BY <2>3 DEF Rank
    <3> DEFINE nth(n) == CHOOSE i \in rest :
                  Cardinality({j \in rest : Ordered(keys, values[j], values[i])}) = n - 1
    <3>2. sorted = [n \in 1 .. Cardinality(rest) |-> nth(n)]
      <4> HIDE DEF values, rest, keys
      <4> QED
        BY DEF Sorted
    <3>3. \A n \in 1 .. N : nth(n) = CHOOSE i \in left : Rank(left, R)[i] = n - 1
      <4> HIDE DEF left, R, values, rest, keys
      <4> QED
        BY <2>2, <3>1
    <3> QED
      <4> HIDE DEF left, R, values, rest, keys, sorted, nth
      <4> QED
        BY <2>2, <3>2, <3>3 DEF ByRank
  <2>5. answer = [items |-> part, more |-> full,
                  cursor |-> IF full THEN EncodeCursor(keys, Last(part)) ELSE <<>>]
    BY Zenon DEF QueryRecords
  <2> HIDE DEF all, left, R, sorted, values, rest, keys, answer
  <2> QED
    BY <2>4, <2>5
<1>5. q.limit \in Nat \ {0}
  BY QueryAssumption DEF QueryAssumption, QueryTypeOK
<1>6. left \subseteq Stored
  BY <1>1
<1> HIDE DEF all, left, R, keys, answer, N
<1>7. CASE ~more
  <2>1. items = SubSeq(all, 1, Len(all)) /\ answer.cursor = <<>>
    BY <1>4, <1>7
  <2>2. items = all
    <3> HIDE DEF items
    <3> QED
      BY <1>3, <2>1
  <2>3. ToSet(all) = left /\ more = FALSE
    BY <1>3, <1>7 DEF ToSet
  <2> HIDE DEF items, more
  <2> QED
    BY <1>3, <1>4, <1>7, <2>1, <2>2, <2>3 DEF left, R, answer
<1>8. CASE more
  <2> DEFINE l == q.limit
             last == all[l]
  <2>1. items = SubSeq(all, 1, l) /\ l \in 1 .. Len(all)
    BY <1>3, <1>5, <1>8
  <2> HIDE DEF l, items
  <2>2. /\ items \in Seq(left) /\ Len(items) = l
        /\ \A n \in 1 .. l : items[n] = all[n]
    BY <1>3, <2>1
  <2>3. Last(items) = last /\ last \in left
    BY <1>3, <2>1, <2>2 DEF Last
  <2>4. answer.cursor = EncodeCursor(keys, last) /\ Last(answer.items) = last
    BY <1>4, <1>8, <2>3
  <2>5. answer.cursor \in Place(keys)
    BY <1>6, <2>3, <2>4, PlaceFacts DEF keys
  <2>6. \A i, j \in left : <<i, j>> \in R <=> Ordered(keys, RowPlace(q, i), RowPlace(q, j))
    BY DEF R, Listed, keys
  <2>7. /\ \A i \in left : <<i, i>> \notin R
        /\ \A i, j, k \in left : <<i, j>> \in R /\ <<j, k>> \in R => <<i, k>> \in R
    BY <1>2 DEF StrictOrder
  <2>8. ASSUME NEW i \in left
        PROVE  i \in ToSet(items) <=> <<last, i>> \notin R
    <3>1. PICK n \in 1 .. Len(all) : all[n] = i
      BY <1>3
    <3>2. CASE n <= l
      <4>1. n \in 1 .. l /\ n \in DOMAIN items
        BY <2>1, <2>2, <3>1, <3>2
      <4>2. i \in ToSet(items)
        BY <2>2, <3>1, <4>1 DEF ToSet
      <4>3. n = l \/ <<i, last>> \in R
        <5>1. CASE n < l
          BY <1>3, <2>1, <3>1, <5>1
        <5> QED
          BY <2>1, <3>2, <5>1
      <4> QED
        BY <2>3, <2>7, <3>1, <4>2, <4>3
    <3>3. CASE n > l
      <4>1. <<last, i>> \in R
        BY <1>3, <2>1, <3>1, <3>3
      <4>2. ASSUME i \in ToSet(items)
            PROVE  FALSE
        <5>1. PICK m \in 1 .. l : all[m] = i
          BY <2>2, <4>2 DEF ToSet
        <5>2. m \in 1 .. Len(all) /\ m < n
          BY <2>1, <3>1, <3>3
        <5>3. <<i, i>> \in R
          BY <1>3, <3>1, <5>1, <5>2
        <5> QED
          BY <2>7, <5>3
      <4> QED
        BY <4>1, <4>2
    <3> QED
      BY <2>1, <3>1, <3>2, <3>3
  <2>9. ASSUME NEW m \in 1 .. Len(items), NEW n \in 1 .. Len(items), m < n
        PROVE  <<items[m], items[n]>> \in R
    <3>1. m \in 1 .. Len(all) /\ n \in 1 .. Len(all)
      BY <2>1, <2>2
    <3>2. <<all[m], all[n]>> \in R
      BY <1>3, <2>9, <3>1
    <3> QED
      BY <2>2, <3>2
  <2>10. \A i \in left : i \in ToSet(items) <=> ~Ordered(keys, RowPlace(q, last), RowPlace(q, i))
    BY <2>3, <2>6, <2>8
  <2> HIDE DEF more, last
  <2> QED
    BY <1>4, <1>8, <2>2, <2>3, <2>4, <2>5, <2>9, <2>10 DEF left, R, answer, keys
<1> QED
  BY <1>7, <1>8

-----------------------------------------------------------------------------
(* Query: the inductive invariant of a scan                                *)

ScanOf(q) == scan # Idle /\ scan.request = q

\* A scan is of the reader whose request is under way.
ScanOfReader ==
    /\ scan = Idle <=> reading = NotAsked
    /\ \A q \in QueryRequests : ScanOf(q) => reading.reader = q.reader

\* What nobody wrote is still what the client asked for.
StableMatch ==
    \A q \in QueryRequests : ScanOf(q) => scan.stable \subseteq Matches(q)

\* The cursor, as long as it is exact, parts the stable rows that were returned
\* from those to come.
CursorDivides ==
    \A q \in QueryRequests : ScanOf(q) =>
        /\ scan.cursor # <<>> => scan.cursor \in Place(SortKeys(q))
        /\ scan.cursor = <<>> /\ reading.state # "done" => scan.returned = {}
        /\ scan.exact /\ reading.state = "done" => scan.stable \subseteq scan.returned
        /\ scan.exact /\ reading.state # "done" =>
             \A i \in scan.stable :
                i \in scan.returned
                  <=> scan.cursor # <<>> /\ ~Ordered(SortKeys(q), scan.cursor, RowPlace(q, i))

ReturnedInOrder ==
    \A q \in QueryRequests : ScanOf(q) =>
        /\ scan.before \subseteq scan.returned \X scan.returned
        /\ scan.exact =>
             \A i, j \in scan.stable :
                <<i, j>> \in scan.before => Ordered(SortKeys(q), RowPlace(q, i), RowPlace(q, j))

\* The time and the id of a record are the same in the statement and the cursor.
ByTime(keys) == \A n \in DOMAIN keys : keys[n].column \in {"occurred_at", "id"}
ExactByTime ==
    \A q \in QueryRequests : ScanOf(q) /\ ByTime(SortKeys(q)) => scan.exact

ScanIInv == ScanOfReader /\ StableMatch /\ CursorDivides /\ ReturnedInOrder /\ ExactByTime

\* A record that was not written is found as before, in the same place.
LEMMA SameRow ==
    ASSUME plan' = plan, NEW i, rows'[i] = rows[i], NEW q
    PROVE  /\ RowPlace(q, i)' = RowPlace(q, i)
           /\ i \in Matches(q)' <=> i \in Matches(q)
<1>1. \A k : ResolveColumn(k, rows[i])' = ResolveColumn(k, rows[i])
  BY DEF ResolveColumn, Read
<1>2. \A k : SortValue(k, i)' = SortValue(k, i)
  BY <1>1 DEF SortValue
<1>3. RowPlace(q, i)' = RowPlace(q, i)
  BY <1>2 DEF RowPlace, SortValues
<1>4. AllFilters(q.filters, i)' <=> AllFilters(q.filters, i)
  BY <1>1 DEF AllFilters
<1>5. Search(q.search, i)' <=> Search(q.search, i)
  BY DEF Search
<1>6. i \in BaseConditions' <=> i \in BaseConditions
  BY DEF BaseConditions, Stored
<1> QED
  BY <1>3, <1>4, <1>5, <1>6 DEF Matches

\* Whoever is let in sees every row of the company.
LEMMA SameMatch ==
    ASSUME NEW q, q.reader \notin Strangers
    PROVE  Matches(q) = Matching(q)
BY DEF Matches, Matching, Visible, TenantIsolation

LEMMA ScanIsNotIdle ==
    ASSUME NEW s \in Scan
    PROVE  s # Idle
<1>1. "request" \in DOMAIN s
  BY DEF Scan
<1>2. "request" \notin DOMAIN Idle
  BY DEF Idle
<1> QED
  BY <1>1, <1>2

\* A step that returns nothing: what is still stable was not written.
LEMMA OtherStep ==
    ASSUME QueryTypeOK, scan \in Scan, scan' \in Scan, ScanIInv, plan' = plan,
           reading # NotAsked, reading' # NotAsked,
           reading'.reader = reading.reader,
           reading'.state = "done" <=> reading.state = "done",
           scan'.request = scan.request, scan'.cursor = scan.cursor,
           scan'.returned = scan.returned, scan'.before = scan.before,
           scan'.exact = scan.exact, scan'.stable \subseteq scan.stable,
           \A i \in scan'.stable : rows'[i] = rows[i]
    PROVE  ScanIInv'
<1>1. scan # Idle /\ scan' # Idle
  BY ScanIsNotIdle
<1>2. \A q \in QueryRequests : ScanOf(q)' <=> ScanOf(q)
  BY <1>1 DEF ScanOf, Idle
<1>3. ScanOfReader'
  BY <1>1, <1>2 DEF ScanIInv, ScanOfReader, Idle, NotAsked
<1>4. ASSUME NEW q \in QueryRequests, NEW i \in scan'.stable
      PROVE  /\ RowPlace(q, i)' = RowPlace(q, i)
             /\ i \in Matches(q)' <=> i \in Matches(q)
  BY SameRow
<1>5. StableMatch'
  BY <1>2, <1>4 DEF ScanIInv, StableMatch
<1>6. CursorDivides'
  BY <1>2, <1>4 DEF ScanIInv, CursorDivides, Ordered, Place
<1>7. ReturnedInOrder'
  BY <1>2, <1>4 DEF ScanIInv, ReturnedInOrder, Ordered
<1>8. ExactByTime'
  BY <1>2 DEF ScanIInv, ExactByTime, ByTime
<1> QED
  BY <1>3, <1>5, <1>6, <1>7, <1>8 DEF ScanIInv

LEMMA StartScanStep ==
    ASSUME QueryTypeOK, ScanIInv, StartScan
    PROVE  ScanIInv'
<1>1. PICK q \in QueryRequests :
        /\ FirstRequest(q.reader)
        /\ scan' = [request |-> q, cursor |-> <<>>, exact |-> TRUE,
                    returned |-> {}, before |-> {}, stable |-> Matches(q)]
        /\ UNCHANGED <<rows, plan, writes>>
  BY DEF StartScan
<1>2. /\ scan' # Idle /\ scan'.request = q /\ scan'.cursor = <<>> /\ scan'.returned = {}
      /\ scan'.exact = TRUE /\ scan'.before = {} /\ scan'.stable = Matches(q)
  BY <1>1 DEF Idle
<1>3. reading'.reader = q.reader /\ reading'.state = "asking" /\ reading' # NotAsked
  BY <1>1 DEF FirstRequest, NotAsked
<1>4. \A p \in QueryRequests : ScanOf(p)' <=> p = q
  BY <1>2 DEF ScanOf, Idle
<1>5. ScanOfReader'
  BY <1>2, <1>3, <1>4 DEF ScanOfReader, Idle, NotAsked
<1>6. \A i : i \in Matches(q)' <=> i \in Matches(q)
  BY <1>1, SameRow
<1>7. StableMatch'
  BY <1>2, <1>4, <1>6 DEF StableMatch
<1>8. CursorDivides'
  BY <1>2, <1>3, <1>4 DEF CursorDivides
<1>9. ReturnedInOrder'
  BY <1>2, <1>4 DEF ReturnedInOrder
<1>10. ExactByTime'
  BY <1>2, <1>4 DEF ExactByTime
<1> QED
  BY <1>5, <1>7, <1>8, <1>9, <1>10 DEF ScanIInv

\* A page continues the scan where the cursor left it.
LEMMA AnswerStep ==
    ASSUME QueryTypeOK, ScanIInv, Answer, scan \in Scan,
           NEW q \in QueryRequests, scan.request = q, q.reader \notin Strangers
    PROVE  ScanIInv'
<1> DEFINE c == scan.cursor
           keys == SortKeys(q)
           left == Left(q, c)
           answer == QueryRecords(q, c)
           old == scan.returned
           new == ToSet(answer.items)
           last == Last(answer.items)
           exactly == scan.exact /\ (answer.more => answer.cursor = RowPlace(q, last))
<1>1. /\ reading.state = "granted" /\ Reply(answer.more)
      /\ scan' = [scan EXCEPT !.before = @ \union InOrder(answer.items) \union (old \X new),
                             !.returned = @ \union new, !.cursor = answer.cursor,
                             !.exact = exactly]
      /\ UNCHANGED <<rows, plan, writes>>
  BY DEF Answer, RowPlace
<1>2. /\ answer.items \in Seq(left) /\ answer.more \in BOOLEAN
      /\ \A m, n \in 1 .. Len(answer.items) :
           m < n => <<answer.items[m], answer.items[n]>> \in Listed(q, left)
      /\ ~answer.more => new = left /\ answer.cursor = <<>>
      /\ answer.more =>
           /\ answer.cursor \in Place(keys) /\ last \in left
           /\ answer.cursor = EncodeCursor(keys, last)
           /\ \A i \in left : i \in new <=> ~Ordered(keys, RowPlace(q, last), RowPlace(q, i))
  BY PageFacts
<1>3. Len(keys) \in Nat \ {0} /\ DOMAIN keys = 1 .. Len(keys)
  BY KeyFacts DEF QueryTypeOK
<1>4. /\ \A v \in Place(keys) : ~Ordered(keys, v, v) /\ v # <<>>
      /\ \A v, w, x \in Place(keys) :
           Ordered(keys, v, w) /\ Ordered(keys, w, x) => Ordered(keys, v, x)
      /\ \A v, w \in Place(keys) : v # w => Ordered(keys, v, w) \/ Ordered(keys, w, v)
  <2> HIDE DEF keys
  <2>1. \A v \in Place(keys) : v # <<>>
    BY <1>3 DEF Place
  <2> QED
    BY <1>3, <2>1, OrderedIsStrictOrder
<1>5. \A i \in Stored : RowPlace(q, i) \in Place(keys)
  BY PlaceFacts DEF RowPlace
<1>6. scan # Idle /\ ScanOf(q) /\ reading # NotAsked
  <2>1. scan # Idle
    BY ScanIsNotIdle
  <2>2. ScanOf(q)
    BY <1>1, <2>1 DEF ScanOf
  <2>3. reading # NotAsked
    BY <1>1 DEF NotAsked, Reply
  <2> QED
    BY <2>1, <2>2, <2>3
<1>7. /\ scan.stable \subseteq Stored /\ scan.stable \subseteq Matching(q)
      /\ reading.reader = q.reader
  BY <1>6, SameMatch DEF ScanIInv, ScanOfReader, StableMatch, Matches, BaseConditions
<1>8. /\ c # <<>> => c \in Place(keys)
      /\ c = <<>> => old = {}
      /\ scan.exact => \A i \in scan.stable :
           i \in old <=> c # <<>> /\ ~Ordered(keys, c, RowPlace(q, i))
      /\ scan.before \subseteq old \X old
      /\ scan.exact => \A i, j \in scan.stable :
           <<i, j>> \in scan.before => Ordered(keys, RowPlace(q, i), RowPlace(q, j))
  BY <1>1, <1>6 DEF ScanIInv, CursorDivides, ReturnedInOrder
<1>9. /\ scan.exact => \A i \in scan.stable : i \in left <=> i \notin old
      /\ \A i \in left : c # <<>> => Ordered(keys, c, RowPlace(q, i))
      /\ left \subseteq Stored
  <2>1. left \subseteq Stored
    BY DEF Left, Matching, BaseConditions
  <2> QED
    BY <1>7, <1>8, <2>1 DEF Left
<1>10. new \subseteq left
  BY <1>2 DEF ToSet
<1>11. /\ scan'.request = q /\ scan'.cursor = answer.cursor /\ scan'.returned = old \union new
       /\ scan'.before = scan.before \union InOrder(answer.items) \union (old \X new)
       /\ scan'.stable = scan.stable /\ scan' # Idle /\ scan'.exact = exactly
  <2> HIDE DEF exactly
  <2> QED
    BY <1>1 DEF Scan, Idle
<1>12. /\ reading'.state = IF answer.more THEN "answered" ELSE "done"
       /\ reading'.reader = reading.reader /\ reading' # NotAsked
  <2>1. reading' = [reading EXCEPT !.state = IF answer.more THEN "answered" ELSE "done"]
    BY <1>1 DEF Reply
  <2> QED
    BY <2>1 DEF NotAsked
<1>13. \A p \in QueryRequests : ScanOf(p)' <=> p = q
  BY <1>11 DEF ScanOf, Idle
<1>14. ScanOfReader'
  BY <1>7, <1>11, <1>12, <1>13 DEF ScanOfReader, Idle
<1>15. ASSUME NEW i
       PROVE  /\ RowPlace(q, i)' = RowPlace(q, i)
              /\ i \in Matches(q)' <=> i \in Matches(q)
  BY <1>1, SameRow
<1>16. StableMatch'
  BY <1>6, <1>11, <1>13, <1>15 DEF ScanIInv, StableMatch
<1>17. ExactByTime'
  <2>1. SUFFICES ASSUME ByTime(keys) PROVE exactly
    BY <1>11, <1>13 DEF ExactByTime, ByTime
  <2>2. scan.exact
    BY <1>6, <2>1 DEF ScanIInv, ExactByTime
  <2>3. \A i : EncodeCursor(keys, i) = RowPlace(q, i)
    <3>1. {"id", "occurred_at", "status"} \intersect DOMAIN plan.by_key = {}
      BY QueryAssumption DEF QueryAssumption, QueryTypeOK
    <3>2. \A i : \A k \in {"occurred_at", "id"} : RowValue(k, i) = SortValue(k, i)
      BY <3>1 DEF RowValue, SortValue
    <3>3. \A i : \A n \in DOMAIN keys : RowValue(keys[n].column, i) = SortValue(keys[n].column, i)
      <4> HIDE DEF keys
      <4> QED
        BY <2>1, <3>2 DEF ByTime
    <3> QED
      BY <3>3 DEF EncodeCursor, RowPlace, SortValues
  <2> QED
    BY <1>2, <2>2, <2>3
<1>18. exactly => scan.exact /\ (answer.more => answer.cursor = RowPlace(q, last))
  OBVIOUS
<1> HIDE DEF keys, left, answer, new, old, c, last, exactly
<1>19. ASSUME NEW i
       PROVE  Ordered(SortKeys(q), scan.cursor, RowPlace(q, i))'
                <=> Ordered(SortKeys(q), answer.cursor, RowPlace(q, i))
  <2>1. Ordered(SortKeys(q), scan.cursor, RowPlace(q, i))'
          <=> Ordered(SortKeys(q), scan'.cursor, RowPlace(q, i)')
    BY DEF Ordered
  <2>2. RowPlace(q, i)' = RowPlace(q, i)
    BY <1>15
  <2> QED
    BY <1>11, <2>1, <2>2
<1>20. ASSUME NEW i, NEW j
       PROVE  Ordered(SortKeys(q), RowPlace(q, i), RowPlace(q, j))'
                <=> Ordered(SortKeys(q), RowPlace(q, i), RowPlace(q, j))
  <2>1. Ordered(SortKeys(q), RowPlace(q, i), RowPlace(q, j))'
          <=> Ordered(SortKeys(q), RowPlace(q, i)', RowPlace(q, j)')
    BY DEF Ordered
  <2>2. RowPlace(q, i)' = RowPlace(q, i) /\ RowPlace(q, j)' = RowPlace(q, j)
    BY <1>15
  <2> QED
    BY <2>1, <2>2
<1>21. CursorDivides'
  <2> SUFFICES
        /\ answer.cursor # <<>> => answer.cursor \in Place(keys)
        /\ answer.cursor = <<>> => ~answer.more
        /\ exactly /\ ~answer.more => scan.stable \subseteq old \union new
        /\ exactly /\ answer.more =>
             \A i \in scan.stable :
                i \in old \union new
                  <=> answer.cursor # <<>> /\ ~Ordered(keys, answer.cursor, RowPlace(q, i))
    BY <1>11, <1>12, <1>13, <1>19 DEF CursorDivides, keys, Place
  <2>1. exactly /\ ~answer.more => scan.stable \subseteq old \union new
    BY <1>2, <1>9, <1>18
  <2>2. ASSUME answer.more
        PROVE  answer.cursor \in Place(keys) /\ answer.cursor # <<>>
    BY <1>2, <1>4, <2>2
  <2>3. ASSUME exactly, answer.more, NEW i \in scan.stable
        PROVE  i \in old \union new <=> ~Ordered(keys, answer.cursor, RowPlace(q, i))
    <3>1. scan.exact /\ answer.cursor = RowPlace(q, last) /\ last \in left
      BY <1>2, <1>18, <2>3
    <3>2. CASE i \in left
      BY <1>2, <1>9, <2>3, <3>1, <3>2
    <3>3. CASE i \notin left
      <4>1. i \in old /\ c # <<>> /\ ~Ordered(keys, c, RowPlace(q, i))
        BY <1>8, <1>9, <3>1, <3>3
      <4>2. Ordered(keys, c, answer.cursor) /\ c \in Place(keys)
        BY <1>8, <1>9, <3>1, <4>1
      <4>3. RowPlace(q, i) \in Place(keys) /\ answer.cursor \in Place(keys)
        BY <1>5, <1>7, <2>2, <2>3
      <4> QED
        BY <1>4, <4>1, <4>2, <4>3
    <3> QED
      BY <3>2, <3>3
  <2> QED
    BY <1>2, <2>1, <2>2, <2>3
<1>22. ASSUME NEW p \in InOrder(answer.items)
       PROVE  p \in new \X new /\ Ordered(keys, RowPlace(q, p[1]), RowPlace(q, p[2]))
  <2>1. PICK n \in DOMAIN answer.items : \E m \in 1 .. n - 1 : p = <<answer.items[m], answer.items[n]>>
    BY DEF InOrder
  <2>2. PICK m \in 1 .. n - 1 : p = <<answer.items[m], answer.items[n]>>
    BY <2>1
  <2>3. m \in 1 .. Len(answer.items) /\ n \in 1 .. Len(answer.items) /\ m < n
    BY <1>2, <2>1, <2>2
  <2>4. p \in Listed(q, left)
    BY <1>2, <2>2, <2>3
  <2>5. p \in new \X new
    BY <1>2, <2>2, <2>3 DEF new, ToSet
  <2> QED
    BY <2>4, <2>5 DEF Listed, keys
<1>23. ASSUME scan.exact, NEW i \in scan.stable, NEW j \in scan.stable, i \in old, j \in new
       PROVE  Ordered(keys, RowPlace(q, i), RowPlace(q, j))
  <2>1. c \in Place(keys) /\ ~Ordered(keys, c, RowPlace(q, i))
    BY <1>8, <1>23
  <2>2. Ordered(keys, c, RowPlace(q, j))
    BY <1>8, <1>9, <1>10, <1>23
  <2>3. RowPlace(q, i) \in Place(keys) /\ RowPlace(q, j) \in Place(keys)
    BY <1>5, <1>7
  <2> QED
    BY <1>4, <2>1, <2>2, <2>3
<1>24. ReturnedInOrder'
  <2>1. scan'.before \subseteq scan'.returned \X scan'.returned
    BY <1>8, <1>11, <1>22
  <2>2. ASSUME exactly, NEW i \in scan.stable, NEW j \in scan.stable, <<i, j>> \in scan'.before
        PROVE  Ordered(keys, RowPlace(q, i), RowPlace(q, j))
    <3>0. scan.exact
      BY <1>18, <2>2
    <3>1. CASE <<i, j>> \in scan.before
      BY <1>8, <3>0, <3>1
    <3>2. CASE <<i, j>> \in InOrder(answer.items)
      BY <1>22, <3>2
    <3>3. CASE i \in old /\ j \in new
      BY <1>23, <3>0, <3>3
    <3> QED
      BY <1>11, <2>2, <3>1, <3>2, <3>3
  <2> QED
    BY <1>11, <1>13, <1>20, <2>1, <2>2 DEF ReturnedInOrder, keys
<1> QED
  BY <1>14, <1>16, <1>17, <1>21, <1>24 DEF ScanIInv

-----------------------------------------------------------------------------
(* Query: every step                                                       *)

\* A request of a scan is a request for the page.
LEMMA QueryTakesAccessStep ==
    ASSUME [QueryNext]_queryVars
    PROVE  [AccessNext]_accessVars
<1>1. CASE StartScan
  <2>1. PICK q \in QueryRequests : FirstRequest(q.reader)
    BY <1>1 DEF StartScan
  <2>2. q.reader \in Users
    BY QueryAssumption DEF QueryAssumption
  <2> QED
    BY <2>1, <2>2 DEF AccessNext
<1>2. CASE NextPage \/ Admit
  BY <1>2 DEF NextPage, Admit, AccessNext
<1>3. CASE Answer
  <2>1. PICK q, c : Reply(QueryRecords(q, c).more)
    BY <1>3 DEF Answer
  <2>2. QueryRecords(q, c).more \in BOOLEAN
    BY DEF QueryRecords
  <2> QED
    BY <2>1, <2>2 DEF AccessNext
<1>4. CASE ChangeAccess
  <2>1. reading.reader \in Users
    BY <1>4 DEF ChangeAccess, Users
  <2> QED
    BY <1>4, <2>1 DEF ChangeAccess, AccessNext
<1>5. ASSUME NEW p \in DOMAIN puts, EndPut(p)
      PROVE  AccessNext
  BY <1>5 DEF EndPut, AccessNext
<1>6. ASSUME NEW ids, Writes(ids)
      PROVE  UNCHANGED accessVars
  BY <1>6 DEF Writes
<1>7. ASSUME NEW i, NEW new, CreateRecord(i, new) \/ UpdateRecord(i, new) \/ DeleteRecord(i)
      PROVE  UNCHANGED accessVars
  BY <1>6, <1>7 DEF CreateRecord, UpdateRecord, DeleteRecord
<1>8. ASSUME NEW i, NEW j, NEW new, ReverseRecord(i, j, new)
      PROVE  UNCHANGED accessVars
  BY <1>6, <1>8 DEF ReverseRecord
<1>9. CASE UNCHANGED queryVars
  BY <1>9 DEF queryVars
<1> QED
  BY <1>1, <1>2, <1>3, <1>4, <1>5, <1>7, <1>8, <1>9 DEF QueryNext

LEMMA InitQueryIInv ==
    ASSUME QueryInit
    PROVE  QueryTypeOK /\ ScanIInv /\ AccessIInv
<1>1. QueryTypeOK
  BY QueryAssumption DEF QueryInit, QueryTypeOK, QueryAssumption
<1>2. scan = Idle /\ reading = NotAsked
  BY DEF QueryInit, AccessInit
<1>3. ScanIInv
  BY <1>2 DEF ScanIInv, ScanOfReader, StableMatch, CursorDivides, ReturnedInOrder, ExactByTime,
     ScanOf
<1> QED
  BY <1>1, <1>3, AccessInitIInv DEF QueryInit

\* What a request that is under way is of.
LEMMA UnderWay ==
    ASSUME QueryTypeOK, ScanIInv, AccessIInv, reading # NotAsked
    PROVE  /\ scan \in Scan /\ reading \in Request
           /\ scan.request \in QueryRequests /\ reading.reader = scan.request.reader
           /\ reading.state = "granted" => reading.reader \notin Strangers
<1>1. scan # Idle /\ scan \in Scan /\ reading \in Request
  BY DEF QueryTypeOK, ScanIInv, ScanOfReader, AccessIInv, AccessTypeOK
<1>2. PICK q \in QueryRequests : q = scan.request
  BY <1>1 DEF Scan
<1>3. reading.reader = q.reader
  BY <1>1, <1>2 DEF ScanIInv, ScanOfReader, ScanOf
<1> QED
  BY <1>1, <1>2, <1>3 DEF AccessIInv, AdmittedOnGrant

\* A write of others, of the records ids.
LEMMA WriteStep ==
    ASSUME QueryTypeOK, ScanIInv, AccessIInv, NEW ids, Writes(ids),
           rows' \in [Ids -> Record \union {Absent}],
           \A i \in Ids \ ids : rows'[i] = rows[i]
    PROVE  QueryTypeOK' /\ ScanIInv'
<1>1. /\ writes < MaxWrites /\ writes' = writes + 1
      /\ reading.state = "asking"
      /\ scan' = [scan EXCEPT !.stable = @ \ ids]
      /\ plan' = plan /\ reading' = reading
  BY DEF Writes, accessVars
<1>2. reading # NotAsked
  BY <1>1 DEF NotAsked
<1>3. scan \in Scan
  BY <1>2, UnderWay
<1>4. /\ scan'.request = scan.request /\ scan'.cursor = scan.cursor
      /\ scan'.returned = scan.returned /\ scan'.before = scan.before
      /\ scan'.exact = scan.exact /\ scan'.stable = scan.stable \ ids /\ scan' \in Scan
  BY <1>1, <1>3 DEF Scan
<1>5. QueryTypeOK'
  BY <1>1, <1>4, QueryAssumption DEF QueryTypeOK, QueryAssumption
<1>6. scan.stable \subseteq Ids
  BY <1>3 DEF Scan
<1> QED
  BY <1>1, <1>2, <1>3, <1>4, <1>5, <1>6, OtherStep

\* A step of the reader, or of an owner who changes what it may do.
LEMMA AccessStep ==
    ASSUME QueryTypeOK, ScanIInv, AccessIInv, UNCHANGED <<rows, plan, scan>>,
           writes' \in 0 .. MaxWrites, reading # NotAsked, reading' # NotAsked,
           reading'.reader = reading.reader,
           reading'.state = "done" <=> reading.state = "done"
    PROVE  QueryTypeOK' /\ ScanIInv'
<1>1. scan \in Scan
  BY UnderWay
<1>2. QueryTypeOK'
  BY DEF QueryTypeOK
<1> QED
  BY <1>1, <1>2, OtherStep

\* What others write is a record.
LEMMA WrittenRecords ==
    ASSUME QueryTypeOK, NEW i \in Ids, NEW new \in NewRows
    PROVE  /\ new \in Record
           /\ i \in BaseConditions =>
                /\ [rows[i] EXCEPT !.cells = new.cells, !.slots = new.slots] \in Record
                /\ [rows[i] EXCEPT !.deleted = TRUE] \in Record
                /\ [rows[i] EXCEPT !.status = "REVERSED"] \in Record
<1>1. new \in Record /\ new.cells \in Cells /\ new.slots \in Slots
  BY QueryAssumption DEF QueryAssumption, Record
<1>2. i \in BaseConditions => rows[i] \in Record
  BY DEF QueryTypeOK, BaseConditions, Stored
<1> QED
  BY <1>1, <1>2 DEF Record

LEMMA AnswerTypes ==
    ASSUME QueryTypeOK, Answer, scan \in Scan, NEW q \in QueryRequests, scan.request = q
    PROVE  QueryTypeOK'
<1> DEFINE c == scan.cursor
           answer == QueryRecords(q, c)
           new == ToSet(answer.items)
           Parts == Int \union {Null}
           exactly == scan.exact /\ (answer.more => answer.cursor = RowPlace(q, Last(answer.items)))
<1>1. /\ scan' = [scan EXCEPT
                !.before = @ \union InOrder(answer.items) \union (scan.returned \X new),
                !.returned = @ \union new, !.cursor = answer.cursor, !.exact = exactly]
      /\ UNCHANGED <<rows, plan, writes>>
  BY DEF Answer, RowPlace
<1>2. /\ answer.items \in Seq(Left(q, c)) /\ answer.more \in BOOLEAN
      /\ ~answer.more => answer.cursor = <<>>
      /\ answer.more => answer.cursor \in Place(SortKeys(q))
  BY PageFacts
<1>3. Len(SortKeys(q)) \in Nat /\ DOMAIN SortKeys(q) = 1 .. Len(SortKeys(q))
  BY KeyFacts DEF QueryTypeOK
<1>4. Left(q, c) \subseteq Ids
  BY DEF Left, Matching, BaseConditions, Stored
<1>5. scan.request \in QueryRequests /\ scan.returned \in SUBSET Ids
      /\ scan.before \in SUBSET (Ids \X Ids) /\ scan.stable \in SUBSET Ids
      /\ exactly \in BOOLEAN
  BY DEF Scan
<1> HIDE DEF answer, c, exactly
<1>6. answer.cursor \in Seq(Parts)
  <2>1. CASE ~answer.more
    <3>1. answer.cursor = <<>>
      BY <1>2, <2>1
    <3> HIDE DEF Parts
    <3> QED
      BY <3>1
  <2>2. CASE answer.more
    <3>1. answer.cursor \in [1 .. Len(SortKeys(q)) -> Parts]
      BY <1>2, <1>3, <2>2 DEF Place
    <3>2. answer.cursor \in UNION {[1 .. n -> Parts] : n \in Nat}
      <4> HIDE DEF Parts
      <4> QED
        BY <1>3, <3>1
    <3> QED
      BY <3>2, SeqDef, Zenon
  <2> QED
    BY <1>2, <2>1, <2>2
<1>7. \A n \in DOMAIN answer.items : n \in 1 .. Len(answer.items) /\ answer.items[n] \in Ids
  BY <1>2, <1>4
<1>8. new \in SUBSET Ids
  BY <1>7 DEF ToSet
<1>9. InOrder(answer.items) \in SUBSET (Ids \X Ids)
  <2>1. ASSUME NEW n \in DOMAIN answer.items, NEW m \in 1 .. n - 1
        PROVE  m \in DOMAIN answer.items
    BY <1>2, <1>7
  <2> QED
    BY <1>7, <2>1 DEF InOrder
<1> HIDE DEF new, Parts
<1>10. scan' \in Scan
  BY <1>1, <1>5, <1>6, <1>8, <1>9 DEF Scan, Parts
<1> QED
  BY <1>1, <1>10 DEF QueryTypeOK

LEMMA QueryNextIInv ==
    ASSUME QueryTypeOK, ScanIInv, AccessIInv, [QueryNext]_queryVars
    PROVE  QueryTypeOK' /\ ScanIInv' /\ AccessIInv'
<1>1. AccessIInv'
  BY QueryTakesAccessStep, AccessNextIInv
<1>2. CASE StartScan
  <2>1. ScanIInv'
    BY <1>2, StartScanStep
  <2>2. QueryTypeOK'
    <3>1. PICK q \in QueryRequests :
            /\ scan' = [request |-> q, cursor |-> <<>>, exact |-> TRUE,
                        returned |-> {}, before |-> {}, stable |-> Matches(q)]
            /\ UNCHANGED <<rows, plan, writes>>
      BY <1>2 DEF StartScan
    <3>2. Matches(q) \in SUBSET Ids
      BY DEF Matches, BaseConditions, Stored
    <3>3. scan' \in Scan
      BY <3>1, <3>2 DEF Scan
    <3> QED
      BY <3>1, <3>3 DEF QueryTypeOK
  <2> QED
    BY <1>1, <2>1, <2>2
<1>3. CASE NextPage \/ Admit
  <2>1. /\ UNCHANGED <<rows, plan, scan, writes>>
        /\ NextRequest \/ Authenticate \/ CheckAccess
    BY <1>3 DEF NextPage, Admit
  <2>2. reading # NotAsked
    BY <2>1 DEF NextRequest, Authenticate, CheckAccess, NotAsked
  <2>3. reading \in Request
    BY <2>2, UnderWay
  <2>4. /\ reading' # NotAsked /\ reading'.reader = reading.reader
        /\ reading'.state # "done" /\ reading.state # "done"
    BY <2>1, <2>3 DEF NextRequest, Authenticate, CheckAccess, Deny, Request, NotAsked
  <2>5. writes' \in 0 .. MaxWrites
    BY <2>1 DEF QueryTypeOK
  <2> QED
    BY <1>1, <2>1, <2>2, <2>4, <2>5, AccessStep
<1>4. CASE Answer
  <2>1. reading.state = "granted" /\ reading # NotAsked
    BY <1>4 DEF Answer, NotAsked
  <2>2. /\ scan \in Scan /\ scan.request \in QueryRequests
        /\ reading.reader = scan.request.reader /\ reading.reader \notin Strangers
    BY <2>1, UnderWay
  <2>3. PICK q \in QueryRequests : scan.request = q
    BY <2>2
  <2> QED
    BY <1>1, <1>4, <2>2, <2>3, AnswerStep, AnswerTypes
<1>5. CASE ChangeAccess
  <2>1. /\ reading.state # "idle" /\ reading' = reading
        /\ writes < MaxWrites /\ writes' = writes + 1 /\ UNCHANGED <<rows, plan, scan>>
    BY <1>5 DEF ChangeAccess, Asking, ChangeUser, BeginPut
  <2>2. reading # NotAsked
    BY <2>1 DEF NotAsked
  <2>3. writes' \in 0 .. MaxWrites
    BY <2>1, QueryAssumption DEF QueryTypeOK, QueryAssumption
  <2> QED
    BY <1>1, <2>1, <2>2, <2>3, AccessStep
<1>6. ASSUME NEW p \in DOMAIN puts, EndPut(p)
      PROVE  QueryTypeOK' /\ ScanIInv'
  <2>1. /\ reading.state # "idle" /\ reading' = reading
        /\ UNCHANGED <<rows, plan, scan, writes>>
    BY <1>6 DEF EndPut, Asking, CommitPut, FailPut
  <2>2. reading # NotAsked
    BY <2>1 DEF NotAsked
  <2>3. writes' \in 0 .. MaxWrites
    BY <2>1 DEF QueryTypeOK
  <2> QED
    BY <2>1, <2>2, <2>3, AccessStep
<1>7. ASSUME NEW i \in Ids, NEW new \in NewRows, CreateRecord(i, new) \/ UpdateRecord(i, new)
      PROVE  QueryTypeOK' /\ ScanIInv'
  <2>1. \/ rows' = [rows EXCEPT ![i] = new]
        \/ /\ i \in BaseConditions
           /\ rows' = [rows EXCEPT ![i] = [rows[i] EXCEPT !.cells = new.cells, !.slots = new.slots]]
    BY <1>7 DEF CreateRecord, UpdateRecord
  <2>2. PICK r \in Record : rows' = [rows EXCEPT ![i] = r]
    BY <2>1, WrittenRecords
  <2>3. /\ rows' \in [Ids -> Record \union {Absent}]
        /\ \A n \in Ids \ {i} : rows'[n] = rows[n]
    BY <2>2 DEF QueryTypeOK
  <2>4. Writes({i})
    BY <1>7 DEF CreateRecord, UpdateRecord
  <2> QED
    BY <2>3, <2>4, WriteStep
<1>8. ASSUME NEW i \in Ids, DeleteRecord(i)
      PROVE  QueryTypeOK' /\ ScanIInv'
  <2>1. /\ i \in BaseConditions /\ rows[i] \in Record
        /\ rows' = [rows EXCEPT ![i] = [rows[i] EXCEPT !.deleted = TRUE]]
    BY <1>8 DEF DeleteRecord, BaseConditions, Stored, QueryTypeOK
  <2>2. [rows[i] EXCEPT !.deleted = TRUE] \in Record
    BY <2>1 DEF Record
  <2>3. /\ rows' \in [Ids -> Record \union {Absent}] /\ Writes({i})
        /\ \A n \in Ids \ {i} : rows'[n] = rows[n]
    BY <1>8, <2>1, <2>2 DEF DeleteRecord, QueryTypeOK
  <2> QED
    BY <2>3, WriteStep
<1>9. ASSUME NEW i \in Ids, NEW j \in Ids, NEW new \in NewRows, ReverseRecord(i, j, new)
      PROVE  QueryTypeOK' /\ ScanIInv'
  <2>1. /\ i \in BaseConditions /\ Writes({i, j})
        /\ rows' = [n \in Ids |-> IF n = i THEN [rows[i] EXCEPT !.status = "REVERSED"]
                                 ELSE IF n = j THEN new ELSE rows[n]]
    BY <1>9 DEF ReverseRecord, ActiveConditions
  <2>2. [rows[i] EXCEPT !.status = "REVERSED"] \in Record /\ new \in Record
    BY <2>1, WrittenRecords
  <2>3. /\ rows' \in [Ids -> Record \union {Absent}]
        /\ \A n \in Ids \ {i, j} : rows'[n] = rows[n]
    BY <2>1, <2>2 DEF QueryTypeOK
  <2> QED
    BY <2>1, <2>3, WriteStep
<1>10. CASE UNCHANGED queryVars
  <2>1. UNCHANGED <<rows, plan, scan, writes, reading>>
    BY <1>10 DEF queryVars, accessVars
  <2>2. CASE reading = NotAsked
    <3>1. scan = Idle
      BY <2>2 DEF ScanIInv, ScanOfReader
    <3>2. ScanIInv'
      BY <2>1, <2>2, <3>1
         DEF ScanIInv, ScanOfReader, StableMatch, CursorDivides, ReturnedInOrder, ExactByTime,
             ScanOf
    <3> QED
      BY <1>1, <2>1, <3>2 DEF QueryTypeOK
  <2>3. CASE reading # NotAsked
    <3>1. writes' \in 0 .. MaxWrites
      BY <2>1 DEF QueryTypeOK
    <3> QED
      BY <1>1, <2>1, <2>3, <3>1, AccessStep
  <2> QED
    BY <2>2, <2>3
<1> QED
  BY <1>1, <1>2, <1>3, <1>4, <1>5, <1>6, <1>7, <1>8, <1>9, <1>10 DEF QueryNext

LEMMA AlwaysScanIInv == QuerySpec => [](QueryTypeOK /\ ScanIInv /\ AccessIInv)
<1> DEFINE Inv == QueryTypeOK /\ ScanIInv /\ AccessIInv
<1>1. QueryInit => Inv
  BY InitQueryIInv
<1>2. Inv /\ [QueryNext]_queryVars => Inv'
  BY QueryNextIInv
<1> QED
  BY <1>1, <1>2, PTL DEF QuerySpec

\* Whatever is asked of the page and written meanwhile, a scan is requests for
\* the page: what is proved of them holds of it.
THEOREM ScansAskForAccess == QuerySpec => AccessSpec
<1>1. QueryInit => AccessInit
  BY DEF QueryInit
<1>2. [QueryNext]_queryVars => [AccessNext]_accessVars
  BY QueryTakesAccessStep
<1> QED
  BY <1>1, <1>2, PTL DEF QuerySpec, AccessSpec

\* Each page of a scan is answered only on a token and a grant that were good
\* when its request began.
THEOREM ScansAreAdmitted == QuerySpec => []AnsweredOnCurrentGrant
BY ScansAskForAccess, AnswersCorrect

\* The rows, the scan and its cursor keep their types.
THEOREM QueryTypeCorrect == QuerySpec => []QueryTypeOK
BY AlwaysScanIInv, PTL

\* Whatever the columns, their slots, the sort and the limit, whatever the two
\* backends compute and whatever is written between two pages, a scan returns
\* every record nobody wrote once, and in order, as long as its cursors are
\* exact, and those of an order by time are.
THEOREM ScansAreStable == QuerySpec => []StableRowsInOrder
<1>1. ASSUME QueryTypeOK, ScanIInv, AccessIInv
      PROVE  StableRowsInOrder
  <2> SUFFICES ASSUME scan # Idle
               PROVE  LET keys == SortKeys(scan.request)
                      IN  /\ ByTime(keys) => scan.exact
                          /\ scan.exact =>
                               /\ reading.state = "done" => scan.stable \subseteq scan.returned
                               /\ \A i, j \in scan.stable : <<i, j>> \in scan.before =>
                                     i # j /\ Ordered(keys, SortValues(keys, i), SortValues(keys, j))
    BY DEF StableRowsInOrder, ByTime
  <2>1. scan \in Scan
    BY <1>1 DEF QueryTypeOK
  <2>2. PICK q \in QueryRequests : scan.request = q /\ ScanOf(q)
    BY <2>1 DEF Scan, ScanOf
  <2> DEFINE keys == SortKeys(q)
  <2>3. /\ ByTime(keys) => scan.exact
        /\ scan.exact /\ reading.state = "done" => scan.stable \subseteq scan.returned
        /\ scan.exact => \A i, j \in scan.stable :
             <<i, j>> \in scan.before => Ordered(keys, RowPlace(q, i), RowPlace(q, j))
        /\ scan.stable \subseteq Stored
    BY <1>1, <2>2
       DEF ScanIInv, StableMatch, CursorDivides, ReturnedInOrder, ExactByTime, Matches, BaseConditions
  <2>4. \A i \in Stored : ~Ordered(keys, RowPlace(q, i), RowPlace(q, i))
    <3>1. Len(keys) \in Nat /\ DOMAIN keys = 1 .. Len(keys)
      BY <1>1, KeyFacts DEF QueryTypeOK
    <3>2. \A i \in Stored : RowPlace(q, i) \in Place(keys)
      BY <1>1, PlaceFacts DEF RowPlace
    <3> HIDE DEF keys
    <3> QED
      BY <3>1, <3>2, OrderedIsStrictOrder
  <2> QED
    BY <2>2, <2>3, <2>4 DEF RowPlace
<1> QED
  BY <1>1, AlwaysScanIInv, PTL

-----------------------------------------------------------------------------
(* Query: figures                                                          *)

\* What each record adds to the figures of a column.
Adds(k) == [i \in Stored |-> Value(ResolveColumn(k, rows[i]))]

Summed == Amounts \union DOMAIN plan.by_key

LEMMA SumFacts ==
    ASSUME QueryTypeOK, NEW k \in Summed
    PROVE  /\ IsFiniteSet(Stored)
           /\ \A i \in Stored : /\ Adds(k)[i] \in Int
                                /\ Adds(k)[i] = Value(ResolveColumn(k, rows[i]))
           /\ \A ids \in SUBSET Stored : SumOf(k, ids) = SumFunctionOnSet(Adds(k), ids)
<1>1. IsFiniteSet(Stored)
  BY QueryAssumption, FS_Subset DEF QueryAssumption, Stored
<1>2. ASSUME NEW i \in Stored
      PROVE  /\ Adds(k)[i] \in Int
             /\ Adds(k)[i] = Value(ResolveColumn(k, rows[i]))
  <2> DEFINE r == rows[i]
             stated == IF k \in DOMAIN plan.by_key THEN InDatabase(plan, k, Read(r.cells, r.slots))
                     ELSE Read(r.cells, r.slots)[k]
  <2>1. r.cells \in Cells /\ r.slots \in Slots /\ plan \in Plans
    BY QueryAssumption DEF QueryAssumption, QueryTypeOK, Stored, Record
  <2>2. k # "status" /\ Numeric(plan, k)
    BY <2>1, QueryAssumption DEF QueryAssumption, Summed, Plain
  <2>3. stated \in Int \union {Null}
    BY <2>1, <2>2 DEF Numeric
  <2>4. ResolveColumn(k, r) = stated
    BY <2>2 DEF ResolveColumn
  <2>5. Adds(k)[i] = Value(ResolveColumn(k, rows[i]))
    BY DEF Adds
  <2> HIDE DEF stated
  <2> QED
    BY <2>3, <2>4, <2>5 DEF Value
<1>3. ASSUME NEW ids \in SUBSET Stored
      PROVE  SumOf(k, ids) = SumFunctionOnSet(Adds(k), ids)
  <2> DEFINE w == [i \in ids |-> Value(ResolveColumn(k, rows[i]))]
  <2>1. SumOf(k, ids) = SumFunctionOnSet(w, ids)
    BY DEF SumOf, SumFunction
  <2>2. IsFiniteSet(ids) /\ \A i \in ids : Adds(k)[i] \in Int /\ w[i] = Adds(k)[i]
    BY <1>1, <1>2, FS_Subset
  <2> HIDE DEF w
  <2> QED
    BY <2>1, <2>2, SumAgrees
<1> QED
  BY <1>1, <1>2, <1>3

\* A total is the sum of its groups, in value and in number, and of the rows
\* listed under the same filters where these are shown as they are read.
LEMMA TotalsAgree ==
    ASSUME QueryTypeOK, NEW k \in Summed, NEW f \in FilterLists, NEW p \in Periods
    PROVE  LET answer == Aggregate(k, GroupBy, f, p)
               groups == answer.groups
               listed == {i \in BaseConditions :
                             rows[i].status = "ACTIVE" /\ InPeriod(p, i) /\ ShowsMatch(f, i)}
               columns == {k} \union {f[n].column : n \in DOMAIN f}
           IN  /\ answer.value = SumFunction([g \in DOMAIN groups |-> groups[g].value])
               /\ answer.count = SumFunction([g \in DOMAIN groups |-> groups[g].count])
               /\ ShownAsRead(columns, p) =>
                    /\ answer.value = SumFunction([i \in listed |-> Value(RowValue(k, i))])
                    /\ answer.count = Cardinality(listed)
<1> DEFINE answer == Aggregate(k, GroupBy, f, p)
           groups == answer.groups
           listed == {i \in BaseConditions :
                         rows[i].status = "ACTIVE" /\ InPeriod(p, i) /\ ShowsMatch(f, i)}
           columns == {k} \union {f[n].column : n \in DOMAIN f}
           ids == {i \in ActiveConditions : InPeriod(p, i) /\ AllFilters(f, i)}
           groupOf == [i \in Stored |-> ResolveColumn(GroupBy, rows[i])]
           keys == {groupOf[i] : i \in ids}
           those(g) == {i \in ids : groupOf[i] = g}
           one == [i \in Stored |-> 1]
           values == [g \in DOMAIN groups |-> groups[g].value]
           counts == [g \in DOMAIN groups |-> groups[g].count]
<1>1. ids \in SUBSET Stored /\ \A g : those(g) \in SUBSET Stored
  BY DEF ActiveConditions, BaseConditions
<1>2. /\ answer.value = SumOf(k, ids) /\ answer.count = Cardinality(ids)
      /\ groups = [g \in keys |-> [value |-> SumOf(k, those(g)), count |-> Cardinality(those(g))]]
  <2>1. \A i \in ids : groupOf[i] = ResolveColumn(GroupBy, rows[i])
    BY <1>1
  <2>2. keys = {ResolveColumn(GroupBy, rows[i]) : i \in ids}
    BY <2>1
  <2>3. \A g : those(g) = {i \in ids : ResolveColumn(GroupBy, rows[i]) = g}
    BY <2>1
  <2>4. groups = [g \in {ResolveColumn(GroupBy, rows[i]) : i \in ids} |->
                    [value |-> SumOf(k, {i \in ids : ResolveColumn(GroupBy, rows[i]) = g}),
                     count |-> Cardinality({i \in ids : ResolveColumn(GroupBy, rows[i]) = g})]]
    BY DEF Aggregate
  <2>5. answer.value = SumOf(k, ids) /\ answer.count = Cardinality(ids)
    BY DEF Aggregate
  <2> HIDE DEF ids, keys, those, groups, answer
  <2> QED
    BY <2>2, <2>3, <2>4, <2>5
<1>3. IsFiniteSet(ids) /\ \A g : IsFiniteSet(those(g))
  <2>1. IsFiniteSet(Stored)
    BY SumFacts
  <2> HIDE DEF ids, those
  <2> QED
    BY <1>1, <2>1, FS_Subset
<1>4. ids \subseteq Stored /\ \A i \in Stored : Adds(k)[i] \in Int /\ one[i] = 1
  BY <1>1, SumFacts
<1>5. DOMAIN values = keys /\ DOMAIN counts = keys
  BY <1>2
<1>6. \A g \in keys : values[g] = SumOf(k, those(g)) /\ counts[g] = Cardinality(those(g))
  <2> HIDE DEF keys, those
  <2> QED
    BY <1>2
<1> HIDE DEF answer, groups, values, counts
<1>7. ShownAsRead(columns, p) =>
        /\ answer.value = SumFunction([i \in listed |-> Value(RowValue(k, i))])
        /\ answer.count = Cardinality(listed)
  <2> SUFFICES ASSUME ShownAsRead(columns, p)
               PROVE  /\ SumOf(k, ids) = SumFunction([i \in listed |-> Value(RowValue(k, i))])
                      /\ ids = listed
    BY <1>2
  <2>1. \A i \in ActiveConditions : InPeriod(p, i) =>
           \A c \in columns : ResolveColumn(c, rows[i]) = RowValue(c, i)
    BY DEF ShownAsRead
  <2>2. \A i \in ActiveConditions : InPeriod(p, i) => (AllFilters(f, i) <=> ShowsMatch(f, i))
    BY <2>1 DEF AllFilters, ShowsMatch
  <2>3. ids = listed
    BY <2>2 DEF ActiveConditions
  <2>4. \A i \in ids : ResolveColumn(k, rows[i]) = RowValue(k, i)
    BY <2>1
  <2>5. [i \in ids |-> Value(ResolveColumn(k, rows[i]))] = [i \in listed |-> Value(RowValue(k, i))]
    <3> HIDE DEF ids, listed
    <3> QED
      BY <2>3, <2>4
  <2> QED
    BY <2>3, <2>5 DEF SumOf
<1> HIDE DEF ids, keys, listed, columns, one, those
<1>8. answer.value = SumFunction(values)
  <2>1. \A g \in keys : values[g] = SumFunctionOnSet(Adds(k), those(g))
    BY <1>1, <1>6, SumFacts
  <2>2. SumOf(k, ids) = SumFunctionOnSet(Adds(k), ids)
    BY <1>1, SumFacts
  <2>3. SumFunctionOnSet(Adds(k), ids) = SumFunction(values)
    <3> USE DEF keys, those
    <3> HIDE DEF groupOf
    <3> QED
      BY <1>3, <1>4, <1>5, <2>1, GroupsAddUp
  <2> QED
    BY <1>2, <2>2, <2>3
<1>9. answer.count = SumFunction(counts)
  <2>1. \A g \in keys : counts[g] = SumFunctionOnSet(one, those(g))
    <3>1. ASSUME NEW g \in keys
          PROVE  SumFunctionOnSet(one, those(g)) = Cardinality(those(g))
      BY <1>1, <1>3, <1>4, SumOfOnes
    <3> QED
      BY <1>6, <3>1
  <2>2. Cardinality(ids) = SumFunctionOnSet(one, ids)
    BY <1>3, <1>4, SumOfOnes
  <2>3. SumFunctionOnSet(one, ids) = SumFunction(counts)
    <3> USE DEF keys, those
    <3> HIDE DEF groupOf
    <3> QED
      BY <1>3, <1>4, <1>5, <2>1, GroupsAddUp
  <2> QED
    BY <1>2, <2>2, <2>3
<1> QED
  BY <1>7, <1>8, <1>9 DEF answer, groups, listed, columns, values, counts

\* The order of the running balance, and the rows up to one of them.
Earlier(S) ==
    {p \in S \X S : \/ rows[p[1]].at < rows[p[2]].at
                    \/ rows[p[1]].at = rows[p[2]].at /\ p[1] < p[2]}
UpTo(S, i) == {j \in S : j = i \/ <<j, i>> \in Earlier(S)}

LEMMA EarlierIsStrictOrder ==
    ASSUME QueryTypeOK, NEW S, S \subseteq Stored
    PROVE  StrictOrder(S, Earlier(S))
<1>1. \A i \in S : rows[i].at \in Int /\ i \in Int
  BY QueryAssumption DEF QueryAssumption, QueryTypeOK, Stored, Record
<1>2. \A i, j \in S : <<i, j>> \in Earlier(S)
         <=> rows[i].at < rows[j].at \/ (rows[i].at = rows[j].at /\ i < j)
  BY DEF Earlier
<1>3. \A i \in S : <<i, i>> \notin Earlier(S)
  BY <1>1, <1>2
<1>4. \A i, j, k \in S :
        <<i, j>> \in Earlier(S) /\ <<j, k>> \in Earlier(S) => <<i, k>> \in Earlier(S)
  BY <1>1, <1>2
<1>5. \A i, j \in S : i # j => <<i, j>> \in Earlier(S) \/ <<j, i>> \in Earlier(S)
  BY <1>1, <1>2
<1> QED
  BY <1>3, <1>4, <1>5 DEF StrictOrder

\* What is up to a row of a sorted list is up to the row before it, and itself.
LEMMA UpToNext ==
    ASSUME QueryTypeOK, NEW S, S \subseteq Stored
    PROVE  LET all == ByRank(S, Earlier(S))
           IN  /\ all \in Seq(S) /\ Len(all) \in Nat
               /\ \A n \in 1 .. Len(all) : all[n] \in S /\ all[n] \in UpTo(S, all[n])
               /\ \A n \in 2 .. Len(all) : UpTo(S, all[n]) \ {all[n]} = UpTo(S, all[n - 1])
               /\ Len(all) > 0 => UpTo(S, all[Len(all)]) = S
               /\ Len(all) = 0 => S = {}
<1> DEFINE R == Earlier(S)
           all == ByRank(S, R)
           N == Len(all)
<1>1. IsFiniteSet(S)
  <2>1. S \subseteq Ids
    BY DEF Stored
  <2> QED
    BY <2>1, QueryAssumption, FS_Subset DEF QueryAssumption
<1>2. /\ \A i \in S : <<i, i>> \notin R
      /\ \A i, j, k \in S : <<i, j>> \in R /\ <<j, k>> \in R => <<i, k>> \in R
      /\ StrictOrder(S, R)
  BY EarlierIsStrictOrder DEF StrictOrder
<1> HIDE DEF R
<1>3. /\ all \in Seq(S) /\ N \in Nat
      /\ \A m, n \in 1 .. N : m < n => <<all[m], all[n]>> \in R
      /\ \A i \in S : \E n \in 1 .. N : all[n] = i
  BY <1>1, <1>2, SortedByRank
<1> HIDE DEF all
<1>4. \A n \in 1 .. N : all[n] \in S
  BY <1>3
<1> HIDE DEF N
<1>5. ASSUME NEW n \in 1 .. N, NEW l \in 1 .. N
      PROVE  all[l] \in UpTo(S, all[n]) <=> l <= n
  <2>0. n \in Int /\ l \in Int /\ all[n] \in S /\ all[l] \in S
    BY <1>3, <1>4
  <2>1. CASE l < n
    BY <1>3, <2>0, <2>1 DEF UpTo, R
  <2>2. CASE l = n
    BY <2>0, <2>2 DEF UpTo
  <2>3. CASE n < l
    <3>1. <<all[n], all[l]>> \in R
      BY <1>3, <2>3
    <3>2. all[l] # all[n] /\ <<all[l], all[n]>> \notin R
      BY <1>2, <2>0, <3>1
    <3> QED
      BY <2>0, <2>3, <3>2 DEF UpTo, R
  <2> QED
    BY <2>0, <2>1, <2>2, <2>3
<1>6. \A n \in 1 .. N : \A i \in UpTo(S, all[n]) : \E l \in 1 .. N : i = all[l] /\ l <= n
  BY <1>3, <1>5 DEF UpTo
<1>7. \A n, l \in 1 .. N : all[n] = all[l] => n = l
  <2> SUFFICES ASSUME NEW n \in 1 .. N, NEW l \in 1 .. N, all[n] = all[l] PROVE n = l
    OBVIOUS
  <2>1. n \in Int /\ l \in Int /\ <<all[n], all[n]>> \notin R
    BY <1>2, <1>4
  <2>2. ~(n < l)
    BY <1>3, <2>1
  <2>3. <<all[l], all[n]>> \notin R
    BY <2>1
  <2>4. ~(l < n)
    BY <1>3, <2>3
  <2> QED
    BY <2>1, <2>2, <2>4
<1>8. ASSUME NEW n \in 2 .. N
      PROVE  UpTo(S, all[n]) \ {all[n]} = UpTo(S, all[n - 1])
  <2>1. n \in 1 .. N /\ n - 1 \in 1 .. N /\ n \in Int
    BY <1>3
  <2>2. ASSUME NEW i \in UpTo(S, all[n]), i # all[n]
        PROVE  i \in UpTo(S, all[n - 1])
    <3>1. PICK l \in 1 .. N : i = all[l] /\ l <= n
      BY <1>6, <2>1
    <3>2. l \in Int /\ l # n
      BY <2>2, <3>1
    <3>3. l <= n - 1
      BY <2>1, <3>1, <3>2
    <3> QED
      BY <1>5, <2>1, <3>1, <3>3
  <2>3. ASSUME NEW i \in UpTo(S, all[n - 1])
        PROVE  i \in UpTo(S, all[n]) /\ i # all[n]
    <3>1. PICK l \in 1 .. N : i = all[l] /\ l <= n - 1
      BY <1>6, <2>1
    <3>2. l \in Int /\ l <= n /\ l # n
      BY <2>1, <3>1
    <3> QED
      BY <1>5, <1>7, <2>1, <3>1, <3>2
  <2> QED
    BY <2>2, <2>3
<1>9. N > 0 => UpTo(S, all[N]) = S
  <2> SUFFICES ASSUME N > 0 PROVE UpTo(S, all[N]) = S
    OBVIOUS
  <2>1. N \in 1 .. N /\ \A l \in 1 .. N : l <= N
    BY <1>3
  <2>2. \A i \in S : i \in UpTo(S, all[N])
    BY <1>3, <1>5, <2>1
  <2> QED
    BY <2>2 DEF UpTo
<1>10. N = 0 => S = {}
  BY <1>3
<1>11. \A n \in 1 .. N : all[n] \in UpTo(S, all[n])
  BY <1>4 DEF UpTo
<1> QED
  BY <1>3, <1>4, <1>8, <1>9, <1>10, <1>11 DEF R, all, N

LEMMA BalanceEntries ==
    ASSUME QueryTypeOK, NEW k
    PROVE  LET S == ActiveConditions
               all == ByRank(S, Earlier(S))
               first == IF Len(all) > MaxPage THEN Len(all) - MaxPage + 1 ELSE 1
           IN  RunningBalance(k) =
                 [n \in 1 .. Len(all) - first + 1 |->
                    [id |-> all[first + n - 1],
                     amount |-> Value(ResolveColumn(k, rows[all[first + n - 1]])),
                     balance |-> SumOf(k, UpTo(S, all[first + n - 1]))]]
<1> DEFINE S == ActiveConditions
           R == Earlier(S)
           all == ByRank(S, R)
           earlier(i, j) == rows[i].at < rows[j].at \/ (rows[i].at = rows[j].at /\ i < j)
           first == IF Len(all) > MaxPage THEN Len(all) - MaxPage + 1 ELSE 1
<1>1. S \subseteq Stored
  BY DEF ActiveConditions, BaseConditions
<1>2. \A i, j \in S : <<i, j>> \in R <=> earlier(i, j)
  BY DEF Earlier
<1>3. Sorted(S, earlier) = all
  <2>1. \A i \in S : {j \in S : <<j, i>> \in R} = {j \in S : earlier(j, i)}
    BY <1>2
  <2>2. \A i \in S : Rank(S, R)[i] = Cardinality({j \in S : earlier(j, i)})
    <3> HIDE DEF S, R, earlier
    <3> QED
      BY <2>1 DEF Rank
  <2>3. Sorted(S, earlier)
          = [n \in 1 .. Cardinality(S) |->
               CHOOSE i \in S : Cardinality({j \in S : earlier(j, i)}) = n - 1]
    <3> HIDE DEF S, earlier
    <3> QED
      BY DEF Sorted
  <2>4. \A n \in 1 .. Cardinality(S) :
          (CHOOSE i \in S : Cardinality({j \in S : earlier(j, i)}) = n - 1)
            = (CHOOSE i \in S : Rank(S, R)[i] = n - 1)
    <3> HIDE DEF S, R, earlier
    <3> QED
      BY <2>2
  <2> HIDE DEF S, R, earlier
  <2> QED
    BY <2>3, <2>4 DEF ByRank
<1>4. ASSUME NEW i \in S
      PROVE  {j \in S : j = i \/ earlier(j, i)} = UpTo(S, i)
  BY <1>2 DEF UpTo
<1>5. /\ Len(all) \in Nat /\ first \in Int /\ first >= 1
      /\ \A n \in 1 .. Len(all) : all[n] \in S
  <2> HIDE DEF S
  <2>1. Len(all) \in Nat /\ \A n \in 1 .. Len(all) : all[n] \in S
    BY <1>1, UpToNext
  <2>2. MaxPage \in Nat \ {0}
    BY QueryAssumption DEF QueryAssumption
  <2> HIDE DEF all
  <2> QED
    BY <2>1, <2>2
<1>6. \A n \in 1 .. Len(all) - first + 1 : all[first + n - 1] \in S
  <2> HIDE DEF all, S, first
  <2>1. \A n \in 1 .. Len(all) - first + 1 : first + n - 1 \in 1 .. Len(all)
    BY <1>5
  <2> QED
    BY <1>5, <2>1
<1> DEFINE entry(i) == [id |-> i, amount |-> Value(ResolveColumn(k, rows[i])),
                        balance |-> SumOf(k, {j \in S : j = i \/ earlier(j, i)})]
<1>7. RunningBalance(k) = [n \in 1 .. Len(all) - first + 1 |-> entry(all[first + n - 1])]
  <2> DEFINE sorted == Sorted(S, earlier)
             start == IF Len(sorted) > MaxPage THEN Len(sorted) - MaxPage + 1 ELSE 1
  <2>1. RunningBalance(k)
          = [n \in 1 .. Len(sorted) - start + 1 |-> entry(sorted[start + n - 1])]
    BY Zenon DEF RunningBalance
  <2>2. sorted = all
    BY <1>3
  <2> HIDE DEF sorted, all, entry
  <2> QED
    BY <2>1, <2>2
<1>8. \A i \in S : entry(i) = [id |-> i, amount |-> Value(ResolveColumn(k, rows[i])),
                               balance |-> SumOf(k, UpTo(S, i))]
  <2> HIDE DEF S, earlier
  <2> QED
    BY <1>4
<1> HIDE DEF entry, all, S, first
<1> QED
  BY <1>6, <1>7, <1>8 DEF all, S, first, R

\* The balance runs by the amounts beside it, and ends at the total of all time.
LEMMA BalancesAgree ==
    ASSUME QueryTypeOK, NEW k \in Summed
    PROVE  LET balances == RunningBalance(k)
               ends == IF balances = <<>> THEN 0 ELSE Last(balances).balance
           IN  /\ ends = Aggregate(k, GroupBy, <<>>, Always).value
               /\ \A n \in 2 .. Len(balances) :
                     balances[n].balance = balances[n - 1].balance + balances[n].amount
<1> DEFINE balances == RunningBalance(k)
           S == ActiveConditions
           all == ByRank(S, Earlier(S))
           first == IF Len(all) > MaxPage THEN Len(all) - MaxPage + 1 ELSE 1
           L == Len(all) - first + 1
<1>1. S \in SUBSET Stored
  BY DEF ActiveConditions, BaseConditions
<1>2. /\ Len(all) \in Nat
      /\ \A n \in 1 .. Len(all) : all[n] \in S /\ all[n] \in UpTo(S, all[n])
      /\ \A n \in 2 .. Len(all) : UpTo(S, all[n]) \ {all[n]} = UpTo(S, all[n - 1])
      /\ Len(all) > 0 => UpTo(S, all[Len(all)]) = S
      /\ Len(all) = 0 => S = {}
  <2> HIDE DEF S
  <2> QED
    BY <1>1, UpToNext
<1>3. balances = [n \in 1 .. L |-> [id |-> all[first + n - 1],
                     amount |-> Value(ResolveColumn(k, rows[all[first + n - 1]])),
                     balance |-> SumOf(k, UpTo(S, all[first + n - 1]))]]
  BY BalanceEntries
<1> HIDE DEF balances, all
<1>4. /\ first \in Nat /\ first >= 1 /\ L \in Nat
      /\ Len(all) > 0 => L > 0 /\ first + L - 1 = Len(all)
      /\ Len(all) = 0 => L = 0
  <2>1. Len(all) \in Nat /\ MaxPage \in Nat \ {0}
    BY <1>2, QueryAssumption DEF QueryAssumption
  <2>2. CASE Len(all) > MaxPage
    <3>1. first = Len(all) - MaxPage + 1
      BY <2>2
    <3>2. L = MaxPage
      BY <2>1, <3>1
    <3> HIDE DEF first, L
    <3> QED
      BY <2>1, <2>2, <3>1, <3>2
  <2>3. CASE ~(Len(all) > MaxPage)
    <3>1. first = 1
      BY <2>3
    <3>2. L = Len(all)
      BY <2>1, <3>1
    <3> HIDE DEF first, L
    <3> QED
      BY <2>1, <3>1, <3>2
  <2> QED
    BY <2>2, <2>3
<1> HIDE DEF first, L
<1>5. /\ Len(balances) = L
      /\ \A n \in 1 .. L :
           /\ balances[n].balance = SumOf(k, UpTo(S, all[first + n - 1]))
           /\ balances[n].amount = Value(ResolveColumn(k, rows[all[first + n - 1]]))
  BY <1>3, <1>4
<1>6. Aggregate(k, GroupBy, <<>>, Always).value = SumOf(k, S)
  <2>1. \A i \in S : InPeriod(Always, i) /\ AllFilters(<<>>, i)
    BY DEF Always, InPeriod, AllFilters
  <2>2. {i \in ActiveConditions : InPeriod(Always, i) /\ AllFilters(<<>>, i)} = S
    BY <2>1
  <2> QED
    BY <2>2 DEF Aggregate
<1>7. (IF balances = <<>> THEN 0 ELSE Last(balances).balance) = SumOf(k, S)
  <2>1. CASE Len(all) = 0
    <3>1. balances = <<>>
      BY <1>3, <1>4, <2>1
    <3>2. S = {} /\ SumOf(k, S) = 0
      BY <1>1, <1>2, <2>1, SumFacts, SumOfNone
    <3> QED
      BY <3>1, <3>2
  <2>2. CASE Len(all) > 0
    <3>1. L > 0 /\ L \in 1 .. L /\ first + L - 1 = Len(all)
      BY <1>4, <2>2
    <3>2. balances[L].balance = SumOf(k, S)
      BY <1>2, <1>5, <2>2, <3>1
    <3>3. balances # <<>>
      BY <1>4, <1>5, <3>1
    <3> QED
      BY <1>5, <3>2, <3>3 DEF Last
  <2> QED
    BY <1>2, <2>1, <2>2
<1>8. ASSUME NEW n \in 2 .. L
      PROVE  balances[n].balance = balances[n - 1].balance + balances[n].amount
  <2> DEFINE m == first + n - 1
             U == UpTo(S, all[m])
  <2>1. /\ n \in 1 .. L /\ n - 1 \in 1 .. L /\ first + (n - 1) - 1 = m - 1
        /\ m \in 2 .. Len(all) /\ m \in 1 .. Len(all)
    BY <1>2, <1>4
  <2> HIDE DEF m
  <2>2. /\ U \in SUBSET Stored /\ all[m] \in U /\ U \ {all[m]} = UpTo(S, all[m - 1])
        /\ U \ {all[m]} \in SUBSET Stored
    BY <1>1, <1>2, <2>1 DEF UpTo
  <2>3. /\ balances[n].balance = SumOf(k, U)
        /\ balances[n].amount = Value(ResolveColumn(k, rows[all[m]]))
        /\ balances[n - 1].balance = SumOf(k, U \ {all[m]})
    BY <1>5, <2>1, <2>2 DEF m
  <2> HIDE DEF U
  <2>4. /\ SumOf(k, U) = SumFunctionOnSet(Adds(k), U)
        /\ SumOf(k, U \ {all[m]}) = SumFunctionOnSet(Adds(k), U \ {all[m]})
        /\ Adds(k)[all[m]] = Value(ResolveColumn(k, rows[all[m]]))
    BY <2>2, SumFacts
  <2>5. IsFiniteSet(U) /\ \A i \in U : Adds(k)[i] \in Int
    BY <2>2, SumFacts, FS_Subset
  <2>6. /\ SumFunctionOnSet(Adds(k), U) = Adds(k)[all[m]] + SumFunctionOnSet(Adds(k), U \ {all[m]})
        /\ SumFunctionOnSet(Adds(k), U \ {all[m]}) \in Int
    BY <2>2, <2>5, SumTakesOut
  <2> QED
    BY <2>2, <2>3, <2>4, <2>5, <2>6
<1> QED
  BY <1>5, <1>6, <1>7, <1>8 DEF balances

\* A value that a filter is offered is one that a row shows.
LEMMA OfferedIsShown ==
    ASSUME NEW k, k \notin DOMAIN Options, ShownAsRead({k}, Always),
           NEW limit, NEW offered \in ColumnValues(k, limit), NEW v \in offered
    PROVE  \E i \in ActiveConditions : RowValue(k, i) = v
<1>1. v \in {ResolveColumn(k, rows[i]) : i \in ActiveConditions}
  BY DEF ColumnValues
<1>2. PICK i \in ActiveConditions : v = ResolveColumn(k, rows[i])
  BY <1>1
<1>3. InPeriod(Always, i)
  BY DEF Always, InPeriod
<1> QED
  BY <1>2, <1>3 DEF ShownAsRead

\* The figures of a page agree with each other, and with its rows where these
\* are shown as they are read, whatever its columns, their slots, its formulas
\* in either backend, its records and their number.
THEOREM FiguresCorrect == QuerySpec => []FiguresAgree
<1>1. ASSUME QueryTypeOK
      PROVE  FiguresAgree
  <2>1. \A k \in Summed :
          LET balances == RunningBalance(k)
              ends == IF balances = <<>> THEN 0 ELSE Last(balances).balance
          IN  /\ \A f \in FilterLists, p \in Periods :
                    LET answer == Aggregate(k, GroupBy, f, p)
                        groups == answer.groups
                        listed == {i \in BaseConditions :
                                      rows[i].status = "ACTIVE" /\ InPeriod(p, i) /\ ShowsMatch(f, i)}
                        columns == {k} \union {f[n].column : n \in DOMAIN f}
                    IN  /\ answer.value = SumFunction([g \in DOMAIN groups |-> groups[g].value])
                        /\ answer.count = SumFunction([g \in DOMAIN groups |-> groups[g].count])
                        /\ ShownAsRead(columns, p) =>
                             /\ answer.value = SumFunction([i \in listed |-> Value(RowValue(k, i))])
                             /\ answer.count = Cardinality(listed)
              /\ ends = Aggregate(k, GroupBy, <<>>, Always).value
              /\ \A n \in 2 .. Len(balances) :
                    balances[n].balance = balances[n - 1].balance + balances[n].amount
    BY <1>1, TotalsAgree, BalancesAgree, Zenon
  <2>2. \A k \in (Plain \union DOMAIN plan.by_key) \ DOMAIN Options :
          ShownAsRead({k}, Always) =>
              \A offered \in ColumnValues(k, MaxPage) : \A v \in offered :
                  \E i \in ActiveConditions : RowValue(k, i) = v
    BY OfferedIsShown
  <2> QED
    BY <2>1, <2>2, Zenon DEF FiguresAgree, Summed
<1>2. QuerySpec => []QueryTypeOK
  BY QueryTypeCorrect
<1> QED
  BY <1>1, <1>2, PTL
=============================================================================
