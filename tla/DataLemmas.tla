---------------------------- MODULE DataLemmas ----------------------------
(***************************************************************************)
(* Facts about numbers and sums that the proofs of several components use. *)
(*                                                                         *)
(* Least and greatest elements of sets of numbers, from the well-founded   *)
(* order of the naturals.  Least is also the way to an induction: a        *)
(* property that fails somewhere fails somewhere first.                    *)
(***************************************************************************)
EXTENDS Integers, Functions, FiniteSetTheorems, WellFoundedInduction, TLAPS

(* The order of the naturals, with the set written out. *)
LEMMA LessThanIsWellFounded ==
    IsWellFoundedOn({ss \in Nat \X Nat : ss[1] < ss[2]}, Nat)
  BY NatLessThanWellFounded, Zenon DEF OpToRel

(* A set of naturals has a least element. *)
LEMMA Least ==
    ASSUME NEW T, T \subseteq Nat, T # {}
    PROVE  \E x \in T : \A y \in T : x <= y
  <1>1. PICK x \in T : \A y \in T : <<y, x>> \notin {ss \in Nat \X Nat : ss[1] < ss[2]}
    BY LessThanIsWellFounded, WFMin
  <1>2. ASSUME NEW y \in T PROVE x <= y
    <2>1. <<y, x>> \in Nat \X Nat
      OBVIOUS
    <2>2. ~(<<y, x>>[1] < <<y, x>>[2])
      BY <1>1, <2>1, Zenon
    <2>3. QED
      BY <2>2
  <1>3. QED
    BY <1>2

(* A bounded set of integers has a greatest element, which max() finds. *)
LEMMA Greatest ==
    ASSUME NEW T, T \subseteq Int, T # {}, NEW b \in Int, \A t \in T : t <= b
    PROVE  \E x \in T : \A y \in T : x >= y
  <1>. DEFINE D == {b - t : t \in T}
  <1>1. D \subseteq Nat /\ D # {}
    <2>1. \A t \in T : b - t \in Nat
      OBVIOUS
    <2>2. D \subseteq Nat
      BY <2>1
    <2>3. PICK t \in T : TRUE
      OBVIOUS
    <2>4. b - t \in D
      OBVIOUS
    <2>5. QED
      BY <2>2, <2>4
  <1>2. PICK d \in D : \A e \in D : d <= e
    BY <1>1, Least
  <1>3. PICK x \in T : d = b - x
    OBVIOUS
  <1>4. ASSUME NEW y \in T PROVE x >= y
    <2>1. b - y \in D
      OBVIOUS
    <2>2. b - x <= b - y
      BY <2>1, <1>2, <1>3
    <2>. HIDE DEF D
    <2>3. x \in Int /\ y \in Int
      OBVIOUS
    <2>4. QED
      BY <2>2, <2>3
  <1>5. QED
    BY <1>4
-----------------------------------------------------------------------------
(***************************************************************************)
(* Sums.  SumFunctionOnSet adds up f over a finite set in the order in     *)
(* which CHOOSE takes the elements; a partial sum is a function on the     *)
(* subsets of the set that follows that order.                             *)
(***************************************************************************)
Pick(s) == CHOOSE x \in s : TRUE

IsSum(g, f, D) ==
    g = [s \in SUBSET D |-> IF s = {} THEN 0 ELSE f[Pick(s)] + g[s \ {Pick(s)}]]

SubsetsUpTo(D, n) == {s \in SUBSET D : Cardinality(s) <= n}

\* A sum over the subsets of at most n elements.
IsSumUpTo(g, f, D, n) ==
    g = [s \in SubsetsUpTo(D, n) |-> IF s = {} THEN 0 ELSE f[Pick(s)] + g[s \ {Pick(s)}]]

(* A picked element belongs to its set, and what is left is smaller. *)
LEMMA PickFacts ==
    ASSUME NEW D, IsFiniteSet(D), NEW s \in SUBSET D, s # {}
    PROVE  /\ Pick(s) \in s /\ Pick(s) \in D
           /\ s \ {Pick(s)} \in SUBSET D
           /\ Cardinality(s) \in Nat /\ Cardinality(s \ {Pick(s)}) = Cardinality(s) - 1
           /\ Cardinality(s \ {Pick(s)}) \in Nat
  <1>1. Pick(s) \in s
    BY DEF Pick
  <1>2. IsFiniteSet(s)
    BY FS_Subset
  <1>3. IsFiniteSet(s \ {Pick(s)}) /\ Cardinality(s \ {Pick(s)}) = Cardinality(s) - 1
    BY <1>1, <1>2, FS_RemoveElement
  <1>4. QED
    BY <1>1, <1>2, <1>3, FS_CardinalityType

(* Sums exist up to every size: a first size without one cannot be. *)
LEMMA SumUpToExists ==
    ASSUME NEW f, NEW D, IsFiniteSet(D), NEW n \in Nat
    PROVE  \E g : IsSumUpTo(g, f, D, n)
  <1>. DEFINE Bad == {k \in Nat : ~\E g : IsSumUpTo(g, f, D, k)}
  <1>1. SUFFICES ASSUME Bad # {} PROVE FALSE
    OBVIOUS
  <1>2. PICK m \in Bad : \A k \in Bad : m <= k
    BY <1>1, Least
  <1>3. CASE m = 0
    <2>. DEFINE g == [s \in SubsetsUpTo(D, 0) |-> 0]
    <2>1. \A s \in SubsetsUpTo(D, 0) : s = {}
      <3>1. ASSUME NEW s \in SUBSET D, s # {} PROVE ~(Cardinality(s) <= 0)
        <4>. DEFINE c == Cardinality(s)
                    d == Cardinality(s \ {Pick(s)})
        <4>1. c \in Nat /\ d \in Nat /\ d = c - 1
          BY <3>1, PickFacts
        <4>. HIDE DEF c, d
        <4>2. ~(c <= 0)
          BY <4>1
        <4>3. QED
          BY <4>2 DEF c
      <3>2. \A s \in SUBSET D : s # {} => ~(Cardinality(s) <= 0)
        BY <3>1
      <3>3. QED
        BY <3>2 DEF SubsetsUpTo
    <2>2. IsSumUpTo(g, f, D, 0)
      BY <2>1 DEF IsSumUpTo
    <2>3. QED
      BY <1>2, <1>3, <2>2
  <1>4. CASE m # 0
    <2>1. m \in Nat /\ m - 1 \in Nat /\ m - 1 \notin Bad
      BY <1>2, <1>4
    <2>2. PICK g : IsSumUpTo(g, f, D, m - 1)
      BY <2>1
    <2>. DEFINE h == [s \in SubsetsUpTo(D, m) |->
                        IF s = {} THEN 0 ELSE f[Pick(s)] + g[s \ {Pick(s)}]]
    <2>3. SubsetsUpTo(D, m - 1) \subseteq SubsetsUpTo(D, m)
      <3>1. \A s \in SUBSET D : Cardinality(s) \in Nat
        BY FS_Subset, FS_CardinalityType
      <3>2. QED
        BY <2>1, <3>1 DEF SubsetsUpTo
    <2>4. \A s \in SubsetsUpTo(D, m - 1) : h[s] = g[s]
      BY <2>2, <2>3 DEF IsSumUpTo
    <2>5. \A s \in SubsetsUpTo(D, m) : s # {} => s \ {Pick(s)} \in SubsetsUpTo(D, m - 1)
      BY <2>1, PickFacts DEF SubsetsUpTo
    <2>6. \A s \in SubsetsUpTo(D, m) :
            h[s] = IF s = {} THEN 0 ELSE f[Pick(s)] + h[s \ {Pick(s)}]
      BY <2>4, <2>5
    <2>7. IsSumUpTo(h, f, D, m)
      BY <2>6 DEF IsSumUpTo
    <2>8. QED
      BY <1>2, <2>7
  <1>5. QED
    BY <1>3, <1>4

(* A finite set has a sum, and SumFunctionOnSet is one. *)
LEMMA SumDefined ==
    ASSUME NEW f, NEW D, IsFiniteSet(D)
    PROVE  \E g : IsSum(g, f, D) /\ SumFunctionOnSet(f, D) = g[D]
  <1>. DEFINE G == CHOOSE g : IsSum(g, f, D)
  <1>1. \E g : IsSum(g, f, D)
    <2>1. Cardinality(D) \in Nat
      BY FS_CardinalityType
    <2>2. PICK g : IsSumUpTo(g, f, D, Cardinality(D))
      BY <2>1, SumUpToExists
    <2>3. SubsetsUpTo(D, Cardinality(D)) = SUBSET D
      BY FS_Subset DEF SubsetsUpTo
    <2>4. QED
      BY <2>2, <2>3 DEF IsSum, IsSumUpTo
  <1>2. IsSum(G, f, D)
    BY <1>1
  <1>3. SumFunctionOnSet(f, D) = G[D]
    BY DEF SumFunctionOnSet, FoldFunctionOnSet, MapThenFoldSet, IsSum, Pick
  <1>4. QED
    BY <1>2, <1>3

(* The steps of a sum. *)
LEMMA SumSteps ==
    ASSUME NEW f, NEW D, NEW g, IsSum(g, f, D)
    PROVE  \A s \in SUBSET D :
             /\ s = {} => g[s] = 0
             /\ s # {} => g[s] = f[Pick(s)] + g[s \ {Pick(s)}]
  BY DEF IsSum

(* A sum of integers is an integer. *)
LEMMA PartialSumIsInt ==
    ASSUME NEW f, NEW D, IsFiniteSet(D), \A x \in D : f[x] \in Int,
           NEW g, IsSum(g, f, D), NEW s \in SUBSET D
    PROVE  g[s] \in Int
  <1>0. \A t \in SUBSET D :
          /\ t = {} => g[t] = 0
          /\ t # {} => g[t] = f[Pick(t)] + g[t \ {Pick(t)}]
    BY SumSteps
  <1>. DEFINE Bad == {t \in SUBSET D : g[t] \notin Int}
              Sizes == {Cardinality(t) : t \in Bad}
  <1>1. SUFFICES ASSUME Bad # {} PROVE FALSE
    OBVIOUS
  <1>2. Sizes \subseteq Nat /\ Sizes # {}
    BY <1>1, FS_Subset, FS_CardinalityType
  <1>3. PICK t \in Bad : \A u \in Bad : Cardinality(t) <= Cardinality(u)
    <2>. HIDE DEF Bad
    <2>1. PICK n \in Sizes : \A k \in Sizes : n <= k
      <3>. HIDE DEF Sizes
      <3>1. QED
        BY <1>2, Least
    <2>2. QED
      BY <2>1
  <1>4. t # {} /\ t \in SUBSET D
    <2>1. t \in SUBSET D /\ g[t] \notin Int
      OBVIOUS
    <2>2. t = {} => g[t] = 0
      BY <1>0, <2>1
    <2>. HIDE DEF Bad
    <2>3. QED
      BY <2>1, <2>2
  <1>. DEFINE u == t \ {Pick(t)}
  <1>5. /\ Pick(t) \in D /\ u \in SUBSET D
        /\ Cardinality(u) = Cardinality(t) - 1 /\ Cardinality(t) \in Nat
    BY <1>4, PickFacts
  <1>6. u \notin Bad
    BY <1>3, <1>5
  <1>7. g[t] = f[Pick(t)] + g[u]
    BY <1>0, <1>4
  <1>. HIDE DEF u
  <1>8. g[u] \in Int /\ f[Pick(t)] \in Int
    BY <1>5, <1>6
  <1>9. QED
    BY <1>3, <1>7, <1>8

(* Two sums agree on a set on which what they add up agrees. *)
LEMMA PartialSumsAgree ==
    ASSUME NEW f, NEW D, IsFiniteSet(D), NEW g, IsSum(g, f, D),
           NEW e, NEW E, NEW h, IsSum(h, e, E),
           \A x \in D \cap E : f[x] = e[x],
           NEW s \in SUBSET (D \cap E)
    PROVE  g[s] = h[s]
  <1>0. /\ \A t \in SUBSET D :
             /\ t = {} => g[t] = 0
             /\ t # {} => g[t] = f[Pick(t)] + g[t \ {Pick(t)}]
        /\ \A t \in SUBSET E :
             /\ t = {} => h[t] = 0
             /\ t # {} => h[t] = e[Pick(t)] + h[t \ {Pick(t)}]
    <2>1. \A t \in SUBSET D :
             /\ t = {} => g[t] = 0
             /\ t # {} => g[t] = f[Pick(t)] + g[t \ {Pick(t)}]
      BY SumSteps
    <2>2. \A t \in SUBSET E :
             /\ t = {} => h[t] = 0
             /\ t # {} => h[t] = e[Pick(t)] + h[t \ {Pick(t)}]
      BY SumSteps
    <2>3. QED
      BY <2>1, <2>2
  <1>. DEFINE Bad == {t \in SUBSET (D \cap E) : g[t] # h[t]}
              Sizes == {Cardinality(t) : t \in Bad}
  <1>1. SUFFICES ASSUME Bad # {} PROVE FALSE
    OBVIOUS
  <1>2. Sizes \subseteq Nat /\ Sizes # {}
    <2>1. \A t \in Bad : t \in SUBSET D
      OBVIOUS
    <2>2. QED
      BY <1>1, <2>1, FS_Subset, FS_CardinalityType
  <1>3. PICK t \in Bad : \A u \in Bad : Cardinality(t) <= Cardinality(u)
    <2>. HIDE DEF Bad
    <2>1. PICK n \in Sizes : \A k \in Sizes : n <= k
      <3>. HIDE DEF Sizes
      <3>1. QED
        BY <1>2, Least
    <2>2. QED
      BY <2>1
  <1>4. t # {} /\ t \in SUBSET D /\ t \in SUBSET E
    BY <1>0
  <1>. DEFINE u == t \ {Pick(t)}
  <1>5. /\ Pick(t) \in t /\ u \in SUBSET (D \cap E)
        /\ Cardinality(u) = Cardinality(t) - 1 /\ Cardinality(t) \in Nat
    BY <1>4, PickFacts
  <1>6. u \notin Bad
    BY <1>3, <1>5
  <1>7. g[t] = f[Pick(t)] + g[u] /\ h[t] = e[Pick(t)] + h[u]
    BY <1>0, <1>4
  <1>. HIDE DEF u
  <1>8. g[u] = h[u] /\ f[Pick(t)] = e[Pick(t)]
    BY <1>4, <1>5, <1>6
  <1>9. QED
    BY <1>3, <1>7, <1>8

(* A sum may take any element first. *)
LEMMA PartialSumAnyOrder ==
    ASSUME NEW f, NEW D, IsFiniteSet(D), \A y \in D : f[y] \in Int,
           NEW g, IsSum(g, f, D), NEW s \in SUBSET D, NEW a \in s
    PROVE  g[s] = f[a] + g[s \ {a}]
  <1>0. \A t \in SUBSET D :
          /\ t = {} => g[t] = 0
          /\ t # {} => g[t] = f[Pick(t)] + g[t \ {Pick(t)}]
    BY DEF IsSum
  <1>. DEFINE Bad == {t \in SUBSET D : \E y \in t : g[t] # f[y] + g[t \ {y}]}
              Sizes == {Cardinality(t) : t \in Bad}
  <1>1. SUFFICES ASSUME Bad # {} PROVE FALSE
    OBVIOUS
  <1>2. Sizes \subseteq Nat /\ Sizes # {}
    <2>1. \A t \in Bad : t \in SUBSET D
      OBVIOUS
    <2>. HIDE DEF Bad
    <2>2. QED
      BY <1>1, <2>1, FS_Subset, FS_CardinalityType
  <1>3. PICK t \in Bad : \A u \in Bad : Cardinality(t) <= Cardinality(u)
    <2>. HIDE DEF Bad
    <2>1. PICK n \in Sizes : \A k \in Sizes : n <= k
      <3>. HIDE DEF Sizes
      <3>1. QED
        BY <1>2, Least
    <2>2. QED
      BY <2>1
  <1>4. PICK y \in t : g[t] # f[y] + g[t \ {y}]
    OBVIOUS
  <1>. DEFINE c == Pick(t)
              u == t \ {c}
              v == t \ {y}
              w == u \ {y}
  <1>5. /\ t # {} /\ t \in SUBSET D /\ c \in t /\ IsFiniteSet(t)
        /\ u \in SUBSET D /\ v \in SUBSET D /\ w \in SUBSET D
        /\ w = v \ {c}
    BY <1>4, FS_Subset DEF Pick
  <1>6. g[t] = f[c] + g[u]
    BY <1>0, <1>5
  <1>7. c # y
    BY <1>4, <1>6
  <1>8. /\ y \in u /\ c \in v
        /\ Cardinality(t) \in Nat
        /\ Cardinality(u) = Cardinality(t) - 1 /\ Cardinality(v) = Cardinality(t) - 1
    BY <1>4, <1>5, <1>7, FS_RemoveElement, FS_CardinalityType
  <1>9. u \notin Bad /\ v \notin Bad
    BY <1>3, <1>8
  <1>10. g[u] = f[y] + g[w] /\ g[v] = f[c] + g[w]
    BY <1>5, <1>8, <1>9
  <1>11. f[c] \in Int /\ f[y] \in Int /\ g[w] \in Int
    BY <1>5, PartialSumIsInt
  <1>12. g[t] # f[y] + g[v]
    BY <1>4
  <1>. HIDE DEF Bad, c, u, v, w
  <1>13. QED
    BY <1>6, <1>10, <1>11, <1>12

(* The sum over a set: nothing, an integer, and the parts of it. *)
LEMMA SumOverNothing == ASSUME NEW f PROVE SumFunctionOnSet(f, {}) = 0
  <1>1. PICK g : IsSum(g, f, {}) /\ SumFunctionOnSet(f, {}) = g[{}]
    BY FS_EmptySet, SumDefined
  <1>2. QED
    BY <1>1, SumSteps

LEMMA SumOfZeros ==
    ASSUME NEW f, NEW D, IsFiniteSet(D), \A x \in D : f[x] = 0
    PROVE  SumFunctionOnSet(f, D) = 0
  <1>1. PICK g : IsSum(g, f, D) /\ SumFunctionOnSet(f, D) = g[D]
    BY SumDefined
  <1>2. \A s \in SUBSET D :
          /\ s = {} => g[s] = 0
          /\ s # {} => g[s] = f[Pick(s)] + g[s \ {Pick(s)}]
    BY <1>1, SumSteps
  <1>. DEFINE Bad == {s \in SUBSET D : g[s] # 0}
              Sizes == {Cardinality(s) : s \in Bad}
  <1>3. ASSUME Bad # {} PROVE FALSE
    <2>1. Sizes \subseteq Nat /\ Sizes # {}
      BY <1>3, FS_Subset, FS_CardinalityType
    <2>2. PICK s \in Bad : \A u \in Bad : Cardinality(s) <= Cardinality(u)
      <3>. HIDE DEF Bad
      <3>1. PICK n \in Sizes : \A k \in Sizes : n <= k
        <4>. HIDE DEF Sizes
        <4>1. QED
          BY <2>1, Least
      <3>2. QED
        BY <3>1
    <2>3. s \in SUBSET D /\ g[s] # 0
      OBVIOUS
    <2>4. s # {}
      BY <1>2, <2>3
    <2>. DEFINE u == s \ {Pick(s)}
    <2>5. /\ Pick(s) \in D /\ u \in SUBSET D
          /\ Cardinality(u) = Cardinality(s) - 1 /\ Cardinality(s) \in Nat
      BY <2>3, <2>4, PickFacts
    <2>6. u \notin Bad
      BY <2>2, <2>5
    <2>7. g[s] = f[Pick(s)] + g[u]
      BY <1>2, <2>3, <2>4
    <2>. HIDE DEF u
    <2>8. g[u] = 0 /\ f[Pick(s)] = 0
      BY <2>5, <2>6
    <2>9. QED
      BY <2>3, <2>7, <2>8
  <1>4. D \in SUBSET D
    OBVIOUS
  <1>5. QED
    BY <1>1, <1>3, <1>4

LEMMA SumIsInt ==
    ASSUME NEW f, NEW D, IsFiniteSet(D), \A x \in D : f[x] \in Int
    PROVE  SumFunctionOnSet(f, D) \in Int
  <1>1. PICK g : IsSum(g, f, D) /\ SumFunctionOnSet(f, D) = g[D]
    BY SumDefined
  <1>2. QED
    BY <1>1, PartialSumIsInt

LEMMA SumsAgree ==
    ASSUME NEW f, NEW e, NEW D, IsFiniteSet(D), \A x \in D : f[x] = e[x]
    PROVE  SumFunctionOnSet(f, D) = SumFunctionOnSet(e, D)
  <1>1. PICK g : IsSum(g, f, D) /\ SumFunctionOnSet(f, D) = g[D]
    BY SumDefined
  <1>2. PICK h : IsSum(h, e, D) /\ SumFunctionOnSet(e, D) = h[D]
    BY SumDefined
  <1>3. QED
    BY <1>1, <1>2, PartialSumsAgree

LEMMA SumOneOut ==
    ASSUME NEW f, NEW D, IsFiniteSet(D), \A x \in D : f[x] \in Int, NEW a \in D
    PROVE  SumFunctionOnSet(f, D) = f[a] + SumFunctionOnSet(f, D \ {a})
  <1>1. PICK g : IsSum(g, f, D) /\ SumFunctionOnSet(f, D) = g[D]
    BY SumDefined
  <1>2. IsFiniteSet(D \ {a})
    BY FS_RemoveElement
  <1>3. PICK h : IsSum(h, f, D \ {a}) /\ SumFunctionOnSet(f, D \ {a}) = h[D \ {a}]
    BY <1>2, SumDefined
  <1>4. g[D \ {a}] = h[D \ {a}]
    BY <1>1, <1>2, <1>3, PartialSumsAgree
  <1>5. g[D] = f[a] + g[D \ {a}]
    BY <1>1, PartialSumAnyOrder
  <1>6. QED
    BY <1>1, <1>3, <1>4, <1>5

(* A function with one more argument sums to that much more. *)
LEMMA SumExtends ==
    ASSUME NEW f, NEW e, IsFiniteSet(DOMAIN f), NEW a, a \notin DOMAIN f,
           DOMAIN e = DOMAIN f \cup {a},
           \A x \in DOMAIN f : f[x] \in Int /\ e[x] = f[x], e[a] \in Int
    PROVE  SumFunction(e) = SumFunction(f) + e[a] /\ SumFunction(f) \in Int
  <1>1. IsFiniteSet(DOMAIN e) /\ DOMAIN f = DOMAIN e \ {a} /\ a \in DOMAIN e
    BY FS_AddElement
  <1>2. \A x \in DOMAIN e : e[x] \in Int
    OBVIOUS
  <1>3. SumFunctionOnSet(e, DOMAIN e) = e[a] + SumFunctionOnSet(e, DOMAIN f)
    BY <1>1, <1>2, SumOneOut
  <1>4. SumFunctionOnSet(e, DOMAIN f) = SumFunctionOnSet(f, DOMAIN f)
    BY SumsAgree
  <1>5. SumFunctionOnSet(f, DOMAIN f) \in Int
    BY SumIsInt
  <1>6. QED
    BY <1>3, <1>4, <1>5 DEF SumFunction

(* A function changed at one argument sums to the difference. *)
LEMMA SumChanges ==
    ASSUME NEW f, NEW e, IsFiniteSet(DOMAIN f), NEW a \in DOMAIN f,
           DOMAIN e = DOMAIN f, \A x \in DOMAIN f : f[x] \in Int,
           \A x \in DOMAIN f \ {a} : e[x] = f[x], e[a] \in Int
    PROVE  /\ SumFunction(e) = SumFunction(f) - f[a] + e[a]
           /\ SumFunction(f) \in Int /\ SumFunction(e) \in Int
  <1>. DEFINE D == DOMAIN f
              rest == SumFunctionOnSet(f, D \ {a})
  <1>1. \A x \in D : e[x] \in Int
    OBVIOUS
  <1>2. IsFiniteSet(D \ {a})
    BY FS_RemoveElement
  <1>3. SumFunctionOnSet(f, D) = f[a] + rest
    BY SumOneOut
  <1>4. SumFunctionOnSet(e, D) = e[a] + SumFunctionOnSet(e, D \ {a})
    BY <1>1, SumOneOut
  <1>5. SumFunctionOnSet(e, D \ {a}) = rest
    BY <1>2, SumsAgree
  <1>6. rest \in Int
    BY <1>2, SumIsInt
  <1>. HIDE DEF rest
  <1>7. QED
    BY <1>3, <1>4, <1>5, <1>6 DEF SumFunction
=============================================================================
