-------------------------------- MODULE Sums --------------------------------
(* What the sum of the community modules computes for a finite set, proved by *)
(* well-founded induction on its size.                                       *)
EXTENDS Integers, FiniteSets, Functions, FiniteSetTheorems, WellFoundedInduction, TLAPS

\* A set of naturals has a least element.
LEMMA LeastNat ==
  ASSUME NEW N \in SUBSET Nat, N # {}
  PROVE  \E n \in N : \A m \in N : n <= m
<1> DEFINE Less == {s \in Nat \X Nat : s[1] < s[2]}
<1>1. \E n \in N : \A m \in N : <<m, n>> \notin Less
  <2>1. IsWellFoundedOn(Less, Nat)
    BY NatLessThanWellFounded DEF OpToRel
  <2> HIDE DEF Less
  <2> QED
    BY <2>1, WFMin
<1>2. \A m, n \in Nat : m < n => <<m, n>> \in Less
  OBVIOUS
<1> HIDE DEF Less
<1>3. \A m, n \in Nat : m < n \/ n <= m
  OBVIOUS
<1> QED
  BY <1>1, <1>2, <1>3

\* The element the sum takes out of s first, and a function that adds up the
\* subsets of S.
Picked(s) == CHOOSE x \in s : TRUE
Adds(g, F, S) ==
  g = [s \in SUBSET S |-> IF s = {} THEN 0 ELSE F[Picked(s)] + g[s \ {Picked(s)}]]

LEMMA SumIs ==
  ASSUME NEW F, NEW S, \E g : Adds(g, F, S)
  PROVE  \E g : Adds(g, F, S) /\ SumFunctionOnSet(F, S) = g[S]
<1> DEFINE g == CHOOSE h : Adds(h, F, S)
<1>1. Adds(g, F, S)
  OBVIOUS
<1>2. SumFunctionOnSet(F, S) = g[S]
  BY DEF SumFunctionOnSet, FoldFunctionOnSet, MapThenFoldSet, Adds, Picked
<1> QED
  BY <1>1, <1>2

\* Every finite set has such a function: one for the subsets of at most n
\* elements gives one for those of n + 1.
LEMMA AddsExists ==
  ASSUME NEW F, NEW S, IsFiniteSet(S)
  PROVE  \E g : Adds(g, F, S)
<1> DEFINE Small(n) == {s \in SUBSET S : Cardinality(s) <= n}
           Upto(g, n) == g = [s \in Small(n) |->
                                IF s = {} THEN 0 ELSE F[Picked(s)] + g[s \ {Picked(s)}]]
           N == {n \in Nat : ~\E g : Upto(g, n)}
<1>1. ASSUME NEW s \in SUBSET S
      PROVE  /\ IsFiniteSet(s) /\ Cardinality(s) \in Nat
             /\ s # {} => /\ Picked(s) \in s /\ s \ {Picked(s)} \in SUBSET S
                          /\ Cardinality(s \ {Picked(s)}) = Cardinality(s) - 1
  <2>1. IsFiniteSet(s)
    BY FS_Subset
  <2> QED
    BY <2>1, FS_CardinalityType, FS_RemoveElement DEF Picked
<1>2. \E g : Upto(g, 0)
  <2>1. ASSUME NEW s \in Small(0) PROVE s = {}
    <3>1. s \in SUBSET S /\ Cardinality(s) <= 0
      BY <2>1
    <3>2. Cardinality(s) \in Nat /\ IsFiniteSet(s)
      BY <1>1, <3>1
    <3>3. Cardinality(s) = 0
      BY <3>1, <3>2
    <3> QED
      BY <3>2, <3>3, FS_EmptySet
  <2> DEFINE g == [s \in Small(0) |-> 0]
  <2>2. Upto(g, 0)
    <3>1. \A s \in Small(0) : 0 = IF s = {} THEN 0 ELSE F[Picked(s)] + g[s \ {Picked(s)}]
      <4> HIDE DEF g, Small
      <4> QED
        BY <2>1
    <3> HIDE DEF Small
    <3> QED
      BY <3>1
  <2> HIDE DEF g, Upto
  <2> QED
    BY <2>2
<1>3. ASSUME NEW n \in Nat, NEW g, Upto(g, n) PROVE \E h : Upto(h, n + 1)
  <2> DEFINE h == [s \in Small(n + 1) |->
                     IF s = {} THEN 0 ELSE F[Picked(s)] + g[s \ {Picked(s)}]]
  <2>1. ASSUME NEW s \in Small(n + 1), s # {} PROVE s \ {Picked(s)} \in Small(n)
    BY <1>1, <2>1
  <2>2. ASSUME NEW s \in Small(n) PROVE h[s] = g[s]
    <3>1. s \in Small(n + 1)
      <4>1. s \in SUBSET S /\ Cardinality(s) <= n
        BY <2>2
      <4>2. Cardinality(s) \in Nat
        BY <1>1, <4>1
      <4>3. Cardinality(s) <= n + 1
        BY <4>1, <4>2
      <4> QED
        BY <4>1, <4>3
    <3>2. g[s] = IF s = {} THEN 0 ELSE F[Picked(s)] + g[s \ {Picked(s)}]
      <4>1. g = [t \in Small(n) |-> IF t = {} THEN 0 ELSE F[Picked(t)] + g[t \ {Picked(t)}]]
        BY <1>3
      <4> HIDE DEF Small, h, Upto
      <4> QED
        BY <2>2, <4>1
    <3> QED
      BY <3>1, <3>2
  <2>3. Upto(h, n + 1)
    <3>1. ASSUME NEW s \in Small(n + 1), s # {}
          PROVE  F[Picked(s)] + g[s \ {Picked(s)}] = F[Picked(s)] + h[s \ {Picked(s)}]
      <4>1. h[s \ {Picked(s)}] = g[s \ {Picked(s)}]
        <5> HIDE DEF h, Small
        <5> QED
          BY <2>1, <2>2, <3>1
      <4> HIDE DEF h
      <4> QED
        BY <4>1
    <3>2. \A s \in Small(n + 1) :
            (IF s = {} THEN 0 ELSE F[Picked(s)] + g[s \ {Picked(s)}])
              = (IF s = {} THEN 0 ELSE F[Picked(s)] + h[s \ {Picked(s)}])
      <4> HIDE DEF h, Small
      <4> QED
        BY <3>1
    <3> HIDE DEF Small
    <3> QED
      BY <3>2
  <2> HIDE DEF h, Upto
  <2> QED
    BY <2>3
<1>4. \A n \in Nat : \E g : Upto(g, n)
  <2> SUFFICES ASSUME N # {} PROVE FALSE
    <3> HIDE DEF Upto
    <3> QED
      OBVIOUS
  <2>1. PICK n \in N : \A m \in N : n <= m
    <3> HIDE DEF Upto
    <3> QED
      BY LeastNat
  <2>2. n # 0 /\ n \in Nat
    <3> HIDE DEF Upto
    <3> QED
      BY <1>2
  <2>3. n - 1 \in Nat /\ n - 1 \notin N
    <3> HIDE DEF N
    <3> QED
      BY <2>1, <2>2
  <2>4. (n - 1) + 1 = n
    BY <2>2
  <2>5. \E g : Upto(g, n - 1)
    <3> HIDE DEF Upto
    <3> QED
      BY <2>3
  <2>6. \E h : Upto(h, (n - 1) + 1)
    <3> HIDE DEF Upto
    <3> QED
      BY <1>3, <2>3, <2>5
  <2>7. \E h : Upto(h, n)
    <3> HIDE DEF Upto
    <3> QED
      BY <2>4, <2>6
  <2> HIDE DEF Upto
  <2> QED
    BY <2>1, <2>7
<1>5. Cardinality(S) \in Nat /\ Small(Cardinality(S)) = SUBSET S
  BY FS_CardinalityType, FS_Subset
<1>6. PICK g : Upto(g, Cardinality(S))
  <2> HIDE DEF Upto
  <2> QED
    BY <1>4, <1>5
<1> HIDE DEF Small
<1> QED
  BY <1>5, <1>6 DEF Adds

\* Induction on finite sets, over a set W of subsets.
LEMMA SubsetInduction ==
  ASSUME NEW S, IsFiniteSet(S), NEW W, {} \in W,
         \A s \in SUBSET S : s # {} /\ (\A x \in s : s \ {x} \in W) => s \in W
  PROVE  SUBSET S \subseteq W
<1> DEFINE N == {Cardinality(s) : s \in (SUBSET S) \ W}
<1>1. ASSUME NEW s \in SUBSET S
      PROVE  /\ IsFiniteSet(s) /\ Cardinality(s) \in Nat
             /\ \A x \in s : Cardinality(s \ {x}) = Cardinality(s) - 1
  <2>1. IsFiniteSet(s)
    BY FS_Subset
  <2> QED
    BY <2>1, FS_CardinalityType, FS_RemoveElement
<1> SUFFICES ASSUME N # {} PROVE FALSE
  OBVIOUS
<1>2. N \in SUBSET Nat
  BY <1>1
<1>3. PICK n \in N : \A m \in N : n <= m
  <2> HIDE DEF N
  <2> QED
    BY <1>2, LeastNat
<1>4. PICK s \in (SUBSET S) \ W : n = Cardinality(s)
  OBVIOUS
<1>5. ASSUME NEW x \in s PROVE s \ {x} \in W
  <2>1. s \ {x} \in SUBSET S /\ Cardinality(s) \in Nat /\ Cardinality(s \ {x}) = Cardinality(s) - 1
    BY <1>1, <1>4
  <2>2. s \ {x} \notin W => Cardinality(s \ {x}) \in N
    BY <2>1
  <2>3. Cardinality(s \ {x}) \notin N
    <3> HIDE DEF N
    <3> QED
      BY <1>3, <1>4, <2>1
  <2> QED
    BY <2>2, <2>3
<1> QED
  BY <1>4, <1>5

LEMMA AddsStep ==
  ASSUME NEW F, NEW S, NEW g, Adds(g, F, S)
  PROVE  /\ g[{}] = 0
         /\ \A s \in SUBSET S : s # {} => /\ Picked(s) \in s
                                          /\ g[s] = F[Picked(s)] + g[s \ {Picked(s)}]
<1>1. g = [s \in SUBSET S |-> IF s = {} THEN 0 ELSE F[Picked(s)] + g[s \ {Picked(s)}]]
  BY DEF Adds
<1>2. \A s : s # {} => Picked(s) \in s
  BY DEF Picked
<1>3. \A s \in SUBSET S : g[s] = IF s = {} THEN 0 ELSE F[Picked(s)] + g[s \ {Picked(s)}]
  BY <1>1
<1> QED
  BY <1>2, <1>3

LEMMA AddsInt ==
  ASSUME NEW F, NEW S, IsFiniteSet(S), NEW g, Adds(g, F, S), \A x \in S : F[x] \in Int
  PROVE  \A s \in SUBSET S : g[s] \in Int
<1> DEFINE W == {s \in SUBSET S : g[s] \in Int}
<1>0. \A s \in SUBSET S : s # {} => /\ Picked(s) \in s
                                    /\ g[s] = F[Picked(s)] + g[s \ {Picked(s)}]
  BY AddsStep
<1>1. {} \in W
  BY AddsStep
<1>2. ASSUME NEW s \in SUBSET S, s # {}, \A x \in s : s \ {x} \in W PROVE s \in W
  <2>1. Picked(s) \in s /\ g[s] = F[Picked(s)] + g[s \ {Picked(s)}]
    BY <1>0, <1>2
  <2>2. g[s \ {Picked(s)}] \in Int /\ F[Picked(s)] \in Int
    BY <1>2, <2>1
  <2> QED
    BY <2>1, <2>2
<1> HIDE DEF W
<1>3. SUBSET S \subseteq W
  BY <1>1, <1>2, SubsetInduction
<1> QED
  BY <1>3 DEF W

\* Whichever element is taken out first.
LEMMA AddsAny ==
  ASSUME NEW F, NEW S, IsFiniteSet(S), NEW g, Adds(g, F, S), \A x \in S : F[x] \in Int
  PROVE  \A s \in SUBSET S : \A x \in s : g[s] = F[x] + g[s \ {x}]
<1> DEFINE W == {s \in SUBSET S : \A x \in s : g[s] = F[x] + g[s \ {x}]}
<1>0. \A s \in SUBSET S : s # {} => /\ Picked(s) \in s
                                    /\ g[s] = F[Picked(s)] + g[s \ {Picked(s)}]
  BY AddsStep
<1>1. {} \in W
  OBVIOUS
<1>2. ASSUME NEW s \in SUBSET S, s # {}, \A x \in s : s \ {x} \in W PROVE s \in W
  <2> SUFFICES ASSUME NEW x \in s PROVE g[s] = F[x] + g[s \ {x}]
    OBVIOUS
  <2>1. PICK y \in s : g[s] = F[y] + g[s \ {y}]
    <3>1. Picked(s) \in s /\ g[s] = F[Picked(s)] + g[s \ {Picked(s)}]
      BY <1>0, <1>2
    <3> QED
      BY <3>1
  <2>2. CASE x = y
    BY <2>1, <2>2
  <2>3. CASE x # y
    <3>1. s \ {y} \in W /\ s \ {x} \in W /\ x \in s \ {y} /\ y \in s \ {x}
      BY <1>2, <2>3
    <3>2. g[s \ {y}] = F[x] + g[(s \ {y}) \ {x}] /\ g[s \ {x}] = F[y] + g[(s \ {x}) \ {y}]
      BY <3>1
    <3>3. (s \ {y}) \ {x} = (s \ {x}) \ {y}
      OBVIOUS
    <3>4. (s \ {x}) \ {y} \in SUBSET S
      OBVIOUS
    <3>5. g[(s \ {x}) \ {y}] \in Int /\ F[x] \in Int /\ F[y] \in Int
      BY <3>4, AddsInt
    <3>6. PICK a \in Int, b \in Int, c \in Int :
            a = F[x] /\ b = F[y] /\ c = g[(s \ {x}) \ {y}]
      BY <3>5
    <3>7. g[s] = b + (a + c) /\ g[s \ {x}] = b + c
      BY <2>1, <3>2, <3>3, <3>6
    <3> HIDE DEF W
    <3> QED
      BY <3>6, <3>7
  <2> QED
    BY <2>2, <2>3
<1> HIDE DEF W
<1>3. SUBSET S \subseteq W
  BY <1>1, <1>2, SubsetInduction
<1> QED
  BY <1>3 DEF W

\* The sum of a set depends on the values of its own elements only.
LEMMA AddsSame ==
  ASSUME NEW F, NEW S, IsFiniteSet(S), NEW g, Adds(g, F, S),
         NEW G, NEW T, NEW h, Adds(h, G, T), S \subseteq T, \A x \in S : F[x] = G[x]
  PROVE  g[S] = h[S]
<1> DEFINE W == {s \in SUBSET S : g[s] = h[s]}
<1>0. \A s \in SUBSET S : s # {} => /\ Picked(s) \in s
                                    /\ g[s] = F[Picked(s)] + g[s \ {Picked(s)}]
                                    /\ h[s] = G[Picked(s)] + h[s \ {Picked(s)}]
  <2>1. \A s \in SUBSET S : s # {} => /\ Picked(s) \in s
                                      /\ g[s] = F[Picked(s)] + g[s \ {Picked(s)}]
    BY AddsStep
  <2>2. \A s \in SUBSET T : s # {} => h[s] = G[Picked(s)] + h[s \ {Picked(s)}]
    BY AddsStep
  <2>3. SUBSET S \subseteq SUBSET T
    OBVIOUS
  <2> QED
    BY <2>1, <2>2, <2>3
<1>1. {} \in W
  BY AddsStep
<1>2. ASSUME NEW s \in SUBSET S, s # {}, \A x \in s : s \ {x} \in W PROVE s \in W
  <2>1. Picked(s) \in s /\ g[s] = F[Picked(s)] + g[s \ {Picked(s)}]
    BY <1>0, <1>2
  <2>2. h[s] = G[Picked(s)] + h[s \ {Picked(s)}]
    BY <1>0, <1>2
  <2>3. g[s \ {Picked(s)}] = h[s \ {Picked(s)}] /\ F[Picked(s)] = G[Picked(s)]
    BY <1>2, <2>1
  <2> QED
    BY <2>1, <2>2, <2>3
<1> HIDE DEF W
<1>3. SUBSET S \subseteq W
  BY <1>1, <1>2, SubsetInduction
<1> QED
  BY <1>3 DEF W
-----------------------------------------------------------------------------
(* The sum of F over S, for a finite S and integers.                        *)

LEMMA SumEmpty == ASSUME NEW F PROVE SumFunctionOnSet(F, {}) = 0
<1>1. IsFiniteSet({})
  BY FS_EmptySet
<1>2. PICK g : Adds(g, F, {}) /\ SumFunctionOnSet(F, {}) = g[{}]
  BY <1>1, AddsExists, SumIs
<1> QED
  BY <1>2, AddsStep

LEMMA SumType ==
  ASSUME NEW F, NEW S, IsFiniteSet(S), \A x \in S : F[x] \in Int
  PROVE  SumFunctionOnSet(F, S) \in Int
<1>1. PICK g : Adds(g, F, S) /\ SumFunctionOnSet(F, S) = g[S]
  BY AddsExists, SumIs
<1> QED
  BY <1>1, AddsInt

LEMMA SumSame ==
  ASSUME NEW F, NEW G, NEW S, IsFiniteSet(S), \A x \in S : F[x] = G[x]
  PROVE  SumFunctionOnSet(F, S) = SumFunctionOnSet(G, S)
<1>1. PICK g : Adds(g, F, S) /\ SumFunctionOnSet(F, S) = g[S]
  BY AddsExists, SumIs
<1>2. PICK h : Adds(h, G, S) /\ SumFunctionOnSet(G, S) = h[S]
  BY AddsExists, SumIs
<1> QED
  BY <1>1, <1>2, AddsSame

\* One element apart.
LEMMA SumStep ==
  ASSUME NEW F, NEW S, IsFiniteSet(S), \A x \in S : F[x] \in Int, NEW x \in S
  PROVE  SumFunctionOnSet(F, S) = F[x] + SumFunctionOnSet(F, S \ {x})
<1>1. PICK g : Adds(g, F, S) /\ SumFunctionOnSet(F, S) = g[S]
  BY AddsExists, SumIs
<1>2. IsFiniteSet(S \ {x})
  BY FS_RemoveElement
<1>3. PICK h : Adds(h, F, S \ {x}) /\ SumFunctionOnSet(F, S \ {x}) = h[S \ {x}]
  BY <1>2, AddsExists, SumIs
<1>4. h[S \ {x}] = g[S \ {x}]
  BY <1>1, <1>2, <1>3, AddsSame
<1>5. g[S] = F[x] + g[S \ {x}]
  BY <1>1, AddsAny
<1> QED
  BY <1>1, <1>3, <1>4, <1>5

\* One value changed.
LEMMA SumChange ==
  ASSUME NEW F, NEW G, NEW S, IsFiniteSet(S), NEW x \in S,
         \A y \in S : F[y] \in Int /\ G[y] \in Int, \A y \in S \ {x} : F[y] = G[y]
  PROVE  SumFunctionOnSet(G, S) = SumFunctionOnSet(F, S) - F[x] + G[x]
<1>1. IsFiniteSet(S \ {x})
  BY FS_RemoveElement
<1>2. SumFunctionOnSet(F, S \ {x}) = SumFunctionOnSet(G, S \ {x})
  BY <1>1, SumSame
<1>3. SumFunctionOnSet(F, S \ {x}) \in Int
  BY <1>1, SumType
<1>4. SumFunctionOnSet(F, S) = F[x] + SumFunctionOnSet(F, S \ {x})
  BY SumStep
<1>5. SumFunctionOnSet(G, S) = G[x] + SumFunctionOnSet(G, S \ {x})
  BY SumStep
<1>6. F[x] \in Int /\ G[x] \in Int
  OBVIOUS
<1> QED
  BY <1>2, <1>3, <1>4, <1>5, <1>6

\* Sums of values that add up, and of larger values.
LEMMA SumPlus ==
  ASSUME NEW F, NEW G, NEW H, NEW S, IsFiniteSet(S),
         \A x \in S : F[x] \in Int /\ G[x] \in Int /\ H[x] = F[x] + G[x]
  PROVE  SumFunctionOnSet(H, S) = SumFunctionOnSet(F, S) + SumFunctionOnSet(G, S)
<1> DEFINE W == {s \in SUBSET S : SumFunctionOnSet(H, s)
                                    = SumFunctionOnSet(F, s) + SumFunctionOnSet(G, s)}
<1>1. {} \in W
  BY SumEmpty
<1>2. ASSUME NEW s \in SUBSET S, s # {}, \A x \in s : s \ {x} \in W PROVE s \in W
  <2>1. PICK x \in s : TRUE
    BY <1>2
  <2> DEFINE t == s \ {x}
  <2>2. IsFiniteSet(s) /\ IsFiniteSet(t) /\ t \in SUBSET S
    BY FS_Subset
  <2>3. \A y \in s : F[y] \in Int /\ G[y] \in Int /\ H[y] \in Int
    OBVIOUS
  <2>4. /\ SumFunctionOnSet(F, s) = F[x] + SumFunctionOnSet(F, t)
        /\ SumFunctionOnSet(G, s) = G[x] + SumFunctionOnSet(G, t)
        /\ SumFunctionOnSet(H, s) = H[x] + SumFunctionOnSet(H, t)
    <3> HIDE DEF W
    <3> QED
      BY <2>2, <2>3, SumStep
  <2>5. SumFunctionOnSet(F, t) \in Int /\ SumFunctionOnSet(G, t) \in Int
    <3>1. \A y \in t : F[y] \in Int /\ G[y] \in Int
      OBVIOUS
    <3> HIDE DEF W, t
    <3> QED
      BY <2>2, <3>1, SumType
  <2>6. SumFunctionOnSet(H, t) = SumFunctionOnSet(F, t) + SumFunctionOnSet(G, t)
    BY <1>2
  <2>7. F[x] \in Int /\ G[x] \in Int /\ H[x] = F[x] + G[x]
    OBVIOUS
  <2>8. SumFunctionOnSet(H, s) = SumFunctionOnSet(F, s) + SumFunctionOnSet(G, s)
    <3> HIDE DEF W, t
    <3> QED
      BY <2>4, <2>5, <2>6, <2>7
  <2> QED
    BY <2>8
<1> HIDE DEF W
<1>3. SUBSET S \subseteq W
  BY <1>1, <1>2, SubsetInduction
<1> QED
  BY <1>3 DEF W

LEMMA SumMonotone ==
  ASSUME NEW F, NEW G, NEW S, IsFiniteSet(S),
         \A x \in S : F[x] \in Int /\ G[x] \in Int /\ F[x] <= G[x]
  PROVE  SumFunctionOnSet(F, S) <= SumFunctionOnSet(G, S)
<1> DEFINE W == {s \in SUBSET S : SumFunctionOnSet(F, s) <= SumFunctionOnSet(G, s)}
<1>1. {} \in W
  BY SumEmpty
<1>2. ASSUME NEW s \in SUBSET S, s # {}, \A x \in s : s \ {x} \in W PROVE s \in W
  <2>1. PICK x \in s : TRUE
    BY <1>2
  <2> DEFINE t == s \ {x}
  <2>2. IsFiniteSet(s) /\ IsFiniteSet(t) /\ t \in SUBSET S
    BY FS_Subset
  <2>3. \A y \in s : F[y] \in Int /\ G[y] \in Int
    OBVIOUS
  <2>4. /\ SumFunctionOnSet(F, s) = F[x] + SumFunctionOnSet(F, t)
        /\ SumFunctionOnSet(G, s) = G[x] + SumFunctionOnSet(G, t)
    <3> HIDE DEF W
    <3> QED
      BY <2>2, <2>3, SumStep
  <2>5. SumFunctionOnSet(F, t) \in Int /\ SumFunctionOnSet(G, t) \in Int
    <3>1. \A y \in t : F[y] \in Int /\ G[y] \in Int
      OBVIOUS
    <3> HIDE DEF W, t
    <3> QED
      BY <2>2, <3>1, SumType
  <2>6. SumFunctionOnSet(F, t) <= SumFunctionOnSet(G, t)
    BY <1>2
  <2>7. F[x] \in Int /\ G[x] \in Int /\ F[x] <= G[x]
    OBVIOUS
  <2>8. SumFunctionOnSet(F, s) <= SumFunctionOnSet(G, s)
    <3> HIDE DEF W, t
    <3> QED
      BY <2>4, <2>5, <2>6, <2>7
  <2> QED
    BY <2>8
<1> HIDE DEF W
<1>3. SUBSET S \subseteq W
  BY <1>1, <1>2, SubsetInduction
<1> QED
  BY <1>3 DEF W

\* Naturals add up to a natural.
LEMMA SumNat ==
  ASSUME NEW F, NEW S, IsFiniteSet(S), \A x \in S : F[x] \in Nat
  PROVE  SumFunctionOnSet(F, S) \in Nat
<1> DEFINE W == {s \in SUBSET S : SumFunctionOnSet(F, s) \in Nat}
<1>1. {} \in W
  BY SumEmpty
<1>2. ASSUME NEW s \in SUBSET S, s # {}, \A x \in s : s \ {x} \in W PROVE s \in W
  <2>1. PICK x \in s : TRUE
    BY <1>2
  <2>2. IsFiniteSet(s) /\ \A y \in s : F[y] \in Int
    BY FS_Subset
  <2>3. SumFunctionOnSet(F, s) = F[x] + SumFunctionOnSet(F, s \ {x})
    <3> HIDE DEF W
    <3> QED
      BY <2>2, SumStep
  <2>4. SumFunctionOnSet(F, s \ {x}) \in Nat /\ F[x] \in Nat
    BY <1>2
  <2> QED
    BY <2>3, <2>4
<1> HIDE DEF W
<1>3. SUBSET S \subseteq W
  BY <1>1, <1>2, SubsetInduction
<1> QED
  BY <1>3 DEF W

\* Elements that add nothing may be left out.
LEMMA SumOfRest ==
  ASSUME NEW F, NEW S, IsFiniteSet(S), NEW T \in SUBSET S,
         \A x \in S : F[x] \in Int, \A x \in S \ T : F[x] = 0
  PROVE  SumFunctionOnSet(F, S) = SumFunctionOnSet(F, T)
<1>1. PICK U : U = S \ T
  OBVIOUS
<1> DEFINE W == {s \in SUBSET U : SumFunctionOnSet(F, T \cup s) = SumFunctionOnSet(F, T)}
<1>2. IsFiniteSet(U) /\ IsFiniteSet(T)
  BY <1>1, FS_Subset
<1>3. {} \in W
  <2>1. T \cup {} = T
    OBVIOUS
  <2> QED
    BY <2>1
<1>4. ASSUME NEW s \in SUBSET U, s # {}, \A x \in s : s \ {x} \in W PROVE s \in W
  <2>1. PICK x \in s : TRUE
    BY <1>4
  <2>2. IsFiniteSet(T \cup s) /\ T \cup s \subseteq S /\ x \in T \cup s
    BY <1>1, FS_Subset
  <2>3. (T \cup s) \ {x} = T \cup (s \ {x})
    BY <1>1
  <2>4. SumFunctionOnSet(F, T \cup s) = F[x] + SumFunctionOnSet(F, (T \cup s) \ {x})
    <3> HIDE DEF W
    <3> QED
      BY <2>2, SumStep
  <2>5. SumFunctionOnSet(F, T \cup (s \ {x})) = SumFunctionOnSet(F, T)
    BY <1>4
  <2>6. SumFunctionOnSet(F, T) \in Int
    <3> HIDE DEF W
    <3> QED
      BY <1>2, SumType
  <2>7. F[x] = 0
    BY <1>1
  <2>8. SumFunctionOnSet(F, T \cup s) = SumFunctionOnSet(F, T)
    <3> DEFINE a == SumFunctionOnSet(F, T \cup s)
               b == SumFunctionOnSet(F, T)
    <3>1. SumFunctionOnSet(F, (T \cup s) \ {x}) = b
      BY ONLY <2>3, <2>5, Zenon
    <3>2. a = 0 + b /\ b \in Int
      BY <2>4, <2>6, <2>7, <3>1
    <3> HIDE DEF a, b
    <3>3. a = b
      BY <3>2
    <3> QED
      BY <3>3 DEF a, b
  <2> QED
    BY <2>8
<1> HIDE DEF W
<1>5. SUBSET U \subseteq W
  BY <1>2, <1>3, <1>4, SubsetInduction
<1>6. T \cup U = S
  BY <1>1
<1> QED
  BY <1>5, <1>6 DEF W
=============================================================================
