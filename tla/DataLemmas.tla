-------------------------------- MODULE DataLemmas --------------------------------
(***************************************************************************)
(* Lemmas about data that the proofs of several components need: induction *)
(* over numbers and over finite sets, sums, and the order of a slice that is *)
(* filtered or sorted.                                                     *)
(***************************************************************************)
EXTENDS Integers, Functions, StableOrder, FiniteSetTheorems, FunctionTheorems,
        WellFoundedInduction, TLAPS

----------------------------------------------------------------------------
(* Induction.                                                              *)

\* A set of natural numbers that is not empty has a least element.
LEMMA LeastNumber ==
    ASSUME NEW T, T \subseteq Nat, T # {}
    PROVE  \E x \in T : \A y \in T : x <= y
<1>1. IsWellFoundedOn(OpToRel(<, Nat), Nat)
  BY NatLessThanWellFounded
<1>2. PICK x \in T : \A y \in T : ~(<<y, x>> \in OpToRel(<, Nat))
  BY <1>1, WFMin
<1>3. \A y \in T : ~(y < x)
  BY <1>2 DEF OpToRel
<1>4. \A y \in T : x <= y
  BY <1>3
<1>. QED
  BY <1>4

\* What holds of a subset of a finite set as soon as it holds of those strictly
\* within it holds of all of them.
LEMMA SubsetInduction ==
    ASSUME NEW S, IsFiniteSet(S), NEW P,
           \A T \in SUBSET S : (\A U \in SUBSET T : U # T => U \in P) => T \in P
    PROVE  SUBSET S \subseteq P
<1> DEFINE Others == {T \in SUBSET S : T \notin P}
           Sizes == {Cardinality(T) : T \in Others}
<1>1. SUFFICES ASSUME Others # {} PROVE FALSE
  OBVIOUS
<1>2. Sizes \subseteq Nat /\ Sizes # {}
  BY <1>1, FS_Subset, FS_CardinalityType
<1>3. PICK n \in Sizes : \A m \in Sizes : n <= m
  BY <1>2, LeastNumber
<1>4. PICK T \in Others : n = Cardinality(T)
  BY <1>3
<1>5. ASSUME NEW U \in SUBSET T, U # T PROVE U \in P
  <2>1. Cardinality(U) \in Nat /\ Cardinality(T) \in Nat /\ Cardinality(U) <= Cardinality(T)
        /\ Cardinality(U) # Cardinality(T)
    BY <1>4, <1>5, FS_Subset, FS_CardinalityType
  <2>2. Cardinality(U) \notin Sizes
    BY <1>3, <1>4, <2>1
  <2>. QED
    BY <1>4, <2>2
<1>. QED
  BY <1>4, <1>5

----------------------------------------------------------------------------
(* Sums over finite sets.                                                  *)

\* The element a fold removes next.
Element(s) == CHOOSE x \in s : TRUE

\* g holds the sums of f over the subsets of S.
SumsOver(g, f, S) ==
    g = [s \in SUBSET S |->
            IF s = {} THEN 0 ELSE f[Element(s)] + g[s \ {Element(s)}]]

\* An element of a set that is not empty.
LEMMA ElementIn ==
    ASSUME NEW s, s # {}
    PROVE  Element(s) \in s
BY DEF Element

\* The sum is computed through the subsets.
LEMMA SumUnfolds ==
    ASSUME NEW f, NEW S
    PROVE  SumFunctionOnSet(f, S) = (CHOOSE g : SumsOver(g, f, S))[S]
BY DEF SumFunctionOnSet, FoldFunctionOnSet, MapThenFoldSet, Element, SumsOver

\* The sums over the subsets exist.
LEMMA SumsExist ==
    ASSUME NEW f, NEW S, IsFiniteSet(S)
    PROVE  \E g : SumsOver(g, f, S)
<1> DEFINE Next(g, s) == IF s = {} THEN 0 ELSE f[Element(s)] + g[s \ {Element(s)}]
           Upto(n) == \E g : \A s \in SUBSET S : Cardinality(s) <= n => g[s] = Next(g, s)
           Missing == {n \in Nat : ~Upto(n)}
<1>1. \A s \in SUBSET S :
        /\ Cardinality(s) \in Nat
        /\ Cardinality(s) <= Cardinality(S)
        /\ s # {} => Cardinality(s \ {Element(s)}) = Cardinality(s) - 1
  BY FS_Subset, FS_CardinalityType, FS_RemoveElement, ElementIn
<1>2. Upto(0)
  <2> DEFINE g == [s \in SUBSET S |-> 0]
  <2>1. ASSUME NEW s \in SUBSET S, Cardinality(s) <= 0 PROVE s = {}
    <3>1. IsFiniteSet(s) /\ Cardinality(s) = 0
      <4>1. IsFiniteSet(s)
        BY FS_Subset
      <4>2. Cardinality(s) \in Nat
        BY <1>1
      <4>. QED
        BY <2>1, <4>1, <4>2
    <3>. QED
      BY <3>1, FS_EmptySet
  <2>2. \A s \in SUBSET S : Cardinality(s) <= 0 => g[s] = Next(g, s)
    BY <2>1
  <2>. QED
    BY <2>2
<1>3. ASSUME NEW n \in Nat, Upto(n) PROVE Upto(n + 1)
  <2>1. PICK g : \A s \in SUBSET S : Cardinality(s) <= n => g[s] = Next(g, s)
    BY <1>3
  <2> DEFINE h == [s \in SUBSET S |-> IF Cardinality(s) <= n THEN g[s] ELSE Next(g, s)]
  <2>2. ASSUME NEW s \in SUBSET S, Cardinality(s) <= n + 1 PROVE h[s] = Next(h, s)
    <3>1. h[s] = Next(g, s)
      BY <2>1
    <3>2. s # {} => h[s \ {Element(s)}] = g[s \ {Element(s)}]
      BY <1>1, <2>2
    <3>. QED
      BY <3>1, <3>2
  <2>3. \A s \in SUBSET S : Cardinality(s) <= n + 1 => h[s] = Next(h, s)
    BY <2>2
  <2>. HIDE DEF h
  <2>. QED
    BY <2>3
<1>4. Missing = {}
  <2>. HIDE DEF Upto
  <2>1. SUFFICES ASSUME Missing # {} PROVE FALSE
    OBVIOUS
  <2>2. PICK n \in Missing : \A m \in Missing : n <= m
    BY <2>1, LeastNumber
  <2>3. n # 0 /\ n - 1 \in Nat /\ Upto(n - 1)
    BY <1>2, <2>2
  <2>. QED
    BY <1>3, <2>2, <2>3
<1>5. Upto(Cardinality(S))
  BY <1>4, FS_CardinalityType
<1>6. PICK g : \A s \in SUBSET S : Cardinality(s) <= Cardinality(S) => g[s] = Next(g, s)
  BY <1>5
<1> DEFINE whole == [s \in SUBSET S |-> g[s]]
<1>7. \A s \in SUBSET S : whole[s] = Next(whole, s)
  BY <1>1, <1>6
<1>8. SumsOver(whole, f, S)
  BY <1>7 DEF SumsOver
<1>. QED
  BY <1>8

\* The sums over the subsets of two sets agree where the functions do.
LEMMA SumsAgree ==
    ASSUME NEW f, NEW S, IsFiniteSet(S), NEW g, SumsOver(g, f, S),
           NEW k, NEW T, NEW h, SumsOver(h, k, T),
           NEW U \in SUBSET S, U \in SUBSET T, \A x \in U : f[x] = k[x]
    PROVE  g[U] = h[U]
<1> DEFINE P == {s \in SUBSET U : g[s] = h[s]}
<1>1. IsFiniteSet(U)
  BY FS_Subset
<1>2. ASSUME NEW s \in SUBSET U, \A t \in SUBSET s : t # s => t \in P
      PROVE  s \in P
  <2>1. g[s] = IF s = {} THEN 0 ELSE f[Element(s)] + g[s \ {Element(s)}]
    BY DEF SumsOver
  <2>2. h[s] = IF s = {} THEN 0 ELSE k[Element(s)] + h[s \ {Element(s)}]
    BY DEF SumsOver
  <2>3. CASE s = {}
    BY <2>1, <2>2, <2>3
  <2>4. CASE s # {}
    <3>1. Element(s) \in s /\ s \ {Element(s)} # s
      BY <2>4, ElementIn
    <3>2. g[s \ {Element(s)}] = h[s \ {Element(s)}]
      BY <1>2, <3>1
    <3>3. f[Element(s)] = k[Element(s)]
      BY <3>1
    <3>. QED
      BY <2>1, <2>2, <2>4, <3>2, <3>3
  <2>. QED
    BY <2>3, <2>4
<1>3. SUBSET U \subseteq P
  <2>. HIDE DEF P
  <2>. QED
    BY <1>1, <1>2, SubsetInduction
<1>. QED
  BY <1>3

\* Any element of a set may be the first to be added.
LEMMA AnyFirst ==
    ASSUME NEW f, NEW S, IsFiniteSet(S), \A x \in S : f[x] \in Int,
           NEW g, SumsOver(g, f, S)
    PROVE  \A s \in SUBSET S :
               /\ g[s] \in Int
               /\ \A x \in s : g[s] = f[x] + g[s \ {x}]
<1> DEFINE P == {s \in SUBSET S : g[s] \in Int /\ \A x \in s : g[s] = f[x] + g[s \ {x}]}
<1>1. ASSUME NEW s \in SUBSET S, \A t \in SUBSET s : t # s => t \in P
      PROVE  s \in P
  <2>1. g[s] = IF s = {} THEN 0 ELSE f[Element(s)] + g[s \ {Element(s)}]
    BY DEF SumsOver
  <2>2. CASE s = {}
    BY <2>1, <2>2
  <2>3. CASE s # {}
    <3> DEFINE c == Element(s)
    <3>1. c \in s
      BY <2>3, ElementIn
    <3>. HIDE DEF c
    <3>2. g[s] = f[c] + g[s \ {c}]
      BY <2>1, <2>3 DEF c
    <3>3. s \ {c} \in P
      BY <1>1, <3>1
    <3>4. g[s] \in Int
      BY <3>1, <3>2, <3>3
    <3>5. ASSUME NEW x \in s, x # c PROVE g[s] = f[x] + g[s \ {x}]
      <4>1. g[s \ {c}] = f[x] + g[(s \ {c}) \ {x}]
        BY <3>3, <3>5
      <4>2. s \ {x} \in P
        BY <1>1
      <4>3. g[s \ {x}] = f[c] + g[(s \ {x}) \ {c}]
        BY <3>1, <3>5, <4>2
      <4>4. (s \ {c}) \ {x} = (s \ {x}) \ {c}
        OBVIOUS
      <4>5. (s \ {c}) \ {x} \in P
        BY <1>1, <3>1
      <4>6. g[(s \ {c}) \ {x}] \in Int /\ f[x] \in Int /\ f[c] \in Int
        BY <3>1, <4>5
      <4>7. g[s \ {x}] = f[c] + g[(s \ {c}) \ {x}]
        BY <4>3, <4>4
      <4> DEFINE rest == g[(s \ {c}) \ {x}]
      <4>8. /\ g[s] = f[c] + g[s \ {c}]
            /\ g[s \ {c}] = f[x] + rest
            /\ g[s \ {x}] = f[c] + rest
            /\ rest \in Int /\ f[x] \in Int /\ f[c] \in Int
        BY <3>2, <4>1, <4>6, <4>7
      <4>. HIDE DEF rest
      <4>. QED
        BY <4>8
    <3>. QED
      BY <3>2, <3>4, <3>5
  <2>. QED
    BY <2>2, <2>3
<1>2. SUBSET S \subseteq P
  <2>. HIDE DEF P
  <2>. QED
    BY <1>1, SubsetInduction
<1>. QED
  BY <1>2

\* The sum of a finite set is one of those sums.
LEMMA SumIsOne ==
    ASSUME NEW f, NEW S, IsFiniteSet(S)
    PROVE  \E g : SumsOver(g, f, S) /\ SumFunctionOnSet(f, S) = g[S]
BY SumUnfolds, SumsExist

\* Nothing sums to 0.
LEMMA SumOfNothing ==
    ASSUME NEW f
    PROVE  SumFunctionOnSet(f, {}) = 0
<1>1. PICK g : SumsOver(g, f, {}) /\ SumFunctionOnSet(f, {}) = g[{}]
  BY SumIsOne, FS_EmptySet
<1>. QED
  BY <1>1 DEF SumsOver

\* Functions that agree on a finite set have the same sum.
LEMMA SumOfEquals ==
    ASSUME NEW f, NEW k, NEW S, IsFiniteSet(S), \A x \in S : f[x] = k[x]
    PROVE  SumFunctionOnSet(f, S) = SumFunctionOnSet(k, S)
<1>1. PICK g : SumsOver(g, f, S) /\ SumFunctionOnSet(f, S) = g[S]
  BY SumIsOne
<1>2. PICK h : SumsOver(h, k, S) /\ SumFunctionOnSet(k, S) = h[S]
  BY SumIsOne
<1>3. g[S] = h[S]
  BY <1>1, <1>2, SumsAgree
<1>. QED
  BY <1>1, <1>2, <1>3

\* A sum is a number, and any element may be taken out of it.
LEMMA SumWithout ==
    ASSUME NEW f, NEW S, IsFiniteSet(S), \A x \in S : f[x] \in Int
    PROVE  /\ SumFunctionOnSet(f, S) \in Int
           /\ \A x \in S : SumFunctionOnSet(f, S)
                               = f[x] + SumFunctionOnSet(f, S \ {x})
<1>1. PICK g : SumsOver(g, f, S) /\ SumFunctionOnSet(f, S) = g[S]
  BY SumIsOne
<1>2. g[S] \in Int /\ \A x \in S : g[S] = f[x] + g[S \ {x}]
  BY <1>1, AnyFirst
<1>3. ASSUME NEW x \in S PROVE g[S \ {x}] = SumFunctionOnSet(f, S \ {x})
  <2>1. IsFiniteSet(S \ {x})
    BY FS_RemoveElement
  <2>2. PICK h : SumsOver(h, f, S \ {x})
                 /\ SumFunctionOnSet(f, S \ {x}) = h[S \ {x}]
    BY <2>1, SumIsOne
  <2>3. g[S \ {x}] = h[S \ {x}]
    BY <1>1, <2>2, SumsAgree
  <2>. QED
    BY <2>2, <2>3
<1>. QED
  BY <1>1, <1>2, <1>3

\* Zeros sum to 0.
LEMMA SumOfZeros ==
    ASSUME NEW D, NEW S \in SUBSET D, IsFiniteSet(S)
    PROVE  SumFunctionOnSet([x \in D |-> 0], S) = 0
<1> DEFINE f == [x \in D |-> 0]
           P == {s \in SUBSET S : SumFunctionOnSet(f, s) = 0}
<1>1. ASSUME NEW s \in SUBSET S, \A t \in SUBSET s : t # s => t \in P
      PROVE  s \in P
  <2>1. CASE s = {}
    BY <2>1, SumOfNothing
  <2>2. CASE s # {}
    <3>1. PICK x \in s : TRUE
      BY <2>2
    <3>2. s \ {x} \in P
      BY <1>1, <3>1
    <3>3. IsFiniteSet(s) /\ f[x] = 0 /\ \A y \in s : f[y] \in Int
      BY FS_Subset
    <3>. HIDE DEF f
    <3>4. SumFunctionOnSet(f, s) = f[x] + SumFunctionOnSet(f, s \ {x})
      BY <3>3, SumWithout
    <3>. QED
      BY <3>2, <3>3, <3>4
  <2>. QED
    BY <2>1, <2>2
<1>2. SUBSET S \subseteq P
  <2>. HIDE DEF P
  <2>. QED
    BY <1>1, SubsetInduction
<1>. QED
  BY <1>2

\* A sum of natural numbers is one.
LEMMA SumOfNaturals ==
    ASSUME NEW f, NEW S, IsFiniteSet(S), \A x \in S : f[x] \in Nat
    PROVE  SumFunctionOnSet(f, S) \in Nat
<1> DEFINE P == {s \in SUBSET S : SumFunctionOnSet(f, s) \in Nat}
<1>1. ASSUME NEW s \in SUBSET S, \A t \in SUBSET s : t # s => t \in P
      PROVE  s \in P
  <2>1. CASE s = {}
    BY <2>1, SumOfNothing
  <2>2. CASE s # {}
    <3>1. PICK x \in s : TRUE
      BY <2>2
    <3>2. s \ {x} \in P
      BY <1>1, <3>1
    <3>3. IsFiniteSet(s) /\ \A y \in s : f[y] \in Int
      BY FS_Subset
    <3>4. SumFunctionOnSet(f, s) = f[x] + SumFunctionOnSet(f, s \ {x})
      BY <3>3, SumWithout
    <3>. QED
      BY <3>2, <3>4
  <2>. QED
    BY <2>1, <2>2
<1>2. SUBSET S \subseteq P
  <2>. HIDE DEF P
  <2>. QED
    BY <1>1, SubsetInduction
<1>. QED
  BY <1>2

\* An element is at most the sum of the natural numbers it is one of.
LEMMA SumAtLeast ==
    ASSUME NEW f, NEW S, IsFiniteSet(S), \A y \in S : f[y] \in Nat, NEW x \in S
    PROVE  f[x] <= SumFunctionOnSet(f, S)
<1>1. SumFunctionOnSet(f, S) = f[x] + SumFunctionOnSet(f, S \ {x})
  BY SumWithout
<1>2. SumFunctionOnSet(f, S \ {x}) \in Nat
  <2>1. IsFiniteSet(S \ {x}) /\ \A y \in S \ {x} : f[y] \in Nat
    BY FS_RemoveElement
  <2>. QED
    BY <2>1, SumOfNaturals
<1>. QED
  BY <1>1, <1>2

\* Of the sums of a function and of one that differs from it in one element.
LEMMA SumWithOther ==
    ASSUME NEW S, IsFiniteSet(S), NEW x \in S,
           NEW f, \A y \in S : f[y] \in Int,
           NEW k, \A y \in S : k[y] \in Int,
           \A y \in S \ {x} : k[y] = f[y]
    PROVE  SumFunctionOnSet(k, S) = SumFunctionOnSet(f, S) - f[x] + k[x]
<1>1. SumFunctionOnSet(f, S) = f[x] + SumFunctionOnSet(f, S \ {x})
  BY SumWithout
<1>2. SumFunctionOnSet(k, S) = k[x] + SumFunctionOnSet(k, S \ {x})
  BY SumWithout
<1>3. IsFiniteSet(S \ {x}) /\ \A y \in S \ {x} : f[y] \in Int
  BY FS_RemoveElement
<1>4. SumFunctionOnSet(k, S \ {x}) = SumFunctionOnSet(f, S \ {x})
  BY <1>3, SumOfEquals
<1>5. SumFunctionOnSet(f, S \ {x}) \in Int
  BY <1>3, SumWithout
<1>. QED
  BY <1>1, <1>2, <1>4, <1>5

\* One element more.
LEMMA SumWith ==
    ASSUME NEW S, IsFiniteSet(S), NEW x, x \notin S,
           NEW f, \A y \in S \cup {x} : f[y] \in Int
    PROVE  SumFunctionOnSet(f, S \cup {x}) = f[x] + SumFunctionOnSet(f, S)
<1>1. IsFiniteSet(S \cup {x})
  BY FS_AddElement
<1>2. SumFunctionOnSet(f, S \cup {x})
          = f[x] + SumFunctionOnSet(f, (S \cup {x}) \ {x})
  BY <1>1, SumWithout
<1>3. (S \cup {x}) \ {x} = S
  OBVIOUS
<1>. QED
  BY <1>2, <1>3

\* The sum over two sets that share nothing.
LEMMA SumOfTwo ==
    ASSUME NEW f, NEW S, IsFiniteSet(S), NEW T, IsFiniteSet(T), S \cap T = {},
           \A x \in S \cup T : f[x] \in Int
    PROVE  SumFunctionOnSet(f, S \cup T) = SumFunctionOnSet(f, S) + SumFunctionOnSet(f, T)
<1> DEFINE P == {U \in SUBSET T : SumFunctionOnSet(f, S \cup U)
                     = SumFunctionOnSet(f, S) + SumFunctionOnSet(f, U)}
<1>1. SumFunctionOnSet(f, S) \in Int
  BY SumWithout
<1>2. ASSUME NEW U \in SUBSET T, \A V \in SUBSET U : V # U => V \in P
      PROVE  U \in P
  <2>1. CASE U = {}
    <3>1. S \cup U = S
      BY <2>1
    <3>2. SumFunctionOnSet(f, U) = 0
      BY <2>1, SumOfNothing
    <3>3. SumFunctionOnSet(f, S \cup U) = SumFunctionOnSet(f, S)
      BY <3>1
    <3>4. SumFunctionOnSet(f, S) = SumFunctionOnSet(f, S) + 0
      BY <1>1
    <3>. QED
      BY <3>2, <3>3, <3>4
  <2>2. CASE U # {}
    <3>1. PICK x \in U : TRUE
      BY <2>2
    <3>2. U \ {x} \in P
      BY <1>2, <3>1
    <3>3. IsFiniteSet(U) /\ IsFiniteSet(S \cup U)
      BY FS_Subset, FS_Union
    <3>4. /\ \A y \in U : f[y] \in Int
          /\ \A y \in S \cup U : f[y] \in Int
          /\ x \in S \cup U /\ f[x] \in Int /\ (S \cup U) \ {x} = S \cup (U \ {x})
      OBVIOUS
    <3>5. SumFunctionOnSet(f, U) = f[x] + SumFunctionOnSet(f, U \ {x})
      BY <3>1, <3>3, <3>4, SumWithout
    <3>6. SumFunctionOnSet(f, S \cup U) = f[x] + SumFunctionOnSet(f, (S \cup U) \ {x})
      BY <3>3, <3>4, SumWithout
    <3>7. SumFunctionOnSet(f, U \ {x}) \in Int
      <4>1. IsFiniteSet(U \ {x}) /\ \A y \in U \ {x} : f[y] \in Int
        BY <3>3, <3>4, FS_Subset
      <4>. QED
        BY <4>1, SumWithout
    <3>8. SumFunctionOnSet(f, S \cup (U \ {x}))
              = SumFunctionOnSet(f, S) + SumFunctionOnSet(f, U \ {x})
      BY <3>2
    <3>9. SumFunctionOnSet(f, S \cup U) = SumFunctionOnSet(f, S) + SumFunctionOnSet(f, U)
      <4> DEFINE s == SumFunctionOnSet(f, S)
                 u == SumFunctionOnSet(f, U)
                 v == SumFunctionOnSet(f, S \cup U)
                 rest == SumFunctionOnSet(f, U \ {x})
      <4>1. v = f[x] + SumFunctionOnSet(f, S \cup (U \ {x}))
        BY <3>4, <3>6
      <4>2. u = f[x] + rest /\ v = f[x] + (s + rest)
        BY <3>5, <3>8, <4>1
      <4>3. s \in Int /\ rest \in Int /\ f[x] \in Int
        BY <1>1, <3>4, <3>7
      <4>4. v = s + u
        <5>. HIDE DEF s, u, v, rest
        <5>. QED
          BY <4>2, <4>3
      <4>. QED
        BY <4>4
    <3>. QED
      BY <3>9
  <2>. QED
    BY <2>1, <2>2
<1>3. SUBSET T \subseteq P
  <2>. HIDE DEF P
  <2>. QED
    BY <1>2, SubsetInduction
<1>. QED
  BY <1>3

\* The sum over a set that two others cover.
LEMMA SumCovered ==
    ASSUME NEW f, NEW S, IsFiniteSet(S), NEW T, IsFiniteSet(T),
           \A x \in S \cup T : f[x] \in Nat, NEW U \in SUBSET (S \cup T)
    PROVE  SumFunctionOnSet(f, U) <= SumFunctionOnSet(f, S) + SumFunctionOnSet(f, T)
<1>1. ASSUME NEW V \in SUBSET (S \cup T), NEW W \in SUBSET V
      PROVE  /\ SumFunctionOnSet(f, W) \in Nat /\ SumFunctionOnSet(f, V) \in Nat
             /\ SumFunctionOnSet(f, V) = SumFunctionOnSet(f, W) + SumFunctionOnSet(f, V \ W)
             /\ SumFunctionOnSet(f, W) <= SumFunctionOnSet(f, V)
  <2>1. IsFiniteSet(V) /\ IsFiniteSet(W) /\ IsFiniteSet(V \ W)
    <3>1. IsFiniteSet(S \cup T)
      BY FS_Union
    <3>2. V \subseteq S \cup T /\ W \subseteq S \cup T /\ V \ W \subseteq S \cup T
      OBVIOUS
    <3>. QED
      BY <3>1, <3>2, FS_Subset
  <2>2. /\ \A x \in V : f[x] \in Nat
        /\ \A x \in W : f[x] \in Nat
        /\ \A x \in V \ W : f[x] \in Nat
    OBVIOUS
  <2>3. /\ SumFunctionOnSet(f, W) \in Nat
        /\ SumFunctionOnSet(f, V) \in Nat
        /\ SumFunctionOnSet(f, V \ W) \in Nat
    BY <2>1, <2>2, SumOfNaturals
  <2>4. W \cup (V \ W) = V /\ W \cap (V \ W) = {} /\ \A x \in W \cup (V \ W) : f[x] \in Int
    BY <2>2
  <2>5. SumFunctionOnSet(f, W \cup (V \ W))
            = SumFunctionOnSet(f, W) + SumFunctionOnSet(f, V \ W)
    BY <2>1, <2>4, SumOfTwo
  <2>. QED
    BY <2>3, <2>4, <2>5
<1>2. SumFunctionOnSet(f, U) = SumFunctionOnSet(f, U \cap S) + SumFunctionOnSet(f, U \ S)
  <2>1. U \ (U \cap S) = U \ S
    OBVIOUS
  <2>. QED
    BY <1>1, <2>1
<1>3. SumFunctionOnSet(f, U \cap S) <= SumFunctionOnSet(f, S)
      /\ SumFunctionOnSet(f, U \cap S) \in Nat /\ SumFunctionOnSet(f, S) \in Nat
  BY <1>1
<1>4. SumFunctionOnSet(f, U \ S) <= SumFunctionOnSet(f, T)
      /\ SumFunctionOnSet(f, U \ S) \in Nat /\ SumFunctionOnSet(f, T) \in Nat
  <2>1. U \ S \in SUBSET T /\ T \in SUBSET (S \cup T)
    OBVIOUS
  <2>. QED
    BY <1>1, <2>1
<1>. QED
  BY <1>2, <1>3, <1>4

----------------------------------------------------------------------------
(* Filtered and sorted slices.                                             *)

\* A relation that may order a sort of S: asymmetric, and who is not comparable to
\* either of two is on no side of them.
IsOrdering(before, S) ==
    /\ \A a, b \in S : <<a, b>> \in before => <<b, a>> \notin before
    /\ \A a, b, c \in S :
           <<a, b>> \in before => <<a, c>> \in before \/ <<c, b>> \in before

\* A stable order leaves no two places undecided, and goes one way.
LEMMA PrecedesIsOrder ==
    ASSUME NEW S \in SUBSET Int, NEW before, IsOrdering(before, S)
    PROVE  /\ \A i \in S : ~Precedes(before, i, i)
           /\ \A i, j \in S : i # j => Precedes(before, i, j) \/ Precedes(before, j, i)
           /\ \A i, j \in S : Precedes(before, i, j) => ~Precedes(before, j, i)
           /\ \A i, j, k \in S :
                  Precedes(before, i, j) /\ Precedes(before, j, k) => Precedes(before, i, k)
<1>1. \A i \in S : ~Precedes(before, i, i)
  BY DEF Precedes, IsOrdering
<1>2. ASSUME NEW i \in S, NEW j \in S
      PROVE  i # j => Precedes(before, i, j) \/ Precedes(before, j, i)
  <2>1. i \in Int /\ j \in Int
    OBVIOUS
  <2>. QED
    BY <2>1 DEF Precedes, IsOrdering
<1>3. ASSUME NEW i \in S, NEW j \in S, Precedes(before, i, j)
      PROVE  ~Precedes(before, j, i)
  <2>1. i \in Int /\ j \in Int
    OBVIOUS
  <2>. QED
    BY <1>3, <2>1 DEF Precedes, IsOrdering
<1>4. ASSUME NEW i \in S, NEW j \in S, NEW k \in S,
             Precedes(before, i, j), Precedes(before, j, k)
      PROVE  Precedes(before, i, k)
  <2>1. i \in Int /\ j \in Int /\ k \in Int
    OBVIOUS
  <2>2. CASE <<i, j>> \in before
    BY <1>4, <2>1, <2>2 DEF Precedes, IsOrdering
  <2>3. CASE <<j, k>> \in before
    BY <1>4, <2>1, <2>3 DEF Precedes, IsOrdering
  <2>4. CASE <<i, j>> \notin before /\ <<j, k>> \notin before
    BY <1>4, <2>1, <2>4 DEF Precedes, IsOrdering
  <2>. QED
    BY <2>2, <2>3, <2>4
<1>. QED
  BY <1>1, <1>2, <1>3, <1>4

\* What precedes has fewer before it.
LEMMA PrecedingGrows ==
    ASSUME NEW S \in SUBSET Int, IsFiniteSet(S), NEW before, IsOrdering(before, S)
    PROVE  /\ \A i \in S : Preceding(S, before, i) \in 0..(Cardinality(S) - 1)
           /\ \A i, j \in S : Precedes(before, i, j)
                  => Preceding(S, before, i) < Preceding(S, before, j)
<1> DEFINE B(i) == {j \in S : Precedes(before, j, i)}
<1>1. \A i \in S : /\ B(i) \subseteq S /\ i \notin B(i)
                   /\ IsFiniteSet(B(i)) /\ Cardinality(B(i)) \in Nat
                   /\ Preceding(S, before, i) = Cardinality(B(i))
  <2>1. \A i \in S : i \notin B(i)
    BY PrecedesIsOrder
  <2>2. \A i \in S : IsFiniteSet(B(i)) /\ Cardinality(B(i)) \in Nat
    BY FS_Subset, FS_CardinalityType
  <2>. QED
    BY <2>1, <2>2 DEF Preceding
<1>2. ASSUME NEW i \in S PROVE Preceding(S, before, i) \in 0..(Cardinality(S) - 1)
  <2>1. /\ Cardinality(B(i)) <= Cardinality(S) /\ Cardinality(B(i)) # Cardinality(S)
        /\ Cardinality(S) \in Nat
    BY <1>1, FS_Subset, FS_CardinalityType
  <2>. QED
    BY <1>1, <2>1
<1>3. ASSUME NEW i \in S, NEW j \in S, Precedes(before, i, j)
      PROVE  Preceding(S, before, i) < Preceding(S, before, j)
  <2>1. B(i) \subseteq B(j) /\ i \in B(j) /\ i \notin B(i)
    BY <1>1, <1>3, PrecedesIsOrder
  <2>2. Cardinality(B(i)) <= Cardinality(B(j)) /\ Cardinality(B(i)) # Cardinality(B(j))
    <3>. HIDE DEF B
    <3>. QED
      BY <1>1, <2>1, FS_Subset
  <2>. QED
    BY <1>1, <2>2
<1>. QED
  BY <1>2, <1>3

\* The arrangement of places is one of all of them, each once, in the order.
LEMMA ArrangedIsOrder ==
    ASSUME NEW S \in SUBSET Int, IsFiniteSet(S), NEW before, IsOrdering(before, S)
    PROVE  /\ Arranged(S, before) \in Bijection(1..Cardinality(S), S)
           /\ \A p, q \in 1..Cardinality(S) :
                  p < q => Precedes(before, Arranged(S, before)[p], Arranged(S, before)[q])
<1> DEFINE n == Cardinality(S)
           rank == [i \in S |-> Preceding(S, before, i) + 1]
           arr == Arranged(S, before)
<1>1. n \in Nat
  BY FS_CardinalityType
<1>2. rank \in [S -> 1..n]
  BY <1>1, PrecedingGrows
<1>3. \A i, j \in S : rank[i] = rank[j] => i = j
  <2>1. SUFFICES ASSUME NEW i \in S, NEW j \in S, rank[i] = rank[j], i # j PROVE FALSE
    OBVIOUS
  <2>2. Precedes(before, i, j) \/ Precedes(before, j, i)
    BY <2>1, PrecedesIsOrder
  <2>3. rank[i] < rank[j] \/ rank[j] < rank[i]
    BY <2>2, PrecedingGrows
  <2>. QED
    BY <1>2, <2>1, <2>3
<1>4. rank \in Surjection(S, 1..n)
  <2>1. rank \in Injection(S, 1..n)
    BY <1>2, <1>3, Fun_IsInj
  <2>2. IsFiniteSet(1..n) /\ Cardinality(1..n) = n
    BY <1>1, FS_Interval
  <2>. QED
    BY <2>1, <2>2, FS_Injection
<1>5. \A p \in 1..n : \E i \in S : rank[i] = p
  <2>. HIDE DEF rank
  <2>. QED
    BY <1>4, Fun_SurjectionProperties
<1>6. \A p \in 1..n : arr[p] \in S /\ rank[arr[p]] = p
  <2>1. TAKE p \in 1..n
  <2>2. \E i \in S : Preceding(S, before, i) = p - 1
    <3>1. PICK i \in S : rank[i] = p
      BY <1>5
    <3>2. Preceding(S, before, i) \in Nat
      BY PrecedingGrows
    <3>. QED
      BY <3>1, <3>2
  <2>3. arr[p] \in S /\ Preceding(S, before, arr[p]) = p - 1
    BY <2>2 DEF Arranged
  <2>. QED
    BY <2>3
<1>7. arr \in [1..n -> S]
  BY <1>6 DEF Arranged
<1>. HIDE DEF arr, rank, n
<1>8. \A p, q \in 1..n : arr[p] = arr[q] => p = q
  BY <1>6
<1>9. \A i \in S : \E p \in 1..n : arr[p] = i
  BY <1>2, <1>3, <1>6
<1>10. arr \in Bijection(1..n, S)
  BY <1>7, <1>8, <1>9, Fun_IsBij
<1>11. ASSUME NEW p \in 1..n, NEW q \in 1..n, p < q
       PROVE  Precedes(before, arr[p], arr[q])
  <2>1. arr[p] # arr[q]
    BY <1>6, <1>11
  <2>2. ASSUME Precedes(before, arr[q], arr[p]) PROVE FALSE
    <3>1. arr[p] \in S /\ arr[q] \in S
      BY <1>6
    <3>2. Preceding(S, before, arr[q]) < Preceding(S, before, arr[p])
      BY <2>2, <3>1, PrecedingGrows
    <3>3. Preceding(S, before, arr[q]) + 1 = q /\ Preceding(S, before, arr[p]) + 1 = p
      BY <1>6 DEF rank
    <3>4. Preceding(S, before, arr[q]) \in Int /\ Preceding(S, before, arr[p]) \in Int
      <4>1. \A i \in S : Preceding(S, before, i) \in 0..(Cardinality(S) - 1)
        BY PrecedingGrows
      <4>2. \A i \in S : Preceding(S, before, i) \in Int
        BY <1>1, <4>1 DEF n
      <4>. QED
        BY <3>1, <4>2
    <3>. QED
      BY <1>1, <1>11, <3>2, <3>3, <3>4
  <2>3. ~Precedes(before, arr[q], arr[p])
    BY <2>2
  <2>. QED
    BY <1>6, <2>1, <2>3, PrecedesIsOrder
<1>. QED
  BY <1>10, <1>11 DEF arr, n

\* f runs through a set, over each element once.
Enumerates(f, n, S) ==
    /\ f \in [1..n -> S]
    /\ \A p, q \in 1..n : f[p] = f[q] => p = q
    /\ \A k \in S : \E p \in 1..n : f[p] = k

\* A bijection does so.
LEMMA BijectionEnumerates ==
    ASSUME NEW n, NEW S, NEW f \in Bijection(1..n, S)
    PROVE  Enumerates(f, n, S)
<1>1. f \in [1..n -> S] /\ \A k \in S : \E p \in 1..n : f[p] = k
  BY DEF Bijection, Surjection
<1>2. \A p, q \in 1..n : f[p] = f[q] => p = q
  BY <1>1 DEF Bijection, Injection, IsInjective
<1>. QED
  BY <1>1, <1>2 DEF Enumerates

\* One after the other runs through the set of the last.
LEMMA EnumeratesTwice ==
    ASSUME NEW n, NEW S, NEW f, Enumerates(f, n, S), NEW g, Enumerates(g, n, 1..n)
    PROVE  Enumerates([p \in 1..n |-> f[g[p]]], n, S)
<1> DEFINE h == [p \in 1..n |-> f[g[p]]]
<1>1. h \in [1..n -> S]
  BY DEF Enumerates
<1>2. ASSUME NEW p \in 1..n, NEW q \in 1..n, h[p] = h[q] PROVE p = q
  <2>1. f[g[p]] = f[g[q]] /\ g[p] \in 1..n /\ g[q] \in 1..n
    BY <1>2 DEF Enumerates
  <2>. QED
    BY <2>1 DEF Enumerates
<1>3. ASSUME NEW k \in S PROVE \E p \in 1..n : h[p] = k
  <2>1. PICK a \in 1..n : f[a] = k
    BY DEF Enumerates
  <2>2. PICK p \in 1..n : g[p] = a
    BY DEF Enumerates
  <2>. QED
    BY <2>1, <2>2
<1>. QED
  BY <1>1, <1>2, <1>3 DEF Enumerates

\* What a filter keeps are the elements at those places, in the order of the places.
LEMMA KeptIsOrder ==
    ASSUME NEW s, NEW S \in SUBSET Int, IsFiniteSet(S)
    PROVE  \E f :
               /\ Enumerates(f, Cardinality(S), S)
               /\ \A p, q \in 1..Cardinality(S) : p < q => f[p] < f[q]
               /\ Kept(s, S) = [p \in 1..Cardinality(S) |-> s[f[p]]]
<1> DEFINE f == Arranged(S, {})
<1>1. IsOrdering({}, S)
  BY DEF IsOrdering
<1>2. /\ f \in Bijection(1..Cardinality(S), S)
      /\ \A p, q \in 1..Cardinality(S) : p < q => Precedes({}, f[p], f[q])
  BY <1>1, ArrangedIsOrder
<1>3. \A p, q \in 1..Cardinality(S) : p < q => f[p] < f[q]
  BY <1>2 DEF Precedes
<1>4. Kept(s, S) = [p \in 1..Cardinality(S) |-> s[f[p]]]
  BY DEF Kept
<1>. HIDE DEF f
<1>5. Enumerates(f, Cardinality(S), S)
  BY <1>2, BijectionEnumerates
<1>. QED
  BY <1>3, <1>4, <1>5

\* A sort puts the elements in the order.
LEMMA SortedIsOrder ==
    ASSUME NEW n \in Nat, NEW s, DOMAIN s = 1..n, NEW before, IsOrdering(before, 1..n)
    PROVE  \E f :
               /\ Enumerates(f, n, 1..n)
               /\ \A p, q \in 1..n : p < q => Precedes(before, f[p], f[q])
               /\ Sorted(s, before) = [p \in 1..n |-> s[f[p]]]
<1> DEFINE f == Arranged(1..n, before)
<1>1. IsFiniteSet(1..n) /\ Cardinality(1..n) = n
  BY FS_Interval
<1>2. /\ f \in Bijection(1..n, 1..n)
      /\ \A p, q \in 1..n : p < q => Precedes(before, f[p], f[q])
  <2>1. 1..n \in SUBSET Int
    OBVIOUS
  <2>. QED
    BY <1>1, <2>1, ArrangedIsOrder
<1>3. Sorted(s, before) = [p \in 1..n |-> s[f[p]]]
  BY DEF Sorted
<1>. HIDE DEF f
<1>4. Enumerates(f, n, 1..n)
  BY <1>2, BijectionEnumerates
<1>. QED
  BY <1>2, <1>3, <1>4

============================================================================
