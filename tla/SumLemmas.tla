------------------------------ MODULE SumLemmas ------------------------------
(***************************************************************************)
(* Facts about the sum of an integer function over a finite set, the       *)
(* operator SumFunctionOnSet in which the modules of this project write    *)
(* balances, deltas, rewards and commissions.  Induction is by a minimal   *)
(* counterexample, with the induction hypothesis as membership in a set.   *)
(***************************************************************************)
EXTENDS Integers, FiniteSets, Functions, FiniteSetTheorems, TLAPS

\* A set of natural numbers that is not empty has a least element.
LEMMA NatMin ==
    ASSUME NEW T, T \subseteq Nat, T # {}
    PROVE  \E x \in T : \A y \in T : x <= y
<1>. DEFINE R == {ss \in Nat \X Nat : ss[1] < ss[2]}
<1>1. IsWellFoundedOn(R, Nat)
  BY NatLessThanWellFounded DEF OpToRel
<1>2. ASSUME NEW x \in Nat, NEW y \in Nat, y < x PROVE <<y, x>> \in R
  <2>1. <<y, x>> \in Nat \X Nat
    OBVIOUS
  <2>2. <<y, x>>[1] < <<y, x>>[2]
    BY <1>2
  <2>. QED
    BY <2>1, <2>2, Zenon
<1>. HIDE DEF R
<1>3. PICK x \in T : \A y \in T : ~ (<<y, x>> \in R)
  BY <1>1, WFMin, Zenon
<1>4. ASSUME NEW y \in T PROVE ~(y < x)
  BY <1>2, <1>3, <1>4, Zenon
<1>5. ASSUME NEW y \in T PROVE x <= y
  BY <1>4, <1>5
<1>. QED
  BY <1>5

\* Induction over the natural numbers for a property given as a set.
LEMMA NatInd ==
    ASSUME NEW S, 0 \in S, \A n \in Nat : n \in S => n + 1 \in S
    PROVE  Nat \subseteq S
<1>1. SUFFICES ASSUME NEW n \in Nat, n \notin S PROVE FALSE
  OBVIOUS
<1>. DEFINE T == {k \in Nat : k \notin S}
<1>2. PICK x \in T : \A y \in T : x <= y
  BY <1>1, NatMin, Zenon
<1>3. x # 0
  BY <1>2
<1>4. x - 1 \in Nat /\ x - 1 \notin T
  BY <1>2, <1>3
<1>. QED
  BY <1>4, <1>2

\* One element less, one element more.
LEMMA RemoveOne ==
    ASSUME NEW S, NEW x \in S, IsFiniteSet(S)
    PROVE  /\ IsFiniteSet(S \ {x}) /\ Cardinality(S \ {x}) \in Nat
           /\ Cardinality(S \ {x}) = Cardinality(S) - 1
<1>1. /\ IsFiniteSet(S \ {x})
      /\ Cardinality(S \ {x}) = IF x \in S THEN Cardinality(S) - 1 ELSE Cardinality(S)
  BY FS_RemoveElement
<1>2. Cardinality(S \ {x}) \in Nat
  BY <1>1, FS_CardinalityType
<1>. QED
  BY <1>1, <1>2

\* A set with one more element is finite and at most one larger.
LEMMA AddOne ==
    ASSUME NEW S, NEW x, IsFiniteSet(S)
    PROVE  /\ IsFiniteSet(S \cup {x}) /\ Cardinality(S \cup {x}) \in Nat
           /\ Cardinality(S \cup {x}) <= Cardinality(S) + 1
<1>1. Cardinality(S) \in Nat
  BY FS_CardinalityType
<1>2. /\ IsFiniteSet(S \cup {x})
      /\ Cardinality(S \cup {x}) = IF x \in S THEN Cardinality(S) ELSE Cardinality(S) + 1
  BY FS_AddElement
<1>. QED
  BY <1>1, <1>2

\* Induction over the subsets of a finite set, by adding an element.
LEMMA SetInd ==
    ASSUME NEW S, IsFiniteSet(S), NEW P, {} \in P,
           \A T \in SUBSET S : \A x \in S \ T : T \in P => T \cup {x} \in P
    PROVE  SUBSET S \subseteq P
<1>. DEFINE Good == {n \in Nat : \A T \in SUBSET S : Cardinality(T) = n => T \in P}
<1>1. \A T \in SUBSET S : IsFiniteSet(T) /\ Cardinality(T) \in Nat
  BY FS_Subset, FS_CardinalityType
<1>2. 0 \in Good
  BY <1>1, FS_EmptySet, SMTT(30)
<1>3. ASSUME NEW n \in Nat, n \in Good PROVE n + 1 \in Good
  <2>. SUFFICES ASSUME NEW T \in SUBSET S, Cardinality(T) = n + 1 PROVE T \in P
    BY <1>3
  <2>1. T # {}
    <3>1. IsFiniteSet(T) /\ Cardinality(T) # 0
      BY <1>1
    <3>. QED
      BY <3>1, FS_EmptySet
  <2>2. PICK x \in T : TRUE
    BY <2>1
  <2>3. Cardinality(T \ {x}) = n
    BY <1>1, RemoveOne, SMTT(30)
  <2>4. T \ {x} \in P
    BY <1>3, <2>3
  <2>5. (T \ {x}) \cup {x} = T /\ x \in S \ (T \ {x}) /\ T \ {x} \in SUBSET S
    BY <2>2
  <2>. QED
    BY <2>4, <2>5
<1>. HIDE DEF Good
<1>4. Nat \subseteq Good
  BY <1>2, <1>3, NatInd
<1>. QED
  BY <1>1, <1>4 DEF Good
------------------------------------------------------------------------------
(***************************************************************************)
(* The recursion of the fold                                               *)
(***************************************************************************)
Pick(s) == CHOOSE x \in s : TRUE
FoldStep(f, g, s) == IF s = {} THEN 0 ELSE f[Pick(s)] + g[s \ {Pick(s)}]
IsFold(f, S, g) == g = [s \in SUBSET S |-> FoldStep(f, g, s)]

\* The definition, in these terms.
LEMMA SumUnfold ==
    ASSUME NEW f, NEW S
    PROVE  SumFunctionOnSet(f, S) = (CHOOSE g : IsFold(f, S, g))[S]
BY DEF SumFunctionOnSet, FoldFunctionOnSet, MapThenFoldSet, IsFold, FoldStep, Pick

\* The element that the fold takes out of a set is one of its elements.
LEMMA PickIn == ASSUME NEW s, s # {} PROVE Pick(s) \in s
BY DEF Pick

\* The fold exists on a finite set, by induction on the size of the subsets.
LEMMA FoldExists ==
    ASSUME NEW f, NEW S, IsFiniteSet(S) PROVE \E g : IsFold(f, S, g)
<1>. DEFINE U(n) == {s \in SUBSET S : Cardinality(s) <= n}
            Good == {n \in Nat : \E g : g = [s \in U(n) |-> FoldStep(f, g, s)]}
<1>1. \A T \in SUBSET S : IsFiniteSet(T) /\ Cardinality(T) \in Nat
  BY FS_Subset, FS_CardinalityType
<1>2. 0 \in Good
  <2>1. \A s \in U(0) : s = {}
    BY <1>1, FS_EmptySet
  <2>. DEFINE g == [s \in U(0) |-> 0]
  <2>2. g = [s \in U(0) |-> FoldStep(f, g, s)]
    BY <2>1 DEF FoldStep
  <2>. QED
    BY <2>2, Zenon
<1>3. ASSUME NEW n \in Nat, n \in Good PROVE n + 1 \in Good
  <2>1. PICK g : g = [s \in U(n) |-> FoldStep(f, g, s)]
    BY <1>3, Zenon
  <2>. DEFINE h == [s \in U(n + 1) |-> FoldStep(f, g, s)]
  <2>2. ASSUME NEW s \in U(n + 1) PROVE FoldStep(f, g, s) = FoldStep(f, h, s)
    <3>1. CASE s = {}
      BY <3>1 DEF FoldStep
    <3>2. CASE s # {}
      <4>. DEFINE t == s \ {Pick(s)}
      <4>1. t \in SUBSET S /\ Cardinality(t) <= n
        <5>1. Pick(s) \in s
          BY <3>2, PickIn
        <5>2. Cardinality(t) = Cardinality(s) - 1
          BY <1>1, <5>1, RemoveOne
        <5>. QED
          BY <1>1, <5>2
      <4>2. t \in U(n) /\ t \in U(n + 1)
        BY <1>1, <4>1
      <4>3. g[t] = FoldStep(f, g, t) /\ h[t] = FoldStep(f, g, t)
        BY <2>1, <4>2
      <4>. QED
        BY <3>2, <4>3 DEF FoldStep
    <3>. QED
      BY <3>1, <3>2
  <2>3. h = [s \in U(n + 1) |-> FoldStep(f, h, s)]
    BY <2>2
  <2>4. \E k : k = [s \in U(n + 1) |-> FoldStep(f, k, s)]
    <3>. HIDE DEF h
    <3>. QED
      BY <2>3, Zenon
  <2>5. n + 1 \in Nat
    OBVIOUS
  <2>. QED
    BY <2>4, <2>5, Zenon
<1>4. Nat \subseteq Good
  <2>. HIDE DEF Good
  <2>. QED
    BY <1>2, <1>3, NatInd
<1>5. Cardinality(S) \in Good
  BY <1>1, <1>4, Zenon
<1>6. U(Cardinality(S)) = SUBSET S
  BY <1>1, FS_Subset
<1>. QED
  BY <1>5, <1>6, Zenon DEF IsFold

\* A fold on a set and one on a subset of it agree where both are defined.
LEMMA FoldAgree ==
    ASSUME NEW f, NEW S, IsFiniteSet(S), NEW T, T \in SUBSET S,
           NEW g, NEW h, IsFold(f, S, g), IsFold(f, T, h), NEW s \in SUBSET T
    PROVE  g[s] = h[s]
<1>. DEFINE Good == {n \in Nat : \A t \in SUBSET T : Cardinality(t) = n => g[t] = h[t]}
<1>1. \A t \in SUBSET S : IsFiniteSet(t) /\ Cardinality(t) \in Nat
  BY FS_Subset, FS_CardinalityType
<1>2. \A t \in SUBSET T : g[t] = FoldStep(f, g, t) /\ h[t] = FoldStep(f, h, t)
  BY DEF IsFold
<1>3. 0 \in Good
  <2>1. \A t \in SUBSET T : Cardinality(t) = 0 => t = {}
    BY <1>1, FS_EmptySet
  <2>. QED
    BY <1>2, <2>1 DEF FoldStep
<1>4. ASSUME NEW n \in Nat, n \in Good PROVE n + 1 \in Good
  <2>. SUFFICES ASSUME NEW t \in SUBSET T, Cardinality(t) = n + 1 PROVE g[t] = h[t]
    BY <1>4
  <2>1. IsFiniteSet(t) /\ t # {}
    <3>1. IsFiniteSet(t) /\ Cardinality(t) # 0
      BY <1>1
    <3>. QED
      BY <3>1, FS_EmptySet
  <2>2. Pick(t) \in t
    BY <2>1, PickIn
  <2>3. Cardinality(t \ {Pick(t)}) = n
    BY <2>1, <2>2, RemoveOne
  <2>4. g[t \ {Pick(t)}] = h[t \ {Pick(t)}]
    BY <1>4, <2>3
  <2>. QED
    BY <1>2, <2>1, <2>4 DEF FoldStep
<1>. HIDE DEF Good
<1>5. Nat \subseteq Good
  BY <1>3, <1>4, NatInd
<1>. QED
  BY <1>1, <1>5 DEF Good

\* The sum is the value of such a fold.
LEMMA SumFold ==
    ASSUME NEW f, NEW S, IsFiniteSet(S)
    PROVE  \E g : IsFold(f, S, g) /\ SumFunctionOnSet(f, S) = g[S]
<1>1. \E g : IsFold(f, S, g)
  BY FoldExists
<1>2. IsFold(f, S, CHOOSE g : IsFold(f, S, g))
  BY <1>1
<1>. QED
  BY <1>2, SumUnfold, Zenon

\* The sum over no elements is zero.
LEMMA SumEmpty == ASSUME NEW f PROVE SumFunctionOnSet(f, {}) = 0
<1>1. PICK g : IsFold(f, {}, g) /\ SumFunctionOnSet(f, {}) = g[{}]
  BY SumFold, FS_EmptySet
<1>. QED
  BY <1>1 DEF IsFold, FoldStep

\* The sum over a set is one value and the sum over the others.
LEMMA SumPick ==
    ASSUME NEW f, NEW S, IsFiniteSet(S), S # {}
    PROVE  SumFunctionOnSet(f, S) = f[Pick(S)] + SumFunctionOnSet(f, S \ {Pick(S)})
<1>1. PICK T : T = S \ {Pick(S)}
  BY Zenon
<1>2. IsFiniteSet(T) /\ T \in SUBSET S /\ T \in SUBSET T
  BY <1>1, FS_Subset
<1>3. PICK c : IsFold(f, S, c) /\ SumFunctionOnSet(f, S) = c[S]
  BY SumFold
<1>4. PICK d : IsFold(f, T, d) /\ SumFunctionOnSet(f, T) = d[T]
  BY <1>2, SumFold
<1>5. c[T] = d[T]
  BY <1>2, <1>3, <1>4, FoldAgree
<1>6. c[S] = f[Pick(S)] + c[T]
  BY <1>1, <1>3, Zenon DEF IsFold, FoldStep
<1>. QED
  BY <1>1, <1>3, <1>4, <1>5, <1>6
------------------------------------------------------------------------------
(***************************************************************************)
(* What the models' proofs use                                             *)
(***************************************************************************)
\* The sum of integers is an integer, and the element that is taken first
\* does not matter: both by induction on the size of the set.
LEMMA SumOrder ==
    ASSUME NEW f, NEW S, IsFiniteSet(S), \A x \in S : f[x] \in Int
    PROVE  /\ SumFunctionOnSet(f, S) \in Int
           /\ \A x \in S :
                SumFunctionOnSet(f, S) = f[x] + SumFunctionOnSet(f, S \ {x})
<1>. DEFINE Sm(T) == SumFunctionOnSet(f, T)
            Fine(T) == Sm(T) \in Int /\ \A x \in T : Sm(T) = f[x] + Sm(T \ {x})
            Good == {n \in Nat : \A T \in SUBSET S : Cardinality(T) <= n => Fine(T)}
<1>1. \A T \in SUBSET S : IsFiniteSet(T) /\ Cardinality(T) \in Nat
  BY FS_Subset, FS_CardinalityType
<1>2. 0 \in Good
  <2>1. \A T \in SUBSET S : Cardinality(T) <= 0 => T = {}
    BY <1>1, FS_EmptySet
  <2>2. Fine({})
    BY SumEmpty
  <2>. HIDE DEF Fine
  <2>. QED
    BY <2>1, <2>2
<1>3. ASSUME NEW n \in Nat, n \in Good PROVE n + 1 \in Good
  <2>1. ASSUME NEW T \in SUBSET S, Cardinality(T) <= n + 1, T # {} PROVE Fine(T)
    <3>. DEFINE p == Pick(T)
    <3>1. p \in T /\ IsFiniteSet(T) /\ Cardinality(T) \in Nat
      BY <1>1, <2>1, PickIn
    <3>2. ASSUME NEW x \in T PROVE Fine(T \ {x})
      <4>1. Cardinality(T \ {x}) = Cardinality(T) - 1 /\ T \ {x} \in SUBSET S
        BY <3>1, RemoveOne
      <4>2. Cardinality(T \ {x}) <= n
        BY <2>1, <3>1, <4>1
      <4>. HIDE DEF Fine
      <4>. QED
        BY <1>3, <4>1, <4>2
    <3>3. Sm(T) = f[p] + Sm(T \ {p})
      BY <2>1, <3>1, SumPick
    <3>4. f[p] \in Int /\ Sm(T \ {p}) \in Int
      BY <3>1, <3>2
    <3>5. ASSUME NEW x \in T, x # p PROVE Sm(T) = f[x] + Sm(T \ {x})
      <4>1. Sm(T \ {p}) = f[x] + Sm((T \ {p}) \ {x})
        BY <3>1, <3>2, <3>5
      <4>2. Sm(T \ {x}) = f[p] + Sm((T \ {x}) \ {p})
        BY <3>1, <3>2, <3>5
      <4>3. (T \ {p}) \ {x} = (T \ {x}) \ {p}
        OBVIOUS
      <4>4. Fine((T \ {x}) \ {p})
        <5>1. /\ (T \ {x}) \ {p} \in SUBSET S
              /\ Cardinality((T \ {x}) \ {p}) <= n
          <6>1. /\ Cardinality(T \ {x}) = Cardinality(T) - 1
                /\ IsFiniteSet(T \ {x})
            BY <3>1, RemoveOne
          <6>2. p \in T \ {x}
            BY <3>1, <3>5
          <6>3. Cardinality((T \ {x}) \ {p}) = Cardinality(T \ {x}) - 1
            BY <6>1, <6>2, RemoveOne, Zenon
          <6>. QED
            BY <2>1, <3>1, <6>1, <6>3
        <5>. HIDE DEF Fine
        <5>. QED
          BY <1>3, <5>1
      <4>5. f[x] \in Int /\ Sm((T \ {x}) \ {p}) \in Int
        BY <4>4
      <4>6. \A a, b, q \in Int : a + (b + q) = b + (a + q)
        OBVIOUS
      <4>7. f[p] + (f[x] + Sm((T \ {x}) \ {p})) = f[x] + (f[p] + Sm((T \ {x}) \ {p}))
        BY <3>4, <4>5, <4>6, Zenon
      <4>. QED
        BY <3>3, <4>1, <4>2, <4>3, <4>7, Zenon
    <3>6. Sm(T) \in Int
      BY <3>3, <3>4
    <3>7. \A x \in T : Sm(T) = f[x] + Sm(T \ {x})
      BY <3>3, <3>5, Zenon
    <3>. QED
      BY <3>6, <3>7, Zenon
  <2>2. Fine({})
    BY SumEmpty
  <2>3. n + 1 \in Nat
    OBVIOUS
  <2>. HIDE DEF Fine
  <2>. QED
    BY <2>1, <2>2, <2>3
<1>4. Nat \subseteq Good
  <2>. HIDE DEF Good
  <2>. QED
    BY <1>2, <1>3, NatInd
<1>5. Fine(S)
  <2>. HIDE DEF Fine
  <2>. QED
    BY <1>1, <1>4
<1>. QED
  BY <1>5

\* A finite sum of integers is an integer.
LEMMA SumInt ==
    ASSUME NEW f, NEW S, IsFiniteSet(S), \A x \in S : f[x] \in Int
    PROVE  SumFunctionOnSet(f, S) \in Int
BY SumOrder

\* Any element may be the one that is added last.
LEMMA SumRemove ==
    ASSUME NEW f, NEW S, IsFiniteSet(S), \A x \in S : f[x] \in Int, NEW y \in S
    PROVE  SumFunctionOnSet(f, S) = f[y] + SumFunctionOnSet(f, S \ {y})
BY SumOrder

\* Adding an element adds its value.
LEMMA SumAdd ==
    ASSUME NEW f, NEW S, IsFiniteSet(S), NEW x, x \notin S,
           \A y \in S \cup {x} : f[y] \in Int
    PROVE  SumFunctionOnSet(f, S \cup {x}) = f[x] + SumFunctionOnSet(f, S)
<1>1. IsFiniteSet(S \cup {x}) /\ (S \cup {x}) \ {x} = S
  BY AddOne, Zenon
<1>. QED
  BY <1>1, SumRemove
\* Functions that agree on a set have the same sum over it.
LEMMA SumEq ==
    ASSUME NEW S, IsFiniteSet(S), NEW f, NEW g,
           \A x \in S : f[x] \in Int /\ g[x] = f[x]
    PROVE  SumFunctionOnSet(g, S) = SumFunctionOnSet(f, S)
<1>. DEFINE P == {T \in SUBSET S : SumFunctionOnSet(g, T) = SumFunctionOnSet(f, T)}
<1>1. {} \in P
  BY SumEmpty
<1>2. ASSUME NEW T \in SUBSET S, NEW x \in S \ T, T \in P PROVE T \cup {x} \in P
  <2>1. IsFiniteSet(T)
    BY FS_Subset
  <2>2. SumFunctionOnSet(f, T \cup {x}) = f[x] + SumFunctionOnSet(f, T)
    BY <2>1, SumAdd
  <2>3. SumFunctionOnSet(g, T \cup {x}) = g[x] + SumFunctionOnSet(g, T)
    BY <2>1, SumAdd
  <2>. QED
    BY <1>2, <2>2, <2>3
<1>3. SUBSET S \subseteq P
  <2>. HIDE DEF P
  <2>. QED
    BY <1>1, <1>2, SetInd
<1>. QED
  BY <1>3

\* The sum of two functions.
LEMMA SumPlus ==
    ASSUME NEW S, IsFiniteSet(S), NEW f, NEW g, NEW h,
           \A x \in S : f[x] \in Int /\ g[x] \in Int /\ h[x] = f[x] + g[x]
    PROVE  SumFunctionOnSet(h, S) = SumFunctionOnSet(f, S) + SumFunctionOnSet(g, S)
<1>. DEFINE Sm(k, T) == SumFunctionOnSet(k, T)
            P == {T \in SUBSET S : Sm(h, T) = Sm(f, T) + Sm(g, T)}
<1>1. {} \in P
  BY SumEmpty
<1>2. ASSUME NEW T \in SUBSET S, NEW x \in S \ T, T \in P PROVE T \cup {x} \in P
  <2>1. IsFiniteSet(T)
    BY FS_Subset
  <2>2. Sm(f, T \cup {x}) = f[x] + Sm(f, T) /\ Sm(f, T) \in Int
    BY <2>1, SumAdd, SumInt
  <2>3. Sm(g, T \cup {x}) = g[x] + Sm(g, T) /\ Sm(g, T) \in Int
    BY <2>1, SumAdd, SumInt
  <2>4. Sm(h, T \cup {x}) = h[x] + Sm(h, T)
    BY <2>1, SumAdd
  <2>5. /\ f[x] \in Int /\ g[x] \in Int /\ h[x] = f[x] + g[x]
        /\ Sm(h, T) = Sm(f, T) + Sm(g, T)
    BY <1>2
  <2>. HIDE DEF Sm
  <2>6. Sm(h, T \cup {x}) = Sm(f, T \cup {x}) + Sm(g, T \cup {x})
    BY <2>2, <2>3, <2>4, <2>5
  <2>. QED
    BY <2>6
<1>3. SUBSET S \subseteq P
  <2>. HIDE DEF P
  <2>. QED
    BY <1>1, <1>2, SetInd, Zenon
<1>. QED
  BY <1>3

\* The sum over two disjoint sets.
LEMMA SumUnion ==
    ASSUME NEW S, NEW T, IsFiniteSet(S), IsFiniteSet(T), S \cap T = {},
           NEW f, \A x \in S \cup T : f[x] \in Int
    PROVE  SumFunctionOnSet(f, S \cup T) = SumFunctionOnSet(f, S) + SumFunctionOnSet(f, T)
<1>. DEFINE Sm(U) == SumFunctionOnSet(f, U)
            P == {U \in SUBSET T : Sm(S \cup U) = Sm(S) + Sm(U)}
<1>1. {} \in P
  <2>1. S \cup {} = S /\ Sm(S) \in Int /\ Sm({}) = 0
    BY SumEmpty, SumInt
  <2>. HIDE DEF Sm
  <2>. QED
    BY <2>1
<1>2. ASSUME NEW U \in SUBSET T, NEW x \in T \ U, U \in P PROVE U \cup {x} \in P
  <2>1. IsFiniteSet(U) /\ IsFiniteSet(S \cup U)
    BY FS_Subset, FS_Union, Zenon
  <2>2. Sm(U \cup {x}) = f[x] + Sm(U) /\ Sm(U) \in Int
    BY <2>1, SumAdd, SumInt
  <2>3. Sm((S \cup U) \cup {x}) = f[x] + Sm(S \cup U)
    BY <2>1, SumAdd
  <2>4. S \cup (U \cup {x}) = (S \cup U) \cup {x}
    OBVIOUS
  <2>5. f[x] \in Int /\ Sm(S) \in Int /\ Sm(S \cup U) = Sm(S) + Sm(U)
    BY <1>2, SumInt
  <2>6. \A a, b, c \in Int : a + (b + c) = b + (a + c)
    OBVIOUS
  <2>7. Sm(S \cup (U \cup {x})) = f[x] + (Sm(S) + Sm(U))
    BY <2>3, <2>4, <2>5, Zenon
  <2>8. f[x] + (Sm(S) + Sm(U)) = Sm(S) + (f[x] + Sm(U))
    BY <2>2, <2>5, <2>6, Zenon
  <2>9. Sm(S \cup (U \cup {x})) = Sm(S) + Sm(U \cup {x})
    BY <2>2, <2>7, <2>8, Zenon
  <2>. QED
    BY <2>9
<1>3. SUBSET T \subseteq P
  <2>. HIDE DEF P
  <2>. QED
    BY <1>1, <1>2, SetInd
<1>. QED
  BY <1>3
\* The sum over a subset and over the rest.
LEMMA SumSplit ==
    ASSUME NEW S, IsFiniteSet(S), NEW T, T \subseteq S,
           NEW f, \A x \in S : f[x] \in Int
    PROVE  SumFunctionOnSet(f, S) = SumFunctionOnSet(f, T) + SumFunctionOnSet(f, S \ T)
<1>1. /\ IsFiniteSet(T) /\ IsFiniteSet(S \ T) /\ T \cap (S \ T) = {}
      /\ T \cup (S \ T) = S
  BY FS_Subset
<1>2. \A x \in T \cup (S \ T) : f[x] \in Int
  BY <1>1
<1>3. SumFunctionOnSet(f, T \cup (S \ T))
        = SumFunctionOnSet(f, T) + SumFunctionOnSet(f, S \ T)
  BY <1>1, <1>2, SumUnion
<1>. QED
  BY <1>1, <1>3, Zenon

\* A larger function has a larger sum.
LEMMA SumMono ==
    ASSUME NEW S, IsFiniteSet(S), NEW f, NEW g,
           \A x \in S : f[x] \in Int /\ g[x] \in Int /\ f[x] <= g[x]
    PROVE  SumFunctionOnSet(f, S) <= SumFunctionOnSet(g, S)
<1>. DEFINE Sm(k, T) == SumFunctionOnSet(k, T)
            P == {T \in SUBSET S : Sm(f, T) <= Sm(g, T)}
<1>1. {} \in P
  BY SumEmpty
<1>2. ASSUME NEW T \in SUBSET S, NEW x \in S \ T, T \in P PROVE T \cup {x} \in P
  <2>1. IsFiniteSet(T)
    BY FS_Subset
  <2>2. Sm(f, T \cup {x}) = f[x] + Sm(f, T) /\ Sm(f, T) \in Int
    BY <2>1, SumAdd, SumInt
  <2>3. Sm(g, T \cup {x}) = g[x] + Sm(g, T) /\ Sm(g, T) \in Int
    BY <2>1, SumAdd, SumInt
  <2>4. /\ f[x] \in Int /\ g[x] \in Int /\ f[x] <= g[x]
        /\ Sm(f, T) <= Sm(g, T)
    BY <1>2
  <2>. HIDE DEF Sm
  <2>5. Sm(f, T \cup {x}) <= Sm(g, T \cup {x})
    BY <2>2, <2>3, <2>4
  <2>. QED
    BY <2>5
<1>3. SUBSET S \subseteq P
  <2>. HIDE DEF P
  <2>. QED
    BY <1>1, <1>2, SetInd, Zenon
<1>. QED
  BY <1>3

\* Sums of zeros, and of natural numbers.
LEMMA SumZero ==
    ASSUME NEW S, IsFiniteSet(S), NEW f, \A x \in S : f[x] = 0
    PROVE  SumFunctionOnSet(f, S) = 0
<1>. DEFINE P == {T \in SUBSET S : SumFunctionOnSet(f, T) = 0}
<1>1. {} \in P
  BY SumEmpty
<1>2. ASSUME NEW T \in SUBSET S, NEW x \in S \ T, T \in P PROVE T \cup {x} \in P
  <2>1. IsFiniteSet(T)
    BY FS_Subset
  <2>2. SumFunctionOnSet(f, T \cup {x}) = f[x] + SumFunctionOnSet(f, T)
    BY <2>1, SumAdd
  <2>. QED
    BY <1>2, <2>2
<1>3. SUBSET S \subseteq P
  <2>. HIDE DEF P
  <2>. QED
    BY <1>1, <1>2, SetInd, Zenon
<1>. QED
  BY <1>3

\* A finite sum of natural numbers is a natural number.
LEMMA SumNat ==
    ASSUME NEW S, IsFiniteSet(S), NEW f, \A x \in S : f[x] \in Nat
    PROVE  SumFunctionOnSet(f, S) \in Nat
<1>. DEFINE z == [x \in S |-> 0]
<1>1. SumFunctionOnSet(z, S) = 0
  BY SumZero
<1>2. SumFunctionOnSet(z, S) <= SumFunctionOnSet(f, S)
  BY SumMono
<1>3. SumFunctionOnSet(f, S) \in Int
  BY SumInt
<1>. QED
  BY <1>1, <1>2, <1>3

\* The sum by groups: over the values of a key, and over each group.
LEMMA SumGroup ==
    ASSUME NEW S, IsFiniteSet(S), NEW K, IsFiniteSet(K),
           NEW key, \A x \in S : key[x] \in K,
           NEW f, \A x \in S : f[x] \in Int
    PROVE  SumFunctionOnSet(f, S) =
           SumFunctionOnSet(
              [k \in K |-> SumFunctionOnSet(f, {x \in S : key[x] = k})], K)
<1>. DEFINE In(T, k) == {x \in T : key[x] = k}
            Gr(T) == [k \in K |-> SumFunctionOnSet(f, In(T, k))]
            P == {T \in SUBSET S : SumFunctionOnSet(f, T) = SumFunctionOnSet(Gr(T), K)}
<1>0. ASSUME NEW T \in SUBSET S
      PROVE  /\ IsFiniteSet(T) /\ \A k \in K : IsFiniteSet(In(T, k))
             /\ \A k \in K : Gr(T)[k] \in Int
  <2>1. IsFiniteSet(T) /\ \A k \in K : IsFiniteSet(In(T, k))
    BY FS_Subset
  <2>2. ASSUME NEW k \in K PROVE SumFunctionOnSet(f, In(T, k)) \in Int
    <3>1. IsFiniteSet(In(T, k)) /\ \A x \in In(T, k) : f[x] \in Int
      BY <2>1
    <3>. HIDE DEF In
    <3>. QED
      BY <3>1, SumInt
  <2>. QED
    BY <2>1, <2>2
<1>1. {} \in P
  <2>1. \A k \in K : In({}, k) = {}
    OBVIOUS
  <2>2. \A k \in K : Gr({})[k] = 0
    BY <2>1, SumEmpty
  <2>. HIDE DEF Gr
  <2>3. SumFunctionOnSet(Gr({}), K) = 0
    BY <2>2, SumZero
  <2>. QED
    BY <2>3, SumEmpty
<1>2. ASSUME NEW T \in SUBSET S, NEW y \in S \ T, T \in P PROVE T \cup {y} \in P
  <2>. DEFINE U == T \cup {y}
              k0 == key[y]
  <2>1. IsFiniteSet(T) /\ f[y] \in Int /\ k0 \in K /\ U \in SUBSET S
    BY FS_Subset
  <2>2. SumFunctionOnSet(f, U) = f[y] + SumFunctionOnSet(f, T)
    BY <2>1, SumAdd
  <2>3. \A k \in K \ {k0} : Gr(U)[k] = Gr(T)[k]
    <3>1. \A k \in K \ {k0} : In(U, k) = In(T, k)
      OBVIOUS
    <3>. QED
      BY <3>1
  <2>4. Gr(U)[k0] = f[y] + Gr(T)[k0]
    <3>1. In(U, k0) = In(T, k0) \cup {y} /\ y \notin In(T, k0)
      OBVIOUS
    <3>2. IsFiniteSet(In(T, k0)) /\ \A x \in In(T, k0) \cup {y} : f[x] \in Int
      BY <1>0, <2>1
    <3>3. SumFunctionOnSet(f, In(T, k0) \cup {y}) = f[y] + SumFunctionOnSet(f, In(T, k0))
      <4>. HIDE DEF In
      <4>. QED
        BY <3>1, <3>2, SumAdd
    <3>4. /\ Gr(U)[k0] = SumFunctionOnSet(f, In(U, k0))
          /\ Gr(T)[k0] = SumFunctionOnSet(f, In(T, k0))
      BY <2>1, SMTT(30)
    <3>. QED
      BY <3>1, <3>3, <3>4, Zenon
  <2>5. /\ \A k \in K : Gr(U)[k] \in Int
        /\ \A k \in K : Gr(T)[k] \in Int
    BY <1>0, <2>1
  <2>. HIDE DEF Gr
  <2>. HIDE DEF U, k0
  <2>6. /\ SumFunctionOnSet(Gr(U), K) = Gr(U)[k0] + SumFunctionOnSet(Gr(U), K \ {k0})
        /\ SumFunctionOnSet(Gr(T), K) = Gr(T)[k0] + SumFunctionOnSet(Gr(T), K \ {k0})
    <3>1. SumFunctionOnSet(Gr(U), K) = Gr(U)[k0] + SumFunctionOnSet(Gr(U), K \ {k0})
      BY <2>1, <2>5, SumRemove
    <3>2. SumFunctionOnSet(Gr(T), K) = Gr(T)[k0] + SumFunctionOnSet(Gr(T), K \ {k0})
      BY <2>1, <2>5, SumRemove
    <3>. QED
      BY <3>1, <3>2
  <2>7. SumFunctionOnSet(Gr(U), K \ {k0}) = SumFunctionOnSet(Gr(T), K \ {k0})
    <3>1. IsFiniteSet(K \ {k0})
      BY FS_Subset
    <3>. QED
      BY <2>3, <2>5, <3>1, SumEq
  <2>8. SumFunctionOnSet(Gr(T), K \ {k0}) \in Int
    <3>1. IsFiniteSet(K \ {k0})
      BY FS_Subset
    <3>. QED
      BY <2>5, <3>1, SumInt
  <2>9. SumFunctionOnSet(f, U) = SumFunctionOnSet(Gr(U), K)
    <3>1. SumFunctionOnSet(f, T) = SumFunctionOnSet(Gr(T), K)
      BY <1>2
    <3>2. SumFunctionOnSet(Gr(U), K)
            = (f[y] + Gr(T)[k0]) + SumFunctionOnSet(Gr(T), K \ {k0})
      BY <2>4, <2>6, <2>7, Zenon
    <3>3. SumFunctionOnSet(f, U)
            = f[y] + (Gr(T)[k0] + SumFunctionOnSet(Gr(T), K \ {k0}))
      BY <2>2, <2>6, <3>1, Zenon
    <3>4. Gr(T)[k0] \in Int
      BY <2>1, <2>5
    <3>5. \A a, b, c \in Int : (a + b) + c = a + (b + c)
      OBVIOUS
    <3>. QED
      BY <2>1, <2>8, <3>2, <3>3, <3>4, <3>5, Zenon
  <2>. QED
    BY <2>1, <2>9 DEF U
<1>3. SUBSET S \subseteq P
  <2>. HIDE DEF P
  <2>. QED
    BY <1>1, <1>2, SetInd, Zenon
<1>. QED
  BY <1>3

\* Terms that are zero may be left out.
LEMMA SumPositive ==
    ASSUME NEW S, IsFiniteSet(S), NEW f, \A x \in S : f[x] \in Nat
    PROVE  SumFunctionOnSet(f, {x \in S : f[x] > 0}) = SumFunctionOnSet(f, S)
<1>. DEFINE P == {x \in S : f[x] > 0}
<1>1. IsFiniteSet(P) /\ IsFiniteSet(S \ P) /\ P \subseteq S
  BY FS_Subset
<1>2. \A x \in S \ P : f[x] = 0
  OBVIOUS
<1>3. \A x \in S : f[x] \in Int
  OBVIOUS
<1>. HIDE DEF P
<1>4. SumFunctionOnSet(f, S \ P) = 0
  BY <1>1, <1>2, SumZero
<1>5. SumFunctionOnSet(f, P) \in Int
  BY <1>1, <1>3, SumInt
<1>6. SumFunctionOnSet(f, S) = SumFunctionOnSet(f, P) + SumFunctionOnSet(f, S \ P)
  BY <1>1, <1>3, SumSplit
<1>7. SumFunctionOnSet(f, P) = SumFunctionOnSet(f, S)
  BY <1>4, <1>5, <1>6
<1>. QED
  BY <1>7 DEF P
==============================================================================
