----------------------------- MODULE SumLemmas -----------------------------
(***************************************************************************)
(* What the proofs need to know of sums over finite sets.  The community   *)
(* modules define them with a function on the subsets of S that takes away *)
(* one chosen element at a time; the lemmas say that the function exists,  *)
(* that the order of the elements does not matter, and how the sum changes *)
(* with the set and with the terms.  Each induction is on the cardinality  *)
(* and goes by the least counterexample.                                   *)
(***************************************************************************)
EXTENDS Integers, FiniteSetsExt, FiniteSetTheorems, TLAPS

LessThan == OpToRel(<, Nat)

(* A set of natural numbers has a least element.                            *)
LEMMA LeastNatural ==
  ASSUME NEW T \in SUBSET Nat, T # {}
  PROVE  \E x \in T : \A y \in T : x <= y
<1>1. IsWellFoundedOn(LessThan, Nat)
  BY NatLessThanWellFounded DEF LessThan
<1>2. \E x \in T : \A y \in T : ~(<<y, x>> \in LessThan)
  BY <1>1, WFMin
<1>3. LessThan = {ss \in Nat \X Nat : ss[1] < ss[2]}
  BY DEF LessThan, OpToRel
<1>4. \A y, x \in Nat : y < x => <<y, x>> \in LessThan
  BY <1>3
<1>5. PICK x \in T : \A y \in T : ~(<<y, x>> \in LessThan)
  BY <1>2
<1>6. ASSUME NEW y \in T PROVE x <= y
  <2>1. x \in Nat /\ y \in Nat
    OBVIOUS
  <2>2. ~(y < x)
    BY <1>4, <1>5, <2>1
  <2>. QED  BY <2>1, <2>2
<1>. QED  BY <1>6

(* Induction over the finite sets of a collection, as sets of sets: what     *)
(* holds of a set whenever it holds of it without one element holds of all.  *)
LEMMA FiniteSetInduction ==
  ASSUME NEW U, NEW Good,
         \A s \in U : IsFiniteSet(s),
         \A s \in U : (\A t \in U : Cardinality(t) < Cardinality(s) => t \in Good)
                        => s \in Good
  PROVE  U \subseteq Good
<1>. SUFFICES ASSUME U \ Good # {} PROVE FALSE
  OBVIOUS
<1>. DEFINE T == {Cardinality(s) : s \in U \ Good}
<1>1. T \in SUBSET Nat /\ T # {}
  BY FS_CardinalityType
<1>2. PICK n \in T : \A m \in T : n <= m
  BY <1>1, LeastNatural
<1>3. PICK s \in U \ Good : Cardinality(s) = n
  BY <1>2
<1>4. ASSUME NEW t \in U, Cardinality(t) < Cardinality(s) PROVE t \in Good
  <2>1. Cardinality(t) \in Nat /\ Cardinality(s) \in Nat
    BY FS_CardinalityType
  <2>2. ~(n <= Cardinality(t))
    BY <1>3, <1>4, <2>1
  <2>3. Cardinality(t) \notin T
    BY <1>2, <2>2
  <2>. QED  BY <2>3
<1>5. s \in U /\ s \notin Good
  BY <1>3
<1>. HIDE DEF T
<1>. QED  BY <1>4, <1>5

-----------------------------------------------------------------------------
FirstOf(s) == CHOOSE x \in s : TRUE

(* g maps every set of U to the sum of the terms f[x] of its elements x.     *)
AddsUp(g, f, U) ==
  g = [s \in U |-> IF s = {} THEN 0 ELSE f[FirstOf(s)] + g[s \ {FirstOf(s)}]]

LEMMA FirstOfFinite ==
  ASSUME NEW s, IsFiniteSet(s), s # {}
  PROVE  /\ FirstOf(s) \in s
         /\ IsFiniteSet(s \ {FirstOf(s)})
         /\ Cardinality(s \ {FirstOf(s)}) = Cardinality(s) - 1
         /\ Cardinality(s) \in Nat /\ Cardinality(s \ {FirstOf(s)}) \in Nat
<1>1. FirstOf(s) \in s
  BY DEF FirstOf
<1>. QED  BY <1>1, FS_RemoveElement, FS_CardinalityType

UpToSize(S, n) == {s \in SUBSET S : Cardinality(s) <= n}

(* The recursion defines a function: sets of one element more, one level     *)
(* of the recursion more.                                                    *)
LEMMA SumsExist ==
  ASSUME NEW S, IsFiniteSet(S), NEW f
  PROVE  \E g : AddsUp(g, f, SUBSET S)
<1>. DEFINE T == {n \in Nat : ~ \E g : AddsUp(g, f, UpToSize(S, n))}
<1>0. \A s \in SUBSET S : IsFiniteSet(s) /\ Cardinality(s) \in Nat
  BY FS_Subset, FS_CardinalityType
<1>1. UpToSize(S, 0) = {{}}
  BY <1>0, FS_EmptySet DEF UpToSize
<1>2. 0 \notin T
  <2>. DEFINE g == [s \in {{}} |-> 0]
  <2>1. AddsUp(g, f, {{}})
    BY DEF AddsUp
  <2>. HIDE DEF g
  <2>. QED  BY <1>1, <2>1
<1>3. ASSUME NEW n \in Nat, n \notin T PROVE n + 1 \notin T
  <2>1. PICK g : AddsUp(g, f, UpToSize(S, n))
    BY <1>3
  <2>. DEFINE h == [s \in UpToSize(S, n + 1) |->
                      IF s = {} THEN 0 ELSE f[FirstOf(s)] + g[s \ {FirstOf(s)}]]
  <2>2. \A s \in UpToSize(S, n + 1) : s # {} => s \ {FirstOf(s)} \in UpToSize(S, n)
    BY <1>0, FirstOfFinite DEF UpToSize
  <2>3. \A s \in UpToSize(S, n) : s \in UpToSize(S, n + 1)
    BY <1>0 DEF UpToSize
  <2>4. \A s \in UpToSize(S, n) :
          g[s] = IF s = {} THEN 0 ELSE f[FirstOf(s)] + g[s \ {FirstOf(s)}]
    BY <2>1 DEF AddsUp
  <2>5. \A s \in UpToSize(S, n) : h[s] = g[s]
    BY <2>3, <2>4
  <2>6. h = [s \in UpToSize(S, n + 1) |->
               IF s = {} THEN 0 ELSE f[FirstOf(s)] + h[s \ {FirstOf(s)}]]
    BY <2>2, <2>5
  <2>. HIDE DEF h
  <2>. QED  BY <2>6 DEF AddsUp
<1>4. T = {}
  <2>. SUFFICES ASSUME T # {} PROVE FALSE
    OBVIOUS
  <2>1. PICK n \in T : \A m \in T : n <= m
    BY LeastNatural
  <2>2. n \in Nat /\ n # 0
    BY <1>2
  <2>3. n - 1 \in Nat /\ n - 1 \notin T /\ (n - 1) + 1 = n
    BY <2>1, <2>2
  <2>. HIDE DEF T
  <2>. QED  BY <1>3, <2>1, <2>3
<1>5. UpToSize(S, Cardinality(S)) = SUBSET S
  BY FS_Subset DEF UpToSize
<1>6. Cardinality(S) \in Nat
  BY FS_CardinalityType
<1>7. Cardinality(S) \notin T
  BY <1>4
<1>. QED  BY <1>5, <1>6, <1>7

(* Two such functions agree on the sets they share when the terms agree.     *)
LEMMA SumsAgree ==
  ASSUME NEW S, NEW T, NEW f, NEW e, NEW g, NEW h,
         AddsUp(g, f, SUBSET S), AddsUp(h, e, SUBSET T),
         NEW R, IsFiniteSet(R), R \subseteq S, R \subseteq T,
         \A x \in R : f[x] = e[x]
  PROVE  g[R] = h[R]
<1>. DEFINE Good == {s \in SUBSET R : g[s] = h[s]}
<1>1. \A s \in SUBSET R : IsFiniteSet(s)
  BY FS_Subset
<1>2. ASSUME NEW s \in SUBSET R,
             \A t \in SUBSET R : Cardinality(t) < Cardinality(s) => t \in Good
      PROVE  s \in Good
  <2>1. /\ g[s] = IF s = {} THEN 0 ELSE f[FirstOf(s)] + g[s \ {FirstOf(s)}]
        /\ h[s] = IF s = {} THEN 0 ELSE e[FirstOf(s)] + h[s \ {FirstOf(s)}]
    BY DEF AddsUp
  <2>2. CASE s = {}
    BY <2>1, <2>2
  <2>3. CASE s # {}
    <3>0. IsFiniteSet(s)
      BY <1>1
    <3>. HIDE DEF Good
    <3>5. /\ FirstOf(s) \in s /\ Cardinality(s \ {FirstOf(s)}) = Cardinality(s) - 1
          /\ Cardinality(s) \in Nat
      BY <2>3, <3>0, FirstOfFinite
    <3>1. FirstOf(s) \in R /\ Cardinality(s \ {FirstOf(s)}) < Cardinality(s)
      BY <3>5
    <3>2. s \ {FirstOf(s)} \in Good
      BY <1>2, <3>1
    <3>3. g[s \ {FirstOf(s)}] = h[s \ {FirstOf(s)}]
      BY <3>2 DEF Good
    <3>4. g[s] = h[s]
      BY <2>1, <2>3, <3>1, <3>3
    <3>. QED  BY <3>4 DEF Good
  <2>. QED  BY <2>2, <2>3
<1>. HIDE DEF Good
<1>3. SUBSET R \subseteq Good
  BY <1>1, <1>2, FiniteSetInduction
<1>. QED  BY <1>3 DEF Good

(* Any element may be the first.                                             *)
LEMMA SumsAnyOrder ==
  ASSUME NEW S, IsFiniteSet(S), NEW f, \A x \in S : f[x] \in Int,
         NEW g, AddsUp(g, f, SUBSET S)
  PROVE  \A s \in SUBSET S : /\ g[s] \in Int
                             /\ \A x \in s : g[s] = f[x] + g[s \ {x}]
<1>. DEFINE Good == {s \in SUBSET S : /\ g[s] \in Int
                                      /\ \A x \in s : g[s] = f[x] + g[s \ {x}]}
<1>1. \A s \in SUBSET S : IsFiniteSet(s) /\ Cardinality(s) \in Nat
  BY FS_Subset, FS_CardinalityType
<1>2. ASSUME NEW s \in SUBSET S,
             \A t \in SUBSET S : Cardinality(t) < Cardinality(s) => t \in Good
      PROVE  s \in Good
  <2>1. g[s] = IF s = {} THEN 0 ELSE f[FirstOf(s)] + g[s \ {FirstOf(s)}]
    BY DEF AddsUp
  <2>2. CASE s = {}
    BY <2>1, <2>2
  <2>3. CASE s # {}
    <3>. DEFINE c == FirstOf(s)
    <3>1. c \in s /\ g[s] = f[c] + g[s \ {c}] /\ f[c] \in Int
      BY <1>1, <2>1, <2>3, FirstOfFinite
    <3>2. \A x \in s : s \ {x} \in Good
      <4>. TAKE x \in s
      <4>1. Cardinality(s \ {x}) < Cardinality(s)
        BY <1>1, FS_RemoveElement
      <4>. QED  BY <1>2, <4>1
    <3>3. ASSUME NEW x \in s, x # c PROVE g[s] = f[x] + g[s \ {x}]
      <4>1. g[s \ {c}] = f[x] + g[(s \ {c}) \ {x}]
        BY <3>1, <3>2, <3>3
      <4>2. g[s \ {x}] = f[c] + g[(s \ {x}) \ {c}]
        BY <3>1, <3>2, <3>3
      <4>3. (s \ {c}) \ {x} = (s \ {x}) \ {c} /\ (s \ {x}) \ {c} \in SUBSET S
        OBVIOUS
      <4>4. g[(s \ {x}) \ {c}] \in Int
        <5>1. Cardinality(s \ {x}) < Cardinality(s)
          BY <1>1, FS_RemoveElement
        <5>2. IsFiniteSet(s \ {x}) /\ Cardinality((s \ {x}) \ {c}) <= Cardinality(s \ {x})
          BY <1>1, FS_RemoveElement, FS_Subset
        <5>3. Cardinality((s \ {x}) \ {c}) < Cardinality(s)
          BY <1>1, <4>3, <5>1, <5>2
        <5>. QED  BY <1>2, <4>3, <5>3
      <4>5. f[x] \in Int /\ f[c] \in Int
        BY <3>1
      <4>6. g[s] = f[c] + g[s \ {c}]
        BY <3>1
      <4>. DEFINE a == g[s \ {c}]
                  b == g[s \ {x}]
                  d == g[(s \ {x}) \ {c}]
      <4>7. a = f[x] + d
        BY <4>1, <4>3
      <4>. HIDE DEF a, b, c, d, Good
      <4>8. d \in Int
        BY <4>4 DEF d
      <4>9. b = f[c] + d /\ g[s] = f[c] + a
        BY <4>2, <4>6 DEF a, b, d
      <4>10. g[s] = f[x] + b
        BY <4>5, <4>7, <4>8, <4>9
      <4>. QED  BY <4>10 DEF b
    <3>4. g[s] \in Int
      <4>1. g[s \ {c}] \in Int
        BY <3>1, <3>2
      <4>2. g[s] = f[c] + g[s \ {c}] /\ f[c] \in Int
        BY <3>1
      <4>. HIDE DEF c, Good
      <4>. QED  BY <4>1, <4>2
    <3>. QED  BY <3>1, <3>3, <3>4
  <2>. QED  BY <2>2, <2>3
<1>. HIDE DEF Good
<1>3. SUBSET S \subseteq Good
  BY <1>1, <1>2, FiniteSetInduction
<1>. QED  BY <1>3 DEF Good

-----------------------------------------------------------------------------
(* The sum the models write is the last value of such a function.            *)
LEMMA SumUnfolds ==
  ASSUME NEW f, NEW S
  PROVE  SumFunctionOnSet(f, S) = (CHOOSE g : AddsUp(g, f, SUBSET S))[S]
  BY DEF SumFunctionOnSet, FoldFunctionOnSet, MapThenFoldSet, AddsUp, FirstOf

LEMMA SumValue ==
  ASSUME NEW f, NEW S, IsFiniteSet(S), NEW T, S \subseteq T,
         NEW g, AddsUp(g, f, SUBSET T)
  PROVE  SumFunctionOnSet(f, S) = g[S]
<1>. DEFINE h == CHOOSE h : AddsUp(h, f, SUBSET S)
<1>1. AddsUp(h, f, SUBSET S)
  BY SumsExist
<1>2. SumFunctionOnSet(f, S) = h[S]
  BY SumUnfolds
<1>. HIDE DEF h
<1>. QED  BY <1>1, <1>2, SumsAgree

LEMMA SumEmpty ==
  ASSUME NEW f
  PROVE  SumFunctionOnSet(f, {}) = 0
<1>1. IsFiniteSet({})
  BY FS_EmptySet
<1>2. PICK g : AddsUp(g, f, SUBSET {})
  BY <1>1, SumsExist
<1>3. g[{}] = 0
  BY <1>2 DEF AddsUp
<1>. QED  BY <1>1, <1>2, <1>3, SumValue

LEMMA SumRemove ==
  ASSUME NEW S, IsFiniteSet(S), NEW f, \A x \in S : f[x] \in Int
  PROVE  /\ SumFunctionOnSet(f, S) \in Int
         /\ \A x \in S : /\ SumFunctionOnSet(f, S \ {x}) \in Int
                         /\ SumFunctionOnSet(f, S) = f[x] + SumFunctionOnSet(f, S \ {x})
<1>1. PICK g : AddsUp(g, f, SUBSET S)
  BY SumsExist
<1>2. SumFunctionOnSet(f, S) = g[S]
  BY <1>1, SumValue
<1>3. \A s \in SUBSET S : g[s] \in Int /\ \A x \in s : g[s] = f[x] + g[s \ {x}]
  BY <1>1, SumsAnyOrder
<1>4. ASSUME NEW x \in S
      PROVE  SumFunctionOnSet(f, S \ {x}) = g[S \ {x}]
  <2>1. IsFiniteSet(S \ {x}) /\ S \ {x} \subseteq S
    BY FS_RemoveElement
  <2>. QED  BY <1>1, <2>1, SumValue
<1>. QED  BY <1>2, <1>3, <1>4

LEMMA SumAdd ==
  ASSUME NEW S, IsFiniteSet(S), NEW x, x \notin S, NEW f,
         \A y \in S \cup {x} : f[y] \in Int
  PROVE  SumFunctionOnSet(f, S \cup {x}) = SumFunctionOnSet(f, S) + f[x]
<1>1. IsFiniteSet(S \cup {x})
  BY FS_AddElement
<1>2. (S \cup {x}) \ {x} = S
  OBVIOUS
<1>3. SumFunctionOnSet(f, S) \in Int
  BY SumRemove
<1>4. SumFunctionOnSet(f, S \cup {x}) = f[x] + SumFunctionOnSet(f, (S \cup {x}) \ {x})
  BY <1>1, SumRemove
<1>5. SumFunctionOnSet(f, S \cup {x}) = f[x] + SumFunctionOnSet(f, S)
  BY <1>2, <1>4, Zenon
<1>6. f[x] \in Int
  OBVIOUS
<1>. QED  BY <1>3, <1>5, <1>6

(* The sum depends on the terms of its own elements only.                    *)
LEMMA SumSame ==
  ASSUME NEW S, IsFiniteSet(S), NEW f, NEW e, \A x \in S : f[x] = e[x]
  PROVE  SumFunctionOnSet(f, S) = SumFunctionOnSet(e, S)
<1>1. PICK g : AddsUp(g, f, SUBSET S)
  BY SumsExist
<1>2. PICK h : AddsUp(h, e, SUBSET S)
  BY SumsExist
<1>3. g[S] = h[S]
  BY <1>1, <1>2, SumsAgree
<1>. QED  BY <1>1, <1>2, <1>3, SumValue

(* One term changes.                                                         *)
LEMMA SumUpdate ==
  ASSUME NEW S, IsFiniteSet(S), NEW f, NEW e, NEW x \in S,
         \A y \in S : f[y] \in Int /\ e[y] \in Int,
         \A y \in S : y # x => e[y] = f[y]
  PROVE  SumFunctionOnSet(e, S) = SumFunctionOnSet(f, S) - f[x] + e[x]
<1>1. SumFunctionOnSet(e, S \ {x}) = SumFunctionOnSet(f, S \ {x})
  BY FS_RemoveElement, SumSame
<1>2. /\ SumFunctionOnSet(f, S) = f[x] + SumFunctionOnSet(f, S \ {x})
      /\ SumFunctionOnSet(f, S \ {x}) \in Int
  BY SumRemove
<1>3. SumFunctionOnSet(e, S) = e[x] + SumFunctionOnSet(e, S \ {x})
  BY SumRemove
<1>. QED  BY <1>1, <1>2, <1>3

(* Termwise smaller, smaller in all.                                         *)
LEMMA SumBounded ==
  ASSUME NEW S, IsFiniteSet(S), NEW f, NEW e,
         \A x \in S : f[x] \in Int /\ e[x] \in Int /\ f[x] <= e[x]
  PROVE  SumFunctionOnSet(f, S) <= SumFunctionOnSet(e, S)
<1>. DEFINE Good == {s \in SUBSET S : SumFunctionOnSet(f, s) <= SumFunctionOnSet(e, s)}
<1>1. \A s \in SUBSET S : IsFiniteSet(s)
  BY FS_Subset
<1>2. ASSUME NEW s \in SUBSET S,
             \A t \in SUBSET S : Cardinality(t) < Cardinality(s) => t \in Good
      PROVE  s \in Good
  <2>0. IsFiniteSet(s)
    BY <1>1
  <2>1. CASE s = {}
    BY <2>1, SumEmpty
  <2>2. CASE s # {}
    <3>1. PICK x : x \in s
      BY <2>2
    <3>2. /\ Cardinality(s \ {x}) = Cardinality(s) - 1
          /\ Cardinality(s) \in Nat
      BY <2>0, <3>1, FS_RemoveElement, FS_CardinalityType
    <3>3. s \ {x} \in SUBSET S /\ Cardinality(s \ {x}) < Cardinality(s)
      BY <3>2
    <3>4. SumFunctionOnSet(f, s \ {x}) <= SumFunctionOnSet(e, s \ {x})
      BY <1>2, <3>3
    <3>. HIDE DEF Good
    <3>5. /\ SumFunctionOnSet(f, s) = f[x] + SumFunctionOnSet(f, s \ {x})
          /\ SumFunctionOnSet(f, s \ {x}) \in Int
      BY <2>0, <3>1, SumRemove
    <3>6. /\ SumFunctionOnSet(e, s) = e[x] + SumFunctionOnSet(e, s \ {x})
          /\ SumFunctionOnSet(e, s \ {x}) \in Int
      BY <2>0, <3>1, SumRemove
    <3>7. f[x] \in Int /\ e[x] \in Int /\ f[x] <= e[x]
      BY <3>1
    <3>8. SumFunctionOnSet(f, s) <= SumFunctionOnSet(e, s)
      BY <3>4, <3>5, <3>6, <3>7
    <3>. QED  BY <3>8 DEF Good
  <2>. QED  BY <2>1, <2>2
<1>. HIDE DEF Good
<1>3. SUBSET S \subseteq Good
  BY <1>1, <1>2, FiniteSetInduction
<1>. QED  BY <1>3 DEF Good

(* More terms, none of them negative, more in all.                           *)
LEMMA SumMonotone ==
  ASSUME NEW S, IsFiniteSet(S), NEW f, \A x \in S : f[x] \in Nat,
         NEW T, T \subseteq S
  PROVE  /\ SumFunctionOnSet(f, T) \in Nat
         /\ SumFunctionOnSet(f, T) <= SumFunctionOnSet(f, S)
<1>. DEFINE Good == {s \in SUBSET S :
                       \A t \in SUBSET s : /\ SumFunctionOnSet(f, t) \in Nat
                                           /\ SumFunctionOnSet(f, t) <= SumFunctionOnSet(f, s)}
<1>1. \A s \in SUBSET S : IsFiniteSet(s)
  BY FS_Subset
<1>2. ASSUME NEW s \in SUBSET S,
             \A t \in SUBSET S : Cardinality(t) < Cardinality(s) => t \in Good
      PROVE  s \in Good
  <2>0. IsFiniteSet(s) /\ SumFunctionOnSet(f, s) \in Int
    BY <1>1, SumRemove
  <2>1. ASSUME NEW x \in s
        PROVE  /\ s \ {x} \in Good
               /\ SumFunctionOnSet(f, s) = f[x] + SumFunctionOnSet(f, s \ {x})
    <3>1. /\ Cardinality(s \ {x}) = Cardinality(s) - 1 /\ Cardinality(s) \in Nat
      BY <2>0, FS_RemoveElement, FS_CardinalityType
    <3>2. s \ {x} \in SUBSET S /\ Cardinality(s \ {x}) < Cardinality(s)
      BY <3>1
    <3>3. s \ {x} \in Good
      BY <1>2, <3>2
    <3>4. SumFunctionOnSet(f, s) = f[x] + SumFunctionOnSet(f, s \ {x})
      BY <2>0, SumRemove
    <3>. QED  BY <3>3, <3>4
  <2>2. SumFunctionOnSet(f, s) \in Nat
    <3>1. CASE s = {}
      BY <3>1, SumEmpty
    <3>2. ASSUME NEW x \in s PROVE SumFunctionOnSet(f, s) \in Nat
      <4>1. SumFunctionOnSet(f, s \ {x}) \in Nat
        BY <2>1, <3>2
      <4>2. SumFunctionOnSet(f, s) = f[x] + SumFunctionOnSet(f, s \ {x}) /\ f[x] \in Nat
        BY <2>1, <3>2
      <4>. HIDE DEF Good
      <4>. QED  BY <4>1, <4>2
    <3>. QED  BY <3>1, <3>2
  <2>3. ASSUME NEW t \in SUBSET s
        PROVE  /\ SumFunctionOnSet(f, t) \in Nat
               /\ SumFunctionOnSet(f, t) <= SumFunctionOnSet(f, s)
    <3>1. CASE t = s
      BY <2>2, <3>1
    <3>2. ASSUME NEW x \in s, x \notin t
          PROVE  /\ SumFunctionOnSet(f, t) \in Nat
                 /\ SumFunctionOnSet(f, t) <= SumFunctionOnSet(f, s)
      <4>1. t \in SUBSET (s \ {x}) /\ s \ {x} \in SUBSET (s \ {x})
        BY <3>2
      <4>2. /\ SumFunctionOnSet(f, t) \in Nat /\ SumFunctionOnSet(f, s \ {x}) \in Nat
            /\ SumFunctionOnSet(f, t) <= SumFunctionOnSet(f, s \ {x})
        BY <2>1, <4>1
      <4>3. SumFunctionOnSet(f, s) = f[x] + SumFunctionOnSet(f, s \ {x}) /\ f[x] \in Nat
        BY <2>1
      <4>. HIDE DEF Good
      <4>. QED  BY <4>2, <4>3
    <3>. QED  BY <3>1, <3>2
  <2>. QED  BY <2>3
<1>. HIDE DEF Good
<1>3. SUBSET S \subseteq Good
  BY <1>1, <1>2, FiniteSetInduction
<1>4. S \in SUBSET S
  OBVIOUS
<1>. QED  BY <1>3, <1>4 DEF Good

LEMMA SumZero ==
  ASSUME NEW S, IsFiniteSet(S), NEW f, \A x \in S : f[x] = 0
  PROVE  SumFunctionOnSet(f, S) = 0
<1>. DEFINE Good == {s \in SUBSET S : SumFunctionOnSet(f, s) = 0}
<1>1. \A s \in SUBSET S : IsFiniteSet(s)
  BY FS_Subset
<1>2. ASSUME NEW s \in SUBSET S,
             \A t \in SUBSET S : Cardinality(t) < Cardinality(s) => t \in Good
      PROVE  s \in Good
  <2>0. IsFiniteSet(s) /\ \A x \in s : f[x] \in Int
    BY <1>1
  <2>1. CASE s = {}
    BY <2>1, SumEmpty
  <2>2. CASE s # {}
    <3>1. PICK x : x \in s
      BY <2>2
    <3>2. /\ Cardinality(s \ {x}) = Cardinality(s) - 1
          /\ Cardinality(s) \in Nat
      BY <2>0, <3>1, FS_RemoveElement, FS_CardinalityType
    <3>3. s \ {x} \in SUBSET S /\ Cardinality(s \ {x}) < Cardinality(s)
      BY <3>2
    <3>4. SumFunctionOnSet(f, s \ {x}) = 0
      BY <1>2, <3>3
    <3>5. SumFunctionOnSet(f, s) = f[x] + SumFunctionOnSet(f, s \ {x})
      BY <2>0, <3>1, SumRemove
    <3>6. f[x] = 0
      BY <3>1
    <3>7. SumFunctionOnSet(f, s) = 0
      BY <3>4, <3>5, <3>6
    <3>. QED  BY <3>7
  <2>. QED  BY <2>1, <2>2
<1>. HIDE DEF Good
<1>3. SUBSET S \subseteq Good
  BY <1>1, <1>2, FiniteSetInduction
<1>. QED  BY <1>3 DEF Good

(* A sum of sums of two terms is the sum of the two sums.                    *)
LEMMA SumPlus ==
  ASSUME NEW S, IsFiniteSet(S), NEW f, NEW e, NEW h,
         \A x \in S : f[x] \in Int /\ e[x] \in Int /\ h[x] = f[x] + e[x]
  PROVE  SumFunctionOnSet(h, S) = SumFunctionOnSet(f, S) + SumFunctionOnSet(e, S)
<1>. DEFINE Good == {s \in SUBSET S : SumFunctionOnSet(h, s)
                                       = SumFunctionOnSet(f, s) + SumFunctionOnSet(e, s)}
<1>1. \A s \in SUBSET S : IsFiniteSet(s)
  BY FS_Subset
<1>2. ASSUME NEW s \in SUBSET S,
             \A t \in SUBSET S : Cardinality(t) < Cardinality(s) => t \in Good
      PROVE  s \in Good
  <2>0. IsFiniteSet(s) /\ \A x \in s : f[x] \in Int /\ e[x] \in Int /\ h[x] \in Int
    BY <1>1
  <2>1. CASE s = {}
    BY <2>1, SumEmpty
  <2>2. CASE s # {}
    <3>1. PICK x : x \in s
      BY <2>2
    <3>2. /\ Cardinality(s \ {x}) = Cardinality(s) - 1
          /\ Cardinality(s) \in Nat
      BY <2>0, <3>1, FS_RemoveElement, FS_CardinalityType
    <3>3. s \ {x} \in SUBSET S /\ Cardinality(s \ {x}) < Cardinality(s)
      BY <3>2
    <3>4. SumFunctionOnSet(h, s \ {x})
            = SumFunctionOnSet(f, s \ {x}) + SumFunctionOnSet(e, s \ {x})
      BY <1>2, <3>3
    <3>. HIDE DEF Good
    <3>5. /\ SumFunctionOnSet(f, s) = f[x] + SumFunctionOnSet(f, s \ {x})
          /\ SumFunctionOnSet(f, s \ {x}) \in Int
      BY <2>0, <3>1, SumRemove
    <3>6. /\ SumFunctionOnSet(e, s) = e[x] + SumFunctionOnSet(e, s \ {x})
          /\ SumFunctionOnSet(e, s \ {x}) \in Int
      BY <2>0, <3>1, SumRemove
    <3>7. SumFunctionOnSet(h, s) = h[x] + SumFunctionOnSet(h, s \ {x})
      BY <2>0, <3>1, SumRemove
    <3>8. f[x] \in Int /\ e[x] \in Int /\ h[x] = f[x] + e[x]
      BY <3>1
    <3>9. SumFunctionOnSet(h, s) = SumFunctionOnSet(f, s) + SumFunctionOnSet(e, s)
      BY <3>4, <3>5, <3>6, <3>7, <3>8
    <3>. QED  BY <3>9 DEF Good
  <2>. QED  BY <2>1, <2>2
<1>. HIDE DEF Good
<1>3. SUBSET S \subseteq Good
  BY <1>1, <1>2, FiniteSetInduction
<1>. QED  BY <1>3 DEF Good
=============================================================================
