------------------------- MODULE CachedBudgetProofs -------------------------
(***************************************************************************)
(* Proofs about CachedBudget, for any number of calls, keys and scopes.    *)
(*                                                                         *)
(* The ledger is stated with sums over the calls, and a sum is a fold: what*)
(* it does when a call joins or leaves is proved here from the definition  *)
(* of the fold, by induction on the size of the set.  Induction itself is  *)
(* proved first, for sets of numbers, from the pigeonhole principle that   *)
(* FiniteSetTheorems offers.  The filter of the cache is a recursive       *)
(* function and treated alike.                                             *)
(***************************************************************************)
EXTENDS CachedBudget, FiniteSetTheorems, SequenceTheorems, TLAPS

(* Induction and sums *)

\* Induction over the natural numbers, for a set: a smallest number outside P
\* would make "minus one" an injection of a finite set that is not onto.
LEMMA Induction ==
    ASSUME NEW P, 0 \in P, \A n \in Nat : n \in P => n + 1 \in P
    PROVE  Nat \subseteq P
<1> SUFFICES ASSUME NEW q \in Nat, q \notin P PROVE FALSE
    OBVIOUS
<1> DEFINE A == {n \in 0..q : n \notin P}
           f == [n \in A |-> n - 1]
<1>1. IsFiniteSet(A)
    <2>1. IsFiniteSet(0..q) /\ A \in SUBSET (0..q)
        BY FS_Interval
    <2> QED BY <2>1, FS_Subset
<1>2. f \in Injection(A, A)
    <2>1. ASSUME NEW n \in A PROVE n - 1 \in A
        <3>1. n # 0
            OBVIOUS
        <3>2. n - 1 \in Nat /\ (n - 1) + 1 = n
            BY <3>1
        <3>3. n - 1 \notin P
            BY <3>2
        <3> QED BY <3>2, <3>3
    <2>2. f \in [A -> A]
        BY <2>1
    <2>3. \A a, b \in A : f[a] = f[b] => a = b
        OBVIOUS
    <2> QED BY <2>2, <2>3 DEF Injection, IsInjective
<1>3. f \in Surjection(A, A)
    BY <1>1, <1>2, FS_Injection
<1>4. q \in A
    OBVIOUS
<1>5. \E n \in A : f[n] = q
    BY <1>3, <1>4 DEF Surjection
<1> QED BY <1>5

\* The choice of the sum's order.
First(s) == CHOOSE x \in s : TRUE

\* What the sum of f over the subsets of S is to satisfy.
Sums(f, S, g) ==
    g = [s \in SUBSET S |-> IF s = {} THEN 0 ELSE f[First(s)] + g[s \ {First(s)}]]

\* The element that the fold takes next is one of those left.
LEMMA FirstIsMember == ASSUME NEW s, s # {} PROVE First(s) \in s
BY DEF First

\* A finite set without one of its elements has one element less.
LEMMA Smaller ==
    ASSUME NEW s, IsFiniteSet(s), NEW x \in s
    PROVE  /\ IsFiniteSet(s \ {x}) /\ Cardinality(s) \in Nat
           /\ Cardinality(s) = Cardinality(s \ {x}) + 1
           /\ Cardinality(s \ {x}) \in Nat
<1>1. Cardinality(s \ {x}) = Cardinality(s) - 1 /\ IsFiniteSet(s \ {x})
  BY FS_RemoveElement
<1>2. Cardinality(s) \in Nat /\ Cardinality(s \ {x}) \in Nat
  BY <1>1, FS_CardinalityType
<1>. QED  BY <1>1, <1>2

\* The recursive function of the fold exists on the subsets of a finite set.
LEMMA SumsExist ==
    ASSUME NEW f, NEW S, IsFiniteSet(S)
    PROVE  \E g : Sums(f, S, g)
<1> DEFINE Small(n) == {s \in SUBSET S : Cardinality(s) <= n}
           Step(g, s) == IF s = {} THEN 0 ELSE f[First(s)] + g[s \ {First(s)}]
           P == {n \in Nat : \E g : g = [s \in Small(n) |-> Step(g, s)]}
<1>0. \A s \in SUBSET S : IsFiniteSet(s) /\ Cardinality(s) \in Nat /\ Cardinality(s) <= Cardinality(S)
  BY FS_Subset, FS_CardinalityType
<1>1. 0 \in P
  <2> DEFINE g == [s \in Small(0) |-> 0]
  <2>1. \A s \in Small(0) : s = {}
    BY <1>0, FS_EmptySet
  <2>2. g = [s \in Small(0) |-> Step(g, s)]
    BY <2>1
  <2>. QED  BY <2>2
<1>2. ASSUME NEW n \in Nat, n \in P PROVE n + 1 \in P
  <2>1. PICK g : g = [s \in Small(n) |-> Step(g, s)]
    BY <1>2
  <2> DEFINE h == [s \in Small(n + 1) |-> Step(g, s)]
  <2>2. ASSUME NEW s \in Small(n + 1), s # {}
        PROVE  h[s \ {First(s)}] = g[s \ {First(s)}]
    <3> DEFINE t == s \ {First(s)}
    <3>1. t \in Small(n) /\ t \in Small(n + 1)
      BY <1>0, <2>2, FirstIsMember, Smaller
    <3>2. h[t] = Step(g, t)
      BY <3>1
    <3>3. g[t] = Step(g, t)
      BY <2>1, <3>1
    <3>. QED  BY <3>2, <3>3
  <2>3. ASSUME NEW s \in Small(n + 1) PROVE Step(g, s) = Step(h, s)
    <3>1. CASE s = {}
      BY <3>1
    <3>2. CASE s # {}
      <4> HIDE DEF h
      <4>. QED BY <2>2, <3>2
    <3>. QED  BY <3>1, <3>2
  <2>4. h = [s \in Small(n + 1) |-> Step(h, s)]
    <3> DEFINE k == [s \in Small(n + 1) |-> Step(h, s)]
    <3>1. DOMAIN h = DOMAIN k /\ \A s \in Small(n + 1) : h[s] = k[s]
      <4> HIDE DEF Step, Small
      <4>. QED  BY <2>3
    <3>. QED  BY <3>1
  <2>5. n + 1 \in Nat
    OBVIOUS
  <2> HIDE DEF h, Step, Small
  <2>. QED  BY <2>4, <2>5
<1>3. Cardinality(S) \in P
  <2>1. Cardinality(S) \in Nat
    BY FS_CardinalityType
  <2> HIDE DEF P
  <2>. QED  BY <1>1, <1>2, <2>1, Induction
<1>4. Small(Cardinality(S)) = SUBSET S
  BY <1>0
<1>. QED  BY <1>3, <1>4 DEF Sums

\* Two such functions agree wherever both are defined.
LEMMA SumsAgree ==
    ASSUME NEW f, NEW A, NEW B, NEW g, NEW h, Sums(f, A, g), Sums(f, B, h),
           NEW s \in SUBSET A, s \in SUBSET B, IsFiniteSet(s)
    PROVE  g[s] = h[s]
<1> DEFINE P == {n \in Nat : \A t \in SUBSET s : Cardinality(t) = n => g[t] = h[t]}
<1>0. \A t \in SUBSET s : IsFiniteSet(t) /\ Cardinality(t) \in Nat
  BY FS_Subset, FS_CardinalityType
<1>1. 0 \in P
  BY <1>0, FS_EmptySet DEF Sums
<1>2. ASSUME NEW n \in Nat, n \in P PROVE n + 1 \in P
  <2>1. ASSUME NEW t \in SUBSET s, Cardinality(t) = n + 1 PROVE g[t] = h[t]
    <3>1. t # {}
      <4>1. CASE t = {}
        BY <2>1, <4>1, FS_EmptySet
      <4>. QED  BY <4>1
    <3>2. t \ {First(t)} \in SUBSET s /\ Cardinality(t \ {First(t)}) = n
      BY <1>0, <2>1, <3>1, FirstIsMember, Smaller
    <3>3. g[t \ {First(t)}] = h[t \ {First(t)}]
      BY <1>2, <3>2
    <3>4. g[t] = f[First(t)] + g[t \ {First(t)}]
      BY <3>1 DEF Sums
    <3>5. h[t] = f[First(t)] + h[t \ {First(t)}]
      BY <3>1 DEF Sums
    <3>. QED  BY <3>3, <3>4, <3>5
  <2>. QED  BY <2>1
<1>3. Cardinality(s) \in P
  <2> HIDE DEF P
  <2>. QED  BY <1>0, <1>1, <1>2, Induction
<1>. QED  BY <1>3

\* A sum is a value of such a function.
LEMMA SumIsSums ==
    ASSUME NEW f, NEW S, IsFiniteSet(S)
    PROVE  \E g : Sums(f, S, g) /\ SumFunctionOnSet(f, S) = g[S]
<1> DEFINE c == CHOOSE g : Sums(f, S, g)
<1>1. Sums(f, S, c)
  BY SumsExist
<1>2. SumFunctionOnSet(f, S) = c[S]
  BY DEF SumFunctionOnSet, FoldFunctionOnSet, MapThenFoldSet, Sums, First
<1>. QED  BY <1>1, <1>2

\* The sum over no elements.
LEMMA SumEmpty == ASSUME NEW f PROVE SumFunctionOnSet(f, {}) = 0
<1>1. IsFiniteSet({})
  BY FS_EmptySet
<1>2. PICK g : Sums(f, {}, g) /\ SumFunctionOnSet(f, {}) = g[{}]
  BY <1>1, SumIsSums
<1>. QED  BY <1>2 DEF Sums

\* A sum is its first element and the sum of the others.
LEMMA SumUnfolds ==
    ASSUME NEW f, NEW S, IsFiniteSet(S), S # {}
    PROVE  SumFunctionOnSet(f, S) = f[First(S)] + SumFunctionOnSet(f, S \ {First(S)})
<1> DEFINE T == S \ {First(S)}
<1>1. IsFiniteSet(T)
  BY FirstIsMember, Smaller
<1>2. PICK g : Sums(f, S, g) /\ SumFunctionOnSet(f, S) = g[S]
  BY SumIsSums
<1>3. PICK h : Sums(f, T, h) /\ SumFunctionOnSet(f, T) = h[T]
  BY <1>1, SumIsSums
<1>4. g[T] = h[T]
  <2>1. T \in SUBSET S /\ T \in SUBSET T
    OBVIOUS
  <2> HIDE DEF T
  <2>. QED  BY <1>1, <1>2, <1>3, <2>1, SumsAgree
<1>5. g[S] = f[First(S)] + g[T]
  BY <1>2 DEF Sums
<1>. QED  BY <1>2, <1>3, <1>4, <1>5
\* Induction over the subsets of a finite set, removing one element at a time.
LEMMA SubsetInduction ==
    ASSUME NEW S, IsFiniteSet(S), NEW Good, {} \in Good,
           \A T \in SUBSET S : T # {} /\ (\A x \in T : T \ {x} \in Good) => T \in Good
    PROVE  S \in Good
<1> DEFINE P == {n \in Nat : \A T \in SUBSET S : Cardinality(T) = n => T \in Good}
<1>0. \A T \in SUBSET S : IsFiniteSet(T) /\ Cardinality(T) \in Nat
  BY FS_Subset, FS_CardinalityType
<1>1. 0 \in P
  BY <1>0, FS_EmptySet
<1>2. ASSUME NEW n \in Nat, n \in P PROVE n + 1 \in P
  <2>1. ASSUME NEW T \in SUBSET S, Cardinality(T) = n + 1 PROVE T \in Good
    <3>1. T # {}
      <4>1. CASE T = {}
        BY <2>1, <4>1, FS_EmptySet
      <4>. QED  BY <4>1
    <3>2. ASSUME NEW x \in T PROVE T \ {x} \in Good
      <4>1. T \ {x} \in SUBSET S /\ Cardinality(T \ {x}) = n
        BY <1>0, <2>1, Smaller
      <4>. QED  BY <1>2, <4>1
    <3>. QED  BY <3>1, <3>2
  <2>. QED  BY <2>1
<1>3. Cardinality(S) \in P
  <2> HIDE DEF P
  <2>. QED  BY <1>0, <1>1, <1>2, Induction
<1>. QED  BY <1>3

\* A sum of natural numbers is one.
LEMMA SumType ==
    ASSUME NEW S, IsFiniteSet(S), NEW f, \A x \in S : f[x] \in Nat
    PROVE  SumFunctionOnSet(f, S) \in Nat
<1> DEFINE Good == {T \in SUBSET S : SumFunctionOnSet(f, T) \in Nat}
<1>1. {} \in Good
  BY SumEmpty
<1>2. ASSUME NEW T \in SUBSET S, T # {}, \A x \in T : T \ {x} \in Good PROVE T \in Good
  <2>1. IsFiniteSet(T) /\ First(T) \in T
    BY <1>2, FS_Subset, FirstIsMember
  <2>2. SumFunctionOnSet(f, T) = f[First(T)] + SumFunctionOnSet(f, T \ {First(T)})
    BY <1>2, <2>1, SumUnfolds
  <2>. QED  BY <1>2, <2>1, <2>2
<1>3. S \in Good
  <2> HIDE DEF Good
  <2>. QED  BY <1>1, <1>2, SubsetInduction
<1>. QED  BY <1>3

\* The elements of a sum can be taken in any order.
LEMMA SumTakes ==
    ASSUME NEW S, IsFiniteSet(S), NEW f, \A x \in S : f[x] \in Nat, NEW x \in S
    PROVE  SumFunctionOnSet(f, S) = f[x] + SumFunctionOnSet(f, S \ {x})
<1> DEFINE Total(T) == SumFunctionOnSet(f, T)
           Good == {T \in SUBSET S : \A y \in T : Total(T) = f[y] + Total(T \ {y})}
<1>1. {} \in Good
  OBVIOUS
<1>2. ASSUME NEW T \in SUBSET S, T # {}, \A y \in T : T \ {y} \in Good PROVE T \in Good
  <2>1. \A R \in SUBSET S : IsFiniteSet(R) /\ Total(R) \in Nat
    BY FS_Subset, SumType
  <2>2. First(T) \in T
    BY <1>2, FirstIsMember
  <2>3. Total(T) = f[First(T)] + Total(T \ {First(T)})
    BY <1>2, <2>1, SumUnfolds
  <2>4. ASSUME NEW y \in T PROVE Total(T) = f[y] + Total(T \ {y})
    <3>1. CASE y = First(T)
      BY <2>3, <3>1
    <3>2. CASE y # First(T)
      <4> DEFINE z == First(T)
      <4>1. Total(T \ {z}) = f[y] + Total((T \ {z}) \ {y})
        BY <1>2, <2>2, <3>2
      <4>2. Total(T \ {y}) = f[z] + Total((T \ {y}) \ {z})
        BY <1>2, <2>2, <3>2
      <4>3. (T \ {y}) \ {z} = (T \ {z}) \ {y}
        OBVIOUS
      <4>4. Total((T \ {z}) \ {y}) \in Nat /\ f[y] \in Nat /\ f[z] \in Nat
        BY <2>1, <2>2
      <4> HIDE DEF Total, z
      <4>5. Total(T) = f[z] + Total(T \ {z})
        BY <2>3 DEF z
      <4>. QED  BY <4>1, <4>2, <4>3, <4>4, <4>5
    <3>. QED  BY <3>1, <3>2
  <2>. QED  BY <2>4
<1>3. S \in Good
  <2> HIDE DEF Good
  <2>. QED  BY <1>1, <1>2, SubsetInduction
<1>. QED  BY <1>3

\* Only the values on the set count.
LEMMA SumSame ==
    ASSUME NEW S, IsFiniteSet(S), NEW f, NEW g, \A x \in S : f[x] = g[x]
    PROVE  SumFunctionOnSet(f, S) = SumFunctionOnSet(g, S)
<1> DEFINE Good == {T \in SUBSET S : SumFunctionOnSet(f, T) = SumFunctionOnSet(g, T)}
<1>1. {} \in Good
  BY SumEmpty
<1>2. ASSUME NEW T \in SUBSET S, T # {}, \A x \in T : T \ {x} \in Good PROVE T \in Good
  <2>1. IsFiniteSet(T) /\ First(T) \in T
    BY <1>2, FS_Subset, FirstIsMember
  <2>2. SumFunctionOnSet(f, T) = f[First(T)] + SumFunctionOnSet(f, T \ {First(T)})
    BY <1>2, <2>1, SumUnfolds
  <2>3. SumFunctionOnSet(g, T) = g[First(T)] + SumFunctionOnSet(g, T \ {First(T)})
    BY <1>2, <2>1, SumUnfolds
  <2>. QED  BY <1>2, <2>1, <2>2, <2>3
<1>3. S \in Good
  <2> HIDE DEF Good
  <2>. QED  BY <1>1, <1>2, SubsetInduction
<1>. QED  BY <1>3
-----------------------------------------------------------------------------
(* Filters *)

\* The elements of a sequence are of its type.
LEMMA ElementType ==
    ASSUME NEW E, NEW s \in Seq(E), NEW e \in ToSet(s)
    PROVE  e \in E
BY DEF ToSet

\* Appending adds one element.
LEMMA AppendSet ==
    ASSUME NEW E, NEW s \in Seq(E), NEW e \in E
    PROVE  ToSet(Append(s, e)) = ToSet(s) \cup {e}
<1> DEFINE t == Append(s, e)
<1>1. /\ DOMAIN t = 1..(Len(s) + 1) /\ DOMAIN s = 1..Len(s) /\ Len(s) \in Nat
      /\ \A i \in DOMAIN s : t[i] = s[i]
      /\ t[Len(s) + 1] = e
  OBVIOUS
<1> HIDE DEF t
<1>2. ToSet(t) = {t[i] : i \in DOMAIN t}
  BY DEF ToSet
<1>3. {t[i] : i \in DOMAIN t} = {s[i] : i \in DOMAIN s} \cup {e}
  BY <1>1
<1>. QED  BY <1>2, <1>3 DEF ToSet, t

\* What the function that filters s is to satisfy.
FilterStep(s, kept, g, n) ==
    IF n = 0 THEN <<>>
    ELSE IF s[n] \in kept THEN Append(g[n - 1], s[n])
    ELSE g[n - 1]

Filters(s, kept, g) == g = [n \in 0..Len(s) |-> FilterStep(s, kept, g, n)]

\* The recursive function that filters a sequence exists.
LEMMA FiltersExist ==
    ASSUME NEW s, Len(s) \in Nat, NEW kept
    PROVE  \E g : Filters(s, kept, g)
<1> DEFINE P == {m \in Nat : \E g : g = [n \in 0..m |-> FilterStep(s, kept, g, n)]}
<1>1. 0 \in P
  <2> DEFINE g == [n \in 0..0 |-> <<>>]
  <2>1. g = [n \in 0..0 |-> FilterStep(s, kept, g, n)]
    BY DEF FilterStep
  <2>. QED  BY <2>1
<1>2. ASSUME NEW m \in Nat, m \in P PROVE m + 1 \in P
  <2>1. PICK g : g = [n \in 0..m |-> FilterStep(s, kept, g, n)]
    BY <1>2
  <2> DEFINE h == [n \in 0..(m + 1) |-> FilterStep(s, kept, g, n)]
  <2>2. ASSUME NEW n \in 0..(m + 1) PROVE FilterStep(s, kept, g, n) = FilterStep(s, kept, h, n)
    <3>1. CASE n = 0
      BY <3>1 DEF FilterStep
    <3>2. CASE n # 0
      <4>1. n - 1 \in 0..m /\ n - 1 \in 0..(m + 1)
        BY <3>2
      <4>2. h[n - 1] = g[n - 1]
        <5>1. h[n - 1] = FilterStep(s, kept, g, n - 1)
          BY <4>1
        <5>2. g[n - 1] = FilterStep(s, kept, g, n - 1)
          BY <2>1, <4>1
        <5>. QED  BY <5>1, <5>2
      <4> HIDE DEF h
      <4>. QED  BY <3>2, <4>2 DEF FilterStep
    <3>. QED  BY <3>1, <3>2
  <2>3. h = [n \in 0..(m + 1) |-> FilterStep(s, kept, h, n)]
    <3> DEFINE k == [n \in 0..(m + 1) |-> FilterStep(s, kept, h, n)]
    <3>1. DOMAIN h = DOMAIN k /\ \A n \in 0..(m + 1) : h[n] = k[n]
      BY <2>2
    <3>. QED  BY <3>1
  <2> HIDE DEF h
  <2>. QED  BY <2>3
<1>3. Len(s) \in P
  <2> HIDE DEF P
  <2>. QED  BY <1>1, <1>2, Induction
<1>. QED  BY <1>3 DEF Filters

\* Filtered(s, kept) has the elements of s that are in kept, and only them.
LEMMA FilteredIs ==
    ASSUME NEW E, NEW s \in Seq(E), NEW kept
    PROVE  /\ Filtered(s, kept) \in Seq(E)
           /\ Len(Filtered(s, kept)) <= Len(s)
           /\ ToSet(Filtered(s, kept)) = ToSet(s) \cap kept
<1> DEFINE g == CHOOSE f : Filters(s, kept, f)
<1>0. Len(s) \in Nat /\ DOMAIN s = 1..Len(s) /\ \A n \in 1..Len(s) : s[n] \in E
  OBVIOUS
<1>1. Filters(s, kept, g)
  BY <1>0, FiltersExist
<1>2. Filtered(s, kept) = g[Len(s)]
  BY DEF Filtered, Filters, FilterStep
<1> HIDE DEF g
<1>3. g[0] = <<>>
  BY <1>0, <1>1 DEF Filters, FilterStep
<1>4. ASSUME NEW n \in 0..Len(s), n + 1 \in 0..Len(s)
      PROVE  g[n + 1] = IF s[n + 1] \in kept THEN Append(g[n], s[n + 1]) ELSE g[n]
  <2>1. PICK m \in 0..Len(s) : m = n + 1
    BY <1>4
  <2>2. m # 0 /\ m - 1 = n
    BY <2>1
  <2>3. g[m] = IF s[m] \in kept THEN Append(g[m - 1], s[m]) ELSE g[m - 1]
    BY <1>1, <2>2 DEF Filters, FilterStep
  <2>. QED  BY <2>1, <2>2, <2>3
<1> DEFINE Good(n) == /\ g[n] \in Seq(E)
                      /\ Len(g[n]) <= n
                      /\ ToSet(g[n]) = {s[i] : i \in 1..n} \cap kept
           P == {n \in Nat : n <= Len(s) => Good(n)}
<1>5. 0 \in P
  <2>1. <<>> \in Seq(E) /\ Len(<<>>) = 0 /\ ToSet(<<>>) = {} /\ 1..0 = {}
    BY DEF ToSet
  <2>2. {s[i] : i \in 1..0} = {}
    BY <2>1
  <2>3. g[0] \in Seq(E) /\ Len(g[0]) <= 0
    BY <1>3, <2>1
  <2>4. ToSet(g[0]) = {s[i] : i \in 1..0} \cap kept
    BY <1>3, <2>1, <2>2, Zenon
  <2>. QED  BY <2>3, <2>4
<1>6. ASSUME NEW n \in Nat, n \in P PROVE n + 1 \in P
  <2>1. SUFFICES ASSUME n + 1 <= Len(s) PROVE Good(n + 1)
    OBVIOUS
  <2>2. n \in 0..Len(s) /\ n + 1 \in 0..Len(s) /\ n + 1 \in 1..Len(s)
    BY <1>0, <2>1
  <2>3. Good(n)
    BY <1>6, <2>2
  <2>4. {s[i] : i \in 1..(n + 1)} = {s[i] : i \in 1..n} \cup {s[n + 1]}
    OBVIOUS
  <2>5. s[n + 1] \in E
    BY <1>0, <2>2
  <2>6. CASE s[n + 1] \in kept
    <3>1. g[n + 1] = Append(g[n], s[n + 1])
      BY <1>4, <2>2, <2>6
    <3>2. ToSet(g[n + 1]) = ToSet(g[n]) \cup {s[n + 1]}
      BY <2>3, <2>5, <3>1, AppendSet
    <3>3. g[n + 1] \in Seq(E) /\ Len(g[n + 1]) <= n + 1
      BY <2>3, <2>5, <3>1
    <3>. QED  BY <2>3, <2>4, <2>6, <3>2, <3>3
  <2>7. CASE s[n + 1] \notin kept
    <3>1. g[n + 1] = g[n]
      BY <1>4, <2>2, <2>7
    <3>2. Len(g[n + 1]) <= n + 1
      BY <2>3, <3>1
    <3>. QED  BY <2>3, <2>4, <2>7, <3>1, <3>2
  <2>. QED  BY <2>6, <2>7
<1>7. Good(Len(s))
  <2>1. Len(s) \in P
    <3> HIDE DEF P
    <3>. QED  BY <1>0, <1>5, <1>6, Induction
  <2>. QED  BY <1>0, <2>1
<1>8. ToSet(s) = {s[i] : i \in 1..Len(s)}
  BY <1>0 DEF ToSet
<1>. QED  BY <1>2, <1>7, <1>8
-----------------------------------------------------------------------------
(* Sums over the calls *)

\* When only what concerns c differs, the two sums differ by what c adds to each.
LEMMA SumChanges ==
    ASSUME NEW S, NEW T, IsFiniteSet(S), IsFiniteSet(T), NEW c, S \ {c} = T \ {c},
           NEW f, NEW g, \A x \in S : f[x] \in Nat, \A x \in T : g[x] \in Nat,
           \A x \in S \ {c} : f[x] = g[x]
    PROVE  /\ SumFunctionOnSet(f, S) \in Nat
           /\ SumFunctionOnSet(g, T) \in Nat
           /\ SumFunctionOnSet(g, T) + (IF c \in S THEN f[c] ELSE 0)
                = SumFunctionOnSet(f, S) + (IF c \in T THEN g[c] ELSE 0)
<1> DEFINE R == S \ {c}
           rest == SumFunctionOnSet(f, R)
<1>1. IsFiniteSet(R)
  BY FS_Subset
<1>2. rest \in Nat
  BY <1>1, SumType
<1>3. rest = SumFunctionOnSet(g, R)
  BY <1>1, SumSame
<1>4. SumFunctionOnSet(f, S) = (IF c \in S THEN f[c] ELSE 0) + rest
  <2>1. CASE c \in S
    BY <2>1, SumTakes
  <2>2. CASE c \notin S
    <3>1. R = S
      BY <2>2
    <3>2. SumFunctionOnSet(f, S) = rest
      BY <3>1
    <3> HIDE DEF rest
    <3>. QED  BY <1>2, <2>2, <3>2
  <2>. QED  BY <2>1, <2>2
<1>5. SumFunctionOnSet(g, T) = (IF c \in T THEN g[c] ELSE 0) + rest
  <2>1. CASE c \in T
    <3>1. SumFunctionOnSet(g, T) = g[c] + SumFunctionOnSet(g, T \ {c})
      BY <2>1, SumTakes
    <3>. QED  BY <1>3, <2>1, <3>1
  <2>2. CASE c \notin T
    <3>1. R = T
      BY <2>2
    <3>2. SumFunctionOnSet(g, T) = rest
      BY <1>3, <3>1
    <3> HIDE DEF rest
    <3>. QED  BY <1>2, <2>2, <3>2
  <2>. QED  BY <2>1, <2>2
<1> HIDE DEF rest
<1>6. /\ (IF c \in S THEN f[c] ELSE 0) \in Nat
      /\ (IF c \in T THEN g[c] ELSE 0) \in Nat
  OBVIOUS
<1>. QED  BY <1>2, <1>4, <1>5, <1>6
-----------------------------------------------------------------------------
(* Types *)

Entry == [key : Keys, value : Calls, expiresAt : Nat]

TypeOK ==
    /\ entries \in Seq(Entry)
    /\ clock \in Nat
    /\ committed \in [Scopes -> Nat]
    /\ reserved \in [Scopes -> Nat]
    /\ phase \in [Calls -> {"idle", "running", "settled", "over"}]
    /\ request \in [Calls -> Requests \cup {NoRequest}]
    /\ response \in [Calls -> Responses \cup {NoResponse}]
    /\ served \in [Calls -> Calls \cup {Nobody}]
    /\ latest \in [Keys -> Calls \cup {Nobody}]
    /\ storedAt \in [Calls -> Nat]

\* What a call has got by now.
Progress ==
    \A c \in Calls :
        /\ phase[c] \in {"running", "settled"} => request[c] \in Requests
        /\ phase[c] \in {"idle", "running"} => response[c] = NoResponse
        /\ response[c] # NoResponse => request[c] \in Requests

\* Rounding does not make a cost negative.
LEMMA TokenCostType ==
    ASSUME NEW tokens \in Nat, NEW rate \in Nat
    PROVE  TokenCost(tokens, rate) \in Nat
<1>1. Million \in Nat \ {0}
  BY BudgetAssumption
<1>2. tokens * rate \in Nat
  OBVIOUS
<1>3. 2 * tokens * rate = 2 * (tokens * rate)
  OBVIOUS
<1>4. ASSUME NEW a \in Nat, NEW b \in Nat \ {0} PROVE a \div b \in Nat
  OBVIOUS
<1>5. 2 * (tokens * rate) + Million \in Nat /\ 2 * Million \in Nat \ {0}
  BY <1>1, <1>2
<1>. QED  BY <1>3, <1>4, <1>5 DEF TokenCost

\* Costs of requests and of responses are natural numbers.
LEMMA CostType ==
    ASSUME NEW r \in Requests \cup Responses
    PROVE  Cost(r) \in Nat
<1>1. r.inputTokens \in Nat /\ r.outputTokens \in Nat
  BY CallsAssumption
<1>2. CASE ~Priced(r)
  BY <1>2 DEF Cost
<1>3. CASE Priced(r)
  <2>1. Rates[r.model].input \in Nat /\ Rates[r.model].output \in Nat
    BY <1>3, BudgetAssumption DEF Priced, RateOK
  <2>2. /\ TokenCost(r.inputTokens, Rates[r.model].input) \in Nat
        /\ TokenCost(r.outputTokens, Rates[r.model].output) \in Nat
    BY <1>1, <2>1, TokenCostType
  <2>. QED  BY <1>3, <2>2 DEF Cost
<1>. QED  BY <1>2, <1>3

\* So is what a request reserves; and a request has a scope and a key.
LEMMA ReservationType ==
    ASSUME NEW r \in Requests
    PROVE  Reservation(r) \in Nat /\ r.scope \in Scopes /\ r.key \in Keys /\ r # NoRequest
BY CostType, CallsAssumption DEF Reservation, Keys

SumsTyped ==
    /\ \A c \in Calls : CostOf[c] \in Nat /\ HeldBy[c] \in Nat /\ Excess[c] \in Nat
    /\ \A s \in Scopes : /\ IsFiniteSet(OnTheirWay(s)) /\ OnTheirWay(s) \subseteq Calls
                         /\ IsFiniteSet(Charged(s)) /\ Charged(s) \subseteq Calls

\* The sums of the properties are over finite sets of natural numbers.
LEMMA SumsOfCalls == TypeOK /\ Progress => SumsTyped
<1>. SUFFICES ASSUME TypeOK, Progress PROVE SumsTyped
  OBVIOUS
<1>1. ASSUME NEW c \in Calls PROVE CostOf[c] \in Nat /\ HeldBy[c] \in Nat
  <2>1. CostOf[c] \in Nat
    <3>1. CASE response[c] = NoResponse
      BY <3>1 DEF CostOf
    <3>2. CASE response[c] # NoResponse
      <4>1. response[c] \in Requests \cup Responses
        BY <3>2 DEF TypeOK
      <4>. QED  BY <3>2, <4>1, CostType DEF CostOf
    <3>. QED  BY <3>1, <3>2
  <2>2. HeldBy[c] \in Nat
    <3>1. CASE request[c] = NoRequest
      BY <3>1 DEF HeldBy
    <3>2. CASE request[c] # NoRequest
      <4>1. request[c] \in Requests
        BY <3>2 DEF TypeOK
      <4>. QED  BY <3>2, <4>1, ReservationType DEF HeldBy
    <3>. QED  BY <3>1, <3>2
  <2>. QED  BY <2>1, <2>2
<1>2. ASSUME NEW c \in Calls PROVE Excess[c] \in Nat
  BY <1>1 DEF Excess
<1>3. ASSUME NEW s \in Scopes
      PROVE  IsFiniteSet(OnTheirWay(s)) /\ IsFiniteSet(Charged(s))
  <2>1. OnTheirWay(s) \in SUBSET Calls /\ Charged(s) \in SUBSET Calls
    BY DEF OnTheirWay, Charged
  <2>. QED  BY <2>1, CallsAssumption, FS_Subset
<1>. QED  BY <1>1, <1>2, <1>3 DEF SumsTyped, OnTheirWay, Charged
-----------------------------------------------------------------------------
(* Type correctness *)

\* What a lookup without a hit leaves.
LEMMA WithoutIs ==
    ASSUME entries \in Seq(Entry), NEW k
    PROVE  /\ Without(k) \in Seq(Entry)
           /\ Len(Without(k)) <= Len(entries)
           /\ ToSet(Without(k)) = {e \in ToSet(entries) : e.key # k}
<1> DEFINE kept == {e \in ToSet(entries) : e.key # k}
<1>1. /\ Filtered(entries, kept) \in Seq(Entry)
      /\ Len(Filtered(entries, kept)) <= Len(entries)
      /\ ToSet(Filtered(entries, kept)) = ToSet(entries) \cap kept
  BY FilteredIs
<1>. QED  BY <1>1 DEF Without

\* What the removal of expired entries leaves.
LEMMA LiveAmongIs ==
    ASSUME NEW s \in Seq(Entry)
    PROVE  /\ LiveAmong(s) \in Seq(Entry)
           /\ ToSet(LiveAmong(s)) = {e \in ToSet(s) : Live(e)}
<1> DEFINE kept == {e \in ToSet(s) : Live(e)}
<1>1. /\ Filtered(s, kept) \in Seq(Entry)
      /\ ToSet(Filtered(s, kept)) = ToSet(s) \cap kept
  BY FilteredIs
<1>. QED  BY <1>1 DEF LiveAmong

\* The end of a sequence, from place m on.
LEMMA EndIs ==
    ASSUME NEW E, NEW s \in Seq(E), NEW m \in 1..(Len(s) + 1)
    PROVE  /\ SubSeq(s, m, Len(s)) \in Seq(E)
           /\ Len(SubSeq(s, m, Len(s))) = Len(s) - m + 1
           /\ ToSet(SubSeq(s, m, Len(s))) \subseteq ToSet(s)
<1> DEFINE t == SubSeq(s, m, Len(s))
<1>1. /\ t \in Seq(E)
      /\ Len(t) = Len(s) - m + 1
      /\ \A i \in 1..Len(t) : t[i] = s[m + i - 1]
  <2>1. m \in 1..Len(s) + 1 /\ Len(s) \in m - 1..Len(s)
    OBVIOUS
  <2>. QED  BY <2>1, SubSeqProperties
<1>2. ASSUME NEW i \in 1..Len(t) PROVE t[i] \in ToSet(s)
  <2>1. PICK j \in 1..Len(s) : j = m + i - 1
    BY <1>1
  <2>2. t[i] = s[j] /\ j \in DOMAIN s
    BY <1>1, <2>1
  <2>. QED  BY <2>2 DEF ToSet
<1>3. DOMAIN t = 1..Len(t)
  BY <1>1
<1> HIDE DEF t
<1>4. ToSet(t) \subseteq ToSet(s)
  BY <1>2, <1>3 DEF ToSet
<1>. QED  BY <1>1, <1>4 DEF t

\* What storeValue leaves in the map.
LEMMA StoreValueIs ==
    ASSUME entries \in Seq(Entry), clock \in Nat, NEW k \in Keys, NEW v \in Calls, StoreValue(k, v),
           NEW stored, stored = [key |-> k, value |-> v, expiresAt |-> clock + CacheOptions.ttl]
    PROVE  /\ entries' \in Seq(Entry)
           /\ Len(entries') <= CacheOptions.maxEntries
           /\ stored \in ToSet(entries')
           /\ \A e \in ToSet(entries') \ {stored} : e \in ToSet(entries) /\ e.key # k /\ Live(e)
           /\ \A e \in ToSet(entries) : e.key # k /\ Live(e) =>
                e \in ToSet(entries') \/ Len(entries') = CacheOptions.maxEntries
<1> DEFINE live == LiveAmong(Without(k))
           excess == Len(live) - CacheOptions.maxEntries + 1
           kept == IF excess > 0 THEN SubSeq(live, excess + 1, Len(live)) ELSE live
<1>1. CacheOptions.ttl \in Nat /\ CacheOptions.maxEntries \in Nat \ {0}
  BY CacheAssumption DEF CacheOptionsOK
<1>2. stored \in Entry
  BY <1>1 DEF Entry
<1>3. entries' = Append(kept, stored)
  BY DEF StoreValue
<1>4. live \in Seq(Entry) /\ ToSet(live) = {e \in ToSet(entries) : e.key # k /\ Live(e)}
  BY WithoutIs, LiveAmongIs
<1> HIDE DEF live
<1>5. /\ kept \in Seq(Entry)
      /\ Len(kept) < CacheOptions.maxEntries
      /\ ToSet(kept) \subseteq ToSet(live)
      /\ kept = live \/ Len(kept) + 1 = CacheOptions.maxEntries
  <2>1. CASE excess > 0
    <3>1. excess + 1 \in 1..(Len(live) + 1)
      BY <1>1, <1>4, <2>1
    <3>2. /\ SubSeq(live, excess + 1, Len(live)) \in Seq(Entry)
          /\ Len(SubSeq(live, excess + 1, Len(live))) = Len(live) - (excess + 1) + 1
          /\ ToSet(SubSeq(live, excess + 1, Len(live))) \subseteq ToSet(live)
      BY <1>4, <3>1, EndIs
    <3>3. Len(live) - (excess + 1) + 1 = CacheOptions.maxEntries - 1
      BY <1>1, <1>4
    <3>4. kept = SubSeq(live, excess + 1, Len(live))
      BY <2>1
    <3>5. Len(kept) = CacheOptions.maxEntries - 1 /\ kept \in Seq(Entry)
      BY <3>2, <3>3, <3>4
    <3>6. ToSet(kept) \subseteq ToSet(live)
      BY <3>2, <3>4
    <3> HIDE DEF kept, excess
    <3>. QED  BY <1>1, <3>5, <3>6
  <2>2. CASE ~(excess > 0)
    BY <1>1, <1>4, <2>2
  <2>. QED  BY <2>1, <2>2
<1> HIDE DEF kept
<1>6. entries' \in Seq(Entry) /\ Len(entries') = Len(kept) + 1
  BY <1>2, <1>3, <1>5
<1>7. ToSet(entries') = ToSet(kept) \cup {stored}
  BY <1>2, <1>3, <1>5, AppendSet
<1>. QED  BY <1>1, <1>4, <1>5, <1>6, <1>7

\* No call has begun.
LEMMA InitTyped == Init => TypeOK /\ Progress
BY DEF Init, CacheInit, BudgetInit, TypeOK, Progress

\* Every step keeps the types.
LEMMA TypeStep ==
    ASSUME TypeOK, Progress, [Next]_vars
    PROVE  (TypeOK /\ Progress)'
<1> USE DEF TypeOK, Progress
<1>1. ASSUME NEW c \in Calls, NEW r \in Requests, CallHits(c, r)
      PROVE  (TypeOK /\ Progress)'
  <2>1. PICK entry \in ToSet(entries) : served' = [served EXCEPT ![c] = entry.value]
    BY <1>1 DEF CallHits
  <2>2. entry.value \in Calls
    <3>1. entry \in Entry
      BY ElementType
    <3>. QED  BY <3>1 DEF Entry
  <2>3. UNCHANGED cacheVars
    BY <1>1 DEF CallHits, LookupHits
  <2>. QED  BY <1>1, <2>1, <2>2, <2>3 DEF CallHits, Begins, cacheVars, budgetVars
<1>2. ASSUME NEW c \in Calls, NEW r \in Requests, CallAdmitted(c, r)
      PROVE  (TypeOK /\ Progress)'
  <2>1. reserved' \in [Scopes -> Nat] /\ committed' = committed
    BY <1>2, ReservationType DEF CallAdmitted, Admit
  <2>2. entries' \in Seq(Entry) /\ clock' = clock
    BY <1>2, WithoutIs DEF CallAdmitted, LookupMisses
  <2>. QED  BY <1>2, <2>1, <2>2 DEF CallAdmitted, Begins
<1>3. ASSUME NEW c \in Calls, NEW r \in Requests, CallRefused(c, r)
      PROVE  (TypeOK /\ Progress)'
  <2>1. entries' \in Seq(Entry) /\ clock' = clock
    BY <1>3, WithoutIs DEF CallRefused, LookupMisses
  <2>. QED  BY <1>3, <2>1 DEF CallRefused, Begins, Refuse, budgetVars
<1>4. ASSUME NEW r \in Requests, NEW cost \in Nat, Settle(r, cost)
      PROVE  reserved' \in [Scopes -> Nat] /\ committed' \in [Scopes -> Nat]
  <2>1. CASE ~Guarded(r)
    BY <1>4, <2>1 DEF Settle, budgetVars
  <2>2. CASE Guarded(r)
    <3>1. r.scope \in Scopes /\ Reservation(r) \in Nat
      BY ReservationType
    <3>2. (IF reserved[r.scope] - Reservation(r) > 0 THEN reserved[r.scope] - Reservation(r) ELSE 0) \in Nat
      BY <3>1
    <3>3. reserved' \in [Scopes -> Nat]
      BY <1>4, <2>2, <3>1, <3>2 DEF Settle
    <3>4. committed' = [committed EXCEPT ![r.scope] = @ + cost] /\ committed[r.scope] + cost \in Nat
      BY <1>4, <2>2, <3>1 DEF Settle
    <3>. QED  BY <3>1, <3>3, <3>4
  <2>. QED  BY <2>1, <2>2
<1>5. ASSUME NEW c \in Calls, NEW answer \in Responses, ProviderAnswers(c, answer)
      PROVE  (TypeOK /\ Progress)'
  <2>1. request[c] \in Requests /\ Cost(answer) \in Nat
    BY <1>5, CostType DEF ProviderAnswers
  <2>2. reserved' \in [Scopes -> Nat] /\ committed' \in [Scopes -> Nat]
    BY <1>4, <1>5, <2>1 DEF ProviderAnswers
  <2>. QED  BY <1>5, <2>1, <2>2 DEF ProviderAnswers, cacheVars
<1>6. ASSUME NEW c \in Calls, ProviderFails(c) PROVE (TypeOK /\ Progress)'
  <2>1. request[c] \in Requests
    BY <1>6 DEF ProviderFails
  <2>2. reserved' \in [Scopes -> Nat] /\ committed' \in [Scopes -> Nat]
    BY <1>4, <1>6, <2>1 DEF ProviderFails
  <2>. QED  BY <1>6, <2>2 DEF ProviderFails, cacheVars
<1>7. ASSUME NEW c \in Calls, CallStores(c) PROVE (TypeOK /\ Progress)'
  <2>1. request[c].key \in Keys
    BY <1>7, ReservationType DEF CallStores
  <2>2. entries' \in Seq(Entry) /\ clock' = clock
    BY <1>7, <2>1, StoreValueIs DEF CallStores, StoreValue
  <2>. QED  BY <1>7, <2>1, <2>2 DEF CallStores, budgetVars
<1>8. ASSUME NEW c \in Calls, CallSkips(c) PROVE (TypeOK /\ Progress)'
  BY <1>8 DEF CallSkips, cacheVars, budgetVars
<1>9. CASE ClockMoves /\ UNCHANGED <<budgetVars, phase, request, response, served, latest, storedAt>>
  <2>1. clock' \in Nat
    BY <1>9, CacheAssumption DEF ClockMoves
  <2>. QED  BY <1>9, <2>1 DEF ClockMoves, budgetVars
<1>10. CASE UNCHANGED vars
  BY <1>10 DEF vars, cacheVars, budgetVars
<1>. QED  BY <1>1, <1>2, <1>3, <1>5, <1>6, <1>7, <1>8, <1>9, <1>10 DEF Next

\* The clients' calls keep the cache, the ledger and themselves in their types.
THEOREM TypeCorrect == Spec => [](TypeOK /\ Progress)
BY InitTyped, TypeStep, PTL DEF Spec
-----------------------------------------------------------------------------
(* The ledger *)

\* What the ledger is to hold for call c in scope s, and by how much its
\* answer passed its estimate.
HeldFor(c, s) == IF c \in OnTheirWay(s) THEN HeldBy[c] ELSE 0
SpentFor(c, s) == IF c \in Charged(s) THEN CostOf[c] ELSE 0
ExcessFor(c, s) == IF c \in Charged(s) THEN Excess[c] ELSE 0

\* A step of one call leaves the others in the sums as they are.
LEMMA SumsMove ==
    ASSUME TypeOK, Progress, (TypeOK /\ Progress)', NEW c \in Calls, NEW s \in Scopes,
           \A d \in Calls \ {c} : /\ phase'[d] = phase[d]
                                  /\ request'[d] = request[d]
                                  /\ response'[d] = response[d]
    PROVE  /\ SumFunctionOnSet(HeldBy', OnTheirWay(s)') + HeldFor(c, s)
                = SumFunctionOnSet(HeldBy, OnTheirWay(s)) + HeldFor(c, s)'
           /\ SumFunctionOnSet(CostOf', Charged(s)') + SpentFor(c, s)
                = SumFunctionOnSet(CostOf, Charged(s)) + SpentFor(c, s)'
           /\ SumFunctionOnSet(Excess', Charged(s)') + ExcessFor(c, s)
                = SumFunctionOnSet(Excess, Charged(s)) + ExcessFor(c, s)'
           /\ SumFunctionOnSet(HeldBy, OnTheirWay(s)) \in Nat
           /\ SumFunctionOnSet(HeldBy', OnTheirWay(s)') \in Nat
           /\ SumFunctionOnSet(CostOf, Charged(s)) \in Nat
           /\ SumFunctionOnSet(CostOf', Charged(s)') \in Nat
           /\ SumFunctionOnSet(Excess, Charged(s)) \in Nat
           /\ SumFunctionOnSet(Excess', Charged(s)') \in Nat
<1>1. SumsTyped
  BY SumsOfCalls
<1>2. SumsTyped'
  BY SumsOfCalls, PTL
<1>3. /\ OnTheirWay(s)' \ {c} = OnTheirWay(s) \ {c}
      /\ Charged(s)' \ {c} = Charged(s) \ {c}
  BY DEF OnTheirWay, Charged
<1>4. \A d \in Calls \ {c} : HeldBy'[d] = HeldBy[d] /\ CostOf'[d] = CostOf[d]
  BY DEF HeldBy, CostOf
<1>5. \A d \in Calls \ {c} : Excess'[d] = Excess[d]
  BY <1>4 DEF Excess
<1>6. /\ SumFunctionOnSet(HeldBy', OnTheirWay(s)') + HeldFor(c, s)
            = SumFunctionOnSet(HeldBy, OnTheirWay(s)) + HeldFor(c, s)'
      /\ SumFunctionOnSet(HeldBy, OnTheirWay(s)) \in Nat
      /\ SumFunctionOnSet(HeldBy', OnTheirWay(s)') \in Nat
  <2>1. /\ IsFiniteSet(OnTheirWay(s)) /\ IsFiniteSet(OnTheirWay(s)')
        /\ \A d \in OnTheirWay(s) : HeldBy[d] \in Nat
        /\ \A d \in OnTheirWay(s)' : HeldBy'[d] \in Nat
        /\ \A d \in OnTheirWay(s) \ {c} : HeldBy[d] = HeldBy'[d]
    BY <1>1, <1>2, <1>4 DEF SumsTyped
  <2>. QED  BY <1>3, <2>1, SumChanges DEF HeldFor
<1>7. /\ SumFunctionOnSet(CostOf', Charged(s)') + SpentFor(c, s)
            = SumFunctionOnSet(CostOf, Charged(s)) + SpentFor(c, s)'
      /\ SumFunctionOnSet(CostOf, Charged(s)) \in Nat
      /\ SumFunctionOnSet(CostOf', Charged(s)') \in Nat
  <2>1. /\ IsFiniteSet(Charged(s)) /\ IsFiniteSet(Charged(s)')
        /\ \A d \in Charged(s) : CostOf[d] \in Nat
        /\ \A d \in Charged(s)' : CostOf'[d] \in Nat
        /\ \A d \in Charged(s) \ {c} : CostOf[d] = CostOf'[d]
    BY <1>1, <1>2, <1>4 DEF SumsTyped
  <2>. QED  BY <1>3, <2>1, SumChanges DEF SpentFor
<1>8. /\ SumFunctionOnSet(Excess', Charged(s)') + ExcessFor(c, s)
            = SumFunctionOnSet(Excess, Charged(s)) + ExcessFor(c, s)'
      /\ SumFunctionOnSet(Excess, Charged(s)) \in Nat
      /\ SumFunctionOnSet(Excess', Charged(s)') \in Nat
  <2>1. /\ IsFiniteSet(Charged(s)) /\ IsFiniteSet(Charged(s)')
        /\ \A d \in Charged(s) : Excess[d] \in Nat
        /\ \A d \in Charged(s)' : Excess'[d] \in Nat
        /\ \A d \in Charged(s) \ {c} : Excess[d] = Excess'[d]
    BY <1>1, <1>2, <1>5 DEF SumsTyped
  <2>. QED  BY <1>3, <2>1, SumChanges DEF ExcessFor
<1>. QED  BY <1>6, <1>7, <1>8

\* The entries of one call, from its phase, its request and its response.
Answered(c, s) == response[c] # NoResponse /\ request[c].scope = s /\ Guarded(request[c])

EntriesOfCalls ==
    \A c \in Calls, s \in Scopes :
        /\ HeldFor(c, s) = IF phase[c] = "running" /\ request[c].scope = s
                           THEN Reservation(request[c]) ELSE 0
        /\ SpentFor(c, s) = IF Answered(c, s) THEN Cost(response[c]) ELSE 0
        /\ ExcessFor(c, s) = IF Answered(c, s) /\ Cost(response[c]) > Reservation(request[c])
                             THEN Cost(response[c]) - Reservation(request[c]) ELSE 0

\* The entries follow from the state of the call.
LEMMA CallEntries == TypeOK /\ Progress => EntriesOfCalls
<1>. SUFFICES ASSUME TypeOK, Progress, NEW c \in Calls, NEW s \in Scopes
              PROVE  /\ HeldFor(c, s) = IF phase[c] = "running" /\ request[c].scope = s
                                        THEN Reservation(request[c]) ELSE 0
                     /\ SpentFor(c, s) = IF Answered(c, s) THEN Cost(response[c]) ELSE 0
                     /\ ExcessFor(c, s) =
                            IF Answered(c, s) /\ Cost(response[c]) > Reservation(request[c])
                            THEN Cost(response[c]) - Reservation(request[c]) ELSE 0
  BY DEF EntriesOfCalls
<1>1. phase[c] = "running" \/ response[c] # NoResponse => HeldBy[c] = Reservation(request[c])
  BY ReservationType DEF Progress, HeldBy
<1>2. response[c] # NoResponse => CostOf[c] = Cost(response[c])
  BY DEF CostOf
<1>3. c \in OnTheirWay(s) <=> phase[c] = "running" /\ request[c].scope = s
  BY DEF OnTheirWay
<1>4. c \in Charged(s) <=> Answered(c, s)
  BY DEF Charged, Answered
<1>5. Excess[c] = IF CostOf[c] > HeldBy[c] THEN CostOf[c] - HeldBy[c] ELSE 0
  BY DEF Excess
<1>6. Answered(c, s) => response[c] # NoResponse
  BY DEF Answered
<1>. QED  BY <1>1, <1>2, <1>3, <1>4, <1>5, <1>6 DEF HeldFor, SpentFor, ExcessFor

\* The ledger and the cap after a step that enters what one call adds.
LEMMA LedgerMoves ==
    ASSUME TypeOK, Progress, (TypeOK /\ Progress)', LedgerBalances, SpendCapped, NEW c \in Calls,
           \A d \in Calls \ {c} : /\ phase'[d] = phase[d]
                                  /\ request'[d] = request[d]
                                  /\ response'[d] = response[d],
           \A s \in Scopes :
                /\ reserved'[s] + HeldFor(c, s) = reserved[s] + HeldFor(c, s)'
                /\ committed'[s] + SpentFor(c, s) = committed[s] + SpentFor(c, s)'
                /\ BudgetOptions.accumulated # NoCap =>
                    \/ committed'[s] + reserved'[s] <= BudgetOptions.accumulated
                    \/ committed'[s] + reserved'[s] + ExcessFor(c, s)
                        <= committed[s] + reserved[s] + ExcessFor(c, s)'
    PROVE  (LedgerBalances /\ SpendCapped)'
<1>1. ASSUME NEW s \in Scopes
      PROVE  /\ reserved'[s] = SumFunctionOnSet(HeldBy', OnTheirWay(s)')
             /\ committed'[s] = SumFunctionOnSet(CostOf', Charged(s)')
             /\ BudgetOptions.accumulated # NoCap =>
                    committed'[s] + reserved'[s]
                        <= BudgetOptions.accumulated + SumFunctionOnSet(Excess', Charged(s)')
  <2> DEFINE held == SumFunctionOnSet(HeldBy, OnTheirWay(s))
             held1 == SumFunctionOnSet(HeldBy', OnTheirWay(s)')
             cost == SumFunctionOnSet(CostOf, Charged(s))
             cost1 == SumFunctionOnSet(CostOf', Charged(s)')
             over == SumFunctionOnSet(Excess, Charged(s))
             over1 == SumFunctionOnSet(Excess', Charged(s)')
  <2>1. /\ held1 + HeldFor(c, s) = held + HeldFor(c, s)'
        /\ cost1 + SpentFor(c, s) = cost + SpentFor(c, s)'
        /\ over1 + ExcessFor(c, s) = over + ExcessFor(c, s)'
        /\ {held, held1, cost, cost1, over, over1} \subseteq Nat
    BY SumsMove
  <2>2. /\ reserved[s] = held /\ committed[s] = cost
        /\ reserved'[s] \in Nat /\ committed'[s] \in Nat
    BY DEF LedgerBalances, TypeOK
  <2>3. BudgetOptions.accumulated # NoCap =>
            committed[s] + reserved[s] <= BudgetOptions.accumulated + over
    BY DEF SpendCapped
  <2>4. HeldFor(c, s) \in Nat /\ SpentFor(c, s) \in Nat /\ ExcessFor(c, s) \in Nat
    BY SumsOfCalls DEF SumsTyped, HeldFor, SpentFor, ExcessFor
  <2>5. (SumsTyped)'
    BY SumsOfCalls, PTL
  <2>6. HeldFor(c, s)' \in Nat /\ SpentFor(c, s)' \in Nat /\ ExcessFor(c, s)' \in Nat
    BY <2>5 DEF SumsTyped, HeldFor, SpentFor, ExcessFor
  <2>7. BudgetOptions.accumulated \in Int
    BY BudgetAssumption DEF BudgetOptionsOK, NoCap
  <2> HIDE DEF held, held1, cost, cost1, over, over1
  <2>8. reserved'[s] = held1 /\ committed'[s] = cost1
    <3>1. /\ reserved'[s] + HeldFor(c, s) = reserved[s] + HeldFor(c, s)'
          /\ committed'[s] + SpentFor(c, s) = committed[s] + SpentFor(c, s)'
      OBVIOUS
    <3>2. reserved'[s] = held1
      BY <2>1, <2>2, <2>4, <2>6, <3>1
    <3>3. committed'[s] = cost1
      BY <2>1, <2>2, <2>4, <2>6, <3>1
    <3>. QED  BY <3>2, <3>3
  <2>9. BudgetOptions.accumulated # NoCap =>
            committed'[s] + reserved'[s] <= BudgetOptions.accumulated + over1
    BY <2>1, <2>2, <2>3, <2>4, <2>6, <2>7
  <2>. QED  BY <2>8, <2>9 DEF held1, cost1, over1
<1>. QED  BY <1>1 DEF LedgerBalances, SpendCapped

\* A call that begins holds its estimate, or nothing.
LEMMA LedgerBegins ==
    ASSUME TypeOK, Progress, (TypeOK /\ Progress)', LedgerBalances, SpendCapped,
           NEW c \in Calls, NEW r \in Requests, NEW stage \in {"running", "over"},
           Begins(c, r, stage), UNCHANGED response,
           IF stage = "running" THEN Admit(r) ELSE UNCHANGED budgetVars
    PROVE  (LedgerBalances /\ SpendCapped)'
<1>1. EntriesOfCalls /\ EntriesOfCalls'
  BY CallEntries, PTL
<1>2. /\ phase \in [Calls -> {"idle", "running", "settled", "over"}]
      /\ request \in [Calls -> Requests \cup {NoRequest}]
      /\ phase[c] = "idle" /\ response[c] = NoResponse /\ response' = response
      /\ phase' = [phase EXCEPT ![c] = stage] /\ request' = [request EXCEPT ![c] = r]
  BY DEF TypeOK, Progress, Begins
<1>3. r.scope \in Scopes /\ Reservation(r) \in Nat
  BY ReservationType
<1>4. ASSUME NEW s \in Scopes
      PROVE  /\ reserved'[s] + HeldFor(c, s) = reserved[s] + HeldFor(c, s)'
             /\ committed'[s] + SpentFor(c, s) = committed[s] + SpentFor(c, s)'
             /\ BudgetOptions.accumulated # NoCap =>
                    \/ committed'[s] + reserved'[s] <= BudgetOptions.accumulated
                    \/ committed'[s] + reserved'[s] + ExcessFor(c, s)
                        <= committed[s] + reserved[s] + ExcessFor(c, s)'
  <2>1. HeldFor(c, s) = 0 /\ SpentFor(c, s) = 0 /\ ExcessFor(c, s) = 0
    BY <1>1, <1>2 DEF EntriesOfCalls, Answered
  <2>2. SpentFor(c, s)' = 0 /\ ExcessFor(c, s)' = 0
    BY <1>1, <1>2 DEF EntriesOfCalls, Answered
  <2>3. HeldFor(c, s)' = IF stage = "running" /\ r.scope = s THEN Reservation(r) ELSE 0
    <3>1. HeldFor(c, s)' = IF phase'[c] = "running" /\ request'[c].scope = s
                           THEN Reservation(request'[c]) ELSE 0
      BY <1>1 DEF EntriesOfCalls, Reservation, Guarded, Priced, Cost, TokenCost
    <3>. QED  BY <1>2, <3>1
  <2>4. reserved[s] \in Nat /\ committed[s] \in Nat /\ reserved \in [Scopes -> Nat]
    BY DEF TypeOK
  <2>5. CASE stage = "running" /\ r.scope = s
    <3>1. reserved'[s] = reserved[s] + Reservation(r) /\ committed'[s] = committed[s]
      BY <1>3, <2>4, <2>5 DEF Admit
    <3>2. BudgetOptions.accumulated # NoCap =>
            \/ committed'[s] + reserved'[s] <= BudgetOptions.accumulated
            \/ committed'[s] + reserved'[s] <= committed[s] + reserved[s]
      <4>1. CASE ~Priced(r)
        BY <2>4, <3>1, <4>1 DEF Reservation, Guarded
      <4>2. CASE Priced(r)
        <5>1. SUFFICES ASSUME BudgetOptions.accumulated # NoCap
                       PROVE  committed'[s] + reserved'[s] <= BudgetOptions.accumulated
          OBVIOUS
        <5>2. Reservation(r) = Cost(r) /\ Allowed(s, Cost(r))
          BY <2>5, <4>2, <5>1 DEF Admit, Reservation, Guarded
        <5>3. Cost(r) <= BudgetOptions.accumulated - committed[s] - reserved[s]
          BY <5>1, <5>2 DEF Allowed
        <5>4. BudgetOptions.accumulated \in Int
          BY BudgetAssumption DEF BudgetOptionsOK, NoCap
        <5>5. Cost(r) \in Nat
          BY <1>3, <5>2
        <5>. QED  BY <2>4, <3>1, <5>2, <5>3, <5>4, <5>5
      <4>. QED  BY <4>1, <4>2
    <3>3. HeldFor(c, s)' = Reservation(r)
      BY <2>3, <2>5
    <3>4. committed'[s] + reserved'[s] \in Nat /\ committed[s] + reserved[s] \in Nat
      BY <1>3, <2>4, <3>1
    <3>. QED  BY <1>3, <2>1, <2>2, <2>4, <3>1, <3>2, <3>3, <3>4
  <2>6. CASE ~(stage = "running" /\ r.scope = s)
    <3>1. reserved'[s] = reserved[s] /\ committed'[s] = committed[s]
      BY <1>3, <2>4, <2>6 DEF Admit, budgetVars
    <3>2. HeldFor(c, s)' = 0
      BY <2>3, <2>6
    <3>. QED  BY <2>1, <2>2, <2>4, <3>1, <3>2
  <2>. QED  BY <2>5, <2>6
<1>5. \A d \in Calls \ {c} : /\ phase'[d] = phase[d]
                             /\ request'[d] = request[d]
                             /\ response'[d] = response[d]
  BY <1>2
<1>. QED  BY <1>4, <1>5, LedgerMoves

\* A call that is settled gives its estimate back; an answer is entered.
LEMMA LedgerSettles ==
    ASSUME TypeOK, Progress, (TypeOK /\ Progress)', LedgerBalances, SpendCapped,
           NEW c \in Calls, phase[c] = "running",
           NEW stage \in {"settled", "over"}, phase' = [phase EXCEPT ![c] = stage],
           NEW answer \in Responses \cup {NoResponse}, response' = [response EXCEPT ![c] = answer],
           Settle(request[c], IF answer = NoResponse THEN 0 ELSE Cost(answer)),
           UNCHANGED request
    PROVE  (LedgerBalances /\ SpendCapped)'
<1> DEFINE r == request[c]
           actual == IF answer = NoResponse THEN 0 ELSE Cost(answer)
<1>1. EntriesOfCalls /\ EntriesOfCalls'
  BY CallEntries, PTL
<1>2. /\ phase \in [Calls -> {"idle", "running", "settled", "over"}]
      /\ response \in [Calls -> Responses \cup {NoResponse}]
      /\ r \in Requests /\ response[c] = NoResponse
      /\ phase'[c] = stage /\ response'[c] = answer /\ request'[c] = r
  BY DEF TypeOK, Progress
<1>3. r.scope \in Scopes /\ Reservation(r) \in Nat /\ actual \in Nat
  <2>1. answer # NoResponse => Cost(answer) \in Nat
    BY CostType
  <2>. QED  BY <1>2, <2>1, ReservationType
<1>4. \A d \in Calls \ {c} : /\ phase'[d] = phase[d]
                             /\ request'[d] = request[d]
                             /\ response'[d] = response[d]
  BY <1>2
<1>5. ASSUME NEW s \in Scopes
      PROVE  /\ reserved'[s] + HeldFor(c, s) = reserved[s] + HeldFor(c, s)'
             /\ committed'[s] + SpentFor(c, s) = committed[s] + SpentFor(c, s)'
             /\ BudgetOptions.accumulated # NoCap =>
                    \/ committed'[s] + reserved'[s] <= BudgetOptions.accumulated
                    \/ committed'[s] + reserved'[s] + ExcessFor(c, s)
                        <= committed[s] + reserved[s] + ExcessFor(c, s)'
  <2>1. SpentFor(c, s) = 0 /\ ExcessFor(c, s) = 0
    BY <1>1, <1>2 DEF EntriesOfCalls, Answered
  <2>2. HeldFor(c, s) = IF r.scope = s THEN Reservation(r) ELSE 0
    BY <1>1 DEF EntriesOfCalls
  <2>3. HeldFor(c, s)' = 0
    BY <1>1, <1>2 DEF EntriesOfCalls
  <2>4. SpentFor(c, s)' = IF r.scope = s /\ Guarded(r) THEN actual ELSE 0
    <3>1. SpentFor(c, s)' = IF /\ response'[c] # NoResponse /\ request'[c].scope = s
                               /\ Guarded(request'[c])
                            THEN Cost(response'[c]) ELSE 0
      BY <1>1 DEF EntriesOfCalls, Answered, Guarded, Priced, Cost, TokenCost
    <3>. QED  BY <1>2, <3>1
  <2>5. ExcessFor(c, s)' = IF r.scope = s /\ Guarded(r) /\ actual > Reservation(r)
                           THEN actual - Reservation(r) ELSE 0
    <3>1. ExcessFor(c, s)' = IF /\ response'[c] # NoResponse /\ request'[c].scope = s
                                /\ Guarded(request'[c])
                                /\ Cost(response'[c]) > Reservation(request'[c])
                             THEN Cost(response'[c]) - Reservation(request'[c]) ELSE 0
      BY <1>1 DEF EntriesOfCalls, Answered, Guarded, Priced, Cost, TokenCost, Reservation
    <3>. QED  BY <1>2, <1>3, <3>1
  <2>6. /\ reserved[s] \in Nat /\ committed[s] \in Nat
        /\ reserved \in [Scopes -> Nat] /\ committed \in [Scopes -> Nat]
    BY DEF TypeOK
  <2>7. CASE r.scope = s /\ Guarded(r)
    <3>1. reserved[s] - Reservation(r) \in Nat
      <4>1. /\ SumFunctionOnSet(HeldBy', OnTheirWay(s)') + HeldFor(c, s)
                = SumFunctionOnSet(HeldBy, OnTheirWay(s)) + HeldFor(c, s)'
            /\ SumFunctionOnSet(HeldBy, OnTheirWay(s)) \in Nat
            /\ SumFunctionOnSet(HeldBy', OnTheirWay(s)') \in Nat
        BY <1>4, SumsMove
      <4>2. reserved[s] = SumFunctionOnSet(HeldBy, OnTheirWay(s))
        BY DEF LedgerBalances
      <4>. QED  BY <1>3, <2>2, <2>3, <2>7, <4>1, <4>2
    <3>2. reserved'[s] = reserved[s] - Reservation(r)
      <4>1. reserved'[s] = IF reserved[s] - Reservation(r) > 0 THEN reserved[s] - Reservation(r) ELSE 0
        BY <1>3, <2>6, <2>7 DEF Settle
      <4>. QED  BY <3>1, <4>1
    <3>3. committed'[s] = committed[s] + actual
      BY <1>3, <2>6, <2>7 DEF Settle
    <3> HIDE DEF actual, r
    <3>. QED  BY <1>3, <2>1, <2>2, <2>3, <2>4, <2>5, <2>6, <2>7, <3>1, <3>2, <3>3
  <2>8. CASE ~(r.scope = s /\ Guarded(r))
    <3>1. reserved'[s] = reserved[s] /\ committed'[s] = committed[s]
      BY <1>3, <2>6, <2>8 DEF Settle, budgetVars
    <3>2. HeldFor(c, s) = 0
      BY <2>2, <2>8 DEF Reservation
    <3>. QED  BY <2>1, <2>3, <2>4, <2>5, <2>6, <2>8, <3>1, <3>2
  <2>. QED  BY <2>7, <2>8
<1>. QED  BY <1>4, <1>5, LedgerMoves

\* What becomes of an answer after the settlement is not entered.
LEMMA LedgerRests ==
    ASSUME TypeOK, Progress, (TypeOK /\ Progress)', LedgerBalances, SpendCapped,
           NEW c \in Calls, phase[c] = "settled", phase' = [phase EXCEPT ![c] = "over"],
           UNCHANGED <<budgetVars, request, response>>
    PROVE  (LedgerBalances /\ SpendCapped)'
<1>1. phase \in [Calls -> {"idle", "running", "settled", "over"}]
  BY DEF TypeOK
<1>2. \A s \in Scopes : OnTheirWay(s)' = OnTheirWay(s) /\ Charged(s)' = Charged(s)
  BY <1>1 DEF OnTheirWay, Charged
<1>3. HeldBy' = HeldBy /\ CostOf' = CostOf
  BY DEF HeldBy, CostOf
<1>4. Excess' = Excess
  BY <1>3 DEF Excess
<1>. QED  BY <1>2, <1>3, <1>4 DEF LedgerBalances, SpendCapped, budgetVars

\* The ledger begins empty.
LEMMA LedgerInit == Init => LedgerBalances /\ SpendCapped
<1>. SUFFICES ASSUME Init PROVE LedgerBalances /\ SpendCapped
  OBVIOUS
<1>1. \A s \in Scopes : OnTheirWay(s) = {} /\ Charged(s) = {}
  BY DEF Init, OnTheirWay, Charged
<1>2. \A s \in Scopes : committed[s] = 0 /\ reserved[s] = 0
  BY DEF Init, BudgetInit
<1>3. /\ SumFunctionOnSet(HeldBy, {}) = 0
      /\ SumFunctionOnSet(CostOf, {}) = 0
      /\ SumFunctionOnSet(Excess, {}) = 0
  BY SumEmpty
<1>4. LedgerBalances
  BY <1>1, <1>2, <1>3 DEF LedgerBalances
<1>5. BudgetOptions.accumulated # NoCap => BudgetOptions.accumulated \in Nat
  BY BudgetAssumption DEF BudgetOptionsOK
<1>. QED  BY <1>1, <1>2, <1>3, <1>4, <1>5 DEF SpendCapped

\* Every step keeps ledger and cap.
LEMMA LedgerStep ==
    ASSUME TypeOK, Progress, (TypeOK /\ Progress)', LedgerBalances, SpendCapped, [Next]_vars
    PROVE  (LedgerBalances /\ SpendCapped)'
<1>1. ASSUME NEW c \in Calls, NEW r \in Requests,
             CallHits(c, r) \/ CallAdmitted(c, r) \/ CallRefused(c, r)
      PROVE  (LedgerBalances /\ SpendCapped)'
  <2>1. CASE CallAdmitted(c, r)
    BY <2>1, LedgerBegins DEF CallAdmitted
  <2>2. CASE CallHits(c, r) \/ CallRefused(c, r)
    <3>1. Begins(c, r, "over") /\ UNCHANGED response /\ UNCHANGED budgetVars
      BY <2>2 DEF CallHits, CallRefused, Refuse
    <3>. QED  BY <3>1, LedgerBegins
  <2>. QED  BY <1>1, <2>1, <2>2
<1>2. ASSUME NEW c \in Calls, NEW answer \in Responses, ProviderAnswers(c, answer)
      PROVE  (LedgerBalances /\ SpendCapped)'
  <2>1. answer # NoResponse
    BY CallsAssumption
  <2>. QED  BY <1>2, <2>1, LedgerSettles DEF ProviderAnswers
<1>3. ASSUME NEW c \in Calls, ProviderFails(c) PROVE (LedgerBalances /\ SpendCapped)'
  <2>1. response' = [response EXCEPT ![c] = NoResponse]
    BY <1>3 DEF ProviderFails, TypeOK, Progress
  <2>. QED  BY <1>3, <2>1, LedgerSettles DEF ProviderFails
<1>4. ASSUME NEW c \in Calls, CallStores(c) \/ CallSkips(c) PROVE (LedgerBalances /\ SpendCapped)'
  BY <1>4, LedgerRests DEF CallStores, CallSkips
<1>5. CASE UNCHANGED <<budgetVars, phase, request, response>>
  <2>1. \A s \in Scopes : OnTheirWay(s)' = OnTheirWay(s) /\ Charged(s)' = Charged(s)
    BY <1>5 DEF OnTheirWay, Charged
  <2>2. HeldBy' = HeldBy /\ CostOf' = CostOf
    BY <1>5 DEF HeldBy, CostOf
  <2>3. Excess' = Excess
    BY <2>2 DEF Excess
  <2>. QED  BY <1>5, <2>1, <2>2, <2>3 DEF LedgerBalances, SpendCapped, budgetVars
<1>. QED  BY <1>1, <1>2, <1>3, <1>4, <1>5 DEF Next, vars

\* Ledger and cap hold together: the cap is read off the ledger.
LEMMA LedgerInvariant == Spec => [](LedgerBalances /\ SpendCapped)
BY LedgerInit, LedgerStep, TypeCorrect, PTL DEF Spec

\* For any number of overlapping calls, what is reserved is the sum of the
\* estimates on their way and what is committed the sum of the costs of the
\* answers: the clamp of settle at zero never loses anything.
THEOREM LedgerIsExact == Spec => []LedgerBalances
BY LedgerInvariant, PTL

\* Whatever the prices, caps and overlaps, spent and reserved together pass
\* the cap only by what answers cost beyond their estimates.
THEOREM SpendIsCapped == Spec => []SpendCapped
BY LedgerInvariant, PTL
-----------------------------------------------------------------------------
(* The cache *)

\* An entry holds the value its key was given last, by a call that is over,
\* with the time it was given; and there are no more entries than allowed.
EntriesCurrent ==
    /\ Len(entries) <= CacheOptions.maxEntries
    /\ \A e \in ToSet(entries) :
        /\ phase[e.value] = "over"
        /\ e.value = latest[e.key]
        /\ e.expiresAt = storedAt[e.value] + CacheOptions.ttl

\* Lookups only take entries away.
LEMMA EntriesLookup ==
    ASSUME TypeOK, EntriesCurrent, NEW c \in Calls, NEW r \in Requests, NEW stage,
           Begins(c, r, stage), LookupMisses(r.key) \/ UNCHANGED entries,
           UNCHANGED <<latest, storedAt>>
    PROVE  EntriesCurrent'
<1>1. /\ ToSet(entries') \subseteq ToSet(entries)
      /\ Len(entries') <= Len(entries)
  <2>1. CASE UNCHANGED entries
    <3>1. Len(entries) \in Nat
      BY DEF TypeOK
    <3>. QED  BY <2>1, <3>1
  <2>2. CASE LookupMisses(r.key)
    BY <2>2, WithoutIs DEF LookupMisses, TypeOK
  <2>. QED  BY <2>1, <2>2
<1>2. /\ Len(entries) \in Nat /\ Len(entries') \in Nat
      /\ CacheOptions.maxEntries \in Nat
  <2>1. entries' \in Seq(Entry)
    BY WithoutIs DEF LookupMisses, TypeOK
  <2>. QED  BY <2>1, CacheAssumption DEF TypeOK, CacheOptionsOK
<1>3. ASSUME NEW e \in ToSet(entries') PROVE phase'[e.value] = "over"
  <2>1. phase[e.value] = "over" /\ e.value # c
    BY <1>1 DEF EntriesCurrent, Begins
  <2>. QED  BY <2>1 DEF Begins, TypeOK
<1>. QED  BY <1>1, <1>2, <1>3 DEF EntriesCurrent

\* A stored value takes the place of its key, and no other's.
LEMMA EntriesStore ==
    ASSUME TypeOK, Progress, EntriesCurrent, NEW c \in Calls, CallStores(c)
    PROVE  EntriesCurrent'
<1> DEFINE k == request[c].key
           stored == [key |-> k, value |-> c, expiresAt |-> clock + CacheOptions.ttl]
<1>1. /\ phase[c] = "settled" /\ phase' = [phase EXCEPT ![c] = "over"]
      /\ latest' = [latest EXCEPT ![k] = c]
      /\ storedAt' = [storedAt EXCEPT ![c] = clock]
      /\ phase \in [Calls -> {"idle", "running", "settled", "over"}]
      /\ latest \in [Keys -> Calls \cup {Nobody}] /\ storedAt \in [Calls -> Nat]
      /\ entries \in Seq(Entry) /\ clock \in Nat
  BY DEF CallStores, TypeOK
<1>2. k \in Keys
  BY <1>1, ReservationType DEF Progress
<1>3. /\ Len(entries') <= CacheOptions.maxEntries
      /\ \A e \in ToSet(entries') \ {stored} : e \in ToSet(entries) /\ e.key # k
  BY <1>1, <1>2, StoreValueIs DEF CallStores
<1>4. ASSUME NEW e \in ToSet(entries')
      PROVE  /\ phase'[e.value] = "over"
             /\ e.value = latest'[e.key]
             /\ e.expiresAt = storedAt'[e.value] + CacheOptions.ttl
  <2>1. CASE e = stored
    BY <1>1, <1>2, <2>1
  <2>2. CASE e # stored
    <3>1. e \in ToSet(entries) /\ e.key # k
      BY <1>3, <2>2
    <3>2. e \in Entry
      BY <1>1, <3>1, ElementType
    <3>3. e.key \in Keys /\ e.value \in Calls
      BY <3>2 DEF Entry
    <3>4. /\ phase[e.value] = "over"
          /\ e.value = latest[e.key]
          /\ e.expiresAt = storedAt[e.value] + CacheOptions.ttl
      BY <3>1 DEF EntriesCurrent
    <3>5. e.value # c
      BY <1>1, <3>4
    <3>. QED  BY <1>1, <3>1, <3>3, <3>4, <3>5
  <2>. QED  BY <2>1, <2>2
<1>. QED  BY <1>3, <1>4 DEF EntriesCurrent

\* The other steps leave the cache alone, and every call that is over.
LEMMA EntriesKept ==
    ASSUME TypeOK, EntriesCurrent, UNCHANGED <<entries, latest, storedAt>>,
           \A d \in Calls : phase[d] = "over" => phase'[d] = "over"
    PROVE  EntriesCurrent'
<1>1. ASSUME NEW e \in ToSet(entries) PROVE phase'[e.value] = "over"
  <2>1. e \in Entry
    BY ElementType DEF TypeOK
  <2>2. e.value \in Calls
    BY <2>1 DEF Entry
  <2>. QED  BY <2>2 DEF EntriesCurrent
<1>. QED  BY <1>1 DEF EntriesCurrent

\* Every step keeps the entries current.
LEMMA EntriesStep ==
    ASSUME TypeOK, Progress, EntriesCurrent, [Next]_vars
    PROVE  EntriesCurrent'
<1>1. ASSUME NEW c \in Calls, NEW r \in Requests,
             CallHits(c, r) \/ CallAdmitted(c, r) \/ CallRefused(c, r)
      PROVE  EntriesCurrent'
  <2>1. /\ Begins(c, r, "over") \/ Begins(c, r, "running")
        /\ LookupMisses(r.key) \/ UNCHANGED entries
        /\ UNCHANGED <<latest, storedAt>>
    BY <1>1 DEF CallHits, CallAdmitted, CallRefused, LookupHits, cacheVars
  <2>. QED  BY <2>1, EntriesLookup
<1>2. ASSUME NEW c \in Calls, NEW answer \in Responses, ProviderAnswers(c, answer)
      PROVE  EntriesCurrent'
  BY <1>2, EntriesKept DEF ProviderAnswers, cacheVars, TypeOK
<1>3. ASSUME NEW c \in Calls, ProviderFails(c) \/ CallSkips(c) PROVE EntriesCurrent'
  BY <1>3, EntriesKept DEF ProviderFails, CallSkips, cacheVars, TypeOK
<1>4. ASSUME NEW c \in Calls, CallStores(c) PROVE EntriesCurrent'
  BY <1>4, EntriesStore
<1>5. CASE UNCHANGED <<entries, phase, latest, storedAt>>
  BY <1>5, EntriesKept
<1>. QED  BY <1>1, <1>2, <1>3, <1>4, <1>5 DEF Next, ClockMoves, vars, cacheVars

\* The invariant of the cache: every entry is the one its key was given last.
THEOREM EntriesAreCurrent == Spec => []EntriesCurrent
<1>1. Init => EntriesCurrent
  <2>. SUFFICES ASSUME Init PROVE EntriesCurrent
    OBVIOUS
  <2>1. Len(entries) = 0 /\ ToSet(entries) = {} /\ CacheOptions.maxEntries \in Nat
    BY CacheAssumption DEF Init, CacheInit, CacheOptionsOK, ToSet
  <2>. QED  BY <2>1 DEF EntriesCurrent
<1>. QED  BY <1>1, EntriesStep, TypeCorrect, PTL DEF Spec

\* In whatever order misses of a key finish, a hit returns the value that was
\* stored last for that key, before its time to live is over.
THEOREM HitsAreCurrent == Spec => HitIsCurrent
<1> DEFINE Hit == \A c \in Calls : served'[c] # served[c] =>
                    /\ served'[c] = latest[request'[c].key]
                    /\ clock < storedAt[served'[c]] + CacheOptions.ttl
<1>1. ASSUME TypeOK, EntriesCurrent, [Next]_vars PROVE [Hit]_vars
  <2>1. ASSUME NEW c \in Calls, NEW r \in Requests, CallHits(c, r) PROVE Hit
    <3>1. PICK entry \in ToSet(entries) :
            /\ entry \in EntriesOf(r.key) /\ Live(entry)
            /\ served' = [served EXCEPT ![c] = entry.value]
      BY <2>1 DEF CallHits, LookupHits
    <3>2. entry.key = r.key /\ clock < entry.expiresAt
      <4>1. entry \in Entry /\ clock \in Nat
        BY <1>1, ElementType DEF TypeOK
      <4>2. entry.expiresAt \in Nat
        BY <4>1 DEF Entry
      <4>. QED  BY <3>1, <4>1, <4>2 DEF EntriesOf, Live, IsExpired
    <3>3. /\ entry.value = latest[entry.key]
          /\ entry.expiresAt = storedAt[entry.value] + CacheOptions.ttl
      BY <1>1 DEF EntriesCurrent
    <3>4. request'[c] = r /\ served'[c] = entry.value
      BY <1>1, <2>1, <3>1 DEF CallHits, Begins, TypeOK
    <3>5. \A d \in Calls \ {c} : served'[d] = served[d]
      BY <1>1, <3>1 DEF TypeOK
    <3>. QED  BY <3>2, <3>3, <3>4, <3>5
  <2>2. CASE UNCHANGED served
    BY <2>2
  <2>. QED  BY <1>1, <2>1, <2>2
            DEF Next, CallAdmitted, CallRefused, ProviderAnswers, ProviderFails, CallStores, CallSkips
<1>. QED  BY <1>1, TypeCorrect, EntriesAreCurrent, PTL DEF Spec, HitIsCurrent

\* The cache never outgrows maxEntries, and never drops a valid entry but for
\* a newer one of its key or because it is full of valid ones.
THEOREM ValidEntriesStay == Spec => LiveEntriesStay
<1> DEFINE Stay == /\ Len(entries') <= CacheOptions.maxEntries
                   /\ \A entry \in ToSet(entries) \ ToSet(entries') :
                        \/ IsExpired(entry)
                        \/ \E other \in ToSet(entries') : other.key = entry.key
                        \/ /\ Len(entries') = CacheOptions.maxEntries
                           /\ \A other \in ToSet(entries') : Live(other)
<1>1. ASSUME TypeOK, Progress, EntriesCurrent, EntriesCurrent', [Next]_vars PROVE [Stay]_vars
  <2>1. CASE UNCHANGED entries
    BY <1>1, <2>1 DEF EntriesCurrent
  <2>2. ASSUME NEW c \in Calls, NEW r \in Requests, LookupMisses(r.key) PROVE Stay
    <3>1. ToSet(entries') = {e \in ToSet(entries) : e.key # r.key}
      BY <1>1, <2>2, WithoutIs DEF LookupMisses, TypeOK
    <3>2. \A entry \in ToSet(entries) \ ToSet(entries') : IsExpired(entry)
      BY <2>2, <3>1 DEF LookupMisses, EntriesOf
    <3>. QED  BY <1>1, <3>2 DEF EntriesCurrent
  <2>3. ASSUME NEW c \in Calls, CallStores(c) PROVE Stay
    <3> DEFINE k == request[c].key
               stored == [key |-> k, value |-> c, expiresAt |-> clock + CacheOptions.ttl]
    <3>1. k \in Keys /\ clock \in Nat /\ entries \in Seq(Entry)
      BY <1>1, <2>3, ReservationType DEF CallStores, Progress, TypeOK
    <3>2. /\ Len(entries') <= CacheOptions.maxEntries
          /\ stored \in ToSet(entries')
          /\ \A e \in ToSet(entries') \ {stored} : e \in ToSet(entries) /\ e.key # k /\ Live(e)
          /\ \A e \in ToSet(entries) : e.key # k /\ Live(e) =>
                e \in ToSet(entries') \/ Len(entries') = CacheOptions.maxEntries
      BY <2>3, <3>1, StoreValueIs DEF CallStores
    <3>3. Live(stored)
      BY <3>1, CacheAssumption DEF Live, IsExpired, CacheOptionsOK
    <3>4. stored.key = k
      OBVIOUS
    <3> HIDE DEF stored, k
    <3>. QED  BY <3>2, <3>3, <3>4 DEF Live
  <2>. QED  BY <1>1, <2>1, <2>2, <2>3
            DEF Next, CallHits, CallAdmitted, CallRefused, LookupHits, ProviderAnswers,
                ProviderFails, CallSkips, ClockMoves, vars, cacheVars
<1>. QED  BY <1>1, TypeCorrect, EntriesAreCurrent, PTL DEF Spec, LiveEntriesStay
=============================================================================
