---------------------------- MODULE CountingLemmas ----------------------------
(***************************************************************************)
(* Lemmas about numbers and sums that several proofs need.  Induction is   *)
(* by the least counterexample, since what the library offers for it takes *)
(* operators.  A sum is what MapThenSumSet of the community modules        *)
(* computes: a function on all subsets, of which one element at a time is  *)
(* taken.                                                                  *)
(***************************************************************************)
EXTENDS Naturals, FiniteSets, FiniteSetTheorems, WellFoundedInduction, TLAPS

\* A set of numbers has a least one.
LEMMA LeastNumber ==
    ASSUME NEW S, S \subseteq Nat, S # {}
    PROVE  \E m \in S : \A k \in S : m <= k
PROOF
  <1> DEFINE T == {0..n : n \in S}
  <1>1. T \subseteq FiniteSubsetsOf(Nat) /\ T # {}
    <2>1. ASSUME NEW n \in S
          PROVE  IsFiniteSet(0..n) /\ 0..n \in SUBSET Nat
      BY FS_Interval
    <2>2. \A x \in T : x \in SUBSET Nat /\ IsFiniteSet(x)
      BY <2>1
    <2>3. T # {}
      OBVIOUS
    <2> HIDE DEF T
    <2> QED
      BY <2>2, <2>3 DEF FiniteSubsetsOf
  <1>2. PICK x \in T : \A y \in T : <<y, x>> \notin StrictSubsetOrdering(Nat)
    <2>1. IsWellFoundedOn(StrictSubsetOrdering(Nat), FiniteSubsetsOf(Nat))
      BY FS_StrictSubsetOrderingWellFounded
    <2> HIDE DEF T
    <2> QED
      BY <1>1, <2>1, WFMin
  <1>3. PICK m \in S : x = 0..m
    OBVIOUS
  <1>4. ASSUME NEW k \in S, ~(m <= k) PROVE FALSE
    <2>1. 0..k \in T /\ 0..k \subseteq 0..m /\ 0..k # 0..m
      <3>1. m \in 0..m /\ m \notin 0..k
        BY <1>4
      <3> QED
        BY <1>4, <3>1
    <2>2. <<0..k, x>> \in StrictSubsetOrdering(Nat)
      BY <1>3, <2>1 DEF StrictSubsetOrdering
    <2> QED
      BY <1>2, <2>1, <2>2
  <1> QED
    BY <1>4

\* So a set of finite sets has a smallest one.
LEMMA SmallestSet ==
    ASSUME NEW C, C # {}, \A T \in C : IsFiniteSet(T)
    PROVE  \E T \in C : \A U \in C : Cardinality(T) <= Cardinality(U)
PROOF
  <1> DEFINE sizes == {Cardinality(T) : T \in C}
  <1>1. sizes \subseteq Nat /\ sizes # {}
    BY FS_CardinalityType
  <1>2. PICK m \in sizes : \A k \in sizes : m <= k
    <2> HIDE DEF sizes
    <2> QED
      BY <1>1, LeastNumber
  <1> QED
    BY <1>2

-----------------------------------------------------------------------------
\* The element that is taken of a set.
One(T) == CHOOSE x \in T : TRUE

\* s has the sum of f over each subset of S.
Sums(s, S, f) ==
    s = [T \in SUBSET S |-> IF T = {} THEN 0 ELSE f[One(T)] + s[T \ {One(T)}]]

Total(f, S) == (CHOOSE s : Sums(s, S, f))[S]

\* What is left of a finite set without an element is smaller.
LEMMA SmallerWithout ==
    ASSUME NEW T, IsFiniteSet(T), NEW x \in T
    PROVE  /\ IsFiniteSet(T \ {x})
           /\ Cardinality(T) \in Nat /\ Cardinality(T \ {x}) \in Nat
           /\ Cardinality(T \ {x}) = Cardinality(T) - 1
           /\ Cardinality(T \ {x}) < Cardinality(T)
PROOF
  <1>1. IsFiniteSet(T \ {x}) /\ Cardinality(T \ {x}) = Cardinality(T) - 1
    BY FS_RemoveElement
  <1>2. Cardinality(T) \in Nat /\ Cardinality(T \ {x}) \in Nat
    BY <1>1, FS_CardinalityType
  <1> QED
    BY <1>1, <1>2

\* Numbers have sums, by how many of them there are.
Bounded(S, n) == {T \in SUBSET S : Cardinality(T) <= n}
SumsTo(s, S, f, n) ==
    s = [T \in Bounded(S, n) |-> IF T = {} THEN 0 ELSE f[One(T)] + s[T \ {One(T)}]]

\* There are no more sets of one element than elements.
LEMMA SinglesCount ==
    ASSUME NEW T, IsFiniteSet(T)
    PROVE  /\ IsFiniteSet({{x} : x \in T})
           /\ Cardinality({{x} : x \in T}) <= Cardinality(T)
PROOF
  <1> DEFINE singles == {{x} : x \in T}
             f == [x \in T |-> {x}]
  <1>1. f \in Surjection(T, singles)
    <2>1. f \in [T -> singles]
      OBVIOUS
    <2>2. \A one \in singles : \E x \in T : f[x] = one
      OBVIOUS
    <2> HIDE DEF f, singles
    <2> QED
      BY <2>1, <2>2 DEF Surjection
  <1> HIDE DEF f, singles
  <1>2. IsFiniteSet(singles) /\ Cardinality(singles) <= Cardinality(T)
    BY <1>1, FS_Surjection
  <1> QED
    BY <1>2 DEF singles

LEMMA SumsExist ==
    ASSUME NEW S, IsFiniteSet(S), NEW f
    PROVE  \E s : Sums(s, S, f)
PROOF
  <1> DEFINE bad == {n \in Nat : ~ \E s : SumsTo(s, S, f, n)}
  <1>1. ASSUME bad # {} PROVE FALSE
    <2>1. PICK n \in bad : \A k \in bad : n <= k
      <3> bad \subseteq Nat
        OBVIOUS
      <3> HIDE DEF bad
      <3> QED
        BY <1>1, LeastNumber
    <2>2. n \in Nat /\ ~ \E s : SumsTo(s, S, f, n)
      OBVIOUS
    <2>3. \A T \in SUBSET S : IsFiniteSet(T) /\ Cardinality(T) \in Nat
      BY FS_Subset, FS_CardinalityType
    <2>4. CASE n = 0
      <3> DEFINE s == [T \in Bounded(S, 0) |-> 0]
      <3>1. \A T \in Bounded(S, 0) : T = {}
        BY <2>3, FS_EmptySet DEF Bounded
      <3>2. SumsTo(s, S, f, 0)
        BY <3>1 DEF SumsTo
      <3> QED
        BY <2>2, <2>4, <3>2
    <2>5. CASE n # 0
      <3>1. n - 1 \in Nat /\ n - 1 \notin bad
        BY <2>1, <2>2, <2>5
      <3>2. PICK r : SumsTo(r, S, f, n - 1)
        BY <3>1
      <3> DEFINE s == [T \in Bounded(S, n) |-> IF T = {} THEN 0 ELSE f[One(T)] + r[T \ {One(T)}]]
      <3>3. ASSUME NEW T \in Bounded(S, n), T # {}
            PROVE  One(T) \in T /\ T \ {One(T)} \in Bounded(S, n - 1) /\ T \ {One(T)} \in Bounded(S, n)
        <4>1. One(T) \in T
          BY <3>3 DEF One
        <4>2. IsFiniteSet(T) /\ Cardinality(T) <= n /\ T \subseteq S
          BY <2>3 DEF Bounded
        <4>3. /\ Cardinality(T) \in Nat /\ Cardinality(T \ {One(T)}) \in Nat
              /\ Cardinality(T \ {One(T)}) = Cardinality(T) - 1
          BY <4>1, <4>2, SmallerWithout
        <4>4. Cardinality(T \ {One(T)}) <= n - 1 /\ Cardinality(T \ {One(T)}) <= n
          BY <2>2, <4>2, <4>3
        <4> QED
          BY <4>1, <4>2, <4>4 DEF Bounded
      <3>4. ASSUME NEW T \in Bounded(S, n - 1) PROVE s[T] = r[T]
        <4>1. T \in Bounded(S, n)
          <5>1. Cardinality(T) \in Nat /\ Cardinality(T) <= n - 1 /\ T \in SUBSET S
            BY <2>3 DEF Bounded
          <5> QED
            BY <2>2, <5>1 DEF Bounded
        <4>2. r[T] = IF T = {} THEN 0 ELSE f[One(T)] + r[T \ {One(T)}]
          BY <3>2 DEF SumsTo
        <4> QED
          BY <4>1, <4>2
      <3>5. \A T \in Bounded(S, n) : T # {} => s[T \ {One(T)}] = r[T \ {One(T)}]
        BY <3>3, <3>4
      <3>6. s = [T \in Bounded(S, n) |-> IF T = {} THEN 0 ELSE f[One(T)] + s[T \ {One(T)}]]
        BY <3>5
      <3>7. SumsTo(s, S, f, n)
        BY <3>6 DEF SumsTo
      <3> QED
        BY <2>2, <3>7
    <2> QED
      BY <2>4, <2>5
  <1> DEFINE c == Cardinality(S)
  <1>2. c \in Nat
    BY FS_CardinalityType
  <1>3. PICK s : SumsTo(s, S, f, c)
    BY <1>1, <1>2
  <1>4. Bounded(S, c) = SUBSET S
    BY FS_Subset DEF Bounded
  <1> QED
    BY <1>3, <1>4 DEF SumsTo, Sums

\* Sums of the same numbers are the same.
LEMMA SumsAgree ==
    ASSUME NEW S, NEW s, NEW f, Sums(s, S, f),
           NEW R, NEW r, NEW g, Sums(r, R, g),
           NEW U, IsFiniteSet(U), U \subseteq S, U \subseteq R, \A x \in U : f[x] = g[x]
    PROVE  s[U] = r[U]
PROOF
  <1> DEFINE bad == {T \in SUBSET U : s[T] # r[T]}
  <1>1. ASSUME bad # {} PROVE FALSE
    <2>1. PICK T \in bad : \A V \in bad : Cardinality(T) <= Cardinality(V)
      <3> \A V \in bad : IsFiniteSet(V)
        BY FS_Subset
      <3> HIDE DEF bad
      <3> QED
        BY <1>1, SmallestSet
    <2>2. T \in SUBSET U /\ s[T] # r[T] /\ IsFiniteSet(T)
      BY FS_Subset
    <2>3. /\ s[T] = IF T = {} THEN 0 ELSE f[One(T)] + s[T \ {One(T)}]
          /\ r[T] = IF T = {} THEN 0 ELSE g[One(T)] + r[T \ {One(T)}]
      BY <2>2 DEF Sums
    <2>4. T # {}
      BY <2>2, <2>3
    <2>5. One(T) \in T
      BY <2>4 DEF One
    <2>6. T \ {One(T)} \notin bad
      <3>1. /\ Cardinality(T) \in Nat /\ Cardinality(T \ {One(T)}) \in Nat
            /\ Cardinality(T \ {One(T)}) < Cardinality(T)
        BY <2>2, <2>5, SmallerWithout
      <3> HIDE DEF bad
      <3> QED
        BY <2>1, <3>1
    <2>7. s[T \ {One(T)}] = r[T \ {One(T)}] /\ f[One(T)] = g[One(T)]
      BY <2>2, <2>5, <2>6
    <2> QED
      BY <2>2, <2>3, <2>4, <2>7
  <1> QED
    BY <1>1

\* A sum is that of any element and the others.
LEMMA AnyElementFirst ==
    ASSUME NEW S, NEW f \in [S -> Nat], NEW s, Sums(s, S, f),
           NEW U \in SUBSET S, IsFiniteSet(U), NEW x \in U
    PROVE  s[U] = f[x] + s[U \ {x}] /\ s[U] \in Nat
PROOF
  <1> DEFINE bad == {T \in SUBSET U : ~(/\ s[T] \in Nat
                                        /\ \A y \in T : s[T] = f[y] + s[T \ {y}])}
  <1>1. ASSUME bad # {} PROVE FALSE
    <2>1. PICK T \in bad : \A V \in bad : Cardinality(T) <= Cardinality(V)
      <3> \A V \in bad : IsFiniteSet(V)
        BY FS_Subset
      <3> HIDE DEF bad
      <3> QED
        BY <1>1, SmallestSet
    <2>2. T \in SUBSET U /\ IsFiniteSet(T)
      BY FS_Subset
    <2>3. s[T] = IF T = {} THEN 0 ELSE f[One(T)] + s[T \ {One(T)}]
      BY <2>2 DEF Sums
    <2>4. T # {}
      BY <2>3
    <2> DEFINE o == One(T)
    <2>5. o \in T
      BY <2>4 DEF One
    <2> HIDE DEF o
    <2>6. ASSUME NEW y \in T
          PROVE  s[T \ {y}] \in Nat /\ \A z \in T \ {y} : s[T \ {y}] = f[z] + s[(T \ {y}) \ {z}]
      <3>1. /\ Cardinality(T) \in Nat /\ Cardinality(T \ {y}) \in Nat
            /\ Cardinality(T \ {y}) < Cardinality(T)
        BY <2>2, SmallerWithout
      <3>2. T \ {y} \notin bad
        <4> HIDE DEF bad
        <4> QED
          BY <2>1, <3>1
      <3> QED
        BY <2>2, <3>2
    <2>7. s[T] = f[o] + s[T \ {o}]
      BY <2>3, <2>4 DEF o
    <2>8. \A y \in T : f[y] \in Nat
      BY <2>2
    <2>9. s[T] \in Nat
      BY <2>5, <2>6, <2>7, <2>8
    <2>10. ASSUME NEW y \in T PROVE s[T] = f[y] + s[T \ {y}]
      <3>1. CASE y = o
        BY <2>7, <3>1
      <3>2. CASE y # o
        <4>1. (T \ {o}) \ {y} = (T \ {y}) \ {o}
          OBVIOUS
        <4>2. s[T \ {o}] = f[y] + s[(T \ {o}) \ {y}]
          BY <2>5, <2>6, <3>2
        <4>3. s[T \ {y}] = f[o] + s[(T \ {y}) \ {o}]
          BY <2>5, <2>6, <3>2
        <4>4. s[(T \ {o}) \ {y}] \in Nat
          <5>1. /\ IsFiniteSet(T \ {o})
                /\ Cardinality(T) \in Nat /\ Cardinality(T \ {o}) \in Nat
                /\ Cardinality(T \ {o}) < Cardinality(T)
            BY <2>2, <2>5, SmallerWithout
          <5>2. y \in T \ {o}
            BY <3>2
          <5>3. /\ Cardinality((T \ {o}) \ {y}) \in Nat
                /\ Cardinality((T \ {o}) \ {y}) < Cardinality(T \ {o})
            BY <5>1, <5>2, SmallerWithout
          <5>4. (T \ {o}) \ {y} \notin bad
            <6> HIDE DEF bad
            <6> QED
              BY <2>1, <5>1, <5>3
          <5> QED
            BY <2>2, <5>4
        <4> DEFINE rest == s[(T \ {o}) \ {y}]
        <4>5. s[T] = f[o] + (f[y] + rest) /\ s[T \ {y}] = f[o] + rest
          BY <2>7, <4>1, <4>2, <4>3
        <4>6. f[o] \in Nat /\ f[y] \in Nat /\ rest \in Nat
          BY <2>5, <2>8, <4>4
        <4> HIDE DEF rest
        <4> QED
          BY <4>5, <4>6
      <3> QED
        BY <3>1, <3>2
    <2> QED
      BY <2>9, <2>10
  <1> QED
    BY <1>1

-----------------------------------------------------------------------------
LEMMA TotalIsSum ==
    ASSUME NEW S, IsFiniteSet(S), NEW f, NEW s, Sums(s, S, f)
    PROVE  Total(f, S) = s[S]
PROOF
  <1> DEFINE r == CHOOSE t : Sums(t, S, f)
  <1>1. Sums(r, S, f)
    BY SumsExist
  <1>2. Total(f, S) = r[S]
    BY DEF Total
  <1> HIDE DEF r
  <1> QED
    BY <1>1, <1>2, SumsAgree

LEMMA TotalOfNone ==
    ASSUME NEW f
    PROVE  Total(f, {}) = 0
PROOF
  <1>1. PICK s : Sums(s, {}, f)
    BY SumsExist, FS_EmptySet
  <1>2. s[{}] = 0
    BY <1>1 DEF Sums
  <1> QED
    BY <1>1, <1>2, TotalIsSum, FS_EmptySet

LEMMA TotalOfMore ==
    ASSUME NEW D, NEW f \in [D -> Nat], NEW S \in SUBSET D, IsFiniteSet(S), NEW x \in D \ S
    PROVE  /\ Total(f, S) \in Nat
           /\ Total(f, S \cup {x}) = Total(f, S) + f[x]
PROOF
  <1> DEFINE U == S \cup {x}
             g == [y \in U |-> f[y]]
  <1>1. IsFiniteSet(U)
    BY FS_AddElement
  <1>2. g \in [U -> Nat] /\ U \ {x} = S /\ x \in U
    OBVIOUS
  <1>3. PICK s : Sums(s, U, g)
    BY <1>1, SumsExist
  <1>4. PICK r : Sums(r, S, f)
    BY SumsExist
  <1>5. PICK t : Sums(t, U, f)
    BY <1>1, SumsExist
  <1>6. Total(f, S) = r[S] /\ Total(f, U) = t[U]
    BY <1>1, <1>4, <1>5, TotalIsSum
  <1>7. \A y \in U : f[y] = g[y]
    OBVIOUS
  <1> HIDE DEF g, U
  <1>8. r[S] = s[S] /\ t[U] = s[U]
    <2>1. S \subseteq U
      BY DEF U
    <2> QED
      BY <1>1, <1>3, <1>4, <1>5, <1>7, <2>1, SumsAgree
  <1>9. s[U] = g[x] + s[S] /\ s[U] \in Nat
    <2>1. U \in SUBSET U
      OBVIOUS
    <2>2. s[U] = g[x] + s[U \ {x}] /\ s[U] \in Nat
      BY <1>1, <1>2, <1>3, <2>1, AnyElementFirst
    <2> QED
      BY <1>2, <2>2
  <1>10. s[S] \in Nat
    <2>1. CASE S = {}
      <3>1. s[S] = 0
        BY <1>3, <2>1 DEF Sums
      <3> QED
        BY <3>1
    <2>2. CASE S # {}
      <3>1. PICK y : y \in S
        BY <2>2
      <3>2. S \in SUBSET U
        BY DEF U
      <3> QED
        BY <1>2, <1>3, <3>1, <3>2, AnyElementFirst
    <2> QED
      BY <2>1, <2>2
  <1>11. f[x] = g[x] /\ f[x] \in Nat
    BY <1>2, <1>7
  <1> QED
    BY <1>6, <1>8, <1>9, <1>10, <1>11 DEF U

LEMMA TotalsAgree ==
    ASSUME NEW S, IsFiniteSet(S), NEW f, NEW g, \A x \in S : f[x] = g[x]
    PROVE  Total(f, S) = Total(g, S)
PROOF
  <1>1. PICK s : Sums(s, S, f)
    BY SumsExist
  <1>2. PICK r : Sums(r, S, g)
    BY SumsExist
  <1>3. s[S] = r[S]
    BY <1>1, <1>2, SumsAgree
  <1> QED
    BY <1>1, <1>2, <1>3, TotalIsSum

===============================================================================
