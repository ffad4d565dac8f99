----------------------------- MODULE MarkupProofs -----------------------------
(* Proofs about the validation of markup.  Whatever files include and        *)
(* override each other, what is loaded of a schema is what they state.       *)
(* Whatever the content model, the children of an element are matched        *)
(* against it as it is meant: where a child leads is the derivative of the   *)
(* state by its name, so that children are accepted exactly when the content *)
(* model permits them, and of those that lack some the names that a shortest *)
(* completion begins with are found.                                         *)
EXTENDS FiniteSets, BagsExt, SchemaMeaning, ContentMeaning, CountingLemmas, SequenceTheorems


-----------------------------------------------------------------------------
(* Patterns in the order of their places.                                    *)

LEMMA InOrderIsList ==
    ASSUME NEW list, NEW places, IsFiniteSet(places)
    PROVE  /\ IsList(InOrder(list, places))
           /\ Len(InOrder(list, places)) = Cardinality(places)
           /\ DOMAIN InOrder(list, places) = 1 .. Cardinality(places)
<1> DEFINE f == InOrder(list, places)
           S == {f[i] : i \in DOMAIN f}
<1>1. Cardinality(places) \in Nat
    BY FS_CardinalityType
<1>2. DOMAIN f = 1 .. Cardinality(places) /\ f = [k \in 1 .. Cardinality(places) |-> f[k]]
    BY DEF InOrder
<1>3. f \in [1 .. Cardinality(places) -> S]
    BY <1>2
<1> HIDE DEF f
<1>4. f \in Seq(S) /\ Len(f) = Cardinality(places)
    BY <1>1, <1>3
<1> QED
    BY <1>2, <1>4 DEF IsList, f

(* A place after all others comes last.                                      *)
LEMMA InOrderAppends ==
    ASSUME NEW list, NEW places \in SUBSET Nat, IsFiniteSet(places),
           NEW m \in Nat, \A i \in places : i < m
    PROVE  InOrder(list, places \cup {m}) = Append(InOrder(list, places), list[m].pattern)
<1> DEFINE n == Cardinality(places)
           all == places \cup {m}
           below(P, i) == {j \in P : j <= i}
<1>0. \A i \in all : i <= m
    <2>1. \A i \in places : i \in Nat /\ i < m
        OBVIOUS
    <2> QED
        BY <2>1
<1>1. n \in Nat /\ IsFiniteSet(all) /\ Cardinality(all) = n + 1
    BY FS_CardinalityType, FS_AddElement
<1>2. ASSUME NEW k \in 1 .. n
      PROVE  Ranked(all, k) = Ranked(places, k)
    <2>1. ASSUME NEW i \in places PROVE below(all, i) = below(places, i)
        OBVIOUS
    <2>2. below(all, m) = all
        BY <1>0
    <2>3. m \notin Ranked(all, k) /\ m \notin Ranked(places, k)
        BY <1>1, <2>2 DEF Ranked
    <2> QED
        BY <2>1, <2>3 DEF Ranked
<1>3. Ranked(all, n + 1) = {m}
    <2>1. below(all, m) = all
        BY <1>0
    <2>2. m \in Ranked(all, n + 1)
        BY <1>1, <2>1 DEF Ranked
    <2>3. ASSUME NEW i \in places PROVE Cardinality(below(all, i)) <= n
        <3>1. below(all, i) \subseteq places
            OBVIOUS
        <3> QED
            BY <3>1, FS_Subset
    <2>4. ASSUME NEW i \in places PROVE Cardinality(below(all, i)) # n + 1
        <3>1. below(all, i) \subseteq places
            OBVIOUS
        <3>2. Cardinality(below(all, i)) \in Nat
            BY <3>1, FS_Subset, FS_CardinalityType
        <3> QED
            BY <1>1, <2>3, <3>2
    <2> QED
        BY <2>2, <2>4 DEF Ranked
<1>4. DOMAIN InOrder(list, all) = 1 .. n + 1
    BY <1>1 DEF InOrder
<1>5. /\ DOMAIN InOrder(list, places) = 1 .. n
      /\ IsList(InOrder(list, places)) /\ Len(InOrder(list, places)) = n
    BY InOrderIsList
<1>6. ASSUME NEW k \in 1 .. n PROVE InOrder(list, all)[k] = InOrder(list, places)[k]
    <2>1. k \in 1 .. n + 1 /\ k \in 1 .. Cardinality(all) /\ k \in 1 .. Cardinality(places)
        BY <1>1
    <2>2. InOrder(list, all)[k] = list[CHOOSE i \in Ranked(all, k) : TRUE].pattern
        BY <2>1 DEF InOrder
    <2>3. InOrder(list, places)[k] = list[CHOOSE i \in Ranked(places, k) : TRUE].pattern
        BY <2>1 DEF InOrder
    <2> QED
        BY <1>2, <2>2, <2>3
<1>7. InOrder(list, all)[n + 1] = list[m].pattern
    <2>1. n + 1 \in 1 .. Cardinality(all)
        BY <1>1
    <2>2. (CHOOSE i \in {m} : TRUE) = m
        OBVIOUS
    <2> QED
        BY <1>3, <2>1, <2>2 DEF InOrder
<1>8. InOrder(list, all) = [k \in 1 .. n + 1 |-> InOrder(list, all)[k]]
    BY <1>1 DEF InOrder
<1>9. Append(InOrder(list, places), list[m].pattern)
        = [k \in 1 .. n + 1 |-> IF k = n + 1 THEN list[m].pattern ELSE InOrder(list, places)[k]]
    BY <1>1, <1>5 DEF IsList
<1>10. \A k \in 1 .. n + 1 : InOrder(list, all)[k] =
           IF k = n + 1 THEN list[m].pattern ELSE InOrder(list, places)[k]
    BY <1>1, <1>6, <1>7
<1> QED
    BY <1>8, <1>9, <1>10

LEMMA InOrderOfOne ==
    ASSUME NEW list, NEW m \in Nat
    PROVE  InOrder(list, {m}) = <<list[m].pattern>>
<1>1. IsFiniteSet({}) /\ Cardinality({}) = 0
    BY FS_EmptySet
<1>2. InOrder(list, {}) = <<>>
    BY <1>1 DEF InOrder
<1>3. InOrder(list, {} \cup {m}) = Append(<<>>, list[m].pattern)
    BY <1>1, <1>2, InOrderAppends
<1> QED
    BY <1>3

-----------------------------------------------------------------------------
(* The operand places of some definitions, and one definition more.          *)

(* What Kept and OperandPlaces come to once the places have an operator.     *)
LEMMA KeptGrows ==
    ASSUME NEW list, NEW places \in SUBSET Nat,
           NEW m \in Nat, \A i \in places : i < m,
           Stated(list, places \cup {m}) # {}
    PROVE  Kept(list, places \cup {m}) = Kept(list, places) \cup {m}
<1> DEFINE all == places \cup {m}
           hidden(P, i) == \E j \in P : j > i /\ \A k \in Stated(list, P) : k > j
<1>1. \A i \in places : i \in Nat /\ i < m
    OBVIOUS
<1>2. Stated(list, places) \subseteq places
    BY DEF Stated
<1>3. \A k \in Stated(list, all) : k \in Stated(list, places) \/ k = m
    BY DEF Stated
<1>4. Stated(list, places) \subseteq Stated(list, all)
    BY DEF Stated
<1>5. ~hidden(all, m)
    BY <1>1
<1>6. ASSUME NEW i \in places PROVE hidden(all, i) <=> hidden(places, i)
    <2>1. ASSUME hidden(all, i) PROVE hidden(places, i)
        <3>1. PICK j \in all : j > i /\ \A k \in Stated(list, all) : k > j
            BY <2>1
        <3>2. j # m
            <4> SUFFICES ASSUME j = m PROVE FALSE
                OBVIOUS
            <4>1. PICK k \in Stated(list, all) : k > j
                BY <3>1
            <4>2. k \in places \/ k = m
                BY <1>2, <1>3
            <4>3. k \in Nat /\ k <= m
                <5>1. CASE k \in places
                    BY <1>1, <5>1
                <5>2. CASE k = m
                    BY <5>2
                <5> QED
                    BY <4>2, <5>1, <5>2
            <4> QED
                BY <4>1, <4>3
        <3>3. j \in places
            BY <3>2
        <3>4. \A k \in Stated(list, places) : k > j
            BY <1>4, <3>1
        <3> QED
            BY <3>1, <3>3, <3>4
    <2>2. ASSUME hidden(places, i) PROVE hidden(all, i)
        <3>1. PICK j \in places : j > i /\ \A k \in Stated(list, places) : k > j
            BY <2>2
        <3>2. m > j
            BY <1>1
        <3>3. \A k \in Stated(list, all) : k > j
            BY <1>3, <3>1, <3>2
        <3> QED
            BY <3>1, <3>3
    <2> QED
        BY <2>1, <2>2
<1>7. Kept(list, all) = {i \in all : ~hidden(all, i)}
    BY DEF Kept
<1>8. Kept(list, places) = {i \in places : ~hidden(places, i)}
    BY DEF Kept
<1> HIDE DEF hidden
<1> QED
    BY <1>5, <1>6, <1>7, <1>8

(* Without an operator only the last definition is kept.                     *)
LEMMA KeptIsLast ==
    ASSUME NEW list, NEW places \in SUBSET Nat, NEW m \in places,
           \A i \in places : i <= m,
           Stated(list, places) = {}
    PROVE  Kept(list, places) = {m}
<1>1. \A i \in places : i \in Nat
    OBVIOUS
<1>2. Kept(list, places) = {i \in places : ~ \E j \in places : j > i}
    BY DEF Kept
<1>3. m \in Kept(list, places)
    BY <1>1, <1>2
<1>4. ASSUME NEW i \in Kept(list, places) PROVE i = m
    <2>1. i \in places /\ ~(m > i) /\ i <= m /\ i \in Nat /\ m \in Nat
        BY <1>1, <1>2
    <2> QED
        BY <2>1
<1> QED
    BY <1>3, <1>4

LEMMA OperandsAreKept ==
    ASSUME NEW list, NEW places
    PROVE  /\ Kept(list, places) \subseteq places
           /\ OperandPlaces(list, places) \subseteq Kept(list, places)
BY DEF Kept, OperandPlaces

LEMMA OperandsOfOne ==
    ASSUME NEW list, NEW places, NEW m \in Nat, Kept(list, places) = {m}
    PROVE  OperandPlaces(list, places) = {m}
BY DEF OperandPlaces

(* Where nothing before is allowed, only the new definition counts.          *)
LEMMA OperandsReplaced ==
    ASSUME NEW list, NEW places \in SUBSET Nat, NEW m \in Nat, NEW kept \in SUBSET Nat,
           \A i \in kept : i < m,
           Kept(list, places) = kept \cup {m},
           \A i \in kept : list[i].pattern[1] = "notAllowed"
    PROVE  OperandPlaces(list, places) = {m}
<1> DEFINE K == kept \cup {m}
           counts(i) == \/ \A j \in K : j <= i
                        \/ \E j \in K : j <= i /\ list[j].pattern[1] # "notAllowed"
<1>1. \A i \in kept : i \in Nat /\ i < m
    OBVIOUS
<1>2. counts(m)
    BY <1>1
<1>3. ASSUME NEW i \in kept PROVE ~counts(i)
    BY <1>1
<1>4. OperandPlaces(list, places) = {i \in K : counts(i)}
    BY DEF OperandPlaces
<1> HIDE DEF counts
<1> QED
    BY <1>2, <1>3, <1>4

(* Otherwise it joins the others.                                            *)
LEMMA OperandsJoined ==
    ASSUME NEW list, NEW places \in SUBSET Nat, NEW old \in SUBSET Nat, NEW m \in Nat,
           \A i \in Kept(list, old) : i < m,
           Kept(list, places) = Kept(list, old) \cup {m},
           NEW first \in Kept(list, old), list[first].pattern[1] # "notAllowed"
    PROVE  OperandPlaces(list, places) = OperandPlaces(list, old) \cup {m}
<1> DEFINE K == Kept(list, old)
           counts(P, i) == \/ \A j \in P : j <= i
                           \/ \E j \in P : j <= i /\ list[j].pattern[1] # "notAllowed"
<1>1. K \subseteq old
    BY OperandsAreKept
<1>2. \A i \in K : i \in Nat /\ i < m
    BY <1>1
<1>3. counts(K \cup {m}, m)
    BY <1>2
<1>4. ASSUME NEW i \in K PROVE counts(K \cup {m}, i) <=> counts(K, i)
    <2>1. ASSUME counts(K \cup {m}, i) PROVE counts(K, i)
        <3>1. ~(m <= i)
            BY <1>2
        <3>2. PICK j \in K \cup {m} : j <= i /\ list[j].pattern[1] # "notAllowed"
            BY <2>1, <3>1
        <3> QED
            BY <3>1, <3>2
    <2>2. ASSUME counts(K, i) PROVE counts(K \cup {m}, i)
        <3>1. CASE \A j \in K : j <= i
            <4>1. first <= i
                BY <3>1
            <4> QED
                BY <4>1
        <3>2. CASE \E j \in K : j <= i /\ list[j].pattern[1] # "notAllowed"
            BY <3>2
        <3> QED
            BY <2>2, <3>1, <3>2
    <2> QED
        BY <2>1, <2>2
<1>5. OperandPlaces(list, old) = {i \in K : counts(K, i)}
    BY DEF OperandPlaces
<1>6. OperandPlaces(list, places) = {i \in K \cup {m} : counts(K \cup {m}, i)}
    BY DEF OperandPlaces
<1> HIDE DEF counts
<1> QED
    BY <1>3, <1>4, <1>5, <1>6

-----------------------------------------------------------------------------
(* A definition more is joined as the reference joins it.                    *)

LEMMA JoinedCases ==
    ASSUME NEW operator, NEW patterns, Len(patterns) \in Nat
    PROVE  /\ Len(patterns) = 1 => Joined(operator, patterns) = patterns[1]
           /\ Len(patterns) > 1 /\ patterns[1][1] = operator =>
                 Joined(operator, patterns) = <<operator, patterns[1][2] \o Tail(patterns)>>
           /\ Len(patterns) > 1 /\ patterns[1][1] # operator =>
                 Joined(operator, patterns) = <<operator, patterns>>
<1> DEFINE n == Len(patterns)
<1>1. n \in Nat
    OBVIOUS
<1> HIDE DEF n
<1>2. n > 1 => n # 1
    BY <1>1
<1> USE DEF n
<1> QED
    BY <1>2, Zenon DEF Joined

LEMMA CombineCases ==
    ASSUME NEW existing, NEW new, NEW operator
    PROVE  /\ existing[1] = operator /\ operator # "notAllowed" =>
                 CombinePatterns(existing, new, operator) = <<operator, Append(existing[2], new)>>
           /\ existing[1] # operator /\ existing[1] # "notAllowed" =>
                 CombinePatterns(existing, new, operator) = <<operator, <<existing, new>>>>
           /\ existing[1] # operator /\ existing[1] = "notAllowed" =>
                 CombinePatterns(existing, new, operator) = new
BY Zenon DEF CombinePatterns

(* Sequences that grow by an element.                                        *)
LEMMA AppendFacts ==
    ASSUME NEW S, NEW patterns \in Seq(S), NEW new \in S, patterns # <<>>
    PROVE  /\ Len(Append(patterns, new)) = Len(patterns) + 1
           /\ Append(patterns, new)[1] = patterns[1]
           /\ Tail(Append(patterns, new)) = Append(Tail(patterns), new)
           /\ Len(patterns) = 1 => /\ Append(patterns, new) = <<patterns[1], new>>
                                   /\ Tail(Append(patterns, new)) = <<new>>
<1>1. Len(patterns) \in Nat /\ Len(patterns) > 0
    OBVIOUS
<1>2. Len(patterns) = 1 => Append(patterns, new) = <<patterns[1], new>>
    <2> HAVE Len(patterns) = 1
    <2>1. <<patterns[1], new>> \in Seq(S) /\ Len(<<patterns[1], new>>) = 2
        OBVIOUS
    <2>2. /\ Append(patterns, new) \in Seq(S) /\ Len(Append(patterns, new)) = 2
          /\ Append(patterns, new)[1] = patterns[1] /\ Append(patterns, new)[2] = new
        BY AppendProperties
    <2>3. \A i \in 1 .. 2 : Append(patterns, new)[i] = <<patterns[1], new>>[i]
        <3>1. \A i \in 1 .. 2 : i = 1 \/ i = 2
            OBVIOUS
        <3> QED
            BY <2>2, <3>1
    <2> QED
        BY <2>1, <2>2, <2>3, SeqEqual
<1>3. Len(Append(patterns, new)) = Len(patterns) + 1
    OBVIOUS
<1>4. Append(patterns, new)[1] = patterns[1]
    BY <1>1
<1>5. Tail(Append(patterns, new)) = Append(Tail(patterns), new)
    BY <1>1
<1>6. ASSUME NEW one, NEW other PROVE Tail(<<one, other>>) = <<other>>
    OBVIOUS
<1> QED
    BY <1>2, <1>3, <1>4, <1>5, <1>6

LEMMA AppendToConcatenation ==
    ASSUME NEW one, NEW other, NEW new, IsList(one), IsList(other)
    PROVE  /\ one \o <<new>> = Append(one, new)
           /\ Append(one \o other, new) = one \o Append(other, new)
<1> DEFINE T == {one[i] : i \in DOMAIN one} \cup {other[i] : i \in DOMAIN other} \cup {new}
<1>1. one \in Seq({one[i] : i \in DOMAIN one}) /\ other \in Seq({other[i] : i \in DOMAIN other})
    BY DEF IsList
<1>2. one \in Seq(T) /\ other \in Seq(T) /\ new \in T
    BY <1>1
<1> HIDE DEF T
<1> QED
    BY <1>2

LEMMA ListOfSeq ==
    ASSUME NEW S, NEW list \in Seq(S)
    PROVE  IsList(list)
<1> DEFINE T == {list[i] : i \in DOMAIN list}
<1>1. Len(list) \in Nat /\ DOMAIN list = 1 .. Len(list)
    OBVIOUS
<1>2. list = [i \in 1 .. Len(list) |-> list[i]]
    OBVIOUS
<1>3. \A i \in 1 .. Len(list) : list[i] \in T
    BY <1>1
<1>4. list \in Seq(T)
    BY <1>1, <1>2, <1>3, IsASeq DEF T
<1> QED
    BY <1>4 DEF IsList
LEMMA TailIsList ==
    ASSUME NEW list, IsList(list), list # <<>>
    PROVE  IsList(Tail(list))
<1>1. list \in Seq({list[i] : i \in DOMAIN list})
    BY DEF IsList
<1>2. Tail(list) \in Seq({list[i] : i \in DOMAIN list})
    BY <1>1, HeadTailProperties
<1> QED
    BY <1>2, ListOfSeq

LEMMA CombineJoins ==
    ASSUME NEW operator \in {"choice", "interleave"}, NEW old, NEW new,
           NEW patterns, IsList(patterns), patterns # <<>>,
           Len(patterns) = 1 => patterns[1][1] # "notAllowed",
           Len(patterns) > 1 => old = operator,
           patterns[1][1] = operator => IsList(patterns[1][2])
    PROVE  CombinePatterns(Joined(old, patterns), new, operator)
             = Joined(operator, Append(patterns, new))
<1> DEFINE longer == Append(patterns, new)
           S == {patterns[i] : i \in DOMAIN patterns} \cup {new}
<1>1. patterns \in Seq(S) /\ new \in S
    <2>1. patterns \in Seq({patterns[i] : i \in DOMAIN patterns})
        BY DEF IsList
    <2> QED
        BY <2>1
<1> HIDE DEF S
<1>2. Len(patterns) \in Nat /\ Len(patterns) > 0
    BY <1>1
<1>3. /\ Len(longer) = Len(patterns) + 1
      /\ longer[1] = patterns[1]
      /\ Tail(longer) = Append(Tail(patterns), new)
      /\ Len(patterns) = 1 => longer = <<patterns[1], new>> /\ Tail(longer) = <<new>>
    BY <1>1, AppendFacts
<1> HIDE DEF longer
<1>4. Len(longer) \in Nat /\ Len(longer) > 1
    BY <1>2, <1>3
<1>5. /\ longer[1][1] = operator =>
            Joined(operator, longer) = <<operator, longer[1][2] \o Tail(longer)>>
      /\ longer[1][1] # operator => Joined(operator, longer) = <<operator, longer>>
    BY <1>4, JoinedCases
<1>6. longer[1] = patterns[1] /\ operator # "notAllowed"
    BY <1>3
<1>7. CASE Len(patterns) = 1
    <2>1. Joined(old, patterns) = patterns[1]
        BY <1>2, <1>7, JoinedCases
    <2>2. longer = <<patterns[1], new>> /\ Tail(longer) = <<new>>
        BY <1>3, <1>7
    <2>3. CASE patterns[1][1] = operator
        <3>1. patterns[1][2] \o <<new>> = Append(patterns[1][2], new)
            BY <2>3, AppendToConcatenation, ListOfSeq, EmptySeq
        <3>2. Joined(operator, longer) = <<operator, patterns[1][2] \o <<new>> >>
            BY <1>5, <1>6, <2>2, <2>3, Zenon
        <3>3. CombinePatterns(patterns[1], new, operator) = <<operator, Append(patterns[1][2], new)>>
            BY <1>6, <2>3, CombineCases, Zenon
        <3> QED
            BY <2>1, <3>1, <3>2, <3>3, Zenon DEF longer
    <2>4. CASE patterns[1][1] # operator
        <3>1. Joined(operator, longer) = <<operator, <<patterns[1], new>> >>
            BY <1>5, <1>6, <2>2, <2>4, Zenon
        <3>2. CombinePatterns(patterns[1], new, operator) = <<operator, <<patterns[1], new>> >>
            BY <1>7, <2>4, CombineCases, Zenon
        <3> QED
            BY <2>1, <3>1, <3>2, Zenon DEF longer
    <2> QED
        BY <2>3, <2>4, Zenon
<1>8. CASE Len(patterns) > 1
    <2>1. old = operator
        BY <1>8
    <2>2. Tail(longer) = Append(Tail(patterns), new)
        BY <1>3
    <2>3. CASE patterns[1][1] = operator
        <3> DEFINE joined == patterns[1][2] \o Tail(patterns)
        <3>1. Joined(old, patterns) = <<operator, joined>>
            BY <1>2, <1>8, <2>1, <2>3, JoinedCases
        <3>2. IsList(patterns[1][2]) /\ IsList(Tail(patterns))
            BY <2>3, TailIsList
        <3>3. Append(joined, new) = patterns[1][2] \o Append(Tail(patterns), new)
            BY <3>2, AppendToConcatenation
        <3> HIDE DEF joined
        <3>4. CombinePatterns(<<operator, joined>>, new, operator) = <<operator, Append(joined, new)>>
            BY <1>6, CombineCases
        <3>5. Joined(operator, longer) = <<operator, patterns[1][2] \o Append(Tail(patterns), new)>>
            BY <1>5, <1>6, <2>2, <2>3, Zenon
        <3> QED
            BY <3>1, <3>3, <3>4, <3>5, Zenon DEF longer
    <2>4. CASE patterns[1][1] # operator
        <3>1. Joined(old, patterns) = <<operator, patterns>>
            BY <1>2, <1>8, <2>1, <2>4, JoinedCases
        <3>2. CombinePatterns(<<operator, patterns>>, new, operator) = <<operator, Append(patterns, new)>>
            BY <1>6, CombineCases
        <3>3. Joined(operator, longer) = <<operator, longer>>
            BY <1>5, <1>6, <2>4, Zenon
        <3> QED
            BY <3>1, <3>2, <3>3, Zenon DEF longer
    <2> QED
        BY <2>3, <2>4, Zenon
<1>9. Len(patterns) = 1 \/ Len(patterns) > 1
    BY <1>2
<1> QED
    BY <1>7, <1>8, <1>9

HasLast(places) == \E last \in places : \A i \in places : i <= last
IsOrdered(list, places) ==
    \A k \in DOMAIN InOrder(list, places) :
        \E i \in places : InOrder(list, places)[k] = list[i].pattern

LEMMA OrderedAppends ==
    ASSUME NEW list, NEW places \in SUBSET Nat, IsFiniteSet(places),
           NEW m \in Nat, \A i \in places : i < m,
           IsOrdered(list, places)
    PROVE  IsOrdered(list, places \cup {m})
<1> DEFINE f == InOrder(list, places)
           S == {f[i] : i \in DOMAIN f} \cup {list[m].pattern}
<1>1. IsList(f)
    BY InOrderIsList
<1>2. f \in Seq(S) /\ list[m].pattern \in S
    BY <1>1 DEF IsList
<1>3. InOrder(list, places \cup {m}) = Append(f, list[m].pattern)
    BY InOrderAppends
<1>4. \A k \in DOMAIN f : \E i \in places : f[k] = list[i].pattern
    BY DEF IsOrdered
<1> HIDE DEF f
<1>5. ASSUME NEW k \in DOMAIN Append(f, list[m].pattern)
      PROVE  \E i \in places \cup {m} : Append(f, list[m].pattern)[k] = list[i].pattern
    <2>1. \/ k \in DOMAIN f /\ Append(f, list[m].pattern)[k] = f[k]
          \/ Append(f, list[m].pattern)[k] = list[m].pattern
        BY <1>2
    <2> QED
        BY <1>4, <2>1
<1> QED
    BY <1>3, <1>5 DEF IsOrdered

LEMMA OrderedOfOne ==
    ASSUME NEW list, NEW m \in Nat
    PROVE  IsOrdered(list, {m})
BY InOrderOfOne DEF IsOrdered

-----------------------------------------------------------------------------
(* What the definitions of a name come to, and one definition more of it.    *)

Means(entry, list, places) ==
    /\ IsMeant(entry, list, places)
    /\ HasLast(places)
    /\ IsOrdered(list, OperandPlaces(list, places))

LEMMA JoinedOfOne ==
    ASSUME NEW operator, NEW pattern
    PROVE  Joined(operator, <<pattern>>) = pattern
<1>1. Len(<<pattern>>) = 1 /\ <<pattern>>[1] = pattern
    OBVIOUS
<1> QED
    BY <1>1, JoinedCases

LEMMA FirstDefinition ==
    ASSUME NEW list, NEW m \in Nat
    PROVE  Means(Entry(list[m].combine, list[m].pattern), list, {m})
<1> DEFINE entry == Entry(list[m].combine, list[m].pattern)
<1>1. HasLast({m})
    BY DEF HasLast
<1>2. Kept(list, {m}) = {m}
    BY DEF Kept
<1>3. OperandPlaces(list, {m}) = {m}
    BY <1>2, OperandsOfOne
<1>4. IF Stated(list, {m}) = {} THEN entry.operator = "plain"
      ELSE \A i \in Stated(list, {m}) : entry.operator = list[i].combine
    BY DEF Stated, Entry
<1>5. Joined(entry.operator, <<list[m].pattern>>) = list[m].pattern
    BY JoinedOfOne
<1>6. entry = Entry(entry.operator, list[m].pattern)
    BY DEF Entry
<1> QED
    BY <1>1, <1>3, <1>4, <1>5, <1>6, InOrderOfOne, OrderedOfOne DEF Means, IsMeant

LEMMA NextPlain ==
    ASSUME NEW list, NEW places \in SUBSET Nat, NEW m \in Nat,
           \A i \in places : i < m,
           Stated(list, places) = {}, list[m].combine = "plain"
    PROVE  Means(Entry("plain", list[m].pattern), list, places \cup {m})
<1> DEFINE all == places \cup {m}
<1>1. \A i \in all : i <= m
    <2>1. \A i \in places : i \in Nat /\ i < m
        OBVIOUS
    <2> QED
        BY <2>1
<1>2. HasLast(all)
    BY <1>1 DEF HasLast
<1>3. Stated(list, all) = {}
    BY DEF Stated
<1>4. Kept(list, all) = {m}
    BY <1>1, <1>3, KeptIsLast
<1>5. OperandPlaces(list, all) = {m}
    BY <1>4, OperandsOfOne
<1>6. Joined("plain", <<list[m].pattern>>) = list[m].pattern
    BY JoinedOfOne
<1>7. Entry("plain", list[m].pattern).operator = "plain"
    BY DEF Entry
<1> QED
    BY <1>2, <1>3, <1>5, <1>6, <1>7, InOrderOfOne, OrderedOfOne DEF Means, IsMeant

LEMMA NextJoins ==
    ASSUME NEW list, NEW places \in SUBSET Nat, IsFiniteSet(places),
           NEW m \in Nat, \A i \in places : i < m,
           \A i \in places \cup {m} : IsDefinition(list[i]),
           NEW entry, Means(entry, list, places),
           NEW operator \in {"choice", "interleave"},
           operator = IF list[m].combine = "plain" THEN entry.operator ELSE list[m].combine,
           entry.operator \in {"plain", operator}
    PROVE  Means(Entry(operator, CombinePatterns(entry.pattern, list[m].pattern, operator)),
                 list, places \cup {m})
<1> DEFINE all == places \cup {m}
           stated == Stated(list, places)
           old == OperandPlaces(list, places)
           L == InOrder(list, old)
<1>1. \A i \in all : i \in Nat /\ i <= m
    <2>1. \A i \in places : i \in Nat /\ i < m
        OBVIOUS
    <2> QED
        BY <2>1
<1>2. HasLast(all)
    BY <1>1 DEF HasLast
<1>3. Stated(list, all) # {}
    <2>1. CASE list[m].combine = "plain"
        <3>1. entry.operator # "plain"
            BY <2>1
        <3>2. stated # {}
            BY <3>1 DEF Means, IsMeant
        <3> QED
            BY <3>2 DEF Stated
    <2>2. CASE list[m].combine # "plain"
        BY <2>2 DEF Stated
    <2> QED
        BY <2>1, <2>2
<1>4. \A i \in Stated(list, all) : operator = list[i].combine
    <2>1. ASSUME NEW i \in stated PROVE operator = list[i].combine
        <3>1. entry.operator = list[i].combine /\ list[i].combine # "plain"
            BY <2>1 DEF Means, IsMeant, Stated
        <3> QED
            BY <3>1
    <2>2. \A i \in Stated(list, all) : i \in stated \/ (i = m /\ list[m].combine # "plain")
        BY DEF Stated
    <2> QED
        BY <2>1, <2>2
<1>5. Kept(list, all) = Kept(list, places) \cup {m}
    <2>1. places \in SUBSET Nat /\ m \in Nat /\ (\A i \in places : i < m)
        OBVIOUS
    <2> QED
        BY ONLY <1>3, <2>1, KeptGrows
<1>6. /\ Kept(list, places) \subseteq places
      /\ old \subseteq Kept(list, places)
      /\ IsFiniteSet(old)
    BY OperandsAreKept, FS_Subset
<1>7. IsList(L) /\ Len(L) = Cardinality(old) /\ DOMAIN L = 1 .. Cardinality(old)
    BY <1>6, InOrderIsList
<1>8. entry = Entry(entry.operator, Joined(entry.operator, L))
    BY DEF Means, IsMeant
<1>9. entry.pattern = Joined(entry.operator, L)
    BY <1>8 DEF Entry
<1>10. PICK last \in places : \A i \in places : i <= last
    BY DEF Means, HasLast
<1>11. last \in Nat
    BY <1>1
<1>12. last \in Kept(list, places)
    <2>1. ~ \E j \in places : j > last
        BY <1>1, <1>10, <1>11
    <2> QED
        BY <2>1 DEF Kept
<1>13. last \in old
    BY <1>6, <1>10, <1>12 DEF OperandPlaces
<1>14. IsOrdered(list, old)
    BY DEF Means
<1>15. SUFFICES /\ IsOrdered(list, OperandPlaces(list, all))
                /\ CombinePatterns(entry.pattern, list[m].pattern, operator)
                     = Joined(operator, InOrder(list, OperandPlaces(list, all)))
    BY <1>2, <1>3, <1>4, <1>15 DEF Means, IsMeant, Entry
<1>16. /\ all \in SUBSET Nat
       /\ Kept(list, places) \in SUBSET Nat
       /\ \A i \in Kept(list, places) : i < m
    BY <1>6
<1> HIDE DEF all, old, L
<1>17. CASE \A i \in Kept(list, places) : list[i].pattern[1] = "notAllowed"
    <2>1. OperandPlaces(list, all) = {m}
        <3> DEFINE kept == Kept(list, places)
        <3>1. /\ m \in Nat /\ all \in SUBSET Nat /\ kept \in SUBSET Nat
              /\ \A i \in kept : i < m
            BY <1>16
        <3>2. Kept(list, all) = kept \cup {m} /\ \A i \in kept : list[i].pattern[1] = "notAllowed"
            BY <1>5, <1>17
        <3> HIDE DEF kept
        <3> QED
            BY ONLY <3>1, <3>2, OperandsReplaced
    <2>2. old = {last}
        <3>1. ASSUME NEW i \in old PROVE i = last
            <4>1. \A j \in Kept(list, places) : j <= i
                BY <1>17, <3>1 DEF OperandPlaces, old
            <4>2. last <= i /\ i <= last /\ i \in Nat
                BY <1>1, <1>6, <1>10, <1>12, <3>1, <4>1 DEF all
            <4> QED
                BY <1>11, <4>2
        <3> QED
            BY <1>13, <3>1
    <2>3. L = <<list[last].pattern>>
        BY <1>11, <2>2, InOrderOfOne DEF L
    <2>4. entry.pattern = list[last].pattern
        BY <1>9, <2>3, JoinedOfOne
    <2>5. CombinePatterns(entry.pattern, list[m].pattern, operator) = list[m].pattern
        BY <1>12, <1>17, <2>4, CombineCases
    <2>6. Joined(operator, <<list[m].pattern>>) = list[m].pattern
        BY JoinedOfOne
    <2> QED
        BY <2>1, <2>5, <2>6, InOrderOfOne, OrderedOfOne
<1>18. CASE \E i \in Kept(list, places) : list[i].pattern[1] # "notAllowed"
    <2>1. PICK first \in Kept(list, places) : list[first].pattern[1] # "notAllowed"
        BY <1>18
    <2>2. OperandPlaces(list, all) = old \cup {m}
        BY <1>5, <1>16, <2>1, OperandsJoined DEF old
    <2>3. old \in SUBSET Nat /\ \A i \in old : i < m
        BY <1>1, <1>6 DEF all
    <2>4. IsOrdered(list, old \cup {m})
        BY <1>6, <1>14, <2>3, OrderedAppends
    <2>5. InOrder(list, old \cup {m}) = Append(L, list[m].pattern)
        BY <1>6, <2>3, InOrderAppends DEF L
    <2>6. Cardinality(old) \in Nat /\ Cardinality(old) # 0
        BY <1>6, <1>13, FS_CardinalityType, FS_EmptySet
    <2>7. L # <<>>
        BY <1>7, <2>6
    <2>8. PICK i \in old : L[1] = list[i].pattern
        BY <1>7, <1>14, <2>6 DEF IsOrdered, L
    <2>9. L[1][1] = operator => IsList(L[1][2])
        BY <1>6, <2>8 DEF IsDefinition, all
    <2>10. Len(L) = 1 => L[1][1] # "notAllowed"
        <3> HAVE Len(L) = 1
        <3>1. Cardinality(old) = 1
            BY <1>7
        <3>2. PICK one : old = {one}
            BY <1>6, <3>1, FS_Singleton
        <3>3. first \in old
            <4>1. first \in Nat
                BY <1>1, <1>6 DEF all
            <4> QED
                BY <2>1, <4>1 DEF OperandPlaces, old
        <3> QED
            BY <2>1, <2>8, <3>2, <3>3
    <2>11. Len(L) > 1 => entry.operator = operator
        <3> HAVE Len(L) > 1
        <3>1. stated # {}
            <4> SUFFICES ASSUME stated = {} PROVE FALSE
                OBVIOUS
            <4>1. Kept(list, places) = {last}
                BY <1>10, KeptIsLast
            <4>2. old = {last}
                BY <1>11, <4>1, OperandsOfOne DEF old
            <4>3. Cardinality({last}) = 1
                BY FS_Singleton
            <4> QED
                BY <1>7, <4>2, <4>3
        <3>2. PICK i1 \in stated : entry.operator = list[i1].combine
            BY <3>1 DEF Means, IsMeant
        <3>3. entry.operator # "plain"
            BY <3>2 DEF Stated
        <3> QED
            BY <3>3
    <2>12. CombinePatterns(Joined(entry.operator, L), list[m].pattern, operator)
             = Joined(operator, Append(L, list[m].pattern))
        <3> DEFINE before == entry.operator
                   new == list[m].pattern
        <3>1. /\ operator \in {"choice", "interleave"} /\ IsList(L) /\ L # <<>>
              /\ Len(L) = 1 => L[1][1] # "notAllowed"
              /\ Len(L) > 1 => before = operator
              /\ L[1][1] = operator => IsList(L[1][2])
            BY <1>7, <2>7, <2>9, <2>10, <2>11
        <3> HIDE DEF before, new
        <3>2. CombinePatterns(Joined(before, L), new, operator) = Joined(operator, Append(L, new))
            BY <3>1, CombineJoins
        <3> QED
            BY <3>2 DEF before, new
    <2> QED
        BY <1>9, <2>2, <2>4, <2>5, <2>12
<1> QED
    BY <1>17, <1>18

-----------------------------------------------------------------------------
(* What the first definitions of a list are built to.                        *)

UpTo(list, name, k) == {i \in 1 .. k : list[i].name = name}

Built(entries, list, k) ==
    /\ \A i \in 1 .. k : list[i].kind = "definition" /\ IsDefinition(list[i])
    /\ \A i, j \in 1 .. k :
          list[i].name = list[j].name /\ "plain" \notin {list[i].combine, list[j].combine} =>
              list[i].combine = list[j].combine
    /\ DOMAIN entries = {list[i].name : i \in 1 .. k}
    /\ \A name \in DOMAIN entries : Means(entries[name], list, UpTo(list, name, k))

(* An operator that conflicts is stated twice.                               *)
LEMMA ConflictIsStated ==
    ASSUME NEW list, NEW k \in Nat, Built(definitions, list, k),
           list[k + 1].kind = "definition", 1 .. k + 1 \subseteq DOMAIN list,
           Conflicts(list[k + 1])
    PROVE  ~Consistent(list)
<1> DEFINE name == list[k + 1].name
           entry == definitions[name]
<1>1. /\ list[k + 1].combine # "plain"
      /\ name \in DOMAIN definitions
      /\ entry.operator # "plain" /\ entry.operator # list[k + 1].combine
    BY DEF Conflicts
<1>2. IsMeant(entry, list, UpTo(list, name, k))
    BY <1>1 DEF Built, Means
<1>3. PICK i \in Stated(list, UpTo(list, name, k)) : entry.operator = list[i].combine
    BY <1>1, <1>2 DEF IsMeant
<1>4. i \in 1 .. k /\ list[i].name = name /\ list[i].combine # "plain"
    BY <1>3 DEF Stated, UpTo
<1>5. i \in DOMAIN list /\ k + 1 \in DOMAIN list
    BY <1>4
<1> QED
    BY <1>1, <1>3, <1>4, <1>5 DEF Consistent

LEMMA AgreesWithStated ==
    ASSUME NEW list, NEW k \in Nat, Built(definitions, list, k),
           ~Conflicts(list[k + 1]), IsDefinition(list[k + 1]),
           NEW i \in 1 .. k, list[i].name = list[k + 1].name,
           "plain" \notin {list[i].combine, list[k + 1].combine}
    PROVE  list[i].combine = list[k + 1].combine
<1> DEFINE name == list[k + 1].name
           entry == definitions[name]
<1>1. name \in DOMAIN definitions
    BY DEF Built
<1>2. IsMeant(entry, list, UpTo(list, name, k))
    BY <1>1 DEF Built, Means
<1>3. i \in Stated(list, UpTo(list, name, k))
    BY DEF Stated, UpTo
<1>4. entry.operator = list[i].combine
    BY <1>2, <1>3 DEF IsMeant
<1> QED
    BY <1>1, <1>4 DEF Conflicts

(* What Defined makes of a definition is what the definitions so far mean.   *)
LEMMA DefinedMeans ==
    ASSUME NEW list, NEW k \in Nat, Built(definitions, list, k),
           ~Conflicts(list[k + 1]), IsDefinition(list[k + 1])
    PROVE  Means(Defined(list[k + 1]), list, UpTo(list, list[k + 1].name, k + 1))
<1> DEFINE m == k + 1
           name == list[m].name
           entry == definitions[name]
           places == UpTo(list, name, k)
           operator == IF list[m].combine = "plain" THEN entry.operator ELSE list[m].combine
<1>1. m \in Nat /\ places \in SUBSET Nat /\ \A i \in places : i < m
    BY DEF UpTo
<1>2. IsFiniteSet(places)
    <2>1. IsFiniteSet(1 .. k)
        BY FS_Interval
    <2> QED
        BY <2>1, FS_Subset DEF UpTo
<1>3. UpTo(list, name, m) = places \cup {m}
    BY DEF UpTo
<1>4. \A i \in places \cup {m} : IsDefinition(list[i])
    BY DEF Built, UpTo
<1>5. Defined(list[m]) = IF name \in DOMAIN definitions /\ operator # "plain"
                         THEN Entry(operator, CombinePatterns(entry.pattern, list[m].pattern, operator))
                         ELSE Entry(list[m].combine, list[m].pattern)
    BY DEF Defined
<1>6. CASE name \notin DOMAIN definitions
    <2>1. places = {}
        BY <1>6 DEF Built, UpTo
    <2>2. Means(Entry(list[m].combine, list[m].pattern), list, {m})
        BY <1>1, FirstDefinition
    <2>3. places \cup {m} = {m}
        BY <2>1
    <2> QED
        BY <1>3, <1>5, <1>6, <2>2, <2>3, Zenon
<1>7. CASE name \in DOMAIN definitions
    <2>1. Means(entry, list, places)
        BY <1>7 DEF Built
    <2>2. CASE operator = "plain"
        <3>1. list[m].combine = "plain" /\ entry.operator = "plain"
            BY <2>2
        <3>2. Stated(list, places) = {}
            <4>1. \A i \in Stated(list, places) : list[i].combine # "plain"
                BY DEF Stated
            <4> QED
                BY <2>1, <3>1, <4>1 DEF Means, IsMeant
        <3>3. Means(Entry("plain", list[m].pattern), list, places \cup {m})
            BY <1>1, <3>1, <3>2, NextPlain
        <3> QED
            BY <1>3, <1>5, <2>2, <3>1, <3>3
    <2>3. CASE operator # "plain"
        <3>1. entry.operator \in {"plain", operator}
            BY <1>7, <2>3 DEF Conflicts
        <3>2. operator \in {"choice", "interleave"}
            <4>1. CASE list[m].combine # "plain"
                BY <4>1 DEF IsDefinition
            <4>2. CASE list[m].combine = "plain"
                <5>1. entry.operator # "plain"
                    BY <2>3, <4>2
                <5>2. PICK i \in Stated(list, places) : entry.operator = list[i].combine
                    BY <2>1, <5>1 DEF Means, IsMeant
                <5>3. i \in places /\ list[i].combine # "plain"
                    BY <5>2 DEF Stated
                <5>4. IsDefinition(list[i])
                    BY <1>4, <5>3
                <5> QED
                    BY <4>2, <5>2, <5>3, <5>4 DEF IsDefinition
            <4> QED
                BY <4>1, <4>2
        <3> HIDE DEF operator, entry, places, m
        <3>3. operator = IF list[m].combine = "plain" THEN entry.operator ELSE list[m].combine
            BY DEF operator
        <3>4. Means(Entry(operator, CombinePatterns(entry.pattern, list[m].pattern, operator)),
                    list, places \cup {m})
            BY <1>1, <1>2, <1>4, <2>1, <3>1, <3>2, <3>3, NextJoins
        <3>5. Defined(list[m]) = Entry(operator, CombinePatterns(entry.pattern, list[m].pattern, operator))
            BY <1>5, <1>7, <2>3
        <3> QED
            BY <1>3, <3>4, <3>5 DEF m
    <2> QED
        BY <2>2, <2>3
<1> QED
    BY <1>6, <1>7

LEMMA BuiltGrows ==
    ASSUME NEW list, NEW k \in Nat, Built(definitions, list, k),
           list[k + 1].kind = "definition", IsDefinition(list[k + 1]),
           ~Conflicts(list[k + 1]),
           NEW entries,
           entries = [name \in DOMAIN definitions \cup {list[k + 1].name} |->
                        IF name = list[k + 1].name THEN Defined(list[k + 1]) ELSE definitions[name]]
    PROVE  Built(entries, list, k + 1)
<1>1. \A i \in 1 .. k + 1 : i \in 1 .. k \/ i = k + 1
    OBVIOUS
<1>2. k + 1 \in 1 .. k + 1 /\ 1 .. k \subseteq 1 .. k + 1
    OBVIOUS
<1>3. \A i \in 1 .. k + 1 : list[i].kind = "definition" /\ IsDefinition(list[i])
    BY <1>1 DEF Built
<1>4. ASSUME NEW i \in 1 .. k + 1, NEW j \in 1 .. k + 1,
             list[i].name = list[j].name, "plain" \notin {list[i].combine, list[j].combine}
      PROVE  list[i].combine = list[j].combine
    <2>1. CASE i \in 1 .. k /\ j \in 1 .. k
        BY <1>4, <2>1 DEF Built
    <2>2. CASE i \in 1 .. k /\ j = k + 1
        BY <1>4, <2>2, AgreesWithStated
    <2>3. CASE i = k + 1 /\ j \in 1 .. k
        BY <1>4, <2>3, AgreesWithStated
    <2>4. CASE i = k + 1 /\ j = k + 1
        BY <2>4
    <2> QED
        BY <1>1, <2>1, <2>2, <2>3, <2>4
<1>5. DOMAIN entries = {list[i].name : i \in 1 .. k + 1}
    <2>1. DOMAIN definitions = {list[i].name : i \in 1 .. k}
        BY DEF Built
    <2>2. DOMAIN entries = {list[i].name : i \in 1 .. k} \cup {list[k + 1].name}
        BY <2>1
    <2> QED
        BY <1>1, <1>2, <2>2
<1>6. ASSUME NEW name \in DOMAIN entries
      PROVE  Means(entries[name], list, UpTo(list, name, k + 1))
    <2>1. CASE name = list[k + 1].name
        <3>1. entries[name] = Defined(list[k + 1])
            BY <2>1
        <3> QED
            BY <2>1, <3>1, DefinedMeans
    <2>2. CASE name # list[k + 1].name
        <3>1. name \in DOMAIN definitions /\ entries[name] = definitions[name]
            BY <2>2
        <3>2. UpTo(list, name, k + 1) = UpTo(list, name, k)
            BY <1>1, <1>2, <2>2 DEF UpTo
        <3> QED
            BY <3>1, <3>2 DEF Built
    <2> QED
        BY <2>1, <2>2
<1> QED
    BY <1>3, <1>4, <1>5, <1>6 DEF Built

-----------------------------------------------------------------------------
(* What an agenda comes to: the listings of its frames, one after another.   *)

Items == UNION {{Listing[key][i] : i \in DOMAIN Listing[key]} : key \in DOMAIN Listing}
Lists == Seq(Items)
Frames == {Frame(key[1], key[2]) : key \in DOMAIN Listing}
ListOf(frame) == Listing[<<frame.contents, frame.overridden>>]

(* rests[i] is what is left to load from the i-th frame on.                  *)
IsPending(frames, rests) ==
    /\ Len(rests) = Len(frames) + 1
    /\ rests[Len(rests)] = <<>>
    /\ \A i \in 1 .. Len(frames) : rests[i] = ListOf(frames[i]) \o rests[i + 1]

Pends(frames, rest) ==
    /\ frames \in Seq(Frames)
    /\ \E rests \in Seq(Lists) : IsPending(frames, rests) /\ rests[1] = rest

LEMMA ListingIsList ==
    ASSUME NEW key \in DOMAIN Listing
    PROVE  Listing[key] \in Lists
<1>1. Listing[key] \in Seq({Listing[key][i] : i \in DOMAIN Listing[key]})
    BY ListingAssumption DEF ListingAssumption, IsList
<1>2. {Listing[key][i] : i \in DOMAIN Listing[key]} \subseteq Items
    BY DEF Items
<1> QED
    BY <1>1, <1>2, SeqMonotonic DEF Lists

LEMMA FrameListed ==
    ASSUME NEW frame \in Frames
    PROVE  /\ <<frame.contents, frame.overridden>> \in DOMAIN Listing
           /\ frame = Frame(frame.contents, frame.overridden)
           /\ ListOf(frame) \in Lists
<1>1. PICK key \in DOMAIN Listing : frame = Frame(key[1], key[2])
    BY DEF Frames
<1>2. key = <<key[1], key[2]>>
    BY ListingAssumption DEF ListingAssumption
<1>3. frame.contents = key[1] /\ frame.overridden = key[2]
    BY <1>1 DEF Frame
<1>4. <<frame.contents, frame.overridden>> \in DOMAIN Listing
    BY <1>2, <1>3
<1>5. Listing[<<frame.contents, frame.overridden>>] \in Lists
    BY <1>4, ListingIsList
<1> QED
    BY <1>1, <1>3, <1>4, <1>5 DEF ListOf

LEMMA FrameOfKey ==
    ASSUME NEW contents, NEW overridden, <<contents, overridden>> \in DOMAIN Listing
    PROVE  /\ Frame(contents, overridden) \in Frames
           /\ ListOf(Frame(contents, overridden)) = Listing[<<contents, overridden>>]
           /\ Listing[<<contents, overridden>>] \in Lists
<1>1. <<contents, overridden>>[1] = contents /\ <<contents, overridden>>[2] = overridden
    OBVIOUS
<1>2. Frame(contents, overridden) \in Frames
    BY <1>1 DEF Frames
<1> QED
    BY <1>2, ListingIsList DEF ListOf, Frame

LEMMA PendsNothing ==
    ASSUME NEW rest
    PROVE  Pends(<<>>, rest) <=> rest = <<>>
<1>1. ASSUME Pends(<<>>, rest) PROVE rest = <<>>
    <2>1. PICK rests \in Seq(Lists) : IsPending(<<>>, rests) /\ rests[1] = rest
        BY <1>1 DEF Pends
    <2>2. Len(rests) = 1
        BY <2>1 DEF IsPending
    <2> QED
        BY <2>1, <2>2 DEF IsPending
<1>2. ASSUME rest = <<>> PROVE Pends(<<>>, rest)
    <2> DEFINE rests == << <<>> >>
    <2>1. rests \in Seq(Lists)
        <3>1. <<>> \in Lists
            BY DEF Lists
        <3> QED
            BY <3>1
    <2>2. Len(rests) = 1 /\ rests[1] = <<>> /\ Len(<<>>) = 0 /\ <<>> \in Seq(Frames)
        OBVIOUS
    <2>3. IsPending(<<>>, rests)
        BY <2>2 DEF IsPending
    <2> HIDE DEF rests
    <2> QED
        BY <1>2, <2>1, <2>2, <2>3 DEF Pends
<1> QED
    BY <1>1, <1>2

LEMMA PendsPush ==
    ASSUME NEW frames, NEW rest, Pends(frames, rest), NEW frame \in Frames
    PROVE  Pends(<<frame>> \o frames, ListOf(frame) \o rest)
<1>1. frames \in Seq(Frames)
    BY DEF Pends
<1>2. PICK rests \in Seq(Lists) : IsPending(frames, rests) /\ rests[1] = rest
    BY DEF Pends
<1> DEFINE more == <<frame>> \o frames
           first == ListOf(frame) \o rest
           now == <<first>> \o rests
<1>3. Len(rests) = Len(frames) + 1 /\ Len(frames) \in Nat
    BY <1>1, <1>2 DEF IsPending
<1>4. first \in Lists
    <2>1. rest \in Lists
        BY <1>2, <1>3
    <2> QED
        BY <2>1, FrameListed, ConcatProperties DEF Lists
<1>5. <<first>> \in Seq(Lists) /\ Len(<<first>>) = 1 /\ <<first>>[1] = first
    BY <1>4
<1>6. /\ now \in Seq(Lists) /\ Len(now) = Len(rests) + 1
      /\ now[1] = first
      /\ \A i \in 1 .. Len(rests) : now[i + 1] = rests[i]
    <2>1. /\ now \in Seq(Lists) /\ Len(now) = 1 + Len(rests)
          /\ \A i \in 1 .. 1 + Len(rests) : now[i] = IF i <= 1 THEN <<first>>[i] ELSE rests[i - 1]
        BY <1>5, ConcatProperties
    <2>2. Len(rests) \in Nat
        BY <1>3
    <2> HIDE DEF now
    <2>3. ASSUME NEW i \in 1 .. Len(rests) PROVE now[i + 1] = rests[i]
        <3>1. i + 1 \in 1 .. 1 + Len(rests) /\ ~(i + 1 <= 1) /\ (i + 1) - 1 = i
            BY <2>2
        <3> QED
            BY <2>1, <3>1
    <2>4. now[1] = first
        BY <1>5, <2>1, <2>2
    <2> QED
        BY <2>1, <2>2, <2>3, <2>4
<1>7. <<frame>> \in Seq(Frames) /\ Len(<<frame>>) = 1 /\ <<frame>>[1] = frame
    OBVIOUS
<1>8. /\ more \in Seq(Frames) /\ Len(more) = Len(frames) + 1
      /\ more[1] = frame
      /\ \A i \in 1 .. Len(frames) : more[i + 1] = frames[i]
    <2>1. /\ more \in Seq(Frames) /\ Len(more) = 1 + Len(frames)
          /\ \A i \in 1 .. 1 + Len(frames) : more[i] = IF i <= 1 THEN <<frame>>[i] ELSE frames[i - 1]
        BY <1>1, <1>7, ConcatProperties
    <2> HIDE DEF more
    <2>2. ASSUME NEW i \in 1 .. Len(frames) PROVE more[i + 1] = frames[i]
        <3>1. i + 1 \in 1 .. 1 + Len(frames) /\ ~(i + 1 <= 1) /\ (i + 1) - 1 = i
            BY <1>3
        <3> QED
            BY <2>1, <3>1
    <2>3. more[1] = frame
        BY <1>3, <1>7, <2>1
    <2> QED
        BY <1>3, <2>1, <2>2, <2>3
<1> HIDE DEF more, now
<1>9. IsPending(more, now)
    <2>1. Len(now) = Len(more) + 1
        BY <1>3, <1>6, <1>8
    <2>2. now[Len(now)] = <<>>
        BY <1>2, <1>3, <1>6 DEF IsPending
    <2>3. ASSUME NEW i \in 1 .. Len(more) PROVE now[i] = ListOf(more[i]) \o now[i + 1]
        <3>1. CASE i = 1
            <4>1. now[2] = rests[1]
                BY <1>3, <1>6
            <4>2. now[i] = ListOf(frame) \o rests[1] /\ more[i] = frame /\ now[i + 1] = rests[1]
                BY <1>2, <1>6, <1>8, <3>1, <4>1
            <4> QED
                BY <4>2
        <3>2. CASE i # 1
            <4> DEFINE j == i - 1
            <4>1. j \in 1 .. Len(frames) /\ j + 1 = i /\ j + 1 \in 1 .. Len(rests)
                  /\ j \in 1 .. Len(rests)
                BY <1>3, <1>8, <3>2
            <4>2. now[j + 1] = rests[j] /\ now[(j + 1) + 1] = rests[j + 1] /\ more[j + 1] = frames[j]
                BY <1>6, <1>8, <4>1
            <4>3. rests[j] = ListOf(frames[j]) \o rests[j + 1]
                BY <1>2, <4>1 DEF IsPending
            <4> HIDE DEF j
            <4> QED
                BY <4>1, <4>2, <4>3
        <3> QED
            BY <3>1, <3>2
    <2> QED
        BY <2>1, <2>2, <2>3 DEF IsPending
<1> QED
    BY <1>6, <1>8, <1>9 DEF Pends, more

LEMMA PendsPop ==
    ASSUME NEW frames, NEW rest, Pends(frames, rest), frames # <<>>
    PROVE  /\ Head(frames) \in Frames
           /\ \E left \in Lists :
                 Pends(Tail(frames), left) /\ rest = ListOf(Head(frames)) \o left
<1>1. frames \in Seq(Frames)
    BY DEF Pends
<1>2. PICK rests \in Seq(Lists) : IsPending(frames, rests) /\ rests[1] = rest
    BY DEF Pends
<1>3. Len(frames) \in Nat /\ Len(frames) > 0 /\ Len(rests) = Len(frames) + 1
    BY <1>1, <1>2 DEF IsPending
<1>4. /\ Tail(frames) \in Seq(Frames) /\ Len(Tail(frames)) = Len(frames) - 1
      /\ \A i \in 1 .. Len(frames) - 1 : Tail(frames)[i] = frames[i + 1]
      /\ Head(frames) = frames[1] /\ Head(frames) \in Frames
    BY <1>1, HeadTailProperties
<1>5. rests # <<>>
    BY <1>3
<1>6. /\ Tail(rests) \in Seq(Lists) /\ Len(Tail(rests)) = Len(frames)
      /\ \A i \in 1 .. Len(frames) : Tail(rests)[i] = rests[i + 1]
    BY <1>3, <1>5, HeadTailProperties
<1>7. IsPending(Tail(frames), Tail(rests))
    <2>1. Len(Tail(rests)) = Len(Tail(frames)) + 1
        BY <1>3, <1>4, <1>6
    <2>2. Tail(rests)[Len(Tail(rests))] = <<>>
        BY <1>2, <1>3, <1>6 DEF IsPending
    <2>3. ASSUME NEW i \in 1 .. Len(Tail(frames))
          PROVE  Tail(rests)[i] = ListOf(Tail(frames)[i]) \o Tail(rests)[i + 1]
        <3>1. i \in 1 .. Len(frames) /\ i + 1 \in 1 .. Len(frames) /\ i \in 1 .. Len(frames) - 1
            BY <1>3, <1>4
        <3>2. Tail(rests)[i] = rests[i + 1] /\ Tail(rests)[i + 1] = rests[(i + 1) + 1]
              /\ Tail(frames)[i] = frames[i + 1]
            BY <1>4, <1>6, <3>1
        <3>3. rests[i + 1] = ListOf(frames[i + 1]) \o rests[(i + 1) + 1]
            BY <1>2, <3>1 DEF IsPending
        <3> QED
            BY <3>2, <3>3
    <2> QED
        BY <2>1, <2>2, <2>3 DEF IsPending
<1>8. /\ rests[2] \in Lists /\ Tail(rests)[1] = rests[2]
      /\ rests[1] = ListOf(frames[1]) \o rests[2]
    <2>1. 1 \in 1 .. Len(frames) /\ 2 \in 1 .. Len(rests) /\ 1 + 1 = 2
        BY <1>3
    <2>2. rests[1] = ListOf(frames[1]) \o rests[1 + 1]
        BY <1>2, <2>1 DEF IsPending
    <2>3. Tail(rests)[1] = rests[1 + 1]
        BY <1>6, <2>1
    <2>4. rests[2] \in Lists
        BY <2>1, ElementOfSeq
    <2> QED
        BY <2>1, <2>2, <2>3, <2>4
<1> QED
    BY <1>2, <1>4, <1>6, <1>7, <1>8 DEF Pends

(* The rest of a list, taken one item further.                               *)
LEMMA SuffixStep ==
    ASSUME NEW S, NEW list \in Seq(S), NEW k \in 0 .. Len(list),
           NEW T, NEW left \in Seq(T), NEW item,
           SubSeq(list, k + 1, Len(list)) = <<item>> \o left
    PROVE  /\ k + 1 \in 1 .. Len(list)
           /\ list[k + 1] = item
           /\ left = SubSeq(list, (k + 1) + 1, Len(list))
<1>1. Len(list) \in Nat
    OBVIOUS
<1> DEFINE U == T \cup {item}
<1>2. left \in Seq(U) /\ <<item>> \in Seq(U) /\ Len(<<item>>) = 1 /\ <<item>>[1] = item
    BY SeqMonotonic
<1>3. /\ <<item>> \o left \in Seq(U)
      /\ Len(<<item>> \o left) = 1 + Len(left)
      /\ \A i \in 1 .. 1 + Len(left) : (<<item>> \o left)[i] = IF i <= 1 THEN <<item>>[i] ELSE left[i - 1]
    BY <1>2, ConcatProperties
<1>4. Len(left) \in Nat /\ Len(left) >= 0
    OBVIOUS
<1>5. <<item>> \o left # <<>>
    BY <1>3, <1>4
<1>6. k # Len(list)
    <2> SUFFICES ASSUME k = Len(list) PROVE FALSE
        OBVIOUS
    <2>1. SubSeq(list, k + 1, Len(list)) = <<>>
        BY <1>1, SubSeqEmpty
    <2> QED
        BY <1>5, <2>1
<1>7. k + 1 \in 1 .. Len(list) /\ Len(list) \in k + 1 .. Len(list)
    BY <1>1, <1>6
<1>8. /\ Head(SubSeq(list, k + 1, Len(list))) = list[k + 1]
      /\ Tail(SubSeq(list, k + 1, Len(list))) = SubSeq(list, (k + 1) + 1, Len(list))
    BY <1>7, HeadTailOfSubSeq
<1>9. Head(<<item>> \o left) = item
    BY <1>2, <1>3, <1>4
<1>10. Tail(<<item>> \o left) = left
    <2> DEFINE all == <<item>> \o left
    <2>1. Tail(all) \in Seq(U) /\ Len(Tail(all)) = Len(left)
          /\ \A i \in 1 .. Len(left) : Tail(all)[i] = all[i + 1]
        BY <1>3, <1>4, <1>5, HeadTailProperties
    <2>2. ASSUME NEW i \in 1 .. Len(left) PROVE all[i + 1] = left[i]
        <3>1. i + 1 \in 1 .. 1 + Len(left) /\ ~(i + 1 <= 1) /\ (i + 1) - 1 = i
            BY <1>4
        <3> QED
            BY <1>3, <3>1
    <2> HIDE DEF all
    <2> QED
        BY <1>2, <2>1, <2>2, SeqEqual DEF all
<1> QED
    BY <1>7, <1>8, <1>9, <1>10

(* Taking the first content of the top frame.                                *)
LEMMA ContentTaken ==
    ASSUME NEW rest, Pends(agenda, rest), agenda # <<>>, Top.contents # <<>>
    PROVE  \E left \in Lists :
              /\ Pends(Rest, left)
              /\ rest = ListingOfContent(Content, Top.overridden) \o left
              /\ Content.kind = "definition" => IsDefinition(Content)
              /\ Content.kind = "include" =>
                    Content.redefined = NamesIn(Listing[<<Content.contents, {}>>])
              /\ Needed(Top.contents, Top.overridden) \subseteq DOMAIN Listing
<1>1. PICK left \in Lists : Pends(Tail(agenda), left) /\ rest = ListOf(Top) \o left
    BY PendsPop DEF Top
<1>2. Top \in Frames
    BY PendsPop DEF Top
<1> DEFINE contents == Top.contents
           overridden == Top.overridden
           key == <<contents, overridden>>
           tail == <<Tail(contents), overridden>>
           first == ListingOfContent(Content, overridden)
<1>3. key \in DOMAIN Listing /\ Top = Frame(contents, overridden)
    BY <1>2, FrameListed
<1>4. key[1] = contents /\ key[2] = overridden
    OBVIOUS
<1> HIDE DEF key
<1>5. /\ IsList(contents)
      /\ Needed(contents, overridden) \subseteq DOMAIN Listing
      /\ Listing[key] = ListingOf(contents, overridden)
    BY <1>3, <1>4, ListingAssumption DEF ListingAssumption
<1>6. \A i \in DOMAIN contents :
        /\ contents[i].kind = "definition" => IsDefinition(contents[i])
        /\ contents[i].kind = "include" =>
              contents[i].redefined = NamesIn(Listing[<<contents[i].contents, {}>>])
    BY <1>3, <1>4, ListingAssumption, Zenon DEF ListingAssumption
<1>7. 1 \in DOMAIN contents /\ Content = contents[1]
    <2>1. contents \in Seq({contents[i] : i \in DOMAIN contents})
        BY <1>5 DEF IsList
    <2> QED
        BY <2>1 DEF Content
<1>8. /\ Content.kind = "definition" => IsDefinition(Content)
      /\ Content.kind = "include" =>
            Content.redefined = NamesIn(Listing[<<Content.contents, {}>>])
    BY <1>6, <1>7
<1>9. tail \in DOMAIN Listing
    BY <1>5 DEF Needed
<1>10. /\ Frame(Tail(contents), overridden) \in Frames
       /\ ListOf(Frame(Tail(contents), overridden)) = Listing[tail]
       /\ Listing[tail] \in Lists
    BY <1>9, FrameOfKey
<1>11. ListOf(Top) = first \o Listing[tail]
    <2>1. ListOf(Top) = Listing[key]
        BY DEF ListOf, key
    <2> QED
        BY <1>5, <2>1 DEF ListingOf, Content
<1>12. [Top EXCEPT !.contents = Tail(@)] = Frame(Tail(contents), overridden)
    BY <1>3 DEF Frame
<1>13. Pends(Rest, Listing[tail] \o left)
    BY <1>1, <1>10, <1>12, PendsPush DEF Rest
<1>14. first \in Seq(Items \cup {Content})
    <2>1. \A list \in Lists : list \in Seq(Items \cup {Content})
        BY SeqMonotonic DEF Lists
    <2>2. <<>> \in Seq(Items \cup {Content}) /\ <<Content>> \in Seq(Items \cup {Content})
        OBVIOUS
    <2>3. CASE Content.kind = "definition"
        BY <2>2, <2>3 DEF ListingOfContent
    <2>4. CASE Content.kind = "div"
        <3>1. <<Content.contents, overridden>> \in DOMAIN Listing
            BY <1>5, <2>4 DEF Needed, Content
        <3>2. first = Listing[<<Content.contents, overridden>>]
            BY <2>4 DEF ListingOfContent
        <3> QED
            BY <2>1, <3>1, <3>2, ListingIsList
    <2>5. CASE Content.kind = "include" /\ Content.file \notin DOMAIN Contents
        <3>1. first = <<Content>>
            BY <2>5 DEF ListingOfContent
        <3> QED
            BY <2>2, <3>1
    <2>6. CASE Content.kind = "include" /\ Content.file \in DOMAIN Contents
        <3> DEFINE file == <<Contents[Content.file], overridden \cup Content.redefined>>
                   own == <<Content.contents, overridden>>
        <3>1. file \in DOMAIN Listing /\ own \in DOMAIN Listing
            BY <1>5, <2>6 DEF Needed, Content
        <3>2. first = Listing[file] \o Listing[own]
            BY <1>8, <2>6 DEF ListingOfContent
        <3> HIDE DEF file, own
        <3>3. Listing[file] \in Lists /\ Listing[own] \in Lists
            BY <3>1, ListingIsList
        <3>4. first \in Lists
            BY <3>2, <3>3, ConcatProperties DEF Lists
        <3> QED
            BY <2>1, <3>4
    <2>7. CASE Content.kind \notin {"definition", "div", "include"}
        BY <2>2, <2>7 DEF ListingOfContent
    <2> QED
        BY <2>3, <2>4, <2>5, <2>6, <2>7
<1> HIDE DEF first, tail
<1>15. (first \o Listing[tail]) \o left = first \o (Listing[tail] \o left)
    <2> DEFINE S == Items \cup {Content}
               middle == Listing[tail]
    <2>1. middle \in Seq(S) /\ left \in Seq(S) /\ first \in Seq(S)
        BY <1>10, <1>14, SeqMonotonic DEF Lists
    <2> HIDE DEF S, middle
    <2>2. (first \o middle) \o left = first \o (middle \o left)
        BY <2>1, ConcatAssociative
    <2> QED
        BY <2>2 DEF middle
<1>16. Listing[tail] \o left \in Lists
    BY <1>10, ConcatProperties DEF Lists
<1> QED
    BY <1>1, <1>5, <1>8, <1>11, <1>13, <1>15, <1>16 DEF first

-----------------------------------------------------------------------------
(* The inductive invariant: the first definitions that the files state are   *)
(* built, and the agenda comes to the others.                                *)

FileList == Listing[<<Contents[root], {}>>]

Halfway(list) ==
    \E k \in 0 .. Len(list) :
        /\ Pends(agenda, SubSeq(list, k + 1, Len(list)))
        /\ Built(definitions, list, k)

LoaderInv ==
    /\ root \in Roots
    /\ conflict => root \notin DOMAIN Contents \/ ~Consistent(FileList)
    /\ ~conflict => root \in DOMAIN Contents /\ Halfway(FileList)

LEMMA StatedIsList ==
    ASSUME root \in Roots, root \in DOMAIN Contents
    PROVE  FileList \in Lists
<1>1. <<Contents[root], {}>> \in DOMAIN Listing
    BY ListingAssumption DEF ListingAssumption
<1> QED
    BY <1>1, ListingIsList DEF FileList

LEMMA LoaderInitInv == LoaderInit => LoaderInv
<1> SUFFICES ASSUME LoaderInit PROVE LoaderInv
    OBVIOUS
<1>1. root \in Roots /\ definitions = <<>>
    BY DEF LoaderInit
<1>2. CASE root \notin DOMAIN Contents
    BY <1>1, <1>2 DEF LoaderInit, LoaderInv
<1>3. CASE root \in DOMAIN Contents
    <2> DEFINE list == FileList
    <2>1. ~conflict /\ agenda = << Frame(Contents[root], {}) >>
        BY <1>3 DEF LoaderInit
    <2>2. list \in Lists
        BY <1>1, <1>3, StatedIsList
    <2>3. <<Contents[root], {}>> \in DOMAIN Listing
        BY <1>1, <1>3, ListingAssumption DEF ListingAssumption
    <2>4. Frame(Contents[root], {}) \in Frames /\ ListOf(Frame(Contents[root], {})) = list
        BY <2>3, FrameOfKey DEF FileList
    <2>5. Pends(<<>>, <<>>)
        BY PendsNothing
    <2>6. Pends(<<Frame(Contents[root], {})>> \o <<>>, list \o <<>>)
        BY <2>4, <2>5, PendsPush
    <2>7. list \o <<>> = list /\ <<Frame(Contents[root], {})>> \o <<>> = agenda
        BY <2>1, <2>2, ConcatEmptySeq DEF Lists
    <2>8. Len(list) \in Nat /\ SubSeq(list, 0 + 1, Len(list)) = list
        BY <2>2, SubSeqFull DEF Lists
    <2>9. Built(definitions, list, 0)
        BY <1>1 DEF Built
    <2>10. 0 \in 0 .. Len(list)
        BY <2>8
    <2> HIDE DEF list
    <2>11. Halfway(list)
        BY <2>6, <2>7, <2>8, <2>9, <2>10 DEF Halfway
    <2> QED
        BY <1>1, <1>3, <2>1, <2>11 DEF LoaderInv, list
<1> QED
    BY <1>2, <1>3

LEMMA PairOf ==
    ASSUME NEW one, NEW other
    PROVE  <<one>> \o <<other>> = <<one, other>>
<1> DEFINE S == {one, other}
           pair == <<one>> \o <<other>>
<1>1. /\ <<one>> \in Seq(S) /\ Len(<<one>>) = 1 /\ <<one>>[1] = one
      /\ <<other>> \in Seq(S) /\ Len(<<other>>) = 1 /\ <<other>>[1] = other
    OBVIOUS
<1>2. pair \in Seq(S) /\ Len(pair) = 2 /\ pair[1] = one /\ pair[2] = other
    <2>1. /\ pair \in Seq(S) /\ Len(pair) = 1 + 1
          /\ \A i \in 1 .. 1 + 1 : pair[i] = IF i <= 1 THEN <<one>>[i] ELSE <<other>>[i - 1]
        BY <1>1, ConcatProperties
    <2> HIDE DEF pair
    <2> QED
        BY <1>1, <2>1
<1>3. /\ <<one, other>> \in Seq(S) /\ Len(<<one, other>>) = 2
      /\ <<one, other>>[1] = one /\ <<one, other>>[2] = other
    OBVIOUS
<1> HIDE DEF pair
<1>4. \A i \in 1 .. 2 : i = 1 \/ i = 2
    OBVIOUS
<1>5. \A i \in 1 .. 2 : pair[i] = <<one, other>>[i]
    BY <1>2, <1>3, <1>4
<1> QED
    BY <1>2, <1>3, <1>5, SeqEqual DEF pair

LEMMA LoaderNextInv == LoaderInv /\ [Load]_loaderVars => LoaderInv'
<1> SUFFICES ASSUME LoaderInv, [Load]_loaderVars PROVE LoaderInv'
    OBVIOUS
<1> DEFINE list == FileList
<1>1. CASE UNCHANGED loaderVars
    BY <1>1 DEF loaderVars, LoaderInv, FileList, Halfway
<1> SUFFICES ASSUME Load PROVE LoaderInv'
    BY <1>1
<1>2. Loading /\ root' = root
    BY DEF Load, LoadDefinition, SkipContent, EnterDiv, EnterInclude, LeaveFrame
<1>3. root \in Roots /\ root \in DOMAIN Contents /\ Halfway(list)
    BY <1>2 DEF LoaderInv, Loading
<1>4. list \in Lists /\ list' = list
    BY <1>2, <1>3, StatedIsList DEF FileList
<1>5. PICK k \in 0 .. Len(list) :
        /\ Pends(agenda, SubSeq(list, k + 1, Len(list)))
        /\ Built(definitions, list, k)
    BY <1>3 DEF Halfway
<1>6. k \in Nat /\ DOMAIN list = 1 .. Len(list) /\ Len(list) \in Nat
    BY <1>4 DEF Lists
<1> HIDE DEF list
<1>7. ASSUME NEW m \in 0 .. Len(list), ~conflict',
             Pends(agenda', SubSeq(list, m + 1, Len(list))),
             Built(definitions', list, m)
      PROVE  LoaderInv'
    <2>1. Halfway(list)'
        BY <1>4, <1>7 DEF Halfway
    <2> QED
        BY <1>2, <1>3, <1>4, <1>7, <2>1 DEF LoaderInv, list
<1>8. ASSUME ~Consistent(list) PROVE conflict' => LoaderInv'
    BY <1>2, <1>3, <1>4, <1>8 DEF LoaderInv, list
<1> DEFINE rest == SubSeq(list, k + 1, Len(list))
<1>9. CASE LoadDefinition \/ SkipContent \/ EnterDiv \/ EnterInclude
    <2>1. agenda # <<>> /\ Top.contents # <<>> /\ ~conflict
        BY <1>2, <1>9 DEF Loading, LoadDefinition, SkipContent, EnterDiv, EnterInclude
    <2>2. PICK left \in Lists :
              /\ Pends(Rest, left)
              /\ rest = ListingOfContent(Content, Top.overridden) \o left
              /\ Content.kind = "definition" => IsDefinition(Content)
              /\ Content.kind = "include" =>
                    Content.redefined = NamesIn(Listing[<<Content.contents, {}>>])
              /\ Needed(Top.contents, Top.overridden) \subseteq DOMAIN Listing
        BY <1>5, <2>1, ContentTaken
    <2>3. <<>> \o left = left
        BY <2>2, ConcatEmptySeq DEF Lists
    <2>4. ASSUME rest = <<Content>> \o left
          PROVE  /\ k + 1 \in 1 .. Len(list) /\ list[k + 1] = Content
                 /\ left = SubSeq(list, (k + 1) + 1, Len(list))
        BY <1>4, <2>2, <2>4, SuffixStep DEF Lists
    <2>5. CASE LoadDefinition
        <3>1. Content.kind = "definition" /\ IsDefinition(Content) /\ agenda' = Rest
            BY <2>2, <2>5 DEF LoadDefinition
        <3>2. CASE Content.name \in Top.overridden
            <4>1. ListingOfContent(Content, Top.overridden) = <<>>
                BY <3>1, <3>2 DEF ListingOfContent
            <4>2. rest = left
                BY <2>2, <2>3, <4>1
            <4>3. ~conflict' /\ definitions' = definitions
                BY <2>5, <3>2 DEF LoadDefinition
            <4> QED
                BY <1>5, <1>7, <2>2, <3>1, <4>2, <4>3
        <3>3. CASE Content.name \notin Top.overridden
            <4>1. ListingOfContent(Content, Top.overridden) = <<Content>>
                BY <3>1, <3>3 DEF ListingOfContent
            <4>2. /\ k + 1 \in 1 .. Len(list) /\ list[k + 1] = Content
                  /\ left = SubSeq(list, (k + 1) + 1, Len(list))
                BY <2>2, <2>4, <4>1
            <4>3. CASE Conflicts(Content)
                <5>1. 1 .. k + 1 \subseteq DOMAIN list
                    BY <1>6, <4>2
                <5>2. ~Consistent(list)
                    BY <1>5, <1>6, <3>1, <4>2, <4>3, <5>1, ConflictIsStated
                <5>3. conflict'
                    BY <2>5, <3>3, <4>3 DEF LoadDefinition
                <5> QED
                    BY <1>8, <5>2, <5>3
            <4>4. CASE ~Conflicts(Content)
                <5>1. ~conflict'
                    BY <2>5, <3>3, <4>4 DEF LoadDefinition
                <5>2. definitions' = [name \in DOMAIN definitions \cup {Content.name} |->
                                        IF name = Content.name THEN Defined(Content)
                                        ELSE definitions[name]]
                    BY <2>5, <3>3, <4>4 DEF LoadDefinition
                <5>3. Built(definitions', list, k + 1)
                    BY <1>5, <1>6, <3>1, <4>2, <4>4, <5>2, BuiltGrows
                <5>4. k + 1 \in 0 .. Len(list)
                    BY <1>6, <4>2
                <5>5. Pends(agenda', SubSeq(list, (k + 1) + 1, Len(list)))
                    BY <2>2, <3>1, <4>2
                <5> QED
                    BY <1>7, <5>1, <5>3, <5>4, <5>5
            <4> QED
                BY <4>3, <4>4
        <3> QED
            BY <3>2, <3>3
    <2>6. CASE SkipContent
        <3>1. Content.kind \in {"start", "annotation"} /\ agenda' = Rest
              /\ definitions' = definitions /\ ~conflict'
            BY <2>1, <2>6 DEF SkipContent
        <3>2. ListingOfContent(Content, Top.overridden) = <<>>
            BY <3>1 DEF ListingOfContent
        <3>3. rest = left
            BY <2>2, <2>3, <3>2
        <3> QED
            BY <1>5, <1>7, <2>2, <3>1, <3>3
    <2>7. CASE EnterDiv
        <3> DEFINE own == <<Content.contents, Top.overridden>>
                   inner == Frame(Content.contents, Top.overridden)
        <3>1. Content.kind = "div" /\ agenda' = <<inner>> \o Rest
              /\ definitions' = definitions /\ ~conflict'
            BY <2>1, <2>7 DEF EnterDiv
        <3>2. ListingOfContent(Content, Top.overridden) = Listing[own]
            BY <3>1 DEF ListingOfContent
        <3>3. own \in DOMAIN Listing
            BY <2>1, <2>2, <3>1 DEF Needed, Content
        <3>4. inner \in Frames /\ ListOf(inner) = Listing[own]
            BY <3>3, FrameOfKey
        <3>5. Pends(agenda', Listing[own] \o left)
            BY <2>2, <3>1, <3>4, PendsPush
        <3>6. Pends(agenda', rest)
            BY <2>2, <3>2, <3>5
        <3> QED
            BY <1>5, <1>7, <3>1, <3>6
    <2>8. CASE EnterInclude
        <3>1. Content.kind = "include" /\ definitions' = definitions
              /\ conflict' = (Content.file \notin DOMAIN Contents)
            BY <2>8 DEF EnterInclude
        <3>2. CASE Content.file \notin DOMAIN Contents
            <4>1. ListingOfContent(Content, Top.overridden) = <<Content>>
                BY <3>1, <3>2 DEF ListingOfContent
            <4>2. k + 1 \in 1 .. Len(list) /\ list[k + 1] = Content
                BY <2>2, <2>4, <4>1
            <4>3. ~Consistent(list)
                BY <1>6, <3>1, <4>2 DEF Consistent
            <4> QED
                BY <1>8, <3>1, <3>2, <4>3
        <3>3. CASE Content.file \in DOMAIN Contents
            <4> DEFINE names == Top.overridden \cup Content.redefined
                       file == <<Contents[Content.file], names>>
                       own == <<Content.contents, Top.overridden>>
                       outer == Frame(Contents[Content.file], names)
                       inner == Frame(Content.contents, Top.overridden)
            <4>1. ~conflict' /\ agenda' = <<outer, inner>> \o Rest
                BY <2>8, <3>1, <3>3 DEF EnterInclude
            <4>2. file \in DOMAIN Listing /\ own \in DOMAIN Listing
                BY <2>1, <2>2, <3>1, <3>3 DEF Needed, Content
            <4>3. ListingOfContent(Content, Top.overridden) = Listing[file] \o Listing[own]
                BY <2>2, <3>1, <3>3 DEF ListingOfContent
            <4>4. /\ inner \in Frames /\ ListOf(inner) = Listing[own]
                  /\ outer \in Frames /\ ListOf(outer) = Listing[file]
                  /\ Listing[own] \in Lists /\ Listing[file] \in Lists
                BY <4>2, FrameOfKey
            <4> HIDE DEF inner, outer, own, file, names
            <4>5. Pends(<<inner>> \o Rest, Listing[own] \o left)
                BY <2>2, <4>4, PendsPush
            <4>6. Pends(<<outer>> \o (<<inner>> \o Rest), Listing[file] \o (Listing[own] \o left))
                BY <4>4, <4>5, PendsPush
            <4>7. <<outer>> \o (<<inner>> \o Rest) = <<outer, inner>> \o Rest
                <5>1. Rest \in Seq(Frames)
                    BY <2>2 DEF Pends
                <5>2. <<outer>> \in Seq(Frames) /\ <<inner>> \in Seq(Frames)
                    BY <4>4
                <5>3. (<<outer>> \o <<inner>>) \o Rest = <<outer>> \o (<<inner>> \o Rest)
                    BY <5>1, <5>2, ConcatAssociative
                <5>4. <<outer>> \o <<inner>> = <<outer, inner>>
                    BY PairOf
                <5> QED
                    BY <5>3, <5>4
            <4>8. Listing[file] \o (Listing[own] \o left) = (Listing[file] \o Listing[own]) \o left
                <5> DEFINE one == Listing[file]
                           two == Listing[own]
                <5>1. one \in Seq(Items) /\ two \in Seq(Items) /\ left \in Seq(Items)
                    BY <2>2, <4>4 DEF Lists
                <5> HIDE DEF one, two
                <5>2. one \o (two \o left) = (one \o two) \o left
                    BY <5>1, ConcatAssociative
                <5> QED
                    BY <5>2 DEF one, two
            <4>9. Pends(agenda', rest)
                BY <2>2, <4>1, <4>3, <4>6, <4>7, <4>8
            <4> QED
                BY <1>5, <1>7, <3>1, <4>1, <4>9
        <3> QED
            BY <3>2, <3>3
    <2> QED
        BY <1>9, <2>5, <2>6, <2>7, <2>8
<1>10. CASE LeaveFrame
    <2>1. agenda # <<>> /\ Top.contents = <<>> /\ ~conflict' /\ definitions' = definitions
          /\ agenda' = Tail(agenda)
        BY <1>2, <1>10 DEF Loading, LeaveFrame
    <2>2. PICK left \in Lists : Pends(Tail(agenda), left) /\ rest = ListOf(Top) \o left
        BY <1>5, <2>1, PendsPop DEF Top
    <2>3. Top \in Frames
        BY <1>5, <2>1, PendsPop DEF Top
    <2> DEFINE key == <<Top.contents, Top.overridden>>
    <2>4. key \in DOMAIN Listing /\ key[1] = <<>>
        BY <2>1, <2>3, FrameListed
    <2>5. Listing[key] = ListingOf(key[1], key[2])
        BY <2>4, ListingAssumption DEF ListingAssumption
    <2>6. ListOf(Top) = <<>>
        BY <2>4, <2>5 DEF ListingOf, ListOf
    <2>7. rest = left
        BY <2>2, <2>6, ConcatEmptySeq DEF Lists
    <2> QED
        BY <1>5, <1>7, <2>1, <2>2, <2>7
<1> QED
    BY <1>9, <1>10 DEF Load

LEMMA NothingLeft ==
    ASSUME NEW S, NEW list \in Seq(S), NEW k \in 0 .. Len(list),
           SubSeq(list, k + 1, Len(list)) = <<>>
    PROVE  k = Len(list)
<1>1. Len(list) \in Nat
    OBVIOUS
<1> SUFFICES ASSUME k # Len(list) PROVE FALSE
    OBVIOUS
<1>2. k + 1 \in 1 .. Len(list) /\ Len(list) \in k + 1 .. Len(list)
    BY <1>1
<1>3. \A i \in k + 1 .. Len(list) : list[i] \in S
    BY <1>1, ElementOfSeq
<1>4. Len(SubSeq(list, k + 1, Len(list))) = Len(list) - (k + 1) + 1
    BY <1>1, <1>2, <1>3, SubSeqProperties
<1>5. Len(<<>>) = 0
    OBVIOUS
<1>6. Len(list) - (k + 1) + 1 = 0
    BY <1>4, <1>5, Zenon
<1> QED
    BY <1>1, <1>2, <1>6

(* What is loaded in the end is what the files state.                        *)
LEMMA LoaderInvLoadsAsWritten == LoaderInv => LoadsAsWritten
<1> SUFFICES ASSUME LoaderInv PROVE LoadsAsWritten
    OBVIOUS
<1> DEFINE list == FileList
<1>1. conflict => root \notin DOMAIN Contents \/ ~Consistent(list)
    BY DEF LoaderInv
<1>2. ASSUME Loaded
      PROVE  /\ root \in DOMAIN Contents
             /\ Consistent(list)
             /\ DOMAIN definitions = NamesIn(list)
             /\ \A name \in NamesIn(list) :
                   IsMeant(definitions[name], list, Places(list, name))
    <2>1. root \in Roots /\ root \in DOMAIN Contents /\ Halfway(list) /\ agenda = <<>>
        BY <1>2 DEF LoaderInv, Loaded
    <2>2. list \in Lists
        BY <2>1, StatedIsList
    <2>3. Len(list) \in Nat /\ DOMAIN list = 1 .. Len(list)
        BY <2>2 DEF Lists
    <2> HIDE DEF list
    <2>4. PICK k \in 0 .. Len(list) :
            /\ Pends(<<>>, SubSeq(list, k + 1, Len(list)))
            /\ Built(definitions, list, k)
        BY <2>1 DEF Halfway
    <2>5. SubSeq(list, k + 1, Len(list)) = <<>>
        BY <2>4, PendsNothing
    <2>6. k = Len(list)
        BY <2>2, <2>4, <2>5, NothingLeft DEF Lists
    <2>7. Built(definitions, list, Len(list))
        BY <2>4, <2>6
    <2>8. \A i \in DOMAIN list : list[i].kind = "definition"
        BY <2>3, <2>7 DEF Built
    <2>9. Consistent(list)
        BY <2>3, <2>7, <2>8 DEF Built, Consistent
    <2>10. DOMAIN definitions = NamesIn(list)
        BY <2>3, <2>7, <2>8 DEF Built, NamesIn
    <2>11. ASSUME NEW name \in NamesIn(list)
           PROVE  IsMeant(definitions[name], list, Places(list, name))
        <3>1. Places(list, name) = UpTo(list, name, Len(list))
            BY <2>3, <2>8 DEF Places, UpTo
        <3>2. Means(definitions[name], list, UpTo(list, name, Len(list)))
            BY <2>7, <2>10 DEF Built
        <3> QED
            BY <3>1, <3>2 DEF Means
    <2> QED
        BY <2>1, <2>9, <2>10, <2>11
<1>3. ~Loaded \/ root \in DOMAIN Contents
    BY <1>2
<1> QED
    BY <1>1, <1>2, <1>3 DEF LoadsAsWritten, FileList

(* The loader defines exactly the names that the files of a schema define,   *)
(* each as what its definitions come to together, whatever the files include *)
(* and override; it fails when a file is missing or operators conflict, and  *)
(* only then.                                                                *)
THEOREM LoadsWritten == LoaderSpec => []LoadsAsWritten
<1>1. LoaderInit => LoaderInv
    BY LoaderInitInv
<1>2. LoaderInv /\ [Load]_loaderVars => LoaderInv'
    BY LoaderNextInv
<1>3. LoaderInv => LoadsAsWritten
    BY LoaderInvLoadsAsWritten
<1> QED
    BY <1>1, <1>2, <1>3, PTL DEF LoaderSpec

-----------------------------------------------------------------------------
\* Numbers are reached one by one.
LEMMA OneByOne ==
    ASSUME NEW S, 0 \in S, \A n \in Nat : n \in S => n + 1 \in S
    PROVE  \A n \in Nat : n \in S
PROOF
  <1> SUFFICES ASSUME Nat \ S # {} PROVE FALSE
    OBVIOUS
  <1>1. PICK n \in Nat \ S : \A k \in Nat \ S : n <= k
    BY LeastNumber
  <1>2. n - 1 \in Nat /\ n - 1 \in S
    BY <1>1
  <1>3. n - 1 + 1 \in S
    BY <1>2
  <1> QED
    BY <1>1, <1>3

\* The states that nest less deep than a number.
Shallow(n) == {s \in States : Depth[s] < n}

\* The parts of a state nest less deep than it.
LEMMA PartsAreShallow ==
    /\ Shallow(0) = {}
    /\ \A s \in States : Depth[s] \in Nat /\ s \in Shallow(Depth[s] + 1)
    /\ \A n \in Nat, m \in Nat : n <= m => Shallow(n) \subseteq Shallow(m)
    /\ \A n \in Nat : \A s \in Shallow(n + 1) :
          \A part \in Parts(s) : part \in Shallow(n) /\ part \in States
    /\ \A s \in States : \A part \in Parts(s) : part \in Shallow(Depth[s])
PROOF
  <1>1. Depth \in [States -> Nat]
    BY StatesAssumption DEF StatesAssumption
  <1>2. \A s \in States : \A part \in Parts(s) : part \in States /\ Depth[part] < Depth[s]
    BY StatesAssumption DEF StatesAssumption
  <1> QED
    BY <1>1, <1>2 DEF Shallow

-----------------------------------------------------------------------------
\* Whether a state is nullable follows from its parts.
LEMMA NullableOfParts ==
    ASSUME NEW s, NEW f, NEW g, \A part \in Parts(s) : f[part] = g[part]
    PROVE  NullableBy(f, s) = NullableBy(g, s)
  BY DEF NullableBy, Parts, Compounds, Wrappers

NullableTo(f, n) == f = [s \in Shallow(n) |-> NullableBy(f, s)]

\* There are such functions, the values of which do not depend on the depth.
LEMMA NullableToAny ==
    ASSUME NEW n \in Nat
    PROVE  \E f : NullableTo(f, n)
PROOF
  <1> DEFINE good == {k \in Nat : \E f : NullableTo(f, k)}
  <1>1. 0 \in good
    <2>1. NullableTo([s \in {} |-> TRUE], 0)
      BY PartsAreShallow DEF NullableTo
    <2> QED
      BY <2>1
  <1>2. ASSUME NEW k \in Nat, k \in good PROVE k + 1 \in good
    <2>1. PICK f : NullableTo(f, k)
      BY <1>2
    <2> DEFINE g == [s \in Shallow(k + 1) |-> NullableBy(f, s)]
    <2>2. \A s \in Shallow(k) : s \in Shallow(k + 1) /\ g[s] = f[s]
      BY <2>1, PartsAreShallow DEF NullableTo
    <2>3. ASSUME NEW s \in Shallow(k + 1) PROVE NullableBy(f, s) = NullableBy(g, s)
      <3>1. \A part \in Parts(s) : f[part] = g[part]
        BY <2>2, PartsAreShallow
      <3> HIDE DEF g
      <3> QED
        BY <3>1, NullableOfParts
    <2>4. NullableTo(g, k + 1)
      BY <2>3 DEF NullableTo
    <2> QED
      BY <2>4
  <1> HIDE DEF good
  <1>3. n \in good
    BY <1>1, <1>2, OneByOne
  <1> QED
    BY <1>3 DEF good

LEMMA NullableToAgree ==
    ASSUME NEW n \in Nat, NEW m \in Nat, n <= m,
           NEW f, NullableTo(f, n), NEW g, NullableTo(g, m)
    PROVE  \A s \in Shallow(n) : f[s] = g[s]
PROOF
  <1> DEFINE good == {k \in Nat : \A s \in Shallow(k) \cap Shallow(n) : f[s] = g[s]}
  <1>1. 0 \in good
    BY PartsAreShallow
  <1>2. ASSUME NEW k \in Nat, k \in good PROVE k + 1 \in good
    <2>1. ASSUME NEW s \in Shallow(k + 1) \cap Shallow(n) PROVE f[s] = g[s]
      <3>1. \A part \in Parts(s) : part \in Shallow(k) \cap Shallow(n)
        BY PartsAreShallow DEF Shallow
      <3>2. NullableBy(f, s) = NullableBy(g, s)
        BY <1>2, <3>1, NullableOfParts
      <3>3. s \in Shallow(n) /\ s \in Shallow(m)
        BY PartsAreShallow
      <3>4. f[s] = NullableBy(f, s)
        BY <3>3 DEF NullableTo
      <3>5. g[s] = NullableBy(g, s)
        BY <3>3 DEF NullableTo
      <3> QED
        BY <3>2, <3>4, <3>5
    <2> QED
      BY <2>1
  <1> HIDE DEF good
  <1>3. n \in good
    BY <1>1, <1>2, OneByOne
  <1> QED
    BY <1>3 DEF good

\* So State::is_nullable is what its equation says, for every state.
LEMMA NullableIs ==
    ASSUME NEW s \in States
    PROVE  IsNullable[s] = NullableBy(IsNullable, s)
PROOF
  <1> DEFINE at(n) == CHOOSE f : NullableTo(f, n)
             F == [x \in States |-> at(Depth[x] + 1)[x]]
  <1>1. \A n \in Nat : NullableTo(at(n), n)
    BY NullableToAny
  <1>2. ASSUME NEW x \in States PROVE F[x] = NullableBy(F, x)
    <2> DEFINE f == at(Depth[x] + 1)
    <2>1. Depth[x] + 1 \in Nat /\ x \in Shallow(Depth[x] + 1)
      BY PartsAreShallow
    <2>2. f[x] = NullableBy(f, x)
      BY <1>1, <2>1 DEF NullableTo
    <2>3. ASSUME NEW part \in Parts(x) PROVE f[part] = F[part]
      <3>1. /\ part \in States /\ Depth[part] + 1 \in Nat /\ Depth[part] + 1 <= Depth[x] + 1
            /\ part \in Shallow(Depth[part] + 1)
        BY PartsAreShallow DEF Shallow
      <3>2. at(Depth[part] + 1)[part] = f[part]
        <4> NullableTo(f, Depth[x] + 1) /\ NullableTo(at(Depth[part] + 1), Depth[part] + 1)
          BY <1>1, <2>1, <3>1
        <4> HIDE DEF at, f
        <4> QED
          BY <2>1, <3>1, NullableToAgree
      <3> QED
        BY <3>1, <3>2
    <2> F[x] = f[x]
      OBVIOUS
    <2> HIDE DEF f, F
    <2> QED
      BY <2>2, <2>3, NullableOfParts
  <1>3. F = [x \in States |-> NullableBy(F, x)]
    <2> DOMAIN F = States /\ F = [x \in States |-> F[x]]
      OBVIOUS
    <2> HIDE DEF F
    <2> QED
      BY <1>2
  <1> HIDE DEF F
  <1>4. IsNullable = [x \in States |-> NullableBy(IsNullable, x)]
    BY <1>3 DEF IsNullable
  <1> QED
    BY <1>4
-----------------------------------------------------------------------------
\* So does the step of a state.
SteppingBy(f, s, name) == StepBy(f, IsNullable, s, name)

\* Where a name leads from a state follows from where it leads from its parts.
LEMMA StepOfParts ==
    ASSUME NEW s \in States, NEW b \in ContentNames, NEW f, NEW g,
           \A part \in Parts(s), c \in ContentNames : f[<<part, c>>] = g[<<part, c>>]
    PROVE  SteppingBy(f, s, b) = SteppingBy(g, s, b)
PROOF
  <1>1. CASE s[1] = "choice"
    <2>1. Parts(s) = s[2]
      BY <1>1 DEF Parts
    <2>2. {f[<<x, b>>] : x \in s[2]} = {g[<<x, b>>] : x \in s[2]}
      BY <2>1
    <2> QED
      BY <1>1, <2>2 DEF SteppingBy, StepBy
  <1>2. CASE s[1] = "group"
    <2>1. Parts(s) = ToSet(s[2])
      BY <1>2 DEF Parts
    <2>2. \A i \in DOMAIN s[2] : f[<<s[2][i], b>>] = g[<<s[2][i], b>>]
      BY <2>1 DEF ToSet
    <2>3. {StateGroup(f[<<s[2][i], b>>], Behind(s[2], i)) : i \in Reachable(IsNullable, s[2])}
            = {StateGroup(g[<<s[2][i], b>>], Behind(s[2], i)) : i \in Reachable(IsNullable, s[2])}
      BY <2>2 DEF Reachable
    <2> QED
      BY <1>2, <2>3 DEF SteppingBy, StepBy
  <1>3. CASE s[1] = "interleave"
    <2>1. Parts(s) = DOMAIN s[2]
      BY <1>3 DEF Parts
    <2>2. {StateInterleave(f[<<x, b>>], BagRemove(s[2], x)) : x \in DOMAIN s[2]}
            = {StateInterleave(g[<<x, b>>], BagRemove(s[2], x)) : x \in DOMAIN s[2]}
      BY <2>1
    <2> QED
      BY <1>3, <2>2 DEF SteppingBy, StepBy
  <1>4. CASE s[1] = "content" /\ s[2][1] \in Compounds
    <2>1. Parts(s) = {Unfolded(s[2])}
      BY <1>4 DEF Parts, Compounds, Wrappers
    <2>2. f[<<Unfolded(s[2]), b>>] = g[<<Unfolded(s[2]), b>>]
      BY <2>1
    <2> QED
      BY <1>4, <2>2 DEF SteppingBy, StepBy, Compounds
  <1>5. CASE s[1] = "content" /\ s[2][1] \in Wrappers
    <2>1. Parts(s) = {StateOf(s[2][2])}
      BY <1>5 DEF Parts, Compounds, Wrappers
    <2>2. f[<<StateOf(s[2][2]), b>>] = g[<<StateOf(s[2][2]), b>>]
      BY <2>1
    <2> QED
      BY <1>5, <2>2 DEF SteppingBy, StepBy, Compounds, Wrappers
  <1>6. CASE s[1] = "content" /\ s[2][1] \notin Compounds \cup Wrappers
    BY <1>6 DEF SteppingBy, StepBy, Compounds, Wrappers
  <1>7. CASE s[1] \notin Compounds \cup {"content"}
    BY <1>7 DEF SteppingBy, StepBy, Compounds
  <1> QED
    BY <1>1, <1>2, <1>3, <1>4, <1>5, <1>6, <1>7 DEF Compounds

StepTo(f, n) == f = [key \in Shallow(n) \X ContentNames |-> SteppingBy(f, key[1], key[2])]

\* There are such functions, the values of which do not depend on the depth.
LEMMA StepToAny ==
    ASSUME NEW n \in Nat
    PROVE  \E f : StepTo(f, n)
PROOF
  <1> DEFINE good == {k \in Nat : \E f : StepTo(f, k)}
  <1>1. 0 \in good
    <2>1. StepTo([key \in {} |-> TRUE], 0)
      BY PartsAreShallow DEF StepTo
    <2> QED
      BY <2>1
  <1>2. ASSUME NEW k \in Nat, k \in good PROVE k + 1 \in good
    <2>1. PICK f : StepTo(f, k)
      BY <1>2
    <2> DEFINE g == [key \in Shallow(k + 1) \X ContentNames |-> SteppingBy(f, key[1], key[2])]
    <2>2. \A s \in Shallow(k), b \in ContentNames : s \in Shallow(k + 1) /\ g[<<s, b>>] = f[<<s, b>>]
      BY <2>1, PartsAreShallow DEF StepTo
    <2>3. ASSUME NEW key \in Shallow(k + 1) \X ContentNames
          PROVE  SteppingBy(f, key[1], key[2]) = SteppingBy(g, key[1], key[2])
      <3>1. \A part \in Parts(key[1]), c \in ContentNames : f[<<part, c>>] = g[<<part, c>>]
        BY <2>2, PartsAreShallow
      <3>2. key[1] \in States /\ key[2] \in ContentNames
        BY DEF Shallow
      <3> HIDE DEF g
      <3> QED
        BY <3>1, <3>2, StepOfParts
    <2>4. StepTo(g, k + 1)
      BY <2>3 DEF StepTo
    <2> QED
      BY <2>4
  <1> HIDE DEF good
  <1>3. n \in good
    BY <1>1, <1>2, OneByOne
  <1> QED
    BY <1>3 DEF good

LEMMA StepToAgree ==
    ASSUME NEW n \in Nat, NEW m \in Nat, n <= m,
           NEW f, StepTo(f, n), NEW g, StepTo(g, m)
    PROVE  \A s \in Shallow(n), b \in ContentNames : f[<<s, b>>] = g[<<s, b>>]
PROOF
  <1> DEFINE good == {k \in Nat : \A s \in Shallow(k) \cap Shallow(n), b \in ContentNames :
                                     f[<<s, b>>] = g[<<s, b>>]}
  <1>1. 0 \in good
    BY PartsAreShallow
  <1>2. ASSUME NEW k \in Nat, k \in good PROVE k + 1 \in good
    <2>1. ASSUME NEW s \in Shallow(k + 1) \cap Shallow(n), NEW b \in ContentNames
          PROVE  f[<<s, b>>] = g[<<s, b>>]
      <3>1. \A part \in Parts(s) : part \in Shallow(k) \cap Shallow(n)
        BY PartsAreShallow DEF Shallow
      <3>2. s \in States /\ s \in Shallow(n) /\ s \in Shallow(m)
        BY PartsAreShallow DEF Shallow
      <3>3. SteppingBy(f, s, b) = SteppingBy(g, s, b)
        <4>1. \A part \in Parts(s), c \in ContentNames : f[<<part, c>>] = g[<<part, c>>]
          BY <1>2, <3>1
        <4> QED
          BY <3>2, <4>1, StepOfParts
      <3>4. f[<<s, b>>] = SteppingBy(f, s, b)
        BY <3>2 DEF StepTo
      <3>5. g[<<s, b>>] = SteppingBy(g, s, b)
        BY <3>2 DEF StepTo
      <3> QED
        BY <3>3, <3>4, <3>5
    <2> QED
      BY <2>1
  <1> HIDE DEF good
  <1>3. n \in good
    BY <1>1, <1>2, OneByOne
  <1> QED
    BY <1>3 DEF good

\* So State::step is what its equation says, for every state and name.
LEMMA StepIs ==
    ASSUME NEW s \in States, NEW b \in ContentNames
    PROVE  Step[<<s, b>>] = SteppingBy(Step, s, b)
PROOF
  <1> DEFINE at(n) == CHOOSE f : StepTo(f, n)
             F == [key \in States \X ContentNames |-> at(Depth[key[1]] + 1)[key]]
  <1>1. \A n \in Nat : StepTo(at(n), n)
    BY StepToAny
  <1>2. ASSUME NEW x \in States, NEW c \in ContentNames PROVE F[<<x, c>>] = SteppingBy(F, x, c)
    <2> DEFINE f == at(Depth[x] + 1)
    <2>1. Depth[x] + 1 \in Nat /\ x \in Shallow(Depth[x] + 1)
      BY PartsAreShallow
    <2>2. f[<<x, c>>] = SteppingBy(f, x, c)
      <3>1. StepTo(f, Depth[x] + 1)
        BY <1>1, <2>1
      <3> HIDE DEF at, f
      <3> QED
        BY <2>1, <3>1 DEF StepTo
    <2>3. ASSUME NEW part \in Parts(x), NEW d \in ContentNames PROVE f[<<part, d>>] = F[<<part, d>>]
      <3>1. /\ part \in States /\ Depth[part] + 1 \in Nat /\ Depth[part] + 1 <= Depth[x] + 1
            /\ part \in Shallow(Depth[part] + 1)
        BY PartsAreShallow DEF Shallow
      <3>2. at(Depth[part] + 1)[<<part, d>>] = f[<<part, d>>]
        <4> StepTo(f, Depth[x] + 1) /\ StepTo(at(Depth[part] + 1), Depth[part] + 1)
          BY <1>1, <2>1, <3>1
        <4> HIDE DEF at, f
        <4> QED
          BY <2>1, <3>1, StepToAgree
      <3> QED
        BY <3>1, <3>2
    <2> F[<<x, c>>] = f[<<x, c>>]
      OBVIOUS
    <2> HIDE DEF f, F
    <2> QED
      BY <2>2, <2>3, StepOfParts
  <1>3. F = [key \in States \X ContentNames |-> SteppingBy(F, key[1], key[2])]
    <2>1. DOMAIN F = States \X ContentNames /\ F = [key \in States \X ContentNames |-> F[key]]
      OBVIOUS
    <2>2. \A key \in States \X ContentNames : F[key] = SteppingBy(F, key[1], key[2])
      <3> TAKE key \in States \X ContentNames
      <3> key = <<key[1], key[2]>>
        OBVIOUS
      <3> HIDE DEF F
      <3> QED
        BY <1>2
    <2> HIDE DEF F
    <2> QED
      BY <2>1, <2>2
  <1> HIDE DEF F
  <1>4. Step = [key \in States \X ContentNames |-> SteppingBy(Step, key[1], key[2])]
    BY <1>3 DEF Step, SteppingBy
  <1> QED
    BY <1>4

-----------------------------------------------------------------------------
\* And so does what a state allows.

\* What a state permits follows from what its parts permit.
LEMMA MatchesOfParts ==
    ASSUME NEW word, NEW s \in States, NEW b \in SUBSET DOMAIN word, NEW f, NEW g,
           \A part \in Parts(s), c \in SUBSET DOMAIN word : f[<<part, c>>] = g[<<part, c>>]
    PROVE  MatchesBy(f, word, s, b) = MatchesBy(g, word, s, b)
PROOF
  <1>1. CASE s[1] = "choice"
    <2>1. Parts(s) = s[2]
      BY <1>1 DEF Parts
    <2>2. (\E x \in s[2] : f[<<x, b>>]) <=> (\E x \in s[2] : g[<<x, b>>])
      BY <2>1
    <2> QED
      BY <1>1, <2>2 DEF MatchesBy
  <1>2. CASE s[1] = "group"
    <2>1. Parts(s) = ToSet(s[2])
      BY <1>2 DEF Parts
    <2>2. \A i \in DOMAIN s[2], c \in SUBSET DOMAIN word : f[<<s[2][i], c>>] = g[<<s[2][i], c>>]
      BY <2>1 DEF ToSet
    <2>3. InSequence(f, s[2], b) = InSequence(g, s[2], b)
      <3>1. \A owner \in [b -> DOMAIN s[2]] : \A i : Owned(owner, i) \in SUBSET DOMAIN word
        BY DEF Owned
      <3> QED
        BY <2>2, <3>1 DEF InSequence
    <2> QED
      BY <1>2, <2>3 DEF MatchesBy
  <1>3. CASE s[1] = "interleave"
    <2>1. Parts(s) = DOMAIN s[2]
      BY <1>3 DEF Parts
    <2>2. Interleaved(f, s[2], b) = Interleaved(g, s[2], b)
      <3>1. \A owner \in [b -> Copies(s[2])] : \A i : Owned(owner, i) \in SUBSET DOMAIN word
        BY DEF Owned
      <3>2. \A copy \in Copies(s[2]) : copy[1] \in DOMAIN s[2]
        BY DEF Copies
      <3>3. \A copy \in Copies(s[2]), c \in SUBSET DOMAIN word : f[<<copy[1], c>>] = g[<<copy[1], c>>]
        BY <2>1, <3>2
      <3> QED
        BY <3>1, <3>3 DEF Interleaved
    <2> QED
      BY <1>3, <2>2 DEF MatchesBy
  <1>4. CASE s[1] = "content" /\ s[2][1] \in Compounds
    <2>1. Parts(s) = {Unfolded(s[2])}
      BY <1>4 DEF Parts, Compounds, Wrappers
    <2>2. f[<<Unfolded(s[2]), b>>] = g[<<Unfolded(s[2]), b>>]
      BY <2>1
    <2> QED
      BY <1>4, <2>2 DEF MatchesBy, Compounds
  <1>5. CASE s[1] = "content" /\ s[2][1] \in Wrappers
    <2>1. Parts(s) = {StateOf(s[2][2])}
      BY <1>5 DEF Parts, Compounds, Wrappers
    <2>2. \A c \in SUBSET DOMAIN word : f[<<StateOf(s[2][2]), c>>] = g[<<StateOf(s[2][2]), c>>]
      BY <2>1
    <2>3. InRuns(f, StateOf(s[2][2]), b) = InRuns(g, StateOf(s[2][2]), b)
      <3>1. \A owner \in [b -> b] : \A i : Owned(owner, i) \in SUBSET DOMAIN word
        BY DEF Owned
      <3> QED
        BY <2>2, <3>1 DEF InRuns
    <2> QED
      BY <1>5, <2>2, <2>3 DEF MatchesBy, Compounds, Wrappers
  <1>6. CASE s[1] = "content" /\ s[2][1] \notin Compounds \cup Wrappers
    BY <1>6 DEF MatchesBy, Compounds, Wrappers
  <1>7. CASE s[1] \notin Compounds \cup {"content"}
    BY <1>7 DEF MatchesBy, Compounds
  <1> QED
    BY <1>1, <1>2, <1>3, <1>4, <1>5, <1>6, <1>7 DEF Compounds

MatchesTo(word, f, n) == f = [key \in Shallow(n) \X SUBSET DOMAIN word |-> MatchesBy(f, word, key[1], key[2])]

\* There are such functions, the values of which do not depend on the depth.
LEMMA MatchesToAny ==
    ASSUME NEW word, NEW n \in Nat
    PROVE  \E f : MatchesTo(word, f, n)
PROOF
  <1> DEFINE good == {k \in Nat : \E f : MatchesTo(word, f, k)}
  <1>1. 0 \in good
    <2>1. MatchesTo(word, [key \in {} |-> TRUE], 0)
      BY PartsAreShallow DEF MatchesTo
    <2> QED
      BY <2>1
  <1>2. ASSUME NEW k \in Nat, k \in good PROVE k + 1 \in good
    <2>1. PICK f : MatchesTo(word, f, k)
      BY <1>2
    <2> DEFINE g == [key \in Shallow(k + 1) \X SUBSET DOMAIN word |-> MatchesBy(f, word, key[1], key[2])]
    <2>2. \A s \in Shallow(k), b \in SUBSET DOMAIN word : s \in Shallow(k + 1) /\ g[<<s, b>>] = f[<<s, b>>]
      BY <2>1, PartsAreShallow DEF MatchesTo
    <2>3. ASSUME NEW key \in Shallow(k + 1) \X SUBSET DOMAIN word
          PROVE  MatchesBy(f, word, key[1], key[2]) = MatchesBy(g, word, key[1], key[2])
      <3>1. \A part \in Parts(key[1]), c \in SUBSET DOMAIN word : f[<<part, c>>] = g[<<part, c>>]
        BY <2>2, PartsAreShallow
      <3>2. key[1] \in States /\ key[2] \in SUBSET DOMAIN word
        BY DEF Shallow
      <3> HIDE DEF g
      <3> QED
        BY <3>1, <3>2, MatchesOfParts
    <2>4. MatchesTo(word, g, k + 1)
      BY <2>3 DEF MatchesTo
    <2> QED
      BY <2>4
  <1> HIDE DEF good
  <1>3. n \in good
    BY <1>1, <1>2, OneByOne
  <1> QED
    BY <1>3 DEF good

LEMMA MatchesToAgree ==
    ASSUME NEW word, NEW n \in Nat, NEW m \in Nat, n <= m,
           NEW f, MatchesTo(word, f, n), NEW g, MatchesTo(word, g, m)
    PROVE  \A s \in Shallow(n), b \in SUBSET DOMAIN word : f[<<s, b>>] = g[<<s, b>>]
PROOF
  <1> DEFINE good == {k \in Nat : \A s \in Shallow(k) \cap Shallow(n), b \in SUBSET DOMAIN word :
                                     f[<<s, b>>] = g[<<s, b>>]}
  <1>1. 0 \in good
    BY PartsAreShallow
  <1>2. ASSUME NEW k \in Nat, k \in good PROVE k + 1 \in good
    <2>1. ASSUME NEW s \in Shallow(k + 1) \cap Shallow(n), NEW b \in SUBSET DOMAIN word
          PROVE  f[<<s, b>>] = g[<<s, b>>]
      <3>1. \A part \in Parts(s) : part \in Shallow(k) \cap Shallow(n)
        BY PartsAreShallow DEF Shallow
      <3>2. s \in States /\ s \in Shallow(n) /\ s \in Shallow(m)
        BY PartsAreShallow DEF Shallow
      <3>3. MatchesBy(f, word, s, b) = MatchesBy(g, word, s, b)
        <4>1. \A part \in Parts(s), c \in SUBSET DOMAIN word : f[<<part, c>>] = g[<<part, c>>]
          BY <1>2, <3>1
        <4> QED
          BY <3>2, <4>1, MatchesOfParts
      <3>4. f[<<s, b>>] = MatchesBy(f, word, s, b)
        BY <3>2 DEF MatchesTo
      <3>5. g[<<s, b>>] = MatchesBy(g, word, s, b)
        BY <3>2 DEF MatchesTo
      <3> QED
        BY <3>3, <3>4, <3>5
    <2> QED
      BY <2>1
  <1> HIDE DEF good
  <1>3. n \in good
    BY <1>1, <1>2, OneByOne
  <1> QED
    BY <1>3 DEF good

\* So what a state permits is what its equation says.
LEMMA MatchesIs ==
    ASSUME NEW word, NEW s \in States, NEW b \in SUBSET DOMAIN word
    PROVE  Matches(word)[<<s, b>>] = MatchesBy(Matches(word), word, s, b)
PROOF
  <1> DEFINE at(n) == CHOOSE f : MatchesTo(word, f, n)
             F == [key \in States \X SUBSET DOMAIN word |-> at(Depth[key[1]] + 1)[key]]
  <1>1. \A n \in Nat : MatchesTo(word, at(n), n)
    BY MatchesToAny
  <1>2. ASSUME NEW x \in States, NEW c \in SUBSET DOMAIN word PROVE F[<<x, c>>] = MatchesBy(F, word, x, c)
    <2> DEFINE f == at(Depth[x] + 1)
    <2>1. Depth[x] + 1 \in Nat /\ x \in Shallow(Depth[x] + 1)
      BY PartsAreShallow
    <2>2. f[<<x, c>>] = MatchesBy(f, word, x, c)
      <3>1. MatchesTo(word, f, Depth[x] + 1)
        BY <1>1, <2>1
      <3> HIDE DEF at, f
      <3> QED
        BY <2>1, <3>1 DEF MatchesTo
    <2>3. ASSUME NEW part \in Parts(x), NEW d \in SUBSET DOMAIN word PROVE f[<<part, d>>] = F[<<part, d>>]
      <3>1. /\ part \in States /\ Depth[part] + 1 \in Nat /\ Depth[part] + 1 <= Depth[x] + 1
            /\ part \in Shallow(Depth[part] + 1)
        BY PartsAreShallow DEF Shallow
      <3>2. at(Depth[part] + 1)[<<part, d>>] = f[<<part, d>>]
        <4> MatchesTo(word, f, Depth[x] + 1) /\ MatchesTo(word, at(Depth[part] + 1), Depth[part] + 1)
          BY <1>1, <2>1, <3>1
        <4> HIDE DEF at, f
        <4> QED
          BY <2>1, <3>1, MatchesToAgree
      <3> QED
        BY <3>1, <3>2
    <2> F[<<x, c>>] = f[<<x, c>>]
      OBVIOUS
    <2> HIDE DEF f, F
    <2> QED
      BY <2>2, <2>3, MatchesOfParts
  <1>3. F = [key \in States \X SUBSET DOMAIN word |-> MatchesBy(F, word, key[1], key[2])]
    <2>1. DOMAIN F = States \X SUBSET DOMAIN word /\ F = [key \in States \X SUBSET DOMAIN word |-> F[key]]
      OBVIOUS
    <2>2. \A key \in States \X SUBSET DOMAIN word : F[key] = MatchesBy(F, word, key[1], key[2])
      <3> TAKE key \in States \X SUBSET DOMAIN word
      <3> key = <<key[1], key[2]>>
        OBVIOUS
      <3> HIDE DEF F
      <3> QED
        BY <1>2
    <2> HIDE DEF F
    <2> QED
      BY <2>1, <2>2
  <1> HIDE DEF F
  <1>4. Matches(word) = [key \in States \X SUBSET DOMAIN word |-> MatchesBy(Matches(word), word, key[1], key[2])]
    BY <1>3 DEF Matches
  <1> QED
    BY <1>4

-----------------------------------------------------------------------------
\* A set of places that come before the others.
First(A, places) == A \subseteq places /\ \A a \in A, b \in places \ A : a < b

\* A group of nothing takes no place, one of a single operand takes what this takes,
\* and one after another take places one after another.
LEMMA SequenceOfNone ==
    ASSUME NEW m, NEW places
    PROVE  InSequence(m, <<>>, places) <=> places = {}
PROOF
  <1>1. ASSUME places = {} PROVE InSequence(m, <<>>, places)
    <2> DEFINE owner == [i \in places |-> i]
    <2>1. owner \in [places -> DOMAIN <<>>] /\ Ordered(owner)
      BY <1>1 DEF Ordered
    <2>2. \A i : i \notin DOMAIN <<>>
      OBVIOUS
    <2> QED
      BY <2>1, <2>2 DEF InSequence
  <1>2. ASSUME InSequence(m, <<>>, places) PROVE places = {}
    <2>1. PICK owner \in [places -> DOMAIN <<>>] : TRUE
      BY <1>2 DEF InSequence
    <2>2. \A i : i \notin DOMAIN <<>>
      OBVIOUS
    <2> QED
      BY <2>1, <2>2
  <1> QED
    BY <1>1, <1>2

\* A group of one operand takes what this takes.
LEMMA SequenceOfOne ==
    ASSUME NEW m, NEW s, NEW places
    PROVE  InSequence(m, <<s>>, places) <=> m[<<s, places>>]
PROOF
  <1>1. DOMAIN <<s>> = {1} /\ <<s>>[1] = s
    OBVIOUS
  <1>2. ASSUME NEW owner \in [places -> {1}] PROVE Ordered(owner) /\ Owned(owner, 1) = places
    BY DEF Ordered, Owned
  <1>3. [i \in places |-> 1] \in [places -> {1}]
    OBVIOUS
  <1> QED
    BY <1>1, <1>2, <1>3 DEF InSequence

\* Of two groups, the one behind takes places after those of the other.
LEMMA SequenceOfBoth ==
    ASSUME NEW m, NEW S, NEW one \in Seq(S), NEW other \in Seq(S), NEW places, places \subseteq Nat
    PROVE  InSequence(m, one \o other, places) <=>
             \E A : /\ First(A, places)
                    /\ InSequence(m, one, A)
                    /\ InSequence(m, other, places \ A)
PROOF
  <1> DEFINE n == Len(one)
             k == Len(other)
             both == one \o other
  <1>1. /\ n \in Nat /\ k \in Nat
        /\ DOMAIN one = 1 .. n /\ DOMAIN other = 1 .. k /\ DOMAIN both = 1 .. n + k
        /\ \A i \in 1 .. n : i \in 1 .. n + k /\ both[i] = one[i]
        /\ \A i \in 1 .. k : i + n \in 1 .. n + k /\ both[i + n] = other[i]
        /\ \A i \in 1 .. n + k : i \notin 1 .. n => i - n \in 1 .. k /\ i = (i - n) + n
    <2>1. n \in Nat /\ k \in Nat /\ Len(both) = n + k
      OBVIOUS
    <2>2. \A i \in 1 .. n + k : both[i] = IF i <= n THEN one[i] ELSE other[i - n]
      BY ConcatProperties
    <2>3. DOMAIN one = 1 .. n /\ DOMAIN other = 1 .. k /\ both \in Seq(S)
      OBVIOUS
    <2>4. DOMAIN both = 1 .. n + k
      BY <2>1, <2>3
    <2> HIDE DEF n, k, both
    <2> QED
      BY <2>1, <2>2, <2>3, <2>4
  <1> HIDE DEF n, k, both
  <1>2. ASSUME InSequence(m, both, places)
        PROVE  \E A : First(A, places) /\ InSequence(m, one, A) /\ InSequence(m, other, places \ A)
    <2>1. PICK owner \in [places -> 1 .. n + k] :
            /\ Ordered(owner)
            /\ \A i \in 1 .. n + k : m[<<both[i], Owned(owner, i)>>]
      BY <1>1, <1>2 DEF InSequence
    <2> DEFINE A == {i \in places : owner[i] <= n}
               left == [i \in A |-> owner[i]]
               right == [i \in places \ A |-> owner[i] - n]
    <2>2. First(A, places)
      <3> SUFFICES ASSUME NEW a \in A, NEW b \in places \ A PROVE a < b
        BY DEF First
      <3>1. a \in Nat /\ b \in Nat /\ owner[a] <= n /\ ~ (owner[b] <= n)
        OBVIOUS
      <3>2. b <= a => owner[b] <= owner[a]
        BY <2>1 DEF Ordered
      <3>3. owner[a] \in Nat /\ owner[b] \in Nat
        BY <1>1
      <3> QED
        BY <1>1, <3>1, <3>2, <3>3
    <2>3. InSequence(m, one, A)
      <3>1. left \in [A -> 1 .. n]
        <4>1. \A i \in A : owner[i] \in 1 .. n
          BY <1>1
        <4> HIDE DEF A
        <4> QED
          BY <4>1
      <3>2. Ordered(left)
        BY <2>1 DEF Ordered
      <3>3. \A i \in 1 .. n : Owned(left, i) = Owned(owner, i)
        BY <1>1 DEF Owned
      <3> QED
        BY <1>1, <2>1, <3>1, <3>2, <3>3 DEF InSequence
    <2>4. InSequence(m, other, places \ A)
      <3>1. right \in [places \ A -> 1 .. k]
        <4>1. \A i \in places \ A : owner[i] \in 1 .. n + k /\ owner[i] \notin 1 .. n
          BY <1>1
        <4>2. \A i \in places \ A : owner[i] - n \in 1 .. k
          BY <1>1, <4>1
        <4> HIDE DEF A
        <4> QED
          BY <4>2
      <3>2. Ordered(right)
        <4> SUFFICES ASSUME NEW i \in places \ A, NEW j \in places \ A, i <= j
                     PROVE  right[i] <= right[j]
          BY DEF Ordered
        <4>1. owner[i] <= owner[j]
          BY <2>1 DEF Ordered
        <4> QED
          BY <1>1, <4>1
      <3>3. ASSUME NEW i \in 1 .. k
            PROVE  Owned(right, i) = Owned(owner, i + n)
        <4>1. \A j \in places : owner[j] \in Int
          BY <1>1
        <4>2. i \in Int /\ i > 0
          BY <1>1
        <4>3. \A j \in places : owner[j] = i + n <=> j \in places \ A /\ owner[j] - n = i
          <5>1. \A j \in places : j \in places \ A <=> ~ (owner[j] <= n)
            OBVIOUS
          <5>2. n \in Int
            BY <1>1
          <5>3. \A j \in places : owner[j] = i + n <=> ~ (owner[j] <= n) /\ owner[j] - n = i
            BY <4>1, <4>2, <5>2
          <5> HIDE DEF A
          <5> QED
            BY <5>1, <5>3
        <4>4. Owned(right, i) = {j \in places \ A : owner[j] - n = i}
          BY DEF Owned
        <4> HIDE DEF A, right
        <4> QED
          BY <4>3, <4>4 DEF Owned
      <3>4. \A i \in 1 .. k : m[<<other[i], Owned(right, i)>>]
        <4> TAKE i \in 1 .. k
        <4>1. i + n \in 1 .. n + k /\ both[i + n] = other[i]
          BY <1>1
        <4> HIDE DEF right
        <4> QED
          BY <2>1, <3>3, <4>1
      <3> HIDE DEF A, right
      <3> QED
        BY <1>1, <3>1, <3>2, <3>4 DEF InSequence
    <2> QED
      BY <2>2, <2>3, <2>4
  <1>3. ASSUME NEW A, First(A, places), InSequence(m, one, A), InSequence(m, other, places \ A)
        PROVE  InSequence(m, both, places)
    <2>1. PICK left \in [A -> 1 .. n] :
            /\ Ordered(left)
            /\ \A i \in 1 .. n : m[<<one[i], Owned(left, i)>>]
      BY <1>1, <1>3 DEF InSequence
    <2>2. PICK right \in [places \ A -> 1 .. k] :
            /\ Ordered(right)
            /\ \A i \in 1 .. k : m[<<other[i], Owned(right, i)>>]
      BY <1>1, <1>3 DEF InSequence
    <2> DEFINE owner == [i \in places |-> IF i \in A THEN left[i] ELSE right[i] + n]
    <2>3. owner \in [places -> 1 .. n + k]
      BY <1>1
    <2>4. Ordered(owner)
      <3> SUFFICES ASSUME NEW i \in places, NEW j \in places, i <= j
                   PROVE  owner[i] <= owner[j]
        BY DEF Ordered
      <3>1. CASE i \in A /\ j \in A
        BY <2>1, <3>1 DEF Ordered
      <3>2. CASE i \notin A /\ j \notin A
        <4>1. right[i] <= right[j]
          BY <2>2, <3>2 DEF Ordered
        <4>2. right[i] \in Nat /\ right[j] \in Nat
          BY <1>1, <3>2
        <4> QED
          BY <1>1, <3>2, <4>1, <4>2
      <3>3. CASE i \in A /\ j \notin A
        <4>1. left[i] \in Nat /\ left[i] <= n /\ right[j] \in Nat /\ 1 <= right[j]
          BY <1>1, <3>3
        <4> QED
          BY <1>1, <3>3, <4>1
      <3>4. CASE i \notin A /\ j \in A
        BY <1>3, <3>4 DEF First
      <3> QED
        BY <3>1, <3>2, <3>3, <3>4
    <2>5. A \subseteq places
      BY <1>3 DEF First
    <2>9. /\ \A j \in A : j \in places /\ left[j] \in 1 .. n /\ owner[j] = left[j]
          /\ \A j \in places \ A : right[j] \in 1 .. k /\ owner[j] = right[j] + n
          /\ DOMAIN left = A /\ DOMAIN right = places \ A /\ DOMAIN owner = places
      BY <2>5
    <2> HIDE DEF owner
    <2>6. ASSUME NEW i \in 1 .. n PROVE Owned(owner, i) = Owned(left, i)
      <3>1. \A j \in places : owner[j] = i <=> j \in A /\ left[j] = i
        BY <1>1, <2>9
      <3> QED
        BY <2>5, <2>9, <3>1 DEF Owned
    <2>7. ASSUME NEW i \in 1 .. k PROVE Owned(owner, i + n) = Owned(right, i)
      <3>1. \A j \in places : owner[j] = i + n <=> j \in places \ A /\ right[j] = i
        BY <1>1, <2>9
      <3> QED
        BY <2>9, <3>1 DEF Owned
    <2>8. \A i \in 1 .. n + k : m[<<both[i], Owned(owner, i)>>]
      <3> TAKE i \in 1 .. n + k
      <3>1. CASE i \in 1 .. n
        BY <1>1, <2>1, <2>6, <3>1
      <3>2. CASE i \notin 1 .. n
        <4>1. i - n \in 1 .. k /\ i = (i - n) + n
          BY <1>1, <3>2
        <4>2. both[i] = other[i - n] /\ Owned(owner, i) = Owned(right, i - n)
          BY <1>1, <2>7, <4>1
        <4> QED
          BY <2>2, <4>1, <4>2
      <3> QED
        BY <3>1, <3>2
    <2> QED
      BY <1>1, <2>3, <2>4, <2>8 DEF InSequence
  <1> QED
    BY <1>2, <1>3 DEF both

\* The first place of a group is taken by an operand behind some that take none.
SequenceFrom(m, seq, p, places) ==
    \E i \in DOMAIN seq :
       /\ \A j \in 1 .. i - 1 : m[<<seq[j], {}>>]
       /\ \E A : /\ First(A, places \ {p})
                 /\ m[<<seq[i], A \cup {p}>>]
                 /\ InSequence(m, Behind(seq, i), (places \ {p}) \ A)

LEMMA SequenceBegins ==
    ASSUME NEW m, NEW S, NEW seq \in Seq(S), NEW places, places \subseteq Nat,
           NEW p \in places, \A q \in places : p <= q
    PROVE  InSequence(m, seq, places) <=> SequenceFrom(m, seq, p, places)
PROOF
  <1> USE DEF SequenceFrom
  <1> DEFINE n == Len(seq)
  <1>1. n \in Nat /\ DOMAIN seq = 1 .. n /\ \A j \in 1 .. n : seq[j] \in S
    OBVIOUS
  <1>4. ASSUME NEW i \in 1 .. n
        PROVE  /\ DOMAIN Behind(seq, i) = 1 .. n - i
               /\ \A j \in 1 .. n - i : Behind(seq, i)[j] = seq[j + i]
    <2>1. /\ SubSeq(seq, i + 1, n) \in Seq(S)
          /\ Len(SubSeq(seq, i + 1, n)) = n - i
          /\ \A j \in 1 .. n - i : SubSeq(seq, i + 1, n)[j] = seq[j + i]
      <3> HIDE DEF n
      <3> QED
        BY <1>1
    <2> HIDE DEF n
    <2>2. DOMAIN SubSeq(seq, i + 1, n) = 1 .. n - i
      BY <2>1
    <2> QED
      BY <2>1, <2>2 DEF Behind, n
  <1> HIDE DEF n
  <1>2. ASSUME InSequence(m, seq, places)
        PROVE  \E i \in 1 .. n :
                  /\ \A j \in 1 .. i - 1 : m[<<seq[j], {}>>]
                  /\ \E A : /\ First(A, places \ {p})
                            /\ m[<<seq[i], A \cup {p}>>]
                            /\ InSequence(m, Behind(seq, i), (places \ {p}) \ A)
    <2>1. PICK owner \in [places -> 1 .. n] :
            /\ Ordered(owner)
            /\ \A i \in 1 .. n : m[<<seq[i], Owned(owner, i)>>]
      BY <1>1, <1>2 DEF InSequence
    <2> DEFINE i == owner[p]
               A == {q \in places \ {p} : owner[q] = i}
               rest == [q \in (places \ {p}) \ A |-> owner[q] - i]
    <2>2. /\ i \in Int /\ 1 <= i /\ i <= n
          /\ \A q \in places : owner[q] \in Int /\ i <= owner[q] /\ owner[q] <= n
      BY <1>1, <2>1 DEF Ordered
    <2>3. \A j \in 1 .. i - 1 : m[<<seq[j], {}>>]
      <3> TAKE j \in 1 .. i - 1
      <3>1. j \in 1 .. n /\ j < i
        <4> HIDE DEF i
        <4> QED
          BY <1>1, <2>2
      <3>2. Owned(owner, j) = {}
        <4> HIDE DEF i
        <4>1. \A q \in places : owner[q] # j
          BY <2>2, <3>1
        <4> QED
          BY <4>1 DEF Owned
      <3> QED
        BY <2>1, <3>1, <3>2
    <2>4. First(A, places \ {p})
      <3> SUFFICES ASSUME NEW a \in A, NEW b \in (places \ {p}) \ A PROVE a < b
        BY DEF First
      <3>1. a \in Nat /\ b \in Nat /\ owner[a] = i /\ owner[b] # i /\ i <= owner[b]
        BY <2>2
      <3>2. b <= a => owner[b] <= owner[a]
        BY <2>1 DEF Ordered
      <3> HIDE DEF i
      <3>3. owner[b] \in Nat /\ i \in Nat
        BY <1>1, <2>2
      <3> QED
        BY <3>1, <3>2, <3>3
    <2>5. A \cup {p} = Owned(owner, i)
      BY DEF Owned
    <2>6. InSequence(m, Behind(seq, i), (places \ {p}) \ A)
      <3>1. \A q \in (places \ {p}) \ A : rest[q] = owner[q] - i /\ rest[q] \in 1 .. n - i
        <4> TAKE q \in (places \ {p}) \ A
        <4>1. owner[q] # i /\ i <= owner[q] /\ owner[q] <= n /\ owner[q] \in Int
          BY <2>2
        <4>2. rest[q] = owner[q] - i
          OBVIOUS
        <4> HIDE DEF i, rest
        <4> QED
          BY <1>1, <2>2, <4>1, <4>2
      <3>2. rest \in [(places \ {p}) \ A -> 1 .. n - i]
        BY <3>1
      <3>3. Ordered(rest)
        <4> SUFFICES ASSUME NEW q \in (places \ {p}) \ A, NEW r \in (places \ {p}) \ A, q <= r
                     PROVE  rest[q] <= rest[r]
          BY DEF Ordered
        <4>1. owner[q] <= owner[r]
          BY <2>1 DEF Ordered
        <4> HIDE DEF i
        <4> QED
          BY <1>1, <2>2, <3>1, <4>1
      <3>4. ASSUME NEW j \in 1 .. n - i
            PROVE  /\ j + i \in 1 .. n
                   /\ Owned(rest, j) = Owned(owner, j + i)
        <4>1. j + i \in 1 .. n /\ j + i # i
          <5> HIDE DEF i
          <5> QED
            BY <1>1, <2>2
        <4>2. \A q \in places : owner[q] = j + i <=> q \in (places \ {p}) \ A /\ owner[q] - i = j
          <5>1. \A q \in places : q \in (places \ {p}) \ A <=> owner[q] # i
            OBVIOUS
          <5>2. \A q \in places : owner[q] = j + i <=> owner[q] - i = j
            <6> HIDE DEF i
            <6> QED
              BY <1>1, <2>2
          <5> HIDE DEF i, A
          <5> QED
            BY <4>1, <5>1, <5>2
        <4>3. Owned(rest, j) = {q \in (places \ {p}) \ A : owner[q] - i = j}
          BY DEF Owned
        <4> HIDE DEF i, A, rest
        <4> QED
          BY <4>1, <4>2, <4>3 DEF Owned
      <3>5. \A j \in 1 .. n - i : m[<<Behind(seq, i)[j], Owned(rest, j)>>]
        <4>1. i \in 1 .. n
          BY <1>1, <2>2
        <4> HIDE DEF i, rest
        <4> TAKE j \in 1 .. n - i
        <4>2. Behind(seq, i)[j] = seq[j + i]
          BY <1>4, <4>1
        <4> QED
          BY <2>1, <3>4, <4>2
      <3>6. DOMAIN Behind(seq, i) = 1 .. n - i
        <4>1. i \in 1 .. n
          BY <1>1, <2>2
        <4> HIDE DEF i
        <4> QED
          BY <1>4, <4>1
      <3> HIDE DEF i, rest, A
      <3> QED
        BY <3>2, <3>3, <3>5, <3>6 DEF InSequence
    <2>7. m[<<seq[i], A \cup {p}>>]
      BY <2>1, <2>2, <2>5
    <2>8. i \in 1 .. n
      BY <1>1, <2>2
    <2> HIDE DEF i, A
    <2> QED
      BY <2>3, <2>4, <2>6, <2>7, <2>8
  <1>3. ASSUME NEW i \in 1 .. n, \A j \in 1 .. i - 1 : m[<<seq[j], {}>>],
               NEW A, First(A, places \ {p}), m[<<seq[i], A \cup {p}>>],
               InSequence(m, Behind(seq, i), (places \ {p}) \ A)
        PROVE  InSequence(m, seq, places)
    <2> DEFINE Q == (places \ {p}) \ A
    <2>1. PICK rest \in [Q -> 1 .. n - i] :
            /\ Ordered(rest)
            /\ \A j \in 1 .. n - i : m[<<seq[j + i], Owned(rest, j)>>]
      BY <1>3, <1>4 DEF InSequence
    <2>2. A \subseteq places \ {p}
      BY <1>3 DEF First
    <2> DEFINE owner == [q \in places |-> IF q \in Q THEN rest[q] + i ELSE i]
    <2>3. \A q \in Q : rest[q] \in Int /\ 1 <= rest[q] /\ rest[q] <= n - i
      <3> HIDE DEF Q
      <3> QED
        BY <1>1, <2>1
    <2>4. owner \in [places -> 1 .. n]
      <3> HIDE DEF Q
      <3>1. \A q \in places : owner[q] = (IF q \in Q THEN rest[q] + i ELSE i)
        OBVIOUS
      <3>2. \A q \in places : owner[q] \in 1 .. n
        <4> HIDE DEF owner
        <4> QED
          BY <1>1, <2>3, <3>1
      <3> QED
        BY <3>2
    <2>5. Ordered(owner)
      <3> SUFFICES ASSUME NEW q \in places, NEW r \in places, q <= r
                   PROVE  owner[q] <= owner[r]
        BY DEF Ordered
      <3>1. CASE q \in Q /\ r \in Q
        <4>1. rest[q] <= rest[r]
          BY <2>1, <3>1 DEF Ordered
        <4> HIDE DEF Q
        <4> QED
          BY <1>1, <2>3, <3>1, <4>1
      <3>2. CASE q \notin Q
        <4> HIDE DEF Q
        <4> QED
          BY <1>1, <2>3, <3>2
      <3>3. CASE q \in Q /\ r \notin Q
        <4>1. r = p \/ r \in A
          BY <3>3
        <4>2. CASE r = p
          BY <3>3, <4>2
        <4>3. CASE r \in A
          <5>1. r < q
            BY <1>3, <3>3, <4>3 DEF First
          <5> QED
            BY <5>1
        <4> QED
          BY <4>1, <4>2, <4>3
      <3> QED
        BY <3>1, <3>2, <3>3
    <2>6. \A j \in 1 .. n : m[<<seq[j], Owned(owner, j)>>]
      <3> TAKE j \in 1 .. n
      <3>1. CASE j < i
        <4>1. Owned(owner, j) = {}
          <5> HIDE DEF Q
          <5> QED
            BY <1>1, <2>3, <3>1 DEF Owned
        <4> QED
          BY <1>1, <1>3, <3>1, <4>1
      <3>2. CASE j = i
        <4>1. Owned(owner, i) = places \ Q
          <5> HIDE DEF Q
          <5> QED
            BY <1>1, <2>3 DEF Owned
        <4>2. places \ Q = A \cup {p}
          BY <2>2
        <4> QED
          BY <1>3, <3>2, <4>1, <4>2
      <3>3. CASE j > i
        <4>1. j - i \in 1 .. n - i /\ j = (j - i) + i
          BY <1>1, <3>3
        <4>2. Owned(owner, j) = Owned(rest, j - i)
          <5>1. Q \subseteq places /\ DOMAIN rest = Q
            OBVIOUS
          <5> HIDE DEF Q
          <5>2. \A q \in places : owner[q] = j <=> q \in Q /\ rest[q] = j - i
            BY <1>1, <2>3, <3>3
          <5> HIDE DEF owner
          <5>3. DOMAIN owner = places
            BY DEF owner
          <5> QED
            BY <5>1, <5>2, <5>3 DEF Owned
        <4>3. m[<<seq[(j - i) + i], Owned(rest, j - i)>>]
          BY <2>1, <4>1
        <4> QED
          BY <4>1, <4>2, <4>3
      <3> QED
        BY <1>1, <3>1, <3>2, <3>3
    <2> QED
      BY <1>1, <2>4, <2>5, <2>6 DEF InSequence
  <1> QED
    BY <1>1, <1>2, <1>3

\* The first place of a repetition begins a run.
LEMMA RunsBegin ==
    ASSUME NEW m, NEW s, NEW places, places \subseteq Nat,
           NEW p \in places, \A q \in places : p <= q
    PROVE  InRuns(m, s, places) <=>
             \E A : /\ First(A, places \ {p})
                    /\ m[<<s, A \cup {p}>>]
                    /\ InRuns(m, s, (places \ {p}) \ A)
PROOF
  <1>1. ASSUME InRuns(m, s, places)
        PROVE  \E A : /\ First(A, places \ {p})
                      /\ m[<<s, A \cup {p}>>]
                      /\ InRuns(m, s, (places \ {p}) \ A)
    <2>1. PICK owner \in [places -> places] :
            /\ Ordered(owner)
            /\ \A i \in places : owner[owner[i]] = owner[i] /\ m[<<s, Owned(owner, owner[i])>>]
      BY <1>1 DEF InRuns
    <2> DEFINE A == {q \in places \ {p} : owner[q] = owner[p]}
               Q == (places \ {p}) \ A
               rest == [q \in Q |-> owner[q]]
    <2>2. A \cup {p} = Owned(owner, owner[p])
      BY DEF Owned
    <2>3. First(A, places \ {p})
      <3> SUFFICES ASSUME NEW a \in A, NEW b \in (places \ {p}) \ A PROVE a < b
        BY DEF First
      <3>1. a \in Nat /\ b \in Nat /\ owner[a] = owner[p] /\ owner[b] # owner[p]
        OBVIOUS
      <3>2. owner[p] <= owner[b] /\ (b <= a => owner[b] <= owner[a])
        BY <2>1 DEF Ordered
      <3>3. owner[p] \in Nat /\ owner[b] \in Nat
        OBVIOUS
      <3> QED
        BY <3>1, <3>2, <3>3
    <2>4. \A q \in Q : q \in places /\ owner[q] \in Q
      <3> TAKE q \in Q
      <3>1. owner[owner[q]] = owner[q] /\ owner[q] # owner[p] /\ owner[q] \in places
        BY <2>1
      <3> QED
        BY <3>1
    <2>5. \A q \in Q : Owned(rest, owner[q]) = Owned(owner, owner[q])
      BY <2>4 DEF Owned
    <2>6. InRuns(m, s, Q)
      <3>1. rest \in [Q -> Q]
        BY <2>4
      <3>2. Ordered(rest)
        BY <2>1, <2>4 DEF Ordered
      <3>3. \A q \in Q : rest[q] = owner[q] /\ rest[owner[q]] = owner[owner[q]]
        BY <2>4
      <3> HIDE DEF Q, rest
      <3>4. \A i \in Q : rest[rest[i]] = rest[i] /\ m[<<s, Owned(rest, rest[i])>>]
        BY <2>1, <2>4, <2>5, <3>3
      <3> QED
        BY <3>1, <3>2, <3>4 DEF InRuns
    <2> QED
      BY <2>1, <2>2, <2>3, <2>6
  <1>2. ASSUME NEW A, First(A, places \ {p}), m[<<s, A \cup {p}>>],
               InRuns(m, s, (places \ {p}) \ A)
        PROVE  InRuns(m, s, places)
    <2> DEFINE Q == (places \ {p}) \ A
    <2>1. PICK rest \in [Q -> Q] :
            /\ Ordered(rest)
            /\ \A i \in Q : rest[rest[i]] = rest[i] /\ m[<<s, Owned(rest, rest[i])>>]
      BY <1>2 DEF InRuns
    <2>2. A \subseteq places \ {p} /\ \A a \in A, b \in Q : a < b
      BY <1>2 DEF First
    <2> DEFINE owner == [q \in places |-> IF q \in Q THEN rest[q] ELSE p]
    <2>3. /\ \A q \in Q : q \in places /\ rest[q] \in Q
          /\ p \notin Q
      BY <2>1
    <2>4. owner \in [places -> places]
      BY <2>3
    <2>5. Ordered(owner)
      <3> SUFFICES ASSUME NEW q \in places, NEW r \in places, q <= r
                   PROVE  owner[q] <= owner[r]
        BY DEF Ordered
      <3>1. CASE q \in Q /\ r \in Q
        BY <2>1, <3>1 DEF Ordered
      <3>2. CASE q \notin Q
        <4>1. owner[q] = p /\ owner[r] \in places
          BY <2>4, <3>2
        <4> QED
          BY <4>1
      <3>3. CASE q \in Q /\ r \notin Q
        <4>1. r = p \/ r \in A
          BY <3>3
        <4>2. CASE r = p
          BY <3>3, <4>2
        <4>3. CASE r \in A
          <5>1. r < q
            BY <2>2, <3>3, <4>3
          <5> QED
            BY <5>1
        <4> QED
          BY <4>1, <4>2, <4>3
      <3> QED
        BY <3>1, <3>2, <3>3
    <2>6. Owned(owner, p) = A \cup {p}
      <3>1. \A q \in places : owner[q] = p <=> q \notin Q
        BY <2>3
      <3>2. A \cup {p} = {q \in places : q \notin Q} /\ DOMAIN owner = places
        BY <2>2
      <3> HIDE DEF owner, Q
      <3> QED
        BY <3>1, <3>2 DEF Owned
    <2>7. \A q \in Q : Owned(owner, rest[q]) = Owned(rest, rest[q])
      <3> TAKE q \in Q
      <3>1. rest[q] # p
        BY <2>3
      <3>2. \A r \in places : owner[r] = rest[q] <=> r \in Q /\ rest[r] = rest[q]
        BY <2>3, <3>1
      <3>3. DOMAIN owner = places /\ DOMAIN rest = Q
        OBVIOUS
      <3> HIDE DEF owner, Q
      <3> QED
        BY <2>3, <3>2, <3>3 DEF Owned
    <2>8. \A i \in places : owner[owner[i]] = owner[i] /\ m[<<s, Owned(owner, owner[i])>>]
      <3> TAKE i \in places
      <3>1. CASE i \in Q
        <4>1. owner[i] = rest[i] /\ owner[rest[i]] = rest[rest[i]]
          BY <2>3, <3>1
        <4> HIDE DEF owner, Q
        <4> QED
          BY <2>1, <2>7, <3>1, <4>1
      <3>2. CASE i \notin Q
        <4>1. owner[i] = p /\ owner[p] = p
          BY <2>3, <3>2
        <4> HIDE DEF owner, Q
        <4> QED
          BY <1>2, <2>6, <4>1
      <3> QED
        BY <3>1, <3>2
    <2> HIDE DEF owner
    <2> QED
      BY <2>4, <2>5, <2>8 DEF InRuns
  <1> QED
    BY <1>1, <1>2

-----------------------------------------------------------------------------
\* Operands that each take some of the places, and may take any.
Shared(m, copies, places) ==
    \E owner \in [places -> copies] :
        \A copy \in copies : m[<<copy[1], Owned(owner, copy)>>]

Injective(f) == \A a, b \in DOMAIN f : f[a] = f[b] => a = b

\* Some operands are others by other numbers.
Renumbers(f, some, copies) ==
    /\ f \in [some -> copies]
    /\ Injective(f)
    /\ \A c \in some : f[c][1] = c[1]

Takes(m, owner, copies) == \A copy \in copies : m[<<copy[1], Owned(owner, copy)>>]

TakenBy(f, owner) == {q \in DOMAIN owner : \E c \in DOMAIN f : owner[q] = f[c]}

\* Some of the operands take what they take of all places.
LEMMA SomeShare ==
    ASSUME NEW m, NEW copies, NEW places, NEW owner \in [places -> copies],
           Takes(m, owner, copies), NEW some, NEW f, Renumbers(f, some, copies)
    PROVE  Shared(m, some, TakenBy(f, owner))
PROOF
  <1> DEFINE P == TakenBy(f, owner)
             new == [q \in P |-> CHOOSE c \in some : owner[q] = f[c]]
  <1>0. /\ P = {q \in places : \E c \in some : owner[q] = f[c]}
        /\ f \in [some -> copies]
    BY DEF TakenBy, Renumbers
  <1> HIDE DEF P
  <1>1. \A q \in P : new[q] \in some /\ owner[q] = f[new[q]]
    BY <1>0
  <1>2. new \in [P -> some]
    BY <1>1
  <1>3. \A c \in some : Owned(new, c) = Owned(owner, f[c])
    <2> TAKE c \in some
    <2>1. \A q \in P : new[q] = c <=> owner[q] = f[c]
      BY <1>0, <1>1 DEF Injective, Renumbers
    <2>2. \A q \in places : owner[q] = f[c] => q \in P
      BY <1>0
    <2>3. DOMAIN new = P /\ P \subseteq places /\ DOMAIN owner = places
      BY <1>0
    <2> HIDE DEF new
    <2> QED
      BY <2>1, <2>2, <2>3 DEF Owned
  <1>4. \A c \in some : m[<<c[1], Owned(new, c)>>]
    <2> HIDE DEF new
    <2> TAKE c \in some
    <2>1. f[c] \in copies /\ f[c][1] = c[1]
      BY <1>0 DEF Renumbers
    <2> QED
      BY <1>3, <2>1 DEF Takes
  <1> HIDE DEF new
  <1>5. Shared(m, some, P)
    BY <1>2, <1>4 DEF Shared
  <1> QED
    BY <1>5 DEF P

\* Operands of two kinds take what those of each kind take.
LEMMA AllShare ==
    ASSUME NEW m, NEW copies, NEW places, NEW A \in SUBSET places,
           NEW some, NEW f, Renumbers(f, some, copies),
           NEW others, NEW g, Renumbers(g, others, copies),
           \A c \in some, d \in others : f[c] # g[d],
           \A c \in copies : (\E d \in some : c = f[d]) \/ (\E d \in others : c = g[d]),
           Shared(m, some, A), Shared(m, others, places \ A)
    PROVE  Shared(m, copies, places)
PROOF
  <1>0. /\ f \in [some -> copies] /\ Injective(f) /\ \A c \in some : f[c][1] = c[1]
        /\ g \in [others -> copies] /\ Injective(g) /\ \A c \in others : g[c][1] = c[1]
    BY DEF Renumbers
  <1>1. PICK left \in [A -> some] : \A c \in some : m[<<c[1], Owned(left, c)>>]
    BY DEF Shared
  <1>2. PICK right \in [places \ A -> others] : \A c \in others : m[<<c[1], Owned(right, c)>>]
    BY DEF Shared
  <1> DEFINE owner == [q \in places |-> IF q \in A THEN f[left[q]] ELSE g[right[q]]]
  <1>3. owner \in [places -> copies]
    BY <1>0
  <1>4. /\ \A q \in A : q \in places /\ left[q] \in some /\ owner[q] = f[left[q]]
        /\ \A q \in places \ A : right[q] \in others /\ owner[q] = g[right[q]]
        /\ DOMAIN left = A /\ DOMAIN right = places \ A /\ DOMAIN owner = places
    OBVIOUS
  <1> HIDE DEF owner
  <1>5. ASSUME NEW c \in some PROVE Owned(owner, f[c]) = Owned(left, c)
    <2>1. \A q \in places : owner[q] = f[c] <=> q \in A /\ left[q] = c
      BY <1>0, <1>4 DEF Injective
    <2> QED
      BY <1>4, <2>1 DEF Owned
  <1>6. ASSUME NEW c \in others PROVE Owned(owner, g[c]) = Owned(right, c)
    <2>1. \A q \in places : owner[q] = g[c] <=> q \in places \ A /\ right[q] = c
      BY <1>0, <1>4 DEF Injective
    <2> QED
      BY <1>4, <2>1 DEF Owned
  <1>7. \A c \in copies : m[<<c[1], Owned(owner, c)>>]
    <2> TAKE c \in copies
    <2>1. ASSUME NEW d \in some, c = f[d] PROVE m[<<c[1], Owned(owner, c)>>]
      <3>1. c[1] = d[1] /\ Owned(owner, c) = Owned(left, d)
        BY <1>0, <1>5, <2>1
      <3> QED
        BY <1>1, <3>1
    <2>2. ASSUME NEW d \in others, c = g[d] PROVE m[<<c[1], Owned(owner, c)>>]
      <3>1. c[1] = d[1] /\ Owned(owner, c) = Owned(right, d)
        BY <1>0, <1>6, <2>2
      <3> QED
        BY <1>2, <3>1
    <2> QED
      BY <2>1, <2>2
  <1> QED
    BY <1>3, <1>7 DEF Shared

\* One operand takes all places.
LEMMA OneTakesAll ==
    ASSUME NEW m, NEW c, NEW places
    PROVE  Shared(m, {c}, places) <=> m[<<c[1], places>>]
PROOF
  <1>1. ASSUME NEW owner \in [places -> {c}] PROVE Owned(owner, c) = places
    BY DEF Owned
  <1>2. [q \in places |-> c] \in [places -> {c}]
    OBVIOUS
  <1> QED
    BY <1>1, <1>2 DEF Shared

\* How often a bag holds an element.
Count(bag, s) == IF s \in DOMAIN bag THEN bag[s] ELSE 0

\* A bag has as many copies of a state as it counts.
LEMMA CopiesAre ==
    ASSUME NEW bag, bag \in [DOMAIN bag -> Nat \ {0}]
    PROVE  /\ \A s : Count(bag, s) \in Nat
           /\ \A c : c \in Copies(bag) <=>
                       /\ c = <<c[1], c[2]>>
                       /\ c[2] \in Nat /\ 1 <= c[2] /\ c[2] <= Count(bag, c[1])
           /\ \A c \in Copies(bag) : c[1] \in DOMAIN bag
PROOF
  <1>1. \A s \in DOMAIN bag : bag[s] \in Nat
    OBVIOUS
  <1>2. \A c : c \in Copies(bag) <=> \E s \in DOMAIN bag : c \in {s} \X (1 .. bag[s])
    BY DEF Copies
  <1>3. \A c, s : c \in {s} \X (1 .. bag[s]) <=> c = <<c[1], c[2]>> /\ c[1] = s /\ c[2] \in 1 .. bag[s]
    OBVIOUS
  <1>4. \A s \in DOMAIN bag : \A k : k \in 1 .. bag[s] <=> k \in Nat /\ 1 <= k /\ k <= bag[s]
    BY <1>1
  <1>5. \A k \in Nat : ~ (1 <= k /\ k <= 0)
    OBVIOUS
  <1> QED
    BY <1>1, <1>2, <1>3, <1>4, <1>5 DEF Count

\* Operands of two bags take what those of each bag take.
LEMMA InterleavedOfBoth ==
    ASSUME NEW m, NEW one, one \in [DOMAIN one -> Nat \ {0}],
           NEW other, other \in [DOMAIN other -> Nat \ {0}], NEW places
    PROVE  Interleaved(m, one (+) other, places) <=>
             \E A \in SUBSET places : Interleaved(m, one, A) /\ Interleaved(m, other, places \ A)
PROOF
  <1> DEFINE both == one (+) other
             shifted(c) == <<c[1], c[2] + Count(one, c[1])>>
             K == Copies(both)
             K1 == Copies(one)
             K2 == Copies(other)
             f == [c \in K1 |-> c]
             g == [c \in K2 |-> shifted(c)]
  <1>1. /\ both \in [DOMAIN both -> Nat \ {0}]
        /\ \A s : Count(both, s) = Count(one, s) + Count(other, s)
    <2>1. /\ DOMAIN both = DOMAIN one \cup DOMAIN other
          /\ both = [s \in DOMAIN both |-> Count(one, s) + Count(other, s)]
      BY DEF Count, (+)
    <2>2. \A s : Count(one, s) \in Nat /\ Count(other, s) \in Nat
      BY CopiesAre
    <2>3. /\ \A s \in DOMAIN one : Count(one, s) > 0
          /\ \A s \in DOMAIN other : Count(other, s) > 0
          /\ \A s : s \notin DOMAIN one => Count(one, s) = 0
          /\ \A s : s \notin DOMAIN other => Count(other, s) = 0
      BY DEF Count
    <2> HIDE DEF both
    <2>4. \A s \in DOMAIN both : Count(one, s) + Count(other, s) \in Nat \ {0}
      BY <2>1, <2>2, <2>3
    <2>5. both \in [DOMAIN both -> Nat \ {0}]
      BY <2>1, <2>4
    <2>6. \A s : Count(both, s) = Count(one, s) + Count(other, s)
      <3> TAKE s
      <3>1. CASE s \in DOMAIN both
        <4>1. Count(both, s) = both[s]
          BY <3>1 DEF Count
        <4> QED
          BY <2>1, <3>1, <4>1
      <3>2. CASE s \notin DOMAIN both
        <4>1. Count(both, s) = 0
          BY <3>2 DEF Count
        <4> QED
          BY <2>1, <2>3, <3>2, <4>1
      <3> QED
        BY <3>1, <3>2
    <2> QED
      BY <2>5, <2>6
  <1>2. /\ \A s : Count(one, s) \in Nat /\ Count(other, s) \in Nat
        /\ \A c : c \in K1 <=> /\ c = <<c[1], c[2]>>
                               /\ c[2] \in Nat /\ 1 <= c[2] /\ c[2] <= Count(one, c[1])
        /\ \A c : c \in K2 <=> /\ c = <<c[1], c[2]>>
                               /\ c[2] \in Nat /\ 1 <= c[2] /\ c[2] <= Count(other, c[1])
    BY CopiesAre
  <1>3. \A c : c \in K <=> /\ c = <<c[1], c[2]>>
                           /\ c[2] \in Nat /\ 1 <= c[2]
                           /\ c[2] <= Count(one, c[1]) + Count(other, c[1])
    <2> HIDE DEF both
    <2> QED
      BY <1>1, CopiesAre
  <1> HIDE DEF K, K1, K2
  <1>4. Renumbers(f, K1, K)
    BY <1>2, <1>3 DEF Renumbers, Injective
  <1>5. \A c \in K2 : shifted(c) \in K /\ shifted(c)[1] = c[1] /\ shifted(c)[2] = c[2] + Count(one, c[1])
    <2> TAKE c \in K2
    <2>1. shifted(c)[1] = c[1] /\ shifted(c)[2] = c[2] + Count(one, c[1])
      OBVIOUS
    <2>2. shifted(c) = <<shifted(c)[1], shifted(c)[2]>>
      OBVIOUS
    <2> HIDE DEF shifted
    <2>3. c[2] \in Nat /\ 1 <= c[2] /\ c[2] <= Count(other, c[1])
      BY <1>2
    <2>4. /\ c[2] + Count(one, c[1]) \in Nat /\ 1 <= c[2] + Count(one, c[1])
          /\ c[2] + Count(one, c[1]) <= Count(one, c[1]) + Count(other, c[1])
      BY <1>2, <2>3
    <2> QED
      BY <1>3, <2>1, <2>2, <2>4
  <1> HIDE DEF shifted
  <1>6. Renumbers(g, K2, K)
    <2>1. ASSUME NEW c \in K2, NEW d \in K2, shifted(c) = shifted(d) PROVE c = d
      <3>1. c[1] = d[1] /\ c[2] + Count(one, c[1]) = d[2] + Count(one, c[1])
        BY <1>5, <2>1
      <3>2. c[2] \in Nat /\ d[2] \in Nat /\ Count(one, c[1]) \in Nat
        BY <1>2
      <3>3. c[2] = d[2]
        BY <3>1, <3>2
      <3> QED
        BY <1>2, <3>1, <3>3
    <2> QED
      BY <1>5, <2>1 DEF Renumbers, Injective
  <1>7. \A c \in K1, d \in K2 : c # shifted(d)
    <2> TAKE c \in K1, d \in K2
    <2>1. c[2] \in Nat /\ c[2] <= Count(one, c[1]) /\ d[2] \in Nat /\ 1 <= d[2]
      BY <1>2
    <2>2. shifted(d)[1] = d[1] /\ shifted(d)[2] = d[2] + Count(one, d[1])
      BY <1>5
    <2> QED
      BY <1>2, <2>1, <2>2
  <1>8. \A c \in K : c \in K1 \/ \E d \in K2 : c = shifted(d)
    <2> SUFFICES ASSUME NEW c \in K, c \notin K1 PROVE \E d \in K2 : c = shifted(d)
      OBVIOUS
    <2> DEFINE d == <<c[1], c[2] - Count(one, c[1])>>
    <2>1. /\ c = <<c[1], c[2]>> /\ c[2] \in Nat /\ 1 <= c[2]
          /\ c[2] <= Count(one, c[1]) + Count(other, c[1])
          /\ ~ (c[2] <= Count(one, c[1]))
      BY <1>2, <1>3
    <2>2. d[1] = c[1] /\ d[2] = c[2] - Count(one, c[1]) /\ d = <<d[1], d[2]>>
      OBVIOUS
    <2> HIDE DEF d
    <2>3. d[2] \in Nat /\ 1 <= d[2] /\ d[2] <= Count(other, d[1]) /\ d[2] + Count(one, d[1]) = c[2]
      BY <1>2, <2>1, <2>2
    <2>4. d \in K2
      BY <1>2, <2>2, <2>3
    <2>5. shifted(d) = c
      BY <2>1, <2>2, <2>3 DEF shifted
    <2> QED
      BY <2>4, <2>5
  <1>9. /\ \A P : Interleaved(m, both, P) <=> Shared(m, K, P)
        /\ \A P : Interleaved(m, one, P) <=> Shared(m, K1, P)
        /\ \A P : Interleaved(m, other, P) <=> Shared(m, K2, P)
    BY DEF Interleaved, Shared, K, K1, K2
  <1>10. ASSUME Shared(m, K, places)
         PROVE  \E A \in SUBSET places : Shared(m, K1, A) /\ Shared(m, K2, places \ A)
    <2>1. PICK owner \in [places -> K] : Takes(m, owner, K)
      BY <1>10 DEF Shared, Takes
    <2>2. TakenBy(g, owner) = places \ TakenBy(f, owner)
      <3>1. \A q \in places : (\E c \in K1 : owner[q] = f[c]) <=> owner[q] \in K1
        OBVIOUS
      <3>2. \A q \in places : (\E c \in K2 : owner[q] = g[c]) <=> owner[q] \notin K1
        BY <1>7, <1>8
      <3>3. DOMAIN f = K1 /\ DOMAIN g = K2
        OBVIOUS
      <3> HIDE DEF f, g
      <3> QED
        BY <3>1, <3>2, <3>3 DEF TakenBy
    <2> HIDE DEF f, g
    <2>3. Shared(m, K1, TakenBy(f, owner))
      BY <1>4, <2>1, SomeShare
    <2>4. Shared(m, K2, TakenBy(g, owner))
      BY <1>6, <2>1, SomeShare
    <2>5. TakenBy(f, owner) \in SUBSET places
      BY DEF TakenBy
    <2> QED
      BY <2>2, <2>3, <2>4, <2>5
  <1>11. ASSUME NEW A \in SUBSET places, Shared(m, K1, A), Shared(m, K2, places \ A)
         PROVE  Shared(m, K, places)
    <2>1. \A c \in K1, d \in K2 : f[c] # g[d]
      BY <1>7
    <2>2. \A c \in K : (\E d \in K1 : c = f[d]) \/ (\E d \in K2 : c = g[d])
      BY <1>8
    <2> HIDE DEF f, g
    <2> QED
      BY <1>4, <1>6, <1>11, <2>1, <2>2, AllShare
  <1> HIDE DEF both
  <1> QED
    BY <1>9, <1>10, <1>11 DEF both

\* An interleaving of nothing takes no place.
LEMMA InterleavedOfNone ==
    ASSUME NEW m, NEW places
    PROVE  Interleaved(m, EmptyBag, places) <=> places = {}
PROOF
  <1>1. EmptyBag \in [DOMAIN EmptyBag -> Nat \ {0}] /\ \A s : s \notin DOMAIN EmptyBag
    BY DEF EmptyBag, SetToBag
  <1>2. \A c : c \notin Copies(EmptyBag)
    BY <1>1 DEF Copies
  <1>3. Copies(EmptyBag) = {}
    BY <1>2
  <1>4. Interleaved(m, EmptyBag, places) <=> \E owner \in [places -> {}] : TRUE
    BY <1>3 DEF Interleaved
  <1>5. places = {} => [q \in places |-> q] \in [places -> {}]
    OBVIOUS
  <1>6. \A owner \in [places -> {}] : places = {}
    OBVIOUS
  <1> QED
    BY <1>4, <1>5, <1>6

\* An interleaving of one operand takes what this takes.
LEMMA InterleavedOfOne ==
    ASSUME NEW m, NEW s, NEW places
    PROVE  Interleaved(m, SetToBag({s}), places) <=> m[<<s, places>>]
PROOF
  <1>1. Copies(SetToBag({s})) = {<<s, 1>>}
    BY DEF Copies, SetToBag
  <1>2. Interleaved(m, SetToBag({s}), places) <=> Shared(m, {<<s, 1>>}, places)
    BY <1>1 DEF Interleaved, Shared
  <1>3. Shared(m, {<<s, 1>>}, places) <=> m[<<(<<s, 1>>)[1], places>>]
    BY OneTakesAll
  <1> QED
    BY <1>2, <1>3

\* The first place of an interleaving is taken by one of its operands, and the others
\* take what this one leaves.
InterleavedFrom(m, bag, p, places) ==
    \E s \in DOMAIN bag : \E A \in SUBSET (places \ {p}) :
       /\ m[<<s, A \cup {p}>>]
       /\ Interleaved(m, BagRemove(bag, s), (places \ {p}) \ A)

LEMMA InterleavedBegins ==
    ASSUME NEW m, NEW bag, bag \in [DOMAIN bag -> Nat \ {0}], NEW places, NEW p \in places
    PROVE  Interleaved(m, bag, places) <=> InterleavedFrom(m, bag, p, places)
PROOF
  <1> USE DEF InterleavedFrom
  <1> DEFINE K == Copies(bag)
  <1>1. /\ \A s : Count(bag, s) \in Nat
        /\ \A c : c \in K <=> /\ c = <<c[1], c[2]>>
                              /\ c[2] \in Nat /\ 1 <= c[2] /\ c[2] <= Count(bag, c[1])
        /\ \A c \in K : c[1] \in DOMAIN bag
    BY CopiesAre
  <1>2. ASSUME NEW s \in DOMAIN bag
        PROVE  /\ BagRemove(bag, s) \in [DOMAIN BagRemove(bag, s) -> Nat \ {0}]
               /\ Count(BagRemove(bag, s), s) = Count(bag, s) - 1
               /\ \A x : x # s => Count(BagRemove(bag, s), x) = Count(bag, x)
    <2>1. bag[s] \in Nat /\ bag[s] > 0 /\ Count(bag, s) = bag[s]
      BY DEF Count
    <2>2. CASE bag[s] = 1
      <3>1. BagRemove(bag, s) = [e \in DOMAIN bag \ {s} |-> bag[e]]
        BY <2>2 DEF BagRemove
      <3> QED
        BY <2>1, <2>2, <3>1 DEF Count
    <2>3. CASE bag[s] # 1
      <3>1. BagRemove(bag, s) = [e \in DOMAIN bag |-> IF e = s THEN bag[e] - 1 ELSE bag[e]]
        BY <2>3 DEF BagRemove
      <3>2. \A e \in DOMAIN bag : (IF e = s THEN bag[e] - 1 ELSE bag[e]) \in Nat \ {0}
        BY <2>1, <2>3
      <3> QED
        BY <2>1, <2>3, <3>1, <3>2 DEF Count
    <2> QED
      BY <2>2, <2>3
  <1> HIDE DEF K
  \* The copies without one, renumbered.
  <1>3. ASSUME NEW s \in DOMAIN bag, NEW c \in K, c[1] = s
        PROVE  \E g : /\ Renumbers(g, Copies(BagRemove(bag, s)), K)
                      /\ \A d \in Copies(BagRemove(bag, s)) : g[d] # c
                      /\ \A e \in K \ {c} : \E d \in Copies(BagRemove(bag, s)) : e = g[d]
    <2> DEFINE rest == BagRemove(bag, s)
               L == Copies(rest)
               skipping(d) == <<d[1], IF d[1] = s /\ c[2] <= d[2] THEN d[2] + 1 ELSE d[2]>>
               g == [d \in L |-> skipping(d)]
    <2>1. \A d : d \in L <=> /\ d = <<d[1], d[2]>>
                             /\ d[2] \in Nat /\ 1 <= d[2] /\ d[2] <= Count(rest, d[1])
      <3>1. rest \in [DOMAIN rest -> Nat \ {0}]
        BY <1>2
      <3> HIDE DEF rest
      <3> QED
        BY <3>1, CopiesAre
    <2>2. /\ Count(rest, s) = Count(bag, s) - 1
          /\ \A x : x # s => Count(rest, x) = Count(bag, x)
      BY <1>2
    <2>3. c = <<s, c[2]>> /\ c[2] \in Nat /\ 1 <= c[2] /\ c[2] <= Count(bag, s)
      BY <1>1, <1>3
    <2> HIDE DEF L, rest
    <2>4. ASSUME NEW d \in L
          PROVE  /\ skipping(d)[1] = d[1]
                 /\ skipping(d)[2] = IF d[1] = s /\ c[2] <= d[2] THEN d[2] + 1 ELSE d[2]
                 /\ skipping(d) = <<skipping(d)[1], skipping(d)[2]>>
      OBVIOUS
    <2> HIDE DEF skipping
    <2>5. ASSUME NEW d \in L PROVE skipping(d) \in K /\ skipping(d) # c
      <3>1. d[2] \in Nat /\ 1 <= d[2] /\ d[2] <= Count(rest, d[1])
        BY <2>1
      <3>2. CASE d[1] = s
        <4>1. /\ skipping(d)[2] \in Nat /\ 1 <= skipping(d)[2] /\ skipping(d)[2] <= Count(bag, s)
              /\ skipping(d)[2] # c[2]
          BY <1>1, <2>2, <2>3, <2>4, <3>1, <3>2
        <4> QED
          BY <1>1, <2>4, <3>2, <4>1
      <3>3. CASE d[1] # s
        BY <1>1, <2>2, <2>3, <2>4, <3>1, <3>3
      <3> QED
        BY <3>2, <3>3
    <2>6. ASSUME NEW d \in L, NEW e \in L, skipping(d) = skipping(e) PROVE d = e
      <3>1. d[2] \in Nat /\ e[2] \in Nat /\ d[1] = e[1]
        BY <2>1, <2>4, <2>6
      <3>2. d[2] = e[2]
        BY <2>3, <2>4, <2>6, <3>1
      <3> QED
        BY <2>1, <3>1, <3>2
    <2>7. ASSUME NEW e \in K, e # c PROVE \E d \in L : e = skipping(d)
      <3>1. e = <<e[1], e[2]>> /\ e[2] \in Nat /\ 1 <= e[2] /\ e[2] <= Count(bag, e[1])
        BY <1>1
      <3>2. CASE e[1] = s /\ c[2] < e[2]
        <4> DEFINE d == <<e[1], e[2] - 1>>
        <4>1. d[1] = s /\ d[2] = e[2] - 1 /\ d = <<d[1], d[2]>>
          BY <3>2
        <4> HIDE DEF d
        <4>2. d \in L
          BY <1>1, <2>1, <2>2, <2>3, <3>1, <3>2, <4>1
        <4>3. skipping(d)[1] = e[1] /\ skipping(d)[2] = e[2]
          BY <2>3, <2>4, <3>1, <3>2, <4>1, <4>2
        <4> QED
          BY <2>4, <3>1, <4>2, <4>3
      <3>3. CASE ~ (e[1] = s /\ c[2] < e[2])
        <4>1. ~ (e[1] = s /\ c[2] <= e[2])
          <5>1. e[1] = s => e[2] # c[2]
            BY <2>3, <2>7, <3>1
          <5> QED
            BY <2>3, <3>1, <3>3, <5>1
        <4>2. e \in L
          BY <1>1, <2>1, <2>2, <2>3, <3>1, <4>1
        <4>3. skipping(e)[1] = e[1] /\ skipping(e)[2] = e[2]
          BY <2>4, <4>1, <4>2
        <4> QED
          BY <2>4, <3>1, <4>2, <4>3
      <3> QED
        BY <3>2, <3>3
    <2>8. g \in [L -> K] /\ DOMAIN g = L /\ \A d \in L : g[d] = skipping(d)
      BY <2>5
    <2> HIDE DEF g
    <2>9. Renumbers(g, L, K)
      BY <2>4, <2>6, <2>8 DEF Renumbers, Injective
    <2>10. /\ \A d \in L : g[d] # c
           /\ \A e \in K \ {c} : \E d \in L : e = g[d]
      BY <2>5, <2>7, <2>8
    <2> QED
      BY <2>9, <2>10 DEF L, rest
  <1>4. /\ \A P : Interleaved(m, bag, P) <=> Shared(m, K, P)
        /\ \A s, P : Interleaved(m, BagRemove(bag, s), P) <=> Shared(m, Copies(BagRemove(bag, s)), P)
    BY DEF Interleaved, Shared, K
  <1>5. ASSUME Shared(m, K, places)
        PROVE  \E s \in DOMAIN bag : \E A \in SUBSET (places \ {p}) :
                  /\ m[<<s, A \cup {p}>>]
                  /\ Shared(m, Copies(BagRemove(bag, s)), (places \ {p}) \ A)
    <2>1. PICK owner \in [places -> K] : Takes(m, owner, K)
      BY <1>5 DEF Shared, Takes
    <2> DEFINE c == owner[p]
               s == c[1]
               L == Copies(BagRemove(bag, s))
               A == Owned(owner, c) \ {p}
    <2>2. c \in K /\ s \in DOMAIN bag
      BY <1>1
    <2>3. PICK g :
            /\ Renumbers(g, L, K)
            /\ \A d \in L : g[d] # c
            /\ \A e \in K \ {c} : \E d \in L : e = g[d]
      <3> HIDE DEF c
      <3> QED
        BY <1>3, <2>2
    <2> HIDE DEF L
    <2>4. Shared(m, L, TakenBy(g, owner))
      BY <2>1, <2>3, SomeShare
    <2>5. TakenBy(g, owner) = (places \ {p}) \ A
      <3>1. \A q \in places : (\E d \in L : owner[q] = g[d]) <=> owner[q] # c
        BY <2>3
      <3>2. \A q \in places : q \in Owned(owner, c) <=> owner[q] = c
        BY DEF Owned
      <3>3. DOMAIN g = L
        BY <2>3 DEF Renumbers
      <3> QED
        BY <3>1, <3>2, <3>3 DEF TakenBy
    <2>6. A \cup {p} = Owned(owner, c) /\ A \in SUBSET (places \ {p})
      BY DEF Owned
    <2>7. m[<<s, A \cup {p}>>]
      BY <2>1, <2>2, <2>6 DEF Takes
    <2> HIDE DEF A
    <2>8. Shared(m, Copies(BagRemove(bag, s)), (places \ {p}) \ A)
      BY <2>4, <2>5 DEF L
    <2> HIDE DEF s
    <2> QED
      BY <2>2, <2>6, <2>7, <2>8
  <1>6. ASSUME NEW s \in DOMAIN bag, NEW A \in SUBSET (places \ {p}), m[<<s, A \cup {p}>>],
               Shared(m, Copies(BagRemove(bag, s)), (places \ {p}) \ A)
        PROVE  Shared(m, K, places)
    <2> DEFINE c == <<s, 1>>
               L == Copies(BagRemove(bag, s))
               f == [d \in {c} |-> d]
               B == A \cup {p}
    <2>1. c \in K /\ c[1] = s
      <3>1. Count(bag, s) \in Nat /\ 1 <= Count(bag, s)
        BY DEF Count
      <3> QED
        BY <1>1, <3>1
    <2> HIDE DEF c
    <2>2. PICK g :
            /\ Renumbers(g, L, K)
            /\ \A d \in L : g[d] # c
            /\ \A e \in K \ {c} : \E d \in L : e = g[d]
      BY <1>3, <2>1
    <2>3. Shared(m, {c}, B)
      BY <1>6, <2>1, OneTakesAll
    <2>4. places \ B = (places \ {p}) \ A /\ B \in SUBSET places
      OBVIOUS
    <2>5. Shared(m, L, places \ B)
      BY <1>6, <2>4
    <2> HIDE DEF L, B
    <2>6. Renumbers(f, {c}, K) /\ \A d \in {c} : f[d] = c
      BY <2>1 DEF Renumbers, Injective
    <2>7. \A d \in {c}, e \in L : f[d] # g[e]
      BY <2>2, <2>6
    <2>8. \A e \in K : (\E d \in {c} : e = f[d]) \/ (\E d \in L : e = g[d])
      BY <2>2, <2>6
    <2> HIDE DEF f
    <2> QED
      BY <2>2, <2>3, <2>4, <2>5, <2>6, <2>7, <2>8, AllShare
  <1> QED
    BY <1>4, <1>5, <1>6

-----------------------------------------------------------------------------
\* What a state allows, kind by kind.
LEMMA PermitsCases ==
    ASSUME NEW word, NEW s \in States, NEW places \in SUBSET DOMAIN word
    PROVE  /\ s[1] = "choice" =>
                (Permits(word, s, places) <=> \E x \in s[2] : Permits(word, x, places))
           /\ s[1] = "group" =>
                (Permits(word, s, places) <=> InSequence(Matches(word), s[2], places))
           /\ s[1] = "interleave" =>
                (Permits(word, s, places) <=> Interleaved(Matches(word), s[2], places))
           /\ s[1] = "content" /\ s[2][1] \in Compounds =>
                (Permits(word, s, places) <=> Permits(word, Unfolded(s[2]), places))
           /\ s[1] = "content" /\ s[2][1] = "element" =>
                (Permits(word, s, places) <=> \E i \in places : places = {i} /\ word[i] \in s[2][2])
           /\ s[1] = "content" /\ s[2][1] = "many0" =>
                (Permits(word, s, places) <=> InRuns(Matches(word), StateOf(s[2][2]), places))
           /\ s[1] = "content" /\ s[2][1] = "many1" =>
                (Permits(word, s, places) <=>
                   /\ InRuns(Matches(word), StateOf(s[2][2]), places)
                   /\ places = {} => Permits(word, StateOf(s[2][2]), places))
           /\ s[1] = "content" /\ s[2][1] = "optional" =>
                (Permits(word, s, places) <=> places = {} \/ Permits(word, StateOf(s[2][2]), places))
           /\ s[1] = "content" /\ s[2][1] = "text" =>
                (Permits(word, s, places) <=> \A i \in places : word[i] = TextToken)
           /\ s[1] = "content" /\ s[2][1] = "empty" => (Permits(word, s, places) <=> places = {})
           /\ s = Empty => (Permits(word, s, places) <=> places = {})
           /\ s = NotAllowed => ~ Permits(word, s, places)
PROOF
  <1> DEFINE m == Matches(word)
  <1>1. m[<<s, places>>] = MatchesBy(m, word, s, places)
    BY MatchesIs
  <1> HIDE DEF m
  <1>2. /\ Permits(word, s, places) <=> m[<<s, places>>]
        /\ \A x : Permits(word, x, places) <=> m[<<x, places>>]
    BY DEF Permits, m
  <1>3. CASE s[1] = "choice"
    <2>1. MatchesBy(m, word, s, places) <=> \E x \in s[2] : m[<<x, places>>]
      BY <1>3 DEF MatchesBy
    <2>2. Permits(word, s, places) <=> \E x \in s[2] : Permits(word, x, places)
      BY <1>1, <1>2, <2>1
    <2> QED
      BY <1>3, <2>2 DEF Empty, NotAllowed
  <1>4. CASE s[1] = "group"
    <2>1. MatchesBy(m, word, s, places) = InSequence(m, s[2], places)
      BY <1>4 DEF MatchesBy
    <2>2. Permits(word, s, places) <=> InSequence(m, s[2], places)
      BY <1>1, <1>2, <2>1
    <2> QED
      BY <1>4, <2>2 DEF Empty, NotAllowed, m
  <1>5. CASE s[1] = "interleave"
    <2>1. MatchesBy(m, word, s, places) = Interleaved(m, s[2], places)
      BY <1>5 DEF MatchesBy
    <2>2. Permits(word, s, places) <=> Interleaved(m, s[2], places)
      BY <1>1, <1>2, <2>1
    <2> QED
      BY <1>5, <2>2 DEF Empty, NotAllowed, m
  <1>6. CASE s[1] = "content" /\ s[2][1] \in Compounds
    <2>1. MatchesBy(m, word, s, places) = m[<<Unfolded(s[2]), places>>]
      BY <1>6 DEF MatchesBy, Compounds
    <2> QED
      BY <1>1, <1>2, <1>6, <2>1 DEF Empty, NotAllowed, Compounds
  <1>7. CASE s[1] = "content" /\ s[2][1] = "element"
    <2>1. MatchesBy(m, word, s, places) <=> \E i \in places : places = {i} /\ word[i] \in s[2][2]
      BY <1>7 DEF MatchesBy, Compounds
    <2> QED
      BY <1>1, <1>2, <1>7, <2>1 DEF Empty, NotAllowed, Compounds
  <1>8. CASE s[1] = "content" /\ s[2][1] = "many0"
    <2>1. MatchesBy(m, word, s, places) = InRuns(m, StateOf(s[2][2]), places)
      BY <1>8 DEF MatchesBy, Compounds
    <2>2. Permits(word, s, places) <=> InRuns(m, StateOf(s[2][2]), places)
      BY <1>1, <1>2, <2>1
    <2> QED
      BY <1>8, <2>2 DEF Empty, NotAllowed, Compounds, m
  <1>9. CASE s[1] = "content" /\ s[2][1] = "many1"
    <2>1. MatchesBy(m, word, s, places) <=>
            /\ InRuns(m, StateOf(s[2][2]), places)
            /\ places = {} => m[<<StateOf(s[2][2]), places>>]
      BY <1>9 DEF MatchesBy, Compounds
    <2>2. Permits(word, s, places) <=>
            /\ InRuns(m, StateOf(s[2][2]), places)
            /\ places = {} => Permits(word, StateOf(s[2][2]), places)
      BY <1>1, <1>2, <2>1
    <2> QED
      BY <1>9, <2>2 DEF Empty, NotAllowed, Compounds, m
  <1>10. CASE s[1] = "content" /\ s[2][1] = "optional"
    <2>1. MatchesBy(m, word, s, places) <=> places = {} \/ m[<<StateOf(s[2][2]), places>>]
      BY <1>10 DEF MatchesBy, Compounds
    <2> QED
      BY <1>1, <1>2, <1>10, <2>1 DEF Empty, NotAllowed, Compounds
  <1>11. CASE s[1] = "content" /\ s[2][1] = "text"
    <2>1. MatchesBy(m, word, s, places) <=> \A i \in places : word[i] = TextToken
      BY <1>11 DEF MatchesBy, Compounds
    <2> QED
      BY <1>1, <1>2, <1>11, <2>1 DEF Empty, NotAllowed, Compounds
  <1>12. CASE s[1] = "content" /\ s[2][1] = "empty"
    <2>1. MatchesBy(m, word, s, places) <=> places = {}
      BY <1>12 DEF MatchesBy, Compounds
    <2> QED
      BY <1>1, <1>2, <1>12, <2>1 DEF Empty, NotAllowed, Compounds
  <1>13. CASE s = Empty
    <2>1. MatchesBy(m, word, s, places) <=> places = {}
      BY <1>13 DEF MatchesBy, Empty
    <2> QED
      BY <1>1, <1>2, <1>13, <2>1 DEF Empty, NotAllowed
  <1>14. CASE s = NotAllowed
    <2>1. ~ MatchesBy(m, word, s, places)
      BY <1>14 DEF MatchesBy, Empty, NotAllowed
    <2> QED
      BY <1>1, <1>2, <1>14, <2>1 DEF Empty, NotAllowed
  <1>15. CASE s \notin {Empty, NotAllowed} /\ s[1] \notin {"choice", "group", "interleave"}
                /\ ~ (s[1] = "content" /\ s[2][1] \in Compounds \cup Wrappers \cup {"element", "text", "empty"})
    BY <1>15 DEF Compounds, Wrappers
  <1> QED
    BY <1>3, <1>4, <1>5, <1>6, <1>7, <1>8, <1>9, <1>10, <1>11, <1>12, <1>13, <1>14, <1>15
       DEF Compounds, Wrappers

\* What the states look like.
LEMMA StatesAre ==
    /\ Empty \in States /\ NotAllowed \in States
    /\ \A s \in States : IsState(s)
    /\ \A s \in States : \A part \in Parts(s) : part \in States
    /\ \A s \in States, name \in ContentNames : Step[<<s, name>>] \in States
  BY StatesAssumption DEF StatesAssumption

\* What the operands of each kind of state are.
LEMMA OperandsAreStates ==
    /\ \A s \in States : s[1] = "choice" => s[2] \subseteq States /\ s = <<"choice", s[2]>>
    /\ \A s \in States : s[1] = "group" => s[2] \in Seq(States) /\ s = <<"group", s[2]>>
    /\ \A s \in States : s[1] = "interleave" =>
          /\ s[2] \in [DOMAIN s[2] -> Nat \ {0}] /\ DOMAIN s[2] \subseteq States
          /\ s = <<"interleave", s[2]>>
    /\ \A s \in States : s[1] = "content" /\ s[2][1] \in Compounds => Unfolded(s[2]) \in States
    /\ \A s \in States : s[1] = "content" /\ s[2][1] \in Wrappers => StateOf(s[2][2]) \in States
    /\ \A s \in States : s[1] = "content" =>
          s[2][1] \in Compounds \cup Wrappers \cup {"element", "text", "empty"}
    /\ \A s \in States : s[1] \in Compounds \cup {"content"} \/ s \in {Empty, NotAllowed}
PROOF
  <1> SUFFICES ASSUME NEW s \in States
               PROVE  /\ s[1] = "choice" => s[2] \subseteq States /\ s = <<"choice", s[2]>>
                      /\ s[1] = "group" => s[2] \in Seq(States) /\ s = <<"group", s[2]>>
                      /\ s[1] = "interleave" =>
                            /\ s[2] \in [DOMAIN s[2] -> Nat \ {0}] /\ DOMAIN s[2] \subseteq States
                            /\ s = <<"interleave", s[2]>>
                      /\ s[1] = "content" /\ s[2][1] \in Compounds => Unfolded(s[2]) \in States
                      /\ s[1] = "content" /\ s[2][1] \in Wrappers => StateOf(s[2][2]) \in States
                      /\ s[1] = "content" =>
                            s[2][1] \in Compounds \cup Wrappers \cup {"element", "text", "empty"}
                      /\ s[1] \in Compounds \cup {"content"} \/ s \in {Empty, NotAllowed}
    OBVIOUS
  <1>1. IsState(s) /\ \A part \in Parts(s) : part \in States
    BY StatesAre
  <1>2. CASE s \in {Empty, NotAllowed}
    BY <1>2 DEF Empty, NotAllowed
  <1>3. CASE s = <<s[1], s[2]>> /\ s[1] = "choice"
    <2>1. Parts(s) = s[2]
      BY <1>3 DEF Parts
    <2> QED
      BY <1>1, <1>3, <2>1 DEF Compounds
  <1>4. CASE s = <<s[1], s[2]>> /\ s[1] = "group" /\ s[2] \in Seq(States)
    BY <1>4 DEF Compounds
  <1>5. CASE s = <<s[1], s[2]>> /\ s[1] = "interleave" /\ IsBag(s[2])
    BY <1>5 DEF Compounds, IsBag
  <1>6. CASE s = StateOf(s[2]) /\ s[2][1] \in Compounds \cup Wrappers \cup {"element", "text", "empty"}
    <2>1. s[1] = "content"
      BY <1>6 DEF StateOf
    <2>2. s[2][1] \in Compounds => Parts(s) = {Unfolded(s[2])}
      BY <2>1 DEF Parts, Compounds, Wrappers
    <2>3. s[2][1] \in Wrappers => Parts(s) = {StateOf(s[2][2])}
      BY <2>1 DEF Parts, Compounds, Wrappers
    <2> HIDE DEF Compounds
    <2> QED
      BY <1>1, <1>6, <2>1, <2>2, <2>3
  <1> QED
    BY <1>1, <1>2, <1>3, <1>4, <1>5, <1>6 DEF IsState

-----------------------------------------------------------------------------
\* A choice of states allows what one of them allows.
LEMMA PermitsChoice ==
    ASSUME NEW word, NEW places \in SUBSET DOMAIN word, NEW T, StateChoice(T) \in States,
           \A t \in T : t[1] = "choice" => t \in States
    PROVE  /\ T \subseteq States
           /\ Permits(word, StateChoice(T), places) <=> \E t \in T : Permits(word, t, places)
PROOF
  <1> DEFINE flat(t) == IF t[1] = "choice" THEN t[2] ELSE {t}
             all == (UNION {flat(t) : t \in T}) \ {NotAllowed}
  <1>1. /\ all = {} => StateChoice(T) = NotAllowed
        /\ \A x \in all : all = {x} => StateChoice(T) = x
        /\ all # {} /\ (\A x \in all : all # {x}) => StateChoice(T) = <<"choice", all>>
    BY DEF StateChoice, Only
  <1>2. \A x : x \in all <=> x # NotAllowed /\ \E t \in T : x \in flat(t)
    OBVIOUS
  <1>3. \A t \in T : /\ t[1] = "choice" => flat(t) = t[2]
                     /\ t[1] # "choice" => flat(t) = {t}
    OBVIOUS
  <1> HIDE DEF flat, all
  <1>4. all \subseteq States
    <2>1. CASE \E x \in all : all = {x}
      BY <1>1, <2>1
    <2>2. CASE all # {} /\ \A x \in all : all # {x}
      <3>1. StateChoice(T)[1] = "choice" /\ StateChoice(T)[2] = all
        BY <1>1, <2>2
      <3> QED
        BY <3>1, OperandsAreStates
    <2> QED
      BY <2>1, <2>2
  <1>5. Permits(word, StateChoice(T), places) <=> \E x \in all : Permits(word, x, places)
    <2>1. CASE all = {}
      BY <1>1, <2>1, StatesAre, PermitsCases
    <2>2. CASE \E x \in all : all = {x}
      <3>1. PICK x \in all : all = {x}
        BY <2>2
      <3>2. StateChoice(T) = x
        BY <1>1, <3>1
      <3> QED
        BY <3>1, <3>2
    <2>3. CASE all # {} /\ \A x \in all : all # {x}
      <3>1. StateChoice(T)[1] = "choice" /\ StateChoice(T)[2] = all
        BY <1>1, <2>3
      <3> QED
        BY <3>1, PermitsCases
    <2> QED
      BY <2>1, <2>2, <2>3
  <1>6. T \subseteq States
    <2> SUFFICES ASSUME NEW t \in T, t[1] # "choice" PROVE t \in States
      OBVIOUS
    <2>1. t = NotAllowed \/ t \in all
      BY <1>2, <1>3
    <2> QED
      BY <1>4, <2>1, StatesAre
  <1>7. ASSUME NEW t \in T
        PROVE  Permits(word, t, places) <=> \E x \in flat(t) : Permits(word, x, places)
    <2>1. CASE t[1] = "choice"
      BY <1>3, <1>6, <2>1, PermitsCases
    <2>2. CASE t[1] # "choice"
      BY <1>3, <2>2
    <2> QED
      BY <2>1, <2>2
  <1>8. ~ Permits(word, NotAllowed, places)
    BY StatesAre, PermitsCases
  <1> QED
    BY <1>2, <1>5, <1>6, <1>7, <1>8

\* What a state allows, its operands in a group allow one after another.
LEMMA PermitsSequence ==
    ASSUME NEW word, NEW s \in States, NEW places \in SUBSET DOMAIN word
    PROVE  /\ Sequence(s) \in Seq(States)
           /\ InSequence(Matches(word), Sequence(s), places) <=> Permits(word, s, places)
PROOF
  <1>1. CASE s = Empty
    <2>1. Sequence(s) = <<>>
      BY <1>1 DEF Sequence, Empty
    <2>2. Permits(word, s, places) <=> places = {}
      BY <1>1, PermitsCases
    <2>3. InSequence(Matches(word), <<>>, places) <=> places = {}
      BY SequenceOfNone
    <2> QED
      BY <2>1, <2>2, <2>3
  <1>2. CASE s[1] = "group"
    <2>1. Sequence(s) = s[2]
      BY <1>2 DEF Sequence, Empty
    <2>2. Permits(word, s, places) <=> InSequence(Matches(word), s[2], places)
      BY <1>2, PermitsCases
    <2>3. s[2] \in Seq(States)
      BY <1>2, OperandsAreStates
    <2> QED
      BY <2>1, <2>2, <2>3
  <1>3. CASE s # Empty /\ s[1] # "group"
    <2>1. Sequence(s) = <<s>>
      BY <1>3 DEF Sequence
    <2> QED
      BY <1>3, <2>1, SequenceOfOne DEF Permits
  <1> QED
    BY <1>1, <1>2, <1>3

\* The operands that a state is in an interleaving permit what it permits.
LEMMA PermitsOperands ==
    ASSUME NEW word, NEW s \in States, NEW places \in SUBSET DOMAIN word
    PROVE  /\ Operands(s) \in [DOMAIN Operands(s) -> Nat \ {0}]
           /\ DOMAIN Operands(s) \subseteq States
           /\ Interleaved(Matches(word), Operands(s), places) <=> Permits(word, s, places)
PROOF
  <1>1. CASE s = Empty
    <2>1. Operands(s) = EmptyBag
      BY <1>1 DEF Operands, Empty
    <2>2. Permits(word, s, places) <=> places = {}
      BY <1>1, PermitsCases
    <2>3. Interleaved(Matches(word), EmptyBag, places) <=> places = {}
      BY InterleavedOfNone
    <2>4. EmptyBag \in [DOMAIN EmptyBag -> Nat \ {0}] /\ DOMAIN EmptyBag \subseteq States
      BY DEF EmptyBag, SetToBag
    <2> QED
      BY <2>1, <2>2, <2>3, <2>4
  <1>2. CASE s[1] = "interleave"
    <2>1. Operands(s) = s[2]
      BY <1>2 DEF Operands, Empty
    <2>2. Permits(word, s, places) <=> Interleaved(Matches(word), s[2], places)
      BY <1>2, PermitsCases
    <2>3. s[2] \in [DOMAIN s[2] -> Nat \ {0}] /\ DOMAIN s[2] \subseteq States
      BY <1>2, OperandsAreStates
    <2> QED
      BY <2>1, <2>2, <2>3
  <1>3. CASE s # Empty /\ s[1] # "interleave"
    <2>1. Operands(s) = SetToBag({s})
      BY <1>3 DEF Operands
    <2>2. SetToBag({s}) \in [DOMAIN SetToBag({s}) -> Nat \ {0}] /\ DOMAIN SetToBag({s}) = {s}
      BY DEF SetToBag
    <2>3. Interleaved(Matches(word), SetToBag({s}), places) <=> Matches(word)[<<s, places>>]
      BY InterleavedOfOne
    <2> QED
      BY <2>1, <2>2, <2>3 DEF Permits
  <1> QED
    BY <1>1, <1>2, <1>3

\* A state before operands of a group takes the places before theirs.
LEMMA PermitsGroup ==
    ASSUME NEW word \in Words, NEW places \in SUBSET DOMAIN word,
           NEW s \in States, NEW operands \in Seq(States), StateGroup(s, operands) \in States
    PROVE  Permits(word, StateGroup(s, operands), places) <=>
             \E A : /\ First(A, places)
                    /\ Permits(word, s, A)
                    /\ InSequence(Matches(word), operands, places \ A)
PROOF
  <1> DEFINE sequence == Sequence(s) \o operands
             group == StateGroup(s, operands)
             m == Matches(word)
  <1>1. /\ s = NotAllowed => group = NotAllowed
        /\ s # NotAllowed /\ Len(sequence) = 0 => group = Empty
        /\ s # NotAllowed /\ Len(sequence) = 1 => group = sequence[1]
        /\ s # NotAllowed /\ Len(sequence) # 0 /\ Len(sequence) # 1 => group = <<"group", sequence>>
    BY DEF StateGroup
  <1>2. sequence \in Seq(States)
    BY PermitsSequence
  <1>3. \A A : First(A, places) => A \in SUBSET DOMAIN word
    BY DEF First
  <1>4. InSequence(m, sequence, places) <=>
          \E A : First(A, places) /\ Permits(word, s, A) /\ InSequence(m, operands, places \ A)
    <2>1. places \subseteq Nat
      BY DEF Words
    <2>2. Sequence(s) \in Seq(States)
      BY PermitsSequence
    <2>3. InSequence(m, sequence, places) <=>
            \E A : First(A, places) /\ InSequence(m, Sequence(s), A) /\ InSequence(m, operands, places \ A)
      <3> HIDE DEF m
      <3> QED
        BY <2>1, <2>2, SequenceOfBoth
    <2>4. \A A : First(A, places) => (InSequence(m, Sequence(s), A) <=> Permits(word, s, A))
      BY <1>3, PermitsSequence
    <2> HIDE DEF m, sequence
    <2> QED
      BY <2>3, <2>4
  <1> HIDE DEF sequence, group
  <1>5. CASE s = NotAllowed
    <2>1. ~ Permits(word, group, places)
      <3>1. group = NotAllowed
        BY <1>1, <1>5
      <3>2. ~ Permits(word, NotAllowed, places)
        BY StatesAre, PermitsCases
      <3> QED
        BY <3>1, <3>2
    <2>2. \A A : First(A, places) => ~ Permits(word, s, A)
      BY <1>3, <1>5, PermitsCases
    <2> QED
      BY <2>1, <2>2 DEF group
  <1>6. CASE s # NotAllowed
    <2>1. Permits(word, group, places) <=> InSequence(m, sequence, places)
      <3>1. CASE Len(sequence) = 0
        <4>1. sequence = <<>> /\ group = Empty
          BY <1>1, <1>2, <1>6, <3>1
        <4>2. Permits(word, group, places) <=> places = {}
          BY <4>1, StatesAre, PermitsCases
        <4>3. InSequence(m, <<>>, places) <=> places = {}
          BY SequenceOfNone
        <4> QED
          BY <4>1, <4>2, <4>3
      <3>2. CASE Len(sequence) = 1
        <4>1. sequence = <<sequence[1]>> /\ group = sequence[1]
          BY <1>1, <1>2, <1>6, <3>2
        <4>2. InSequence(m, <<sequence[1]>>, places) <=> m[<<sequence[1], places>>]
          BY SequenceOfOne
        <4> QED
          BY <4>1, <4>2 DEF Permits
      <3>3. CASE Len(sequence) # 0 /\ Len(sequence) # 1
        <4>1. group[1] = "group" /\ group[2] = sequence /\ group \in States
          BY <1>1, <1>6, <3>3 DEF group
        <4>2. Permits(word, group, places) <=> InSequence(m, group[2], places)
          BY <4>1, PermitsCases
        <4> QED
          BY <4>1, <4>2
      <3> QED
        BY <3>1, <3>2, <3>3
    <2> QED
      BY <1>4, <2>1 DEF group
  <1> QED
    BY <1>5, <1>6

\* A state among operands of an interleaving takes some places, and they the others.
LEMMA PermitsInterleave ==
    ASSUME NEW word, NEW places \in SUBSET DOMAIN word, NEW s \in States,
           NEW operands, operands \in [DOMAIN operands -> Nat \ {0}],
           StateInterleave(s, operands) \in States
    PROVE  Permits(word, StateInterleave(s, operands), places) <=>
             \E A \in SUBSET places :
                Permits(word, s, A) /\ Interleaved(Matches(word), operands, places \ A)
PROOF
  <1> DEFINE bag == Operands(s) (+) operands
             all == StateInterleave(s, operands)
             m == Matches(word)
  <1>1. /\ s = NotAllowed => all = NotAllowed
        /\ s # NotAllowed /\ bag = EmptyBag => all = Empty
        /\ \A x \in DOMAIN bag : s # NotAllowed /\ bag # EmptyBag /\ bag = SetToBag({x}) =>
              all = Only(DOMAIN bag)
        /\ s # NotAllowed /\ bag # EmptyBag /\ (\A x \in DOMAIN bag : bag # SetToBag({x})) =>
              all = <<"interleave", bag>>
    <2>1. \A x \in DOMAIN bag : bag # EmptyBag
      BY DEF EmptyBag, SetToBag
    <2> HIDE DEF bag
    <2> QED
      BY <2>1 DEF StateInterleave, bag
  <1>2. Interleaved(m, bag, places) <=>
          \E A \in SUBSET places : Permits(word, s, A) /\ Interleaved(m, operands, places \ A)
    <2>1. Operands(s) \in [DOMAIN Operands(s) -> Nat \ {0}]
      BY PermitsOperands
    <2>2. Interleaved(m, bag, places) <=>
            \E A \in SUBSET places :
               Interleaved(m, Operands(s), A) /\ Interleaved(m, operands, places \ A)
      <3> HIDE DEF m
      <3> QED
        BY <2>1, InterleavedOfBoth
    <2>3. \A A \in SUBSET places : Interleaved(m, Operands(s), A) <=> Permits(word, s, A)
      BY PermitsOperands
    <2> HIDE DEF m, bag
    <2> QED
      BY <2>2, <2>3
  <1> HIDE DEF bag, all
  <1>3. CASE s = NotAllowed
    <2>1. ~ Permits(word, all, places)
      BY <1>1, <1>3, StatesAre, PermitsCases
    <2>2. \A A \in SUBSET places : ~ Permits(word, s, A)
      BY <1>3, PermitsCases
    <2> QED
      BY <2>1, <2>2 DEF all
  <1>4. CASE s # NotAllowed
    <2>1. Permits(word, all, places) <=> Interleaved(m, bag, places)
      <3>1. CASE bag = EmptyBag
        <4>1. all = Empty
          BY <1>1, <1>4, <3>1
        <4>2. Permits(word, all, places) <=> places = {}
          BY <4>1, StatesAre, PermitsCases
        <4>3. Interleaved(m, EmptyBag, places) <=> places = {}
          BY InterleavedOfNone
        <4> QED
          BY <3>1, <4>2, <4>3
      <3>2. CASE bag # EmptyBag /\ \E x \in DOMAIN bag : bag = SetToBag({x})
        <4>1. PICK x \in DOMAIN bag : bag = SetToBag({x})
          BY <3>2
        <4>2. all = x
          <5>1. DOMAIN bag = {x}
            BY <4>1 DEF SetToBag
          <5> QED
            BY <1>1, <1>4, <3>2, <4>1, <5>1 DEF Only
        <4>3. Interleaved(m, SetToBag({x}), places) <=> m[<<x, places>>]
          BY InterleavedOfOne
        <4> QED
          BY <4>1, <4>2, <4>3 DEF Permits
      <3>3. CASE bag # EmptyBag /\ \A x \in DOMAIN bag : bag # SetToBag({x})
        <4>1. all[1] = "interleave" /\ all[2] = bag /\ all \in States
          BY <1>1, <1>4, <3>3 DEF all
        <4>2. Permits(word, all, places) <=> Interleaved(m, all[2], places)
          BY <4>1, PermitsCases
        <4> QED
          BY <4>1, <4>2
      <3> QED
        BY <3>1, <3>2, <3>3
    <2> QED
      BY <1>2, <2>1 DEF all
  <1> QED
    BY <1>3, <1>4

-----------------------------------------------------------------------------
\* Groups, interleavings and repetitions at no place.
LEMMA AtNoPlace ==
    ASSUME NEW m
    PROVE  /\ \A states : InSequence(m, states, {}) <=> \A i \in DOMAIN states : m[<<states[i], {}>>]
           /\ \A bag : bag \in [DOMAIN bag -> Nat \ {0}] =>
                 (Interleaved(m, bag, {}) <=> \A s \in DOMAIN bag : m[<<s, {}>>])
           /\ \A s : InRuns(m, s, {})
PROOF
  <1> DEFINE none == [i \in {} |-> i]
  <1>1. \A S : none \in [{} -> S]
    OBVIOUS
  <1>2. \A S : \A owner \in [{} -> S] : Ordered(owner) /\ \A x : Owned(owner, x) = {}
    BY DEF Ordered, Owned
  <1> HIDE DEF none
  <1>3. ASSUME NEW bag, bag \in [DOMAIN bag -> Nat \ {0}]
        PROVE  Interleaved(m, bag, {}) <=> \A s \in DOMAIN bag : m[<<s, {}>>]
    <2>1. Interleaved(m, bag, {}) <=> \A copy \in Copies(bag) : m[<<copy[1], {}>>]
      BY <1>1, <1>2 DEF Interleaved
    <2>2. ASSUME NEW s \in DOMAIN bag PROVE <<s, 1>> \in Copies(bag)
      <3>1. 1 \in 1 .. bag[s]
        BY <1>3
      <3> QED
        BY <3>1 DEF Copies
    <2>3. \A copy \in Copies(bag) : copy[1] \in DOMAIN bag
      BY DEF Copies
    <2> QED
      BY <2>1, <2>2, <2>3
  <1> QED
    BY <1>1, <1>2, <1>3 DEF InSequence, InRuns

\* A state is nullable if it allows no child at all.
LEMMA NullablePermitsNone ==
    ASSUME NEW word, NEW s \in States
    PROVE  IsNullable[s] <=> Permits(word, s, {})
PROOF
  <1> DEFINE good == {n \in Nat : \A x \in Shallow(n) : IsNullable[x] <=> Permits(word, x, {})}
             m == Matches(word)
  <1>1. 0 \in good
    BY PartsAreShallow
  <1>2. ASSUME NEW n \in Nat, n \in good PROVE n + 1 \in good
    <2> SUFFICES ASSUME NEW x \in Shallow(n + 1) PROVE IsNullable[x] <=> Permits(word, x, {})
      OBVIOUS
    <2>1. x \in States
      BY DEF Shallow
    <2>2. \A part \in Parts(x) : part \in States /\ (IsNullable[part] <=> Permits(word, part, {}))
      BY <1>2, PartsAreShallow
    <2>3. IsNullable[x] = NullableBy(IsNullable, x)
      BY <2>1, NullableIs
    <2>4. {} \in SUBSET DOMAIN word
      OBVIOUS
    <2> HIDE DEF good, m
    <2>5. CASE x[1] = "choice"
      <3>1. Parts(x) = x[2]
        BY <2>5 DEF Parts
      <3>2. NullableBy(IsNullable, x) <=> \E s1 \in x[2] : IsNullable[s1]
        BY <2>5 DEF NullableBy
      <3>3. Permits(word, x, {}) <=> \E s1 \in x[2] : Permits(word, s1, {})
        BY <2>1, <2>4, <2>5, PermitsCases
      <3> QED
        BY <2>2, <2>3, <3>1, <3>2, <3>3
    <2>6. CASE x[1] = "group"
      <3>1. Parts(x) = {x[2][i] : i \in DOMAIN x[2]}
        BY <2>6 DEF Parts, ToSet
      <3>2. NullableBy(IsNullable, x) <=> \A s1 \in Parts(x) : IsNullable[s1]
        BY <2>6 DEF NullableBy
      <3>3. Permits(word, x, {}) <=> InSequence(m, x[2], {})
        BY <2>1, <2>4, <2>6, PermitsCases DEF m
      <3>4. InSequence(m, x[2], {}) <=> \A i \in DOMAIN x[2] : m[<<x[2][i], {}>>]
        BY AtNoPlace
      <3>5. \A i \in DOMAIN x[2] : m[<<x[2][i], {}>>] <=> Permits(word, x[2][i], {})
        BY DEF Permits, m
      <3>6. \A i \in DOMAIN x[2] : x[2][i] \in Parts(x)
        BY <3>1
      <3>7. \A s1 \in Parts(x) : \E i \in DOMAIN x[2] : s1 = x[2][i]
        BY <3>1
      <3> QED
        BY <2>2, <2>3, <3>2, <3>3, <3>4, <3>5, <3>6, <3>7
    <2>7. CASE x[1] = "interleave"
      <3>1. Parts(x) = DOMAIN x[2]
        BY <2>7 DEF Parts
      <3>2. NullableBy(IsNullable, x) <=> \A s1 \in Parts(x) : IsNullable[s1]
        BY <2>7 DEF NullableBy
      <3>3. Permits(word, x, {}) <=> Interleaved(m, x[2], {})
        BY <2>1, <2>4, <2>7, PermitsCases DEF m
      <3>4. x[2] \in [DOMAIN x[2] -> Nat \ {0}]
        BY <2>1, <2>7, OperandsAreStates
      <3>5. Interleaved(m, x[2], {}) <=> \A s1 \in DOMAIN x[2] : m[<<s1, {}>>]
        BY <3>4, AtNoPlace
      <3>6. \A s1 : m[<<s1, {}>>] <=> Permits(word, s1, {})
        BY DEF Permits, m
      <3> QED
        BY <2>2, <2>3, <3>1, <3>2, <3>3, <3>5, <3>6
    <2>8. CASE x[1] = "content" /\ x[2][1] \in Compounds
      <3>1. Parts(x) = {Unfolded(x[2])}
        BY <2>8 DEF Parts, Compounds, Wrappers
      <3>2. NullableBy(IsNullable, x) <=> \A s1 \in Parts(x) : IsNullable[s1]
        BY <2>8 DEF NullableBy, Compounds
      <3>3. Permits(word, x, {}) <=> Permits(word, Unfolded(x[2]), {})
        BY <2>1, <2>4, <2>8, PermitsCases
      <3> QED
        BY <2>2, <2>3, <3>1, <3>2, <3>3
    <2>9. CASE x[1] = "content" /\ x[2][1] = "many1"
      <3>1. Parts(x) = {StateOf(x[2][2])}
        BY <2>9 DEF Parts, Compounds, Wrappers
      <3>2. NullableBy(IsNullable, x) <=> \A s1 \in Parts(x) : IsNullable[s1]
        BY <2>9 DEF NullableBy, Compounds
      <3>3. Permits(word, x, {}) <=> InRuns(m, StateOf(x[2][2]), {}) /\ Permits(word, StateOf(x[2][2]), {})
        BY <2>1, <2>4, <2>9, PermitsCases DEF m
      <3>4. InRuns(m, StateOf(x[2][2]), {})
        BY AtNoPlace
      <3> QED
        BY <2>2, <2>3, <3>1, <3>2, <3>3, <3>4
    <2>10. CASE x[1] = "content" /\ x[2][1] = "element"
      <3>1. ~ NullableBy(IsNullable, x)
        BY <2>10 DEF NullableBy, Compounds
      <3>2. ~ Permits(word, x, {})
        BY <2>1, <2>4, <2>10, PermitsCases
      <3> QED
        BY <2>3, <3>1, <3>2
    <2>11. CASE x[1] = "content" /\ x[2][1] \in {"many0", "optional", "text", "empty"}
      <3>1. NullableBy(IsNullable, x)
        BY <2>11 DEF NullableBy, Compounds
      <3>2. Permits(word, x, {})
        <4>1. InRuns(m, StateOf(x[2][2]), {})
          BY AtNoPlace
        <4>2. CASE x[2][1] = "many0"
          BY <2>1, <2>4, <2>11, <4>1, <4>2, PermitsCases DEF m
        <4>3. CASE x[2][1] = "optional"
          BY <2>1, <2>4, <2>11, <4>3, PermitsCases
        <4>4. CASE x[2][1] = "text"
          BY <2>1, <2>4, <2>11, <4>4, PermitsCases
        <4>5. CASE x[2][1] = "empty"
          BY <2>1, <2>4, <2>11, <4>5, PermitsCases
        <4> QED
          BY <2>11, <4>2, <4>3, <4>4, <4>5
      <3> QED
        BY <2>3, <3>1, <3>2
    <2>12. CASE x \in {Empty, NotAllowed}
      <3>1. NullableBy(IsNullable, x) <=> x = Empty
        BY <2>12 DEF NullableBy, Compounds, Empty, NotAllowed
      <3>2. Permits(word, x, {}) <=> x = Empty
        <4>1. CASE x = Empty
          BY <2>1, <2>4, <4>1, PermitsCases
        <4>2. CASE x = NotAllowed
          <5>1. x # Empty
            BY <4>2 DEF Empty, NotAllowed
          <5> QED
            BY <2>1, <2>4, <4>2, <5>1, PermitsCases
        <4> QED
          BY <2>12, <4>1, <4>2
      <3> QED
        BY <2>3, <3>1, <3>2
    <2> QED
      BY <2>1, <2>5, <2>6, <2>7, <2>8, <2>9, <2>10, <2>11, <2>12, OperandsAreStates
         DEF Compounds, Wrappers
  <1> HIDE DEF good
  <1>3. Depth[s] + 1 \in Nat /\ s \in Shallow(Depth[s] + 1)
    BY PartsAreShallow
  <1>4. Depth[s] + 1 \in good
    BY <1>1, <1>2, <1>3, OneByOne
  <1> QED
    BY <1>3, <1>4 DEF good

-----------------------------------------------------------------------------
Least(p, places) == p \in places /\ \A q \in places : p <= q

\* The state that a name leads to allows what may follow the name.
Derived(word, s, p) ==
    \A places \in SUBSET DOMAIN word :
        Least(p, places) =>
            (Permits(word, Step[<<s, word[p]>>], places \ {p}) <=> Permits(word, s, places))

\* The same of some of the places.
LEMMA DerivedAt ==
    ASSUME NEW word \in Words, NEW p, NEW places \in SUBSET DOMAIN word, Least(p, places),
           NEW A \in SUBSET (places \ {p}), NEW s, Derived(word, s, p)
    PROVE  Permits(word, Step[<<s, word[p]>>], A) <=> Permits(word, s, A \cup {p})
PROOF
  <1>1. A \cup {p} \in SUBSET DOMAIN word /\ Least(p, A \cup {p})
    BY DEF Least, Words
  <1>2. (A \cup {p}) \ {p} = A
    OBVIOUS
  <1> QED
    BY <1>1, <1>2 DEF Derived

\* Names at places of a word are names that content models mention.
LEMMA NamesAre ==
    ASSUME NEW word \in Words, NEW places \in SUBSET DOMAIN word, NEW p, Least(p, places)
    PROVE  word[p] \in ContentNames /\ p \in Nat /\ places \subseteq Nat
  BY DEF Words, Least

\* A group or an interleaving that is a choice is one of its operands.
LEMMA GroupForms ==
    ASSUME NEW s \in States, NEW operands \in Seq(States), StateGroup(s, operands)[1] = "choice"
    PROVE  StateGroup(s, operands) \in States
PROOF
  <1> DEFINE sequence == Sequence(s) \o operands
  <1>1. sequence \in Seq(States)
    BY PermitsSequence
  <1>2. Len(sequence) = 1 => sequence[1] \in States
    BY <1>1
  <1>3. /\ s = NotAllowed => StateGroup(s, operands) = NotAllowed
        /\ s # NotAllowed /\ Len(sequence) = 0 => StateGroup(s, operands) = Empty
        /\ s # NotAllowed /\ Len(sequence) = 1 => StateGroup(s, operands) = sequence[1]
        /\ s # NotAllowed /\ Len(sequence) # 0 /\ Len(sequence) # 1 =>
              StateGroup(s, operands) = <<"group", sequence>>
    BY DEF StateGroup
  <1> HIDE DEF sequence
  <1> QED
    BY <1>2, <1>3, StatesAre

\* The same of an interleaving.
LEMMA InterleaveForms ==
    ASSUME NEW s \in States, NEW operands, DOMAIN operands \subseteq States,
           StateInterleave(s, operands)[1] = "choice"
    PROVE  StateInterleave(s, operands) \in States
PROOF
  <1> DEFINE bag == Operands(s) (+) operands
  <1>1. DOMAIN bag \subseteq States
    BY PermitsOperands DEF (+)
  <1>2. \A x \in DOMAIN bag : bag = SetToBag({x}) => Only(DOMAIN bag) = x
    BY DEF SetToBag, Only
  <1>3. /\ s = NotAllowed => StateInterleave(s, operands) = NotAllowed
        /\ s # NotAllowed /\ bag = EmptyBag => StateInterleave(s, operands) = Empty
        /\ \A x \in DOMAIN bag : s # NotAllowed /\ bag # EmptyBag /\ bag = SetToBag({x}) =>
              StateInterleave(s, operands) = Only(DOMAIN bag)
        /\ s # NotAllowed /\ bag # EmptyBag /\ (\A x \in DOMAIN bag : bag # SetToBag({x})) =>
              StateInterleave(s, operands) = <<"interleave", bag>>
    <2>1. \A x \in DOMAIN bag : bag # EmptyBag
      BY DEF EmptyBag, SetToBag
    <2> HIDE DEF bag
    <2> QED
      BY <2>1 DEF StateInterleave, bag
  <1> HIDE DEF bag
  <1> QED
    BY <1>1, <1>2, <1>3, StatesAre

\* A choice is derived if its alternatives are.
LEMMA StepOfChoice ==
    ASSUME NEW word \in Words, NEW s \in States, NEW p, s[1] = "choice",
           \A part \in Parts(s) : Derived(word, part, p)
    PROVE  Derived(word, s, p)
PROOF
  <1> SUFFICES ASSUME NEW places \in SUBSET DOMAIN word, Least(p, places)
               PROVE  Permits(word, Step[<<s, word[p]>>], places \ {p}) <=> Permits(word, s, places)
    BY DEF Derived
  <1> DEFINE T == {Step[<<x, word[p]>>] : x \in s[2]}
  <1>1. word[p] \in ContentNames
    BY NamesAre
  <1>2. s[2] = Parts(s) /\ s[2] \subseteq States
    BY OperandsAreStates DEF Parts
  <1>3. Step[<<s, word[p]>>] = StateChoice(T)
    BY <1>1, StepIs DEF SteppingBy, StepBy
  <1>4. StateChoice(T) \in States /\ T \subseteq States
    BY <1>1, <1>2, <1>3, StatesAre
  <1>5. places \ {p} \in SUBSET DOMAIN word
    OBVIOUS
  <1>6. Permits(word, StateChoice(T), places \ {p}) <=> \E t \in T : Permits(word, t, places \ {p})
    <2> HIDE DEF T
    <2> QED
      BY <1>4, <1>5, PermitsChoice
  <1>7. \A x \in s[2] : Permits(word, Step[<<x, word[p]>>], places \ {p}) <=> Permits(word, x, places)
    BY <1>2 DEF Derived
  <1>8. Permits(word, s, places) <=> \E x \in s[2] : Permits(word, x, places)
    BY PermitsCases
  <1> QED
    BY <1>3, <1>6, <1>7, <1>8

\* A group is derived if its operands are: the first that takes a place may be behind
\* nullable ones.
LEMMA StepOfGroup ==
    ASSUME NEW word \in Words, NEW s \in States, NEW p, s[1] = "group",
           \A part \in Parts(s) : Derived(word, part, p)
    PROVE  Derived(word, s, p)
PROOF
  <1> SUFFICES ASSUME NEW places \in SUBSET DOMAIN word, Least(p, places)
               PROVE  Permits(word, Step[<<s, word[p]>>], places \ {p}) <=> Permits(word, s, places)
    BY DEF Derived
  <1> DEFINE seq == s[2]
             name == word[p]
             m == Matches(word)
             t(i) == StateGroup(Step[<<seq[i], name>>], Behind(seq, i))
             R == Reachable(IsNullable, seq)
             T == {t(i) : i \in R}
             rest == places \ {p}
  <1>1. name \in ContentNames /\ p \in places /\ places \subseteq Nat /\ rest \in SUBSET DOMAIN word
    BY NamesAre DEF Least
  <1>2. seq \in Seq(States) /\ \A i \in DOMAIN seq : seq[i] \in Parts(s) /\ seq[i] \in States
    BY OperandsAreStates DEF Parts, ToSet
  <1>3. Step[<<s, name>>] = StateChoice(T)
    BY <1>1, StepIs DEF SteppingBy, StepBy
  <1>4. \A i \in DOMAIN seq : Step[<<seq[i], name>>] \in States /\ Behind(seq, i) \in Seq(States)
    <2>1. ASSUME NEW i \in DOMAIN seq PROVE Behind(seq, i) \in Seq(States)
      <3>1. i + 1 \in Nat /\ Len(seq) \in Nat /\ 1 <= i + 1
        BY <1>2
      <3>2. \A k \in i + 1 .. Len(seq) : seq[k] \in States
        BY <1>2, <3>1
      <3> HIDE DEF seq
      <3> QED
        BY <1>2, <3>1, <3>2 DEF Behind
    <2> QED
      BY <1>1, <1>2, <2>1, StatesAre
  <1>5. StateChoice(T) \in States
    BY <1>1, <1>3, StatesAre
  <1>6. R \subseteq DOMAIN seq
    BY DEF Reachable
  <1>7. \A i \in R : t(i)[1] = "choice" => t(i) \in States
    BY <1>4, <1>6, GroupForms
  <1>8. /\ T \subseteq States
        /\ Permits(word, StateChoice(T), rest) <=> \E x \in T : Permits(word, x, rest)
    <2>1. \A x \in T : x[1] = "choice" => x \in States
      BY <1>7
    <2> HIDE DEF T, rest
    <2> QED
      BY <1>1, <1>5, <2>1, PermitsChoice
  <1>9. ASSUME NEW i \in R
        PROVE  Permits(word, t(i), rest) <=>
                 \E A : /\ First(A, rest)
                        /\ m[<<seq[i], A \cup {p}>>]
                        /\ InSequence(m, Behind(seq, i), rest \ A)
    <2>1. t(i) \in States
      BY <1>8
    <2>2. Permits(word, t(i), rest) <=>
            \E A : /\ First(A, rest)
                   /\ Permits(word, Step[<<seq[i], name>>], A)
                   /\ InSequence(m, Behind(seq, i), rest \ A)
      <3> HIDE DEF seq, name, rest
      <3> QED
        BY <1>1, <1>4, <1>6, <2>1, PermitsGroup
    <2>3. \A A : First(A, rest) =>
            (Permits(word, Step[<<seq[i], name>>], A) <=> m[<<seq[i], A \cup {p}>>])
      <3>1. Derived(word, seq[i], p)
        BY <1>2, <1>6
      <3>2. ASSUME NEW A, First(A, rest) PROVE A \in SUBSET (places \ {p})
        BY <3>2 DEF First
      <3>3. \A A : First(A, rest) =>
              (Permits(word, Step[<<seq[i], name>>], A) <=> Permits(word, seq[i], A \cup {p}))
        <4> HIDE DEF seq
        <4> QED
          BY <3>1, <3>2, DerivedAt
      <3> QED
        BY <3>3 DEF Permits
    <2> HIDE DEF t, m, rest, seq, name
    <2> QED
      BY <2>2, <2>3
  <1>10. Permits(word, s, places) <=>
           \E i \in DOMAIN seq :
              /\ \A j \in 1 .. i - 1 : m[<<seq[j], {}>>]
              /\ \E A : /\ First(A, rest)
                        /\ m[<<seq[i], A \cup {p}>>]
                        /\ InSequence(m, Behind(seq, i), rest \ A)
    <2>1. Permits(word, s, places) <=> InSequence(m, seq, places)
      BY PermitsCases
    <2>2. \A q \in places : p <= q
      BY DEF Least
    <2> HIDE DEF m, seq
    <2>3. InSequence(m, seq, places) <=> SequenceFrom(m, seq, p, places)
      BY <1>1, <1>2, <2>2, SequenceBegins
    <2> QED
      BY <2>1, <2>3 DEF SequenceFrom
  <1>11. ASSUME NEW i \in DOMAIN seq
         PROVE  i \in R <=> \A j \in 1 .. i - 1 : m[<<seq[j], {}>>]
    <2>1. \A j \in 1 .. i - 1 : seq[j] \in States
      BY <1>2
    <2>2. \A j \in 1 .. i - 1 : IsNullable[seq[j]] <=> m[<<seq[j], {}>>]
      BY <2>1, NullablePermitsNone DEF Permits
    <2> QED
      BY <2>2 DEF Reachable
  <1>12. Permits(word, StateChoice(T), rest) <=> \E i \in R : Permits(word, t(i), rest)
    <2> HIDE DEF t, R, rest
    <2> QED
      BY <1>8
  <1>13. Step[<<s, word[p]>>] = StateChoice(T) /\ rest = places \ {p}
    BY <1>3
  <1> HIDE DEF m, rest, seq, R, t, T
  <1> QED
    BY <1>6, <1>9, <1>10, <1>11, <1>12, <1>13

\* An interleaving is derived if its operands are.
LEMMA StepOfInterleave ==
    ASSUME NEW word \in Words, NEW s \in States, NEW p, s[1] = "interleave",
           \A part \in Parts(s) : Derived(word, part, p)
    PROVE  Derived(word, s, p)
PROOF
  <1> SUFFICES ASSUME NEW places \in SUBSET DOMAIN word, Least(p, places)
               PROVE  Permits(word, Step[<<s, word[p]>>], places \ {p}) <=> Permits(word, s, places)
    BY DEF Derived
  <1> DEFINE bag == s[2]
             name == word[p]
             m == Matches(word)
             t(x) == StateInterleave(Step[<<x, name>>], BagRemove(bag, x))
             T == {t(x) : x \in DOMAIN bag}
             rest == places \ {p}
  <1>1. name \in ContentNames /\ p \in places /\ rest \in SUBSET DOMAIN word
    BY NamesAre DEF Least
  <1>2. /\ bag \in [DOMAIN bag -> Nat \ {0}] /\ DOMAIN bag \subseteq States
        /\ DOMAIN bag = Parts(s)
    BY OperandsAreStates DEF Parts
  <1>3. Step[<<s, name>>] = StateChoice(T)
    BY <1>1, StepIs DEF SteppingBy, StepBy
  <1>4. ASSUME NEW x \in DOMAIN bag
        PROVE  /\ Step[<<x, name>>] \in States
               /\ DOMAIN BagRemove(bag, x) \subseteq States
               /\ BagRemove(bag, x) \in [DOMAIN BagRemove(bag, x) -> Nat \ {0}]
    <2>1. Step[<<x, name>>] \in States
      BY <1>1, <1>2, StatesAre
    <2>2. DOMAIN BagRemove(bag, x) \subseteq DOMAIN bag
      BY DEF BagRemove
    <2>3. BagRemove(bag, x) \in [DOMAIN BagRemove(bag, x) -> Nat \ {0}]
      <3> HIDE DEF bag
      <3>1. bag[x] \in Nat \ {0}
        BY <1>2
      <3>2. CASE bag[x] = 1
        BY <1>2, <3>2 DEF BagRemove
      <3>3. CASE bag[x] # 1
        <4>1. bag[x] - 1 \in Nat \ {0}
          BY <3>1, <3>3
        <4> QED
          BY <1>2, <3>3, <4>1 DEF BagRemove
      <3> QED
        BY <3>2, <3>3
    <2> QED
      BY <1>2, <2>1, <2>2, <2>3
  <1>5. StateChoice(T) \in States
    BY <1>1, <1>3, StatesAre
  <1>6. \A x \in DOMAIN bag : t(x)[1] = "choice" => t(x) \in States
    BY <1>4, InterleaveForms
  <1>7. /\ T \subseteq States
        /\ Permits(word, StateChoice(T), rest) <=> \E y \in T : Permits(word, y, rest)
    <2>1. \A y \in T : y[1] = "choice" => y \in States
      BY <1>6
    <2> HIDE DEF T, rest
    <2> QED
      BY <1>1, <1>5, <2>1, PermitsChoice
  <1>8. ASSUME NEW x \in DOMAIN bag
        PROVE  Permits(word, t(x), rest) <=>
                 \E A \in SUBSET rest :
                    /\ m[<<x, A \cup {p}>>]
                    /\ Interleaved(m, BagRemove(bag, x), rest \ A)
    <2>1. t(x) \in States
      BY <1>7
    <2>2. Permits(word, t(x), rest) <=>
            \E A \in SUBSET rest :
               /\ Permits(word, Step[<<x, name>>], A)
               /\ Interleaved(m, BagRemove(bag, x), rest \ A)
      <3> HIDE DEF bag, name, rest
      <3> QED
        BY <1>1, <1>4, <2>1, PermitsInterleave
    <2>3. \A A \in SUBSET rest :
            Permits(word, Step[<<x, name>>], A) <=> m[<<x, A \cup {p}>>]
      <3>1. Derived(word, x, p)
        BY <1>2
      <3>2. \A A \in SUBSET rest :
              Permits(word, Step[<<x, name>>], A) <=> Permits(word, x, A \cup {p})
        BY <3>1, DerivedAt
      <3> QED
        BY <3>2 DEF Permits
    <2> HIDE DEF t, m, rest, bag, name
    <2> QED
      BY <2>2, <2>3
  <1>9. Permits(word, s, places) <=>
          \E x \in DOMAIN bag : \E A \in SUBSET rest :
             /\ m[<<x, A \cup {p}>>]
             /\ Interleaved(m, BagRemove(bag, x), rest \ A)
    <2>1. Permits(word, s, places) <=> Interleaved(m, bag, places)
      BY PermitsCases
    <2> HIDE DEF m, bag
    <2>2. Interleaved(m, bag, places) <=> InterleavedFrom(m, bag, p, places)
      BY <1>1, <1>2, InterleavedBegins
    <2> QED
      BY <2>1, <2>2 DEF InterleavedFrom
  <1>10. Permits(word, StateChoice(T), rest) <=> \E x \in DOMAIN bag : Permits(word, t(x), rest)
    <2> HIDE DEF t, bag, rest
    <2> QED
      BY <1>7
  <1>11. Step[<<s, word[p]>>] = StateChoice(T) /\ rest = places \ {p}
    BY <1>3
  <1> HIDE DEF m, rest, bag, t, T
  <1> QED
    BY <1>8, <1>9, <1>10, <1>11

\* A repetition that has taken a first place takes the rest of its first run, and then
\* further runs.
LEMMA StepOfMany ==
    ASSUME NEW word \in Words, NEW places \in SUBSET DOMAIN word, NEW p, Least(p, places),
           NEW s, Derived(word, s, p),
           NEW o, o = Step[<<s, word[p]>>]
    PROVE  InRuns(Matches(word), s, places) <=>
             \E A : /\ First(A, places \ {p})
                    /\ Permits(word, o, A)
                    /\ InRuns(Matches(word), s, (places \ {p}) \ A)
PROOF
  <1> DEFINE m == Matches(word)
  <1>1. places \subseteq Nat /\ p \in places /\ \A q \in places : p <= q
    BY NamesAre DEF Least
  <1>2. \A A : First(A, places \ {p}) => (Permits(word, o, A) <=> m[<<s, A \cup {p}>>])
    <2>1. ASSUME NEW A, First(A, places \ {p})
          PROVE  Permits(word, Step[<<s, word[p]>>], A) <=> Permits(word, s, A \cup {p})
      BY <2>1, DerivedAt DEF First
    <2> QED
      BY <2>1 DEF Permits
  <1>3. InRuns(m, s, places) <=>
          \E A : /\ First(A, places \ {p})
                 /\ m[<<s, A \cup {p}>>]
                 /\ InRuns(m, s, (places \ {p}) \ A)
    <2> HIDE DEF m
    <2> QED
      BY <1>1, RunsBegin
  <1> HIDE DEF m
  <1>4. InRuns(m, s, places) <=>
          \E A : /\ First(A, places \ {p})
                 /\ Permits(word, o, A)
                 /\ InRuns(m, s, (places \ {p}) \ A)
    BY <1>2, <1>3
  <1> QED
    BY <1>4 DEF m

\* A repetition is derived if its operand is.
LEMMA StepOfMany0 ==
    ASSUME NEW word \in Words, NEW s \in States, NEW p, s[1] = "content", s[2][1] = "many0",
           \A part \in Parts(s) : Derived(word, part, p)
    PROVE  Derived(word, s, p)
PROOF
  <1> SUFFICES ASSUME NEW places \in SUBSET DOMAIN word, Least(p, places)
               PROVE  Permits(word, Step[<<s, word[p]>>], places \ {p}) <=> Permits(word, s, places)
    BY DEF Derived
  <1> DEFINE operand == StateOf(s[2][2])
             o == Step[<<operand, word[p]>>]
             m == Matches(word)
             rest == places \ {p}
  <1>1. word[p] \in ContentNames /\ rest \in SUBSET DOMAIN word
    BY NamesAre
  <1>2. operand \in States /\ Parts(s) = {operand} /\ o \in States
    <2>1. operand \in States /\ Parts(s) = {operand}
      BY OperandsAreStates DEF Parts, Compounds, Wrappers
    <2> QED
      BY <1>1, <2>1, StatesAre
  <1>3. Step[<<s, word[p]>>] = StateGroup(o, <<s>>)
    BY <1>1, StepIs DEF SteppingBy, StepBy, Compounds
  <1>4. <<s>> \in Seq(States) /\ StateGroup(o, <<s>>) \in States
    BY <1>1, <1>3, StatesAre
  <1>5. Permits(word, StateGroup(o, <<s>>), rest) <=>
          \E A : First(A, rest) /\ Permits(word, o, A) /\ InSequence(m, <<s>>, rest \ A)
    <2> HIDE DEF o, rest
    <2> QED
      BY <1>1, <1>2, <1>4, PermitsGroup
  <1>6. \A A \in SUBSET DOMAIN word : Permits(word, s, A) <=> InRuns(m, operand, A)
    BY PermitsCases
  <1>7. \A A : InSequence(m, <<s>>, rest \ A) <=> InRuns(m, operand, rest \ A)
    <2>1. \A A : InSequence(m, <<s>>, rest \ A) <=> Permits(word, s, rest \ A)
      BY SequenceOfOne DEF Permits
    <2>2. \A A : rest \ A \in SUBSET DOMAIN word
      OBVIOUS
    <2> HIDE DEF operand, m, rest
    <2> QED
      BY <1>6, <2>1, <2>2
  <1>8. InRuns(m, operand, places) <=>
          \E A : First(A, rest) /\ Permits(word, o, A) /\ InRuns(m, operand, rest \ A)
    <2>1. Derived(word, operand, p)
      BY <1>2
    <2> HIDE DEF operand
    <2> QED
      BY <2>1, StepOfMany
  <1>9. Step[<<s, word[p]>>] = StateGroup(o, <<s>>) /\ rest = places \ {p}
    BY <1>3
  <1> HIDE DEF m, operand, rest, o
  <1> QED
    BY <1>5, <1>6, <1>7, <1>8, <1>9

\* So is one of at least one run, behind the first of which it may end.
LEMMA StepOfMany1 ==
    ASSUME NEW word \in Words, NEW s \in States, NEW p, s[1] = "content", s[2][1] = "many1",
           \A part \in Parts(s) : Derived(word, part, p)
    PROVE  Derived(word, s, p)
PROOF
  <1> SUFFICES ASSUME NEW places \in SUBSET DOMAIN word, Least(p, places)
               PROVE  Permits(word, Step[<<s, word[p]>>], places \ {p}) <=> Permits(word, s, places)
    BY DEF Derived
  <1> DEFINE operand == StateOf(s[2][2])
             o == Step[<<operand, word[p]>>]
             more == StateChoice({Empty, s})
             m == Matches(word)
             rest == places \ {p}
  <1>1. word[p] \in ContentNames /\ rest \in SUBSET DOMAIN word
    BY NamesAre
  <1>2. operand \in States /\ Parts(s) = {operand} /\ o \in States
    <2>1. operand \in States /\ Parts(s) = {operand}
      BY OperandsAreStates DEF Parts, Compounds, Wrappers
    <2> QED
      BY <1>1, <2>1, StatesAre
  <1>3. Step[<<s, word[p]>>] = StateGroup(o, <<more>>) /\ StateGroup(o, <<more>>) \in States
    <2>1. Step[<<s, word[p]>>] = StateGroup(o, <<more>>)
      BY <1>1, StepIs DEF SteppingBy, StepBy, Compounds
    <2> QED
      BY <1>1, <2>1, StatesAre
  <1>4. Permits(word, s, places) <=> InRuns(m, operand, places)
    <2>1. places # {}
      BY DEF Least
    <2> QED
      BY <2>1, PermitsCases
  <1>5. InRuns(m, operand, places) <=>
          \E A : First(A, rest) /\ Permits(word, o, A) /\ InRuns(m, operand, rest \ A)
    <2>1. Derived(word, operand, p)
      BY <1>2
    <2> HIDE DEF operand
    <2> QED
      BY <2>1, StepOfMany
  <1>6. CASE o = NotAllowed
    <2>1. StateGroup(o, <<more>>) = NotAllowed
      BY <1>6 DEF StateGroup
    <2>2. ~ Permits(word, Step[<<s, word[p]>>], rest)
      BY <1>1, <1>3, <2>1, StatesAre, PermitsCases
    <2>3. \A A : First(A, rest) => ~ Permits(word, o, A)
      BY <1>1, <1>2, <1>6, PermitsCases DEF First
    <2>4. Step[<<s, word[p]>>] = Step[<<s, word[p]>>] /\ rest = places \ {p}
      OBVIOUS
    <2> HIDE DEF m, operand, rest, o
    <2> QED
      BY <1>4, <1>5, <2>2, <2>3, <2>4
  <1>7. CASE o # NotAllowed
    <2>1. more = <<"choice", {Empty, s}>>
      <3>1. Empty # s /\ Empty # NotAllowed /\ s # NotAllowed /\ Empty[1] # "choice" /\ s[1] # "choice"
        BY DEF Empty, NotAllowed
      <3>2. (UNION {IF x[1] = "choice" THEN x[2] ELSE {x} : x \in {Empty, s}}) \ {NotAllowed} = {Empty, s}
        BY <3>1
      <3>3. {Empty, s} # {} /\ \A x \in {Empty, s} : {Empty, s} # {x}
        BY <3>1
      <3> QED
        BY <3>2, <3>3 DEF StateChoice
    <2>2. more \in States
      <3> DEFINE sequence == Sequence(o) \o <<more>>
                 group == StateGroup(o, <<more>>)
      <3>1. /\ Len(sequence) = 0 => group = Empty
            /\ Len(sequence) = 1 => group = sequence[1]
            /\ Len(sequence) # 0 /\ Len(sequence) # 1 => group = <<"group", sequence>>
        <4> HIDE DEF more, o
        <4> QED
          BY <1>7 DEF StateGroup
      <3>2. /\ sequence \in Seq(States \cup {more}) /\ Len(sequence) \in Nat
            /\ Len(sequence) = Len(Sequence(o)) + 1 /\ sequence[Len(sequence)] = more
        <4>1. Sequence(o) \in Seq(States)
          BY <1>2, PermitsSequence
        <4> HIDE DEF more, o
        <4> QED
          BY <4>1
      <3>3. group \in States
        BY <1>3
      <3> HIDE DEF sequence, group, more, o
      <3>4. CASE Len(sequence) = 1
        BY <3>1, <3>2, <3>3, <3>4
      <3>5. CASE Len(sequence) # 1
        <4>1. Len(sequence) # 0
          <5>1. Len(Sequence(o)) \in Nat
            BY <1>2, PermitsSequence
          <5> QED
            BY <3>2, <5>1
        <4>2. group[1] = "group" /\ group[2] = sequence
          BY <3>1, <3>5, <4>1
        <4>3. sequence \in Seq(States)
          BY <3>3, <4>2, OperandsAreStates
        <4>4. Len(sequence) \in 1 .. Len(sequence)
          BY <3>2, <4>1
        <4> QED
          BY <3>2, <4>3, <4>4
      <3> QED
        BY <3>4, <3>5
    <2>3. \A A \in SUBSET DOMAIN word : Permits(word, more, A) <=> InRuns(m, operand, A)
      <3>1. \A A \in SUBSET DOMAIN word : Permits(word, s, A) <=>
              InRuns(m, operand, A) /\ (A = {} => Permits(word, operand, A))
        BY PermitsCases
      <3>2. \A A \in SUBSET DOMAIN word : Permits(word, Empty, A) <=> A = {}
        BY StatesAre, PermitsCases
      <3>3. InRuns(m, operand, {})
        BY AtNoPlace
      <3>4. more[1] = "choice" /\ more[2] = {Empty, s}
        BY <2>1
      <3>5. \A A \in SUBSET DOMAIN word : Permits(word, more, A) <=> \E x \in more[2] : Permits(word, x, A)
        <4> HIDE DEF more
        <4> QED
          BY <2>2, <3>4, PermitsCases
      <3> HIDE DEF more, m, operand
      <3> QED
        BY <3>1, <3>2, <3>3, <3>4, <3>5
    <2>4. \A A : InSequence(m, <<more>>, rest \ A) <=> InRuns(m, operand, rest \ A)
      <3>1. \A A : InSequence(m, <<more>>, rest \ A) <=> Permits(word, more, rest \ A)
        BY SequenceOfOne DEF Permits
      <3>2. \A A : rest \ A \in SUBSET DOMAIN word
        OBVIOUS
      <3> HIDE DEF operand, m, rest, more
      <3> QED
        BY <2>3, <3>1, <3>2
    <2>5. Permits(word, StateGroup(o, <<more>>), rest) <=>
            \E A : First(A, rest) /\ Permits(word, o, A) /\ InSequence(m, <<more>>, rest \ A)
      <3>1. <<more>> \in Seq(States)
        BY <2>2
      <3> HIDE DEF o, rest, more
      <3> QED
        BY <1>1, <1>2, <1>3, <3>1, PermitsGroup
    <2>6. rest = places \ {p}
      OBVIOUS
    <2> HIDE DEF m, operand, rest, o, more
    <2> QED
      BY <1>3, <1>4, <1>5, <2>4, <2>5, <2>6
  <1> QED
    BY <1>6, <1>7

\* A content model is derived if what it consists of is.
LEMMA StepOfContent ==
    ASSUME NEW word \in Words, NEW s \in States, NEW p, s[1] = "content",
           \A part \in Parts(s) : Derived(word, part, p)
    PROVE  Derived(word, s, p)
PROOF
  <1> SUFFICES ASSUME NEW places \in SUBSET DOMAIN word, Least(p, places)
               PROVE  Permits(word, Step[<<s, word[p]>>], places \ {p}) <=> Permits(word, s, places)
    BY DEF Derived
  <1>1. /\ word[p] \in ContentNames /\ places \ {p} \in SUBSET DOMAIN word
        /\ p \in places /\ places # {}
    BY NamesAre DEF Least
  <1>2. Step[<<s, word[p]>>] = SteppingBy(Step, s, word[p])
    BY <1>1, StepIs
  <1>3. Empty \in States /\ NotAllowed \in States
    BY StatesAre
  <1>4. ~ Permits(word, NotAllowed, places \ {p})
    BY <1>1, <1>3, PermitsCases
  <1>5. CASE s[2][1] \in Compounds
    <2>1. Parts(s) = {Unfolded(s[2])}
      BY <1>5 DEF Parts, Compounds, Wrappers
    <2>2. Step[<<s, word[p]>>] = Step[<<Unfolded(s[2]), word[p]>>]
      BY <1>2, <1>5 DEF SteppingBy, StepBy, Compounds
    <2>3. Permits(word, s, places) <=> Permits(word, Unfolded(s[2]), places)
      BY <1>5, PermitsCases
    <2>4. Derived(word, Unfolded(s[2]), p)
      BY <2>1
    <2> QED
      BY <2>2, <2>3, <2>4 DEF Derived
  <1>6. CASE s[2][1] = "many0"
    BY <1>6, StepOfMany0 DEF Derived
  <1>7. CASE s[2][1] = "many1"
    BY <1>7, StepOfMany1 DEF Derived
  <1>8. CASE s[2][1] = "optional"
    <2>1. Parts(s) = {StateOf(s[2][2])}
      BY <1>8 DEF Parts, Compounds, Wrappers
    <2>2. Step[<<s, word[p]>>] = Step[<<StateOf(s[2][2]), word[p]>>]
      BY <1>2, <1>8 DEF SteppingBy, StepBy, Compounds
    <2>3. Permits(word, s, places) <=> places = {} \/ Permits(word, StateOf(s[2][2]), places)
      BY <1>8, PermitsCases
    <2>4. Derived(word, StateOf(s[2][2]), p)
      BY <2>1
    <2> QED
      BY <1>1, <2>2, <2>3, <2>4 DEF Derived
  <1>9. CASE s[2][1] = "element"
    <2>1. Step[<<s, word[p]>>] = IF word[p] \in s[2][2] THEN Empty ELSE NotAllowed
      BY <1>2, <1>9 DEF SteppingBy, StepBy, Compounds
    <2>2. Permits(word, s, places) <=> \E i \in places : places = {i} /\ word[i] \in s[2][2]
      BY <1>9, PermitsCases
    <2>3. Permits(word, Empty, places \ {p}) <=> places \ {p} = {}
      BY <1>1, <1>3, PermitsCases
    <2>4. places \ {p} = {} <=> places = {p}
      BY <1>1
    <2>5. Permits(word, s, places) <=> places = {p} /\ word[p] \in s[2][2]
      BY <1>1, <2>2
    <2> QED
      BY <1>4, <2>1, <2>3, <2>4, <2>5
  <1>10. CASE s[2][1] = "text"
    <2>1. Step[<<s, word[p]>>] = IF word[p] = TextToken THEN s ELSE NotAllowed
      BY <1>2, <1>10 DEF SteppingBy, StepBy, Compounds
    <2>2. \A A \in SUBSET DOMAIN word : Permits(word, s, A) <=> \A i \in A : word[i] = TextToken
      BY <1>10, PermitsCases
    <2> QED
      BY <1>1, <1>4, <2>1, <2>2
  <1>11. CASE s[2][1] = "empty"
    <2>1. Step[<<s, word[p]>>] = NotAllowed
      BY <1>2, <1>11 DEF SteppingBy, StepBy, Compounds
    <2>2. Permits(word, s, places) <=> places = {}
      BY <1>11, PermitsCases
    <2> QED
      BY <1>1, <1>4, <2>1, <2>2
  <1> QED
    BY <1>5, <1>6, <1>7, <1>8, <1>9, <1>10, <1>11, OperandsAreStates DEF Wrappers

\* State::step leads from every state, by the name of the next child, to the state that
\* permits exactly what may follow this child.
THEOREM StepDerives ==
    ASSUME NEW word \in Words, NEW p, NEW s \in States
    PROVE  Derived(word, s, p)
PROOF
  <1> DEFINE good == {n \in Nat : \A x \in Shallow(n) : Derived(word, x, p)}
  <1>1. 0 \in good
    BY PartsAreShallow
  <1>2. ASSUME NEW n \in Nat, n \in good PROVE n + 1 \in good
    <2> SUFFICES ASSUME NEW x \in Shallow(n + 1) PROVE Derived(word, x, p)
      OBVIOUS
    <2>1. x \in States
      BY DEF Shallow
    <2>2. \A part \in Parts(x) : Derived(word, part, p)
      BY <1>2, PartsAreShallow
    <2> HIDE DEF good
    <2>3. CASE x[1] = "choice"
      BY <2>1, <2>2, <2>3, StepOfChoice
    <2>4. CASE x[1] = "group"
      BY <2>1, <2>2, <2>4, StepOfGroup
    <2>5. CASE x[1] = "interleave"
      BY <2>1, <2>2, <2>5, StepOfInterleave
    <2>6. CASE x[1] = "content"
      BY <2>1, <2>2, <2>6, StepOfContent
    <2>7. CASE x \in {Empty, NotAllowed}
      <3> SUFFICES ASSUME NEW places \in SUBSET DOMAIN word, Least(p, places)
                   PROVE  Permits(word, Step[<<x, word[p]>>], places \ {p}) <=> Permits(word, x, places)
        BY DEF Derived
      <3>1. word[p] \in ContentNames /\ places \ {p} \in SUBSET DOMAIN word /\ places # {}
        BY NamesAre DEF Least
      <3>2. Step[<<x, word[p]>>] = NotAllowed
        <4>1. Step[<<x, word[p]>>] = SteppingBy(Step, x, word[p])
          BY <2>1, <3>1, StepIs
        <4>2. x[1] = "empty" \/ x[1] = "notAllowed"
          BY <2>7 DEF Empty, NotAllowed
        <4> QED
          BY <4>1, <4>2 DEF SteppingBy, StepBy
      <3>3. ~ Permits(word, NotAllowed, places \ {p})
        BY <3>1, StatesAre, PermitsCases
      <3>4. ~ Permits(word, x, places)
        <4>1. CASE x = Empty
          BY <2>1, <3>1, <4>1, PermitsCases
        <4>2. CASE x = NotAllowed
          BY <2>1, <4>2, PermitsCases
        <4> QED
          BY <2>7, <4>1, <4>2
      <3> QED
        BY <3>2, <3>3, <3>4
    <2> QED
      BY <2>1, <2>3, <2>4, <2>5, <2>6, <2>7, OperandsAreStates DEF Compounds
  <1> HIDE DEF good
  <1>3. Depth[s] + 1 \in Nat /\ s \in Shallow(Depth[s] + 1)
    BY PartsAreShallow
  <1>4. Depth[s] + 1 \in good
    BY <1>1, <1>2, <1>3, OneByOne
  <1> QED
    BY <1>3, <1>4 DEF good

-----------------------------------------------------------------------------
\* What becomes of the first children of an element, one after another.
PlacedTo(model, children, f, n) ==
    f = [i \in 0 .. n |-> IF i = 0 THEN [state |-> StateOf(model), misplaced |-> {}]
                          ELSE Place(f[i - 1], children[i])]

\* There is such a function, and ValidateChildren gives its last value.
LEMMA PlacedToAny ==
    ASSUME NEW model, NEW children, NEW n \in Nat
    PROVE  \E f : PlacedTo(model, children, f, n)
PROOF
  <1> DEFINE first == [state |-> StateOf(model), misplaced |-> {}]
             good == {k \in Nat : \E f : PlacedTo(model, children, f, k)}
  <1>1. 0 \in good
    <2>1. PlacedTo(model, children, [i \in {0} |-> first], 0)
      <3>1. 0 .. 0 = {0}
        OBVIOUS
      <3> QED
        BY <3>1 DEF PlacedTo
    <2> QED
      BY <2>1
  <1>2. ASSUME NEW k \in Nat, k \in good PROVE k + 1 \in good
    <2>1. PICK f : PlacedTo(model, children, f, k)
      BY <1>2
    <2> DEFINE g == [i \in 0 .. k + 1 |-> IF i = 0 THEN first ELSE Place(f[i - 1], children[i])]
    <2>2. \A i \in 0 .. k : g[i] = f[i]
      <3>1. \A i \in 0 .. k : f[i] = IF i = 0 THEN first ELSE Place(f[i - 1], children[i])
        BY <2>1 DEF PlacedTo
      <3>2. \A i \in 0 .. k : i \in 0 .. k + 1
        OBVIOUS
      <3> HIDE DEF first
      <3> QED
        BY <3>1, <3>2
    <2>3. \A i \in 0 .. k + 1 : i # 0 => i - 1 \in 0 .. k
      OBVIOUS
    <2>4. g = [i \in 0 .. k + 1 |-> IF i = 0 THEN first ELSE Place(g[i - 1], children[i])]
      <3>1. \A i \in 0 .. k + 1 : i # 0 => Place(g[i - 1], children[i]) = Place(f[i - 1], children[i])
        BY <2>2, <2>3
      <3> HIDE DEF first
      <3> QED
        BY <3>1
    <2> HIDE DEF g
    <2>5. PlacedTo(model, children, g, k + 1)
      BY <2>4 DEF PlacedTo
    <2> QED
      BY <2>5
  <1> HIDE DEF good
  <1>3. n \in good
    BY <1>1, <1>2, OneByOne
  <1> QED
    BY <1>3 DEF good

LEMMA ValidateChildrenIs ==
    ASSUME NEW model, NEW children, Len(children) \in Nat
    PROVE  \E f : /\ PlacedTo(model, children, f, Len(children))
                  /\ ValidateChildren(model, children) = f[Len(children)]
PROOF
  <1> DEFINE F == CHOOSE f : PlacedTo(model, children, f, Len(children))
  <1>1. PlacedTo(model, children, F, Len(children))
    BY PlacedToAny
  <1>2. ValidateChildren(model, children) = F[Len(children)]
    BY DEF ValidateChildren, PlacedTo
  <1> QED
    BY <1>1, <1>2

-----------------------------------------------------------------------------
\* The children of a word, each of which may be exempt.
ChildrenOf(word, exempt) == [i \in DOMAIN word |-> <<word[i], exempt[i]>>]

\* The places up to n are kept or left out: a child is left out if it cannot follow the kept
\* ones before it, whatever comes after it, and then it is misplaced unless exempt.
Left(word, kept, n) == (1 .. n) \ kept
Later(word, n) == n + 1 .. Len(word)
Before(kept, i) == kept \cap (1 .. i - 1)

LeftOutRightly(word, state, kept, n) ==
    \A i \in Left(word, kept, n) : \A Q \in SUBSET Later(word, i) :
        ~ Permits(word, state, Before(kept, i) \cup {i} \cup Q)

Misplaced(word, exempt, kept, n) == {word[i] : i \in {j \in Left(word, kept, n) : ~ exempt[j]}}

PlacedRightly(word, exempt, state, kept, placed, n) ==
    /\ kept \subseteq 1 .. n
    /\ placed = [state |-> placed.state, misplaced |-> Misplaced(word, exempt, kept, n)]
    /\ placed.state \in States
    /\ \A Q \in SUBSET Later(word, n) :
          Permits(word, placed.state, Q) <=> Permits(word, state, kept \cup Q)
    /\ LeftOutRightly(word, state, kept, n)

\* Stepping by one more child places it rightly.
LEMMA PlaceRightly ==
    ASSUME NEW word \in Words, NEW exempt \in [DOMAIN word -> BOOLEAN], NEW state \in States,
           NEW n \in Nat, n < Len(word), NEW kept, NEW placed,
           PlacedRightly(word, exempt, state, kept, placed, n)
    PROVE  \E more : PlacedRightly(word, exempt, state, more,
                                   Place(placed, <<word[n + 1], exempt[n + 1]>>), n + 1)
PROOF
  <1> DEFINE p == n + 1
             next == Step[<<placed.state, word[p]>>]
             after == Place(placed, <<word[p], exempt[p]>>)
  <1>1. Len(word) \in Nat /\ p \in Nat /\ DOMAIN word = 1 .. Len(word) /\ p \in DOMAIN word
    BY DEF Words
  <1>2. word[p] \in ContentNames /\ exempt[p] \in BOOLEAN
    BY <1>1 DEF Words
  <1>3. /\ kept \subseteq 1 .. n /\ placed.state \in States /\ next \in States
        /\ placed = [state |-> placed.state, misplaced |-> Misplaced(word, exempt, kept, n)]
        /\ p \notin kept
    BY <1>2, StatesAre DEF PlacedRightly
  <1>4. \A Q \in SUBSET Later(word, p) : {p} \cup Q \in SUBSET Later(word, n) /\ Q \in SUBSET Later(word, n)
    BY <1>1 DEF Later
  <1>5. ASSUME NEW Q \in SUBSET Later(word, p)
        PROVE  Permits(word, next, Q) <=> Permits(word, state, kept \cup {p} \cup Q)
    <2>1. {p} \cup Q \in SUBSET DOMAIN word /\ Least(p, {p} \cup Q) /\ ({p} \cup Q) \ {p} = Q
      BY <1>1 DEF Later, Least
    <2>2. Permits(word, next, Q) <=> Permits(word, placed.state, {p} \cup Q)
      <3>1. Derived(word, placed.state, p)
        BY <1>3, StepDerives
      <3> HIDE DEF p
      <3> QED
        BY <2>1, <3>1 DEF Derived
    <2>3. Permits(word, placed.state, {p} \cup Q) <=> Permits(word, state, kept \cup ({p} \cup Q))
      BY <1>4 DEF PlacedRightly
    <2>4. kept \cup ({p} \cup Q) = kept \cup {p} \cup Q
      OBVIOUS
    <2> QED
      BY <2>2, <2>3, <2>4
  <1>6. \A x \in 1 .. p : x \in 1 .. n \/ x = p
    OBVIOUS
  <1>7. \A x \in 1 .. n : x \in 1 .. p /\ x # p
    OBVIOUS
  <1>8. CASE next # NotAllowed
    <2> DEFINE more == kept \cup {p}
    <2>1. after = [placed EXCEPT !.state = next]
      BY <1>8 DEF Place
    <2>2. after.state = next /\ after.misplaced = placed.misplaced
          /\ after = [state |-> next, misplaced |-> placed.misplaced]
      BY <1>3, <2>1
    <2>3. Left(word, more, p) = Left(word, kept, n)
      BY <1>6, <1>7 DEF Left
    <2>4. Misplaced(word, exempt, more, p) = Misplaced(word, exempt, kept, n)
      BY <2>3 DEF Misplaced
    <2>5. more \subseteq 1 .. p
      BY <1>3, <1>7
    <2>6. LeftOutRightly(word, state, more, p)
      <3> SUFFICES ASSUME NEW i \in Left(word, more, p), NEW Q \in SUBSET Later(word, i)
                   PROVE  ~ Permits(word, state, Before(more, i) \cup {i} \cup Q)
        BY DEF LeftOutRightly
      <3>1. i \in Left(word, kept, n)
        BY <2>3
      <3>2. Before(more, i) = Before(kept, i)
        BY <3>1 DEF Before, Left
      <3> QED
        BY <3>1, <3>2 DEF PlacedRightly, LeftOutRightly
    <2>7. PlacedRightly(word, exempt, state, more, after, p)
      <3>1. \A Q \in SUBSET Later(word, p) :
              Permits(word, after.state, Q) <=> Permits(word, state, more \cup Q)
        BY <1>5, <2>2
      <3>2. after = [state |-> after.state, misplaced |-> Misplaced(word, exempt, more, p)]
        <4>1. placed.misplaced = Misplaced(word, exempt, kept, n)
          BY <1>3
        <4> HIDE DEF after
        <4> QED
          BY <2>2, <2>4, <4>1
      <3> HIDE DEF after, more, p
      <3> QED
        BY <1>3, <2>2, <2>5, <2>6, <3>1, <3>2 DEF PlacedRightly
    <2> QED
      BY <2>7
  <1>9. CASE next = NotAllowed
    <2>1. after = IF exempt[p] THEN placed
                  ELSE [placed EXCEPT !.misplaced = @ \cup {word[p]}]
      BY <1>2, <1>9 DEF Place
    <2>2. Left(word, kept, p) = Left(word, kept, n) \cup {p}
      BY <1>3, <1>6, <1>7 DEF Left
    <2>3. Misplaced(word, exempt, kept, p) =
            IF exempt[p] THEN Misplaced(word, exempt, kept, n)
            ELSE Misplaced(word, exempt, kept, n) \cup {word[p]}
      <3> HIDE DEF p
      <3> QED
        BY <1>2, <2>2 DEF Misplaced
    <2>4. after = [state |-> placed.state, misplaced |-> Misplaced(word, exempt, kept, p)]
      <3> HIDE DEF after, p
      <3>1. CASE exempt[p]
        BY <1>3, <2>1, <2>3, <3>1
      <3>2. CASE ~ exempt[p]
        <4>1. after = [placed EXCEPT !.misplaced = placed.misplaced \cup {word[p]}]
          BY <2>1, <3>2
        <4>2. placed.misplaced = Misplaced(word, exempt, kept, n)
          BY <1>3
        <4>3. Misplaced(word, exempt, kept, p) = placed.misplaced \cup {word[p]}
          BY <2>3, <3>2, <4>2
        <4>4. after = [state |-> placed.state, misplaced |-> placed.misplaced \cup {word[p]}]
          BY <1>3, <4>1
        <4> QED
          BY <4>3, <4>4
      <3> QED
        BY <3>1, <3>2
    <2>5. kept \subseteq 1 .. p
      BY <1>3, <1>7
    <2>6. LeftOutRightly(word, state, kept, p)
      <3> SUFFICES ASSUME NEW i \in Left(word, kept, p), NEW Q \in SUBSET Later(word, i)
                   PROVE  ~ Permits(word, state, Before(kept, i) \cup {i} \cup Q)
        BY DEF LeftOutRightly
      <3>1. CASE i \in Left(word, kept, n)
        BY <3>1 DEF PlacedRightly, LeftOutRightly
      <3>2. CASE i = p
        <4>1. Before(kept, i) = kept
          BY <1>3, <3>2 DEF Before
        <4>2. ~ Permits(word, NotAllowed, Q)
          <5>1. Q \in SUBSET DOMAIN word
            BY <1>1, <3>2 DEF Later
          <5> QED
            BY <5>1, StatesAre, PermitsCases
        <4> QED
          BY <1>5, <1>9, <3>2, <4>1, <4>2
      <3> QED
        BY <2>2, <3>1, <3>2
    <2>7. PlacedRightly(word, exempt, state, kept, after, p)
      <3>1. \A Q \in SUBSET Later(word, p) :
              Permits(word, placed.state, Q) <=> Permits(word, state, kept \cup Q)
        BY <1>4 DEF PlacedRightly
      <3>2. after.state = placed.state
        BY <2>4
      <3> HIDE DEF after, p
      <3> QED
        BY <1>3, <2>4, <2>5, <2>6, <3>1, <3>2 DEF PlacedRightly
    <2> QED
      BY <2>7
  <1> QED
    BY <1>8, <1>9

\* ValidateChildren keeps some of the children.  A child is left out only if the content
\* model has no place for it behind the kept ones before it, whatever comes after it; those
\* left out are misplaced, but for exempt ones; and the state in the end is nullable exactly
\* when the content model permits the kept ones.
THEOREM ChildrenPlaced ==
    ASSUME NEW model, StateOf(model) \in States,
           NEW word \in Words, NEW exempt \in [DOMAIN word -> BOOLEAN]
    PROVE  LET placed == ValidateChildren(model, ChildrenOf(word, exempt))
           IN  \E kept \in SUBSET DOMAIN word :
                 /\ placed.misplaced = {word[i] : i \in {j \in DOMAIN word \ kept : ~ exempt[j]}}
                 /\ IsNullable[placed.state] <=> Permits(word, StateOf(model), kept)
                 /\ LeftOutRightly(word, StateOf(model), kept, Len(word))
PROOF
  <1> DEFINE children == ChildrenOf(word, exempt)
             state == StateOf(model)
             n == Len(word)
  <1>1. n \in Nat /\ DOMAIN word = 1 .. n
    BY DEF Words
  <1>2. Len(children) = n /\ \A i \in 1 .. n : children[i] = <<word[i], exempt[i]>>
    <2>1. children \in Seq(ContentNames \X BOOLEAN) /\ Len(children) = n
      <3>1. DOMAIN children = 1 .. n
        BY <1>1 DEF ChildrenOf
      <3>2. \A i \in 1 .. n : children[i] \in ContentNames \X BOOLEAN
        BY <1>1 DEF ChildrenOf, Words
      <3>3. children = [i \in 1 .. n |-> children[i]]
        BY <1>1 DEF ChildrenOf
      <3>4. children \in [1 .. n -> ContentNames \X BOOLEAN]
        <4> HIDE DEF children, n
        <4> QED
          BY <3>1, <3>2, <3>3
      <3> HIDE DEF children, n
      <3> QED
        BY <1>1, <3>1, <3>4, LenProperties
    <2> QED
      BY <1>1, <2>1 DEF ChildrenOf
  <1>3. PICK f : PlacedTo(model, children, f, n) /\ ValidateChildren(model, children) = f[n]
    <2> HIDE DEF children, n
    <2> QED
      BY <1>1, <1>2, ValidateChildrenIs
  <1> DEFINE good == {k \in Nat : k <= n => \E kept : PlacedRightly(word, exempt, state, kept, f[k], k)}
  <1>4. 0 \in good
    <2>1. f[0] = [state |-> state, misplaced |-> {}]
      BY <1>1, <1>3 DEF PlacedTo
    <2>2. Left(word, {}, 0) = {} /\ Misplaced(word, exempt, {}, 0) = {}
      BY DEF Left, Misplaced
    <2>3. PlacedRightly(word, exempt, state, {}, f[0], 0)
      <3>1. LeftOutRightly(word, state, {}, 0)
        BY <2>2 DEF LeftOutRightly
      <3>2. \A Q : {} \cup Q = Q
        OBVIOUS
      <3> HIDE DEF state
      <3> QED
        BY <2>1, <2>2, <3>1, <3>2 DEF PlacedRightly, state
    <2> QED
      BY <2>3
  <1>5. ASSUME NEW k \in Nat, k \in good PROVE k + 1 \in good
    <2> SUFFICES ASSUME k + 1 <= n
                 PROVE  \E kept : PlacedRightly(word, exempt, state, kept, f[k + 1], k + 1)
      OBVIOUS
    <2>1. k < n /\ k <= n /\ k + 1 \in 1 .. n
      BY <1>1
    <2>2. PICK kept : PlacedRightly(word, exempt, state, kept, f[k], k)
      BY <1>5, <2>1
    <2>3. f[k + 1] = Place(f[k], <<word[k + 1], exempt[k + 1]>>)
      <3>1. k + 1 \in 0 .. n /\ k + 1 # 0 /\ k + 1 - 1 = k
        BY <1>1, <2>1
      <3>2. f[k + 1] = Place(f[k + 1 - 1], children[k + 1])
        <4> HIDE DEF children, n
        <4>1. \A i \in 0 .. n : i # 0 => f[i] = Place(f[i - 1], children[i])
          BY <1>3 DEF PlacedTo
        <4> HIDE DEF PlacedTo
        <4> QED
          BY <3>1, <4>1
      <3> HIDE DEF children, n
      <3> QED
        BY <1>2, <2>1, <3>1, <3>2
    <2> HIDE DEF state, good
    <2>4. state \in States /\ k < Len(word)
      BY <2>1 DEF state
    <2> QED
      BY <2>2, <2>3, <2>4, PlaceRightly
  <1> HIDE DEF good
  <1>6. n \in good
    BY <1>1, <1>4, <1>5, OneByOne
  <1>7. PICK kept : PlacedRightly(word, exempt, state, kept, f[n], n)
    BY <1>1, <1>6 DEF good
  <1>8. IsNullable[f[n].state] <=> Permits(word, state, kept)
    <2>1. f[n].state \in States
      BY <1>7 DEF PlacedRightly
    <2>2. IsNullable[f[n].state] <=> Permits(word, f[n].state, {})
      BY <2>1, NullablePermitsNone
    <2>3. Permits(word, f[n].state, {}) <=> Permits(word, state, kept \cup {})
      BY <1>7 DEF PlacedRightly
    <2>4. kept \cup {} = kept
      OBVIOUS
    <2> QED
      BY <2>2, <2>3, <2>4
  <1>9. /\ kept \in SUBSET DOMAIN word
        /\ f[n].misplaced = {word[i] : i \in {j \in DOMAIN word \ kept : ~ exempt[j]}}
        /\ LeftOutRightly(word, state, kept, n)
    <2>1. f[n].misplaced = Misplaced(word, exempt, kept, n)
      BY <1>7 DEF PlacedRightly
    <2>2. Misplaced(word, exempt, kept, n) = {word[i] : i \in {j \in DOMAIN word \ kept : ~ exempt[j]}}
      BY <1>1 DEF Misplaced, Left
    <2>3. kept \subseteq 1 .. n /\ LeftOutRightly(word, state, kept, n)
      BY <1>7 DEF PlacedRightly
    <2> QED
      BY <1>1, <2>1, <2>2, <2>3
  <1> HIDE DEF children, state, n
  <1> QED
    BY <1>3, <1>8, <1>9 DEF children, state, n

\* Children none of which is exempt are accepted exactly when the content model permits
\* them.
THEOREM AcceptsWhatIsPermitted ==
    ASSUME NEW model, StateOf(model) \in States, NEW word \in Words
    PROVE  Accepts(model, ChildrenOf(word, [i \in DOMAIN word |-> FALSE]))
             <=> Permits(word, StateOf(model), DOMAIN word)
PROOF
  <1> DEFINE exempt == [i \in DOMAIN word |-> FALSE]
             placed == ValidateChildren(model, ChildrenOf(word, exempt))
             state == StateOf(model)
  <1>1. exempt \in [DOMAIN word -> BOOLEAN] /\ \A i \in DOMAIN word : ~ exempt[i]
    OBVIOUS
  <1> HIDE DEF exempt
  <1>2. PICK kept \in SUBSET DOMAIN word :
          /\ placed.misplaced = {word[i] : i \in {j \in DOMAIN word \ kept : ~ exempt[j]}}
          /\ IsNullable[placed.state] <=> Permits(word, state, kept)
          /\ LeftOutRightly(word, state, kept, Len(word))
    BY <1>1, ChildrenPlaced
  <1>3. placed.misplaced = {} <=> kept = DOMAIN word
    <2>1. placed.misplaced = {} <=> \A j \in DOMAIN word \ kept : exempt[j]
      BY <1>2
    <2> HIDE DEF placed
    <2>2. kept = DOMAIN word <=> \A j \in DOMAIN word : j \in kept
      BY <1>2
    <2> QED
      BY <1>1, <2>1, <2>2
  <1>4. Len(word) \in Nat /\ DOMAIN word = 1 .. Len(word)
    BY DEF Words
  <1>5. ASSUME kept # DOMAIN word PROVE ~ Permits(word, state, DOMAIN word)
    <2> DEFINE left == DOMAIN word \ kept
    <2>1. left # {} /\ left \subseteq Nat
      <3>1. kept \subseteq DOMAIN word
        BY <1>2
      <3>2. left # {}
        BY <1>5, <3>1
      <3>3. left \subseteq Nat
        BY <1>4
      <3> QED
        BY <3>2, <3>3
    <2>2. PICK i \in left : \A j \in left : i <= j
      <3> HIDE DEF left
      <3> QED
        BY <2>1, LeastNumber
    <2>3. \A j \in DOMAIN word : j < i => j \in kept
      BY <1>4, <2>2
    <2>4. Before(kept, i) = 1 .. i - 1
      BY <1>4, <2>3 DEF Before
    <2>5. Before(kept, i) \cup {i} \cup Later(word, i) = DOMAIN word
      BY <1>4, <2>4 DEF Later
    <2>6. i \in Left(word, kept, Len(word))
      BY <1>4 DEF Left
    <2>7. Later(word, i) \in SUBSET Later(word, i)
      OBVIOUS
    <2> QED
      BY <1>2, <2>5, <2>6, <2>7 DEF LeftOutRightly
  <1>6. Accepts(model, ChildrenOf(word, exempt)) <=> placed.misplaced = {} /\ IsNullable[placed.state]
    BY DEF Accepts
  <1> HIDE DEF placed, state
  <1>7. Accepts(model, ChildrenOf(word, exempt)) <=> Permits(word, state, DOMAIN word)
    BY <1>2, <1>3, <1>5, <1>6
  <1> QED
    BY <1>7 DEF exempt, state

-----------------------------------------------------------------------------
(* The search for missing children.                                          *)

\* The states that stepping through a word comes to.
Walk(t, word, n) ==
    /\ t \in [0 .. n -> States]
    /\ \A i \in 1 .. n : word[i] \in ContentNames /\ t[i] = Step[<<t[i - 1], word[i]>>]

\* The first k steps of a walk, followed by the rest after m steps of another one, of n.
JoinedWord(u, k, w, n, m) ==
    [i \in 1 .. k + (n - m) |-> IF i <= k THEN u[i] ELSE w[i - k + m]]
JoinedWalk(t, k, q, n, m) ==
    [i \in 0 .. k + (n - m) |-> IF i <= k THEN t[i] ELSE q[i - k + m]]

\* A walk can be continued by the rest of another one.
LEMMA Splice ==
    ASSUME NEW t, NEW u, NEW k \in Nat, Walk(t, u, k),
           NEW q, NEW w, NEW n \in Nat, Walk(q, w, n), NEW m \in 0 .. n, q[m] = t[k]
    PROVE  /\ k + (n - m) \in Nat
           /\ Walk(JoinedWalk(t, k, q, n, m), JoinedWord(u, k, w, n, m), k + (n - m))
           /\ JoinedWalk(t, k, q, n, m)[0] = t[0]
           /\ JoinedWalk(t, k, q, n, m)[k + (n - m)] = q[n]
PROOF
  <1> DEFINE l == k + (n - m)
             v == [i \in 1 .. l |-> IF i <= k THEN u[i] ELSE w[i - k + m]]
             r == [i \in 0 .. l |-> IF i <= k THEN t[i] ELSE q[i - k + m]]
  <1>1. l \in Nat /\ k <= l /\ 0 <= l
    OBVIOUS
  <1>2. \A i \in 0 .. l : i <= k => i \in 0 .. k
    OBVIOUS
  <1>3. \A i \in 0 .. l : ~ i <= k => i - k + m \in 1 .. n /\ i - k + m \in 0 .. n /\ i - k + m - 1 \in 0 .. n
    OBVIOUS
  <1>4. r \in [0 .. l -> States]
    <2>1. \A i \in 0 .. k : t[i] \in States
      BY DEF Walk
    <2>2. \A i \in 0 .. n : q[i] \in States
      BY DEF Walk
    <2> HIDE DEF l
    <2> QED
      BY <1>2, <1>3, <2>1, <2>2
  <1>5. ASSUME NEW i \in 1 .. l PROVE v[i] \in ContentNames /\ r[i] = Step[<<r[i - 1], v[i]>>]
    <2>1. i \in 0 .. l /\ i - 1 \in 0 .. l
      OBVIOUS
    <2>2. CASE i <= k
      <3>1. i \in 1 .. k /\ i - 1 <= k
        BY <2>2
      <3>2. u[i] \in ContentNames /\ t[i] = Step[<<t[i - 1], u[i]>>]
        BY <3>1 DEF Walk
      <3> HIDE DEF l
      <3> QED
        BY <2>1, <2>2, <3>1, <3>2
    <2>3. CASE ~ i <= k
      <3> DEFINE j == i - k + m
      <3>1. j \in 1 .. n
        BY <1>3, <2>1, <2>3
      <3>2. w[j] \in ContentNames /\ q[j] = Step[<<q[j - 1], w[j]>>]
        BY <3>1 DEF Walk
      <3>3. r[i] = q[j] /\ v[i] = w[j]
        BY <2>1, <2>3
      <3>4. r[i - 1] = q[j - 1]
        <4>1. CASE i - 1 <= k
          <5>1. i - 1 = k /\ j - 1 = m
            BY <2>3, <4>1
          <5>2. r[i - 1] = t[k]
            BY <2>1, <4>1, <5>1
          <5> QED
            BY <5>1, <5>2
        <4>2. CASE ~ i - 1 <= k
          <5>1. (i - 1) - k + m = j - 1
            OBVIOUS
          <5>2. r[i - 1] = q[(i - 1) - k + m]
            BY <2>1, <4>2
          <5> QED
            BY <5>1, <5>2
        <4> QED
          BY <4>1, <4>2
      <3> QED
        BY <3>2, <3>3, <3>4
    <2> QED
      BY <2>2, <2>3
  <1>6. r[0] = t[0]
    BY <1>1
  <1>7. r[l] = q[n]
    <2>1. CASE l <= k
      <3>1. l = k /\ n = m
        BY <2>1
      <3>2. r[l] = t[l]
        BY <1>1, <2>1
      <3> QED
        BY <3>1, <3>2
    <2>2. CASE ~ l <= k
      <3>1. l - k + m = n
        OBVIOUS
      <3>2. r[l] = q[l - k + m]
        BY <1>1, <2>2
      <3> QED
        BY <3>1, <3>2
    <2> QED
      BY <2>1, <2>2
  <1>8. Walk(r, v, l)
    BY <1>4, <1>5 DEF Walk
  <1>9. r = JoinedWalk(t, k, q, n, m) /\ v = JoinedWord(u, k, w, n, m)
    BY DEF JoinedWalk, JoinedWord
  <1> HIDE DEF r, v
  <1> QED
    BY <1>1, <1>6, <1>7, <1>8, <1>9

\* Through every word there is a walk from every state.
LEMMA WalkExists ==
    ASSUME NEW word \in Words, NEW s \in States
    PROVE  \E t : Walk(t, word, Len(word)) /\ t[0] = s
PROOF
  <1> DEFINE good == {n \in Nat : n <= Len(word) => \E t : Walk(t, word, n) /\ t[0] = s}
  <1>1. Len(word) \in Nat /\ \A i \in 1 .. Len(word) : word[i] \in ContentNames
    BY DEF Words
  <1>2. 0 \in good
    <2>1. Walk([i \in 0 .. 0 |-> s], word, 0)
      BY DEF Walk
    <2> QED
      BY <2>1
  <1>3. ASSUME NEW n \in Nat, n \in good PROVE n + 1 \in good
    <2> SUFFICES ASSUME n + 1 <= Len(word) PROVE \E t : Walk(t, word, n + 1) /\ t[0] = s
      OBVIOUS
    <2>1. PICK t : Walk(t, word, n) /\ t[0] = s
      BY <1>1, <1>3
    <2> DEFINE r == [i \in 0 .. n + 1 |-> IF i <= n THEN t[i] ELSE Step[<<t[n], word[n + 1]>>]]
    <2>2. t[n] \in States /\ \A i \in 0 .. n : t[i] \in States
      BY <2>1 DEF Walk
    <2>3. word[n + 1] \in ContentNames
      BY <1>1
    <2>4. Step[<<t[n], word[n + 1]>>] \in States
      BY <2>2, <2>3, StatesAre
    <2>5. r \in [0 .. n + 1 -> States]
      BY <2>2, <2>4
    <2>6. ASSUME NEW i \in 1 .. n + 1
          PROVE  word[i] \in ContentNames /\ r[i] = Step[<<r[i - 1], word[i]>>]
      <3>1. i \in 0 .. n + 1 /\ i - 1 \in 0 .. n + 1 /\ i - 1 <= n /\ i \in 1 .. Len(word)
        BY <1>1
      <3>2. r[i - 1] = t[i - 1]
        BY <3>1
      <3>3. CASE i <= n
        <4>1. i \in 1 .. n /\ r[i] = t[i]
          BY <3>1, <3>3
        <4>2. t[i] = Step[<<t[i - 1], word[i]>>]
          BY <2>1, <4>1 DEF Walk
        <4> QED
          BY <1>1, <3>1, <3>2, <4>1, <4>2
      <3>4. CASE i = n + 1
        <4>1. r[i] = Step[<<t[n], word[n + 1]>>] /\ i - 1 = n
          BY <3>1, <3>4
        <4> QED
          BY <1>1, <3>1, <3>2, <3>4, <4>1
      <3> QED
        BY <3>3, <3>4
    <2>7. r[0] = s
      BY <2>1
    <2> HIDE DEF r
    <2>8. Walk(r, word, n + 1)
      BY <2>5, <2>6 DEF Walk
    <2> QED
      BY <2>7, <2>8
  <1> HIDE DEF good
  <1>4. Len(word) \in good
    BY <1>1, <1>2, <1>3, OneByOne
  <1> QED
    BY <1>1, <1>4 DEF good

\* A state permits a word exactly when the walk through it ends in a nullable state.
LEMMA WalkPermits ==
    ASSUME NEW word \in Words, NEW t, Walk(t, word, Len(word))
    PROVE  Permits(word, t[0], DOMAIN word) <=> IsNullable[t[Len(word)]]
PROOF
  <1> DEFINE good == {n \in Nat : n <= Len(word) =>
                        (Permits(word, t[0], DOMAIN word) <=> Permits(word, t[n], Later(word, n)))}
  <1>1. Len(word) \in Nat /\ DOMAIN word = 1 .. Len(word)
    BY DEF Words
  <1>2. 0 \in good
    <2>1. Later(word, 0) = DOMAIN word
      BY <1>1 DEF Later
    <2> QED
      BY <2>1
  <1>3. ASSUME NEW n \in Nat, n \in good PROVE n + 1 \in good
    <2> SUFFICES ASSUME n + 1 <= Len(word)
                 PROVE  Permits(word, t[n], Later(word, n)) <=> Permits(word, t[n + 1], Later(word, n + 1))
      BY <1>1, <1>3
    <2> DEFINE p == n + 1
    <2>1. p \in 1 .. Len(word) /\ p - 1 = n /\ n \in 0 .. Len(word)
      BY <1>1
    <2>2. t[n] \in States /\ t[p] = Step[<<t[n], word[p]>>]
      <3>1. t[p] = Step[<<t[p - 1], word[p]>>]
        BY <2>1 DEF Walk
      <3> QED
        BY <2>1, <3>1 DEF Walk
    <2>3. /\ Later(word, n) \in SUBSET DOMAIN word /\ Least(p, Later(word, n))
          /\ Later(word, n) \ {p} = Later(word, p)
      BY <1>1 DEF Later, Least
    <2>4. Derived(word, t[n], p)
      BY <2>2, StepDerives
    <2> HIDE DEF p
    <2>5. Permits(word, t[p], Later(word, p)) <=> Permits(word, t[n], Later(word, n))
      BY <2>2, <2>3, <2>4 DEF Derived
    <2> QED
      BY <2>5 DEF p
  <1> HIDE DEF good
  <1>4. Len(word) \in good
    BY <1>1, <1>2, <1>3, OneByOne
  <1>5. Later(word, Len(word)) = {}
    BY <1>1 DEF Later
  <1>6. t[Len(word)] \in States
    BY <1>1 DEF Walk
  <1>7. Permits(word, t[0], DOMAIN word) <=> Permits(word, t[Len(word)], {})
    BY <1>1, <1>4, <1>5 DEF good
  <1> QED
    BY <1>6, <1>7, NullablePermitsNone

\* A name leads nowhere from where nothing is allowed.
LEMMA StuckStays ==
    ASSUME NEW t, NEW word, NEW n \in Nat, Walk(t, word, n), NEW k \in 0 .. n, t[k] = NotAllowed
    PROVE  ~ IsNullable[t[n]]
PROOF
  <1> DEFINE good == {i \in Nat : k <= i /\ i <= n => t[i] = NotAllowed}
  <1>1. 0 \in good
    OBVIOUS
  <1>2. ASSUME NEW i \in Nat, i \in good PROVE i + 1 \in good
    <2> SUFFICES ASSUME k <= i + 1, i + 1 <= n, k # i + 1 PROVE t[i + 1] = NotAllowed
      OBVIOUS
    <2>1. k <= i /\ i <= n /\ i + 1 \in 1 .. n /\ (i + 1) - 1 = i
      OBVIOUS
    <2>2. t[i] = NotAllowed
      BY <1>2, <2>1
    <2>3. word[i + 1] \in ContentNames /\ t[i + 1] = Step[<<t[(i + 1) - 1], word[i + 1]>>]
      BY <2>1 DEF Walk
    <2>4. t[i + 1] = SteppingBy(Step, NotAllowed, word[i + 1])
      BY <2>1, <2>2, <2>3, StatesAre, StepIs
    <2> QED
      BY <2>4 DEF SteppingBy, StepBy, NotAllowed
  <1> HIDE DEF good
  <1>3. n \in good
    BY <1>1, <1>2, OneByOne
  <1>4. t[n] = NotAllowed
    BY <1>3 DEF good
  <1>5. ~ NullableBy(IsNullable, NotAllowed)
    BY DEF NullableBy, NotAllowed, Empty
  <1> QED
    BY <1>4, <1>5, StatesAre, NullableIs

\* A word of some names that completes a state in n steps, and the fewest steps it takes.
Completing(s, names, t, word, n) ==
    /\ word \in [1 .. n -> names]
    /\ Walk(t, word, n)
    /\ t[0] = s
    /\ IsNullable[t[n]]

Fewest(s, names, n) ==
    \A t, word : \A k \in Nat : Completing(s, names, t, word, k) => n <= k

\* The name that a way begins with, and the ways of some steps from a state.
Mark(word, n) == IF n = 0 THEN {} ELSE {word[1]}

Way(s, names, n, way) ==
    \E t, word : /\ word \in [1 .. n -> names]
                 /\ Walk(t, word, n)
                 /\ t[0] = s
                 /\ way = <<t[n], Mark(word, n)>>

\* A way goes on by one more name.
LEMMA WayOn ==
    ASSUME NEW s, NEW names \in SUBSET ContentNames, NEW n \in Nat, NEW way, Way(s, names, n, way),
           NEW name \in names
    PROVE  Way(s, names, n + 1, Onward(way, name))
PROOF
  <1>1. PICK t, word : /\ word \in [1 .. n -> names]
                       /\ Walk(t, word, n)
                       /\ t[0] = s
                       /\ way = <<t[n], Mark(word, n)>>
    BY DEF Way
  <1> DEFINE q == [i \in 0 .. 1 |-> IF i = 0 THEN t[n] ELSE Step[<<t[n], name>>]]
             w == [i \in 1 .. 1 |-> name]
             v == JoinedWord(word, n, w, 1, 0)
             r == JoinedWalk(t, n, q, 1, 0)
  <1>2. t[n] \in States /\ name \in ContentNames
    BY <1>1 DEF Walk
  <1>3. Step[<<t[n], name>>] \in States
    BY <1>2, StatesAre
  <1>4. q[0] = t[n] /\ q[1] = Step[<<t[n], name>>] /\ w[1] = name /\ w \in [1 .. 1 -> names]
    OBVIOUS
  <1>5. q \in [0 .. 1 -> States]
    BY <1>2, <1>3
  <1> HIDE DEF q, w
  <1>6. Walk(q, w, 1)
    <2>1. \A i \in 1 .. 1 : i = 1 /\ i - 1 = 0
      OBVIOUS
    <2> QED
      BY <1>2, <1>4, <1>5, <2>1 DEF Walk
  <1>7. n + (1 - 0) = n + 1 /\ 0 \in 0 .. 1 /\ 1 \in Nat
    OBVIOUS
  <1>8. Walk(r, v, n + 1) /\ r[0] = t[0] /\ r[n + 1] = q[1]
    <2> HIDE DEF v, r
    <2>1. q[0] = t[n] /\ Walk(t, word, n)
      BY <1>1, <1>4
    <2>2. Walk(JoinedWalk(t, n, q, 1, 0), JoinedWord(word, n, w, 1, 0), n + (1 - 0))
      BY <1>6, <1>7, <2>1, Splice
    <2>3. /\ JoinedWalk(t, n, q, 1, 0)[0] = t[0]
          /\ JoinedWalk(t, n, q, 1, 0)[n + (1 - 0)] = q[1]
      BY <1>6, <1>7, <2>1, Splice
    <2> QED
      BY <1>7, <2>2, <2>3 DEF v, r
  <1> HIDE DEF r
  <1>9. v = [i \in 1 .. n + 1 |-> IF i <= n THEN word[i] ELSE w[i - n + 0]]
    BY <1>7 DEF JoinedWord
  <1> HIDE DEF v
  <1>10. v \in [1 .. n + 1 -> names]
    <2>1. ASSUME NEW i \in 1 .. n + 1 PROVE v[i] \in names
      <3>1. CASE i <= n
        <4>1. i \in 1 .. n
          BY <3>1
        <4> QED
          BY <1>1, <1>9, <3>1, <4>1
      <3>2. CASE ~ i <= n
        <4>1. i - n + 0 = 1
          BY <3>2
        <4> QED
          BY <1>4, <1>9, <3>2, <4>1
      <3> QED
        BY <3>1, <3>2
    <2> QED
      BY <1>9, <2>1
  <1>11. Mark(v, n + 1) = IF Mark(word, n) = {} THEN {name} ELSE Mark(word, n)
    <2>1. n + 1 # 0 /\ 1 \in 1 .. n + 1
      OBVIOUS
    <2>2. CASE n = 0
      <3>1. 1 - n + 0 = 1 /\ ~ 1 <= n
        BY <2>2
      <3>2. v[1] = name
        BY <1>4, <1>9, <2>1, <3>1
      <3> QED
        BY <2>1, <2>2, <3>2 DEF Mark
    <2>3. CASE n # 0
      <3>1. 1 <= n
        BY <2>3
      <3>2. v[1] = word[1]
        BY <1>9, <2>1, <3>1
      <3> QED
        BY <2>1, <2>3, <3>2 DEF Mark
    <2> QED
      BY <2>2, <2>3
  <1>12. Onward(way, name) = <<r[n + 1], Mark(v, n + 1)>>
    BY <1>1, <1>4, <1>8, <1>11 DEF Onward
  <1> QED
    BY <1>1, <1>8, <1>10, <1>12 DEF Way

\* A way that comes later to where an earlier one went is not part of a shortest completion.
LEMMA NoDetour ==
    ASSUME NEW s, NEW names \in SUBSET ContentNames, NEW m \in Nat, NEW q, NEW w,
           Completing(s, names, q, w, m), Fewest(s, names, m),
           NEW n \in 0 .. m, NEW k \in Nat, NEW way, Way(s, names, k, way), way[1] = q[n]
    PROVE  n <= k
PROOF
  <1>1. PICK t, u : /\ u \in [1 .. k -> names]
                    /\ Walk(t, u, k)
                    /\ t[0] = s
                    /\ way = <<t[k], Mark(u, k)>>
    BY DEF Way
  <1> DEFINE l == k + (m - n)
             v == JoinedWord(u, k, w, m, n)
             r == JoinedWalk(t, k, q, m, n)
  <1>2. Walk(q, w, m) /\ q[0] = s /\ IsNullable[q[m]] /\ w \in [1 .. m -> names]
    BY DEF Completing
  <1>3. q[n] = t[k]
    BY <1>1
  <1>4. l \in Nat /\ Walk(r, v, l) /\ r[0] = t[0] /\ r[l] = q[m]
    <2> HIDE DEF l, r, v
    <2>1. Walk(t, u, k) /\ Walk(q, w, m)
      BY <1>1, <1>2
    <2>2. Walk(JoinedWalk(t, k, q, m, n), JoinedWord(u, k, w, m, n), k + (m - n))
      BY <1>3, <2>1, Splice
    <2>3. /\ JoinedWalk(t, k, q, m, n)[0] = t[0]
          /\ JoinedWalk(t, k, q, m, n)[k + (m - n)] = q[m]
      BY <1>3, <2>1, Splice
    <2>4. k + (m - n) \in Nat
      OBVIOUS
    <2> QED
      BY <2>2, <2>3, <2>4 DEF l, r, v
  <1> HIDE DEF r
  <1>5. v = [i \in 1 .. l |-> IF i <= k THEN u[i] ELSE w[i - k + n]]
    BY DEF JoinedWord
  <1> HIDE DEF v
  <1>6. v \in [1 .. l -> names]
    <2>1. ASSUME NEW i \in 1 .. l PROVE v[i] \in names
      <3>1. CASE i <= k
        <4>1. i \in 1 .. k
          BY <3>1
        <4> QED
          BY <1>1, <1>5, <3>1, <4>1
      <3>2. CASE ~ i <= k
        <4>1. i - k + n \in 1 .. m
          BY <3>2
        <4> QED
          BY <1>2, <1>5, <3>2, <4>1
      <3> QED
        BY <3>1, <3>2
    <2> QED
      BY <1>5, <2>1
  <1>7. Completing(s, names, r, v, l)
    BY <1>1, <1>2, <1>4, <1>6 DEF Completing
  <1>8. m <= l
    BY <1>4, <1>7 DEF Fewest
  <1> QED
    BY <1>8

\* A round that did not end leads to the next one.
LEMMA SearchOnIs ==
    ASSUME NEW round, NEW names
    PROVE  /\ Ended(round) => SearchOn(round, names) = round
           /\ ~ Ended(round) =>
                LET on == SearchOn(round, names)
                    next == NextWays(round, names)
                IN  /\ on.frontier = next \ round.visited
                    /\ on.visited = round.visited \cup next
                    /\ on.expected = UNION {way[2] : way \in {w \in next : IsNullable[w[1]]}}
BY DEF SearchOn

\* A round that goes on after n others: its frontier is n steps away, and what it visited no
\* more; nothing of its frontier is nullable; every shortest completion goes through its
\* frontier; and there was something new in every round.
Ongoing(s, names, n, round) ==
    /\ ~ Ended(round)
    /\ \A way \in round.frontier : Way(s, names, n, way) /\ ~ IsNullable[way[1]]
    /\ \A way \in round.visited : \E k \in 0 .. n : Way(s, names, k, way)
    /\ \A t, word : \A m \in Nat :
          Completing(s, names, t, word, m) /\ Fewest(s, names, m) =>
            n <= m /\ <<t[n], Mark(word, n)>> \in round.frontier
    /\ IsFiniteSet(round.visited) /\ Cardinality(round.visited) > n

\* The search starts like this.
LEMMA StartOngoing ==
    ASSUME NEW s \in States, NEW names, ~ IsNullable[s]
    PROVE  Ongoing(s, names, 0, SearchStart(s))
PROOF
  <1> DEFINE start == <<s, {}>>
             round == SearchStart(s)
  <1>1. round.frontier = {start} /\ round.visited = {start} /\ round.expected = {}
    BY DEF SearchStart
  <1>2. ~ Ended(round)
    BY <1>1 DEF Ended
  <1>3. Way(s, names, 0, start)
    <2> DEFINE t == [i \in 0 .. 0 |-> s]
               word == [i \in 1 .. 0 |-> s]
    <2>1. word \in [1 .. 0 -> names] /\ t[0] = s /\ t \in [0 .. 0 -> States]
      OBVIOUS
    <2> HIDE DEF t, word
    <2>2. Walk(t, word, 0)
      BY <2>1 DEF Walk
    <2>3. start = <<t[0], Mark(word, 0)>>
      BY <2>1 DEF Mark
    <2> QED
      BY <2>1, <2>2, <2>3 DEF Way
  <1>4. IsFiniteSet(round.visited) /\ Cardinality(round.visited) > 0
    <2>1. IsFiniteSet({start}) /\ Cardinality({start}) = 1
      BY FS_Singleton, Zenon
    <2> HIDE DEF start, round
    <2> QED
      BY <1>1, <2>1
  <1>5. ASSUME NEW t, NEW word, NEW m \in Nat, Completing(s, names, t, word, m)
        PROVE  0 <= m /\ <<t[0], Mark(word, 0)>> \in round.frontier
    BY <1>1, <1>5 DEF Completing, Mark
  <1>6. 0 \in 0 .. 0
    OBVIOUS
  <1> HIDE DEF round
  <1> QED
    BY <1>1, <1>2, <1>3, <1>4, <1>5, <1>6 DEF Ongoing, round

\* The next way of a shortest completion is new.
LEMMA ShortestGoesOn ==
    ASSUME NEW s \in States, NEW names \in SUBSET ContentNames, NEW n \in Nat,
           NEW round, Ongoing(s, names, n, round),
           NEW t, NEW word, NEW m \in Nat, Completing(s, names, t, word, m), Fewest(s, names, m)
    PROVE  /\ n + 1 <= m
           /\ <<t[n + 1], Mark(word, n + 1)>> \in NextWays(round, names) \ round.visited
PROOF
  <1> DEFINE way == <<t[n], Mark(word, n)>>
             next == <<t[n + 1], Mark(word, n + 1)>>
  <1>1. n <= m /\ way \in round.frontier
    BY DEF Ongoing
  <1>2. Walk(t, word, m) /\ t[0] = s /\ IsNullable[t[m]] /\ word \in [1 .. m -> names]
    BY DEF Completing
  <1>3. n # m
    BY <1>1, <1>2 DEF Ongoing
  <1>4. n + 1 <= m /\ n + 1 \in 1 .. m /\ n + 1 \in 0 .. m /\ (n + 1) - 1 = n /\ 1 \in 1 .. m
    BY <1>1, <1>3
  <1>5. t[n + 1] = Step[<<t[n], word[n + 1]>>] /\ word[n + 1] \in names
    <2>1. t[n + 1] = Step[<<t[(n + 1) - 1], word[n + 1]>>]
      BY <1>2, <1>4 DEF Walk
    <2> QED
      BY <1>2, <1>4, <2>1
  <1>6. Mark(word, n + 1) = IF Mark(word, n) = {} THEN {word[n + 1]} ELSE Mark(word, n)
    BY <1>4 DEF Mark
  <1>7. next = Onward(way, word[n + 1])
    BY <1>5, <1>6 DEF Onward
  <1>8. t[n + 1] # NotAllowed
    BY <1>2, <1>4, StuckStays
  <1>9. next \in NextWays(round, names)
    BY <1>1, <1>5, <1>7, <1>8 DEF NextWays
  <1>10. next \notin round.visited
    <2> SUFFICES ASSUME next \in round.visited PROVE FALSE
      OBVIOUS
    <2>1. PICK k \in 0 .. n : Way(s, names, k, next)
      BY DEF Ongoing
    <2>2. k \in Nat /\ next[1] = t[n + 1]
      OBVIOUS
    <2> HIDE DEF next
    <2>3. n + 1 <= k
      BY <1>4, <2>1, <2>2, NoDetour
    <2> QED
      BY <2>3
  <1> QED
    BY <1>4, <1>9, <1>10

\* What is expected begins a completion of one step more.
LEMMA ExpectedCompletes ==
    ASSUME NEW s \in States, NEW names \in SUBSET ContentNames, NEW n \in Nat,
           NEW round, Ongoing(s, names, n, round), NEW name \in SearchOn(round, names).expected
    PROVE  \E t, word : Completing(s, names, t, word, n + 1) /\ word[1] = name
PROOF
  <1>1. ~ Ended(round)
    BY DEF Ongoing
  <1>2. PICK way \in NextWays(round, names) : IsNullable[way[1]] /\ name \in way[2]
    BY <1>1, SearchOnIs
  <1>3. PICK old \in round.frontier, next \in names : way = Onward(old, next)
    BY <1>2 DEF NextWays
  <1>4. Way(s, names, n, old)
    BY <1>3 DEF Ongoing
  <1>5. Way(s, names, n + 1, way)
    BY <1>3, <1>4, WayOn
  <1>6. PICK t, word : /\ word \in [1 .. n + 1 -> names]
                       /\ Walk(t, word, n + 1)
                       /\ t[0] = s
                       /\ way = <<t[n + 1], Mark(word, n + 1)>>
    BY <1>5 DEF Way
  <1>7. Mark(word, n + 1) = {word[1]}
    BY DEF Mark
  <1> QED
    BY <1>2, <1>6, <1>7 DEF Completing

\* What a way may be marked with: the name that it begins with, if any.
Marks(names) == {{}} \cup {{name} : name \in names}

LEMMA WaysAreMarked ==
    ASSUME NEW s, NEW names, NEW n \in Nat, NEW way, Way(s, names, n, way)
    PROVE  way \in States \X Marks(names)
PROOF
  <1>1. PICK t, word : /\ word \in [1 .. n -> names]
                       /\ Walk(t, word, n)
                       /\ way = <<t[n], Mark(word, n)>>
    BY DEF Way
  <1>2. t[n] \in States
    BY <1>1 DEF Walk
  <1>3. Mark(word, n) \in Marks(names)
    <2>1. n # 0 => word[1] \in names
      BY <1>1
    <2> QED
      BY <2>1 DEF Mark, Marks
  <1> QED
    BY <1>1, <1>2, <1>3

\* There are so many states with marks.
LEMMA MarkedStates ==
    ASSUME NEW names, IsFiniteSet(names), IsFiniteSet(States)
    PROVE  /\ IsFiniteSet(States \X Marks(names))
           /\ MaxRounds(names) \in Nat
           /\ Cardinality(States \X Marks(names)) <= MaxRounds(names)
PROOF
  <1> DEFINE single == {{name} : name \in names}
  <1>2. IsFiniteSet(single) /\ Cardinality(single) <= Cardinality(names)
    BY SinglesCount
  <1>3. Marks(names) = single \cup {{}}
    BY DEF Marks
  <1> HIDE DEF single
  <1>4. /\ IsFiniteSet(Marks(names))
        /\ Cardinality(Marks(names)) <= Cardinality(single) + 1
    <2>1. Cardinality(single) \in Nat
      BY <1>2, FS_CardinalityType
    <2>2. /\ IsFiniteSet(single \cup {{}})
          /\ Cardinality(single \cup {{}}) = IF {} \in single THEN Cardinality(single) ELSE Cardinality(single) + 1
      BY <1>2, FS_AddElement
    <2> QED
      BY <1>3, <2>1, <2>2
  <1>5. /\ Cardinality(single) \in Nat /\ Cardinality(names) \in Nat
        /\ Cardinality(Marks(names)) \in Nat /\ Cardinality(States) \in Nat
    BY <1>2, <1>4, FS_CardinalityType
  <1>6. Cardinality(Marks(names)) <= Cardinality(names) + 1
    BY <1>2, <1>4, <1>5
  <1>7. \A a, b, c \in Nat : b <= c => a * b <= a * c /\ a * c \in Nat
    OBVIOUS
  <1>8. /\ IsFiniteSet(States \X Marks(names))
        /\ Cardinality(States \X Marks(names)) = Cardinality(States) * Cardinality(Marks(names))
    BY <1>4, FS_Product
  <1>9. Cardinality(names) + 1 \in Nat
    BY <1>5
  <1> QED
    BY <1>5, <1>6, <1>7, <1>8, <1>9 DEF MaxRounds

\* A round that goes on leads to one that does, or ends.
LEMMA GoesOnOrEnds ==
    ASSUME NEW s \in States, NEW names \in SUBSET ContentNames, NEW n \in Nat,
           NEW round, Ongoing(s, names, n, round), IsFiniteSet(States \X Marks(names)),
           ~ Ended(SearchOn(round, names))
    PROVE  Ongoing(s, names, n + 1, SearchOn(round, names))
PROOF
  <1> DEFINE on == SearchOn(round, names)
             next == NextWays(round, names)
  <1>1. ~ Ended(round)
    BY DEF Ongoing
  <1>2. /\ on.frontier = next \ round.visited
        /\ on.visited = round.visited \cup next
        /\ on.expected = UNION {way[2] : way \in {w \in next : IsNullable[w[1]]}}
    BY <1>1, SearchOnIs
  <1>3. on.expected = {} /\ on.frontier # {}
    BY DEF Ended
  <1> HIDE DEF on
  <1>4. \A way \in next : Way(s, names, n + 1, way)
    <2> SUFFICES ASSUME NEW way \in next PROVE Way(s, names, n + 1, way)
      OBVIOUS
    <2>1. PICK old \in round.frontier, name \in names : way = Onward(old, name)
      BY DEF NextWays
    <2>2. Way(s, names, n, old)
      BY DEF Ongoing
    <2> QED
      BY <2>1, <2>2, WayOn
  <1>5. \A way \in next : ~ IsNullable[way[1]]
    <2> SUFFICES ASSUME NEW way \in next, IsNullable[way[1]] PROVE FALSE
      OBVIOUS
    <2>1. way[2] = {}
      BY <1>2, <1>3
    <2>2. PICK t, word : way = <<t[n + 1], Mark(word, n + 1)>>
      BY <1>4 DEF Way
    <2>3. Mark(word, n + 1) = {word[1]}
      BY DEF Mark
    <2> QED
      BY <2>1, <2>2, <2>3
  <1>6. \A way \in on.visited : \E k \in 0 .. n + 1 : Way(s, names, k, way)
    <2> SUFFICES ASSUME NEW way \in on.visited PROVE \E k \in 0 .. n + 1 : Way(s, names, k, way)
      OBVIOUS
    <2>1. CASE way \in round.visited
      <3>1. PICK k \in 0 .. n : Way(s, names, k, way)
        BY <2>1 DEF Ongoing
      <3>2. k \in 0 .. n + 1
        OBVIOUS
      <3> QED
        BY <3>1, <3>2
    <2>2. CASE way \in next
      <3>1. n + 1 \in 0 .. n + 1
        OBVIOUS
      <3> QED
        BY <1>4, <2>2, <3>1
    <2> QED
      BY <1>2, <2>1, <2>2
  <1>7. ASSUME NEW t, NEW word, NEW m \in Nat, Completing(s, names, t, word, m), Fewest(s, names, m)
        PROVE  n + 1 <= m /\ <<t[n + 1], Mark(word, n + 1)>> \in on.frontier
    BY <1>2, <1>7, ShortestGoesOn
  <1>8. IsFiniteSet(on.visited)
    <2>1. on.visited \in SUBSET (States \X Marks(names))
      BY <1>6, WaysAreMarked
    <2> QED
      BY <2>1, FS_Subset
  <1>9. Cardinality(on.visited) > n + 1
    <2>1. PICK way : way \in next \ round.visited
      BY <1>2, <1>3
    <2>2. round.visited \cup {way} \in SUBSET on.visited
      BY <1>2, <2>1
    <2>3. IsFiniteSet(round.visited) /\ Cardinality(round.visited) > n
      BY DEF Ongoing
    <2>4. Cardinality(round.visited \cup {way}) = Cardinality(round.visited) + 1
      BY <2>1, <2>3, FS_AddElement
    <2>5. Cardinality(round.visited \cup {way}) <= Cardinality(on.visited)
      BY <1>8, <2>2, FS_Subset
    <2>6. Cardinality(round.visited) \in Nat /\ Cardinality(on.visited) \in Nat
      BY <1>8, <2>3, FS_CardinalityType
    <2> QED
      BY <2>3, <2>4, <2>5, <2>6
  <1> HIDE DEF next
  <1>10. Ongoing(s, names, n + 1, on)
    BY <1>2, <1>4, <1>5, <1>6, <1>7, <1>8, <1>9 DEF Ongoing, on
  <1> QED
    BY <1>10 DEF on

\* The rounds of a search.
RoundsTo(s, names, f, n) ==
    f = [i \in 0 .. n |-> IF i = 0 THEN SearchStart(s) ELSE SearchOn(f[i - 1], names)]

\* There are such rounds, and Search takes what is expected in one that has ended.
LEMMA RoundsToAny ==
    ASSUME NEW s, NEW names, NEW n \in Nat
    PROVE  \E f : RoundsTo(s, names, f, n)
PROOF
  <1> DEFINE first == SearchStart(s)
             good == {k \in Nat : \E f : RoundsTo(s, names, f, k)}
  <1>1. 0 \in good
    <2>1. RoundsTo(s, names, [i \in {0} |-> first], 0)
      <3>1. 0 .. 0 = {0}
        OBVIOUS
      <3> QED
        BY <3>1 DEF RoundsTo
    <2> QED
      BY <2>1
  <1>2. ASSUME NEW k \in Nat, k \in good PROVE k + 1 \in good
    <2>1. PICK f : RoundsTo(s, names, f, k)
      BY <1>2
    <2> DEFINE g == [i \in 0 .. k + 1 |-> IF i = 0 THEN first ELSE SearchOn(f[i - 1], names)]
    <2>2. \A i \in 0 .. k : g[i] = f[i]
      <3>1. \A i \in 0 .. k : f[i] = IF i = 0 THEN first ELSE SearchOn(f[i - 1], names)
        BY <2>1 DEF RoundsTo
      <3>2. \A i \in 0 .. k : i \in 0 .. k + 1
        OBVIOUS
      <3> HIDE DEF first
      <3> QED
        BY <3>1, <3>2
    <2>3. \A i \in 0 .. k + 1 : i # 0 => i - 1 \in 0 .. k
      OBVIOUS
    <2>4. g = [i \in 0 .. k + 1 |-> IF i = 0 THEN first ELSE SearchOn(g[i - 1], names)]
      <3>1. \A i \in 0 .. k + 1 : i # 0 => SearchOn(g[i - 1], names) = SearchOn(f[i - 1], names)
        BY <2>2, <2>3
      <3> HIDE DEF first
      <3> QED
        BY <3>1
    <2> HIDE DEF g
    <2>5. RoundsTo(s, names, g, k + 1)
      BY <2>4 DEF RoundsTo
    <2> QED
      BY <2>5
  <1> HIDE DEF good
  <1>3. n \in good
    BY <1>1, <1>2, OneByOne
  <1> QED
    BY <1>3 DEF good

LEMMA SearchIs ==
    ASSUME NEW s, NEW names, MaxRounds(names) \in Nat
    PROVE  \E f : /\ RoundsTo(s, names, f, MaxRounds(names))
                  /\ Search(s, names) = f[CHOOSE n \in 0 .. MaxRounds(names) : Ended(f[n])].expected
PROOF
  <1> DEFINE F == CHOOSE f : RoundsTo(s, names, f, MaxRounds(names))
  <1>1. RoundsTo(s, names, F, MaxRounds(names))
    BY RoundsToAny
  <1>2. Search(s, names) = F[CHOOSE n \in 0 .. MaxRounds(names) : Ended(F[n])].expected
    BY DEF Search, RoundsTo
  <1> HIDE DEF F
  <1> QED
    BY <1>1, <1>2

\* Once ended, rounds stay as they are, and some round ends.
LEMMA SearchEnds ==
    ASSUME NEW s \in States, ~ IsNullable[s], NEW names \in SUBSET ContentNames,
           IsFiniteSet(names), IsFiniteSet(States)
    PROVE  \E n \in Nat : \E round :
              /\ Ongoing(s, names, n, round)
              /\ Ended(SearchOn(round, names))
              /\ Search(s, names) = SearchOn(round, names).expected
PROOF
  <1> DEFINE max == MaxRounds(names)
  <1>1. /\ IsFiniteSet(States \X Marks(names)) /\ max \in Nat
        /\ Cardinality(States \X Marks(names)) <= max
    BY MarkedStates
  <1>2. PICK f : /\ RoundsTo(s, names, f, max)
                 /\ Search(s, names) = f[CHOOSE n \in 0 .. max : Ended(f[n])].expected
    BY <1>1, SearchIs
  <1> HIDE DEF max
  <1>3. f[0] = SearchStart(s) /\ \A i \in 0 .. max : i # 0 => f[i] = SearchOn(f[i - 1], names)
    BY <1>1, <1>2 DEF RoundsTo
  <1>4. \E n \in 0 .. max : Ended(f[n])
    <2> SUFFICES ASSUME \A n \in 0 .. max : ~ Ended(f[n]) PROVE FALSE
      OBVIOUS
    <2> DEFINE good == {n \in Nat : n <= max => Ongoing(s, names, n, f[n])}
    <2>1. 0 \in good
      BY <1>3, StartOngoing
    <2>2. ASSUME NEW n \in Nat, n \in good PROVE n + 1 \in good
      <3> SUFFICES ASSUME n + 1 <= max PROVE Ongoing(s, names, n + 1, f[n + 1])
        OBVIOUS
      <3>1. n + 1 \in 0 .. max /\ n + 1 # 0 /\ (n + 1) - 1 = n /\ n <= max
        BY <1>1
      <3>2. f[n + 1] = SearchOn(f[n], names)
        BY <1>3, <3>1
      <3>3. Ongoing(s, names, n, f[n]) /\ ~ Ended(f[n + 1])
        BY <2>2, <3>1
      <3> QED
        BY <1>1, <3>2, <3>3, GoesOnOrEnds
    <2> HIDE DEF good
    <2>3. max \in good
      BY <1>1, <2>1, <2>2, OneByOne
    <2>4. Ongoing(s, names, max, f[max])
      BY <1>1, <2>3 DEF good
    <2>5. f[max].visited \in SUBSET (States \X Marks(names))
      <3>1. \A way \in f[max].visited : \E k \in 0 .. max : Way(s, names, k, way)
        BY <2>4 DEF Ongoing
      <3> QED
        BY <3>1, WaysAreMarked
    <2>6. Cardinality(f[max].visited) <= Cardinality(States \X Marks(names))
      BY <1>1, <2>5, FS_Subset
    <2>7. Cardinality(f[max].visited) > max /\ IsFiniteSet(f[max].visited)
      BY <2>4 DEF Ongoing
    <2>8. Cardinality(f[max].visited) \in Nat /\ Cardinality(States \X Marks(names)) \in Nat
      BY <1>1, <2>7, FS_CardinalityType
    <2> QED
      BY <1>1, <2>6, <2>7, <2>8
  <1> DEFINE ends == {n \in 0 .. max : Ended(f[n])}
  <1>5. PICK e \in ends : \A n \in ends : e <= n
    <2>1. ends # {} /\ ends \subseteq Nat
      BY <1>4
    <2> HIDE DEF ends
    <2> QED
      BY <2>1, LeastNumber
  <1>6. e \in 0 .. max /\ Ended(f[e]) /\ \A n \in 0 .. max : n < e => ~ Ended(f[n])
    <2>1. \A n \in 0 .. max : n < e => n \notin ends
      BY <1>5
    <2> QED
      BY <1>5, <2>1
  <1>7. e # 0
    BY <1>3, <1>6, StartOngoing DEF Ongoing
  <1> DEFINE good == {n \in Nat : n < e => Ongoing(s, names, n, f[n])}
  <1>8. 0 \in good
    BY <1>3, StartOngoing
  <1>9. ASSUME NEW n \in Nat, n \in good PROVE n + 1 \in good
    <2> SUFFICES ASSUME n + 1 < e PROVE Ongoing(s, names, n + 1, f[n + 1])
      OBVIOUS
    <2>1. n + 1 \in 0 .. max /\ n + 1 # 0 /\ (n + 1) - 1 = n /\ n < e
      BY <1>1, <1>6
    <2>2. f[n + 1] = SearchOn(f[n], names)
      BY <1>3, <2>1
    <2>3. Ongoing(s, names, n, f[n]) /\ ~ Ended(f[n + 1])
      BY <1>6, <1>9, <2>1
    <2> QED
      BY <1>1, <2>2, <2>3, GoesOnOrEnds
  <1> HIDE DEF good
  <1>10. e - 1 \in Nat /\ e - 1 \in good /\ e - 1 < e
    <2>1. e - 1 \in Nat /\ e - 1 < e
      BY <1>6, <1>7
    <2> QED
      BY <1>8, <1>9, <2>1, OneByOne
  <1>11. Ongoing(s, names, e - 1, f[e - 1])
    BY <1>10 DEF good
  <1>12. f[e] = SearchOn(f[e - 1], names)
    BY <1>3, <1>6, <1>7
  <1> DEFINE same == {n \in Nat : e <= n /\ n <= max => f[n] = f[e]}
  <1>13. 0 \in same
    BY <1>6, <1>7
  <1>14. ASSUME NEW n \in Nat, n \in same PROVE n + 1 \in same
    <2> SUFFICES ASSUME e <= n + 1, n + 1 <= max, e # n + 1 PROVE f[n + 1] = f[e]
      OBVIOUS
    <2>1. n + 1 \in 0 .. max /\ n + 1 # 0 /\ (n + 1) - 1 = n /\ e <= n /\ n <= max
      BY <1>1, <1>6
    <2>2. f[n + 1] = SearchOn(f[n], names) /\ f[n] = f[e]
      BY <1>3, <1>14, <2>1
    <2> QED
      BY <1>6, <2>2, SearchOnIs
  <1> HIDE DEF same
  <1> DEFINE last == CHOOSE n \in 0 .. max : Ended(f[n])
  <1>15. last \in 0 .. max /\ Ended(f[last])
    BY <1>4
  <1>16. f[last] = f[e]
    <2> HIDE DEF last
    <2>1. last \in Nat /\ last <= max /\ e <= last
      BY <1>6, <1>15
    <2>2. last \in same
      BY <1>13, <1>14, <2>1, OneByOne
    <2> QED
      BY <2>1, <2>2 DEF same
  <1>17. Search(s, names) = f[e].expected
    BY <1>2, <1>16
  <1> QED
    BY <1>6, <1>10, <1>11, <1>12, <1>17

\* The words that a state permits are those that complete it.
LEMMA CompletionsAre ==
    ASSUME NEW s \in States, NEW names \in SUBSET ContentNames
    PROVE  /\ \A word \in Completions(s, names) :
                 /\ Len(word) \in Nat
                 /\ \E t : Completing(s, names, t, word, Len(word))
           /\ \A n \in Nat : \A t, word :
                 Completing(s, names, t, word, n) => word \in Completions(s, names) /\ Len(word) = n
PROOF
  <1>1. \A word \in Seq(names) : word \in Words
    BY DEF Words
  <1>2. ASSUME NEW word \in Completions(s, names)
        PROVE  /\ Len(word) \in Nat
               /\ \E t : Completing(s, names, t, word, Len(word))
    <2>1. word \in Seq(names) /\ Permits(word, s, DOMAIN word)
      BY DEF Completions
    <2>2. word \in Words /\ Len(word) \in Nat /\ word \in [1 .. Len(word) -> names]
      BY <1>1, <2>1
    <2>3. PICK t : Walk(t, word, Len(word)) /\ t[0] = s
      BY <2>2, WalkExists
    <2>4. IsNullable[t[Len(word)]]
      BY <2>1, <2>2, <2>3, WalkPermits
    <2> QED
      BY <2>2, <2>3, <2>4 DEF Completing
  <1>3. ASSUME NEW n \in Nat, NEW t, NEW word, Completing(s, names, t, word, n)
        PROVE  word \in Completions(s, names) /\ Len(word) = n
    <2>1. word \in [1 .. n -> names] /\ Walk(t, word, n) /\ t[0] = s /\ IsNullable[t[n]]
      BY <1>3 DEF Completing
    <2>2. word \in Seq(names) /\ Len(word) = n
      BY <2>1
    <2>3. Permits(word, s, DOMAIN word)
      BY <1>1, <2>1, <2>2, WalkPermits
    <2> QED
      BY <2>2, <2>3 DEF Completions
  <1> QED
    BY <1>2, <1>3

\* CollectMissingChildren finds exactly the names that the shortest completions begin with,
\* whatever the state that the children of an element lead to and the names of its rule, and
\* nothing only if there is no completion, or none is needed.
THEOREM MissingChildrenFound ==
    ASSUME NEW state \in States, NEW names \in SUBSET ContentNames,
           IsFiniteSet(names), IsFiniteSet(States)
    PROVE  /\ CollectMissingChildren(state, names) = Beginnings(Shortest(Completions(state, names)))
           /\ CollectMissingChildren(state, names) = {} =>
                IsNullable[state] \/ Completions(state, names) = {}
PROOF
  <1> DEFINE missing == CollectMissingChildren(state, names)
             words == Completions(state, names)
  <1>1. CASE IsNullable[state]
    <2>1. missing = {}
      BY <1>1 DEF CollectMissingChildren
    <2>2. <<>> \in words /\ Len(<<>>) = 0
      <3>1. <<>> \in Seq(names) /\ DOMAIN <<>> = {}
        OBVIOUS
      <3>2. Permits(<<>>, state, {})
        BY <1>1, NullablePermitsNone
      <3> QED
        BY <3>1, <3>2 DEF Completions
    <2>3. \A word \in Shortest(words) : word = <<>>
      <3> SUFFICES ASSUME NEW word \in Shortest(words) PROVE word = <<>>
        OBVIOUS
      <3>1. word \in words /\ Len(word) <= 0
        BY <2>2 DEF Shortest
      <3>2. word \in Seq(names)
        BY <3>1 DEF Completions
      <3> QED
        BY <3>1, <3>2
    <2>4. Beginnings(Shortest(words)) = {}
      BY <2>3 DEF Beginnings
    <2> QED
      BY <1>1, <2>1, <2>4
  <1>2. CASE ~ IsNullable[state]
    <2>1. PICK n \in Nat : \E round :
             /\ Ongoing(state, names, n, round)
             /\ Ended(SearchOn(round, names))
             /\ Search(state, names) = SearchOn(round, names).expected
      BY <1>2, SearchEnds
    <2>2. PICK round :
            /\ Ongoing(state, names, n, round)
            /\ Ended(SearchOn(round, names))
            /\ Search(state, names) = SearchOn(round, names).expected
      BY <2>1
    <2> DEFINE on == SearchOn(round, names)
               next == NextWays(round, names)
    <2>3. missing = on.expected
      BY <1>2, <2>2 DEF CollectMissingChildren
    <2>4. /\ on.frontier = next \ round.visited
          /\ on.expected = UNION {way[2] : way \in {w \in next : IsNullable[w[1]]}}
      <3>1. ~ Ended(round)
        BY <2>2 DEF Ongoing
      <3> QED
        BY <3>1, SearchOnIs
    <2> HIDE DEF on, missing, next
    <2>5. ASSUME NEW word \in Shortest(words)
          PROVE  /\ Len(word) \in Nat /\ n + 1 <= Len(word)
                 /\ \E t : /\ Completing(state, names, t, word, Len(word))
                           /\ <<t[n + 1], Mark(word, n + 1)>> \in on.frontier
      <3>1. word \in words /\ \A other \in words : Len(word) <= Len(other)
        BY DEF Shortest
      <3>2. Len(word) \in Nat /\ \E t : Completing(state, names, t, word, Len(word))
        BY <3>1, CompletionsAre
      <3>3. PICK t : Completing(state, names, t, word, Len(word))
        BY <3>2
      <3>4. Fewest(state, names, Len(word))
        BY <3>1, CompletionsAre DEF Fewest
      <3>5. n + 1 <= Len(word) /\ <<t[n + 1], Mark(word, n + 1)>> \in next \ round.visited
        BY <2>2, <3>2, <3>3, <3>4, ShortestGoesOn DEF next
      <3> QED
        BY <2>4, <3>2, <3>3, <3>5
    <2>6. words # {} => \E word \in words : word \in Shortest(words)
      <3> SUFFICES ASSUME words # {} PROVE \E word \in words : word \in Shortest(words)
        OBVIOUS
      <3> DEFINE lengths == {Len(word) : word \in words}
      <3>1. \A word \in words : Len(word) \in Nat
        BY CompletionsAre
      <3>2. lengths # {} /\ lengths \subseteq Nat
        BY <3>1
      <3> HIDE DEF lengths
      <3>3. PICK l \in lengths : \A k \in lengths : l <= k
        BY <3>2, LeastNumber
      <3>4. PICK word \in words : l = Len(word)
        BY DEF lengths
      <3>5. \A other \in words : Len(word) <= Len(other)
        BY <3>3, <3>4 DEF lengths
      <3> QED
        BY <3>4, <3>5 DEF Shortest
    <2>7. ASSUME NEW name \in missing
          PROVE  \E word \in words : Len(word) = n + 1 /\ word[1] = name
      <3>1. name \in SearchOn(round, names).expected
        BY <2>3 DEF on
      <3>2. PICK t, word : Completing(state, names, t, word, n + 1) /\ word[1] = name
        BY <2>2, <3>1, ExpectedCompletes
      <3>3. n + 1 \in Nat
        OBVIOUS
      <3>4. word \in words /\ Len(word) = n + 1
        BY <3>2, <3>3, CompletionsAre
      <3> QED
        BY <3>2, <3>4
    <2>8. missing = {} => words = {}
      <3> SUFFICES ASSUME missing = {}, words # {} PROVE FALSE
        OBVIOUS
      <3>1. on.frontier = {}
        BY <2>2, <2>3 DEF Ended, on
      <3> QED
        BY <2>5, <2>6, <3>1
    <2>9. \A name \in missing : name \in Beginnings(Shortest(words))
      <3> SUFFICES ASSUME NEW name \in missing PROVE name \in Beginnings(Shortest(words))
        OBVIOUS
      <3>1. PICK word \in words : Len(word) = n + 1 /\ word[1] = name
        BY <2>7
      <3>2. PICK least \in words : least \in Shortest(words)
        BY <2>6
      <3>3. Len(least) \in Nat /\ n + 1 <= Len(least)
        BY <2>5, <3>2
      <3>4. \A other \in words : Len(word) <= Len(other)
        <4> SUFFICES ASSUME NEW other \in words PROVE Len(word) <= Len(other)
          OBVIOUS
        <4>1. Len(least) <= Len(other)
          BY <3>2 DEF Shortest
        <4>2. Len(other) \in Nat
          BY CompletionsAre
        <4> QED
          BY <3>1, <3>3, <4>1, <4>2
      <3>5. word # <<>>
        <4>1. Len(<<>>) = 0 /\ n + 1 # 0
          OBVIOUS
        <4> QED
          BY <3>1, <4>1
      <3> QED
        BY <3>1, <3>4, <3>5 DEF Shortest, Beginnings
    <2>10. \A name \in Beginnings(Shortest(words)) : name \in missing
      <3> SUFFICES ASSUME NEW name \in Beginnings(Shortest(words)) PROVE name \in missing
        OBVIOUS
      <3>1. PICK word \in Shortest(words) : name = word[1]
        BY DEF Beginnings
      <3>2. PICK t : /\ Completing(state, names, t, word, Len(word))
                     /\ <<t[n + 1], Mark(word, n + 1)>> \in on.frontier
        BY <2>5, <3>1
      <3>3. Len(word) \in Nat /\ n + 1 <= Len(word)
        BY <2>5, <3>1
      <3>4. missing # {}
        <4>1. on.frontier # {}
          BY <3>2
        <4> QED
          BY <2>2, <2>3, <4>1 DEF Ended, on
      <3>5. PICK other \in words : Len(other) = n + 1
        BY <2>7, <3>4
      <3>6. Len(word) = n + 1
        BY <3>1, <3>3, <3>5 DEF Shortest
      <3>7. IsNullable[t[n + 1]]
        BY <3>2, <3>6 DEF Completing
      <3>8. <<t[n + 1], Mark(word, n + 1)>> \in next
        BY <2>4, <3>2
      <3>9. Mark(word, n + 1) = {name}
        BY <3>1 DEF Mark
      <3> QED
        BY <2>3, <2>4, <3>7, <3>8, <3>9
    <2> QED
      BY <2>8, <2>9, <2>10 DEF missing
  <1> QED
    BY <1>1, <1>2
=============================================================================
