------------------------------ MODULE Order_proofs ------------------------------
(***************************************************************************)
(* Facts about finite orders and sums that several proofs share.  An     *)
(* element's rank is the number of those ahead of it; ranks are 0, 1, ...  *)
(* without a gap or a tie.  Induction is by the least element of a set.    *)
(***************************************************************************)
EXTENDS Integers, Sequences, FiniteSets, Functions, FiniteSetTheorems, FunctionTheorems, TLAPS

\* In a chain, sets of those ahead differ in size, and every size up to that of the chain
\* occurs.
LEMMA ChainRanks ==
    ASSUME NEW S, IsFiniteSet(S), NEW ahead \in [S -> SUBSET S],
           \A x \in S : x \notin ahead[x],
           \A x, y \in S : x # y => \/ ahead[x] \cup {x} \subseteq ahead[y]
                                    \/ ahead[y] \cup {y} \subseteq ahead[x]
    PROVE  /\ \A x \in S : Cardinality(ahead[x]) \in 0 .. Cardinality(S) - 1
           /\ \A x, y \in S : Cardinality(ahead[x]) = Cardinality(ahead[y]) => x = y
           /\ \A i \in 0 .. Cardinality(S) - 1 : \E x \in S : Cardinality(ahead[x]) = i
<1>1. ASSUME NEW x \in S
      PROVE  IsFiniteSet(ahead[x]) /\ Cardinality(ahead[x]) \in 0 .. Cardinality(S) - 1
    <2>1. ahead[x] \in SUBSET (S \ {x})
        OBVIOUS
    <2>2. IsFiniteSet(S \ {x}) /\ Cardinality(S \ {x}) = Cardinality(S) - 1
        BY FS_RemoveElement
    <2>3. IsFiniteSet(ahead[x]) /\ Cardinality(ahead[x]) <= Cardinality(S \ {x})
        BY <2>1, <2>2, FS_Subset
    <2> QED BY <2>2, <2>3, FS_CardinalityType
<1>2. ASSUME NEW x \in S, NEW y \in S, ahead[x] \cup {x} \subseteq ahead[y]
      PROVE  Cardinality(ahead[x]) # Cardinality(ahead[y])
    <2>1. ahead[x] \in SUBSET ahead[y] /\ ahead[x] # ahead[y]
        BY <1>2
    <2> QED BY <2>1, <1>1, FS_Subset
<1>3. \A x, y \in S : Cardinality(ahead[x]) = Cardinality(ahead[y]) => x = y
    BY <1>2
<1> DEFINE rank == [x \in S |-> Cardinality(ahead[x])]
           Ranks == 0 .. Cardinality(S) - 1
<1>4. IsFiniteSet(Ranks) /\ Cardinality(Ranks) = Cardinality(S)
    <2>1. Cardinality(S) \in Nat
        BY FS_CardinalityType
    <2>2. 0 \in Int /\ Cardinality(S) - 1 \in Int
        BY <2>1
    <2>3. /\ IsFiniteSet(Ranks)
          /\ Cardinality(Ranks) = IF 0 > Cardinality(S) - 1 THEN 0
                                  ELSE Cardinality(S) - 1 - 0 + 1
        BY <2>2, FS_Interval
    <2> QED BY <2>1, <2>3
<1>5. rank \in Injection(S, Ranks)
    BY <1>1, <1>3 DEF Injection, IsInjective
<1>6. rank \in Surjection(S, Ranks)
    BY <1>4, <1>5, FS_Injection
<1>7. \A i \in Ranks : \E x \in S : rank[x] = i
    BY <1>6 DEF Surjection
<1> QED BY <1>1, <1>3, <1>7

\* The same for elements that are ordered by distinct integers.
LEMMA KeyRanks ==
    ASSUME NEW S, IsFiniteSet(S), NEW key, \A x \in S : key[x] \in Int,
           \A x, y \in S : key[x] = key[y] => x = y
    PROVE  \E ahead :
             /\ \A x \in S : ahead[x] = {y \in S : key[y] < key[x]}
             /\ \A x \in S : Cardinality(ahead[x]) \in 0 .. Cardinality(S) - 1
             /\ \A x, y \in S : Cardinality(ahead[x]) = Cardinality(ahead[y]) => x = y
             /\ \A i \in 0 .. Cardinality(S) - 1 : \E x \in S : Cardinality(ahead[x]) = i
<1> DEFINE ahead == [x \in S |-> {y \in S : key[y] < key[x]}]
<1>1. ahead \in [S -> SUBSET S] /\ \A x \in S : x \notin ahead[x]
    OBVIOUS
<1>2. ASSUME NEW x \in S, NEW y \in S, x # y
      PROVE  ahead[x] \cup {x} \subseteq ahead[y] \/ ahead[y] \cup {y} \subseteq ahead[x]
    <2>1. key[x] < key[y] \/ key[y] < key[x]
        BY <1>2
    <2> QED BY <2>1
<1>3. \A x \in S : ahead[x] = {y \in S : key[y] < key[x]}
    OBVIOUS
<1> HIDE DEF ahead
<1>4. /\ \A x \in S : Cardinality(ahead[x]) \in 0 .. Cardinality(S) - 1
      /\ \A x, y \in S : Cardinality(ahead[x]) = Cardinality(ahead[y]) => x = y
      /\ \A i \in 0 .. Cardinality(S) - 1 : \E x \in S : Cardinality(ahead[x]) = i
    BY <1>1, <1>2, ChainRanks
<1> QED BY <1>3, <1>4

\* Of a finite set of integers, one has i smaller ones, for each i up to the size.
LEMMA NumberRanks ==
    ASSUME NEW S, IsFiniteSet(S), \A x \in S : x \in Int
    PROVE  \A i \in 0 .. Cardinality(S) - 1 : \E x \in S : Cardinality({y \in S : y < x}) = i
<1>1. ASSUME NEW key, \A x \in S : key[x] = x
      PROVE  \A i \in 0 .. Cardinality(S) - 1 : \E x \in S : Cardinality({y \in S : y < x}) = i
    <2>1. \A x \in S : key[x] \in Int
        BY <1>1
    <2>2. \A x, y \in S : key[x] = key[y] => x = y
        BY <1>1
    <2>3. \A x \in S : {y \in S : key[y] < key[x]} = {y \in S : y < x}
        BY <1>1
    <2>4. PICK ahead :
            /\ \A x \in S : ahead[x] = {y \in S : key[y] < key[x]}
            /\ \A x \in S : Cardinality(ahead[x]) \in 0 .. Cardinality(S) - 1
            /\ \A x, y \in S : Cardinality(ahead[x]) = Cardinality(ahead[y]) => x = y
            /\ \A i \in 0 .. Cardinality(S) - 1 : \E x \in S : Cardinality(ahead[x]) = i
        BY <2>1, <2>2, KeyRanks
    <2> QED BY <2>3, <2>4
<1> DEFINE same == [x \in S |-> x]
<1>2. \A x \in S : same[x] = x
    OBVIOUS
<1> HIDE DEF same
<1> QED BY <1>1, <1>2

\* A finite set ordered by distinct integers has a least element.
LEMMA LeastByKey ==
    ASSUME NEW S, IsFiniteSet(S), S # {}, NEW key, \A x \in S : key[x] \in Int,
           \A x, y \in S : key[x] = key[y] => x = y
    PROVE  \E x \in S : \A y \in S : key[x] <= key[y]
<1>1. Cardinality(S) \in Nat /\ Cardinality(S) # 0
    BY FS_CardinalityType, FS_EmptySet
<1>2. PICK ahead :
        /\ \A x \in S : ahead[x] = {y \in S : key[y] < key[x]}
        /\ \A i \in 0 .. Cardinality(S) - 1 : \E x \in S : Cardinality(ahead[x]) = i
    BY KeyRanks
<1>3. 0 \in 0 .. Cardinality(S) - 1
    BY <1>1
<1>4. PICK x \in S : Cardinality(ahead[x]) = 0
    BY <1>2, <1>3
<1>5. ahead[x] \in SUBSET S
    BY <1>2
<1>6. ahead[x] = {}
    BY <1>4, <1>5, FS_Subset, FS_EmptySet
<1> QED BY <1>2, <1>6

\* Positions in rows of length L, counted through, are one number each.
LEMMA Lexicographic ==
    ASSUME NEW L \in Nat, NEW a \in Int, NEW b \in Int, NEW p \in 1 .. L, NEW q \in 1 .. L,
           a * L + p = b * L + q
    PROVE  a = b /\ p = q
<1>1. ASSUME NEW c \in Int, NEW d \in Int, NEW x \in 1 .. L, NEW y \in 1 .. L, c < d
      PROVE  c * L + x # d * L + y
    <2>1. PICK e \in Nat : d = c + e + 1
        <3>1. d - c - 1 \in Nat /\ d = c + (d - c - 1) + 1
            BY <1>1
        <3> QED BY <3>1
    <2>2. d * L = c * L + e * L + L
        BY <2>1
    <2>3. e * L >= 0
        BY <2>1
    <2> QED BY <2>2, <2>3
<1>2. a = b
    BY <1>1
<1> QED BY <1>2

\* ... also when the rows are counted downwards.
LEMMA LexicographicDown ==
    ASSUME NEW L \in Nat, NEW a \in Int, NEW b \in Int, NEW p \in 1 .. L, NEW q \in 1 .. L,
           p - a * L = q - b * L
    PROVE  a = b /\ p = q
<1>1. ASSUME NEW c \in Int, NEW d \in Int, NEW x \in 1 .. L, NEW y \in 1 .. L, c < d
      PROVE  x - c * L # y - d * L
    <2>1. PICK e \in Nat : d = c + e + 1
        <3>1. d - c - 1 \in Nat /\ d = c + (d - c - 1) + 1
            BY <1>1
        <3> QED BY <3>1
    <2>2. d * L = c * L + e * L + L
        BY <2>1
    <2>3. e * L >= 0
        BY <2>1
    <2> QED BY <2>2, <2>3
<1>2. a = b
    BY <1>1
<1> QED BY <1>2

\* The values of a function on a finite set are finitely many, no more than its elements.
LEMMA ImageFinite ==
    ASSUME NEW S, IsFiniteSet(S), NEW f
    PROVE  /\ IsFiniteSet({f[x] : x \in S})
           /\ Cardinality({f[x] : x \in S}) =< Cardinality(S)
<1> DEFINE g == [x \in S |-> f[x]]
<1>1. g \in Surjection(S, {f[x] : x \in S})
    BY DEF Surjection
<1> QED BY <1>1, FS_Surjection

\* A set of natural numbers has a least one.
LEMMA LeastElement ==
    ASSUME NEW S \in SUBSET Nat, S # {}
    PROVE  \E x \in S : \A y \in S : x <= y
<1>1. PICK n \in S : TRUE
    OBVIOUS
<1> DEFINE T == {x \in S : x <= n}
<1>2. IsFiniteSet(T) /\ T # {}
    BY FS_BoundedSetOfNaturals
<1> DEFINE key == [x \in T |-> x]
<1>3. \A x \in T : key[x] = x /\ key[x] \in Int
    OBVIOUS
<1>4. \A x, y \in T : key[x] = key[y] => x = y
    OBVIOUS
<1>5. \A x \in S \ T, y \in T : y <= x
    OBVIOUS
<1> HIDE DEF key, T
<1>6. PICK x \in T : \A y \in T : key[x] <= key[y]
    BY <1>2, <1>3, <1>4, LeastByKey
<1>7. x \in S
    BY DEF T
<1> QED BY <1>3, <1>5, <1>6, <1>7

\* Induction up to n, over the set of numbers that have the property.
LEMMA InductionUpTo ==
    ASSUME NEW n \in Nat, NEW S, 0 \in S, \A i \in 0 .. n - 1 : i \in S => i + 1 \in S
    PROVE  \A i \in 0 .. n : i \in S
<1> SUFFICES ASSUME NEW m \in 0 .. n, m \notin S PROVE FALSE
    OBVIOUS
<1> DEFINE T == {i \in 0 .. n : i \notin S}
<1>1. T \in SUBSET Nat /\ T # {}
    OBVIOUS
<1>2. PICK i \in T : \A j \in T : i <= j
    BY <1>1, LeastElement
<1>3. i # 0 /\ i - 1 \in 0 .. n - 1 /\ i - 1 \notin T
    BY <1>2
<1> QED BY <1>2, <1>3

-----------------------------------------------------------------------------
(***************************************************************************)
(* Sums over a finite set.  The library's SumFunctionOnSet folds over the  *)
(* set, one element chosen at a time; Partial says what its fold has.      *)
(***************************************************************************)
Some(T) == CHOOSE x \in T : TRUE

Partial(sums, w, T) == IF T = {} THEN 0 ELSE w[Some(T)] + sums[T \ {Some(T)}]

LEMMA SomeIsIn ==
    ASSUME NEW T, T # {}
    PROVE  Some(T) \in T
BY DEF Some

\* Sets that are smaller by an element are smaller by one.
LEMMA SmallerByOne ==
    ASSUME NEW T, IsFiniteSet(T), NEW x \in T
    PROVE  IsFiniteSet(T \ {x}) /\ Cardinality(T) \in Nat \ {0}
           /\ Cardinality(T \ {x}) = Cardinality(T) - 1
BY FS_RemoveElement, FS_CardinalityType, FS_EmptySet

\* The fold is the sum: a function on all subsets that satisfies the equation exists.
LEMMA SumExists ==
    ASSUME NEW S, IsFiniteSet(S), NEW w
    PROVE  \E sums : /\ \A T \in SUBSET S : sums[T] = Partial(sums, w, T)
                     /\ SumFunctionOnSet(w, S) = sums[S]
<1> DEFINE Up(sums) == sums = [T \in SUBSET S |-> IF T = {} THEN 0
                                  ELSE w[CHOOSE x \in T : TRUE] + sums[T \ {CHOOSE x \in T : TRUE}]]
           fold == CHOOSE sums : Up(sums)
           n == Cardinality(S)
           Has(sums, m) == \A T \in SUBSET S : Cardinality(T) <= m => sums[T] = Partial(sums, w, T)
           Reached == {m \in 0 .. n : \E sums : Has(sums, m)}
<1>1. SumFunctionOnSet(w, S) = fold[S]
    BY DEF SumFunctionOnSet, FoldFunctionOnSet, MapThenFoldSet
<1>2. \A T \in SUBSET S :
        IsFiniteSet(T) /\ Cardinality(T) \in 0 .. n /\ (T = {} <=> Cardinality(T) = 0)
    BY FS_Subset, FS_CardinalityType, FS_EmptySet
<1>3. n \in Nat
    BY FS_CardinalityType
<1> HIDE DEF n
<1>4. 0 \in Reached
    <2>1. Has([T \in SUBSET S |-> 0], 0)
        BY <1>2 DEF Partial
    <2> HIDE DEF Has
    <2> QED BY <1>3, <2>1
<1>5. ASSUME NEW m \in 0 .. n - 1, m \in Reached
      PROVE  m + 1 \in Reached
    <2>1. PICK sums : Has(sums, m)
        BY <1>5
    <2> DEFINE more == [T \in SUBSET S |-> IF Cardinality(T) <= m THEN sums[T]
                                           ELSE Partial(sums, w, T)]
    <2>2. ASSUME NEW T \in SUBSET S, Cardinality(T) <= m + 1
          PROVE  more[T] = Partial(more, w, T)
        <3>1. CASE T = {}
            BY <1>2, <2>1, <3>1 DEF Partial
        <3>2. CASE T # {}
            <4> DEFINE U == T \ {Some(T)}
            <4>1. U \in SUBSET S /\ Cardinality(U) = Cardinality(T) - 1
                BY <1>2, <3>2, SomeIsIn, SmallerByOne
            <4>2. Cardinality(T) \in Nat /\ Cardinality(U) <= m
                BY <1>2, <2>2, <4>1
            <4>3. more[U] = sums[U]
                BY <4>1, <4>2
            <4>4. more[T] = Partial(sums, w, T)
                BY <2>1
            <4> QED BY <3>2, <4>3, <4>4 DEF Partial
        <3> QED BY <3>1, <3>2
    <2>3. Has(more, m + 1)
        BY ONLY <2>2
    <2>4. m + 1 \in 0 .. n
        BY <1>3
    <2> HIDE DEF Has, more
    <2> QED BY <2>3, <2>4
<1> HIDE DEF Reached
<1>6. n \in Reached
    <2>1. \A m \in 0 .. n : m \in Reached
        BY ONLY <1>3, <1>4, <1>5, InductionUpTo
    <2> QED BY <1>3, <2>1
<1>7. PICK sums : Has(sums, n)
    BY <1>6 DEF Reached
<1>8. Up([T \in SUBSET S |-> sums[T]])
    <2>1. \A T \in SUBSET S : sums[T] = Partial(sums, w, T)
        BY <1>2, <1>3, <1>7
    <2>2. \A T \in SUBSET S : T # {} => T \ {CHOOSE x \in T : TRUE} \in SUBSET S
        OBVIOUS
    <2> QED BY <2>1, <2>2 DEF Partial, Some
<1> HIDE DEF Up
<1>9. Up(fold)
    BY <1>8
<1> HIDE DEF fold
<1>10. \A T \in SUBSET S : fold[T] = Partial(fold, w, T)
    BY <1>9 DEF Up, Partial, Some
<1> QED BY <1>1, <1>10

\* There is only one, so that of a subset is the same.
LEMMA SumIsUnique ==
    ASSUME NEW S, IsFiniteSet(S), NEW w, NEW v, \A x \in S : v[x] = w[x],
           NEW sums, NEW others,
           \A T \in SUBSET S : sums[T] = Partial(sums, w, T),
           \A T \in SUBSET S : others[T] = Partial(others, v, T)
    PROVE  \A T \in SUBSET S : sums[T] = others[T]
<1> DEFINE n == Cardinality(S)
           Same == {m \in 0 .. n : \A T \in SUBSET S : Cardinality(T) = m => sums[T] = others[T]}
<1>1. \A T \in SUBSET S :
        IsFiniteSet(T) /\ Cardinality(T) \in 0 .. n /\ (T = {} <=> Cardinality(T) = 0)
    BY FS_Subset, FS_CardinalityType, FS_EmptySet
<1>2. n \in Nat
    BY FS_CardinalityType
<1> HIDE DEF n
<1>3. 0 \in Same
    BY <1>1, <1>2 DEF Partial
<1>4. ASSUME NEW m \in 0 .. n - 1, m \in Same
      PROVE  m + 1 \in Same
    <2>1. ASSUME NEW T \in SUBSET S, Cardinality(T) = m + 1
          PROVE  sums[T] = others[T]
        <3>1. T # {} /\ Some(T) \in T /\ T \ {Some(T)} \in SUBSET S
            BY <1>1, <2>1, SomeIsIn
        <3>2. Cardinality(T \ {Some(T)}) = m
            BY <1>1, <2>1, <3>1, SmallerByOne
        <3>3. sums[T \ {Some(T)}] = others[T \ {Some(T)}]
            BY <1>4, <3>1, <3>2
        <3> QED BY <3>1, <3>3 DEF Partial
    <2> QED BY <1>2, <2>1
<1> HIDE DEF Same
<1>5. \A m \in 0 .. n : m \in Same
    BY ONLY <1>2, <1>3, <1>4, InductionUpTo
<1> QED BY <1>1, <1>5 DEF Same

\* The equation in terms of the operator itself.
LEMMA SumEquation ==
    ASSUME NEW S, IsFiniteSet(S), NEW w
    PROVE  SumFunctionOnSet(w, S) =
               IF S = {} THEN 0 ELSE w[Some(S)] + SumFunctionOnSet(w, S \ {Some(S)})
<1>1. PICK sums : /\ \A T \in SUBSET S : sums[T] = Partial(sums, w, T)
                  /\ SumFunctionOnSet(w, S) = sums[S]
    BY SumExists
<1>2. CASE S = {}
    BY <1>1, <1>2 DEF Partial
<1>3. CASE S # {}
    <2> DEFINE T == S \ {Some(S)}
    <2>1. IsFiniteSet(T) /\ SUBSET T \subseteq SUBSET S
        BY FS_Subset
    <2>2. PICK others : /\ \A U \in SUBSET T : others[U] = Partial(others, w, U)
                        /\ SumFunctionOnSet(w, T) = others[T]
        BY <2>1, SumExists
    <2>3. \A U \in SUBSET T : sums[U] = Partial(sums, w, U)
        BY <1>1, <2>1
    <2>4. sums[T] = others[T]
        <3>1. \A x \in T : w[x] = w[x]
            OBVIOUS
        <3> HIDE DEF T
        <3>2. \A U \in SUBSET T : sums[U] = others[U]
            BY ONLY <2>1, <2>2, <2>3, <3>1, SumIsUnique
        <3> QED BY <3>2
    <2> QED BY <1>1, <1>3, <2>2, <2>4 DEF Partial
<1> QED BY <1>2, <1>3

\* Only the values on the set count.
LEMMA SumOfSame ==
    ASSUME NEW S, IsFiniteSet(S), NEW w, NEW v, \A x \in S : v[x] = w[x]
    PROVE  SumFunctionOnSet(v, S) = SumFunctionOnSet(w, S)
<1>1. PICK sums : /\ \A T \in SUBSET S : sums[T] = Partial(sums, w, T)
                  /\ SumFunctionOnSet(w, S) = sums[S]
    BY SumExists
<1>2. PICK others : /\ \A T \in SUBSET S : others[T] = Partial(others, v, T)
                    /\ SumFunctionOnSet(v, S) = others[S]
    BY SumExists
<1>3. \A T \in SUBSET S : sums[T] = others[T]
    BY ONLY IsFiniteSet(S), \A x \in S : v[x] = w[x], <1>1, <1>2, SumIsUnique
<1> QED BY <1>1, <1>2, <1>3

\* Any element may be taken out first.
LEMMA SumSplits ==
    ASSUME NEW S, IsFiniteSet(S), NEW w, \A x \in S : w[x] \in Int
    PROVE  /\ SumFunctionOnSet(w, S) \in Int
           /\ \A x \in S : SumFunctionOnSet(w, S) = w[x] + SumFunctionOnSet(w, S \ {x})
<1> DEFINE n == Cardinality(S)
           Sum(T) == SumFunctionOnSet(w, T)
           Splits(T) == Sum(T) \in Int /\ \A x \in T : Sum(T) = w[x] + Sum(T \ {x})
           Good == {m \in 0 .. n : \A T \in SUBSET S : Cardinality(T) <= m => Splits(T)}
<1>1. \A T \in SUBSET S :
        IsFiniteSet(T) /\ Cardinality(T) \in 0 .. n /\ (T = {} <=> Cardinality(T) = 0)
    BY FS_Subset, FS_CardinalityType, FS_EmptySet
<1>2. n \in Nat
    BY FS_CardinalityType
<1>3. \A T \in SUBSET S : Sum(T) = IF T = {} THEN 0 ELSE w[Some(T)] + Sum(T \ {Some(T)})
    BY <1>1, SumEquation
<1> HIDE DEF n, Sum
<1>4. 0 \in Good
    <2>1. \A T \in SUBSET S : Cardinality(T) <= 0 => T = {}
        BY <1>1, <1>2
    <2>2. Splits({})
        <3>1. {} \in SUBSET S
            OBVIOUS
        <3>2. Sum({}) = 0
            BY <1>3, <3>1
        <3> QED BY <3>2
    <2> HIDE DEF Splits
    <2> QED BY <1>2, <2>1, <2>2
<1>5. ASSUME NEW m \in 0 .. n - 1, m \in Good
      PROVE  m + 1 \in Good
    <2>1. ASSUME NEW T \in SUBSET S, Cardinality(T) = m + 1
          PROVE  Splits(T)
        <3> DEFINE p == Some(T)
        <3>1. T # {} /\ p \in T /\ p \in S
            BY <1>1, <2>1, SomeIsIn
        <3>2. \A x \in T : T \ {x} \in SUBSET S /\ Cardinality(T \ {x}) = m
            BY <1>1, <2>1, SmallerByOne
        <3>0. \A U \in SUBSET S : Cardinality(U) <= m => Splits(U)
            BY <1>5
        <3> HIDE DEF Good
        <3>3. \A x \in T : Splits(T \ {x})
            <4> HIDE DEF Splits
            <4> QED BY <3>0, <3>2
        <3>4. Sum(T) = w[p] + Sum(T \ {p})
            BY <1>3, <3>1
        <3> HIDE DEF p
        <3>5. ASSUME NEW x \in T, x # p
              PROVE  Sum(T) = w[x] + Sum(T \ {x})
            <4> DEFINE U == T \ {p, x}
            <4>1. (T \ {x}) \ {p} = U /\ (T \ {p}) \ {x} = U
                OBVIOUS
            <4>2. Sum(T \ {x}) = w[p] + Sum(U)
                BY <3>1, <3>3, <3>5, <4>1
            <4>3. Sum(T \ {p}) = w[x] + Sum(U)
                BY <3>1, <3>3, <3>5, <4>1
            <4>4. Sum(U) \in Int
                <5>1. U \in SUBSET S /\ IsFiniteSet(T \ {p}) /\ x \in T \ {p}
                    BY <1>1, <3>5
                <5>2. Cardinality((T \ {p}) \ {x}) = Cardinality(T \ {p}) - 1
                    BY <5>1, SmallerByOne
                <5>3. Cardinality(U) <= m
                    BY <4>1, <5>2, <3>1, <3>2
                <5>4. Splits(U)
                    <6> HIDE DEF Splits, U
                    <6> QED BY <3>0, <5>1, <5>3
                <5> QED BY <5>4 DEF Splits
            <4>5. w[x] \in Int /\ w[p] \in Int
                BY <3>1
            <4> HIDE DEF U
            <4> QED BY <3>4, <4>2, <4>3, <4>4, <4>5
        <3>6. Sum(T) \in Int
            BY <3>1, <3>3, <3>4
        <3> QED BY <3>4, <3>5, <3>6
    <2>2. \A T \in SUBSET S :
            Cardinality(T) <= m + 1 => Cardinality(T) <= m \/ Cardinality(T) = m + 1
        BY <1>1, <1>2
    <2> QED BY <1>2, <1>5, <2>1, <2>2
<1> HIDE DEF Good
<1>6. \A m \in 0 .. n : m \in Good
    BY ONLY <1>2, <1>4, <1>5, InductionUpTo
<1>7. Splits(S)
    BY <1>1, <1>2, <1>6 DEF Good
<1> QED BY <1>7 DEF Sum

\* Induction by adding one element after another.
LEMMA SetInduction ==
    ASSUME NEW S, IsFiniteSet(S), NEW Good, {} \in Good,
           \A T \in SUBSET S : T \in Good => \A x \in S \ T : T \cup {x} \in Good
    PROVE  S \in Good
<1> DEFINE n == Cardinality(S)
           Sizes == {m \in 0 .. n : \A T \in SUBSET S : Cardinality(T) = m => T \in Good}
<1>1. \A T \in SUBSET S :
        IsFiniteSet(T) /\ Cardinality(T) \in 0 .. n /\ (T = {} <=> Cardinality(T) = 0)
    BY FS_Subset, FS_CardinalityType, FS_EmptySet
<1>2. n \in Nat
    BY FS_CardinalityType
<1> HIDE DEF n
<1>3. 0 \in Sizes
    BY <1>1, <1>2
<1>4. ASSUME NEW m \in 0 .. n - 1, m \in Sizes
      PROVE  m + 1 \in Sizes
    <2>1. ASSUME NEW T \in SUBSET S, Cardinality(T) = m + 1
          PROVE  T \in Good
        <3>1. PICK x \in T : TRUE
            BY <1>1, <2>1
        <3>2. Cardinality(T \ {x}) = m
            BY <1>1, <2>1, <3>1, SmallerByOne
        <3>3. T \ {x} \in Good
            BY <1>4, <3>2
        <3>4. x \in S \ (T \ {x}) /\ (T \ {x}) \cup {x} = T /\ T \ {x} \in SUBSET S
            BY <3>1
        <3> QED BY <3>3, <3>4
    <2> QED BY <1>2, <2>1
<1> HIDE DEF Sizes
<1>5. \A m \in 0 .. n : m \in Sizes
    BY ONLY <1>2, <1>3, <1>4, InductionUpTo
<1> QED BY <1>1, <1>2, <1>5 DEF Sizes, n

\* What holds between the values holds between the sums.
LEMMA SumIsBounded ==
    ASSUME NEW S, IsFiniteSet(S), NEW a, NEW b, \A x \in S : a[x] \in Int /\ b[x] \in Int,
           NEW c \in Int, NEW e \in Int, NEW d \in Int, \A x \in S : c * a[x] <= e * b[x] + d
    PROVE  c * SumFunctionOnSet(a, S) <= e * SumFunctionOnSet(b, S) + d * Cardinality(S)
<1> DEFINE Holds(T) ==
                c * SumFunctionOnSet(a, T) <= e * SumFunctionOnSet(b, T) + d * Cardinality(T)
           Good == {T \in SUBSET S : Holds(T)}
<1>1. {} \in Good
    <2>1. SumFunctionOnSet(a, {}) = 0 /\ SumFunctionOnSet(b, {}) = 0 /\ Cardinality({}) = 0
        BY FS_EmptySet, SumEquation
    <2>2. c * 0 = 0 /\ d * 0 = 0 /\ e * 0 = 0
        OBVIOUS
    <2>3. Holds({})
        BY <2>1, <2>2
    <2> HIDE DEF Holds
    <2> QED BY <2>3
<1>2. ASSUME NEW T \in SUBSET S, T \in Good, NEW x \in S \ T
      PROVE  T \cup {x} \in Good
    <2> DEFINE U == T \cup {x}
    <2>1. IsFiniteSet(T) /\ IsFiniteSet(U) /\ x \in U /\ U \ {x} = T
        BY FS_Subset
    <2>2. /\ SumFunctionOnSet(a, T) \in Int /\ SumFunctionOnSet(b, T) \in Int
          /\ Cardinality(T) \in Nat
        <3>1. \A y \in T : a[y] \in Int /\ b[y] \in Int
            BY <1>2
        <3> QED BY <2>1, <3>1, SumSplits, FS_CardinalityType
    <2>3. Cardinality(U) = Cardinality(T) + 1
        BY <2>1, <2>2, SmallerByOne
    <2>4. SumFunctionOnSet(a, U) = a[x] + SumFunctionOnSet(a, T)
        <3>1. \A y \in U : a[y] \in Int
            BY <1>2
        <3> HIDE DEF U
        <3> QED BY <2>1, <3>1, SumSplits
    <2>5. SumFunctionOnSet(b, U) = b[x] + SumFunctionOnSet(b, T)
        <3>1. \A y \in U : b[y] \in Int
            BY <1>2
        <3> HIDE DEF U
        <3> QED BY <2>1, <3>1, SumSplits
    <2>6. ASSUME NEW s \in Int, NEW t \in Int, NEW n \in Nat, NEW p \in Int, NEW q \in Int,
                 c * s <= e * t + d * n, c * p <= e * q + d
          PROVE  c * (p + s) <= e * (q + t) + d * (n + 1)
        <3>1. /\ c * (p + s) = c * p + c * s /\ d * (n + 1) = d * n + d
              /\ e * (q + t) = e * q + e * t
            OBVIOUS
        <3>2. {c * p, c * s, d * n, e * q, e * t} \subseteq Int
            OBVIOUS
        <3> QED BY <2>6, <3>1, <3>2
    <2>7. /\ a[x] \in Int /\ b[x] \in Int /\ c * a[x] <= e * b[x] + d
          /\ c * SumFunctionOnSet(a, T) <= e * SumFunctionOnSet(b, T) + d * Cardinality(T)
        BY <1>2
    <2> HIDE DEF U
    <2>8. Holds(U)
        BY ONLY <2>2, <2>3, <2>4, <2>5, <2>6, <2>7
    <2>9. U \in SUBSET S
        BY DEF U
    <2> HIDE DEF Holds
    <2> QED BY <2>8, <2>9 DEF U
<1> HIDE DEF Good
<1>3. S \in Good
    BY ONLY IsFiniteSet(S), <1>1, <1>2, SetInduction
<1> QED BY <1>3 DEF Good

LEMMA SumIsLinear ==
    ASSUME NEW S, IsFiniteSet(S), NEW a, NEW b, \A x \in S : a[x] \in Int /\ b[x] \in Int,
           NEW c \in Int, NEW d \in Int, \A x \in S : b[x] = c * a[x] + d
    PROVE  SumFunctionOnSet(b, S) = c * SumFunctionOnSet(a, S) + d * Cardinality(S)
<1>1. \A x \in S : 1 * b[x] <= c * a[x] + d
    OBVIOUS
<1>2. 1 * SumFunctionOnSet(b, S) <= c * SumFunctionOnSet(a, S) + d * Cardinality(S)
    BY ONLY IsFiniteSet(S), \A x \in S : a[x] \in Int /\ b[x] \in Int, c \in Int, d \in Int,
            1 \in Int, <1>1, SumIsBounded
<1>3. \A x \in S : c * a[x] <= 1 * b[x] + (-d)
    OBVIOUS
<1>4. c * SumFunctionOnSet(a, S) <= 1 * SumFunctionOnSet(b, S) + (-d) * Cardinality(S)
    BY ONLY IsFiniteSet(S), \A x \in S : a[x] \in Int /\ b[x] \in Int, c \in Int, -d \in Int,
            1 \in Int, <1>3, SumIsBounded
<1>5. /\ SumFunctionOnSet(a, S) \in Int /\ SumFunctionOnSet(b, S) \in Int
      /\ Cardinality(S) \in Nat
    BY SumSplits, FS_CardinalityType
<1>6. /\ c * SumFunctionOnSet(a, S) \in Int /\ d * Cardinality(S) \in Int
      /\ (-d) * Cardinality(S) = -(d * Cardinality(S))
    BY <1>5
<1> QED BY <1>2, <1>4, <1>5, <1>6

\* A sum of natural numbers is one, and none of them is greater.
LEMMA SumOfNaturals ==
    ASSUME NEW S, IsFiniteSet(S), NEW w, \A x \in S : w[x] \in Nat
    PROVE  /\ SumFunctionOnSet(w, S) \in Nat
           /\ \A x \in S : w[x] <= SumFunctionOnSet(w, S)
<1>1. ASSUME NEW T, IsFiniteSet(T), \A x \in T : w[x] \in Nat
      PROVE  SumFunctionOnSet(w, T) \in Nat
    <2>1. \A x \in T : w[x] \in Int /\ 0 * w[x] <= 1 * w[x] + 0
        BY <1>1
    <2>2. 0 * SumFunctionOnSet(w, T) <= 1 * SumFunctionOnSet(w, T) + 0 * Cardinality(T)
        BY ONLY IsFiniteSet(T), <1>1, <2>1, 0 \in Int, 1 \in Int, SumIsBounded
    <2>3. SumFunctionOnSet(w, T) \in Int /\ Cardinality(T) \in Nat
        BY <1>1, <2>1, SumSplits, FS_CardinalityType
    <2> QED BY <2>2, <2>3
<1>2. ASSUME NEW x \in S
      PROVE  w[x] <= SumFunctionOnSet(w, S)
    <2>1. IsFiniteSet(S \ {x})
        BY FS_Subset
    <2>2. SumFunctionOnSet(w, S \ {x}) \in Nat
        BY <1>1, <2>1
    <2>3. SumFunctionOnSet(w, S) = w[x] + SumFunctionOnSet(w, S \ {x})
        BY SumSplits
    <2> QED BY <2>2, <2>3
<1> QED BY <1>1, <1>2

\* What is zero may be left out.
LEMMA SumOfPositive ==
    ASSUME NEW S, IsFiniteSet(S), NEW w, \A x \in S : w[x] \in Nat
    PROVE  SumFunctionOnSet(w, S) = SumFunctionOnSet(w, {x \in S : w[x] > 0})
<1> DEFINE Positive(T) == {x \in T : w[x] > 0}
           Good == {T \in SUBSET S : SumFunctionOnSet(w, T) = SumFunctionOnSet(w, Positive(T))}
<1>1. {} \in Good
    <2>1. Positive({}) = {}
        OBVIOUS
    <2> HIDE DEF Positive
    <2> QED BY <2>1
<1>2. ASSUME NEW T \in SUBSET S, T \in Good, NEW x \in S \ T
      PROVE  T \cup {x} \in Good
    <2> DEFINE U == T \cup {x}
    <2>1. IsFiniteSet(U) /\ x \in U /\ U \ {x} = T /\ \A y \in U : w[y] \in Int
        BY FS_Subset
    <2>2. SumFunctionOnSet(w, U) = w[x] + SumFunctionOnSet(w, T)
        <3> HIDE DEF U
        <3> QED BY <2>1, SumSplits
    <2>3. CASE w[x] = 0
        <3>1. Positive(U) = Positive(T)
            BY <2>3
        <3>2. SumFunctionOnSet(w, T) \in Int
            BY <2>1, SumSplits, FS_Subset
        <3>3. SumFunctionOnSet(w, T) = SumFunctionOnSet(w, Positive(T))
            BY <1>2
        <3> HIDE DEF Positive
        <3> QED BY <2>2, <2>3, <3>1, <3>2, <3>3
    <2>4. CASE w[x] # 0
        <3> DEFINE P == Positive(U)
        <3>1. x \in P /\ P \ {x} = Positive(T) /\ IsFiniteSet(P) /\ \A y \in P : w[y] \in Int
            BY <2>1, <2>4, FS_Subset
        <3>2. SumFunctionOnSet(w, P) = w[x] + SumFunctionOnSet(w, Positive(T))
            <4> HIDE DEF P
            <4> QED BY <3>1, SumSplits
        <3>3. SumFunctionOnSet(w, T) = SumFunctionOnSet(w, Positive(T))
            BY <1>2
        <3> HIDE DEF Positive
        <3> QED BY <2>2, <3>2, <3>3
    <2> QED BY <2>3, <2>4
<1> HIDE DEF Good
<1>3. S \in Good
    BY ONLY IsFiniteSet(S), <1>1, <1>2, SetInduction
<1> QED BY <1>3 DEF Good
=============================================================================
