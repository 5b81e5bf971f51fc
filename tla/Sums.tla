-------------------------------- MODULE Sums --------------------------------
(***************************************************************************)
(* Facts about SumFunctionOnSet, the sum of a function over a finite set,  *)
(* that the books of the ledger are stated with: the sum of the empty set, *)
(* of a set with one more element, of functions that agree, differ in one  *)
(* value or are added.                                                     *)
(*                                                                         *)
(* The library defines the sum by recursion, with an element CHOOSEn from  *)
(* the set at every step.  That the recursion has a solution, and that the *)
(* order does not matter, is shown by minimal counterexamples: the least   *)
(* number and the least set at which it would fail.                        *)
(***************************************************************************)
EXTENDS Integers, FiniteSets, Functions, FiniteSetTheorems, WellFoundedInduction, TLAPS

\* A set of numbers has a least one.
LEMMA LeastNat ==
    ASSUME NEW B \in SUBSET Nat, B # {}
    PROVE  \E n \in B : \A m \in B : n <= m
  <1> DEFINE R == OpToRel(<, Nat)
  <1>1. IsWellFoundedOn(R, Nat)
    BY NatLessThanWellFounded, Zenon
  <1>2. \A m, n \in Nat : m < n => <<m, n>> \in R
    BY DEF OpToRel
  <1> HIDE DEF R
  <1>3. PICK n \in B : \A m \in B : ~ (<<m, n>> \in R)
    BY <1>1, WFMin
  <1>4. \A m \in B : ~ (m < n)
    BY <1>2, <1>3
  <1> QED
    BY <1>4

\* Of subsets of a finite set one has no other below it.
LEMMA MinimalSubset ==
    ASSUME NEW S, IsFiniteSet(S), NEW B \in SUBSET SUBSET S, B # {}
    PROVE  \E T \in B : \A U \in B : U \subseteq T => U = T
  <1> DEFINE R == StrictSubsetOrdering(S)
  <1>1. IsWellFoundedOn(R, SUBSET S)
    BY FS_StrictSubsetOrderingWellFounded, FS_FiniteSubsetsOfFinite
  <1>2. PICK T \in B : \A U \in B : ~ (<<U, T>> \in R)
    BY <1>1, WFMin
  <1> QED
    BY <1>2 DEF StrictSubsetOrdering

-----------------------------------------------------------------------------
Pick(T) == CHOOSE x \in T : TRUE

\* The recursion of the sum, with the sums of smaller sets taken from g.
Body(f, g, T) == IF T = {} THEN 0 ELSE f[Pick(T)] + g[T \ {Pick(T)}]

Sums(f, g, S) == g = [T \in SUBSET S |-> Body(f, g, T)]

SumIsChosen(f, S) == SumFunctionOnSet(f, S) = (CHOOSE g : Sums(f, g, S))[S]

LEMMA SumUnfolded ==
    ASSUME NEW f, NEW S
    PROVE  SumIsChosen(f, S)
  BY DEF SumIsChosen, SumFunctionOnSet, FoldFunctionOnSet, MapThenFoldSet, Sums, Body, Pick

LEMMA PickIn ==
    ASSUME NEW T, T # {}
    PROVE  Pick(T) \in T
  BY DEF Pick

SumsTo(f, S, n) ==
    \E g \in [SUBSET S -> Int] : \A T \in SUBSET S : Cardinality(T) <= n => g[T] = Body(f, g, T)

\* Solutions up to any cardinality.
LEMMA SumsUpTo ==
    ASSUME NEW S, IsFiniteSet(S), NEW f, \A x \in S : f[x] \in Int, NEW n \in Nat
    PROVE  SumsTo(f, S, n)
  <1> DEFINE B == {m \in Nat : ~SumsTo(f, S, m)}
  <1> SUFFICES ASSUME B # {} PROVE FALSE
    OBVIOUS
  <1>1. PICK k \in B : \A m \in B : k <= m
    BY LeastNat
  <1>2. \A T \in SUBSET S : IsFiniteSet(T) /\ Cardinality(T) \in Nat
    BY FS_Subset, FS_CardinalityType
  <1>3. k # 0
    <2> DEFINE g == [T \in SUBSET S |-> 0]
    <2>1. g \in [SUBSET S -> Int]
      OBVIOUS
    <2>2. \A T \in SUBSET S : Cardinality(T) <= 0 => g[T] = Body(f, g, T)
      BY <1>2, FS_EmptySet DEF Body
    <2>3. SumsTo(f, S, 0)
      BY <2>1, <2>2 DEF SumsTo
    <2> QED
      BY <2>3
  <1>4. SumsTo(f, S, k - 1)
    <2>1. k \in Nat /\ k - 1 \in Nat /\ k - 1 \notin B
      BY <1>1, <1>3
    <2> QED
      BY <2>1
  <1>5. PICK g \in [SUBSET S -> Int] :
            \A T \in SUBSET S : Cardinality(T) <= k - 1 => g[T] = Body(f, g, T)
    BY <1>4 DEF SumsTo
  <1> DEFINE h == [T \in SUBSET S |-> Body(f, g, T)]
  <1>6. h \in [SUBSET S -> Int]
    <2> SUFFICES ASSUME NEW T \in SUBSET S PROVE Body(f, g, T) \in Int
      OBVIOUS
    <2> QED
      BY PickIn, <1>5 DEF Body
  <1>7. ASSUME NEW T \in SUBSET S, Cardinality(T) <= k PROVE h[T] = Body(f, h, T)
    <2>1. CASE T = {}
      BY <2>1 DEF Body
    <2>2. CASE T # {}
      <3> DEFINE U == T \ {Pick(T)}
      <3>1. U \in SUBSET S /\ Cardinality(U) = Cardinality(T) - 1
        BY <1>2, <2>2, PickIn, FS_RemoveElement
      <3>2. Cardinality(U) <= k - 1
        BY <1>1, <1>2, <1>7, <3>1
      <3>3. h[U] = g[U]
        BY <1>5, <3>1, <3>2
      <3> QED
        BY <2>2, <3>3 DEF Body
    <2> QED
      BY <2>1, <2>2
  <1> HIDE DEF h
  <1>8. SumsTo(f, S, k)
    BY <1>6, <1>7 DEF SumsTo
  <1> QED
    BY <1>1, <1>8

\* The chosen recursion is one, and the only one.
LEMMA SumsExist ==
    ASSUME NEW S, IsFiniteSet(S), NEW f, \A x \in S : f[x] \in Int
    PROVE  \E g \in [SUBSET S -> Int] : Sums(f, g, S)
  <1>1. Cardinality(S) \in Nat
    BY FS_CardinalityType
  <1> DEFINE n == Cardinality(S)
  <1>0. SumsTo(f, S, n)
    <2>1. n \in Nat
      BY <1>1
    <2> HIDE DEF n
    <2> QED
      BY <2>1, SumsUpTo
  <1>2. PICK g \in [SUBSET S -> Int] : \A T \in SUBSET S : Cardinality(T) <= n => g[T] = Body(f, g, T)
    BY <1>0 DEF SumsTo
  <1>3. \A T \in SUBSET S : Cardinality(T) <= Cardinality(S)
    BY FS_Subset
  <1>4. g = [T \in SUBSET S |-> Body(f, g, T)]
    BY <1>2, <1>3
  <1> QED
    BY <1>4 DEF Sums

LEMMA SumsUnique ==
    ASSUME NEW S, IsFiniteSet(S), NEW f, NEW g, NEW h, Sums(f, g, S), Sums(f, h, S)
    PROVE  g = h
  <1>1. /\ g = [T \in SUBSET S |-> g[T]] /\ h = [T \in SUBSET S |-> h[T]]
        /\ \A T \in SUBSET S : g[T] = Body(f, g, T) /\ h[T] = Body(f, h, T)
    BY DEF Sums
  <1> DEFINE B == {T \in SUBSET S : g[T] # h[T]}
  <1>2. ASSUME B # {} PROVE FALSE
    <2>0. B \in SUBSET SUBSET S
      OBVIOUS
    <2>1. PICK T \in B : \A U \in B : U \subseteq T => U = T
      <3> HIDE DEF B
      <3> QED
        BY <1>2, <2>0, MinimalSubset
    <2>2. T # {}
      BY <1>1, <2>1 DEF Body
    <2>3. Pick(T) \in T
      BY <2>2, PickIn
    <2>4. T \ {Pick(T)} \in SUBSET S /\ T \ {Pick(T)} \notin B
      BY <2>1, <2>3
    <2> QED
      BY <1>1, <2>1, <2>4 DEF Body
  <1> QED
    BY <1>1, <1>2

LEMMA SumIs ==
    ASSUME NEW S, IsFiniteSet(S), NEW f, \A x \in S : f[x] \in Int, NEW g, Sums(f, g, S)
    PROVE  SumFunctionOnSet(f, S) = g[S]
  <1>1. Sums(f, CHOOSE h : Sums(f, h, S), S)
    OBVIOUS
  <1>2. g = CHOOSE h : Sums(f, h, S)
    BY <1>1, SumsUnique
  <1> QED
    BY <1>2, SumUnfolded DEF SumIsChosen

\* The sums of subsets are those of the recursion on the set.
LEMMA SumOfSubset ==
    ASSUME NEW S, IsFiniteSet(S), NEW f, \A x \in S : f[x] \in Int, NEW g \in [SUBSET S -> Int], Sums(f, g, S),
           NEW T \in SUBSET S
    PROVE  SumFunctionOnSet(f, T) = g[T]
  <1> DEFINE h == [U \in SUBSET T |-> g[U]]
  <1>1. \A U \in SUBSET T : h[U] = Body(f, h, U)
    BY DEF Sums, Body
  <1>2. Sums(f, h, T)
    BY <1>1 DEF Sums
  <1>3. IsFiniteSet(T) /\ h[T] = g[T]
    BY FS_Subset
  <1> HIDE DEF h
  <1> QED
    BY <1>2, <1>3, SumIs

LEMMA SumPick ==
    ASSUME NEW S, IsFiniteSet(S), NEW f, \A x \in S : f[x] \in Int
    PROVE  /\ SumFunctionOnSet(f, S) \in Int
           /\ S = {} => SumFunctionOnSet(f, S) = 0
           /\ S # {} => /\ Pick(S) \in S
                        /\ SumFunctionOnSet(f, S) = f[Pick(S)] + SumFunctionOnSet(f, S \ {Pick(S)})
  <1>1. PICK g \in [SUBSET S -> Int] : Sums(f, g, S)
    BY SumsExist
  <1>2. \A T \in SUBSET S : SumFunctionOnSet(f, T) = g[T]
    BY <1>1, SumOfSubset
  <1>3. g[S] = Body(f, g, S) /\ g[S] \in Int
    BY <1>1 DEF Sums
  <1> QED
    BY <1>2, <1>3, PickIn DEF Body

\* Any element can be taken out first.
LEMMA SumRemove ==
    ASSUME NEW S, IsFiniteSet(S), NEW f, \A x \in S : f[x] \in Int, NEW a \in S
    PROVE  /\ SumFunctionOnSet(f, S) \in Int /\ SumFunctionOnSet(f, S \ {a}) \in Int
           /\ SumFunctionOnSet(f, S) = f[a] + SumFunctionOnSet(f, S \ {a})
  <1>1. PICK g \in [SUBSET S -> Int] : Sums(f, g, S)
    BY SumsExist
  <1>2. \A T \in SUBSET S : T # {} => Pick(T) \in T /\ g[T] = f[Pick(T)] + g[T \ {Pick(T)}]
    BY <1>1, PickIn DEF Sums, Body
  <1> DEFINE B == {T \in SUBSET S : \E b \in T : g[T] # f[b] + g[T \ {b}]}
  <1>3. ASSUME B # {} PROVE FALSE
    <2>1. B \in SUBSET SUBSET S
      OBVIOUS
    <2>2. PICK T \in B : \A U \in B : U \subseteq T => U = T
      <3> HIDE DEF B
      <3> QED
        BY <1>3, <2>1, MinimalSubset
    <2>3. PICK b \in T : g[T] # f[b] + g[T \ {b}]
      BY <2>2
    <2>4. T \in SUBSET S /\ T # {}
      BY <2>2, <2>3
    <2>5. PICK c \in T : g[T] = f[c] + g[T \ {c}]
      BY <1>2, <2>4
    <2>6. c # b
      BY <2>3, <2>5
    <2>7. T \ {b} \notin B /\ T \ {c} \notin B
      BY <2>2
    <2>8. g[T \ {c}] = f[b] + g[(T \ {c}) \ {b}]
      BY <2>4, <2>6, <2>7
    <2>9. g[T \ {b}] = f[c] + g[(T \ {c}) \ {b}]
      <3>1. (T \ {b}) \ {c} = (T \ {c}) \ {b}
        OBVIOUS
      <3> QED
        BY <2>4, <2>6, <2>7, <3>1
    <2> QED
      BY <2>3, <2>4, <2>5, <2>8, <2>9
  <1>4. g[S] = f[a] + g[S \ {a}]
    BY <1>3
  <1>5. g[S] \in Int /\ g[S \ {a}] \in Int
    BY <1>1
  <1> HIDE DEF B
  <1>6. \A T \in SUBSET S : SumFunctionOnSet(f, T) = g[T]
    BY <1>1, SumOfSubset
  <1> QED
    BY <1>4, <1>5, <1>6

-----------------------------------------------------------------------------
\* Induction on a finite set: G holds the subsets a fact is true of.
LEMMA SetInduction ==
    ASSUME NEW S, IsFiniteSet(S), NEW G,
           {} \in G,
           \A T \in SUBSET S, a \in S : a \notin T /\ T \in G => T \cup {a} \in G
    PROVE  S \in G
  <1> DEFINE B == {T \in SUBSET S : T \notin G}
  <1> SUFFICES ASSUME B # {} PROVE FALSE
    OBVIOUS
  <1>1. B \in SUBSET SUBSET S
    OBVIOUS
  <1>2. PICK T \in B : \A U \in B : U \subseteq T => U = T
    <2> HIDE DEF B
    <2> QED
      BY <1>1, MinimalSubset
  <1>3. PICK a \in T : TRUE
    BY <1>2
  <1>4. T \ {a} \in G
    BY <1>2, <1>3
  <1>5. (T \ {a}) \cup {a} = T
    BY <1>3
  <1> QED
    BY <1>2, <1>3, <1>4, <1>5

LEMMA SumEmpty ==
    ASSUME NEW f
    PROVE  SumFunctionOnSet(f, {}) = 0
  BY SumPick, FS_EmptySet

\* One more element.
LEMMA SumAdd ==
    ASSUME NEW S, IsFiniteSet(S), NEW f, \A x \in S : f[x] \in Int, NEW a, a \notin S, f[a] \in Int
    PROVE  SumFunctionOnSet(f, S \cup {a}) = SumFunctionOnSet(f, S) + f[a]
  <1>1. IsFiniteSet(S \cup {a})
    BY FS_AddElement
  <1>2. (S \cup {a}) \ {a} = S
    OBVIOUS
  <1>3. /\ SumFunctionOnSet(f, S \cup {a}) \in Int /\ SumFunctionOnSet(f, S) \in Int
        /\ SumFunctionOnSet(f, S \cup {a}) = f[a] + SumFunctionOnSet(f, S)
    BY <1>1, <1>2, SumRemove
  <1> QED
    BY <1>3

\* The sum of sums.
LEMMA SumPlus ==
    ASSUME NEW S, IsFiniteSet(S), NEW f, NEW g, NEW h,
           \A x \in S : f[x] \in Int /\ g[x] \in Int /\ h[x] = f[x] + g[x]
    PROVE  SumFunctionOnSet(h, S) = SumFunctionOnSet(f, S) + SumFunctionOnSet(g, S)
  <1> DEFINE G == {T \in SUBSET S :
                      SumFunctionOnSet(h, T) = SumFunctionOnSet(f, T) + SumFunctionOnSet(g, T)}
  <1>1. {} \in G
    BY SumEmpty
  <1>2. ASSUME NEW T \in SUBSET S, NEW a \in S, a \notin T, T \in G PROVE T \cup {a} \in G
    <2>1. IsFiniteSet(T)
      BY FS_Subset
    <2>2. \A x \in T \cup {a} : f[x] \in Int /\ g[x] \in Int /\ h[x] \in Int
      BY <1>2
    <2>3. /\ SumFunctionOnSet(f, T \cup {a}) = SumFunctionOnSet(f, T) + f[a]
          /\ SumFunctionOnSet(g, T \cup {a}) = SumFunctionOnSet(g, T) + g[a]
          /\ SumFunctionOnSet(h, T \cup {a}) = SumFunctionOnSet(h, T) + h[a]
      BY <1>2, <2>1, <2>2, SumAdd
    <2>4. /\ SumFunctionOnSet(f, T) \in Int /\ SumFunctionOnSet(g, T) \in Int
      BY <2>1, <2>2, SumPick
    <2> QED
      BY <1>2, <2>2, <2>3, <2>4
  <1>3. S \in G
    <2> HIDE DEF G
    <2> QED
      BY <1>1, <1>2, SetInduction
  <1> QED
    BY <1>3

\* Functions that agree on the set.
LEMMA SumEqual ==
    ASSUME NEW S, IsFiniteSet(S), NEW f, NEW g, \A x \in S : f[x] \in Int /\ g[x] = f[x]
    PROVE  SumFunctionOnSet(g, S) = SumFunctionOnSet(f, S)
  <1> DEFINE G == {T \in SUBSET S : SumFunctionOnSet(g, T) = SumFunctionOnSet(f, T)}
  <1>1. {} \in G
    BY SumEmpty
  <1>2. ASSUME NEW T \in SUBSET S, NEW a \in S, a \notin T, T \in G PROVE T \cup {a} \in G
    <2>1. IsFiniteSet(T)
      BY FS_Subset
    <2>2. \A x \in T \cup {a} : f[x] \in Int /\ g[x] \in Int
      BY <1>2
    <2>3. /\ SumFunctionOnSet(f, T \cup {a}) = SumFunctionOnSet(f, T) + f[a]
          /\ SumFunctionOnSet(g, T \cup {a}) = SumFunctionOnSet(g, T) + g[a]
      BY <1>2, <2>1, <2>2, SumAdd
    <2> QED
      BY <1>2, <2>3
  <1>3. S \in G
    <2> HIDE DEF G
    <2> QED
      BY <1>1, <1>2, SetInduction
  <1> QED
    BY <1>3

\* Sums of natural numbers grow with the set.
LEMMA SumMonotone ==
    ASSUME NEW S, IsFiniteSet(S), NEW f, \A x \in S : f[x] \in Nat, NEW T \in SUBSET S
    PROVE  /\ SumFunctionOnSet(f, T) \in Nat /\ SumFunctionOnSet(f, S) \in Nat
           /\ SumFunctionOnSet(f, T) <= SumFunctionOnSet(f, S)
  <1> DEFINE Sum(U) == SumFunctionOnSet(f, U)
  <1>1. ASSUME NEW U \in SUBSET S, NEW a \in S \ U
        PROVE  Sum(U \cup {a}) = Sum(U) + f[a] /\ Sum(U) \in Int /\ f[a] \in Nat
    <2>1. IsFiniteSet(U) /\ (\A x \in U : f[x] \in Int) /\ f[a] \in Int /\ f[a] \in Nat /\ a \notin U
      BY FS_Subset
    <2>2. SumFunctionOnSet(f, U \cup {a}) = SumFunctionOnSet(f, U) + f[a]
      BY <2>1, SumAdd
    <2>3. SumFunctionOnSet(f, U) \in Int
      BY <2>1, SumPick
    <2> QED
      BY <2>1, <2>2, <2>3
  <1> HIDE DEF Sum
  <1>2. ASSUME NEW U \in SUBSET S PROVE Sum(U) \in Nat
    <2> DEFINE G == {V \in SUBSET U : Sum(V) \in Nat}
    <2>1. {} \in G
      BY SumEmpty DEF Sum
    <2>2. ASSUME NEW V \in SUBSET U, NEW a \in U, a \notin V, V \in G PROVE V \cup {a} \in G
      <3>1. V \in SUBSET S /\ a \in S \ V
        BY <2>2
      <3> QED
        BY <1>1, <2>2, <3>1
    <2>3. IsFiniteSet(U)
      BY FS_Subset
    <2> HIDE DEF G
    <2>4. U \in G
      BY <2>1, <2>2, <2>3, SetInduction
    <2> QED
      BY <2>4 DEF G
  <1>3. Sum(T) <= Sum(S)
    <2> DEFINE R == S \ T
               G == {V \in SUBSET R : Sum(T) <= Sum(T \cup V)}
    <2>1. {} \in G
      <3>1. T \cup {} = T /\ Sum(T) \in Nat
        BY <1>2
      <3> QED
        BY <3>1
    <2>2. ASSUME NEW V \in SUBSET R, NEW a \in R, a \notin V, V \in G PROVE V \cup {a} \in G
      <3>1. T \cup V \in SUBSET S /\ a \in S \ (T \cup V) /\ T \cup (V \cup {a}) = (T \cup V) \cup {a}
        BY <2>2
      <3>2. Sum((T \cup V) \cup {a}) = Sum(T \cup V) + f[a] /\ f[a] \in Nat
        BY <1>1, <3>1
      <3>3. Sum(T) <= Sum(T \cup V) /\ Sum(T) \in Nat /\ Sum(T \cup V) \in Nat
        BY <1>2, <2>2, <3>1
      <3>4. Sum(T) <= Sum(T \cup V) + f[a]
        BY <3>2, <3>3
      <3>5. Sum(T) <= Sum(T \cup (V \cup {a}))
        BY <3>1, <3>2, <3>4
      <3> QED
        BY <2>2, <3>5
    <2>3. IsFiniteSet(R) /\ T \cup R = S
      BY FS_Subset
    <2>4. R \in G
      <3> HIDE DEF G, R
      <3> QED
        BY <2>1, <2>2, <2>3, SetInduction
    <2> QED
      BY <2>3, <2>4
  <1> QED
    BY <1>2, <1>3 DEF Sum

\* Functions that differ in one value.
LEMMA SumUpdate ==
    ASSUME NEW S, IsFiniteSet(S), NEW f, NEW g, \A x \in S : f[x] \in Int /\ g[x] \in Int,
           NEW a \in S, \A x \in S \ {a} : g[x] = f[x]
    PROVE  SumFunctionOnSet(g, S) = SumFunctionOnSet(f, S) + (g[a] - f[a])
  <1>1. IsFiniteSet(S \ {a})
    BY FS_Subset
  <1>2. SumFunctionOnSet(g, S \ {a}) = SumFunctionOnSet(f, S \ {a})
    BY <1>1, SumEqual
  <1>3. /\ SumFunctionOnSet(f, S \ {a}) \in Int
        /\ SumFunctionOnSet(f, S) = f[a] + SumFunctionOnSet(f, S \ {a})
        /\ SumFunctionOnSet(g, S) = g[a] + SumFunctionOnSet(g, S \ {a})
    BY SumRemove
  <1> QED
    BY <1>2, <1>3

\* One more element, with the others as they were.
LEMMA SumInsert ==
    ASSUME NEW S, IsFiniteSet(S), NEW f, NEW g, \A x \in S : f[x] \in Int /\ g[x] = f[x],
           NEW a, a \notin S, g[a] \in Int
    PROVE  SumFunctionOnSet(g, S \cup {a}) = SumFunctionOnSet(f, S) + g[a]
  <1>1. SumFunctionOnSet(g, S) = SumFunctionOnSet(f, S)
    BY SumEqual
  <1>2. \A x \in S : g[x] \in Int
    OBVIOUS
  <1> QED
    BY <1>1, <1>2, SumAdd

\* A posting of c to one account.
LEMMA SumPosting ==
    ASSUME NEW S, IsFiniteSet(S), NEW f \in [S -> Int], NEW a \in S, NEW c \in Int
    PROVE  /\ SumFunctionOnSet([f EXCEPT ![a] = @ + c], S) = SumFunctionOnSet(f, S) + c
           /\ SumFunctionOnSet([f EXCEPT ![a] = @ - c], S) = SumFunctionOnSet(f, S) - c
           /\ SumFunctionOnSet(f, S) \in Int
  <1>1. SumFunctionOnSet(f, S) \in Int
    BY SumPick
  <1>2. ASSUME NEW g, \E d \in Int : g = [f EXCEPT ![a] = d]
        PROVE  SumFunctionOnSet(g, S) = SumFunctionOnSet(f, S) + (g[a] - f[a])
    <2>1. (\A x \in S : f[x] \in Int /\ g[x] \in Int) /\ (\A x \in S \ {a} : g[x] = f[x])
      BY <1>2
    <2> QED
      BY <2>1, SumUpdate
  <1> DEFINE up   == [f EXCEPT ![a] = @ + c]
             down == [f EXCEPT ![a] = @ - c]
  <1>3. up[a] - f[a] = c /\ down[a] - f[a] = -c
    OBVIOUS
  <1>4. f[a] - c \in Int /\ f[a] + c \in Int /\ down = [f EXCEPT ![a] = f[a] - c] /\ up = [f EXCEPT ![a] = f[a] + c]
    OBVIOUS
  <1> HIDE DEF up, down
  <1>5. SumFunctionOnSet(up, S) = SumFunctionOnSet(f, S) + (up[a] - f[a])
    BY <1>2, <1>4
  <1>6. SumFunctionOnSet(down, S) = SumFunctionOnSet(f, S) + (down[a] - f[a])
    BY <1>2, <1>4
  <1>7. SumFunctionOnSet(up, S) = SumFunctionOnSet(f, S) + c
    BY <1>3, <1>5
  <1>8. SumFunctionOnSet(down, S) = SumFunctionOnSet(f, S) - c
    BY <1>1, <1>3, <1>6
  <1> QED
    BY <1>1, <1>7, <1>8 DEF up, down

\* What each of S owns of N, counted at the price c, is what N counts.
LEMMA SumCount ==
    ASSUME NEW S, IsFiniteSet(S), NEW N, IsFiniteSet(N), NEW owner, \A n \in N : owner[n] \in S, NEW c \in Int
    PROVE  SumFunctionOnSet([u \in S |-> c * Cardinality({n \in N : owner[n] = u})], S) = c * Cardinality(N)
  <1> DEFINE k(M) == [u \in S |-> c * Cardinality({n \in M : owner[n] = u})]
             G == {M \in SUBSET N : SumFunctionOnSet(k(M), S) = c * Cardinality(M)}
  <1>0. \A M \in SUBSET N, u \in S : /\ IsFiniteSet(M) /\ IsFiniteSet({n \in M : owner[n] = u})
                                      /\ Cardinality({n \in M : owner[n] = u}) \in Nat /\ Cardinality(M) \in Nat
    BY FS_Subset, FS_CardinalityType
  <1>1. {} \in G
    <2>1. \A u \in S : k({})[u] = 0
      <3>1. \A u \in S : {n \in {} : owner[n] = u} = {}
        OBVIOUS
      <3> QED
        BY <3>1, FS_EmptySet
    <2> DEFINE z == [u \in S |-> 0]
    <2>2. SumFunctionOnSet(z, S) = SumFunctionOnSet(z, S) + SumFunctionOnSet(z, S)
      BY SumPlus
    <2>3. SumFunctionOnSet(z, S) \in Int
      <3>1. \A x \in S : z[x] \in Int
        OBVIOUS
      <3> HIDE DEF z
      <3> QED
        BY <3>1, SumPick
    <2>4. SumFunctionOnSet(k({}), S) = SumFunctionOnSet(z, S)
      <3> HIDE DEF k
      <3> QED
        BY <2>1, SumEqual
    <2>5. SumFunctionOnSet(k({}), S) = 0
      <3>1. SumFunctionOnSet(z, S) = 0
        <4>1. \A i \in Int : i = i + i => i = 0
          OBVIOUS
        <4> HIDE DEF z, G, k
        <4> QED
          BY <2>2, <2>3, <4>1
      <3> HIDE DEF z, G, k
      <3> QED
        BY <2>4, <3>1
    <2>6. c * Cardinality({}) = 0
      BY FS_EmptySet
    <2> QED
      BY <2>5, <2>6
  <1>2. ASSUME NEW M \in SUBSET N, NEW a \in N, a \notin M, M \in G PROVE M \cup {a} \in G
    <2> DEFINE f == k(M)
               g == k(M \cup {a})
               b == owner[a]
    <2>1. /\ b \in S
          /\ \A x \in S : f[x] \in Int /\ g[x] \in Int
      <3>1. \A i \in Nat : c * i \in Int
        OBVIOUS
      <3>2. M \in SUBSET N /\ M \cup {a} \in SUBSET N
        OBVIOUS
      <3> QED
        BY <1>0, <3>1, <3>2
    <2>2. \A x \in S \ {b} : g[x] = f[x]
      <3> SUFFICES ASSUME NEW x \in S \ {b} PROVE {n \in M \cup {a} : owner[n] = x} = {n \in M : owner[n] = x}
        BY <2>1
      <3> QED
        OBVIOUS
    <2>3. g[b] = f[b] + c
      <3>1. {n \in M \cup {a} : owner[n] = b} = {n \in M : owner[n] = b} \cup {a}
        OBVIOUS
      <3>2. Cardinality({n \in M : owner[n] = b} \cup {a}) = Cardinality({n \in M : owner[n] = b}) + 1
        BY <1>0, <1>2, <2>1, FS_AddElement
      <3>3. Cardinality({n \in M : owner[n] = b}) \in Nat
        BY <1>0, <2>1
      <3>4. \A i \in Nat : c * (i + 1) = c * i + c
        OBVIOUS
      <3> QED
        BY <2>1, <3>1, <3>2, <3>3, <3>4
    <2>4. SumFunctionOnSet(f, S) = c * Cardinality(M)
      BY <1>2
    <2>5. SumFunctionOnSet(g, S) = SumFunctionOnSet(f, S) + (g[b] - f[b])
      <3> HIDE DEF f, g, b
      <3> QED
        BY <2>1, <2>2, SumUpdate
    <2>6. Cardinality(M \cup {a}) = Cardinality(M) + 1 /\ Cardinality(M) \in Nat
      BY <1>0, <1>2, FS_AddElement
    <2>7. \A i \in Nat : c * (i + 1) = c * i + c /\ c * i \in Int
      OBVIOUS
    <2>8. f[b] \in Int
      BY <2>1
    <2>9. SumFunctionOnSet(g, S) = c * Cardinality(M \cup {a})
      <3> HIDE DEF f, g, b
      <3> QED
        BY <2>3, <2>4, <2>5, <2>6, <2>7, <2>8
    <2> QED
      BY <2>9
  <1>3. N \in G
    <2> HIDE DEF G
    <2> QED
      BY <1>1, <1>2, SetInduction
  <1> QED
    BY <1>3
=============================================================================
