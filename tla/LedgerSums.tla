------------------------------ MODULE LedgerSums ------------------------------
(***************************************************************************)
(* What the sums of the ledgers satisfy: the lemmas about SumFunctionOnSet *)
(* that the balances of MonthlyPeriod and Absence and the minutes of Today *)
(* rest on.                                                                *)
(*                                                                         *)
(* A sum is a function defined by recursion over the subsets of a finite   *)
(* set.  Wherever the argument is an induction over these subsets, it      *)
(* takes the smallest counterexample instead.                              *)
(***************************************************************************)
EXTENDS Integers, FiniteSets, FiniteSetsExt, FiniteSetTheorems, TLAPS

\* The element a sum takes from a set next.
Choice(s) == CHOOSE x \in s : TRUE

\* The equation of the partial sums g of f, for these subsets.
PartialSums(g, f, D) ==
    g = [s \in D |-> IF s = {} THEN 0 ELSE f[Choice(s)] + g[s \ {Choice(s)}]]

\* A set of numbers that is not empty has a smallest one.
LEMMA SmallestNumber ==
    ASSUME NEW S \in SUBSET Nat, S # {}
    PROVE  \E m \in S : \A i \in S : m <= i
<1> DEFINE R == OpToRel(<, Nat)
<1>1. IsWellFoundedOn(R, Nat)
    BY NatLessThanWellFounded
<1> HIDE DEF R
<1>2. PICK m \in S : \A i \in S : <<i, m>> \notin R
    BY <1>1, WFMin
<1>3. \A i \in S : ~(i < m)
    BY <1>2 DEF R, OpToRel
<1> QED
    BY <1>3

\* The smallest of numbers.
LEMMA MinOfNumbers ==
    ASSUME NEW S \in SUBSET Nat, S # {}
    PROVE  Min(S) \in S /\ \A i \in S : Min(S) <= i
<1>1. \E m \in S : \A i \in S : m <= i
    BY SmallestNumber
<1> QED
    BY <1>1 DEF Min

\* A family of subsets of a finite set that is not empty has a member that
\* includes no other.
LEMMA SmallestSubset ==
    ASSUME NEW S, IsFiniteSet(S), NEW F \in SUBSET SUBSET S, F # {}
    PROVE  \E T \in F : \A U \in F : U \subseteq T => U = T
<1> DEFINE R == StrictSubsetOrdering(S)
<1>1. IsWellFoundedOn(R, SUBSET S)
    BY FS_StrictSubsetOrderingWellFounded, FS_FiniteSubsetsOfFinite
<1> HIDE DEF R
<1>2. PICK T \in F : \A U \in F : <<U, T>> \notin R
    BY <1>1, WFMin
<1>3. \A U \in F : U \subseteq T => U = T
    BY <1>2 DEF R, StrictSubsetOrdering
<1> QED
    BY <1>3

\* Without its next element, a set is one smaller.
LEMMA Smaller ==
    ASSUME NEW s, IsFiniteSet(s), s # {}
    PROVE  /\ Choice(s) \in s
           /\ IsFiniteSet(s \ {Choice(s)})
           /\ Cardinality(s \ {Choice(s)}) = Cardinality(s) - 1
           /\ Cardinality(s) \in Nat
<1>1. Choice(s) \in s
    BY DEF Choice
<1> HIDE DEF Choice
<1> QED
    BY <1>1, FS_RemoveElement, FS_CardinalityType

\* The partial sums exist.
LEMMA SumsExist ==
    ASSUME NEW S, IsFiniteSet(S), NEW f
    PROVE  \E g : PartialSums(g, f, SUBSET S)
<1> DEFINE D(n) == {s \in SUBSET S : Cardinality(s) <= n}
           Missing == {n \in Nat : ~ \E g : PartialSums(g, f, D(n))}
<1>1. \A s \in SUBSET S : IsFiniteSet(s) /\ Cardinality(s) \in Nat
    BY FS_Subset, FS_CardinalityType
<1>2. ASSUME NEW n \in Nat, NEW h, PartialSums(h, f, D(n))
      PROVE  \E g : PartialSums(g, f, D(n + 1))
  <2> DEFINE g == [s \in D(n + 1) |->
                      IF s = {} THEN 0 ELSE f[Choice(s)] + h[s \ {Choice(s)}]]
  <2>1. ASSUME NEW s \in D(n + 1), s # {}
        PROVE  /\ s \ {Choice(s)} \in D(n)
               /\ s \ {Choice(s)} \in D(n + 1)
    <3>1. s \in SUBSET S /\ Cardinality(s) <= n + 1
        OBVIOUS
    <3> QED
        BY <1>1, <2>1, <3>1, Smaller
  <2>2. \A s \in D(n) : s \in D(n + 1)
      BY <1>1
  <2> HIDE DEF D
  <2>3. \A s \in D(n) : h[s] = IF s = {} THEN 0 ELSE f[Choice(s)] + h[s \ {Choice(s)}]
      BY <1>2 DEF PartialSums
  <2>4. \A s \in D(n) : g[s] = h[s]
      BY <2>2, <2>3
  <2>5. PartialSums(g, f, D(n + 1))
    <3>1. \A s \in D(n + 1) : s # {} => g[s \ {Choice(s)}] = h[s \ {Choice(s)}]
        BY <2>1, <2>4
    <3> QED
        BY <3>1 DEF PartialSums
  <2> QED
      BY <2>5
<1>3. \E g : PartialSums(g, f, D(0))
  <2>1. \A s \in D(0) : s = {}
      BY <1>1, FS_EmptySet
  <2>2. PartialSums([s \in D(0) |-> 0], f, D(0))
      BY <2>1 DEF PartialSums
  <2> QED
      BY <2>2
<1> HIDE DEF D
<1>4. Missing = {}
  <2> SUFFICES ASSUME Missing # {} PROVE FALSE
      OBVIOUS
  <2>1. PICK n \in Missing : \A i \in Missing : n <= i
      BY SmallestNumber
  <2>2. n # 0
      BY <1>3
  <2>3. n - 1 \in Nat /\ n - 1 \notin Missing
      BY <2>1, <2>2
  <2>4. \E g : PartialSums(g, f, D((n - 1) + 1))
      BY <1>2, <2>3
  <2> QED
      BY <2>1, <2>4
<1>5. Cardinality(S) \in Nat
    BY FS_CardinalityType
<1>6. SUBSET S = D(Cardinality(S))
  <2>1. \A s \in SUBSET S : Cardinality(s) <= Cardinality(S)
      BY FS_Subset
  <2> QED
      BY <2>1 DEF D
<1> QED
    BY <1>4, <1>5, <1>6

\* There is one function of partial sums.
LEMMA SumsAreUnique ==
    ASSUME NEW S, IsFiniteSet(S), NEW f, NEW h, NEW g, NEW e,
           \A x \in S : f[x] = h[x],
           PartialSums(g, f, SUBSET S), PartialSums(e, h, SUBSET S)
    PROVE  \A s \in SUBSET S : g[s] = e[s]
<1> DEFINE F == {s \in SUBSET S : g[s] # e[s]}
<1> SUFFICES ASSUME F # {} PROVE FALSE
    OBVIOUS
<1>0. F \in SUBSET SUBSET S
    OBVIOUS
<1> HIDE DEF F
<1>1. PICK s \in F : \A t \in F : t \subseteq s => t = s
    BY <1>0, SmallestSubset
<1> USE DEF F
<1>2. g[s] = IF s = {} THEN 0 ELSE f[Choice(s)] + g[s \ {Choice(s)}]
    BY DEF PartialSums
<1>3. e[s] = IF s = {} THEN 0 ELSE h[Choice(s)] + e[s \ {Choice(s)}]
    BY DEF PartialSums
<1>4. CASE s # {}
  <2>1. Choice(s) \in s
      BY <1>4 DEF Choice
  <2>2. g[s \ {Choice(s)}] = e[s \ {Choice(s)}]
      BY <1>1, <2>1
  <2>3. f[Choice(s)] = h[Choice(s)]
      BY <2>1
  <2> QED
      BY <1>2, <1>3, <1>4, <2>2, <2>3
<1> QED
    BY <1>2, <1>3, <1>4

-----------------------------------------------------------------------------
(* Sums *)

\* A sum over a finite set is the last of its partial sums.
LEMMA SumIsPartialSum ==
    ASSUME NEW S, IsFiniteSet(S), NEW f
    PROVE  \E g : /\ PartialSums(g, f, SUBSET S)
                  /\ SumFunctionOnSet(f, S) = g[S]
<1> DEFINE g == CHOOSE g : PartialSums(g, f, SUBSET S)
<1>1. PartialSums(g, f, SUBSET S)
    BY SumsExist
<1>2. SumFunctionOnSet(f, S) = g[S]
    BY DEF SumFunctionOnSet, FoldFunctionOnSet, MapThenFoldSet, PartialSums, Choice
<1> QED
    BY <1>1, <1>2

\* The partial sum of a subset is its sum.
LEMMA PartialSumIsSum ==
    ASSUME NEW S, IsFiniteSet(S), NEW f, NEW g, PartialSums(g, f, SUBSET S),
           NEW T \in SUBSET S
    PROVE  SumFunctionOnSet(f, T) = g[T]
<1>1. IsFiniteSet(T)
    BY FS_Subset
<1>2. PICK h : /\ PartialSums(h, f, SUBSET T)
               /\ SumFunctionOnSet(f, T) = h[T]
    BY <1>1, SumIsPartialSum
<1> DEFINE e == [s \in SUBSET T |-> g[s]]
<1>3. PartialSums(e, f, SUBSET T)
    BY DEF PartialSums, Choice
<1>4. e[T] = h[T]
    BY <1>1, <1>2, <1>3, SumsAreUnique
<1> QED
    BY <1>2, <1>4

\* The sum over no elements is zero.
LEMMA SumEmpty == ASSUME NEW f PROVE SumFunctionOnSet(f, {}) = 0
<1>1. IsFiniteSet({})
    BY FS_EmptySet
<1>2. PICK g : PartialSums(g, f, SUBSET {}) /\ SumFunctionOnSet(f, {}) = g[{}]
    BY <1>1, SumIsPartialSum
<1> QED
    BY <1>2 DEF PartialSums

\* A sum is its next element and the sum of the rest.
LEMMA SumChoice ==
    ASSUME NEW S, IsFiniteSet(S), S # {}, NEW f
    PROVE  SumFunctionOnSet(f, S) = f[Choice(S)] + SumFunctionOnSet(f, S \ {Choice(S)})
<1>1. PICK g : PartialSums(g, f, SUBSET S) /\ SumFunctionOnSet(f, S) = g[S]
    BY SumIsPartialSum
<1>2. SumFunctionOnSet(f, S \ {Choice(S)}) = g[S \ {Choice(S)}]
    BY <1>1, PartialSumIsSum
<1>3. g[S] = f[Choice(S)] + g[S \ {Choice(S)}]
    BY <1>1 DEF PartialSums
<1> QED
    BY <1>1, <1>2, <1>3

\* Functions that agree on a finite set have the same sum over it.
LEMMA SumEqual ==
    ASSUME NEW S, IsFiniteSet(S), NEW f, NEW h, \A x \in S : f[x] = h[x]
    PROVE  SumFunctionOnSet(f, S) = SumFunctionOnSet(h, S)
<1>1. PICK g : PartialSums(g, f, SUBSET S) /\ SumFunctionOnSet(f, S) = g[S]
    BY SumIsPartialSum
<1>2. PICK e : PartialSums(e, h, SUBSET S) /\ SumFunctionOnSet(h, S) = e[S]
    BY SumIsPartialSum
<1> QED
    BY <1>1, <1>2, SumsAreUnique

\* A sum of integers is an integer.
LEMMA SumInteger ==
    ASSUME NEW S, IsFiniteSet(S), NEW f, \A x \in S : f[x] \in Int
    PROVE  SumFunctionOnSet(f, S) \in Int
<1> DEFINE F == {T \in SUBSET S : SumFunctionOnSet(f, T) \notin Int}
<1>1. \A T \in SUBSET S : IsFiniteSet(T)
    BY FS_Subset
<1>2. ASSUME F # {} PROVE FALSE
  <2>0. F \in SUBSET SUBSET S
      OBVIOUS
  <2> HIDE DEF F
  <2>1. PICK T \in F : \A U \in F : U \subseteq T => U = T
      BY <1>2, <2>0, SmallestSubset
  <2> USE DEF F
  <2>2. T # {}
      BY <2>1, SumEmpty
  <2>3. Choice(T) \in T
      BY <2>2 DEF Choice
  <2>4. SumFunctionOnSet(f, T \ {Choice(T)}) \in Int
      BY <2>1, <2>3
  <2>5. SumFunctionOnSet(f, T) = f[Choice(T)] + SumFunctionOnSet(f, T \ {Choice(T)})
      BY <1>1, <2>1, <2>2, SumChoice
  <2>6. f[Choice(T)] \in Int
      BY <2>1, <2>3
  <2> QED
      BY <2>1, <2>4, <2>5, <2>6
<1> QED
    BY <1>2

\* A sum is any of its elements and the sum of the rest.
LEMMA SumRemove ==
    ASSUME NEW S, IsFiniteSet(S), NEW f, \A x \in S : f[x] \in Int, NEW e \in S
    PROVE  SumFunctionOnSet(f, S) = SumFunctionOnSet(f, S \ {e}) + f[e]
<1> DEFINE Sum(T) == SumFunctionOnSet(f, T)
           Good(T) == \A x \in T : Sum(T) = Sum(T \ {x}) + f[x]
           F == {T \in SUBSET S : ~Good(T)}
<1>1. \A T \in SUBSET S : IsFiniteSet(T) /\ Sum(T) \in Int
    BY FS_Subset, SumInteger
<1>2. \A T \in SUBSET S : T # {} => Sum(T) = f[Choice(T)] + Sum(T \ {Choice(T)})
    BY <1>1, SumChoice
<1>3. F \in SUBSET SUBSET S
    OBVIOUS
<1> HIDE DEF Sum
<1>4. ASSUME NEW T \in SUBSET S, \A U \in SUBSET T : U # T => Good(U) PROVE Good(T)
  <2> SUFFICES ASSUME NEW x \in T PROVE Sum(T) = Sum(T \ {x}) + f[x]
      OBVIOUS
  <2> DEFINE y == Choice(T)
  <2>1. y \in T
      BY DEF Choice
  <2>2. Sum(T) = f[y] + Sum(T \ {y})
      BY <1>2
  <2> HIDE DEF y
  <2>3. f[x] \in Int /\ f[y] \in Int /\ Sum(T \ {x}) \in Int /\ Sum(T \ {y}) \in Int
      BY <1>1, <2>1
  <2>4. CASE x = y
      BY <2>2, <2>3, <2>4
  <2>5. CASE x # y
    <3>1. Good(T \ {y}) /\ Good(T \ {x})
        BY <1>4, <2>1
    <3>2. x \in T \ {y} /\ y \in T \ {x}
        BY <2>1, <2>5
    <3>3. Sum(T \ {y}) = Sum((T \ {y}) \ {x}) + f[x]
        BY <3>1, <3>2
    <3>4. Sum(T \ {x}) = Sum((T \ {x}) \ {y}) + f[y]
        BY <3>1, <3>2
    <3>5. (T \ {x}) \ {y} = (T \ {y}) \ {x}
        OBVIOUS
    <3>6. Sum((T \ {y}) \ {x}) \in Int
        BY <1>1
    <3>7. Sum(T \ {x}) = Sum((T \ {y}) \ {x}) + f[y]
        BY <3>4, <3>5
    <3> HIDE DEF Good
    <3> QED
        BY <2>2, <2>3, <3>3, <3>6, <3>7
  <2> QED
      BY <2>4, <2>5
<1> HIDE DEF Good
<1>5. F = {}
  <2> SUFFICES ASSUME F # {} PROVE FALSE
      OBVIOUS
  <2> HIDE DEF F
  <2>1. PICK T \in F : \A U \in F : U \subseteq T => U = T
      BY <1>3, SmallestSubset
  <2>2. T \in SUBSET S /\ ~Good(T)
      BY <2>1 DEF F
  <2>3. \A U \in SUBSET T : U # T => Good(U)
      BY <2>1, <2>2 DEF F
  <2> QED
      BY <1>4, <2>2, <2>3
<1>6. Good(S)
    BY <1>5
<1> QED
    BY <1>6 DEF Good, Sum

\* One more element adds its value to a sum.
LEMMA SumAdd ==
    ASSUME NEW S, IsFiniteSet(S), NEW f, \A x \in S : f[x] \in Int,
           NEW e, e \notin S, f[e] \in Int
    PROVE  SumFunctionOnSet(f, S \cup {e}) = SumFunctionOnSet(f, S) + f[e]
<1>1. IsFiniteSet(S \cup {e}) /\ (S \cup {e}) \ {e} = S
    BY FS_AddElement
<1> HIDE DEF Choice
<1>2. \A x \in S \cup {e} : f[x] \in Int
    OBVIOUS
<1>3. SumFunctionOnSet(f, S \cup {e}) = SumFunctionOnSet(f, (S \cup {e}) \ {e}) + f[e]
    BY <1>1, <1>2, SumRemove
<1> QED
    BY <1>1, <1>3

\* What holds of the empty set, and of a set with one more element once it holds
\* of the set, holds of a finite set; G are the sets it holds of.
LEMMA SubsetInduction ==
    ASSUME NEW S, IsFiniteSet(S), NEW G, {} \in G,
           \A T \in SUBSET S : \A x \in S \ T : T \in G => T \cup {x} \in G
    PROVE  S \in G
<1> DEFINE F == {T \in SUBSET S : T \notin G}
<1> SUFFICES ASSUME F # {} PROVE FALSE
    OBVIOUS
<1>1. F \in SUBSET SUBSET S
    OBVIOUS
<1> HIDE DEF F
<1>2. PICK T \in F : \A U \in F : U \subseteq T => U = T
    BY <1>1, SmallestSubset
<1>3. T \in SUBSET S /\ T \notin G /\ T # {}
    BY <1>2 DEF F
<1>4. PICK x \in T : TRUE
    BY <1>3
<1>5. T \ {x} \in G
    BY <1>2, <1>3, <1>4 DEF F
<1>6. (T \ {x}) \cup {x} = T /\ T \ {x} \in SUBSET S /\ x \in S \ (T \ {x})
    BY <1>3, <1>4
<1> QED
    BY <1>3, <1>5, <1>6

\* A sum of numbers is a number.
LEMMA SumNatural ==
    ASSUME NEW S, IsFiniteSet(S), NEW f, \A x \in S : f[x] \in Nat
    PROVE  SumFunctionOnSet(f, S) \in Nat
<1> DEFINE G == {T \in SUBSET S : SumFunctionOnSet(f, T) \in Nat}
<1>1. {} \in G
    BY SumEmpty
<1>2. \A T \in SUBSET S : \A x \in S \ T : T \in G => T \cup {x} \in G
  <2> SUFFICES ASSUME NEW T \in SUBSET S, NEW x \in S \ T, T \in G PROVE T \cup {x} \in G
      OBVIOUS
  <2>1. IsFiniteSet(T) /\ \A y \in T : f[y] \in Int
      BY FS_Subset
  <2>2. f[x] \in Int /\ f[x] \in Nat
      OBVIOUS
  <2>3. SumFunctionOnSet(f, T \cup {x}) = SumFunctionOnSet(f, T) + f[x]
      BY <2>1, <2>2, SumAdd
  <2> QED
      BY <2>2, <2>3
<1> HIDE DEF G
<1>3. S \in G
    BY <1>1, <1>2, SubsetInduction
<1> QED
    BY <1>3 DEF G

\* The sum over two sets that have nothing in common is the sum of their sums.
LEMMA SumUnion ==
    ASSUME NEW S, IsFiniteSet(S), NEW R, IsFiniteSet(R), S \cap R = {},
           NEW f, \A x \in S \cup R : f[x] \in Int
    PROVE  SumFunctionOnSet(f, S \cup R) = SumFunctionOnSet(f, S) + SumFunctionOnSet(f, R)
<1> DEFINE Sum(T) == SumFunctionOnSet(f, T)
           G == {T \in SUBSET R : Sum(S \cup T) = Sum(S) + Sum(T)}
<1>1. \A T \in SUBSET R : IsFiniteSet(T) /\ IsFiniteSet(S \cup T)
    BY FS_Subset, FS_Union
<1>2. \A T \in SUBSET R : Sum(T) \in Int /\ Sum(S \cup T) \in Int
    BY <1>1, SumInteger
<1>3. Sum(S) \in Int
    BY SumInteger
<1>4. {} \in G
  <2>1. S \cup {} = S
      OBVIOUS
  <2> QED
      BY <1>3, <2>1, SumEmpty
<1>5. ASSUME NEW T \in SUBSET R, NEW x \in R \ T, T \in G PROVE T \cup {x} \in G
  <2>1. Sum(T \cup {x}) = Sum(T) + f[x]
      BY <1>1, SumAdd
  <2>2. Sum((S \cup T) \cup {x}) = Sum(S \cup T) + f[x]
      BY <1>1, SumAdd
  <2>3. (S \cup T) \cup {x} = S \cup (T \cup {x})
      OBVIOUS
  <2>4. f[x] \in Int
      OBVIOUS
  <2>5. Sum(S \cup (T \cup {x})) = Sum(S \cup T) + f[x]
      BY <2>2, <2>3
  <2>6. Sum(S \cup T) = Sum(S) + Sum(T)
      BY <1>5
  <2> HIDE DEF Sum
  <2> QED
      BY <1>2, <1>3, <2>1, <2>4, <2>5, <2>6
<1> HIDE DEF G
<1>6. R \in G
    BY <1>4, <1>5, SubsetInduction
<1> QED
    BY <1>6 DEF G

\* Nothing adds up to nothing.
LEMMA SumZero ==
    ASSUME NEW S, IsFiniteSet(S), NEW f, \A x \in S : f[x] = 0
    PROVE  SumFunctionOnSet(f, S) = 0
<1> DEFINE G == {T \in SUBSET S : SumFunctionOnSet(f, T) = 0}
<1>1. {} \in G
    BY SumEmpty
<1>2. ASSUME NEW T \in SUBSET S, NEW x \in S \ T, T \in G PROVE T \cup {x} \in G
  <2>0. \A y \in T : f[y] = 0
      OBVIOUS
  <2>1. IsFiniteSet(T) /\ f[x] = 0 /\ \A y \in T : f[y] \in Int
      BY <2>0, FS_Subset
  <2>2. SumFunctionOnSet(f, T \cup {x}) = SumFunctionOnSet(f, T) + f[x]
      BY <2>1, SumAdd
  <2> QED
      BY <1>2, <2>1, <2>2
<1> HIDE DEF G
<1>3. S \in G
    BY <1>1, <1>2, SubsetInduction
<1> QED
    BY <1>3 DEF G

\* What is zero outside of a set adds up to its sum over the set.
LEMMA SumSupport ==
    ASSUME NEW S, IsFiniteSet(S), NEW T \in SUBSET S, NEW f,
           \A x \in T : f[x] \in Int, \A x \in S \ T : f[x] = 0
    PROVE  SumFunctionOnSet(f, S) = SumFunctionOnSet(f, T)
<1> DEFINE R == S \ T
<1>1. /\ IsFiniteSet(T) /\ IsFiniteSet(R)
      /\ S = T \cup R /\ T \cap R = {}
      /\ \A x \in R : f[x] = 0
    BY FS_Subset
<1> HIDE DEF R
<1>2. \A x \in T \cup R : f[x] \in Int
    BY <1>1
<1>3. SumFunctionOnSet(f, T \cup R) = SumFunctionOnSet(f, T) + SumFunctionOnSet(f, R)
    BY <1>1, <1>2, SumUnion
<1>4. SumFunctionOnSet(f, R) = 0
    BY <1>1, SumZero
<1>5. SumFunctionOnSet(f, T) \in Int
    BY <1>1, SumInteger
<1>6. SumFunctionOnSet(f, S) = SumFunctionOnSet(f, T \cup R)
    BY <1>1
<1> QED
    BY <1>3, <1>4, <1>5, <1>6

\* Functions that differ in one element have sums that differ as much.
LEMMA SumReplace ==
    ASSUME NEW S, IsFiniteSet(S), NEW f, NEW h, NEW e \in S,
           \A x \in S : f[x] \in Int /\ h[x] \in Int,
           \A x \in S \ {e} : h[x] = f[x]
    PROVE  SumFunctionOnSet(h, S) = SumFunctionOnSet(f, S) - f[e] + h[e]
<1>1. IsFiniteSet(S \ {e})
    BY FS_Subset
<1>2. SumFunctionOnSet(h, S) = SumFunctionOnSet(h, S \ {e}) + h[e]
    BY SumRemove
<1>3. SumFunctionOnSet(f, S) = SumFunctionOnSet(f, S \ {e}) + f[e]
    BY SumRemove
<1>4. SumFunctionOnSet(h, S \ {e}) = SumFunctionOnSet(f, S \ {e})
    BY <1>1, SumEqual
<1>5. SumFunctionOnSet(f, S \ {e}) \in Int
    BY <1>1, SumInteger
<1> QED
    BY <1>2, <1>3, <1>4, <1>5

\* The sum over the images of elements, no two of which have the same image.
LEMMA SumImage ==
    ASSUME NEW S, IsFiniteSet(S), NEW g,
           \A x, y \in S : g[x] = g[y] => x = y,
           NEW f, NEW h, \A x \in S : f[x] \in Int /\ h[g[x]] = f[x]
    PROVE  /\ IsFiniteSet({g[x] : x \in S})
           /\ SumFunctionOnSet(h, {g[x] : x \in S}) = SumFunctionOnSet(f, S)
<1> DEFINE Image(T) == {g[x] : x \in T}
           G == {T \in SUBSET S : /\ IsFiniteSet(Image(T))
                                  /\ SumFunctionOnSet(h, Image(T)) = SumFunctionOnSet(f, T)}
<1>1. {} \in G
  <2>1. Image({}) = {}
      OBVIOUS
  <2> QED
      BY <2>1, SumEmpty, FS_EmptySet
<1>2. ASSUME NEW T \in SUBSET S, NEW x \in S \ T, T \in G PROVE T \cup {x} \in G
  <2>1. Image(T \cup {x}) = Image(T) \cup {g[x]} /\ g[x] \notin Image(T)
      OBVIOUS
  <2>2. \A y \in Image(T) : h[y] \in Int
      OBVIOUS
  <2>3. IsFiniteSet(T) /\ IsFiniteSet(Image(T))
      BY <1>2, FS_Subset
  <2> HIDE DEF Image
  <2>4. IsFiniteSet(Image(T) \cup {g[x]})
      BY <2>3, FS_AddElement
  <2>5. f[x] \in Int /\ h[g[x]] = f[x] /\ \A y \in T : f[y] \in Int
      OBVIOUS
  <2>6. SumFunctionOnSet(f, T \cup {x}) = SumFunctionOnSet(f, T) + f[x]
      BY <2>3, <2>5, SumAdd
  <2>7. SumFunctionOnSet(h, Image(T) \cup {g[x]}) = SumFunctionOnSet(h, Image(T)) + h[g[x]]
      BY <2>1, <2>2, <2>3, <2>5, SumAdd
  <2> QED
      BY <1>2, <2>1, <2>4, <2>5, <2>6, <2>7
<1> HIDE DEF G
<1>3. S \in G
    BY <1>1, <1>2, SubsetInduction
<1> QED
    BY <1>3 DEF G

-----------------------------------------------------------------------------
(* Last positions *)

\* The last of some positions.
LEMMA LastPosition ==
    ASSUME NEW n \in Nat, NEW I \in SUBSET (1..n), I # {}
    PROVE  Max(I) \in I /\ \A i \in I : i <= Max(I)
<1>1. \A i \in I : i \in 1..n
    OBVIOUS
<1>2. \A i \in I : i \in Int /\ n - i \in Nat
    BY <1>1
<1> DEFINE J == {n - i : i \in I}
<1>3. J \in SUBSET Nat /\ J # {}
    BY <1>2
<1> HIDE DEF J
<1>4. PICK j \in J : \A k \in J : j <= k
    BY <1>3, SmallestNumber
<1>5. PICK x \in I : j = n - x
    BY <1>4 DEF J
<1>6. \A i \in I : x >= i
  <2> TAKE i \in I
  <2>1. n - i \in J
      BY DEF J
  <2>2. n - x <= n - i
      BY <1>4, <1>5, <2>1
  <2> QED
      BY <1>2, <2>2
<1>7. Max(I) \in I /\ \A i \in I : Max(I) >= i
    BY <1>6 DEF Max
<1> QED
    BY <1>2, <1>7

\* A position after all others is the last.
LEMMA NewPositionIsLast ==
    ASSUME NEW n \in Nat, NEW I \in SUBSET (1..n)
    PROVE  Max(I \cup {n + 1}) = n + 1
<1>1. n + 1 \in Nat /\ I \cup {n + 1} \in SUBSET (1..(n + 1)) /\ I \cup {n + 1} # {}
    OBVIOUS
<1>2. Max(I \cup {n + 1}) \in I \cup {n + 1} /\ n + 1 <= Max(I \cup {n + 1})
    BY <1>1, LastPosition
<1>3. \A i \in I : ~(n + 1 <= i)
  <2>1. \A i \in I : i \in 1..n
      OBVIOUS
  <2> QED
      BY <2>1
<1> QED
    BY <1>2, <1>3

\* The larger of a number and zero.
LEMMA MaxZero ==
    ASSUME NEW x \in Int PROVE Max({x, 0}) = IF x > 0 THEN x ELSE 0
<1> DEFINE m == IF x > 0 THEN x ELSE 0
<1>1. m \in {x, 0} /\ \A i \in {x, 0} : i <= m
    OBVIOUS
<1>2. \A j \in {x, 0} : (\A i \in {x, 0} : i <= j) => j = m
    OBVIOUS
<1> HIDE DEF m
<1>3. Max({x, 0}) = m
    BY <1>1, <1>2 DEF Max
<1> QED
    BY <1>3 DEF m

\* The image of a finite set is finite.
LEMMA FiniteImage ==
    ASSUME NEW S, IsFiniteSet(S), NEW g
    PROVE  IsFiniteSet({g[x] : x \in S})
<1> DEFINE Image(T) == {g[x] : x \in T}
           G == {T \in SUBSET S : IsFiniteSet(Image(T))}
<1>1. {} \in G
  <2>1. Image({}) = {}
      OBVIOUS
  <2> HIDE DEF Image
  <2> QED
      BY <2>1, FS_EmptySet
<1>2. ASSUME NEW T \in SUBSET S, NEW x \in S \ T, T \in G PROVE T \cup {x} \in G
  <2>1. Image(T \cup {x}) = Image(T) \cup {g[x]}
      OBVIOUS
  <2> HIDE DEF Image
  <2>2. IsFiniteSet(Image(T) \cup {g[x]})
      BY <1>2, FS_AddElement
  <2> QED
      BY <2>1, <2>2
<1> HIDE DEF G
<1>3. S \in G
    BY <1>1, <1>2, SubsetInduction
<1> QED
    BY <1>3 DEF G

\* The sizes of disjoint sets add up to that of their union.
LEMMA SumOfSizes ==
    ASSUME NEW S, IsFiniteSet(S), NEW f, NEW r,
           \A x \in S : IsFiniteSet(r[x]) /\ f[x] = Cardinality(r[x]),
           \A x, y \in S : x # y => r[x] \cap r[y] = {}
    PROVE  SumFunctionOnSet(f, S) = Cardinality(UNION {r[x] : x \in S})
<1> DEFINE All(T) == UNION {r[x] : x \in T}
           G == {T \in SUBSET S : /\ IsFiniteSet(All(T))
                                  /\ SumFunctionOnSet(f, T) = Cardinality(All(T))}
<1>1. {} \in G
  <2>1. All({}) = {}
      OBVIOUS
  <2> HIDE DEF All
  <2> QED
      BY <2>1, SumEmpty, FS_EmptySet
<1>2. ASSUME NEW T \in SUBSET S, NEW x \in S \ T, T \in G PROVE T \cup {x} \in G
  <2>1. /\ IsFiniteSet(All(T)) /\ IsFiniteSet(r[x])
        /\ SumFunctionOnSet(f, T) = Cardinality(All(T))
      BY <1>2
  <2>2. All(T \cup {x}) = All(T) \cup r[x]
      OBVIOUS
  <2>3. All(T) \cap r[x] = {}
      BY <1>2
  <2> HIDE DEF All
  <2>4. /\ IsFiniteSet(All(T) \cup r[x])
        /\ Cardinality(All(T) \cup r[x]) = Cardinality(All(T)) + Cardinality(r[x])
    <3>1. /\ IsFiniteSet(All(T) \cup r[x])
          /\ Cardinality(All(T) \cup r[x]) =
                 Cardinality(All(T)) + Cardinality(r[x]) - Cardinality(All(T) \cap r[x])
        BY <2>1, FS_Union
    <3>2. Cardinality(All(T) \cap r[x]) = 0
        BY <2>3, FS_EmptySet
    <3>3. Cardinality(All(T)) \in Nat /\ Cardinality(r[x]) \in Nat
        BY <2>1, FS_CardinalityType
    <3> QED
        BY <3>1, <3>2, <3>3
  <2>5. \A y \in T \cup {x} : f[y] \in Int
      BY FS_CardinalityType
  <2>6. IsFiniteSet(T)
      BY FS_Subset
  <2>7. SumFunctionOnSet(f, T \cup {x}) = SumFunctionOnSet(f, T) + f[x]
      BY <2>5, <2>6, SumAdd
  <2>8. f[x] = Cardinality(r[x]) /\ Cardinality(r[x]) \in Nat /\ Cardinality(All(T)) \in Nat
      BY <2>1, FS_CardinalityType
  <2>9. /\ IsFiniteSet(All(T \cup {x}))
        /\ SumFunctionOnSet(f, T \cup {x}) = Cardinality(All(T \cup {x}))
      BY <2>1, <2>2, <2>4, <2>7, <2>8
  <2> QED
      BY <2>9
<1> HIDE DEF G
<1>3. S \in G
    BY <1>1, <1>2, SubsetInduction
<1> QED
    BY <1>3 DEF G

\* The numbers from one on to before another.
LEMMA RangeSize ==
    ASSUME NEW a \in Nat, NEW b \in Nat, a <= b
    PROVE  IsFiniteSet(a..(b - 1)) /\ Cardinality(a..(b - 1)) = b - a
<1>1. /\ IsFiniteSet(a..(b - 1))
      /\ Cardinality(a..(b - 1)) = IF a > b - 1 THEN 0 ELSE (b - 1) - a + 1
    BY FS_Interval
<1> QED
    BY <1>1
=============================================================================
