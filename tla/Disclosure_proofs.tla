--------------------------- MODULE Disclosure_proofs ---------------------------
(***************************************************************************)
(* Theorems about Disclosure for any document, quantities, hours and       *)
(* measures a company can enter.                                           *)
(*                                                                         *)
(* The sums of the calculators are sums over sets of the community         *)
(* modules, which are folds: the first lemmas give them an order, a bound  *)
(* and a linear law, by taking the smallest subset a law fails for. The    *)
(* rest follows the code: progress from the forms to the figures, the      *)
(* report from the entries to the shares, the score from the measures to   *)
(* the grade. DataInv (the copies of renamed forms follow them) and        *)
(* NumbersInv (the numbers keep their types) are the inductive invariants. *)
(***************************************************************************)
EXTENDS Disclosure, FiniteSetTheorems, WellFoundedInduction, TLAPS

\* A set of naturals that is not empty has a least member.
LEMMA LeastNatural ==
  ASSUME NEW S \in SUBSET Nat, S # {}
  PROVE  \E x \in S : \A y \in S : x <= y
<1>1. PICK x \in S : \A y \in S : <<y, x>> \notin OpToRel(<, Nat)
  BY WFMin, NatLessThanWellFounded
<1>2. \A y \in S : ~(y < x)
  BY <1>1 DEF OpToRel
<1>3. QED
  BY <1>2

\* A family of subsets of a finite set has a smallest member.
LEMMA SmallestSubset ==
  ASSUME NEW S, IsFiniteSet(S), NEW F \in SUBSET SUBSET S, F # {}
  PROVE  \E A \in F : IsFiniteSet(A) /\ \A x \in A : A \ {x} \notin F
<1> DEFINE Sizes == {Cardinality(A) : A \in F}
<1>1. \A A \in SUBSET S : IsFiniteSet(A) /\ Cardinality(A) \in Nat
  BY FS_Subset, FS_CardinalityType
<1>2. Sizes \in SUBSET Nat /\ Sizes # {}
  BY <1>1
<1>3. PICK n \in Sizes : \A m \in Sizes : n <= m
  BY <1>2, LeastNatural
<1>4. PICK A \in F : Cardinality(A) = n
  BY <1>3
<1>5. SUFFICES ASSUME NEW x \in A, A \ {x} \in F PROVE FALSE
  BY <1>1, <1>4
<1>6. Cardinality(A \ {x}) = n - 1 /\ n \in Nat
  BY <1>1, <1>4, <1>5, FS_RemoveElement
<1>7. n - 1 \in Sizes
  BY <1>5, <1>6
<1>8. QED
  BY <1>3, <1>6, <1>7

\* Induction over the subsets of a finite set, as a statement about a family of them.
LEMMA SubsetInduction ==
  ASSUME NEW S, IsFiniteSet(S), NEW C,
         {} \in C,
         \A A \in SUBSET S, x \in S : A \in C /\ x \notin A => A \cup {x} \in C
  PROVE  SUBSET S \subseteq C
<1> DEFINE F == (SUBSET S) \ C
<1> SUFFICES ASSUME F # {} PROVE FALSE
  OBVIOUS
<1>1. PICK A \in F : \A x \in A : A \ {x} \notin F
  BY SmallestSubset
<1>2. PICK x \in A : TRUE
  BY <1>1
<1> DEFINE B == A \ {x}
<1>3. B \in SUBSET S /\ B \in C /\ A = B \cup {x} /\ x \notin B /\ x \in S
  BY <1>1, <1>2
<1> HIDE DEF B
<1>4. B \cup {x} \in C
  BY <1>3
<1>5. QED
  BY <1>1, <1>3, <1>4

IsIter(it, f, S) ==
  it = [s \in SUBSET S |->
          IF s = {} THEN 0 ELSE f[CHOOSE x \in s : TRUE] + it[s \ {CHOOSE x \in s : TRUE}]]

\* The community modules define a sum by a function IT on the subsets of its
\* set.
LEMMA SumIsIter ==
  ASSUME NEW f, NEW S
  PROVE  SumFunctionOnSet(f, S) = (CHOOSE fn : IsIter(fn, f, S))[S]
BY Zenon DEF SumFunctionOnSet, FoldFunctionOnSet, MapThenFoldSet, IsIter

\* Two such functions agree wherever both are defined: take the smallest
\* subset on which they differ.
LEMMA IterUnique ==
  ASSUME NEW f, NEW S, IsFiniteSet(S), NEW T, NEW it, NEW jt,
         IsIter(it, f, S), IsIter(jt, f, T)
  PROVE  \A A \in SUBSET S : A \subseteq T => it[A] = jt[A]
<1> DEFINE F == {A \in SUBSET S : A \subseteq T /\ it[A] # jt[A]}
<1> SUFFICES ASSUME F # {} PROVE FALSE
  OBVIOUS
<1>1. PICK A \in F : \A x \in A : A \ {x} \notin F
  BY SmallestSubset
<1> DEFINE y == CHOOSE y \in A : TRUE
<1>2. A # {}
  BY <1>1 DEF IsIter
<1>3. y \in A /\ A \ {y} \in SUBSET S /\ A \ {y} \subseteq T /\ A \ {y} \notin F
  BY <1>1, <1>2
<1>4. it[A \ {y}] = jt[A \ {y}]
  BY <1>3
<1>5. it[A] = f[y] + it[A \ {y}] /\ jt[A] = f[y] + jt[A \ {y}]
  BY <1>1, <1>2 DEF IsIter
<1>6. QED
  BY <1>1, <1>4, <1>5

\* Such a function exists: take the smallest subset that has none.
LEMMA IterExists ==
  ASSUME NEW f, NEW S, IsFiniteSet(S)
  PROVE  \E it : IsIter(it, f, S)
<1> DEFINE F == {A \in SUBSET S : ~\E it : IsIter(it, f, A)}
<1> SUFFICES ASSUME F # {} PROVE FALSE
  OBVIOUS
<1>1. PICK A \in F : IsFiniteSet(A) /\ \A x \in A : A \ {x} \notin F
  BY SmallestSubset
<1> DEFINE Of(B) == (CHOOSE fn : IsIter(fn, f, B))[B]
           One(B) == CHOOSE x \in B : TRUE
           Val(B) == IF B = {} THEN 0 ELSE f[One(B)] + Of(B \ {One(B)})
           new == [B \in SUBSET A |-> Val(B)]
<1>2. ASSUME NEW B \in SUBSET A, B # A PROVE \E it : IsIter(it, f, B)
  <2>1. PICK x \in A : B \subseteq A \ {x}
    BY <1>2
  <2>2. PICK it : IsIter(it, f, A \ {x})
    BY <1>1, <2>1
  <2> DEFINE jt == [D \in SUBSET B |-> it[D]]
  <2>3. ASSUME NEW D \in SUBSET B
        PROVE  it[D] = IF D = {} THEN 0
                       ELSE f[CHOOSE x1 \in D : TRUE] + it[D \ {CHOOSE x1 \in D : TRUE}]
    BY <2>1, <2>2 DEF IsIter
  <2>4. IsIter(jt, f, B)
    BY <2>3 DEF IsIter
  <2>5. QED
    BY <2>4
<1>3. ASSUME NEW B \in SUBSET A, B # A PROVE Of(B) = Val(B)
  <2>1. PICK it : it = (CHOOSE fn : IsIter(fn, f, B)) /\ IsIter(it, f, B)
    BY <1>2, <1>3
  <2>2. CASE B = {}
    BY <2>1, <2>2 DEF IsIter
  <2>3. CASE B # {}
    <3> DEFINE y == One(B)
               D == B \ {y}
    <3>1. y \in B /\ D \in SUBSET A /\ D # A /\ D \in SUBSET B /\ IsFiniteSet(B)
      BY <1>1, <2>3, FS_Subset
    <3>2. PICK jt : jt = (CHOOSE fn : IsIter(fn, f, D)) /\ IsIter(jt, f, D)
      BY <1>2, <3>1
    <3>3. it[D] = jt[D]
      BY <2>1, <3>1, <3>2, IterUnique
    <3>4. it[B] = f[y] + it[D]
      BY <2>1, <2>3 DEF IsIter
    <3>5. QED
      BY <2>1, <2>3, <3>2, <3>3, <3>4
  <2>4. QED
    BY <2>2, <2>3
<1> HIDE DEF Of, Val
<1>4. \A B \in SUBSET A :
        new[B] = IF B = {} THEN 0 ELSE f[One(B)] + new[B \ {One(B)}]
  <2> SUFFICES ASSUME NEW B \in SUBSET A, B # {} PROVE new[B] = f[One(B)] + new[B \ {One(B)}]
    BY DEF Val
  <2>1. One(B) \in B
    OBVIOUS
  <2>2. B \ {One(B)} \in SUBSET A /\ B \ {One(B)} # A
    BY <2>1
  <2> HIDE DEF One
  <2>3. new[B \ {One(B)}] = Val(B \ {One(B)}) /\ new[B] = Val(B)
    BY <2>2
  <2>4. Val(B \ {One(B)}) = Of(B \ {One(B)})
    BY <1>3, <2>2
  <2>5. QED
    BY <2>3, <2>4 DEF Val
<1>5. IsIter(new, f, A)
  BY <1>4 DEF IsIter
<1>6. QED
  BY <1>1, <1>5

\* The sum over no element is zero.
LEMMA SumEmpty == ASSUME NEW f PROVE SumFunctionOnSet(f, {}) = 0
<1>1. PICK it : it = (CHOOSE fn : IsIter(fn, f, {})) /\ IsIter(it, f, {})
  BY IterExists, FS_EmptySet
<1>2. QED
  BY <1>1, SumIsIter DEF IsIter

\* A sum over a set that is not empty is some element plus the sum over the
\* rest.
LEMMA SumFirst ==
  ASSUME NEW f, NEW S, IsFiniteSet(S), S # {}
  PROVE  \E x \in S : SumFunctionOnSet(f, S) = f[x] + SumFunctionOnSet(f, S \ {x})
<1> DEFINE x == CHOOSE x \in S : TRUE
           T == S \ {x}
<1>1. x \in S /\ T \in SUBSET S /\ IsFiniteSet(T)
  BY FS_Subset
<1>2. PICK it : it = (CHOOSE fn : IsIter(fn, f, S)) /\ IsIter(it, f, S)
  BY IterExists
<1>3. PICK jt : jt = (CHOOSE fn : IsIter(fn, f, T)) /\ IsIter(jt, f, T)
  BY IterExists, <1>1
<1>4. it[T] = jt[T]
  BY <1>1, <1>2, <1>3, IterUnique
<1>5. it[S] = f[x] + it[T]
  BY <1>2 DEF IsIter
<1>6. SumFunctionOnSet(f, S) = it[S] /\ SumFunctionOnSet(f, T) = jt[T]
  BY <1>2, <1>3, SumIsIter
<1>7. QED
  BY <1>1, <1>4, <1>5, <1>6

\* A sum of integers is an integer.
LEMMA SumInt ==
  ASSUME NEW f, NEW S, IsFiniteSet(S), \A x \in S : f[x] \in Int
  PROVE  SumFunctionOnSet(f, S) \in Int
<1> DEFINE F == {A \in SUBSET S : SumFunctionOnSet(f, A) \notin Int}
<1> SUFFICES ASSUME F # {} PROVE FALSE
  OBVIOUS
<1>1. PICK A \in F : IsFiniteSet(A) /\ \A x \in A : A \ {x} \notin F
  BY SmallestSubset
<1>2. A # {}
  BY <1>1, SumEmpty
<1>3. PICK x \in A : SumFunctionOnSet(f, A) = f[x] + SumFunctionOnSet(f, A \ {x})
  BY <1>1, <1>2, SumFirst
<1>4. A \ {x} \in SUBSET S /\ x \in S /\ A \ {x} \notin F
  BY <1>1
<1>5. QED
  BY <1>1, <1>3, <1>4

\* Any member may be taken first.
LEMMA SumSplit ==
  ASSUME NEW f, NEW S, IsFiniteSet(S), \A x \in S : f[x] \in Int, NEW y \in S
  PROVE  SumFunctionOnSet(f, S) = f[y] + SumFunctionOnSet(f, S \ {y})
<1> DEFINE Good(A) == \A z \in A : SumFunctionOnSet(f, A) = f[z] + SumFunctionOnSet(f, A \ {z})
           F == {A \in SUBSET S : ~Good(A)}
<1> SUFFICES ASSUME F # {} PROVE FALSE
  OBVIOUS
<1>1. PICK A \in F : IsFiniteSet(A) /\ \A x \in A : A \ {x} \notin F
  BY SmallestSubset
<1>2. \A x \in A : A \ {x} \in SUBSET S /\ x \in S /\ Good(A \ {x})
  BY <1>1
<1>3. A # {}
  BY <1>1
<1>4. PICK x \in A : SumFunctionOnSet(f, A) = f[x] + SumFunctionOnSet(f, A \ {x})
  BY <1>1, <1>3, SumFirst
<1>5. ASSUME NEW z \in A, z # x
      PROVE  SumFunctionOnSet(f, A) = f[z] + SumFunctionOnSet(f, A \ {z})
  <2> DEFINE B == (A \ {x}) \ {z}
  <2>1. /\ B = (A \ {z}) \ {x} /\ x \in A \ {z} /\ z \in A \ {x}
        /\ f[x] \in Int /\ f[z] \in Int /\ B \in SUBSET S
    BY <1>2, <1>5
  <2>2. SumFunctionOnSet(f, A \ {x}) = f[z] + SumFunctionOnSet(f, B)
    BY <1>2, <2>1
  <2>3. SumFunctionOnSet(f, A \ {z}) = f[x] + SumFunctionOnSet(f, B)
    BY <1>2, <2>1
  <2>4. SumFunctionOnSet(f, B) \in Int
    <3>1. IsFiniteSet(B) /\ \A v \in B : f[v] \in Int
      BY <2>1, FS_Subset
    <3>2. QED
      BY <3>1, SumInt
  <2> HIDE DEF B
  <2>5. QED
    BY <1>4, <2>1, <2>2, <2>3, <2>4
<1>6. QED
  BY <1>1, <1>4, <1>5

\* Adding a member adds its value.
LEMMA SumAdd ==
  ASSUME NEW f, NEW S, IsFiniteSet(S), NEW y, y \notin S, f[y] \in Int,
         \A x \in S : f[x] \in Int
  PROVE  SumFunctionOnSet(f, S \cup {y}) = SumFunctionOnSet(f, S) + f[y]
<1> DEFINE T == S \cup {y}
<1>1. IsFiniteSet(T) /\ (\A x \in T : f[x] \in Int) /\ y \in T /\ T \ {y} = S
  BY FS_AddElement
<1> HIDE DEF T
<1>2. SumFunctionOnSet(f, T) = f[y] + SumFunctionOnSet(f, T \ {y})
  BY <1>1, SumSplit
<1>3. SumFunctionOnSet(f, T) = f[y] + SumFunctionOnSet(f, S)
  BY <1>1, <1>2
<1>4. SumFunctionOnSet(f, S) \in Int
  BY SumInt
<1>5. SumFunctionOnSet(f, T) = SumFunctionOnSet(f, S) + f[y]
  BY <1>3, <1>4
<1>6. QED
  BY <1>5 DEF T

\* A sum is monotone in the values.
LEMMA SumMonotone ==
  ASSUME NEW f, NEW g, NEW S, IsFiniteSet(S),
         \A x \in S : f[x] \in Int /\ g[x] \in Int /\ f[x] <= g[x]
  PROVE  SumFunctionOnSet(f, S) <= SumFunctionOnSet(g, S)
<1> DEFINE C == {A \in SUBSET S : SumFunctionOnSet(f, A) <= SumFunctionOnSet(g, A)}
<1>1. {} \in C
  BY SumEmpty
<1>2. ASSUME NEW A \in SUBSET S, NEW x \in S, A \in C, x \notin A PROVE A \cup {x} \in C
  <2>1. IsFiniteSet(A) /\ \A z \in A : f[z] \in Int /\ g[z] \in Int
    BY FS_Subset
  <2>2. /\ SumFunctionOnSet(f, A \cup {x}) = SumFunctionOnSet(f, A) + f[x]
        /\ SumFunctionOnSet(g, A \cup {x}) = SumFunctionOnSet(g, A) + g[x]
    BY <1>2, <2>1, SumAdd
  <2>3. SumFunctionOnSet(f, A) \in Int /\ SumFunctionOnSet(g, A) \in Int
    BY <2>1, SumInt
  <2>4. QED
    BY <1>2, <2>2, <2>3
<1> HIDE DEF C
<1>3. SUBSET S \subseteq C
  BY <1>1, <1>2, SubsetInduction
<1>4. QED
  BY <1>3 DEF C

\* Sums of functions that agree agree.
LEMMA SumSame ==
  ASSUME NEW f, NEW g, NEW S, IsFiniteSet(S), \A x \in S : f[x] \in Int /\ f[x] = g[x]
  PROVE  SumFunctionOnSet(f, S) = SumFunctionOnSet(g, S)
<1>1. SumFunctionOnSet(f, S) \in Int /\ SumFunctionOnSet(g, S) \in Int
  BY SumInt
<1>2. SumFunctionOnSet(f, S) <= SumFunctionOnSet(g, S)
  BY SumMonotone
<1>3. SumFunctionOnSet(g, S) <= SumFunctionOnSet(f, S)
  BY SumMonotone
<1>4. QED
  BY <1>1, <1>2, <1>3

\* Sums of functions that are never further apart than c.
LEMMA SumNear ==
  ASSUME NEW f, NEW g, NEW S, IsFiniteSet(S), NEW b \in Int, NEW c \in Int,
         \A x \in S : f[x] \in Int /\ g[x] \in Int /\ b <= f[x] - g[x] /\ f[x] - g[x] <= c
  PROVE  LET d == SumFunctionOnSet(f, S) - SumFunctionOnSet(g, S)
         IN  b * Cardinality(S) <= d /\ d <= c * Cardinality(S)
<1> DEFINE Sf(A) == SumFunctionOnSet(f, A)
           Sg(A) == SumFunctionOnSet(g, A)
           C == {A \in SUBSET S : /\ b * Cardinality(A) <= Sf(A) - Sg(A)
                                  /\ Sf(A) - Sg(A) <= c * Cardinality(A)}
<1>1. {} \in C
  BY SumEmpty, FS_EmptySet
<1>2. ASSUME NEW A \in SUBSET S, NEW x \in S, A \in C, x \notin A PROVE A \cup {x} \in C
  <2>1. IsFiniteSet(A) /\ \A z \in A : f[z] \in Int /\ g[z] \in Int
    BY FS_Subset
  <2>2. Sf(A \cup {x}) = Sf(A) + f[x] /\ Sg(A \cup {x}) = Sg(A) + g[x]
    BY <1>2, <2>1, SumAdd
  <2>3. Sf(A) \in Int /\ Sg(A) \in Int
    BY <2>1, SumInt
  <2>4. Cardinality(A) \in Nat /\ Cardinality(A \cup {x}) = Cardinality(A) + 1
    BY <1>2, <2>1, FS_AddElement, FS_CardinalityType
  <2> HIDE DEF Sf, Sg
  <2> DEFINE n == Cardinality(A)
  <2>10. n \in Nat /\ Cardinality(A \cup {x}) = n + 1
    BY <2>4
  <2> HIDE DEF n
  <2>11. b * (n + 1) = b * n + b /\ c * (n + 1) = c * n + c
    BY <2>10
  <2> USE DEF n
  <2>5. /\ b * Cardinality(A \cup {x}) = b * Cardinality(A) + b
        /\ c * Cardinality(A \cup {x}) = c * Cardinality(A) + c
    BY <2>10, <2>11
  <2>6. b * Cardinality(A) \in Int /\ c * Cardinality(A) \in Int
    BY <2>4
  <2>7. b <= f[x] - g[x] /\ f[x] - g[x] <= c /\ f[x] \in Int /\ g[x] \in Int
    OBVIOUS
  <2>8. /\ b * Cardinality(A \cup {x}) <= Sf(A \cup {x}) - Sg(A \cup {x})
        /\ Sf(A \cup {x}) - Sg(A \cup {x}) <= c * Cardinality(A \cup {x})
    BY <1>2, <2>2, <2>3, <2>5, <2>6, <2>7
  <2>9. QED
    BY <2>8
<1> HIDE DEF C
<1>3. SUBSET S \subseteq C
  BY <1>1, <1>2, SubsetInduction
<1>4. QED
  BY <1>3 DEF C

\* A sum of zeros is zero.
LEMMA SumZero ==
  ASSUME NEW f, NEW S, IsFiniteSet(S), \A x \in S : f[x] = 0
  PROVE  SumFunctionOnSet(f, S) = 0
<1> DEFINE C == {A \in SUBSET S : SumFunctionOnSet(f, A) = 0}
<1>1. {} \in C
  BY SumEmpty
<1>2. ASSUME NEW A \in SUBSET S, NEW x \in S, A \in C, x \notin A PROVE A \cup {x} \in C
  <2>1. IsFiniteSet(A) /\ \A z \in A : f[z] \in Int
    BY FS_Subset
  <2>2. SumFunctionOnSet(f, A \cup {x}) = SumFunctionOnSet(f, A) + f[x]
    BY <1>2, <2>1, SumAdd
  <2>3. QED
    BY <1>2, <2>2
<1> HIDE DEF C
<1>3. SUBSET S \subseteq C
  BY <1>1, <1>2, SubsetInduction
<1>4. QED
  BY <1>3 DEF C

\* A sum of naturals is a natural.
LEMMA SumNat ==
  ASSUME NEW f, NEW S, IsFiniteSet(S), \A x \in S : f[x] \in Nat
  PROVE  SumFunctionOnSet(f, S) \in Nat
<1> DEFINE zero == [x \in S |-> 0]
<1>1. \A x \in S : zero[x] \in Int /\ f[x] \in Int /\ zero[x] <= f[x] /\ zero[x] = 0
  OBVIOUS
<1> HIDE DEF zero
<1>2. SumFunctionOnSet(zero, S) <= SumFunctionOnSet(f, S)
  BY <1>1, SumMonotone
<1>3. SumFunctionOnSet(zero, S) = 0
  BY <1>1, SumZero
<1>4. SumFunctionOnSet(f, S) \in Int
  BY SumInt
<1>5. QED
  BY <1>2, <1>3, <1>4

\* No member exceeds the sum.
LEMMA SumMember ==
  ASSUME NEW f, NEW S, IsFiniteSet(S), \A x \in S : f[x] \in Nat, NEW y \in S
  PROVE  f[y] <= SumFunctionOnSet(f, S)
<1>1. IsFiniteSet(S \ {y}) /\ \A x \in S \ {y} : f[x] \in Nat
  BY FS_Subset
<1>2. SumFunctionOnSet(f, S \ {y}) \in Nat
  BY <1>1, SumNat
<1>3. SumFunctionOnSet(f, S) = f[y] + SumFunctionOnSet(f, S \ {y})
  BY SumSplit
<1>4. QED
  BY <1>2, <1>3

\* The sum of values between b and c.
LEMMA SumBounds ==
  ASSUME NEW f, NEW S, IsFiniteSet(S), NEW b \in Int, NEW c \in Int,
         \A x \in S : f[x] \in Int /\ b <= f[x] /\ f[x] <= c
  PROVE  /\ b * Cardinality(S) <= SumFunctionOnSet(f, S)
         /\ SumFunctionOnSet(f, S) <= c * Cardinality(S)
<1> DEFINE zero == [x \in S |-> 0]
<1>1. \A x \in S : f[x] \in Int /\ zero[x] \in Int /\ b <= f[x] - zero[x] /\ f[x] - zero[x] <= c
  OBVIOUS
<1>2. \A x \in S : zero[x] = 0
  OBVIOUS
<1> HIDE DEF zero
<1>3. SumFunctionOnSet(zero, S) = 0
  BY <1>2, SumZero
<1>4. SumFunctionOnSet(f, S) \in Int
  BY SumInt
<1>5. LET d == SumFunctionOnSet(f, S) - SumFunctionOnSet(zero, S)
      IN  b * Cardinality(S) <= d /\ d <= c * Cardinality(S)
  BY <1>1, SumNear
<1>6. QED
  BY <1>3, <1>4, <1>5

\* A set with at most one element more than a finite set is finite.
LEMMA PlusOne ==
  ASSUME NEW S, IsFiniteSet(S), NEW x, NEW T, T \subseteq S \cup {x}
  PROVE  IsFiniteSet(T)
BY FS_AddElement, FS_Subset

\* Sets listed by their elements are finite.
LEMMA TwoAreFinite == ASSUME NEW a, NEW b PROVE IsFiniteSet({a, b})
<1>1. IsFiniteSet({a})
  BY FS_Singleton
<1>2. QED
  BY <1>1, PlusOne

LEMMA ThreeAreFinite == ASSUME NEW a, NEW b, NEW c PROVE IsFiniteSet({a, b, c})
<1>1. IsFiniteSet({a, b})
  BY TwoAreFinite
<1>2. QED
  BY <1>1, PlusOne

LEMMA FourAreFinite == ASSUME NEW a, NEW b, NEW c, NEW d PROVE IsFiniteSet({a, b, c, d})
<1>1. IsFiniteSet({a, b, c})
  BY ThreeAreFinite
<1>2. QED
  BY <1>1, PlusOne

LEMMA SevenAreFinite ==
  ASSUME NEW a, NEW b, NEW c, NEW d, NEW e, NEW f, NEW g
  PROVE  IsFiniteSet({a, b, c, d, e, f, g})
<1>1. IsFiniteSet({a, b, c, d})
  BY FourAreFinite
<1>2. IsFiniteSet({a, b, c, d, e})
  BY <1>1, PlusOne
<1>3. IsFiniteSet({a, b, c, d, e, f})
  BY <1>2, PlusOne
<1>4. QED
  BY <1>3, PlusOne

LEMMA EightAreFinite ==
  ASSUME NEW a, NEW b, NEW c, NEW d, NEW e, NEW f, NEW g, NEW h
  PROVE  IsFiniteSet({a, b, c, d, e, f, g, h})
<1>1. IsFiniteSet({a, b, c, d, e, f, g})
  BY SevenAreFinite
<1>2. QED
  BY <1>1, PlusOne

\* The two forms of the legal and regulatory topic, listed.
LEMMA LegalFormsAre == LegalForms = {"boardAndManagementOversight", "publicPolicyEngagement"}
BY DEF LegalForms, Expected

\* The topics of the calculator, listed.
LEMMA GroupsAre ==
  Groups = {"stationarySources", "mobileSources", "processEmissions", "fugitiveEmissions",
            "upstream", "downstream", "airPollutantEmissions", "freshwaterWithdrawals",
            "producedWaterManagement", "environmentalManagementPolicies",
            "hydrocarbonSpills", "reservesInSensitiveAreas", "productionVolume",
            "offshoreSites", "terrestrialSites", "securityHumanRights",
            "communityRelations", "workforceHealthSafety", "healthAndSafetyPerformance",
            "reservesValuationAndCapitalExpenditures", "businessEthicsAndTransparency",
            "criticalIncidentRiskManagement", "legalRegulatoryEnvironment"}
BY DEF Groups, Expected

\* The forms of each topic, listed.
LEMMA FormsOfGroups ==
  /\ DOMAIN Expected["stationarySources"] = {"electricityHeat", "industrialProcess",
        "oilGasOperations"}
  /\ DOMAIN Expected["mobileSources"] = {"roadTransport", "vehicleEquipment",
        "marineAviation"}
  /\ DOMAIN Expected["processEmissions"] = {"cementManufacturing", "gasFlaring"}
  /\ DOMAIN Expected["fugitiveEmissions"] = {"ventingNaturalGas", "hfcLeaks"}
  /\ DOMAIN Expected["upstream"] = {"purchasedGoodsAndServices", "capitalGoods",
        "fuelEnergyRelatedActivities", "upstreamTransportationDistribution",
        "wasteGeneratedInOperations", "businessTravel", "employeeCommuting",
        "upstreamLeasedAssets"}
  /\ DOMAIN Expected["downstream"] = {"downstreamTransportationDistribution",
        "processingSoldProducts", "useOfSoldProducts", "endOfLifeTreatment",
        "downstreamLeasedAssets", "franchises", "investments"}
  /\ DOMAIN Expected["airPollutantEmissions"] = {"airPollutants"}
  /\ DOMAIN Expected["freshwaterWithdrawals"] = {"freshwater"}
  /\ DOMAIN Expected["producedWaterManagement"] = {"producedWater"}
  /\ DOMAIN Expected["environmentalManagementPolicies"] = {"policies"}
  /\ DOMAIN Expected["hydrocarbonSpills"] = {"spills"}
  /\ DOMAIN Expected["reservesInSensitiveAreas"] = {"sensitiveReserves"}
  /\ DOMAIN Expected["productionVolume"] = {"production"}
  /\ DOMAIN Expected["offshoreSites"] = {"offshore"}
  /\ DOMAIN Expected["terrestrialSites"] = {"terrestrial"}
  /\ DOMAIN Expected["securityHumanRights"] = {"operationsInConflictZones",
        "reservesInNearIndigenousLand", "humanRightsEngagementProcesses"}
  /\ DOMAIN Expected["communityRelations"] = {"communityRisk", "hcdtContribution",
        "disputeResolution", "operationalDelays"}
  /\ DOMAIN Expected["workforceHealthSafety"] = {"safetyManagementSystems"}
  /\ DOMAIN Expected["healthAndSafetyPerformance"] = {"direct", "contract"}
  /\ DOMAIN Expected["reservesValuationAndCapitalExpenditures"] =
        {"reservesSensitivityToCarbonPricing", "embeddedCarbonInReserves",
        "renewableEnergyInvestment", "capitalExpenditureStrategy"}
  /\ DOMAIN Expected["businessEthicsAndTransparency"] =
        {"reservesInCountriesWithHighCorruptionRisk", "antiCorruptionManagementSystem"}
  /\ DOMAIN Expected["criticalIncidentRiskManagement"] = {"processSafetyEvents",
        "catastrophicRiskManagementSystems"}
  /\ DOMAIN Expected["legalRegulatoryEnvironment"] = {"boardAndManagementOversight",
        "publicPolicyEngagement"}
BY DEF Expected

\* Every topic has forms and every form expects fields.
LEMMA ExpectedIsPositive ==
  ASSUME NEW g \in Groups
  PROVE  DOMAIN Expected[g] # {} /\ \A f \in DOMAIN Expected[g] : Expected[g][f] \in Nat \ {0}
<1>1. CASE g = "stationarySources"
  BY <1>1 DEF Expected
<1>2. CASE g = "mobileSources"
  BY <1>2 DEF Expected
<1>3. CASE g = "processEmissions"
  BY <1>3 DEF Expected
<1>4. CASE g = "fugitiveEmissions"
  BY <1>4 DEF Expected
<1>5. CASE g = "upstream"
  BY <1>5 DEF Expected
<1>6. CASE g = "downstream"
  BY <1>6 DEF Expected
<1>7. CASE g = "airPollutantEmissions"
  BY <1>7 DEF Expected
<1>8. CASE g = "freshwaterWithdrawals"
  BY <1>8 DEF Expected
<1>9. CASE g = "producedWaterManagement"
  BY <1>9 DEF Expected
<1>10. CASE g = "environmentalManagementPolicies"
  BY <1>10 DEF Expected
<1>11. CASE g = "hydrocarbonSpills"
  BY <1>11 DEF Expected
<1>12. CASE g = "reservesInSensitiveAreas"
  BY <1>12 DEF Expected
<1>13. CASE g = "productionVolume"
  BY <1>13 DEF Expected
<1>14. CASE g = "offshoreSites"
  BY <1>14 DEF Expected
<1>15. CASE g = "terrestrialSites"
  BY <1>15 DEF Expected
<1>16. CASE g = "securityHumanRights"
  BY <1>16 DEF Expected
<1>17. CASE g = "communityRelations"
  BY <1>17 DEF Expected
<1>18. CASE g = "workforceHealthSafety"
  BY <1>18 DEF Expected
<1>19. CASE g = "healthAndSafetyPerformance"
  BY <1>19 DEF Expected
<1>20. CASE g = "reservesValuationAndCapitalExpenditures"
  BY <1>20 DEF Expected
<1>21. CASE g = "businessEthicsAndTransparency"
  BY <1>21 DEF Expected
<1>22. CASE g = "criticalIncidentRiskManagement"
  BY <1>22 DEF Expected
<1>23. CASE g = "legalRegulatoryEnvironment"
  BY <1>23 DEF Expected
<1>24. QED
  BY <1>1, <1>2, <1>3, <1>4, <1>5, <1>6, <1>7, <1>8, <1>9, <1>10, <1>11, <1>12, <1>13,
        <1>14, <1>15, <1>16, <1>17, <1>18, <1>19, <1>20, <1>21, <1>22, <1>23, GroupsAre

\* A topic has finitely many forms.
LEMMA FormsAreFinite == ASSUME NEW g \in Groups PROVE IsFiniteSet(DOMAIN Expected[g])
<1>1. CASE g = "stationarySources"
  <2>1. IsFiniteSet({"electricityHeat", "industrialProcess", "oilGasOperations"})
    BY ThreeAreFinite
  <2>2. QED
    BY <1>1, <2>1, FS_Subset DEF Expected
<1>2. CASE g = "mobileSources"
  <2>1. IsFiniteSet({"roadTransport", "vehicleEquipment", "marineAviation"})
    BY ThreeAreFinite
  <2>2. QED
    BY <1>2, <2>1, FS_Subset DEF Expected
<1>3. CASE g = "processEmissions"
  <2>1. IsFiniteSet({"cementManufacturing", "gasFlaring"})
    BY TwoAreFinite
  <2>2. QED
    BY <1>3, <2>1, FS_Subset DEF Expected
<1>4. CASE g = "fugitiveEmissions"
  <2>1. IsFiniteSet({"ventingNaturalGas", "hfcLeaks"})
    BY TwoAreFinite
  <2>2. QED
    BY <1>4, <2>1, FS_Subset DEF Expected
<1>5. CASE g = "upstream"
  <2>1. IsFiniteSet({"purchasedGoodsAndServices", "capitalGoods",
        "fuelEnergyRelatedActivities", "upstreamTransportationDistribution",
        "wasteGeneratedInOperations", "businessTravel", "employeeCommuting",
        "upstreamLeasedAssets"})
    BY EightAreFinite
  <2>2. QED
    BY <1>5, <2>1, FS_Subset DEF Expected
<1>6. CASE g = "downstream"
  <2>1. IsFiniteSet({"downstreamTransportationDistribution", "processingSoldProducts",
        "useOfSoldProducts", "endOfLifeTreatment", "downstreamLeasedAssets", "franchises",
        "investments"})
    BY SevenAreFinite
  <2>2. QED
    BY <1>6, <2>1, FS_Subset DEF Expected
<1>7. CASE g = "airPollutantEmissions"
  <2>1. IsFiniteSet({"airPollutants"})
    BY FS_Singleton
  <2>2. QED
    BY <1>7, <2>1, FS_Subset DEF Expected
<1>8. CASE g = "freshwaterWithdrawals"
  <2>1. IsFiniteSet({"freshwater"})
    BY FS_Singleton
  <2>2. QED
    BY <1>8, <2>1, FS_Subset DEF Expected
<1>9. CASE g = "producedWaterManagement"
  <2>1. IsFiniteSet({"producedWater"})
    BY FS_Singleton
  <2>2. QED
    BY <1>9, <2>1, FS_Subset DEF Expected
<1>10. CASE g = "environmentalManagementPolicies"
  <2>1. IsFiniteSet({"policies"})
    BY FS_Singleton
  <2>2. QED
    BY <1>10, <2>1, FS_Subset DEF Expected
<1>11. CASE g = "hydrocarbonSpills"
  <2>1. IsFiniteSet({"spills"})
    BY FS_Singleton
  <2>2. QED
    BY <1>11, <2>1, FS_Subset DEF Expected
<1>12. CASE g = "reservesInSensitiveAreas"
  <2>1. IsFiniteSet({"sensitiveReserves"})
    BY FS_Singleton
  <2>2. QED
    BY <1>12, <2>1, FS_Subset DEF Expected
<1>13. CASE g = "productionVolume"
  <2>1. IsFiniteSet({"production"})
    BY FS_Singleton
  <2>2. QED
    BY <1>13, <2>1, FS_Subset DEF Expected
<1>14. CASE g = "offshoreSites"
  <2>1. IsFiniteSet({"offshore"})
    BY FS_Singleton
  <2>2. QED
    BY <1>14, <2>1, FS_Subset DEF Expected
<1>15. CASE g = "terrestrialSites"
  <2>1. IsFiniteSet({"terrestrial"})
    BY FS_Singleton
  <2>2. QED
    BY <1>15, <2>1, FS_Subset DEF Expected
<1>16. CASE g = "securityHumanRights"
  <2>1. IsFiniteSet({"operationsInConflictZones", "reservesInNearIndigenousLand",
        "humanRightsEngagementProcesses"})
    BY ThreeAreFinite
  <2>2. QED
    BY <1>16, <2>1, FS_Subset DEF Expected
<1>17. CASE g = "communityRelations"
  <2>1. IsFiniteSet({"communityRisk", "hcdtContribution", "disputeResolution",
        "operationalDelays"})
    BY FourAreFinite
  <2>2. QED
    BY <1>17, <2>1, FS_Subset DEF Expected
<1>18. CASE g = "workforceHealthSafety"
  <2>1. IsFiniteSet({"safetyManagementSystems"})
    BY FS_Singleton
  <2>2. QED
    BY <1>18, <2>1, FS_Subset DEF Expected
<1>19. CASE g = "healthAndSafetyPerformance"
  <2>1. IsFiniteSet({"direct", "contract"})
    BY TwoAreFinite
  <2>2. QED
    BY <1>19, <2>1, FS_Subset DEF Expected
<1>20. CASE g = "reservesValuationAndCapitalExpenditures"
  <2>1. IsFiniteSet({"reservesSensitivityToCarbonPricing", "embeddedCarbonInReserves",
        "renewableEnergyInvestment", "capitalExpenditureStrategy"})
    BY FourAreFinite
  <2>2. QED
    BY <1>20, <2>1, FS_Subset DEF Expected
<1>21. CASE g = "businessEthicsAndTransparency"
  <2>1. IsFiniteSet({"reservesInCountriesWithHighCorruptionRisk",
        "antiCorruptionManagementSystem"})
    BY TwoAreFinite
  <2>2. QED
    BY <1>21, <2>1, FS_Subset DEF Expected
<1>22. CASE g = "criticalIncidentRiskManagement"
  <2>1. IsFiniteSet({"processSafetyEvents", "catastrophicRiskManagementSystems"})
    BY TwoAreFinite
  <2>2. QED
    BY <1>22, <2>1, FS_Subset DEF Expected
<1>23. CASE g = "legalRegulatoryEnvironment"
  <2>1. IsFiniteSet({"boardAndManagementOversight", "publicPolicyEngagement"})
    BY TwoAreFinite
  <2>2. QED
    BY <1>23, <2>1, FS_Subset DEF Expected
<1>24. QED
  BY <1>1, <1>2, <1>3, <1>4, <1>5, <1>6, <1>7, <1>8, <1>9, <1>10, <1>11, <1>12, <1>13,
        <1>14, <1>15, <1>16, <1>17, <1>18, <1>19, <1>20, <1>21, <1>22, <1>23, GroupsAre

-----------------------------------------------------------------------------
(* The document between two requests.                                       *)

LEMMA LegalFormsStayTogether ==
  ASSUME NEW g \in Groups, g # "legalRegulatoryEnvironment"
  PROVE  DOMAIN Expected[g] \cap LegalForms = {}
BY FormsOfGroups, LegalFormsAre, GroupsAre

\* The renamed forms are forms, and those with a copy of their own are not
\* the legal ones.
LEMMA RenamedAreForms ==
  /\ Renamed \subseteq Forms
  /\ RenamedAlone \cap LegalForms = {}
  /\ \A g \in Groups : DOMAIN Expected[g] \subseteq Forms
<1>1. \A g \in Groups : DOMAIN Expected[g] \subseteq Forms
  BY DEF Forms
<1>2. "legalRegulatoryEnvironment" \in Groups /\ "communityRelations" \in Groups
  BY GroupsAre
<1>3. LegalForms = DOMAIN Expected["legalRegulatoryEnvironment"]
  BY LegalFormsAre, FormsOfGroups
<1>4. RenamedAlone \subseteq DOMAIN Expected["communityRelations"]
  BY FormsOfGroups DEF RenamedAlone
<1>5. QED
  BY <1>1, <1>2, <1>3, <1>4, LegalFormsAre DEF Renamed, RenamedAlone

\* A recalculation of a document from which no form has gone.
LEMMA NormalisedKeepsInv ==
  ASSUME DataInv, NEW s \in [Forms -> Nat \cup {None}],
         \A f \in Forms : saved[f] # None => s[f] # None,
         saved' = s, kept' = Normalised(s), IsFiniteSet(submitted')
  PROVE  DataInv'
<1> USE RenamedAreForms
<1>1. kept' \in [Renamed -> Nat \cup {None}]
  BY DEF Normalised, DataInv
<1>2. CopiesFollow'
  <2>1. ASSUME NEW f \in RenamedAlone PROVE kept'[f] # None <=> saved'[f] # None
    BY <2>1 DEF Normalised, DataInv, CopiesFollow, Renamed
  <2>2. ASSUME NEW f \in LegalForms, kept'[f] # None PROVE saved'[f] # None
    BY <2>2 DEF Normalised, DataInv, CopiesFollow, Renamed
  <2>3. ASSUME NEW f \in LegalForms, saved'[f] # None
        PROVE  \E h \in LegalForms : kept'[h] # None
    BY <2>3 DEF Normalised, DataInv, CopiesFollow, Renamed
  <2>4. QED
    BY <2>1, <2>2, <2>3 DEF CopiesFollow
<1>3. QED
  BY <1>1, <1>2 DEF DataInv

\* A new assessment has the shape DataInv asks for.
LEMMA DataInvInitially == Init => DataInv
BY RenamedAreForms, FS_EmptySet DEF Init, DataInv, CopiesFollow, Renamed

\* Saving a form or a topic, and submitting a topic, keep that shape and the
\* copies.
LEMMA DataInvInductive == DataInv /\ [Next]_vars => DataInv'
<1> USE CountsAssumption
<1> SUFFICES ASSUME DataInv, [Next]_vars PROVE DataInv'
  OBVIOUS
<1>1. ASSUME NEW f \in Forms, NEW n \in Counts, SaveForm(f, n) PROVE DataInv'
  <2> DEFINE s == [saved EXCEPT ![f] = n]
  <2>1. s \in [Forms -> Nat \cup {None}] /\ \A h \in Forms : saved[h] # None => s[h] # None
    BY DEF DataInv
  <2>2. saved' = s /\ kept' = Normalised(s) /\ submitted' = submitted
    BY <1>1 DEF SaveForm, WriteBack
  <2>3. IsFiniteSet(submitted')
    BY <2>2 DEF DataInv
  <2> HIDE DEF s
  <2>4. QED
    BY <2>1, <2>2, <2>3, NormalisedKeepsInv
<1>2. ASSUME NEW g \in Groups, NEW sent \in SUBSET DOMAIN Expected[g],
             NEW counts \in [sent -> Counts], SaveGroup(g, counts)
      PROVE  DataInv'
  <2> DEFINE s == [f \in Forms |-> IF f \in DOMAIN counts THEN counts[f] ELSE saved[f]]
  <2>1. s \in [Forms -> Nat \cup {None}] /\ \A h \in Forms : saved[h] # None => s[h] # None
    BY DEF DataInv
  <2>2. saved' = s /\ kept' = Normalised(s) /\ submitted' = submitted
    BY <1>2 DEF SaveGroup, WriteBack
  <2>3. IsFiniteSet(submitted')
    BY <2>2 DEF DataInv
  <2> HIDE DEF s
  <2>4. QED
    BY <2>1, <2>2, <2>3, NormalisedKeepsInv
<1>3. ASSUME NEW p \in GroupKeys \cup StrayPaths, SubmitGroup(p) PROVE DataInv'
  <2>1. saved \in [Forms -> Nat \cup {None}] /\ IsFiniteSet(submitted')
    BY <1>3, FS_AddElement DEF SubmitGroup, DataInv
  <2>2. saved' = saved /\ kept' = Normalised(saved)
    BY <1>3 DEF SubmitGroup
  <2>3. QED
    BY <2>1, <2>2, NormalisedKeepsInv
<1>4. CASE UNCHANGED vars
  BY <1>4 DEF vars, DataInv, CopiesFollow
<1>5. QED
  BY <1>1, <1>2, <1>3, <1>4 DEF Next

\* A topic is begun for the client exactly when the calculator finds a form
\* of it.
LEMMA HasDataWhenStarted ==
  ASSUME DataInv, NEW g \in Groups
  PROVE  HasUserData(g) <=> Started(g)
<1> USE RenamedAreForms
<1>1. CASE g = "legalRegulatoryEnvironment"
  <2>1. DOMAIN Expected[g] = LegalForms
    BY <1>1, FormsOfGroups, LegalFormsAre
  <2>2. QED
    BY <2>1 DEF HasUserData, Started, PresentForms, Present, Count, Renamed, DataInv,
                CopiesFollow
<1>2. CASE g # "legalRegulatoryEnvironment"
  <2>1. ASSUME NEW f \in DOMAIN Expected[g] PROVE saved[f] # None <=> Count(f) # None
    BY <1>2, LegalFormsStayTogether DEF Count, Renamed, DataInv, CopiesFollow
  <2>2. QED
    BY <2>1 DEF HasUserData, Started, PresentForms, Present
<1>3. QED
  BY <1>1, <1>2

\* The pillars list topics of the calculator.
LEMMA TopicsAreGroups ==
  \A letter \in DOMAIN PillarTopics : PillarTopics[letter] \subseteq Groups
BY GroupsAre DEF PillarTopics, EnvironmentTopics, ScopeOneWeight, HumanWeight

\* In such a document the pillars shown as begun are those with a progress.
LEMMA PillarsAreRight == DataInv => PillarsMatchProgress
<1> SUFFICES ASSUME DataInv, NEW letter \in DOMAIN PillarTopics
             PROVE  letter \in Pillars <=> \/ \E g \in PillarTopics[letter] : Started(g)
                                           \/ letter = "E" /\ HasScope2Data
  BY DEF PillarsMatchProgress
<1>1. \A g \in PillarTopics[letter] : HasUserData(g) <=> Started(g)
  BY HasDataWhenStarted, TopicsAreGroups
<1>2. QED
  BY <1>1 DEF Pillars

-----------------------------------------------------------------------------
(* Emissions are natural numbers.                                           *)

LEMMA SumInReporting == \A f, S : R!SumFunctionOnSet(f, S) = SumFunctionOnSet(f, S)
BY Zenon DEF R!SumFunctionOnSet, R!FoldFunctionOnSet, R!MapThenFoldSet, SumFunctionOnSet,
             FoldFunctionOnSet, MapThenFoldSet

\* A tick, the fourth decimal shown, is 1000 of the model's micro-units.
LEMMA TickIs == R!Tick = 1000
BY DEF R!Tick

\* toFixed(4) moves a quantity by at most half a tick, to a whole number of
\* ticks.
LEMMA ToFixed4Is ==
  ASSUME NEW x \in Nat
  PROVE  /\ R!ToFixed4(x) \in Nat
         /\ R!ToFixed4(x) % 1000 = 0
         /\ R!ToFixed4(x) - x <= 500
         /\ x - R!ToFixed4(x) <= 499
<1> DEFINE q == (x + 500) \div 1000
<1>1. q \in Nat /\ 1000 * q <= x + 500 /\ x + 500 <= 1000 * q + 999
  OBVIOUS
<1>2. R!ToFixed4(x) = q * 1000
  BY TickIs DEF R!ToFixed4
<1> HIDE DEF q
<1>3. (q * 1000) % 1000 = 0 /\ q * 1000 \in Nat
  BY <1>1
<1>4. QED
  BY <1>1, <1>2, <1>3

\* The sources of the eight groups, listed.
LEMMA SourceSets ==
  /\ R!ToSet(R!StationarySources) = {"dieselGenerators", "gasTurbines", "boilerFurnaces", "onShoreProduction"}
  /\ R!ToSet(R!MobileSources) = {"vehicleFleet", "carsBuses", "forkliftFuelType", "heavyDutyFuelType",
                       "tractorFuelType", "air", "marine"}
  /\ R!ToSet(R!ProcessSources) = {"cement", "flaring"}
  /\ R!ToSet(R!FugitiveSources) = {"venting", "hfc"}
  /\ R!ToSet(R!LocationSources) = {"electricity", "cooling", "steam", "heating"}
  /\ R!ToSet(R!MarketSources) = {"ipps", "eac", "residual", "coolingSteam"}
  /\ R!ToSet(R!UpstreamSources) = {"goods", "capitalGoods", "fuelEnergy", "transport", "waste", "ground",
                       "air_travel", "commuting", "leasedPower", "leasedFuel", "hotel"}
  /\ R!ToSet(R!DownstreamSources) = {"distribution", "use", "endOfLife", "tenantFuel", "tenantPower",
                       "franchiseFuel", "franchisePower", "investments", "processing"}
BY DEF R!ToSet, R!StationarySources, R!MobileSources, R!ProcessSources,
      R!FugitiveSources, R!LocationSources, R!MarketSources, R!UpstreamSources,
      R!DownstreamSources

\* Every source burns one of the fuels or has a factor of its own.
LEMMA SourcesHaveFactors ==
  /\ R!Fuels \subseteq R!Sources
  /\ R!Sources \ R!Fuels \subseteq DOMAIN R!DefaultFactor
  /\ \A s \in DOMAIN R!DefaultFactor : R!DefaultFactor[s] \in Nat
<1>1. R!Groups = {"stationarySources", "mobileSources", "processEmissions", "fugitiveEmissions",
                  "locationBased", "marketBased", "upstream", "downstream"}
  BY DEF R!Groups, R!SourcesOf
<1>2. R!Fuels \subseteq R!Sources
  BY <1>1 DEF R!Fuels, R!Sources, R!SourcesOf
<1>3. \A s \in DOMAIN R!DefaultFactor : R!DefaultFactor[s] \in Nat
  BY DEF R!DefaultFactor
<1>4. DOMAIN R!DefaultFactor =
        {"cement", "flaring", "venting", "hfc", "electricity", "cooling", "steam", "heating",
         "ipps", "eac", "residual", "coolingSteam", "goods", "capitalGoods", "fuelEnergy",
         "transport", "waste", "ground", "air_travel", "commuting", "leasedPower", "leasedFuel",
         "hotel", "distribution", "use", "endOfLife", "tenantFuel", "tenantPower",
         "franchiseFuel", "franchisePower", "investments", "processing"}
  BY DEF R!DefaultFactor
<1>5. ASSUME NEW s \in R!Sources PROVE s \in R!Fuels \/ s \in DOMAIN R!DefaultFactor
  <2>1. PICK g \in R!Groups : s \in R!ToSet(R!SourcesOf[g])
    BY DEF R!Sources
  <2>2. CASE g \in {"stationarySources", "mobileSources"}
    BY <2>1, <2>2 DEF R!Fuels, R!SourcesOf
  <2>3. CASE g \in {"processEmissions", "fugitiveEmissions"}
    BY <1>4, <2>1, <2>3, SourceSets DEF R!SourcesOf
  <2>4. CASE g \in {"locationBased", "marketBased"}
    BY <1>4, <2>1, <2>4, SourceSets DEF R!SourcesOf
  <2>5. CASE g = "upstream"
    BY <1>4, <2>1, <2>5, SourceSets DEF R!SourcesOf
  <2>6. CASE g = "downstream"
    BY <1>4, <2>1, <2>6, SourceSets DEF R!SourcesOf
  <2>7. QED
    BY <1>1, <2>2, <2>3, <2>4, <2>5, <2>6
<1>6. QED
  BY <1>2, <1>3, <1>5

\* The emission of an entry is a natural number.
LEMMA FactorIsNat ==
  ASSUME NEW doc, doc \in [R!Sources -> Seq(AnyEntry)], NEW s \in R!Sources, NEW e \in AnyEntry
  PROVE  R!EntryEmission(doc, s, e) \in Nat
<1>1. e.amount \in Nat /\ e.factor \in Nat \cup {None}
  BY DEF AnyEntry
<1>2. \A d \in Nat, x \in Nat \cup {None} : R!OrElse(x, d) \in Nat /\ R!WhenNone(x, d) \in Nat
  BY DEF R!OrElse, R!WhenNone
<1>3. R!DefaultFactor.cooling \in Nat /\ 5260 \in Nat /\ 0 \in Nat
  BY DEF R!DefaultFactor
<1>4. R!CoolingFactor(doc) \in Nat
  <2>1. "cooling" \in R!Sources
    BY SourceSets DEF R!Sources, R!Groups, R!SourcesOf
  <2>2. doc["cooling"] \in Seq(AnyEntry)
    BY <2>1
  <2>3. doc["cooling"] # << >> => doc["cooling"][1] \in AnyEntry
    BY <2>2
  <2>4. doc["cooling"] # << >> => doc["cooling"][1].factor \in Nat \cup {None}
    BY <2>3 DEF AnyEntry
  <2>5. doc["cooling"] # << >> =>
          R!OrElse(doc["cooling"][1].factor, R!DefaultFactor.cooling) \in Nat
    BY <1>3, <2>4 DEF R!OrElse
  <2>6. QED
    BY <1>3, <2>5 DEF R!CoolingFactor
<1>5. s \notin R!Fuels => R!DefaultFactor[s] \in Nat
  BY SourcesHaveFactors
<1>6. R!Factor(doc, s, e) \in Nat
  <2>1. CASE s \in R!Fuels
    <3>1. R!OrElse(e.factor, 0) \in Nat
      BY <1>1 DEF R!OrElse
    <3>2. s \notin R!Editable \cup R!ZeroKept \cup {"electricity", "steam"}
      BY <2>1, SourceSets DEF R!Fuels, R!Editable, R!ZeroKept
    <3>3. QED
      BY <2>1, <3>1, <3>2 DEF R!Factor
  <2>2. CASE s \notin R!Fuels
    <3>1. R!WhenNone(e.factor, R!DefaultFactor[s]) \in Nat /\ R!OrElse(e.factor, R!DefaultFactor[s]) \in Nat
      BY <1>1, <1>2, <1>5, <2>2
    <3>2. R!OrElse(R!WhenNone(e.factor, R!DefaultFactor[s]), 5260) \in Nat
      BY <3>1 DEF R!OrElse
    <3>3. QED
      BY <1>4, <1>5, <2>2, <3>1, <3>2 DEF R!Factor
  <2>3. QED
    BY <2>1, <2>2
<1>7. R!Multiplier(s) \in Nat
  BY TickIs DEF R!Multiplier
<1>8. QED
  BY <1>1, <1>6, <1>7 DEF R!EntryEmission

\* So is the emission of a source.
LEMMA EmissionIsNat ==
  ASSUME NEW doc, doc \in [R!Sources -> Seq(AnyEntry)], NEW s \in R!Sources
  PROVE  R!Emission(doc, s) \in Nat
<1> DEFINE f == [i \in DOMAIN doc[s] |-> R!EntryEmission(doc, s, doc[s][i])]
<1>1. doc[s] \in Seq(AnyEntry)
  OBVIOUS
<1>2. IsFiniteSet(DOMAIN doc[s])
  BY <1>1, FS_Interval
<1>3. \A i \in DOMAIN doc[s] : f[i] \in Nat
  BY <1>1, FactorIsNat
<1>4. DOMAIN f = DOMAIN doc[s]
  OBVIOUS
<1> HIDE DEF f
<1>5. SumFunctionOnSet(f, DOMAIN doc[s]) \in Nat
  BY <1>2, <1>3, SumNat
<1>6. R!Emission(doc, s) = IF s \in R!Fuels THEN R!ToFixed4(SumFunctionOnSet(f, DOMAIN doc[s]))
                           ELSE SumFunctionOnSet(f, DOMAIN doc[s])
  BY <1>4, SumInReporting DEF f, R!Emission, R!SumFunction
<1>7. QED
  BY <1>5, <1>6, ToFixed4Is

\* A group lists finitely many sources.
LEMMA SequencesOfSources ==
  \A g \in R!Groups :
    /\ IsFiniteSet(DOMAIN R!SourcesOf[g])
    /\ \A i \in DOMAIN R!SourcesOf[g] : R!SourcesOf[g][i] \in R!Sources
<1> SUFFICES ASSUME NEW g \in R!Groups
             PROVE  /\ IsFiniteSet(DOMAIN R!SourcesOf[g])
                    /\ \A i \in DOMAIN R!SourcesOf[g] : R!SourcesOf[g][i] \in R!Sources
  OBVIOUS
<1>1. \A i \in DOMAIN R!SourcesOf[g] : R!SourcesOf[g][i] \in R!Sources
  BY DEF R!Sources, R!ToSet
<1>2. /\ DOMAIN R!StationarySources = 1..4 /\ DOMAIN R!MobileSources = 1..7
      /\ DOMAIN R!ProcessSources = 1..2    /\ DOMAIN R!FugitiveSources = 1..2
      /\ DOMAIN R!LocationSources = 1..4   /\ DOMAIN R!MarketSources = 1..4
      /\ DOMAIN R!UpstreamSources = 1..11  /\ DOMAIN R!DownstreamSources = 1..9
  BY DEF R!StationarySources, R!MobileSources, R!ProcessSources, R!FugitiveSources,
         R!LocationSources, R!MarketSources, R!UpstreamSources, R!DownstreamSources
<1>3. DOMAIN R!SourcesOf[g] \subseteq 1..11
  BY <1>2 DEF R!Groups, R!SourcesOf
<1>4. IsFiniteSet(1..11)
  <2>1. 1 \in Int /\ 11 \in Int
    OBVIOUS
  <2>2. QED
    BY <2>1, FS_Interval
<1>5. QED
  BY <1>1, <1>3, <1>4, FS_Subset

\* The emission of a group is the sum over the sources it lists.
LEMMA GroupEmissionIs ==
  ASSUME NEW doc, doc \in [R!Sources -> Seq(AnyEntry)], NEW g \in R!Groups
  PROVE  LET f == [i \in DOMAIN R!SourcesOf[g] |-> R!Emission(doc, R!SourcesOf[g][i])]
         IN  /\ R!GroupEmission(doc, g) = SumFunctionOnSet(f, DOMAIN R!SourcesOf[g])
             /\ R!GroupEmission(doc, g) \in Nat
<1> DEFINE f == [i \in DOMAIN R!SourcesOf[g] |-> R!Emission(doc, R!SourcesOf[g][i])]
<1>1. \A i \in DOMAIN R!SourcesOf[g] : f[i] \in Nat
  BY SequencesOfSources, EmissionIsNat
<1>2. DOMAIN f = DOMAIN R!SourcesOf[g]
  OBVIOUS
<1>3. R!GroupEmission(doc, g) = SumFunctionOnSet(f, DOMAIN R!SourcesOf[g])
  BY SumInReporting DEF R!GroupEmission, R!SumFunction
<1> HIDE DEF f
<1>4. SumFunctionOnSet(f, DOMAIN R!SourcesOf[g]) \in Nat
  BY <1>1, SequencesOfSources, SumNat
<1>5. QED
  BY <1>3, <1>4 DEF f

\* The three scopes and their groups.
LEMMA ScopesAre ==
  /\ R!Scopes = {"scope1", "scope2", "scope3"}
  /\ IsFiniteSet(R!Scopes) /\ Cardinality(R!Scopes) = 3
  /\ \A sc \in R!Scopes : R!GroupsOf[sc] \subseteq R!Groups /\ IsFiniteSet(R!GroupsOf[sc])
<1>1. R!Scopes = {"scope1", "scope2", "scope3"}
  BY DEF R!Scopes, R!GroupsOf
<1>2. /\ R!GroupsOf["scope1"] = {"stationarySources", "mobileSources", "processEmissions",
                                 "fugitiveEmissions"}
      /\ R!GroupsOf["scope2"] = {"locationBased", "marketBased"}
      /\ R!GroupsOf["scope3"] = {"upstream", "downstream"}
  BY DEF R!GroupsOf
<1>3. \A sc \in R!Scopes : R!GroupsOf[sc] \subseteq R!Groups
  BY <1>1, <1>2 DEF R!Groups, R!SourcesOf
<1>4. /\ IsFiniteSet({"stationarySources", "mobileSources", "processEmissions", "fugitiveEmissions"})
      /\ IsFiniteSet({"locationBased", "marketBased"})
      /\ IsFiniteSet({"upstream", "downstream"})
  BY TwoAreFinite, FourAreFinite
<1>5. \A sc \in R!Scopes : IsFiniteSet(R!GroupsOf[sc])
  BY <1>1, <1>2, <1>4, FS_Subset
<1>6. IsFiniteSet(R!Scopes) /\ Cardinality(R!Scopes) = 3
  <2>1. IsFiniteSet({"scope1"}) /\ Cardinality({"scope1"}) = 1
    BY FS_Singleton
  <2>2. /\ IsFiniteSet({"scope1"} \cup {"scope2"})
        /\ Cardinality({"scope1"} \cup {"scope2"}) = 2
    BY <2>1, FS_AddElement
  <2>3. /\ IsFiniteSet(({"scope1"} \cup {"scope2"}) \cup {"scope3"})
        /\ Cardinality(({"scope1"} \cup {"scope2"}) \cup {"scope3"}) = 3
    BY <2>2, FS_AddElement
  <2>4. R!Scopes = ({"scope1"} \cup {"scope2"}) \cup {"scope3"}
    BY <1>1
  <2> DEFINE three == ({"scope1"} \cup {"scope2"}) \cup {"scope3"}
  <2> HIDE DEF three
  <2>5. R!Scopes = three /\ IsFiniteSet(three) /\ Cardinality(three) = 3
    BY <2>3, <2>4 DEF three
  <2>6. QED
    BY <2>5
<1>7. QED
  BY <1>1, <1>3, <1>5, <1>6

\* The emission of a scope before rounding is a natural number.
LEMMA RawScopeIsNat ==
  ASSUME NEW doc, doc \in [R!Sources -> Seq(AnyEntry)], NEW sc \in R!Scopes
  PROVE  R!RawScope(doc, sc) \in Nat
<1> DEFINE f == [g \in R!GroupsOf[sc] |-> R!GroupEmission(doc, g)]
<1>1. DOMAIN f = R!GroupsOf[sc] /\ \A g \in R!GroupsOf[sc] : f[g] \in Nat
  BY ScopesAre, GroupEmissionIs
<1> HIDE DEF f
<1>2. SumFunctionOnSet(f, R!GroupsOf[sc]) \in Nat
  BY <1>1, ScopesAre, SumNat
<1>3. R!RawScope(doc, sc) = SumFunctionOnSet(f, R!GroupsOf[sc])
  BY <1>1, SumInReporting DEF R!RawScope, R!SumFunction, f
<1>4. QED
  BY <1>2, <1>3

\* The total before rounding is the sum of the three scopes before rounding.
LEMMA RawTotalIs ==
  ASSUME NEW doc, doc \in [R!Sources -> Seq(AnyEntry)]
  PROVE  LET f == [sc \in R!Scopes |-> R!RawScope(doc, sc)]
         IN  /\ R!RawTotal(doc) = SumFunctionOnSet(f, R!Scopes)
             /\ R!RawTotal(doc) \in Nat
<1> DEFINE f == [sc \in R!Scopes |-> R!RawScope(doc, sc)]
<1>1. DOMAIN f = R!Scopes /\ \A sc \in R!Scopes : f[sc] \in Nat
  BY RawScopeIsNat
<1>2. R!RawTotal(doc) = SumFunctionOnSet(f, R!Scopes)
  BY <1>1, SumInReporting DEF R!RawTotal, R!SumFunction
<1> HIDE DEF f
<1>3. SumFunctionOnSet(f, R!Scopes) \in Nat
  BY <1>1, ScopesAre, SumNat
<1>4. QED
  BY <1>2, <1>3 DEF f

\* A scope is shown within half a tick of its emission, in whole ticks.
LEMMA ScopeEmissionIs ==
  ASSUME NEW doc, doc \in [R!Sources -> Seq(AnyEntry)], NEW sc \in R!Scopes
  PROVE  /\ R!ScopeEmission(doc, sc) \in Nat
         /\ R!ScopeEmission(doc, sc) % 1000 = 0
         /\ R!ScopeEmission(doc, sc) - R!RawScope(doc, sc) <= 500
         /\ R!RawScope(doc, sc) - R!ScopeEmission(doc, sc) <= 499
<1>1. R!RawScope(doc, sc) \in Nat
  BY RawScopeIsNat
<1>2. QED
  BY <1>1, ToFixed4Is DEF R!ScopeEmission

\* Storing a report fills a scope's column with the scope as it is shown.
LEMMA StoredColumns ==
  ASSUME NEW doc, doc \in [R!Sources -> Seq(AnyEntry)], NEW sc \in R!Scopes
  PROVE  R!Columns(doc)[sc] = R!ScopeEmission(doc, sc)
BY ScopesAre DEF R!Columns

-----------------------------------------------------------------------------
(* The numbers between two requests.                                        *)

LEMMA NumbersInvInitially == Opened => NumbersInv
<1> SUFFICES ASSUME Opened PROVE NumbersInv
  OBVIOUS
<1>1. quantities \in [R!Sources -> Seq(AnyEntry)] /\ \A s \in R!Sources : Len(quantities[s]) = 0
  BY DEF Opened, NewDocument, NoQuantities
<1>2. QED
  BY <1>1 DEF Opened, NewDocument, NumbersInv

\* Editing quantities, hours and measures, and storing reports, keep the
\* types of the numbers.
LEMMA NumbersInvInductive == NumbersInv /\ [Edit]_allVars => NumbersInv'
<1> SUFFICES ASSUME NumbersInv, [Edit]_allVars PROVE NumbersInv'
  OBVIOUS
<1> USE DEF NumbersInv
<1>1. CASE Next /\ UNCHANGED numbers
  BY <1>1 DEF numbers
<1>2. ASSUME NEW s \in R!Sources, NEW entries \in Seq(Entries), SaveQuantities(s, entries)
      PROVE  NumbersInv'
  <2>1. quantities' \in [R!Sources -> Seq(AnyEntry)]
    <3>1. Entries \subseteq AnyEntry
      BY AmountsAssumption, FactorsAssumption DEF Entries, AnyEntry
    <3>2. entries \in Seq(AnyEntry)
      BY <3>1
    <3>3. QED
      BY <1>2, <3>2 DEF SaveQuantities
  <2>2. \A x \in R!Sources \ R!Listed : Len(quantities'[x]) <= 1
    <3>1. ASSUME NEW x \in R!Sources \ R!Listed PROVE Len(quantities'[x]) <= 1
      <4>1. CASE x = s
        <5>1. quantities'[x] = entries /\ Len(entries) = 1
          BY <1>2, <4>1 DEF SaveQuantities
        <5>2. QED
          BY <5>1
      <4>2. CASE x # s
        <5>1. quantities'[x] = quantities[x]
          BY <1>2, <4>2 DEF SaveQuantities
        <5>2. QED
          BY <5>1
      <4>3. QED
        BY <4>1, <4>2
    <3>2. QED
      BY <3>1
  <2>3. QED
    BY <1>2, <2>1, <2>2 DEF SaveQuantities
<1>3. ASSUME NEW group \in {"direct", "contract"}, NEW field \in DOMAIN Nobody, NEW n
      \in Levels,
             SaveSafety(group, field, n)
      PROVE  NumbersInv'
  <2>1. n \in Nat /\ field \in {"hours", "incidents"}
    BY AmountsAssumption DEF Nobody
  <2>2. safety[group] \in [hours : Nat, incidents : Nat] /\ group \in DOMAIN Unharmed
    BY DEF Unharmed
  <2>3. [safety[group] EXCEPT ![field] = n] \in [hours : Nat, incidents : Nat]
    BY <2>1, <2>2
  <2>4. safety' \in [DOMAIN Unharmed -> [hours : Nat, incidents : Nat]]
    BY <1>3, <2>2, <2>3 DEF SaveSafety
  <2>5. QED
    BY <1>3, <2>4 DEF SaveSafety
<1>4. ASSUME NEW field \in Measures, NEW n \in Levels, SaveFigure(field, n) PROVE NumbersInv'
  <2>1. n \in Nat /\ Measures \cap Switches = {}
    BY AmountsAssumption DEF Measures, Switches
  <2>2. IsInput(figures')
    BY <1>4, <2>1 DEF SaveFigure, IsInput
  <2>3. QED
    BY <1>4, <2>2 DEF SaveFigure
<1>5. ASSUME NEW field \in Switches, NEW b \in BOOLEAN, SaveFigure(field, b) PROVE NumbersInv'
  <2>1. Measures \cap Switches = {}
    BY DEF Measures, Switches
  <2>2. IsInput(figures')
    BY <1>5, <2>1 DEF SaveFigure, IsInput
  <2>3. QED
    BY <1>5, <2>2 DEF SaveFigure
<1>6. CASE StoreReport
  <2>1. \A sc \in R!Scopes : columns'[sc] \in Nat /\ columns'[sc] % R!Tick = 0
    <3>1. ASSUME NEW sc \in R!Scopes
          PROVE  columns'[sc] \in Nat /\ columns'[sc] % R!Tick = 0
      <4>1. columns'[sc] = R!ScopeEmission(quantities, sc)
        BY <1>6, StoredColumns DEF StoreReport
      <4>2. QED
        BY <4>1, ScopeEmissionIs, TickIs
    <3>2. QED
      BY <3>1
  <2>2. QED
    BY <1>6, <2>1 DEF StoreReport
<1>7. CASE UNCHANGED allVars
  BY <1>7 DEF allVars, numbers
<1>8. QED
  BY <1>1, <1>2, <1>3, <1>4, <1>5, <1>6, <1>7 DEF Edit

(***************************************************************************)
(* The document and the numbers beside it keep their shape and the copies  *)
(* of renamed forms follow the forms, through every order of saves, group  *)
(* submissions and stored reports.                                         *)
(***************************************************************************)
THEOREM DocumentInvariance == DocumentSpec => [](DataInv /\ NumbersInv)
<1>1. Opened => DataInv /\ NumbersInv
  BY DataInvInitially, NumbersInvInitially DEF Opened, NewDocument
<1>2. DataInv /\ NumbersInv /\ [Edit]_allVars => (DataInv /\ NumbersInv)'
  <2>1. ASSUME [Edit]_allVars PROVE [Next]_vars
    BY <2>1 DEF Edit, SaveQuantities, SaveSafety, SaveFigure, StoreReport, vars, allVars
  <2>2. QED
    BY <2>1, DataInvInductive, NumbersInvInductive
<1>3. QED
  BY <1>1, <1>2, PTL DEF DocumentSpec

(***************************************************************************)
(* The pillars shown as begun are those with a progress: hasUserData looks *)
(* at the client's names, hasData at the calculator's, and the copies kept *)
(* between two requests make them agree.                                   *)
(***************************************************************************)
THEOREM PillarsMatch == DocumentSpec => []PillarsMatchProgress
BY DocumentInvariance, PillarsAreRight, PTL

-----------------------------------------------------------------------------
(* The incident rates.                                                      *)

\* a/b is between c/d and e/f: the mediant, one way.
LEMMA MediantIsBetween ==
  ASSUME NEW a \in Nat, NEW b \in Nat \ {0}, NEW c \in Nat, NEW d \in Nat \ {0},
         a * d <= c * b
  PROVE  /\ a * (b + d) <= (a + c) * b
         /\ (a + c) * d <= c * (b + d)
<1>1. a * (b + d) = a * b + a * d /\ (a + c) * b = a * b + c * b
  OBVIOUS
<1>2. (a + c) * d = a * d + c * d /\ c * (b + d) = c * b + c * d
  OBVIOUS
<1>3. a * b \in Int /\ a * d \in Int /\ c * b \in Int /\ c * d \in Int
  OBVIOUS
<1>4. QED
  BY <1>1, <1>2, <1>3

(***************************************************************************)
(* Without a flat figure the total rate is the mediant of the two rates,   *)
(* or the rate of the only group with hours.  getReport, calcTrir.         *)
(***************************************************************************)
LEMMA RateIsBetween == NumbersInv => TotalRateIsBetween
<1> DEFINE groups == {g \in {"direct", "contract"} : safety[g].hours > 0}
           silent == \A g \in {"direct", "contract"} \ groups : safety[g].incidents = 0
<1> SUFFICES ASSUME NumbersInv, safety.flat = Nobody, groups # {}, silent
             PROVE  /\ \E g \in groups : R!NotMore(R!RateOf(safety[g]), R!TotalRate(safety))
                    /\ \E g \in groups : R!NotMore(R!TotalRate(safety), R!RateOf(safety[g]))
  BY DEF TotalRateIsBetween
<1> DEFINE a == safety["direct"].incidents
           b == safety["direct"].hours
           c == safety["contract"].incidents
           d == safety["contract"].hours
<1>1. a \in Nat /\ b \in Nat /\ c \in Nat /\ d \in Nat
  <2>1. /\ safety["direct"] \in [hours : Nat, incidents : Nat]
        /\ safety["contract"] \in [hours : Nat, incidents : Nat]
    BY DEF NumbersInv, Unharmed
  <2>2. QED
    BY <2>1
<1>2. R!Hours(safety) = b + d /\ R!Incidents(safety) = a + c
  <2>1. safety.flat.hours = 0 /\ safety.flat.incidents = 0
    BY DEF Nobody
  <2>2. QED
    BY <1>1, <2>1 DEF R!Hours, R!Incidents, R!OrFlat
<1>3. /\ b > 0 => "direct" \in groups /\ R!RateOf(safety["direct"]) = <<a, b>>
      /\ d > 0 => "contract" \in groups /\ R!RateOf(safety["contract"]) = <<c, d>>
      /\ b > 0 \/ d > 0
      /\ b = 0 => a = 0
      /\ d = 0 => c = 0
  BY <1>1 DEF R!RateOf, R!Rate
<1>4. R!TotalRate(safety) = <<a + c, b + d>>
  BY <1>1, <1>2, <1>3 DEF R!TotalRate, R!Rate
<1> HIDE DEF groups, silent, a, b, c, d
<1>5. CASE b > 0 /\ d > 0
  <2>1. CASE a * d <= c * b
    <3>1. a * (b + d) <= (a + c) * b /\ (a + c) * d <= c * (b + d)
      BY <1>1, <1>5, <2>1, MediantIsBetween
    <3>2. QED
      BY <1>3, <1>4, <1>5, <3>1 DEF R!NotMore
  <2>2. CASE c * b <= a * d
    <3>1. c * (d + b) <= (c + a) * d /\ (c + a) * b <= a * (d + b)
      BY <1>1, <1>5, <2>2, MediantIsBetween
    <3>2. c * (b + d) <= (a + c) * d /\ (a + c) * b <= a * (b + d)
      BY <1>1, <3>1
    <3>3. QED
      BY <1>3, <1>4, <1>5, <3>2 DEF R!NotMore
  <2>3. a * d \in Int /\ c * b \in Int
    BY <1>1
  <2>4. QED
    BY <2>1, <2>2, <2>3
<1>6. CASE d = 0
  <2>1. R!TotalRate(safety) = R!RateOf(safety["direct"]) /\ "direct" \in groups
    BY <1>1, <1>3, <1>4, <1>6
  <2>2. R!NotMore(<<a, b>>, <<a, b>>)
    BY <1>1 DEF R!NotMore
  <2>3. QED
    BY <1>1, <1>3, <1>6, <2>1, <2>2
<1>7. CASE b = 0
  <2>1. R!TotalRate(safety) = R!RateOf(safety["contract"]) /\ "contract" \in groups
    BY <1>1, <1>3, <1>4, <1>7
  <2>2. R!NotMore(<<c, d>>, <<c, d>>)
    BY <1>1 DEF R!NotMore
  <2>3. QED
    BY <1>1, <1>3, <1>7, <2>1, <2>2
<1>8. QED
  BY <1>1, <1>5, <1>6, <1>7

(***************************************************************************)
(* TotalRateIsBetween: in every state saves and stored reports can reach,  *)
(* the total incident rate lies between the rates of employees and         *)
(* contractors when no flat figure was entered.  getReport, calcTrir.      *)
(***************************************************************************)
THEOREM TotalRateBetween == DocumentSpec => []TotalRateIsBetween
BY DocumentInvariance, RateIsBetween, PTL

-----------------------------------------------------------------------------
(* Indicator scores.                                                        *)

Score == 0..10000
IsRatio(q) == q[1] \in Nat /\ q[2] \in Nat \ {0}

\* What a quotient of naturals is bounded by.
LEMMA Quotient ==
  ASSUME NEW a \in Nat, NEW b \in Nat \ {0}
  PROVE  /\ a \div b \in Nat
         /\ b * (a \div b) <= a
         /\ a < b * (a \div b) + b
OBVIOUS

\* A quotient is at most k when its numerator is at most k times its denominator.
LEMMA QuotientAtMost ==
  ASSUME NEW a \in Nat, NEW b \in Nat \ {0}, NEW k \in Nat, a <= k * b
  PROVE  a \div b \in 0..k
<1> DEFINE q == a \div b
<1>1. q \in Nat /\ b * q <= a
  BY Quotient
<1> HIDE DEF q
<1>2. b * q <= k * b
  BY <1>1
<1>3. q <= k
  <2>1. SUFFICES ASSUME k + 1 <= q PROVE FALSE
    BY <1>1
  <2>2. (k + 1) * b <= q * b
    BY <1>1, <2>1
  <2>3. QED
    BY <1>1, <1>2, <2>2
<1>4. QED
  BY <1>1, <1>3 DEF q

\* The two directions of interpolate, with the products named.
LEMMA InterpolateIs ==
  ASSUME NEW q, NEW t, NEW w, NEW d
  PROVE  LET v  == d * q[1]
             wx == w * q[2]
             tx == t * q[2]
         IN  /\ t < w => Interpolate(q, t, w, d) =
                   IF v >= wx THEN 0
                   ELSE IF tx >= v THEN Full ELSE (Full * (wx - v)) \div ((w - t) * q[2])
             /\ ~(t < w) => Interpolate(q, t, w, d) =
                   IF v <= wx THEN 0
                   ELSE IF tx <= v THEN Full ELSE (Full * (v - wx)) \div ((t - w) * q[2])
BY DEF Interpolate

\* A full score.
LEMMA FullIs == Full = 10000
BY DEF Full, Point

\* A part of a length, in hundredths of a percent.
LEMMA PartIsScore ==
  ASSUME NEW a \in Nat, NEW b \in Nat \ {0}, a <= b
  PROVE  (10000 * a) \div b \in Score
<1>1. 10000 * a \in Nat /\ 10000 * a <= 10000 * b
  OBVIOUS
<1>2. QED
  BY <1>1, QuotientAtMost DEF Score

\* The length of a stretch between target and worst, times a denominator.
LEMMA Stretch ==
  ASSUME NEW t \in Nat, NEW w \in Nat, t < w, NEW x \in Nat \ {0}
  PROVE  (w - t) * x \in Nat \ {0} /\ (w - t) * x = w * x - t * x
OBVIOUS

\* Interpolation between target and worst value gives a score from 0 to
\* 10000, whichever of the two is larger.
LEMMA InterpolateIsScore ==
  ASSUME NEW q, IsRatio(q), NEW t \in Nat, NEW w \in Nat, t # w, NEW d \in Nat
  PROVE  Interpolate(q, t, w, d) \in Score
<1> DEFINE v  == d * q[1]
           wx == w * q[2]
           tx == t * q[2]
           lo == (w - t) * q[2]
           hi == (t - w) * q[2]
<1>1. v \in Nat /\ wx \in Nat /\ tx \in Nat /\ 0 \in Score /\ Full \in Score
  BY FullIs DEF IsRatio, Score
<1>2. t < w => lo \in Nat \ {0} /\ lo = wx - tx
  BY Stretch DEF IsRatio
<1>3. w < t => hi \in Nat \ {0} /\ hi = tx - wx
  BY Stretch DEF IsRatio
<1>4. /\ t < w => Interpolate(q, t, w, d) =
              IF v >= wx THEN 0 ELSE IF tx >= v THEN Full ELSE (Full * (wx - v)) \div lo
      /\ ~(t < w) => Interpolate(q, t, w, d) =
              IF v <= wx THEN 0 ELSE IF tx <= v THEN Full ELSE (Full * (v - wx)) \div hi
  BY InterpolateIs
<1> HIDE DEF v, wx, tx, lo, hi
<1>5. CASE t < w
  <2>1. CASE ~(v >= wx) /\ ~(tx >= v)
    <3>1. wx - v \in Nat /\ wx - v <= lo /\ lo \in Nat \ {0}
      BY <1>1, <1>2, <1>5, <2>1
    <3>2. (Full * (wx - v)) \div lo \in Score
      BY <3>1, FullIs, PartIsScore
    <3>3. QED
      BY <1>4, <1>5, <2>1, <3>2
  <2>2. QED
    BY <1>1, <1>4, <1>5, <2>1
<1>6. CASE w < t
  <2>1. CASE ~(v <= wx) /\ ~(tx <= v)
    <3>1. v - wx \in Nat /\ v - wx <= hi /\ hi \in Nat \ {0}
      BY <1>1, <1>3, <1>6, <2>1
    <3>2. (Full * (v - wx)) \div hi \in Score
      BY <3>1, FullIs, PartIsScore
    <3>3. QED
      BY <1>4, <1>6, <2>1, <3>2
  <2>2. QED
    BY <1>1, <1>4, <1>6, <2>1
<1>7. QED
  BY <1>5, <1>6

\* The ratios the scores are taken of have a positive denominator.
LEMMA PerIsRatio == \A x, y \in Nat : IsRatio(Per(x, y))
BY DEF Per, IsRatio, Huge

LEMMA PairIsRatio == \A x \in Nat, y \in Nat \ {0} : IsRatio(<<x, y>>)
BY DEF IsRatio

\* The divisors are never zero.
LEMMA Divisors ==
  ASSUME NEW in, IsInput(in)
  PROVE  /\ \A x \in Measures : in[x] \in Nat
         /\ Assets(in) \in Nat /\ Reserves(in) \in Nat \ {0}
BY DEF IsInput, Measures, Assets, Reserves

\* Each of the eleven environmental scores is between 0 and 10000.
LEMMA EnvScoresAreScores ==
  ASSUME NEW in, IsInput(in)
  PROVE  /\ Len(EnvScores(in)) = 11 /\ DOMAIN EnvScores(in) = 1..11
         /\ \A i \in 1..11 : EnvScores(in)[i] \in Score
<1> USE Divisors DEF Measures
<1>1. /\ IsRatio(Per(in.ghg, in.boe)) /\ IsRatio(Per(in.flared, in.boe))
      /\ IsRatio(Per(in.vented, in.boe)) /\ IsRatio(<<0, 1>>)
      /\ IsRatio(<<in.scope3Forms, 15>>) /\ IsRatio(Per(in.withdrawn, in.boe))
      /\ IsRatio(<<in.withdrawn, IF in.stations = 0 THEN 1 ELSE in.stations>>)
      /\ IsRatio(Per(in.consumed, in.boe)) /\ IsRatio(Per(in.spilled, in.boe))
      /\ IsRatio(Per(in.spills, Assets(in)))
      /\ IsRatio(IF in.spilled = 0 THEN <<0, 1>> ELSE <<in.sensitive, in.spilled>>)
  BY PerIsRatio, PairIsRatio
<1>2. /\ EnvScores(in)[1] \in Score /\ EnvScores(in)[2] \in Score /\ EnvScores(in)[3] \in Score
      /\ EnvScores(in)[4] \in Score /\ EnvScores(in)[5] \in Score /\ EnvScores(in)[6] \in Score
      /\ EnvScores(in)[7] \in Score /\ EnvScores(in)[8] \in Score /\ EnvScores(in)[9] \in Score
      /\ EnvScores(in)[10] \in Score /\ EnvScores(in)[11] \in Score
  BY <1>1, InterpolateIsScore DEF EnvScores
<1>3. Len(EnvScores(in)) = 11 /\ DOMAIN EnvScores(in) = 1..11
  BY DEF EnvScores
<1>4. QED
  BY <1>2, <1>3

\* What a score is.
LEMMA ScoreIs ==
  /\ \A x \in Score : x \in Nat /\ x <= 10000
  /\ \A x \in Nat : x <= 10000 => x \in Score
<1>1. \A x \in Score : x \in Nat /\ x <= 10000
  BY DEF Score
<1>2. \A x \in Nat : x <= 10000 => x \in Score
  BY Z3 DEF Score
<1>3. QED
  BY <1>1, <1>2

\* A quotient that is at most a full score is a score.
LEMMA ScoreQuotient ==
  ASSUME NEW a \in Nat, NEW b \in Nat \ {0}, a <= 10000 * b
  PROVE  a \div b \in Score
<1>1. a \div b \in Nat /\ a \div b <= 10000
  BY QuotientAtMost
<1>2. QED
  BY <1>1, ScoreIs

\* Each of the seven social scores is between 0 and 10000.
LEMMA SocScoresAreScores ==
  ASSUME NEW in, IsInput(in)
  PROVE  /\ Len(SocScores(in)) = 7 /\ DOMAIN SocScores(in) = 1..7
         /\ \A i \in 1..7 : SocScores(in)[i] \in Score
<1> USE Divisors DEF Measures
<1>1. /\ IsRatio(<<in.conflict, Reserves(in)>>) /\ IsRatio(<<in.indigenous, Reserves(in)>>)
      /\ IsRatio(<<in.resolved, IF in.referred = 0 THEN 1 ELSE in.referred>>)
      /\ IsRatio(Per(in.incidents, in.hours)) /\ IsRatio(Per(in.nearMisses, in.hours))
      /\ IsRatio(Per(in.disruptions, Assets(in)))
  BY PerIsRatio, PairIsRatio
<1>2. AllOrNone(100 * in.hcdt >= 3 * (IF in.opex = 0 THEN 1 ELSE in.opex)) \in Score
  BY FullIs DEF AllOrNone, Score
<1>3. /\ SocScores(in)[1] \in Score /\ SocScores(in)[2] \in Score /\ SocScores(in)[3] \in Score
      /\ SocScores(in)[4] \in Score /\ SocScores(in)[5] \in Score /\ SocScores(in)[6] \in Score
      /\ SocScores(in)[7] \in Score
  BY <1>1, <1>2, InterpolateIsScore DEF SocScores
<1>4. Len(SocScores(in)) = 7 /\ DOMAIN SocScores(in) = 1..7
  BY DEF SocScores
<1>5. QED
  BY <1>3, <1>4

\* Each of the eight governance scores is between 0 and 10000.
LEMMA GovScoresAreScores ==
  ASSUME NEW in, IsInput(in)
  PROVE  /\ Len(GovScores(in)) = 8 /\ DOMAIN GovScores(in) = 1..8
         /\ \A i \in 1..8 : GovScores(in)[i] \in Score
<1> USE Divisors DEF Measures
<1>1. /\ IsRatio(Per(in.tier1, IF in.pseHours = 0 THEN in.hours ELSE in.pseHours))
      /\ IsRatio(<<in.capex, 1>>) /\ IsRatio(<<in.embedded, Reserves(in)>>)
      /\ IsRatio(IF in.climate > 100 THEN <<100 * in.climate, Reserves(in)>>
                                     ELSE <<in.climate, 1>>)
  BY PerIsRatio, PairIsRatio
<1>2. /\ AllOrNone(in.certified) \in Score /\ AllOrNone(in.remuneration) \in Score
      /\ AllOrNone(in.aligned) \in Score /\ AllOrNone(in.carbonPrice >= 50) \in Score
  BY FullIs DEF AllOrNone, Score
<1>3. /\ GovScores(in)[1] \in Score /\ GovScores(in)[2] \in Score /\ GovScores(in)[3] \in Score
      /\ GovScores(in)[4] \in Score
  BY <1>1, InterpolateIsScore DEF GovScores
<1>4. /\ GovScores(in)[5] \in Score /\ GovScores(in)[6] \in Score /\ GovScores(in)[7] \in Score
      /\ GovScores(in)[8] \in Score
  BY <1>2 DEF GovScores
<1>5. Len(GovScores(in)) = 8 /\ DOMAIN GovScores(in) = 1..8
  BY DEF GovScores
<1>6. QED
  BY <1>3, <1>4, <1>5

\* The average of scores is a score.
LEMMA AverageIs ==
  ASSUME NEW n \in Nat \ {0}, NEW seq, Len(seq) = n, DOMAIN seq = 1..n,
         \A i \in 1..n : seq[i] \in Score
  PROVE  /\ Average(seq) = SumFunctionOnSet(seq, DOMAIN seq) \div n
         /\ SumFunctionOnSet(seq, DOMAIN seq) \in Nat
         /\ IsFiniteSet(DOMAIN seq)
         /\ Average(seq) \in Score
<1> DEFINE D == 1..n
<1>1. IsFiniteSet(D) /\ Cardinality(D) = n
  <2>1. 1 \in Int /\ n \in Int /\ ~(1 > n) /\ n - 1 + 1 = n
    OBVIOUS
  <2>2. QED
    BY <2>1, FS_Interval
<1>2. \A i \in D : seq[i] \in Nat /\ seq[i] \in Int /\ 0 <= seq[i] /\ seq[i] <= 10000
  BY ScoreIs
<1>3. DOMAIN seq = D
  OBVIOUS
<1> HIDE DEF D
<1>4. SumFunctionOnSet(seq, D) \in Nat
  BY <1>1, <1>2, SumNat
<1>5. /\ 0 * Cardinality(D) <= SumFunctionOnSet(seq, D)
      /\ SumFunctionOnSet(seq, D) <= 10000 * Cardinality(D)
  <2>1. 0 \in Int /\ 10000 \in Int
    OBVIOUS
  <2>2. QED
    BY <1>1, <1>2, <2>1, SumBounds
<1>6. Average(seq) = SumFunctionOnSet(seq, D) \div n
  BY <1>3 DEF Average, SumFunction
<1>7. SumFunctionOnSet(seq, D) <= 10000 * n
  BY <1>1, <1>5
<1>8. SumFunctionOnSet(seq, D) \div n \in Score
  BY <1>4, <1>7, ScoreQuotient
<1>9. QED
  BY <1>1, <1>3, <1>4, <1>6, <1>8

\* Min of the community modules, for naturals.
LEMMA MinIs ==
  ASSUME NEW S \in SUBSET Nat, S # {}
  PROVE  Min(S) \in S /\ \A x \in S : Min(S) <= x
BY LeastNatural DEF Min

\* The lowest of the score and the caps that apply.
LEMMA CappedIs ==
  ASSUME NEW score \in Nat, NEW caps, \A i \in DOMAIN caps : caps[i][2] \in Nat
  PROVE  /\ Capped(score, caps) \in Nat
         /\ Capped(score, caps) <= score
         /\ \A i \in DOMAIN caps : caps[i][1] => Capped(score, caps) <= caps[i][2] * 100
         /\ \/ Capped(score, caps) = score
            \/ \E i \in DOMAIN caps : caps[i][1] /\ Capped(score, caps) = caps[i][2] * 100
<1> DEFINE applied == {i \in DOMAIN caps : caps[i][1]}
           S == {score} \cup {caps[i][2] * Point : i \in applied}
<1>1. S \in SUBSET Nat /\ S # {}
  BY DEF Point
<1>2. Capped(score, caps) = Min(S)
  BY DEF Capped
<1>3. Min(S) \in S /\ \A x \in S : Min(S) <= x
  BY <1>1, MinIs
<1>4. QED
  BY <1>1, <1>2, <1>3 DEF Point

\* The three pillar scores, and the cap each veto puts on them.
LEMMA PillarScores ==
  ASSUME NEW in, IsInput(in)
  PROVE  /\ Environment(in) \in Score /\ Social(in) \in Score /\ Governance(in) \in Score
         /\ in.spilled > 250 => Environment(in) <= 4000
         /\ in.hcdt = 0 => Social(in) <= 4000
         /\ in.fatalities >= 1 => Social(in) <= 5000
         /\ in.daysLost > 30 => Social(in) <= 6000
         /\ in.tier1 >= 2 => Governance(in) <= 5000
<1>1. /\ Average(EnvScores(in)) \in Score
      /\ Average(SocScores(in)) \in Score
      /\ Average(GovScores(in)) \in Score
  <2>1. 11 \in Nat \ {0} /\ 7 \in Nat \ {0} /\ 8 \in Nat \ {0}
    OBVIOUS
  <2>2. Average(EnvScores(in)) \in Score
    BY <2>1, EnvScoresAreScores, AverageIs
  <2>3. Average(SocScores(in)) \in Score
    BY <2>1, SocScoresAreScores, AverageIs
  <2>4. Average(GovScores(in)) \in Score
    BY <2>1, GovScoresAreScores, AverageIs
  <2>5. QED
    BY <2>2, <2>3, <2>4
<1>2. /\ DOMAIN EnvVetoes(in) = 1..1 /\ DOMAIN SocVetoes(in) = 1..3 /\ DOMAIN GovVetoes(in) = 1..1
      /\ EnvVetoes(in)[1][1] <=> in.spilled > 250
      /\ SocVetoes(in)[1][1] <=> in.fatalities >= 1
      /\ SocVetoes(in)[2][1] <=> in.daysLost > 30
      /\ SocVetoes(in)[3][1] <=> in.hcdt = 0
      /\ GovVetoes(in)[1][1] <=> in.tier1 >= 2
      /\ EnvVetoes(in)[1][2] = 40 /\ GovVetoes(in)[1][2] = 50
      /\ SocVetoes(in)[1][2] = 50 /\ SocVetoes(in)[2][2] = 60 /\ SocVetoes(in)[3][2] = 40
  <2>1. DOMAIN EnvVetoes(in) = 1..1 /\ DOMAIN SocVetoes(in) = 1..3 /\ DOMAIN GovVetoes(in) = 1..1
    BY DEF EnvVetoes, SocVetoes, GovVetoes
  <2>2. /\ EnvVetoes(in)[1][1] <=> in.spilled > 250
        /\ SocVetoes(in)[1][1] <=> in.fatalities >= 1
        /\ SocVetoes(in)[2][1] <=> in.daysLost > 30
        /\ SocVetoes(in)[3][1] <=> in.hcdt = 0
        /\ GovVetoes(in)[1][1] <=> in.tier1 >= 2
    BY DEF EnvVetoes, SocVetoes, GovVetoes
  <2>3. /\ EnvVetoes(in)[1][2] = 40 /\ GovVetoes(in)[1][2] = 50
        /\ SocVetoes(in)[1][2] = 50 /\ SocVetoes(in)[2][2] = 60 /\ SocVetoes(in)[3][2] = 40
    BY DEF EnvVetoes, SocVetoes, GovVetoes
  <2>4. QED
    BY <2>1, <2>2, <2>3
<1>3. /\ \A i \in DOMAIN EnvVetoes(in) : EnvVetoes(in)[i][2] \in Nat
      /\ \A i \in DOMAIN SocVetoes(in) : SocVetoes(in)[i][2] \in Nat
      /\ \A i \in DOMAIN GovVetoes(in) : GovVetoes(in)[i][2] \in Nat
  BY <1>2
<1>4. \A x \in Score : x \in Nat /\ x <= 10000
  BY ScoreIs
<1>5. /\ Environment(in) \in Nat /\ Environment(in) <= Average(EnvScores(in))
      /\ \A i \in DOMAIN EnvVetoes(in) :
           EnvVetoes(in)[i][1] => Environment(in) <= EnvVetoes(in)[i][2] * 100
  BY <1>1, <1>3, <1>4, CappedIs DEF Environment
<1>6. /\ Social(in) \in Nat /\ Social(in) <= Average(SocScores(in))
      /\ \A i \in DOMAIN SocVetoes(in) :
           SocVetoes(in)[i][1] => Social(in) <= SocVetoes(in)[i][2] * 100
  BY <1>1, <1>3, <1>4, CappedIs DEF Social
<1>7. /\ Governance(in) \in Nat /\ Governance(in) <= Average(GovScores(in))
      /\ \A i \in DOMAIN GovVetoes(in) :
           GovVetoes(in)[i][1] => Governance(in) <= GovVetoes(in)[i][2] * 100
  BY <1>1, <1>3, <1>4, CappedIs DEF Governance
<1>8. Environment(in) \in Score /\ Social(in) \in Score /\ Governance(in) \in Score
  BY <1>1, <1>4, <1>5, <1>6, <1>7, ScoreIs
<1>9. in.spilled > 250 => Environment(in) <= 4000
  BY <1>2, <1>5
<1>10. in.tier1 >= 2 => Governance(in) <= 5000
  BY <1>2, <1>7
<1>11. /\ in.hcdt = 0 => Social(in) <= 4000
       /\ in.fatalities >= 1 => Social(in) <= 5000
       /\ in.daysLost > 30 => Social(in) <= 6000
  BY <1>2, <1>6
<1>12. QED
  BY <1>8, <1>9, <1>10, <1>11

\* The six grades in order.
LEMMA Ranks ==
  /\ RankOf("D") = 1 /\ RankOf("C") = 2 /\ RankOf("B") = 3
  /\ RankOf("B+") = 4 /\ RankOf("A") = 5 /\ RankOf("A+") = 6
<1>1. DOMAIN Grades = 1..6
  BY DEF Grades
<1>2. /\ Grades[1] = "D" /\ Grades[2] = "C" /\ Grades[3] = "B"
      /\ Grades[4] = "B+" /\ Grades[5] = "A" /\ Grades[6] = "A+"
  BY DEF Grades
<1>3. QED
  BY <1>1, <1>2 DEF RankOf

\* A capped pillar keeps the weighted score below the grade it forbids.
LEMMA VetoesBoundGrade == NumbersInv => VetoBoundsGrade
<1> SUFFICES ASSUME NumbersInv PROVE VetoBoundsGrade
  OBVIOUS
<1> DEFINE e == Environment(figures)
           s == Social(figures)
           g == Governance(figures)
           o == Overall(figures)
<1>1. /\ e \in Nat /\ s \in Nat /\ g \in Nat /\ e <= 10000 /\ s <= 10000 /\ g <= 10000
      /\ figures.spilled > 250 => e <= 4000
      /\ figures.hcdt = 0 => s <= 4000
      /\ figures.fatalities >= 1 => s <= 5000
      /\ figures.daysLost > 30 => s <= 6000
      /\ figures.tier1 >= 2 => g <= 5000
  BY PillarScores, ScoreIs DEF NumbersInv
<1>2. o = 41 * e + 26 * s + 33 * g
  BY DEF Overall
<1> HIDE DEF e, s, g
<1>3. OverallGrade(figures) = CASE o >= 950000 -> "A+"
                                [] o >= 850000 -> "A"
                                [] o >= 750000 -> "B+"
                                [] o >= 650000 -> "B"
                                [] o >= 500000 -> "C"
                                [] OTHER       -> "D"
  BY DEF OverallGrade, Grade, Point
<1>4. o \in Nat
  BY <1>1, <1>2
<1> HIDE DEF o
<1>5. o < 850000 => AtMostGrade("B+")
  BY <1>3, <1>4, Ranks DEF AtMostGrade
<1>6. o < 950000 => AtMostGrade("A")
  BY <1>3, <1>4, Ranks DEF AtMostGrade
<1>7. figures.spilled > 250 \/ figures.hcdt = 0 \/ figures.tier1 >= 2 => o < 850000
  BY <1>1, <1>2
<1>8. figures.fatalities >= 1 \/ figures.daysLost > 30 => o < 950000
  BY <1>1, <1>2
<1>9. QED
  BY <1>5, <1>6, <1>7, <1>8 DEF VetoBoundsGrade

(***************************************************************************)
(* VetoBoundsGrade: in every state the measures can be edited into, a veto *)
(* of spills, host community trust or tier 1 events keeps the overall      *)
(* grade at B+ or lower, and one of fatalities or lost days at A or lower. *)
(* calculateScores, getGrade.                                              *)
(***************************************************************************)
THEOREM VetoesFelt == DocumentSpec => []VetoBoundsGrade
BY DocumentInvariance, VetoesBoundGrade, PTL

-----------------------------------------------------------------------------
(* Progress.                                                                *)

LEMMA QuotientMonotone ==
  ASSUME NEW a \in Nat, NEW c \in Nat, NEW b \in Nat \ {0}, a <= c
  PROVE  a \div b \in Nat /\ c \div b \in Nat /\ a \div b <= c \div b
<1> DEFINE q == a \div b
           r == c \div b
<1>1. q \in Nat /\ r \in Nat /\ b * q <= a /\ c < b * r + b
  BY Quotient
<1> HIDE DEF q, r
<1>2. q <= r
  <2>1. SUFFICES ASSUME r + 1 <= q PROVE FALSE
    BY <1>1
  <2>2. b * (r + 1) <= b * q
    BY <1>1, <2>1
  <2>3. QED
    BY <1>1, <2>2
<1>3. QED
  BY <1>1, <1>2 DEF q, r

\* Math.round of a fraction is monotone in the numerator.
LEMMA RoundedGrows ==
  ASSUME NEW a \in Nat, NEW c \in Nat, NEW b \in Nat \ {0}, a <= c
  PROVE  Rounded(a, b) \in Nat /\ Rounded(c, b) \in Nat /\ Rounded(a, b) <= Rounded(c, b)
<1>1. 2 * a + b \in Nat /\ 2 * c + b \in Nat /\ 2 * b \in Nat \ {0} /\ 2 * a + b <= 2 * c + b
  OBVIOUS
<1>2. QED
  BY <1>1, QuotientMonotone DEF Rounded

\* Rounding does not go below an integer the fraction reaches.
LEMMA RoundedAtLeast ==
  ASSUME NEW a \in Nat, NEW b \in Nat \ {0}, NEW k \in Nat, k * b <= a
  PROVE  Rounded(a, b) \in Nat /\ k <= Rounded(a, b)
<1> DEFINE q == (2 * a + b) \div (2 * b)
<1>1. 2 * a + b \in Nat /\ 2 * b \in Nat \ {0}
  OBVIOUS
<1>2. q \in Nat /\ 2 * a + b < 2 * b * q + 2 * b
  BY <1>1, Quotient
<1> HIDE DEF q
<1>3. k <= q
  <2>1. SUFFICES ASSUME q + 1 <= k PROVE FALSE
    BY <1>2
  <2>2. (q + 1) * b <= k * b
    BY <1>2, <2>1
  <2>3. QED
    BY <1>2, <2>2
<1>4. QED
  BY <1>2, <1>3 DEF q, Rounded

\* Capping at 100% is monotone.
LEMMA CapGrows ==
  ASSUME NEW x \in Nat, NEW y \in Nat, x <= y
  PROVE  AtMost1000(x) \in Nat /\ AtMost1000(y) \in Nat /\ AtMost1000(x) <= AtMost1000(y)
BY DEF AtMost1000

\* A sum grows with its terms.
LEMMA SumGrows ==
  ASSUME NEW S, IsFiniteSet(S), NEW f, NEW h, DOMAIN f = S, DOMAIN h = S,
         \A x \in S : f[x] \in Nat /\ h[x] \in Nat /\ f[x] <= h[x]
  PROVE  SumFunction(f) \in Nat /\ SumFunction(h) \in Nat /\ SumFunction(f) <= SumFunction(h)
<1>1. SumFunction(f) = SumFunctionOnSet(f, S) /\ SumFunction(h) = SumFunctionOnSet(h, S)
  BY DEF SumFunction
<1>2. SumFunctionOnSet(f, S) \in Nat /\ SumFunctionOnSet(h, S) \in Nat
  BY SumNat
<1>3. SumFunctionOnSet(f, S) <= SumFunctionOnSet(h, S)
  BY SumMonotone
<1>4. QED
  BY <1>1, <1>2, <1>3

\* The sum of positive numbers is positive.
LEMMA SumIsPositive ==
  ASSUME NEW S, IsFiniteSet(S), S # {}, NEW f, DOMAIN f = S, \A x \in S : f[x] \in Nat \ {0}
  PROVE  SumFunction(f) \in Nat \ {0}
<1>1. SumFunction(f) = SumFunctionOnSet(f, S)
  BY DEF SumFunction
<1>2. SumFunctionOnSet(f, S) \in Nat
  BY SumNat
<1>3. PICK x \in S : TRUE
  OBVIOUS
<1>4. f[x] <= SumFunctionOnSet(f, S)
  BY SumMember
<1>5. QED
  BY <1>1, <1>2, <1>4

\* The forms present in a topic are finitely many of its forms.
LEMMA PresentFormsAre ==
  ASSUME NEW g \in Groups
  PROVE  IsFiniteSet(PresentForms(g)) /\ PresentForms(g) \subseteq DOMAIN Expected[g]
<1>1. PresentForms(g) \subseteq DOMAIN Expected[g]
  BY DEF PresentForms
<1>2. QED
  BY <1>1, FormsAreFinite, FS_Subset

\* A topic that was begun expects at least one field.
LEMMA TotalExpectedIs ==
  ASSUME NEW g \in Groups, Started(g)
  PROVE  TotalExpected(g) \in Nat \ {0}
<1> DEFINE S == PresentForms(g)
           f == [x \in S |-> Expected[g][x]]
<1>1. IsFiniteSet(S) /\ S \subseteq DOMAIN Expected[g] /\ S # {}
  BY PresentFormsAre DEF Started
<1>2. DOMAIN f = S /\ \A x \in S : f[x] \in Nat \ {0}
  BY <1>1, ExpectedIsPositive
<1>3. TotalExpected(g) = SumFunction(f)
  BY DEF TotalExpected
<1> HIDE DEF S, f
<1>4. QED
  BY <1>1, <1>2, <1>3, SumIsPositive

\* A topic all of whose forms are filled shows 100% if its copies are up to
\* date.
LEMMA FullTopicsShow1000 ==
  ASSUME DataInv, NEW g \in Groups, Filled(g),
         \A f \in DOMAIN Expected[g] \cap Renamed : kept[f] = saved[f]
  PROVE  GroupProgress(g) = 1000
<1> USE CountsAssumption
<1> DEFINE S == DOMAIN Expected[g]
           e == [f \in S |-> Expected[g][f]]
           c == [f \in S |-> Count(f)]
<1>1. IsFiniteSet(S) /\ S # {} /\ S \subseteq Forms
  BY FormsAreFinite, ExpectedIsPositive, RenamedAreForms
<1>2. ASSUME NEW f \in S
      PROVE  Count(f) \in Nat /\ Count(f) >= Expected[g][f] /\ Count(f) # None
  <2>1. Count(f) = saved[f]
    BY DEF Count
  <2>2. saved[f] \in Nat \cup {None} /\ saved[f] # None /\ saved[f] >= Expected[g][f]
    BY <1>1 DEF DataInv, Filled
  <2>3. QED
    BY <2>1, <2>2
<1>3. PresentForms(g) = S
  BY <1>2 DEF PresentForms, Present
<1>4. TotalExpected(g) = SumFunction(e) /\ TotalCount(g) = SumFunction(c)
  BY <1>3 DEF TotalExpected, TotalCount
<1>5. DOMAIN e = S /\ DOMAIN c = S
  OBVIOUS
<1>6. \A f \in S : e[f] \in Nat /\ c[f] \in Nat /\ e[f] <= c[f]
  BY <1>2, ExpectedIsPositive
<1>7. Started(g)
  BY <1>1, <1>3 DEF Started
<1> HIDE DEF S, e, c
<1>8. SumFunction(e) \in Nat /\ SumFunction(c) \in Nat /\ SumFunction(e) <= SumFunction(c)
  BY <1>1, <1>5, <1>6, SumGrows
<1>9. TotalExpected(g) \in Nat \ {0} /\ TotalCount(g) \in Nat
      /\ TotalExpected(g) <= TotalCount(g)
  BY <1>4, <1>7, <1>8, TotalExpectedIs
<1>10. Rounded(1000 * TotalCount(g), TotalExpected(g)) \in Nat
       /\ 1000 <= Rounded(1000 * TotalCount(g), TotalExpected(g))
  <2>1. 1000 * TotalExpected(g) <= 1000 * TotalCount(g) /\ 1000 * TotalCount(g) \in Nat
    BY <1>9
  <2>2. QED
    BY <1>9, <2>1, RoundedAtLeast
<1>11. QED
  BY <1>7, <1>10 DEF GroupProgress, AtMost1000

\* So what falls short of 100% has a copy that is out of date.
LEMMA ShortfallHasACopy == DataInv => ShortfallIsExplained
BY FullTopicsShow1000 DEF ShortfallIsExplained

(***************************************************************************)
(* ShortfallIsExplained: in every document a sequence of saves, of forms   *)
(* or of topics, and of submissions can reach, a topic all of whose forms  *)
(* are filled shows 100% unless one of them is read from a copy that is    *)
(* out of date.  calculateGroupProgress.                                   *)
(***************************************************************************)
THEOREM OnlyCopiesFallShort == DocumentSpec => []ShortfallIsExplained
BY DocumentInvariance, ShortfallHasACopy, PTL

-----------------------------------------------------------------------------
(* Filling in.                                                              *)

\* A step of the document keeps every form and recalculates the copies.
LEMMA StepsRecalculate ==
  ASSUME DataInv, Next
  PROVE  /\ saved' \in [Forms -> Nat \cup {None}]
         /\ \A f \in Forms : saved[f] # None => saved'[f] # None
         /\ kept' = Normalised(saved')
         /\ submitted \subseteq submitted' /\ IsFiniteSet(submitted')
         /\ submitted' # submitted => saved' = saved
<1> USE CountsAssumption
<1>1. ASSUME NEW f \in Forms, NEW n \in Counts, SaveForm(f, n)
      PROVE  /\ saved' \in [Forms -> Nat \cup {None}]
             /\ \A h \in Forms : saved[h] # None => saved'[h] # None
             /\ kept' = Normalised(saved') /\ submitted' = submitted
  BY <1>1 DEF SaveForm, WriteBack, DataInv
<1>2. ASSUME NEW g \in Groups, NEW sent \in SUBSET DOMAIN Expected[g],
             NEW counts \in [sent -> Counts], SaveGroup(g, counts)
      PROVE  /\ saved' \in [Forms -> Nat \cup {None}]
             /\ \A h \in Forms : saved[h] # None => saved'[h] # None
             /\ kept' = Normalised(saved') /\ submitted' = submitted
  BY <1>2 DEF SaveGroup, WriteBack, DataInv
<1>3. ASSUME NEW p \in GroupKeys \cup StrayPaths, SubmitGroup(p)
      PROVE  /\ saved' = saved /\ kept' = Normalised(saved')
             /\ submitted \subseteq submitted' /\ IsFiniteSet(submitted')
  BY <1>3, FS_AddElement DEF SubmitGroup, DataInv
<1>4. QED
  BY <1>1, <1>2, <1>3 DEF Next, DataInv

\* What filling in does to what the calculator finds.
LEMMA FillingKeepsForms ==
  ASSUME DataInv, Next, Filling \/ submitted' # submitted
  PROVE  /\ \A f \in Forms : Present(f)' <=> Present(f)
         /\ \A f \in Forms : Present(f) =>
                Count(f) \in Nat /\ Count(f)' \in Nat /\ Count(f) <= Count(f)'
<1> USE CountsAssumption, RenamedAreForms, StepsRecalculate
<1>1. \A f \in Forms : saved'[f] # None <=> saved[f] # None
  BY DEF Filling
<1>2. ASSUME NEW f \in Renamed PROVE kept'[f] = kept[f]
  <2>1. CASE f \in RenamedAlone
    BY <1>1, <2>1 DEF Normalised, DataInv, CopiesFollow, Renamed
  <2>2. CASE f \in LegalForms
    BY <1>1, <2>2 DEF Normalised, DataInv, CopiesFollow, Renamed
  <2>3. QED
    BY <2>1, <2>2 DEF Renamed
<1>3. ASSUME NEW f \in Forms, f \notin Renamed, saved[f] # None
      PROVE  saved[f] \in Nat /\ saved'[f] \in Nat /\ saved[f] <= saved'[f]
  <2>1. saved[f] \in Nat /\ saved'[f] \in Nat
    BY <1>3 DEF DataInv
  <2>2. saved'[f] >= saved[f]
    BY <2>1 DEF Filling
  <2>3. QED
    BY <2>1, <2>2
<1>4. ASSUME NEW f \in Renamed, kept[f] # None PROVE kept[f] \in Nat
  BY <1>4 DEF DataInv
<1>5. ASSUME NEW f \in Forms PROVE Present(f)' <=> Present(f)
  BY <1>1, <1>2 DEF Present, Count
<1>6. ASSUME NEW f \in Forms, Present(f)
      PROVE  Count(f) \in Nat /\ Count(f)' \in Nat /\ Count(f) <= Count(f)'
  BY <1>2, <1>3, <1>4, <1>6 DEF Present, Count
<1>7. QED
  BY <1>5, <1>6

\* No form comes or goes, and none of those there holds less.
Steady ==
  /\ \A f \in Forms : Present(f)' <=> Present(f)
  /\ \A f \in Forms : Present(f) =>
         Count(f) \in Nat /\ Count(f)' \in Nat /\ Count(f) <= Count(f)'

Grows(g) == GroupProgress(g) \in Nat /\ GroupProgress(g)' \in Nat
            /\ GroupProgress(g) <= GroupProgress(g)'

\* A step that only fills leaves every topic with the same forms present.
LEMMA SteadyPresence ==
  ASSUME Steady, NEW g \in Groups
  PROVE  PresentForms(g)' = PresentForms(g) /\ (Started(g)' <=> Started(g))
<1>1. PresentForms(g)' = PresentForms(g)
  BY RenamedAreForms DEF Steady, PresentForms
<1>2. QED
  BY <1>1 DEF Started

\* Then the progress of a topic that was begun does not fall.
LEMMA TopicsGrow ==
  ASSUME Steady, NEW g \in Groups, Started(g)
  PROVE  Grows(g)
<1> DEFINE S == PresentForms(g)
           f == [x \in S |-> Count(x)]
           h == [x \in S |-> Count(x)']
           t == TotalExpected(g)
<1>1. IsFiniteSet(S) /\ t \in Nat \ {0} /\ S' = S
  BY PresentFormsAre, TotalExpectedIs, SteadyPresence
<1>2. \A x \in S : f[x] \in Nat /\ h[x] \in Nat /\ f[x] <= h[x]
  BY RenamedAreForms DEF Steady, PresentForms
<1>3. DOMAIN f = S /\ DOMAIN h = S
  OBVIOUS
<1>4. TotalCount(g) = SumFunction(f)
  BY DEF TotalCount
<1>5. TotalCount(g)' = SumFunction(h)
  BY <1>1 DEF TotalCount
<1>6. TotalExpected(g)' = t
  BY <1>1 DEF TotalExpected
<1> HIDE DEF S, f, h
<1>7. TotalCount(g) \in Nat /\ TotalCount(g)' \in Nat /\ TotalCount(g) <= TotalCount(g)'
  BY <1>1, <1>2, <1>3, <1>4, <1>5, SumGrows
<1>8. 1000 * TotalCount(g) \in Nat /\ 1000 * TotalCount(g)' \in Nat
      /\ 1000 * TotalCount(g) <= 1000 * TotalCount(g)'
  BY <1>7
<1> HIDE DEF t
<1> DEFINE p == Rounded(1000 * TotalCount(g), t)
           q == Rounded(1000 * TotalCount(g)', t)
<1>9. p \in Nat /\ q \in Nat /\ p <= q
  BY <1>1, <1>8, RoundedGrows
<1>10. GroupProgress(g) = AtMost1000(p)
  BY DEF GroupProgress, t
<1>11. GroupProgress(g)' = AtMost1000(q)
  BY <1>6, SteadyPresence DEF GroupProgress
<1> HIDE DEF p, q
<1>12. QED
  BY <1>9, <1>10, <1>11, CapGrows DEF Grows

\* Nor that of a topic that was not begun, which shows nothing.
LEMMA TopicsNeverFall ==
  ASSUME Steady, NEW g \in Groups
  PROVE  NotLower(GroupProgress(g), GroupProgress(g)')
<1> USE CountsAssumption
<1>1. CASE Started(g)
  BY <1>1, TopicsGrow DEF Grows, NotLower
<1>2. CASE ~Started(g)
  BY <1>2 DEF GroupProgress, NotLower
<1>3. QED
  BY <1>1, <1>2

\* The mean of a list of topics, with others beside them.
LEMMA MeansGrow ==
  ASSUME NEW S, IsFiniteSet(S), NEW f, NEW h, DOMAIN f = S, DOMAIN h = S,
         \A x \in S : f[x] \in Nat /\ h[x] \in Nat /\ f[x] <= h[x],
         NEW a \in Nat, NEW b \in Nat, a <= b, NEW n \in Nat, Cardinality(S) + n # 0
  PROVE  LET m == Cardinality(S) + n
             p == AtMost1000(Rounded(SumFunction(f) + a, m))
             q == AtMost1000(Rounded(SumFunction(h) + b, m))
         IN  p \in Nat /\ q \in Nat /\ p <= q
<1> DEFINE m == Cardinality(S) + n
           x == SumFunction(f) + a
           y == SumFunction(h) + b
<1>1. m \in Nat \ {0}
  BY FS_CardinalityType
<1>2. SumFunction(f) \in Nat /\ SumFunction(h) \in Nat /\ SumFunction(f) <= SumFunction(h)
  BY SumGrows
<1>3. x \in Nat /\ y \in Nat /\ x <= y
  BY <1>2
<1> HIDE DEF m, x, y
<1>4. Rounded(x, m) \in Nat /\ Rounded(y, m) \in Nat /\ Rounded(x, m) <= Rounded(y, m)
  BY <1>1, <1>3, RoundedGrows
<1>5. AtMost1000(Rounded(x, m)) \in Nat /\ AtMost1000(Rounded(y, m)) \in Nat
      /\ AtMost1000(Rounded(x, m)) <= AtMost1000(Rounded(y, m))
  BY <1>4, CapGrows
<1>6. QED
  BY <1>5 DEF m, x, y

\* A mean without further terms.
LEMMA NoOthers == SumFunction(<< >>) = 0 /\ Len(<< >>) = 0
<1>1. DOMAIN << >> = {}
  OBVIOUS
<1>2. QED
  BY <1>1, SumEmpty DEF SumFunction

\* The plain mean over a set of topics does not fall.
LEMMA AveragesGrow ==
  ASSUME Steady, NEW groups \in SUBSET Groups, IsFiniteSet(groups)
  PROVE  LET p == AverageOf(groups, << >>)
             q == AverageOf(groups, << >>)'
         IN  p \in Nat /\ q \in Nat /\ p <= q
<1> DEFINE S == {g \in groups : Started(g)}
           f == [g \in S |-> GroupProgress(g)]
           h == [g \in S |-> GroupProgress(g)']
           n == Cardinality(S) + 0
<1>1. IsFiniteSet(S) /\ n \in Nat /\ n = Cardinality(S)
  BY FS_Subset, FS_CardinalityType
<1>2. S' = S
  BY SteadyPresence
<1>3. \A g \in S : f[g] \in Nat /\ h[g] \in Nat /\ f[g] <= h[g]
  BY TopicsGrow DEF Grows
<1>4. DOMAIN f = S /\ DOMAIN h = S
  OBVIOUS
<1>5. AverageOf(groups, << >>) =
          IF n = 0 THEN 0 ELSE AtMost1000(Rounded(SumFunction(f) + 0, n))
  BY NoOthers DEF AverageOf
<1>6. AverageOf(groups, << >>)' =
          IF n = 0 THEN 0 ELSE AtMost1000(Rounded(SumFunction(h) + 0, n))
  BY <1>2, NoOthers DEF AverageOf
<1> HIDE DEF S, f, h
<1>7. CASE n # 0
  <2> DEFINE p == AtMost1000(Rounded(SumFunction(f) + 0, n))
             q == AtMost1000(Rounded(SumFunction(h) + 0, n))
  <2>1. p \in Nat /\ q \in Nat /\ p <= q
    BY <1>1, <1>3, <1>4, <1>7, MeansGrow
  <2> HIDE DEF p, q
  <2>2. AverageOf(groups, << >>) = p /\ AverageOf(groups, << >>)' = q
    BY <1>5, <1>6, <1>7 DEF p, q
  <2>3. QED
    BY <2>1, <2>2
<1>8. CASE n = 0
  BY <1>5, <1>6, <1>8
<1>9. QED
  BY <1>1, <1>7, <1>8

\* A weighted sum of the topics of a list.
LEMMA WeightsGrow ==
  ASSUME Steady, NEW groups \in SUBSET Groups, IsFiniteSet(groups), NEW w,
         \A g \in groups : w[g] \in Nat
  PROVE  LET S == {g \in groups : Started(g)}
             x == SumFunction([g \in S |-> GroupProgress(g) * w[g]])
             y == SumFunction([g \in S |-> GroupProgress(g)' * w[g]])
         IN  IsFiniteSet(S) /\ x \in Nat /\ y \in Nat /\ x <= y
<1> DEFINE S == {g \in groups : Started(g)}
           f == [g \in S |-> GroupProgress(g) * w[g]]
           h == [g \in S |-> GroupProgress(g)' * w[g]]
<1>1. IsFiniteSet(S)
  BY FS_Subset
<1>2. ASSUME NEW g \in S PROVE f[g] \in Nat /\ h[g] \in Nat /\ f[g] <= h[g]
  <2>1. Grows(g) /\ w[g] \in Nat
    BY TopicsGrow
  <2> DEFINE a == GroupProgress(g)
             b == GroupProgress(g)'
             c == w[g]
  <2>2. f[g] = a * c /\ h[g] = b * c
    OBVIOUS
  <2>3. a \in Nat /\ b \in Nat /\ c \in Nat /\ a <= b
    BY <2>1 DEF Grows
  <2> HIDE DEF a, b, c
  <2>4. a * c \in Nat /\ b * c \in Nat /\ a * c <= b * c
    BY <2>3
  <2>5. QED
    BY <2>2, <2>4
<1>3. DOMAIN f = S /\ DOMAIN h = S
  OBVIOUS
<1> HIDE DEF f, h
<1>4. SumFunction(f) \in Nat /\ SumFunction(h) \in Nat /\ SumFunction(f) <= SumFunction(h)
  BY <1>1, <1>2, <1>3, SumGrows
<1>5. QED
  BY <1>1, <1>4 DEF f, h

\* The lists of topics and weights the figures are means over.
LEMMA TopicLists ==
  /\ EnvironmentTopics \in SUBSET Groups /\ IsFiniteSet(EnvironmentTopics)
  /\ DOMAIN ScopeOneWeight \in SUBSET Groups /\ IsFiniteSet(DOMAIN ScopeOneWeight)
  /\ \A g \in DOMAIN ScopeOneWeight : ScopeOneWeight[g] \in Nat \ {0}
  /\ DOMAIN HumanWeight \in SUBSET Groups /\ IsFiniteSet(DOMAIN HumanWeight)
  /\ \A g \in DOMAIN HumanWeight : HumanWeight[g] \in Nat \ {0}
<1>1. EnvironmentTopics \in SUBSET Groups
  BY GroupsAre DEF EnvironmentTopics
<1>2. IsFiniteSet(EnvironmentTopics)
  <2> DEFINE all == {"airPollutantEmissions", "freshwaterWithdrawals",
                     "producedWaterManagement",
                     "environmentalManagementPolicies", "hydrocarbonSpills",
                     "reservesInSensitiveAreas", "reservesInSensitiveAreas"}
  <2>1. IsFiniteSet(all)
    BY SevenAreFinite
  <2>2. EnvironmentTopics \subseteq all
    BY DEF EnvironmentTopics
  <2> HIDE DEF all
  <2>3. QED
    BY <2>1, <2>2, FS_Subset
<1>3. DOMAIN ScopeOneWeight = {"stationarySources", "mobileSources", "processEmissions",
                               "fugitiveEmissions"}
  BY DEF ScopeOneWeight
<1>4. DOMAIN ScopeOneWeight \in SUBSET Groups
  BY <1>3, GroupsAre
<1>5. IsFiniteSet(DOMAIN ScopeOneWeight)
  <2> DEFINE all == {"stationarySources", "mobileSources", "processEmissions",
                     "fugitiveEmissions"}
  <2>1. IsFiniteSet(all)
    BY FourAreFinite
  <2>2. DOMAIN ScopeOneWeight \subseteq all
    BY <1>3
  <2> HIDE DEF all
  <2>3. QED
    BY <2>1, <2>2, FS_Subset
<1>6. \A g \in DOMAIN ScopeOneWeight : ScopeOneWeight[g] \in Nat \ {0}
  BY DEF ScopeOneWeight
<1>7. DOMAIN HumanWeight = {"workforceHealthSafety", "healthAndSafetyPerformance"}
  BY DEF HumanWeight
<1>8. DOMAIN HumanWeight \in SUBSET Groups
  BY <1>7, GroupsAre
<1>9. IsFiniteSet(DOMAIN HumanWeight)
  <2> DEFINE all == {"workforceHealthSafety", "healthAndSafetyPerformance"}
  <2>1. IsFiniteSet(all)
    BY TwoAreFinite
  <2>2. DOMAIN HumanWeight \subseteq all
    BY <1>7
  <2> HIDE DEF all
  <2>3. QED
    BY <2>1, <2>2, FS_Subset
<1>10. \A g \in DOMAIN HumanWeight : HumanWeight[g] \in Nat \ {0}
  BY DEF HumanWeight
<1>11. QED
  BY <1>1, <1>2, <1>4, <1>5, <1>6, <1>8, <1>9, <1>10

\* The weighted mean of scope 1 does not fall.
LEMMA ScopeOneGrows ==
  ASSUME Steady
  PROVE  Scope1Progress \in Nat /\ Scope1Progress' \in Nat /\ Scope1Progress <= Scope1Progress'
<1> DEFINE S == {g \in DOMAIN ScopeOneWeight : Started(g)}
           x == SumFunction([g \in S |-> GroupProgress(g) * ScopeOneWeight[g]])
           y == SumFunction([g \in S |-> GroupProgress(g)' * ScopeOneWeight[g]])
<1>1. x \in Nat /\ y \in Nat /\ x <= y
  BY TopicLists, WeightsGrow
<1>2. S' = S
  BY TopicLists, SteadyPresence
<1>3. Scope1Progress = Rounded(x, 26)
  BY DEF Scope1Progress
<1>4. Scope1Progress' = Rounded(y, 26)
  BY <1>2 DEF Scope1Progress
<1> HIDE DEF x, y
<1>5. QED
  BY <1>1, <1>3, <1>4, RoundedGrows

\* The forms of scope 2.
LEMMA ScopeTwoForms ==
  /\ ScopeTwo.marketBased \subseteq Forms /\ IsFiniteSet(ScopeTwo.marketBased)
  /\ IsFiniteSet(LocationFields)
<1>1. ScopeTwo.marketBased = {"ipps", "eac", "residual", "coolingSteam"}
      /\ ScopeTwo["marketBased"] = ScopeTwo.marketBased /\ "marketBased" \in DOMAIN ScopeTwo
  BY DEF ScopeTwo
<1>2. ScopeTwo.locationBased = {"electricity", "cooling", "steam", "heating"}
  BY DEF ScopeTwo
<1>3. IsFiniteSet({"ipps", "eac", "residual", "coolingSteam"})
      /\ IsFiniteSet({"purchasedElectricity", "cooling", "steam", "heating"})
  BY FourAreFinite
<1>4. LocationFields \subseteq {"purchasedElectricity", "cooling", "steam", "heating"}
  BY <1>2 DEF LocationFields
<1>5. ScopeTwo.marketBased \subseteq {"ipps", "eac", "residual", "coolingSteam"}
  BY <1>1
<1>6. ScopeTwo.marketBased \subseteq Forms
  <2>1. ASSUME NEW g \in DOMAIN ScopeTwo, NEW f \in ScopeTwo[g] PROVE f \in Forms
    <3>1. f \in UNION {ScopeTwo[h] : h \in DOMAIN ScopeTwo}
      OBVIOUS
    <3>2. QED
      BY <3>1 DEF Forms
  <2>2. ScopeTwo["marketBased"] \subseteq Forms
    BY <1>1, <2>1
  <2>3. QED
    BY <1>1, <2>2
<1>7. QED
  BY <1>3, <1>4, <1>5, <1>6, FS_Subset

\* Scope 2 looks only at which forms are present.
LEMMA ScopeTwoStays ==
  ASSUME Steady
  PROVE  Scope2Progress \in Nat /\ Scope2Progress' = Scope2Progress
<1> DEFINE L == {f \in LocationFields \cap Forms : Present(f)}
           M == {f \in ScopeTwo.marketBased : Present(f)}
<1>1. L' = L /\ M' = M
  BY ScopeTwoForms DEF Steady
<1>2. L \subseteq LocationFields /\ M \subseteq ScopeTwo.marketBased
  OBVIOUS
<1>3. IsFiniteSet(L) /\ IsFiniteSet(M)
  BY <1>2, ScopeTwoForms, FS_Subset
<1>4. Cardinality(L) \in Nat /\ Cardinality(M) \in Nat
  BY <1>3, FS_CardinalityType
<1>5. LocationProgress = 250 * Cardinality(L) /\ MarketProgress = 250 * Cardinality(M)
  BY DEF LocationProgress, MarketProgress
<1>6. LocationProgress' = 250 * Cardinality(L) /\ MarketProgress' = 250 * Cardinality(M)
  BY <1>1 DEF LocationProgress, MarketProgress
<1> HIDE DEF L, M
<1>7. LocationProgress' = LocationProgress /\ MarketProgress' = MarketProgress
      /\ 4 * LocationProgress + 4 * MarketProgress \in Nat
  BY <1>4, <1>5, <1>6
<1>8. Scope2Progress \in Nat
  BY <1>7, RoundedGrows DEF Scope2Progress
<1>9. QED
  BY <1>7, <1>8 DEF Scope2Progress

\* The short lists of topics some figures are means over.
LEMMA ListsOfTopics ==
  /\ {"upstream", "downstream"} \in SUBSET Groups
  /\ {"productionVolume", "offshoreSites", "terrestrialSites"} \in SUBSET Groups
  /\ {"securityHumanRights", "communityRelations"} \in SUBSET Groups
  /\ {"criticalIncidentRiskManagement", "legalRegulatoryEnvironment"} \in SUBSET Groups
  /\ {"reservesValuationAndCapitalExpenditures", "businessEthicsAndTransparency"}
        \in SUBSET Groups
BY GroupsAre

\* The figures that are plain averages of topics.
LEMMA PlainAveragesGrow ==
  ASSUME Steady
  PROVE  /\ Scope3Progress \in Nat /\ Scope3Progress' \in Nat
         /\ Scope3Progress <= Scope3Progress'
         /\ FoundationalProgress' \in Nat /\ FoundationalProgress <= FoundationalProgress'
         /\ SocialProgress' \in Nat /\ SocialProgress <= SocialProgress'
         /\ LeadershipProgress' \in Nat /\ LeadershipProgress <= LeadershipProgress'
         /\ BusinessProgress' \in Nat /\ BusinessProgress <= BusinessProgress'
<1>1. /\ Scope3Progress \in Nat /\ Scope3Progress' \in Nat
      /\ Scope3Progress <= Scope3Progress'
  BY AveragesGrow, ListsOfTopics, TwoAreFinite DEF Scope3Progress
<1>2. FoundationalProgress' \in Nat /\ FoundationalProgress <= FoundationalProgress'
  BY AveragesGrow, ListsOfTopics, ThreeAreFinite DEF FoundationalProgress
<1>3. SocialProgress' \in Nat /\ SocialProgress <= SocialProgress'
  BY AveragesGrow, ListsOfTopics, TwoAreFinite DEF SocialProgress
<1>4. LeadershipProgress' \in Nat /\ LeadershipProgress <= LeadershipProgress'
  BY AveragesGrow, ListsOfTopics, TwoAreFinite DEF LeadershipProgress
<1>5. BusinessProgress' \in Nat /\ BusinessProgress <= BusinessProgress'
  BY AveragesGrow, ListsOfTopics, TwoAreFinite DEF BusinessProgress
<1>6. QED
  BY <1>1, <1>2, <1>3, <1>4, <1>5

\* The three scopes stand beside the topics of the environment.
LEMMA ThreeScopes ==
  ASSUME NEW a \in Nat, NEW b \in Nat, NEW c \in Nat
  PROVE  SumFunction(<<a, b, c>>) = a + b + c /\ Len(<<a, b, c>>) = 3
<1> DEFINE t == <<a, b, c>>
<1>1. DOMAIN t = {1, 2, 3} /\ t[1] = a /\ t[2] = b /\ t[3] = c /\ Len(t) = 3
  OBVIOUS
<1> HIDE DEF t
<1>2. IsFiniteSet({1}) /\ IsFiniteSet({1} \cup {2}) /\ IsFiniteSet({}) /\ IsFiniteSet({1, 2})
  BY FS_Singleton, FS_EmptySet, FS_AddElement, TwoAreFinite
<1>3. SumFunctionOnSet(t, {} \cup {1}) = 0 + a
  BY <1>1, <1>2, SumAdd, SumEmpty
<1>4. SumFunctionOnSet(t, {1}) = a /\ {} \cup {1} = {1}
  BY <1>3
<1>5. SumFunctionOnSet(t, {1} \cup {2}) = a + b
  <2>1. 2 \notin {1} /\ t[2] \in Int /\ \A x \in {1} : t[x] \in Int
    BY <1>1
  <2>2. SumFunctionOnSet(t, {1} \cup {2}) = SumFunctionOnSet(t, {1}) + t[2]
    BY <1>2, <2>1, SumAdd
  <2>3. QED
    BY <1>1, <1>4, <2>2
<1>6. SumFunctionOnSet(t, ({1} \cup {2}) \cup {3}) = a + b + c
  <2>1. 3 \notin {1} \cup {2} /\ t[3] \in Int /\ \A x \in {1} \cup {2} : t[x] \in Int
    BY <1>1
  <2>2. SumFunctionOnSet(t, ({1} \cup {2}) \cup {3}) = SumFunctionOnSet(t, {1} \cup {2}) + t[3]
    BY <1>2, <2>1, SumAdd
  <2>3. QED
    BY <1>1, <1>5, <2>2
<1>7. ({1} \cup {2}) \cup {3} = DOMAIN t
  BY <1>1
<1>8. SumFunction(t) = a + b + c
  BY <1>6, <1>7 DEF SumFunction
<1>9. QED
  BY <1>1, <1>8 DEF t

\* The environmental figure does not fall.
LEMMA EnvironmentGrows ==
  ASSUME Steady
  PROVE  EnvironmentalProgress' \in Nat /\ EnvironmentalProgress <= EnvironmentalProgress'
<1> DEFINE S == {g \in EnvironmentTopics : Started(g)}
           f == [g \in S |-> GroupProgress(g)]
           h == [g \in S |-> GroupProgress(g)']
           n == Cardinality(S) + 3
           a == Scope1Progress + Scope2Progress + Scope3Progress
           b == Scope1Progress' + Scope2Progress' + Scope3Progress'
<1>1. IsFiniteSet(S) /\ n \in Nat /\ n # 0
  BY TopicLists, FS_Subset, FS_CardinalityType
<1>2. S' = S
  BY SteadyPresence, TopicLists
<1>3. \A g \in S : f[g] \in Nat /\ h[g] \in Nat /\ f[g] <= h[g]
  BY TopicsGrow, TopicLists DEF Grows
<1>4. DOMAIN f = S /\ DOMAIN h = S
  OBVIOUS
<1>5. a \in Nat /\ b \in Nat /\ a <= b
  BY ScopeOneGrows, ScopeTwoStays, PlainAveragesGrow
<1>6. EnvironmentalProgress = AtMost1000(Rounded(SumFunction(f) + a, n))
  <2>1. /\ SumFunction(<<Scope1Progress, Scope2Progress, Scope3Progress>>) = a
        /\ Len(<<Scope1Progress, Scope2Progress, Scope3Progress>>) = 3
    BY ScopeOneGrows, ScopeTwoStays, PlainAveragesGrow, ThreeScopes
  <2>2. QED
    BY <1>1, <2>1 DEF EnvironmentalProgress, AverageOf
<1>7. EnvironmentalProgress' = AtMost1000(Rounded(SumFunction(h) + b, n))
  <2>1. /\ SumFunction(<<Scope1Progress', Scope2Progress', Scope3Progress'>>) = b
        /\ Len(<<Scope1Progress', Scope2Progress', Scope3Progress'>>) = 3
    BY ScopeOneGrows, ScopeTwoStays, PlainAveragesGrow, ThreeScopes
  <2>2. QED
    BY <1>1, <1>2, <2>1 DEF EnvironmentalProgress, AverageOf
<1> DEFINE p == AtMost1000(Rounded(SumFunction(f) + a, n))
           q == AtMost1000(Rounded(SumFunction(h) + b, n))
<1>8. p \in Nat /\ q \in Nat /\ p <= q
  <2> HIDE DEF S, f, h, a, b
  <2>1. QED
    BY <1>1, <1>3, <1>4, <1>5, MeansGrow
<1> HIDE DEF p, q
<1>9. QED
  BY <1>6, <1>7, <1>8 DEF p, q

\* The weighted figure of human capital does not fall.
LEMMA HumanGrows ==
  ASSUME Steady
  PROVE  HumanProgress' \in Nat /\ HumanProgress <= HumanProgress'
<1> DEFINE S == {g \in DOMAIN HumanWeight : Started(g)}
           x == SumFunction([g \in S |-> GroupProgress(g) * HumanWeight[g]])
           y == SumFunction([g \in S |-> GroupProgress(g)' * HumanWeight[g]])
           w == [g \in S |-> HumanWeight[g]]
<1>1. x \in Nat /\ y \in Nat /\ x <= y /\ IsFiniteSet(S)
  BY TopicLists, WeightsGrow
<1>2. S' = S
  BY TopicLists, SteadyPresence
<1>3. S # {} => SumFunction(w) \in Nat \ {0}
  <2>1. DOMAIN w = S /\ \A g \in S : w[g] \in Nat \ {0}
    BY TopicLists
  <2> HIDE DEF S, w
  <2>2. QED
    BY <1>1, <2>1, SumIsPositive
<1>4. HumanProgress = IF S = {} THEN 0 ELSE Rounded(x, SumFunction(w))
  BY DEF HumanProgress
<1>5. HumanProgress' = IF S = {} THEN 0 ELSE Rounded(y, SumFunction(w))
  BY <1>2 DEF HumanProgress
<1> DEFINE m == SumFunction(w)
<1>6. S # {} => Rounded(x, m) \in Nat /\ Rounded(y, m) \in Nat /\ Rounded(x, m) <= Rounded(y, m)
  <2> HIDE DEF x, y, S, w
  <2>1. S # {} => m \in Nat \ {0}
    BY <1>3
  <2> HIDE DEF m
  <2>2. QED
    BY <1>1, <2>1, RoundedGrows
<1>7. HumanProgress = (IF S = {} THEN 0 ELSE Rounded(x, m))
      /\ HumanProgress' = (IF S = {} THEN 0 ELSE Rounded(y, m))
  BY <1>4, <1>5
<1> HIDE DEF x, y, S, w, m
<1>8. QED
  BY <1>6, <1>7

\* The overall percentage counts submitted topics and none is withdrawn.
LEMMA OverallGrows ==
  ASSUME DataInv, submitted \subseteq submitted', IsFiniteSet(submitted')
  PROVE  OverallProgress <= OverallProgress'
<1> DEFINE n == Cardinality(GroupKeys)
           c == Cardinality(submitted)
           d == Cardinality(submitted')
<1>1. n \in Nat \ {0}
  BY KeysAssumption, FS_CardinalityType, FS_EmptySet
<1>2. c \in Nat /\ d \in Nat /\ c <= d
  BY FS_CardinalityType, FS_Subset DEF DataInv
<1>3. OverallProgress = IF Rounded(10000 * c, n) < 10000 THEN Rounded(10000 * c, n) ELSE 10000
  BY DEF OverallProgress
<1>4. OverallProgress' = IF Rounded(10000 * d, n) < 10000 THEN Rounded(10000 * d, n) ELSE 10000
  BY DEF OverallProgress
<1> HIDE DEF n, c, d
<1>5. 10000 * c \in Nat /\ 10000 * d \in Nat /\ 10000 * c <= 10000 * d
  BY <1>2
<1>6. /\ Rounded(10000 * c, n) \in Nat /\ Rounded(10000 * d, n) \in Nat
      /\ Rounded(10000 * c, n) <= Rounded(10000 * d, n)
  BY <1>1, <1>5, RoundedGrows
<1>7. QED
  BY <1>3, <1>4, <1>6

\* So none of the 32 figures falls.
LEMMA FiguresNeverFall ==
  ASSUME Steady, NEW name \in FigureNames
  PROVE  NotLower(Figure(name), Figure(name)')
<1> USE CountsAssumption
<1>1. CASE name \in Groups
  <2>1. Figure(name) = GroupProgress(name) /\ Figure(name)' = GroupProgress(name)'
    BY <1>1, GroupsAre DEF Figure
  <2>2. QED
    BY <1>1, <2>1, TopicsNeverFall
<1>2. CASE name = "scope1"
  BY <1>2, ScopeOneGrows DEF Figure, NotLower
<1>3. CASE name = "scope2"
  <2>1. Figure(name) = Scope2Progress /\ Figure(name)' = Scope2Progress'
    BY <1>3 DEF Figure
  <2>2. QED
    BY <2>1, ScopeTwoStays DEF NotLower
<1>4. CASE name = "scope3"
  <2>1. Figure(name) = Scope3Progress /\ Figure(name)' = Scope3Progress'
    BY <1>4 DEF Figure
  <2>2. QED
    BY <2>1, PlainAveragesGrow DEF NotLower
<1>5. CASE name = "environment"
  <2>1. Figure(name) = EnvironmentalProgress /\ Figure(name)' = EnvironmentalProgress'
    BY <1>5 DEF Figure
  <2>2. QED
    BY <2>1, EnvironmentGrows DEF NotLower
<1>6. CASE name = "foundational"
  <2>1. Figure(name) = FoundationalProgress /\ Figure(name)' = FoundationalProgress'
    BY <1>6 DEF Figure
  <2>2. QED
    BY <2>1, PlainAveragesGrow DEF NotLower
<1>7. CASE name = "social"
  <2>1. Figure(name) = SocialProgress /\ Figure(name)' = SocialProgress'
    BY <1>7 DEF Figure
  <2>2. QED
    BY <2>1, PlainAveragesGrow DEF NotLower
<1>8. CASE name = "human"
  <2>1. Figure(name) = HumanProgress /\ Figure(name)' = HumanProgress'
    BY <1>8 DEF Figure
  <2>2. QED
    BY <2>1, HumanGrows DEF NotLower
<1>9. CASE name = "business"
  <2>1. Figure(name) = BusinessProgress /\ Figure(name)' = BusinessProgress'
    BY <1>9 DEF Figure
  <2>2. QED
    BY <2>1, PlainAveragesGrow DEF NotLower
<1>10. CASE name = "leadership"
  <2>1. Figure(name) = LeadershipProgress /\ Figure(name)' = LeadershipProgress'
    BY <1>10 DEF Figure
  <2>2. QED
    BY <2>1, PlainAveragesGrow DEF NotLower
<1>11. QED
  BY <1>1, <1>2, <1>3, <1>4, <1>5, <1>6, <1>7, <1>8, <1>9, <1>10 DEF FigureNames

(***************************************************************************)
(* FillingNeverLowers: whatever the document holds, no save that leaves    *)
(* more in the forms that are there, and no submission, lowers one of the  *)
(* 32 progress figures or the overall percentage.  The copies do not move, *)
(* the same forms are expected, and every mean, cap and rounding between   *)
(* a count and a figure is monotone.  recalculate.                         *)
(***************************************************************************)
THEOREM FillingIsSafe == DocumentSpec => FillingNeverLowers
<1> DEFINE Lowers == (Filling \/ submitted' # submitted) =>
                        /\ \A name \in FigureNames : NotLower(Figure(name), Figure(name)')
                        /\ OverallProgress <= OverallProgress'
<1>1. DataInv /\ [Edit]_allVars => [Lowers]_vars
  <2> SUFFICES ASSUME DataInv, [Edit]_allVars, vars' # vars PROVE Lowers
    OBVIOUS
  <2>1. Next
    BY DEF Edit, allVars, SaveQuantities, SaveSafety, SaveFigure, StoreReport, vars
  <2> SUFFICES ASSUME Filling \/ submitted' # submitted
               PROVE  /\ \A name \in FigureNames : NotLower(Figure(name), Figure(name)')
                      /\ OverallProgress <= OverallProgress'
    OBVIOUS
  <2>2. Steady
    BY <2>1, FillingKeepsForms DEF Steady
  <2>3. OverallProgress <= OverallProgress'
    BY <2>1, StepsRecalculate, OverallGrows
  <2>4. QED
    BY <2>2, <2>3, FiguresNeverFall
<1> HIDE DEF Lowers
<1>2. DocumentSpec => [][Lowers]_vars
  BY <1>1, DocumentInvariance, PTL DEF DocumentSpec
<1>3. QED
  BY <1>2 DEF FillingNeverLowers, Lowers

-----------------------------------------------------------------------------
(* The report against the document.                                         *)

LEMMA SumOfScopes ==
  ASSUME NEW f, \A sc \in R!Scopes : f[sc] \in Nat
  PROVE  SumFunctionOnSet(f, R!Scopes) = f["scope1"] + f["scope2"] + f["scope3"]
<1>1. f["scope1"] \in Int /\ f["scope2"] \in Int /\ f["scope3"] \in Int
  BY ScopesAre
<1> DEFINE one == {} \cup {"scope1"}
           two == one \cup {"scope2"}
           three == two \cup {"scope3"}
<1>2. IsFiniteSet({}) /\ IsFiniteSet(one) /\ IsFiniteSet(two)
  BY FS_EmptySet, FS_AddElement
<1>3. /\ "scope1" \notin {} /\ "scope2" \notin one /\ "scope3" \notin two
      /\ (\A x \in {} : f[x] \in Int) /\ (\A x \in one : f[x] \in Int)
      /\ \A x \in two : f[x] \in Int
  BY <1>1
<1>4. SumFunctionOnSet(f, one) = SumFunctionOnSet(f, {}) + f["scope1"]
  BY <1>1, <1>2, <1>3, SumAdd
<1>5. three = R!Scopes
  BY ScopesAre
<1> HIDE DEF one
<1>6. SumFunctionOnSet(f, two) = SumFunctionOnSet(f, one) + f["scope2"]
  BY <1>1, <1>2, <1>3, SumAdd
<1> HIDE DEF two
<1>7. SumFunctionOnSet(f, three) = SumFunctionOnSet(f, two) + f["scope3"]
  BY <1>1, <1>2, <1>3, SumAdd
<1> HIDE DEF three
<1>8. QED
  BY <1>1, <1>4, <1>5, <1>6, <1>7, SumEmpty

\* The first positive of three figures, or the first.
LEMMA FirstIs ==
  ASSUME NEW a \in Nat, NEW b \in Nat, NEW c \in Nat
  PROVE  R!FirstPositive(<<a, b, c>>) =
           IF a > 0 THEN a ELSE IF b > 0 THEN b ELSE IF c > 0 THEN c ELSE a
<1> DEFINE t == <<a, b, c>>
           found == {i \in DOMAIN t : t[i] > 0}
<1>1. DOMAIN t = {1, 2, 3} /\ t[1] = a /\ t[2] = b /\ t[3] = c
  OBVIOUS
<1>2. R!FirstPositive(t) = IF found = {} THEN t[1] ELSE t[R!Min(found)]
  BY DEF R!FirstPositive
<1>3. \A i \in {1, 2, 3} : i \in found <=> t[i] > 0
  BY <1>1
<1>4. found \subseteq {1, 2, 3}
  BY <1>1
<1> HIDE DEF found, t
<1>5. ASSUME NEW m \in found, \A i \in found : m <= i PROVE R!Min(found) = m
  <2>1. \A i \in found : i \in Int
    BY <1>4
  <2>2. \E x \in found : \A y \in found : x <= y
    BY <1>5
  <2> DEFINE x == R!Min(found)
  <2>3. x \in found /\ \A y \in found : x <= y
    BY <2>2 DEF R!Min
  <2> HIDE DEF x
  <2>4. x = m
    BY <1>5, <2>1, <2>3
  <2>5. QED
    BY <2>4 DEF x
<1>6. CASE a > 0
  <2>1. 1 \in found /\ \A i \in found : 1 <= i
    BY <1>1, <1>3, <1>4, <1>6
  <2>2. R!Min(found) = 1
    BY <1>5, <2>1
  <2>3. QED
    BY <1>1, <1>2, <1>6, <2>1, <2>2 DEF t
<1>7. CASE ~(a > 0) /\ b > 0
  <2>1. 2 \in found /\ \A i \in found : 2 <= i
    BY <1>1, <1>3, <1>4, <1>7
  <2>2. R!Min(found) = 2
    BY <1>5, <2>1
  <2>3. QED
    BY <1>1, <1>2, <1>7, <2>1, <2>2 DEF t
<1>8. CASE ~(a > 0) /\ ~(b > 0) /\ c > 0
  <2>1. 3 \in found /\ \A i \in found : 3 <= i
    BY <1>1, <1>3, <1>4, <1>8
  <2>2. R!Min(found) = 3
    BY <1>5, <2>1
  <2>3. QED
    BY <1>1, <1>2, <1>8, <2>1, <2>2 DEF t
<1>9. CASE ~(a > 0) /\ ~(b > 0) /\ ~(c > 0)
  <2>1. found = {}
    BY <1>1, <1>3, <1>4, <1>9
  <2>2. QED
    BY <1>1, <1>2, <1>9, <2>1 DEF t
<1>10. QED
  BY <1>6, <1>7, <1>8, <1>9

\* What is shown of a scope is a whole number of ticks, or less than half of one.
LEMMA ShownScopeIs ==
  ASSUME NumbersInv, NEW sc \in R!Scopes
  PROVE  LET shown == R!ShownScope(quantities, columns, sc)
         IN  /\ shown \in Nat
             /\ shown % 1000 = 0 \/ shown < 500
             /\ R!ScopeEmission(quantities, sc) > 0 =>
                    shown = R!ScopeEmission(quantities, sc)
<1> DEFINE a == R!ScopeEmission(quantities, sc)
           b == R!RawScope(quantities, sc)
           c == IF columns = NoReport THEN 0 ELSE columns[sc]
<1>1. quantities \in [R!Sources -> Seq(AnyEntry)]
  BY DEF NumbersInv
<1>2. a \in Nat /\ a % 1000 = 0 /\ b - a <= 499
  BY <1>1, ScopeEmissionIs
<1>3. b \in Nat
  BY <1>1, RawScopeIsNat
<1>4. c \in Nat /\ c % 1000 = 0
  <2>1. CASE columns = NoReport
    BY <2>1
  <2>2. CASE columns # NoReport
    BY <2>2, TickIs DEF NumbersInv
  <2>3. QED
    BY <2>1, <2>2
<1>5. R!ShownScope(quantities, columns, sc) = R!FirstPositive(<<a, b, c>>)
  BY DEF R!ShownScope, R!OfGroups
<1> HIDE DEF a, b, c
<1>6. R!ShownScope(quantities, columns, sc) =
          IF a > 0 THEN a ELSE IF b > 0 THEN b ELSE IF c > 0 THEN c ELSE a
  BY <1>2, <1>3, <1>4, <1>5, FirstIs
<1>7. QED
  BY <1>2, <1>3, <1>4, <1>6 DEF a

SharesAreWhole(k1, k2, k3, n) ==
  (k1 * 1000) \div n + (k2 * 1000) \div n + (k3 * 1000) \div n \in 998..1000

\* Shares in tenths of a percent, of three parts of a whole.
LEMMA SharesAddUp ==
  ASSUME NEW k1 \in Nat, NEW k2 \in Nat, NEW k3 \in Nat, NEW n \in Nat \ {0},
         k1 + k2 + k3 = n
  PROVE  SharesAreWhole(k1, k2, k3, n)
<1> DEFINE q1 == (k1 * 1000) \div n
           q2 == (k2 * 1000) \div n
           q3 == (k3 * 1000) \div n
           s == q1 + q2 + q3
<1>1. k1 * 1000 \in Nat /\ k2 * 1000 \in Nat /\ k3 * 1000 \in Nat
  OBVIOUS
<1>2. /\ q1 \in Nat /\ n * q1 <= k1 * 1000 /\ k1 * 1000 < n * q1 + n
      /\ q2 \in Nat /\ n * q2 <= k2 * 1000 /\ k2 * 1000 < n * q2 + n
      /\ q3 \in Nat /\ n * q3 <= k3 * 1000 /\ k3 * 1000 < n * q3 + n
  BY <1>1, Quotient
<1> HIDE DEF q1, q2, q3
<1>3. n * s = n * q1 + n * q2 + n * q3 /\ s \in Nat
  BY <1>2
<1>4. n * s <= n * 1000 /\ n * 1000 < n * s + 3 * n
  BY <1>2, <1>3
<1> HIDE DEF s
<1>5. s <= 1000
  <2>1. SUFFICES ASSUME 1001 <= s PROVE FALSE
    BY <1>3
  <2>2. n * 1001 <= n * s
    BY <1>3, <2>1
  <2>3. QED
    BY <1>3, <1>4, <2>2
<1>6. 998 <= s
  <2>1. SUFFICES ASSUME s <= 997 PROVE FALSE
    BY <1>3
  <2>2. n * s <= n * 997
    BY <1>3, <2>1
  <2>3. QED
    BY <1>3, <1>4, <2>2
<1>7. QED
  BY <1>3, <1>5, <1>6 DEF s, q1, q2, q3, SharesAreWhole

InUnits(p1, p2, p3, w, u) ==
  /\ p1 \div u \in Nat /\ p2 \div u \in Nat /\ p3 \div u \in Nat
  /\ w \div u \in Nat \ {0}
  /\ p1 \div u + p2 \div u + p3 \div u = w \div u

\* The three parts in the unit of the whole are the whole in that unit.
LEMMA UnitsAddUp ==
  ASSUME NEW p1 \in Nat, NEW p2 \in Nat, NEW p3 \in Nat, NEW w \in Nat \ {0}, p1 + p2 + p3 = w,
         p1 % 1000 = 0 \/ p1 < 500, p2 % 1000 = 0 \/ p2 < 500, p3 % 1000 = 0 \/ p3 < 500
  PROVE  InUnits(p1, p2, p3, w, R!UnitFor(w))
<1>1. CASE w <= 100000
  <2>1. R!UnitFor(w) = 1
    BY <1>1, TickIs DEF R!UnitFor
  <2>2. p1 \div 1 = p1 /\ p2 \div 1 = p2 /\ p3 \div 1 = p3 /\ w \div 1 = w
    OBVIOUS
  <2>3. QED
    BY <2>1, <2>2 DEF InUnits
<1>2. CASE 100000 < w
  <2>1. R!UnitFor(w) = 1000
    BY <1>2, TickIs DEF R!UnitFor
  <2> DEFINE k1 == p1 \div 1000
             k2 == p2 \div 1000
             k3 == p3 \div 1000
             n  == w \div 1000
  <2>2. p1 % 1000 = 0 \/ p1 < 500
    OBVIOUS
  <2>3. p2 % 1000 = 0 \/ p2 < 500
    OBVIOUS
  <2>4. p3 % 1000 = 0 \/ p3 < 500
    OBVIOUS
  <2>5. /\ k1 \in Nat /\ (p1 = 1000 * k1 \/ p1 < 500) /\ 1000 * k1 <= p1 /\ p1 < 1000 * k1 + 1000
        /\ k2 \in Nat /\ (p2 = 1000 * k2 \/ p2 < 500) /\ 1000 * k2 <= p2 /\ p2 < 1000 * k2 + 1000
        /\ k3 \in Nat /\ (p3 = 1000 * k3 \/ p3 < 500) /\ 1000 * k3 <= p3 /\ p3 < 1000 * k3 + 1000
    BY <2>2, <2>3, <2>4
  <2>6. n \in Nat /\ 1000 * n <= w /\ w < 1000 * n + 1000
    OBVIOUS
  <2> HIDE DEF k1, k2, k3, n, InUnits
  <2>7. n # 0 /\ k1 + k2 + k3 = n
    BY <1>2, <2>5, <2>6
  <2>8. QED
    BY <2>1, <2>5, <2>6, <2>7 DEF k1, k2, k3, n, InUnits
<1>3. QED
  BY <1>1, <1>2

\* A share, in tenths of a percent, of a positive whole.
LEMMA ShareIs ==
  ASSUME NEW p, NEW w \in Nat \ {0}
  PROVE  R!Share(p, w) = ((p \div R!UnitFor(w)) * 1000) \div (w \div R!UnitFor(w))
BY DEF R!Share

\* A document without quantities emits nothing.
LEMMA NothingEmitted ==
  /\ \A s \in R!Sources : R!Emission(NoQuantities, s) = 0
  /\ \A sc \in R!Scopes : R!RawScope(NoQuantities, sc) = 0
  /\ R!RawTotal(NoQuantities) = 0
<1>1. NoQuantities \in [R!Sources -> Seq(AnyEntry)]
  BY DEF NoQuantities
<1>2. R!ToFixed4(0) = 0
  BY TickIs DEF R!ToFixed4
<1>3. ASSUME NEW s \in R!Sources PROVE R!Emission(NoQuantities, s) = 0
  <2> DEFINE f == [i \in DOMAIN NoQuantities[s] |->
                      R!EntryEmission(NoQuantities, s, NoQuantities[s][i])]
  <2>1. DOMAIN NoQuantities[s] = {}
    BY DEF NoQuantities
  <2>2. DOMAIN f = {}
    BY <2>1
  <2>3. R!SumFunction(f) = 0
    <3> HIDE DEF f
    <3>1. QED
      BY <2>2, SumEmpty, SumInReporting DEF R!SumFunction
  <2>4. R!Emission(NoQuantities, s) = IF s \in R!Fuels THEN R!ToFixed4(R!SumFunction(f))
                                      ELSE R!SumFunction(f)
    BY DEF R!Emission
  <2> HIDE DEF f
  <2>5. QED
    BY <1>2, <2>3, <2>4
<1>4. ASSUME NEW g \in R!Groups PROVE R!GroupEmission(NoQuantities, g) = 0
  <2> DEFINE f == [i \in DOMAIN R!SourcesOf[g] |-> R!Emission(NoQuantities, R!SourcesOf[g][i])]
  <2>1. R!GroupEmission(NoQuantities, g) = SumFunctionOnSet(f, DOMAIN R!SourcesOf[g])
    BY <1>1, GroupEmissionIs
  <2>2. \A i \in DOMAIN R!SourcesOf[g] : f[i] = 0
    BY <1>3, SequencesOfSources
  <2> HIDE DEF f
  <2>3. QED
    BY <2>1, <2>2, SequencesOfSources, SumZero
<1>5. ASSUME NEW sc \in R!Scopes PROVE R!RawScope(NoQuantities, sc) = 0
  <2> DEFINE f == [g \in R!GroupsOf[sc] |-> R!GroupEmission(NoQuantities, g)]
  <2>1. DOMAIN f = R!GroupsOf[sc] /\ \A g \in R!GroupsOf[sc] : f[g] = 0
    BY <1>4, ScopesAre
  <2>2. R!RawScope(NoQuantities, sc) = R!SumFunction(f)
    BY DEF R!RawScope
  <2> HIDE DEF f
  <2>3. SumFunctionOnSet(f, R!GroupsOf[sc]) = 0
    BY <2>1, ScopesAre, SumZero
  <2>4. QED
    BY <2>1, <2>2, <2>3, SumInReporting DEF R!SumFunction
<1>6. R!RawTotal(NoQuantities) = 0
  <2> DEFINE f == [sc \in R!Scopes |-> R!RawScope(NoQuantities, sc)]
  <2>1. R!RawTotal(NoQuantities) = SumFunctionOnSet(f, R!Scopes)
    BY <1>1, RawTotalIs
  <2>2. \A sc \in R!Scopes : f[sc] = 0
    BY <1>5
  <2> HIDE DEF f
  <2>3. QED
    BY <2>1, <2>2, ScopesAre, SumZero
<1>7. QED
  BY <1>3, <1>5, <1>6

\* So a previous assessment with nothing in it has total zero,
LEMMA NothingBefore == R!PreviousTotal(NoQuantities) = 0
<1>1. R!ToFixed4(0) = 0
  BY TickIs DEF R!ToFixed4
<1>2. \A sc \in R!Scopes : R!ScopeEmission(NoQuantities, sc) = 0
  BY <1>1, NothingEmitted DEF R!ScopeEmission
<1>3. R!FirstPositive(<<0, 0>>) = 0
  <2> DEFINE t == <<0, 0>>
  <2>1. DOMAIN t = {1, 2} /\ t[1] = 0 /\ t[2] = 0
    OBVIOUS
  <2>2. {i \in DOMAIN t : t[i] > 0} = {}
    BY <2>1
  <2>3. R!FirstPositive(t) = IF {i \in DOMAIN t : t[i] > 0} = {} THEN t[1]
                             ELSE t[R!Min({i \in DOMAIN t : t[i] > 0})]
    BY DEF R!FirstPositive
  <2> HIDE DEF t
  <2>4. R!FirstPositive(t) = 0
    BY <2>1, <2>2, <2>3
  <2>5. QED
    BY <2>4 DEF t
<1> DEFINE f == [sc \in R!Scopes |-> R!PreviousScope(NoQuantities, sc)]
<1>4. DOMAIN f = R!Scopes /\ \A sc \in R!Scopes : f[sc] = 0
  BY <1>2, <1>3, NothingEmitted DEF R!PreviousScope, R!OfGroups
<1>5. R!PreviousTotal(NoQuantities) =
          IF R!SumFunction(f) > 0 THEN R!SumFunction(f) ELSE R!TotalEmission(NoQuantities)
  BY DEF R!PreviousTotal
<1> HIDE DEF f
<1>6. SumFunctionOnSet(f, R!Scopes) = 0
  BY <1>4, ScopesAre, SumZero
<1>7. R!SumFunction(f) = 0
  BY <1>4, <1>6, SumInReporting DEF R!SumFunction
<1>8. R!TotalEmission(NoQuantities) = 0
  BY <1>1, NothingEmitted DEF R!TotalEmission
<1>9. QED
  BY <1>5, <1>7, <1>8

\* and against a total of zero no trend is shown.
LEMMA NoTrend == \A total : R!Change(total, 0) = None
<1>1. R!UnitFor(0) = 1 /\ 0 \div 1 = 0
  BY TickIs DEF R!UnitFor
<1>2. QED
  BY <1>1 DEF R!Change

\* The report as a function of the document and the figures entered.
LEMMA ReportIsOfDocument == NumbersInv => ReportFollowsDocument
<1> SUFFICES ASSUME NumbersInv PROVE ReportFollowsDocument
  OBVIOUS
<1> DEFINE shown == [sc \in R!Scopes |-> R!ShownScope(quantities, columns, sc)]
           sum   == SumFunction(shown)
           total == R!ShownTotal(quantities, columns)
           shares == [sc \in R!Scopes |-> R!Share(shown[sc], total)]
           part  == SumFunction(shares)
           trend == R!Change(total, R!PreviousTotal(previous))
<1>1. DOMAIN shown = R!Scopes
      /\ \A sc \in R!Scopes : shown[sc] = R!ShownScope(quantities, columns, sc)
  OBVIOUS
<1>2. \A sc \in R!Scopes : /\ shown[sc] \in Nat
                           /\ shown[sc] % 1000 = 0 \/ shown[sc] < 500
  BY <1>1, ShownScopeIs
<1>3. \A sc \in R!Scopes :
          R!ScopeEmission(quantities, sc) > 0 => shown[sc] = R!ScopeEmission(quantities, sc)
  BY <1>1, ShownScopeIs
<1>4. total = IF R!SumFunction(shown) > 0 THEN R!SumFunction(shown)
              ELSE IF columns # NoReport THEN columns.total ELSE R!TotalEmission(quantities)
  BY DEF R!ShownTotal
<1>5. DOMAIN shares = R!Scopes /\ \A sc \in R!Scopes : shares[sc] = R!Share(shown[sc], total)
  OBVIOUS
<1> HIDE DEF shown, total, shares
<1>6. sum = SumFunctionOnSet(shown, R!Scopes) /\ R!SumFunction(shown) = sum
  BY <1>1, SumInReporting DEF SumFunction, R!SumFunction
<1> DEFINE p1 == shown["scope1"]
           p2 == shown["scope2"]
           p3 == shown["scope3"]
<1>7. sum = p1 + p2 + p3
  BY <1>2, <1>6, SumOfScopes
<1>8. /\ p1 \in Nat /\ (p1 % 1000 = 0 \/ p1 < 500)
      /\ p2 \in Nat /\ (p2 % 1000 = 0 \/ p2 < 500)
      /\ p3 \in Nat /\ (p3 % 1000 = 0 \/ p3 < 500)
  BY <1>2, ScopesAre
<1>9. "scope1" \in R!Scopes /\ "scope2" \in R!Scopes /\ "scope3" \in R!Scopes
  BY ScopesAre
<1>10. part = SumFunctionOnSet(shares, R!Scopes)
  BY <1>5 DEF SumFunction
<1> HIDE DEF sum, part
<1>11. ASSUME sum > 0 PROVE total = sum /\ part \in 998..1000
  <2>1. total = sum
    BY <1>4, <1>6, <1>11
  <2>2. total \in Nat \ {0} /\ p1 + p2 + p3 = total
    BY <1>7, <1>8, <1>11, <2>1
  <2> DEFINE u == R!UnitFor(total)
             k1 == p1 \div u
             k2 == p2 \div u
             k3 == p3 \div u
             n  == total \div u
  <2>3. /\ shares["scope1"] = (k1 * 1000) \div n
        /\ shares["scope2"] = (k2 * 1000) \div n
        /\ shares["scope3"] = (k3 * 1000) \div n
    BY <1>5, <1>9, <2>2, ShareIs
  <2> HIDE DEF p1, p2, p3
  <2>12. InUnits(p1, p2, p3, total, u)
    BY <1>8, <2>2, UnitsAddUp
  <2>4. k1 \in Nat /\ k2 \in Nat /\ k3 \in Nat /\ n \in Nat \ {0} /\ k1 + k2 + k3 = n
    BY <2>12 DEF InUnits
  <2> HIDE DEF k1, k2, k3, n
  <2>5. SharesAreWhole(k1, k2, k3, n)
    BY <2>4, SharesAddUp
  <2>6. \A sc \in R!Scopes : shares[sc] \in Nat
    <3>1. /\ (k1 * 1000) \div n \in Nat /\ (k2 * 1000) \div n \in Nat
          /\ (k3 * 1000) \div n \in Nat
      BY <2>4, Quotient
    <3>2. QED
      BY <2>3, <3>1, ScopesAre
  <2>7. part = shares["scope1"] + shares["scope2"] + shares["scope3"]
    BY <1>10, <2>6, SumOfScopes
  <2>8. QED
    BY <2>1, <2>3, <2>5, <2>7 DEF SharesAreWhole
<1>12. previous = NoQuantities => trend = None
  BY NothingBefore, NoTrend
<1> HIDE DEF trend
<1>13. QED
  BY <1>3, <1>11, <1>12 DEF ReportFollowsDocument, shown, sum, total, shares, part, trend

(***************************************************************************)
(* ReportFollowsDocument: whatever was saved after the columns were        *)
(* stored, a report shows the document's own scopes, their sum as the      *)
(* total, and shares between 99.8% and 100%; against a previous assessment *)
(* with nothing in it there is no trend.  Each scope is shown in whole     *)
(* ticks or is less than half a tick, which is why cutting the shares off  *)
(* loses at most two tenths of a percent.  getReport.                      *)
(***************************************************************************)
THEOREM ReportsAreCurrent == DocumentSpec => []ReportFollowsDocument
BY DocumentInvariance, ReportIsOfDocument, PTL

-----------------------------------------------------------------------------
(* The score is monotone.                                                   *)

\* A smaller fraction has a smaller whole part.
LEMMA FractionMonotone ==
  ASSUME NEW a \in Nat, NEW b \in Nat \ {0}, NEW c \in Nat, NEW e \in Nat \ {0}, c * b <= a * e
  PROVE  c \div e <= a \div b
<1> DEFINE q == c \div e
           r == a \div b
<1>1. q \in Nat /\ r \in Nat /\ e * q <= c /\ a < b * r + b
  BY Quotient
<1> HIDE DEF q, r
<1>2. q <= r
  <2>1. SUFFICES ASSUME r + 1 <= q PROVE FALSE
    BY <1>1
  <2> DEFINE x == e * q
             y == b * (r + 1)
             z == b * q
  <2>2. x \in Nat /\ y \in Nat /\ z \in Nat /\ x <= c /\ a + 1 <= y
    BY <1>1
  <2>3. y <= z
    BY <1>1, <2>1
  <2>4. x * b = z * e
    BY <1>1
  <2> HIDE DEF x, y, z
  <2>5. x * b <= c * b
    BY <2>2
  <2>6. (a + 1) * e <= y * e
    BY <2>2
  <2>7. y * e <= z * e
    BY <2>2, <2>3
  <2>8. (a + 1) * e = a * e + e
    OBVIOUS
  <2>9. a * e \in Nat /\ c * b \in Nat /\ x * b \in Nat /\ y * e \in Nat /\ z * e \in Nat
    BY <2>2
  <2>10. QED
    BY <2>4, <2>5, <2>6, <2>7, <2>8, <2>9
<1>3. QED
  BY <1>2 DEF q, r

\* Of two values of the same divisor the one further from the target scores no more.
LEMMA InterpolateFalls ==
  ASSUME NEW q, NEW r, IsRatio(q), IsRatio(r), q[2] = r[2], q[1] <= r[1],
         NEW t \in Nat, NEW w \in Nat, t < w, NEW d \in Nat
  PROVE  Interpolate(r, t, w, d) <= Interpolate(q, t, w, d)
<1> DEFINE v  == d * q[1]
           u  == d * r[1]
           wx == w * q[2]
           tx == t * q[2]
           l  == (w - t) * q[2]
<1>1. v \in Nat /\ u \in Nat /\ wx \in Nat /\ tx \in Nat
  BY DEF IsRatio
<1>2. v <= u
  BY DEF IsRatio
<1>3. l \in Nat \ {0} /\ l = wx - tx
  BY Stretch DEF IsRatio
<1>4. Interpolate(q, t, w, d) =
          IF v >= wx THEN 0 ELSE IF tx >= v THEN Full ELSE (Full * (wx - v)) \div l
  BY InterpolateIs
<1>5. Interpolate(r, t, w, d) =
          IF u >= wx THEN 0 ELSE IF tx >= u THEN Full ELSE (Full * (wx - u)) \div l
  BY InterpolateIs
<1>6. Interpolate(q, t, w, d) \in Nat /\ Interpolate(r, t, w, d) \in Nat
      /\ Interpolate(r, t, w, d) <= Full
  <2>1. t # w
    OBVIOUS
  <2>2. Interpolate(q, t, w, d) \in Score /\ Interpolate(r, t, w, d) \in Score
    <3> HIDE DEF v, u, wx, tx, l
    <3>1. QED
      BY <2>1, InterpolateIsScore
  <2>3. QED
    BY <2>2, ScoreIs, FullIs
<1> HIDE DEF v, u, wx, tx, l
<1>7. CASE ~(u >= wx) /\ ~(tx >= v)
  <2>1. ~(v >= wx) /\ ~(tx >= u)
    BY <1>1, <1>2, <1>7
  <2>2. Full * (wx - u) \in Nat /\ Full * (wx - v) \in Nat /\ Full * (wx - u) <= Full * (wx - v)
    BY <1>1, <1>2, <1>7, <2>1, FullIs
  <2>3. (Full * (wx - u)) \div l <= (Full * (wx - v)) \div l
    BY <1>3, <2>2, QuotientMonotone
  <2>4. QED
    BY <1>4, <1>5, <1>7, <2>1, <2>3
<1>8. CASE u >= wx
  BY <1>5, <1>6, <1>8
<1>9. CASE tx >= v /\ ~(u >= wx)
  BY <1>1, <1>2, <1>4, <1>6, <1>9
<1>10. QED
  BY <1>7, <1>8, <1>9

\* Where more is better, the value nearer the target scores no less.
LEMMA InterpolateRises ==
  ASSUME NEW q, NEW r, IsRatio(q), IsRatio(r), q[2] = r[2], q[1] <= r[1],
         NEW t \in Nat, NEW w \in Nat, w < t, NEW d \in Nat
  PROVE  Interpolate(q, t, w, d) <= Interpolate(r, t, w, d)
<1> DEFINE v  == d * q[1]
           u  == d * r[1]
           wx == w * q[2]
           tx == t * q[2]
           l  == (t - w) * q[2]
<1>1. v \in Nat /\ u \in Nat /\ wx \in Nat /\ tx \in Nat
  BY DEF IsRatio
<1>2. v <= u
  BY DEF IsRatio
<1>3. l \in Nat \ {0} /\ l = tx - wx
  BY Stretch DEF IsRatio
<1>4. ~(t < w)
  OBVIOUS
<1>5. Interpolate(q, t, w, d) =
          IF v <= wx THEN 0 ELSE IF tx <= v THEN Full ELSE (Full * (v - wx)) \div l
  BY <1>4, InterpolateIs
<1>6. Interpolate(r, t, w, d) =
          IF u <= wx THEN 0 ELSE IF tx <= u THEN Full ELSE (Full * (u - wx)) \div l
  BY <1>4, InterpolateIs
<1>7. Interpolate(q, t, w, d) \in Nat /\ Interpolate(r, t, w, d) \in Nat
      /\ Interpolate(q, t, w, d) <= Full
  <2>1. t # w
    OBVIOUS
  <2>2. Interpolate(q, t, w, d) \in Score /\ Interpolate(r, t, w, d) \in Score
    <3> HIDE DEF v, u, wx, tx, l
    <3>1. QED
      BY <2>1, InterpolateIsScore
  <2>3. QED
    BY <2>2, ScoreIs, FullIs
<1> HIDE DEF v, u, wx, tx, l
<1>8. CASE ~(v <= wx) /\ ~(tx <= u)
  <2>1. ~(u <= wx) /\ ~(tx <= v)
    BY <1>1, <1>2, <1>8
  <2>2. Full * (v - wx) \in Nat /\ Full * (u - wx) \in Nat /\ Full * (v - wx) <= Full * (u - wx)
    BY <1>1, <1>2, <1>8, <2>1, FullIs
  <2>3. (Full * (v - wx)) \div l <= (Full * (u - wx)) \div l
    BY <1>3, <2>2, QuotientMonotone
  <2>4. QED
    BY <1>5, <1>6, <1>8, <2>1, <2>3
<1>9. CASE v <= wx
  BY <1>5, <1>7, <1>9
<1>10. CASE tx <= u /\ ~(v <= wx)
  BY <1>1, <1>2, <1>6, <1>7, <1>10
<1>11. QED
  BY <1>8, <1>9, <1>10

\* With more to share it the same value scores no less, when the target is nothing.
LEMMA SharedFalls ==
  ASSUME NEW n \in Nat, NEW x \in Nat \ {0}, NEW y \in Nat \ {0}, y <= x,
         NEW w \in Nat \ {0}, NEW d \in Nat
  PROVE  Interpolate(<<n, y>>, 0, w, d) <= Interpolate(<<n, x>>, 0, w, d)
<1> DEFINE e == d * n
           k == w * x
           l == w * y
           q == <<n, x>>
           r == <<n, y>>
<1>1. /\ q[1] = n /\ q[2] = x /\ r[1] = n /\ r[2] = y /\ IsRatio(q) /\ IsRatio(r)
  BY DEF IsRatio
<1>2. k \in Nat \ {0} /\ l \in Nat \ {0} /\ l <= k
  OBVIOUS
<1>3. 0 < w /\ 0 # w /\ 0 \in Nat /\ e \in Nat
  OBVIOUS
<1>4. Interpolate(q, 0, w, d) =
          IF e >= k THEN 0 ELSE IF 0 >= e THEN Full ELSE (Full * (k - e)) \div k
  <2>1. d * q[1] = e /\ w * q[2] = k /\ 0 * q[2] = 0 /\ (w - 0) * q[2] = k
    BY <1>1
  <2> HIDE DEF e, k, q
  <2>2. QED
    BY <1>3, <2>1, InterpolateIs
<1>5. Interpolate(r, 0, w, d) =
          IF e >= l THEN 0 ELSE IF 0 >= e THEN Full ELSE (Full * (l - e)) \div l
  <2>1. d * r[1] = e /\ w * r[2] = l /\ 0 * r[2] = 0 /\ (w - 0) * r[2] = l
    BY <1>1
  <2> HIDE DEF e, l, r
  <2>2. QED
    BY <1>3, <2>1, InterpolateIs
<1> HIDE DEF e, k, l, q, r
<1>6. Interpolate(q, 0, w, d) \in Nat /\ Interpolate(r, 0, w, d) \in Nat
  <2>1. Interpolate(q, 0, w, d) \in Score /\ Interpolate(r, 0, w, d) \in Score
    BY <1>1, <1>3, InterpolateIsScore
  <2>2. QED
    BY <2>1, ScoreIs
<1>7. CASE ~(e >= l) /\ ~(0 >= e)
  <2>1. ~(e >= k)
    BY <1>2, <1>3, <1>7
  <2> DEFINE a == Full * (k - e)
             c == Full * (l - e)
  <2>2. a \in Nat /\ c \in Nat
    BY <1>2, <1>3, <1>7, <2>1, FullIs
  <2>3. c * k <= a * l
    <3>1. e * l <= e * k
      BY <1>2, <1>3
    <3>2. (l - e) * k = l * k - e * k /\ (k - e) * l = k * l - e * l
      BY <1>2, <1>3
    <3>3. (l - e) * k <= (k - e) * l
      BY <1>2, <1>3, <3>1, <3>2
    <3>4. 10000 * ((l - e) * k) <= 10000 * ((k - e) * l)
      BY <1>2, <1>3, <3>3
    <3>5. c * k = 10000 * ((l - e) * k) /\ a * l = 10000 * ((k - e) * l)
      BY <1>2, <1>3, FullIs
    <3>6. QED
      BY <3>4, <3>5
  <2> HIDE DEF a, c
  <2>4. c \div l <= a \div k
    BY <1>2, <2>2, <2>3, FractionMonotone
  <2>5. QED
    BY <1>2, <1>3, <1>4, <1>5, <1>7, <2>1, <2>4 DEF a, c, q, r
<1>8. CASE e >= l
  BY <1>3, <1>5, <1>6, <1>8 DEF q, r
<1>9. CASE 0 >= e /\ ~(e >= l)
  <2>1. ~(e >= k)
    BY <1>2, <1>3, <1>9
  <2>2. QED
    BY <1>3, <1>4, <1>5, <1>9, <2>1, FullIs DEF q, r
<1>10. QED
  BY <1>2, <1>3, <1>7, <1>8, <1>9

\* A ratio grows with its numerator.
LEMMA PerGrows ==
  ASSUME NEW x \in Nat, NEW z \in Nat, NEW y \in Nat, x <= z
  PROVE  LET q == Per(x, y)
             r == Per(z, y)
         IN  IsRatio(q) /\ IsRatio(r) /\ q[2] = r[2] /\ q[1] <= r[1]
<1>1. CASE y > 0
  BY <1>1 DEF Per, IsRatio
<1>2. CASE ~(y > 0)
  BY <1>2 DEF Per, IsRatio, Huge
<1>3. QED
  BY <1>1, <1>2

\* The indicators are quotients with a divisor that does not change.
LEMMA PerFalls ==
  ASSUME NEW x \in Nat, NEW z \in Nat, NEW y \in Nat, NEW yy, yy = y, x <= z,
         NEW t \in Nat, NEW w \in Nat, t < w, NEW d \in Nat
  PROVE  Interpolate(Per(z, yy), t, w, d) <= Interpolate(Per(x, y), t, w, d)
<1> DEFINE q == Per(x, y)
           r == Per(z, y)
<1>1. IsRatio(q) /\ IsRatio(r) /\ q[2] = r[2] /\ q[1] <= r[1]
  BY PerGrows
<1> HIDE DEF q, r
<1>2. Interpolate(r, t, w, d) <= Interpolate(q, t, w, d)
  BY <1>1, InterpolateFalls
<1>3. QED
  BY <1>2 DEF q, r

\* The same in the form the interpolation compares ratios.
LEMMA PairFalls ==
  ASSUME NEW x \in Nat, NEW z \in Nat, NEW y \in Nat \ {0}, NEW yy, yy = y, x <= z,
         NEW t \in Nat, NEW w \in Nat, t < w, NEW d \in Nat
  PROVE  Interpolate(<<z, yy>>, t, w, d) <= Interpolate(<<x, y>>, t, w, d)
<1> DEFINE q == <<x, y>>
           r == <<z, y>>
<1>1. IsRatio(q) /\ IsRatio(r) /\ q[2] = r[2] /\ q[1] <= r[1]
  BY DEF IsRatio
<1> HIDE DEF q, r
<1>2. Interpolate(r, t, w, d) <= Interpolate(q, t, w, d)
  BY <1>1, InterpolateFalls
<1>3. QED
  BY <1>2 DEF q, r

LEMMA PairRises ==
  ASSUME NEW x \in Nat, NEW z \in Nat, NEW y \in Nat \ {0}, NEW yy, yy = y, x <= z,
         NEW t \in Nat, NEW w \in Nat, w < t, NEW d \in Nat
  PROVE  Interpolate(<<x, yy>>, t, w, d) <= Interpolate(<<z, y>>, t, w, d)
<1> DEFINE q == <<x, y>>
           r == <<z, y>>
<1>1. IsRatio(q) /\ IsRatio(r) /\ q[2] = r[2] /\ q[1] <= r[1]
  BY DEF IsRatio
<1> HIDE DEF q, r
<1>2. Interpolate(q, t, w, d) <= Interpolate(r, t, w, d)
  BY <1>1, InterpolateRises
<1>3. QED
  BY <1>2 DEF q, r

\* What a change for the worse does to the inputs.
LEMMA WorseIs ==
  ASSUME NEW a, NEW b, IsInput(a), IsInput(b), Worse(a, b)
  PROVE  /\ \A x \in Measures : a[x] \in Nat /\ b[x] \in Nat
         /\ a.boe = b.boe /\ a.spilled = b.spilled /\ a.offshore = b.offshore
         /\ a.onshore = b.onshore /\ a.proved = b.proved /\ a.probable = b.probable
         /\ a.referred = b.referred /\ a.hours = b.hours /\ a.pseHours = b.pseHours
         /\ a.climate = b.climate
         /\ a.certified = b.certified /\ a.remuneration = b.remuneration
         /\ a.aligned = b.aligned
<1>1. DOMAIN a = Measures \cup Switches
  BY DEF IsInput
<1>2. \A x \in Measures \cup Switches : x \notin Harms \cup Gains => a[x] = b[x]
  BY <1>1 DEF Worse
<1>3. /\ {"boe", "spilled", "offshore", "onshore", "proved", "probable", "referred", "hours",
          "pseHours", "climate"} \subseteq Measures
      /\ {"certified", "remuneration", "aligned"} \subseteq Switches
  BY DEF Measures, Switches
<1>4. /\ "boe" \notin Harms \cup Gains /\ "spilled" \notin Harms \cup Gains
      /\ "offshore" \notin Harms \cup Gains /\ "onshore" \notin Harms \cup Gains
      /\ "proved" \notin Harms \cup Gains /\ "probable" \notin Harms \cup Gains
      /\ "referred" \notin Harms \cup Gains /\ "hours" \notin Harms \cup Gains
      /\ "pseHours" \notin Harms \cup Gains /\ "climate" \notin Harms \cup Gains
      /\ "certified" \notin Harms \cup Gains /\ "remuneration" \notin Harms \cup Gains
      /\ "aligned" \notin Harms \cup Gains
  BY DEF Harms, Gains
<1>5. \A x \in Measures : a[x] \in Nat /\ b[x] \in Nat
  BY DEF IsInput
<1>6. QED
  BY <1>2, <1>3, <1>4, <1>5

\* What is worse in the measures is worse in the sums taken of them.
LEMMA HarmsGrow ==
  ASSUME NEW a, NEW b, Worse(a, b)
  PROVE  /\ a.ghg <= b.ghg /\ a.flared <= b.flared /\ a.vented <= b.vented
         /\ a.withdrawn <= b.withdrawn /\ a.consumed <= b.consumed /\ a.spills <= b.spills
         /\ a.sensitive <= b.sensitive /\ a.conflict <= b.conflict
         /\ a.indigenous <= b.indigenous /\ a.incidents <= b.incidents
         /\ a.nearMisses <= b.nearMisses /\ a.disruptions <= b.disruptions
         /\ a.tier1 <= b.tier1 /\ a.embedded <= b.embedded /\ a.fatalities <= b.fatalities
         /\ a.daysLost <= b.daysLost /\ a.opex <= b.opex
         /\ a.scope3Forms >= b.scope3Forms /\ a.stations >= b.stations
         /\ a.resolved >= b.resolved /\ a.capex >= b.capex /\ a.carbonPrice >= b.carbonPrice
         /\ a.hcdt >= b.hcdt
BY DEF Worse, Harms, Gains

\* Two sequences of scores, the second never above the first.
NoneAbove(s, r, n) ==
  /\ Len(s) = n /\ DOMAIN s = 1..n /\ Len(r) = n /\ DOMAIN r = 1..n
  /\ \A i \in 1..n : s[i] \in Score /\ r[i] \in Score /\ r[i] <= s[i]

\* No environmental score rises when the measures get worse,
LEMMA EnvScoresFall ==
  ASSUME NEW a, NEW b, IsInput(a), IsInput(b), Worse(a, b)
  PROVE  NoneAbove(EnvScores(a), EnvScores(b), 11)
<1>1. \A x \in Measures : a[x] \in Nat /\ b[x] \in Nat
  BY WorseIs
<1>2. a.boe = b.boe /\ a.spilled = b.spilled /\ Assets(a) = Assets(b) /\ Assets(a) \in Nat
  BY WorseIs, Divisors DEF Assets
<1>3. /\ a.boe \in Nat /\ a.spilled \in Nat
      /\ a.ghg \in Nat /\ b.ghg \in Nat /\ a.flared \in Nat /\ b.flared \in Nat
      /\ a.vented \in Nat /\ b.vented \in Nat /\ a.withdrawn \in Nat /\ b.withdrawn \in Nat
      /\ a.consumed \in Nat /\ b.consumed \in Nat /\ a.spills \in Nat /\ b.spills \in Nat
      /\ a.sensitive \in Nat /\ b.sensitive \in Nat /\ a.stations \in Nat /\ b.stations \in Nat
      /\ a.scope3Forms \in Nat /\ b.scope3Forms \in Nat
  BY <1>1 DEF Measures
<1>4. /\ a.ghg <= b.ghg /\ a.flared <= b.flared /\ a.vented <= b.vented
      /\ a.withdrawn <= b.withdrawn /\ a.consumed <= b.consumed /\ a.spills <= b.spills
      /\ a.sensitive <= b.sensitive /\ a.scope3Forms >= b.scope3Forms
      /\ a.stations >= b.stations
  BY HarmsGrow
<1>5. Interpolate(Per(b.ghg, b.boe), 10, 40, 1000) <= Interpolate(Per(a.ghg, a.boe),
      10, 40, 1000)
  <2>1. a.ghg \in Nat /\ b.ghg \in Nat /\ a.boe \in Nat /\ b.boe = a.boe /\ a.ghg <= b.ghg
    BY <1>2, <1>3, <1>4
  <2>2. QED
    BY <2>1, PerFalls
<1>6. Interpolate(Per(b.flared, b.boe), 5, 50, 10) <= Interpolate(Per(a.flared,
      a.boe), 5, 50, 10)
  <2>1. a.flared \in Nat /\ b.flared \in Nat /\ a.boe \in Nat /\ b.boe = a.boe /\ a.flared <= b.flared
    BY <1>2, <1>3, <1>4
  <2>2. QED
    BY <2>1, PerFalls
<1>7. Interpolate(Per(b.vented, b.boe), 5, 50, 100)
        <= Interpolate(Per(a.vented, a.boe), 5, 50, 100)
  <2>1. a.vented \in Nat /\ b.vented \in Nat /\ a.boe \in Nat /\ b.boe = a.boe /\ a.vented <= b.vented
    BY <1>2, <1>3, <1>4
  <2>2. QED
    BY <2>1, PerFalls
<1>8. Interpolate(<<b.scope3Forms, 15>>, 1, 0, 1) <= Interpolate(<<a.scope3Forms, 15>>, 1, 0, 1)
  <2> DEFINE q == <<b.scope3Forms, 15>>
             r == <<a.scope3Forms, 15>>
  <2>1. IsRatio(q) /\ IsRatio(r) /\ q[2] = r[2] /\ q[1] <= r[1]
    BY <1>3, <1>4 DEF IsRatio
  <2> HIDE DEF q, r
  <2>2. Interpolate(q, 1, 0, 1) <= Interpolate(r, 1, 0, 1)
    BY <2>1, InterpolateRises
  <2>3. QED
    BY <2>2 DEF q, r
<1>9. Interpolate(Per(b.withdrawn, b.boe), 5, 30, 100)
        <= Interpolate(Per(a.withdrawn, a.boe), 5, 30, 100)
  <2>1. a.withdrawn \in Nat /\ b.withdrawn \in Nat /\ a.boe \in Nat /\ b.boe = a.boe /\ a.withdrawn <= b.withdrawn
    BY <1>2, <1>3, <1>4
  <2>2. QED
    BY <2>1, PerFalls
<1>10. Interpolate(<<b.withdrawn, IF b.stations = 0 THEN 1 ELSE b.stations>>, 0, 15, 100)
         <= Interpolate(<<a.withdrawn, IF a.stations = 0 THEN 1 ELSE a.stations>>, 0, 15, 100)
  <2> DEFINE x == IF a.stations = 0 THEN 1 ELSE a.stations
             y == IF b.stations = 0 THEN 1 ELSE b.stations
             q == <<a.withdrawn, x>>
             r == <<b.withdrawn, x>>
             p == <<b.withdrawn, y>>
  <2>1. x \in Nat \ {0} /\ y \in Nat \ {0} /\ y <= x
    BY <1>3, <1>4
  <2>2. IsRatio(q) /\ IsRatio(r) /\ q[2] = r[2] /\ q[1] <= r[1]
    BY <1>3, <2>1, <1>4 DEF IsRatio
  <2>3. Interpolate(q, 0, 15, 100) \in Score /\ Interpolate(r, 0, 15, 100) \in Score
        /\ Interpolate(p, 0, 15, 100) \in Score
    <3>1. IsRatio(p)
      BY <1>3, <2>1 DEF IsRatio
    <3> HIDE DEF x, y, q, r, p
    <3>2. QED
      BY <2>2, <3>1, InterpolateIsScore
  <2>4. Interpolate(p, 0, 15, 100) <= Interpolate(r, 0, 15, 100)
    <3> HIDE DEF x, y
    <3>1. 15 \in Nat \ {0} /\ 100 \in Nat
      OBVIOUS
    <3>2. QED
      BY <1>3, <2>1, <3>1, SharedFalls
  <2> HIDE DEF x, y, q, r, p
  <2>5. Interpolate(r, 0, 15, 100) <= Interpolate(q, 0, 15, 100)
    BY <2>2, InterpolateFalls
  <2>6. Interpolate(p, 0, 15, 100) <= Interpolate(q, 0, 15, 100)
    BY <2>3, <2>4, <2>5, ScoreIs
  <2>7. QED
    BY <2>6 DEF x, y, q, r, p
<1>11. Interpolate(Per(b.consumed, b.boe), 0, 5, 100)
         <= Interpolate(Per(a.consumed, a.boe), 0, 5, 100)
  <2>1. a.consumed \in Nat /\ b.consumed \in Nat /\ a.boe \in Nat /\ b.boe = a.boe /\ a.consumed <= b.consumed
    BY <1>2, <1>3, <1>4
  <2>2. QED
    BY <2>1, PerFalls
<1>12. Interpolate(Per(b.spilled, b.boe), 2, 50, 1) <= Interpolate(Per(a.spilled,
      a.boe), 2, 50, 1)
  <2>1. a.spilled \in Nat /\ b.spilled \in Nat /\ a.boe \in Nat /\ b.boe = a.boe /\ a.spilled <= b.spilled
    BY <1>2, <1>3, <1>4
  <2>2. QED
    BY <2>1, PerFalls
<1>13. Interpolate(Per(b.spills, Assets(b)), 0, 1, 1)
         <= Interpolate(Per(a.spills, Assets(a)), 0, 1, 1)
  <2>1. a.spills \in Nat /\ b.spills \in Nat /\ Assets(a) \in Nat /\ Assets(b) = Assets(a) /\ a.spills <= b.spills
    BY <1>2, <1>3, <1>4
  <2>2. QED
    BY <2>1, PerFalls
<1>14. Interpolate(IF b.spilled = 0 THEN <<0, 1>> ELSE <<b.sensitive, b.spilled>>, 0, 1, 1)
         <= Interpolate(IF a.spilled = 0 THEN <<0, 1>> ELSE <<a.sensitive, a.spilled>>, 0, 1, 1)
  <2> DEFINE q == IF a.spilled = 0 THEN <<0, 1>> ELSE <<a.sensitive, a.spilled>>
             r == IF b.spilled = 0 THEN <<0, 1>> ELSE <<b.sensitive, b.spilled>>
  <2>1. IsRatio(q) /\ IsRatio(r) /\ q[2] = r[2] /\ q[1] <= r[1]
    BY <1>2, <1>3, <1>4 DEF IsRatio
  <2> HIDE DEF q, r
  <2>2. Interpolate(r, 0, 1, 1) <= Interpolate(q, 0, 1, 1)
    BY <2>1, InterpolateFalls
  <2>3. QED
    BY <2>2 DEF q, r
<1>15. Interpolate(<<0, 1>>, 0, 15, 10) <= Interpolate(<<0, 1>>, 0, 15, 10)
  <2>1. IsRatio(<<0, 1>>) /\ 0 # 15
    BY DEF IsRatio
  <2>2. Interpolate(<<0, 1>>, 0, 15, 10) \in Score
    BY <2>1, InterpolateIsScore
  <2>3. QED
    BY <2>2, ScoreIs
<1>16. /\ EnvScores(b)[1] <= EnvScores(a)[1] /\ EnvScores(b)[2] <= EnvScores(a)[2]
       /\ EnvScores(b)[3] <= EnvScores(a)[3] /\ EnvScores(b)[4] <= EnvScores(a)[4]
       /\ EnvScores(b)[5] <= EnvScores(a)[5] /\ EnvScores(b)[6] <= EnvScores(a)[6]
  BY <1>5, <1>6, <1>7, <1>8, <1>9, <1>15 DEF EnvScores
<1>17. /\ EnvScores(b)[7] <= EnvScores(a)[7] /\ EnvScores(b)[8] <= EnvScores(a)[8]
       /\ EnvScores(b)[9] <= EnvScores(a)[9] /\ EnvScores(b)[10] <= EnvScores(a)[10]
       /\ EnvScores(b)[11] <= EnvScores(a)[11]
  BY <1>10, <1>11, <1>12, <1>13, <1>14 DEF EnvScores
<1>18. \A i \in 1..11 : EnvScores(b)[i] <= EnvScores(a)[i]
  BY <1>16, <1>17
<1>19. QED
  BY <1>18, EnvScoresAreScores DEF NoneAbove

\* no social score,
LEMMA SocScoresFall ==
  ASSUME NEW a, NEW b, IsInput(a), IsInput(b), Worse(a, b)
  PROVE  NoneAbove(SocScores(a), SocScores(b), 7)
<1>1. \A x \in Measures : a[x] \in Nat /\ b[x] \in Nat
  BY WorseIs
<1>2. /\ a.hours = b.hours /\ a.referred = b.referred
      /\ Assets(a) = Assets(b) /\ Assets(a) \in Nat
      /\ Reserves(a) = Reserves(b) /\ Reserves(a) \in Nat \ {0}
  BY WorseIs, Divisors DEF Assets, Reserves
<1>3. /\ a.hours \in Nat /\ a.referred \in Nat
      /\ a.conflict \in Nat /\ b.conflict \in Nat /\ a.indigenous \in Nat /\ b.indigenous \in Nat
      /\ a.hcdt \in Nat /\ b.hcdt \in Nat /\ a.opex \in Nat /\ b.opex \in Nat
      /\ a.resolved \in Nat /\ b.resolved \in Nat /\ a.incidents \in Nat /\ b.incidents \in Nat
      /\ a.nearMisses \in Nat /\ b.nearMisses \in Nat
      /\ a.disruptions \in Nat /\ b.disruptions \in Nat
  BY <1>1 DEF Measures
<1>4. /\ a.conflict <= b.conflict /\ a.indigenous <= b.indigenous /\ a.opex <= b.opex
      /\ a.incidents <= b.incidents /\ a.nearMisses <= b.nearMisses
      /\ a.disruptions <= b.disruptions /\ a.resolved >= b.resolved /\ a.hcdt >= b.hcdt
  BY HarmsGrow
<1>5. Interpolate(<<b.conflict, Reserves(b)>>, 0, 25, 100) <=
      Interpolate(<<a.conflict, Reserves(a)>>, 0, 25, 100)
  <2>1. /\ a.conflict \in Nat /\ b.conflict \in Nat /\ a.conflict <= b.conflict
        /\ Reserves(a) \in Nat \ {0} /\ Reserves(b) = Reserves(a)
    BY <1>2, <1>3, <1>4
  <2>2. QED
    BY <2>1, PairFalls
<1>6. Interpolate(<<b.indigenous, Reserves(b)>>, 0, 25, 100) <=
      Interpolate(<<a.indigenous, Reserves(a)>>, 0, 25, 100)
  <2>1. /\ a.indigenous \in Nat /\ b.indigenous \in Nat /\ a.indigenous <= b.indigenous
        /\ Reserves(a) \in Nat \ {0} /\ Reserves(b) = Reserves(a)
    BY <1>2, <1>3, <1>4
  <2>2. QED
    BY <2>1, PairFalls
<1>7. AllOrNone(100 * b.hcdt >= 3 * (IF b.opex = 0 THEN 1 ELSE b.opex))
        <= AllOrNone(100 * a.hcdt >= 3 * (IF a.opex = 0 THEN 1 ELSE a.opex))
  BY <1>3, <1>4, FullIs DEF AllOrNone
<1>8. Interpolate(<<b.resolved, IF b.referred = 0 THEN 1 ELSE b.referred>>, 1, 0, 1)
        <= Interpolate(<<a.resolved, IF a.referred = 0 THEN 1 ELSE a.referred>>, 1, 0, 1)
  <2> DEFINE y == IF a.referred = 0 THEN 1 ELSE a.referred
             z == IF b.referred = 0 THEN 1 ELSE b.referred
  <2>1. /\ a.resolved \in Nat /\ b.resolved \in Nat /\ b.resolved <= a.resolved
        /\ y \in Nat \ {0} /\ z = y
    BY <1>2, <1>3, <1>4
  <2> HIDE DEF y, z
  <2>2. Interpolate(<<b.resolved, z>>, 1, 0, 1) <= Interpolate(<<a.resolved, y>>, 1, 0, 1)
    BY <2>1, PairRises
  <2>3. QED
    BY <2>2 DEF y, z
<1>9. Interpolate(Per(b.incidents, b.hours), 7, 30, 100) <=
      Interpolate(Per(a.incidents, a.hours), 7, 30, 100)
  <2>1. /\ a.incidents \in Nat /\ b.incidents \in Nat /\ a.incidents <= b.incidents
        /\ a.hours \in Nat /\ b.hours = a.hours
    BY <1>2, <1>3, <1>4
  <2>2. QED
    BY <2>1, PerFalls
<1>10. Interpolate(Per(b.nearMisses, b.hours), 5, 25, 10) <=
      Interpolate(Per(a.nearMisses, a.hours), 5, 25, 10)
  <2>1. /\ a.nearMisses \in Nat /\ b.nearMisses \in Nat /\ a.nearMisses <= b.nearMisses
        /\ a.hours \in Nat /\ b.hours = a.hours
    BY <1>2, <1>3, <1>4
  <2>2. QED
    BY <2>1, PerFalls
<1>11. Interpolate(Per(b.disruptions, Assets(b)), 0, 1, 1) <=
      Interpolate(Per(a.disruptions, Assets(a)), 0, 1, 1)
  <2>1. /\ a.disruptions \in Nat /\ b.disruptions \in Nat /\ a.disruptions <= b.disruptions
        /\ Assets(a) \in Nat /\ Assets(b) = Assets(a)
    BY <1>2, <1>3, <1>4
  <2>2. QED
    BY <2>1, PerFalls
<1>12. /\ SocScores(b)[1] <= SocScores(a)[1] /\ SocScores(b)[2] <= SocScores(a)[2]
       /\ SocScores(b)[3] <= SocScores(a)[3] /\ SocScores(b)[4] <= SocScores(a)[4]
  BY <1>5, <1>6, <1>7, <1>8 DEF SocScores
<1>13. /\ SocScores(b)[5] <= SocScores(a)[5] /\ SocScores(b)[6] <= SocScores(a)[6]
       /\ SocScores(b)[7] <= SocScores(a)[7]
  BY <1>9, <1>10, <1>11 DEF SocScores
<1>14. \A i \in 1..7 : SocScores(b)[i] <= SocScores(a)[i]
  BY <1>12, <1>13
<1>15. QED
  BY <1>14, SocScoresAreScores DEF NoneAbove

\* and no governance score.
LEMMA GovScoresFall ==
  ASSUME NEW a, NEW b, IsInput(a), IsInput(b), Worse(a, b)
  PROVE  NoneAbove(GovScores(a), GovScores(b), 8)
<1>1. \A x \in Measures : a[x] \in Nat /\ b[x] \in Nat
  BY WorseIs
<1>2. /\ a.hours = b.hours /\ a.pseHours = b.pseHours /\ a.climate = b.climate
      /\ a.certified = b.certified /\ a.remuneration = b.remuneration /\ a.aligned = b.aligned
      /\ Reserves(a) = Reserves(b) /\ Reserves(a) \in Nat \ {0}
  BY WorseIs, Divisors DEF Reserves
<1>3. /\ a.hours \in Nat /\ a.pseHours \in Nat /\ a.tier1 \in Nat /\ b.tier1 \in Nat
      /\ a.capex \in Nat /\ b.capex \in Nat /\ a.embedded \in Nat /\ b.embedded \in Nat
      /\ a.carbonPrice \in Nat /\ b.carbonPrice \in Nat
  BY <1>1 DEF Measures
<1>4. /\ a.tier1 <= b.tier1 /\ a.embedded <= b.embedded /\ a.capex >= b.capex
      /\ a.carbonPrice >= b.carbonPrice
  BY HarmsGrow
<1>5. Interpolate(Per(b.tier1, IF b.pseHours = 0 THEN b.hours ELSE b.pseHours), 1, 10, 100)
        <= Interpolate(Per(a.tier1, IF a.pseHours = 0 THEN a.hours ELSE a.pseHours), 1, 10, 100)
  <2> DEFINE y == IF a.pseHours = 0 THEN a.hours ELSE a.pseHours
             z == IF b.pseHours = 0 THEN b.hours ELSE b.pseHours
  <2>1. a.tier1 \in Nat /\ b.tier1 \in Nat /\ a.tier1 <= b.tier1 /\ y \in Nat /\ z = y
    BY <1>2, <1>3, <1>4
  <2> HIDE DEF y, z
  <2>2. Interpolate(Per(b.tier1, z), 1, 10, 100) <= Interpolate(Per(a.tier1, y), 1, 10, 100)
    BY <2>1, PerFalls
  <2>3. QED
    BY <2>2 DEF y, z
<1>6. Interpolate(<<b.capex, 1>>, 50, 10, 1) <= Interpolate(<<a.capex, 1>>, 50, 10, 1)
  <2>1. a.capex \in Nat /\ b.capex \in Nat /\ b.capex <= a.capex
    BY <1>3, <1>4
  <2>2. QED
    BY <2>1, PairRises
<1>7. Interpolate(<<b.embedded, Reserves(b)>>, 25, 50, 100) <=
      Interpolate(<<a.embedded, Reserves(a)>>, 25, 50, 100)
  <2>1. /\ a.embedded \in Nat /\ b.embedded \in Nat /\ a.embedded <= b.embedded
        /\ Reserves(a) \in Nat \ {0} /\ Reserves(b) = Reserves(a)
    BY <1>2, <1>3, <1>4
  <2>2. QED
    BY <2>1, PairFalls
<1>8. AllOrNone(b.carbonPrice >= 50) <= AllOrNone(a.carbonPrice >= 50)
  BY <1>3, <1>4, FullIs DEF AllOrNone
<1>9. /\ GovScores(b)[3] = GovScores(a)[3] /\ GovScores(b)[5] = GovScores(a)[5]
      /\ GovScores(b)[6] = GovScores(a)[6] /\ GovScores(b)[8] = GovScores(a)[8]
  BY <1>2 DEF GovScores
<1>10. /\ GovScores(b)[1] <= GovScores(a)[1] /\ GovScores(b)[2] <= GovScores(a)[2]
       /\ GovScores(b)[4] <= GovScores(a)[4] /\ GovScores(b)[7] <= GovScores(a)[7]
  BY <1>5, <1>6, <1>7, <1>8 DEF GovScores
<1>11. /\ GovScores(b)[3] <= GovScores(a)[3] /\ GovScores(b)[5] <= GovScores(a)[5]
       /\ GovScores(b)[6] <= GovScores(a)[6] /\ GovScores(b)[8] <= GovScores(a)[8]
  <2>1. \A i \in 1..8 : GovScores(a)[i] \in Nat
    BY GovScoresAreScores, ScoreIs
  <2>2. GovScores(a)[3] \in Nat /\ GovScores(a)[5] \in Nat /\ GovScores(a)[6] \in Nat
        /\ GovScores(a)[8] \in Nat
    BY <2>1
  <2>3. QED
    BY <1>9, <2>2
<1>12. \A i \in 1..8 : GovScores(b)[i] <= GovScores(a)[i]
  BY <1>10, <1>11
<1>13. QED
  BY <1>12, GovScoresAreScores DEF NoneAbove

\* An average falls with its terms.
LEMMA AverageFalls ==
  ASSUME NEW n \in Nat \ {0}, NEW s, NEW r, NoneAbove(s, r, n)
  PROVE  Average(s) \in Nat /\ Average(r) \in Nat /\ Average(r) <= Average(s)
<1> DEFINE D == 1..n
           x == SumFunctionOnSet(s, D)
           y == SumFunctionOnSet(r, D)
<1>1. DOMAIN s = D /\ DOMAIN r = D
  BY DEF NoneAbove
<1>2. \A i \in D : s[i] \in Int /\ r[i] \in Int /\ r[i] <= s[i]
  BY ScoreIs DEF NoneAbove
<1>3. /\ Average(s) = SumFunctionOnSet(s, DOMAIN s) \div n
      /\ SumFunctionOnSet(s, DOMAIN s) \in Nat /\ IsFiniteSet(DOMAIN s)
  BY AverageIs DEF NoneAbove
<1>4. /\ Average(r) = SumFunctionOnSet(r, DOMAIN r) \div n
      /\ SumFunctionOnSet(r, DOMAIN r) \in Nat
  BY AverageIs DEF NoneAbove
<1> HIDE DEF D
<1>5. y <= x
  BY <1>1, <1>2, <1>3, SumMonotone
<1>6. x \in Nat /\ y \in Nat /\ Average(s) = x \div n /\ Average(r) = y \div n
  BY <1>1, <1>3, <1>4
<1> HIDE DEF x, y
<1>7. QED
  BY <1>5, <1>6, QuotientMonotone

\* Caps that applied before apply still.
VetoesStay(old, new) ==
  /\ DOMAIN new = DOMAIN old
  /\ \A i \in DOMAIN old : old[i][2] \in Nat /\ new[i][2] = old[i][2]
  /\ \A i \in DOMAIN old : old[i][1] => new[i][1]

\* A capped average falls when the average does and the vetoes stay.
LEMMA CappedFalls ==
  ASSUME NEW s \in Nat, NEW r \in Nat, r <= s, NEW old, NEW new, VetoesStay(old, new)
  PROVE  Capped(s, old) \in Nat /\ Capped(r, new) \in Nat /\ Capped(r, new) <= Capped(s, old)
<1> DEFINE x == Capped(s, old)
           y == Capped(r, new)
<1>1. /\ x \in Nat
      /\ x = s \/ \E i \in DOMAIN old : old[i][1] /\ x = old[i][2] * 100
  <2>1. \A i \in DOMAIN old : old[i][2] \in Nat
    BY DEF VetoesStay
  <2>2. QED
    BY <2>1, CappedIs
<1>2. /\ y \in Nat /\ y <= r
      /\ \A i \in DOMAIN new : new[i][1] => y <= new[i][2] * 100
  <2>1. \A i \in DOMAIN new : new[i][2] \in Nat
    BY DEF VetoesStay
  <2>2. QED
    BY <2>1, CappedIs
<1> HIDE DEF x, y
<1>3. ASSUME x = s PROVE y <= x
  BY <1>1, <1>2, <1>3
<1>4. ASSUME NEW i \in DOMAIN old, old[i][1], x = old[i][2] * 100 PROVE y <= x
  <2>1. new[i][1] /\ new[i][2] = old[i][2] /\ i \in DOMAIN new
    BY <1>4 DEF VetoesStay
  <2>2. y <= new[i][2] * 100
    BY <1>2, <2>1
  <2>3. QED
    BY <1>4, <2>1, <2>2
<1>5. y <= x
  BY <1>1, <1>3, <1>4
<1>6. QED
  BY <1>1, <1>2, <1>5 DEF x, y

\* Measures that get worse keep the vetoes they had.
LEMMA EnvVetoesStay ==
  ASSUME NEW a, NEW b, a.spilled > 250 => b.spilled > 250
  PROVE  VetoesStay(EnvVetoes(a), EnvVetoes(b))
<1>1. DOMAIN EnvVetoes(a) = 1..1 /\ DOMAIN EnvVetoes(b) = 1..1
  BY DEF EnvVetoes
<1>2. EnvVetoes(a)[1][2] = 40 /\ EnvVetoes(b)[1][2] = 40
  BY DEF EnvVetoes
<1>3. (EnvVetoes(a)[1][1] <=> a.spilled > 250) /\ (EnvVetoes(b)[1][1] <=> b.spilled > 250)
  BY DEF EnvVetoes
<1>4. QED
  BY <1>1, <1>2, <1>3 DEF VetoesStay

LEMMA GovVetoesStay ==
  ASSUME NEW a, NEW b, a.tier1 >= 2 => b.tier1 >= 2
  PROVE  VetoesStay(GovVetoes(a), GovVetoes(b))
<1>1. DOMAIN GovVetoes(a) = 1..1 /\ DOMAIN GovVetoes(b) = 1..1
  BY DEF GovVetoes
<1>2. GovVetoes(a)[1][2] = 50 /\ GovVetoes(b)[1][2] = 50
  BY DEF GovVetoes
<1>3. (GovVetoes(a)[1][1] <=> a.tier1 >= 2) /\ (GovVetoes(b)[1][1] <=> b.tier1 >= 2)
  BY DEF GovVetoes
<1>4. QED
  BY <1>1, <1>2, <1>3 DEF VetoesStay

LEMMA SocVetoesStay ==
  ASSUME NEW a, NEW b, a.fatalities >= 1 => b.fatalities >= 1,
         a.daysLost > 30 => b.daysLost > 30, a.hcdt = 0 => b.hcdt = 0
  PROVE  VetoesStay(SocVetoes(a), SocVetoes(b))
<1>1. DOMAIN SocVetoes(a) = 1..3 /\ DOMAIN SocVetoes(b) = 1..3
  BY DEF SocVetoes
<1>2. /\ SocVetoes(a)[1][2] = 50 /\ SocVetoes(a)[2][2] = 60 /\ SocVetoes(a)[3][2] = 40
      /\ SocVetoes(b)[1][2] = 50 /\ SocVetoes(b)[2][2] = 60 /\ SocVetoes(b)[3][2] = 40
  BY DEF SocVetoes
<1>3. (SocVetoes(a)[1][1] <=> a.fatalities >= 1) /\ (SocVetoes(b)[1][1] <=> b.fatalities >= 1)
  BY DEF SocVetoes
<1>4. (SocVetoes(a)[2][1] <=> a.daysLost > 30) /\ (SocVetoes(b)[2][1] <=> b.daysLost > 30)
  BY DEF SocVetoes
<1>5. (SocVetoes(a)[3][1] <=> a.hcdt = 0) /\ (SocVetoes(b)[3][1] <=> b.hcdt = 0)
  BY DEF SocVetoes
<1>6. \A i \in 1..3 : SocVetoes(a)[i][1] => SocVetoes(b)[i][1]
  BY <1>3, <1>4, <1>5
<1>7. \A i \in 1..3 : SocVetoes(a)[i][2] \in Nat /\ SocVetoes(b)[i][2] = SocVetoes(a)[i][2]
  BY <1>2
<1>8. QED
  BY <1>1, <1>6, <1>7 DEF VetoesStay

\* Worse measures never score better, in a pillar or overall.
LEMMA WorseScoresNoBetter ==
  ASSUME NEW a, NEW b, IsInput(a), IsInput(b), Worse(a, b)
  PROVE  Overall(b) <= Overall(a)
<1>1. /\ a.spilled = b.spilled /\ a.hcdt \in Nat /\ b.hcdt \in Nat /\ a.hcdt >= b.hcdt
      /\ a.fatalities \in Nat /\ b.fatalities \in Nat /\ a.fatalities <= b.fatalities
      /\ a.daysLost \in Nat /\ b.daysLost \in Nat /\ a.daysLost <= b.daysLost
      /\ a.tier1 \in Nat /\ b.tier1 \in Nat /\ a.tier1 <= b.tier1
  <2>1. \A x \in Measures : a[x] \in Nat /\ b[x] \in Nat
    BY WorseIs
  <2>2. /\ a.hcdt \in Nat /\ b.hcdt \in Nat /\ a.fatalities \in Nat /\ b.fatalities \in Nat
        /\ a.daysLost \in Nat /\ b.daysLost \in Nat /\ a.tier1 \in Nat /\ b.tier1 \in Nat
    BY <2>1 DEF Measures
  <2>3. QED
    BY <2>2, WorseIs, HarmsGrow
<1>2. 11 \in Nat \ {0} /\ 7 \in Nat \ {0} /\ 8 \in Nat \ {0}
  OBVIOUS
<1>3. Environment(a) \in Nat /\ Environment(b) \in Nat /\ Environment(b) <= Environment(a)
  <2> DEFINE s == Average(EnvScores(a))
             r == Average(EnvScores(b))
  <2>1. s \in Nat /\ r \in Nat /\ r <= s
    BY <1>2, EnvScoresFall, AverageFalls
  <2>2. VetoesStay(EnvVetoes(a), EnvVetoes(b))
    BY <1>1, EnvVetoesStay
  <2>3. Environment(a) = Capped(s, EnvVetoes(a)) /\ Environment(b) = Capped(r, EnvVetoes(b))
    BY DEF Environment
  <2> HIDE DEF s, r
  <2>4. QED
    BY <2>1, <2>2, <2>3, CappedFalls
<1>4. Social(a) \in Nat /\ Social(b) \in Nat /\ Social(b) <= Social(a)
  <2> DEFINE s == Average(SocScores(a))
             r == Average(SocScores(b))
  <2>1. s \in Nat /\ r \in Nat /\ r <= s
    BY <1>2, SocScoresFall, AverageFalls
  <2>2. VetoesStay(SocVetoes(a), SocVetoes(b))
    <3>1. /\ a.fatalities >= 1 => b.fatalities >= 1
          /\ a.daysLost > 30 => b.daysLost > 30
          /\ a.hcdt = 0 => b.hcdt = 0
      BY <1>1
    <3>2. QED
      BY <3>1, SocVetoesStay
  <2>3. Social(a) = Capped(s, SocVetoes(a)) /\ Social(b) = Capped(r, SocVetoes(b))
    BY DEF Social
  <2> HIDE DEF s, r
  <2>4. QED
    BY <2>1, <2>2, <2>3, CappedFalls
<1>5. Governance(a) \in Nat /\ Governance(b) \in Nat /\ Governance(b) <= Governance(a)
  <2> DEFINE s == Average(GovScores(a))
             r == Average(GovScores(b))
  <2>1. s \in Nat /\ r \in Nat /\ r <= s
    BY <1>2, GovScoresFall, AverageFalls
  <2>2. VetoesStay(GovVetoes(a), GovVetoes(b))
    BY <1>1, GovVetoesStay
  <2>3. Governance(a) = Capped(s, GovVetoes(a)) /\ Governance(b) = Capped(r, GovVetoes(b))
    BY DEF Governance
  <2> HIDE DEF s, r
  <2>4. QED
    BY <2>1, <2>2, <2>3, CappedFalls
<1>6. QED
  BY <1>3, <1>4, <1>5 DEF Overall

(***************************************************************************)
(* WorseNeverScoresBetter: between any two sets of figures a save can lead *)
(* from and to, a change for the worse never raises the overall score and  *)
(* one for the better never lowers it.  Every indicator is monotone in     *)
(* every figure it reads, and so are the averages, the lowest cap and the  *)
(* weights.  calculateESGScore, aggregate.                                 *)
(***************************************************************************)
THEOREM ScoreIsFair == DocumentSpec => WorseNeverScoresBetter
<1> DEFINE Fair == /\ Worse(figures, figures') => Overall(figures') <= Overall(figures)
                   /\ Worse(figures', figures) => Overall(figures) <= Overall(figures')
<1>1. NumbersInv /\ [Edit]_allVars => [Fair]_allVars
  <2> SUFFICES ASSUME NumbersInv, [Edit]_allVars PROVE Fair
    OBVIOUS
  <2>1. IsInput(figures)
    BY DEF NumbersInv
  <2>2. NumbersInv'
    BY NumbersInvInductive
  <2>3. IsInput(figures')
    BY <2>2 DEF NumbersInv
  <2>4. QED
    BY <2>1, <2>3, WorseScoresNoBetter
<1> HIDE DEF Fair
<1>2. DocumentSpec => [][Fair]_allVars
  BY <1>1, DocumentInvariance, PTL DEF DocumentSpec
<1>3. QED
  BY <1>2 DEF WorseNeverScoresBetter, Fair

-----------------------------------------------------------------------------
(* Every progress figure is a percentage.                                   *)

\* A fraction that is at most k is not rounded above k.
LEMMA RoundedAtMost ==
  ASSUME NEW a \in Nat, NEW b \in Nat \ {0}, NEW k \in Nat, a <= k * b
  PROVE  Rounded(a, b) \in Nat /\ Rounded(a, b) <= k
<1> DEFINE q == (2 * a + b) \div (2 * b)
<1>1. 2 * a + b \in Nat /\ 2 * b \in Nat \ {0}
  OBVIOUS
<1>2. q \in Nat /\ 2 * b * q <= 2 * a + b
  BY <1>1, Quotient
<1> HIDE DEF q
<1>3. q <= k
  <2>1. SUFFICES ASSUME k + 1 <= q PROVE FALSE
    BY <1>2
  <2>2. b * (k + 1) <= b * q
    BY <1>2, <2>1
  <2>3. b * (k + 1) = k * b + b /\ k * b \in Nat /\ b * q \in Nat /\ 2 * b * q = 2 * (b * q)
    BY <1>2
  <2>4. QED
    BY <1>2, <2>2, <2>3
<1>4. QED
  BY <1>2, <1>3 DEF q, Rounded

\* Leaving out naturals does not raise a sum.
LEMMA SumOfPart ==
  ASSUME NEW f, NEW T, IsFiniteSet(T), NEW S \in SUBSET T, \A x \in T : f[x] \in Nat
  PROVE  SumFunctionOnSet(f, S) <= SumFunctionOnSet(f, T)
<1> DEFINE C == {A \in SUBSET T : SumFunctionOnSet(f, A \cap S) <= SumFunctionOnSet(f, A)}
<1>1. {} \in C
  <2>1. {} \cap S = {}
    OBVIOUS
  <2>2. QED
    BY <2>1, SumEmpty
<1>2. ASSUME NEW A \in SUBSET T, NEW x \in T, A \in C, x \notin A PROVE A \cup {x} \in C
  <2>1. IsFiniteSet(A) /\ IsFiniteSet(A \cap S) /\ f[x] \in Nat
        /\ (\A z \in A : f[z] \in Nat) /\ \A z \in A \cap S : f[z] \in Nat
    BY FS_Subset
  <2>2. SumFunctionOnSet(f, A \cup {x}) = SumFunctionOnSet(f, A) + f[x]
    BY <1>2, <2>1, SumAdd
  <2>3. SumFunctionOnSet(f, A) \in Nat /\ SumFunctionOnSet(f, A \cap S) \in Nat
    BY <2>1, SumNat
  <2>4. CASE x \in S
    <3>1. (A \cup {x}) \cap S = (A \cap S) \cup {x} /\ x \notin A \cap S
      BY <1>2, <2>4
    <3>2. SumFunctionOnSet(f, (A \cap S) \cup {x}) = SumFunctionOnSet(f, A \cap S) + f[x]
      BY <2>1, <3>1, SumAdd
    <3>3. SumFunctionOnSet(f, A \cap S) <= SumFunctionOnSet(f, A)
      BY <1>2
    <3>4. SumFunctionOnSet(f, (A \cup {x}) \cap S) <= SumFunctionOnSet(f, A \cup {x})
      BY <2>1, <2>2, <2>3, <3>1, <3>2, <3>3
    <3>5. QED
      BY <3>4
  <2>5. CASE x \notin S
    <3>1. (A \cup {x}) \cap S = A \cap S
      BY <2>5
    <3>4. SumFunctionOnSet(f, A \cap S) <= SumFunctionOnSet(f, A)
      BY <1>2
    <3>2. SumFunctionOnSet(f, (A \cup {x}) \cap S) <= SumFunctionOnSet(f, A \cup {x})
      BY <2>1, <2>2, <2>3, <3>1, <3>4
    <3>3. QED
      BY <3>2
  <2>6. QED
    BY <2>4, <2>5
<1> HIDE DEF C
<1>3. SUBSET T \subseteq C
  BY <1>1, <1>2, SubsetInduction
<1>4. T \in C /\ T \cap S = S
  BY <1>3
<1>5. QED
  BY <1>4 DEF C

\* A sum of values that are at most c times others.
LEMMA SumAtMostTimes ==
  ASSUME NEW f, NEW g, NEW S, IsFiniteSet(S), NEW c \in Nat,
         \A x \in S : f[x] \in Nat /\ g[x] \in Nat /\ f[x] <= c * g[x]
  PROVE  SumFunctionOnSet(f, S) <= c * SumFunctionOnSet(g, S)
<1> DEFINE Sf(A) == SumFunctionOnSet(f, A)
           Sg(A) == SumFunctionOnSet(g, A)
           C == {A \in SUBSET S : Sf(A) <= c * Sg(A)}
<1>1. {} \in C
  BY SumEmpty
<1>2. ASSUME NEW A \in SUBSET S, NEW x \in S, A \in C, x \notin A PROVE A \cup {x} \in C
  <2>1. IsFiniteSet(A) /\ \A z \in A : f[z] \in Nat /\ g[z] \in Nat
    BY FS_Subset
  <2>2. Sf(A \cup {x}) = Sf(A) + f[x] /\ Sg(A \cup {x}) = Sg(A) + g[x]
    BY <1>2, <2>1, SumAdd
  <2>3. Sf(A) \in Nat /\ Sg(A) \in Nat
    BY <2>1, SumNat
  <2>4. Sf(A) <= c * Sg(A) /\ f[x] <= c * g[x] /\ f[x] \in Nat /\ g[x] \in Nat
    BY <1>2
  <2> DEFINE p == Sf(A)
             q == Sg(A)
             u == f[x]
             v == g[x]
  <2> HIDE DEF p, q, u, v
  <2>5. p \in Nat /\ q \in Nat /\ u \in Nat /\ v \in Nat /\ p <= c * q /\ u <= c * v
    BY <2>3, <2>4 DEF p, q, u, v
  <2>6. c * (q + v) = c * q + c * v /\ c * q \in Nat /\ c * v \in Nat
    BY <2>5
  <2>7. p + u <= c * (q + v)
    BY <2>5, <2>6
  <2>8. QED
    BY <2>2, <2>7 DEF p, q, u, v
<1> HIDE DEF C
<1>3. SUBSET S \subseteq C
  BY <1>1, <1>2, SubsetInduction
<1>4. QED
  BY <1>3 DEF C

\* What a topic that was begun counts.
LEMMA CountsAreNat ==
  ASSUME DataInv, NEW g \in Groups
  PROVE  \A f \in PresentForms(g) : Count(f) \in Nat
<1>1. \A f \in Forms : Present(f) => Count(f) \in Nat
  BY RenamedAreForms DEF DataInv, Present, Count
<1>2. QED
  BY <1>1, RenamedAreForms DEF PresentForms

\* The progress of a topic that was begun is a percentage.
LEMMA TopicIsPercentage ==
  ASSUME DataInv, NEW g \in Groups, Started(g)
  PROVE  GroupProgress(g) \in Nat /\ GroupProgress(g) <= 1000
<1> DEFINE S == PresentForms(g)
           f == [x \in S |-> Count(x)]
           t == TotalExpected(g)
<1>1. IsFiniteSet(S) /\ t \in Nat \ {0}
  BY PresentFormsAre, TotalExpectedIs
<1>2. \A x \in S : f[x] \in Nat
  BY CountsAreNat
<1>3. TotalCount(g) = SumFunctionOnSet(f, S)
  BY DEF TotalCount, SumFunction
<1> HIDE DEF S, f, t
<1>4. TotalCount(g) \in Nat
  BY <1>1, <1>2, <1>3, SumNat
<1>5. 1000 * TotalCount(g) \in Nat
  BY <1>4
<1> DEFINE p == Rounded(1000 * TotalCount(g), t)
<1>6. p \in Nat
  BY <1>1, <1>5, RoundedGrows
<1>7. GroupProgress(g) = AtMost1000(p)
  BY DEF GroupProgress, t
<1> HIDE DEF p
<1>8. QED
  BY <1>6, <1>7 DEF AtMost1000

\* A plain mean, of topics and what stands beside them, is capped.
LEMMA MeanIsPercentage ==
  ASSUME DataInv, NEW groups \in SUBSET Groups, IsFiniteSet(groups), NEW others,
         SumFunction(others) \in Nat, Len(others) \in Nat
  PROVE  AverageOf(groups, others) \in 0..1000
<1> DEFINE S == {g \in groups : Started(g)}
           f == [g \in S |-> GroupProgress(g)]
           n == Cardinality(S) + Len(others)
           x == SumFunction(f) + SumFunction(others)
<1>1. IsFiniteSet(S) /\ n \in Nat
  BY FS_Subset, FS_CardinalityType
<1>2. DOMAIN f = S /\ \A g \in S : f[g] \in Nat
  BY TopicIsPercentage
<1>3. SumFunction(f) \in Nat
  <2> HIDE DEF f, S
  <2>1. QED
    BY <1>1, <1>2, SumNat DEF SumFunction
<1>4. x \in Nat
  BY <1>3
<1>5. AverageOf(groups, others) = IF n = 0 THEN 0 ELSE AtMost1000(Rounded(x, n))
  BY DEF AverageOf
<1> HIDE DEF S, f, n, x
<1>6. CASE n # 0
  <2> DEFINE p == Rounded(x, n)
  <2>1. p \in Nat
    BY <1>1, <1>4, <1>6, RoundedGrows
  <2>2. AverageOf(groups, others) = AtMost1000(p)
    BY <1>5, <1>6
  <2> HIDE DEF p
  <2>3. QED
    BY <2>1, <2>2 DEF AtMost1000
<1>7. CASE n = 0
  BY <1>5, <1>7
<1>8. QED
  BY <1>6, <1>7

\* A weighted sum is at most 1000 times its weights.
LEMMA WeightedIsBounded ==
  ASSUME DataInv, NEW groups \in SUBSET Groups, IsFiniteSet(groups), NEW w,
         \A g \in groups : w[g] \in Nat
  PROVE  LET S == {g \in groups : Started(g)}
             x == SumFunction([g \in S |-> GroupProgress(g) * w[g]])
         IN  IsFiniteSet(S) /\ x \in Nat /\ x <= 1000 * SumFunctionOnSet(w, S)
<1> DEFINE S == {g \in groups : Started(g)}
           f == [g \in S |-> GroupProgress(g) * w[g]]
<1>1. IsFiniteSet(S)
  BY FS_Subset
<1>2. ASSUME NEW g \in S PROVE f[g] \in Nat /\ w[g] \in Nat /\ f[g] <= 1000 * w[g]
  <2>1. GroupProgress(g) \in Nat /\ GroupProgress(g) <= 1000 /\ w[g] \in Nat
    BY TopicIsPercentage
  <2> DEFINE a == GroupProgress(g)
             c == w[g]
  <2>2. f[g] = a * c
    OBVIOUS
  <2> HIDE DEF f
  <2>3. a \in Nat /\ a <= 1000 /\ c \in Nat
    BY <2>1
  <2> HIDE DEF a, c
  <2>4. a * c \in Nat /\ a * c <= 1000 * c
    BY <2>3
  <2>5. QED
    BY <2>2, <2>3, <2>4 DEF c
<1>3. SumFunction(f) = SumFunctionOnSet(f, S)
  BY DEF SumFunction
<1> HIDE DEF f, S
<1>4. SumFunctionOnSet(f, S) \in Nat
  BY <1>1, <1>2, SumNat
<1>5. SumFunctionOnSet(f, S) <= 1000 * SumFunctionOnSet(w, S)
  BY <1>1, <1>2, SumAtMostTimes
<1>6. QED
  BY <1>1, <1>3, <1>4, <1>5 DEF f, S

\* The weights of the groups of scope 1 add up to 26.
LEMMA ScopeOneWeights == SumFunctionOnSet(ScopeOneWeight, DOMAIN ScopeOneWeight) = 26
<1> DEFINE a == "stationarySources"
           b == "mobileSources"
           c == "processEmissions"
           d == "fugitiveEmissions"
           f == ScopeOneWeight
           D == DOMAIN ScopeOneWeight
<1>0. /\ a # b /\ a # c /\ a # d /\ b # c /\ b # d /\ c # d /\ D = {a, b, c, d}
      /\ f[a] = 4 /\ f[b] = 14 /\ f[c] = 4 /\ f[d] = 4
  BY DEF ScopeOneWeight
<1> HIDE DEF a, b, c, d, f, D
<1>1. IsFiniteSet({}) /\ IsFiniteSet({a}) /\ IsFiniteSet({a, b}) /\ IsFiniteSet({a, b, c})
  BY FS_EmptySet, FS_Singleton, TwoAreFinite, ThreeAreFinite
<1>2. SumFunctionOnSet(f, {} \cup {a}) = SumFunctionOnSet(f, {}) + f[a]
      /\ {} \cup {a} = {a} /\ SumFunctionOnSet(f, {}) = 0
  <2>1. f[a] \in Int /\ a \notin {} /\ \A x \in {} : f[x] \in Int
    BY <1>0
  <2>2. QED
    BY <1>1, <2>1, SumAdd, SumEmpty
<1>3. SumFunctionOnSet(f, {a} \cup {b}) = SumFunctionOnSet(f, {a}) + f[b]
      /\ {a} \cup {b} = {a, b}
  <2>1. IsFiniteSet({a}) /\ b \notin {a} /\ f[b] \in Int /\ \A x \in {a} : f[x] \in Int
    BY <1>0, <1>1
  <2>2. QED
    BY <2>1, SumAdd
<1>4. SumFunctionOnSet(f, {a, b} \cup {c}) = SumFunctionOnSet(f, {a, b}) + f[c]
      /\ {a, b} \cup {c} = {a, b, c}
  <2>1. IsFiniteSet({a, b}) /\ c \notin {a, b} /\ f[c] \in Int /\ \A x \in {a, b} : f[x] \in Int
    BY <1>0, <1>1
  <2>2. QED
    BY <2>1, SumAdd
<1>5. SumFunctionOnSet(f, {a, b, c} \cup {d}) = SumFunctionOnSet(f, {a, b, c}) + f[d]
      /\ {a, b, c} \cup {d} = {a, b, c, d}
  <2>1. IsFiniteSet({a, b, c}) /\ d \notin {a, b, c} /\ f[d] \in Int /\ \A x \in {a, b, c} : f[x] \in Int
    BY <1>0, <1>1
  <2>2. QED
    BY <2>1, SumAdd
<1>6. SumFunctionOnSet(f, {a}) = f[a]
  BY <1>0, <1>2
<1>7. SumFunctionOnSet(f, {a, b}) = f[a] + f[b]
  BY <1>0, <1>3, <1>6
<1>8. SumFunctionOnSet(f, {a, b, c}) = f[a] + f[b] + f[c]
  BY <1>0, <1>4, <1>7
<1>9. SumFunctionOnSet(f, D) = 26
  BY <1>0, <1>5, <1>8
<1>10. QED
  BY <1>9 DEF f, D

\* The weights of scope 1 add up to 26, so its mean never exceeds its topics.
LEMMA ScopeOneIsPercentage == DataInv => Scope1Progress \in 0..1000
<1> SUFFICES ASSUME DataInv PROVE Scope1Progress \in 0..1000
  OBVIOUS
<1> DEFINE D == DOMAIN ScopeOneWeight
           S == {g \in D : Started(g)}
           x == SumFunction([g \in S |-> GroupProgress(g) * ScopeOneWeight[g]])
<1>1. x \in Nat /\ x <= 1000 * SumFunctionOnSet(ScopeOneWeight, S)
  BY TopicLists, WeightedIsBounded
<1>2. S \in SUBSET D /\ IsFiniteSet(D) /\ \A g \in D : ScopeOneWeight[g] \in Nat
  BY TopicLists
<1>3. SumFunctionOnSet(ScopeOneWeight, S) <= SumFunctionOnSet(ScopeOneWeight, D)
  BY <1>2, SumOfPart
<1>4. SumFunctionOnSet(ScopeOneWeight, S) \in Nat
  <2>1. IsFiniteSet(S) /\ \A g \in S : ScopeOneWeight[g] \in Nat
    BY <1>2, FS_Subset
  <2>2. QED
    BY <2>1, SumNat
<1>5. SumFunctionOnSet(ScopeOneWeight, D) = 26
  BY ScopeOneWeights
<1>6. Scope1Progress = Rounded(x, 26)
  BY DEF Scope1Progress
<1> HIDE DEF D, S, x
<1>7. x \in Nat /\ x <= 1000 * 26
  BY <1>1, <1>3, <1>4, <1>5
<1>8. Rounded(x, 26) \in Nat /\ Rounded(x, 26) <= 1000
  BY <1>7, RoundedAtMost
<1>9. QED
  BY <1>6, <1>8

\* A set with one element more has a cardinality one higher at most.
LEMMA OneMore ==
  ASSUME NEW S, NEW T, NEW x, NEW n \in Nat, T \subseteq S \cup {x},
         IsFiniteSet(S), Cardinality(S) <= n
  PROVE  IsFiniteSet(T) /\ Cardinality(T) \in Nat /\ Cardinality(T) <= n + 1
<1> DEFINE U == S \cup {x}
<1>1. Cardinality(S) \in Nat
  BY FS_CardinalityType
<1>2. IsFiniteSet(U) /\ Cardinality(U) = IF x \in S THEN Cardinality(S) ELSE Cardinality(S) + 1
  BY FS_AddElement
<1>3. T \in SUBSET U
  OBVIOUS
<1> HIDE DEF U
<1>4. IsFiniteSet(T) /\ Cardinality(T) <= Cardinality(U)
  BY <1>2, <1>3, FS_Subset
<1>5. Cardinality(T) \in Nat /\ Cardinality(U) <= Cardinality(S) + 1 /\ Cardinality(U) \in Nat
  BY <1>1, <1>2, <1>4, FS_CardinalityType
<1>6. QED
  BY <1>1, <1>4, <1>5

\* A set taken from four elements has at most four.
LEMMA AtMostFour ==
  ASSUME NEW a, NEW b, NEW c, NEW d, NEW S, S \subseteq {a, b, c, d}
  PROVE  Cardinality(S) \in Nat /\ Cardinality(S) <= 4
<1> DEFINE S4 == S
           S3 == S4 \ {d}
           S2 == S3 \ {c}
           S1 == S2 \ {b}
           S0 == S1 \ {a}
<1>1. S0 = {}
  OBVIOUS
<1>2. S4 \subseteq S3 \cup {d} /\ S3 \subseteq S2 \cup {c} /\ S2 \subseteq S1 \cup {b}
      /\ S1 \subseteq S0 \cup {a}
  OBVIOUS
<1>3. IsFiniteSet(S0) /\ Cardinality(S0) = 0
  BY <1>1, FS_EmptySet
<1> HIDE DEF S0, S1, S2, S3, S4
<1>4. IsFiniteSet(S1) /\ Cardinality(S1) \in Nat /\ Cardinality(S1) <= 1
  <2>1. S1 \subseteq S0 \cup {a} /\ IsFiniteSet(S0) /\ Cardinality(S0) <= 0 /\ 0 \in Nat
    BY <1>2, <1>3
  <2>2. IsFiniteSet(S1) /\ Cardinality(S1) \in Nat /\ Cardinality(S1) <= 0 + 1
    BY ONLY <2>1, OneMore
  <2>3. QED
    BY <2>2
<1>5. IsFiniteSet(S2) /\ Cardinality(S2) \in Nat /\ Cardinality(S2) <= 2
  <2>1. S2 \subseteq S1 \cup {b} /\ 1 \in Nat
    BY <1>2
  <2>2. IsFiniteSet(S2) /\ Cardinality(S2) \in Nat /\ Cardinality(S2) <= 1 + 1
    BY ONLY <1>4, <2>1, OneMore
  <2>3. QED
    BY <2>2
<1>6. IsFiniteSet(S3) /\ Cardinality(S3) \in Nat /\ Cardinality(S3) <= 3
  <2>1. S3 \subseteq S2 \cup {c} /\ 2 \in Nat
    BY <1>2
  <2>2. IsFiniteSet(S3) /\ Cardinality(S3) \in Nat /\ Cardinality(S3) <= 2 + 1
    BY ONLY <1>5, <2>1, OneMore
  <2>3. QED
    BY <2>2
<1>7. IsFiniteSet(S4) /\ Cardinality(S4) \in Nat /\ Cardinality(S4) <= 4
  <2> DEFINE n == 3
  <2>1. S4 \subseteq S3 \cup {d} /\ n \in Nat /\ IsFiniteSet(S3) /\ Cardinality(S3) <= n
    BY <1>2, <1>6
  <2>2. n + 1 = 4
    OBVIOUS
  <2> HIDE DEF n
  <2>3. IsFiniteSet(S4) /\ Cardinality(S4) \in Nat /\ Cardinality(S4) <= n + 1
    BY ONLY <2>1, OneMore
  <2>4. QED
    BY <2>2, <2>3
<1>8. QED
  BY <1>7 DEF S4

\* Scope 2 counts eight forms, an eighth each.
LEMMA ScopeTwoIsPercentage == Scope2Progress \in 0..1000
<1> DEFINE L == {f \in LocationFields \cap Forms : Present(f)}
           M == {f \in ScopeTwo.marketBased : Present(f)}
<1>1. L \subseteq {"purchasedElectricity", "cooling", "steam", "heating"}
  BY DEF LocationFields, ScopeTwo
<1>2. M \subseteq {"ipps", "eac", "residual", "coolingSteam"}
  BY DEF ScopeTwo
<1>3. LocationProgress = 250 * Cardinality(L) /\ MarketProgress = 250 * Cardinality(M)
  BY DEF LocationProgress, MarketProgress
<1> HIDE DEF L, M
<1>4. /\ Cardinality(L) \in Nat /\ Cardinality(L) <= 4
      /\ Cardinality(M) \in Nat /\ Cardinality(M) <= 4
  BY <1>1, <1>2, AtMostFour
<1> DEFINE x == 4 * LocationProgress + 4 * MarketProgress
<1>5. x \in Nat /\ x <= 1000 * 8
  BY <1>3, <1>4
<1>6. Scope2Progress = Rounded(x, 8)
  BY DEF Scope2Progress
<1> HIDE DEF x
<1>7. Rounded(x, 8) \in Nat /\ Rounded(x, 8) <= 1000
  BY <1>5, RoundedAtMost
<1>8. QED
  BY <1>6, <1>7

\* The progress of human capital is a percentage.
LEMMA HumanIsPercentage == DataInv => HumanProgress \in 0..1000
<1> SUFFICES ASSUME DataInv PROVE HumanProgress \in 0..1000
  OBVIOUS
<1> DEFINE S == {g \in DOMAIN HumanWeight : Started(g)}
           x == SumFunction([g \in S |-> GroupProgress(g) * HumanWeight[g]])
           w == [g \in S |-> HumanWeight[g]]
           m == SumFunction(w)
<1>1. IsFiniteSet(S) /\ x \in Nat /\ x <= 1000 * SumFunctionOnSet(HumanWeight, S)
  BY TopicLists, WeightedIsBounded
<1>2. m = SumFunctionOnSet(HumanWeight, S)
  <2>1. SumFunction(w) = SumFunctionOnSet(w, S)
    BY DEF SumFunction
  <2>2. \A g \in S : w[g] \in Int /\ w[g] = HumanWeight[g]
    BY TopicLists
  <2> HIDE DEF w, S
  <2>3. SumFunctionOnSet(w, S) = SumFunctionOnSet(HumanWeight, S)
    BY <1>1, <2>2, SumSame
  <2>4. QED
    BY <2>1, <2>3
<1>3. S # {} => m \in Nat \ {0}
  <2>1. DOMAIN w = S /\ \A g \in S : w[g] \in Nat \ {0}
    BY TopicLists
  <2> HIDE DEF S, w
  <2>2. QED
    BY <1>1, <2>1, SumIsPositive
<1>4. HumanProgress = IF S = {} THEN 0 ELSE Rounded(x, m)
  BY DEF HumanProgress
<1> HIDE DEF x, S, w, m
<1>5. S # {} => Rounded(x, m) \in Nat /\ Rounded(x, m) <= 1000
  BY <1>1, <1>2, <1>3, RoundedAtMost
<1>6. QED
  BY <1>4, <1>5

\* So is the plain mean of the topics that were begun.
LEMMA PlainMeanIsPercentage ==
  ASSUME DataInv, NEW groups \in SUBSET Groups, IsFiniteSet(groups)
  PROVE  AverageOf(groups, << >>) \in 0..1000
<1>1. SumFunction(<< >>) \in Nat /\ Len(<< >>) \in Nat
  BY NoOthers
<1>2. QED
  BY <1>1, MeanIsPercentage, ZenonT(60)

\* Every figure the progress pages show is a percentage or absent.
LEMMA FiguresArePercentages ==
  ASSUME DataInv, NEW name \in FigureNames
  PROVE  Figure(name) = None \/ Figure(name) \in 0..1000
<1>1. Scope3Progress \in 0..1000
  BY PlainMeanIsPercentage, ListsOfTopics, TwoAreFinite DEF Scope3Progress
<1>2. FoundationalProgress \in 0..1000
  BY PlainMeanIsPercentage, ListsOfTopics, ThreeAreFinite DEF FoundationalProgress
<1>3. SocialProgress \in 0..1000
  BY PlainMeanIsPercentage, ListsOfTopics, TwoAreFinite DEF SocialProgress
<1>4. LeadershipProgress \in 0..1000
  BY PlainMeanIsPercentage, ListsOfTopics, TwoAreFinite DEF LeadershipProgress
<1>5. BusinessProgress \in 0..1000
  BY PlainMeanIsPercentage, ListsOfTopics, TwoAreFinite DEF BusinessProgress
<1>6. Scope1Progress \in 0..1000 /\ Scope2Progress \in 0..1000 /\ HumanProgress \in 0..1000
  BY ScopeOneIsPercentage, ScopeTwoIsPercentage, HumanIsPercentage
<1>7. EnvironmentalProgress \in 0..1000
  <2> DEFINE others == <<Scope1Progress, Scope2Progress, Scope3Progress>>
  <2>1. SumFunction(others) = Scope1Progress + Scope2Progress + Scope3Progress
        /\ Len(others) = 3
    BY <1>1, <1>6, ThreeScopes
  <2>2. SumFunction(others) \in Nat /\ Len(others) \in Nat
    BY <1>1, <1>6, <2>1
  <2>3. EnvironmentalProgress = AverageOf(EnvironmentTopics, others)
    BY DEF EnvironmentalProgress
  <2> HIDE DEF others
  <2>4. EnvironmentTopics \in SUBSET Groups /\ IsFiniteSet(EnvironmentTopics)
    BY TopicLists
  <2>5. AverageOf(EnvironmentTopics, others) \in 0..1000
    BY <2>2, <2>4, MeanIsPercentage, ZenonT(60)
  <2>6. QED
    BY <2>3, <2>5
<1>8. CASE name \in Groups
  <2>1. Figure(name) = GroupProgress(name)
    BY <1>8, GroupsAre DEF Figure
  <2>2. CASE Started(name)
    BY <1>8, <2>1, <2>2, TopicIsPercentage
  <2>3. CASE ~Started(name)
    BY <2>1, <2>3 DEF GroupProgress
  <2>4. QED
    BY <2>2, <2>3
<1>9. CASE name = "scope1"
  BY <1>6, <1>9 DEF Figure
<1>10. CASE name = "scope2"
  BY <1>6, <1>10 DEF Figure
<1>11. CASE name = "scope3"
  BY <1>1, <1>11 DEF Figure
<1>12. CASE name = "environment"
  BY <1>7, <1>12 DEF Figure
<1>13. CASE name = "foundational"
  BY <1>2, <1>13 DEF Figure
<1>14. CASE name = "social"
  BY <1>3, <1>14 DEF Figure
<1>15. CASE name = "human"
  BY <1>6, <1>15 DEF Figure
<1>16. CASE name = "business"
  BY <1>5, <1>16 DEF Figure
<1>17. CASE name = "leadership"
  BY <1>4, <1>17 DEF Figure
<1>18. QED
  BY <1>8, <1>9, <1>10, <1>11, <1>12, <1>13, <1>14, <1>15, <1>16, <1>17 DEF FigureNames

(***************************************************************************)
(* TypeOK: in every state saves, submissions and stored reports can reach, *)
(* the document has its shape, its copies follow it, and every progress    *)
(* figure is missing or between 0 and 100%.  recalculate.                  *)
(***************************************************************************)
THEOREM TypeCorrect == DocumentSpec => []TypeOK
<1>1. DataInv /\ NumbersInv => TypeOK
  BY FiguresArePercentages DEF TypeOK
<1>2. QED
  BY <1>1, DocumentInvariance, PTL

-----------------------------------------------------------------------------
(* The figures of the calculator add up.                                    *)

\* A sum over two sets that share nothing.
LEMMA SumUnion ==
  ASSUME NEW f, NEW S, NEW T, IsFiniteSet(S), IsFiniteSet(T), S \cap T = {},
         \A x \in S \cup T : f[x] \in Int
  PROVE  SumFunctionOnSet(f, S \cup T) = SumFunctionOnSet(f, S) + SumFunctionOnSet(f, T)
<1> DEFINE C == {B \in SUBSET T :
                   SumFunctionOnSet(f, S \cup B) = SumFunctionOnSet(f, S) + SumFunctionOnSet(f, B)}
<1>1. {} \in C
  <2>1. S \cup {} = S /\ SumFunctionOnSet(f, S) \in Int
    BY SumInt
  <2>2. QED
    BY <2>1, SumEmpty
<1>2. ASSUME NEW B \in SUBSET T, NEW x \in T, B \in C, x \notin B PROVE B \cup {x} \in C
  <2> DEFINE D == S \cup B
  <2>1. IsFiniteSet(B) /\ IsFiniteSet(D) /\ f[x] \in Int /\ x \notin D
        /\ (\A z \in B : f[z] \in Int) /\ (\A z \in D : f[z] \in Int)
        /\ \A z \in S : f[z] \in Int
    BY <1>2, FS_Subset, FS_Union
  <2>2. S \cup (B \cup {x}) = D \cup {x}
    OBVIOUS
  <2>3. SumFunctionOnSet(f, D) = SumFunctionOnSet(f, S) + SumFunctionOnSet(f, B)
    BY <1>2
  <2> HIDE DEF D
  <2>4. SumFunctionOnSet(f, D \cup {x}) = SumFunctionOnSet(f, D) + f[x]
    BY <2>1, SumAdd
  <2>5. SumFunctionOnSet(f, B \cup {x}) = SumFunctionOnSet(f, B) + f[x]
    BY <1>2, <2>1, SumAdd
  <2>6. SumFunctionOnSet(f, S) \in Int /\ SumFunctionOnSet(f, B) \in Int
    BY <2>1, SumInt
  <2>7. SumFunctionOnSet(f, D \cup {x}) = SumFunctionOnSet(f, S) + SumFunctionOnSet(f,
        B \cup {x})
    BY <2>1, <2>3, <2>4, <2>5, <2>6
  <2>8. QED
    BY <2>2, <2>7
<1> HIDE DEF C
<1>3. SUBSET T \subseteq C
  <2>1. \A B \in SUBSET T, x \in T : B \in C /\ x \notin B => B \cup {x} \in C
    BY <1>2
  <2>2. QED
    BY ONLY <1>1, <2>1, SubsetInduction, IsFiniteSet(T)
<1>4. T \in C
  BY <1>3
<1>5. QED
  BY <1>4 DEF C

\* A sum along a sequence, or any function, that takes every value once.
LEMMA SumImage ==
  ASSUME NEW f, NEW h, NEW q, NEW I, NEW S, IsFiniteSet(I),
         \A i \in I : q[i] \in S /\ h[i] = f[q[i]] /\ h[i] \in Int,
         \A s \in S : \E i \in I : q[i] = s,
         \A i, j \in I : q[i] = q[j] => i = j
  PROVE  SumFunctionOnSet(h, I) = SumFunctionOnSet(f, S)
<1> DEFINE Image(A) == {q[i] : i \in A}
           C == {A \in SUBSET I : /\ IsFiniteSet(Image(A))
                                  /\ SumFunctionOnSet(h, A) = SumFunctionOnSet(f, Image(A))}
<1>1. {} \in C
  <2>1. Image({}) = {}
    OBVIOUS
  <2>2. QED
    BY <2>1, SumEmpty, FS_EmptySet
<1>2. ASSUME NEW A \in SUBSET I, NEW x \in I, A \in C, x \notin A PROVE A \cup {x} \in C
  <2>1. IsFiniteSet(A) /\ (\A i \in A : h[i] \in Int) /\ h[x] = f[q[x]] /\ h[x] \in Int
    BY FS_Subset
  <2>2. Image(A \cup {x}) = Image(A) \cup {q[x]} /\ q[x] \notin Image(A)
        /\ \A y \in Image(A) : f[y] \in Int
    BY <1>2
  <2>3. IsFiniteSet(Image(A)) /\ SumFunctionOnSet(h, A) = SumFunctionOnSet(f, Image(A))
    BY <1>2
  <2> HIDE DEF Image
  <2>4. SumFunctionOnSet(h, A \cup {x}) = SumFunctionOnSet(h, A) + h[x]
    BY <1>2, <2>1, SumAdd
  <2>5. SumFunctionOnSet(f, Image(A) \cup {q[x]}) = SumFunctionOnSet(f, Image(A)) + f[q[x]]
    BY <2>1, <2>2, <2>3, SumAdd
  <2>6. IsFiniteSet(Image(A) \cup {q[x]})
    BY <2>3, FS_AddElement
  <2>7. SumFunctionOnSet(h, A \cup {x}) = SumFunctionOnSet(f, Image(A \cup {x}))
    BY <2>1, <2>2, <2>3, <2>4, <2>5
  <2>8. IsFiniteSet(Image(A \cup {x}))
    BY <2>2, <2>6
  <2>9. QED
    BY <2>7, <2>8
<1>3. Image(I) = S
  OBVIOUS
<1> HIDE DEF C
<1>4. SUBSET I \subseteq C
  BY <1>1, <1>2, SubsetInduction
<1>5. I \in C
  BY <1>4
<1>6. SumFunctionOnSet(h, I) = SumFunctionOnSet(f, Image(I))
  BY <1>5 DEF C
<1>7. QED
  BY <1>3, <1>6

\* A sum over parts that share nothing, part by part.
LEMMA SumPartition ==
  ASSUME NEW f, NEW h, NEW part, NEW K, NEW U, IsFiniteSet(K),
         \A k \in K : IsFiniteSet(part[k]) /\ part[k] \subseteq U
                     /\ h[k] = SumFunctionOnSet(f, part[k]),
         \A k, l \in K : k = l \/ part[k] \cap part[l] = {},
         \A s \in U : f[s] \in Int /\ \E k \in K : s \in part[k]
  PROVE  SumFunctionOnSet(h, K) = SumFunctionOnSet(f, U)
<1> DEFINE Of(A) == UNION {part[k] : k \in A}
           C == {A \in SUBSET K : /\ IsFiniteSet(Of(A))
                                  /\ SumFunctionOnSet(h, A) = SumFunctionOnSet(f, Of(A))}
<1>0. \A k \in K : h[k] \in Int /\ h[k] = SumFunctionOnSet(f, part[k])
  BY SumInt
<1>1. {} \in C
  <2>1. Of({}) = {}
    OBVIOUS
  <2>2. QED
    BY <2>1, SumEmpty, FS_EmptySet
<1>2. ASSUME NEW A \in SUBSET K, NEW x \in K, A \in C, x \notin A PROVE A \cup {x} \in C
  <2> DEFINE S == Of(A)
             p == part[x]
  <2>1. IsFiniteSet(A) /\ \A z \in A : h[z] \in Int
    BY <1>0, FS_Subset
  <2>2. IsFiniteSet(S) /\ SumFunctionOnSet(h, A) = SumFunctionOnSet(f, S)
    BY <1>2
  <2>3. Of(A \cup {x}) = S \cup p
    OBVIOUS
  <2>4. S \cap p = {} /\ IsFiniteSet(p) /\ \A s \in S \cup p : f[s] \in Int
    BY <1>2
  <2>5. h[x] = SumFunctionOnSet(f, p)
    OBVIOUS
  <2> HIDE DEF S, p
  <2>6. SumFunctionOnSet(h, A \cup {x}) = SumFunctionOnSet(h, A) + h[x]
    BY <1>0, <1>2, <2>1, SumAdd
  <2>7. SumFunctionOnSet(f, S \cup p) = SumFunctionOnSet(f, S) + SumFunctionOnSet(f, p)
    BY <2>2, <2>4, SumUnion
  <2>8. IsFiniteSet(S \cup p)
    BY <2>2, <2>4, FS_Union
  <2>9. SumFunctionOnSet(h, A \cup {x}) = SumFunctionOnSet(f, S \cup p)
    BY <2>2, <2>5, <2>6, <2>7
  <2>10. QED
    BY <2>3, <2>8, <2>9
<1>3. Of(K) = U
  OBVIOUS
<1> HIDE DEF C
<1>4. SUBSET K \subseteq C
  BY <1>1, <1>2, SubsetInduction
<1>5. K \in C
  BY <1>4
<1>6. SumFunctionOnSet(h, K) = SumFunctionOnSet(f, Of(K))
  BY <1>5 DEF C
<1>7. QED
  BY <1>3, <1>6

(***************************************************************************)
(* The scopes add up to the total within two units of the last digit:      *)
(* three roundings of half a unit each, and one of the total.              *)
(***************************************************************************)
LEMMA ScopesAddUp ==
  ASSUME NEW doc, doc \in [R!Sources -> Seq(AnyEntry)]
  PROVE  Near(SumFunction([sc \in R!Scopes |-> R!ScopeEmission(doc, sc)]),
              R!TotalEmission(doc), 2)
<1> DEFINE f == [sc \in R!Scopes |-> R!ScopeEmission(doc, sc)]
           g == [sc \in R!Scopes |-> R!RawScope(doc, sc)]
           a == SumFunctionOnSet(f, R!Scopes)
           b == SumFunctionOnSet(g, R!Scopes)
<1>1. \A sc \in R!Scopes : f[sc] \in Int /\ g[sc] \in Int /\ -499 <= f[sc] - g[sc] /\ f[sc] - g[sc] <= 500
  <2>1. ASSUME NEW sc \in R!Scopes
        PROVE  /\ R!ScopeEmission(doc, sc) \in Int /\ R!RawScope(doc, sc) \in Int
               /\ -499 <= R!ScopeEmission(doc, sc) - R!RawScope(doc, sc)
               /\ R!ScopeEmission(doc, sc) - R!RawScope(doc, sc) <= 500
    BY ScopeEmissionIs, RawScopeIsNat
  <2>2. QED
    BY <2>1
<1>2. SumFunction(f) = a
  BY DEF SumFunction
<1>3. R!RawTotal(doc) = b /\ b \in Nat
  BY RawTotalIs
<1> HIDE DEF f, g
<1>4. a \in Int
  <2>1. \A sc \in R!Scopes : f[sc] \in Int
    BY <1>1
  <2>2. QED
    BY <2>1, ScopesAre, SumInt
<1>5. -499 * 3 <= a - b /\ a - b <= 500 * 3
  <2> DEFINE lo == -499
             hi == 500
  <2>1. lo \in Int /\ hi \in Int
    OBVIOUS
  <2>2. \A x \in R!Scopes : f[x] \in Int /\ g[x] \in Int /\ lo <= f[x] - g[x] /\ f[x] - g[x] <= hi
    BY <1>1
  <2> HIDE DEF lo, hi
  <2>3. LET d == a - b IN lo * Cardinality(R!Scopes) <= d /\ d <= hi * Cardinality(R!Scopes)
    BY <2>1, <2>2, ScopesAre, SumNear
  <2>4. QED
    BY <2>3, ScopesAre DEF lo, hi
<1> HIDE DEF a, b
<1>6. R!TotalEmission(doc) \in Nat /\ R!TotalEmission(doc) - b <= 500 /\ b - R!TotalEmission(doc) <= 499
  BY <1>3, ToFixed4Is DEF R!TotalEmission
<1>7. a - R!TotalEmission(doc) <= 2 * 1000 /\ R!TotalEmission(doc) - a <= 2 * 1000
  BY <1>3, <1>4, <1>5, <1>6
<1>8. QED
  BY <1>2, <1>7, TickIs DEF Near, f

(***************************************************************************)
(* The stamped entries of a fuel list add up to the list within one unit   *)
(* per entry and one more.                                                 *)
(***************************************************************************)
LEMMA EntriesAddUp ==
  ASSUME NEW doc, doc \in [R!Sources -> Seq(AnyEntry)], NEW s \in R!Fuels
  PROVE  Near(SumFunction([i \in DOMAIN doc[s] |-> R!EntryStamp(doc, s, doc[s][i])]),
              R!Emission(doc, s), Len(doc[s]) + 1)
<1> DEFINE f == [i \in DOMAIN doc[s] |-> R!EntryStamp(doc, s, doc[s][i])]
           g == [i \in DOMAIN doc[s] |-> R!EntryEmission(doc, s, doc[s][i])]
           I == DOMAIN doc[s]
           n == Len(doc[s])
           a == SumFunctionOnSet(f, I)
           b == SumFunctionOnSet(g, I)
<1>1. s \in R!Sources /\ doc[s] \in Seq(AnyEntry)
  BY SourcesHaveFactors
<1>2. n \in Nat /\ IsFiniteSet(I) /\ Cardinality(I) = n
  <2>1. n \in Nat /\ I = 1..n
    BY <1>1
  <2>2. IsFiniteSet(1..n) /\ Cardinality(1..n) = n
    BY <2>1, FS_Interval
  <2> DEFINE J == 1..n
  <2>3. I = J
    BY <2>1
  <2> HIDE DEF I, n
  <2>4. IsFiniteSet(J) /\ Cardinality(J) = n
    BY <2>2
  <2> HIDE DEF J
  <2>5. QED
    BY <2>1, <2>3, <2>4
<1>3. \A i \in I : f[i] \in Int /\ g[i] \in Int /\ -499 <= f[i] - g[i] /\ f[i] - g[i] <= 500
  <2>1. ASSUME NEW i \in I PROVE /\ f[i] \in Int /\ g[i] \in Int
                                 /\ -499 <= f[i] - g[i] /\ f[i] - g[i] <= 500
    <3>1. doc[s][i] \in AnyEntry
      BY <1>1
    <3>2. R!EntryEmission(doc, s, doc[s][i]) \in Nat
      BY <1>1, <3>1, FactorIsNat
    <3> DEFINE y == R!EntryEmission(doc, s, doc[s][i])
    <3>3. f[i] = R!ToFixed4(y) /\ g[i] = y
      BY DEF R!EntryStamp
    <3> HIDE DEF f, g, y
    <3> HIDE DEF I
    <3> DEFINE z == R!ToFixed4(y)
    <3>4. y \in Nat
      BY <3>2 DEF y
    <3>5. z \in Nat /\ z - y <= 500 /\ y - z <= 499
      BY <3>4, ToFixed4Is
    <3>6. f[i] = z
      BY <3>3
    <3> HIDE DEF z
    <3>7. QED
      BY <3>3, <3>4, <3>5, <3>6
  <2> HIDE DEF f, g, I
  <2>2. QED
    BY <2>1
<1>4. SumFunction(f) = a
  BY DEF SumFunction
<1>5. R!Emission(doc, s) = R!ToFixed4(b)
  <2>1. DOMAIN g = I
    OBVIOUS
  <2>2. QED
    BY <2>1, SumInReporting DEF R!Emission, R!SumFunction
<1>6. \A i \in I : g[i] \in Nat
  BY <1>1, FactorIsNat
<1> HIDE DEF f, g, I, n
<1>7. b \in Nat
  BY <1>2, <1>6, SumNat
<1>8. a \in Int
  <2>1. \A i \in I : f[i] \in Int
    BY <1>3
  <2>2. QED
    BY <1>2, <2>1, SumInt
<1>9. -499 * n <= a - b /\ a - b <= 500 * n
  <2> DEFINE lo == -499
             hi == 500
  <2>1. lo \in Int /\ hi \in Int
    OBVIOUS
  <2>2. \A x \in I : f[x] \in Int /\ g[x] \in Int /\ lo <= f[x] - g[x] /\ f[x] - g[x] <= hi
    BY <1>3
  <2> HIDE DEF lo, hi
  <2>3. LET d == a - b IN lo * Cardinality(I) <= d /\ d <= hi * Cardinality(I)
    BY <1>2, <2>1, <2>2, ScopesAre, SumNear
  <2>4. QED
    BY <1>2, <2>3 DEF lo, hi
<1> DEFINE e == R!ToFixed4(b)
<1>10. e \in Nat /\ e - b <= 500 /\ b - e <= 499
  BY <1>7, ToFixed4Is
<1> HIDE DEF a, b, e
<1>11. a - e <= (n + 1) * 1000 /\ e - a <= (n + 1) * 1000
  BY <1>2, <1>7, <1>8, <1>9, <1>10
<1>12. QED
  BY <1>4, <1>5, <1>11, TickIs DEF Near, f, n, I, e

\* A function takes finitely many values on a finite set.
LEMMA ImageIsFinite ==
  ASSUME NEW q, NEW I, IsFiniteSet(I)
  PROVE  IsFiniteSet({q[i] : i \in I})
<1> DEFINE h == [i \in I |-> q[i]]
           T == {q[i] : i \in I}
<1>1. h \in Surjection(I, T)
  BY DEF Surjection
<1>2. QED
  BY <1>1, FS_Surjection

\* Finitely many finite sets have a finite union.
LEMMA UnionIsFinite ==
  ASSUME NEW part, NEW K, IsFiniteSet(K), \A k \in K : IsFiniteSet(part[k])
  PROVE  IsFiniteSet(UNION {part[k] : k \in K})
<1> DEFINE Of(A) == UNION {part[k] : k \in A}
           C == {A \in SUBSET K : IsFiniteSet(Of(A))}
<1>1. {} \in C
  <2>1. Of({}) = {}
    OBVIOUS
  <2>2. QED
    BY <2>1, FS_EmptySet
<1>2. ASSUME NEW A \in SUBSET K, NEW x \in K, A \in C, x \notin A PROVE A \cup {x} \in C
  <2>1. Of(A \cup {x}) = Of(A) \cup part[x]
    OBVIOUS
  <2>2. IsFiniteSet(Of(A)) /\ IsFiniteSet(part[x])
    BY <1>2
  <2> HIDE DEF Of
  <2>3. IsFiniteSet(Of(A) \cup part[x])
    BY <2>2, FS_Union
  <2>4. QED
    BY <2>1, <2>3
<1> HIDE DEF C
<1>3. SUBSET K \subseteq C
  BY <1>1, <1>2, SubsetInduction
<1>4. K \in C
  BY <1>3
<1>5. QED
  BY <1>4 DEF C

\* No group lists a source twice.
LEMMA SourcesAreListedOnce ==
  ASSUME NEW g \in R!Groups
  PROVE  \A i, j \in DOMAIN R!SourcesOf[g] :
            R!SourcesOf[g][i] = R!SourcesOf[g][j] => i = j
<1>1. R!Groups = {"stationarySources", "mobileSources", "processEmissions", "fugitiveEmissions",
                  "locationBased", "marketBased", "upstream", "downstream"}
  BY DEF R!Groups, R!SourcesOf
<1>2. CASE g = "stationarySources"
  BY <1>2 DEF R!SourcesOf, R!StationarySources
<1>3. CASE g = "mobileSources"
  BY <1>3 DEF R!SourcesOf, R!MobileSources
<1>4. CASE g = "processEmissions"
  BY <1>4 DEF R!SourcesOf, R!ProcessSources
<1>5. CASE g = "fugitiveEmissions"
  BY <1>5 DEF R!SourcesOf, R!FugitiveSources
<1>6. CASE g = "locationBased"
  BY <1>6 DEF R!SourcesOf, R!LocationSources
<1>7. CASE g = "marketBased"
  BY <1>7 DEF R!SourcesOf, R!MarketSources
<1>8. CASE g = "upstream"
  BY <1>8 DEF R!SourcesOf, R!UpstreamSources
<1>9. CASE g = "downstream"
  BY <1>9 DEF R!SourcesOf, R!DownstreamSources
<1>10. QED
  BY <1>1, <1>2, <1>3, <1>4, <1>5, <1>6, <1>7, <1>8, <1>9

\* What the forms of a group are to it: finite sets that share no source and hold them all.
IsSplit(F, S) ==
  /\ IsFiniteSet(F)
  /\ \A x \in F : IsFiniteSet(x)
  /\ \A x, y \in F : x = y \/ x \cap y = {}
  /\ UNION F = S

\* The forms of a group split its sources.
LEMMA FormsSplitGroups ==
  ASSUME NEW g \in DOMAIN R!FormsOf
  PROVE  g \in R!Groups /\ IsSplit(R!FormsOf[g], R!ToSet(R!SourcesOf[g]))
<1> DEFINE F == R!FormsOf[g]
           S == R!ToSet(R!SourcesOf[g])
<1>1. DOMAIN R!FormsOf = {"stationarySources", "processEmissions", "fugitiveEmissions",
                          "locationBased", "marketBased", "upstream", "downstream"}
  BY DEF R!FormsOf
<1>2. g \in R!Groups
  BY <1>1 DEF R!Groups, R!SourcesOf
<1>3. UNION F = S /\ \A x, y \in F : \A s \in x \cap y : x = y
  <2>1. CASE g = "stationarySources"
    BY <2>1, SourceSets DEF R!SourcesOf, R!FormsOf
  <2>2. CASE g = "processEmissions"
    BY <2>2, SourceSets DEF R!SourcesOf, R!FormsOf
  <2>3. CASE g = "fugitiveEmissions"
    BY <2>3, SourceSets DEF R!SourcesOf, R!FormsOf
  <2>4. CASE g = "locationBased"
    BY <2>4, SourceSets DEF R!SourcesOf, R!FormsOf
  <2>5. CASE g = "marketBased"
    BY <2>5, SourceSets DEF R!SourcesOf, R!FormsOf
  <2>6. CASE g = "upstream"
    BY <2>6, SourceSets DEF R!SourcesOf, R!FormsOf
  <2>7. CASE g = "downstream"
    BY <2>7, SourceSets DEF R!SourcesOf, R!FormsOf
  <2>8. QED
    BY <1>1, <2>1, <2>2, <2>3, <2>4, <2>5, <2>6, <2>7
<1>4. IsFiniteSet(S)
  <2> DEFINE q == R!SourcesOf[g]
  <2>1. S = {q[i] : i \in DOMAIN q} /\ IsFiniteSet(DOMAIN q)
    BY <1>2, SequencesOfSources DEF R!ToSet
  <2> HIDE DEF q, S
  <2>2. QED
    BY <2>1, ImageIsFinite
<1> HIDE DEF F, S
<1>5. IsFiniteSet(F) /\ \A x \in F : IsFiniteSet(x)
  <2>1. F \subseteq SUBSET S
    BY <1>3
  <2>2. QED
    BY <1>4, <2>1, FS_SUBSET, FS_Subset
<1>6. \A x, y \in F : x = y \/ x \cap y = {}
  BY <1>3
<1>7. IsSplit(F, S)
  BY <1>3, <1>5, <1>6 DEF IsSplit
<1>8. QED
  BY <1>2, <1>7 DEF F, S

EmissionsOf(doc) == [s \in R!Sources |-> R!Emission(doc, s)]

\* The emission of a group is the sum over the set of its sources.
LEMMA GroupIsSum ==
  ASSUME NEW doc, doc \in [R!Sources -> Seq(AnyEntry)], NEW g \in R!Groups
  PROVE  R!GroupEmission(doc, g) = SumFunctionOnSet(EmissionsOf(doc), R!ToSet(R!SourcesOf[g]))
<1> DEFINE q == R!SourcesOf[g]
           I == DOMAIN q
           S == R!ToSet(q)
           E == EmissionsOf(doc)
           k == [i \in I |-> R!Emission(doc, q[i])]
<1>1. IsFiniteSet(I) /\ (\A i \in I : q[i] \in R!Sources) /\ \A i, j \in I : q[i] = q[j] => i = j
  BY SequencesOfSources, SourcesAreListedOnce
<1>2. R!GroupEmission(doc, g) = SumFunctionOnSet(k, I)
  BY GroupEmissionIs
<1>3. \A i \in I : q[i] \in S /\ k[i] = E[q[i]] /\ k[i] \in Int
  BY <1>1, EmissionIsNat DEF R!ToSet, EmissionsOf
<1>4. \A s \in S : \E i \in I : q[i] = s
  BY DEF R!ToSet
<1> HIDE DEF k, q, E, I, S
<1>5. SumFunctionOnSet(k, I) = SumFunctionOnSet(E, S)
  BY <1>1, <1>3, <1>4, SumImage
<1>6. QED
  BY <1>2, <1>5 DEF E, S, q

(***************************************************************************)
(* The forms of a group add up to the group within one unit per form: they *)
(* share no source, hold all of them, and each is rounded once.            *)
(***************************************************************************)
LEMMA FormsAddUp ==
  ASSUME NEW doc, doc \in [R!Sources -> Seq(AnyEntry)], NEW g \in DOMAIN R!FormsOf
  PROVE  Near(SumFunction([form \in R!FormsOf[g] |-> R!FormEmission(doc, form)]),
              R!GroupEmission(doc, g), Cardinality(R!FormsOf[g]))
<1> DEFINE F == R!FormsOf[g]
           S == R!ToSet(R!SourcesOf[g])
           E == EmissionsOf(doc)
           part == [form \in F |-> form]
           f == [form \in F |-> R!FormEmission(doc, form)]
           h == [form \in F |-> SumFunctionOnSet(E, form)]
           a == SumFunctionOnSet(f, F)
           b == SumFunctionOnSet(h, F)
           n == Cardinality(F)
<1>1. g \in R!Groups /\ IsSplit(F, S)
  BY FormsSplitGroups
<1>2. S \subseteq R!Sources
  BY <1>1 DEF R!Sources
<1>3. \A s \in R!Sources : E[s] = R!Emission(doc, s) /\ E[s] \in Nat
  BY EmissionIsNat DEF EmissionsOf
<1>4. R!GroupEmission(doc, g) = SumFunctionOnSet(E, S)
  BY <1>1, GroupIsSum
<1> HIDE DEF F, S, E
<1>7. b = SumFunctionOnSet(E, S)
  <2>1. /\ IsFiniteSet(F) /\ (\A x \in F : IsFiniteSet(x))
        /\ (\A x, y \in F : x = y \/ x \cap y = {}) /\ UNION F = S
    BY <1>1 DEF IsSplit
  <2>2. \A x \in F : IsFiniteSet(part[x]) /\ part[x] \subseteq S
                     /\ h[x] = SumFunctionOnSet(E, part[x])
    BY <2>1
  <2>3. \A x, y \in F : x = y \/ part[x] \cap part[y] = {}
    BY <2>1
  <2>4. \A s \in S : E[s] \in Int /\ \E x \in F : s \in part[x]
    BY <1>2, <1>3, <2>1
  <2> HIDE DEF part, h
  <2>5. IsFiniteSet(F)
    BY <2>1
  <2>6. QED
    BY <2>2, <2>3, <2>4, <2>5, SumPartition
<1>8. ASSUME NEW form \in F
      PROVE  h[form] \in Nat /\ f[form] = R!ToFixed4(h[form])
  <2> DEFINE e == [s \in form |-> R!Emission(doc, s)]
  <2>1. IsFiniteSet(form) /\ form \subseteq R!Sources
    BY <1>1, <1>2 DEF IsSplit
  <2>2. \A s \in form : e[s] \in Int /\ e[s] = E[s] /\ E[s] \in Nat
    BY <1>3, <2>1
  <2>3. f[form] = R!ToFixed4(SumFunctionOnSet(e, form))
    BY SumInReporting DEF R!FormEmission, R!SumFunction
  <2> HIDE DEF e
  <2>4. SumFunctionOnSet(e, form) = SumFunctionOnSet(E, form)
    BY <2>1, <2>2, SumSame
  <2>5. SumFunctionOnSet(E, form) \in Nat
    BY <2>1, <2>2, SumNat
  <2>6. h[form] = SumFunctionOnSet(E, form)
    OBVIOUS
  <2>7. QED
    BY <2>3, <2>4, <2>5, <2>6
<1>9. SumFunction(f) = a
  BY DEF SumFunction
<1> HIDE DEF f, h
<1>10. \A x \in F : f[x] \in Int /\ h[x] \in Int /\ -499 <= f[x] - h[x] /\ f[x] - h[x] <= 500
  <2>1. ASSUME NEW x \in F
        PROVE  f[x] \in Int /\ h[x] \in Int /\ -499 <= f[x] - h[x] /\ f[x] - h[x] <= 500
    <3>1. h[x] \in Nat /\ f[x] = R!ToFixed4(h[x])
      BY <1>8
    <3> DEFINE y == h[x]
    <3> HIDE DEF y
    <3>2. y \in Nat /\ f[x] = R!ToFixed4(y)
      BY <3>1 DEF y
    <3> DEFINE z == R!ToFixed4(y)
    <3>3. z \in Nat /\ z - y <= 500 /\ y - z <= 499
      BY <3>2, ToFixed4Is
    <3> HIDE DEF z
    <3>4. -499 <= z - y
      BY <3>2, <3>3
    <3>5. QED
      BY <3>2, <3>3, <3>4 DEF y, z
  <2>2. QED
    BY <2>1
<1>11. IsFiniteSet(F) /\ n \in Nat
  BY <1>1, FS_CardinalityType DEF IsSplit
<1>12. a \in Int /\ b \in Int
  <2>1. (\A x \in F : f[x] \in Int) /\ \A x \in F : h[x] \in Int
    BY <1>10
  <2>2. QED
    BY <1>11, <2>1, SumInt
<1>13. -499 * n <= a - b /\ a - b <= 500 * n
  <2> DEFINE lo == -499
             hi == 500
  <2>1. lo \in Int /\ hi \in Int
    OBVIOUS
  <2>2. \A x \in F : f[x] \in Int /\ h[x] \in Int /\ lo <= f[x] - h[x] /\ f[x] - h[x] <= hi
    BY <1>10
  <2> HIDE DEF lo, hi
  <2>3. LET d == a - b IN lo * Cardinality(F) <= d /\ d <= hi * Cardinality(F)
    BY <1>11, <2>1, <2>2, SumNear
  <2> HIDE DEF a, b
  <2>4. lo * n <= a - b /\ a - b <= hi * n
    BY <2>3
  <2> HIDE DEF n
  <2>5. QED
    BY <1>11, <1>12, <2>4 DEF lo, hi
<1>14. R!GroupEmission(doc, g) = b
  BY <1>4, <1>7
<1> HIDE DEF a, b, n
<1>15. a - b <= n * 1000 /\ b - a <= n * 1000
  BY <1>11, <1>12, <1>13
<1>16. QED
  BY <1>9, <1>14, <1>15, TickIs DEF Near, f, F, n

-----------------------------------------------------------------------------
(* The total is the sum over all sources.                                   *)

SourcesIn(sc) == UNION {R!ToSet(R!SourcesOf[g]) : g \in R!GroupsOf[sc]}

\* No source is in two groups, no group in two scopes.
LEMMA GroupsShareNothing ==
  /\ \A g, h \in R!Groups : g = h \/ R!ToSet(R!SourcesOf[g]) \cap R!ToSet(R!SourcesOf[h]) = {}
  /\ \A a, b \in R!Scopes : a = b \/ R!GroupsOf[a] \cap R!GroupsOf[b] = {}
  /\ \A g \in R!Groups : \E sc \in R!Scopes : g \in R!GroupsOf[sc]
<1>1. \A g, h \in R!Groups : \A s \in R!ToSet(R!SourcesOf[g]) \cap
      R!ToSet(R!SourcesOf[h]) : g = h
  BY SourceSets DEF R!Groups, R!SourcesOf
<1>2. \A a, b \in R!Scopes : \A g \in R!GroupsOf[a] \cap R!GroupsOf[b] : a = b
  BY ScopesAre DEF R!GroupsOf
<1>3. \A g \in R!Groups : \E sc \in R!Scopes : g \in R!GroupsOf[sc]
  BY ScopesAre DEF R!GroupsOf, R!Groups, R!SourcesOf
<1>4. QED
  BY <1>1, <1>2, <1>3

\* The sources of a group are finitely many of all sources.
LEMMA SourcesOfGroupAre ==
  ASSUME NEW g \in R!Groups
  PROVE  R!ToSet(R!SourcesOf[g]) \subseteq R!Sources /\ IsFiniteSet(R!ToSet(R!SourcesOf[g]))
<1> DEFINE q == R!SourcesOf[g]
           S == R!ToSet(q)
<1>1. S = {q[i] : i \in DOMAIN q} /\ IsFiniteSet(DOMAIN q)
  BY SequencesOfSources DEF R!ToSet
<1>2. S \subseteq R!Sources
  BY DEF R!Sources
<1> HIDE DEF q, S
<1>3. IsFiniteSet(S)
  BY <1>1, ImageIsFinite
<1>4. QED
  BY <1>2, <1>3 DEF S, q

\* The emission of a scope before rounding is the sum over the sources of its
\* groups.
LEMMA ScopeIsSum ==
  ASSUME NEW doc, doc \in [R!Sources -> Seq(AnyEntry)], NEW sc \in R!Scopes
  PROVE  /\ R!RawScope(doc, sc) = SumFunctionOnSet(EmissionsOf(doc), SourcesIn(sc))
         /\ SourcesIn(sc) \subseteq R!Sources /\ IsFiniteSet(SourcesIn(sc))
<1> DEFINE K == R!GroupsOf[sc]
           U == SourcesIn(sc)
           E == EmissionsOf(doc)
           part == [g \in K |-> R!ToSet(R!SourcesOf[g])]
           h == [g \in K |-> R!GroupEmission(doc, g)]
<1>1. IsFiniteSet(K) /\ K \subseteq R!Groups
  BY ScopesAre
<1>2. \A g \in K : part[g] \subseteq U
  BY DEF SourcesIn
<1>3. \A g \in K : IsFiniteSet(part[g]) /\ part[g] \subseteq R!Sources
                   /\ h[g] = SumFunctionOnSet(E, part[g])
  BY <1>1, SourcesOfGroupAre, GroupIsSum
<1>4. \A g, k \in K : g = k \/ part[g] \cap part[k] = {}
  BY <1>1, GroupsShareNothing
<1>5. \A s \in U : \E g \in K : s \in part[g]
  BY DEF SourcesIn
<1>6. \A s \in R!Sources : E[s] \in Int
  BY EmissionIsNat DEF EmissionsOf
<1>7. R!RawScope(doc, sc) = SumFunctionOnSet(h, K)
  BY SumInReporting DEF R!RawScope, R!SumFunction
<1> HIDE DEF K, U, E, part, h
<1>8. U \subseteq R!Sources
  BY <1>3, <1>5
<1>9. \A s \in U : E[s] \in Int /\ \E g \in K : s \in part[g]
  BY <1>5, <1>6, <1>8
<1>10. \A g \in K : IsFiniteSet(part[g]) /\ part[g] \subseteq U
                    /\ h[g] = SumFunctionOnSet(E, part[g])
  BY <1>2, <1>3
<1>11. IsFiniteSet(K)
  BY <1>1
<1>12. SumFunctionOnSet(h, K) = SumFunctionOnSet(E, U)
  BY <1>4, <1>9, <1>10, <1>11, SumPartition
<1>13. IsFiniteSet(U)
  <2>1. U = UNION {part[g] : g \in K}
    BY <1>2, <1>5
  <2>2. QED
    BY <1>10, <1>11, <2>1, UnionIsFinite
<1>14. QED
  BY <1>7, <1>8, <1>12, <1>13 DEF U, E

\* The total before rounding is the sum over all sources.
LEMMA TotalIsSum ==
  ASSUME NEW doc, doc \in [R!Sources -> Seq(AnyEntry)]
  PROVE  /\ R!RawTotal(doc) = SumFunctionOnSet(EmissionsOf(doc), R!Sources)
         /\ IsFiniteSet(R!Sources)
<1> DEFINE K == R!Scopes
           U == R!Sources
           E == EmissionsOf(doc)
           part == [sc \in K |-> SourcesIn(sc)]
           h == [sc \in K |-> R!RawScope(doc, sc)]
<1>1. IsFiniteSet(K)
  BY ScopesAre
<1>2. \A sc \in K : IsFiniteSet(part[sc]) /\ part[sc] \subseteq U
                    /\ h[sc] = SumFunctionOnSet(E, part[sc])
  BY ScopeIsSum
<1>3. \A a, b \in K : a = b \/ part[a] \cap part[b] = {}
  <2>1. ASSUME NEW a \in K, NEW b \in K, NEW s \in part[a], s \in part[b] PROVE a = b
    <3>1. PICK g \in R!GroupsOf[a] : s \in R!ToSet(R!SourcesOf[g])
      BY DEF SourcesIn
    <3>2. PICK k \in R!GroupsOf[b] : s \in R!ToSet(R!SourcesOf[k])
      BY <2>1 DEF SourcesIn
    <3>3. g \in R!Groups /\ k \in R!Groups
      BY ScopesAre
    <3>4. g = k
      BY <3>1, <3>2, <3>3, GroupsShareNothing
    <3>5. QED
      BY <3>4, GroupsShareNothing
  <2>2. QED
    BY <2>1
<1>4. \A s \in U : E[s] \in Int
  BY EmissionIsNat DEF EmissionsOf
<1>5. \A s \in U : \E sc \in K : s \in part[sc]
  BY GroupsShareNothing DEF R!Sources, SourcesIn
<1>6. R!RawTotal(doc) = SumFunctionOnSet(h, K)
  BY RawTotalIs
<1> HIDE DEF K, U, E, part, h
<1>7. \A s \in U : E[s] \in Int /\ \E sc \in K : s \in part[sc]
  BY <1>4, <1>5
<1>8. SumFunctionOnSet(h, K) = SumFunctionOnSet(E, U)
  BY <1>1, <1>2, <1>3, <1>7, SumPartition
<1>9. IsFiniteSet(U)
  <2>1. U = UNION {part[sc] : sc \in K}
    BY <1>2, <1>5
  <2>2. QED
    BY <1>1, <1>2, <2>1, UnionIsFinite
<1>10. QED
  BY <1>6, <1>8, <1>9 DEF U, E

-----------------------------------------------------------------------------
(* The five largest sources.                                                *)

Before(e, S, i) == {j \in S : \/ e[j] > e[i]
                              \/ e[j] = e[i] /\ j < i}
Place(e, S, k) == CHOOSE i \in S : R!Cardinality(Before(e, S, i)) = k - 1

\* The module Reporting has its own copy of Cardinality.
LEMMA CardinalityInReporting == \A S : R!Cardinality(S) = Cardinality(S)
BY DEF R!Cardinality, Cardinality

\* What is found has a rank below the number of all that is found.
LEMMA RankIsBelow ==
  ASSUME NEW S \in SUBSET Nat, IsFiniteSet(S), NEW e, \A i \in S : e[i] \in Nat, NEW i \in S
  PROVE  /\ Cardinality(Before(e, S, i)) \in 0..(Cardinality(S) - 1)
         /\ IsFiniteSet(Before(e, S, i))
<1> DEFINE B == Before(e, S, i)
           T == S \ {i}
<1>1. B \subseteq T
  BY DEF Before
<1>2. IsFiniteSet(T) /\ Cardinality(T) = Cardinality(S) - 1 /\ Cardinality(S) \in Nat
  BY FS_RemoveElement, FS_CardinalityType
<1> HIDE DEF B, T
<1>3. IsFiniteSet(B) /\ Cardinality(B) <= Cardinality(T) /\ Cardinality(B) \in Nat
  BY <1>1, <1>2, FS_Subset, FS_CardinalityType
<1>4. QED
  BY <1>2, <1>3 DEF B

\* What comes before has a lower rank.
LEMMA BeforeIsLower ==
  ASSUME NEW S \in SUBSET Nat, IsFiniteSet(S), NEW e, \A i \in S : e[i] \in Nat,
         NEW i \in S, NEW j \in Before(e, S, i)
  PROVE  Cardinality(Before(e, S, j)) < Cardinality(Before(e, S, i))
<1> DEFINE B == Before(e, S, i)
           D == Before(e, S, j)
           T == B \ {j}
<1>1. j \in S
  BY DEF Before
<1>2. e[i] \in Nat /\ e[j] \in Nat /\ i \in Nat /\ j \in Nat
  BY <1>1
<1>3. D \subseteq T
  <2>1. ASSUME NEW x \in D PROVE x \in T
    <3>1. x \in S /\ x \in Nat /\ e[x] \in Nat
      BY DEF Before
    <3>2. QED
      BY <1>2, <2>1, <3>1 DEF Before
  <2>2. QED
    BY <2>1
<1>4. IsFiniteSet(B) /\ IsFiniteSet(D) /\ j \in B
  BY <1>1, RankIsBelow
<1> HIDE DEF B, D, T
<1>5. IsFiniteSet(T) /\ Cardinality(T) = Cardinality(B) - 1
  BY <1>4, FS_RemoveElement DEF T
<1>6. Cardinality(D) <= Cardinality(T) /\ Cardinality(B) \in Nat /\ Cardinality(D) \in Nat
  BY <1>3, <1>4, <1>5, FS_Subset, FS_CardinalityType
<1>7. QED
  BY <1>5, <1>6 DEF B, D

\* Of two that are found one comes before the other, so no rank is taken twice.
LEMMA RankIsUnique ==
  ASSUME NEW S \in SUBSET Nat, IsFiniteSet(S), NEW e, \A i \in S : e[i] \in Nat,
         NEW i \in S, NEW j \in S
  PROVE  /\ i = j \/ i \in Before(e, S, j) \/ j \in Before(e, S, i)
         /\ Cardinality(Before(e, S, i)) = Cardinality(Before(e, S, j)) => i = j
         /\ Cardinality(Before(e, S, j)) < Cardinality(Before(e, S, i)) => e[j] >= e[i]
<1>1. i = j \/ i \in Before(e, S, j) \/ j \in Before(e, S, i)
  <2>1. e[i] \in Nat /\ e[j] \in Nat /\ i \in Nat /\ j \in Nat
    OBVIOUS
  <2>2. QED
    BY <2>1 DEF Before
<1> DEFINE m == Cardinality(Before(e, S, i))
           n == Cardinality(Before(e, S, j))
<1>2. m \in Int /\ n \in Int
  BY RankIsBelow
<1>3. i \in Before(e, S, j) => m < n
  BY BeforeIsLower
<1>4. j \in Before(e, S, i) => n < m
  BY BeforeIsLower
<1>5. j \in Before(e, S, i) => e[j] >= e[i]
  <2>1. e[i] \in Nat /\ e[j] \in Nat
    OBVIOUS
  <2>2. QED
    BY <2>1 DEF Before
<1>6. i = j => m = n
  OBVIOUS
<1> DEFINE p == i \in Before(e, S, j)
           r == j \in Before(e, S, i)
<1> HIDE DEF m, n, p, r
<1>7. (i = j \/ p \/ r) /\ (p => m < n) /\ (r => n < m) /\ (r => e[j] >= e[i])
  BY <1>1, <1>3, <1>4, <1>5 DEF p, r
<1>8. (m = n => i = j) /\ (n < m => r)
  BY <1>2, <1>6, <1>7
<1>9. QED
  BY <1>1, <1>7, <1>8 DEF m, n

\* Every rank up to the number of all that is found is taken.
LEMMA RankIsTaken ==
  ASSUME NEW S \in SUBSET Nat, IsFiniteSet(S), NEW e, \A i \in S : e[i] \in Nat,
         NEW k \in 1..Cardinality(S)
  PROVE  /\ Place(e, S, k) \in S
         /\ Cardinality(Before(e, S, Place(e, S, k))) = k - 1
<1> DEFINE n == Cardinality(S)
           rank == [i \in S |-> Cardinality(Before(e, S, i)) + 1]
<1>1. n \in Nat
  BY FS_CardinalityType
<1>2. \A i \in S : rank[i] \in 1..n
  BY <1>1, RankIsBelow
<1>3. \A i, j \in S : rank[i] = rank[j] => i = j
  <2>1. ASSUME NEW i \in S, NEW j \in S, rank[i] = rank[j] PROVE i = j
    <3>1. Cardinality(Before(e, S, i)) \in Int /\ Cardinality(Before(e, S, j)) \in Int
      BY RankIsBelow
    <3>2. Cardinality(Before(e, S, i)) = Cardinality(Before(e, S, j))
      BY <2>1, <3>1
    <3>3. QED
      BY <3>2, RankIsUnique
  <2>2. QED
    BY <2>1
<1> DEFINE J == 1..n
<1>4. rank \in [S -> J]
  BY <1>2
<1>5. IsFiniteSet(J) /\ Cardinality(J) = n
  <2>1. 1 \in Int /\ n \in Int /\ IsFiniteSet(1..n) /\ Cardinality(1..n) = IF 1 > n THEN 0 ELSE n - 1 + 1
    BY <1>1, FS_Interval
  <2> DEFINE c == Cardinality(1..n)
  <2> HIDE DEF c
  <2>2. c = IF 1 > n THEN 0 ELSE n - 1 + 1
    BY <2>1 DEF c
  <2> HIDE DEF n
  <2>3. c = n
    BY <1>1, <2>2
  <2>4. QED
    BY <2>1, <2>3 DEF c
<1> HIDE DEF rank, J
<1>6. rank \in Injection(S, J)
  BY <1>3, <1>4 DEF Injection, IsInjective
<1>7. rank \in Surjection(S, J)
  BY <1>5, <1>6, FS_Injection
<1>8. PICK i \in S : rank[i] = k
  BY <1>7 DEF Surjection, J
<1>9. Cardinality(Before(e, S, i)) = k - 1
  BY <1>8, RankIsBelow DEF rank
<1>10. QED
  BY <1>9, CardinalityInReporting DEF Place

\* A rounded percentage of t is at most half a unit above the fraction.
LEMMA PercentageIs ==
  ASSUME NEW e \in Nat, NEW t \in Nat \ {0}
  PROVE  R!Percentage(e, t) \in Nat /\ t * R!Percentage(e, t) <= 1000 * e + t
<1> DEFINE a == e * 1000 + t \div 2
           p == a \div t
<1>1. a \in Nat /\ a <= 1000 * e + t
  OBVIOUS
<1>2. R!Percentage(e, t) = p
  BY DEF R!Percentage
<1> HIDE DEF a
<1>3. p \in Nat /\ t * p <= a
  BY <1>1, Quotient
<1> HIDE DEF p
<1> DEFINE tp == t * p
<1>4. tp \in Nat /\ tp <= a
  BY <1>3
<1> HIDE DEF tp
<1>5. tp <= 1000 * e + t
  BY <1>1, <1>4
<1>6. QED
  BY <1>2, <1>3, <1>5 DEF tp

\* Percentages of parts of t exceed 100% by at most one unit each.
LEMMA PercentagesAddUp ==
  ASSUME NEW I, IsFiniteSet(I), NEW e, NEW p, NEW t \in Nat \ {0},
         \A k \in I : e[k] \in Nat /\ p[k] = R!Percentage(e[k], t),
         SumFunctionOnSet(e, I) <= t
  PROVE  SumFunctionOnSet(p, I) <= 1000 + Cardinality(I)
<1> DEFINE Se(A) == SumFunctionOnSet(e, A)
           Sp(A) == SumFunctionOnSet(p, A)
           C == {A \in SUBSET I : t * Sp(A) <= 1000 * Se(A) + t * Cardinality(A)}
<1>0. \A k \in I : p[k] \in Nat /\ e[k] \in Nat /\ t * p[k] <= 1000 * e[k] + t
  <2>1. ASSUME NEW k \in I
        PROVE  p[k] \in Nat /\ e[k] \in Nat /\ t * p[k] <= 1000 * e[k] + t
    <3> DEFINE d == e[k]
               q == p[k]
    <3>1. d \in Nat /\ q = R!Percentage(d, t)
      OBVIOUS
    <3> HIDE DEF d, q
    <3>2. q \in Nat /\ t * q <= 1000 * d + t
      BY <3>1, PercentageIs
    <3>3. QED
      BY <3>1, <3>2 DEF d, q
  <2>2. QED
    BY <2>1
<1>1. {} \in C
  BY SumEmpty, FS_EmptySet
<1>2. ASSUME NEW A \in SUBSET I, NEW x \in I, A \in C, x \notin A PROVE A \cup {x} \in C
  <2>1. IsFiniteSet(A) /\ (\A z \in A : p[z] \in Nat) /\ \A z \in A : e[z] \in Nat
    BY <1>0, FS_Subset
  <2>2. Se(A) \in Nat /\ Sp(A) \in Nat
    BY <2>1, SumNat
  <2>3. p[x] \in Int /\ e[x] \in Int /\ (\A z \in A : p[z] \in Int) /\ \A z \in A : e[z] \in Int
    BY <1>0
  <2>4. Se(A \cup {x}) = Se(A) + e[x] /\ Sp(A \cup {x}) = Sp(A) + p[x]
    BY <1>2, <2>1, <2>3, SumAdd
  <2>5. Cardinality(A) \in Nat /\ Cardinality(A \cup {x}) = Cardinality(A) + 1
    BY <1>2, <2>1, FS_AddElement, FS_CardinalityType
  <2>6. t * Sp(A) <= 1000 * Se(A) + t * Cardinality(A)
    BY <1>2
  <2> DEFINE n == Cardinality(A)
             P == Sp(A)
             E == Se(A)
             q == p[x]
             d == e[x]
  <2>7. /\ n \in Nat /\ P \in Nat /\ E \in Nat /\ q \in Nat /\ d \in Nat
        /\ t * P <= 1000 * E + t * n /\ t * q <= 1000 * d + t
    BY <1>0, <2>2, <2>5, <2>6
  <2>8. /\ Cardinality(A \cup {x}) = n + 1
        /\ Sp(A \cup {x}) = P + q /\ Se(A \cup {x}) = E + d
    BY <2>4, <2>5
  <2> HIDE DEF n, P, E, q, d, Sp, Se
  <2>9. t * (P + q) = t * P + t * q /\ t * (n + 1) = t * n + t /\ t * P \in Nat /\ t * q \in Nat
        /\ t * n \in Nat
    BY <2>7
  <2>10. t * (P + q) <= 1000 * (E + d) + t * (n + 1)
    BY <2>7, <2>9
  <2>11. QED
    BY <2>8, <2>10
<1> HIDE DEF C
<1>3. SUBSET I \subseteq C
  BY <1>1, <1>2, SubsetInduction
<1>4. I \in C
  BY <1>3
<1> DEFINE n == Cardinality(I)
           P == Sp(I)
           E == Se(I)
<1>5. t * P <= 1000 * E + t * n /\ E <= t
  BY <1>4 DEF C
<1>6. n \in Nat /\ P \in Nat /\ E \in Nat
  <2>1. (\A k \in I : p[k] \in Nat) /\ \A k \in I : e[k] \in Nat
    BY <1>0
  <2>2. QED
    BY <2>1, SumNat, FS_CardinalityType
<1> HIDE DEF n, P, E
<1>7. P <= 1000 + n
  <2>1. SUFFICES ASSUME P >= 1001 + n PROVE FALSE
    BY <1>6
  <2>2. t * (1001 + n) <= t * P
    BY <1>6, <2>1
  <2>3. t * (1001 + n) = 1001 * t + t * n /\ t * n \in Nat /\ t * P \in Nat
    BY <1>6
  <2>4. QED
    BY <1>5, <1>6, <2>2, <2>3
<1>8. QED
  BY <1>7 DEF n, P

RankedEmissions(doc) == [i \in DOMAIN R!RankOrder |-> R!Emission(doc, R!RankOrder[i])]
Found(doc) == {i \in DOMAIN R!RankOrder : RankedEmissions(doc)[i] > 0}
TopSize(doc) == IF Cardinality(Found(doc)) > 5 THEN 5 ELSE Cardinality(Found(doc))
TopPlace(doc, k) == Place(RankedEmissions(doc), Found(doc), k)

\* The list of the largest sources, in the terms used here.
LEMMA TopIs ==
  ASSUME NEW doc
  PROVE  R!TopEmissionSources(doc) = [k \in 1..TopSize(doc) |-> R!RankOrder[TopPlace(doc, k)]]
<1> DEFINE emission == [i \in DOMAIN R!RankOrder |-> R!Emission(doc, R!RankOrder[i])]
           found == {i \in DOMAIN R!RankOrder : emission[i] > 0}
           before(i) == {j \in found : \/ emission[j] > emission[i]
                                       \/ emission[j] = emission[i] /\ j < i}
           place(k) == CHOOSE i \in found : R!Cardinality(before(i)) = k - 1
           size == IF R!Cardinality(found) > 5 THEN 5 ELSE R!Cardinality(found)
<1>1. R!TopEmissionSources(doc) = [k \in 1..size |-> R!RankOrder[place(k)]]
  BY Zenon DEF R!TopEmissionSources
<1>2. emission = RankedEmissions(doc)
  BY DEF RankedEmissions
<1> HIDE DEF emission
<1>3. found = Found(doc)
  BY Zenon, <1>2 DEF Found
<1> HIDE DEF found
<1>4. size = TopSize(doc)
  BY Zenon, <1>3, CardinalityInReporting DEF TopSize
<1>5. \A k : place(k) = TopPlace(doc, k)
  BY Zenon, <1>2, <1>3 DEF TopPlace, Place, Before
<1> HIDE DEF place, size
<1>6. QED
  BY Zenon, <1>1, <1>4, <1>5

Order == <<"dieselGenerators", "gasTurbines", "boilerFurnaces", "onShoreProduction",
           "vehicleFleet", "carsBuses", "forkliftFuelType", "heavyDutyFuelType",
           "tractorFuelType", "air", "marine", "electricity", "cooling", "steam", "heating",
           "ipps", "eac", "residual", "coolingSteam">>

\* The order in which the sources are ranked names each of them once.
LEMMA RankOrderIs ==
  /\ DOMAIN R!RankOrder \subseteq Nat /\ IsFiniteSet(DOMAIN R!RankOrder)
  /\ \A i, j \in DOMAIN R!RankOrder : R!RankOrder[i] = R!RankOrder[j] => i = j
  /\ \A i \in DOMAIN R!RankOrder : R!RankOrder[i] \in R!Ranked
  /\ \A s \in R!Ranked : \E i \in DOMAIN R!RankOrder : R!RankOrder[i] = s
  /\ R!Ranked \subseteq R!Sources
<1>1. DOMAIN R!RankOrder = 1..19
  BY DEF R!RankOrder, R!StationarySources, R!MobileSources, R!LocationSources, R!MarketSources
<1>2. \A i \in 1..19 : R!RankOrder[i] = Order[i]
  BY DEF R!RankOrder, R!StationarySources, R!MobileSources, R!LocationSources, R!MarketSources,
         Order
<1>3. \A i, j \in 1..19 : Order[i] = Order[j] => i = j
  BY DEF Order
<1>4. R!Ranked = {Order[i] : i \in 1..19}
  BY SourceSets DEF R!Ranked, R!Fuels, Order
<1>5. R!Ranked \subseteq R!Sources
  BY DEF R!Ranked, R!Fuels, R!Sources, R!Groups, R!SourcesOf
<1>6. IsFiniteSet(1..19)
  <2>1. 1 \in Int /\ 19 \in Int
    OBVIOUS
  <2>2. QED
    BY <2>1, FS_Interval
<1> DEFINE J == 1..19
<1>7. J \subseteq Nat
  OBVIOUS
<1> HIDE DEF J
<1>8. DOMAIN R!RankOrder = J /\ IsFiniteSet(J) /\ \A i \in J : R!RankOrder[i] = Order[i]
  BY <1>1, <1>2, <1>6 DEF J
<1>9. (\A i, j \in J : Order[i] = Order[j] => i = j) /\ R!Ranked = {Order[i] : i \in J}
  BY <1>3, <1>4 DEF J
<1>10. QED
  BY <1>5, <1>7, <1>8, <1>9

\* What is found: places in the order of the sources, with an emission.
LEMMA FoundIs ==
  ASSUME NEW doc, doc \in [R!Sources -> Seq(AnyEntry)]
  PROVE  /\ \A i \in DOMAIN R!RankOrder :
               /\ RankedEmissions(doc)[i] \in Nat
               /\ RankedEmissions(doc)[i] = R!Emission(doc, R!RankOrder[i])
               /\ RankedEmissions(doc)[i] = EmissionsOf(doc)[R!RankOrder[i]]
         /\ Found(doc) \in SUBSET Nat /\ IsFiniteSet(Found(doc))
         /\ \A i \in Found(doc) : RankedEmissions(doc)[i] \in Nat
<1>1. \A i \in DOMAIN R!RankOrder : R!RankOrder[i] \in R!Sources
  BY RankOrderIs
<1>2. \A i \in DOMAIN R!RankOrder :
               /\ RankedEmissions(doc)[i] \in Nat
               /\ RankedEmissions(doc)[i] = R!Emission(doc, R!RankOrder[i])
               /\ RankedEmissions(doc)[i] = EmissionsOf(doc)[R!RankOrder[i]]
  BY <1>1, EmissionIsNat DEF RankedEmissions, EmissionsOf
<1>3. Found(doc) \subseteq DOMAIN R!RankOrder
  BY DEF Found
<1>4. IsFiniteSet(Found(doc))
  BY <1>3, RankOrderIs, FS_Subset
<1>5. QED
  BY <1>2, <1>3, <1>4, RankOrderIs

\* It has five places, or as many as there are sources with an emission.
LEMMA TopSizeIs ==
  ASSUME NEW doc, doc \in [R!Sources -> Seq(AnyEntry)]
  PROVE  /\ TopSize(doc) \in Nat /\ Cardinality(Found(doc)) \in Nat
         /\ TopSize(doc) <= Cardinality(Found(doc))
         /\ TopSize(doc) < Cardinality(Found(doc)) => TopSize(doc) = 5
<1> DEFINE c == Cardinality(Found(doc))
<1>1. c \in Nat
  BY FoundIs, FS_CardinalityType
<1>2. TopSize(doc) = IF c > 5 THEN 5 ELSE c
  BY DEF TopSize
<1> HIDE DEF c
<1>3. TopSize(doc) \in Nat /\ TopSize(doc) <= c /\ (TopSize(doc) < c => TopSize(doc) = 5)
  BY <1>1, <1>2
<1>4. QED
  BY <1>1, <1>3 DEF c

\* The k-th place has rank k.
LEMMA TopPlaceIs ==
  ASSUME NEW doc, doc \in [R!Sources -> Seq(AnyEntry)], NEW k \in 1..TopSize(doc)
  PROVE  /\ TopPlace(doc, k) \in Found(doc)
         /\ Cardinality(Before(RankedEmissions(doc), Found(doc), TopPlace(doc, k))) = k - 1
<1> DEFINE c == Cardinality(Found(doc))
           n == TopSize(doc)
<1>1. n \in Nat /\ c \in Nat /\ n <= c
  BY TopSizeIs
<1> HIDE DEF c, n
<1>2. k \in 1..c
  BY <1>1 DEF n
<1>3. k \in 1..Cardinality(Found(doc))
  BY <1>2 DEF c
<1>4. QED
  BY <1>3, FoundIs, RankIsTaken DEF TopPlace

\* The list has as many sources as there are places.
LEMMA TopListIs ==
  ASSUME NEW doc, doc \in [R!Sources -> Seq(AnyEntry)]
  PROVE  LET top == R!TopEmissionSources(doc)
         IN  /\ DOMAIN top = 1..TopSize(doc) /\ Len(top) = TopSize(doc)
             /\ top # << >> => TopSize(doc) # 0
             /\ \A k \in 1..TopSize(doc) : top[k] = R!RankOrder[TopPlace(doc, k)]
<1> DEFINE n == TopSize(doc)
           at(k) == R!RankOrder[TopPlace(doc, k)]
           top == [k \in 1..n |-> at(k)]
<1>1. n \in Nat
  BY TopSizeIs
<1>2. R!TopEmissionSources(doc) = top
  BY TopIs
<1> HIDE DEF n, at
<1>3. DOMAIN top = 1..n /\ Len(top) = n /\ (top # << >> => n # 0) /\ \A k \in 1..n : top[k] = at(k)
  BY <1>1
<1> HIDE DEF top
<1>4. QED
  BY <1>2, <1>3 DEF n, at

\* The sources of the list emit no more than the whole.
LEMMA TopWithinTotal ==
  ASSUME NEW doc, doc \in [R!Sources -> Seq(AnyEntry)]
  PROVE  LET x == [k \in 1..TopSize(doc) |-> RankedEmissions(doc)[TopPlace(doc, k)]]
         IN  SumFunctionOnSet(x, 1..TopSize(doc)) <= R!RawTotal(doc)
<1> DEFINE e == RankedEmissions(doc)
           E == EmissionsOf(doc)
           D == DOMAIN R!RankOrder
           q == R!RankOrder
           n == TopSize(doc)
           I == 1..n
           place == [k \in I |-> TopPlace(doc, k)]
           T == {place[k] : k \in I}
           x == [k \in I |-> e[TopPlace(doc, k)]]
<1>1. n \in Nat
  BY TopSizeIs
<1>2. IsFiniteSet(I)
  <2>1. 1 \in Int /\ n \in Int
    BY <1>1
  <2>2. QED
    BY <2>1, FS_Interval
<1>3. \A i \in D : e[i] \in Nat /\ e[i] = E[q[i]]
  BY FoundIs
<1>4. /\ IsFiniteSet(D) /\ (\A i, j \in D : q[i] = q[j] => i = j)
      /\ (\A i \in D : q[i] \in R!Ranked) /\ \A s \in R!Ranked : \E i \in D : q[i] = s
  BY RankOrderIs
<1>5. \A k \in I : place[k] \in D
  BY TopPlaceIs DEF Found
<1>6. \A k, l \in I : place[k] = place[l] => k = l
  <2>1. ASSUME NEW k \in I, NEW l \in I, place[k] = place[l] PROVE k = l
    <3>1. k - 1 = l - 1
      BY <2>1, TopPlaceIs
    <3>2. k \in Int /\ l \in Int
      BY <1>1
    <3>3. QED
      BY <3>1, <3>2
  <2>2. QED
    BY <2>1
<1>7. \A k \in I : x[k] = e[place[k]]
  OBVIOUS
<1> HIDE DEF e, E, D, q, I, place, x
<1>8. SumFunctionOnSet(x, I) = SumFunctionOnSet(e, T)
  <2>1. \A k \in I : place[k] \in T /\ x[k] = e[place[k]] /\ x[k] \in Int
    BY <1>3, <1>5, <1>7
  <2>2. \A i \in T : \E k \in I : place[k] = i
    OBVIOUS
  <2> HIDE DEF T
  <2>3. QED
    BY <1>2, <1>6, <2>1, <2>2, SumImage
<1>9. SumFunctionOnSet(e, T) <= SumFunctionOnSet(e, D)
  <2>1. T \in SUBSET D /\ IsFiniteSet(D) /\ \A i \in D : e[i] \in Nat
    BY <1>3, <1>4, <1>5
  <2> HIDE DEF T
  <2>2. QED
    BY <2>1, SumOfPart
<1>10. SumFunctionOnSet(e, D) = SumFunctionOnSet(E, R!Ranked)
  <2>1. \A i \in D : q[i] \in R!Ranked /\ e[i] = E[q[i]] /\ e[i] \in Int
    BY <1>3, <1>4
  <2>2. QED
    BY <1>4, <2>1, SumImage
<1>11. SumFunctionOnSet(E, R!Ranked) <= SumFunctionOnSet(E, R!Sources)
  <2>1. R!Ranked \in SUBSET R!Sources /\ IsFiniteSet(R!Sources)
    BY RankOrderIs, TotalIsSum
  <2>2. \A s \in R!Sources : E[s] \in Nat
    BY EmissionIsNat DEF E, EmissionsOf
  <2>3. QED
    BY <2>1, <2>2, SumOfPart
<1>12. SumFunctionOnSet(E, R!Sources) = R!RawTotal(doc)
  BY TotalIsSum DEF E
<1>13. /\ SumFunctionOnSet(e, T) \in Int /\ SumFunctionOnSet(e, D) \in Int
       /\ SumFunctionOnSet(E, R!Sources) \in Int
  <2>1. T \in SUBSET D /\ IsFiniteSet(D) /\ \A i \in D : e[i] \in Int
    BY <1>3, <1>4, <1>5
  <2> HIDE DEF T
  <2>2. IsFiniteSet(T) /\ \A i \in T : e[i] \in Int
    BY <2>1, FS_Subset
  <2>3. SumFunctionOnSet(e, T) \in Int /\ SumFunctionOnSet(e, D) \in Int
    BY <2>1, <2>2, SumInt
  <2>4. R!RawTotal(doc) \in Nat
    BY RawTotalIs
  <2>5. QED
    BY <1>12, <2>3, <2>4
<1>14. SumFunctionOnSet(x, I) <= R!RawTotal(doc)
  BY <1>8, <1>9, <1>10, <1>11, <1>12, <1>13
<1>15. QED
  BY <1>14 DEF x, I, e

\* Rounded to percentages they exceed 100% by no more than a unit each.
LEMMA TopPercentagesAddUp ==
  ASSUME NEW doc, doc \in [R!Sources -> Seq(AnyEntry)], R!TopEmissionSources(doc) # << >>
  PROVE  LET top == R!TopEmissionSources(doc)
             p == [k \in DOMAIN top |-> R!Percentage(R!Emission(doc, top[k]), R!RawTotal(doc))]
         IN  SumFunction(p) <= 1000 + Len(top)
<1> DEFINE top == R!TopEmissionSources(doc)
           t == R!RawTotal(doc)
           n == TopSize(doc)
           I == 1..n
           x == [k \in I |-> RankedEmissions(doc)[TopPlace(doc, k)]]
           p == [k \in DOMAIN top |-> R!Percentage(R!Emission(doc, top[k]), t)]
<1>1. n \in Nat \ {0} /\ DOMAIN top = I /\ Len(top) = n
  BY TopSizeIs, TopListIs
<1>2. IsFiniteSet(I) /\ Cardinality(I) = n
  <2>1. IsFiniteSet(1..n) /\ Cardinality(1..n) = IF 1 > n THEN 0 ELSE n - 1 + 1
    BY <1>1, FS_Interval
  <2> DEFINE c == Cardinality(1..n)
  <2>2. c = IF 1 > n THEN 0 ELSE n - 1 + 1
    BY <2>1
  <2> HIDE DEF c, n
  <2>3. c = n
    BY <1>1, <2>2
  <2>4. QED
    BY <2>1, <2>3 DEF c
<1>3. ASSUME NEW k \in I PROVE x[k] \in Nat /\ x[k] > 0 /\ p[k] = R!Percentage(x[k], t)
  <2> DEFINE i == TopPlace(doc, k)
  <2>1. i \in Found(doc)
    BY TopPlaceIs
  <2>2. i \in DOMAIN R!RankOrder /\ RankedEmissions(doc)[i] > 0
    BY <2>1 DEF Found
  <2>3. RankedEmissions(doc)[i] \in Nat /\ RankedEmissions(doc)[i] = R!Emission(doc, R!RankOrder[i])
    BY <2>2, FoundIs
  <2>4. top[k] = R!RankOrder[i]
    BY TopListIs
  <2>5. p[k] = R!Percentage(R!Emission(doc, top[k]), t) /\ x[k] = RankedEmissions(doc)[i]
    BY <1>1
  <2>6. QED
    BY <2>2, <2>3, <2>4, <2>5
<1>4. SumFunctionOnSet(x, I) <= t
  BY TopWithinTotal
<1>5. SumFunction(p) = SumFunctionOnSet(p, I)
  BY <1>1 DEF SumFunction
<1> HIDE DEF x, p, I, n
<1>6. 1 \in I
  BY <1>1 DEF I
<1>7. \A k \in I : x[k] \in Nat
  BY <1>3
<1>8. x[1] <= SumFunctionOnSet(x, I) /\ SumFunctionOnSet(x, I) \in Nat
  BY <1>2, <1>6, <1>7, SumMember, SumNat
<1>9. t \in Nat \ {0}
  <2>1. t \in Nat
    BY RawTotalIs
  <2>2. x[1] \in Nat /\ x[1] > 0
    BY <1>3, <1>6
  <2>3. QED
    BY <1>4, <1>8, <2>1, <2>2
<1>10. \A k \in I : x[k] \in Nat /\ p[k] = R!Percentage(x[k], t)
  BY <1>3
<1> HIDE DEF t
<1>11. SumFunctionOnSet(p, I) <= 1000 + Cardinality(I)
  BY <1>2, <1>4, <1>9, <1>10, PercentagesAddUp
<1>12. SumFunction(p) <= 1000 + Len(top)
  BY <1>1, <1>2, <1>5, <1>11
<1>13. QED
  BY <1>12 DEF p, t

\* What is not on the list emits no more than the last on it.
LEMMA OthersAreSmaller ==
  ASSUME NEW doc, doc \in [R!Sources -> Seq(AnyEntry)], R!TopEmissionSources(doc) # << >>,
         NEW s \in R!Ranked \ ToSet(R!TopEmissionSources(doc))
  PROVE  LET top == R!TopEmissionSources(doc)
         IN  R!Emission(doc, s) <= R!Emission(doc, top[Len(top)])
<1> DEFINE top == R!TopEmissionSources(doc)
           e == RankedEmissions(doc)
           S == Found(doc)
           n == TopSize(doc)
           m == TopPlace(doc, n)
<1>1. n \in Nat \ {0} /\ DOMAIN top = 1..n /\ Len(top) = n
  BY TopSizeIs, TopListIs
<1>2. n \in 1..n
  BY <1>1
<1>3. m \in S /\ Cardinality(Before(e, S, m)) = n - 1
  BY <1>2, TopPlaceIs
<1>4. S \in SUBSET Nat /\ IsFiniteSet(S) /\ \A i \in S : e[i] \in Nat
  BY FoundIs
<1>5. R!Emission(doc, top[Len(top)]) = e[m] /\ e[m] \in Nat
  <2>1. top[n] = R!RankOrder[m]
    BY <1>2, TopListIs
  <2>2. m \in DOMAIN R!RankOrder
    BY <1>3 DEF Found
  <2>3. QED
    BY <1>1, <2>1, <2>2, FoundIs
<1>6. PICK i \in DOMAIN R!RankOrder : R!RankOrder[i] = s
  BY RankOrderIs
<1>7. e[i] = R!Emission(doc, s) /\ e[i] \in Nat
  BY <1>6, FoundIs
<1>8. CASE i \notin S
  <2>1. ~(e[i] > 0)
    BY <1>8 DEF Found
  <2>2. QED
    BY <1>5, <1>7, <2>1
<1>9. CASE i \in S
  <2> DEFINE r == Cardinality(Before(e, S, i))
  <2>1. r \in Nat
    BY <1>4, <1>9, RankIsBelow
  <2>2. ~(r < n)
    <3>1. SUFFICES ASSUME r < n PROVE FALSE
      OBVIOUS
    <3> DEFINE k == r + 1
               j == TopPlace(doc, k)
    <3> HIDE DEF r
    <3>2. k \in 1..n /\ k - 1 = r
      BY <1>1, <2>1, <3>1
    <3>3. j \in S /\ Cardinality(Before(e, S, j)) = r
      BY <3>2, TopPlaceIs
    <3>4. j = i
      BY <1>4, <1>9, <3>3, RankIsUnique DEF r
    <3>5. top[k] = s /\ k \in DOMAIN top
      BY <1>1, <1>6, <3>2, <3>4, TopListIs
    <3>6. QED
      BY <3>5 DEF ToSet
  <2>3. Cardinality(Before(e, S, m)) < Cardinality(Before(e, S, i))
    BY <1>1, <1>3, <2>1, <2>2
  <2>4. e[m] >= e[i]
    BY <1>3, <1>4, <1>9, <2>3, RankIsUnique
  <2>5. QED
    BY <1>5, <1>7, <2>4
<1>10. QED
  BY <1>8, <1>9

(***************************************************************************)
(* FiguresAddUp, for any quantities: the scopes to the total, the forms to *)
(* their group, the entries to their list and the five largest sources to  *)
(* no more than the whole.                                                 *)
(***************************************************************************)
LEMMA QuantitiesAddUp == NumbersInv => FiguresAddUp
<1> SUFFICES ASSUME NumbersInv PROVE FiguresAddUp
  OBVIOUS
<1>1. quantities \in [R!Sources -> Seq(AnyEntry)]
  BY DEF NumbersInv
<1>2. /\ Near(SumFunction([sc \in R!Scopes |-> R!ScopeEmission(quantities, sc)]),
              R!TotalEmission(quantities), 2)
      /\ \A g \in DOMAIN R!FormsOf :
            Near(SumFunction([form \in R!FormsOf[g] |-> R!FormEmission(quantities, form)]),
                 R!GroupEmission(quantities, g), Cardinality(R!FormsOf[g]))
      /\ \A s \in R!Fuels :
            Near(SumFunction([i \in DOMAIN quantities[s] |->
                                 R!EntryStamp(quantities, s, quantities[s][i])]),
                 R!Emission(quantities, s), Len(quantities[s]) + 1)
  BY <1>1, ScopesAddUp, FormsAddUp, EntriesAddUp
<1> DEFINE top == R!TopEmissionSources(quantities)
           total == R!RawTotal(quantities)
           least == R!Emission(quantities, top[Len(top)])
<1>3. ASSUME top # << >>
      PROVE  /\ SumFunction([i \in DOMAIN top |->
                    R!Percentage(R!Emission(quantities, top[i]), total)]) <= 1000 + Len(top)
             /\ \A s \in R!Ranked \ ToSet(top) : R!Emission(quantities, s) <= least
  BY <1>1, <1>3, TopPercentagesAddUp, OthersAreSmaller
<1>4. QED
  BY <1>2, <1>3 DEF FiguresAddUp

(***************************************************************************)
(* FiguresAddUp: whatever was saved, each figure rounded by itself stays   *)
(* close to the sum of its parts.  recalculate, stampPerSourceEmissions,   *)
(* deriveTop5.                                                             *)
(***************************************************************************)
THEOREM FiguresAgree == DocumentSpec => []FiguresAddUp
BY DocumentInvariance, QuantitiesAddUp, PTL
=============================================================================
