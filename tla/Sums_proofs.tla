----------------------------- MODULE Sums_proofs -----------------------------
(***************************************************************************)
(* Facts about sums over finite sets, for the components that add up       *)
(* balances (SumFunctionOnSet of the community modules).  The sum is a     *)
(* recursive function that takes the elements of the set in an arbitrary   *)
(* order; these lemmas say what does not depend on the order.              *)
(*                                                                         *)
(* Inductions over the size of a set are arguments about a least           *)
(* counterexample: the sets that violate the claim are a set, and if it is *)
(* not empty it has a minimal element.                                     *)
(***************************************************************************)
EXTENDS Integers, FiniteSets, Functions, FiniteSetTheorems, TLAPS

\* A nonempty collection of subsets of a finite set has a minimal member.
LEMMA MinimalSubset ==
    ASSUME NEW S, IsFiniteSet(S), NEW F, F \subseteq SUBSET S, F # {}
    PROVE  \E B \in F : \A C \in F : C \subseteq B => C = B
<1>1. IsWellFoundedOn(StrictSubsetOrdering(S), SUBSET S)
    BY FS_StrictSubsetOrderingWellFounded, FS_FiniteSubsetsOfFinite
<1>2. \E B \in F : \A C \in F : ~(<<C, B>> \in StrictSubsetOrdering(S))
  <2>1. F \subseteq SUBSET S /\ F # {}
    OBVIOUS
  <2> DEFINE R == StrictSubsetOrdering(S)
             P == SUBSET S
  <2>2. IsWellFoundedOn(R, P) /\ F \subseteq P
    BY <1>1, <2>1
  <2> HIDE DEF R, P
  <2>3. \E B \in F : \A C \in F : ~(<<C, B>> \in R)
    BY ONLY <2>1, <2>2, WFMin, Zenon
  <2> QED
    BY <2>3 DEF R
<1> QED
    BY <1>2 DEF StrictSubsetOrdering

\* What holds of the empty set and survives one more element holds of S.
LEMMA GrowToSet ==
    ASSUME NEW S, IsFiniteSet(S), NEW F, {} \in F,
           \A A \in SUBSET S : \A x \in S \ A : A \in F => A \cup {x} \in F
    PROVE  S \in F
<1> DEFINE Bad == {A \in SUBSET S : A \notin F}
<1>1. SUFFICES ASSUME Bad # {} PROVE FALSE
    OBVIOUS
<1>2. Bad \subseteq SUBSET S
    OBVIOUS
<1> HIDE DEF Bad
<1>3. PICK B \in Bad : \A C \in Bad : C \subseteq B => C = B
    BY <1>1, <1>2, MinimalSubset
<1> USE DEF Bad
<1>4. PICK x : x \in B
    BY <1>3
<1>5. B \ {x} \in F /\ x \in S \ (B \ {x}) /\ B \ {x} \in SUBSET S
    BY <1>3, <1>4
<1>6. (B \ {x}) \cup {x} = B
    BY <1>4
<1> QED
    BY <1>3, <1>5, <1>6

\* A nonempty set of natural numbers has a least element.
LEMMA LeastNatural ==
    ASSUME NEW F, F \subseteq Nat, F # {}
    PROVE  \E m \in F : \A k \in F : m <= k
<1>1. PICK n \in Nat : n \in F
    OBVIOUS
<1> DEFINE Below == {A \in SUBSET (0..n) : \E k \in 0..n : k \in F /\ A = 0..k}
<1>2. IsFiniteSet(0..n)
    BY FS_Interval
<1>3. 0..n \in Below
    BY <1>1
<1>4. Below \subseteq SUBSET (0..n) /\ Below # {}
    BY <1>3
<1> HIDE DEF Below
<1>5. PICK N : IsFiniteSet(N) /\ Below \subseteq SUBSET N /\ Below # {}
    BY <1>2, <1>4
<1>6. PICK B \in Below : \A C \in Below : C \subseteq B => C = B
    BY <1>5, MinimalSubset
<1>7. PICK m \in 0..n : m \in F /\ B = 0..m
    BY <1>6 DEF Below
<1>8. ASSUME NEW k \in F, ~(m <= k) PROVE FALSE
  <2>1. k \in 0..n /\ 0..k \in Below /\ 0..k \subseteq 0..m
    BY <1>7, <1>8 DEF Below
  <2>2. 0..k = 0..m
    BY <1>6, <1>7, <2>1
  <2> QED
    BY <1>7, <1>8, <2>1, <2>2
<1> QED
    BY <1>7, <1>8

\* A set that contains 0 and is closed under the successor contains Nat.
LEMMA NatMembers ==
    ASSUME NEW F, 0 \in F, \A n \in Nat : n \in F => n + 1 \in F
    PROVE  \A n \in Nat : n \in F
<1> DEFINE Bad == {n \in Nat : n \notin F}
<1>1. SUFFICES ASSUME Bad # {} PROVE FALSE
    OBVIOUS
<1>2. Bad \subseteq Nat
    OBVIOUS
<1> HIDE DEF Bad
<1>3. PICK m \in Bad : \A k \in Bad : m <= k
    BY <1>1, <1>2, LeastNatural
<1>4. m \in Nat /\ m # 0 /\ m - 1 \in Nat /\ m = (m - 1) + 1
    BY <1>3 DEF Bad
<1> QED
    BY <1>3, <1>4 DEF Bad

-----------------------------------------------------------------------------
(* The recursive function that computes a sum *)

Pick(A) == CHOOSE x \in A : TRUE

SumEquation(it, f, A) ==
    it[A] = IF A = {} THEN 0 ELSE f[Pick(A)] + it[A \ {Pick(A)}]

Solves(it, f, S) ==
    it = [A \in SUBSET S |-> IF A = {} THEN 0 ELSE f[Pick(A)] + it[A \ {Pick(A)}]]

\* There is a function that satisfies the recursion: one that satisfies it up
\* to any given cardinality can be extended to the next one.
LEMMA SumSolvable ==
    ASSUME NEW S, IsFiniteSet(S), NEW f, \A x \in S : f[x] \in Int
    PROVE  \E it \in [SUBSET S -> Int] : Solves(it, f, S)
<1> DEFINE UpTo(it, n) == \A A \in SUBSET S :
                             Cardinality(A) <= n => SumEquation(it, f, A)
           F == {n \in Nat : \E it \in [SUBSET S -> Int] : UpTo(it, n)}
<1>1. \A A \in SUBSET S : Cardinality(A) \in Nat /\ Cardinality(A) <= Cardinality(S)
    BY FS_Subset, FS_CardinalityType
<1>2. \A A \in SUBSET S : A # {} => /\ Pick(A) \in A
                                    /\ Cardinality(A \ {Pick(A)}) = Cardinality(A) - 1
    BY FS_RemoveElement, FS_Subset DEF Pick
<1>3. 0 \in F
  <2>1. [A \in SUBSET S |-> 0] \in [SUBSET S -> Int]
    OBVIOUS
  <2>2. \A A \in SUBSET S : Cardinality(A) <= 0 => A = {}
    BY <1>1, FS_EmptySet, FS_Subset
  <2>3. UpTo([A \in SUBSET S |-> 0], 0)
    BY <2>2 DEF SumEquation
  <2> QED
    BY <2>1, <2>3
<1>4. ASSUME NEW n \in F PROVE n + 1 \in F
  <2>1. n \in Nat /\ \E g \in [SUBSET S -> Int] : UpTo(g, n)
    BY <1>4
  <2>2. PICK g \in [SUBSET S -> Int] : UpTo(g, n)
    BY <2>1
  <2> DEFINE h == [A \in SUBSET S |-> IF A = {} THEN 0 ELSE f[Pick(A)] + g[A \ {Pick(A)}]]
  <2>3. \A A \in SUBSET S : A # {} => /\ f[Pick(A)] \in Int
                                        /\ g[A \ {Pick(A)}] \in Int
    BY <1>2
  <2>4. h \in [SUBSET S -> Int]
    BY <2>3
  <2>5. \A A \in SUBSET S :
           h[A] = IF A = {} THEN 0 ELSE f[Pick(A)] + g[A \ {Pick(A)}]
    OBVIOUS
  <2> HIDE DEF h
  <2>6. \A A \in SUBSET S : Cardinality(A) <= n => h[A] = g[A]
    BY <2>2, <2>5 DEF SumEquation
  <2>7. UpTo(h, n + 1)
    <3> SUFFICES ASSUME NEW A \in SUBSET S, Cardinality(A) <= n + 1
                 PROVE  SumEquation(h, f, A)
      OBVIOUS
    <3>1. CASE A = {}
      BY <2>5, <3>1 DEF SumEquation
    <3>2. CASE A # {}
      <4>1. h[A] = f[Pick(A)] + g[A \ {Pick(A)}]
        BY <2>5, <3>2
      <4>2. A \ {Pick(A)} \in SUBSET S /\ Cardinality(A \ {Pick(A)}) <= n
        BY <1>1, <1>2, <2>1, <3>2
      <4> QED
        BY <2>6, <3>2, <4>1, <4>2 DEF SumEquation
    <3> QED
      BY <3>1, <3>2
  <2> QED
    BY <2>1, <2>4, <2>7
<1> HIDE DEF F
<1>5. \A n \in Nat : n \in F
    BY <1>3, <1>4, NatMembers
<1>6. PICK it \in [SUBSET S -> Int] : UpTo(it, Cardinality(S))
    BY <1>5, FS_CardinalityType DEF F
<1>7. Solves(it, f, S)
    BY <1>1, <1>6 DEF Solves, SumEquation
<1> QED
    BY <1>6, <1>7

\* Two solutions agree wherever both are defined.
LEMMA SumSolutionUnique ==
    ASSUME NEW S, IsFiniteSet(S), NEW T, T \subseteq S, NEW f,
           NEW g, Solves(g, f, S), NEW h, Solves(h, f, T)
    PROVE  \A A \in SUBSET T : g[A] = h[A]
<1> DEFINE Bad == {A \in SUBSET T : g[A] # h[A]}
<1>1. SUFFICES ASSUME Bad # {} PROVE FALSE
    OBVIOUS
<1>2. Bad \subseteq SUBSET S
    OBVIOUS
<1> HIDE DEF Bad
<1>3. PICK B \in Bad : \A C \in Bad : C \subseteq B => C = B
    BY <1>1, <1>2, MinimalSubset
<1>4. B \in SUBSET T /\ B \in SUBSET S /\ g[B] # h[B]
    BY <1>3 DEF Bad
<1>5. SumEquation(g, f, B) /\ SumEquation(h, f, B)
    BY <1>4 DEF Solves, SumEquation
<1>6. CASE B = {}
    BY <1>4, <1>5, <1>6 DEF SumEquation
<1>7. CASE B # {}
  <2>1. Pick(B) \in B
    BY <1>7 DEF Pick
  <2>2. B \ {Pick(B)} \notin Bad /\ B \ {Pick(B)} \in SUBSET T
    BY <1>3, <1>4, <2>1
  <2>3. g[B \ {Pick(B)}] = h[B \ {Pick(B)}]
    BY <2>2 DEF Bad
  <2> QED
    BY <1>4, <1>5, <1>7, <2>3 DEF SumEquation
<1> QED
    BY <1>6, <1>7

\* SumFunctionOnSet is the solution of the recursion.
LEMMA SumIsSolution ==
    ASSUME NEW S, NEW f, NEW g, Solves(g, f, S)
    PROVE  \E it : Solves(it, f, S) /\ SumFunctionOnSet(f, S) = it[S]
<1> DEFINE it == CHOOSE it : Solves(it, f, S)
<1>1. Solves(it, f, S)
    OBVIOUS
<1>2. SumFunctionOnSet(f, S) = it[S]
    BY DEF SumFunctionOnSet, FoldFunctionOnSet, MapThenFoldSet, Solves, Pick
<1> QED
    BY <1>1, <1>2

\* One solution gives the sums over all subsets.
SubsetSums(g, f, S) ==
    /\ g \in [SUBSET S -> Int]
    /\ Solves(g, f, S)
    /\ \A A \in SUBSET S : SumFunctionOnSet(f, A) = g[A]

LEMMA SumBySolution ==
    ASSUME NEW S, IsFiniteSet(S), NEW f, \A x \in S : f[x] \in Int
    PROVE  \E g : SubsetSums(g, f, S)
<1>1. PICK g \in [SUBSET S -> Int] : Solves(g, f, S)
    BY SumSolvable
<1>2. ASSUME NEW A \in SUBSET S PROVE SumFunctionOnSet(f, A) = g[A]
  <2>1. IsFiniteSet(A) /\ (\A x \in A : f[x] \in Int)
    BY FS_Subset
  <2>2. \E h \in [SUBSET A -> Int] : Solves(h, f, A)
    BY <2>1, SumSolvable
  <2>3. PICK h : Solves(h, f, A) /\ SumFunctionOnSet(f, A) = h[A]
    BY <2>2, SumIsSolution
  <2>4. \A B \in SUBSET A : g[B] = h[B]
    BY <1>1, <2>3, SumSolutionUnique
  <2> QED
    BY <2>3, <2>4
<1> QED
    BY <1>1, <1>2 DEF SubsetSums

-----------------------------------------------------------------------------
(* What a sum is *)

LEMMA SumEmpty == ASSUME NEW f PROVE SumFunctionOnSet(f, {}) = 0
<1>1. PICK g : SubsetSums(g, f, {})
    BY SumBySolution, FS_EmptySet
<1> QED
    BY <1>1 DEF SubsetSums, Solves

LEMMA SumInt ==
    ASSUME NEW S, IsFiniteSet(S), NEW f, \A x \in S : f[x] \in Int
    PROVE  SumFunctionOnSet(f, S) \in Int
<1>1. PICK g : SubsetSums(g, f, S)
    BY SumBySolution
<1> QED
    BY <1>1 DEF SubsetSums

\* Any element may be taken out first.
LEMMA SumRemove ==
    ASSUME NEW S, IsFiniteSet(S), NEW f, \A x \in S : f[x] \in Int, NEW e \in S
    PROVE  SumFunctionOnSet(f, S) = f[e] + SumFunctionOnSet(f, S \ {e})
<1>1. PICK g : SubsetSums(g, f, S)
    BY SumBySolution
<1>2. /\ g \in [SUBSET S -> Int]
      /\ Solves(g, f, S)
      /\ \A A \in SUBSET S : SumFunctionOnSet(f, A) = g[A]
    BY <1>1 DEF SubsetSums
<1>3. SUFFICES \A A \in SUBSET S : \A x \in A : g[A] = f[x] + g[A \ {x}]
    BY <1>2
<1> DEFINE Bad == {A \in SUBSET S : \E x \in A : g[A] # f[x] + g[A \ {x}]}
<1>4. SUFFICES ASSUME Bad # {} PROVE FALSE
    OBVIOUS
<1>5. Bad \subseteq SUBSET S
    OBVIOUS
<1> HIDE DEF Bad
<1>6. PICK B \in Bad : \A C \in Bad : C \subseteq B => C = B
    BY <1>4, <1>5, MinimalSubset
<1>7. PICK x \in B : g[B] # f[x] + g[B \ {x}]
    BY <1>6 DEF Bad
<1>8. B \in SUBSET S
    BY <1>5, <1>6
<1> DEFINE p == Pick(B)
<1>9. p \in B
    BY <1>7 DEF Pick
<1>10. \A A \in SUBSET S : A # {} => g[A] = f[Pick(A)] + g[A \ {Pick(A)}]
    BY <1>2 DEF Solves
<1>11. g[B] = f[p] + g[B \ {p}]
    BY <1>7, <1>8, <1>10
<1> HIDE DEF p
<1>12. x # p
    BY <1>7, <1>11
<1>13. B \ {p} \notin Bad /\ B \ {x} \notin Bad
    BY <1>6, <1>7, <1>9
<1>14. g[B \ {p}] = f[x] + g[(B \ {p}) \ {x}]
    BY <1>7, <1>8, <1>12, <1>13 DEF Bad
<1>15. g[B \ {x}] = f[p] + g[(B \ {x}) \ {p}]
    BY <1>8, <1>9, <1>12, <1>13 DEF Bad
<1>16. g[(B \ {p}) \ {x}] = g[(B \ {x}) \ {p}]
  <2>1. (B \ {p}) \ {x} = (B \ {x}) \ {p}
    OBVIOUS
  <2> QED
    BY <2>1
<1>17. f[x] \in Int /\ f[p] \in Int /\ g[(B \ {x}) \ {p}] \in Int
    BY <1>2, <1>7, <1>8, <1>9
<1> QED
    BY <1>7, <1>11, <1>14, <1>15, <1>16, <1>17

LEMMA SumInsert ==
    ASSUME NEW S, IsFiniteSet(S), NEW f, NEW e, e \notin S,
           \A x \in S \cup {e} : f[x] \in Int
    PROVE  SumFunctionOnSet(f, S \cup {e}) = f[e] + SumFunctionOnSet(f, S)
<1>1. IsFiniteSet(S \cup {e})
    BY FS_AddElement
<1>2. (S \cup {e}) \ {e} = S
    OBVIOUS
<1> DEFINE U == S \cup {e}
<1>3. e \in U /\ (\A x \in U : f[x] \in Int)
    OBVIOUS
<1> HIDE DEF U
<1>4. SumFunctionOnSet(f, U) = f[e] + SumFunctionOnSet(f, U \ {e})
    BY <1>1, <1>3, SumRemove DEF U
<1> QED
    BY <1>2, <1>4 DEF U

-----------------------------------------------------------------------------
(* Arithmetic with sums *)

\* Two functions with the same values have the same sum.
LEMMA SumEqual ==
    ASSUME NEW S, IsFiniteSet(S), NEW f, NEW g,
           \A x \in S : f[x] \in Int /\ g[x] = f[x]
    PROVE  SumFunctionOnSet(g, S) = SumFunctionOnSet(f, S)
<1> DEFINE F == {A \in SUBSET S : SumFunctionOnSet(g, A) = SumFunctionOnSet(f, A)}
<1>1. {} \in F
    BY SumEmpty
<1>2. ASSUME NEW A \in SUBSET S, NEW x \in S \ A, A \in F PROVE A \cup {x} \in F
  <2>1. IsFiniteSet(A) /\ \A y \in A \cup {x} : f[y] \in Int /\ g[y] \in Int
    BY FS_Subset
  <2>2. SumFunctionOnSet(f, A \cup {x}) = f[x] + SumFunctionOnSet(f, A)
    BY <2>1, SumInsert
  <2>3. SumFunctionOnSet(g, A \cup {x}) = g[x] + SumFunctionOnSet(g, A)
    BY <2>1, SumInsert
  <2> QED
    BY <1>2, <2>2, <2>3
<1> HIDE DEF F
<1>3. S \in F
    BY <1>1, <1>2, GrowToSet
<1> QED
    BY <1>3 DEF F

\* The sum of sums.
LEMMA SumAdd ==
    ASSUME NEW S, IsFiniteSet(S), NEW f, NEW g, NEW h,
           \A x \in S : f[x] \in Int /\ g[x] \in Int /\ h[x] = f[x] + g[x]
    PROVE  SumFunctionOnSet(h, S) = SumFunctionOnSet(f, S) + SumFunctionOnSet(g, S)
<1> DEFINE F == {A \in SUBSET S : SumFunctionOnSet(h, A)
                                   = SumFunctionOnSet(f, A) + SumFunctionOnSet(g, A)}
<1>1. {} \in F
    BY SumEmpty
<1>2. ASSUME NEW A \in SUBSET S, NEW x \in S \ A, A \in F PROVE A \cup {x} \in F
  <2>1. /\ IsFiniteSet(A)
        /\ \A y \in A \cup {x} : f[y] \in Int /\ g[y] \in Int /\ h[y] \in Int
    BY FS_Subset
  <2>2. SumFunctionOnSet(f, A \cup {x}) = f[x] + SumFunctionOnSet(f, A)
    BY <2>1, SumInsert
  <2>3. SumFunctionOnSet(g, A \cup {x}) = g[x] + SumFunctionOnSet(g, A)
    BY <2>1, SumInsert
  <2>4. SumFunctionOnSet(h, A \cup {x}) = h[x] + SumFunctionOnSet(h, A)
    BY <2>1, SumInsert
  <2>5. SumFunctionOnSet(f, A) \in Int /\ SumFunctionOnSet(g, A) \in Int
    BY <2>1, SumInt
  <2> QED
    BY <1>2, <2>2, <2>3, <2>4, <2>5
<1> HIDE DEF F
<1>3. S \in F
    BY <1>1, <1>2, GrowToSet
<1> QED
    BY <1>3 DEF F

LEMMA Distribute == \A k, a, b \in Int : k * (a + b) = k * a + k * b
BY SMT

\* A common factor.
LEMMA SumScale ==
    ASSUME NEW S, IsFiniteSet(S), NEW k \in Int, NEW f, NEW g,
           \A x \in S : f[x] \in Int /\ g[x] = k * f[x]
    PROVE  SumFunctionOnSet(g, S) = k * SumFunctionOnSet(f, S)
<1> DEFINE F == {A \in SUBSET S : SumFunctionOnSet(g, A) = k * SumFunctionOnSet(f, A)}
<1>1. {} \in F
    BY SumEmpty
<1>2. ASSUME NEW A \in SUBSET S, NEW x \in S \ A, A \in F PROVE A \cup {x} \in F
  <2>1. IsFiniteSet(A) /\ \A y \in A \cup {x} : f[y] \in Int /\ g[y] \in Int
    BY FS_Subset
  <2>2. SumFunctionOnSet(f, A \cup {x}) = f[x] + SumFunctionOnSet(f, A)
    BY <2>1, SumInsert
  <2>3. SumFunctionOnSet(g, A \cup {x}) = g[x] + SumFunctionOnSet(g, A)
    BY <2>1, SumInsert
  <2>4. SumFunctionOnSet(f, A) \in Int /\ f[x] \in Int
    BY <2>1, SumInt
  <2>5. k * (f[x] + SumFunctionOnSet(f, A)) = k * f[x] + k * SumFunctionOnSet(f, A)
    BY <2>4, Distribute
  <2> QED
    BY <1>2, <2>2, <2>3, <2>5
<1> HIDE DEF F
<1>3. S \in F
    BY <1>1, <1>2, GrowToSet
<1> QED
    BY <1>3 DEF F

\* The same summand for every element.
LEMMA SumConstant ==
    ASSUME NEW S, IsFiniteSet(S), NEW k \in Int, NEW f, \A x \in S : f[x] = k
    PROVE  SumFunctionOnSet(f, S) = k * Cardinality(S)
<1> DEFINE F == {A \in SUBSET S : SumFunctionOnSet(f, A) = k * Cardinality(A)}
<1>1. {} \in F
    BY SumEmpty, FS_EmptySet
<1>2. ASSUME NEW A \in SUBSET S, NEW x \in S \ A, A \in F PROVE A \cup {x} \in F
  <2>1. IsFiniteSet(A) /\ \A y \in A \cup {x} : f[y] \in Int
    BY FS_Subset
  <2>2. SumFunctionOnSet(f, A \cup {x}) = k + SumFunctionOnSet(f, A)
    BY <2>1, SumInsert
  <2>3. Cardinality(A) \in Nat /\ Cardinality(A \cup {x}) = Cardinality(A) + 1
    BY <2>1, FS_CardinalityType, FS_AddElement
  <2>4. k * (Cardinality(A) + 1) = k * Cardinality(A) + k * 1
    BY <2>3, Distribute
  <2> QED
    BY <1>2, <2>2, <2>3, <2>4
<1> HIDE DEF F
<1>3. S \in F
    BY <1>1, <1>2, GrowToSet
<1> QED
    BY <1>3 DEF F

\* Larger summands, larger sum.
LEMMA SumAtMost ==
    ASSUME NEW S, IsFiniteSet(S), NEW f, NEW g,
           \A x \in S : f[x] \in Int /\ g[x] \in Int /\ f[x] <= g[x]
    PROVE  SumFunctionOnSet(f, S) <= SumFunctionOnSet(g, S)
<1> DEFINE F == {A \in SUBSET S : SumFunctionOnSet(f, A) <= SumFunctionOnSet(g, A)}
<1>1. {} \in F
    BY SumEmpty
<1>2. ASSUME NEW A \in SUBSET S, NEW x \in S \ A, A \in F PROVE A \cup {x} \in F
  <2>1. IsFiniteSet(A) /\ \A y \in A \cup {x} : f[y] \in Int /\ g[y] \in Int
    BY FS_Subset
  <2>2. SumFunctionOnSet(f, A \cup {x}) = f[x] + SumFunctionOnSet(f, A)
    BY <2>1, SumInsert
  <2>3. SumFunctionOnSet(g, A \cup {x}) = g[x] + SumFunctionOnSet(g, A)
    BY <2>1, SumInsert
  <2>4. SumFunctionOnSet(f, A) \in Int /\ SumFunctionOnSet(g, A) \in Int
    BY <2>1, SumInt
  <2> QED
    BY <1>2, <2>2, <2>3, <2>4
<1> HIDE DEF F
<1>3. S \in F
    BY <1>1, <1>2, GrowToSet
<1> QED
    BY <1>3 DEF F

LEMMA SumNat ==
    ASSUME NEW S, IsFiniteSet(S), NEW f, \A x \in S : f[x] \in Nat
    PROVE  SumFunctionOnSet(f, S) \in Nat
<1> DEFINE zero == [x \in S |-> 0]
<1>1. \A x \in S : zero[x] \in Int /\ zero[x] = 0 /\ f[x] \in Int /\ zero[x] <= f[x]
    OBVIOUS
<1> HIDE DEF zero
<1>2. SumFunctionOnSet(zero, S) <= SumFunctionOnSet(f, S)
    BY <1>1, SumAtMost
<1>3. SumFunctionOnSet(zero, S) = 0 * Cardinality(S)
    BY <1>1, SumConstant
<1>4. SumFunctionOnSet(f, S) \in Int /\ Cardinality(S) \in Nat
    BY <1>1, SumInt, FS_CardinalityType
<1> QED
    BY <1>2, <1>3, <1>4

\* Changing one summand changes the sum by as much.
LEMMA SumChange ==
    ASSUME NEW S, IsFiniteSet(S), NEW f, NEW g, NEW e \in S,
           \A x \in S : f[x] \in Int /\ g[x] \in Int,
           \A x \in S \ {e} : g[x] = f[x]
    PROVE  SumFunctionOnSet(g, S) = SumFunctionOnSet(f, S) - f[e] + g[e]
<1> DEFINE R == S \ {e}
<1>1. IsFiniteSet(R) /\ (\A x \in R : f[x] \in Int /\ g[x] = f[x])
    BY FS_RemoveElement
<1> HIDE DEF R
<1>2. SumFunctionOnSet(g, R) = SumFunctionOnSet(f, R)
    BY <1>1, SumEqual
<1>3. SumFunctionOnSet(f, R) \in Int
    BY <1>1, SumInt
<1>4. SumFunctionOnSet(f, S) = f[e] + SumFunctionOnSet(f, R)
    BY SumRemove DEF R
<1>5. SumFunctionOnSet(g, S) = g[e] + SumFunctionOnSet(g, R)
    BY SumRemove DEF R
<1> QED
    BY <1>2, <1>3, <1>4, <1>5
=============================================================================
