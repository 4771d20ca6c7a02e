---------------------------- MODULE MoneyProofs ----------------------------
(***************************************************************************)
(* Proofs about the ledger and the wallet of MCMoney.                      *)
(***************************************************************************)
EXTENDS MCMoney, FiniteSetTheorems, WellFoundedInduction, TLAPS

-----------------------------------------------------------------------------
(* Sums over finite sets: what the folds of the community modules are, by     *)
(* the least counterexample on the size of a set.                             *)

Any(s) == CHOOSE x \in s : TRUE

\* The equation of the fold of SumFunctionOnSet.
SumStep(g, F, s) == IF s = {} THEN 0 ELSE g[Any(s)] + F[s \ {Any(s)}]
IsSum(g, S, F) == F = [s \in SUBSET S |-> SumStep(g, F, s)]

LEMMA LeastNat ==
  ASSUME NEW B \in SUBSET Nat, B # {}
  PROVE  \E n \in B : \A m \in B : n <= m
  <1> DEFINE R == {ss \in Nat \X Nat : ss[1] < ss[2]}
  <1>1. IsWellFoundedOn(R, Nat)
    BY NatLessThanWellFounded DEF OpToRel
  <1>2. \A x, y \in Nat : <<y, x>> \in R <=> y < x
    OBVIOUS
  <1> HIDE DEF R
  <1>3. PICK n \in B : \A m \in B : ~(<<m, n>> \in R)
    BY <1>1, WFMin
  <1>4. ASSUME NEW m \in B PROVE n <= m
    <2>1. n \in Nat /\ m \in Nat
      OBVIOUS
    <2>2. ~(m < n)
      BY <1>2, <1>3, <2>1
    <2> QED BY <2>1, <2>2
  <1> QED BY <1>4

\* Every subset of a finite set is smaller by one without the element that is chosen.
LEMMA OneLess ==
  ASSUME NEW T, IsFiniteSet(T), NEW s \in SUBSET T, s # {}, NEW x \in s
  PROVE  /\ s \ {x} \in SUBSET T /\ IsFiniteSet(s)
         /\ Cardinality(s) \in Nat /\ Cardinality(s) > 0 /\ Cardinality(s \ {x}) = Cardinality(s) - 1
  <1>1. IsFiniteSet(s)
    BY FS_Subset
  <1>2. Cardinality(s) \in Nat /\ Cardinality(s) # 0
    BY <1>1, FS_CardinalityType, FS_EmptySet
  <1>3. Cardinality(s \ {x}) = Cardinality(s) - 1
    BY <1>1, FS_RemoveElement
  <1> QED BY <1>1, <1>2, <1>3

LEMMA AnyMember == ASSUME NEW s, s # {} PROVE Any(s) \in s
  BY DEF Any

\* Two functions that satisfy the equation on S and on T agree where both are defined.
LEMMA SumsAgree ==
  ASSUME NEW S, IsFiniteSet(S), NEW T, NEW U \in SUBSET (S \cap T), NEW g, NEW h, \A x \in U : g[x] = h[x],
         NEW F, IsSum(g, S, F), NEW G, IsSum(h, T, G)
  PROVE  F[U] = G[U]
  <1> DEFINE Bad == {n \in Nat : \E s \in SUBSET U : Cardinality(s) = n /\ F[s] # G[s]}
  <1>1. SUFFICES Bad = {}
    <2>1. U \in SUBSET U /\ IsFiniteSet(U) /\ Cardinality(U) \in Nat
      BY FS_Subset, FS_CardinalityType
    <2> QED BY <1>1, <2>1
  <1>2. SUFFICES ASSUME Bad # {} PROVE FALSE
    OBVIOUS
  <1>3. Bad \in SUBSET Nat
    OBVIOUS
  <1>4. PICK n \in Bad : \A m \in Bad : n <= m
    BY <1>2, <1>3, LeastNat
  <1>5. PICK s \in SUBSET U : Cardinality(s) = n /\ F[s] # G[s]
    BY <1>4
  <1>6. s \in SUBSET S /\ s \in SUBSET T
    BY <1>5
  <1>7. F[s] = SumStep(g, F, s) /\ G[s] = SumStep(h, G, s)
    BY <1>6 DEF IsSum
  <1>8. s # {}
    BY <1>5, <1>7 DEF SumStep
  <1>9. Any(s) \in s
    BY <1>8, AnyMember
  <1> DEFINE r == s \ {Any(s)}
  <1>10. r \in SUBSET U /\ Cardinality(r) \in Nat /\ Cardinality(r) < n
    <2>1. Cardinality(s) \in Nat /\ Cardinality(s) > 0 /\ Cardinality(r) = Cardinality(s) - 1
      BY <1>6, <1>8, <1>9, OneLess
    <2> QED BY <1>5, <2>1
  <1>11. F[r] = G[r]
    <2>0. n \in Nat /\ ~(n <= Cardinality(r))
      BY <1>10
    <2>1. Cardinality(r) \notin Bad
      BY <1>4, <2>0
    <2> QED BY <1>10, <2>1
  <1>12. g[Any(s)] = h[Any(s)]
    BY <1>9
  <1>13. F[s] = g[Any(s)] + F[r] /\ G[s] = h[Any(s)] + G[r]
    BY <1>7, <1>8 DEF SumStep
  <1> QED BY <1>5, <1>11, <1>12, <1>13

LEMMA SumExists ==
  ASSUME NEW S, IsFiniteSet(S), NEW g
  PROVE  \E F : IsSum(g, S, F)
  <1> DEFINE Upto(F, n) == F = [s \in SUBSET S |-> IF Cardinality(s) <= n THEN SumStep(g, F, s) ELSE 0]
             Bad == {n \in Nat : ~\E F : Upto(F, n)}
  <1>1. Cardinality(S) \in Nat
    BY FS_CardinalityType
  <1>2. ASSUME Bad = {} PROVE \E F : IsSum(g, S, F)
    <2>1. PICK F : Upto(F, Cardinality(S))
      BY <1>1, <1>2
    <2>2. \A s \in SUBSET S : Cardinality(s) <= Cardinality(S)
      BY FS_Subset
    <2> QED BY <2>1, <2>2 DEF IsSum
  <1>3. ASSUME Bad # {} PROVE FALSE
    <2>1. Bad \in SUBSET Nat
      OBVIOUS
    <2>2. PICK n \in Bad : \A m \in Bad : n <= m
      BY <1>3, <2>1, LeastNat
    <2>3. n # 0
      <3> SUFFICES ASSUME n = 0 PROVE FALSE
        OBVIOUS
      <3> DEFINE Z == [s \in SUBSET S |-> 0]
      <3>1. \A s \in SUBSET S : Cardinality(s) <= 0 => s = {}
        <4> SUFFICES ASSUME NEW s \in SUBSET S, Cardinality(s) <= 0 PROVE s = {}
          OBVIOUS
        <4>1. IsFiniteSet(s)
          BY FS_Subset
        <4> QED BY <4>1, FS_CardinalityType, FS_EmptySet
      <3>2. Z = [s \in SUBSET S |-> IF Cardinality(s) <= 0 THEN SumStep(g, Z, s) ELSE 0]
        BY <3>1 DEF SumStep
      <3> QED BY <2>2, <3>2
    <2>4. n - 1 \in Nat /\ n - 1 \notin Bad
      <3>1. n \in Nat /\ n - 1 \in Nat /\ ~(n <= n - 1)
        BY <2>3
      <3> QED BY <2>2, <3>1
    <2>5. PICK F : Upto(F, n - 1)
      BY <2>4
    <2> DEFINE G == [s \in SUBSET S |-> IF Cardinality(s) <= n THEN SumStep(g, F, s) ELSE 0]
    <2>6. \A s \in SUBSET S : IsFiniteSet(s) /\ Cardinality(s) \in Nat
      BY FS_Subset, FS_CardinalityType
    <2>7. \A s \in SUBSET S : Cardinality(s) <= n - 1 => G[s] = F[s]
      <3> SUFFICES ASSUME NEW s \in SUBSET S, Cardinality(s) <= n - 1 PROVE G[s] = F[s]
        OBVIOUS
      <3>1. Cardinality(s) <= n
        BY <2>2, <2>6
      <3> QED BY <2>5, <3>1
    <2>8. \A s \in SUBSET S : Cardinality(s) <= n => SumStep(g, F, s) = SumStep(g, G, s)
      <3> SUFFICES ASSUME NEW s \in SUBSET S, Cardinality(s) <= n, s # {}
                   PROVE  SumStep(g, F, s) = SumStep(g, G, s)
        BY DEF SumStep
      <3>1. Any(s) \in s
        BY AnyMember
      <3>2. /\ s \ {Any(s)} \in SUBSET S /\ Cardinality(s) \in Nat
            /\ Cardinality(s \ {Any(s)}) = Cardinality(s) - 1
        BY <3>1, OneLess
      <3>3. Cardinality(s \ {Any(s)}) <= n - 1
        BY <2>2, <3>2
      <3>4. G[s \ {Any(s)}] = F[s \ {Any(s)}]
        BY <2>7, <3>2, <3>3
      <3> HIDE DEF G
      <3> QED BY <3>4 DEF SumStep
    <2>9. Upto(G, n)
      <3> DEFINE H == [s \in SUBSET S |-> IF Cardinality(s) <= n THEN SumStep(g, G, s) ELSE 0]
      <3>1. \A s \in SUBSET S : G[s] = H[s]
        BY <2>8
      <3>2. G = H
        BY <3>1
      <3> QED BY <3>2
    <2> QED BY <2>2, <2>9
  <1> QED BY <1>2, <1>3

\* The fold is a function that satisfies the equation.
LEMMA SumIs ==
  ASSUME NEW g, NEW S, IsFiniteSet(S)
  PROVE  \E F : IsSum(g, S, F) /\ SumFunctionOnSet(g, S) = F[S]
  <1> DEFINE F == CHOOSE G : IsSum(g, S, G)
  <1>1. IsSum(g, S, F)
    BY SumExists
  <1>2. SumFunctionOnSet(g, S) = F[S]
    BY DEF SumFunctionOnSet, FoldFunctionOnSet, MapThenFoldSet, IsSum, SumStep, Any
  <1> QED BY <1>1, <1>2

LEMMA SumEmpty == ASSUME NEW g PROVE SumFunctionOnSet(g, {}) = 0
  <1>1. PICK F : IsSum(g, {}, F) /\ SumFunctionOnSet(g, {}) = F[{}]
    BY SumIs, FS_EmptySet
  <1> QED BY <1>1 DEF IsSum, SumStep

\* A sum depends on the values on its set only.
LEMMA SumSame ==
  ASSUME NEW S, IsFiniteSet(S), NEW g, NEW h, \A x \in S : g[x] = h[x]
  PROVE  SumFunctionOnSet(g, S) = SumFunctionOnSet(h, S)
  <1>1. PICK F : IsSum(g, S, F) /\ SumFunctionOnSet(g, S) = F[S]
    BY SumIs
  <1>2. PICK G : IsSum(h, S, G) /\ SumFunctionOnSet(h, S) = G[S]
    BY SumIs
  <1>3. F[S] = G[S]
    BY <1>1, <1>2, SumsAgree
  <1> QED BY <1>1, <1>2, <1>3

\* The element that the fold takes first.
LEMMA SumAny ==
  ASSUME NEW S, IsFiniteSet(S), S # {}, NEW g
  PROVE  SumFunctionOnSet(g, S) = g[Any(S)] + SumFunctionOnSet(g, S \ {Any(S)})
  <1> DEFINE r == S \ {Any(S)}
  <1>1. PICK F : IsSum(g, S, F) /\ SumFunctionOnSet(g, S) = F[S]
    BY SumIs
  <1>2. IsFiniteSet(r) /\ r \in SUBSET S
    BY FS_Subset
  <1>3. PICK G : IsSum(g, r, G) /\ SumFunctionOnSet(g, r) = G[r]
    BY <1>2, SumIs
  <1>4. F[r] = G[r]
    <2>1. r \in SUBSET (S \cap r)
      OBVIOUS
    <2> HIDE DEF r
    <2> QED BY <1>1, <1>3, <2>1, SumsAgree
  <1>5. F[S] = g[Any(S)] + F[r]
    BY <1>1 DEF IsSum, SumStep
  <1> QED BY <1>1, <1>3, <1>4, <1>5

\* Sums of integers are integers, and sums of natural numbers are.
LEMMA SumIn ==
  ASSUME NEW S, IsFiniteSet(S), NEW N, N = Nat \/ N = Int \/ N = {0}, NEW g, \A x \in S : g[x] \in N
  PROVE  SumFunctionOnSet(g, S) \in N
  <1>z. 0 \in N /\ \A a, b \in N : a + b \in N
    <2>1. CASE N = Nat
      BY <2>1
    <2>2. CASE N = Int
      BY <2>2
    <2>3. CASE N = {0}
      BY <2>3
    <2> QED BY <2>1, <2>2, <2>3
  <1> DEFINE Bad == {n \in Nat : \E s \in SUBSET S : Cardinality(s) = n /\ SumFunctionOnSet(g, s) \notin N}
  <1>1. SUFFICES ASSUME Bad # {} PROVE FALSE
    <2>1. S \in SUBSET S /\ Cardinality(S) \in Nat
      BY FS_CardinalityType
    <2> QED BY <1>1, <2>1
  <1>2. Bad \in SUBSET Nat
    OBVIOUS
  <1>3. PICK n \in Bad : \A m \in Bad : n <= m
    BY <1>1, <1>2, LeastNat
  <1>4. PICK s \in SUBSET S : Cardinality(s) = n /\ SumFunctionOnSet(g, s) \notin N
    BY <1>3
  <1>5. s # {} /\ IsFiniteSet(s)
    <2>1. s # {}
      <3>1. SumFunctionOnSet(g, {}) = 0 /\ 0 \in N
        BY <1>z, SumEmpty
      <3> HIDE DEF Bad
      <3> QED BY <1>4, <3>1
    <2> QED BY <2>1, FS_Subset
  <1>6. Any(s) \in s
    BY <1>5, AnyMember
  <1> DEFINE r == s \ {Any(s)}
  <1>7. r \in SUBSET S /\ Cardinality(r) \in Nat /\ ~(n <= Cardinality(r))
    <2>1. Cardinality(s) \in Nat /\ Cardinality(s) > 0 /\ Cardinality(r) = Cardinality(s) - 1
      BY <1>5, <1>6, OneLess
    <2> QED BY <1>4, <2>1
  <1>8. SumFunctionOnSet(g, r) \in N
    <2>1. Cardinality(r) \notin Bad
      BY <1>3, <1>7
    <2> QED BY <1>7, <2>1
  <1>9. SumFunctionOnSet(g, s) = g[Any(s)] + SumFunctionOnSet(g, r)
    BY <1>5, SumAny
  <1>10. g[Any(s)] \in N
    BY <1>6
  <1> HIDE DEF r
  <1> QED BY <1>4, <1>8, <1>9, <1>10, <1>z

LEMMA SumInt == ASSUME NEW S, IsFiniteSet(S), NEW g, \A x \in S : g[x] \in Int PROVE SumFunctionOnSet(g, S) \in Int
  BY SumIn

LEMMA SumNat == ASSUME NEW S, IsFiniteSet(S), NEW g, \A x \in S : g[x] \in Nat PROVE SumFunctionOnSet(g, S) \in Nat
  BY SumIn

LEMMA SumZero == ASSUME NEW S, IsFiniteSet(S), NEW g, \A x \in S : g[x] = 0 PROVE SumFunctionOnSet(g, S) = 0
  <1>1. \A x \in S : g[x] \in {0}
    OBVIOUS
  <1>2. SumFunctionOnSet(g, S) \in {0}
    BY <1>1, SumIn
  <1> QED BY <1>2

\* Any element may be taken first.
LEMMA SumRemove ==
  ASSUME NEW S, IsFiniteSet(S), NEW g, \A x \in S : g[x] \in Int, NEW e \in S
  PROVE  SumFunctionOnSet(g, S) = g[e] + SumFunctionOnSet(g, S \ {e})
  <1> DEFINE First(s, x) == SumFunctionOnSet(g, s) = g[x] + SumFunctionOnSet(g, s \ {x})
             Bad == {n \in Nat : \E s \in SUBSET S : Cardinality(s) = n /\ \E x \in s : ~First(s, x)}
  <1>1. SUFFICES ASSUME Bad # {} PROVE FALSE
    <2>1. S \in SUBSET S /\ Cardinality(S) \in Nat
      BY FS_CardinalityType
    <2> QED BY <1>1, <2>1
  <1>2. Bad \in SUBSET Nat
    OBVIOUS
  <1>3. PICK n \in Bad : \A m \in Bad : n <= m
    BY <1>1, <1>2, LeastNat
  <1>4. PICK s \in SUBSET S : Cardinality(s) = n /\ \E x \in s : ~First(s, x)
    BY <1>3
  <1>5. PICK x \in s : ~First(s, x)
    BY <1>4
  <1>6. s # {} /\ IsFiniteSet(s)
    BY <1>5, FS_Subset
  <1> DEFINE a == Any(s)
  <1>7. a \in s
    BY <1>6, AnyMember
  <1>8. First(s, a)
    BY <1>6, SumAny
  <1>9. x # a
    BY <1>5, <1>8
  <1>10. \A y \in s : /\ s \ {y} \in SUBSET S /\ IsFiniteSet(s \ {y}) /\ Cardinality(s \ {y}) \in Nat
                      /\ ~(n <= Cardinality(s \ {y}))
    <2> SUFFICES ASSUME NEW y \in s
                 PROVE  /\ s \ {y} \in SUBSET S /\ IsFiniteSet(s \ {y}) /\ Cardinality(s \ {y}) \in Nat
                        /\ ~(n <= Cardinality(s \ {y}))
      OBVIOUS
    <2>1. Cardinality(s) \in Nat /\ Cardinality(s) > 0 /\ Cardinality(s \ {y}) = Cardinality(s) - 1
      BY <1>6, OneLess
    <2> QED BY <1>4, <1>6, <2>1, FS_Subset
  \* The rest has a counterexample in neither order.
  <1>11. First(s \ {a}, x)
    <2>1. Cardinality(s \ {a}) \notin Bad
      BY <1>3, <1>7, <1>10
    <2> QED BY <1>5, <1>7, <1>9, <1>10, <2>1
  <1>12. First(s \ {x}, a)
    <2>1. Cardinality(s \ {x}) \notin Bad
      BY <1>3, <1>5, <1>10
    <2> QED BY <1>5, <1>7, <1>9, <1>10, <2>1
  <1> DEFINE both == s \ {a, x}
  <1>13. (s \ {a}) \ {x} = both /\ (s \ {x}) \ {a} = both
    OBVIOUS
  <1>14. SumFunctionOnSet(g, both) \in Int /\ g[a] \in Int /\ g[x] \in Int
    <2>1. IsFiniteSet(both)
      BY <1>6, FS_Subset
    <2> QED BY <1>7, <2>1, SumInt
  <1>15. /\ SumFunctionOnSet(g, s) = g[a] + SumFunctionOnSet(g, s \ {a})
         /\ SumFunctionOnSet(g, s \ {a}) = g[x] + SumFunctionOnSet(g, both)
         /\ SumFunctionOnSet(g, s \ {x}) = g[a] + SumFunctionOnSet(g, both)
    BY <1>8, <1>11, <1>12, <1>13
  <1>16. SumFunctionOnSet(g, s) # g[x] + SumFunctionOnSet(g, s \ {x})
    BY <1>5
  <1> HIDE DEF both, a, Bad, First
  <1> QED BY <1>14, <1>15, <1>16

\* Adding an element.
LEMMA SumAdd ==
  ASSUME NEW S, IsFiniteSet(S), NEW g, \A x \in S : g[x] \in Int, NEW e, e \notin S, g[e] \in Int
  PROVE  SumFunctionOnSet(g, S \cup {e}) = SumFunctionOnSet(g, S) + g[e]
  <1>1. IsFiniteSet(S \cup {e}) /\ (S \cup {e}) \ {e} = S /\ e \in S \cup {e}
    BY FS_AddElement
  <1>2. SumFunctionOnSet(g, S \cup {e}) = g[e] + SumFunctionOnSet(g, S)
    <2> DEFINE T == S \cup {e}
    <2>1. IsFiniteSet(T) /\ e \in T /\ T \ {e} = S /\ \A x \in T : g[x] \in Int
      BY <1>1
    <2> HIDE DEF T
    <2>2. SumFunctionOnSet(g, T) = g[e] + SumFunctionOnSet(g, T \ {e})
      BY <2>1, SumRemove
    <2> QED BY <2>1, <2>2 DEF T
  <1>3. SumFunctionOnSet(g, S) \in Int
    BY SumInt
  <1> QED BY <1>2, <1>3

LEMMA Given == LedgerAssumption
  BY MoneyAssumption DEF MoneyAssumption

-----------------------------------------------------------------------------
(* Sums that change in one element *)

\* The sum over a set from which e was taken, and the sum when only e's
\* membership or value changed.
LEMMA SumTake ==
  ASSUME NEW S, IsFiniteSet(S), NEW g, \A x \in S : g[x] \in Int, NEW e
  PROVE  SumFunctionOnSet(g, S \ {e}) = SumFunctionOnSet(g, S) - (IF e \in S THEN g[e] ELSE 0)
  <1>1. IsFiniteSet(S \ {e})
    BY FS_Subset
  <1>2. SumFunctionOnSet(g, S \ {e}) \in Int /\ SumFunctionOnSet(g, S) \in Int
    <2> DEFINE r == S \ {e}
    <2>1. \A x \in r : g[x] \in Int
      OBVIOUS
    <2> HIDE DEF r
    <2>2. SumFunctionOnSet(g, r) \in Int
      BY <1>1, <2>1, SumInt DEF r
    <2> QED BY <2>2, SumInt DEF r
  <1>3. CASE e \in S
    <2>1. SumFunctionOnSet(g, S) = g[e] + SumFunctionOnSet(g, S \ {e})
      BY <1>3, SumRemove
    <2>2. g[e] \in Int
      BY <1>3
    <2> QED BY <1>2, <1>3, <2>1, <2>2
  <1>4. CASE e \notin S
    <2>1. S \ {e} = S
      BY <1>4
    <2> QED BY <1>2, <1>4, <2>1
  <1> QED BY <1>3, <1>4

LEMMA SumMove ==
  ASSUME NEW S, IsFiniteSet(S), NEW g, \A x \in S : g[x] \in Int,
         NEW R, IsFiniteSet(R), NEW h, \A x \in R : h[x] \in Int,
         NEW e, S \ {e} = R \ {e}, \A x \in S \ {e} : g[x] = h[x]
  PROVE  SumFunctionOnSet(h, R) = SumFunctionOnSet(g, S) - (IF e \in S THEN g[e] ELSE 0)
                                                         + (IF e \in R THEN h[e] ELSE 0)
  <1> DEFINE r == S \ {e}
  <1>1. IsFiniteSet(r)
    BY FS_Subset
  <1>2. SumFunctionOnSet(g, r) = SumFunctionOnSet(g, S) - (IF e \in S THEN g[e] ELSE 0)
    BY SumTake
  <1>3. SumFunctionOnSet(h, r) = SumFunctionOnSet(h, R) - (IF e \in R THEN h[e] ELSE 0)
    <2>1. SumFunctionOnSet(h, R \ {e}) = SumFunctionOnSet(h, R) - (IF e \in R THEN h[e] ELSE 0)
      BY SumTake
    <2> QED BY <2>1
  <1>4. SumFunctionOnSet(g, r) = SumFunctionOnSet(h, r)
    <2>1. \A x \in r : g[x] = h[x]
      OBVIOUS
    <2> HIDE DEF r
    <2> QED BY <1>1, <2>1, SumSame
  <1>5. SumFunctionOnSet(g, S) \in Int /\ SumFunctionOnSet(h, R) \in Int
    BY SumInt
  <1>6. (IF e \in S THEN g[e] ELSE 0) \in Int /\ (IF e \in R THEN h[e] ELSE 0) \in Int
    OBVIOUS
  <1> HIDE DEF r
  <1> QED BY <1>2, <1>3, <1>4, <1>5, <1>6

-----------------------------------------------------------------------------
(* Postings *)

BookType == [balance : [Merchants -> [LEDGER_CODES -> Int]],
             journals : SUBSET (SourceTypes \X (Transfers \cup Receipts)), ok : {TRUE}]

\* One side of a journal, and what a line of it posts to the account d of k.
Only(m, c, n, k, d) == IF k = m /\ d = c THEN n ELSE 0
IsSide(f) == IsFiniteSet(DOMAIN f) /\ \A a \in DOMAIN f : f[a] \in Nat

LEMMA OneLine ==
  ASSUME NEW m, NEW c, NEW n \in Nat
  PROVE  /\ IsSide(On(m, c, n))
         /\ DOMAIN On(m, c, n) = {<<m, c>>}
         /\ SumFunction(On(m, c, n)) = n
         /\ \A k, d : Posted(On(m, c, n), k, d) = Only(m, c, n, k, d)
  <1> DEFINE f == On(m, c, n)
             a == <<m, c>>
  <1>1. DOMAIN f = {a} /\ f[a] = n
    BY DEF On
  <1>2. IsSide(f)
    BY <1>1, FS_Singleton DEF IsSide
  <1>3. SumFunction(f) = n
    <2>1. SumFunctionOnSet(f, {a}) = f[a] + SumFunctionOnSet(f, {a} \ {a})
      <3> DEFINE S == {a}
      <3>0. IsFiniteSet(S)
        BY FS_Singleton
      <3>1. a \in S /\ \A x \in S : f[x] \in Int
        <4>1. f[a] \in Int
          BY <1>1
        <4> HIDE DEF f, a
        <4> QED BY <4>1
      <3> HIDE DEF f, a, S
      <3>2. SumFunctionOnSet(f, S) = f[a] + SumFunctionOnSet(f, S \ {a})
        BY <3>0, <3>1, SumRemove
      <3> QED BY <3>2 DEF S
    <2>2. {a} \ {a} = {}
      OBVIOUS
    <2> HIDE DEF f, a
    <2> QED BY <1>1, <2>1, <2>2, SumEmpty DEF SumFunction
  <1>4. ASSUME NEW k, NEW d
        PROVE  Posted(f, k, d) = Only(m, c, n, k, d)
    BY <1>1 DEF Posted, Only
  <1> QED BY <1>1, <1>2, <1>3, <1>4

\* A line more: the sum, and what is posted to the account d of k.
OneMore(n, g) == n + SumFunction(g)
Also(m, c, n, g, k, d) == Only(m, c, n, k, d) + Posted(g, k, d)

LEMMA MoreSide ==
  ASSUME NEW m, NEW c, NEW n \in Nat, NEW g, IsSide(g), <<m, c>> \notin DOMAIN g
  PROVE  IsSide(Both(On(m, c, n), g))
  <1> DEFINE f == Both(On(m, c, n), g)
             S == DOMAIN g
             a == <<m, c>>
  <1>1. IsFiniteSet(S \cup {a})
    BY FS_AddElement DEF IsSide
  <1>2. DOMAIN f = S \cup {a} /\ f[a] = n /\ \A x \in S : x # a => f[x] = g[x]
    BY DEF Both, On
  <1>3. \A x \in S : g[x] \in Nat
    BY DEF IsSide
  <1> HIDE DEF f, a, S
  <1>4. IsSide(f)
    BY <1>1, <1>2, <1>3 DEF IsSide
  <1> QED BY <1>4 DEF f

LEMMA MoreSum ==
  ASSUME NEW m, NEW c, NEW n \in Nat, NEW g, IsSide(g), <<m, c>> \notin DOMAIN g
  PROVE  SumFunction(Both(On(m, c, n), g)) = OneMore(n, g)
  <1> DEFINE f == Both(On(m, c, n), g)
             a == <<m, c>>
             S == DOMAIN g
  <1>1. /\ DOMAIN f = S \cup {a}
        /\ f[a] = n
        /\ \A x \in S : f[x] = g[x]
    <2>1. DOMAIN f = {a} \cup S /\ f[a] = n /\ \A x \in S : x # a => f[x] = g[x]
      BY DEF Both, On
    <2>2. a \notin S
      OBVIOUS
    <2> HIDE DEF f, a, S
    <2> QED BY <2>1, <2>2
  <1>2. IsFiniteSet(S) /\ a \notin S /\ f[a] \in Int /\ \A x \in S : f[x] \in Int /\ g[x] \in Int
    BY <1>1 DEF IsSide
  <1> HIDE DEF f, a, S
  <1>3. SumFunctionOnSet(f, S \cup {a}) = SumFunctionOnSet(f, S) + f[a]
    BY <1>2, SumAdd
  <1>4. SumFunctionOnSet(f, S) = SumFunctionOnSet(g, S)
    BY <1>1, <1>2, SumSame
  <1>5. SumFunctionOnSet(g, S) \in Int
    BY <1>2, SumInt
  <1>6. SumFunction(f) = SumFunctionOnSet(f, S \cup {a}) /\ SumFunction(g) = SumFunctionOnSet(g, S)
    BY <1>1 DEF SumFunction, S
  <1>7. SumFunction(f) = OneMore(n, g)
    BY <1>1, <1>3, <1>4, <1>5, <1>6 DEF OneMore
  <1> QED BY <1>7 DEF f

LEMMA MorePosted ==
  ASSUME NEW m, NEW c, NEW n \in Nat, NEW g, IsSide(g), <<m, c>> \notin DOMAIN g, NEW k, NEW d
  PROVE  Posted(Both(On(m, c, n), g), k, d) = Also(m, c, n, g, k, d)
  <1> DEFINE f == Both(On(m, c, n), g)
             a == <<m, c>>
  <1>1. DOMAIN f = {a} \cup DOMAIN g /\ f[a] = n /\ \A x \in DOMAIN g : x # a => f[x] = g[x]
    BY DEF Both, On
  <1>2. <<k, d>> \in DOMAIN g => g[<<k, d>>] \in Nat
    BY DEF IsSide
  <1>3. CASE k = m /\ d = c
    <2>1. <<k, d>> = a /\ <<k, d>> \notin DOMAIN g
      BY <1>3
    <2>2. Posted(f, k, d) = n /\ Posted(g, k, d) = 0
      <3> HIDE DEF f, a
      <3> QED BY <1>1, <2>1 DEF Posted
    <2> QED BY <1>3, <2>2 DEF Only, Also
  <1>4. CASE ~(k = m /\ d = c)
    <2>1. <<k, d>> # a
      BY <1>4
    <2>2. <<k, d>> \in DOMAIN f <=> <<k, d>> \in DOMAIN g
      BY <1>1, <2>1
    <2>3. Posted(f, k, d) = Posted(g, k, d)
      <3> HIDE DEF f, a
      <3> QED BY <1>1, <2>1, <2>2 DEF Posted
    <2>4. Posted(g, k, d) \in Nat
      BY <1>2 DEF Posted
    <2> QED BY <1>4, <2>3, <2>4 DEF Only, Also
  <1> QED BY <1>3, <1>4

LEMMA PostedNat ==
  ASSUME NEW f, IsSide(f), NEW k, NEW d
  PROVE  Posted(f, k, d) \in Nat
  BY DEF IsSide, Posted

\* A balanced journal of a new source is posted; one of a known source is dropped.
LEMMA PostNew ==
  ASSUME NEW b \in BookType, NEW s \in SourceTypes, NEW x \in Transfers \cup Receipts, <<s, x>> \notin b.journals,
         NEW D, IsSide(D), NEW C, IsSide(C), SumFunction(D) = SumFunction(C)
  PROVE  /\ post(b, s, x, D, C) \in BookType
         /\ post(b, s, x, D, C).journals = b.journals \cup {<<s, x>>}
         /\ \A m \in Merchants, c \in LEDGER_CODES :
              post(b, s, x, D, C).balance[m][c] = b.balance[m][c] + Sign(c) * (Posted(D, m, c) - Posted(C, m, c))
  <1> DEFINE bal == [m \in Merchants |-> [c \in LEDGER_CODES |->
                       b.balance[m][c] + Sign(c) * (Posted(D, m, c) - Posted(C, m, c))]]
  <1>1. post(b, s, x, D, C) = [balance |-> bal, journals |-> b.journals \cup {<<s, x>>}, ok |-> b.ok]
    BY DEF post, Balanced, IsSide
  <1>2. bal \in [Merchants -> [LEDGER_CODES -> Int]]
    <2>1. ASSUME NEW m \in Merchants, NEW c \in LEDGER_CODES
          PROVE  b.balance[m][c] + Sign(c) * (Posted(D, m, c) - Posted(C, m, c)) \in Int
      <3>1. Posted(D, m, c) \in Nat /\ Posted(C, m, c) \in Nat
        BY PostedNat
      <3>2. b.balance[m][c] \in Int
        BY DEF BookType
      <3>3. Sign(c) = 1 \/ Sign(c) = -1
        BY DEF Sign
      <3> QED BY <3>1, <3>2, <3>3
    <2> QED BY <2>1
  <1>3. b.journals \cup {<<s, x>>} \in SUBSET (SourceTypes \X (Transfers \cup Receipts)) /\ b.ok \in {TRUE}
    <2>1. b.journals \in SUBSET (SourceTypes \X (Transfers \cup Receipts)) /\ b.ok \in {TRUE}
      BY DEF BookType
    <2>2. <<s, x>> \in SourceTypes \X (Transfers \cup Receipts)
      OBVIOUS
    <2> QED BY <2>1, <2>2
  <1>4. \A m \in Merchants, c \in LEDGER_CODES :
          bal[m][c] = b.balance[m][c] + Sign(c) * (Posted(D, m, c) - Posted(C, m, c))
    OBVIOUS
  <1> HIDE DEF bal
  <1>7. PICK p : p = post(b, s, x, D, C)
    OBVIOUS
  <1>8. p = [balance |-> bal, journals |-> b.journals \cup {<<s, x>>}, ok |-> b.ok]
    BY <1>1, <1>7
  <1>9. p \in BookType
    <2>1. PICK J : J = b.journals \cup {<<s, x>>}
      OBVIOUS
    <2>2. J \in SUBSET (SourceTypes \X (Transfers \cup Receipts)) /\ p = [balance |-> bal, journals |-> J, ok |-> b.ok]
      BY <1>3, <1>8, <2>1
    <2> QED BY <1>2, <1>3, <2>2 DEF BookType
  <1>10. p.journals = b.journals \cup {<<s, x>>} /\ p.balance = bal
    BY <1>8
  <1> QED BY <1>4, <1>7, <1>9, <1>10

LEMMA PostOld ==
  ASSUME NEW b \in BookType, NEW s, NEW x, <<s, x>> \in b.journals,
         NEW D, IsSide(D), NEW C, IsSide(C), SumFunction(D) = SumFunction(C)
  PROVE  post(b, s, x, D, C) = b
  BY DEF post, Balanced, IsSide

-----------------------------------------------------------------------------
(* What the operations of LedgerService do to the accounts *)

\* From the book b to the book c, the accounts of merchant m move by these amounts
\* and those of no other merchant move.
Moved(b, c, m, available, reserves, suspended, custody, treasury, fees) ==
  \A k \in Merchants :
    /\ c.balance[k]["available"] = b.balance[k]["available"] + (IF k = m THEN available ELSE 0)
    /\ c.balance[k]["reserved"] = b.balance[k]["reserved"] + (IF k = m THEN reserves ELSE 0)
    /\ c.balance[k]["custody"] = b.balance[k]["custody"] + (IF k = m THEN custody ELSE 0)
    /\ c.balance[k]["treasury"] = b.balance[k]["treasury"] + (IF k = m THEN treasury ELSE 0)
    /\ c.balance[k]["platformFees"] = b.balance[k]["platformFees"] + (IF k = m THEN fees ELSE 0)
    /\ c.balance[k]["suspense"] = b.balance[k]["suspense"] + (IF k = m THEN suspended ELSE 0)

\* From b to c, one journal was posted.
Added(b, c, s, x) == c \in BookType /\ c.journals = b.journals \cup {<<s, x>>}

LEMMA Signs ==
  /\ Sign("custody") = 1 /\ Sign("treasury") = 1
  /\ Sign("available") = -1 /\ Sign("reserved") = -1 /\ Sign("suspense") = -1 /\ Sign("platformFees") = -1
  BY DEF Sign, Assets

LEMMA Numbers ==
  /\ \A t \in Transfers : /\ Owner[t] \in Merchants /\ Amount[t] \in Nat
                          /\ Total(t) \in Nat /\ Gateway(t) \in Nat
                          /\ Mode[t] \in {"merchant_debit", "internal_move"}
  /\ \A r \in Receipts : Amount[r] \in Nat
  /\ ReserveFee \in Nat /\ GatewayFee \in Nat /\ TestFee \in Nat /\ ActualFees \subseteq Nat
  BY Given DEF LedgerAssumption, Total, Gateway

LEMMA BalancesInt ==
  ASSUME NEW b \in BookType, NEW m \in Merchants
  PROVE  \A c \in LEDGER_CODES : b.balance[m][c] \in Int
  BY DEF BookType

LEMMA Codes == {"available", "reserved", "custody", "treasury", "platformFees", "suspense"} = LEDGER_CODES
  BY DEF LEDGER_CODES

\* A new journal about one merchant.
LEMMA PostMoves ==
  ASSUME NEW b \in BookType, NEW s \in SourceTypes, NEW x \in Transfers \cup Receipts, <<s, x>> \notin b.journals,
         NEW D, IsSide(D), NEW C, IsSide(C), SumFunction(D) = SumFunction(C),
         NEW m, \A k \in Merchants, c \in LEDGER_CODES : k # m => Posted(D, k, c) = Posted(C, k, c),
         NEW av, av = Posted(C, m, "available") - Posted(D, m, "available"),
         NEW re, re = Posted(C, m, "reserved") - Posted(D, m, "reserved"),
         NEW su, su = Posted(C, m, "suspense") - Posted(D, m, "suspense"),
         NEW cu, cu = Posted(D, m, "custody") - Posted(C, m, "custody"),
         NEW tr, tr = Posted(D, m, "treasury") - Posted(C, m, "treasury"),
         NEW fe, fe = Posted(C, m, "platformFees") - Posted(D, m, "platformFees")
  PROVE  /\ Added(b, post(b, s, x, D, C), s, x)
         /\ Moved(b, post(b, s, x, D, C), m, av, re, su, cu, tr, fe)
  <1>1. PICK p : p = post(b, s, x, D, C)
    OBVIOUS
  <1>2. Added(b, p, s, x) /\ \A k \in Merchants, c \in LEDGER_CODES :
          p.balance[k][c] = b.balance[k][c] + Sign(c) * (Posted(D, k, c) - Posted(C, k, c))
    BY <1>1, PostNew DEF Added
  <1>3. ASSUME NEW k \in Merchants
        PROVE  /\ p.balance[k]["available"] = b.balance[k]["available"] + (IF k = m THEN av ELSE 0)
               /\ p.balance[k]["reserved"] = b.balance[k]["reserved"] + (IF k = m THEN re ELSE 0)
               /\ p.balance[k]["custody"] = b.balance[k]["custody"] + (IF k = m THEN cu ELSE 0)
               /\ p.balance[k]["treasury"] = b.balance[k]["treasury"] + (IF k = m THEN tr ELSE 0)
               /\ p.balance[k]["platformFees"] = b.balance[k]["platformFees"] + (IF k = m THEN fe ELSE 0)
               /\ p.balance[k]["suspense"] = b.balance[k]["suspense"] + (IF k = m THEN su ELSE 0)
    <2>1. \A c \in LEDGER_CODES : /\ b.balance[k][c] \in Int
                                  /\ Posted(D, k, c) \in Nat /\ Posted(C, k, c) \in Nat
      BY BalancesInt, PostedNat
    <2>2. CASE k = m
      BY <1>2, <2>1, <2>2, Signs, Codes
    <2>3. CASE k # m
      BY <1>2, <2>1, <2>3, Signs, Codes
    <2> QED BY <2>2, <2>3
  <1> QED BY <1>1, <1>2, <1>3 DEF Moved

\* A journal of one line on each side moves two accounts.
Shift(a, c, d, n) == IF a = c THEN Sign(a) * n ELSE IF a = d THEN 0 - Sign(a) * n ELSE 0

LEMMA PairMoves ==
  ASSUME NEW b \in BookType, NEW s \in SourceTypes, NEW x \in Transfers \cup Receipts,
         NEW m, NEW c \in LEDGER_CODES, NEW d \in LEDGER_CODES, c # d, NEW n \in Nat
  PROVE  LET p == post(b, s, x, On(m, c, n), On(m, d, n)) IN
         /\ <<s, x>> \in b.journals => p = b
         /\ <<s, x>> \notin b.journals =>
              /\ Added(b, p, s, x)
              /\ Moved(b, p, m, Shift("available", c, d, n), Shift("reserved", c, d, n), Shift("suspense", c, d, n),
                       Shift("custody", c, d, n), Shift("treasury", c, d, n), Shift("platformFees", c, d, n))
  <1> DEFINE D == On(m, c, n)
             C == On(m, d, n)
  <1>1. /\ IsSide(D) /\ SumFunction(D) = n
        /\ \A k, e : Posted(D, k, e) = Only(m, c, n, k, e)
    BY OneLine
  <1>2. /\ IsSide(C) /\ SumFunction(C) = n
        /\ \A k, e : Posted(C, k, e) = Only(m, d, n, k, e)
    BY OneLine
  <1> HIDE DEF D, C
  <1>4. <<s, x>> \in b.journals => post(b, s, x, D, C) = b
    BY <1>1, <1>2, PostOld
  <1>5. ASSUME <<s, x>> \notin b.journals
        PROVE  /\ Added(b, post(b, s, x, D, C), s, x)
               /\ Moved(b, post(b, s, x, D, C), m, Shift("available", c, d, n), Shift("reserved", c, d, n), Shift("suspense", c, d, n),
                        Shift("custody", c, d, n), Shift("treasury", c, d, n), Shift("platformFees", c, d, n))
    <2>1. \A k \in Merchants, e \in LEDGER_CODES : k # m => Posted(D, k, e) = Posted(C, k, e)
      BY <1>1, <1>2 DEF Only
    <2>2. /\ Shift("available", c, d, n) = Posted(C, m, "available") - Posted(D, m, "available")
          /\ Shift("reserved", c, d, n) = Posted(C, m, "reserved") - Posted(D, m, "reserved")
          /\ Shift("suspense", c, d, n) = Posted(C, m, "suspense") - Posted(D, m, "suspense")
      BY <1>1, <1>2, Signs DEF Only, Shift
    <2>3. /\ Shift("custody", c, d, n) = Posted(D, m, "custody") - Posted(C, m, "custody")
          /\ Shift("treasury", c, d, n) = Posted(D, m, "treasury") - Posted(C, m, "treasury")
          /\ Shift("platformFees", c, d, n) = Posted(C, m, "platformFees") - Posted(D, m, "platformFees")
      BY <1>1, <1>2, Signs DEF Only, Shift
    <2> QED BY <1>1, <1>2, <1>5, <2>1, <2>2, <2>3, PostMoves
  <1> QED BY <1>4, <1>5 DEF D, C

\* The moves of a reservation, a release, a deposit and a suspended receipt.
LEMMA HoldMoves ==
  ASSUME NEW b \in BookType, NEW t \in Transfers, NEW s \in SourceTypes, NEW n \in Nat
  PROVE  /\ <<s, t>> \in b.journals => Hold(b, s, t, n) = b
         /\ <<s, t>> \notin b.journals =>
              /\ Added(b, Hold(b, s, t, n), s, t)
              /\ Moved(b, Hold(b, s, t, n), Owner[t], 0 - n, n, 0, 0, 0, 0)
  <1>1. /\ Shift("available", "available", "reserved", n) = 0 - n
        /\ Shift("reserved", "available", "reserved", n) = n
        /\ Shift("suspense", "available", "reserved", n) = 0
        /\ Shift("custody", "available", "reserved", n) = 0
        /\ Shift("treasury", "available", "reserved", n) = 0
        /\ Shift("platformFees", "available", "reserved", n) = 0
    BY Signs DEF Shift
  <1>2. "available" \in LEDGER_CODES /\ "reserved" \in LEDGER_CODES /\ "available" # "reserved"
    BY Codes
  <1> QED BY <1>1, <1>2, PairMoves DEF Hold

LEMMA ReturnMoves ==
  ASSUME NEW b \in BookType, NEW t \in Transfers, NEW n \in Nat
  PROVE  /\ <<"release", t>> \in b.journals => Return(b, t, n) = b
         /\ <<"release", t>> \notin b.journals =>
              /\ Added(b, Return(b, t, n), "release", t)
              /\ Moved(b, Return(b, t, n), Owner[t], n, 0 - n, 0, 0, 0, 0)
  <1>1. /\ Shift("available", "reserved", "available", n) = n
        /\ Shift("reserved", "reserved", "available", n) = 0 - n
        /\ Shift("suspense", "reserved", "available", n) = 0
        /\ Shift("custody", "reserved", "available", n) = 0
        /\ Shift("treasury", "reserved", "available", n) = 0
        /\ Shift("platformFees", "reserved", "available", n) = 0
    BY Signs DEF Shift
  <1>2. "available" \in LEDGER_CODES /\ "reserved" \in LEDGER_CODES /\ "available" # "reserved" /\ "release" \in SourceTypes
    BY Codes DEF SourceTypes
  <1> QED BY <1>1, <1>2, PairMoves DEF Return

LEMMA CreditMoves ==
  ASSUME NEW b \in BookType, NEW r \in Receipts, NEW m, <<"deposit", r>> \notin b.journals
  PROVE  /\ Added(b, creditDeposit(b, m, r), "deposit", r)
         /\ Moved(b, creditDeposit(b, m, r), m, Amount[r], 0, 0, Amount[r], 0, 0)
  <1> DEFINE n == Amount[r]
  <1>1. n \in Nat
    BY Numbers
  <1>2. "available" \in LEDGER_CODES /\ "custody" \in LEDGER_CODES /\ "available" # "custody" /\ "deposit" \in SourceTypes
    BY Codes DEF SourceTypes
  <1>3. creditDeposit(b, m, r) = post(b, "deposit", r, On(m, "custody", n), On(m, "available", n))
    BY DEF creditDeposit
  <1> HIDE DEF n
  <1>4. /\ Shift("available", "custody", "available", n) = n
        /\ Shift("reserved", "custody", "available", n) = 0
        /\ Shift("suspense", "custody", "available", n) = 0
        /\ Shift("custody", "custody", "available", n) = n
        /\ Shift("treasury", "custody", "available", n) = 0
        /\ Shift("platformFees", "custody", "available", n) = 0
    BY <1>1, Signs DEF Shift
  <1>5. /\ Added(b, creditDeposit(b, m, r), "deposit", r)
        /\ Moved(b, creditDeposit(b, m, r), m, n, 0, 0, n, 0, 0)
    BY <1>1, <1>2, <1>3, <1>4, PairMoves
  <1> QED BY <1>5 DEF n

LEMMA SuspendMoves ==
  ASSUME NEW b \in BookType, NEW r \in Receipts, NEW m, <<"receipt_suspense", r>> \notin b.journals
  PROVE  /\ Added(b, moveReceiptToSuspense(b, m, r), "receipt_suspense", r)
         /\ Moved(b, moveReceiptToSuspense(b, m, r), m, 0, 0, Amount[r], Amount[r], 0, 0)
  <1> DEFINE n == Amount[r]
  <1>1. n \in Nat
    BY Numbers
  <1>2. "suspense" \in LEDGER_CODES /\ "custody" \in LEDGER_CODES /\ "suspense" # "custody" /\ "receipt_suspense" \in SourceTypes
    BY Codes DEF SourceTypes
  <1>3. moveReceiptToSuspense(b, m, r) = post(b, "receipt_suspense", r, On(m, "custody", n), On(m, "suspense", n))
    BY DEF moveReceiptToSuspense
  <1> HIDE DEF n
  <1>4. /\ Shift("available", "custody", "suspense", n) = 0
        /\ Shift("reserved", "custody", "suspense", n) = 0
        /\ Shift("suspense", "custody", "suspense", n) = n
        /\ Shift("custody", "custody", "suspense", n) = n
        /\ Shift("treasury", "custody", "suspense", n) = 0
        /\ Shift("platformFees", "custody", "suspense", n) = 0
    BY <1>1, Signs DEF Shift
  <1>5. /\ Added(b, moveReceiptToSuspense(b, m, r), "receipt_suspense", r)
        /\ Moved(b, moveReceiptToSuspense(b, m, r), m, 0, 0, n, n, 0, 0)
    BY <1>1, <1>2, <1>3, <1>4, PairMoves
  <1> QED BY <1>5 DEF n

\* A resolution moves the money and the claim to it from the source to the target.
LEMMA ResolveMoves ==
  ASSUME NEW b \in BookType, NEW r \in Receipts, NEW source, NEW target, <<"suspense_resolution", r>> \notin b.journals
  PROVE  LET p == releaseSuspenseToMerchant(b, source, target, r) IN
         /\ Added(b, p, "suspense_resolution", r)
         /\ \A k \in Merchants :
              /\ p.balance[k]["available"] = b.balance[k]["available"] + (IF k = target THEN Amount[r] ELSE 0)
              /\ p.balance[k]["suspense"] = b.balance[k]["suspense"] - (IF k = source THEN Amount[r] ELSE 0)
              /\ p.balance[k]["custody"] = b.balance[k]["custody"] + (IF k = target THEN Amount[r] ELSE 0)
                                                                  - (IF k = source THEN Amount[r] ELSE 0)
              /\ \A c \in {"reserved", "treasury", "platformFees"} : p.balance[k][c] = b.balance[k][c]
  <1> DEFINE n == Amount[r]
             D2 == On(target, "custody", n)
             C2 == On(source, "custody", n)
             D == Both(On(source, "suspense", n), D2)
             C == Both(On(target, "available", n), C2)
             p == releaseSuspenseToMerchant(b, source, target, r)
  <1>1. n \in Nat
    BY Numbers
  <1>2. p = post(b, "suspense_resolution", r, D, C) /\ "suspense_resolution" \in SourceTypes
    BY DEF releaseSuspenseToMerchant, SourceTypes
  <1> HIDE DEF n
  <1>3. IsSide(D2) /\ SumFunction(D2) = n /\ DOMAIN D2 = {<<target, "custody">>}
        /\ \A k, e : Posted(D2, k, e) = Only(target, "custody", n, k, e)
    BY <1>1, OneLine
  <1>4. IsSide(C2) /\ SumFunction(C2) = n /\ DOMAIN C2 = {<<source, "custody">>}
        /\ \A k, e : Posted(C2, k, e) = Only(source, "custody", n, k, e)
    BY <1>1, OneLine
  <1> HIDE DEF D2, C2
  <1>5. IsSide(D) /\ SumFunction(D) = n + SumFunction(D2)
        /\ \A k, e : Posted(D, k, e) = Only(source, "suspense", n, k, e) + Posted(D2, k, e)
    <2>1. <<source, "suspense">> \notin DOMAIN D2
      BY <1>3
    <2>2. PICK g : g = D2
      OBVIOUS
    <2>3. IsSide(g) /\ <<source, "suspense">> \notin DOMAIN g
      BY <1>3, <2>1, <2>2
    <2>4. /\ IsSide(Both(On(source, "suspense", n), g))
          /\ SumFunction(Both(On(source, "suspense", n), g)) = OneMore(n, g)
      BY <1>1, <2>3, MoreSide, MoreSum
    <2>5. ASSUME NEW k, NEW e
          PROVE  Posted(Both(On(source, "suspense", n), g), k, e) = Also(source, "suspense", n, g, k, e)
      BY <1>1, <2>3, MorePosted
    <2> QED BY <2>2, <2>4, <2>5 DEF OneMore, Also
  <1>6. IsSide(C) /\ SumFunction(C) = n + SumFunction(C2)
        /\ \A k, e : Posted(C, k, e) = Only(target, "available", n, k, e) + Posted(C2, k, e)
    <2>1. <<target, "available">> \notin DOMAIN C2
      BY <1>4
    <2>2. PICK g : g = C2
      OBVIOUS
    <2>3. IsSide(g) /\ <<target, "available">> \notin DOMAIN g
      BY <1>4, <2>1, <2>2
    <2>4. /\ IsSide(Both(On(target, "available", n), g))
          /\ SumFunction(Both(On(target, "available", n), g)) = OneMore(n, g)
      BY <1>1, <2>3, MoreSide, MoreSum
    <2>5. ASSUME NEW k, NEW e
          PROVE  Posted(Both(On(target, "available", n), g), k, e) = Also(target, "available", n, g, k, e)
      BY <1>1, <2>3, MorePosted
    <2> QED BY <2>2, <2>4, <2>5 DEF OneMore, Also
  <1> HIDE DEF D, C, p
  <1>7. Added(b, p, "suspense_resolution", r) /\ \A k \in Merchants, e \in LEDGER_CODES :
          p.balance[k][e] = b.balance[k][e] + Sign(e) * (Posted(D, k, e) - Posted(C, k, e))
    BY <1>1, <1>2, <1>3, <1>4, <1>5, <1>6, PostNew DEF Added
  <1>8. ASSUME NEW k \in Merchants
        PROVE  /\ p.balance[k]["available"] = b.balance[k]["available"] + (IF k = target THEN n ELSE 0)
               /\ p.balance[k]["suspense"] = b.balance[k]["suspense"] - (IF k = source THEN n ELSE 0)
               /\ p.balance[k]["custody"] = b.balance[k]["custody"] + (IF k = target THEN n ELSE 0)
                                                                   - (IF k = source THEN n ELSE 0)
               /\ \A c \in {"reserved", "treasury", "platformFees"} : p.balance[k][c] = b.balance[k][c]
    <2>1. \A e \in LEDGER_CODES : b.balance[k][e] \in Int
      BY BalancesInt
    <2>2. /\ Posted(D, k, "available") = 0 /\ Posted(C, k, "available") = IF k = target THEN n ELSE 0
          /\ Posted(D, k, "suspense") = (IF k = source THEN n ELSE 0) /\ Posted(C, k, "suspense") = 0
          /\ Posted(D, k, "custody") = (IF k = target THEN n ELSE 0) /\ Posted(C, k, "custody") = IF k = source THEN n ELSE 0
      BY <1>1, <1>3, <1>4, <1>5, <1>6 DEF Only
    <2>3. \A e \in {"reserved", "treasury", "platformFees"} : Posted(D, k, e) = 0 /\ Posted(C, k, e) = 0
      BY <1>1, <1>3, <1>4, <1>5, <1>6 DEF Only
    <2>4. /\ p.balance[k]["available"] = b.balance[k]["available"] + (IF k = target THEN n ELSE 0)
          /\ p.balance[k]["suspense"] = b.balance[k]["suspense"] - (IF k = source THEN n ELSE 0)
          /\ p.balance[k]["custody"] = b.balance[k]["custody"] + (IF k = target THEN n ELSE 0)
                                                              - (IF k = source THEN n ELSE 0)
      BY <1>1, <1>7, <2>1, <2>2, Signs, Codes
    <2>5. ASSUME NEW c \in {"reserved", "treasury", "platformFees"}
          PROVE  p.balance[k][c] = b.balance[k][c]
      BY <1>7, <2>1, <2>3, Signs, Codes
    <2> QED BY <2>4, <2>5
  <1> QED BY <1>7, <1>8 DEF n, p

\* Two and three lines of one merchant: they are a side, their sum, what they post.
TwoSum(n1, n2) == n1 + n2
ThreeSum(n1, n2, n3) == n1 + (n2 + n3)
TwoPosts(m, c1, n1, c2, n2, k, d) == Only(m, c1, n1, k, d) + Only(m, c2, n2, k, d)
ThreePosts(m, c1, n1, c2, n2, c3, n3, k, d) == Only(m, c1, n1, k, d) + TwoPosts(m, c2, n2, c3, n3, k, d)
Two(m, c1, n1, c2, n2) == Both(On(m, c1, n1), On(m, c2, n2))
Three(m, c1, n1, c2, n2, c3, n3) == Both(On(m, c1, n1), Two(m, c2, n2, c3, n3))

LEMMA TwoSide ==
  ASSUME NEW m, NEW c1, NEW n1 \in Nat, NEW c2, NEW n2 \in Nat, c1 # c2
  PROVE  IsSide(Two(m, c1, n1, c2, n2)) /\ SumFunction(Two(m, c1, n1, c2, n2)) = TwoSum(n1, n2)
  <1> DEFINE g == On(m, c2, n2)
  <1>1. SumFunction(g) = n2
    BY OneLine
  <1>2. IsSide(g)
    BY OneLine
  <1>3. <<m, c1>> \notin DOMAIN g
    BY DEF On
  <1>4. Two(m, c1, n1, c2, n2) = Both(On(m, c1, n1), g)
    BY DEF Two
  <1> HIDE DEF g
  <1>5. IsSide(Both(On(m, c1, n1), g))
    BY <1>2, <1>3, MoreSide
  <1>6. SumFunction(Both(On(m, c1, n1), g)) = OneMore(n1, g)
    BY <1>2, <1>3, MoreSum
  <1> QED BY <1>1, <1>4, <1>5, <1>6 DEF OneMore, TwoSum

LEMMA TwoPosted ==
  ASSUME NEW m, NEW c1, NEW n1 \in Nat, NEW c2, NEW n2 \in Nat, c1 # c2, NEW k, NEW d
  PROVE  Posted(Two(m, c1, n1, c2, n2), k, d) = TwoPosts(m, c1, n1, c2, n2, k, d)
  <1> DEFINE g == On(m, c2, n2)
  <1>1. Posted(g, k, d) = Only(m, c2, n2, k, d)
    BY DEF On, Posted, Only
  <1>2. IsSide(g)
    BY OneLine
  <1>3. <<m, c1>> \notin DOMAIN g
    BY DEF On
  <1>4. Two(m, c1, n1, c2, n2) = Both(On(m, c1, n1), g)
    BY DEF Two
  <1> HIDE DEF g
  <1>5. Posted(Both(On(m, c1, n1), g), k, d) = Also(m, c1, n1, g, k, d)
    BY <1>2, <1>3, MorePosted
  <1> QED BY <1>1, <1>4, <1>5 DEF Also, TwoPosts

LEMMA ThreeSide ==
  ASSUME NEW m, NEW c1, NEW n1 \in Nat, NEW c2, NEW n2 \in Nat, NEW c3, NEW n3 \in Nat, c1 # c2, c1 # c3, c2 # c3
  PROVE  /\ IsSide(Three(m, c1, n1, c2, n2, c3, n3))
         /\ SumFunction(Three(m, c1, n1, c2, n2, c3, n3)) = ThreeSum(n1, n2, n3)
  <1> DEFINE g == Two(m, c2, n2, c3, n3)
  <1>1. SumFunction(g) = TwoSum(n2, n3)
    BY TwoSide
  <1>2. IsSide(g)
    BY TwoSide
  <1>3. <<m, c1>> \notin DOMAIN g
    BY DEF Two, Both, On
  <1>4. Three(m, c1, n1, c2, n2, c3, n3) = Both(On(m, c1, n1), g)
    BY DEF Three
  <1> HIDE DEF g
  <1>5. IsSide(Both(On(m, c1, n1), g))
    BY <1>2, <1>3, MoreSide
  <1>6. SumFunction(Both(On(m, c1, n1), g)) = OneMore(n1, g)
    BY <1>2, <1>3, MoreSum
  <1> QED BY <1>1, <1>4, <1>5, <1>6 DEF OneMore, TwoSum, ThreeSum

LEMMA ThreePosted ==
  ASSUME NEW m, NEW c1, NEW n1 \in Nat, NEW c2, NEW n2 \in Nat, NEW c3, NEW n3 \in Nat,
         c1 # c2, c1 # c3, c2 # c3, NEW k, NEW d
  PROVE  Posted(Three(m, c1, n1, c2, n2, c3, n3), k, d) = ThreePosts(m, c1, n1, c2, n2, c3, n3, k, d)
  <1> DEFINE g == Two(m, c2, n2, c3, n3)
  <1>1. Posted(g, k, d) = TwoPosts(m, c2, n2, c3, n3, k, d)
    BY TwoPosted
  <1>2. IsSide(g)
    BY TwoSide
  <1>3. <<m, c1>> \notin DOMAIN g
    BY DEF Two, Both, On
  <1>4. Three(m, c1, n1, c2, n2, c3, n3) = Both(On(m, c1, n1), g)
    BY DEF Three
  <1> HIDE DEF g
  <1>5. Posted(Both(On(m, c1, n1), g), k, d) = Also(m, c1, n1, g, k, d)
    BY <1>2, <1>3, MorePosted
  <1> QED BY <1>1, <1>4, <1>5 DEF Also, ThreePosts

\* What a transfer costs its merchant, and what the provider takes out, at a fee.
CostAt(t, price) == Gateway(t) + (IF Mode[t] = "merchant_debit" THEN Amount[t] + price ELSE price)
ToTreasury(t) == IF Mode[t] = "merchant_debit" THEN 0 ELSE Amount[t]

LEMMA SettleMoves ==
  ASSUME NEW b \in BookType, NEW t \in Transfers, NEW price \in Nat, <<"settlement", t>> \notin b.journals
  PROVE  /\ Added(b, settle(b, t, price), "settlement", t)
         /\ Moved(b, settle(b, t, price), Owner[t], Total(t) - CostAt(t, price), 0 - Total(t), 0,
                  0 - (Amount[t] + price), ToTreasury(t), Gateway(t))
  <1>1. PICK m, n, total, g : m = Owner[t] /\ n = Amount[t] /\ total = Total(t) /\ g = Gateway(t)
    OBVIOUS
  <1>2. n \in Nat /\ total \in Nat /\ g \in Nat /\ Mode[t] \in {"merchant_debit", "internal_move"}
    BY <1>1, Numbers
  <1>3. "settlement" \in SourceTypes
    BY DEF SourceTypes
  <1>4. ASSUME NEW actual \in Nat
        PROVE  /\ providerFeeAdjustment(total, actual).refund \in Nat
               /\ providerFeeAdjustment(total, actual).overrun \in Nat
               /\ total + providerFeeAdjustment(total, actual).overrun = actual + providerFeeAdjustment(total, actual).refund
    BY <1>2 DEF providerFeeAdjustment
  <1>5. CASE Mode[t] = "merchant_debit"
    <2>1. PICK adjust : adjust = providerFeeAdjustment(total, n + price + g)
      OBVIOUS
    <2>2. PICK over, back : over = adjust.overrun /\ back = adjust.refund
      OBVIOUS
    <2>3. over \in Nat /\ back \in Nat /\ total + over = n + price + g + back
      <3>1. n + price + g \in Nat
        BY <1>2
      <3> QED BY <1>4, <2>1, <2>2, <3>1
    <2> DEFINE out == n + price
               D == Two(m, "reserved", total, "available", over)
               C == Three(m, "custody", out, "platformFees", g, "available", back)
    <2>5. settle(b, t, price) = post(b, "settlement", t, D, C)
      BY <1>1, <1>5, <2>1, <2>2 DEF settle, settleWithdrawal, Two, Three, Gateway
    <2>7. out \in Nat
      BY <1>2
    <2> HIDE DEF out
    <2>6. /\ IsSide(D) /\ SumFunction(D) = TwoSum(total, over)
          /\ \A k, d : Posted(D, k, d) = TwoPosts(m, "reserved", total, "available", over, k, d)
      BY <1>2, <2>3, TwoSide, TwoPosted
    <2>8. /\ IsSide(C) /\ SumFunction(C) = ThreeSum(out, g, back)
          /\ \A k, d : Posted(C, k, d) = ThreePosts(m, "custody", out, "platformFees", g, "available", back, k, d)
      BY <1>2, <2>3, <2>7, ThreeSide, ThreePosted
    <2> HIDE DEF D, C
    <2>9. SumFunction(D) = SumFunction(C)
      BY <1>2, <2>3, <2>6, <2>8 DEF TwoSum, ThreeSum, out
    <2>10. \A k \in Merchants, c \in LEDGER_CODES : k # m => Posted(D, k, c) = Posted(C, k, c)
      BY <2>6, <2>8 DEF TwoPosts, ThreePosts, Only
    <2>11. CostAt(t, price) = n + price + g /\ ToTreasury(t) = 0
      BY <1>1, <1>2, <1>5 DEF CostAt, ToTreasury
    <2>12. /\ Posted(D, m, "available") = over /\ Posted(C, m, "available") = back
           /\ Posted(D, m, "reserved") = total /\ Posted(C, m, "reserved") = 0
           /\ Posted(D, m, "suspense") = 0 /\ Posted(C, m, "suspense") = 0
           /\ Posted(D, m, "custody") = 0 /\ Posted(C, m, "custody") = n + price
           /\ Posted(D, m, "treasury") = 0 /\ Posted(C, m, "treasury") = 0
           /\ Posted(D, m, "platformFees") = 0 /\ Posted(C, m, "platformFees") = g
      BY <1>2, <2>3, <2>6, <2>8 DEF TwoPosts, ThreePosts, Only, out
    <2>13. /\ total - CostAt(t, price) = Posted(C, m, "available") - Posted(D, m, "available")
           /\ 0 - total = Posted(C, m, "reserved") - Posted(D, m, "reserved")
           /\ 0 = Posted(C, m, "suspense") - Posted(D, m, "suspense")
           /\ 0 - (n + price) = Posted(D, m, "custody") - Posted(C, m, "custody")
           /\ ToTreasury(t) = Posted(D, m, "treasury") - Posted(C, m, "treasury")
           /\ g = Posted(C, m, "platformFees") - Posted(D, m, "platformFees")
      BY <1>2, <2>3, <2>11, <2>12
    <2>14. /\ Added(b, post(b, "settlement", t, D, C), "settlement", t)
           /\ Moved(b, post(b, "settlement", t, D, C), m, total - CostAt(t, price), 0 - total, 0, 0 - (n + price), ToTreasury(t), g)
      BY <1>3, <2>6, <2>8, <2>9, <2>10, <2>13, PostMoves
    <2> QED BY <1>1, <2>5, <2>14
  <1>6. CASE Mode[t] = "internal_move"
    <2>0. total = ReserveFee /\ g = 0
      BY <1>1, <1>6 DEF Total, Gateway
    <2>1. PICK adjust : adjust = providerFeeAdjustment(total, price)
      OBVIOUS
    <2>2. PICK over, back : over = adjust.overrun /\ back = adjust.refund
      OBVIOUS
    <2>3. over \in Nat /\ back \in Nat /\ total + over = price + back
      BY <1>4, <2>1, <2>2
    <2> DEFINE out == n + price
               D == Three(m, "reserved", total, "treasury", n, "available", over)
               C == Two(m, "custody", out, "available", back)
    <2>5. settle(b, t, price) = post(b, "settlement", t, D, C)
      BY <1>1, <1>6, <2>0, <2>1, <2>2 DEF settle, settleInternalMoveFee, Two, Three
    <2>6. out \in Nat
      BY <1>2
    <2> HIDE DEF out
    <2>7. /\ IsSide(C) /\ SumFunction(C) = TwoSum(out, back)
          /\ \A k, d : Posted(C, k, d) = TwoPosts(m, "custody", out, "available", back, k, d)
      BY <1>2, <2>3, <2>6, TwoSide, TwoPosted
    <2>8. /\ IsSide(D) /\ SumFunction(D) = ThreeSum(total, n, over)
          /\ \A k, d : Posted(D, k, d) = ThreePosts(m, "reserved", total, "treasury", n, "available", over, k, d)
      BY <1>2, <2>3, ThreeSide, ThreePosted
    <2> HIDE DEF D, C
    <2>9. SumFunction(D) = SumFunction(C)
      BY <1>2, <2>3, <2>7, <2>8 DEF TwoSum, ThreeSum, out
    <2>10. \A k \in Merchants, c \in LEDGER_CODES : k # m => Posted(D, k, c) = Posted(C, k, c)
      BY <2>7, <2>8 DEF TwoPosts, ThreePosts, Only
    <2>11. CostAt(t, price) = price /\ ToTreasury(t) = n
      BY <1>1, <1>2, <1>6, <2>0 DEF CostAt, ToTreasury
    <2>12. /\ Posted(D, m, "available") = over /\ Posted(C, m, "available") = back
           /\ Posted(D, m, "reserved") = total /\ Posted(C, m, "reserved") = 0
           /\ Posted(D, m, "suspense") = 0 /\ Posted(C, m, "suspense") = 0
           /\ Posted(D, m, "custody") = 0 /\ Posted(C, m, "custody") = n + price
           /\ Posted(D, m, "treasury") = n /\ Posted(C, m, "treasury") = 0
           /\ Posted(D, m, "platformFees") = 0 /\ Posted(C, m, "platformFees") = 0
      BY <1>2, <2>3, <2>7, <2>8 DEF TwoPosts, ThreePosts, Only, out
    <2>13. /\ total - CostAt(t, price) = Posted(C, m, "available") - Posted(D, m, "available")
           /\ 0 - total = Posted(C, m, "reserved") - Posted(D, m, "reserved")
           /\ 0 = Posted(C, m, "suspense") - Posted(D, m, "suspense")
           /\ 0 - (n + price) = Posted(D, m, "custody") - Posted(C, m, "custody")
           /\ ToTreasury(t) = Posted(D, m, "treasury") - Posted(C, m, "treasury")
           /\ g = Posted(C, m, "platformFees") - Posted(D, m, "platformFees")
      BY <1>2, <2>0, <2>3, <2>11, <2>12
    <2>14. /\ Added(b, post(b, "settlement", t, D, C), "settlement", t)
           /\ Moved(b, post(b, "settlement", t, D, C), m, total - CostAt(t, price), 0 - total, 0, 0 - (n + price), ToTreasury(t), g)
      BY <1>3, <2>7, <2>8, <2>9, <2>10, <2>13, PostMoves
    <2> QED BY <1>1, <2>5, <2>14
  <1> QED BY <1>2, <1>5, <1>6

-----------------------------------------------------------------------------
(* The inductive invariant *)

Shape ==
  /\ book \in BookType
  /\ phase \in [Transfers -> Phases]
  /\ charged \in [Transfers -> Nat]
  /\ late \subseteq Transfers
  /\ receipt \in [Receipts -> {"none", "credited", "suspense"}]
  /\ creditedTo \in [Receipts -> Merchants \cup {NoOne}]
  /\ cases \subseteq {"provider_fee_overrun", "late_success_after_manual_failure"} \X Transfers

Posting(s, x) == <<s, x>> \in book.journals

\* The journals of a transfer follow its phase.  Only a release may be older than
\* the phase: that of a failed transfer that staff retried.
TransferFollowed(t) ==
  /\ Posting("reservation", t) <=> phase[t] # "none"
  /\ Posting("settlement", t) => phase[t] = "settled"
  /\ Posting("late_rereservation", t) => t \in late
  /\ phase[t] \in {"failed", "disproved"} => Posting("release", t)
  /\ Posting("release", t) => phase[t] # "none"
  /\ t \in late => phase[t] = "settled"
  /\ \A k \in {"provider_fee_overrun", "late_success_after_manual_failure"} : <<k, t>> \in cases => phase[t] = "settled"
  /\ <<"provider_fee_overrun", t>> \in cases => charged[t] >= ReserveFee

ReceiptFollowed(r) ==
  /\ Posting("deposit", r) => receipt[r] = "credited"
  /\ Posting("receipt_suspense", r) => receipt[r] # "none"
  /\ Posting("suspense_resolution", r) => receipt[r] = "credited"
  /\ receipt[r] # "none" => creditedTo[r] \in Merchants

Followed == (\A t \in Transfers : TransferFollowed(t)) /\ (\A r \in Receipts : ReceiptFollowed(r))

SuspendedOf(m) == {r \in Receipts : receipt[r] = "suspense" /\ creditedTo[r] = m}

\* The sums that the accounts of a merchant are compared with.
CreditSum(m) == SumFunctionOnSet(Amount, Credited(m))
SuspenseSum(m) == SumFunctionOnSet(Amount, SuspendedOf(m))
HeldSum(m) == SumFunctionOnSet(Totals, Held \cap OfMerchant(m))
UnbackedSum(m) == SumFunctionOnSet(Totals, Unbacked(m))
ChargeSum(m) == SumFunctionOnSet(Charge, Settled \cap OfMerchant(m))
DebtSum(m) == SumFunctionOnSet(Debt, OfMerchant(m))
PaidSum == SumFunctionOnSet(PaidOut, Settled)
Received == {r \in Receipts : receipt[r] # "none"}
ReceivedSum == SumFunctionOnSet(Amount, Received)

Accounts(m) ==
  LET b == book.balance[m] IN
  /\ b["available"] = CreditSum(m) - HeldSum(m) - ChargeSum(m) + UnbackedSum(m)
  /\ b["reserved"] = HeldSum(m) - UnbackedSum(m)
  /\ b["suspense"] = SuspenseSum(m)
  /\ b["custody"] + b["treasury"] = b["available"] + b["reserved"] + b["suspense"] + b["platformFees"]
  /\ b["treasury"] >= 0 /\ b["platformFees"] >= 0
  /\ b["available"] + DebtSum(m) >= 0

\* The total of an account over all merchants, in the book b.
Together(b, code) == SumFunction([m \in Merchants |-> b.balance[m][code]])

Evidence == Together(book, "custody") + Together(book, "treasury") = ReceivedSum - PaidSum

LedgerInv == Shape /\ Followed /\ (\A m \in Merchants : Accounts(m)) /\ Evidence

-----------------------------------------------------------------------------
(* The sums are numbers, and how a step about one transfer moves them *)

LEMMA Finite ==
  /\ IsFiniteSet(Merchants) /\ IsFiniteSet(Transfers) /\ IsFiniteSet(Receipts)
  /\ \A S \in SUBSET Transfers : IsFiniteSet(S)
  /\ \A S \in SUBSET Receipts : IsFiniteSet(S)
  <1>1. IsFiniteSet(Merchants) /\ IsFiniteSet(Transfers) /\ IsFiniteSet(Receipts)
    BY Given DEF LedgerAssumption
  <1> QED BY <1>1, FS_Subset

LEMMA Values ==
  ASSUME Shape
  PROVE  /\ \A t \in Transfers : /\ Totals[t] = Total(t) /\ Totals[t] \in Nat
                                 /\ Charge[t] = CostAt(t, charged[t]) /\ Charge[t] \in Nat
                                 /\ PaidOut[t] \in Nat /\ Debt[t] \in Int
                                 /\ PaidOut[t] = Amount[t] + charged[t] - ToTreasury(t)
         /\ \A r \in Receipts : Amount[r] \in Nat
  <1>1. \A r \in Receipts : Amount[r] \in Nat
    BY Numbers
  <1>2. ASSUME NEW t \in Transfers
        PROVE  /\ Totals[t] = Total(t) /\ Totals[t] \in Nat
               /\ Charge[t] = CostAt(t, charged[t]) /\ Charge[t] \in Nat
               /\ PaidOut[t] \in Nat /\ Debt[t] \in Int
               /\ PaidOut[t] = Amount[t] + charged[t] - ToTreasury(t)
    <2>1. charged[t] \in Nat /\ Amount[t] \in Nat /\ Total(t) \in Nat /\ Gateway(t) \in Nat /\ ReserveFee \in Nat
      BY <1>2, Numbers DEF Shape
    <2>2. Totals[t] = Total(t)
      BY DEF Totals
    <2>3. PaidOut[t] = IF Mode[t] = "merchant_debit" THEN Amount[t] + charged[t] ELSE charged[t]
      BY DEF PaidOut
    <2>4. Charge[t] = PaidOut[t] + Gateway(t)
      BY DEF Charge
    <2>5. Debt[t] = (IF <<"provider_fee_overrun", t>> \in cases THEN charged[t] - ReserveFee ELSE 0)
                    + (IF <<"late_success_after_manual_failure", t>> \in cases THEN Total(t) ELSE 0)
      BY DEF Debt
    <2>6. Debt[t] \in Int
      BY <2>1, <2>5
    <2>7. /\ PaidOut[t] \in Nat /\ PaidOut[t] = Amount[t] + charged[t] - ToTreasury(t)
          /\ Charge[t] = CostAt(t, charged[t]) /\ Charge[t] \in Nat
      BY <2>1, <2>3, <2>4 DEF CostAt, ToTreasury
    <2> QED BY <2>1, <2>2, <2>6, <2>7
  <1> QED BY <1>1, <1>2

LEMMA SumsInt ==
  ASSUME Shape, NEW m
  PROVE  /\ CreditSum(m) \in Nat /\ SuspenseSum(m) \in Nat /\ HeldSum(m) \in Nat /\ UnbackedSum(m) \in Nat
         /\ ChargeSum(m) \in Nat /\ DebtSum(m) \in Int /\ PaidSum \in Nat /\ ReceivedSum \in Nat
  <1>1. ASSUME NEW S \in SUBSET Receipts
        PROVE  SumFunctionOnSet(Amount, S) \in Nat
    <2>1. IsFiniteSet(S) /\ \A x \in S : Amount[x] \in Nat
      BY Finite, Numbers
    <2> QED BY <2>1, SumNat
  <1>2. ASSUME NEW S \in SUBSET Transfers
        PROVE  /\ SumFunctionOnSet(Totals, S) \in Nat
               /\ SumFunctionOnSet(Charge, S) \in Nat
               /\ SumFunctionOnSet(PaidOut, S) \in Nat
               /\ SumFunctionOnSet(Debt, S) \in Int
    <2>1. IsFiniteSet(S)
      BY Finite
    <2>2. \A x \in S : Totals[x] \in Nat
      BY Values
    <2>3. \A x \in S : Charge[x] \in Nat
      BY Values
    <2>4. \A x \in S : PaidOut[x] \in Nat
      BY Values
    <2>5. \A x \in S : Debt[x] \in Int
      BY Values
    <2> QED BY <2>1, <2>2, <2>3, <2>4, <2>5, SumNat, SumInt
  <1>3. Credited(m) \in SUBSET Receipts /\ SuspendedOf(m) \in SUBSET Receipts /\ Received \in SUBSET Receipts
    BY DEF Credited, SuspendedOf, Received
  <1>4. /\ Held \cap OfMerchant(m) \in SUBSET Transfers /\ Unbacked(m) \in SUBSET Transfers
        /\ Settled \cap OfMerchant(m) \in SUBSET Transfers /\ OfMerchant(m) \in SUBSET Transfers
        /\ Settled \in SUBSET Transfers
    BY DEF Held, Settled, OfMerchant, Unbacked
  <1> QED BY <1>1, <1>2, <1>3, <1>4 DEF CreditSum, SuspenseSum, HeldSum, UnbackedSum, ChargeSum, DebtSum, PaidSum, ReceivedSum

Part(p, n) == IF p THEN n ELSE 0

\* A step about the transfer t alone.
About(t) ==
  /\ \A u \in Transfers \ {t} :
       /\ phase'[u] = phase[u] /\ charged'[u] = charged[u] /\ (u \in late' <=> u \in late)
       /\ \A k \in {"provider_fee_overrun", "late_success_after_manual_failure"} : <<k, u>> \in cases' <=> <<k, u>> \in cases
       /\ \A s \in SourceTypes : <<s, u>> \in book'.journals <=> <<s, u>> \in book.journals
  /\ \A r \in Receipts, s \in {"deposit", "receipt_suspense", "suspense_resolution"} :
       <<s, r>> \in book'.journals => <<s, r>> \in book.journals
  /\ UNCHANGED <<receipt, creditedTo>>

IsHeld(t) == phase[t] = "held"
IsSettled(t) == phase[t] = "settled"
IsUnbacked(t) == t \notin late /\ Posting("release", t) /\ phase[t] \in {"held", "settled"}

LEMMA TransferSums ==
  ASSUME NEW t \in Transfers, Shape, Shape', About(t), NEW m
  PROVE  /\ CreditSum(m)' = CreditSum(m) /\ SuspenseSum(m)' = SuspenseSum(m) /\ ReceivedSum' = ReceivedSum
         /\ HeldSum(m)' = HeldSum(m) - Part(Owner[t] = m /\ IsHeld(t), Total(t)) + Part(Owner[t] = m /\ IsHeld(t)', Total(t))
         /\ UnbackedSum(m)' = UnbackedSum(m) - Part(Owner[t] = m /\ IsUnbacked(t), Total(t))
                                             + Part(Owner[t] = m /\ IsUnbacked(t)', Total(t))
         /\ ChargeSum(m)' = ChargeSum(m) - Part(Owner[t] = m /\ IsSettled(t), Charge[t])
                                         + Part(Owner[t] = m /\ IsSettled(t)', Charge'[t])
         /\ DebtSum(m)' = DebtSum(m) - Part(Owner[t] = m, Debt[t]) + Part(Owner[t] = m, Debt'[t])
         /\ PaidSum' = PaidSum - Part(IsSettled(t), PaidOut[t]) + Part(IsSettled(t)', PaidOut'[t])
  <1>1. CreditSum(m)' = CreditSum(m) /\ SuspenseSum(m)' = SuspenseSum(m) /\ ReceivedSum' = ReceivedSum
    BY DEF About, CreditSum, SuspenseSum, ReceivedSum, Credited, SuspendedOf, Received
  <1>2. HeldSum(m)' = HeldSum(m) - Part(Owner[t] = m /\ IsHeld(t), Total(t)) + Part(Owner[t] = m /\ IsHeld(t)', Total(t))
    <2>1. PICK S, R : S = Held \cap OfMerchant(m) /\ R = (Held \cap OfMerchant(m))'
      OBVIOUS
    <2>2. S \in SUBSET Transfers /\ R \in SUBSET Transfers
      BY <2>1 DEF Held
    <2>3. S \ {t} = R \ {t} /\ (t \in S <=> Owner[t] = m /\ IsHeld(t)) /\ (t \in R <=> Owner[t] = m /\ IsHeld(t)')
      BY <2>1 DEF About, Held, OfMerchant, IsHeld
    <2>4. SumFunctionOnSet(Totals, R) = SumFunctionOnSet(Totals, S) - (IF t \in S THEN Totals[t] ELSE 0)
                                                                    + (IF t \in R THEN Totals[t] ELSE 0)
      <3>1. IsFiniteSet(S) /\ IsFiniteSet(R)
        BY <2>2, Finite
      <3>2. \A x \in Transfers : Totals[x] \in Int
        BY Values
      <3> QED BY <2>2, <2>3, <3>1, <3>2, SumMove
    <2>5. HeldSum(m) = SumFunctionOnSet(Totals, S) /\ HeldSum(m)' = SumFunctionOnSet(Totals, R)
      BY <2>1 DEF HeldSum, Totals
    <2> QED BY <2>3, <2>4, <2>5, Values DEF Part
  <1>3. UnbackedSum(m)' = UnbackedSum(m) - Part(Owner[t] = m /\ IsUnbacked(t), Total(t))
                                         + Part(Owner[t] = m /\ IsUnbacked(t)', Total(t))
    <2>1. PICK S, R : S = Unbacked(m) /\ R = Unbacked(m)'
      OBVIOUS
    <2>2. S \in SUBSET Transfers /\ R \in SUBSET Transfers
      BY <2>1 DEF Unbacked, OfMerchant
    <2>3. S \ {t} = R \ {t} /\ (t \in S <=> Owner[t] = m /\ IsUnbacked(t)) /\ (t \in R <=> Owner[t] = m /\ IsUnbacked(t)')
      BY <2>1 DEF About, Unbacked, OfMerchant, IsUnbacked, Posting, SourceTypes
    <2>4. SumFunctionOnSet(Totals, R) = SumFunctionOnSet(Totals, S) - (IF t \in S THEN Totals[t] ELSE 0)
                                                                    + (IF t \in R THEN Totals[t] ELSE 0)
      <3>1. IsFiniteSet(S) /\ IsFiniteSet(R)
        BY <2>2, Finite
      <3>2. \A x \in Transfers : Totals[x] \in Int
        BY Values
      <3> QED BY <2>2, <2>3, <3>1, <3>2, SumMove
    <2>5. UnbackedSum(m) = SumFunctionOnSet(Totals, S) /\ UnbackedSum(m)' = SumFunctionOnSet(Totals, R)
      BY <2>1 DEF UnbackedSum, Totals
    <2> QED BY <2>3, <2>4, <2>5, Values DEF Part
  <1>4. \A x \in Transfers : Charge[x] \in Int /\ PaidOut[x] \in Int /\ Debt[x] \in Int
    BY Values
  <1>5. \A x \in Transfers : Charge'[x] \in Int /\ PaidOut'[x] \in Int /\ Debt'[x] \in Int
    <2>1. \A x \in Transfers : charged'[x] \in Nat /\ Amount[x] \in Nat /\ Total(x) \in Nat /\ Gateway(x) \in Nat /\ ReserveFee \in Nat
      BY Numbers DEF Shape
    <2>2. \A x \in Transfers : PaidOut'[x] \in Int
      BY <2>1 DEF PaidOut
    <2>3. \A x \in Transfers : Charge'[x] \in Int
      BY <2>1, <2>2 DEF Charge
    <2>4. \A x \in Transfers : Debt'[x] \in Int
      BY <2>1 DEF Debt
    <2> QED BY <2>2, <2>3, <2>4
  <1>6. \A x \in Transfers \ {t} : Charge'[x] = Charge[x] /\ PaidOut'[x] = PaidOut[x] /\ Debt'[x] = Debt[x]
    <2>1. \A x \in Transfers \ {t} : PaidOut'[x] = PaidOut[x]
      BY DEF About, PaidOut
    <2>2. \A x \in Transfers \ {t} : Charge'[x] = Charge[x]
      BY <2>1 DEF Charge
    <2>3. \A x \in Transfers \ {t} : Debt'[x] = Debt[x]
      BY DEF About, Debt
    <2> QED BY <2>1, <2>2, <2>3
  <1>7. ChargeSum(m)' = ChargeSum(m) - Part(Owner[t] = m /\ IsSettled(t), Charge[t])
                                     + Part(Owner[t] = m /\ IsSettled(t)', Charge'[t])
    <2>1. PICK S, R : S = Settled \cap OfMerchant(m) /\ R = (Settled \cap OfMerchant(m))'
      OBVIOUS
    <2>2. S \in SUBSET Transfers /\ R \in SUBSET Transfers
      BY <2>1 DEF Settled
    <2>3. S \ {t} = R \ {t} /\ (t \in S <=> Owner[t] = m /\ IsSettled(t)) /\ (t \in R <=> Owner[t] = m /\ IsSettled(t)')
      BY <2>1 DEF About, Settled, OfMerchant, IsSettled
    <2>4. SumFunctionOnSet(Charge', R) = SumFunctionOnSet(Charge, S) - (IF t \in S THEN Charge[t] ELSE 0)
                                                                     + (IF t \in R THEN Charge'[t] ELSE 0)
      <3>1. IsFiniteSet(S) /\ IsFiniteSet(R)
        BY <2>2, Finite
      <3>2. (\A x \in S : Charge[x] \in Int) /\ (\A x \in R : Charge'[x] \in Int) /\ \A x \in S \ {t} : Charge[x] = Charge'[x]
        BY <1>4, <1>5, <1>6, <2>2
      <3> QED BY <2>3, <3>1, <3>2, SumMove
    <2>5. ChargeSum(m) = SumFunctionOnSet(Charge, S) /\ ChargeSum(m)' = SumFunctionOnSet(Charge', R)
      BY <2>1 DEF ChargeSum
    <2> QED BY <2>3, <2>4, <2>5 DEF Part
  <1>8. PaidSum' = PaidSum - Part(IsSettled(t), PaidOut[t]) + Part(IsSettled(t)', PaidOut'[t])
    <2>1. PICK S, R : S = Settled /\ R = Settled'
      OBVIOUS
    <2>2. S \in SUBSET Transfers /\ R \in SUBSET Transfers
      BY <2>1 DEF Settled
    <2>3. S \ {t} = R \ {t} /\ (t \in S <=> IsSettled(t)) /\ (t \in R <=> IsSettled(t)')
      BY <2>1 DEF About, Settled, IsSettled
    <2>4. SumFunctionOnSet(PaidOut', R) = SumFunctionOnSet(PaidOut, S) - (IF t \in S THEN PaidOut[t] ELSE 0)
                                                                       + (IF t \in R THEN PaidOut'[t] ELSE 0)
      <3>1. IsFiniteSet(S) /\ IsFiniteSet(R)
        BY <2>2, Finite
      <3>2. (\A x \in S : PaidOut[x] \in Int) /\ (\A x \in R : PaidOut'[x] \in Int) /\ \A x \in S \ {t} : PaidOut[x] = PaidOut'[x]
        BY <1>4, <1>5, <1>6, <2>2
      <3> QED BY <2>3, <3>1, <3>2, SumMove
    <2>5. PaidSum = SumFunctionOnSet(PaidOut, S) /\ PaidSum' = SumFunctionOnSet(PaidOut', R)
      BY <2>1 DEF PaidSum
    <2> QED BY <2>3, <2>4, <2>5 DEF Part
  <1>9. DebtSum(m)' = DebtSum(m) - Part(Owner[t] = m, Debt[t]) + Part(Owner[t] = m, Debt'[t])
    <2>1. PICK S : S = OfMerchant(m)
      OBVIOUS
    <2>2. S \in SUBSET Transfers /\ (t \in S <=> Owner[t] = m)
      BY <2>1 DEF OfMerchant
    <2>3. SumFunctionOnSet(Debt', S) = SumFunctionOnSet(Debt, S) - (IF t \in S THEN Debt[t] ELSE 0)
                                                                 + (IF t \in S THEN Debt'[t] ELSE 0)
      <3>1. IsFiniteSet(S)
        BY <2>2, Finite
      <3>2. (\A x \in S : Debt[x] \in Int) /\ (\A x \in S : Debt'[x] \in Int) /\ \A x \in S \ {t} : Debt[x] = Debt'[x]
        BY <1>4, <1>5, <1>6, <2>2
      <3> QED BY <3>1, <3>2, SumMove
    <2>4. DebtSum(m) = SumFunctionOnSet(Debt, S) /\ DebtSum(m)' = SumFunctionOnSet(Debt', S)
      BY <2>1 DEF DebtSum, OfMerchant
    <2> QED BY <2>2, <2>3, <2>4 DEF Part
  <1> QED BY <1>1, <1>2, <1>3, <1>7, <1>8, <1>9

LEMMA MovedTwice ==
  ASSUME NEW b \in BookType, NEW c \in BookType, NEW d \in BookType, NEW m,
         NEW a1 \in Int, NEW e1 \in Int, NEW c1 \in Int, NEW y1 \in Int, NEW f1 \in Int, Moved(b, c, m, a1, e1, 0, c1, y1, f1),
         NEW a2 \in Int, NEW e2 \in Int, NEW c2 \in Int, NEW y2 \in Int, NEW f2 \in Int, Moved(c, d, m, a2, e2, 0, c2, y2, f2)
  PROVE  Moved(b, d, m, a1 + a2, e1 + e2, 0, c1 + c2, y1 + y2, f1 + f2)
  <1> SUFFICES ASSUME NEW k \in Merchants
               PROVE  /\ d.balance[k]["available"] = b.balance[k]["available"] + (IF k = m THEN a1 + a2 ELSE 0)
                      /\ d.balance[k]["reserved"] = b.balance[k]["reserved"] + (IF k = m THEN e1 + e2 ELSE 0)
                      /\ d.balance[k]["suspense"] = b.balance[k]["suspense"] + (IF k = m THEN 0 ELSE 0)
                      /\ d.balance[k]["custody"] = b.balance[k]["custody"] + (IF k = m THEN c1 + c2 ELSE 0)
                      /\ d.balance[k]["treasury"] = b.balance[k]["treasury"] + (IF k = m THEN y1 + y2 ELSE 0)
                      /\ d.balance[k]["platformFees"] = b.balance[k]["platformFees"] + (IF k = m THEN f1 + f2 ELSE 0)
    BY DEF Moved
  <1>1. \A x \in LEDGER_CODES : b.balance[k][x] \in Int
    BY BalancesInt
  <1>2. CASE k = m
    BY <1>1, <1>2, Codes DEF Moved
  <1>3. CASE k # m
    BY <1>1, <1>3, Codes DEF Moved
  <1> QED BY <1>2, <1>3

LEMMA MovedNone == ASSUME NEW b \in BookType, NEW m PROVE Moved(b, b, m, 0, 0, 0, 0, 0, 0)
  <1> SUFFICES ASSUME NEW k \in Merchants
               PROVE  \A x \in LEDGER_CODES : b.balance[k][x] = b.balance[k][x] + (IF k = m THEN 0 ELSE 0)
    BY Codes DEF Moved
  <1> QED BY BalancesInt

\* The total of an account, when one merchant's moves.
Plus(x, k, m, d) == x + (IF k = m THEN d ELSE 0)

LEMMA TogetherMoves ==
  ASSUME NEW b \in BookType, NEW c \in BookType, NEW m \in Merchants, NEW code \in LEDGER_CODES, NEW d \in Int,
         \A k \in Merchants : c.balance[k][code] = Plus(b.balance[k][code], k, m, d)
  PROVE  Together(c, code) = Together(b, code) + d /\ Together(b, code) \in Int /\ Together(c, code) \in Int
  <1> DEFINE g == [k \in Merchants |-> b.balance[k][code]]
             h == [k \in Merchants |-> c.balance[k][code]]
  <1>1. (\A k \in Merchants : g[k] \in Int) /\ (\A k \in Merchants : h[k] \in Int)
    BY BalancesInt
  <1>2. \A k \in Merchants \ {m} : g[k] = h[k]
    BY <1>1 DEF Plus
  <1>3. h[m] = g[m] + d
    BY DEF Plus
  <1>4. DOMAIN g = Merchants /\ DOMAIN h = Merchants
    OBVIOUS
  <1>5. Together(b, code) = SumFunctionOnSet(g, Merchants) /\ Together(c, code) = SumFunctionOnSet(h, Merchants)
    BY <1>4 DEF Together, SumFunction
  <1> HIDE DEF g, h
  <1>6. SumFunctionOnSet(h, Merchants) = SumFunctionOnSet(g, Merchants) - (IF m \in Merchants THEN g[m] ELSE 0)
                                                                        + (IF m \in Merchants THEN h[m] ELSE 0)
    BY <1>1, <1>2, Finite, SumMove
  <1>7. SumFunctionOnSet(g, Merchants) \in Int /\ SumFunctionOnSet(h, Merchants) \in Int
    BY <1>1, Finite, SumInt
  <1> QED BY <1>1, <1>3, <1>5, <1>6, <1>7

LEMMA PartInt == ASSUME NEW p, NEW n \in Int PROVE Part(p, n) \in Int
  BY DEF Part

\* Custody x and y against receipts r and payments p.
Agree(x, y, r, p) == x + y = r - p
Outflow(c, d, e) == c + d = 0 - e

LEMMA Shifted ==
  ASSUME NEW x \in Int, NEW y \in Int, NEW r \in Int, NEW p \in Int, Agree(x, y, r, p),
         NEW c \in Int, NEW d \in Int, NEW e \in Int, Outflow(c, d, e)
  PROVE  Agree(x + c, y + d, r, p + e)
  BY DEF Agree, Outflow

\* A step moves the balances of the transfer's merchant by av, re, cu, tr and fe,
\* and the sums they are compared with by dHeld, dUnbacked, dCharge, dPaid and dDebt.
Explained(t, av, re, cu, tr, fe, dHeld, dUnbacked, dCharge, dPaid, dDebt) ==
  /\ av \in Int /\ re \in Int /\ cu \in Int /\ tr \in Nat /\ fe \in Nat
  /\ dHeld \in Int /\ dUnbacked \in Int /\ dCharge \in Int /\ dPaid \in Int /\ dDebt \in Int
  /\ Moved(book, book', Owner[t], av, re, 0, cu, tr, fe)
  /\ dHeld = Part(IsHeld(t)', Total(t)) - Part(IsHeld(t), Total(t))
  /\ dUnbacked = Part(IsUnbacked(t)', Total(t)) - Part(IsUnbacked(t), Total(t))
  /\ dCharge = Part(IsSettled(t)', Charge'[t]) - Part(IsSettled(t), Charge[t])
  /\ dPaid = Part(IsSettled(t)', PaidOut'[t]) - Part(IsSettled(t), PaidOut[t])
  /\ dDebt = Debt'[t] - Debt[t]
  /\ av = 0 - dHeld - dCharge + dUnbacked
  /\ re = dHeld - dUnbacked
  /\ cu + tr = av + re + fe
  /\ cu + tr = 0 - dPaid
  /\ \/ av + dDebt >= 0
     \/ book.balance[Owner[t]]["available"] + DebtSum(Owner[t]) + av + dDebt >= 0

\* Such a step keeps the accounts.
LEMMA TransferKeeps ==
  ASSUME NEW t \in Transfers, Shape, Shape', About(t), \A m \in Merchants : Accounts(m), Evidence,
         NEW av, NEW re, NEW cu, NEW tr, NEW fe, NEW dHeld, NEW dUnbacked, NEW dCharge, NEW dPaid, NEW dDebt,
         Explained(t, av, re, cu, tr, fe, dHeld, dUnbacked, dCharge, dPaid, dDebt)
  PROVE  (\A m \in Merchants : Accounts(m)') /\ Evidence'
  <1>0. /\ av \in Int /\ re \in Int /\ cu \in Int /\ tr \in Nat /\ fe \in Nat
        /\ dHeld \in Int /\ dUnbacked \in Int /\ dCharge \in Int /\ dPaid \in Int /\ dDebt \in Int
        /\ Moved(book, book', Owner[t], av, re, 0, cu, tr, fe)
        /\ dHeld = Part(IsHeld(t)', Total(t)) - Part(IsHeld(t), Total(t))
        /\ dUnbacked = Part(IsUnbacked(t)', Total(t)) - Part(IsUnbacked(t), Total(t))
        /\ dCharge = Part(IsSettled(t)', Charge'[t]) - Part(IsSettled(t), Charge[t])
        /\ dPaid = Part(IsSettled(t)', PaidOut'[t]) - Part(IsSettled(t), PaidOut[t])
        /\ dDebt = Debt'[t] - Debt[t]
        /\ av = 0 - dHeld - dCharge + dUnbacked
        /\ re = dHeld - dUnbacked
        /\ cu + tr = av + re + fe
        /\ cu + tr = 0 - dPaid
        /\ \/ av + dDebt >= 0
           \/ book.balance[Owner[t]]["available"] + DebtSum(Owner[t]) + av + dDebt >= 0
    BY DEF Explained
  <1> USE <1>0
  <1>1. book \in BookType /\ book' \in BookType
    BY DEF Shape
  <1>2. /\ Debt[t] \in Int /\ Charge[t] \in Int /\ PaidOut[t] \in Int /\ Total(t) \in Int
        /\ Debt'[t] \in Int /\ Charge'[t] \in Int /\ PaidOut'[t] \in Int
    <2>1. Debt[t] \in Int /\ Charge[t] \in Int /\ PaidOut[t] \in Int /\ Total(t) \in Int
      BY Values, Numbers
    <2>2. charged'[t] \in Nat /\ Amount[t] \in Nat /\ Total(t) \in Nat /\ Gateway(t) \in Nat /\ ReserveFee \in Nat
      BY Numbers DEF Shape
    <2>3. PaidOut'[t] \in Int
      BY <2>2 DEF PaidOut
    <2>4. Charge'[t] \in Int
      BY <2>2, <2>3 DEF Charge
    <2>5. Debt'[t] \in Int
      BY <2>2 DEF Debt
    <2> QED BY <2>1, <2>3, <2>4, <2>5
  <1>3. ASSUME NEW m \in Merchants
        PROVE  Accounts(m)'
    <2>1. \A c \in LEDGER_CODES : book.balance[m][c] \in Int
      BY <1>1, BalancesInt
    <2>2. Accounts(m)
      OBVIOUS
    <2>3. /\ CreditSum(m) \in Int /\ SuspenseSum(m) \in Int /\ HeldSum(m) \in Int /\ UnbackedSum(m) \in Int
          /\ ChargeSum(m) \in Int /\ DebtSum(m) \in Int
      BY SumsInt
    <2>4. CASE m = Owner[t]
      <3>1. /\ CreditSum(m)' = CreditSum(m) /\ SuspenseSum(m)' = SuspenseSum(m)
            /\ HeldSum(m)' = HeldSum(m) + dHeld
            /\ UnbackedSum(m)' = UnbackedSum(m) + dUnbacked
            /\ ChargeSum(m)' = ChargeSum(m) + dCharge
            /\ DebtSum(m)' = DebtSum(m) + dDebt
        <4>1. CreditSum(m)' = CreditSum(m) /\ SuspenseSum(m)' = SuspenseSum(m)
          BY TransferSums
        <4>2. HeldSum(m)' = HeldSum(m) - Part(IsHeld(t), Total(t)) + Part(IsHeld(t)', Total(t))
          BY <2>4, TransferSums DEF Part
        <4>3. UnbackedSum(m)' = UnbackedSum(m) - Part(IsUnbacked(t), Total(t)) + Part(IsUnbacked(t)', Total(t))
          BY <2>4, TransferSums DEF Part
        <4>4. ChargeSum(m)' = ChargeSum(m) - Part(IsSettled(t), Charge[t]) + Part(IsSettled(t)', Charge'[t])
          BY <2>4, TransferSums DEF Part
        <4>5. DebtSum(m)' = DebtSum(m) - Part(TRUE, Debt[t]) + Part(TRUE, Debt'[t])
          BY <2>4, TransferSums
        <4>6. Part(TRUE, Debt[t]) = Debt[t] /\ Part(TRUE, Debt'[t]) = Debt'[t]
          BY DEF Part
        <4>7. /\ Part(IsHeld(t), Total(t)) \in Int /\ Part(IsHeld(t)', Total(t)) \in Int
              /\ Part(IsUnbacked(t), Total(t)) \in Int /\ Part(IsUnbacked(t)', Total(t)) \in Int
              /\ Part(IsSettled(t), Charge[t]) \in Int /\ Part(IsSettled(t)', Charge'[t]) \in Int
          BY <1>2, PartInt
        <4>8. HeldSum(m)' = HeldSum(m) + dHeld
          BY <2>3, <4>2, <4>7
        <4>9. UnbackedSum(m)' = UnbackedSum(m) + dUnbacked
          BY <2>3, <4>3, <4>7
        <4>10. ChargeSum(m)' = ChargeSum(m) + dCharge
          BY <2>3, <4>4, <4>7
        <4>11. DebtSum(m)' = DebtSum(m) + dDebt
          <5>1. PICK x, y : x = Debt[t] /\ y = Debt'[t]
            OBVIOUS
          <5>2. x \in Int /\ y \in Int /\ dDebt = y - x
            BY <1>2, <5>1
          <5>3. DebtSum(m)' = DebtSum(m) - x + y
            BY <4>5, <4>6, <5>1
          <5> QED BY <2>3, <5>2, <5>3
        <4> QED BY <4>1, <4>8, <4>9, <4>10, <4>11
      <3>2. /\ book'.balance[m]["available"] = book.balance[m]["available"] + av
            /\ book'.balance[m]["reserved"] = book.balance[m]["reserved"] + re
            /\ book'.balance[m]["suspense"] = book.balance[m]["suspense"] + 0
            /\ book'.balance[m]["custody"] = book.balance[m]["custody"] + cu
            /\ book'.balance[m]["treasury"] = book.balance[m]["treasury"] + tr
            /\ book'.balance[m]["platformFees"] = book.balance[m]["platformFees"] + fe
        BY <2>4 DEF Moved
      <3>3. book.balance[m]["available"] + DebtSum(m) + av + dDebt >= 0
        BY <2>1, <2>2, <2>3, <2>4, Codes DEF Accounts
      <3>4. PICK a, r, s, c, y, f : /\ a = book.balance[m]["available"] /\ r = book.balance[m]["reserved"]
                                    /\ s = book.balance[m]["suspense"] /\ c = book.balance[m]["custody"]
                                    /\ y = book.balance[m]["treasury"] /\ f = book.balance[m]["platformFees"]
        OBVIOUS
      <3>5. a \in Int /\ r \in Int /\ s \in Int /\ c \in Int /\ y \in Int /\ f \in Int
        BY <2>1, <3>4, Codes
      <3>6. /\ a = CreditSum(m) - HeldSum(m) - ChargeSum(m) + UnbackedSum(m)
            /\ r = HeldSum(m) - UnbackedSum(m) /\ s = SuspenseSum(m)
            /\ c + y = a + r + s + f /\ y >= 0 /\ f >= 0
        BY <2>2, <3>4 DEF Accounts
      <3>7. /\ book'.balance[m]["available"] = CreditSum(m)' - HeldSum(m)' - ChargeSum(m)' + UnbackedSum(m)'
            /\ book'.balance[m]["reserved"] = HeldSum(m)' - UnbackedSum(m)'
            /\ book'.balance[m]["suspense"] = SuspenseSum(m)'
        BY <2>3, <3>1, <3>2, <3>4, <3>5, <3>6
      <3>8. /\ book'.balance[m]["custody"] + book'.balance[m]["treasury"]
                 = book'.balance[m]["available"] + book'.balance[m]["reserved"]
                   + book'.balance[m]["suspense"] + book'.balance[m]["platformFees"]
            /\ book'.balance[m]["treasury"] >= 0 /\ book'.balance[m]["platformFees"] >= 0
        <4>0. c + y = a + r + s + f /\ y >= 0 /\ f >= 0
          BY <3>6
        <4>1. (c + cu) + (y + tr) = (a + av) + (r + re) + s + (f + fe) /\ y + tr >= 0 /\ f + fe >= 0
          BY <3>5, <4>0
        <4>2. s + 0 = s
          BY <3>5
        <4> QED BY <3>2, <3>4, <4>1, <4>2
      <3>9. book'.balance[m]["available"] + DebtSum(m)' >= 0
        <4>1. PICK d : d = DebtSum(m)
          OBVIOUS
        <4>2. d \in Int /\ a + d + av + dDebt >= 0
          BY <2>3, <3>3, <3>4, <4>1
        <4>3. book'.balance[m]["available"] = a + av /\ DebtSum(m)' = d + dDebt
          BY <3>1, <3>2, <3>4, <4>1
        <4> QED BY <3>5, <4>2, <4>3
      <3> QED BY <3>7, <3>8, <3>9 DEF Accounts
    <2>5. CASE m # Owner[t]
      <3>0. ASSUME NEW x, NEW p PROVE Part(Owner[t] = m /\ p, x) = 0 /\ Part(Owner[t] = m, x) = 0
        BY <2>5 DEF Part
      <3>1. /\ CreditSum(m)' = CreditSum(m) /\ SuspenseSum(m)' = SuspenseSum(m)
            /\ HeldSum(m)' = HeldSum(m)
            /\ UnbackedSum(m)' = UnbackedSum(m)
            /\ ChargeSum(m)' = ChargeSum(m)
            /\ DebtSum(m)' = DebtSum(m)
        <4>1. CreditSum(m)' = CreditSum(m) /\ SuspenseSum(m)' = SuspenseSum(m)
          BY TransferSums
        <4>2. HeldSum(m)' = HeldSum(m) - 0 + 0
          BY <2>5, TransferSums DEF Part
        <4>3. UnbackedSum(m)' = UnbackedSum(m) - 0 + 0
          BY <2>5, TransferSums DEF Part
        <4>4. ChargeSum(m)' = ChargeSum(m) - 0 + 0
          BY <2>5, TransferSums DEF Part
        <4>5. DebtSum(m)' = DebtSum(m) - 0 + 0
          BY <2>5, TransferSums DEF Part
        <4> QED BY <2>3, <4>1, <4>2, <4>3, <4>4, <4>5
      <3>2. \A c \in LEDGER_CODES : book'.balance[m][c] = book.balance[m][c] + 0
        BY <2>5 DEF Moved, LEDGER_CODES
      <3>3. \A c \in LEDGER_CODES : book'.balance[m][c] = book.balance[m][c]
        BY <2>1, <3>2
      <3> QED BY <2>2, <3>1, <3>3, Codes DEF Accounts
    <2> QED BY <2>4, <2>5
  <1>4. Evidence'
    <2>1. Owner[t] \in Merchants /\ "custody" \in LEDGER_CODES /\ "treasury" \in LEDGER_CODES
      BY Numbers, Codes
    <2>2. \A k \in Merchants : book'.balance[k]["custody"] = Plus(book.balance[k]["custody"], k, Owner[t], cu)
      BY DEF Moved, Plus
    <2>3. \A k \in Merchants : book'.balance[k]["treasury"] = Plus(book.balance[k]["treasury"], k, Owner[t], tr)
      BY DEF Moved, Plus
    <2>4. /\ Together(book', "custody") = Together(book, "custody") + cu
          /\ Together(book, "custody") \in Int
      BY <1>1, <2>1, <2>2, TogetherMoves
    <2>5. /\ Together(book', "treasury") = Together(book, "treasury") + tr
          /\ Together(book, "treasury") \in Int
      BY <1>1, <2>1, <2>3, TogetherMoves
    <2>6. /\ ReceivedSum' = ReceivedSum /\ ReceivedSum \in Int /\ PaidSum \in Int
          /\ PaidSum' = PaidSum - Part(IsSettled(t), PaidOut[t]) + Part(IsSettled(t)', PaidOut'[t])
      BY TransferSums, SumsInt
    <2>7. Part(IsSettled(t), PaidOut[t]) \in Int /\ Part(IsSettled(t)', PaidOut'[t]) \in Int
      BY <1>2, PartInt
    <2>8. PaidSum' = PaidSum + dPaid
      BY <2>6, <2>7
    <2>9. Together(book', "custody") + Together(book', "treasury") = ReceivedSum' - PaidSum'
      <3>1. Agree(Together(book, "custody"), Together(book, "treasury"), ReceivedSum, PaidSum)
        BY DEF Evidence, Agree
      <3>2. Outflow(cu, tr, dPaid) /\ tr \in Int
        BY DEF Outflow
      <3>3. Agree(Together(book, "custody") + cu, Together(book, "treasury") + tr, ReceivedSum, PaidSum + dPaid)
        BY <2>4, <2>5, <2>6, <3>1, <3>2, Shifted
      <3> QED BY <2>4, <2>5, <2>6, <2>8, <3>3 DEF Agree
    <2> QED BY <2>9 DEF Evidence
  <1> QED BY <1>3, <1>4

LEMMA NextValues ==
  ASSUME Shape', NEW t \in Transfers
  PROVE  /\ Charge'[t] = CostAt(t, charged'[t])
         /\ PaidOut'[t] = Amount[t] + charged'[t] - ToTreasury(t)
         /\ Debt'[t] = Part(<<"provider_fee_overrun", t>> \in cases', charged'[t] - ReserveFee)
                       + Part(<<"late_success_after_manual_failure", t>> \in cases', Total(t))
  <1>1. charged'[t] \in Nat /\ Amount[t] \in Nat /\ Gateway(t) \in Nat
    BY Numbers DEF Shape
  <1>2. PaidOut'[t] = IF Mode[t] = "merchant_debit" THEN Amount[t] + charged'[t] ELSE charged'[t]
    BY DEF PaidOut
  <1>3. Charge'[t] = PaidOut'[t] + Gateway(t)
    BY DEF Charge
  <1>4. Charge'[t] = CostAt(t, charged'[t]) /\ PaidOut'[t] = Amount[t] + charged'[t] - ToTreasury(t)
    BY <1>1, <1>2, <1>3 DEF CostAt, ToTreasury
  <1> QED BY <1>4 DEF Debt, Part

LEMMA DebtIs ==
  ASSUME NEW t \in Transfers
  PROVE  Debt[t] = Part(<<"provider_fee_overrun", t>> \in cases, charged[t] - ReserveFee)
                   + Part(<<"late_success_after_manual_failure", t>> \in cases, Total(t))
  BY DEF Debt, Part

\* A merchant owes nothing negative: an overrun case means that the fee was higher.
LEMMA DebtNat ==
  ASSUME Shape, Followed, NEW m
  PROVE  DebtSum(m) \in Nat
  <1>1. ASSUME NEW t \in Transfers PROVE Debt[t] \in Nat
    <2>1. charged[t] \in Nat /\ Total(t) \in Nat /\ ReserveFee \in Nat
      BY Numbers DEF Shape
    <2>2. <<"provider_fee_overrun", t>> \in cases => charged[t] >= ReserveFee
      BY DEF Followed, TransferFollowed
    <2>3. /\ Part(<<"provider_fee_overrun", t>> \in cases, charged[t] - ReserveFee) \in Nat
          /\ Part(<<"late_success_after_manual_failure", t>> \in cases, Total(t)) \in Nat
      BY <2>1, <2>2 DEF Part
    <2> QED BY <2>3, DebtIs
  <1>2. OfMerchant(m) \in SUBSET Transfers
    BY DEF OfMerchant
  <1>3. IsFiniteSet(OfMerchant(m)) /\ \A t \in OfMerchant(m) : Debt[t] \in Nat
    BY <1>1, <1>2, Finite
  <1> QED BY <1>3, SumNat DEF DebtSum

\* A transfer that is not settled owes nothing.
LEMMA NoDebt ==
  ASSUME Followed, NEW t \in Transfers, phase[t] # "settled"
  PROVE  Debt[t] = 0
  <1>1. <<"provider_fee_overrun", t>> \notin cases /\ <<"late_success_after_manual_failure", t>> \notin cases
    BY DEF Followed, TransferFollowed
  <1> QED BY <1>1, DebtIs DEF Part

\* A step about a transfer keeps the invariant when it is explained.
LEMMA StepKeeps ==
  ASSUME LedgerInv, NEW t \in Transfers, Shape', About(t), TransferFollowed(t)',
         NEW av, NEW re, NEW cu, NEW tr, NEW fe, NEW dHeld, NEW dUnbacked, NEW dCharge, NEW dPaid, NEW dDebt,
         Explained(t, av, re, cu, tr, fe, dHeld, dUnbacked, dCharge, dPaid, dDebt)
  PROVE  LedgerInv'
  <1>1. (\A m \in Merchants : Accounts(m)') /\ Evidence'
    BY TransferKeeps DEF LedgerInv
  <1>2. ASSUME NEW u \in Transfers \ {t} PROVE TransferFollowed(u)'
    <2>1. TransferFollowed(u)
      BY DEF LedgerInv, Followed
    <2>2. \A s \in SourceTypes : Posting(s, u)' <=> Posting(s, u)
      BY DEF About, Posting
    <2>3. /\ phase'[u] = phase[u] /\ charged'[u] = charged[u] /\ (u \in late' <=> u \in late)
          /\ \A k \in {"provider_fee_overrun", "late_success_after_manual_failure"} : <<k, u>> \in cases' <=> <<k, u>> \in cases
      BY DEF About
    <2> QED BY <2>1, <2>2, <2>3 DEF TransferFollowed, SourceTypes
  <1>3. ASSUME NEW r \in Receipts PROVE ReceiptFollowed(r)'
    <2>1. ReceiptFollowed(r)
      BY DEF LedgerInv, Followed
    <2> QED BY <2>1 DEF ReceiptFollowed, About, Posting
  <1>4. Followed'
    BY <1>2, <1>3 DEF Followed
  <1> QED BY <1>1, <1>4 DEF LedgerInv

-----------------------------------------------------------------------------
(* The transactions about a transfer *)

LEMMA QueueKeeps ==
  ASSUME LedgerInv, NEW t \in Transfers, QueueTransfer(t)
  PROVE  LedgerInv'
  <1>1. /\ Shape /\ book \in BookType /\ Total(t) \in Nat /\ TransferFollowed(t) /\ Followed
        /\ Total(t) \in Int /\ 0 - Total(t) \in Int
    <2>1. Total(t) \in Nat
      BY Numbers
    <2> QED BY <2>1 DEF LedgerInv, Shape, Followed
  <1>2. <<"reservation", t>> \notin book.journals
    BY <1>1 DEF TransferFollowed, Posting, QueueTransfer
  <1>3. /\ Added(book, book', "reservation", t)
        /\ Moved(book, book', Owner[t], 0 - Total(t), Total(t), 0, 0, 0, 0)
    <2>1. book' = Hold(book, "reservation", t, Total(t))
      BY DEF QueueTransfer, Commit, reserve
    <2>2. "reservation" \in SourceTypes
      BY DEF SourceTypes
    <2> QED BY <1>1, <1>2, <2>1, <2>2, HoldMoves
  <1>4. /\ phase[t] = "none" /\ phase' = [phase EXCEPT ![t] = "held"]
        /\ UNCHANGED <<charged, late, receipt, creditedTo, cases>>
    BY DEF QueueTransfer
  <1>5. Shape'
    BY <1>1, <1>3, <1>4 DEF Shape, Added, Phases
  <1>6. phase'[t] = "held" /\ \A u \in Transfers \ {t} : phase'[u] = phase[u]
    BY <1>1, <1>4 DEF Shape
  <1>7. \A u : \A s : <<s, u>> \in book'.journals <=> (<<s, u>> \in book.journals \/ (s = "reservation" /\ u = t))
    BY <1>3 DEF Added
  <1>8. About(t)
    BY <1>4, <1>6, <1>7 DEF About
  <1>9. TransferFollowed(t)'
    BY <1>1, <1>4, <1>6, <1>7 DEF TransferFollowed, Posting
  <1>10. /\ Part(IsHeld(t), Total(t)) = 0 /\ Part(IsHeld(t)', Total(t)) = Total(t)
         /\ Part(IsUnbacked(t), Total(t)) = 0 /\ Part(IsUnbacked(t)', Total(t)) = 0
         /\ Part(IsSettled(t), Charge[t]) = 0 /\ Part(IsSettled(t)', Charge'[t]) = 0
         /\ Part(IsSettled(t), PaidOut[t]) = 0 /\ Part(IsSettled(t)', PaidOut'[t]) = 0
    <2>1. ~IsHeld(t) /\ ~IsSettled(t) /\ IsHeld(t)' /\ ~IsSettled(t)' /\ ~IsUnbacked(t)
      BY <1>4, <1>6 DEF IsHeld, IsSettled, IsUnbacked
    <2>2. ~IsUnbacked(t)'
      BY <1>1, <1>4, <1>7 DEF IsUnbacked, Posting, TransferFollowed
    <2> QED BY <2>1, <2>2 DEF Part
  <1>11. Debt[t] = 0 /\ Debt'[t] = 0
    <2>1. Debt[t] = 0
      BY <1>1, <1>4, NoDebt
    <2> QED BY <1>4, <2>1 DEF Debt
  <1>12. book.balance[Owner[t]]["available"] + DebtSum(Owner[t]) + (0 - Total(t)) + 0 >= 0
    <2>1. DebtSum(Owner[t]) \in Nat
      BY <1>1, DebtNat
    <2>2. book.balance[Owner[t]]["available"] >= Total(t)
      BY DEF QueueTransfer, Sufficient
    <2>3. book.balance[Owner[t]]["available"] \in Int
      BY <1>1, BalancesInt, Numbers, Codes
    <2>4. PICK a, d, n : a = book.balance[Owner[t]]["available"] /\ d = DebtSum(Owner[t]) /\ n = Total(t)
      OBVIOUS
    <2>5. a + d + (0 - n) + 0 >= 0
      BY <1>1, <2>1, <2>2, <2>3, <2>4
    <2> QED BY <2>4, <2>5
  <1>13. Explained(t, 0 - Total(t), Total(t), 0, 0, 0, Total(t), 0, 0, 0, 0)
    BY <1>1, <1>3, <1>10, <1>11, <1>12 DEF Explained
  <1> QED BY <1>5, <1>8, <1>9, <1>13, StepKeeps

\* The cost of a settlement, the reservation and the overrun case.
LEMMA CostExplained ==
  ASSUME NEW t \in Transfers, NEW price \in Nat
  PROVE  /\ CostAt(t, price) \in Nat /\ ToTreasury(t) \in Nat /\ Total(t) \in Nat
         /\ CostAt(t, price) - Total(t) = price - ReserveFee
         /\ (0 - (Amount[t] + price)) + ToTreasury(t) = Gateway(t) - CostAt(t, price)
  <1>1. /\ Amount[t] \in Nat /\ Gateway(t) \in Nat /\ GatewayFee \in Nat /\ ReserveFee \in Nat /\ Total(t) \in Nat
        /\ Mode[t] \in {"merchant_debit", "internal_move"}
    BY Numbers
  <1>2. CASE Mode[t] = "merchant_debit"
    BY <1>1, <1>2 DEF CostAt, ToTreasury, Total, Gateway
  <1>3. CASE Mode[t] = "internal_move"
    BY <1>1, <1>3 DEF CostAt, ToTreasury, Total, Gateway
  <1> QED BY <1>1, <1>2, <1>3

\* A settlement that also returns the reservation h is explained.
LEMMA SettlementKeeps ==
  ASSUME LedgerInv, NEW t \in Transfers, NEW price \in Nat, Shape', About(t), TransferFollowed(t)',
         phase[t] # "settled", phase'[t] = "settled", charged'[t] = price,
         <<"provider_fee_overrun", t>> \in cases' <=> price > ReserveFee,
         NEW h \in Int, h = Part(IsHeld(t), Total(t)),
         Part(IsUnbacked(t)', Total(t)) = Part(IsUnbacked(t), Total(t)),
         Moved(book, book', Owner[t], h - CostAt(t, price), 0 - h, 0, 0 - (Amount[t] + price), ToTreasury(t), Gateway(t)),
         \/ h = Total(t)
         \/ h = 0 /\ <<"late_success_after_manual_failure", t>> \in cases'
         \/ h = 0 /\ book.balance[Owner[t]]["available"] >= Total(t)
  PROVE  LedgerInv'
  <1>1. PICK c, n, a, y, g : c = CostAt(t, price) /\ n = Total(t) /\ a = Amount[t] /\ y = ToTreasury(t) /\ g = Gateway(t)
    OBVIOUS
  <1>2. /\ c \in Nat /\ n \in Nat /\ a \in Nat /\ y \in Nat /\ g \in Nat /\ ReserveFee \in Nat
        /\ c - n = price - ReserveFee /\ (0 - (a + price)) + y = g - c
    BY <1>1, CostExplained, Numbers
  <1>3. PICK d : d = Debt'[t]
    OBVIOUS
  <1>4. /\ d \in Nat
        /\ d >= c - n
        /\ <<"late_success_after_manual_failure", t>> \in cases' => d >= c
    <2>1. PICK o, l : /\ o = Part(<<"provider_fee_overrun", t>> \in cases', charged'[t] - ReserveFee)
                      /\ l = Part(<<"late_success_after_manual_failure", t>> \in cases', Total(t))
      OBVIOUS
    <2>2. d = o + l
      BY <1>3, <2>1, NextValues
    <2>3. o \in Nat /\ o >= c - n
      BY <1>2, <2>1 DEF Part
    <2>4. l \in Nat /\ (<<"late_success_after_manual_failure", t>> \in cases' => l = n)
      BY <1>1, <1>2, <2>1 DEF Part
    <2> QED BY <1>2, <2>2, <2>3, <2>4
  <1>5. Debt[t] = 0
    BY NoDebt DEF LedgerInv
  <1>6. /\ Part(IsHeld(t)', Total(t)) = 0
        /\ Part(IsSettled(t), Charge[t]) = 0 /\ Part(IsSettled(t)', Charge'[t]) = c
        /\ Part(IsSettled(t), PaidOut[t]) = 0 /\ Part(IsSettled(t)', PaidOut'[t]) = a + price - y
    <2>1. Charge'[t] = c /\ PaidOut'[t] = a + price - y
      BY <1>1, NextValues
    <2>2. ~IsHeld(t)' /\ ~IsSettled(t) /\ IsSettled(t)'
      BY DEF IsHeld, IsSettled
    <2> QED BY <2>1, <2>2 DEF Part
  <1>7. \/ (h - c) + d >= 0
        \/ book.balance[Owner[t]]["available"] + DebtSum(Owner[t]) + (h - c) + d >= 0
    <2>1. CASE h = Total(t)
      BY <1>1, <1>2, <1>4, <2>1
    <2>2. CASE h = 0 /\ <<"late_success_after_manual_failure", t>> \in cases'
      BY <1>2, <1>4, <2>2
    <2>3. CASE h = 0 /\ book.balance[Owner[t]]["available"] >= Total(t)
      <3>1. PICK av, s : av = book.balance[Owner[t]]["available"] /\ s = DebtSum(Owner[t])
        OBVIOUS
      <3>2. av \in Int /\ s \in Nat
        BY <3>1, DebtNat, BalancesInt, Numbers, Codes DEF LedgerInv, Shape
      <3>3. av >= n
        BY <1>1, <2>3, <3>1
      <3>4. av + s + (0 - c) + d >= 0
        BY <1>2, <1>4, <3>2, <3>3
      <3>5. h - c = 0 - c
        BY <1>2, <2>3
      <3> QED BY <3>1, <3>4, <3>5
    <2> QED BY <2>1, <2>2, <2>3
  <1>8. PICK av, re, cu, dp : av = h - c /\ re = 0 - h /\ cu = 0 - (a + price) /\ dp = a + price - y
    OBVIOUS
  <1>9. /\ av \in Int /\ re \in Int /\ cu \in Int /\ dp \in Int
        /\ av = 0 - re - c + 0 /\ cu + y = av + re + g /\ cu + y = 0 - dp
    <2>1. av \in Int /\ re \in Int /\ cu \in Int /\ dp \in Int
      BY <1>2, <1>8
    <2>2. av = 0 - re - c + 0
      <3>1. h \in Int /\ c \in Int /\ 0 - (0 - h) - c + 0 = h - c
        BY <1>2
      <3> QED BY <1>8, <3>1
    <2>3. cu + y = av + re + g
      <3>1. cu + y = g - c
        BY <1>2, <1>8
      <3>2. h \in Int /\ c \in Int /\ g \in Int /\ (h - c) + (0 - h) + g = g - c
        BY <1>2
      <3> QED BY <1>8, <3>1, <3>2
    <2>4. cu + y = 0 - dp
      <3>1. (0 - (a + price)) + y = 0 - (a + price - y)
        BY <1>2
      <3> QED BY <1>8, <3>1
    <2> QED BY <2>1, <2>2, <2>3, <2>4
  <1>10. Explained(t, av, re, cu, y, g, re, 0, c, dp, d)
    <2>1. re = Part(IsHeld(t)', Total(t)) - Part(IsHeld(t), Total(t))
      BY <1>6, <1>8
    <2>2. 0 = Part(IsUnbacked(t)', Total(t)) - Part(IsUnbacked(t), Total(t))
      BY <1>1, <1>2 DEF Part
    <2>3. c = Part(IsSettled(t)', Charge'[t]) - Part(IsSettled(t), Charge[t])
      BY <1>2, <1>6
    <2>4. dp = Part(IsSettled(t)', PaidOut'[t]) - Part(IsSettled(t), PaidOut[t])
      BY <1>6, <1>8, <1>9
    <2>5. d = Debt'[t] - Debt[t]
      BY <1>3, <1>4, <1>5
    <2>6. Moved(book, book', Owner[t], av, re, 0, cu, y, g)
      BY <1>1, <1>8
    <2>7. re = re - 0 /\ d \in Int /\ c \in Int
      BY <1>2, <1>4, <1>9
    <2>8. av + d >= 0 \/ book.balance[Owner[t]]["available"] + DebtSum(Owner[t]) + av + d >= 0
      BY <1>7, <1>8
    <2> QED BY <1>2, <1>9, <2>1, <2>2, <2>3, <2>4, <2>5, <2>6, <2>7, <2>8 DEF Explained
  <1> QED BY <1>10, StepKeeps

\* The journals of two postings about t, and what a step about t leaves alone.
LEMMA AddedAbout ==
  ASSUME NEW b, NEW c, NEW s, NEW t, Added(b, c, s, t)
  PROVE  \A u, k : <<k, u>> \in c.journals <=> (<<k, u>> \in b.journals \/ (k = s /\ u = t))
  BY DEF Added

LEMMA SettleTransferKeeps ==
  ASSUME LedgerInv, NEW t \in Transfers, NEW price \in ActualFees, SettleTransfer(t, price)
  PROVE  LedgerInv'
  <1>1. /\ Shape /\ book \in BookType /\ TransferFollowed(t) /\ price \in Nat /\ ReserveFee \in Nat
        /\ Total(t) \in Int /\ charged[t] \in Nat
    BY Numbers DEF LedgerInv, Shape, Followed
  <1>2. /\ phase[t] = "held" /\ phase' = [phase EXCEPT ![t] = "settled"]
        /\ charged' = [charged EXCEPT ![t] = price]
        /\ cases' = cases \cup recordFeeOverrun(t, price)
        /\ UNCHANGED <<late, receipt, creditedTo>>
        /\ book' = settle(book, t, price)
    BY DEF SettleTransfer, Commit
  <1>3. <<"settlement", t>> \notin book.journals /\ t \notin late
        /\ <<"provider_fee_overrun", t>> \notin cases /\ <<"late_success_after_manual_failure", t>> \notin cases
    BY <1>1, <1>2 DEF TransferFollowed, Posting
  <1>4. /\ Added(book, book', "settlement", t)
        /\ Moved(book, book', Owner[t], Total(t) - CostAt(t, price), 0 - Total(t), 0,
                 0 - (Amount[t] + price), ToTreasury(t), Gateway(t))
    BY <1>1, <1>2, <1>3, SettleMoves
  <1>5. /\ phase'[t] = "settled" /\ charged'[t] = price
        /\ \A u \in Transfers \ {t} : phase'[u] = phase[u] /\ charged'[u] = charged[u]
        /\ \A k, u : <<k, u>> \in cases' <=> <<k, u>> \in cases \/ (u = t /\ k = "provider_fee_overrun" /\ price > ReserveFee)
        /\ \A u, k : <<k, u>> \in book'.journals <=> (<<k, u>> \in book.journals \/ (k = "settlement" /\ u = t))
    <2>1. \A k, u : <<k, u>> \in recordFeeOverrun(t, price) <=> (u = t /\ k = "provider_fee_overrun" /\ price > ReserveFee)
      BY DEF recordFeeOverrun
    <2> QED BY <1>1, <1>2, <1>4, <2>1, AddedAbout DEF Shape
  <1>6. Shape'
    <2>1. cases' \subseteq {"provider_fee_overrun", "late_success_after_manual_failure"} \X Transfers
      BY <1>1, <1>2 DEF Shape, recordFeeOverrun
    <2>2. phase' \in [Transfers -> Phases] /\ charged' \in [Transfers -> Nat]
      BY <1>1, <1>2 DEF Shape, Phases
    <2> QED BY <1>1, <1>2, <1>4, <2>1, <2>2 DEF Shape, Added
  <1>7. About(t)
    <2>1. \A r \in Receipts, s \in {"deposit", "receipt_suspense", "suspense_resolution"} :
            <<s, r>> \in book'.journals => <<s, r>> \in book.journals
      BY <1>5
    <2> QED BY <1>2, <1>5, <2>1 DEF About
  <1>8. TransferFollowed(t)'
    <2>1. phase'[t] = "settled" /\ charged'[t] = price /\ (price > ReserveFee => price >= ReserveFee)
      BY <1>1, <1>5
    <2> QED BY <1>1, <1>2, <1>3, <1>5, <2>1 DEF TransferFollowed, Posting
  <1>9. <<"provider_fee_overrun", t>> \in cases' <=> price > ReserveFee
    BY <1>3, <1>5
  <1>10. Total(t) = Part(IsHeld(t), Total(t))
    BY <1>2 DEF Part, IsHeld
  <1>11. Part(IsUnbacked(t)', Total(t)) = Part(IsUnbacked(t), Total(t))
    <2>1. IsUnbacked(t)' <=> IsUnbacked(t)
      BY <1>2, <1>5 DEF IsUnbacked, Posting
    <2> QED BY <2>1 DEF Part
  <1>12. phase[t] # "settled"
    BY <1>2
  <1> QED BY <1>1, <1>4, <1>5, <1>6, <1>7, <1>8, <1>9, <1>10, <1>11, <1>12, SettlementKeeps

LEMMA LateSuccessKeeps ==
  ASSUME LedgerInv, NEW t \in Transfers, NEW price \in ActualFees, LateSuccess(t, price)
  PROVE  LedgerInv'
  <1>1. /\ Shape /\ book \in BookType /\ TransferFollowed(t) /\ price \in Nat /\ ReserveFee \in Nat
        /\ Total(t) \in Nat /\ charged[t] \in Nat /\ Amount[t] \in Nat
    BY Numbers DEF LedgerInv, Shape, Followed
  <1>0. PICK c : c = restoreForLateSuccess(book, t)
    OBVIOUS
  <1>2. /\ phase[t] = "disproved" /\ phase' = [phase EXCEPT ![t] = "settled"]
        /\ charged' = [charged EXCEPT ![t] = price]
        /\ late' = late \cup {t}
        /\ cases' = cases \cup {<<"late_success_after_manual_failure", t>>} \cup recordFeeOverrun(t, price)
        /\ UNCHANGED <<receipt, creditedTo>>
        /\ book' = settle(c, t, price)
    BY <1>0 DEF LateSuccess, Commit
  <1>3. /\ <<"settlement", t>> \notin book.journals /\ <<"late_rereservation", t>> \notin book.journals /\ t \notin late
        /\ <<"provider_fee_overrun", t>> \notin cases /\ <<"late_success_after_manual_failure", t>> \notin cases
    BY <1>1, <1>2 DEF TransferFollowed, Posting
  <1>4. c = Hold(book, "late_rereservation", t, Total(t))
    BY <1>0 DEF restoreForLateSuccess, restoreReleasedWithdrawalForLateSuccess, restoreReleasedInternalMoveFeeForLateSuccess, Total
  <1>5. /\ Added(book, c, "late_rereservation", t)
        /\ Moved(book, c, Owner[t], 0 - Total(t), Total(t), 0, 0, 0, 0)
    <2>1. "late_rereservation" \in SourceTypes
      BY DEF SourceTypes
    <2> QED BY <1>1, <1>3, <1>4, <2>1, HoldMoves
  <1>6. /\ Added(c, book', "settlement", t)
        /\ Moved(c, book', Owner[t], Total(t) - CostAt(t, price), 0 - Total(t), 0,
                 0 - (Amount[t] + price), ToTreasury(t), Gateway(t))
    <2>1. c \in BookType /\ <<"settlement", t>> \notin c.journals
      BY <1>3, <1>5 DEF Added
    <2> QED BY <1>1, <1>2, <2>1, SettleMoves
  <1>7. Moved(book, book', Owner[t], 0 - CostAt(t, price), 0 - 0, 0, 0 - (Amount[t] + price), ToTreasury(t), Gateway(t))
    <2>1. PICK n, k, a, y, g : n = Total(t) /\ k = CostAt(t, price) /\ a = 0 - (Amount[t] + price) /\ y = ToTreasury(t) /\ g = Gateway(t)
      OBVIOUS
    <2>2. n \in Int /\ k \in Int /\ a \in Int /\ y \in Int /\ g \in Int /\ 0 - n \in Int /\ n - k \in Int
      BY <1>1, <2>1, CostExplained, Numbers
    <2>3. c \in BookType /\ book' \in BookType
      BY <1>5, <1>6 DEF Added
    <2>4. Moved(book, c, Owner[t], 0 - n, n, 0, 0, 0, 0) /\ Moved(c, book', Owner[t], n - k, 0 - n, 0, a, y, g)
      BY <1>5, <1>6, <2>1
    <2>5. Moved(book, book', Owner[t], (0 - n) + (n - k), n + (0 - n), 0, 0 + a, 0 + y, 0 + g)
      BY <1>1, <2>2, <2>3, <2>4, MovedTwice
    <2>6. (0 - n) + (n - k) = 0 - k /\ n + (0 - n) = 0 - 0 /\ 0 + a = a /\ 0 + y = y /\ 0 + g = g
      BY <2>2
    <2> QED BY <2>1, <2>5, <2>6
  <1>8. /\ phase'[t] = "settled" /\ charged'[t] = price
        /\ \A u \in Transfers \ {t} : phase'[u] = phase[u] /\ charged'[u] = charged[u]
        /\ \A k, u : <<k, u>> \in cases' <=> \/ <<k, u>> \in cases \/ (u = t /\ k = "provider_fee_overrun" /\ price > ReserveFee)
                                             \/ u = t /\ k = "late_success_after_manual_failure"
        /\ \A u, k : <<k, u>> \in book'.journals <=> (<<k, u>> \in book.journals \/ (k \in {"late_rereservation", "settlement"} /\ u = t))
    <2>1. \A k, u : <<k, u>> \in recordFeeOverrun(t, price) <=> (u = t /\ k = "provider_fee_overrun" /\ price > ReserveFee)
      BY DEF recordFeeOverrun
    <2>2. \A u, k : <<k, u>> \in book'.journals <=> (<<k, u>> \in book.journals \/ (k \in {"late_rereservation", "settlement"} /\ u = t))
      <3>1. c.journals = book.journals \cup {<<"late_rereservation", t>>} /\ book'.journals = c.journals \cup {<<"settlement", t>>}
        BY <1>5, <1>6 DEF Added
      <3> QED BY <3>1
    <2> QED BY <1>1, <1>2, <2>1, <2>2 DEF Shape
  <1>9. Shape'
    <2>1. cases' \subseteq {"provider_fee_overrun", "late_success_after_manual_failure"} \X Transfers
      BY <1>1, <1>2 DEF Shape, recordFeeOverrun
    <2>2. phase' \in [Transfers -> Phases] /\ charged' \in [Transfers -> Nat]
      BY <1>1, <1>2 DEF Shape, Phases
    <2> QED BY <1>1, <1>2, <1>6, <2>1, <2>2 DEF Shape, Added
  <1>10. About(t)
    <2>1. \A r \in Receipts, s \in {"deposit", "receipt_suspense", "suspense_resolution"} :
            <<s, r>> \in book'.journals => <<s, r>> \in book.journals
      BY <1>8
    <2> QED BY <1>2, <1>8, <2>1 DEF About
  <1>11. TransferFollowed(t)'
    <2>1. phase'[t] = "settled" /\ charged'[t] = price /\ (price > ReserveFee => price >= ReserveFee) /\ t \in late'
      BY <1>1, <1>2, <1>8
    <2> QED BY <1>1, <1>2, <1>3, <1>8, <2>1 DEF TransferFollowed, Posting
  <1>12. (<<"provider_fee_overrun", t>> \in cases' <=> price > ReserveFee) /\ <<"late_success_after_manual_failure", t>> \in cases'
    BY <1>3, <1>8
  <1>13. PICK h : h = 0
    OBVIOUS
  <1>16. h \in Int /\ h = Part(IsHeld(t), Total(t))
    BY <1>2, <1>13 DEF Part, IsHeld
  <1>17. Moved(book, book', Owner[t], h - CostAt(t, price), 0 - h, 0, 0 - (Amount[t] + price), ToTreasury(t), Gateway(t))
    BY <1>7, <1>13
  <1>14. Part(IsUnbacked(t)', Total(t)) = Part(IsUnbacked(t), Total(t))
    <2>1. ~IsUnbacked(t)' /\ ~IsUnbacked(t)
      BY <1>2, <1>8 DEF IsUnbacked, Posting
    <2> QED BY <2>1 DEF Part
  <1>15. phase[t] # "settled"
    BY <1>2
  <1> QED BY <1>1, <1>8, <1>9, <1>10, <1>11, <1>12, <1>13, <1>14, <1>15, <1>16, <1>17, SettlementKeeps

LEMMA TestSuccessKeeps ==
  ASSUME LedgerInv, NEW t \in Transfers, phase[t] = "none", Sufficient(book, t),
         Commit(settle(reserve(book, t), t, TestFee)), phase' = [phase EXCEPT ![t] = "settled"],
         charged' = [charged EXCEPT ![t] = TestFee], cases' = cases \cup recordFeeOverrun(t, TestFee),
         UNCHANGED <<late, receipt, creditedTo>>
  PROVE  LedgerInv'
  <1>1. /\ Shape /\ book \in BookType /\ TransferFollowed(t) /\ TestFee \in Nat /\ ReserveFee \in Nat
        /\ Total(t) \in Nat /\ charged[t] \in Nat /\ Amount[t] \in Nat
    BY Numbers DEF LedgerInv, Shape, Followed
  <1>0. PICK c : c = reserve(book, t)
    OBVIOUS
  <1>2. book' = settle(c, t, TestFee)
    BY <1>0 DEF Commit
  <1>3. /\ <<"settlement", t>> \notin book.journals /\ <<"reservation", t>> \notin book.journals
        /\ <<"release", t>> \notin book.journals /\ <<"late_rereservation", t>> \notin book.journals /\ t \notin late
        /\ <<"provider_fee_overrun", t>> \notin cases /\ <<"late_success_after_manual_failure", t>> \notin cases
    BY <1>1 DEF TransferFollowed, Posting
  <1>4. c = Hold(book, "reservation", t, Total(t))
    BY <1>0 DEF reserve
  <1>5. /\ Added(book, c, "reservation", t)
        /\ Moved(book, c, Owner[t], 0 - Total(t), Total(t), 0, 0, 0, 0)
    <2>1. "reservation" \in SourceTypes
      BY DEF SourceTypes
    <2> QED BY <1>1, <1>3, <1>4, <2>1, HoldMoves
  <1>6. /\ Added(c, book', "settlement", t)
        /\ Moved(c, book', Owner[t], Total(t) - CostAt(t, TestFee), 0 - Total(t), 0,
                 0 - (Amount[t] + TestFee), ToTreasury(t), Gateway(t))
    <2>1. c \in BookType /\ <<"settlement", t>> \notin c.journals
      BY <1>3, <1>5 DEF Added
    <2> QED BY <1>1, <1>2, <2>1, SettleMoves
  <1>7. Moved(book, book', Owner[t], 0 - CostAt(t, TestFee), 0 - 0, 0, 0 - (Amount[t] + TestFee), ToTreasury(t), Gateway(t))
    <2>1. PICK n, k, a, y, g : n = Total(t) /\ k = CostAt(t, TestFee) /\ a = 0 - (Amount[t] + TestFee) /\ y = ToTreasury(t) /\ g = Gateway(t)
      OBVIOUS
    <2>2. n \in Int /\ k \in Int /\ a \in Int /\ y \in Int /\ g \in Int /\ 0 - n \in Int /\ n - k \in Int
      BY <1>1, <2>1, CostExplained, Numbers
    <2>3. c \in BookType /\ book' \in BookType
      BY <1>5, <1>6 DEF Added
    <2>4. Moved(book, c, Owner[t], 0 - n, n, 0, 0, 0, 0) /\ Moved(c, book', Owner[t], n - k, 0 - n, 0, a, y, g)
      BY <1>5, <1>6, <2>1
    <2>5. Moved(book, book', Owner[t], (0 - n) + (n - k), n + (0 - n), 0, 0 + a, 0 + y, 0 + g)
      BY <1>1, <2>2, <2>3, <2>4, MovedTwice
    <2>6. (0 - n) + (n - k) = 0 - k /\ n + (0 - n) = 0 - 0 /\ 0 + a = a /\ 0 + y = y /\ 0 + g = g
      BY <2>2
    <2> QED BY <2>1, <2>5, <2>6
  <1>8. /\ phase'[t] = "settled" /\ charged'[t] = TestFee
        /\ \A u \in Transfers \ {t} : phase'[u] = phase[u] /\ charged'[u] = charged[u]
        /\ \A k, u : <<k, u>> \in cases' <=> <<k, u>> \in cases \/ (u = t /\ k = "provider_fee_overrun" /\ TestFee > ReserveFee)
        /\ \A u, k : <<k, u>> \in book'.journals <=> (<<k, u>> \in book.journals \/ (k \in {"reservation", "settlement"} /\ u = t))
    <2>1. \A k, u : <<k, u>> \in recordFeeOverrun(t, TestFee) <=> (u = t /\ k = "provider_fee_overrun" /\ TestFee > ReserveFee)
      BY DEF recordFeeOverrun
    <2>2. \A u, k : <<k, u>> \in book'.journals <=> (<<k, u>> \in book.journals \/ (k \in {"reservation", "settlement"} /\ u = t))
      <3>1. c.journals = book.journals \cup {<<"reservation", t>>} /\ book'.journals = c.journals \cup {<<"settlement", t>>}
        BY <1>5, <1>6 DEF Added
      <3> QED BY <3>1
    <2> QED BY <1>1, <2>1, <2>2 DEF Shape
  <1>9. Shape'
    <2>1. cases' \subseteq {"provider_fee_overrun", "late_success_after_manual_failure"} \X Transfers
      BY <1>1 DEF Shape, recordFeeOverrun
    <2>2. phase' \in [Transfers -> Phases] /\ charged' \in [Transfers -> Nat]
      BY <1>1 DEF Shape, Phases
    <2> QED BY <1>1, <1>6, <2>1, <2>2 DEF Shape, Added
  <1>10. About(t)
    <2>1. \A r \in Receipts, s \in {"deposit", "receipt_suspense", "suspense_resolution"} :
            <<s, r>> \in book'.journals => <<s, r>> \in book.journals
      BY <1>8
    <2> QED BY <1>8, <2>1 DEF About
  <1>11. TransferFollowed(t)'
    <2>1. phase'[t] = "settled" /\ charged'[t] = TestFee /\ (TestFee > ReserveFee => TestFee >= ReserveFee)
      BY <1>1, <1>8
    <2> QED BY <1>1, <1>3, <1>8, <2>1 DEF TransferFollowed, Posting
  <1>12. <<"provider_fee_overrun", t>> \in cases' <=> TestFee > ReserveFee
    BY <1>3, <1>8
  <1>13. PICK h : h = 0
    OBVIOUS
  <1>14. h \in Int /\ h = Part(IsHeld(t), Total(t))
    BY <1>13 DEF Part, IsHeld
  <1>15. Moved(book, book', Owner[t], h - CostAt(t, TestFee), 0 - h, 0, 0 - (Amount[t] + TestFee), ToTreasury(t), Gateway(t))
    BY <1>7, <1>13
  <1>16. Part(IsUnbacked(t)', Total(t)) = Part(IsUnbacked(t), Total(t))
    <2>1. ~IsUnbacked(t)' /\ ~IsUnbacked(t)
      BY <1>3, <1>8 DEF IsUnbacked, Posting
    <2> QED BY <2>1 DEF Part
  <1>17. h = 0 /\ book.balance[Owner[t]]["available"] >= Total(t)
    BY <1>13 DEF Sufficient
  <1> QED BY <1>1, <1>8, <1>9, <1>10, <1>11, <1>12, <1>14, <1>15, <1>16, <1>17, SettlementKeeps

\* A step after which the transfer is not settled and that moves no cost.
LEMMA UncostedKeeps ==
  ASSUME LedgerInv, NEW t \in Transfers, Shape', About(t), TransferFollowed(t)', UNCHANGED <<charged, cases>>,
         phase[t] # "settled", phase'[t] # "settled",
         NEW dHeld \in Int, dHeld = Part(IsHeld(t)', Total(t)) - Part(IsHeld(t), Total(t)),
         NEW dUnbacked \in Int, dUnbacked = Part(IsUnbacked(t)', Total(t)) - Part(IsUnbacked(t), Total(t)),
         NEW n \in Nat, n = dUnbacked - dHeld,
         Moved(book, book', Owner[t], n, 0 - n, 0, 0, 0, 0)
  PROVE  LedgerInv'
  <1>1. Debt[t] = 0 /\ Debt'[t] = 0
    <2>1. Debt[t] = 0
      BY NoDebt DEF LedgerInv
    <2> QED BY <2>1 DEF Debt
  <1>2. /\ Part(IsSettled(t), Charge[t]) = 0 /\ Part(IsSettled(t)', Charge'[t]) = 0
        /\ Part(IsSettled(t), PaidOut[t]) = 0 /\ Part(IsSettled(t)', PaidOut'[t]) = 0
    BY DEF Part, IsSettled
  <1>3. n \in Int /\ 0 - n \in Int /\ n = 0 - dHeld - 0 + dUnbacked /\ 0 - n = dHeld - dUnbacked
        /\ 0 + 0 = n + (0 - n) + 0 /\ 0 + 0 = 0 - 0 /\ n + 0 >= 0
    OBVIOUS
  <1>4. Explained(t, n, 0 - n, 0, 0, 0, dHeld, dUnbacked, 0, 0, 0)
    BY <1>1, <1>2, <1>3 DEF Explained
  <1> QED BY <1>4, StepKeeps

LEMMA FailTransferKeeps ==
  ASSUME LedgerInv, NEW t \in Transfers, NEW to \in {"failed", "disproved"}, FailTransfer(t, to)
  PROVE  LedgerInv'
  <1>1. Shape /\ book \in BookType /\ TransferFollowed(t) /\ Total(t) \in Nat
    BY Numbers DEF LedgerInv, Shape, Followed
  <1>2. /\ phase[t] = "held" /\ phase' = [phase EXCEPT ![t] = to]
        /\ UNCHANGED <<charged, late, receipt, creditedTo, cases>>
        /\ book' = release(book, t)
    BY DEF FailTransfer, Commit
  <1>3. book' = Return(book, t, Total(t))
    BY <1>2 DEF release, releaseWithdrawalReservation, releaseInternalMoveFee, Total
  <1>4. t \notin late /\ IsHeld(t) /\ ~IsHeld(t)' /\ ~IsUnbacked(t)' /\ phase'[t] = to
    BY <1>1, <1>2 DEF TransferFollowed, IsHeld, IsUnbacked, Shape
  <1>5. /\ book' \in BookType
        /\ \A u, k : <<k, u>> \in book'.journals <=> (<<k, u>> \in book.journals \/ (k = "release" /\ u = t))
    <2>1. CASE <<"release", t>> \in book.journals
      BY <1>1, <1>3, <2>1, ReturnMoves
    <2>2. CASE <<"release", t>> \notin book.journals
      BY <1>1, <1>3, <2>2, ReturnMoves, AddedAbout DEF Added
    <2> QED BY <2>1, <2>2
  <1>6. Shape'
    BY <1>1, <1>2, <1>5 DEF Shape, Phases
  <1>7. About(t)
    <2>1. \A r \in Receipts, s \in {"deposit", "receipt_suspense", "suspense_resolution"} :
            <<s, r>> \in book'.journals => <<s, r>> \in book.journals
      BY <1>5
    <2>2. \A u \in Transfers \ {t} : phase'[u] = phase[u]
      BY <1>1, <1>2 DEF Shape
    <2> QED BY <1>2, <1>5, <2>1, <2>2 DEF About
  <1>8. TransferFollowed(t)'
    BY <1>1, <1>2, <1>4, <1>5 DEF TransferFollowed, Posting
  <1>9. CASE <<"release", t>> \in book.journals
    <2>1. book' = book
      BY <1>1, <1>3, <1>9, ReturnMoves
    <2>2. IsUnbacked(t)
      BY <1>2, <1>4, <1>9 DEF IsUnbacked, Posting
    <2>3. PICK d, n : d = 0 - Total(t) /\ n = 0
      OBVIOUS
    <2>4. /\ d = Part(IsHeld(t)', Total(t)) - Part(IsHeld(t), Total(t))
          /\ d = Part(IsUnbacked(t)', Total(t)) - Part(IsUnbacked(t), Total(t))
      BY <1>1, <1>4, <2>2, <2>3 DEF Part
    <2>5. d \in Int /\ n \in Nat /\ n = d - d
      BY <1>1, <2>3
    <2>6. Moved(book, book', Owner[t], n, 0 - n, 0, 0, 0, 0)
      <3>1. 0 - n = 0
        BY <2>3
      <3> QED BY <1>1, <2>1, <2>3, <3>1, MovedNone
    <2> QED BY <1>2, <1>4, <1>6, <1>7, <1>8, <2>4, <2>5, <2>6, UncostedKeeps
  <1>10. CASE <<"release", t>> \notin book.journals
    <2>1. Moved(book, book', Owner[t], Total(t), 0 - Total(t), 0, 0, 0, 0)
      BY <1>1, <1>3, <1>10, ReturnMoves
    <2>2. ~IsUnbacked(t)
      BY <1>10 DEF IsUnbacked, Posting
    <2>3. PICK d, e, n : d = 0 - Total(t) /\ e = 0 /\ n = Total(t)
      OBVIOUS
    <2>4. /\ d = Part(IsHeld(t)', Total(t)) - Part(IsHeld(t), Total(t))
          /\ e = Part(IsUnbacked(t)', Total(t)) - Part(IsUnbacked(t), Total(t))
      BY <1>1, <1>4, <2>2, <2>3 DEF Part
    <2>5. d \in Int /\ e \in Int /\ n \in Nat /\ n = e - d
      BY <1>1, <2>3
    <2>6. Moved(book, book', Owner[t], n, 0 - n, 0, 0, 0, 0)
      BY <2>1, <2>3
    <2> QED BY <1>2, <1>4, <1>6, <1>7, <1>8, <2>4, <2>5, <2>6, UncostedKeeps
  <1> QED BY <1>9, <1>10

\* The retry posts nothing: its reservation journal is there already.
LEMMA RetryKeeps ==
  ASSUME LedgerInv, NEW t \in Transfers, RetryDeviceJob(t)
  PROVE  LedgerInv'
  <1>1. Shape /\ book \in BookType /\ TransferFollowed(t) /\ Total(t) \in Nat
    BY Numbers DEF LedgerInv, Shape, Followed
  <1>2. /\ phase[t] = "failed" /\ phase' = [phase EXCEPT ![t] = "held"]
        /\ UNCHANGED <<charged, late, receipt, creditedTo, cases>>
        /\ book' = Hold(book, "reservation", t, Total(t))
    BY DEF RetryDeviceJob, Commit, reserve
  <1>3. <<"reservation", t>> \in book.journals /\ <<"release", t>> \in book.journals /\ t \notin late
    BY <1>1, <1>2 DEF TransferFollowed, Posting
  <1>4. book' = book
    <2>1. "reservation" \in SourceTypes
      BY DEF SourceTypes
    <2> QED BY <1>1, <1>2, <1>3, <2>1, HoldMoves
  <1>5. /\ phase'[t] = "held" /\ ~IsHeld(t) /\ IsHeld(t)' /\ ~IsUnbacked(t) /\ IsUnbacked(t)'
        /\ \A u \in Transfers \ {t} : phase'[u] = phase[u]
    BY <1>1, <1>2, <1>3, <1>4 DEF Shape, IsHeld, IsUnbacked, Posting
  <1>6. Shape'
    BY <1>1, <1>2, <1>4 DEF Shape, Phases
  <1>7. About(t)
    BY <1>2, <1>4, <1>5 DEF About
  <1>8. TransferFollowed(t)'
    BY <1>1, <1>2, <1>3, <1>4, <1>5 DEF TransferFollowed, Posting
  <1>9. PICK d, n : d = Total(t) /\ n = 0
    OBVIOUS
  <1>10. /\ d = Part(IsHeld(t)', Total(t)) - Part(IsHeld(t), Total(t))
         /\ d = Part(IsUnbacked(t)', Total(t)) - Part(IsUnbacked(t), Total(t))
    BY <1>1, <1>5, <1>9 DEF Part
  <1>11. d \in Int /\ n \in Nat /\ n = d - d
    BY <1>1, <1>9
  <1>12. Moved(book, book', Owner[t], n, 0 - n, 0, 0, 0, 0)
    <2>1. 0 - n = 0
      BY <1>9
    <2> QED BY <1>1, <1>4, <1>9, <2>1, MovedNone
  <1>13. phase[t] # "settled" /\ phase'[t] # "settled"
    BY <1>2, <1>5
  <1> QED BY <1>2, <1>6, <1>7, <1>8, <1>10, <1>11, <1>12, <1>13, UncostedKeeps

LEMMA TestFailureKeeps ==
  ASSUME LedgerInv, NEW t \in Transfers, phase[t] = "none", Sufficient(book, t),
         Commit(release(reserve(book, t), t)), phase' = [phase EXCEPT ![t] = "failed"],
         UNCHANGED <<charged, cases, late, receipt, creditedTo>>
  PROVE  LedgerInv'
  <1>1. Shape /\ book \in BookType /\ TransferFollowed(t) /\ Total(t) \in Nat
    BY Numbers DEF LedgerInv, Shape, Followed
  <1>0. PICK c : c = reserve(book, t)
    OBVIOUS
  <1>2. book' = Return(c, t, Total(t))
    BY <1>0 DEF Commit, release, releaseWithdrawalReservation, releaseInternalMoveFee, Total
  <1>3. /\ <<"settlement", t>> \notin book.journals /\ <<"reservation", t>> \notin book.journals
        /\ <<"release", t>> \notin book.journals /\ <<"late_rereservation", t>> \notin book.journals /\ t \notin late
    BY <1>1 DEF TransferFollowed, Posting
  <1>4. c = Hold(book, "reservation", t, Total(t))
    BY <1>0 DEF reserve
  <1>5. /\ Added(book, c, "reservation", t)
        /\ Moved(book, c, Owner[t], 0 - Total(t), Total(t), 0, 0, 0, 0)
    <2>1. "reservation" \in SourceTypes
      BY DEF SourceTypes
    <2> QED BY <1>1, <1>3, <1>4, <2>1, HoldMoves
  <1>6. /\ Added(c, book', "release", t)
        /\ Moved(c, book', Owner[t], Total(t), 0 - Total(t), 0, 0, 0, 0)
    <2>1. c \in BookType /\ <<"release", t>> \notin c.journals
      BY <1>3, <1>5 DEF Added
    <2> QED BY <1>1, <1>2, <2>1, ReturnMoves
  <1>7. \A u, k : <<k, u>> \in book'.journals <=> (<<k, u>> \in book.journals \/ (k \in {"reservation", "release"} /\ u = t))
    <2>1. c.journals = book.journals \cup {<<"reservation", t>>} /\ book'.journals = c.journals \cup {<<"release", t>>}
      BY <1>5, <1>6 DEF Added
    <2> QED BY <2>1
  <1>8. /\ phase'[t] = "failed" /\ ~IsHeld(t) /\ ~IsHeld(t)' /\ ~IsUnbacked(t) /\ ~IsUnbacked(t)'
        /\ \A u \in Transfers \ {t} : phase'[u] = phase[u]
    BY <1>1 DEF Shape, IsHeld, IsUnbacked
  <1>9. Shape'
    BY <1>1, <1>6 DEF Shape, Added, Phases
  <1>10. About(t)
    <2>1. \A r \in Receipts, s \in {"deposit", "receipt_suspense", "suspense_resolution"} :
            <<s, r>> \in book'.journals => <<s, r>> \in book.journals
      BY <1>7
    <2> QED BY <1>7, <1>8, <2>1 DEF About
  <1>11. TransferFollowed(t)'
    BY <1>1, <1>3, <1>7, <1>8 DEF TransferFollowed, Posting
  <1>12. PICK n : n = 0
    OBVIOUS
  <1>13. /\ n = Part(IsHeld(t)', Total(t)) - Part(IsHeld(t), Total(t))
         /\ n = Part(IsUnbacked(t)', Total(t)) - Part(IsUnbacked(t), Total(t))
    BY <1>8, <1>12 DEF Part
  <1>14. n \in Nat /\ n \in Int /\ n = n - n
    BY <1>12
  <1>15. Moved(book, book', Owner[t], n, 0 - n, 0, 0, 0, 0)
    <2>1. PICK k : k = Total(t)
      OBVIOUS
    <2>2. k \in Int /\ 0 - k \in Int
      BY <1>1, <2>1
    <2>3. c \in BookType /\ book' \in BookType
      BY <1>5, <1>6 DEF Added
    <2>4. Moved(book, c, Owner[t], 0 - k, k, 0, 0, 0, 0) /\ Moved(c, book', Owner[t], k, 0 - k, 0, 0, 0, 0)
      BY <1>5, <1>6, <2>1
    <2>5. Moved(book, book', Owner[t], (0 - k) + k, k + (0 - k), 0, 0 + 0, 0 + 0, 0 + 0)
      BY <1>1, <2>2, <2>3, <2>4, MovedTwice
    <2>6. (0 - k) + k = n /\ k + (0 - k) = 0 - n /\ 0 + 0 = 0
      BY <1>12, <2>2
    <2> QED BY <2>5, <2>6
  <1>16. phase[t] # "settled" /\ phase'[t] # "settled"
    BY <1>8
  <1> QED BY <1>9, <1>10, <1>11, <1>13, <1>14, <1>15, <1>16, UncostedKeeps

-----------------------------------------------------------------------------
(* The transactions about a receipt *)

IsCredited(r, m) == receipt[r] = "credited" /\ creditedTo[r] = m
IsSuspended(r, m) == receipt[r] = "suspense" /\ creditedTo[r] = m
IsReceived(r) == receipt[r] # "none"

\* A step about the receipt r alone.
AboutReceipt(r) ==
  /\ \A q \in Receipts \ {r} :
       /\ receipt'[q] = receipt[q] /\ creditedTo'[q] = creditedTo[q]
       /\ \A s \in SourceTypes : <<s, q>> \in book'.journals <=> <<s, q>> \in book.journals
  /\ \A t \in Transfers, s \in {"reservation", "settlement", "release", "late_rereservation"} :
       <<s, t>> \in book'.journals <=> <<s, t>> \in book.journals
  /\ UNCHANGED <<phase, charged, late, cases>>

LEMMA ReceiptSums ==
  ASSUME NEW r \in Receipts, Shape, Shape', AboutReceipt(r), NEW m
  PROVE  /\ HeldSum(m)' = HeldSum(m) /\ UnbackedSum(m)' = UnbackedSum(m) /\ ChargeSum(m)' = ChargeSum(m)
         /\ DebtSum(m)' = DebtSum(m) /\ PaidSum' = PaidSum
         /\ CreditSum(m)' = CreditSum(m) - Part(IsCredited(r, m), Amount[r]) + Part(IsCredited(r, m)', Amount[r])
         /\ SuspenseSum(m)' = SuspenseSum(m) - Part(IsSuspended(r, m), Amount[r]) + Part(IsSuspended(r, m)', Amount[r])
         /\ ReceivedSum' = ReceivedSum - Part(IsReceived(r), Amount[r]) + Part(IsReceived(r)', Amount[r])
  <1>1. UNCHANGED <<phase, charged, late, cases>>
    BY DEF AboutReceipt
  <1>2. PaidOut' = PaidOut /\ Charge' = Charge /\ Debt' = Debt /\ Held' = Held /\ Settled' = Settled
    <2>1. PaidOut' = PaidOut /\ Debt' = Debt /\ Held' = Held /\ Settled' = Settled
      BY <1>1 DEF PaidOut, Debt, Held, Settled
    <2> QED BY <2>1 DEF Charge
  <1>3. Unbacked(m)' = Unbacked(m)
    BY <1>1 DEF AboutReceipt, Unbacked, OfMerchant
  <1>4. /\ HeldSum(m)' = HeldSum(m) /\ UnbackedSum(m)' = UnbackedSum(m) /\ ChargeSum(m)' = ChargeSum(m)
        /\ DebtSum(m)' = DebtSum(m) /\ PaidSum' = PaidSum
    BY <1>2, <1>3 DEF HeldSum, UnbackedSum, ChargeSum, DebtSum, PaidSum, Totals, OfMerchant
  <1>5. \A x \in Receipts : Amount[x] \in Int
    BY Numbers
  <1>6. ASSUME NEW S \in SUBSET Receipts, NEW R \in SUBSET Receipts, S \ {r} = R \ {r}
        PROVE  SumFunctionOnSet(Amount, R) = SumFunctionOnSet(Amount, S) - Part(r \in S, Amount[r]) + Part(r \in R, Amount[r])
    <2>1. IsFiniteSet(S) /\ IsFiniteSet(R)
      BY Finite
    <2>2. SumFunctionOnSet(Amount, R) = SumFunctionOnSet(Amount, S) - (IF r \in S THEN Amount[r] ELSE 0)
                                                                    + (IF r \in R THEN Amount[r] ELSE 0)
      BY <1>5, <1>6, <2>1, SumMove
    <2> QED BY <2>2 DEF Part
  <1>7. CreditSum(m)' = CreditSum(m) - Part(IsCredited(r, m), Amount[r]) + Part(IsCredited(r, m)', Amount[r])
    <2>1. PICK S, R : S = Credited(m) /\ R = Credited(m)'
      OBVIOUS
    <2>2. S \in SUBSET Receipts /\ R \in SUBSET Receipts
      BY <2>1 DEF Credited
    <2>3. S \ {r} = R \ {r}
      BY <2>1 DEF AboutReceipt, Credited
    <2>4. r \in S <=> IsCredited(r, m)
      BY <2>1 DEF Credited, IsCredited
    <2>5. r \in R <=> IsCredited(r, m)'
      BY <2>1 DEF Credited, IsCredited
    <2>6. SumFunctionOnSet(Amount, R) = SumFunctionOnSet(Amount, S) - Part(r \in S, Amount[r]) + Part(r \in R, Amount[r])
      BY <1>6, <2>2, <2>3
    <2> QED BY <2>1, <2>4, <2>5, <2>6 DEF CreditSum, Part
  <1>8. SuspenseSum(m)' = SuspenseSum(m) - Part(IsSuspended(r, m), Amount[r]) + Part(IsSuspended(r, m)', Amount[r])
    <2>1. PICK S, R : S = SuspendedOf(m) /\ R = SuspendedOf(m)'
      OBVIOUS
    <2>2. S \in SUBSET Receipts /\ R \in SUBSET Receipts
      BY <2>1 DEF SuspendedOf
    <2>3. S \ {r} = R \ {r}
      BY <2>1 DEF AboutReceipt, SuspendedOf
    <2>4. r \in S <=> IsSuspended(r, m)
      BY <2>1 DEF SuspendedOf, IsSuspended
    <2>5. r \in R <=> IsSuspended(r, m)'
      BY <2>1 DEF SuspendedOf, IsSuspended
    <2>6. SumFunctionOnSet(Amount, R) = SumFunctionOnSet(Amount, S) - Part(r \in S, Amount[r]) + Part(r \in R, Amount[r])
      BY <1>6, <2>2, <2>3
    <2> QED BY <2>1, <2>4, <2>5, <2>6 DEF SuspenseSum, Part
  <1>9. ReceivedSum' = ReceivedSum - Part(IsReceived(r), Amount[r]) + Part(IsReceived(r)', Amount[r])
    <2>1. PICK S, R : S = Received /\ R = Received'
      OBVIOUS
    <2>2. S \in SUBSET Receipts /\ R \in SUBSET Receipts
      BY <2>1 DEF Received
    <2>3. S \ {r} = R \ {r}
      BY <2>1 DEF AboutReceipt, Received
    <2>4. r \in S <=> IsReceived(r)
      BY <2>1 DEF Received, IsReceived
    <2>5. r \in R <=> IsReceived(r)'
      BY <2>1 DEF Received, IsReceived
    <2>6. SumFunctionOnSet(Amount, R) = SumFunctionOnSet(Amount, S) - Part(r \in S, Amount[r]) + Part(r \in R, Amount[r])
      BY <1>6, <2>2, <2>3
    <2> QED BY <2>1, <2>4, <2>5, <2>6 DEF ReceivedSum, Part
  <1> QED BY <1>4, <1>7, <1>8, <1>9

\* What a step about r moves at merchant m, and of all merchants together.
ExplainedAt(r, m, dCredit, dSuspense) ==
  /\ dCredit \in Nat /\ dSuspense \in Int
  /\ dCredit = Part(IsCredited(r, m)', Amount[r]) - Part(IsCredited(r, m), Amount[r])
  /\ dSuspense = Part(IsSuspended(r, m)', Amount[r]) - Part(IsSuspended(r, m), Amount[r])
  /\ book'.balance[m]["available"] = book.balance[m]["available"] + dCredit
  /\ book'.balance[m]["suspense"] = book.balance[m]["suspense"] + dSuspense
  /\ book'.balance[m]["custody"] = book.balance[m]["custody"] + (dCredit + dSuspense)
  /\ \A c \in {"reserved", "treasury", "platformFees"} : book'.balance[m][c] = book.balance[m][c]

CustodyExplained(r, d) ==
  /\ d \in Int
  /\ d = Part(IsReceived(r)', Amount[r]) - Part(IsReceived(r), Amount[r])
  /\ Together(book', "custody") = Together(book, "custody") + d
  /\ Together(book, "custody") \in Int

LEMMA ReceiptKeeps ==
  ASSUME LedgerInv, NEW r \in Receipts, Shape', AboutReceipt(r), ReceiptFollowed(r)',
         \A m \in Merchants : \E x, y : ExplainedAt(r, m, x, y),
         NEW d, CustodyExplained(r, d)
  PROVE  LedgerInv'
  <1>1. Shape /\ book \in BookType /\ book' \in BookType /\ Amount[r] \in Int
    BY Numbers DEF LedgerInv, Shape
  <1>2. Followed'
    <2>1. ASSUME NEW q \in Receipts \ {r} PROVE ReceiptFollowed(q)'
      <3>1. ReceiptFollowed(q)
        BY DEF LedgerInv, Followed
      <3> QED BY <3>1 DEF AboutReceipt, ReceiptFollowed, Posting, SourceTypes
    <2>2. ASSUME NEW t \in Transfers PROVE TransferFollowed(t)'
      <3>1. TransferFollowed(t)
        BY DEF LedgerInv, Followed
      <3> QED BY <3>1 DEF AboutReceipt, TransferFollowed, Posting
    <2> QED BY <2>1, <2>2 DEF Followed
  <1>3. ASSUME NEW m \in Merchants PROVE Accounts(m)'
    <2>1. PICK x, y : ExplainedAt(r, m, x, y)
      OBVIOUS
    <2>2. /\ x \in Nat /\ y \in Int /\ HeldSum(m)' = HeldSum(m) /\ UnbackedSum(m)' = UnbackedSum(m)
          /\ ChargeSum(m)' = ChargeSum(m) /\ DebtSum(m)' = DebtSum(m)
      BY <1>1, <2>1, ReceiptSums DEF ExplainedAt
    <2>3. /\ CreditSum(m) \in Int /\ SuspenseSum(m) \in Int /\ HeldSum(m) \in Int /\ UnbackedSum(m) \in Int
          /\ ChargeSum(m) \in Int /\ DebtSum(m) \in Int
      BY <1>1, SumsInt
    <2>4. CreditSum(m)' = CreditSum(m) + x
      <3>1. PICK p, q : p = Part(IsCredited(r, m), Amount[r]) /\ q = Part(IsCredited(r, m)', Amount[r])
        OBVIOUS
      <3>2. p \in Int /\ q \in Int /\ x = q - p
        BY <1>1, <2>1, <3>1, PartInt DEF ExplainedAt
      <3>3. CreditSum(m)' = CreditSum(m) - p + q
        BY <1>1, <3>1, ReceiptSums
      <3> QED BY <2>3, <3>2, <3>3
    <2>5. SuspenseSum(m)' = SuspenseSum(m) + y
      <3>1. PICK p, q : p = Part(IsSuspended(r, m), Amount[r]) /\ q = Part(IsSuspended(r, m)', Amount[r])
        OBVIOUS
      <3>2. p \in Int /\ q \in Int /\ y = q - p
        BY <1>1, <2>1, <3>1, PartInt DEF ExplainedAt
      <3>3. SuspenseSum(m)' = SuspenseSum(m) - p + q
        BY <1>1, <3>1, ReceiptSums
      <3> QED BY <2>3, <3>2, <3>3
    <2>6. PICK a, e, s, c, w, f : /\ a = book.balance[m]["available"] /\ e = book.balance[m]["reserved"]
                                  /\ s = book.balance[m]["suspense"] /\ c = book.balance[m]["custody"]
                                  /\ w = book.balance[m]["treasury"] /\ f = book.balance[m]["platformFees"]
      OBVIOUS
    <2>7. a \in Int /\ e \in Int /\ s \in Int /\ c \in Int /\ w \in Int /\ f \in Int
      BY <1>1, <2>6, BalancesInt, Codes
    <2>8. /\ book'.balance[m]["available"] = a + x /\ book'.balance[m]["reserved"] = e
          /\ book'.balance[m]["suspense"] = s + y /\ book'.balance[m]["custody"] = c + (x + y)
          /\ book'.balance[m]["treasury"] = w /\ book'.balance[m]["platformFees"] = f
      BY <2>1, <2>6 DEF ExplainedAt
    <2>9. PICK h, u, g, b, cr, su : /\ h = HeldSum(m) /\ u = UnbackedSum(m) /\ g = ChargeSum(m) /\ b = DebtSum(m)
                                    /\ cr = CreditSum(m) /\ su = SuspenseSum(m)
      OBVIOUS
    <2>10. h \in Int /\ u \in Int /\ g \in Int /\ b \in Int /\ cr \in Int /\ su \in Int
      BY <2>3, <2>9
    <2>11. /\ a = cr - h - g + u /\ e = h - u /\ s = su
           /\ c + w = a + e + s + f /\ w >= 0 /\ f >= 0 /\ a + b >= 0
      BY <2>6, <2>9 DEF LedgerInv, Accounts
    <2>12. /\ a + x = (cr + x) - h - g + u /\ e = h - u /\ s + y = su + y
           /\ (c + (x + y)) + w = (a + x) + e + (s + y) + f /\ w >= 0 /\ f >= 0 /\ (a + x) + b >= 0
      BY <2>2, <2>7, <2>10, <2>11
    <2> QED BY <2>2, <2>4, <2>5, <2>8, <2>9, <2>12 DEF Accounts
  <1>4. Together(book', "treasury") = Together(book, "treasury") /\ Together(book, "treasury") \in Int
    <2>1. \A m \in Merchants : book'.balance[m]["treasury"] = book.balance[m]["treasury"]
      BY DEF ExplainedAt
    <2>2. \A m \in Merchants : book'.balance[m]["treasury"] = Plus(book.balance[m]["treasury"], m, System, 0)
      <3>1. \A m \in Merchants : book.balance[m]["treasury"] \in Int
        BY <1>1, BalancesInt, Codes
      <3> QED BY <2>1, <3>1 DEF Plus
    <2>3. System \in Merchants /\ "treasury" \in LEDGER_CODES
      BY Given, Codes DEF LedgerAssumption
    <2>4. 0 \in Int
      OBVIOUS
    <2>5. Together(book', "treasury") = Together(book, "treasury") + 0 /\ Together(book, "treasury") \in Int
      BY <1>1, <2>2, <2>3, <2>4, TogetherMoves
    <2> QED BY <2>5
  <1>5. Evidence'
    <2>1. PICK p, q : p = Part(IsReceived(r), Amount[r]) /\ q = Part(IsReceived(r)', Amount[r])
      OBVIOUS
    <2>2. p \in Int /\ q \in Int /\ d = q - p /\ d \in Int
      BY <1>1, <2>1, PartInt DEF CustodyExplained
    <2>3. ReceivedSum' = ReceivedSum - p + q /\ PaidSum' = PaidSum /\ ReceivedSum \in Int /\ PaidSum \in Int
      BY <1>1, <2>1, ReceiptSums, SumsInt
    <2>4. PICK x, y, v, w : x = Together(book, "custody") /\ y = Together(book, "treasury") /\ v = ReceivedSum /\ w = PaidSum
      OBVIOUS
    <2>5. x \in Int /\ y \in Int /\ v \in Int /\ w \in Int /\ x + y = v - w
      BY <1>4, <2>3, <2>4 DEF CustodyExplained, LedgerInv, Evidence
    <2>6. (x + d) + y = (v - p + q) - w
      BY <2>2, <2>5
    <2>7. Together(book', "custody") = x + d /\ Together(book', "treasury") = y /\ ReceivedSum' = v - p + q /\ PaidSum' = w
      BY <1>4, <2>3, <2>4 DEF CustodyExplained
    <2> QED BY <2>6, <2>7 DEF Evidence
  <1> QED BY <1>2, <1>3, <1>5 DEF LedgerInv

LEMMA CreditDepositKeeps ==
  ASSUME LedgerInv, NEW r \in Receipts, NEW m \in Merchants, CreditDeposit(r, m)
  PROVE  LedgerInv'
  <1>1. Shape /\ book \in BookType /\ ReceiptFollowed(r) /\ Amount[r] \in Nat /\ Amount[r] \in Int
    BY Numbers DEF LedgerInv, Shape, Followed
  <1>2. /\ receipt[r] = "none" /\ receipt' = [receipt EXCEPT ![r] = "credited"]
        /\ creditedTo' = [creditedTo EXCEPT ![r] = m]
        /\ UNCHANGED <<phase, charged, late, cases>>
        /\ book' = creditDeposit(book, m, r)
    BY DEF CreditDeposit, Commit
  <1>3. /\ <<"deposit", r>> \notin book.journals /\ <<"receipt_suspense", r>> \notin book.journals
        /\ <<"suspense_resolution", r>> \notin book.journals
    BY <1>1, <1>2 DEF ReceiptFollowed, Posting
  <1>4. /\ Added(book, book', "deposit", r)
        /\ Moved(book, book', m, Amount[r], 0, 0, Amount[r], 0, 0)
    BY <1>1, <1>2, <1>3, CreditMoves
  <1>5. /\ receipt'[r] = "credited" /\ creditedTo'[r] = m
        /\ \A q \in Receipts \ {r} : receipt'[q] = receipt[q] /\ creditedTo'[q] = creditedTo[q]
        /\ \A q, k : <<k, q>> \in book'.journals <=> (<<k, q>> \in book.journals \/ (k = "deposit" /\ q = r))
    BY <1>1, <1>2, <1>4, AddedAbout DEF Shape
  <1>6. Shape'
    BY <1>1, <1>2, <1>4 DEF Shape, Added
  <1>7. AboutReceipt(r)
    <2>1. \A t \in Transfers, s \in {"reservation", "settlement", "release", "late_rereservation"} :
            <<s, t>> \in book'.journals <=> <<s, t>> \in book.journals
      BY <1>5
    <2> QED BY <1>2, <1>5, <2>1 DEF AboutReceipt
  <1>8. ReceiptFollowed(r)'
    BY <1>5 DEF ReceiptFollowed
  <1>9. ASSUME NEW k \in Merchants
        PROVE  \E x, y : ExplainedAt(r, k, x, y)
    <2>1. \A c \in LEDGER_CODES : book.balance[k][c] \in Int
      BY <1>1, BalancesInt
    <2>2. /\ ~IsCredited(r, k) /\ ~IsSuspended(r, k) /\ ~IsSuspended(r, k)'
          /\ IsCredited(r, k)' <=> k = m
      BY <1>2, <1>5 DEF IsCredited, IsSuspended
    <2>3. PICK x : x = Part(k = m, Amount[r])
      OBVIOUS
    <2>4. x \in Nat /\ x + 0 = x
      BY <1>1, <2>3 DEF Part
    <2>5. x = Part(IsCredited(r, k)', Amount[r]) - Part(IsCredited(r, k), Amount[r])
      BY <1>1, <2>2, <2>3 DEF Part
    <2>6. 0 = Part(IsSuspended(r, k)', Amount[r]) - Part(IsSuspended(r, k), Amount[r])
      BY <2>2 DEF Part
    <2>7. /\ book'.balance[k]["available"] = book.balance[k]["available"] + x
          /\ book'.balance[k]["custody"] = book.balance[k]["custody"] + x
      BY <1>4, <2>3 DEF Moved, Part
    <2>8. /\ book'.balance[k]["suspense"] = book.balance[k]["suspense"] + 0
          /\ book'.balance[k]["reserved"] = book.balance[k]["reserved"] + 0
          /\ book'.balance[k]["treasury"] = book.balance[k]["treasury"] + 0
          /\ book'.balance[k]["platformFees"] = book.balance[k]["platformFees"] + 0
      BY <1>4 DEF Moved
    <2>9. \A c \in {"reserved", "treasury", "platformFees"} : book'.balance[k][c] = book.balance[k][c]
      BY <2>1, <2>8, Codes
    <2>10. ExplainedAt(r, k, x, 0)
      BY <2>4, <2>5, <2>6, <2>7, <2>8, <2>9 DEF ExplainedAt
    <2> QED BY <2>10
  <1>10. CustodyExplained(r, Amount[r])
    <2>1. \A k \in Merchants : book'.balance[k]["custody"] = Plus(book.balance[k]["custody"], k, m, Amount[r])
      BY <1>4 DEF Moved, Plus
    <2>2. "custody" \in LEDGER_CODES /\ book' \in BookType
      BY <1>4, Codes DEF Added
    <2>3. Together(book', "custody") = Together(book, "custody") + Amount[r] /\ Together(book, "custody") \in Int
      BY <1>1, <2>1, <2>2, TogetherMoves
    <2>4. Amount[r] = Part(IsReceived(r)', Amount[r]) - Part(IsReceived(r), Amount[r])
      BY <1>1, <1>2, <1>5 DEF IsReceived, Part
    <2> QED BY <1>1, <2>3, <2>4 DEF CustodyExplained
  <1> QED BY <1>6, <1>7, <1>8, <1>9, <1>10, ReceiptKeeps

LEMMA SuspendReceiptKeeps ==
  ASSUME LedgerInv, NEW r \in Receipts, NEW m \in Merchants, SuspendReceipt(r, m)
  PROVE  LedgerInv'
  <1>1. Shape /\ book \in BookType /\ ReceiptFollowed(r) /\ Amount[r] \in Nat /\ Amount[r] \in Int
    BY Numbers DEF LedgerInv, Shape, Followed
  <1>2. /\ receipt[r] = "none" /\ receipt' = [receipt EXCEPT ![r] = "suspense"]
        /\ creditedTo' = [creditedTo EXCEPT ![r] = m]
        /\ UNCHANGED <<phase, charged, late, cases>>
        /\ book' = moveReceiptToSuspense(book, m, r)
    BY DEF SuspendReceipt, Commit
  <1>3. /\ <<"deposit", r>> \notin book.journals /\ <<"receipt_suspense", r>> \notin book.journals
        /\ <<"suspense_resolution", r>> \notin book.journals
    BY <1>1, <1>2 DEF ReceiptFollowed, Posting
  <1>4. /\ Added(book, book', "receipt_suspense", r)
        /\ Moved(book, book', m, 0, 0, Amount[r], Amount[r], 0, 0)
    BY <1>1, <1>2, <1>3, SuspendMoves
  <1>5. /\ receipt'[r] = "suspense" /\ creditedTo'[r] = m
        /\ \A q \in Receipts \ {r} : receipt'[q] = receipt[q] /\ creditedTo'[q] = creditedTo[q]
        /\ \A q, k : <<k, q>> \in book'.journals <=> (<<k, q>> \in book.journals \/ (k = "receipt_suspense" /\ q = r))
    BY <1>1, <1>2, <1>4, AddedAbout DEF Shape
  <1>6. Shape'
    BY <1>1, <1>2, <1>4 DEF Shape, Added
  <1>7. AboutReceipt(r)
    <2>1. \A t \in Transfers, s \in {"reservation", "settlement", "release", "late_rereservation"} :
            <<s, t>> \in book'.journals <=> <<s, t>> \in book.journals
      BY <1>5
    <2> QED BY <1>2, <1>5, <2>1 DEF AboutReceipt
  <1>8. ReceiptFollowed(r)'
    BY <1>3, <1>5 DEF ReceiptFollowed, Posting
  <1>9. ASSUME NEW k \in Merchants
        PROVE  \E x, y : ExplainedAt(r, k, x, y)
    <2>1. \A c \in LEDGER_CODES : book.balance[k][c] \in Int
      BY <1>1, BalancesInt
    <2>2. /\ ~IsCredited(r, k) /\ ~IsCredited(r, k)' /\ ~IsSuspended(r, k)
          /\ IsSuspended(r, k)' <=> k = m
      BY <1>2, <1>5 DEF IsCredited, IsSuspended
    <2>3. PICK y : y = Part(k = m, Amount[r])
      OBVIOUS
    <2>4. y \in Int /\ 0 + y = y
      BY <1>1, <2>3 DEF Part
    <2>5. y = Part(IsSuspended(r, k)', Amount[r]) - Part(IsSuspended(r, k), Amount[r])
      BY <1>1, <2>2, <2>3 DEF Part
    <2>6. 0 = Part(IsCredited(r, k)', Amount[r]) - Part(IsCredited(r, k), Amount[r])
      BY <2>2 DEF Part
    <2>7. /\ book'.balance[k]["suspense"] = book.balance[k]["suspense"] + y
          /\ book'.balance[k]["custody"] = book.balance[k]["custody"] + y
      BY <1>4, <2>3 DEF Moved, Part
    <2>8. /\ book'.balance[k]["available"] = book.balance[k]["available"] + 0
          /\ book'.balance[k]["reserved"] = book.balance[k]["reserved"] + 0
          /\ book'.balance[k]["treasury"] = book.balance[k]["treasury"] + 0
          /\ book'.balance[k]["platformFees"] = book.balance[k]["platformFees"] + 0
      BY <1>4 DEF Moved
    <2>9. \A c \in {"reserved", "treasury", "platformFees"} : book'.balance[k][c] = book.balance[k][c]
      BY <2>1, <2>8, Codes
    <2>10. ExplainedAt(r, k, 0, y)
      BY <2>4, <2>5, <2>6, <2>7, <2>8, <2>9 DEF ExplainedAt
    <2> QED BY <2>10
  <1>10. CustodyExplained(r, Amount[r])
    <2>1. \A k \in Merchants : book'.balance[k]["custody"] = Plus(book.balance[k]["custody"], k, m, Amount[r])
      BY <1>4 DEF Moved, Plus
    <2>2. "custody" \in LEDGER_CODES /\ book' \in BookType
      BY <1>4, Codes DEF Added
    <2>3. Together(book', "custody") = Together(book, "custody") + Amount[r] /\ Together(book, "custody") \in Int
      BY <1>1, <2>1, <2>2, TogetherMoves
    <2>4. Amount[r] = Part(IsReceived(r)', Amount[r]) - Part(IsReceived(r), Amount[r])
      BY <1>1, <1>2, <1>5 DEF IsReceived, Part
    <2> QED BY <1>1, <2>3, <2>4 DEF CustodyExplained
  <1> QED BY <1>6, <1>7, <1>8, <1>9, <1>10, ReceiptKeeps

LEMMA ResolveDepositKeeps ==
  ASSUME LedgerInv, NEW r \in Receipts, NEW m \in Merchants, ResolveDeposit(r, m)
  PROVE  LedgerInv'
  <1>1. Shape /\ book \in BookType /\ ReceiptFollowed(r) /\ Amount[r] \in Nat /\ Amount[r] \in Int /\ 0 - Amount[r] \in Int
    <2>1. Amount[r] \in Nat
      BY Numbers
    <2> QED BY <2>1 DEF LedgerInv, Shape, Followed
  <1>2. PICK o : o = creditedTo[r]
    OBVIOUS
  <1>3. /\ receipt[r] = "suspense" /\ receipt' = [receipt EXCEPT ![r] = "credited"]
        /\ creditedTo' = [creditedTo EXCEPT ![r] = m]
        /\ UNCHANGED <<phase, charged, late, cases>>
        /\ book' = releaseSuspenseToMerchant(book, o, m, r)
    BY <1>2 DEF ResolveDeposit, Commit
  <1>4. o \in Merchants /\ <<"deposit", r>> \notin book.journals /\ <<"suspense_resolution", r>> \notin book.journals
    BY <1>1, <1>2, <1>3 DEF ReceiptFollowed, Posting
  <1>5. /\ Added(book, book', "suspense_resolution", r)
        /\ \A k \in Merchants :
             /\ book'.balance[k]["available"] = book.balance[k]["available"] + (IF k = m THEN Amount[r] ELSE 0)
             /\ book'.balance[k]["suspense"] = book.balance[k]["suspense"] - (IF k = o THEN Amount[r] ELSE 0)
             /\ book'.balance[k]["custody"] = book.balance[k]["custody"] + (IF k = m THEN Amount[r] ELSE 0)
                                                                        - (IF k = o THEN Amount[r] ELSE 0)
             /\ \A c \in {"reserved", "treasury", "platformFees"} : book'.balance[k][c] = book.balance[k][c]
    BY <1>1, <1>3, <1>4, ResolveMoves
  <1>6. /\ receipt'[r] = "credited" /\ creditedTo'[r] = m
        /\ \A q \in Receipts \ {r} : receipt'[q] = receipt[q] /\ creditedTo'[q] = creditedTo[q]
        /\ \A q, k : <<k, q>> \in book'.journals <=> (<<k, q>> \in book.journals \/ (k = "suspense_resolution" /\ q = r))
    BY <1>1, <1>3, <1>5, AddedAbout DEF Shape
  <1>7. Shape'
    BY <1>1, <1>3, <1>5 DEF Shape, Added
  <1>8. AboutReceipt(r)
    <2>1. \A t \in Transfers, s \in {"reservation", "settlement", "release", "late_rereservation"} :
            <<s, t>> \in book'.journals <=> <<s, t>> \in book.journals
      BY <1>6
    <2> QED BY <1>3, <1>6, <2>1 DEF AboutReceipt
  <1>9. ReceiptFollowed(r)'
    BY <1>6 DEF ReceiptFollowed
  <1>10. ASSUME NEW k \in Merchants
         PROVE  \E x, y : ExplainedAt(r, k, x, y)
    <2>1. \A c \in LEDGER_CODES : book.balance[k][c] \in Int
      BY <1>1, BalancesInt
    <2>2. /\ ~IsCredited(r, k) /\ (IsSuspended(r, k) <=> k = o) /\ ~IsSuspended(r, k)'
          /\ IsCredited(r, k)' <=> k = m
      BY <1>2, <1>3, <1>6 DEF IsCredited, IsSuspended
    <2>3. PICK x, z : x = Part(k = m, Amount[r]) /\ z = Part(k = o, Amount[r])
      OBVIOUS
    <2>4. x \in Nat /\ z \in Nat
      BY <1>1, <2>3 DEF Part
    <2>5. PICK y : y = 0 - z
      OBVIOUS
    <2>6. y \in Int
      BY <2>4, <2>5
    <2>7. x = Part(IsCredited(r, k)', Amount[r]) - Part(IsCredited(r, k), Amount[r])
      BY <1>1, <2>2, <2>3 DEF Part
    <2>8. y = Part(IsSuspended(r, k)', Amount[r]) - Part(IsSuspended(r, k), Amount[r])
      BY <1>1, <2>2, <2>3, <2>5 DEF Part
    <2>9. book'.balance[k]["available"] = book.balance[k]["available"] + x
      BY <1>5, <2>3 DEF Part
    <2>10. book'.balance[k]["suspense"] = book.balance[k]["suspense"] + y
      <3>1. book'.balance[k]["suspense"] = book.balance[k]["suspense"] - z
        BY <1>5, <2>3 DEF Part
      <3>2. PICK s : s = book.balance[k]["suspense"]
        OBVIOUS
      <3>3. s \in Int /\ s - z = s + y
        BY <2>1, <2>4, <2>5, <3>2, Codes
      <3> QED BY <3>1, <3>2, <3>3
    <2>11. book'.balance[k]["custody"] = book.balance[k]["custody"] + (x + y)
      <3>1. book'.balance[k]["custody"] = book.balance[k]["custody"] + x - z
        BY <1>5, <2>3 DEF Part
      <3>2. PICK s : s = book.balance[k]["custody"]
        OBVIOUS
      <3>3. s \in Int /\ s + x - z = s + (x + y)
        BY <2>1, <2>4, <2>5, <3>2, Codes
      <3> QED BY <3>1, <3>2, <3>3
    <2>12. \A c \in {"reserved", "treasury", "platformFees"} : book'.balance[k][c] = book.balance[k][c]
      BY <1>5
    <2>13. ExplainedAt(r, k, x, y)
      BY <2>4, <2>6, <2>7, <2>8, <2>9, <2>10, <2>11, <2>12 DEF ExplainedAt
    <2> QED BY <2>13
  <1>11. CustodyExplained(r, 0)
    <2> DEFINE mid == [balance |-> [k \in Merchants |-> [c \in LEDGER_CODES |->
                                     IF c = "custody" THEN Plus(book.balance[k][c], k, m, Amount[r]) ELSE 0]],
                       journals |-> {}, ok |-> TRUE]
    <2>1. "custody" \in LEDGER_CODES /\ book' \in BookType
      BY <1>5, Codes DEF Added
    <2>2. \A k \in Merchants : book.balance[k]["custody"] \in Int
      BY <1>1, <2>1, BalancesInt
    <2>3. \A k \in Merchants : mid.balance[k]["custody"] = Plus(book.balance[k]["custody"], k, m, Amount[r])
      BY <2>1
    <2>4. mid \in BookType
      <3>1. \A k \in Merchants : Plus(book.balance[k]["custody"], k, m, Amount[r]) \in Int
        BY <1>1, <2>2 DEF Plus
      <3>2. \A k \in Merchants, c \in LEDGER_CODES :
              (IF c = "custody" THEN Plus(book.balance[k][c], k, m, Amount[r]) ELSE 0) \in Int
        BY <3>1
      <3> QED BY <3>2 DEF BookType
    <2>5. \A k \in Merchants : book'.balance[k]["custody"] = Plus(mid.balance[k]["custody"], k, o, 0 - Amount[r])
      <3>1. SUFFICES ASSUME NEW k \in Merchants
                     PROVE  book'.balance[k]["custody"] = Plus(mid.balance[k]["custody"], k, o, 0 - Amount[r])
        OBVIOUS
      <3>2. PICK s : s = book.balance[k]["custody"]
        OBVIOUS
      <3>3. s \in Int /\ book'.balance[k]["custody"] = s + (IF k = m THEN Amount[r] ELSE 0) - (IF k = o THEN Amount[r] ELSE 0)
        BY <1>5, <2>2, <3>2
      <3>4. mid.balance[k]["custody"] = s + (IF k = m THEN Amount[r] ELSE 0)
        BY <2>3, <3>2 DEF Plus
      <3> HIDE DEF mid
      <3> QED BY <1>1, <3>3, <3>4 DEF Plus
    <2> HIDE DEF mid
    <2>6. Together(mid, "custody") = Together(book, "custody") + Amount[r] /\ Together(book, "custody") \in Int
      BY <1>1, <2>1, <2>3, <2>4, TogetherMoves
    <2>7. Together(book', "custody") = Together(mid, "custody") + (0 - Amount[r])
      BY <1>1, <1>4, <2>1, <2>4, <2>5, TogetherMoves
    <2>8. Together(book', "custody") = Together(book, "custody") + 0
      BY <1>1, <2>6, <2>7
    <2>9. 0 = Part(IsReceived(r)', Amount[r]) - Part(IsReceived(r), Amount[r])
      BY <1>1, <1>3, <1>6 DEF IsReceived, Part
    <2> QED BY <2>6, <2>8, <2>9 DEF CustodyExplained
  <1> QED BY <1>7, <1>8, <1>9, <1>10, <1>11, ReceiptKeeps

-----------------------------------------------------------------------------
(* The ledger *)

LEMMA LedgerInitially == Init => LedgerInv
  <1> SUFFICES ASSUME Init PROVE LedgerInv
    OBVIOUS
  <1>1. Shape
    <2>1. book \in BookType
      BY DEF Init, BookType
    <2>2. /\ phase \in [Transfers -> Phases] /\ charged \in [Transfers -> Nat] /\ late \subseteq Transfers
          /\ receipt \in [Receipts -> {"none", "credited", "suspense"}]
          /\ creditedTo \in [Receipts -> Merchants \cup {NoOne}]
          /\ cases \subseteq {"provider_fee_overrun", "late_success_after_manual_failure"} \X Transfers
      BY DEF Init, Phases
    <2> QED BY <2>1, <2>2 DEF Shape
  <1>2. Followed
    <2>1. \A s, x : ~Posting(s, x)
      BY DEF Init, Posting
    <2> QED BY <2>1 DEF Init, Followed, TransferFollowed, ReceiptFollowed
  <1>3. \A m \in Merchants, c \in LEDGER_CODES : book.balance[m][c] = 0
    BY DEF Init
  <1>4. ASSUME NEW m \in Merchants PROVE Accounts(m)
    <2>1. CreditSum(m) = 0 /\ SuspenseSum(m) = 0 /\ HeldSum(m) = 0 /\ UnbackedSum(m) = 0 /\ ChargeSum(m) = 0
      <3>1. Credited(m) = {} /\ SuspendedOf(m) = {} /\ Held \cap OfMerchant(m) = {} /\ Settled \cap OfMerchant(m) = {}
        BY DEF Init, Credited, SuspendedOf, Held, Settled
      <3>2. Unbacked(m) = {}
        BY DEF Init, Unbacked
      <3> QED BY <3>1, <3>2, SumEmpty DEF CreditSum, SuspenseSum, HeldSum, UnbackedSum, ChargeSum
    <2>2. DebtSum(m) \in Nat
      BY <1>1, <1>2, DebtNat
    <2> QED BY <1>3, <2>1, <2>2, Codes DEF Accounts
  <1>5. Evidence
    <2>1. ReceivedSum = 0 /\ PaidSum = 0
      <3>1. Received = {} /\ Settled = {}
        BY DEF Init, Received, Settled
      <3> QED BY <3>1, SumEmpty DEF ReceivedSum, PaidSum
    <2>2. ASSUME NEW code \in LEDGER_CODES PROVE Together(book, code) = 0
      <3> DEFINE g == [m \in Merchants |-> book.balance[m][code]]
      <3>1. (\A m \in Merchants : g[m] = 0) /\ DOMAIN g = Merchants
        BY <1>3
      <3>2. Together(book, code) = SumFunctionOnSet(g, Merchants)
        BY <3>1 DEF Together, SumFunction
      <3> HIDE DEF g
      <3> QED BY <3>1, <3>2, Finite, SumZero
    <2> QED BY <2>1, <2>2, Codes DEF Evidence
  <1> QED BY <1>1, <1>2, <1>4, <1>5 DEF LedgerInv

\* Every transaction keeps the invariant.
LEMMA LedgerStep == LedgerInv /\ [Next]_vars => LedgerInv'
  <1> SUFFICES ASSUME LedgerInv, [Next]_vars PROVE LedgerInv'
    OBVIOUS
  <1>1. ASSUME NEW r \in Receipts, NEW m \in Merchants, CreditDeposit(r, m) \/ SuspendReceipt(r, m) \/ ResolveDeposit(r, m)
        PROVE  LedgerInv'
    BY <1>1, CreditDepositKeeps, SuspendReceiptKeeps, ResolveDepositKeeps
  <1>2. ASSUME NEW t \in Transfers, QueueTransfer(t) \/ RetryDeviceJob(t)
        PROVE  LedgerInv'
    BY <1>2, QueueKeeps, RetryKeeps
  <1>3. ASSUME NEW t \in Transfers, TestTransfer(t)
        PROVE  LedgerInv'
    <2>1. phase[t] = "none" /\ Sufficient(book, t) /\ UNCHANGED <<late, receipt, creditedTo>>
      BY <1>3 DEF TestTransfer
    <2>2. CASE /\ Commit(settle(reserve(book, t), t, TestFee)) /\ phase' = [phase EXCEPT ![t] = "settled"]
               /\ charged' = [charged EXCEPT ![t] = TestFee] /\ cases' = cases \cup recordFeeOverrun(t, TestFee)
      BY <2>1, <2>2, TestSuccessKeeps
    <2>3. CASE /\ Commit(release(reserve(book, t), t)) /\ phase' = [phase EXCEPT ![t] = "failed"]
               /\ UNCHANGED <<charged, cases>>
      BY <2>1, <2>3, TestFailureKeeps
    <2> QED BY <1>3, <2>2, <2>3 DEF TestTransfer
  <1>4. ASSUME NEW t \in Transfers, NEW to \in {"failed", "disproved"}, FailTransfer(t, to)
        PROVE  LedgerInv'
    BY <1>4, FailTransferKeeps
  <1>5. ASSUME NEW t \in Transfers, NEW price \in ActualFees, SettleTransfer(t, price) \/ LateSuccess(t, price)
        PROVE  LedgerInv'
    BY <1>5, SettleTransferKeeps, LateSuccessKeeps
  <1>6. CASE UNCHANGED vars
    <2>1. /\ book' = book /\ phase' = phase /\ charged' = charged /\ late' = late
          /\ receipt' = receipt /\ creditedTo' = creditedTo /\ cases' = cases
      BY <1>6 DEF vars
    <2>2. PaidOut' = PaidOut /\ Debt' = Debt /\ Held' = Held /\ Settled' = Settled /\ Received' = Received
      BY <2>1 DEF PaidOut, Debt, Held, Settled, Received
    <2>3. Charge' = Charge
      BY <2>2 DEF Charge
    <2>4. ASSUME NEW m \in Merchants PROVE Accounts(m)'
      <3>1. Accounts(m)
        BY DEF LedgerInv
      <3>2. Credited(m)' = Credited(m) /\ SuspendedOf(m)' = SuspendedOf(m) /\ Unbacked(m)' = Unbacked(m)
        BY <2>1 DEF Credited, SuspendedOf, Unbacked, OfMerchant
      <3>3. /\ CreditSum(m)' = CreditSum(m) /\ SuspenseSum(m)' = SuspenseSum(m) /\ HeldSum(m)' = HeldSum(m)
            /\ UnbackedSum(m)' = UnbackedSum(m) /\ ChargeSum(m)' = ChargeSum(m) /\ DebtSum(m)' = DebtSum(m)
        BY <2>2, <2>3, <3>2 DEF CreditSum, SuspenseSum, HeldSum, UnbackedSum, ChargeSum, DebtSum, Totals, OfMerchant
      <3> QED BY <2>1, <3>1, <3>3 DEF Accounts
    <2>5. Evidence'
      BY <2>1, <2>2 DEF LedgerInv, Evidence, ReceivedSum, PaidSum
    <2>6. Shape'
      BY <2>1 DEF LedgerInv, Shape
    <2>7. Followed'
      BY <2>1 DEF LedgerInv, Followed, TransferFollowed, ReceiptFollowed, Posting
    <2> QED BY <2>4, <2>5, <2>6, <2>7 DEF LedgerInv
  <1> QED BY <1>1, <1>2, <1>3, <1>4, <1>5, <1>6 DEF Next

\* The invariant says what the properties say.
LEMMA LedgerInvExact == LedgerInv => LedgerExact
  <1> SUFFICES ASSUME LedgerInv PROVE LedgerExact
    OBVIOUS
  <1>1. Shape /\ (\A m \in Merchants : Accounts(m)) /\ Evidence
    BY DEF LedgerInv
  <1>2. TypeOK
    <2>1. \A m \in Merchants, c \in {"suspense", "treasury", "platformFees"} : book.balance[m][c] >= 0
      <3>1. SUFFICES ASSUME NEW m \in Merchants
                     PROVE  \A c \in {"suspense", "treasury", "platformFees"} : book.balance[m][c] >= 0
        OBVIOUS
      <3>2. SuspenseSum(m) \in Nat
        BY <1>1, SumsInt
      <3> QED BY <1>1, <3>2 DEF Accounts
    <2> QED BY <1>1, <2>1 DEF TypeOK, Shape, BookType
  <1>3. BooksBalance
    BY <1>1 DEF BooksBalance, Accounts
  <1>4. CustodyIsEvidence
    BY <1>1 DEF CustodyIsEvidence, Evidence, Together, ReceivedSum, Received, PaidSum
  <1>5. ReservedIsHeld
    BY <1>1 DEF ReservedIsHeld, Accounts, HeldSum, UnbackedSum
  <1>6. AvailableExact
    BY <1>1 DEF AvailableExact, Accounts, HeldSum, UnbackedSum, CreditSum, ChargeSum
  <1>7. DebtExplained
    BY <1>1 DEF DebtExplained, Accounts, DebtSum
  <1> QED BY <1>2, <1>3, <1>4, <1>5, <1>6, <1>7 DEF LedgerExact

LEMMA LedgerInvAccepts == LedgerInv => ProofAccepted
  <1> SUFFICES ASSUME LedgerInv, NEW t \in Transfers, NEW price \in ActualFees
               PROVE  /\ phase[t] = "held" => settle(book, t, price).ok
                      /\ phase[t] = "disproved" => settle(restoreForLateSuccess(book, t), t, price).ok
    BY DEF ProofAccepted
  <1>1. /\ Shape /\ book \in BookType /\ TransferFollowed(t) /\ price \in Nat /\ Total(t) \in Nat
    BY Numbers DEF LedgerInv, Shape, Followed
  <1>2. ASSUME NEW c \in BookType PROVE c.ok
    BY DEF BookType
  <1>3. CASE phase[t] = "held"
    <2>1. <<"settlement", t>> \notin book.journals
      BY <1>1, <1>3 DEF TransferFollowed, Posting
    <2>2. settle(book, t, price) \in BookType
      BY <1>1, <2>1, SettleMoves DEF Added
    <2> QED BY <1>2, <1>3, <2>2
  <1>4. CASE phase[t] = "disproved"
    <2>1. <<"settlement", t>> \notin book.journals
      BY <1>1, <1>4 DEF TransferFollowed, Posting
    <2>2. restoreForLateSuccess(book, t) = Hold(book, "late_rereservation", t, Total(t))
      BY DEF restoreForLateSuccess, restoreReleasedWithdrawalForLateSuccess, restoreReleasedInternalMoveFeeForLateSuccess, Total
    <2>3. PICK c : c = restoreForLateSuccess(book, t)
      OBVIOUS
    <2>4. c \in BookType /\ <<"settlement", t>> \notin c.journals
      <3>1. "late_rereservation" \in SourceTypes
        BY DEF SourceTypes
      <3>2. CASE <<"late_rereservation", t>> \in book.journals
        BY <1>1, <2>1, <2>2, <2>3, <3>1, <3>2, HoldMoves
      <3>3. CASE <<"late_rereservation", t>> \notin book.journals
        BY <1>1, <2>1, <2>2, <2>3, <3>1, <3>3, HoldMoves DEF Added
      <3> QED BY <3>2, <3>3
    <2>5. settle(c, t, price) \in BookType
      BY <1>1, <2>4, SettleMoves DEF Added
    <2> QED BY <1>2, <1>4, <2>3, <2>5
  <1> QED BY <1>3, <1>4

\* The two properties of the ledger that Money checks, for any merchants,
\* transfers, receipts and fees.
LEMMA LedgerAlways == MoneySpec => []LedgerInv
  <1>1. MoneyInit => LedgerInv
    BY LedgerInitially DEF MoneyInit
  <1>2. LedgerInv /\ [MoneyNext]_moneyVars => LedgerInv'
    <2>1. [MoneyNext]_moneyVars => [Next]_vars
      BY DEF MoneyNext, moneyVars, vars
    <2> QED BY <2>1, LedgerStep
  <1> QED BY <1>1, <1>2, PTL DEF MoneySpec

\* Each merchant's books balance, custody is the receipts less what the provider
\* took, and the reserved and available accounts and the debt are what transfers,
\* receipts and cases say: for any number of them, with any amounts and fees, in
\* any order of journals (ledger.service.ts).
THEOREM AccountsAlwaysExact == MoneySpec => []AccountsExact
  <1>1. LedgerInv => AccountsExact
    BY LedgerInvExact DEF AccountsExact
  <1> QED BY <1>1, LedgerAlways, PTL

\* Whatever fee the provider charged, no proof of payment is refused by the ledger
\* (settleWithdrawal, settleInternalMoveFee).
THEOREM ProofsAlwaysAccepted == MoneySpec => []ProofNeverRefused
  <1>1. LedgerInv => ProofNeverRefused
    BY LedgerInvAccepts DEF ProofNeverRefused
  <1> QED BY <1>1, LedgerAlways, PTL


-----------------------------------------------------------------------------
(* The wallet *)

MaxTimeOf(e) == IF e THEN ExceptionalTime ELSE RoutineTime
MaxRetriesOf(e) == IF e THEN MaxRetries ELSE 0
OpsOf(e) == Payouts \cup (IF e THEN {} ELSE Sweeps)
ShowsOf(e) == IF e THEN BOOLEAN ELSE {TRUE}

\* The operators of the libraries, as the instance knows them.
LEMMA SameFinite == ASSUME NEW e \in BOOLEAN, NEW S PROVE Wallet(e)!IsFiniteSet(S) <=> IsFiniteSet(S)
  BY DEF Wallet!IsFiniteSet, IsFiniteSet

LEMMA SameSum == ASSUME NEW e \in BOOLEAN, NEW f, NEW S PROVE Wallet(e)!SumFunctionOnSet(f, S) = SumFunctionOnSet(f, S)
  BY DEF Wallet!SumFunctionOnSet, SumFunctionOnSet, Wallet!FoldFunctionOnSet, FoldFunctionOnSet, Wallet!MapThenFoldSet, MapThenFoldSet

LEMMA WalletNumbers ==
  ASSUME NEW e \in BOOLEAN
  PROVE  /\ IsFiniteSet(OpsOf(e)) /\ MaxTimeOf(e) \in Nat /\ MaxRetriesOf(e) \in Nat /\ MaxDay \in Nat
         /\ SimFee \in Nat /\ SimFees \subseteq Nat /\ Deposit \in Nat /\ StartBalance \in Nat
         /\ Safety \in Nat /\ DailyLimit \in Nat /\ Target \in Nat /\ HighWater \in Nat /\ MaxPerRun \in Nat
         /\ PayoutAmount \in [Payouts -> Nat]
  <1>1. Wallet(e)!WalletsAssumption
    BY MoneyAssumption DEF MoneyAssumption
  <1>2. CASE e = TRUE
    <2>1. IsFiniteSet(Payouts)
      BY <1>1, <1>2, SameFinite DEF Wallet!WalletsAssumption
    <2>2. OpsOf(e) = Payouts
      BY <1>2 DEF OpsOf
    <2> QED BY <1>1, <1>2, <2>1, <2>2 DEF Wallet!WalletsAssumption, MaxTimeOf, MaxRetriesOf
  <1>3. CASE e = FALSE
    <2>1. IsFiniteSet(Payouts)
      BY <1>1, <1>3, SameFinite DEF Wallet!WalletsAssumption
    <2>2. IsFiniteSet(Sweeps)
      BY <1>1, <1>3, SameFinite DEF Wallet!WalletsAssumption
    <2>3. OpsOf(e) = Payouts \cup Sweeps
      BY <1>3 DEF OpsOf
    <2>4. IsFiniteSet(OpsOf(e))
      BY <2>1, <2>2, <2>3, FS_Union
    <2> QED BY <1>1, <1>3, <2>4 DEF Wallet!WalletsAssumption, MaxTimeOf, MaxRetriesOf
  <1> QED BY <1>2, <1>3

\* The types, with the set of transfers and the bounds by their short names.
MsgOf(e) == [kind : {"out", "in", "balance"}, of : OpsOf(e) \cup {"none"}, at : 0..MaxTimeOf(e), shows : BOOLEAN]

WalletTyped(e) ==
  /\ realAt \in [0..MaxTimeOf(e) -> Nat] /\ clock \in 0..MaxTimeOf(e) /\ today \in 0..MaxDay
  /\ mainBalance \in Int /\ lastBalanceAt \in 0..MaxTimeOf(e) /\ sentToday \in Nat
  /\ financialDay \in 0..MaxDay /\ active \in BOOLEAN
  /\ state \in [OpsOf(e) -> {"none", "queued", "unknown", "success", "failed"}]
  /\ amount \in [OpsOf(e) -> Nat] /\ fee \in [OpsOf(e) -> Nat] /\ paidOn \in [OpsOf(e) -> -1..MaxDay]
  /\ applied \subseteq OpsOf(e) /\ retries \in [OpsOf(e) -> 0..MaxRetriesOf(e)]
  /\ sms \subseteq MsgOf(e)
  /\ \A m \in sms : m.kind = "out" => m.of \in OpsOf(e)

LEMMA WalletTypes == ASSUME NEW e \in BOOLEAN, WalletTyped(e), reserved \in Nat PROVE Wallet(e)!TypeOK
  BY DEF WalletTyped, Wallet!TypeOK, Wallet!Outgoing, Wallet!States, Wallet!Messages, MsgOf, OpsOf, MaxTimeOf, MaxRetriesOf

\* What the provider's movements do: one more instant, one more message.
LEMMA TickTyped ==
  ASSUME NEW e \in BOOLEAN, WalletTyped(e), NEW delta \in Int, Wallet(e)!Tick(delta), realAt[clock] + delta >= 0
  PROVE  /\ realAt' \in [0..MaxTimeOf(e) -> Nat] /\ clock' \in 0..MaxTimeOf(e) /\ clock' = clock + 1
         /\ realAt'[clock'] = realAt[clock] + delta
         /\ \A i \in 0..clock : realAt'[i] = realAt[i]
  <1>1. /\ clock < MaxTimeOf(e) /\ clock' = clock + 1
        /\ realAt' = [realAt EXCEPT ![clock + 1] = realAt[clock] + delta]
    BY DEF Wallet!Tick, Wallet!real, MaxTimeOf
  <1>2. realAt \in [0..MaxTimeOf(e) -> Nat] /\ clock \in 0..MaxTimeOf(e) /\ MaxTimeOf(e) \in Nat
    BY WalletNumbers DEF WalletTyped
  <1>3. clock + 1 \in 0..MaxTimeOf(e) /\ realAt[clock] + delta \in Nat
    BY <1>1, <1>2
  <1> QED BY <1>1, <1>2, <1>3

IsOpen(st) == st \in {"queued", "unknown"}
HeldOps(e) == {t \in OpsOf(e) : IsOpen(state[t])}
Needed(e) == [t \in OpsOf(e) |-> amount[t] + SimFee]
HeldPhys(e) == SumFunctionOnSet(Needed(e), HeldOps(e))

WalletInv(e) == WalletTyped(e) /\ reserved = HeldPhys(e)

LEMMA ReservedMeans == ASSUME NEW e \in BOOLEAN PROVE Wallet(e)!ReservedExact <=> reserved = HeldPhys(e)
  <1>1. {t \in Wallet(e)!Outgoing : state[t] \in Wallet(e)!Held} = HeldOps(e)
    BY DEF Wallet!Outgoing, Wallet!Held, HeldOps, OpsOf, IsOpen
  <1>2. Wallet(e)!Physicals = Needed(e)
    BY DEF Wallet!Physicals, Wallet!Physical, Wallet!Outgoing, OpsOf, Needed
  <1> QED BY <1>1, <1>2, SameSum DEF Wallet!ReservedExact, HeldPhys

LEMMA NeededNat ==
  ASSUME NEW e \in BOOLEAN, amount \in [OpsOf(e) -> Nat]
  PROVE  /\ \A t \in OpsOf(e) : Needed(e)[t] \in Nat /\ Needed(e)[t] = amount[t] + SimFee
         /\ \A S \in SUBSET OpsOf(e) : IsFiniteSet(S)
         /\ HeldPhys(e) \in Nat
  <1>1. \A t \in OpsOf(e) : Needed(e)[t] \in Nat /\ Needed(e)[t] = amount[t] + SimFee
    BY WalletNumbers DEF Needed
  <1>2. \A S \in SUBSET OpsOf(e) : IsFiniteSet(S)
    BY WalletNumbers, FS_Subset
  <1>3. HeldOps(e) \in SUBSET OpsOf(e)
    BY DEF HeldOps
  <1>4. IsFiniteSet(HeldOps(e)) /\ \A t \in HeldOps(e) : Needed(e)[t] \in Nat
    BY <1>1, <1>2, <1>3
  <1> QED BY <1>1, <1>2, <1>4, SumNat DEF HeldPhys

\* A step about one transfer.
LEMMA HeldMoves ==
  ASSUME NEW e \in BOOLEAN, amount \in [OpsOf(e) -> Nat], amount' \in [OpsOf(e) -> Nat], NEW t \in OpsOf(e),
         \A u \in OpsOf(e) \ {t} : state'[u] = state[u] /\ amount'[u] = amount[u]
  PROVE  HeldPhys(e)' = HeldPhys(e) - Part(IsOpen(state[t]), amount[t] + SimFee) + Part(IsOpen(state'[t]), amount'[t] + SimFee)
  <1>1. PICK S, R, g, h : S = HeldOps(e) /\ R = HeldOps(e)' /\ g = Needed(e) /\ h = Needed(e)'
    OBVIOUS
  <1>2. S \in SUBSET OpsOf(e) /\ R \in SUBSET OpsOf(e)
    BY <1>1 DEF HeldOps
  <1>3. IsFiniteSet(S) /\ IsFiniteSet(R) /\ \A x \in OpsOf(e) : g[x] \in Int
    BY <1>1, <1>2, NeededNat
  <1>4. \A x \in OpsOf(e) : h[x] \in Int /\ h[x] = amount'[x] + SimFee
    BY <1>1, WalletNumbers DEF Needed
  <1>5. S \ {t} = R \ {t} /\ (t \in S <=> IsOpen(state[t])) /\ (t \in R <=> IsOpen(state'[t]))
    BY <1>1 DEF HeldOps
  <1>6. \A x \in S \ {t} : g[x] = h[x]
    BY <1>1, <1>2 DEF Needed
  <1>7. (\A x \in S : g[x] \in Int) /\ (\A x \in R : h[x] \in Int)
    BY <1>2, <1>3, <1>4
  <1>8. SumFunctionOnSet(h, R) = SumFunctionOnSet(g, S) - (IF t \in S THEN g[t] ELSE 0) + (IF t \in R THEN h[t] ELSE 0)
    BY <1>3, <1>5, <1>6, <1>7, SumMove
  <1>9. g[t] = amount[t] + SimFee /\ h[t] = amount'[t] + SimFee
    BY <1>1, <1>4, NeededNat
  <1> QED BY <1>1, <1>5, <1>8, <1>9 DEF HeldPhys, Part

LEMMA HeldSame == ASSUME NEW e, UNCHANGED <<state, amount>> PROVE HeldPhys(e)' = HeldPhys(e)
  BY DEF HeldPhys, HeldOps, Needed

-----------------------------------------------------------------------------
(* The provider *)

LEMMA PayKeeps ==
  ASSUME NEW e \in BOOLEAN, WalletInv(e), NEW t \in OpsOf(e), Wallet(e)!Pay(t)
  PROVE  WalletInv(e)'
  <1> USE DEF WalletInv
  <1>1. PICK f \in SimFees, shows \in ShowsOf(e) :
          /\ realAt[clock] >= amount[t] + f
          /\ Wallet(e)!Tick(0 - amount[t] - f)
          /\ sms' = sms \cup {[kind |-> "out", of |-> t, at |-> clock + 1, shows |-> shows]}
          /\ fee' = [fee EXCEPT ![t] = f]
          /\ paidOn' = [paidOn EXCEPT ![t] = today]
          /\ UNCHANGED <<today, mainBalance, lastBalanceAt, reserved, sentToday, financialDay, active, state, amount, applied, retries>>
    BY DEF Wallet!Pay, Wallet!Moves, Wallet!wallet, Wallet!real, ShowsOf
  <1>2. f \in Nat /\ amount[t] \in Nat /\ realAt[clock] \in Nat /\ MaxDay \in Nat
    BY WalletNumbers DEF WalletTyped
  <1>3. (0 - amount[t] - f) \in Int /\ realAt[clock] + (0 - amount[t] - f) >= 0
    BY <1>1, <1>2
  <1>4. realAt' \in [0..MaxTimeOf(e) -> Nat] /\ clock' \in 0..MaxTimeOf(e) /\ clock' = clock + 1
    BY <1>1, <1>3, TickTyped
  <1>5. sms' \subseteq MsgOf(e) /\ \A m \in sms' : m.kind = "out" => m.of \in OpsOf(e)
    <2>1. [kind |-> "out", of |-> t, at |-> clock + 1, shows |-> shows] \in MsgOf(e)
      BY <1>4 DEF MsgOf, ShowsOf
    <2> QED BY <1>1, <2>1 DEF WalletTyped
  <1>6. WalletTyped(e)'
    BY <1>1, <1>2, <1>4, <1>5 DEF WalletTyped
  <1> QED BY <1>1, <1>6, HeldSame

LEMMA MovementKeeps ==
  ASSUME NEW e \in BOOLEAN, WalletInv(e), NEW d \in Nat, NEW kind \in {"in", "balance"}, Wallet(e)!Moves(d, kind, "none"),
         UNCHANGED <<today, mainBalance, lastBalanceAt, reserved, sentToday, financialDay, active, state, amount, fee, paidOn, applied, retries>>
  PROVE  WalletInv(e)'
  <1> USE DEF WalletInv
  <1>1. PICK shows \in BOOLEAN :
          /\ Wallet(e)!Tick(d)
          /\ sms' = sms \cup {[kind |-> kind, of |-> "none", at |-> clock + 1, shows |-> shows]}
    BY DEF Wallet!Moves
  <1>2. realAt[clock] \in Nat
    BY DEF WalletTyped
  <1>3. d \in Int /\ realAt[clock] + d >= 0
    BY <1>2
  <1>4. realAt' \in [0..MaxTimeOf(e) -> Nat] /\ clock' \in 0..MaxTimeOf(e) /\ clock' = clock + 1
    BY <1>1, <1>3, TickTyped
  <1>5. sms' \subseteq MsgOf(e) /\ \A m \in sms' : m.kind = "out" => m.of \in OpsOf(e)
    <2>1. [kind |-> kind, of |-> "none", at |-> clock + 1, shows |-> shows] \in MsgOf(e)
      BY <1>4 DEF MsgOf
    <2> QED BY <1>1, <2>1 DEF WalletTyped
  <1>6. WalletTyped(e)'
    BY <1>4, <1>5 DEF WalletTyped
  <1> QED BY <1>6, HeldSame

LEMMA NewDayKeeps == ASSUME NEW e \in BOOLEAN, WalletInv(e), Wallet(e)!NewDay PROVE WalletInv(e)'
  <1> USE DEF WalletInv
  <1>1. today < MaxDay /\ today' = today + 1
        /\ UNCHANGED <<realAt, clock, mainBalance, lastBalanceAt, reserved, sentToday, financialDay, active, state, amount, fee, paidOn, applied, retries, sms>>
    BY DEF Wallet!NewDay, Wallet!wallet, Wallet!provider, Wallet!transfer
  <1>2. today' \in 0..MaxDay
    <2>1. today \in 0..MaxDay /\ MaxDay \in Nat
      BY WalletNumbers DEF WalletTyped
    <2> QED BY <1>1, <2>1
  <1>3. WalletTyped(e)'
    BY <1>1, <1>2 DEF WalletTyped
  <1> QED BY <1>1, <1>3, HeldSame

-----------------------------------------------------------------------------
(* The database *)

\* The transfer t goes to st, with the amount n and after k retries, and its
\* reservation is made or returned.
Opens(e, t, st, n, k) ==
  /\ st \in {"none", "queued", "unknown", "success", "failed"} /\ n \in Nat /\ k \in 0..MaxRetriesOf(e)
  /\ state' = [state EXCEPT ![t] = st] /\ amount' = [amount EXCEPT ![t] = n] /\ retries' = [retries EXCEPT ![t] = k]
  /\ reserved' = reserved - Part(IsOpen(state[t]), amount[t] + SimFee) + Part(IsOpen(st), n + SimFee)
  /\ UNCHANGED <<realAt, clock, today, mainBalance, lastBalanceAt, sentToday, financialDay, active, fee, paidOn, applied, sms>>

LEMMA OpenKeeps ==
  ASSUME NEW e \in BOOLEAN, WalletInv(e), NEW t \in OpsOf(e), NEW st, NEW n, NEW k, Opens(e, t, st, n, k)
  PROVE  WalletInv(e)'
  <1> USE DEF Opens
  <1> USE DEF WalletInv
  <1>1. WalletTyped(e)'
    BY DEF WalletTyped
  <1>2. /\ amount \in [OpsOf(e) -> Nat] /\ amount' \in [OpsOf(e) -> Nat]
        /\ state'[t] = st /\ amount'[t] = n
        /\ \A u \in OpsOf(e) \ {t} : state'[u] = state[u] /\ amount'[u] = amount[u]
    BY DEF WalletTyped
  <1>3. HeldPhys(e)' = HeldPhys(e) - Part(IsOpen(state[t]), amount[t] + SimFee) + Part(IsOpen(state'[t]), amount'[t] + SimFee)
    BY <1>2, HeldMoves
  <1> QED BY <1>1, <1>2, <1>3

LEMMA TransferTyped ==
  ASSUME NEW e \in BOOLEAN, WalletInv(e), NEW t \in OpsOf(e)
  PROVE  /\ state[t] \in {"none", "queued", "unknown", "success", "failed"} /\ amount[t] \in Nat /\ fee[t] \in Nat
         /\ retries[t] \in 0..MaxRetriesOf(e) /\ amount[t] + SimFee \in Nat
         /\ amount = [amount EXCEPT ![t] = amount[t]] /\ retries = [retries EXCEPT ![t] = retries[t]]
         /\ reserved \in Nat
  <1>1. SimFee \in Nat
    BY WalletNumbers
  <1>2. reserved \in Nat
    BY NeededNat DEF WalletInv, WalletTyped
  <1>3. amount = [amount EXCEPT ![t] = amount[t]] /\ retries = [retries EXCEPT ![t] = retries[t]]
    BY DEF WalletInv, WalletTyped
  <1> QED BY <1>1, <1>2, <1>3 DEF WalletInv, WalletTyped

LEMMA QueueTransferKeeps ==
  ASSUME NEW e \in BOOLEAN, WalletInv(e), NEW t \in OpsOf(e), Wallet(e)!QueueTransfer(t)
  PROVE  WalletInv(e)'
  <1>1. /\ state[t] = "none" /\ state' = [state EXCEPT ![t] = "queued"] /\ reserved' = reserved + (amount[t] + SimFee)
        /\ UNCHANGED <<realAt, clock, today, mainBalance, lastBalanceAt, sentToday, financialDay, active, amount, fee, paidOn, applied, retries, sms>>
    BY DEF Wallet!QueueTransfer, Wallet!Reserve, Wallet!SetState, Wallet!Physical, Wallet!provider
  <1>2. Part(IsOpen(state[t]), amount[t] + SimFee) = 0 /\ Part(IsOpen("queued"), amount[t] + SimFee) = amount[t] + SimFee
    BY <1>1 DEF Part, IsOpen
  <1>3. reserved' = reserved - Part(IsOpen(state[t]), amount[t] + SimFee) + Part(IsOpen("queued"), amount[t] + SimFee)
    BY <1>1, <1>2, TransferTyped
  <1>4. Opens(e, t, "queued", amount[t], retries[t])
    BY <1>1, <1>3, TransferTyped DEF Opens
  <1> QED BY <1>4, OpenKeeps

LEMMA RetryTransferKeeps ==
  ASSUME NEW e \in BOOLEAN, WalletInv(e), NEW t \in OpsOf(e), Wallet(e)!RetryDeviceJob(t)
  PROVE  WalletInv(e)'
  <1>1. /\ state[t] = "failed" /\ state' = [state EXCEPT ![t] = "queued"] /\ reserved' = reserved + (amount[t] + SimFee)
        /\ retries[t] < MaxRetriesOf(e) /\ retries' = [retries EXCEPT ![t] = @ + 1]
        /\ UNCHANGED <<realAt, clock, today, mainBalance, lastBalanceAt, sentToday, financialDay, active, amount, fee, paidOn, applied, sms>>
    BY DEF Wallet!RetryDeviceJob, Wallet!Reserve, Wallet!SetState, Wallet!Physical, Wallet!provider, MaxRetriesOf
  <1>2. Part(IsOpen(state[t]), amount[t] + SimFee) = 0 /\ Part(IsOpen("queued"), amount[t] + SimFee) = amount[t] + SimFee
    BY <1>1 DEF Part, IsOpen
  <1>3. reserved' = reserved - Part(IsOpen(state[t]), amount[t] + SimFee) + Part(IsOpen("queued"), amount[t] + SimFee)
    BY <1>1, <1>2, TransferTyped
  <1>4. PICK k : k = retries[t] + 1
    OBVIOUS
  <1>5. k \in 0..MaxRetriesOf(e)
    BY <1>1, <1>4, TransferTyped, WalletNumbers
  <1>6. retries' = [retries EXCEPT ![t] = k]
    BY <1>1, <1>4
  <1>7. Opens(e, t, "queued", amount[t], k)
    BY <1>1, <1>3, <1>5, <1>6, TransferTyped DEF Opens
  <1> QED BY <1>7, OpenKeeps

LEMMA ReleaseKeeps ==
  ASSUME NEW e \in BOOLEAN, WalletInv(e), NEW t \in OpsOf(e), IsOpen(state[t]), Wallet(e)!Release(t)
  PROVE  WalletInv(e)'
  <1>1. /\ state' = [state EXCEPT ![t] = "failed"] /\ reserved' = reserved - (amount[t] + SimFee)
        /\ UNCHANGED <<realAt, clock, today, mainBalance, lastBalanceAt, sentToday, financialDay, active, amount, fee, paidOn, applied, retries, sms>>
    BY DEF Wallet!Release, Wallet!SetState, Wallet!Physical, Wallet!provider
  <1>2. Part(IsOpen(state[t]), amount[t] + SimFee) = amount[t] + SimFee /\ Part(IsOpen("failed"), amount[t] + SimFee) = 0
    BY DEF Part, IsOpen
  <1>3. reserved' = reserved - Part(IsOpen(state[t]), amount[t] + SimFee) + Part(IsOpen("failed"), amount[t] + SimFee)
    <2>1. PICK n : n = amount[t] + SimFee
      OBVIOUS
    <2>2. n \in Nat /\ reserved \in Nat
      BY <2>1, TransferTyped
    <2>3. reserved - n = reserved - n + 0
      BY <2>2
    <2> QED BY <1>1, <1>2, <2>1, <2>3
  <1>4. Opens(e, t, "failed", amount[t], retries[t])
    BY <1>1, <1>3, TransferTyped DEF Opens
  <1> QED BY <1>4, OpenKeeps

LEMMA ExpireKeeps ==
  ASSUME NEW e \in BOOLEAN, WalletInv(e), NEW t \in OpsOf(e), Wallet(e)!Expire(t)
  PROVE  WalletInv(e)'
  <1>1. /\ state[t] = "queued" /\ state' = [state EXCEPT ![t] = "unknown"]
        /\ UNCHANGED <<realAt, clock, today, mainBalance, lastBalanceAt, reserved, sentToday, financialDay, active, amount, fee, paidOn, applied, retries, sms>>
    BY DEF Wallet!Expire, Wallet!SetState, Wallet!provider, Wallet!wallet
  <1>2. Part(IsOpen(state[t]), amount[t] + SimFee) = amount[t] + SimFee /\ Part(IsOpen("unknown"), amount[t] + SimFee) = amount[t] + SimFee
    BY <1>1 DEF Part, IsOpen
  <1>3. reserved' = reserved - Part(IsOpen(state[t]), amount[t] + SimFee) + Part(IsOpen("unknown"), amount[t] + SimFee)
    <2>1. PICK n : n = amount[t] + SimFee
      OBVIOUS
    <2>2. n \in Nat /\ reserved \in Nat
      BY <2>1, TransferTyped
    <2>3. reserved = reserved - n + n
      BY <2>2
    <2> QED BY <1>1, <1>2, <2>1, <2>3
  <1>4. Opens(e, t, "unknown", amount[t], retries[t])
    BY <1>1, <1>3, TransferTyped DEF Opens
  <1> QED BY <1>4, OpenKeeps

\* What calculateSweepAmount leaves in the wallet, and within the day's limit.
LEMMA MinOf ==
  ASSUME NEW a \in Int, NEW b \in Int
  PROVE  /\ Wallet(FALSE)!Min({a, b}) \in Int /\ Wallet(FALSE)!Min({a, b}) <= a /\ Wallet(FALSE)!Min({a, b}) <= b
         /\ Wallet(TRUE)!Min({a, b}) \in Int /\ Wallet(TRUE)!Min({a, b}) <= a /\ Wallet(TRUE)!Min({a, b}) <= b
  <1>1. PICK z \in {a, b} : \A y \in {a, b} : z =< y
    <2>1. CASE a <= b
      BY <2>1
    <2>2. CASE b <= a
      BY <2>2
    <2> QED BY <2>1, <2>2
  <1>2. PICK n : n = CHOOSE x \in {a, b} : \A y \in {a, b} : x =< y
    OBVIOUS
  <1>3. n \in {a, b} /\ \A y \in {a, b} : n =< y
    BY <1>1, <1>2
  <1>4. n \in Int /\ n <= a /\ n <= b
    BY <1>3
  <1>5. Wallet(FALSE)!Min({a, b}) = n /\ Wallet(TRUE)!Min({a, b}) = n
    BY <1>2 DEF Wallet!Min
  <1> QED BY <1>4, <1>5

LEMMA MinIs ==
  ASSUME NEW e \in BOOLEAN, NEW a \in Int, NEW b \in Int
  PROVE  Wallet(e)!Min({a, b}) \in Int /\ Wallet(e)!Min({a, b}) <= a /\ Wallet(e)!Min({a, b}) <= b
  <1>1. CASE e = TRUE
    BY <1>1, MinOf
  <1>2. CASE e = FALSE
    BY <1>2, MinOf
  <1> QED BY <1>1, <1>2

SentNowOf == IF financialDay = today THEN sentToday ELSE 0

LEMMA SweepLeaves ==
  ASSUME NEW e \in BOOLEAN, WalletInv(e), Wallet(e)!SweepAmount > 0
  PROVE  /\ Wallet(e)!SweepAmount \in Nat
         /\ Wallet(e)!SweepAmount <= mainBalance - (reserved + SimFee) - Safety - Target
         /\ Wallet(e)!SweepAmount <= DailyLimit - SentNowOf - reserved - SimFee
  <1>1. /\ mainBalance \in Int /\ reserved \in Nat /\ SimFee \in Nat /\ Safety \in Nat /\ Target \in Nat /\ MaxPerRun \in Nat
        /\ DailyLimit \in Nat /\ SentNowOf \in Nat
    BY WalletNumbers, NeededNat DEF WalletInv, WalletTyped, SentNowOf
  <1>2. PICK n, d : n = Wallet(e)!SweepAmount /\ d = Wallet(e)!RemainingDaily
    OBVIOUS
  <1>3. d = DailyLimit - SentNowOf - reserved - SimFee
    BY <1>2, ReservedMeans, SameSum DEF Wallet!RemainingDaily, Wallet!SentNow, SentNowOf, Wallet!ReservedExact, WalletInv
  <1>4. d \in Int
    BY <1>1, <1>3
  <1>5. PICK p : p = Wallet(e)!Min({d, MaxPerRun})
    OBVIOUS
  <1>6. p \in Int /\ p <= d
    BY <1>1, <1>4, <1>5, MinIs
  <1>7. PICK x : x = mainBalance - (reserved + SimFee) - Safety - Target
    OBVIOUS
  <1>8. x \in Int
    BY <1>1, <1>7
  <1>9. n = 0 \/ n = Wallet(e)!Min({x, p})
    BY <1>2, <1>5, <1>7 DEF Wallet!SweepAmount, Wallet!calculateSweepAmount
  <1>10. Wallet(e)!Min({x, p}) \in Int /\ Wallet(e)!Min({x, p}) <= x /\ Wallet(e)!Min({x, p}) <= p
    BY <1>6, <1>8, MinIs
  <1>11. n > 0 /\ n \in Int /\ n <= x /\ n <= p
    BY <1>2, <1>9, <1>10
  <1>12. n \in Nat /\ n <= x /\ n <= d
    BY <1>4, <1>6, <1>11
  <1> QED BY <1>2, <1>3, <1>7, <1>12

LEMMA ExecuteSweepKeeps ==
  ASSUME NEW e \in BOOLEAN, WalletInv(e), NEW t \in OpsOf(e), Wallet(e)!ExecuteSweep(t)
  PROVE  WalletInv(e)'
  <1>1. PICK n : n = Wallet(e)!SweepAmount
    OBVIOUS
  <1>2. /\ n > 0 /\ state[t] = "none" /\ state' = [state EXCEPT ![t] = "queued"] /\ amount' = [amount EXCEPT ![t] = n]
        /\ reserved' = reserved + (n + SimFee)
        /\ UNCHANGED <<realAt, clock, today, mainBalance, lastBalanceAt, sentToday, financialDay, active, fee, paidOn, applied, retries, sms>>
    BY <1>1 DEF Wallet!ExecuteSweep, Wallet!Reserve, Wallet!SetState, Wallet!provider
  <1>3. n \in Nat
    BY <1>1, <1>2, SweepLeaves
  <1>4. Part(IsOpen(state[t]), amount[t] + SimFee) = 0 /\ Part(IsOpen("queued"), n + SimFee) = n + SimFee
    BY <1>2 DEF Part, IsOpen
  <1>5. reserved' = reserved - Part(IsOpen(state[t]), amount[t] + SimFee) + Part(IsOpen("queued"), n + SimFee)
    BY <1>2, <1>4, TransferTyped
  <1>6. Opens(e, t, "queued", n, retries[t])
    BY <1>2, <1>3, <1>5, TransferTyped DEF Opens
  <1> QED BY <1>6, OpenKeeps

LEMMA CountTyped ==
  ASSUME NEW e \in BOOLEAN, WalletInv(e), NEW o \in Nat, Wallet(e)!CountSent(o)
  PROVE  sentToday' \in Nat /\ financialDay' \in 0..MaxDay /\ financialDay' = today /\ sentToday' = SentNowOf + o
  <1>1. sentToday \in Nat /\ today \in 0..MaxDay
    BY DEF WalletInv, WalletTyped
  <1>2. financialDay' = today /\ sentToday' = SentNowOf + o
    BY DEF Wallet!CountSent, Wallet!SentNow, SentNowOf
  <1>3. SentNowOf \in Nat
    BY <1>1 DEF SentNowOf
  <1> QED BY <1>1, <1>2, <1>3

LEMMA DatesTyped ==
  ASSUME NEW e \in BOOLEAN, WalletInv(e), NEW m \in sms, NEW date \in Wallet(e)!effectiveProviderOccurredAt(m)
  PROVE  date \in 0..MaxTimeOf(e) /\ realAt[m.at] \in Int
  <1>1. m.at \in 0..MaxTimeOf(e) /\ clock \in 0..MaxTimeOf(e) /\ MaxTimeOf(e) \in Nat /\ realAt \in [0..MaxTimeOf(e) -> Nat]
    BY WalletNumbers DEF WalletInv, WalletTyped, MsgOf
  <1>2. date \in m.at..clock
    BY DEF Wallet!effectiveProviderOccurredAt
  <1> QED BY <1>1, <1>2

LEMMA MutationTyped ==
  ASSUME NEW e \in BOOLEAN, WalletInv(e), NEW m \in sms, NEW d \in Int, Wallet(e)!transactionBalanceMutation(m, d)
  PROVE  mainBalance' \in Int /\ lastBalanceAt' \in 0..MaxTimeOf(e)
  <1>1. mainBalance \in Int /\ lastBalanceAt \in 0..MaxTimeOf(e)
    BY DEF WalletInv, WalletTyped
  <1>2. PICK date \in Wallet(e)!effectiveProviderOccurredAt(m) :
          \/ mainBalance' = mainBalance /\ lastBalanceAt' = lastBalanceAt
          \/ lastBalanceAt' = date /\ (mainBalance' = realAt[m.at] \/ mainBalance' = mainBalance + d)
    BY DEF Wallet!transactionBalanceMutation
  <1>3. date \in 0..MaxTimeOf(e) /\ realAt[m.at] \in Int /\ mainBalance + d \in Int
    BY <1>1, DatesTyped
  <1> QED BY <1>1, <1>2, <1>3

LEMMA OutflowNat ==
  ASSUME NEW e \in BOOLEAN, WalletInv(e), NEW t \in OpsOf(e)
  PROVE  Wallet(e)!Outflow(t) \in Nat /\ 0 - Wallet(e)!Outflow(t) \in Int /\ Wallet(e)!Outflow(t) = amount[t] + fee[t]
  <1>1. Wallet(e)!Outflow(t) = amount[t] + fee[t]
    BY DEF Wallet!Outflow
  <1>2. amount[t] \in Nat /\ fee[t] \in Nat
    BY TransferTyped
  <1> QED BY <1>1, <1>2

\* A step that pays or closes t keeps the reservations exact.
LEMMA CloseKeeps ==
  ASSUME NEW e \in BOOLEAN, WalletInv(e), WalletTyped(e)', NEW t \in OpsOf(e), amount' = amount,
         state' = [state EXCEPT ![t] = "success"],
         reserved' = IF IsOpen(state[t]) THEN reserved - (amount[t] + SimFee) ELSE reserved
  PROVE  WalletInv(e)'
  <1>1. /\ amount \in [OpsOf(e) -> Nat] /\ amount' \in [OpsOf(e) -> Nat] /\ state'[t] = "success"
        /\ \A u \in OpsOf(e) \ {t} : state'[u] = state[u] /\ amount'[u] = amount[u]
    BY DEF WalletInv, WalletTyped
  <1>2. HeldPhys(e)' = HeldPhys(e) - Part(IsOpen(state[t]), amount[t] + SimFee) + Part(IsOpen(state'[t]), amount'[t] + SimFee)
    BY <1>1, HeldMoves
  <1>3. Part(IsOpen(state'[t]), amount'[t] + SimFee) = 0
    BY <1>1 DEF Part, IsOpen
  <1>4. PICK n : n = amount[t] + SimFee
    OBVIOUS
  <1>5. n \in Nat /\ reserved \in Nat /\ reserved = HeldPhys(e)
    BY <1>4, TransferTyped DEF WalletInv
  <1>6. CASE IsOpen(state[t])
    <2>1. HeldPhys(e)' = reserved - n + 0 /\ reserved' = reserved - n
      BY <1>2, <1>3, <1>4, <1>5, <1>6 DEF Part
    <2> QED BY <1>5, <2>1 DEF WalletInv
  <1>7. CASE ~IsOpen(state[t])
    <2>1. HeldPhys(e)' = reserved - 0 + 0 /\ reserved' = reserved
      BY <1>2, <1>3, <1>5, <1>7 DEF Part
    <2> QED BY <1>5, <2>1 DEF WalletInv
  <1> QED BY <1>6, <1>7

LEMMA ResolveSuccessKeeps ==
  ASSUME NEW e \in BOOLEAN, WalletInv(e), NEW t \in OpsOf(e), Wallet(e)!ResolveSuccess(t)
  PROVE  WalletInv(e)'
  <1>1. PICK given \in BOOLEAN :
          /\ state[t] = "unknown" /\ Wallet(e)!Tick(0) /\ state' = [state EXCEPT ![t] = "success"]
          /\ reserved' = reserved - (amount[t] + SimFee)
          /\ IF t \in applied
             THEN /\ mainBalance' = IF given THEN realAt[clock] ELSE mainBalance
                  /\ lastBalanceAt' = IF given THEN clock' ELSE lastBalanceAt
                  /\ UNCHANGED <<sentToday, financialDay>>
             ELSE /\ mainBalance' = IF given THEN realAt[clock] ELSE mainBalance - Wallet(e)!Outflow(t)
                  /\ lastBalanceAt' = clock'
                  /\ Wallet(e)!CountSent(Wallet(e)!Outflow(t))
          /\ UNCHANGED <<today, active, amount, fee, paidOn, applied, retries, sms>>
    BY DEF Wallet!ResolveSuccess, Wallet!SetState, Wallet!Physical, Wallet!real
  <1>2. realAt[clock] \in Nat /\ realAt[clock] + 0 >= 0 /\ 0 \in Int /\ mainBalance \in Int /\ lastBalanceAt \in 0..MaxTimeOf(e)
    BY DEF WalletInv, WalletTyped
  <1>3. realAt' \in [0..MaxTimeOf(e) -> Nat] /\ clock' \in 0..MaxTimeOf(e)
    BY <1>1, <1>2, TickTyped DEF WalletInv
  <1>4. /\ mainBalance' \in Int /\ lastBalanceAt' \in 0..MaxTimeOf(e) /\ sentToday' \in Nat /\ financialDay' \in 0..MaxDay
    <2>1. CASE t \in applied
      <3>1. sentToday' \in Nat /\ financialDay' \in 0..MaxDay
        BY <1>1, <2>1 DEF WalletInv, WalletTyped
      <3> QED BY <1>1, <1>2, <1>3, <2>1, <3>1
    <2>2. CASE t \notin applied
      <3>1. sentToday' \in Nat /\ financialDay' \in 0..MaxDay
        BY <1>1, <2>2, OutflowNat, CountTyped
      <3>2. mainBalance - Wallet(e)!Outflow(t) \in Int
        BY <1>2, OutflowNat
      <3> QED BY <1>1, <1>2, <1>3, <2>2, <3>1, <3>2
    <2> QED BY <2>1, <2>2
  <1>5. WalletTyped(e)'
    BY <1>1, <1>3, <1>4 DEF WalletInv, WalletTyped
  <1>6. IsOpen(state[t])
    BY <1>1 DEF IsOpen
  <1> QED BY <1>1, <1>5, <1>6, CloseKeeps

LEMMA MatchKeeps ==
  ASSUME NEW e \in BOOLEAN, WalletInv(e), NEW m \in sms, Wallet(e)!MatchOutgoing(m), sms' = sms \ {m},
         UNCHANGED <<realAt, clock, today, amount, fee, paidOn, retries>>
  PROVE  WalletInv(e)'
  <1>1. PICK t : t = m.of
    OBVIOUS
  <1>2. t \in OpsOf(e)
    BY <1>1 DEF WalletInv, WalletTyped, Wallet!MatchOutgoing
  <1>3. CASE state[t] = "success"
    <2>1. UNCHANGED <<mainBalance, lastBalanceAt, reserved, sentToday, financialDay, active, state, applied>>
      BY <1>1, <1>3 DEF Wallet!MatchOutgoing, Wallet!wallet
    <2>2. WalletTyped(e)'
      BY <2>1 DEF WalletInv, WalletTyped
    <2> QED BY <2>1, <2>2, HeldSame DEF WalletInv
  <1>4. CASE state[t] # "success"
    <2>1. /\ state' = [state EXCEPT ![t] = "success"]
          /\ reserved' = IF IsOpen(state[t]) THEN reserved - (amount[t] + SimFee) ELSE reserved
          /\ Wallet(e)!CountSent(Wallet(e)!Outflow(t))
          /\ Wallet(e)!transactionBalanceMutation(m, 0 - Wallet(e)!Outflow(t))
          /\ UNCHANGED <<active, applied>>
      BY <1>1, <1>4 DEF Wallet!MatchOutgoing, Wallet!SetState, Wallet!Physical, Wallet!Held, IsOpen
    <2>2. sentToday' \in Nat /\ financialDay' \in 0..MaxDay /\ mainBalance' \in Int /\ lastBalanceAt' \in 0..MaxTimeOf(e)
      BY <1>2, <2>1, OutflowNat, CountTyped, MutationTyped
    <2>3. WalletTyped(e)'
      BY <2>1, <2>2 DEF WalletInv, WalletTyped
    <2> QED BY <1>2, <2>1, <2>3, CloseKeeps
  <1> QED BY <1>3, <1>4

LEMMA OtherMessageKeeps ==
  ASSUME NEW e \in BOOLEAN, WalletInv(e), NEW m \in sms, sms' = sms \ {m},
         Wallet(e)!UnmatchedOutgoing(m) \/ Wallet(e)!IncomingTransfer(m) \/ Wallet(e)!ApplyBalance(m),
         UNCHANGED <<realAt, clock, today, amount, fee, paidOn, retries>>
  PROVE  WalletInv(e)'
  <1>1. CASE Wallet(e)!UnmatchedOutgoing(m)
    <2>1. PICK t : t = m.of
      OBVIOUS
    <2>2. t \in OpsOf(e)
      BY <1>1, <2>1 DEF WalletInv, WalletTyped, Wallet!UnmatchedOutgoing
    <2>3. /\ Wallet(e)!CountSent(Wallet(e)!Outflow(t))
          /\ Wallet(e)!transactionBalanceMutation(m, 0 - Wallet(e)!Outflow(t))
          /\ active' = FALSE /\ applied' = applied \cup {t} /\ UNCHANGED <<reserved, state>>
      BY <1>1, <2>1 DEF Wallet!UnmatchedOutgoing
    <2>4. sentToday' \in Nat /\ financialDay' \in 0..MaxDay /\ mainBalance' \in Int /\ lastBalanceAt' \in 0..MaxTimeOf(e)
      BY <2>2, <2>3, OutflowNat, CountTyped, MutationTyped
    <2>5. WalletTyped(e)'
      BY <2>2, <2>3, <2>4 DEF WalletInv, WalletTyped
    <2> QED BY <2>3, <2>5, HeldSame DEF WalletInv
  <1>2. CASE Wallet(e)!IncomingTransfer(m)
    <2>1. /\ Wallet(e)!CountSent(0) /\ Wallet(e)!transactionBalanceMutation(m, Deposit)
          /\ UNCHANGED <<reserved, active, state, applied>>
      BY <1>2 DEF Wallet!IncomingTransfer
    <2>2. 0 \in Nat /\ Deposit \in Int
      BY WalletNumbers
    <2>3. sentToday' \in Nat /\ financialDay' \in 0..MaxDay /\ mainBalance' \in Int /\ lastBalanceAt' \in 0..MaxTimeOf(e)
      BY <2>1, <2>2, CountTyped, MutationTyped
    <2>4. WalletTyped(e)'
      BY <2>1, <2>3 DEF WalletInv, WalletTyped
    <2> QED BY <2>1, <2>4, HeldSame DEF WalletInv
  <1>3. CASE Wallet(e)!ApplyBalance(m)
    <2>1. /\ \/ \E at \in Wallet(e)!effectiveProviderOccurredAt(m) : mainBalance' = realAt[m.at] /\ lastBalanceAt' = at
             \/ UNCHANGED <<mainBalance, lastBalanceAt>>
          /\ UNCHANGED <<reserved, sentToday, financialDay, active, state, applied>>
      BY <1>3 DEF Wallet!ApplyBalance
    <2>3. mainBalance' \in Int /\ lastBalanceAt' \in 0..MaxTimeOf(e)
      <3>1. CASE UNCHANGED <<mainBalance, lastBalanceAt>>
        BY <3>1 DEF WalletInv, WalletTyped
      <3>2. ASSUME NEW at \in Wallet(e)!effectiveProviderOccurredAt(m), mainBalance' = realAt[m.at], lastBalanceAt' = at
            PROVE  mainBalance' \in Int /\ lastBalanceAt' \in 0..MaxTimeOf(e)
        BY <3>2, DatesTyped
      <3> QED BY <2>1, <3>1, <3>2
    <2>4. WalletTyped(e)'
      BY <2>1, <2>3 DEF WalletInv, WalletTyped
    <2> QED BY <2>1, <2>4, HeldSame DEF WalletInv
  <1> QED BY <1>1, <1>2, <1>3

LEMMA WalletStep == ASSUME NEW e \in BOOLEAN PROVE WalletInv(e) /\ Wallet(e)!Next => WalletInv(e)'
  <1> SUFFICES ASSUME WalletInv(e), Wallet(e)!Next PROVE WalletInv(e)'
    OBVIOUS
  <1>0. Wallet(e)!Outgoing = OpsOf(e)
    BY DEF Wallet!Outgoing, OpsOf
  <1>1. ASSUME NEW t \in OpsOf(e),
               \/ Wallet(e)!Pay(t) \/ Wallet(e)!FailBeforeCommit(t) \/ Wallet(e)!Expire(t) \/ Wallet(e)!ResolveFailed(t)
               \/ Wallet(e)!ResolveSuccess(t) \/ Wallet(e)!RetryDeviceJob(t) \/ Wallet(e)!QueueTransfer(t) \/ Wallet(e)!ExecuteSweep(t)
        PROVE  WalletInv(e)'
    <2>1. CASE Wallet(e)!FailBeforeCommit(t) \/ Wallet(e)!ResolveFailed(t)
      <3>1. IsOpen(state[t]) /\ Wallet(e)!Release(t)
        BY <2>1 DEF Wallet!FailBeforeCommit, Wallet!ResolveFailed, IsOpen
      <3> QED BY <3>1, ReleaseKeeps
    <2> QED BY <1>1, <2>1, PayKeeps, ExpireKeeps, ResolveSuccessKeeps, RetryTransferKeeps, QueueTransferKeeps, ExecuteSweepKeeps
  <1>2. CASE Wallet(e)!Receive \/ Wallet(e)!AnswerQuery
    <2>1. \E d \in Nat, kind \in {"in", "balance"} : Wallet(e)!Moves(d, kind, "none")
      BY <1>2, WalletNumbers DEF Wallet!Receive, Wallet!AnswerQuery
    <2>2. UNCHANGED <<today, mainBalance, lastBalanceAt, reserved, sentToday, financialDay, active, state, amount, fee, paidOn, applied, retries>>
      BY <1>2 DEF Wallet!Receive, Wallet!AnswerQuery, Wallet!wallet, Wallet!transfer
    <2> QED BY <2>1, <2>2, MovementKeeps
  <1>3. ASSUME NEW m \in sms, Wallet(e)!Ingest(m)
        PROVE  WalletInv(e)'
    <2>1. /\ sms' = sms \ {m}
          /\ UNCHANGED <<realAt, clock, today, amount, fee, paidOn, retries>>
          /\ Wallet(e)!MatchOutgoing(m) \/ Wallet(e)!UnmatchedOutgoing(m) \/ Wallet(e)!IncomingTransfer(m) \/ Wallet(e)!ApplyBalance(m)
      BY <1>3 DEF Wallet!Ingest, Wallet!provider
    <2> QED BY <2>1, MatchKeeps, OtherMessageKeeps
  <1>4. Payouts \subseteq OpsOf(e) /\ (IF e THEN {} ELSE Sweeps) \subseteq OpsOf(e)
    BY DEF OpsOf
  <1> QED BY <1>0, <1>1, <1>2, <1>3, <1>4, NewDayKeeps DEF Wallet!Next

LEMMA WalletInitially == ASSUME NEW e \in BOOLEAN PROVE Wallet(e)!Init => WalletInv(e)
  <1> SUFFICES ASSUME Wallet(e)!Init PROVE WalletInv(e)
    OBVIOUS
  <1>1. /\ realAt = [i \in 0..MaxTimeOf(e) |-> IF i = 0 THEN StartBalance ELSE 0]
        /\ clock = 0 /\ today = 0 /\ mainBalance = StartBalance /\ lastBalanceAt = 0 /\ reserved = 0 /\ sentToday = 0
        /\ financialDay = 0 /\ active = TRUE /\ state = [t \in OpsOf(e) |-> "none"]
        /\ amount = [t \in OpsOf(e) |-> IF t \in Payouts THEN PayoutAmount[t] ELSE 0]
        /\ fee = [t \in OpsOf(e) |-> 0] /\ paidOn = [t \in OpsOf(e) |-> -1] /\ applied = {}
        /\ retries = [t \in OpsOf(e) |-> 0] /\ sms = {}
    BY DEF Wallet!Init, Wallet!Outgoing, OpsOf, MaxTimeOf
  <1>2. WalletTyped(e)
    BY <1>1, WalletNumbers DEF WalletTyped
  <1>3. HeldPhys(e) = 0
    <2>1. HeldOps(e) = {}
      BY <1>1 DEF HeldOps, IsOpen
    <2> QED BY <2>1, SumEmpty DEF HeldPhys
  <1> QED BY <1>1, <1>2, <1>3 DEF WalletInv

\* Whichever of the two runs of the wallet a behaviour follows.
ReservationsInv == (OfRoutine => WalletInv(FALSE)) /\ (OfExceptional => WalletInv(TRUE))

LEMMA WalletStutters == ASSUME NEW e \in BOOLEAN, WalletInv(e), UNCHANGED walletVars PROVE WalletInv(e)'
  <1>1. WalletTyped(e)'
    BY DEF WalletInv, WalletTyped, walletVars
  <1>2. HeldPhys(e)' = HeldPhys(e)
    BY HeldSame DEF walletVars
  <1> QED BY <1>1, <1>2 DEF WalletInv, walletVars

LEMMA ReservationsInductive ==
  /\ MoneyInit => ReservationsInv
  /\ ReservationsInv /\ [MoneyNext]_moneyVars => ReservationsInv'
  <1>0. FALSE \in BOOLEAN /\ TRUE \in BOOLEAN
    OBVIOUS
  <1>1. MoneyInit => ReservationsInv
    BY <1>0, WalletInitially DEF MoneyInit, ReservationsInv, OfRoutine, OfExceptional, OfLedger
  <1>2. ASSUME ReservationsInv, [MoneyNext]_moneyVars
        PROVE  ReservationsInv'
    <2>1. (OfRoutine' <=> OfRoutine) /\ (OfExceptional' <=> OfExceptional)
      BY <1>2 DEF MoneyNext, moneyVars, OfRoutine, OfExceptional
    <2>2. OfRoutine => Wallet(FALSE)!Next \/ UNCHANGED walletVars
      BY <1>2 DEF MoneyNext, moneyVars, OfRoutine, OfExceptional, OfLedger
    <2>3. OfExceptional => Wallet(TRUE)!Next \/ UNCHANGED walletVars
      BY <1>2 DEF MoneyNext, moneyVars, OfRoutine, OfExceptional, OfLedger
    <2>4. OfRoutine => WalletInv(FALSE)'
      BY <1>0, <1>2, <2>2, WalletStep, WalletStutters DEF ReservationsInv
    <2>5. OfExceptional => WalletInv(TRUE)'
      BY <1>0, <1>2, <2>3, WalletStep, WalletStutters DEF ReservationsInv
    <2> QED BY <2>1, <2>4, <2>5 DEF ReservationsInv
  <1> QED BY <1>1, <1>2

\* Whatever is paid, failed, expired, retried or resolved, and whichever SMS are
\* late, lost or unmatched, the wallet reserves each held transfer in full and no
\* other (executeCandidate, applyOutgoingTransfer, resolveUnknown, retryDeviceJob).
THEOREM ReservationsAlwaysExact == MoneySpec => []ReservedExact
  <1>1. ReservationsInv => ReservedExact
    <2>1. ASSUME NEW e \in BOOLEAN, WalletInv(e) PROVE Wallet(e)!TypeOK /\ Wallet(e)!ReservedExact
      <3>1. reserved \in Nat /\ reserved = HeldPhys(e) /\ WalletTyped(e)
        BY <2>1, NeededNat DEF WalletInv, WalletTyped
      <3> QED BY <3>1, WalletTypes, ReservedMeans
    <2> QED BY <2>1 DEF ReservationsInv, ReservedExact
  <1> QED BY <1>1, ReservationsInductive, PTL DEF MoneySpec

-----------------------------------------------------------------------------
(* The promises of the wallet *)

\* Two sums over parts of T are below two others when they are so at each element.
Below(T, g, h, A, B, C, D) ==
  /\ A \subseteq T /\ B \subseteq T /\ C \subseteq T /\ D \subseteq T
  /\ \A x \in T : g[x] \in Nat /\ h[x] \in Nat
                  /\ Part(x \in A, g[x]) + Part(x \in B, h[x]) <= Part(x \in C, g[x]) + Part(x \in D, h[x])

SumIn2(g, h, A, B, S) == SumFunctionOnSet(g, A \cap S) + SumFunctionOnSet(h, B \cap S)

LEMMA SumWith ==
  ASSUME NEW S, IsFiniteSet(S), NEW x \in S, NEW g, NEW A, \A y \in S : g[y] \in Nat
  PROVE  /\ SumFunctionOnSet(g, A \cap S) \in Nat /\ SumFunctionOnSet(g, A \cap (S \ {x})) \in Nat
         /\ SumFunctionOnSet(g, A \cap S) = SumFunctionOnSet(g, A \cap (S \ {x})) + Part(x \in A, g[x])
  <1>1. PICK R, Q : R = A \cap S /\ Q = A \cap (S \ {x})
    OBVIOUS
  <1>2. IsFiniteSet(R) /\ IsFiniteSet(Q) /\ Q = R \ {x} /\ (x \in R <=> x \in A)
    BY <1>1, FS_Subset
  <1>3. (\A y \in R : g[y] \in Nat) /\ (\A y \in Q : g[y] \in Nat) /\ (\A y \in R : g[y] \in Int)
    BY <1>1
  <1>4. SumFunctionOnSet(g, R) \in Nat /\ SumFunctionOnSet(g, Q) \in Nat
    BY <1>2, <1>3, SumNat
  <1>5. SumFunctionOnSet(g, R \ {x}) = SumFunctionOnSet(g, R) - (IF x \in R THEN g[x] ELSE 0)
    BY <1>2, <1>3, SumTake
  <1>6. g[x] \in Nat
    OBVIOUS
  <1>7. SumFunctionOnSet(g, R) = SumFunctionOnSet(g, Q) + Part(x \in A, g[x])
    BY <1>2, <1>4, <1>5, <1>6 DEF Part
  <1> QED BY <1>1, <1>4, <1>7

LEMMA SumsBelow ==
  ASSUME NEW T, IsFiniteSet(T), NEW g, NEW h, NEW A, NEW B, NEW C, NEW D, Below(T, g, h, A, B, C, D)
  PROVE  SumFunctionOnSet(g, A) + SumFunctionOnSet(h, B) <= SumFunctionOnSet(g, C) + SumFunctionOnSet(h, D)
  <1> DEFINE Holds(S) == SumIn2(g, h, A, B, S) <= SumIn2(g, h, C, D, S)
             Bad == {n \in Nat : \E S \in SUBSET T : Cardinality(S) = n /\ ~Holds(S)}
  <1>1. \A x \in T : g[x] \in Nat /\ h[x] \in Nat
    BY DEF Below
  <1>2. ASSUME Bad = {} PROVE SumFunctionOnSet(g, A) + SumFunctionOnSet(h, B) <= SumFunctionOnSet(g, C) + SumFunctionOnSet(h, D)
    <2>1. T \in SUBSET T /\ Cardinality(T) \in Nat
      BY FS_CardinalityType
    <2>2. Holds(T)
      BY <1>2, <2>1
    <2>3. A \cap T = A /\ B \cap T = B /\ C \cap T = C /\ D \cap T = D
      BY DEF Below
    <2> QED BY <2>2, <2>3 DEF SumIn2
  <1>3. ASSUME Bad # {} PROVE FALSE
    <2>1. Bad \in SUBSET Nat
      OBVIOUS
    <2>2. PICK n \in Bad : \A m \in Bad : n <= m
      BY <1>3, <2>1, LeastNat
    <2>3. PICK S \in SUBSET T : Cardinality(S) = n /\ ~Holds(S)
      BY <2>2
    <2>4. S # {}
      <3> SUFFICES ASSUME S = {} PROVE FALSE
        OBVIOUS
      <3>1. A \cap S = {} /\ B \cap S = {} /\ C \cap S = {} /\ D \cap S = {}
        OBVIOUS
      <3>2. SumIn2(g, h, A, B, S) = 0 + 0 /\ SumIn2(g, h, C, D, S) = 0 + 0
        BY <3>1, SumEmpty DEF SumIn2
      <3> QED BY <2>3, <3>2
    <2>5. PICK x : x \in S
      BY <2>4
    <2>6. /\ S \ {x} \in SUBSET T /\ IsFiniteSet(S)
          /\ Cardinality(S) \in Nat /\ Cardinality(S) > 0 /\ Cardinality(S \ {x}) = Cardinality(S) - 1
      BY <2>4, <2>5, OneLess
    <2>7. Cardinality(S \ {x}) \in Nat /\ ~(n <= Cardinality(S \ {x}))
      BY <2>3, <2>6
    <2>8. Holds(S \ {x})
      <3>1. Cardinality(S \ {x}) \notin Bad
        BY <2>2, <2>7
      <3> QED BY <2>6, <2>7, <3>1
    <2>9. PICK U : U = S \ {x}
      OBVIOUS
    <2>10. \A y \in S : g[y] \in Nat /\ h[y] \in Nat
      BY <1>1
    <2>11. /\ SumFunctionOnSet(g, A \cap S) \in Nat /\ SumFunctionOnSet(g, A \cap U) \in Nat
           /\ SumFunctionOnSet(g, A \cap S) = SumFunctionOnSet(g, A \cap U) + Part(x \in A, g[x])
      BY <2>5, <2>6, <2>9, <2>10, SumWith
    <2>12. /\ SumFunctionOnSet(h, B \cap S) \in Nat /\ SumFunctionOnSet(h, B \cap U) \in Nat
           /\ SumFunctionOnSet(h, B \cap S) = SumFunctionOnSet(h, B \cap U) + Part(x \in B, h[x])
      BY <2>5, <2>6, <2>9, <2>10, SumWith
    <2>13. /\ SumFunctionOnSet(g, C \cap S) \in Nat /\ SumFunctionOnSet(g, C \cap U) \in Nat
           /\ SumFunctionOnSet(g, C \cap S) = SumFunctionOnSet(g, C \cap U) + Part(x \in C, g[x])
      BY <2>5, <2>6, <2>9, <2>10, SumWith
    <2>14. /\ SumFunctionOnSet(h, D \cap S) \in Nat /\ SumFunctionOnSet(h, D \cap U) \in Nat
           /\ SumFunctionOnSet(h, D \cap S) = SumFunctionOnSet(h, D \cap U) + Part(x \in D, h[x])
      BY <2>5, <2>6, <2>9, <2>10, SumWith
    <2>15. PICK a, b, c, d : a = Part(x \in A, g[x]) /\ b = Part(x \in B, h[x]) /\ c = Part(x \in C, g[x]) /\ d = Part(x \in D, h[x])
      OBVIOUS
    <2>16. a \in Nat /\ b \in Nat /\ c \in Nat /\ d \in Nat /\ a + b <= c + d
      <3>1. x \in T /\ g[x] \in Nat /\ h[x] \in Nat
        BY <1>1, <2>5
      <3>2. a + b <= c + d
        BY <2>15, <3>1 DEF Below
      <3> QED BY <2>15, <3>1, <3>2 DEF Part
    <2>17. SumIn2(g, h, A, B, U) <= SumIn2(g, h, C, D, U)
      BY <2>8, <2>9
    <2>18. SumIn2(g, h, A, B, S) <= SumIn2(g, h, C, D, S)
      <3> HIDE DEF Holds, Bad
      <3> QED BY <2>11, <2>12, <2>13, <2>14, <2>15, <2>16, <2>17 DEF SumIn2
    <2> QED BY <2>3, <2>18
  <1> QED BY <1>2, <1>3

-----------------------------------------------------------------------------
(* What is promised, paid and counted *)

Ops == OpsOf(FALSE)
Spending == [t \in Ops |-> amount[t] + fee[t]]
Needs == Needed(FALSE)
IsPaid(t) == paidOn[t] # -1
Promised == {t \in Ops : IsOpen(state[t]) /\ ~IsPaid(t)}
PaidAfter(at, i) == {t \in Ops : IsPaid(t) /\ at[t] > i}
PaidToday == {t \in Ops : paidOn[t] = today}
CountedToday == {t \in Ops : paidOn[t] = today /\ (state[t] = "success" \/ t \in applied)}

Due == SumFunctionOnSet(Needs, Promised)
SpentAfter(at, i) == SumFunctionOnSet(Spending, PaidAfter(at, i))
SpentToday == SumFunctionOnSet(Spending, PaidToday)
Counted == SumFunctionOnSet(Spending, CountedToday)

\* A message is of the past, says the balance, and a confirmation is of a payment at its instant.
MessageTrue(m, at) == m.shows = TRUE /\ m.at <= clock /\ (m.kind = "out" => IsPaid(m.of) /\ at[m.of] = m.at)

\* A paid transfer is open or a success; a success is paid and in the balance.
PaymentKnown(t, at) ==
  /\ IsPaid(t) => /\ at[t] <= clock /\ state[t] \in {"queued", "unknown", "success"}
                  /\ fee[t] <= SimFee /\ paidOn[t] <= today
  /\ state[t] = "success" => IsPaid(t) /\ at[t] <= lastBalanceAt
  /\ t \in applied => IsPaid(t)

\* Since any instant the account lost no more than was paid.
Trail(at) == \A i \in 0..clock : realAt[clock] + SpentAfter(at, i) >= realAt[i]

BalanceTrue == lastBalanceAt <= clock /\ mainBalance <= realAt[lastBalanceAt]

PromiseInv(at) ==
  /\ at \in [Ops -> Nat]
  /\ \A m \in sms : MessageTrue(m, at)
  /\ \A t \in Ops : PaymentKnown(t, at)
  /\ Trail(at)
  /\ BalanceTrue
  /\ Counted <= SentNowOf
  /\ SpentToday + Due <= DailyLimit
  /\ realAt[clock] >= Due

Typed == WalletInv(FALSE)

LEMMA WalletKnown ==
  ASSUME Typed
  PROVE  /\ IsFiniteSet(Ops) /\ SimFee \in Nat /\ SimFees \subseteq Nat /\ DailyLimit \in Nat /\ MaxTimeOf(FALSE) \in Nat
         /\ realAt \in [0..MaxTimeOf(FALSE) -> Nat] /\ clock \in 0..MaxTimeOf(FALSE) /\ clock \in Nat
         /\ lastBalanceAt \in 0..MaxTimeOf(FALSE) /\ lastBalanceAt \in Nat
         /\ realAt[clock] \in Nat /\ realAt[lastBalanceAt] \in Nat /\ mainBalance \in Int
         /\ SentNowOf \in Nat /\ reserved \in Nat /\ today \in Nat
         /\ \A t \in Ops : /\ amount[t] \in Nat /\ fee[t] \in Nat /\ paidOn[t] \in Int
                           /\ state[t] \in {"none", "queued", "unknown", "success", "failed"}
         /\ \A m \in sms : m.at \in 0..MaxTimeOf(FALSE) /\ m.at \in Nat /\ (m.kind = "out" => m.of \in Ops)
  <1>0. FALSE \in BOOLEAN /\ WalletTyped(FALSE) /\ reserved = HeldPhys(FALSE)
    BY DEF Typed, WalletInv
  <1>1. /\ IsFiniteSet(Ops) /\ SimFee \in Nat /\ SimFees \subseteq Nat /\ DailyLimit \in Nat /\ MaxTimeOf(FALSE) \in Nat /\ MaxDay \in Nat
    BY <1>0, WalletNumbers DEF Ops
  <1>2. reserved \in Nat
    BY <1>0, NeededNat DEF WalletTyped
  <1>3. \A m \in sms : m.at \in 0..MaxTimeOf(FALSE) /\ (m.kind = "out" => m.of \in Ops)
    BY <1>0 DEF WalletTyped, MsgOf, Ops
  <1>4. \A t \in Ops : paidOn[t] \in -1..MaxDay /\ amount[t] \in Nat /\ fee[t] \in Nat /\ state[t] \in {"none", "queued", "unknown", "success", "failed"}
    BY <1>0 DEF WalletTyped, Ops
  <1>5. SentNowOf \in Nat /\ today \in Nat
    <2>1. sentToday \in Nat /\ today \in 0..MaxDay
      BY <1>0 DEF WalletTyped
    <2>2. today \in Nat
      BY <1>1, <2>1
    <2> QED BY <2>1, <2>2 DEF SentNowOf
  <1>6. realAt \in [0..MaxTimeOf(FALSE) -> Nat] /\ clock \in 0..MaxTimeOf(FALSE) /\ lastBalanceAt \in 0..MaxTimeOf(FALSE) /\ mainBalance \in Int
    BY <1>0 DEF WalletTyped
  <1>7. clock \in Nat /\ lastBalanceAt \in Nat /\ realAt[clock] \in Nat /\ realAt[lastBalanceAt] \in Nat
    <2>1. realAt[clock] \in Nat /\ realAt[lastBalanceAt] \in Nat
      BY <1>6
    <2> QED BY <1>1, <1>6, <2>1
  <1>8. \A m \in sms : m.at \in Nat
    <2> SUFFICES ASSUME NEW m \in sms PROVE m.at \in Nat
      OBVIOUS
    <2>1. m.at \in 0..MaxTimeOf(FALSE)
      BY <1>3
    <2> QED BY <1>1, <2>1
  <1>9. \A t \in Ops : paidOn[t] \in Int
    <2> SUFFICES ASSUME NEW t \in Ops PROVE paidOn[t] \in Int
      OBVIOUS
    <2>1. paidOn[t] \in -1..MaxDay
      BY <1>4
    <2> QED BY <1>1, <2>1
  <1> QED BY <1>1, <1>2, <1>3, <1>4, <1>5, <1>6, <1>7, <1>8, <1>9

LEMMA SumsKnown ==
  ASSUME Typed
  PROVE  /\ \A t \in Ops : /\ Needs[t] \in Nat /\ Needs[t] = amount[t] + SimFee
                           /\ Spending[t] \in Nat /\ Spending[t] = amount[t] + fee[t]
         /\ \A S \in SUBSET Ops : /\ IsFiniteSet(S) /\ SumFunctionOnSet(Needs, S) \in Nat
                                  /\ SumFunctionOnSet(Spending, S) \in Nat
         /\ Due \in Nat /\ SpentToday \in Nat /\ Counted \in Nat
         /\ \A at, i : SpentAfter(at, i) \in Nat
  <1>1. \A t \in Ops : /\ Needs[t] \in Nat /\ Needs[t] = amount[t] + SimFee
                       /\ Spending[t] \in Nat /\ Spending[t] = amount[t] + fee[t]
    <2> SUFFICES ASSUME NEW t \in Ops
                 PROVE  /\ Needs[t] \in Nat /\ Needs[t] = amount[t] + SimFee
                        /\ Spending[t] \in Nat /\ Spending[t] = amount[t] + fee[t]
      OBVIOUS
    <2>1. amount[t] \in Nat /\ fee[t] \in Nat /\ SimFee \in Nat
      BY WalletKnown
    <2>2. Needs[t] = amount[t] + SimFee /\ Spending[t] = amount[t] + fee[t]
      BY DEF Needs, Needed, Spending, Ops
    <2> QED BY <2>1, <2>2
  <1>2. ASSUME NEW S \in SUBSET Ops
        PROVE  IsFiniteSet(S) /\ SumFunctionOnSet(Needs, S) \in Nat /\ SumFunctionOnSet(Spending, S) \in Nat
    <2>1. IsFiniteSet(S)
      BY WalletKnown, FS_Subset
    <2>2. (\A x \in S : Needs[x] \in Nat) /\ (\A x \in S : Spending[x] \in Nat)
      BY <1>1
    <2> QED BY <2>1, <2>2, SumNat
  <1>3. Promised \in SUBSET Ops /\ PaidToday \in SUBSET Ops /\ CountedToday \in SUBSET Ops
    BY DEF Promised, PaidToday, CountedToday
  <1>4. \A at, i : PaidAfter(at, i) \in SUBSET Ops
    BY DEF PaidAfter
  <1> QED BY <1>1, <1>2, <1>3, <1>4 DEF Due, SpentToday, Counted, SpentAfter

\* What was paid after the balance, or today, and what is promised, is reserved.
LEMMA ReservedCovers ==
  ASSUME Typed, NEW at, PromiseInv(at)
  PROVE  /\ SpentAfter(at, lastBalanceAt) + Due <= reserved
         /\ SpentToday + Due <= Counted + reserved
  <1>1. PICK H : H = HeldOps(FALSE)
    OBVIOUS
  <1>2. reserved = SumFunctionOnSet(Needs, H)
    BY <1>1 DEF Typed, WalletInv, HeldPhys, Needs
  <1>3. ASSUME NEW t \in Ops
        PROVE  /\ Needs[t] \in Nat /\ Spending[t] \in Nat
               /\ IsPaid(t) => Spending[t] <= Needs[t]
               /\ t \in Promised => t \in H /\ ~IsPaid(t)
               /\ IsPaid(t) => t \in H \/ (state[t] = "success" /\ at[t] <= lastBalanceAt)
    <2>1. Needs[t] \in Nat /\ Spending[t] \in Nat /\ Needs[t] = amount[t] + SimFee /\ Spending[t] = amount[t] + fee[t]
      BY SumsKnown
    <2>2. amount[t] \in Nat /\ fee[t] \in Nat /\ SimFee \in Nat
      BY WalletKnown
    <2>3. PaymentKnown(t, at)
      BY DEF PromiseInv
    <2>4. IsPaid(t) => Spending[t] <= Needs[t]
      BY <2>1, <2>2, <2>3 DEF PaymentKnown
    <2>5. t \in H <=> IsOpen(state[t])
      BY <1>1 DEF HeldOps, Ops
    <2> QED BY <2>1, <2>3, <2>4, <2>5 DEF PaymentKnown, Promised, IsOpen
  <1>4. H \subseteq Ops /\ Promised \subseteq Ops /\ PaidToday \subseteq Ops /\ CountedToday \subseteq Ops
    BY <1>1 DEF HeldOps, Ops, Promised, PaidToday, CountedToday
  <1>5. IsFiniteSet(Ops)
    BY WalletKnown
  <1>6. SpentAfter(at, lastBalanceAt) + Due <= SumFunctionOnSet(Spending, {}) + reserved
    <2>1. PICK A : A = PaidAfter(at, lastBalanceAt)
      OBVIOUS
    <2>2. ASSUME NEW t \in Ops, t \in A
          PROVE  t \in H /\ t \notin Promised /\ Spending[t] <= Needs[t]
      <3>1. IsPaid(t) /\ at[t] > lastBalanceAt
        BY <2>1, <2>2 DEF PaidAfter
      <3>2. at[t] \in Nat /\ lastBalanceAt \in Nat
        BY WalletKnown DEF PromiseInv
      <3> QED BY <1>3, <3>1, <3>2
    <2>3. ASSUME NEW t \in Ops
          PROVE  Part(t \in A, Spending[t]) + Part(t \in Promised, Needs[t]) <= Part(t \in {}, Spending[t]) + Part(t \in H, Needs[t])
      <3>1. Needs[t] \in Nat /\ Spending[t] \in Nat
        BY <1>3
      <3>2. CASE t \in A
        BY <2>2, <3>1, <3>2 DEF Part
      <3>3. CASE t \notin A
        BY <1>3, <3>1, <3>3 DEF Part
      <3> QED BY <3>2, <3>3
    <2>4. Below(Ops, Spending, Needs, A, Promised, {}, H)
      <3>1. A \subseteq Ops
        BY <2>1 DEF PaidAfter
      <3> QED BY <1>3, <1>4, <2>3, <3>1 DEF Below
    <2> QED BY <1>2, <1>5, <2>1, <2>4, SumsBelow DEF SpentAfter, Due
  <1>7. SpentToday + Due <= Counted + reserved
    <2>1. ASSUME NEW t \in Ops
          PROVE  Part(t \in PaidToday, Spending[t]) + Part(t \in Promised, Needs[t]) <= Part(t \in CountedToday, Spending[t]) + Part(t \in H, Needs[t])
      <3>1. Needs[t] \in Nat /\ Spending[t] \in Nat
        BY <1>3
      <3>2. CASE t \in PaidToday
        <4>1. IsPaid(t)
          <5>1. today \in Nat /\ paidOn[t] = today
            BY <3>2, WalletKnown DEF PaidToday
          <5> QED BY <5>1 DEF IsPaid
        <4>2. t \notin Promised /\ Spending[t] <= Needs[t] /\ (t \in H \/ t \in CountedToday)
          BY <1>3, <3>2, <4>1 DEF PaidToday, CountedToday
        <4> QED BY <3>1, <3>2, <4>2 DEF Part
      <3>3. CASE t \notin PaidToday
        BY <1>3, <3>1, <3>3 DEF Part
      <3> QED BY <3>2, <3>3
    <2>2. Below(Ops, Spending, Needs, PaidToday, Promised, CountedToday, H)
      BY <1>3, <1>4, <2>1 DEF Below
    <2> QED BY <1>2, <1>5, <2>2, SumsBelow DEF SpentToday, Counted, Due
  <1>8. SumFunctionOnSet(Spending, {}) = 0
    BY SumEmpty
  <1>9. reserved \in Nat
    BY WalletKnown
  <1> QED BY <1>6, <1>7, <1>8, <1>9

-----------------------------------------------------------------------------
(* What a step changes of the sums *)

LEMMA DueMoves ==
  ASSUME Typed, Typed', NEW t \in Ops,
         \A u \in Ops \ {t} : state'[u] = state[u] /\ amount'[u] = amount[u] /\ paidOn'[u] = paidOn[u]
  PROVE  Due' = Due - Part(t \in Promised, amount[t] + SimFee) + Part(t \in Promised', amount'[t] + SimFee)
  <1>1. PICK S, R, g, h : S = Promised /\ R = Promised' /\ g = Needs /\ h = Needs'
    OBVIOUS
  <1>2. S \in SUBSET Ops /\ R \in SUBSET Ops
    BY <1>1 DEF Promised
  <1>3. IsFiniteSet(S) /\ IsFiniteSet(R)
    BY <1>2, WalletKnown, FS_Subset
  <1>4. \A x \in Ops : g[x] \in Int /\ g[x] = amount[x] + SimFee
    BY <1>1, SumsKnown
  <1>5. \A x \in Ops : h[x] \in Int /\ h[x] = amount'[x] + SimFee
    <2> SUFFICES ASSUME NEW x \in Ops PROVE h[x] \in Int /\ h[x] = amount'[x] + SimFee
      OBVIOUS
    <2>1. amount'[x] \in Nat /\ SimFee \in Nat
      BY WalletKnown DEF Typed, WalletInv, WalletTyped, Ops
    <2>2. h[x] = amount'[x] + SimFee
      BY <1>1 DEF Needs, Needed, Ops
    <2> QED BY <2>1, <2>2
  <1>6. S \ {t} = R \ {t}
    BY <1>1 DEF Promised, IsPaid
  <1>7. \A x \in S \ {t} : g[x] = h[x]
    BY <1>2, <1>4, <1>5
  <1>8. (\A x \in S : g[x] \in Int) /\ (\A x \in R : h[x] \in Int)
    BY <1>2, <1>4, <1>5
  <1>9. SumFunctionOnSet(h, R) = SumFunctionOnSet(g, S) - (IF t \in S THEN g[t] ELSE 0) + (IF t \in R THEN h[t] ELSE 0)
    BY <1>3, <1>6, <1>7, <1>8, SumMove
  <1> QED BY <1>1, <1>4, <1>5, <1>9 DEF Due, Part

LEMMA DueSame == ASSUME Promised' = Promised, amount' = amount PROVE Due' = Due
  BY DEF Due, Needs, Needed

\* The outflow of transfers that did not change.
LEMMA SpendingSame ==
  ASSUME Typed, NEW S \in SUBSET Ops, \A u \in S : amount'[u] = amount[u] /\ fee'[u] = fee[u]
  PROVE  SumFunctionOnSet(Spending', S) = SumFunctionOnSet(Spending, S)
  <1>1. PICK g, h : g = Spending /\ h = Spending'
    OBVIOUS
  <1>2. \A u \in S : g[u] = h[u]
    <2> SUFFICES ASSUME NEW u \in S PROVE g[u] = h[u]
      OBVIOUS
    <2>1. h[u] = amount'[u] + fee'[u] /\ g[u] = amount[u] + fee[u]
      BY <1>1 DEF Spending, Ops
    <2> QED BY <2>1
  <1>3. IsFiniteSet(S)
    BY WalletKnown, FS_Subset
  <1>4. SumFunctionOnSet(g, S) = SumFunctionOnSet(h, S)
    BY <1>2, <1>3, SumSame
  <1> QED BY <1>1, <1>4

LEMMA PaidSets ==
  ASSUME Typed
  PROVE  /\ \A at, i : PaidAfter(at, i) \in SUBSET Ops /\ \A u \in PaidAfter(at, i) : IsPaid(u)
         /\ PaidToday \in SUBSET Ops /\ \A u \in PaidToday : IsPaid(u)
         /\ CountedToday \in SUBSET Ops /\ \A u \in CountedToday : IsPaid(u)
  <1>1. today # -1
    <2>1. today \in Nat
      BY WalletKnown
    <2> QED BY <2>1
  <1> QED BY <1>1 DEF PaidAfter, PaidToday, CountedToday, IsPaid

\* A step that pays nothing and leaves the account alone.
LEMMA NothingPaid ==
  ASSUME Typed, NEW at, PromiseInv(at), UNCHANGED <<realAt, clock, today, fee, paidOn>>,
         \A u \in Ops : IsPaid(u) => amount'[u] = amount[u]
  PROVE  /\ Trail(at)' /\ SpentToday' = SpentToday
         /\ CountedToday' = CountedToday => Counted' = Counted
  <1>1. \A i : PaidAfter(at, i)' = PaidAfter(at, i)
    BY DEF PaidAfter, IsPaid
  <1>2. PaidToday' = PaidToday
    BY DEF PaidToday
  <1>3. \A S \in SUBSET Ops : (\A u \in S : IsPaid(u)) => SumFunctionOnSet(Spending', S) = SumFunctionOnSet(Spending, S)
    BY SpendingSame
  <1>4. ASSUME NEW i PROVE SpentAfter(at, i)' = SpentAfter(at, i)
    <2>1. PICK S : S = PaidAfter(at, i)
      OBVIOUS
    <2>2. SumFunctionOnSet(Spending', S) = SumFunctionOnSet(Spending, S)
      BY <1>3, <2>1, PaidSets
    <2>3. SpentAfter(at, i)' = SumFunctionOnSet(Spending', S)
      BY <1>1, <2>1 DEF SpentAfter
    <2> QED BY <2>1, <2>2, <2>3 DEF SpentAfter
  <1>5. Trail(at)'
    BY <1>4 DEF PromiseInv, Trail
  <1>6. SpentToday' = SpentToday
    BY <1>2, <1>3, PaidSets DEF SpentToday
  <1>7. CountedToday' = CountedToday => Counted' = Counted
    BY <1>3, PaidSets DEF Counted
  <1> QED BY <1>5, <1>6, <1>7

\* The messages, and the counter, when nothing of theirs changes.
LEMMA Unmoved ==
  ASSUME Typed, NEW at, PromiseInv(at),
         UNCHANGED <<realAt, clock, today, mainBalance, lastBalanceAt, sentToday, financialDay, fee, paidOn, applied, sms>>
  PROVE  /\ \A m \in sms' : MessageTrue(m, at)'
         /\ BalanceTrue' /\ SentNowOf' = SentNowOf
  <1>1. \A m \in sms : MessageTrue(m, at)
    BY DEF PromiseInv
  <1> QED BY <1>1 DEF PromiseInv, MessageTrue, IsPaid, BalanceTrue, SentNowOf

\* A transfer is given to the SIM within what the balance and the limit leave.
LEMMA AdmitKeeps ==
  ASSUME Typed, Typed', NEW at, PromiseInv(at), NEW t \in Ops, NEW n \in Nat, state[t] = "none",
         state' = [state EXCEPT ![t] = "queued"], amount' = [amount EXCEPT ![t] = n],
         mainBalance - reserved >= n + SimFee, SentNowOf + reserved + (n + SimFee) <= DailyLimit,
         UNCHANGED <<realAt, clock, today, mainBalance, lastBalanceAt, sentToday, financialDay, fee, paidOn, applied, sms>>
  PROVE  PromiseInv(at)'
  <1>1. PaymentKnown(t, at) /\ \A u \in Ops : PaymentKnown(u, at)
    BY DEF PromiseInv
  <1>2. ~IsPaid(t)
    BY <1>1 DEF PaymentKnown
  <1>3. /\ state'[t] = "queued" /\ amount'[t] = n /\ \A u \in Ops \ {t} : state'[u] = state[u] /\ amount'[u] = amount[u]
        /\ \A u \in Ops : paidOn'[u] = paidOn[u]
    BY DEF Typed, WalletInv, WalletTyped, Ops
  <1>4. \A u \in Ops : IsPaid(u) => amount'[u] = amount[u]
    BY <1>2, <1>3
  <1>5. CountedToday' = CountedToday
    BY <1>3 DEF CountedToday
  <1>6. Trail(at)' /\ SpentToday' = SpentToday /\ Counted' = Counted
    BY <1>4, <1>5, NothingPaid
  <1>7. (\A m \in sms' : MessageTrue(m, at)') /\ BalanceTrue' /\ SentNowOf' = SentNowOf
    BY Unmoved
  <1>8. ASSUME NEW u \in Ops PROVE PaymentKnown(u, at)'
    <2>1. CASE u = t
      BY <1>1, <1>2, <1>3, <2>1 DEF PaymentKnown, IsPaid
    <2>2. CASE u # t
      BY <1>1, <1>3, <2>2 DEF PaymentKnown, IsPaid
    <2> QED BY <2>1, <2>2
  <1>9. Due' = Due + (n + SimFee)
    <2>1. t \notin Promised /\ t \in Promised'
      BY <1>2, <1>3 DEF Promised, IsPaid, IsOpen
    <2>2. Due' = Due - Part(t \in Promised, amount[t] + SimFee) + Part(t \in Promised', amount'[t] + SimFee)
      BY <1>3, DueMoves
    <2>3. Due \in Nat /\ SimFee \in Nat
      BY SumsKnown, WalletKnown
    <2>4. Part(t \in Promised, amount[t] + SimFee) = 0 /\ Part(t \in Promised', amount'[t] + SimFee) = n + SimFee
      BY <1>3, <2>1 DEF Part
    <2> QED BY <2>2, <2>3, <2>4
  <1>10. /\ SpentAfter(at, lastBalanceAt) + Due <= reserved
         /\ SpentToday + Due <= Counted + reserved
    BY ReservedCovers
  <1>11. realAt[clock] + SpentAfter(at, lastBalanceAt) >= realAt[lastBalanceAt] /\ mainBalance <= realAt[lastBalanceAt]
    <2>1. lastBalanceAt \in 0..clock
      BY WalletKnown DEF PromiseInv, BalanceTrue
    <2> QED BY <2>1 DEF PromiseInv, BalanceTrue, Trail
  <1>12. /\ realAt[clock] \in Nat /\ SpentAfter(at, lastBalanceAt) \in Nat /\ Due \in Nat /\ realAt[lastBalanceAt] \in Nat
         /\ mainBalance \in Int /\ reserved \in Nat /\ SimFee \in Nat /\ SpentToday \in Nat /\ Counted \in Nat
         /\ SentNowOf \in Nat /\ DailyLimit \in Nat
    BY SumsKnown, WalletKnown
  <1>13. realAt[clock] >= Due + (n + SimFee)
    BY <1>10, <1>11, <1>12
  <1>14. Counted <= SentNowOf
    BY DEF PromiseInv
  <1>15. SpentToday + (Due + (n + SimFee)) <= DailyLimit
    BY <1>10, <1>12, <1>14
  <1>16. at \in [Ops -> Nat] /\ realAt'[clock'] = realAt[clock]
    BY DEF PromiseInv
  <1> QED BY <1>6, <1>7, <1>8, <1>9, <1>13, <1>14, <1>15, <1>16 DEF PromiseInv

\* An unpaid transfer is dropped, or a transfer's outcome becomes unknown.
LEMMA SettleKeeps ==
  ASSUME Typed, Typed', NEW at, PromiseInv(at), NEW t \in Ops, IsOpen(state[t]), NEW st,
         st = "unknown" \/ (st = "failed" /\ ~IsPaid(t)),
         state' = [state EXCEPT ![t] = st],
         UNCHANGED <<realAt, clock, today, mainBalance, lastBalanceAt, sentToday, financialDay, amount, fee, paidOn, applied, sms>>
  PROVE  PromiseInv(at)'
  <1>1. \A u \in Ops : PaymentKnown(u, at)
    BY DEF PromiseInv
  <1>2. state'[t] = st /\ \A u \in Ops \ {t} : state'[u] = state[u]
    BY DEF Typed, WalletInv, WalletTyped, Ops
  <1>3. CountedToday' = CountedToday
    BY <1>2 DEF CountedToday, IsOpen
  <1>4. Trail(at)' /\ SpentToday' = SpentToday /\ Counted' = Counted
    BY <1>3, NothingPaid
  <1>5. (\A m \in sms' : MessageTrue(m, at)') /\ BalanceTrue' /\ SentNowOf' = SentNowOf
    BY Unmoved
  <1>6. ASSUME NEW u \in Ops PROVE PaymentKnown(u, at)'
    <2>1. CASE u = t
      BY <1>1, <1>2, <2>1 DEF PaymentKnown, IsPaid
    <2>2. CASE u # t
      BY <1>1, <1>2, <2>2 DEF PaymentKnown, IsPaid
    <2> QED BY <2>1, <2>2
  <1>7. Due' <= Due
    <2>1. PICK n : n = amount[t] + SimFee
      OBVIOUS
    <2>2. Due' = Due - Part(t \in Promised, n) + Part(t \in Promised', n)
      <3>1. \A u \in Ops \ {t} : state'[u] = state[u] /\ amount'[u] = amount[u] /\ paidOn'[u] = paidOn[u]
        BY <1>2
      <3> QED BY <2>1, <3>1, DueMoves
    <2>3. t \in Promised' => t \in Promised
      BY DEF Promised, IsPaid
    <2>4. Due \in Nat /\ n \in Nat
      BY <2>1, SumsKnown, WalletKnown
    <2> QED BY <2>2, <2>3, <2>4 DEF Part
  <1>8. /\ at \in [Ops -> Nat] /\ Counted <= SentNowOf /\ SpentToday + Due <= DailyLimit /\ realAt[clock] >= Due
        /\ realAt'[clock'] = realAt[clock]
    BY DEF PromiseInv
  <1>9. Due \in Nat /\ SpentToday \in Nat /\ DailyLimit \in Nat /\ realAt[clock] \in Nat
    BY SumsKnown, WalletKnown
  <1>10. Due' \in Nat
    <2>1. \A x \in Ops : Needs'[x] \in Nat
      <3> SUFFICES ASSUME NEW x \in Ops PROVE Needs'[x] \in Nat
        OBVIOUS
      <3>1. Needs' = Needs
        BY DEF Needs, Needed
      <3> QED BY <3>1, SumsKnown
    <2>2. Promised' \in SUBSET Ops
      BY DEF Promised
    <2>3. PICK S, h : S = Promised' /\ h = Needs'
      OBVIOUS
    <2>4. IsFiniteSet(S) /\ \A x \in S : h[x] \in Nat
      BY <2>1, <2>2, <2>3, WalletKnown, FS_Subset
    <2>5. SumFunctionOnSet(h, S) \in Nat
      BY <2>4, SumNat
    <2> QED BY <2>3, <2>5 DEF Due
  <1>11. SpentToday + Due' <= DailyLimit /\ realAt[clock] >= Due'
    <2>1. PICK a, b, c, d, r : a = SpentToday /\ b = Due /\ c = Due' /\ d = DailyLimit /\ r = realAt[clock]
      OBVIOUS
    <2>2. a + b <= d /\ r >= b /\ c <= b
      BY <1>7, <1>8, <2>1
    <2>3. a \in Nat /\ b \in Nat /\ c \in Nat /\ d \in Nat /\ r \in Nat
      BY <1>9, <1>10, <2>1
    <2>4. a + c <= d /\ r >= c
      BY <2>2, <2>3
    <2> QED BY <2>1, <2>4
  <1> QED BY <1>4, <1>5, <1>6, <1>8, <1>11 DEF PromiseInv

LEMMA NewDayPromises ==
  ASSUME Typed, NEW at, PromiseInv(at), Wallet(FALSE)!NewDay
  PROVE  PromiseInv(at)'
  <1>1. today' = today + 1
        /\ UNCHANGED <<realAt, clock, mainBalance, lastBalanceAt, reserved, sentToday, financialDay, active, state, amount, fee, paidOn, applied, retries, sms>>
    BY DEF Wallet!NewDay, Wallet!wallet, Wallet!provider, Wallet!transfer
  <1>2. \A u \in Ops : PaymentKnown(u, at)
    BY DEF PromiseInv
  <1>3. today \in Nat /\ sentToday \in Nat /\ DailyLimit \in Nat /\ Due \in Nat /\ SpentToday \in Nat
    BY WalletKnown, SumsKnown DEF Typed, WalletInv, WalletTyped
  <1>4. ASSUME NEW u \in Ops PROVE paidOn[u] # today + 1 /\ PaymentKnown(u, at)'
    <2>1. paidOn[u] \in Int /\ (paidOn[u] # -1 => paidOn[u] <= today) /\ PaymentKnown(u, at)
      BY <1>2, WalletKnown DEF PaymentKnown, IsPaid
    <2>2. paidOn[u] # today + 1 /\ (paidOn[u] # -1 => paidOn[u] <= today + 1)
      BY <1>3, <2>1
    <2> QED BY <1>1, <2>1, <2>2 DEF PaymentKnown, IsPaid
  <1>5. PaidToday' = {} /\ CountedToday' = {}
    BY <1>1, <1>4 DEF PaidToday, CountedToday
  <1>6. SpentToday' = 0 /\ Counted' = 0
    BY <1>5, SumEmpty DEF SpentToday, Counted
  <1>7. Due' = Due
    <2>1. Promised' = Promised
      BY <1>1 DEF Promised, IsPaid
    <2> QED BY <1>1, <2>1, DueSame
  <1>8. SentNowOf' >= 0
    BY <1>1, <1>3 DEF SentNowOf
  <1>9. Trail(at)'
    <2>1. \A i : SpentAfter(at, i)' = SpentAfter(at, i)
      BY <1>1 DEF SpentAfter, Spending, PaidAfter, IsPaid
    <2> QED BY <1>1, <2>1 DEF PromiseInv, Trail
  <1>10. \A m \in sms' : MessageTrue(m, at)'
    BY <1>1 DEF PromiseInv, MessageTrue, IsPaid
  <1>11. SpentToday' + Due' <= DailyLimit
    BY <1>3, <1>6, <1>7 DEF PromiseInv
  <1>12. Counted' <= SentNowOf'
    BY <1>6, <1>8
  <1>13. BalanceTrue' /\ realAt'[clock'] >= Due' /\ at \in [Ops -> Nat]
    BY <1>1, <1>7 DEF PromiseInv, BalanceTrue
  <1> QED BY <1>4, <1>9, <1>10, <1>11, <1>12, <1>13 DEF PromiseInv

-----------------------------------------------------------------------------
(* The provider's and the staff's instants *)

LEMMA TickTrail ==
  ASSUME Typed, NEW at, NEW later, PromiseInv(at), NEW d \in Int, NEW spent \in Nat,
         Wallet(FALSE)!Tick(d), realAt[clock] + d >= 0, d + spent >= 0,
         \A i \in 0..clock : SpentAfter(later, i)' = SpentAfter(at, i) + spent,
         SpentAfter(later, clock)' \in Nat
  PROVE  /\ Trail(later)' /\ clock' = clock + 1 /\ realAt'[clock'] = realAt[clock] + d
         /\ \A i \in 0..clock : realAt'[i] = realAt[i]
  <1>1. /\ clock' = clock + 1 /\ realAt'[clock'] = realAt[clock] + d
        /\ \A i \in 0..clock : realAt'[i] = realAt[i]
    BY TickTyped DEF Typed, WalletInv
  <1>2. clock \in Nat /\ realAt[clock] \in Nat /\ realAt'[clock'] \in Nat
    BY <1>1, WalletKnown
  <1>3. ASSUME NEW i \in 0..clock'
        PROVE  realAt'[clock'] + SpentAfter(later, i)' >= realAt'[i]
    <2>1. CASE i = clock + 1
      <3>1. SpentAfter(later, i)' \in Nat /\ i = clock'
        BY <1>1, <2>1
      <3> QED BY <1>2, <3>1
    <2>2. CASE i # clock + 1
      <3>1. i \in 0..clock
        BY <1>1, <1>2, <2>2
      <3>2. PICK x, a, r : x = realAt[i] /\ a = SpentAfter(at, i) /\ r = realAt[clock]
        OBVIOUS
      <3>3. r + a >= x
        BY <3>1, <3>2 DEF PromiseInv, Trail
      <3>4. r \in Nat /\ a \in Nat /\ x \in Nat
        <4>1. i \in 0..MaxTimeOf(FALSE)
          <5>1. PICK k, n : k = clock /\ n = MaxTimeOf(FALSE)
            OBVIOUS
          <5>2. k \in Nat /\ n \in Nat /\ k \in 0..n /\ i \in 0..k
            BY <3>1, <5>1, WalletKnown
          <5>3. i \in 0..n
            BY <5>2
          <5> QED BY <5>1, <5>3
        <4> QED BY <1>2, <3>2, <4>1, SumsKnown, WalletKnown
      <3>5. realAt'[clock'] = r + d /\ SpentAfter(later, i)' = a + spent /\ realAt'[i] = x
        BY <1>1, <3>1, <3>2
      <3>6. (r + d) + (a + spent) >= x
        BY <3>3, <3>4
      <3> QED BY <3>5, <3>6
    <2> QED BY <2>1, <2>2
  <1> QED BY <1>1, <1>3 DEF Trail

\* An instant that pays nothing.
LEMMA QuietTick ==
  ASSUME Typed, NEW at, PromiseInv(at), NEW d \in Nat, Wallet(FALSE)!Tick(d), UNCHANGED <<amount, fee, paidOn>>
  PROVE  /\ Trail(at)' /\ clock' = clock + 1 /\ realAt'[clock'] = realAt[clock] + d
         /\ \A i \in 0..clock : realAt'[i] = realAt[i]
  <1>1. \A i : SpentAfter(at, i)' = SpentAfter(at, i) /\ SpentAfter(at, i) \in Nat
    BY SumsKnown DEF SpentAfter, Spending, PaidAfter, IsPaid
  <1>2. \A i \in 0..clock : SpentAfter(at, i)' = SpentAfter(at, i) + 0
    BY <1>1
  <1>3. d \in Int /\ realAt[clock] + d >= 0 /\ d + 0 >= 0 /\ 0 \in Nat
    BY WalletKnown
  <1>4. SpentAfter(at, clock)' \in Nat
    BY <1>1
  <1> QED BY <1>2, <1>3, <1>4, TickTrail

LEMMA MovementPromises ==
  ASSUME Typed, NEW at, PromiseInv(at), NEW d \in Nat, NEW kind \in {"in", "balance"}, Wallet(FALSE)!Moves(d, kind, "none"),
         UNCHANGED <<today, mainBalance, lastBalanceAt, sentToday, financialDay, state, amount, fee, paidOn, applied>>
  PROVE  PromiseInv(at)'
  <1>1. /\ Wallet(FALSE)!Tick(d)
        /\ sms' = sms \cup {[kind |-> kind, of |-> "none", at |-> clock + 1, shows |-> TRUE]}
    BY DEF Wallet!Moves
  <1>2. /\ Trail(at)' /\ clock' = clock + 1 /\ realAt'[clock'] = realAt[clock] + d
        /\ \A i \in 0..clock : realAt'[i] = realAt[i]
    BY <1>1, QuietTick
  <1>3. clock \in Nat /\ realAt[clock] \in Nat /\ lastBalanceAt \in Nat /\ Due \in Nat
    BY WalletKnown, SumsKnown
  <1>4. ASSUME NEW m \in sms' PROVE MessageTrue(m, at)'
    <2>1. CASE m \in sms
      <3>1. MessageTrue(m, at) /\ m.at \in Nat
        BY <2>1, WalletKnown DEF PromiseInv
      <3>2. m.at <= clock + 1
        BY <1>3, <3>1 DEF MessageTrue
      <3> QED BY <1>2, <3>1, <3>2 DEF MessageTrue, IsPaid
    <2>2. CASE m = [kind |-> kind, of |-> "none", at |-> clock + 1, shows |-> TRUE]
      BY <1>2, <1>3, <2>2 DEF MessageTrue
    <2> QED BY <1>1, <2>1, <2>2
  <1>5. ASSUME NEW u \in Ops PROVE PaymentKnown(u, at)'
    <2>1. PaymentKnown(u, at) /\ at[u] \in Nat
      BY DEF PromiseInv
    <2>2. at[u] <= clock => at[u] <= clock + 1
      BY <1>3, <2>1
    <2> QED BY <1>2, <2>1, <2>2 DEF PaymentKnown, IsPaid
  <1>6. BalanceTrue'
    <2>1. lastBalanceAt \in 0..clock /\ mainBalance <= realAt[lastBalanceAt]
      BY <1>3 DEF PromiseInv, BalanceTrue
    <2> QED BY <1>2, <1>3, <2>1 DEF BalanceTrue
  <1>7. Due' = Due /\ SpentToday' = SpentToday /\ Counted' = Counted /\ SentNowOf' = SentNowOf
    BY DEF Due, Needs, Needed, Promised, IsPaid, SpentToday, PaidToday, Counted, CountedToday, Spending, SentNowOf
  <1>8. realAt'[clock'] >= Due'
    <2>1. realAt[clock] >= Due
      BY DEF PromiseInv
    <2> QED BY <1>2, <1>3, <1>7, <2>1
  <1> QED BY <1>2, <1>4, <1>5, <1>6, <1>7, <1>8 DEF PromiseInv

\* What a step counts as sent is all it adds to the day's confirmed payments.
LEMMA CountKeeps ==
  ASSUME Typed, NEW at, PromiseInv(at), NEW t \in Ops, UNCHANGED <<today, amount, fee, paidOn>>,
         Wallet(FALSE)!CountSent(Wallet(FALSE)!Outflow(t)), CountedToday' \subseteq CountedToday \cup {t}
  PROVE  Counted' <= SentNowOf'
  <1>1. PICK S, C, g : S = CountedToday' /\ C = CountedToday /\ g = Spending
    OBVIOUS
  <1>2. Spending' = g
    BY <1>1 DEF Spending
  <1>3. \A x \in Ops : g[x] \in Nat
    BY <1>1, SumsKnown
  <1>4. IsFiniteSet(Ops) /\ S \subseteq Ops /\ C \subseteq Ops /\ {t} \subseteq Ops
    BY <1>1, WalletKnown DEF CountedToday
  <1>5. ASSUME NEW x \in Ops
        PROVE  Part(x \in S, g[x]) + Part(x \in {}, g[x]) <= Part(x \in C, g[x]) + Part(x \in {t}, g[x])
    <2>1. g[x] \in Nat
      BY <1>3
    <2>2. CASE x \in S
      <3>1. x \in C \/ x \in {t}
        BY <1>1, <2>2
      <3> QED BY <2>1, <2>2, <3>1 DEF Part
    <2>3. CASE x \notin S
      BY <2>1, <2>3 DEF Part
    <2> QED BY <2>2, <2>3
  <1>6. Below(Ops, g, g, S, {}, C, {t})
    BY <1>3, <1>4, <1>5 DEF Below
  <1>7. SumFunctionOnSet(g, S) + SumFunctionOnSet(g, {}) <= SumFunctionOnSet(g, C) + SumFunctionOnSet(g, {t})
    BY <1>4, <1>6, SumsBelow
  <1>8. SumFunctionOnSet(g, {}) = 0 /\ SumFunctionOnSet(g, {t}) = g[t]
    <2>1. SumFunctionOnSet(g, {}) = 0
      BY SumEmpty
    <2>2. PICK R : R = {t}
      OBVIOUS
    <2>3. IsFiniteSet(R) /\ t \in R /\ R \ {t} = {} /\ \A x \in R : g[x] \in Int
      <3>1. IsFiniteSet({t}) /\ t \in {t} /\ {t} \ {t} = {}
        BY FS_Singleton
      <3>2. g[t] \in Nat
        BY <1>3
      <3> QED BY <2>2, <3>1, <3>2
    <2>4. SumFunctionOnSet(g, R) = g[t] + SumFunctionOnSet(g, R \ {t})
      BY <2>3, SumRemove
    <2>5. g[t] \in Nat
      BY <1>3
    <2> QED BY <2>1, <2>2, <2>3, <2>4, <2>5
  <1>9. SumFunctionOnSet(g, S) \in Nat
    <2>1. IsFiniteSet(S) /\ \A x \in S : g[x] \in Nat
      BY <1>3, <1>4, FS_Subset
    <2> QED BY <2>1, SumNat
  <1>10. Counted' = SumFunctionOnSet(g, S) /\ Counted = SumFunctionOnSet(g, C) /\ Counted <= SentNowOf /\ Counted \in Nat /\ SentNowOf \in Nat
    BY <1>1, <1>2, SumsKnown, WalletKnown DEF Counted, PromiseInv
  <1>11. SentNowOf' = SentNowOf + g[t]
    <2>1. FALSE \in BOOLEAN /\ Wallet(FALSE)!Outflow(t) \in Nat /\ Wallet(FALSE)!Outflow(t) = g[t]
      BY <1>1, OutflowNat, SumsKnown DEF Typed, Ops
    <2>2. financialDay' = today /\ sentToday' = SentNowOf + g[t]
      BY <2>1, CountTyped DEF Typed
    <2>3. SentNowOf' = sentToday'
      BY <2>2 DEF SentNowOf
    <2> QED BY <2>2, <2>3
  <1>12. g[t] \in Nat
    BY <1>3
  <1> QED BY <1>7, <1>8, <1>9, <1>10, <1>11, <1>12

LEMMA ResolvePromises ==
  ASSUME Typed, NEW at, PromiseInv(at), NEW t \in Ops, Wallet(FALSE)!ResolveSuccess(t)
  PROVE  PromiseInv(at)'
  <1>1. /\ state[t] = "unknown" /\ IsPaid(t) /\ Wallet(FALSE)!Tick(0) /\ state' = [state EXCEPT ![t] = "success"]
        /\ mainBalance' = realAt[clock] /\ lastBalanceAt' = clock'
        /\ IF t \in applied THEN UNCHANGED <<sentToday, financialDay>> ELSE Wallet(FALSE)!CountSent(Wallet(FALSE)!Outflow(t))
        /\ UNCHANGED <<today, active, amount, fee, paidOn, applied, retries, sms>>
    BY DEF Wallet!ResolveSuccess, Wallet!SetState, Wallet!real, Wallet!Paid, IsPaid
  <1>2. /\ Trail(at)' /\ clock' = clock + 1 /\ realAt'[clock'] = realAt[clock] + 0
        /\ \A i \in 0..clock : realAt'[i] = realAt[i]
    BY <1>1, QuietTick
  <1>3. clock \in Nat /\ realAt[clock] \in Nat
    BY WalletKnown
  <1>4. state'[t] = "success" /\ \A u \in Ops \ {t} : state'[u] = state[u]
    BY <1>1 DEF Typed, WalletInv, WalletTyped, Ops
  <1>5. ASSUME NEW m \in sms' PROVE MessageTrue(m, at)'
    <2>1. MessageTrue(m, at) /\ m.at \in Nat
      BY <1>1, WalletKnown DEF PromiseInv
    <2>2. m.at <= clock + 1
      BY <1>3, <2>1 DEF MessageTrue
    <2> QED BY <1>1, <1>2, <2>1, <2>2 DEF MessageTrue, IsPaid
  <1>6. ASSUME NEW u \in Ops PROVE PaymentKnown(u, at)'
    <2>1. PaymentKnown(u, at) /\ at[u] \in Nat
      BY DEF PromiseInv
    <2>2. at[u] <= clock => at[u] <= clock + 1
      BY <1>3, <2>1
    <2>3. CASE u = t
      BY <1>1, <1>2, <1>4, <2>1, <2>2, <2>3 DEF PaymentKnown, IsPaid
    <2>4. CASE u # t
      BY <1>1, <1>2, <1>4, <2>1, <2>2, <2>4 DEF PaymentKnown, IsPaid
    <2> QED BY <2>3, <2>4
  <1>7. BalanceTrue'
    BY <1>1, <1>2, <1>3 DEF BalanceTrue
  <1>8. Due' = Due
    <2>1. Promised' = Promised
      BY <1>1, <1>4 DEF Promised, IsPaid
    <2> QED BY <1>1, <2>1, DueSame
  <1>9. SpentToday' = SpentToday
    BY <1>1 DEF SpentToday, PaidToday, Spending
  <1>10. Counted' <= SentNowOf'
    <2>1. CASE t \in applied
      <3>1. CountedToday' = CountedToday
        BY <1>1, <1>4, <2>1 DEF CountedToday
      <3>2. Counted' = Counted /\ SentNowOf' = SentNowOf
        BY <1>1, <2>1, <3>1 DEF Counted, Spending, SentNowOf
      <3> QED BY <3>2 DEF PromiseInv
    <2>2. CASE t \notin applied
      <3>1. CountedToday' \subseteq CountedToday \cup {t}
        BY <1>1, <1>4 DEF CountedToday
      <3> QED BY <1>1, <2>2, <3>1, CountKeeps
    <2> QED BY <2>1, <2>2
  <1>11. realAt'[clock'] >= Due'
    <2>1. realAt[clock] >= Due
      BY DEF PromiseInv
    <2> QED BY <1>2, <1>3, <1>8, <2>1
  <1> QED BY <1>2, <1>5, <1>6, <1>7, <1>8, <1>9, <1>10, <1>11 DEF PromiseInv

\* The provider charges no more than reserveProviderFeeMinor. An overrun is not
\* covered by a reservation: it becomes a case (recordFeeOverrun).
FeesReserved == \A f \in SimFees : f <= SimFee

\* A payment is of the latest instant; it was promised, and is spent now.
LEMMA PayPromises ==
  ASSUME FeesReserved, Typed, Typed', NEW at, PromiseInv(at), NEW t \in Ops, Wallet(FALSE)!Pay(t)
  PROVE  \E later : PromiseInv(later)'
  <1>1. PICK f \in SimFees :
          /\ state[t] = "queued" /\ ~IsPaid(t) /\ realAt[clock] >= amount[t] + f
          /\ Wallet(FALSE)!Tick(0 - amount[t] - f)
          /\ sms' = sms \cup {[kind |-> "out", of |-> t, at |-> clock + 1, shows |-> TRUE]}
          /\ fee' = [fee EXCEPT ![t] = f]
          /\ paidOn' = [paidOn EXCEPT ![t] = today]
          /\ UNCHANGED <<today, mainBalance, lastBalanceAt, sentToday, financialDay, state, amount, applied>>
    BY DEF Wallet!Pay, Wallet!Moves, Wallet!wallet, Wallet!real, Wallet!Paid, IsPaid
  <1>2. PICK a, c : a = amount[t] /\ c = clock + 1
    OBVIOUS
  <1>3. /\ f \in Nat /\ f <= SimFee /\ SimFee \in Nat /\ a \in Nat /\ clock \in Nat /\ c \in Nat /\ realAt[clock] \in Nat
        /\ today \in Nat /\ today # -1 /\ Due \in Nat /\ SpentToday \in Nat /\ DailyLimit \in Nat
    <2>1. /\ SimFee \in Nat /\ SimFees \subseteq Nat /\ a \in Nat /\ clock \in Nat /\ realAt[clock] \in Nat
          /\ today \in Nat /\ Due \in Nat /\ SpentToday \in Nat /\ DailyLimit \in Nat
      BY <1>2, WalletKnown, SumsKnown
    <2>2. f \in Nat /\ f <= SimFee
      BY <2>1 DEF FeesReserved
    <2>3. c \in Nat /\ today # -1
      BY <1>2, <2>1
    <2> QED BY <2>1, <2>2, <2>3
  <1>4. PICK later : later = [at EXCEPT ![t] = c]
    OBVIOUS
  <1>5. /\ later \in [Ops -> Nat] /\ at \in [Ops -> Nat] /\ later[t] = c
        /\ \A u \in Ops \ {t} : later[u] = at[u]
    BY <1>3, <1>4 DEF PromiseInv
  <1>6. /\ paidOn'[t] = today /\ fee'[t] = f /\ amount' = amount
        /\ \A u \in Ops \ {t} : paidOn'[u] = paidOn[u] /\ fee'[u] = fee[u]
    BY <1>1 DEF Typed, WalletInv, WalletTyped, Ops
  <1>7. IsPaid(t)' /\ \A u \in Ops \ {t} : IsPaid(u)' <=> IsPaid(u)
    BY <1>3, <1>6 DEF IsPaid
  <1>8. \A u \in Ops : PaymentKnown(u, at) /\ at[u] \in Nat
    BY DEF PromiseInv
  \* The outflow of a set to which t is added.
  <1>9. ASSUME NEW S \in SUBSET Ops, t \notin S
        PROVE  SumFunctionOnSet(Spending', S) = SumFunctionOnSet(Spending, S)
    <2>1. \A u \in S : amount'[u] = amount[u] /\ fee'[u] = fee[u]
      BY <1>6, <1>9
    <2> QED BY <2>1, SpendingSame
  <1>10. ASSUME NEW S \in SUBSET Ops, t \notin S
         PROVE  SumFunctionOnSet(Spending', S \cup {t}) = SumFunctionOnSet(Spending, S) + (a + f)
    <2>1. PICK h : h = Spending'
      OBVIOUS
    <2>2. h[t] = a + f
      BY <1>2, <1>6, <2>1 DEF Spending
    <2>3. \A u \in Ops \ {t} : h[u] = Spending[u] /\ Spending[u] \in Nat
      <3> SUFFICES ASSUME NEW u \in Ops \ {t} PROVE h[u] = Spending[u] /\ Spending[u] \in Nat
        OBVIOUS
      <3>1. h[u] = amount'[u] + fee'[u] /\ Spending[u] = amount[u] + fee[u]
        BY <2>1 DEF Spending
      <3> QED BY <1>6, <3>1, SumsKnown
    <2>4. IsFiniteSet(S) /\ h[t] \in Int /\ \A u \in S : h[u] \in Int
      <3>1. IsFiniteSet(S)
        BY WalletKnown, FS_Subset
      <3>2. a + f \in Int
        BY <1>3
      <3>3. \A u \in S : h[u] \in Int
        BY <1>10, <2>3
      <3> QED BY <2>2, <3>1, <3>2, <3>3
    <2>5. SumFunctionOnSet(h, S \cup {t}) = SumFunctionOnSet(h, S) + h[t]
      BY <1>10, <2>4, SumAdd
    <2>6. SumFunctionOnSet(h, S) = SumFunctionOnSet(Spending, S)
      BY <1>9, <1>10, <2>1
    <2> QED BY <2>1, <2>2, <2>5, <2>6
  <1>11. \A i \in 0..clock : SpentAfter(later, i)' = SpentAfter(at, i) + (a + f)
    <2> SUFFICES ASSUME NEW i \in 0..clock PROVE SpentAfter(later, i)' = SpentAfter(at, i) + (a + f)
      OBVIOUS
    <2>1. PICK S : S = PaidAfter(at, i)
      OBVIOUS
    <2>2. S \in SUBSET Ops /\ t \notin S
      BY <1>1, <2>1 DEF PaidAfter
    <2>3. c > i
      BY <1>2, <1>3
    <2>4. PaidAfter(later, i)' = S \cup {t}
      BY <1>5, <1>7, <2>1, <2>3 DEF PaidAfter
    <2> QED BY <1>10, <2>1, <2>2, <2>4 DEF SpentAfter
  <1>12. SpentAfter(later, clock)' \in Nat
    <2>1. clock' = c
      BY <1>1, <1>2 DEF Wallet!Tick
    <2>2. ASSUME NEW u \in Ops, IsPaid(u)' PROVE ~(later[u] > clock')
      <3>1. CASE u = t
        BY <1>3, <1>5, <2>1, <3>1
      <3>2. CASE u # t
        <4>1. at[u] <= clock /\ at[u] \in Nat /\ later[u] = at[u]
          BY <1>5, <1>7, <1>8, <2>2, <3>2 DEF PaymentKnown
        <4> QED BY <1>2, <1>3, <2>1, <4>1
      <3> QED BY <3>1, <3>2
    <2>3. PaidAfter(later, clock)' = {}
      BY <2>2 DEF PaidAfter
    <2>4. SpentAfter(later, clock)' = 0
      BY <2>3, SumEmpty DEF SpentAfter
    <2> QED BY <2>4
  <1>13. /\ Trail(later)' /\ clock' = c /\ realAt'[clock'] = realAt[clock] + (0 - a - f)
         /\ \A i \in 0..clock : realAt'[i] = realAt[i]
    <2>1. PICK d : d = 0 - amount[t] - f
      OBVIOUS
    <2>2. d \in Int /\ a + f \in Nat /\ realAt[clock] + d >= 0 /\ d + (a + f) >= 0 /\ d = 0 - a - f
      BY <1>1, <1>2, <1>3, <2>1
    <2>3. Wallet(FALSE)!Tick(d)
      BY <1>1, <2>1
    <2>4. /\ Trail(later)' /\ clock' = clock + 1 /\ realAt'[clock'] = realAt[clock] + d
          /\ \A i \in 0..clock : realAt'[i] = realAt[i]
      BY <1>11, <1>12, <2>2, <2>3, TickTrail
    <2> QED BY <1>2, <2>2, <2>4
  <1>14. ASSUME NEW m \in sms' PROVE MessageTrue(m, later)'
    <2>1. CASE m \in sms
      <3>1. MessageTrue(m, at) /\ m.at \in Nat /\ (m.kind = "out" => m.of \in Ops)
        BY <2>1, WalletKnown DEF PromiseInv
      <3>2. m.at <= c
        BY <1>2, <1>3, <3>1 DEF MessageTrue
      <3>3. m.kind = "out" => m.of # t /\ IsPaid(m.of)' /\ later[m.of] = m.at
        BY <1>1, <1>5, <1>7, <3>1 DEF MessageTrue
      <3> QED BY <1>13, <3>1, <3>2, <3>3 DEF MessageTrue
    <2>2. CASE m = [kind |-> "out", of |-> t, at |-> clock + 1, shows |-> TRUE]
      <3>1. m.of = t /\ m.at = c /\ m.shows = TRUE /\ c <= c
        BY <1>2, <1>3, <2>2
      <3> QED BY <1>5, <1>7, <1>13, <3>1 DEF MessageTrue
    <2> QED BY <1>1, <2>1, <2>2
  <1>15. ASSUME NEW u \in Ops PROVE PaymentKnown(u, later)'
    <2>1. CASE u = t
      <3>1. later[t] <= clock' /\ state'[t] = "queued" /\ fee'[t] <= SimFee /\ paidOn'[t] <= today'
        BY <1>1, <1>3, <1>5, <1>6, <1>13
      <3> QED BY <1>7, <2>1, <3>1 DEF PaymentKnown
    <2>2. CASE u # t
      <3>1. at[u] <= clock => at[u] <= c
        BY <1>2, <1>3, <1>8
      <3>2. /\ later[u] = at[u] /\ clock' = c /\ state'[u] = state[u] /\ fee'[u] = fee[u] /\ paidOn'[u] = paidOn[u]
            /\ (IsPaid(u)' <=> IsPaid(u)) /\ today' = today /\ lastBalanceAt' = lastBalanceAt /\ applied' = applied
        BY <1>1, <1>5, <1>6, <1>7, <1>13, <2>2
      <3> QED BY <1>8, <3>1, <3>2 DEF PaymentKnown
    <2> QED BY <2>1, <2>2
  <1>16. BalanceTrue'
    <2>1. lastBalanceAt \in 0..clock /\ mainBalance <= realAt[lastBalanceAt] /\ lastBalanceAt <= c
      BY <1>2, <1>3, WalletKnown DEF PromiseInv, BalanceTrue
    <2> QED BY <1>1, <1>13, <2>1 DEF BalanceTrue
  <1>17. Due' = Due - (a + SimFee)
    <2>1. t \in Promised /\ t \notin Promised'
      BY <1>1, <1>7 DEF Promised, IsOpen
    <2>2. \A u \in Ops \ {t} : state'[u] = state[u] /\ amount'[u] = amount[u] /\ paidOn'[u] = paidOn[u]
      BY <1>1, <1>6
    <2>3. Due' = Due - Part(t \in Promised, amount[t] + SimFee) + Part(t \in Promised', amount'[t] + SimFee)
      BY <2>2, DueMoves
    <2>4. Part(t \in Promised, amount[t] + SimFee) = a + SimFee /\ Part(t \in Promised', amount'[t] + SimFee) = 0
      BY <1>2, <2>1 DEF Part
    <2> QED BY <1>3, <2>3, <2>4
  <1>18. SpentToday' = SpentToday + (a + f)
    <2>1. PICK S : S = PaidToday
      OBVIOUS
    <2>2. S \in SUBSET Ops /\ t \notin S
      BY <1>1, <1>3, <2>1 DEF PaidToday, IsPaid
    <2>3. PaidToday' = S \cup {t}
      BY <1>1, <1>6, <2>1 DEF PaidToday
    <2> QED BY <1>10, <2>1, <2>2, <2>3 DEF SpentToday
  <1>19. Counted' = Counted /\ SentNowOf' = SentNowOf
    <2>1. PICK S : S = CountedToday
      OBVIOUS
    <2>2. S \in SUBSET Ops /\ t \notin S
      BY <1>1, <1>3, <2>1 DEF CountedToday, IsPaid
    <2>3. t \notin applied /\ state[t] # "success"
      BY <1>1, <1>8 DEF PaymentKnown
    <2>4. CountedToday' = S
      BY <1>1, <1>6, <2>1, <2>3 DEF CountedToday
    <2>5. Counted' = Counted
      BY <1>9, <2>1, <2>2, <2>4 DEF Counted
    <2> QED BY <1>1, <2>5 DEF SentNowOf
  <1>20. SpentToday' + Due' <= DailyLimit /\ realAt'[clock'] >= Due' /\ Counted' <= SentNowOf'
    <2>1. SpentToday + Due <= DailyLimit /\ realAt[clock] >= Due /\ Counted <= SentNowOf
      BY DEF PromiseInv
    <2>2. (SpentToday + (a + f)) + (Due - (a + SimFee)) <= DailyLimit /\ realAt[clock] + (0 - a - f) >= Due - (a + SimFee)
      BY <1>3, <2>1
    <2> QED BY <1>13, <1>17, <1>18, <1>19, <2>1, <2>2
  <1> QED BY <1>5, <1>13, <1>14, <1>15, <1>16, <1>20 DEF PromiseInv

-----------------------------------------------------------------------------
(* The messages *)

\* What never falls from one instant to the next has not fallen.
LEMMA NeverFell ==
  ASSUME NEW i \in Nat, NEW c \in Nat, NEW j \in i..c, NEW f, \A l \in i..c : f[l] \in Nat,
         \A l \in i..(c - 1) : f[l + 1] >= f[l]
  PROVE  f[i] <= f[j]
  <1> DEFINE Bad == {k \in i..c : ~(f[i] <= f[k])}
  <1>1. SUFFICES ASSUME Bad # {} PROVE FALSE
    OBVIOUS
  <1>2. Bad \in SUBSET Nat
    <2>1. \A k \in i..c : k \in Nat
      OBVIOUS
    <2> QED BY <2>1
  <1>3. PICK k \in Bad : \A l \in Bad : k <= l
    BY <1>1, <1>2, LeastNat
  <1>4. k \in Nat /\ k \in i..c /\ ~(f[i] <= f[k])
    <2>1. k \in i..c /\ ~(f[i] <= f[k])
      OBVIOUS
    <2>2. k \in Nat
      BY <2>1
    <2> QED BY <2>1, <2>2
  <1>5. k # i
    <2>1. i \in i..c
      OBVIOUS
    <2>2. f[i] \in Nat
      BY <2>1
    <2> QED BY <1>4, <2>2
  <1>6. k - 1 \in i..(c - 1) /\ k - 1 \in i..c /\ (k - 1) + 1 = k /\ ~(k <= k - 1)
    BY <1>4, <1>5
  <1>7. f[i] <= f[k - 1]
    BY <1>3, <1>6
  <1>8. f[(k - 1) + 1] >= f[k - 1]
    BY <1>6
  <1>9. PICK x, y, z : x = f[i] /\ y = f[k - 1] /\ z = f[k]
    OBVIOUS
  <1>10. x \in Nat /\ y \in Nat /\ z \in Nat
    <2>1. i \in i..c
      OBVIOUS
    <2> QED BY <1>4, <1>6, <1>9, <2>1
  <1>11. x <= y /\ z >= y /\ ~(x <= z)
    BY <1>4, <1>6, <1>7, <1>8, <1>9
  <1> QED BY <1>10, <1>11

\* While nothing is paid the account only grows.
LEMMA HeldGrows ==
  ASSUME Typed, NEW i \in Nat, NEW j \in i..clock, Wallet(FALSE)!NothingPaid(i, j)
  PROVE  realAt[i] <= realAt[j]
  <1>1. PICK c, n, f : c = clock /\ n = MaxTimeOf(FALSE) /\ f = realAt
    OBVIOUS
  <1>2. c \in Nat /\ n \in Nat /\ c \in 0..n /\ f \in [0..n -> Nat]
    BY <1>1, WalletKnown
  <1>3. j \in Nat /\ j <= c
    BY <1>1, <1>2
  <1>4. \A l \in i..j : f[l] \in Nat
    <2> SUFFICES ASSUME NEW l \in i..j PROVE f[l] \in Nat
      OBVIOUS
    <2>1. l \in 0..n
      BY <1>2, <1>3
    <2> QED BY <1>2, <2>1
  <1>5. \A l \in i..(j - 1) : f[l + 1] >= f[l]
    BY <1>1 DEF Wallet!NothingPaid
  <1>6. j \in i..j
    BY <1>3
  <1>7. f[i] <= f[j]
    BY <1>3, <1>4, <1>5, <1>6, NeverFell
  <1> QED BY <1>1, <1>7

\* The date a message of the routine wallet gets: no payment lies between the
\* movement and it.
LEMMA DatesTrue ==
  ASSUME Typed, NEW m \in sms, NEW date \in Wallet(FALSE)!effectiveProviderOccurredAt(m)
  PROVE  /\ date \in Nat /\ date <= clock /\ m.at <= date
         /\ realAt[m.at] <= realAt[date]
  <1>1. m.at \in Nat /\ clock \in Nat
    BY WalletKnown
  <1>2. date \in m.at..clock /\ Wallet(FALSE)!NothingPaid(m.at, date)
    BY DEF Wallet!effectiveProviderOccurredAt
  <1>3. realAt[m.at] <= realAt[date]
    BY <1>1, <1>2, HeldGrows
  <1> QED BY <1>1, <1>2, <1>3

\* A message that reaches the balance is no older than it and shows no more than
\* what was held at the date it gives the balance.
LEMMA BalanceMutates ==
  ASSUME Typed, NEW at, PromiseInv(at), NEW m \in sms, NEW d, Wallet(FALSE)!transactionBalanceMutation(m, d),
         UNCHANGED <<realAt, clock>>
  PROVE  BalanceTrue' /\ lastBalanceAt <= lastBalanceAt' /\ m.at <= lastBalanceAt' /\ lastBalanceAt' \in Nat
  <1>1. MessageTrue(m, at) /\ BalanceTrue
    BY DEF PromiseInv
  <1>2. m.at \in Nat /\ lastBalanceAt \in Nat /\ clock \in Nat
    BY WalletKnown
  <1>3. PICK date \in Wallet(FALSE)!effectiveProviderOccurredAt(m) :
          IF date < lastBalanceAt THEN UNCHANGED <<mainBalance, lastBalanceAt>>
          ELSE mainBalance' = realAt[m.at] /\ lastBalanceAt' = date
    BY <1>1 DEF Wallet!transactionBalanceMutation, MessageTrue
  <1>4. date \in Nat /\ date <= clock /\ m.at <= date /\ realAt[m.at] <= realAt[date]
    BY DatesTrue
  <1>5. CASE date < lastBalanceAt
    <2>1. mainBalance' = mainBalance /\ lastBalanceAt' = lastBalanceAt
      BY <1>3, <1>5
    <2> QED BY <1>1, <1>2, <1>4, <1>5, <2>1 DEF BalanceTrue
  <1>6. CASE ~(date < lastBalanceAt)
    <2>1. mainBalance' = realAt[m.at] /\ lastBalanceAt' = date
      BY <1>3, <1>6
    <2> QED BY <1>1, <1>2, <1>4, <1>6, <2>1 DEF BalanceTrue
  <1> QED BY <1>5, <1>6

\* What a message has to keep.
LEMMA MessageKeeps ==
  ASSUME Typed, NEW at, PromiseInv(at), NEW m \in sms, sms' = sms \ {m}, UNCHANGED <<realAt, clock, today, amount, fee, paidOn>>,
         \A u \in Ops : IsPaid(u) \/ state'[u] = state[u],
         \A u \in Ops : IsPaid(u) => state'[u] \in {state[u], "success"},
         \A u \in Ops : state'[u] = "success" => state[u] = "success" \/ at[u] <= lastBalanceAt',
         \A u \in Ops : u \in applied' => u \in applied \/ IsPaid(u),
         lastBalanceAt <= lastBalanceAt', lastBalanceAt' \in Nat, BalanceTrue', Counted' <= SentNowOf'
  PROVE  PromiseInv(at)'
  <1>1. Trail(at)' /\ SpentToday' = SpentToday
    BY NothingPaid
  <1>2. \A u \in Ops : PaymentKnown(u, at) /\ at[u] \in Nat
    BY DEF PromiseInv
  <1>3. \A n \in sms' : MessageTrue(n, at)'
    BY DEF PromiseInv, MessageTrue, IsPaid
  <1>4. ASSUME NEW u \in Ops PROVE PaymentKnown(u, at)'
    <2>1. IsPaid(u)' <=> IsPaid(u)
      BY DEF IsPaid
    <2>2. at[u] <= lastBalanceAt => at[u] <= lastBalanceAt'
      BY <1>2, WalletKnown
    <2>3. state'[u] = "success" => IsPaid(u) /\ at[u] <= lastBalanceAt'
      BY <1>2, <2>2 DEF PaymentKnown
    <2>4. u \in applied' => IsPaid(u)
      BY <1>2 DEF PaymentKnown
    <2>5. IsPaid(u) => state'[u] \in {"queued", "unknown", "success"}
      BY <1>2 DEF PaymentKnown
    <2> QED BY <1>2, <2>1, <2>3, <2>4, <2>5 DEF PaymentKnown
  <1>5. Due' = Due
    <2>1. \A u \in Ops : ~IsPaid(u) => state'[u] = state[u]
      OBVIOUS
    <2>2. Promised' = Promised
      BY <2>1 DEF Promised, IsPaid
    <2> QED BY <2>2, DueSame
  <1>6. at \in [Ops -> Nat] /\ SpentToday' + Due' <= DailyLimit /\ realAt'[clock'] >= Due'
    BY <1>1, <1>5 DEF PromiseInv
  <1> QED BY <1>1, <1>3, <1>4, <1>6 DEF PromiseInv

LEMMA MatchPromises ==
  ASSUME Typed, NEW at, PromiseInv(at), NEW m \in sms, sms' = sms \ {m}, UNCHANGED <<realAt, clock, today, amount, fee, paidOn>>,
         Wallet(FALSE)!MatchOutgoing(m) \/ Wallet(FALSE)!UnmatchedOutgoing(m)
  PROVE  PromiseInv(at)'
  <1>1. PICK t : t = m.of
    OBVIOUS
  <1>2. m.kind = "out"
    BY DEF Wallet!MatchOutgoing, Wallet!UnmatchedOutgoing
  <1>3. t \in Ops /\ IsPaid(t) /\ at[t] = m.at
    BY <1>1, <1>2, WalletKnown DEF PromiseInv, MessageTrue
  <1>4. CASE state[t] = "success" /\ Wallet(FALSE)!MatchOutgoing(m)
    <2>1. UNCHANGED <<mainBalance, lastBalanceAt, sentToday, financialDay, state, applied>>
      BY <1>1, <1>4 DEF Wallet!MatchOutgoing, Wallet!wallet
    <2>2. BalanceTrue' /\ lastBalanceAt <= lastBalanceAt' /\ lastBalanceAt' \in Nat
      BY <2>1, WalletKnown DEF PromiseInv, BalanceTrue
    <2>3. Counted' <= SentNowOf'
      BY <2>1 DEF PromiseInv, Counted, CountedToday, Spending, SentNowOf
    <2> QED BY <2>1, <2>2, <2>3, MessageKeeps
  <1>5. CASE state[t] # "success" /\ Wallet(FALSE)!MatchOutgoing(m)
    <2>1. /\ state' = [state EXCEPT ![t] = "success"]
          /\ Wallet(FALSE)!CountSent(Wallet(FALSE)!Outflow(t))
          /\ Wallet(FALSE)!transactionBalanceMutation(m, 0 - Wallet(FALSE)!Outflow(t))
          /\ UNCHANGED applied
      BY <1>1, <1>5 DEF Wallet!MatchOutgoing, Wallet!SetState
    <2>2. BalanceTrue' /\ lastBalanceAt <= lastBalanceAt' /\ m.at <= lastBalanceAt'
      BY <2>1, BalanceMutates
    <2>3. lastBalanceAt' \in Nat
      BY <2>1, BalanceMutates
    <2>4. state'[t] = "success" /\ \A u \in Ops \ {t} : state'[u] = state[u]
      BY <1>3, <2>1 DEF Typed, WalletInv, WalletTyped, Ops
    <2>5. Counted' <= SentNowOf'
      <3>1. CountedToday' \subseteq CountedToday \cup {t}
        BY <2>1, <2>4 DEF CountedToday
      <3> QED BY <1>3, <2>1, <3>1, CountKeeps
    <2>6. \A u \in Ops : IsPaid(u) \/ state'[u] = state[u]
      BY <1>3, <2>4
    <2>7. \A u \in Ops : state'[u] \in {state[u], "success"}
      BY <2>4
    <2>8. \A u \in Ops : state'[u] = "success" => state[u] = "success" \/ at[u] <= lastBalanceAt'
      BY <1>3, <2>2, <2>4
    <2> QED BY <2>1, <2>2, <2>3, <2>5, <2>6, <2>7, <2>8, MessageKeeps
  <1>6. CASE Wallet(FALSE)!UnmatchedOutgoing(m)
    <2>1. /\ Wallet(FALSE)!CountSent(Wallet(FALSE)!Outflow(t))
          /\ Wallet(FALSE)!transactionBalanceMutation(m, 0 - Wallet(FALSE)!Outflow(t))
          /\ applied' = applied \cup {t} /\ UNCHANGED state
      BY <1>1, <1>6 DEF Wallet!UnmatchedOutgoing
    <2>2. BalanceTrue' /\ lastBalanceAt <= lastBalanceAt' /\ m.at <= lastBalanceAt'
      BY <2>1, BalanceMutates
    <2>3. lastBalanceAt' \in Nat
      BY <2>1, BalanceMutates
    <2>4. Counted' <= SentNowOf'
      <3>1. CountedToday' \subseteq CountedToday \cup {t}
        BY <2>1 DEF CountedToday
      <3> QED BY <1>3, <2>1, <3>1, CountKeeps
    <2>5. \A u \in Ops : u \in applied' => u \in applied \/ IsPaid(u)
      BY <1>3, <2>1
    <2> QED BY <2>1, <2>2, <2>3, <2>4, <2>5, MessageKeeps
  <1> QED BY <1>4, <1>5, <1>6

LEMMA NoticePromises ==
  ASSUME Typed, NEW at, PromiseInv(at), NEW m \in sms, sms' = sms \ {m}, UNCHANGED <<realAt, clock, today, amount, fee, paidOn>>,
         Wallet(FALSE)!IncomingTransfer(m) \/ Wallet(FALSE)!ApplyBalance(m)
  PROVE  PromiseInv(at)'
  <1>1. UNCHANGED <<state, applied>>
    BY DEF Wallet!IncomingTransfer, Wallet!ApplyBalance
  <1>2. Counted' = Counted
    BY <1>1 DEF Counted, CountedToday, Spending
  <1>3. CASE Wallet(FALSE)!IncomingTransfer(m)
    <2>1. Wallet(FALSE)!CountSent(0) /\ Wallet(FALSE)!transactionBalanceMutation(m, Deposit)
      BY <1>3 DEF Wallet!IncomingTransfer
    <2>2. BalanceTrue' /\ lastBalanceAt <= lastBalanceAt'
      BY <2>1, BalanceMutates
    <2>3. lastBalanceAt' \in Nat
      BY <2>1, BalanceMutates
    <2>4. SentNowOf' = SentNowOf
      <3>1. financialDay' = today /\ sentToday' = SentNowOf + 0
        BY <2>1 DEF Wallet!CountSent, Wallet!SentNow, SentNowOf
      <3>2. SentNowOf \in Nat
        BY WalletKnown
      <3> QED BY <3>1, <3>2 DEF SentNowOf
    <2>5. Counted' <= SentNowOf'
      BY <1>2, <2>4 DEF PromiseInv
    <2> QED BY <1>1, <2>2, <2>3, <2>5, MessageKeeps
  <1>4. CASE Wallet(FALSE)!ApplyBalance(m)
    <2>1. UNCHANGED <<sentToday, financialDay>>
      BY <1>4 DEF Wallet!ApplyBalance
    <2>2. Counted' <= SentNowOf'
      BY <1>2, <2>1 DEF PromiseInv, SentNowOf
    <2>3. CASE UNCHANGED <<mainBalance, lastBalanceAt>>
      <3>1. BalanceTrue' /\ lastBalanceAt <= lastBalanceAt' /\ lastBalanceAt' \in Nat
        BY <2>3, WalletKnown DEF PromiseInv, BalanceTrue
      <3> QED BY <1>1, <2>2, <3>1, MessageKeeps
    <2>4. ASSUME NEW observedAt \in Wallet(FALSE)!effectiveProviderOccurredAt(m), lastBalanceAt <= observedAt,
                 mainBalance' = realAt[m.at], lastBalanceAt' = observedAt
          PROVE  PromiseInv(at)'
      <3>1. observedAt \in Nat /\ observedAt <= clock /\ realAt[m.at] <= realAt[observedAt]
        BY DatesTrue
      <3>2. BalanceTrue' /\ lastBalanceAt <= lastBalanceAt' /\ lastBalanceAt' \in Nat
        BY <2>4, <3>1 DEF BalanceTrue
      <3> QED BY <1>1, <2>2, <3>2, MessageKeeps
    <2> QED BY <1>4, <2>3, <2>4 DEF Wallet!ApplyBalance
  <1> QED BY <1>3, <1>4

-----------------------------------------------------------------------------
(* Every step *)

LEMMA QueuePromises ==
  ASSUME Typed, Typed', NEW at, PromiseInv(at), NEW t \in Ops, Wallet(FALSE)!QueueTransfer(t)
  PROVE  PromiseInv(at)'
  <1>1. /\ state[t] = "none" /\ state' = [state EXCEPT ![t] = "queued"]
        /\ mainBalance - reserved - Safety >= amount[t] + SimFee
        /\ SentNowOf + reserved + (amount[t] + SimFee) <= DailyLimit
        /\ UNCHANGED <<realAt, clock, today, mainBalance, lastBalanceAt, sentToday, financialDay, amount, fee, paidOn, applied, sms>>
    BY DEF Wallet!QueueTransfer, Wallet!Reserve, Wallet!SetState, Wallet!Physical, Wallet!provider, Wallet!Viable,
           Wallet!withinWithdrawalCapacity, Wallet!SentNow, SentNowOf
  <1>2. amount[t] \in Nat /\ SimFee \in Nat /\ mainBalance \in Int /\ reserved \in Nat /\ Safety \in Nat
    BY WalletKnown, WalletNumbers
  <1>3. mainBalance - reserved >= amount[t] + SimFee
    BY <1>1, <1>2
  <1>4. amount' = [amount EXCEPT ![t] = amount[t]]
    BY <1>1 DEF Typed, WalletInv, WalletTyped
  <1> QED BY <1>1, <1>2, <1>3, <1>4, AdmitKeeps

LEMMA SweepPromises ==
  ASSUME Typed, Typed', NEW at, PromiseInv(at), NEW t \in Ops, Wallet(FALSE)!ExecuteSweep(t)
  PROVE  PromiseInv(at)' /\ mainBalance - reserved' - Safety >= Target
  <1>1. PICK n : n = Wallet(FALSE)!SweepAmount
    OBVIOUS
  <1>2. /\ n > 0 /\ state[t] = "none" /\ state' = [state EXCEPT ![t] = "queued"] /\ amount' = [amount EXCEPT ![t] = n]
        /\ reserved' = reserved + (n + SimFee)
        /\ UNCHANGED <<realAt, clock, today, mainBalance, lastBalanceAt, sentToday, financialDay, fee, paidOn, applied, sms>>
    BY <1>1 DEF Wallet!ExecuteSweep, Wallet!Reserve, Wallet!SetState, Wallet!provider
  <1>3. n \in Nat /\ n <= mainBalance - (reserved + SimFee) - Safety - Target /\ n <= DailyLimit - SentNowOf - reserved - SimFee
    BY <1>1, <1>2, SweepLeaves DEF Typed
  <1>4. /\ SimFee \in Nat /\ mainBalance \in Int /\ reserved \in Nat /\ Safety \in Nat /\ Target \in Nat
        /\ SentNowOf \in Nat /\ DailyLimit \in Nat
    BY WalletKnown, WalletNumbers
  <1>5. /\ mainBalance - reserved >= n + SimFee /\ SentNowOf + reserved + (n + SimFee) <= DailyLimit
        /\ mainBalance - (reserved + (n + SimFee)) - Safety >= Target
    BY <1>3, <1>4
  <1>6. PromiseInv(at)'
    BY <1>2, <1>3, <1>5, AdmitKeeps
  <1> QED BY <1>2, <1>5, <1>6

LEMMA TransferPromises ==
  ASSUME FeesReserved, Typed, Typed', NEW at, PromiseInv(at), NEW t \in Ops,
         \/ Wallet(FALSE)!Pay(t) \/ Wallet(FALSE)!FailBeforeCommit(t) \/ Wallet(FALSE)!Expire(t) \/ Wallet(FALSE)!ResolveFailed(t)
         \/ Wallet(FALSE)!ResolveSuccess(t) \/ Wallet(FALSE)!RetryDeviceJob(t)
  PROVE  \E later : PromiseInv(later)'
  <1>1. CASE Wallet(FALSE)!FailBeforeCommit(t) \/ Wallet(FALSE)!ResolveFailed(t)
    <2>1. IsOpen(state[t]) /\ ~IsPaid(t) /\ Wallet(FALSE)!Release(t)
      BY <1>1 DEF Wallet!FailBeforeCommit, Wallet!ResolveFailed, Wallet!Paid, IsOpen, IsPaid
    <2>2. state' = [state EXCEPT ![t] = "failed"]
          /\ UNCHANGED <<realAt, clock, today, mainBalance, lastBalanceAt, sentToday, financialDay, amount, fee, paidOn, applied, sms>>
      BY <2>1 DEF Wallet!Release, Wallet!SetState, Wallet!provider
    <2>3. PromiseInv(at)'
      BY <2>1, <2>2, SettleKeeps
    <2> QED BY <2>3
  <1>2. CASE Wallet(FALSE)!Expire(t)
    <2>1. /\ IsOpen(state[t]) /\ state' = [state EXCEPT ![t] = "unknown"]
          /\ UNCHANGED <<realAt, clock, today, mainBalance, lastBalanceAt, sentToday, financialDay, amount, fee, paidOn, applied, sms>>
      BY <1>2 DEF Wallet!Expire, Wallet!SetState, Wallet!provider, Wallet!wallet, IsOpen
    <2>2. PromiseInv(at)'
      BY <2>1, SettleKeeps
    <2> QED BY <2>2
  <1>3. CASE Wallet(FALSE)!RetryDeviceJob(t)
    <2>1. retries[t] < 0
      BY <1>3 DEF Wallet!RetryDeviceJob
    <2>2. retries[t] \in 0..0
      BY DEF Typed, WalletInv, WalletTyped, Ops, MaxRetriesOf
    <2> QED BY <2>1, <2>2
  <1>4. CASE Wallet(FALSE)!ResolveSuccess(t)
    <2>1. PromiseInv(at)'
      BY <1>4, ResolvePromises
    <2> QED BY <2>1
  <1> QED BY <1>1, <1>2, <1>3, <1>4, PayPromises

LEMMA PromisesStep ==
  ASSUME FeesReserved, Typed, NEW at, PromiseInv(at), Wallet(FALSE)!Next
  PROVE  \E later : PromiseInv(later)'
  <1>0. Typed'
    <2>1. FALSE \in BOOLEAN
      OBVIOUS
    <2> QED BY <2>1, WalletStep DEF Typed
  <1>1. Wallet(FALSE)!Outgoing = Ops /\ Payouts \subseteq Ops /\ Sweeps \subseteq Ops
    BY DEF Wallet!Outgoing, OpsOf, Ops
  <1>2. ASSUME NEW t \in Ops, Wallet(FALSE)!QueueTransfer(t) \/ Wallet(FALSE)!ExecuteSweep(t)
        PROVE  PromiseInv(at)'
    BY <1>0, <1>2, QueuePromises, SweepPromises
  <1>3. CASE Wallet(FALSE)!Receive \/ Wallet(FALSE)!AnswerQuery
    <2>1. \E d \in Nat, kind \in {"in", "balance"} : Wallet(FALSE)!Moves(d, kind, "none")
      BY <1>3, WalletNumbers DEF Wallet!Receive, Wallet!AnswerQuery
    <2>2. UNCHANGED <<today, mainBalance, lastBalanceAt, sentToday, financialDay, state, amount, fee, paidOn, applied>>
      BY <1>3 DEF Wallet!Receive, Wallet!AnswerQuery, Wallet!wallet, Wallet!transfer
    <2>3. PromiseInv(at)'
      BY <2>1, <2>2, MovementPromises
    <2> QED BY <2>3
  <1>4. CASE Wallet(FALSE)!NewDay
    <2>1. PromiseInv(at)'
      BY <1>4, NewDayPromises
    <2> QED BY <2>1
  <1>5. ASSUME NEW m \in sms, Wallet(FALSE)!Ingest(m)
        PROVE  PromiseInv(at)'
    <2>1. /\ sms' = sms \ {m} /\ UNCHANGED <<realAt, clock, today, amount, fee, paidOn>>
          /\ \/ Wallet(FALSE)!MatchOutgoing(m) \/ Wallet(FALSE)!UnmatchedOutgoing(m)
             \/ Wallet(FALSE)!IncomingTransfer(m) \/ Wallet(FALSE)!ApplyBalance(m)
      BY <1>5 DEF Wallet!Ingest, Wallet!provider
    <2>2. CASE Wallet(FALSE)!MatchOutgoing(m) \/ Wallet(FALSE)!UnmatchedOutgoing(m)
      BY <2>1, <2>2, MatchPromises
    <2>3. CASE Wallet(FALSE)!IncomingTransfer(m) \/ Wallet(FALSE)!ApplyBalance(m)
      BY <2>1, <2>3, NoticePromises
    <2> QED BY <2>1, <2>2, <2>3
  <1>6. ASSUME NEW t \in Ops,
               \/ Wallet(FALSE)!Pay(t) \/ Wallet(FALSE)!FailBeforeCommit(t) \/ Wallet(FALSE)!Expire(t) \/ Wallet(FALSE)!ResolveFailed(t)
               \/ Wallet(FALSE)!ResolveSuccess(t) \/ Wallet(FALSE)!RetryDeviceJob(t)
        PROVE  \E later : PromiseInv(later)'
    BY <1>0, <1>6, TransferPromises
  <1>7. \/ \E t \in Ops : \/ Wallet(FALSE)!Pay(t) \/ Wallet(FALSE)!FailBeforeCommit(t) \/ Wallet(FALSE)!Expire(t) \/ Wallet(FALSE)!ResolveFailed(t)
                          \/ Wallet(FALSE)!ResolveSuccess(t) \/ Wallet(FALSE)!RetryDeviceJob(t)
        \/ Wallet(FALSE)!Receive \/ Wallet(FALSE)!AnswerQuery
        \/ Wallet(FALSE)!NewDay
        \/ \E t \in Ops : Wallet(FALSE)!QueueTransfer(t) \/ Wallet(FALSE)!ExecuteSweep(t)
        \/ \E m \in sms : Wallet(FALSE)!Ingest(m)
    BY <1>1 DEF Wallet!Next
  <1> QED BY <1>2, <1>3, <1>4, <1>5, <1>6, <1>7

LEMMA PromisesInitially == ASSUME Wallet(FALSE)!Init, Typed PROVE \E at : PromiseInv(at)
  <1>1. /\ clock = 0 /\ today = 0 /\ mainBalance = StartBalance /\ lastBalanceAt = 0 /\ realAt[0] = StartBalance
        /\ applied = {} /\ sms = {} /\ \A t \in Ops : state[t] = "none" /\ paidOn[t] = -1
    <2>1. 0 \in 0..MaxTimeOf(FALSE)
      <3>1. PICK n : n = MaxTimeOf(FALSE)
        OBVIOUS
      <3>2. n \in Nat
        BY <3>1, WalletKnown
      <3>3. 0 \in 0..n
        BY <3>2
      <3> QED BY <3>1, <3>3
    <2> QED BY <2>1, WalletNumbers DEF Wallet!Init, Wallet!Outgoing, Ops, OpsOf, MaxTimeOf
  <1>2. PICK at : at = [t \in Ops |-> 0]
    OBVIOUS
  <1>3. at \in [Ops -> Nat]
    BY <1>2
  <1>4. \A t \in Ops : PaymentKnown(t, at)
    BY <1>1 DEF PaymentKnown, IsPaid
  <1>5. Promised = {} /\ PaidToday = {} /\ CountedToday = {}
    BY <1>1 DEF Promised, PaidToday, CountedToday, IsOpen
  <1>6. Due = 0 /\ SpentToday = 0 /\ Counted = 0
    BY <1>5, SumEmpty DEF Due, SpentToday, Counted
  <1>7. StartBalance \in Nat /\ DailyLimit \in Nat /\ SentNowOf \in Nat
    BY WalletNumbers, WalletKnown
  <1>8. Trail(at)
    <2> SUFFICES ASSUME NEW i \in 0..clock PROVE realAt[clock] + SpentAfter(at, i) >= realAt[i]
      BY DEF Trail
    <2>1. i = 0 /\ SpentAfter(at, i) \in Nat
      BY <1>1, SumsKnown
    <2> QED BY <1>1, <1>7, <2>1
  <1>9. BalanceTrue /\ realAt[clock] >= Due /\ Counted <= SentNowOf /\ SpentToday + Due <= DailyLimit
    BY <1>1, <1>6, <1>7 DEF BalanceTrue
  <1>10. PromiseInv(at)
    BY <1>1, <1>3, <1>4, <1>8, <1>9 DEF PromiseInv
  <1> QED BY <1>10

\* A transfer that leaves "none" was queued, or swept.
LEMMA SweepsLeaveTarget ==
  ASSUME Typed, NEW at, PromiseInv(at), Wallet(FALSE)!Next
  PROVE  Wallet(FALSE)!TargetLeft
  <1> SUFFICES ASSUME NEW s \in Sweeps, state[s] = "none", state'[s] # "none"
               PROVE  mainBalance - reserved' - Safety >= Target
    BY DEF Wallet!TargetLeft
  <1>0. s \in Ops /\ s \notin Payouts /\ Wallet(FALSE)!Outgoing = Ops /\ FALSE \in BOOLEAN /\ state \in [Ops -> {"none", "queued", "unknown", "success", "failed"}]
    <2>1. Wallet(FALSE)!WalletsAssumption
      BY MoneyAssumption DEF MoneyAssumption
    <2>2. Payouts \cap Sweeps = {}
      BY <2>1 DEF Wallet!WalletsAssumption
    <2> QED BY <2>2 DEF Ops, OpsOf, Wallet!Outgoing, Typed, WalletInv, WalletTyped
  <1>1. Typed'
    BY <1>0, WalletStep DEF Typed
  <1>2. ASSUME NEW t \in Sweeps, Wallet(FALSE)!ExecuteSweep(t)
        PROVE  mainBalance - reserved' - Safety >= Target
    <2>1. t \in Ops
      BY DEF Ops, OpsOf
    <2> QED BY <1>1, <1>2, <2>1, SweepPromises
  \* No other step opens a sweep.
  <1>3. ASSUME NEW t \in Ops,
               \/ Wallet(FALSE)!Pay(t) \/ Wallet(FALSE)!FailBeforeCommit(t) \/ Wallet(FALSE)!Expire(t) \/ Wallet(FALSE)!ResolveFailed(t)
               \/ Wallet(FALSE)!ResolveSuccess(t) \/ Wallet(FALSE)!RetryDeviceJob(t)
        PROVE  FALSE
    <2>1. CASE Wallet(FALSE)!Pay(t)
      BY <2>1 DEF Wallet!Pay
    <2>2. CASE ~Wallet(FALSE)!Pay(t)
      <3>1. state[t] \in {"queued", "unknown", "failed"} /\ \E st : state' = [state EXCEPT ![t] = st]
        BY <1>3, <2>2 DEF Wallet!FailBeforeCommit, Wallet!Expire, Wallet!ResolveFailed, Wallet!ResolveSuccess,
                          Wallet!RetryDeviceJob, Wallet!Release, Wallet!Reserve, Wallet!SetState
      <3>2. s # t
        BY <3>1
      <3> QED BY <1>0, <3>1, <3>2
    <2> QED BY <2>1, <2>2
  <1>4. ASSUME NEW t \in Payouts, Wallet(FALSE)!QueueTransfer(t)
        PROVE  FALSE
    <2>1. s # t /\ state' = [state EXCEPT ![t] = "queued"]
      BY <1>0, <1>4 DEF Wallet!QueueTransfer, Wallet!Reserve, Wallet!SetState
    <2> QED BY <1>0, <2>1
  <1>5. CASE Wallet(FALSE)!Receive \/ Wallet(FALSE)!AnswerQuery \/ Wallet(FALSE)!NewDay
    BY <1>5 DEF Wallet!Receive, Wallet!AnswerQuery, Wallet!NewDay, Wallet!transfer
  <1>6. ASSUME NEW m \in sms, Wallet(FALSE)!Ingest(m)
        PROVE  FALSE
    <2>1. state' = state \/ (m.kind = "out" /\ state' = [state EXCEPT ![m.of] = "success"])
      BY <1>6 DEF Wallet!Ingest, Wallet!MatchOutgoing, Wallet!UnmatchedOutgoing, Wallet!IncomingTransfer, Wallet!ApplyBalance,
                  Wallet!SetState
    <2>2. m.kind = "out" => m.of \in Ops /\ IsPaid(m.of)
      BY WalletKnown DEF PromiseInv, MessageTrue
    <2>3. ~IsPaid(s)
      <3>1. PaymentKnown(s, at)
        BY <1>0 DEF PromiseInv
      <3> QED BY <3>1 DEF PaymentKnown
    <2> QED BY <1>0, <2>1, <2>2, <2>3
  <1> QED BY <1>0, <1>2, <1>3, <1>4, <1>5, <1>6 DEF Wallet!Next

LEMMA PromisesMean ==
  ASSUME Typed, NEW at, PromiseInv(at)
  PROVE  Wallet(FALSE)!PromisesKept
  <1>0. FALSE \in BOOLEAN
    OBVIOUS
  <1>1. Wallet(FALSE)!TypeOK
    BY <1>0, WalletTypes, WalletKnown DEF Typed, WalletInv
  <1>2. Wallet(FALSE)!Outgoing = Ops
    BY DEF Wallet!Outgoing, Ops, OpsOf
  <1>3. Wallet(FALSE)!Covered
    <2>1. {t \in Wallet(FALSE)!Outgoing : state[t] \in Wallet(FALSE)!Held /\ ~Wallet(FALSE)!Paid(t)} = Promised
      BY <1>2 DEF Wallet!Held, Wallet!Paid, Promised, IsOpen, IsPaid
    <2>2. Wallet(FALSE)!Physicals = Needs
      BY <1>2 DEF Wallet!Physicals, Wallet!Physical, Needs, Needed, Ops
    <2>3. realAt[clock] >= Due
      BY DEF PromiseInv
    <2> QED BY <1>0, <2>1, <2>2, <2>3, SameSum DEF Wallet!Covered, Wallet!real, Due
  <1>4. Wallet(FALSE)!DailyKept
    <2>1. {t \in Wallet(FALSE)!Outgoing : paidOn[t] = today} = PaidToday
      BY <1>2 DEF PaidToday
    <2>2. Wallet(FALSE)!Outflows = Spending
      BY <1>2 DEF Wallet!Outflows, Wallet!Outflow, Spending
    <2>3. SpentToday + Due <= DailyLimit /\ SpentToday \in Nat /\ Due \in Nat /\ DailyLimit \in Nat
      BY SumsKnown, WalletKnown DEF PromiseInv
    <2>4. SpentToday <= DailyLimit
      BY <2>3
    <2> QED BY <1>0, <2>1, <2>2, <2>4, SameSum DEF Wallet!DailyKept, SpentToday
  <1>5. Wallet(FALSE)!NeverOverstated
    BY DEF Wallet!NeverOverstated, PromiseInv, BalanceTrue
  <1> QED BY <1>1, <1>3, <1>4, <1>5 DEF Wallet!PromisesKept

\* For some instants of the payments, which the wallet itself does not know.
PromisesInv == OfRoutine => Typed /\ \E at : PromiseInv(at)

LEMMA PromisesStutter == ASSUME NEW at, PromiseInv(at), UNCHANGED walletVars PROVE PromiseInv(at)'
  BY DEF walletVars, PromiseInv, MessageTrue, PaymentKnown, IsPaid, Trail, SpentAfter, Spending, PaidAfter, BalanceTrue,
         Counted, CountedToday, SentNowOf, SpentToday, PaidToday, Due, Needs, Needed, Promised

\* The routine wallet, under four conditions: no payment costs more than the fee that
\* was reserved for it (FeesReserved); the transaction SMS show the balance and staff
\* give one with a success; no staff retry and no staff failure of a paid payout; and
\* no message is dated after a payment it does not contain (StaleDates FALSE: the code
\* dates an answer by its receipt and matches it to whatever query is running then).
\* Under them the account holds the money of every payout and sweep the SIM was
\* given, the day's limit is kept, the wallet shows no more than was held, and a
\* sweep leaves its target, however late, lost or out of order SMS are ingested
\* (sim-selection.service.ts, sms-ingestion.service.ts, sweeps.service.ts).
THEOREM PromisesAlwaysKept == ASSUME FeesReserved PROVE MoneySpec => PromisesKept
  <1>0. FALSE \in BOOLEAN
    OBVIOUS
  <1>1. MoneyInit => PromisesInv
    <2> SUFFICES ASSUME MoneyInit, OfRoutine PROVE Typed /\ \E at : PromiseInv(at)
      BY DEF PromisesInv
    <2>1. Wallet(FALSE)!Init
      BY DEF MoneyInit, OfLedger, OfRoutine, OfExceptional
    <2>2. Typed
      BY <1>0, <2>1, WalletInitially DEF Typed
    <2> QED BY <2>1, <2>2, PromisesInitially
  <1>2. PromisesInv /\ [MoneyNext]_moneyVars => PromisesInv' /\ [OfRoutine => Wallet(FALSE)!TargetLeft]_moneyVars
    <2> SUFFICES ASSUME PromisesInv, [MoneyNext]_moneyVars
                 PROVE  PromisesInv' /\ [OfRoutine => Wallet(FALSE)!TargetLeft]_moneyVars
      OBVIOUS
    <2>1. OfRoutine' <=> OfRoutine
      BY DEF MoneyNext, moneyVars, OfRoutine
    <2>2. CASE ~OfRoutine
      BY <2>1, <2>2 DEF PromisesInv
    <2>3. CASE OfRoutine
      <3>1. PICK at : PromiseInv(at)
        BY <2>3 DEF PromisesInv
      <3>2. Typed
        BY <2>3 DEF PromisesInv
      <3>3. CASE Wallet(FALSE)!Next
        <4>1. Typed'
          BY <1>0, <3>2, <3>3, WalletStep DEF Typed
        <4>2. \E later : PromiseInv(later)'
          BY <3>1, <3>2, <3>3, PromisesStep
        <4>3. Wallet(FALSE)!TargetLeft
          BY <3>1, <3>2, <3>3, SweepsLeaveTarget
        <4> QED BY <4>1, <4>2, <4>3 DEF PromisesInv
      <3>4. CASE UNCHANGED moneyVars
        <4>1. UNCHANGED walletVars
          BY <3>4 DEF moneyVars
        <4>2. Typed'
          BY <1>0, <3>2, <4>1, WalletStutters DEF Typed
        <4>3. PromiseInv(at)'
          BY <3>1, <4>1, PromisesStutter
        <4> QED BY <3>4, <4>2, <4>3 DEF PromisesInv
      <3> QED BY <2>3, <3>3, <3>4 DEF MoneyNext, OfRoutine, OfLedger, OfExceptional
    <2> QED BY <2>2, <2>3
  <1>3. PromisesInv => (OfRoutine => Wallet(FALSE)!PromisesKept)
    BY PromisesMean DEF PromisesInv
  <1> QED BY <1>1, <1>2, <1>3, PTL DEF MoneySpec, PromisesKept
=============================================================================
