----------------------------- MODULE SumLemmas -----------------------------
(***************************************************************************)
(* What SumFunctionOnSet gives: the lemmas on sums over finite sets that   *)
(* the proofs about budgets and limits need.  The sum is a recursive       *)
(* function on the subsets of a set, so that it exists has to be proved    *)
(* first.  Induction is by the least subset that fails (Least): the        *)
(* principle is first-order, so the provers can use it.                    *)
(***************************************************************************)
EXTENDS Integers, FiniteSets, Functions, FiniteSetTheorems, TLAPS

(* A set of subsets of a finite set has a minimal member.                  *)
LEMMA Least ==
  ASSUME NEW S, IsFiniteSet(S), NEW Bad, Bad \subseteq SUBSET S, Bad # {}
  PROVE \E T \in Bad : \A U \in Bad : ~(U \subseteq T /\ U # T)
<1>1. IsWellFoundedOn(StrictSubsetOrdering(S), FiniteSubsetsOf(S))
  BY FS_StrictSubsetOrderingWellFounded
<1>2. Bad \subseteq FiniteSubsetsOf(S)
  BY FS_Subset DEF FiniteSubsetsOf
<1>3. \E T \in Bad : \A U \in Bad : ~ (<<U, T>> \in StrictSubsetOrdering(S))
  BY <1>1, <1>2, WFMin
<1> QED BY <1>3 DEF StrictSubsetOrdering

(* The element the sum takes next, and the recursive equation of the sum.  *)
Pick(s) == CHOOSE x \in s : TRUE
Rest(s) == s \ {Pick(s)}
Adds(g, f, s) == IF s = {} THEN 0 ELSE f[Pick(s)] + g[Rest(s)]
Sums(g, f, S) == g = [s \in SUBSET S |-> Adds(g, f, s)]

LEMMA PickIn ==
  ASSUME NEW s, s # {}
  PROVE Pick(s) \in s /\ Rest(s) \subseteq s /\ Rest(s) # s
BY DEF Pick, Rest

LEMMA SumUnfold ==
  ASSUME NEW f, NEW S
  PROVE SumFunctionOnSet(f, S) = (CHOOSE g : Sums(g, f, S))[S]
BY DEF SumFunctionOnSet, FoldFunctionOnSet, MapThenFoldSet, Adds, Pick, Rest, Sums

(* What a function of sums gives at a set.                                 *)
LEMMA SumsAt ==
  ASSUME NEW f, NEW S, NEW g, Sums(g, f, S), NEW s \in SUBSET S
  PROVE g[s] = Adds(g, f, s)
BY DEF Sums

(* There is only one, and it depends on the summands alone.                *)
LEMMA SumsUnique ==
  ASSUME NEW S, IsFiniteSet(S), NEW f, NEW h, NEW g, NEW k,
         Sums(g, f, S), Sums(k, h, S), \A x \in S : f[x] = h[x]
  PROVE g = k
<1> DEFINE Bad == {s \in SUBSET S : g[s] # k[s]}
<1>1. Bad = {}
  <2> SUFFICES ASSUME Bad # {} PROVE FALSE
    OBVIOUS
  <2>a. Bad \subseteq SUBSET S
    OBVIOUS
  <2>1. PICK T \in Bad : \A U \in Bad : ~(U \subseteq T /\ U # T)
    <3> HIDE DEF Bad
    <3> QED BY <2>a, Least
  <2>2. T \in SUBSET S /\ g[T] = Adds(g, f, T) /\ k[T] = Adds(k, h, T)
    BY <2>1, SumsAt
  <2>3. CASE T = {}
    BY <2>1, <2>2, <2>3 DEF Adds
  <2>4. CASE T # {}
    <3>1. Pick(T) \in T /\ Rest(T) \subseteq T /\ Rest(T) # T
      BY <2>4, PickIn
    <3>2. Rest(T) \notin Bad
      BY <2>1, <3>1
    <3>3. g[Rest(T)] = k[Rest(T)] /\ f[Pick(T)] = h[Pick(T)]
      BY <3>1, <3>2, <2>2
    <3> QED BY <2>1, <2>2, <2>4, <3>3 DEF Adds
  <2> QED BY <2>3, <2>4
<1>2. /\ g = [s \in SUBSET S |-> Adds(g, f, s)]
      /\ k = [s \in SUBSET S |-> Adds(k, h, s)]
  BY DEF Sums
<1>3. \A s \in SUBSET S : Adds(g, f, s) = Adds(k, h, s)
  BY <1>1, SumsAt
<1> QED BY <1>2, <1>3

(* A function of sums, cut down to the subsets of a smaller set, is one.   *)
LEMMA SumsBelow ==
  ASSUME NEW S, NEW f, NEW g, Sums(g, f, S), NEW T \in SUBSET S
  PROVE Sums([s \in SUBSET T |-> g[s]], f, T)
<1> DEFINE h == [s \in SUBSET T |-> g[s]]
<1>1. \A s \in SUBSET T : g[s] = Adds(h, f, s)
  <2> TAKE s \in SUBSET T
  <2>1. g[s] = Adds(g, f, s)
    BY SumsAt
  <2>2. s # {} => Rest(s) \in SUBSET T
    BY PickIn
  <2> QED BY <2>1, <2>2 DEF Adds
<1> QED BY <1>1 DEF Sums

(* For every finite set there is one.                                      *)
LEMMA SumsExist ==
  ASSUME NEW S, IsFiniteSet(S), NEW f
  PROVE \E g : Sums(g, f, S)
<1> DEFINE Bad == {s \in SUBSET S : ~ \E g : Sums(g, f, s)}
<1> SUFFICES ASSUME Bad # {} PROVE FALSE
  OBVIOUS
<1>a. Bad \subseteq SUBSET S
  OBVIOUS
<1>1. PICK T \in Bad : \A U \in Bad : ~(U \subseteq T /\ U # T)
  <2> HIDE DEF Bad
  <2> QED BY <1>a, Least
<1>2. T \in SUBSET S /\ ~ \E g : Sums(g, f, T)
  BY <1>1
<1>3. \A U \in SUBSET T : U # T => \E g : Sums(g, f, U)
  BY <1>1, <1>2
<1> DEFINE of(U) == CHOOSE g : Sums(g, f, U)
<1>4. \A U \in SUBSET T : U # T => Sums(of(U), f, U)
  BY <1>3
<1> HIDE DEF of
<1>5. \A U \in SUBSET T : IsFiniteSet(U)
  BY <1>2, FS_Subset
<1>6. \A U \in SUBSET T : \A W \in SUBSET U : U # T => of(U)[W] = of(W)[W]
  <2> SUFFICES ASSUME NEW U \in SUBSET T, NEW W \in SUBSET U, U # T
               PROVE of(U)[W] = of(W)[W]
    OBVIOUS
  <2>1. W \in SUBSET T /\ W # T
    OBVIOUS
  <2>2. Sums(of(U), f, U) /\ Sums(of(W), f, W)
    BY <1>4, <2>1
  <2>3. Sums([s \in SUBSET W |-> of(U)[s]], f, W)
    BY <2>2, SumsBelow
  <2>4. [s \in SUBSET W |-> of(U)[s]] = of(W)
    BY <1>5, <2>1, <2>2, <2>3, SumsUnique
  <2> QED BY <2>4
<1> DEFINE top == IF T = {} THEN 0 ELSE f[Pick(T)] + of(Rest(T))[Rest(T)]
           g == [s \in SUBSET T |-> IF s = T THEN top ELSE of(s)[s]]
<1>7. \A s \in SUBSET T : g[s] = Adds(g, f, s)
  <2> TAKE s \in SUBSET T
  <2>1. s # {} => Rest(s) \in SUBSET T /\ Rest(s) # T /\ Rest(s) \in SUBSET s
    BY PickIn
  <2>2. CASE s = T
    BY <2>1, <2>2 DEF Adds
  <2>3. CASE s # T
    <3>1. Sums(of(s), f, s)
      BY <1>4, <2>3
    <3>2. of(s)[s] = Adds(of(s), f, s)
      BY <3>1, SumsAt
    <3>3. s # {} => of(s)[Rest(s)] = of(Rest(s))[Rest(s)]
      BY <1>6, <2>1, <2>3
    <3> QED BY <2>1, <2>3, <3>2, <3>3 DEF Adds
  <2> QED BY <2>2, <2>3
<1>8. Sums(g, f, T)
  BY <1>7 DEF Sums
<1> QED BY <1>2, <1>8

LEMMA SumIs ==
  ASSUME NEW S, IsFiniteSet(S), NEW f, NEW g, Sums(g, f, S), NEW T \in SUBSET S
  PROVE SumFunctionOnSet(f, T) = g[T]
<1>1. IsFiniteSet(T)
  BY FS_Subset
<1>2. Sums(CHOOSE k : Sums(k, f, T), f, T)
  BY <1>1, SumsExist
<1>3. Sums([s \in SUBSET T |-> g[s]], f, T)
  BY SumsBelow
<1>4. (CHOOSE k : Sums(k, f, T)) = [s \in SUBSET T |-> g[s]]
  BY <1>1, <1>2, <1>3, SumsUnique
<1> QED BY <1>4, SumUnfold

----------------------------------------------------------------------------
(* The sum over no element.                                                *)
LEMMA SumEmpty ==
  ASSUME NEW f
  PROVE SumFunctionOnSet(f, {}) = 0
<1>1. IsFiniteSet({})
  BY FS_EmptySet
<1>2. PICK g : Sums(g, f, {})
  BY <1>1, SumsExist
<1>3. g[{}] = 0
  BY <1>2, SumsAt DEF Adds
<1> QED BY <1>1, <1>2, <1>3, SumIs

(* The element taken first.                                                *)
LEMMA SumPick ==
  ASSUME NEW f, NEW S, IsFiniteSet(S), S # {}
  PROVE SumFunctionOnSet(f, S) = f[Pick(S)] + SumFunctionOnSet(f, Rest(S))
<1>1. PICK g : Sums(g, f, S)
  BY SumsExist
<1>2. Rest(S) \in SUBSET S
  BY PickIn
<1>3. g[S] = f[Pick(S)] + g[Rest(S)]
  BY <1>1, SumsAt DEF Adds
<1> QED BY <1>1, <1>2, <1>3, SumIs

(* A sum depends on its summands alone.                                    *)
LEMMA SumSame ==
  ASSUME NEW f, NEW h, NEW S, IsFiniteSet(S), \A x \in S : f[x] = h[x]
  PROVE SumFunctionOnSet(f, S) = SumFunctionOnSet(h, S)
<1>1. PICK g : Sums(g, f, S)
  BY SumsExist
<1>2. PICK k : Sums(k, h, S)
  BY SumsExist
<1>3. g = k
  BY <1>1, <1>2, SumsUnique
<1> QED BY <1>1, <1>2, <1>3, SumIs

(* A sum of natural numbers is one.                                        *)
LEMMA SumNat ==
  ASSUME NEW f, NEW S, IsFiniteSet(S), \A x \in S : f[x] \in Nat
  PROVE SumFunctionOnSet(f, S) \in Nat
<1> DEFINE Bad == {s \in SUBSET S : SumFunctionOnSet(f, s) \notin Nat}
<1> SUFFICES ASSUME Bad # {} PROVE FALSE
  OBVIOUS
<1>a. Bad \subseteq SUBSET S
  OBVIOUS
<1>1. PICK T \in Bad : \A U \in Bad : ~(U \subseteq T /\ U # T)
  <2> HIDE DEF Bad
  <2> QED BY <1>a, Least
<1>2. T # {}
  <2>1. SumFunctionOnSet(f, T) \notin Nat
    BY <1>1
  <2> QED BY <2>1, SumEmpty
<1>3. IsFiniteSet(T) /\ Pick(T) \in S /\ Rest(T) \in SUBSET S
  BY <1>1, <1>2, PickIn, FS_Subset
<1>4. Rest(T) \notin Bad
  BY <1>1, <1>2, PickIn
<1>5. SumFunctionOnSet(f, Rest(T)) \in Nat
  BY <1>3, <1>4
<1>6. SumFunctionOnSet(f, T) = f[Pick(T)] + SumFunctionOnSet(f, Rest(T))
  BY <1>2, <1>3, SumPick
<1>7. f[Pick(T)] \in Nat
  BY <1>3
<1>8. SumFunctionOnSet(f, T) \in Nat
  BY <1>5, <1>6, <1>7
<1> QED BY <1>1, <1>8

(* Any element may be taken out.                                           *)
LEMMA SumRemove ==
  ASSUME NEW f, NEW S, IsFiniteSet(S), \A x \in S : f[x] \in Nat, NEW x \in S
  PROVE SumFunctionOnSet(f, S) = f[x] + SumFunctionOnSet(f, S \ {x})
<1> DEFINE Sum(s) == SumFunctionOnSet(f, s)
           Splits(s, y) == Sum(s) = f[y] + Sum(s \ {y})
           Bad == {s \in SUBSET S : \E y \in s : ~Splits(s, y)}
<1> SUFFICES Bad = {}
  OBVIOUS
<1> SUFFICES ASSUME Bad # {} PROVE FALSE
  OBVIOUS
<1>a. Bad \subseteq SUBSET S
  OBVIOUS
<1>1. PICK T \in Bad : \A U \in Bad : ~(U \subseteq T /\ U # T)
  <2> HIDE DEF Bad
  <2> QED BY <1>a, Least
<1>2. PICK y \in T : ~Splits(T, y)
  BY <1>1
<1> DEFINE p == Pick(T)
           both == (T \ {p}) \ {y}
<1>3. T \in SUBSET S /\ p \in T /\ IsFiniteSet(T)
  BY <1>1, <1>2, PickIn, FS_Subset
<1>4. Splits(T, p)
  BY <1>2, <1>3, SumPick DEF Rest
<1>5. p # y
  BY <1>2, <1>4
<1>6. T \ {p} \notin Bad /\ T \ {y} \notin Bad
  BY <1>1, <1>2, <1>3
<1>7. Splits(T \ {p}, y) /\ Splits(T \ {y}, p)
  BY <1>2, <1>3, <1>5, <1>6
<1>8. (T \ {y}) \ {p} = both
  OBVIOUS
<1>9. \A s \in SUBSET S : Sum(s) \in Nat
  BY SumNat, FS_Subset
<1>10. /\ Sum(T) = f[p] + Sum(T \ {p}) /\ Sum(T \ {p}) = f[y] + Sum(both)
       /\ Sum(T \ {y}) = f[p] + Sum(both)
  BY <1>4, <1>7, <1>8
<1>11. /\ f[p] \in Nat /\ f[y] \in Nat /\ both \in SUBSET S
  BY <1>2, <1>3
<1>12. Sum(both) \in Nat
  BY <1>9, <1>11
<1> HIDE DEF Sum, both, p
<1>13. Sum(T) = f[y] + Sum(T \ {y})
  BY <1>10, <1>11, <1>12
<1> QED BY <1>2, <1>13

(* More summands, no smaller sum.                                          *)
LEMMA SumMonotone ==
  ASSUME NEW f, NEW S, IsFiniteSet(S), \A x \in S : f[x] \in Nat, NEW R \in SUBSET S
  PROVE SumFunctionOnSet(f, R) <= SumFunctionOnSet(f, S)
<1> DEFINE Sum(s) == SumFunctionOnSet(f, s)
           Bad == {s \in SUBSET S : R \subseteq s /\ ~(Sum(R) <= Sum(s))}
<1> SUFFICES Bad = {}
  OBVIOUS
<1> SUFFICES ASSUME Bad # {} PROVE FALSE
  OBVIOUS
<1>0. \A s \in SUBSET S : Sum(s) \in Nat
  BY SumNat, FS_Subset
<1>a. Bad \subseteq SUBSET S
  OBVIOUS
<1>1. PICK T \in Bad : \A U \in Bad : ~(U \subseteq T /\ U # T)
  <2> HIDE DEF Bad
  <2> QED BY <1>a, Least
<1>2. T # R
  BY <1>0, <1>1
<1>3. PICK x \in T : x \notin R
  BY <1>1, <1>2
<1>4. T \ {x} \notin Bad
  BY <1>1, <1>3
<1>5. Sum(R) <= Sum(T \ {x})
  BY <1>1, <1>3, <1>4
<1>6. Sum(T) = f[x] + Sum(T \ {x})
  BY <1>1, <1>3, SumRemove, FS_Subset
<1>7. f[x] \in Nat /\ Sum(R) \in Nat /\ Sum(T \ {x}) \in Nat
  BY <1>0, <1>1, <1>3
<1>8. ~(Sum(R) <= Sum(T))
  BY <1>1
<1> HIDE DEF Sum
<1> QED BY <1>5, <1>6, <1>7, <1>8
=============================================================================
