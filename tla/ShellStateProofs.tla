--------------------------- MODULE ShellStateProofs ---------------------------
(***************************************************************************)
(* Theorems about ShellState for all names, sizes and limits, any nest of  *)
(* commands and any snapshots.                                             *)
(***************************************************************************)
EXTENDS ShellState, SumLemmas, SequenceTheorems, TLAPS

----------------------------------------------------------------------------
(***************************************************************************)
(* Finite maps.                                                            *)
(***************************************************************************)
MapSet(S, T) == {m \in UNION {[D -> T] : D \in SUBSET S} : IsFiniteSet(DOMAIN m)}

LEMMA MapIs ==
  ASSUME NEW S, NEW T, NEW m \in MapSet(S, T)
  PROVE  /\ m \in [DOMAIN m -> T] /\ DOMAIN m \subseteq S /\ IsFiniteSet(DOMAIN m)
         /\ Cardinality(DOMAIN m) \in Nat
<1>1. /\ m \in [DOMAIN m -> T] /\ DOMAIN m \subseteq S /\ IsFiniteSet(DOMAIN m)
  BY DEF MapSet
<1> QED BY <1>1, FS_CardinalityType

LEMMA MapIn ==
  ASSUME NEW S, NEW T, NEW m, m \in [DOMAIN m -> T], DOMAIN m \subseteq S,
         IsFiniteSet(DOMAIN m)
  PROVE  m \in MapSet(S, T)
BY DEF MapSet

LEMMA MapsAreMaps ==
  ASSUME NEW S, NEW T, NEW m
  PROVE  Maps(m, S, T) <=> m \in MapSet(S, T)
BY MapIs, MapIn DEF Maps

LEMMA EmptyMap ==
  ASSUME NEW S, NEW T
  PROVE  <<>> \in MapSet(S, T) /\ DOMAIN <<>> = {} /\ Cardinality(DOMAIN <<>>) = 0
<1>1. PICK m : m = <<>>
  OBVIOUS
<1>2. DOMAIN m = {} /\ m \in [DOMAIN m -> T]
  BY <1>1
<1>3. IsFiniteSet(DOMAIN m) /\ Cardinality(DOMAIN m) = 0
  BY <1>2, FS_EmptySet
<1> QED BY <1>1, <1>2, <1>3, MapIn

LEMMA WithIs ==
  ASSUME NEW S, NEW T, NEW m \in MapSet(S, T), NEW k \in S, NEW v \in T
  PROVE  /\ With(m, k, v) \in MapSet(S, T)
         /\ DOMAIN With(m, k, v) = DOMAIN m \cup {k}
         /\ With(m, k, v)[k] = v
         /\ \A x \in DOMAIN m : x # k => With(m, k, v)[x] = m[x]
<1>1. PICK g : g = With(m, k, v)
  OBVIOUS
<1>2. m \in [DOMAIN m -> T] /\ DOMAIN m \subseteq S /\ IsFiniteSet(DOMAIN m)
  BY MapIs
<1>3. g = [x \in DOMAIN m \cup {k} |-> IF x = k THEN v ELSE m[x]]
  BY <1>1 DEF With
<1>4. /\ DOMAIN g = DOMAIN m \cup {k} /\ g[k] = v
      /\ \A x \in DOMAIN m : x # k => g[x] = m[x]
  BY <1>3
<1>5. g \in [DOMAIN g -> T] /\ DOMAIN g \subseteq S
  BY <1>2, <1>3, <1>4
<1>6. IsFiniteSet(DOMAIN g)
  BY <1>2, <1>4, FS_AddElement
<1> QED BY <1>1, <1>4, <1>5, <1>6, MapIn

LEMMA RestrictIs ==
  ASSUME NEW S, NEW T, NEW m \in MapSet(S, T), NEW D \in SUBSET DOMAIN m
  PROVE  /\ Restrict(m, D) \in MapSet(S, T) /\ DOMAIN Restrict(m, D) = D
         /\ \A x \in D : Restrict(m, D)[x] = m[x]
<1>1. PICK g : g = Restrict(m, D)
  OBVIOUS
<1>2. m \in [DOMAIN m -> T] /\ DOMAIN m \subseteq S /\ IsFiniteSet(DOMAIN m)
  BY MapIs
<1>3. DOMAIN g = D /\ \A x \in D : g[x] = m[x]
  BY <1>1, <1>2 DEF Restrict
<1>4. g \in [DOMAIN g -> T] /\ DOMAIN g \subseteq S
  BY <1>1, <1>2, <1>3 DEF Restrict
<1>5. IsFiniteSet(DOMAIN g)
  BY <1>2, <1>3, FS_Subset
<1> QED BY <1>1, <1>3, <1>4, <1>5, MapIn

LEMMA WithoutIs ==
  ASSUME NEW S, NEW T, NEW m \in MapSet(S, T), NEW k
  PROVE  /\ Without(m, k) \in MapSet(S, T) /\ DOMAIN Without(m, k) = DOMAIN m \ {k}
         /\ \A x \in DOMAIN m \ {k} : Without(m, k)[x] = m[x]
BY RestrictIs DEF Without

LEMMA CountWith ==
  ASSUME NEW S, NEW T, NEW m \in MapSet(S, T), NEW k \in S, NEW v \in T
  PROVE  Cardinality(DOMAIN With(m, k, v)) = Cardinality(DOMAIN m) + Added(m, k)
<1>0. DOMAIN With(m, k, v) = DOMAIN m \cup {k}
  BY DEF With
<1>1. /\ DOMAIN With(m, k, v) = DOMAIN m \cup {k}
      /\ IsFiniteSet(DOMAIN m) /\ Cardinality(DOMAIN m) \in Nat
  BY <1>0, MapIs
<1>2. CASE k \in DOMAIN m
  <2>1. DOMAIN m \cup {k} = DOMAIN m
    BY <1>2
  <2> QED BY <1>1, <1>2, <2>1 DEF Added
<1>3. CASE k \notin DOMAIN m
  BY <1>1, <1>3, FS_AddElement DEF Added
<1> QED BY <1>2, <1>3

LEMMA CountLess ==
  ASSUME NEW S, NEW T, NEW U, NEW W, NEW m \in MapSet(S, T), NEW g \in MapSet(U, W),
         DOMAIN g \subseteq DOMAIN m
  PROVE  Cardinality(DOMAIN g) <= Cardinality(DOMAIN m)
BY MapIs, FS_Subset

----------------------------------------------------------------------------
(***************************************************************************)
(* Sums over finite maps to numbers.                                       *)
(***************************************************************************)
Numbers(f) == f \in [DOMAIN f -> Nat] /\ IsFiniteSet(DOMAIN f)

LEMMA NumbersIn ==
  ASSUME NEW S, NEW m \in MapSet(S, Nat)
  PROVE  Numbers(m)
BY MapIs DEF Numbers

LEMMA SumOver == ASSUME NEW f PROVE Sum(f) = SumFunctionOnSet(f, DOMAIN f)
BY DEF Sum, SumFunction

LEMMA SumType ==
  ASSUME NEW f, Numbers(f)
  PROVE  Sum(f) \in Nat
BY SumOver, SumNat DEF Numbers

LEMMA SumNothing ==
  ASSUME NEW f, DOMAIN f = {}
  PROVE  Sum(f) = 0
BY SumOver, SumEmpty

LEMMA SumAfter ==
  ASSUME NEW f, NEW g, NEW k, NEW v \in Nat, Numbers(f),
         DOMAIN g = DOMAIN f \cup {k}, g[k] = v,
         \A x \in DOMAIN f : x # k => g[x] = f[x]
  PROVE  Sum(g) = Sum(f) + v - Length(f, k)
<1> DEFINE D == DOMAIN f
           rest == SumFunctionOnSet(f, D \ {k})
<1>1. /\ IsFiniteSet(D) /\ IsFiniteSet(DOMAIN g) /\ IsFiniteSet(D \ {k})
      /\ \A x \in D : f[x] \in Nat
  BY FS_AddElement, FS_Subset DEF Numbers
<1>2. \A x \in DOMAIN g : g[x] \in Nat
  BY <1>1
<1>3. SumFunctionOnSet(g, DOMAIN g) = v + SumFunctionOnSet(g, DOMAIN g \ {k})
  BY <1>1, <1>2, SumRemove
<1>4. DOMAIN g \ {k} = D \ {k}
  OBVIOUS
<1>5. SumFunctionOnSet(g, D \ {k}) = rest
  BY <1>1, SumSame
<1>6. rest \in Nat
  BY <1>1, SumNat
<1>7. Sum(g) = v + rest
  BY <1>3, <1>4, <1>5, SumOver
<1>8. CASE k \in D
  <2>1. SumFunctionOnSet(f, D) = f[k] + rest
    BY <1>1, <1>8, SumRemove
  <2> QED BY <1>1, <1>6, <1>7, <1>8, <2>1, SumOver DEF Length
<1>9. CASE k \notin D
  <2>1. D \ {k} = D
    BY <1>9
  <2> QED BY <1>6, <1>7, <1>9, <2>1, SumOver DEF Length
<1> QED BY <1>8, <1>9

LEMMA SumLess ==
  ASSUME NEW f, NEW g, Numbers(f), Numbers(g), DOMAIN g \subseteq DOMAIN f,
         \A x \in DOMAIN g : g[x] <= f[x]
  PROVE  Sum(g) <= Sum(f)
<1> DEFINE D == DOMAIN g
           Bad == {s \in SUBSET D : ~(SumFunctionOnSet(g, s) <= SumFunctionOnSet(f, s))}
<1>1. /\ IsFiniteSet(D) /\ IsFiniteSet(DOMAIN f)
      /\ \A x \in D : g[x] \in Nat /\ f[x] \in Nat /\ g[x] <= f[x]
      /\ \A x \in DOMAIN f : f[x] \in Nat
  BY DEF Numbers
<1>2. Bad = {}
  <2> SUFFICES ASSUME Bad # {} PROVE FALSE
    OBVIOUS
  <2>1. Bad \subseteq SUBSET D
    OBVIOUS
  <2>2. PICK T \in Bad : \A U \in Bad : ~(U \subseteq T /\ U # T)
    <3> HIDE DEF Bad, D
    <3> QED BY <1>1, <2>1, Least
  <2>3. /\ T \in SUBSET D /\ IsFiniteSet(T)
        /\ ~(SumFunctionOnSet(g, T) <= SumFunctionOnSet(f, T))
    BY <1>1, FS_Subset
  <2>4. T # {}
    BY <2>3, SumEmpty
  <2>5. PICK x \in T : TRUE
    BY <2>4
  <2>6. IsFiniteSet(T \ {x})
    BY <2>3, FS_Subset
  <2>7. SumFunctionOnSet(g, T) = g[x] + SumFunctionOnSet(g, T \ {x})
    BY <1>1, <2>3, SumRemove
  <2>8. SumFunctionOnSet(f, T) = f[x] + SumFunctionOnSet(f, T \ {x})
    BY <1>1, <2>3, SumRemove
  <2>9. SumFunctionOnSet(g, T \ {x}) \in Nat /\ SumFunctionOnSet(f, T \ {x}) \in Nat
    BY <1>1, <2>3, <2>6, SumNat
  <2>10. T \ {x} \notin Bad
    BY <2>2
  <2>11. SumFunctionOnSet(g, T \ {x}) <= SumFunctionOnSet(f, T \ {x})
    BY <2>3, <2>10
  <2>12. g[x] <= f[x] /\ g[x] \in Nat /\ f[x] \in Nat
    BY <1>1, <2>3
  <2> HIDE DEF Bad
  <2> QED BY <2>3, <2>7, <2>8, <2>9, <2>11, <2>12
<1>3. SumFunctionOnSet(g, D) <= SumFunctionOnSet(f, D)
  BY <1>2
<1>4. SumFunctionOnSet(f, D) <= SumFunctionOnSet(f, DOMAIN f)
  BY <1>1, SumMonotone
<1>5. SumFunctionOnSet(g, D) \in Nat /\ SumFunctionOnSet(f, D) \in Nat
      /\ SumFunctionOnSet(f, DOMAIN f) \in Nat
  BY <1>1, SumNat
<1> HIDE DEF D
<1> QED BY <1>3, <1>4, <1>5, SumOver DEF D

LEMMA SumWith ==
  ASSUME NEW S, NEW m \in MapSet(S, Nat), NEW k \in S, NEW v \in Nat
  PROVE  Sum(With(m, k, v)) = Sum(m) + v - Length(m, k)
<1>1. PICK g : g = With(m, k, v)
  OBVIOUS
<1>2. /\ DOMAIN g = DOMAIN m \cup {k} /\ g[k] = v
      /\ \A x \in DOMAIN m : x # k => g[x] = m[x]
  BY <1>1 DEF With
<1>3. Numbers(m)
  BY NumbersIn
<1>4. Sum(g) = Sum(m) + v - Length(m, k)
  BY <1>2, <1>3, SumAfter
<1> QED BY <1>1, <1>4

(* The bytes of a map: its keys and its values.                            *)
LEMMA KeyBytes ==
  /\ KeyLen \in Nat
  /\ \A a, b \in Nat : a <= b => KeyLen * a <= KeyLen * b
  /\ \A a \in Nat : KeyLen * a \in Nat /\ KeyLen * (a + 1) = KeyLen * a + KeyLen
  /\ KeyLen * 0 = 0
BY SizesAssumption

LEMMA LengthIs ==
  ASSUME NEW S, NEW m \in MapSet(S, Nat), NEW k
  PROVE  /\ Length(m, k) \in Nat /\ Added(m, k) \in {0, 1}
         /\ Length(m, k) <= Sum(m)
         /\ Added(m, k) = 1 => Length(m, k) = 0
<1>1. Numbers(m)
  BY NumbersIn
<1>2. CASE k \in DOMAIN m
  <2>1. /\ IsFiniteSet(DOMAIN m) /\ \A x \in DOMAIN m : m[x] \in Nat
        /\ IsFiniteSet(DOMAIN m \ {k})
    BY <1>1, FS_Subset DEF Numbers
  <2>2. SumFunctionOnSet(m, DOMAIN m) = m[k] + SumFunctionOnSet(m, DOMAIN m \ {k})
    BY <1>2, <2>1, SumRemove
  <2>3. SumFunctionOnSet(m, DOMAIN m \ {k}) \in Nat
    BY <2>1, SumNat
  <2> QED BY <1>2, <2>1, <2>2, <2>3, SumOver DEF Length, Added
<1>3. CASE k \notin DOMAIN m
  BY <1>1, <1>3, SumType DEF Length, Added
<1> QED BY <1>2, <1>3

LEMMA BytesType ==
  ASSUME NEW S, NEW m \in MapSet(S, Nat)
  PROVE  Bytes(m) \in Nat /\ Sum(m) \in Nat
<1>1. Sum(m) \in Nat /\ Cardinality(DOMAIN m) \in Nat
  BY NumbersIn, SumType, MapIs
<1>2. KeyLen * Cardinality(DOMAIN m) \in Nat
  BY <1>1, KeyBytes
<1> QED BY <1>1, <1>2 DEF Bytes

LEMMA BytesWith ==
  ASSUME NEW S, NEW m \in MapSet(S, Nat), NEW k \in S, NEW v \in Nat
  PROVE  /\ Bytes(With(m, k, v)) =
              Bytes(m) + KeyLen + v - (IF k \in DOMAIN m THEN KeyLen + m[k] ELSE 0)
         /\ k \in DOMAIN m => KeyLen + m[k] <= Bytes(m) /\ m[k] \in Nat
<1> DEFINE c == Cardinality(DOMAIN m)
           g == With(m, k, v)
<1>1. c \in Nat /\ Sum(m) \in Nat /\ KeyLen \in Nat
  BY MapIs, BytesType, KeyBytes
<1>2. Sum(g) = Sum(m) + v - Length(m, k) /\ Length(m, k) \in Nat /\ Length(m, k) <= Sum(m)
  BY SumWith, LengthIs
<1>3. Cardinality(DOMAIN g) = c + Added(m, k)
  BY CountWith
<1>4. KeyLen * c \in Nat /\ KeyLen * (c + 1) = KeyLen * c + KeyLen
  BY <1>1, KeyBytes
<1>5. /\ Bytes(m) = KeyLen * c + Sum(m)
      /\ Bytes(g) = KeyLen * (c + Added(m, k)) + (Sum(m) + v - Length(m, k))
  BY <1>2, <1>3 DEF Bytes
<1>6. CASE k \in DOMAIN m
  <2>1. c >= 1
    <3>1. IsFiniteSet(DOMAIN m) /\ DOMAIN m # {}
      BY <1>6, MapIs
    <3> QED BY <1>1, <3>1, FS_EmptySet
  <2>2. KeyLen <= KeyLen * c
    BY <1>1, <2>1, SMT
  <2>3. Added(m, k) = 0 /\ Length(m, k) = m[k] /\ c + 0 = c
    BY <1>1, <1>6 DEF Added, Length
  <2> HIDE DEF c, g
  <2>4. PICK b \in Nat : b = KeyLen * c
    BY <1>4
  <2>5. Bytes(m) = b + Sum(m) /\ Bytes(g) = b + (Sum(m) + v - m[k])
    BY <1>5, <2>3, <2>4
  <2> QED BY <1>1, <1>2, <1>6, <2>2, <2>3, <2>4, <2>5 DEF g
<1>7. CASE k \notin DOMAIN m
  <2>1. Added(m, k) = 1 /\ Length(m, k) = 0
    BY <1>7 DEF Added, Length
  <2> HIDE DEF c, g
  <2>2. PICK b \in Nat : b = KeyLen * c
    BY <1>4
  <2>3. Bytes(m) = b + Sum(m) /\ Bytes(g) = b + KeyLen + (Sum(m) + v - 0)
    BY <1>4, <1>5, <2>1, <2>2
  <2> QED BY <1>1, <1>7, <2>2, <2>3 DEF g
<1> QED BY <1>6, <1>7

LEMMA BytesLess ==
  ASSUME NEW S, NEW m \in MapSet(S, Nat), NEW g \in MapSet(S, Nat),
         DOMAIN g \subseteq DOMAIN m, \A x \in DOMAIN g : g[x] = m[x]
  PROVE  Bytes(g) <= Bytes(m) /\ Sum(g) <= Sum(m)
<1>1. /\ Cardinality(DOMAIN m) \in Nat /\ Cardinality(DOMAIN g) \in Nat
      /\ Cardinality(DOMAIN g) <= Cardinality(DOMAIN m)
  BY MapIs, CountLess
<1>2. Sum(m) \in Nat /\ Sum(g) \in Nat
  BY BytesType
<1>3. Numbers(m) /\ Numbers(g)
  BY NumbersIn
<1>4. \A x \in DOMAIN g : g[x] <= m[x]
  BY <1>3 DEF Numbers
<1>5. Sum(g) <= Sum(m)
  BY <1>3, <1>4, SumLess
<1>6. PICK a \in Nat, b \in Nat : /\ a = KeyLen * Cardinality(DOMAIN g)
                                  /\ b = KeyLen * Cardinality(DOMAIN m) /\ a <= b
  BY <1>1, KeyBytes
<1> QED BY <1>2, <1>5, <1>6 DEF Bytes

LEMMA BytesNothing == Bytes(<<>>) = 0 /\ Sum(<<>>) = 0
BY EmptyMap, SumNothing, KeyBytes DEF Bytes

----------------------------------------------------------------------------
(***************************************************************************)
(* The locals of the calls: a map for each of them.                        *)
(***************************************************************************)
Variables == MapSet(Names, Nat)
Locals == Seq(Variables)

LEMMA LocalsAre ==
  ASSUME NEW ls \in Locals
  PROVE  /\ Len(ls) \in Nat /\ DOMAIN ls = 1..Len(ls) /\ IsFiniteSet(DOMAIN ls)
         /\ \A i \in DOMAIN ls : ls[i] \in Variables
<1>1. /\ Len(ls) \in Nat /\ DOMAIN ls = 1..Len(ls)
      /\ \A i \in DOMAIN ls : ls[i] \in Variables
  BY LenProperties DEF Locals
<1> QED BY <1>1, FS_Interval

LEMMA LocalNumbers ==
  ASSUME NEW ls \in Locals
  PROVE  /\ Numbers([i \in DOMAIN ls |-> Cardinality(DOMAIN ls[i])])
         /\ Numbers([i \in DOMAIN ls |-> Bytes(ls[i])])
         /\ LocalCount(ls) \in Nat /\ LocalBytes(ls) \in Nat
<1>1. /\ IsFiniteSet(DOMAIN ls)
      /\ \A i \in DOMAIN ls : Cardinality(DOMAIN ls[i]) \in Nat /\ Bytes(ls[i]) \in Nat
  BY LocalsAre, MapIs, BytesType DEF Variables
<1>2. Numbers([i \in DOMAIN ls |-> Cardinality(DOMAIN ls[i])])
  BY <1>1 DEF Numbers
<1>3. Numbers([i \in DOMAIN ls |-> Bytes(ls[i])])
  BY <1>1 DEF Numbers
<1>4. LocalCount(ls) \in Nat
  BY <1>2, SumType DEF LocalCount
<1>5. LocalBytes(ls) \in Nat
  BY <1>3, SumType DEF LocalBytes
<1> QED BY <1>2, <1>3, <1>4, <1>5

LEMMA LocalsLess ==
  ASSUME NEW ls \in Locals, NEW g \in Locals, Len(g) <= Len(ls),
         \A i \in 1..Len(g) : /\ DOMAIN g[i] \subseteq DOMAIN ls[i]
                              /\ \A x \in DOMAIN g[i] : g[i][x] = ls[i][x]
  PROVE  LocalCount(g) <= LocalCount(ls) /\ LocalBytes(g) <= LocalBytes(ls)
<1>1. /\ DOMAIN g \subseteq DOMAIN ls
      /\ \A i \in DOMAIN g : /\ i \in 1..Len(g) /\ i \in DOMAIN ls
                             /\ g[i] \in Variables /\ ls[i] \in Variables
  <2>1. /\ Len(ls) \in Nat /\ DOMAIN ls = 1..Len(ls)
        /\ \A i \in DOMAIN ls : ls[i] \in Variables
    BY LocalsAre
  <2>2. /\ Len(g) \in Nat /\ DOMAIN g = 1..Len(g)
        /\ \A i \in DOMAIN g : g[i] \in Variables
    BY LocalsAre
  <2> QED BY <2>1, <2>2
<1>2. \A i \in DOMAIN g : /\ Cardinality(DOMAIN g[i]) <= Cardinality(DOMAIN ls[i])
                          /\ Bytes(g[i]) <= Bytes(ls[i])
  BY <1>1, CountLess, BytesLess DEF Variables
<1>3. LocalCount(g) <= LocalCount(ls)
  <2> DEFINE a == [i \in DOMAIN ls |-> Cardinality(DOMAIN ls[i])]
             b == [i \in DOMAIN g |-> Cardinality(DOMAIN g[i])]
  <2>1. Numbers(a) /\ Numbers(b)
    BY LocalNumbers
  <2>2. DOMAIN b \subseteq DOMAIN a /\ \A i \in DOMAIN b : b[i] <= a[i]
    BY <1>1, <1>2
  <2>3. Sum(b) <= Sum(a)
    <3> HIDE DEF a, b
    <3> QED BY <2>1, <2>2, SumLess
  <2> QED BY <2>3 DEF LocalCount
<1>4. LocalBytes(g) <= LocalBytes(ls)
  <2> DEFINE a == [i \in DOMAIN ls |-> Bytes(ls[i])]
             b == [i \in DOMAIN g |-> Bytes(g[i])]
  <2>1. Numbers(a) /\ Numbers(b)
    BY LocalNumbers
  <2>2. DOMAIN b \subseteq DOMAIN a /\ \A i \in DOMAIN b : b[i] <= a[i]
    BY <1>1, <1>2
  <2>3. Sum(b) <= Sum(a)
    <3> HIDE DEF a, b
    <3> QED BY <2>1, <2>2, SumLess
  <2> QED BY <2>3 DEF LocalBytes
<1> QED BY <1>3, <1>4

(* One frame's map is replaced, or a frame is added.                       *)
LEMMA LocalsChange ==
  ASSUME NEW ls \in Locals, NEW g \in Locals, NEW i,
         DOMAIN g = DOMAIN ls \cup {i},
         \A j \in DOMAIN ls : j # i => g[j] = ls[j]
  PROVE  /\ i \in DOMAIN ls =>
              /\ LocalCount(g) = LocalCount(ls) + Cardinality(DOMAIN g[i])
                                                - Cardinality(DOMAIN ls[i])
              /\ LocalBytes(g) = LocalBytes(ls) + Bytes(g[i]) - Bytes(ls[i])
         /\ i \notin DOMAIN ls =>
              /\ LocalCount(g) = LocalCount(ls) + Cardinality(DOMAIN g[i])
              /\ LocalBytes(g) = LocalBytes(ls) + Bytes(g[i])
<1>1. Cardinality(DOMAIN g[i]) \in Nat /\ Bytes(g[i]) \in Nat
  <2>1. g[i] \in Variables
    BY LocalsAre
  <2> QED BY <2>1, MapIs, BytesType DEF Variables
<1>2. LocalCount(g) = LocalCount(ls) + Cardinality(DOMAIN g[i])
                        - (IF i \in DOMAIN ls THEN Cardinality(DOMAIN ls[i]) ELSE 0)
  <2> DEFINE a == [j \in DOMAIN ls |-> Cardinality(DOMAIN ls[j])]
             b == [j \in DOMAIN g |-> Cardinality(DOMAIN g[j])]
             v == Cardinality(DOMAIN g[i])
  <2>1. Numbers(a)
    BY LocalNumbers
  <2>2. DOMAIN b = DOMAIN a \cup {i} /\ b[i] = v /\ DOMAIN a = DOMAIN ls
        /\ \A j \in DOMAIN a : j # i => b[j] = a[j]
    OBVIOUS
  <2>3. v \in Nat
    BY <1>1
  <2>4. Sum(b) = Sum(a) + v - Length(a, i)
    <3> HIDE DEF a, b, v
    <3> QED BY <2>1, <2>2, <2>3, SumAfter
  <2> QED BY <2>2, <2>4 DEF LocalCount, Length
<1>3. LocalBytes(g) = LocalBytes(ls) + Bytes(g[i])
                        - (IF i \in DOMAIN ls THEN Bytes(ls[i]) ELSE 0)
  <2> DEFINE a == [j \in DOMAIN ls |-> Bytes(ls[j])]
             b == [j \in DOMAIN g |-> Bytes(g[j])]
             v == Bytes(g[i])
  <2>1. Numbers(a)
    BY LocalNumbers
  <2>2. DOMAIN b = DOMAIN a \cup {i} /\ b[i] = v /\ DOMAIN a = DOMAIN ls
        /\ \A j \in DOMAIN a : j # i => b[j] = a[j]
    OBVIOUS
  <2>3. v \in Nat
    BY <1>1
  <2>4. Sum(b) = Sum(a) + v - Length(a, i)
    <3> HIDE DEF a, b, v
    <3> QED BY <2>1, <2>2, <2>3, SumAfter
  <2> QED BY <2>2, <2>4 DEF LocalBytes, Length
<1>4. LocalCount(ls) \in Nat /\ LocalBytes(ls) \in Nat
  BY LocalNumbers
<1> QED BY <1>1, <1>2, <1>3, <1>4

LEMMA LocalsSet ==
  ASSUME NEW ls \in Locals, NEW i \in DOMAIN ls, NEW m \in Variables, NEW g,
         g = [ls EXCEPT ![i] = m]
  PROVE  /\ g \in Locals /\ Len(g) = Len(ls)
         /\ LocalCount(g) = LocalCount(ls) + Cardinality(DOMAIN m)
                                           - Cardinality(DOMAIN ls[i])
         /\ LocalBytes(g) = LocalBytes(ls) + Bytes(m) - Bytes(ls[i])
<1>1. g \in Locals /\ Len(g) = Len(ls)
  BY ExceptSeq DEF Locals
<1>2. DOMAIN g = DOMAIN ls \cup {i} /\ g[i] = m /\ \A j \in DOMAIN ls : j # i => g[j] = ls[j]
  BY LocalsAre
<1> QED BY <1>1, <1>2, LocalsChange

LEMMA LocalsPush ==
  ASSUME NEW ls \in Locals, NEW g, g = Append(ls, <<>>)
  PROVE  /\ g \in Locals /\ Len(g) = Len(ls) + 1
         /\ LocalCount(g) = LocalCount(ls) /\ LocalBytes(g) = LocalBytes(ls)
<1>1. <<>> \in Variables
  BY EmptyMap DEF Variables
<1>2. /\ Append(ls, <<>>) \in Locals /\ Len(Append(ls, <<>>)) = Len(ls) + 1
      /\ \A i \in 1..Len(ls) : Append(ls, <<>>)[i] = ls[i]
      /\ Append(ls, <<>>)[Len(ls) + 1] = <<>>
  BY <1>1, AppendProperties DEF Locals
<1>3. /\ g \in Locals /\ Len(g) = Len(ls) + 1
      /\ \A i \in 1..Len(ls) : g[i] = ls[i]
      /\ g[Len(ls) + 1] = <<>>
  BY <1>2, Zenon
<1>4. /\ Len(ls) \in Nat /\ DOMAIN ls = 1..Len(ls) /\ DOMAIN g = 1..Len(ls) + 1
  BY <1>3, LocalsAre
<1>5. DOMAIN g = DOMAIN ls \cup {Len(ls) + 1} /\ Len(ls) + 1 \notin DOMAIN ls
  BY <1>4
<1>6. /\ LocalCount(g) = LocalCount(ls) + Cardinality(DOMAIN g[Len(ls) + 1])
      /\ LocalBytes(g) = LocalBytes(ls) + Bytes(g[Len(ls) + 1])
  <2>1. \A j \in DOMAIN ls : j # Len(ls) + 1 => g[j] = ls[j]
    BY <1>3, <1>4
  <2> QED BY <1>3, <1>5, <2>1, LocalsChange, Zenon
<1>7. LocalCount(ls) \in Nat /\ LocalBytes(ls) \in Nat
  BY LocalNumbers
<1>8. Cardinality(DOMAIN <<>>) = 0 /\ Bytes(<<>>) = 0
  BY EmptyMap, BytesNothing
<1> QED BY <1>3, <1>6, <1>7, <1>8

LEMMA LocalsPop ==
  ASSUME NEW ls \in Locals, Len(ls) # 0, NEW g, g = Front(ls)
  PROVE  /\ g \in Locals /\ Len(g) = Len(ls) - 1
         /\ LocalCount(g) <= LocalCount(ls) /\ LocalBytes(g) <= LocalBytes(ls)
<1>1. Len(ls) \in Nat /\ DOMAIN ls = 1..Len(ls) /\ \A i \in DOMAIN ls : ls[i] \in Variables
  BY LocalsAre
<1>2. /\ SubSeq(ls, 1, Len(ls) - 1) \in Seq(Variables)
      /\ Len(SubSeq(ls, 1, Len(ls) - 1)) =
           IF 1 <= Len(ls) - 1 THEN Len(ls) - 1 - 1 + 1 ELSE 0
      /\ \A i \in 1..Len(ls) - 1 - 1 + 1 : SubSeq(ls, 1, Len(ls) - 1)[i] = ls[1 + i - 1]
  <2>1. \A i \in 1..Len(ls) - 1 : ls[i] \in Variables
    BY <1>1
  <2> QED BY <1>1, <2>1, SubSeqProperties DEF Locals
<1>3. /\ g \in Locals /\ Len(g) = Len(ls) - 1
      /\ \A i \in 1..Len(g) : g[i] = ls[i]
  BY <1>1, <1>2 DEF Locals, Front
<1> QED BY <1>1, <1>3, LocalsLess

LEMMA LocalsNone ==
  /\ <<>> \in Locals /\ Len(<<>>) = 0
  /\ LocalCount(<<>>) = 0 /\ LocalBytes(<<>>) = 0
<1>1. <<>> \in Locals /\ Len(<<>>) = 0
  BY EmptySeq DEF Locals
<1>2. Sum([i \in DOMAIN <<>> |-> Cardinality(DOMAIN <<>>[i])]) = 0
  BY EmptyMap, SumNothing
<1>3. Sum([i \in DOMAIN <<>> |-> Bytes(<<>>[i])]) = 0
  BY EmptyMap, SumNothing
<1> QED BY <1>1, <1>2, <1>3 DEF LocalCount, LocalBytes

(* What an unset leaves of the locals.                                     *)
LEMMA LocalsWithout ==
  ASSUME NEW ls \in Locals, NEW n, NEW g, g = [i \in DOMAIN ls |-> Without(ls[i], n)]
  PROVE  /\ g \in Locals /\ Len(g) = Len(ls)
         /\ LocalCount(g) <= LocalCount(ls) /\ LocalBytes(g) <= LocalBytes(ls)
<1>1. Len(ls) \in Nat /\ DOMAIN ls = 1..Len(ls) /\ \A i \in DOMAIN ls : ls[i] \in Variables
  BY LocalsAre
<1>2. \A i \in 1..Len(ls) : /\ Without(ls[i], n) \in Variables
                            /\ DOMAIN Without(ls[i], n) \subseteq DOMAIN ls[i]
                            /\ \A x \in DOMAIN Without(ls[i], n) :
                                 Without(ls[i], n)[x] = ls[i][x]
  <2> TAKE i \in 1..Len(ls)
  <2>1. PICK m \in MapSet(Names, Nat) : m = ls[i]
    BY <1>1 DEF Variables
  <2>2. /\ Without(m, n) \in MapSet(Names, Nat) /\ DOMAIN Without(m, n) = DOMAIN m \ {n}
        /\ \A x \in DOMAIN m \ {n} : Without(m, n)[x] = m[x]
    BY WithoutIs
  <2> QED BY <2>1, <2>2 DEF Variables
<1>3. g \in [1..Len(ls) -> Variables]
  BY <1>1, <1>2
<1>4. g \in Locals /\ Len(g) = Len(ls)
  BY <1>1, <1>3, SeqDef, LenProperties DEF Locals
<1> QED BY <1>1, <1>2, <1>4, LocalsLess

----------------------------------------------------------------------------
(***************************************************************************)
(* The elements of the arrays.                                             *)
(***************************************************************************)
ArrayMaps == MapSet(Arrays, Elements)

LEMMA ElementsAre ==
  ASSUME NEW e \in Elements
  PROVE  IsFiniteSet(e) /\ e \subseteq Indices /\ Cardinality(e) \in Nat
BY FS_CardinalityType DEF Elements

LEMMA NoElements == {} \in Elements /\ Cardinality({}) = 0
BY FS_EmptySet DEF Elements

LEMMA EntriesAre ==
  ASSUME NEW as \in ArrayMaps, NEW a
  PROVE  Entries(as, a) \in Elements
<1>1. as \in [DOMAIN as -> Elements]
  BY MapIs DEF ArrayMaps
<1> QED BY <1>1, NoElements DEF Entries

LEMMA ElementNumbers ==
  ASSUME NEW as \in ArrayMaps
  PROVE  Numbers([a \in DOMAIN as |-> Cardinality(as[a])]) /\ ElementCount(as) \in Nat
<1>1. as \in [DOMAIN as -> Elements] /\ IsFiniteSet(DOMAIN as)
  BY MapIs DEF ArrayMaps
<1>2. \A a \in DOMAIN as : Cardinality(as[a]) \in Nat
  BY <1>1, ElementsAre
<1>3. Numbers([a \in DOMAIN as |-> Cardinality(as[a])])
  BY <1>1, <1>2 DEF Numbers
<1> QED BY <1>3, SumType DEF ElementCount

LEMMA ElementsWith ==
  ASSUME NEW as \in ArrayMaps, NEW a \in Arrays, NEW e \in Elements
  PROVE  /\ ElementCount(With(as, a, e)) =
              ElementCount(as) + Cardinality(e) - Cardinality(Entries(as, a))
         /\ Cardinality(Entries(as, a)) <= ElementCount(as)
<1>1. PICK bs : bs = With(as, a, e)
  OBVIOUS
<1>2. /\ DOMAIN bs = DOMAIN as \cup {a} /\ bs[a] = e
      /\ \A x \in DOMAIN as : x # a => bs[x] = as[x]
  BY <1>1 DEF With
<1>3. Cardinality(e) \in Nat
  BY ElementsAre
<1> DEFINE f == [x \in DOMAIN as |-> Cardinality(as[x])]
           g == [x \in DOMAIN bs |-> Cardinality(bs[x])]
<1>4. Numbers(f) /\ DOMAIN f = DOMAIN as
  BY ElementNumbers
<1>5. /\ DOMAIN g = DOMAIN f \cup {a} /\ g[a] = Cardinality(e)
      /\ \A x \in DOMAIN f : x # a => g[x] = f[x]
  BY <1>2
<1>6. Cardinality(Entries(as, a)) = Length(f, a)
  BY NoElements DEF Entries, Length
<1>7. Sum(g) = Sum(f) + Cardinality(e) - Length(f, a)
  <2> HIDE DEF f, g
  <2> QED BY <1>3, <1>4, <1>5, SumAfter
<1>8. ElementCount(bs) = Sum(g) /\ ElementCount(as) = Sum(f)
  BY DEF ElementCount
<1>9. Length(f, a) <= Sum(f)
  <2> HIDE DEF f
  <2>1. f \in MapSet(DOMAIN f, Nat)
    BY <1>4, MapIn DEF Numbers
  <2> QED BY <2>1, LengthIs
<1> HIDE DEF f, g
<1> QED BY <1>1, <1>6, <1>7, <1>8, <1>9

LEMMA ElementsLess ==
  ASSUME NEW as \in ArrayMaps, NEW a
  PROVE  /\ Without(as, a) \in ArrayMaps
         /\ ElementCount(Without(as, a)) <= ElementCount(as)
<1>1. PICK bs : bs = Without(as, a)
  OBVIOUS
<1>2. /\ bs \in ArrayMaps /\ DOMAIN bs = DOMAIN as \ {a}
      /\ \A x \in DOMAIN as \ {a} : bs[x] = as[x]
  <2>1. as \in MapSet(Arrays, Elements)
    BY DEF ArrayMaps
  <2>2. Without(as, a) \in MapSet(Arrays, Elements)
    BY <2>1, WithoutIs
  <2>3. DOMAIN bs = DOMAIN as \ {a} /\ \A x \in DOMAIN as \ {a} : bs[x] = as[x]
    BY <1>1 DEF Without, Restrict
  <2> QED BY <1>1, <2>2, <2>3 DEF ArrayMaps
<1> DEFINE f == [x \in DOMAIN as |-> Cardinality(as[x])]
           g == [x \in DOMAIN bs |-> Cardinality(bs[x])]
<1>3. Numbers(f) /\ Numbers(g)
  BY <1>2, ElementNumbers
<1>4. DOMAIN g \subseteq DOMAIN f /\ \A x \in DOMAIN g : g[x] = f[x] /\ f[x] \in Nat
  <2>1. \A x \in DOMAIN as : f[x] \in Nat
    <3> HIDE DEF f
    <3>1. f \in [DOMAIN f -> Nat]
      BY <1>3 DEF Numbers
    <3> QED BY <3>1 DEF f
  <2> QED BY <1>2, <2>1
<1>5. Sum(g) <= Sum(f)
  <2> HIDE DEF f, g
  <2>1. \A x \in DOMAIN g : g[x] <= f[x]
    BY <1>4
  <2> QED BY <1>3, <1>4, <2>1, SumLess
<1> QED BY <1>1, <1>2, <1>5 DEF ElementCount

LEMMA ElementsNothing == <<>> \in ArrayMaps /\ ElementCount(<<>>) = 0
<1>1. Sum([a \in DOMAIN <<>> |-> Cardinality(<<>>[a])]) = 0
  BY EmptyMap, SumNothing
<1> QED BY <1>1, EmptyMap DEF ElementCount, ArrayMaps

----------------------------------------------------------------------------
(***************************************************************************)
(* Shells, and what an operation on one has to keep.                       *)
(***************************************************************************)
FunctionMaps == MapSet(FunctionSet, Nat)

ShellType ==
  [variables : Variables, env : Variables, arrays : ArrayMaps, functions : FunctionMaps,
   readonly : SUBSET Names, allexport : BOOLEAN, locals : Locals, budget : Budget]

LEMMA ShellIs ==
  ASSUME NEW sh \in ShellType
  PROVE  /\ sh.variables \in Variables /\ sh.env \in Variables /\ sh.arrays \in ArrayMaps
         /\ sh.functions \in FunctionMaps /\ sh.readonly \in SUBSET Names
         /\ sh.allexport \in BOOLEAN /\ sh.locals \in Locals /\ sh.budget \in Budget
BY DEF ShellType

LEMMA BudgetIs ==
  ASSUME NEW b \in Budget
  PROVE  /\ b.variable_count \in Nat /\ b.variable_bytes \in Nat /\ b.array_entries \in Nat
         /\ b.function_count \in Nat /\ b.function_body_bytes \in Nat
BY DEF Budget

(* The functions are within the counts and the limits, and so are the      *)
(* variables and arrays.                                                   *)
FunctionsKept(sh) ==
  /\ sh.budget.function_count >= Cardinality(DOMAIN sh.functions)
  /\ sh.budget.function_body_bytes >= Sum(sh.functions)
  /\ Cardinality(DOMAIN sh.functions) <= MaxFunctionCount
  /\ Sum(sh.functions) <= MaxFunctionBytes

CountsKept(sh) ==
  /\ sh.budget.variable_count >= StoredCount(sh)
  /\ sh.budget.variable_bytes >= StoredBytes(sh)
  /\ sh.budget.array_entries >= ElementCount(sh.arrays)
  /\ StoredCount(sh) <= MaxVariableCount
  /\ Bytes(sh.variables) <= MaxVariableBytes
  /\ ElementCount(sh.arrays) <= MaxArrayEntries

(* What a change that nobody counts keeps, and what one that is counted    *)
(* keeps.                                                                  *)
KeepsFunctions(sh, g) ==
  /\ g \in ShellType /\ Len(g.locals) = Len(sh.locals)
  /\ FunctionsKept(sh) => FunctionsKept(g)
Keeps(sh, g) == KeepsFunctions(sh, g) /\ (CountsKept(sh) => CountsKept(g))

LEMMA KeepsItself ==
  ASSUME NEW sh \in ShellType
  PROVE  Keeps(sh, sh)
BY DEF Keeps, KeepsFunctions

LEMMA KeepsTwice ==
  ASSUME NEW sh, NEW g, NEW h, Keeps(sh, g), Keeps(g, h)
  PROVE  Keeps(sh, h)
BY DEF Keeps, KeepsFunctions

LEMMA StoredIs ==
  ASSUME NEW sh \in ShellType
  PROVE  /\ Cardinality(DOMAIN sh.variables) \in Nat /\ Bytes(sh.variables) \in Nat
         /\ LocalCount(sh.locals) \in Nat /\ LocalBytes(sh.locals) \in Nat
         /\ ElementCount(sh.arrays) \in Nat
         /\ Cardinality(DOMAIN sh.functions) \in Nat /\ Sum(sh.functions) \in Nat
<1>1. Cardinality(DOMAIN sh.variables) \in Nat /\ Bytes(sh.variables) \in Nat
  BY ShellIs, MapIs, BytesType DEF Variables
<1>2. LocalCount(sh.locals) \in Nat /\ LocalBytes(sh.locals) \in Nat
  BY ShellIs, LocalNumbers
<1>3. ElementCount(sh.arrays) \in Nat
  BY ShellIs, ElementNumbers
<1>4. Cardinality(DOMAIN sh.functions) \in Nat /\ Sum(sh.functions) \in Nat
  BY ShellIs, MapIs, BytesType DEF FunctionMaps
<1> QED BY <1>1, <1>2, <1>3, <1>4

(* Nothing is recorded and nothing grows.                                  *)
LEMMA LessKept ==
  ASSUME NEW sh \in ShellType, NEW g \in ShellType, g.budget = sh.budget,
         Cardinality(DOMAIN g.variables) <= Cardinality(DOMAIN sh.variables),
         Bytes(g.variables) <= Bytes(sh.variables),
         ElementCount(g.arrays) <= ElementCount(sh.arrays),
         Cardinality(DOMAIN g.functions) <= Cardinality(DOMAIN sh.functions),
         Sum(g.functions) <= Sum(sh.functions),
         LocalCount(g.locals) <= LocalCount(sh.locals),
         LocalBytes(g.locals) <= LocalBytes(sh.locals)
  PROVE  /\ FunctionsKept(sh) => FunctionsKept(g)
         /\ CountsKept(sh) => CountsKept(g)
<1>1. /\ MaxVariableCount \in Nat /\ MaxVariableBytes \in Nat /\ MaxArrayEntries \in Nat
      /\ MaxFunctionCount \in Nat /\ MaxFunctionBytes \in Nat
  BY SizesAssumption
<1>2. /\ sh.budget.variable_count \in Nat /\ sh.budget.variable_bytes \in Nat
      /\ sh.budget.array_entries \in Nat /\ sh.budget.function_count \in Nat
      /\ sh.budget.function_body_bytes \in Nat
  BY ShellIs, BudgetIs
<1>3. /\ Cardinality(DOMAIN g.variables) \in Nat /\ Bytes(g.variables) \in Nat
      /\ LocalCount(g.locals) \in Nat /\ LocalBytes(g.locals) \in Nat
      /\ ElementCount(g.arrays) \in Nat
      /\ Cardinality(DOMAIN g.functions) \in Nat /\ Sum(g.functions) \in Nat
  BY StoredIs
<1>4. /\ Cardinality(DOMAIN sh.variables) \in Nat /\ Bytes(sh.variables) \in Nat
      /\ LocalCount(sh.locals) \in Nat /\ LocalBytes(sh.locals) \in Nat
      /\ ElementCount(sh.arrays) \in Nat
      /\ Cardinality(DOMAIN sh.functions) \in Nat /\ Sum(sh.functions) \in Nat
  BY StoredIs
<1>5. FunctionsKept(sh) => FunctionsKept(g)
  BY <1>1, <1>2, <1>3, <1>4 DEF FunctionsKept
<1>6. CountsKept(sh) => CountsKept(g)
  BY <1>1, <1>2, <1>3, <1>4 DEF CountsKept, StoredCount, StoredBytes
<1> QED BY <1>5, <1>6

(* The map of functions and its counts stay as they are.                   *)
LEMMA FunctionsUntouched ==
  ASSUME NEW sh, NEW g, g.functions = sh.functions,
         g.budget.function_count = sh.budget.function_count,
         g.budget.function_body_bytes = sh.budget.function_body_bytes
  PROVE  FunctionsKept(sh) => FunctionsKept(g)
BY DEF FunctionsKept

LEMMA SaturatedIs ==
  ASSUME NEW n \in Int
  PROVE  Saturated(n) \in Nat /\ Saturated(n) >= n /\ (n >= 0 => Saturated(n) = n)
BY DEF Saturated

(* What is recorded for a variable: exactly what its map grows by, as long *)
(* as the count covers the map.                                            *)
LEMMA Recorded ==
  ASSUME NEW b \in Budget, NEW f \in Variables, NEW k \in Names, NEW v \in Nat,
         NEW r, r = VariableRecorded(b, f, k, v)
  PROVE  /\ r \in Budget
         /\ r.array_entries = b.array_entries /\ r.function_count = b.function_count
         /\ r.function_body_bytes = b.function_body_bytes
         /\ r.variable_count = b.variable_count + Added(f, k)
         /\ r.variable_bytes = BytesAfter(b, f, k, v)
         /\ b.variable_bytes >= Bytes(f) =>
              BytesAfter(b, f, k, v) = b.variable_bytes + Bytes(With(f, k, v)) - Bytes(f)
<1> DEFINE old == IF k \in DOMAIN f THEN KeyLen + f[k] ELSE 0
<1>1. b.variable_bytes \in Nat /\ b.variable_count \in Nat /\ KeyLen \in Nat
  BY BudgetIs, SizesAssumption
<1>2. /\ Bytes(With(f, k, v)) = Bytes(f) + KeyLen + v - old
      /\ k \in DOMAIN f => KeyLen + f[k] <= Bytes(f) /\ f[k] \in Nat
      /\ Bytes(f) \in Nat /\ Added(f, k) \in {0, 1}
  BY BytesWith, BytesType, LengthIs DEF Variables
<1>3. old \in Nat /\ old <= Bytes(f)
  BY <1>1, <1>2
<1>4. BytesAfter(b, f, k, v) = Saturated(b.variable_bytes + KeyLen + v - old)
  BY DEF BytesAfter
<1> HIDE DEF old
<1>5. b.variable_bytes + KeyLen + v - old \in Int
  BY <1>1, <1>3
<1>6. BytesAfter(b, f, k, v) \in Nat
  BY <1>4, <1>5, SaturatedIs
<1>7. b.variable_bytes >= Bytes(f) =>
        BytesAfter(b, f, k, v) = b.variable_bytes + Bytes(With(f, k, v)) - Bytes(f)
  BY <1>1, <1>2, <1>3, <1>4, <1>5, SaturatedIs
<1>8. b.variable_count + Added(f, k) \in Nat
  BY <1>1, <1>2
<1>9. /\ r.array_entries = b.array_entries /\ r.function_count = b.function_count
      /\ r.function_body_bytes = b.function_body_bytes
      /\ r.variable_count = b.variable_count + Added(f, k)
      /\ r.variable_bytes = BytesAfter(b, f, k, v)
  BY DEF VariableRecorded, Budget
<1>10. r \in Budget
  BY <1>6, <1>8 DEF VariableRecorded, Budget
<1> QED BY <1>7, <1>9, <1>10

(* One variable goes into the globals.                                     *)
LEMMA InsertVariableKeeps ==
  ASSUME NEW sh \in ShellType, NEW n \in Names, NEW v \in Nat, NEW g,
         g = InsertVariable(sh, n, v)
  PROVE  /\ Keeps(sh, g) /\ g.locals = sh.locals
         /\ n \in DOMAIN g.variables => g.variables[n] \in Nat
<1> DEFINE b == sh.budget
           f == sh.variables
<1>1. b \in Budget /\ f \in Variables /\ sh.locals \in Locals
  BY ShellIs
<1>0. \A m \in Variables : n \in DOMAIN m => m[n] \in Nat
  BY MapIs DEF Variables
<1>2. CASE ~VariableFits(b, f, n, v)
  BY <1>0, <1>1, <1>2, KeepsItself DEF InsertVariable
<1>3. CASE VariableFits(b, f, n, v)
  <2>1. PICK w, r : w = With(f, n, v) /\ r = VariableRecorded(b, f, n, v)
    OBVIOUS
  <2>2. w \in Variables
    BY <1>1, <2>1, WithIs DEF Variables
  <2>3. g = [sh EXCEPT !.variables = w, !.budget = r]
    BY <1>3, <2>1 DEF InsertVariable
  <2>4. /\ r \in Budget
        /\ r.array_entries = b.array_entries /\ r.function_count = b.function_count
        /\ r.function_body_bytes = b.function_body_bytes
        /\ r.variable_count = b.variable_count + Added(f, n)
        /\ r.variable_bytes = BytesAfter(b, f, n, v)
        /\ b.variable_bytes >= Bytes(f) =>
             BytesAfter(b, f, n, v) = b.variable_bytes + Bytes(w) - Bytes(f)
    BY <1>1, <2>1, Recorded
  <2>5. /\ g.variables = w /\ g.budget = r /\ g.functions = sh.functions
        /\ g.arrays = sh.arrays /\ g.locals = sh.locals
    BY <2>3 DEF ShellType
  <2>6. g \in ShellType
    BY <2>2, <2>3, <2>4 DEF ShellType
  <2>7. FunctionsKept(sh) => FunctionsKept(g)
    BY <2>4, <2>5, FunctionsUntouched
  <2>8. /\ b.variable_count \in Nat /\ b.variable_bytes \in Nat
        /\ Cardinality(DOMAIN f) \in Nat /\ Bytes(f) \in Nat /\ Bytes(w) \in Nat
        /\ LocalCount(sh.locals) \in Nat /\ LocalBytes(sh.locals) \in Nat
        /\ MaxVariableCount \in Nat /\ MaxVariableBytes \in Nat
    BY <1>1, <2>2, BudgetIs, StoredIs, BytesType, SizesAssumption DEF Variables
  <2>9. /\ Cardinality(DOMAIN w) = Cardinality(DOMAIN f) + Added(f, n)
        /\ Added(f, n) \in {0, 1}
    BY <1>1, <2>1, CountWith, LengthIs DEF Variables
  <2>10. /\ Added(f, n) = 0 \/ b.variable_count < MaxVariableCount
         /\ BytesAfter(b, f, n, v) <= MaxVariableBytes
    BY <1>3 DEF VariableFits
  <2>11. ASSUME CountsKept(sh) PROVE CountsKept(g)
    <3>1. /\ b.variable_count >= Cardinality(DOMAIN f) + LocalCount(sh.locals)
          /\ b.variable_bytes >= Bytes(f) + LocalBytes(sh.locals)
          /\ Cardinality(DOMAIN f) + LocalCount(sh.locals) <= MaxVariableCount
          /\ b.array_entries >= ElementCount(sh.arrays)
          /\ ElementCount(sh.arrays) <= MaxArrayEntries
      BY <2>11 DEF CountsKept, StoredCount, StoredBytes
    <3> HIDE DEF b, f
    <3>2. r.variable_bytes = b.variable_bytes + Bytes(w) - Bytes(f)
      BY <2>4, <2>8, <3>1
    <3>3. r.variable_bytes >= Bytes(w) + LocalBytes(sh.locals)
      BY <2>8, <3>1, <3>2
    <3>4. Bytes(w) <= MaxVariableBytes
      BY <2>4, <2>8, <2>10, <3>2, <3>3
    <3>5. r.variable_count >= Cardinality(DOMAIN w) + LocalCount(sh.locals)
      BY <2>4, <2>8, <2>9, <3>1
    <3>6. Cardinality(DOMAIN w) + LocalCount(sh.locals) <= MaxVariableCount
      BY <2>8, <2>9, <2>10, <3>1
    <3> QED BY <2>4, <2>5, <3>1, <3>3, <3>4, <3>5, <3>6
            DEF CountsKept, StoredCount, StoredBytes
  <2>12. n \in DOMAIN g.variables => g.variables[n] \in Nat
    BY <1>0, <2>2, <2>5
  <2> QED BY <2>5, <2>6, <2>7, <2>11, <2>12 DEF Keeps, KeepsFunctions
<1> QED BY <1>2, <1>3

(* Only the environment changes, which no count covers.                    *)
LEMMA EnvKeeps ==
  ASSUME NEW sh \in ShellType, NEW e \in Variables, NEW g, g = [sh EXCEPT !.env = e]
  PROVE  /\ Keeps(sh, g) /\ g.variables = sh.variables /\ g.locals = sh.locals
         /\ g.budget = sh.budget /\ g.arrays = sh.arrays /\ g.functions = sh.functions
<1>1. g \in ShellType
  BY DEF ShellType
<1>2. /\ g.variables = sh.variables /\ g.locals = sh.locals /\ g.budget = sh.budget
      /\ g.arrays = sh.arrays /\ g.functions = sh.functions
  BY DEF ShellType
<1> QED BY <1>1, <1>2
        DEF Keeps, KeepsFunctions, FunctionsKept, CountsKept, StoredCount, StoredBytes

LEMMA PutEnvKeeps ==
  ASSUME NEW sh \in ShellType, NEW n \in Names, NEW v \in Nat, NEW g, g = PutEnv(sh, n, v)
  PROVE  Keeps(sh, g) /\ g.locals = sh.locals
<1>1. With(sh.env, n, v) \in Variables
  BY ShellIs, WithIs DEF Variables
<1> QED BY <1>1, EnvKeeps DEF PutEnv

LEMMA InsertEnvKeeps ==
  ASSUME NEW sh \in ShellType, NEW n \in Names, NEW v \in Nat, NEW g, g = InsertEnv(sh, n, v)
  PROVE  Keeps(sh, g) /\ g.locals = sh.locals
<1>1. With(sh.env, n, v) \in Variables
  BY ShellIs, WithIs DEF Variables
<1> QED BY <1>1, EnvKeeps, KeepsItself DEF InsertEnv

LEMMA MirroredKeeps ==
  ASSUME NEW sh \in ShellType, NEW n \in Names, NEW v \in Nat, NEW g,
         g = InsertEnv(sh, n, v) \/ g = sh
  PROVE  Keeps(sh, g) /\ g.locals = sh.locals
BY InsertEnvKeeps, KeepsItself

(* The smallest and the greatest of finitely many numbers.                 *)
LEMMA Smallest ==
  ASSUME NEW n \in Nat, NEW B \in SUBSET (0..n), B # {}
  PROVE  \E m \in B : \A j \in B : m <= j
<1> DEFINE all == 0..n
           below(m) == {i \in all : i < m}
           Bad == {below(m) : m \in B}
<1>1. IsFiniteSet(all)
  BY FS_Interval
<1>2. Bad \subseteq SUBSET all /\ Bad # {}
  OBVIOUS
<1>3. PICK T \in Bad : \A U \in Bad : ~(U \subseteq T /\ U # T)
  <2> HIDE DEF Bad, all
  <2> QED BY <1>1, <1>2, Least
<1>4. PICK m \in B : T = below(m)
  OBVIOUS
<1>5. ASSUME NEW j \in B, ~(m <= j) PROVE FALSE
  <2>1. below(j) \subseteq below(m) /\ j \in below(m) /\ j \notin below(j)
    BY <1>5
  <2>2. below(j) \in Bad
    OBVIOUS
  <2> HIDE DEF Bad, below, all
  <2> QED BY <1>3, <1>4, <2>1, <2>2
<1> HIDE DEF Bad, below, all
<1> QED BY <1>5

LEMMA Greatest ==
  ASSUME NEW n \in Nat, NEW B \in SUBSET (1..n), B # {}
  PROVE  \E m \in B : \A j \in B : j <= m
<1>1. PICK C : C = {n - j : j \in B}
  OBVIOUS
<1>2. C \in SUBSET (0..n) /\ C # {}
  <2>1. \A j \in B : j \in Int /\ n - j \in 0..n
    OBVIOUS
  <2> QED BY <1>1, <2>1
<1>3. PICK c \in C : \A k \in C : c <= k
  BY <1>2, Smallest
<1>4. PICK m \in B : c = n - m
  BY <1>1
<1>5. \A j \in B : n - m <= n - j
  BY <1>1, <1>3, <1>4
<1>6. \A j \in B : j <= m
  BY <1>5
<1> QED BY <1>6

LEMMA InnermostIs ==
  ASSUME NEW sh \in ShellType, NEW n, Holders(sh, n) # {}
  PROVE  Innermost(sh, n) \in DOMAIN sh.locals /\ n \in DOMAIN sh.locals[Innermost(sh, n)]
<1>1. Len(sh.locals) \in Nat /\ DOMAIN sh.locals = 1..Len(sh.locals)
  BY ShellIs, LocalsAre
<1>2. Holders(sh, n) \in SUBSET (1..Len(sh.locals))
  BY <1>1 DEF Holders
<1>3. \E i \in Holders(sh, n) : \A j \in Holders(sh, n) : j <= i
  BY <1>1, <1>2, Greatest
<1>4. Innermost(sh, n) \in Holders(sh, n)
  BY <1>3 DEF Innermost
<1> QED BY <1>4 DEF Holders

(* A local takes a value: what is recorded is what its frame grows by.     *)
LEMMA SetLocalKeeps ==
  ASSUME NEW sh \in ShellType, NEW n \in Names, NEW v \in Nat, Holders(sh, n) # {},
         NEW g, g = SetLocal(sh, n, v)
  PROVE  Keeps(sh, g)
<1>1. PICK i : i = Innermost(sh, n)
  OBVIOUS
<1>2. i \in DOMAIN sh.locals /\ n \in DOMAIN sh.locals[i]
  BY <1>1, InnermostIs
<1>3. PICK m \in Variables : m = sh.locals[i]
  BY <1>2, ShellIs, LocalsAre
<1>4. PICK w : w = With(m, n, v)
  OBVIOUS
<1>5. w \in Variables /\ DOMAIN w = DOMAIN m
  <2>1. w \in Variables
    BY <1>4, WithIs DEF Variables
  <2>2. DOMAIN w = DOMAIN m \cup {n}
    BY <1>4 DEF With
  <2> QED BY <1>2, <1>3, <2>1, <2>2
<1>6. Bytes(w) = Bytes(m) + v - m[n] /\ m[n] \in Nat /\ KeyLen + m[n] <= Bytes(m)
  <2>1. /\ Bytes(w) = Bytes(m) + KeyLen + v - (KeyLen + m[n])
        /\ m[n] \in Nat /\ KeyLen + m[n] <= Bytes(m)
    BY <1>2, <1>3, <1>4, BytesWith DEF Variables
  <2> QED BY <2>1, <1>5, BytesType, KeyBytes DEF Variables
<1>7. PICK ls : ls = [sh.locals EXCEPT ![i] = w]
  OBVIOUS
<1>8. /\ ls \in Locals /\ Len(ls) = Len(sh.locals)
      /\ LocalCount(ls) = LocalCount(sh.locals) + Cardinality(DOMAIN w) - Cardinality(DOMAIN m)
      /\ LocalBytes(ls) = LocalBytes(sh.locals) + Bytes(w) - Bytes(m)
  BY <1>2, <1>3, <1>5, <1>7, ShellIs, LocalsSet
<1>9. PICK b \in Nat : b = sh.budget.variable_bytes
  BY ShellIs, BudgetIs
<1>10. PICK s : s = Saturated(b + v - m[n])
  OBVIOUS
<1>11. s \in Nat /\ (b + v - m[n] >= 0 => s = b + v - m[n])
  BY <1>6, <1>9, <1>10, SaturatedIs
<1>12. PICK r : r = [sh.budget EXCEPT !.variable_bytes = s]
  OBVIOUS
<1>13. /\ r \in Budget /\ r.variable_bytes = s
       /\ r.variable_count = sh.budget.variable_count
       /\ r.array_entries = sh.budget.array_entries
       /\ r.function_count = sh.budget.function_count
       /\ r.function_body_bytes = sh.budget.function_body_bytes
  BY <1>11, <1>12, ShellIs DEF Budget
<1>14. g = [sh EXCEPT !.locals = ls, !.budget = r]
  BY <1>1, <1>3, <1>4, <1>7, <1>9, <1>10, <1>12 DEF SetLocal, ShellType
<1>15. /\ g.variables = sh.variables /\ g.budget = r /\ g.functions = sh.functions
       /\ g.arrays = sh.arrays /\ g.locals = ls
  BY <1>14 DEF ShellType
<1>16. g \in ShellType
  BY <1>8, <1>13, <1>14 DEF ShellType
<1>17. FunctionsKept(sh) => FunctionsKept(g)
  BY <1>13, <1>15, FunctionsUntouched
<1>18. ASSUME CountsKept(sh) PROVE CountsKept(g)
  <2>1. /\ Cardinality(DOMAIN sh.variables) \in Nat /\ Bytes(sh.variables) \in Nat
        /\ LocalCount(sh.locals) \in Nat /\ LocalBytes(sh.locals) \in Nat
        /\ LocalBytes(ls) \in Nat
    BY <1>8, StoredIs, LocalNumbers
  <2>2. LocalCount(ls) = LocalCount(sh.locals)
    <3>1. Cardinality(DOMAIN m) \in Nat
      BY MapIs DEF Variables
    <3> QED BY <1>5, <1>8, <2>1, <3>1
  <2>3. LocalBytes(ls) = LocalBytes(sh.locals) + v - m[n]
    <3>1. Bytes(m) \in Nat
      BY BytesType DEF Variables
    <3> QED BY <1>6, <1>8, <2>1, <3>1
  <2>4. b >= Bytes(sh.variables) + LocalBytes(sh.locals)
    BY <1>9, <1>18 DEF CountsKept, StoredBytes
  <2>5. s >= Bytes(sh.variables) + LocalBytes(ls)
    BY <1>6, <1>11, <2>1, <2>3, <2>4
  <2> QED BY <1>13, <1>15, <1>18, <2>2, <2>5 DEF CountsKept, StoredCount, StoredBytes
<1> QED BY <1>8, <1>15, <1>16, <1>17, <1>18 DEF Keeps, KeepsFunctions

LEMMA SetVariableKeeps ==
  ASSUME NEW sh \in ShellType, NEW n \in Names, NEW v \in Nat, NEW g,
         g = SetVariable(sh, n, v)
  PROVE  Keeps(sh, g)
<1>1. CASE n \in sh.readonly
  BY <1>1, KeepsItself DEF SetVariable
<1>2. CASE n \notin sh.readonly /\ Holders(sh, n) # {}
  <2>1. PICK s : s = SetLocal(sh, n, v)
    OBVIOUS
  <2>2. Keeps(sh, s)
    BY <1>2, <2>1, SetLocalKeeps
  <2>3. s \in ShellType
    BY <2>2 DEF Keeps, KeepsFunctions
  <2>4. g = InsertEnv(s, n, v) \/ g = s
    BY <1>2, <2>1 DEF SetVariable
  <2>5. Keeps(s, g)
    BY <2>3, <2>4, MirroredKeeps
  <2> QED BY <2>2, <2>5, KeepsTwice
<1>3. CASE n \notin sh.readonly /\ ~(Holders(sh, n) # {})
  <2>1. PICK s : s = InsertVariable(sh, n, v)
    OBVIOUS
  <2>2. Keeps(sh, s)
    BY <2>1, InsertVariableKeeps
  <2>3. s \in ShellType
    BY <2>2 DEF Keeps, KeepsFunctions
  <2>4. g = InsertEnv(s, n, v) \/ g = s
    BY <1>3, <2>1 DEF SetVariable
  <2>5. Keeps(s, g)
    BY <2>3, <2>4, MirroredKeeps, KeepsItself
  <2> QED BY <2>2, <2>5, KeepsTwice
<1> QED BY <1>1, <1>2, <1>3

(* One frame's share of the bytes of all locals.                           *)
LEMMA OneLocal ==
  ASSUME NEW ls \in Locals, NEW i \in DOMAIN ls
  PROVE  Bytes(ls[i]) <= LocalBytes(ls)
<1> DEFINE f == [j \in DOMAIN ls |-> Bytes(ls[j])]
<1>1. Numbers(f)
  BY LocalNumbers
<1>2. f \in MapSet(DOMAIN f, Nat)
  <2> HIDE DEF f
  <2> QED BY <1>1, MapIn DEF Numbers
<1>3. Length(f, i) <= Sum(f)
  <2> HIDE DEF f
  <2> QED BY <1>2, LengthIs
<1>4. Length(f, i) = Bytes(ls[i])
  BY DEF Length
<1> HIDE DEF f
<1> QED BY <1>3, <1>4 DEF f, LocalBytes

(* local n=v in a function.                                                *)
LEMMA InsertLocalKeeps ==
  ASSUME NEW sh \in ShellType, sh.locals # <<>>, NEW n \in Names, NEW v \in Nat, NEW g,
         g = InsertLocal(sh, n, v)
  PROVE  Keeps(sh, g)
<1> DEFINE b == sh.budget
<1>1. PICK top : top = Len(sh.locals)
  OBVIOUS
<1>2. sh.locals \in Locals /\ b \in Budget
  BY ShellIs
<1>3. top \in DOMAIN sh.locals
  <2>1. Len(sh.locals) \in Nat /\ DOMAIN sh.locals = 1..Len(sh.locals)
    BY <1>2, LocalsAre
  <2>2. Len(sh.locals) # 0
    BY <1>2, EmptySeq DEF Locals
  <2> QED BY <1>1, <2>1, <2>2
<1>4. PICK m \in Variables : m = sh.locals[top]
  BY <1>2, <1>3, LocalsAre
<1>5. CASE ~VariableFits(b, m, n, v)
  BY <1>1, <1>4, <1>5, KeepsItself DEF InsertLocal
<1>6. CASE VariableFits(b, m, n, v)
  <2>1. PICK w, r : w = With(m, n, v) /\ r = VariableRecorded(b, m, n, v)
    OBVIOUS
  <2>2. w \in Variables
    BY <2>1, WithIs DEF Variables
  <2>3. PICK ls : ls = [sh.locals EXCEPT ![top] = w]
    OBVIOUS
  <2>4. /\ ls \in Locals /\ Len(ls) = Len(sh.locals)
        /\ LocalCount(ls) = LocalCount(sh.locals) + Cardinality(DOMAIN w)
                                                  - Cardinality(DOMAIN m)
        /\ LocalBytes(ls) = LocalBytes(sh.locals) + Bytes(w) - Bytes(m)
    BY <1>2, <1>3, <1>4, <2>2, <2>3, LocalsSet
  <2>5. g = [sh EXCEPT !.locals = ls, !.budget = r]
    BY <1>1, <1>4, <1>6, <2>1, <2>3 DEF InsertLocal, ShellType
  <2>6. /\ r \in Budget
        /\ r.array_entries = b.array_entries /\ r.function_count = b.function_count
        /\ r.function_body_bytes = b.function_body_bytes
        /\ r.variable_count = b.variable_count + Added(m, n)
        /\ r.variable_bytes = BytesAfter(b, m, n, v)
        /\ b.variable_bytes >= Bytes(m) =>
             BytesAfter(b, m, n, v) = b.variable_bytes + Bytes(w) - Bytes(m)
    BY <1>2, <2>1, Recorded
  <2>7. /\ g.variables = sh.variables /\ g.budget = r /\ g.functions = sh.functions
        /\ g.arrays = sh.arrays /\ g.locals = ls
    BY <2>5 DEF ShellType
  <2>8. g \in ShellType
    BY <2>4, <2>5, <2>6 DEF ShellType
  <2>9. FunctionsKept(sh) => FunctionsKept(g)
    BY <2>6, <2>7, FunctionsUntouched
  <2>10. /\ b.variable_count \in Nat /\ b.variable_bytes \in Nat
         /\ Cardinality(DOMAIN m) \in Nat /\ Bytes(m) \in Nat /\ Bytes(w) \in Nat
         /\ LocalCount(sh.locals) \in Nat /\ LocalBytes(sh.locals) \in Nat
         /\ MaxVariableCount \in Nat
    BY <1>2, <2>2, MapIs, BudgetIs, StoredIs, BytesType, SizesAssumption DEF Variables
  <2>11. /\ Cardinality(DOMAIN w) = Cardinality(DOMAIN m) + Added(m, n)
         /\ Added(m, n) \in {0, 1}
    BY <2>1, CountWith, LengthIs DEF Variables
  <2>12. Added(m, n) = 0 \/ b.variable_count < MaxVariableCount
    BY <1>6 DEF VariableFits
  <2>13. Bytes(m) <= LocalBytes(sh.locals)
    BY <1>2, <1>3, <1>4, OneLocal
  <2>14. ASSUME CountsKept(sh) PROVE CountsKept(g)
    <3>1. PICK c \in Nat, y \in Nat : /\ c = Cardinality(DOMAIN sh.variables)
                                      /\ y = Bytes(sh.variables)
      BY StoredIs
    <3>2. /\ b.variable_count >= c + LocalCount(sh.locals)
          /\ b.variable_bytes >= y + LocalBytes(sh.locals)
          /\ c + LocalCount(sh.locals) <= MaxVariableCount
      BY <2>14, <3>1 DEF CountsKept, StoredCount, StoredBytes
    <3>3. /\ b.array_entries >= ElementCount(sh.arrays)
          /\ ElementCount(sh.arrays) <= MaxArrayEntries
          /\ y <= MaxVariableBytes
      BY <2>14, <3>1 DEF CountsKept
    <3> HIDE DEF b
    <3>4. r.variable_bytes = b.variable_bytes + Bytes(w) - Bytes(m)
      BY <2>6, <2>10, <2>13, <3>2
    <3>5. r.variable_bytes >= y + LocalBytes(ls)
      BY <2>4, <2>10, <3>2, <3>4
    <3>6. /\ r.variable_count >= c + LocalCount(ls)
          /\ c + LocalCount(ls) <= MaxVariableCount
      <4>1. LocalCount(ls) = LocalCount(sh.locals) + Added(m, n)
        BY <2>4, <2>10, <2>11
      <4>2. r.variable_count = b.variable_count + Added(m, n)
        BY <2>6
      <4> QED BY <2>10, <2>11, <2>12, <3>2, <4>1, <4>2
    <3> QED BY <2>6, <2>7, <3>1, <3>3, <3>5, <3>6 DEF CountsKept, StoredCount, StoredBytes
  <2> QED BY <2>4, <2>7, <2>8, <2>9, <2>14 DEF Keeps, KeepsFunctions
<1> QED BY <1>5, <1>6

(* The arrays change, and nothing else but the count of their elements.    *)
LEMMA ArraysKeep ==
  ASSUME NEW sh \in ShellType, NEW as \in ArrayMaps, NEW c \in Nat, NEW g,
         g = [sh EXCEPT !.arrays = as, !.budget = [@ EXCEPT !.array_entries = c]]
  PROVE  /\ KeepsFunctions(sh, g)
         /\ c >= ElementCount(as) /\ ElementCount(as) <= MaxArrayEntries => Keeps(sh, g)
<1>1. PICK r : r = [sh.budget EXCEPT !.array_entries = c]
  OBVIOUS
<1>2. /\ r \in Budget /\ r.array_entries = c
      /\ r.variable_count = sh.budget.variable_count
      /\ r.variable_bytes = sh.budget.variable_bytes
      /\ r.function_count = sh.budget.function_count
      /\ r.function_body_bytes = sh.budget.function_body_bytes
  BY <1>1, ShellIs DEF Budget
<1>3. g = [sh EXCEPT !.arrays = as, !.budget = r]
  BY <1>1 DEF ShellType
<1>4. /\ g.variables = sh.variables /\ g.budget = r /\ g.functions = sh.functions
      /\ g.arrays = as /\ g.locals = sh.locals
  BY <1>3 DEF ShellType
<1>5. g \in ShellType
  BY <1>2, <1>3 DEF ShellType
<1>6. FunctionsKept(sh) => FunctionsKept(g)
  BY <1>2, <1>4, FunctionsUntouched
<1>7. KeepsFunctions(sh, g)
  BY <1>4, <1>5, <1>6 DEF KeepsFunctions
<1>8. ASSUME c >= ElementCount(as), ElementCount(as) <= MaxArrayEntries, CountsKept(sh)
      PROVE  CountsKept(g)
  BY <1>2, <1>4, <1>8 DEF CountsKept, StoredCount, StoredBytes
<1> QED BY <1>7, <1>8 DEF Keeps

LEMMA InsertArrayKeeps ==
  ASSUME NEW sh \in ShellType, NEW a \in Arrays, NEW e \in Elements, NEW g,
         g = InsertArray(sh, a, e)
  PROVE  Keeps(sh, g)
<1> DEFINE b == sh.budget
<1>1. PICK old \in Elements : old = Entries(sh.arrays, a)
  BY ShellIs, EntriesAre
<1>2. CASE ~EntriesFit(b, old, e)
  BY <1>1, <1>2, KeepsItself DEF InsertArray
<1>3. CASE EntriesFit(b, old, e)
  <2>1. PICK as : as = With(sh.arrays, a, e)
    OBVIOUS
  <2>2. as \in ArrayMaps
    BY <2>1, ShellIs, WithIs DEF ArrayMaps
  <2>3. /\ ElementCount(as) = ElementCount(sh.arrays) + Cardinality(e) - Cardinality(old)
        /\ Cardinality(old) <= ElementCount(sh.arrays)
    BY <1>1, <2>1, ShellIs, ElementsWith
  <2>4. /\ b.array_entries \in Nat /\ Cardinality(e) \in Nat /\ Cardinality(old) \in Nat
        /\ ElementCount(sh.arrays) \in Nat /\ MaxArrayEntries \in Nat
    BY ShellIs, BudgetIs, ElementsAre, StoredIs, SizesAssumption
  <2>5. PICK c : c = Saturated(b.array_entries - Cardinality(old)) + Cardinality(e)
    OBVIOUS
  <2>6. /\ c \in Nat
        /\ b.array_entries >= Cardinality(old) =>
             c = b.array_entries - Cardinality(old) + Cardinality(e)
    BY <2>4, <2>5, SaturatedIs
  <2>7. g = [sh EXCEPT !.arrays = as, !.budget = [@ EXCEPT !.array_entries = c]]
    BY <1>1, <1>3, <2>1, <2>5 DEF InsertArray, EntriesRecorded
  <2>8. \/ Saturated(Cardinality(e) - Cardinality(old)) = 0
        \/ b.array_entries + Saturated(Cardinality(e) - Cardinality(old)) <= MaxArrayEntries
    BY <1>3 DEF EntriesFit
  <2>9. ASSUME CountsKept(sh)
        PROVE  c >= ElementCount(as) /\ ElementCount(as) <= MaxArrayEntries
    <3>1. /\ b.array_entries >= ElementCount(sh.arrays)
          /\ ElementCount(sh.arrays) <= MaxArrayEntries
      BY <2>9 DEF CountsKept
    <3> HIDE DEF b
    <3>2. c >= ElementCount(as)
      BY <2>3, <2>4, <2>6, <3>1
    <3>3. CASE Cardinality(e) <= Cardinality(old)
      BY <2>3, <2>4, <3>1, <3>2, <3>3
    <3>4. CASE Cardinality(e) > Cardinality(old)
      <4>1. Saturated(Cardinality(e) - Cardinality(old)) = Cardinality(e) - Cardinality(old)
        BY <2>4, <3>4, SaturatedIs
      <4> QED BY <2>3, <2>4, <2>8, <3>1, <3>2, <3>4, <4>1
    <3>5. \/ Cardinality(e) <= Cardinality(old)
          \/ Cardinality(e) > Cardinality(old)
      BY <2>4
    <3> QED BY <3>3, <3>4, <3>5, Zenon
  <2>10. KeepsFunctions(sh, g)
    BY <2>2, <2>6, <2>7, ArraysKeep
  <2>11. ASSUME CountsKept(sh) PROVE CountsKept(g)
    <3>1. Keeps(sh, g)
      BY <2>2, <2>6, <2>7, <2>9, <2>11, ArraysKeep
    <3> QED BY <2>11, <3>1 DEF Keeps
  <2> QED BY <2>10, <2>11 DEF Keeps
<1> QED BY <1>2, <1>3

LEMMA InsertElementKeeps ==
  ASSUME NEW sh \in ShellType, NEW a \in Arrays, NEW i \in Indices, NEW g,
         g = InsertElement(sh, a, i)
  PROVE  Keeps(sh, g)
<1> DEFINE b == sh.budget
<1>1. PICK old \in Elements : old = Entries(sh.arrays, a)
  BY ShellIs, EntriesAre
<1>2. CASE i \in old \/ b.array_entries + 1 > MaxArrayEntries
  BY <1>1, <1>2, KeepsItself DEF InsertElement
<1>3. CASE ~(i \in old \/ b.array_entries + 1 > MaxArrayEntries)
  <2>1. PICK e : e = old \cup {i}
    OBVIOUS
  <2>2. e \in Elements /\ Cardinality(e) = Cardinality(old) + 1
    BY <1>3, <2>1, ElementsAre, FS_AddElement DEF Elements
  <2>3. PICK as : as = With(sh.arrays, a, e)
    OBVIOUS
  <2>4. as \in ArrayMaps
    BY <2>2, <2>3, ShellIs, WithIs DEF ArrayMaps
  <2>5. ElementCount(as) = ElementCount(sh.arrays) + Cardinality(e) - Cardinality(old)
    BY <1>1, <2>2, <2>3, ShellIs, ElementsWith
  <2>6. /\ b.array_entries \in Nat /\ Cardinality(old) \in Nat
        /\ ElementCount(sh.arrays) \in Nat /\ MaxArrayEntries \in Nat
    BY ShellIs, BudgetIs, ElementsAre, StoredIs, SizesAssumption
  <2>7. PICK c : c = b.array_entries + 1
    OBVIOUS
  <2>8. g = [sh EXCEPT !.arrays = as, !.budget = [@ EXCEPT !.array_entries = c]]
    BY <1>1, <1>3, <2>1, <2>3, <2>7 DEF InsertElement, ShellType
  <2>9. c \in Nat /\ c <= MaxArrayEntries
    BY <1>3, <2>6, <2>7
  <2>10. ElementCount(as) = ElementCount(sh.arrays) + 1
    <3> HIDE DEF b
    <3> QED BY <2>2, <2>5, <2>6
  <2>11. KeepsFunctions(sh, g)
    BY <2>4, <2>8, <2>9, ArraysKeep
  <2>12. ASSUME CountsKept(sh) PROVE CountsKept(g)
    <3>1. b.array_entries >= ElementCount(sh.arrays)
      BY <2>12 DEF CountsKept
    <3>2. c >= ElementCount(as) /\ ElementCount(as) <= MaxArrayEntries
      <4> HIDE DEF b
      <4> QED BY <2>6, <2>7, <2>9, <2>10, <3>1
    <3>3. Keeps(sh, g)
      BY <2>4, <2>8, <2>9, <3>2, ArraysKeep
    <3> QED BY <2>12, <3>3 DEF Keeps
  <2> QED BY <2>11, <2>12 DEF Keeps
<1> QED BY <1>2, <1>3

(* Of the maps only a part is left, and the attributes are any.            *)
LEMMA LessKeeps ==
  ASSUME NEW sh \in ShellType, NEW g \in ShellType, g.budget = sh.budget,
         Len(g.locals) = Len(sh.locals),
         Cardinality(DOMAIN g.variables) <= Cardinality(DOMAIN sh.variables),
         Bytes(g.variables) <= Bytes(sh.variables),
         ElementCount(g.arrays) <= ElementCount(sh.arrays),
         Cardinality(DOMAIN g.functions) <= Cardinality(DOMAIN sh.functions),
         Sum(g.functions) <= Sum(sh.functions),
         LocalCount(g.locals) <= LocalCount(sh.locals),
         LocalBytes(g.locals) <= LocalBytes(sh.locals)
  PROVE  Keeps(sh, g)
BY LessKept DEF Keeps, KeepsFunctions

(* A variable is taken out of a map.                                       *)
LEMMA VariablesLess ==
  ASSUME NEW m \in Variables, NEW n
  PROVE  /\ Without(m, n) \in Variables
         /\ Cardinality(DOMAIN Without(m, n)) <= Cardinality(DOMAIN m)
         /\ Bytes(Without(m, n)) <= Bytes(m)
<1>1. m \in MapSet(Names, Nat)
  BY DEF Variables
<1>2. PICK g \in MapSet(Names, Nat) : g = Without(m, n)
  BY <1>1, WithoutIs
<1>3. DOMAIN g \subseteq DOMAIN m /\ \A x \in DOMAIN g : g[x] = m[x]
  BY <1>2 DEF Without, Restrict
<1>4. Bytes(g) <= Bytes(m)
  BY <1>1, <1>3, BytesLess
<1>5. Cardinality(DOMAIN g) <= Cardinality(DOMAIN m)
  BY <1>1, <1>3, CountLess
<1> QED BY <1>2, <1>4, <1>5 DEF Variables

LEMMA UnsetKeeps ==
  ASSUME NEW sh \in ShellType, NEW n, NEW g,
         g = [sh EXCEPT !.variables = Without(@, n), !.env = Without(@, n),
                        !.arrays = Without(@, n),
                        !.locals = [i \in DOMAIN @ |-> Without(@[i], n)]]
  PROVE  Keeps(sh, g)
<1>1. PICK vs, e, as, ls : /\ vs = Without(sh.variables, n) /\ e = Without(sh.env, n)
                           /\ as = Without(sh.arrays, n)
                           /\ ls = [i \in DOMAIN sh.locals |-> Without(sh.locals[i], n)]
  OBVIOUS
<1>2. g = [sh EXCEPT !.variables = vs, !.env = e, !.arrays = as, !.locals = ls]
  BY <1>1 DEF ShellType
<1>3. /\ vs \in Variables /\ e \in Variables
      /\ Cardinality(DOMAIN vs) <= Cardinality(DOMAIN sh.variables)
      /\ Bytes(vs) <= Bytes(sh.variables)
  BY <1>1, ShellIs, VariablesLess
<1>4. as \in ArrayMaps /\ ElementCount(as) <= ElementCount(sh.arrays)
  BY <1>1, ShellIs, ElementsLess
<1>5. /\ ls \in Locals /\ Len(ls) = Len(sh.locals)
      /\ LocalCount(ls) <= LocalCount(sh.locals) /\ LocalBytes(ls) <= LocalBytes(sh.locals)
  <2>1. PICK l \in Locals : l = sh.locals
    BY ShellIs
  <2>2. ls = [i \in DOMAIN l |-> Without(l[i], n)]
    BY <1>1, <2>1
  <2>3. /\ ls \in Locals /\ Len(ls) = Len(l)
        /\ LocalCount(ls) <= LocalCount(l) /\ LocalBytes(ls) <= LocalBytes(l)
    BY <2>2, LocalsWithout
  <2> QED BY <2>1, <2>3
<1>6. /\ g.variables = vs /\ g.arrays = as /\ g.locals = ls /\ g.budget = sh.budget
      /\ g.functions = sh.functions
  BY <1>2 DEF ShellType
<1>7. g \in ShellType
  BY <1>2, <1>3, <1>4, <1>5 DEF ShellType
<1>8. Cardinality(DOMAIN sh.functions) \in Nat /\ Sum(sh.functions) \in Nat
  BY StoredIs
<1>9. /\ Cardinality(DOMAIN g.functions) <= Cardinality(DOMAIN sh.functions)
      /\ Sum(g.functions) <= Sum(sh.functions)
  BY <1>6, <1>8
<1> QED BY <1>3, <1>4, <1>5, <1>6, <1>7, <1>9, LessKeeps

LEMMA UnsetElementKeeps ==
  ASSUME NEW sh \in ShellType, NEW a \in DOMAIN sh.arrays, NEW i, NEW g,
         g = [sh EXCEPT !.arrays[a] = @ \ {i}]
  PROVE  Keeps(sh, g)
<1>1. PICK old, e : old = sh.arrays[a] /\ e = old \ {i}
  OBVIOUS
<1>2. sh.arrays \in [DOMAIN sh.arrays -> Elements] /\ DOMAIN sh.arrays \subseteq Arrays
  BY ShellIs, MapIs DEF ArrayMaps
<1>3. old \in Elements /\ a \in Arrays /\ old = Entries(sh.arrays, a)
  BY <1>1, <1>2 DEF Entries
<1>4. e \in Elements /\ Cardinality(e) <= Cardinality(old)
  BY <1>1, <1>3, FS_Subset DEF Elements
<1>5. PICK as : as = With(sh.arrays, a, e)
  OBVIOUS
<1>6. as = [sh.arrays EXCEPT ![a] = e]
  BY <1>2, <1>5 DEF With
<1>7. as \in ArrayMaps
  BY <1>3, <1>4, <1>5, ShellIs, WithIs DEF ArrayMaps
<1>8. ElementCount(as) = ElementCount(sh.arrays) + Cardinality(e) - Cardinality(old)
  BY <1>3, <1>4, <1>5, ShellIs, ElementsWith
<1>9. ElementCount(as) <= ElementCount(sh.arrays)
  <2>1. /\ ElementCount(sh.arrays) \in Nat /\ Cardinality(e) \in Nat
        /\ Cardinality(old) \in Nat
    BY <1>3, <1>4, StoredIs, ElementsAre
  <2> QED BY <1>4, <1>8, <2>1
<1>10. g = [sh EXCEPT !.arrays = as]
  BY <1>1, <1>6 DEF ShellType
<1>11. /\ g.variables = sh.variables /\ g.arrays = as /\ g.locals = sh.locals
       /\ g.budget = sh.budget /\ g.functions = sh.functions
  BY <1>10 DEF ShellType
<1>12. g \in ShellType
  BY <1>7, <1>10 DEF ShellType
<1>13. /\ FunctionsKept(sh) => FunctionsKept(g)
       /\ CountsKept(sh) => CountsKept(g)
  <2>1. /\ Cardinality(DOMAIN sh.variables) \in Nat /\ Bytes(sh.variables) \in Nat
        /\ LocalCount(sh.locals) \in Nat /\ LocalBytes(sh.locals) \in Nat
        /\ Cardinality(DOMAIN sh.functions) \in Nat /\ Sum(sh.functions) \in Nat
    BY StoredIs
  <2>2. /\ Cardinality(DOMAIN g.variables) <= Cardinality(DOMAIN sh.variables)
        /\ Bytes(g.variables) <= Bytes(sh.variables)
        /\ Cardinality(DOMAIN g.functions) <= Cardinality(DOMAIN sh.functions)
        /\ Sum(g.functions) <= Sum(sh.functions)
        /\ LocalCount(g.locals) <= LocalCount(sh.locals)
        /\ LocalBytes(g.locals) <= LocalBytes(sh.locals)
    BY <1>11, <2>1
  <2>3. ElementCount(g.arrays) <= ElementCount(sh.arrays)
    BY <1>9, <1>11
  <2> QED BY <1>11, <1>12, <2>2, <2>3, LessKept
<1> QED BY <1>11, <1>12, <1>13 DEF Keeps, KeepsFunctions

LEMMA UnsetFunctionKeeps ==
  ASSUME NEW sh \in ShellType, NEW f, NEW g, g = [sh EXCEPT !.functions = Without(@, f)]
  PROVE  Keeps(sh, g)
<1>1. sh.functions \in MapSet(FunctionSet, Nat)
  BY ShellIs DEF FunctionMaps
<1>2. PICK m \in MapSet(FunctionSet, Nat) : m = Without(sh.functions, f)
  BY <1>1, WithoutIs
<1>3. DOMAIN m \subseteq DOMAIN sh.functions /\ \A x \in DOMAIN m : m[x] = sh.functions[x]
  BY <1>2 DEF Without, Restrict
<1>4. Sum(m) <= Sum(sh.functions)
  BY <1>1, <1>3, BytesLess
<1>5. Cardinality(DOMAIN m) <= Cardinality(DOMAIN sh.functions)
  BY <1>1, <1>3, CountLess
<1>6. g = [sh EXCEPT !.functions = m]
  BY <1>2
<1>7. /\ g.variables = sh.variables /\ g.arrays = sh.arrays /\ g.locals = sh.locals
      /\ g.budget = sh.budget /\ g.functions = m
  BY <1>6 DEF ShellType
<1>8. g \in ShellType
  BY <1>6 DEF ShellType, FunctionMaps
<1>9. /\ Cardinality(DOMAIN sh.variables) \in Nat /\ Bytes(sh.variables) \in Nat
      /\ LocalCount(sh.locals) \in Nat /\ LocalBytes(sh.locals) \in Nat
      /\ ElementCount(sh.arrays) \in Nat
  BY StoredIs
<1>10. /\ Cardinality(DOMAIN g.variables) <= Cardinality(DOMAIN sh.variables)
       /\ Bytes(g.variables) <= Bytes(sh.variables)
       /\ ElementCount(g.arrays) <= ElementCount(sh.arrays)
       /\ LocalCount(g.locals) <= LocalCount(sh.locals)
       /\ LocalBytes(g.locals) <= LocalBytes(sh.locals)
  BY <1>7, <1>9
<1> QED BY <1>4, <1>5, <1>7, <1>8, <1>10, LessKeeps

(* A function goes in: what is recorded is what the map grows by.          *)
LEMMA FunctionsGrow ==
  ASSUME NEW b \in Budget, NEW fs \in FunctionMaps, NEW f \in FunctionSet, NEW v \in Nat,
         NEW w, w = With(fs, f, v), NEW r, r = FunctionRecorded(b, fs, f, v),
         FunctionFits(b, fs, f, v),
         b.function_count >= Cardinality(DOMAIN fs), b.function_body_bytes >= Sum(fs)
  PROVE  /\ r.function_count >= Cardinality(DOMAIN w) /\ r.function_body_bytes >= Sum(w)
         /\ Cardinality(DOMAIN fs) <= MaxFunctionCount =>
              Cardinality(DOMAIN w) <= MaxFunctionCount
         /\ Sum(w) <= MaxFunctionBytes
<1>1. /\ b.function_count \in Nat /\ b.function_body_bytes \in Nat
      /\ MaxFunctionCount \in Nat /\ MaxFunctionBytes \in Nat
      /\ Cardinality(DOMAIN fs) \in Nat /\ Sum(fs) \in Nat
  BY BudgetIs, SizesAssumption, MapIs, BytesType DEF FunctionMaps
<1>2. /\ Length(fs, f) \in Nat /\ Added(fs, f) \in {0, 1} /\ Length(fs, f) <= Sum(fs)
  BY LengthIs DEF FunctionMaps
<1>3. Cardinality(DOMAIN w) = Cardinality(DOMAIN fs) + Added(fs, f)
  BY CountWith DEF FunctionMaps
<1>4. Sum(w) = Sum(fs) + v - Length(fs, f)
  BY SumWith DEF FunctionMaps
<1>5. b.function_body_bytes + v - Length(fs, f) \in Int
  BY <1>1, <1>2
<1>6. /\ r.function_count = b.function_count + Added(fs, f)
      /\ r.function_body_bytes = Saturated(b.function_body_bytes + v - Length(fs, f))
  BY DEF FunctionRecorded, Budget
<1>7. r.function_body_bytes >= b.function_body_bytes + v - Length(fs, f)
      /\ r.function_body_bytes \in Nat
  BY <1>5, <1>6, SaturatedIs
<1>8. /\ Added(fs, f) = 0 \/ b.function_count < MaxFunctionCount
      /\ b.function_body_bytes + v - Length(fs, f) <= MaxFunctionBytes
  BY DEF FunctionFits
<1>9. r.function_count >= Cardinality(DOMAIN w)
  BY <1>1, <1>2, <1>3, <1>6
<1>10. r.function_body_bytes >= Sum(w)
  BY <1>1, <1>2, <1>4, <1>7
<1>11. Cardinality(DOMAIN fs) <= MaxFunctionCount => Cardinality(DOMAIN w) <= MaxFunctionCount
  BY <1>1, <1>2, <1>3, <1>8
<1>12. Sum(w) <= MaxFunctionBytes
  BY <1>1, <1>2, <1>4, <1>8
<1> QED BY <1>9, <1>10, <1>11, <1>12

LEMMA FunctionRecordedIs ==
  ASSUME NEW b \in Budget, NEW fs \in FunctionMaps, NEW f \in FunctionSet, NEW v \in Nat,
         NEW r, r = FunctionRecorded(b, fs, f, v)
  PROVE  /\ r \in Budget /\ r.variable_count = b.variable_count
         /\ r.variable_bytes = b.variable_bytes /\ r.array_entries = b.array_entries
<1>1. b.function_count \in Nat /\ b.function_body_bytes \in Nat
  BY BudgetIs
<1>2. Length(fs, f) \in Nat /\ Added(fs, f) \in {0, 1}
  BY LengthIs DEF FunctionMaps
<1>3. Saturated(b.function_body_bytes + v - Length(fs, f)) \in Nat
  BY <1>1, <1>2, SaturatedIs
<1>4. b.function_count + Added(fs, f) \in Nat
  BY <1>1, <1>2
<1> QED BY <1>3, <1>4 DEF FunctionRecorded, Budget

LEMMA InsertFunctionKeeps ==
  ASSUME NEW sh \in ShellType, NEW f \in FunctionSet, NEW v \in Nat, NEW g,
         g = InsertFunction(sh, f, v)
  PROVE  Keeps(sh, g)
<1> DEFINE b == sh.budget
           fs == sh.functions
<1>1. b \in Budget /\ fs \in FunctionMaps
  BY ShellIs
<1>2. CASE ~FunctionFits(b, fs, f, v)
  BY <1>2, KeepsItself DEF InsertFunction
<1>3. CASE FunctionFits(b, fs, f, v)
  <2>1. PICK w, r : w = With(fs, f, v) /\ r = FunctionRecorded(b, fs, f, v)
    OBVIOUS
  <2>2. w \in FunctionMaps
    BY <1>1, <2>1, WithIs DEF FunctionMaps
  <2>3. g = [sh EXCEPT !.functions = w, !.budget = r]
    BY <1>3, <2>1 DEF InsertFunction
  <2>4. /\ r \in Budget /\ r.variable_count = b.variable_count
        /\ r.variable_bytes = b.variable_bytes /\ r.array_entries = b.array_entries
    BY <1>1, <2>1, FunctionRecordedIs
  <2>5. /\ g.variables = sh.variables /\ g.budget = r /\ g.functions = w
        /\ g.arrays = sh.arrays /\ g.locals = sh.locals
    BY <2>3 DEF ShellType
  <2>6. g \in ShellType
    BY <2>2, <2>3, <2>4 DEF ShellType
  <2>7. CountsKept(sh) => CountsKept(g)
    BY <2>4, <2>5 DEF CountsKept, StoredCount, StoredBytes
  <2>8. ASSUME FunctionsKept(sh) PROVE FunctionsKept(g)
    <3>1. /\ b.function_count >= Cardinality(DOMAIN fs) /\ b.function_body_bytes >= Sum(fs)
          /\ Cardinality(DOMAIN fs) <= MaxFunctionCount
      BY <2>8 DEF FunctionsKept
    <3>2. /\ r.function_count >= Cardinality(DOMAIN w) /\ r.function_body_bytes >= Sum(w)
          /\ Cardinality(DOMAIN w) <= MaxFunctionCount /\ Sum(w) <= MaxFunctionBytes
      <4> HIDE DEF b, fs
      <4> QED BY <1>1, <1>3, <2>1, <3>1, FunctionsGrow
    <3> QED BY <2>5, <3>2 DEF FunctionsKept
  <2> QED BY <2>5, <2>6, <2>7, <2>8 DEF Keeps, KeepsFunctions
<1> QED BY <1>2, <1>3

(* A builtin stores a variable itself: only the functions are sure.        *)
LEMMA StoreKeeps ==
  ASSUME NEW sh \in ShellType, NEW n \in Names, NEW v \in Nat, NEW e \in Variables,
         NEW ro \in SUBSET Names, NEW g,
         g = [sh EXCEPT !.variables = With(@, n, v), !.env = e, !.readonly = ro]
  PROVE  KeepsFunctions(sh, g)
<1>1. PICK w \in Variables : w = With(sh.variables, n, v)
  BY ShellIs, WithIs DEF Variables
<1>2. g = [sh EXCEPT !.variables = w, !.env = e, !.readonly = ro]
  BY <1>1 DEF ShellType
<1>3. g \in ShellType /\ g.functions = sh.functions /\ g.budget = sh.budget
      /\ g.locals = sh.locals
  BY <1>2 DEF ShellType
<1> QED BY <1>3 DEF KeepsFunctions, FunctionsKept

LEMMA LocalArrayKeeps ==
  ASSUME NEW sh \in ShellType, NEW a \in Arrays, NEW e \in Elements, NEW g,
         g = IF sh.locals = <<>> THEN [sh EXCEPT !.arrays = With(@, a, e)]
             ELSE InsertLocal([sh EXCEPT !.arrays = With(@, a, e)], a, 0)
  PROVE  KeepsFunctions(sh, g)
<1>1. PICK as \in ArrayMaps : as = With(sh.arrays, a, e)
  BY ShellIs, WithIs DEF ArrayMaps
<1>2. PICK s : s = [sh EXCEPT !.arrays = as]
  OBVIOUS
<1>3. /\ s \in ShellType /\ s.functions = sh.functions /\ s.budget = sh.budget
      /\ s.locals = sh.locals
  BY <1>2 DEF ShellType
<1>4. KeepsFunctions(sh, s)
  BY <1>3 DEF KeepsFunctions, FunctionsKept
<1>5. CASE sh.locals = <<>>
  BY <1>1, <1>2, <1>4, <1>5
<1>6. CASE sh.locals # <<>>
  <2>1. g = InsertLocal(s, a, 0)
    BY <1>1, <1>2, <1>6 DEF ShellType
  <2>2. a \in Names /\ 0 \in Nat
    BY ArraysAssumption
  <2>3. Keeps(s, g)
    BY <1>3, <1>6, <2>1, <2>2, InsertLocalKeeps
  <2> QED BY <1>4, <2>3 DEF Keeps, KeepsFunctions
<1> QED BY <1>5, <1>6

(* mapfile.                                                                *)
LEMMA ReadArrayKeeps ==
  ASSUME NEW sh \in ShellType, NEW a \in Arrays, NEW e \in Elements, NEW s,
         s = [sh EXCEPT !.arrays = Without(@, a)], NEW g, g = s \/ g = InsertArray(s, a, e)
  PROVE  Keeps(sh, g)
<1>1. PICK as : as = Without(sh.arrays, a)
  OBVIOUS
<1>2. as \in ArrayMaps /\ ElementCount(as) <= ElementCount(sh.arrays)
  BY <1>1, ShellIs, ElementsLess
<1>3. s = [sh EXCEPT !.arrays = as]
  BY <1>1
<1>4. /\ s \in ShellType /\ s.variables = sh.variables /\ s.functions = sh.functions
      /\ s.budget = sh.budget /\ s.locals = sh.locals /\ s.arrays = as
  BY <1>2, <1>3 DEF ShellType
<1>5. ElementCount(s.arrays) <= ElementCount(sh.arrays)
  BY <1>2, <1>4
<1>6. CountsKept(sh) => CountsKept(s)
  <2>1. /\ ElementCount(as) \in Nat /\ ElementCount(sh.arrays) \in Nat
        /\ sh.budget.array_entries \in Nat /\ MaxArrayEntries \in Nat
    BY <1>2, ElementNumbers, StoredIs, ShellIs, BudgetIs, SizesAssumption
  <2> SUFFICES ASSUME CountsKept(sh) PROVE CountsKept(s)
    OBVIOUS
  <2>2. /\ sh.budget.array_entries >= ElementCount(sh.arrays)
        /\ ElementCount(sh.arrays) <= MaxArrayEntries
    BY DEF CountsKept
  <2>3. /\ sh.budget.array_entries >= ElementCount(as)
        /\ ElementCount(as) <= MaxArrayEntries
    <3>1. PICK x \in Nat, y \in Nat, z \in Nat :
            /\ x = ElementCount(as) /\ y = ElementCount(sh.arrays)
            /\ z = sh.budget.array_entries
      BY <2>1, Zenon
    <3>2. x <= y /\ y <= z /\ y <= MaxArrayEntries
      BY <1>2, <2>2, <3>1
    <3>3. x <= z /\ x <= MaxArrayEntries
      BY <2>1, <3>2
    <3> QED BY <3>1, <3>3
  <2>4. /\ s.budget.array_entries >= ElementCount(s.arrays)
        /\ ElementCount(s.arrays) <= MaxArrayEntries
    BY <1>4, <2>3
  <2> QED BY <1>4, <2>4 DEF CountsKept, StoredCount, StoredBytes
<1>7. Keeps(sh, s)
  BY <1>4, <1>6 DEF Keeps, KeepsFunctions, FunctionsKept
<1>8. CASE g = s
  BY <1>7, <1>8
<1>9. CASE g = InsertArray(s, a, e)
  <2>1. Keeps(s, g)
    BY <1>4, <1>9, InsertArrayKeeps
  <2> QED BY <1>7, <2>1, KeepsTwice
<1> QED BY <1>8, <1>9

(* readonly n, set -a: only an attribute changes.                          *)
LEMMA AttributesKeep ==
  ASSUME NEW sh \in ShellType, NEW ro \in SUBSET Names, NEW ae \in BOOLEAN, NEW g,
         g = [sh EXCEPT !.readonly = ro, !.allexport = ae]
  PROVE  Keeps(sh, g)
<1>1. /\ g \in ShellType /\ g.variables = sh.variables /\ g.functions = sh.functions
      /\ g.budget = sh.budget /\ g.locals = sh.locals /\ g.arrays = sh.arrays
  BY DEF ShellType
<1> QED BY <1>1
        DEF Keeps, KeepsFunctions, FunctionsKept, CountsKept, StoredCount, StoredBytes

----------------------------------------------------------------------------
(***************************************************************************)
(* What a prefix assignment takes along, and gives back.                   *)
(***************************************************************************)
PrefixType == [name : Names, exported : BOOLEAN, variable : Variables, env : Variables]

LEMMA PutBackIs ==
  ASSUME NEW saved \in Variables, NEW k \in Names, NEW now \in Variables
  PROVE  PutBack(saved, k, now) \in Variables
<1>1. Without(now, k) \in Variables
  BY VariablesLess
<1>2. k \in DOMAIN saved => saved[k] \in Nat
  BY MapIs DEF Variables
<1>3. k \in DOMAIN saved => With(now, k, saved[k]) \in Variables
  BY <1>2, WithIs DEF Variables
<1> QED BY <1>1, <1>3 DEF PutBack

LEMMA WithoutVariableKeeps ==
  ASSUME NEW sh \in ShellType, NEW n, NEW g, g = [sh EXCEPT !.variables = Without(@, n)]
  PROVE  Keeps(sh, g)
<1>1. PICK vs : vs = Without(sh.variables, n)
  OBVIOUS
<1>2. /\ vs \in Variables /\ Bytes(vs) <= Bytes(sh.variables)
      /\ Cardinality(DOMAIN vs) <= Cardinality(DOMAIN sh.variables)
  BY <1>1, ShellIs, VariablesLess
<1>3. g = [sh EXCEPT !.variables = vs]
  BY <1>1
<1>4. /\ g \in ShellType /\ g.variables = vs /\ g.functions = sh.functions
      /\ g.budget = sh.budget /\ g.locals = sh.locals /\ g.arrays = sh.arrays
  BY <1>2, <1>3 DEF ShellType
<1>5. CountsKept(sh) => CountsKept(g)
  <2>1. /\ Cardinality(DOMAIN sh.variables) \in Nat /\ Bytes(sh.variables) \in Nat
        /\ LocalCount(sh.locals) \in Nat /\ LocalBytes(sh.locals) \in Nat
    BY StoredIs
  <2>2. Cardinality(DOMAIN vs) \in Nat /\ Bytes(vs) \in Nat
    BY <1>2, MapIs, BytesType DEF Variables
  <2>3. /\ sh.budget.variable_count \in Nat /\ sh.budget.variable_bytes \in Nat
        /\ MaxVariableCount \in Nat /\ MaxVariableBytes \in Nat
    BY ShellIs, BudgetIs, SizesAssumption
  <2> QED BY <1>2, <1>4, <2>1, <2>2, <2>3 DEF CountsKept, StoredCount, StoredBytes
<1> QED BY <1>4, <1>5 DEF Keeps, KeepsFunctions, FunctionsKept

LEMMA PrefixRestoresKeeps ==
  ASSUME NEW p \in PrefixType, NEW sh \in ShellType, NEW g, g = PrefixRestores(p, sh)
  PROVE  Keeps(sh, g)
<1>1. /\ p.name \in Names /\ p.variable \in Variables /\ p.env \in Variables
  BY DEF PrefixType
<1>2. PICK c : c = IF p.exported THEN [sh EXCEPT !.env = PutBack(p.env, p.name, @)] ELSE sh
  OBVIOUS
<1>3. Keeps(sh, c)
  <2>1. CASE ~p.exported
    BY <1>2, <2>1, KeepsItself
  <2>2. CASE p.exported
    <3>1. PICK e \in Variables : e = PutBack(p.env, p.name, sh.env)
      BY <1>1, ShellIs, PutBackIs
    <3>2. c = [sh EXCEPT !.env = e]
      BY <1>2, <2>2, <3>1
    <3> QED BY <3>2, EnvKeeps
  <2> QED BY <2>1, <2>2
<1>4. c \in ShellType
  BY <1>3 DEF Keeps, KeepsFunctions
<1>5. \/ p.name \in DOMAIN p.variable /\ g = InsertVariable(c, p.name, p.variable[p.name])
      \/ g = [c EXCEPT !.variables = Without(@, p.name)]
  BY <1>2 DEF PrefixRestores
<1>6. Keeps(c, g)
  <2>1. CASE p.name \in DOMAIN p.variable /\ g = InsertVariable(c, p.name, p.variable[p.name])
    <3>1. PICK v \in Nat : v = p.variable[p.name]
      BY <1>1, <2>1, MapIs DEF Variables
    <3> QED BY <1>1, <1>4, <2>1, <3>1, InsertVariableKeeps
  <2>2. CASE g = [c EXCEPT !.variables = Without(@, p.name)]
    BY <1>4, <2>2, WithoutVariableKeeps
  <2> QED BY <1>5, <2>1, <2>2
<1> QED BY <1>3, <1>6, KeepsTwice

----------------------------------------------------------------------------
(***************************************************************************)
(* The inductive invariant.  What a frame of the nest has saved is as good *)
(* as what a shell has to be, and the locals are as many as the calls and  *)
(* children that are open say: depth[i] is their number when the first i   *)
(* frames had been entered.                                                *)
(***************************************************************************)
Frames ==
  [kind : {"call"}, saved : {<<>>}, drifted : BOOLEAN]
  \cup [kind : {"prefix"}, saved : PrefixType, drifted : BOOLEAN]
  \cup [kind : Children, saved : ShellType, drifted : BOOLEAN]

FrameKept(f) ==
  f.kind \in Children =>
    FunctionsKept(f.saved) /\ (~f.drifted => CountsKept(f.saved))

Deepens(f, before, after) ==
  /\ f.kind \in {"call", "child"} => after = before + 1
  /\ f.kind \in {"prefix", "subst", "subshell"} => after = before
  /\ f.kind \in Children => Len(f.saved.locals) = before

Nested(ns, depth, top) ==
  /\ depth \in [0..Len(ns) -> Nat] /\ depth[0] = 0 /\ depth[Len(ns)] = top
  /\ \A i \in 1..Len(ns) : Deepens(ns[i], depth[i - 1], depth[i])

ShellInv == /\ shell \in ShellType /\ FunctionsKept(shell)
            /\ drifted \in BOOLEAN /\ (~drifted => CountsKept(shell))
            /\ vfs \in TreesWithinLimits
NestInv == /\ nest \in Seq(Frames) /\ \A i \in 1..Len(nest) : FrameKept(nest[i])
           /\ \E depth : Nested(nest, depth, Len(shell.locals))
Inv == ShellInv /\ NestInv

LEMMA NoLocalsOutside ==
  ASSUME ShellInv, NestInv, nest = <<>>
  PROVE  shell.locals = <<>>
<1>1. Len(nest) = 0
  BY EmptySeq
<1>2. Len(shell.locals) = 0
  BY <1>1 DEF NestInv, Nested
<1>3. shell.locals \in Locals
  BY ShellIs DEF ShellInv
<1> QED BY <1>2, <1>3, EmptySeq DEF Locals

LEMMA ChildrenAre == Children = {"subst", "subshell", "child", "script"}
BY DEF Children

LEMMA FrameIs ==
  ASSUME NEW f \in Frames
  PROVE  /\ f.drifted \in BOOLEAN /\ f.kind \in Kinds
         /\ f.kind = "prefix" => f.saved \in PrefixType
         /\ f.kind \in Children => f.saved \in ShellType
BY ChildrenAre DEF Frames, Kinds

(* A command that runs no others.                                          *)
LEMMA CountedStep ==
  ASSUME ShellInv, NestInv, Keeps(shell, shell'), UNCHANGED <<nest, vfs, drifted>>
  PROVE  ShellInv' /\ NestInv'
<1>1. /\ shell' \in ShellType /\ Len(shell'.locals) = Len(shell.locals)
      /\ FunctionsKept(shell) => FunctionsKept(shell')
      /\ CountsKept(shell) => CountsKept(shell')
  BY DEF Keeps, KeepsFunctions
<1>2. FunctionsKept(shell)' <=> FunctionsKept(shell')
  BY DEF FunctionsKept
<1>3. CountsKept(shell)' <=> CountsKept(shell')
  BY DEF CountsKept, StoredCount, StoredBytes
<1>4. ShellInv'
  BY <1>1, <1>2, <1>3 DEF ShellInv
<1>5. NestInv'
  BY <1>1 DEF NestInv
<1> QED BY <1>4, <1>5

LEMMA UncountedStep ==
  ASSUME ShellInv, NestInv, KeepsFunctions(shell, shell'), drifted' = TRUE,
         UNCHANGED <<nest, vfs>>
  PROVE  ShellInv' /\ NestInv'
<1>1. /\ shell' \in ShellType /\ Len(shell'.locals) = Len(shell.locals)
      /\ FunctionsKept(shell) => FunctionsKept(shell')
  BY DEF KeepsFunctions
<1>2. FunctionsKept(shell)' <=> FunctionsKept(shell')
  BY DEF FunctionsKept
<1>3. ShellInv'
  BY <1>1, <1>2 DEF ShellInv
<1>4. NestInv'
  BY <1>1 DEF NestInv
<1> QED BY <1>3, <1>4

(* A command that runs others begins.                                      *)
LEMMA DepthPush ==
  ASSUME NEW ns \in Seq(Frames), NEW f \in Frames, NEW depth, NEW top \in Nat, NEW next \in Nat,
         Nested(ns, depth, top), Deepens(f, top, next), NEW ms, ms = Append(ns, f)
  PROVE  \E d : Nested(ms, d, next)
<1>1. PICK n \in Nat : n = Len(ns)
  BY LenProperties
<1>2. PICK d : d = [i \in 0..n + 1 |-> IF i = n + 1 THEN next ELSE depth[i]]
  OBVIOUS
<1>3. /\ Append(ns, f) \in Seq(Frames) /\ Len(Append(ns, f)) = Len(ns) + 1
      /\ \A i \in 1..Len(ns) : Append(ns, f)[i] = ns[i]
      /\ Append(ns, f)[Len(ns) + 1] = f
  BY AppendProperties
<1>4. /\ Len(ms) = n + 1 /\ (\A i \in 1..n : ms[i] = ns[i]) /\ ms[n + 1] = f
  BY <1>1, <1>3
<1>5. /\ depth \in [0..n -> Nat] /\ depth[0] = 0 /\ depth[n] = top
      /\ \A i \in 1..n : Deepens(ns[i], depth[i - 1], depth[i])
  BY <1>1 DEF Nested
<1>6. d \in [0..n + 1 -> Nat] /\ d[0] = 0 /\ d[n + 1] = next
  BY <1>1, <1>2, <1>5
<1>7. \A i \in 1..n + 1 : Deepens(ms[i], d[i - 1], d[i])
  <2> TAKE i \in 1..n + 1
  <2>1. CASE i = n + 1
    <3>1. d[i - 1] = top /\ d[i] = next /\ ms[i] = f
      BY <1>1, <1>2, <1>4, <1>5, <2>1
    <3> QED BY <3>1
  <2>2. CASE i # n + 1
    <3>1. i \in 1..n /\ d[i - 1] = depth[i - 1] /\ d[i] = depth[i] /\ ms[i] = ns[i]
      BY <1>1, <1>2, <1>4, <2>2
    <3> QED BY <1>5, <3>1
  <2> QED BY <2>1, <2>2
<1> QED BY <1>4, <1>6, <1>7 DEF Nested

LEMMA PushStep ==
  ASSUME ShellInv, NestInv, NEW f \in Frames, nest' = Append(nest, f), vfs' = vfs,
         FrameKept(f), Deepens(f, Len(shell.locals), Len(shell'.locals)),
         shell' \in ShellType, FunctionsKept(shell'),
         drifted' \in BOOLEAN, ~drifted' => CountsKept(shell')
  PROVE  ShellInv' /\ NestInv'
<1>1. FunctionsKept(shell)' <=> FunctionsKept(shell')
  BY DEF FunctionsKept
<1>2. CountsKept(shell)' <=> CountsKept(shell')
  BY DEF CountsKept, StoredCount, StoredBytes
<1>3. ShellInv'
  BY <1>1, <1>2 DEF ShellInv
<1>4. PICK s : s = shell'
  OBVIOUS
<1>5. Len(shell.locals) \in Nat /\ Len(s.locals) \in Nat
  BY <1>4, ShellIs, LocalsAre DEF ShellInv
<1>6. nest \in Seq(Frames) /\ \A i \in 1..Len(nest) : FrameKept(nest[i])
  BY DEF NestInv
<1>7. PICK depth : Nested(nest, depth, Len(shell.locals))
  BY DEF NestInv
<1>8. PICK ms : ms = Append(nest, f)
  OBVIOUS
<1>9. \E d : Nested(ms, d, Len(s.locals))
  BY <1>4, <1>5, <1>6, <1>7, <1>8, DepthPush
<1>10. /\ Append(nest, f) \in Seq(Frames) /\ Len(Append(nest, f)) = Len(nest) + 1
       /\ \A i \in 1..Len(nest) : Append(nest, f)[i] = nest[i]
       /\ Append(nest, f)[Len(nest) + 1] = f
  BY <1>6, AppendProperties
<1>11. ms \in Seq(Frames) /\ \A i \in 1..Len(ms) : FrameKept(ms[i])
  <2>1. PICK n \in Nat : n = Len(nest)
    BY <1>6, LenProperties
  <2>2. /\ ms \in Seq(Frames) /\ Len(ms) = n + 1
        /\ (\A i \in 1..n : ms[i] = nest[i]) /\ ms[n + 1] = f
    BY <1>8, <1>10, <2>1
  <2>3. ASSUME NEW i \in 1..n + 1 PROVE FrameKept(ms[i])
    <3>1. CASE i = n + 1
      <4>1. ms[i] = f
        BY <2>2, <3>1
      <4> QED BY <4>1
    <3>2. CASE i # n + 1
      <4>1. i \in 1..n /\ ms[i] = nest[i]
        BY <2>2, <3>2
      <4> QED BY <1>6, <2>1, <4>1
    <3> QED BY <3>1, <3>2
  <2> QED BY <2>2, <2>3
<1>12. NestInv'
  <2>1. nest' = ms
    BY <1>8
  <2>2. \A i \in 1..Len(nest') : FrameKept(nest'[i])
    BY <1>11, <2>1
  <2>3. \E d : Nested(nest', d, Len(shell'.locals))
    BY <1>4, <1>9, <2>1
  <2> QED BY <1>11, <2>1, <2>2, <2>3 DEF NestInv, FrameKept, Nested, Deepens
<1> QED BY <1>3, <1>12

(* ... and ends.                                                           *)
LEMMA LastIs ==
  ASSUME NestInv, nest # <<>>
  PROVE  /\ Len(nest) \in Nat \ {0} /\ Last(nest) = nest[Len(nest)]
         /\ Last(nest) \in Frames /\ FrameKept(Last(nest))
<1>1. nest \in Seq(Frames) /\ \A i \in 1..Len(nest) : FrameKept(nest[i])
  BY DEF NestInv
<1>2. Len(nest) \in Nat /\ Len(nest) # 0 /\ \A i \in 1..Len(nest) : nest[i] \in Frames
  BY <1>1, LenProperties, EmptySeq
<1>3. Last(nest) = nest[Len(nest)] /\ Len(nest) \in 1..Len(nest)
  BY <1>2 DEF Last
<1> QED BY <1>1, <1>2, <1>3

LEMMA DepthAtLast ==
  ASSUME ShellInv, NestInv, nest # <<>>
  PROVE  \E before \in Nat : Deepens(Last(nest), before, Len(shell.locals))
<1>1. PICK depth : Nested(nest, depth, Len(shell.locals))
  BY DEF NestInv
<1>2. PICK n \in Nat : n = Len(nest) /\ n # 0 /\ Last(nest) = nest[n]
  BY LastIs
<1>3. depth[n - 1] \in Nat /\ Deepens(nest[n], depth[n - 1], depth[n])
  BY <1>1, <1>2 DEF Nested
<1> QED BY <1>1, <1>2, <1>3 DEF Nested

LEMMA PopStep ==
  ASSUME ShellInv, NestInv, nest # <<>>, nest' = Front(nest), vfs' = vfs,
         \A before \in Nat : Deepens(Last(nest), before, Len(shell.locals)) =>
           Len(shell'.locals) = before,
         shell' \in ShellType, FunctionsKept(shell'),
         drifted' \in BOOLEAN, ~drifted' => CountsKept(shell')
  PROVE  ShellInv' /\ NestInv'
<1>1. FunctionsKept(shell)' <=> FunctionsKept(shell')
  BY DEF FunctionsKept
<1>2. CountsKept(shell)' <=> CountsKept(shell')
  BY DEF CountsKept, StoredCount, StoredBytes
<1>3. ShellInv'
  BY <1>1, <1>2 DEF ShellInv
<1>4. PICK n \in Nat : n = Len(nest) /\ n # 0 /\ Last(nest) = nest[n]
  BY LastIs
<1>5. PICK depth : Nested(nest, depth, Len(shell.locals))
  BY DEF NestInv
<1>6. /\ depth \in [0..n -> Nat] /\ depth[0] = 0 /\ depth[n] = Len(shell.locals)
      /\ \A i \in 1..n : Deepens(nest[i], depth[i - 1], depth[i])
  BY <1>4, <1>5 DEF Nested
<1>7. Len(shell'.locals) = depth[n - 1]
  <2>1. n - 1 \in 0..n /\ depth[n - 1] \in Nat
    BY <1>4, <1>6
  <2>2. Deepens(nest[n], depth[n - 1], depth[n])
    BY <1>4, <1>6
  <2> QED BY <1>4, <1>6, <2>1, <2>2
<1>8. nest \in Seq(Frames) /\ \A i \in 1..Len(nest) : FrameKept(nest[i])
  BY DEF NestInv
<1>9. /\ nest' \in Seq(Frames) /\ Len(nest') = n - 1
      /\ \A i \in 1..n - 1 : nest'[i] = nest[i]
  <2>1. \A i \in 1..n - 1 : nest[i] \in Frames
    BY <1>4, <1>8, LenProperties
  <2>2. /\ SubSeq(nest, 1, n - 1) \in Seq(Frames)
        /\ Len(SubSeq(nest, 1, n - 1)) = IF 1 <= n - 1 THEN n - 1 - 1 + 1 ELSE 0
        /\ \A i \in 1..n - 1 - 1 + 1 : SubSeq(nest, 1, n - 1)[i] = nest[1 + i - 1]
    BY <1>4, <1>8, <2>1, SubSeqProperties
  <2>3. nest' = SubSeq(nest, 1, n - 1)
    BY <1>4 DEF Front
  <2> QED BY <1>4, <2>2, <2>3
<1>10. PICK d : d = [i \in 0..n - 1 |-> depth[i]]
  OBVIOUS
<1>11. Nested(nest', d, Len(shell'.locals))
  <2>1. d \in [0..n - 1 -> Nat] /\ d[0] = 0 /\ d[n - 1] = Len(shell'.locals)
    BY <1>4, <1>6, <1>7, <1>10
  <2>2. ASSUME NEW i \in 1..n - 1 PROVE Deepens(nest'[i], d[i - 1], d[i])
    <3>1. i \in 1..n /\ d[i - 1] = depth[i - 1] /\ d[i] = depth[i] /\ nest'[i] = nest[i]
      BY <1>4, <1>9, <1>10
    <3> QED BY <1>6, <3>1
  <2> QED BY <1>9, <2>1, <2>2 DEF Nested
<1>12. \A i \in 1..Len(nest') : FrameKept(nest'[i])
  <2> TAKE i \in 1..Len(nest')
  <2>1. i \in 1..Len(nest) /\ nest'[i] = nest[i]
    BY <1>4, <1>9
  <2> QED BY <1>8, <2>1
<1>13. NestInv'
  BY <1>9, <1>11, <1>12 DEF NestInv, FrameKept, Nested, Deepens
<1> QED BY <1>3, <1>13

----------------------------------------------------------------------------
(***************************************************************************)
(* Counting afresh, and taking the functions of a snapshot one by one.     *)
(***************************************************************************)
LEMMA RecomputedIs ==
  ASSUME NEW vs \in Variables, NEW as \in ArrayMaps, NEW fs \in FunctionMaps
  PROVE  /\ Recomputed(vs, as, fs) \in Budget
         /\ Recomputed(vs, as, fs).variable_count = Cardinality(DOMAIN vs)
         /\ Recomputed(vs, as, fs).variable_bytes = Bytes(vs)
         /\ Recomputed(vs, as, fs).array_entries = ElementCount(as)
         /\ Recomputed(vs, as, fs).function_count = Cardinality(DOMAIN fs)
         /\ Recomputed(vs, as, fs).function_body_bytes = Sum(fs)
<1>1. Cardinality(DOMAIN vs) \in Nat /\ Bytes(vs) \in Nat
  BY MapIs, BytesType DEF Variables
<1>2. ElementCount(as) \in Nat
  BY ElementNumbers
<1>3. Cardinality(DOMAIN fs) \in Nat /\ Sum(fs) \in Nat
  BY MapIs, BytesType DEF FunctionMaps
<1> QED BY <1>1, <1>2, <1>3 DEF Recomputed, Budget

LEMMA NothingIs ==
  /\ <<>> \in Variables /\ <<>> \in ArrayMaps /\ <<>> \in FunctionMaps
  /\ Cardinality(DOMAIN <<>>) = 0 /\ Bytes(<<>>) = 0 /\ Sum(<<>>) = 0 /\ ElementCount(<<>>) = 0
BY EmptyMap, BytesNothing, ElementsNothing DEF Variables, ArrayMaps, FunctionMaps

(* The functions that are taken, after each of the first n.                *)
Takings(t, c, n) ==
  t = [i \in 0..n |-> IF i = 0 THEN <<>> ELSE Takes(c, t[i - 1], FunctionNames[i])]

LEMMA TakingsExist ==
  ASSUME NEW c, NEW n \in Nat
  PROVE  \E t : Takings(t, c, n)
<1> DEFINE Bad == {k \in 0..n : ~ \E t : Takings(t, c, k)}
<1> SUFFICES ASSUME Bad # {} PROVE FALSE
  OBVIOUS
<1>1. PICK k \in Bad : \A j \in Bad : k <= j
  <2>1. Bad \in SUBSET (0..n)
    OBVIOUS
  <2> HIDE DEF Bad
  <2> QED BY <2>1, Smallest
<1>2. k \in Nat /\ k <= n /\ ~ \E t : Takings(t, c, k)
  OBVIOUS
<1>3. CASE k = 0
  <2>1. PICK t : t = [i \in 0..0 |-> <<>>]
    OBVIOUS
  <2>2. Takings(t, c, 0)
    BY <2>1 DEF Takings
  <2> QED BY <1>2, <1>3, <2>2
<1>4. CASE k # 0
  <2>1. k - 1 \in 0..n /\ ~(k <= k - 1)
    BY <1>2, <1>4
  <2>2. k - 1 \notin Bad
    BY <1>1, <2>1
  <2>3. PICK t : Takings(t, c, k - 1)
    BY <2>1, <2>2
  <2>4. PICK u : u = [i \in 0..k |-> IF i = k THEN Takes(c, t[k - 1], FunctionNames[k])
                                     ELSE t[i]]
    OBVIOUS
  <2>5. \A i \in 0..k - 1 : t[i] = IF i = 0 THEN <<>> ELSE Takes(c, t[i - 1], FunctionNames[i])
    BY <2>3 DEF Takings
  <2>6. \A i \in 0..k : u[i] = IF i = 0 THEN <<>> ELSE Takes(c, u[i - 1], FunctionNames[i])
    <3> TAKE i \in 0..k
    <3>1. CASE i = k
      <4>1. u[i] = Takes(c, t[k - 1], FunctionNames[k]) /\ u[i - 1] = t[k - 1] /\ i # 0
        BY <1>2, <1>4, <2>4, <3>1
      <4> QED BY <3>1, <4>1
    <3>2. CASE i # k
      <4>1. i \in 0..k - 1 /\ u[i] = t[i]
        BY <1>2, <1>4, <2>4, <3>2
      <4>2. i # 0 => u[i - 1] = t[i - 1]
        BY <1>2, <1>4, <2>4, <3>2
      <4> QED BY <2>5, <4>1, <4>2
    <3> QED BY <3>1, <3>2
  <2>7. u = [i \in 0..k |-> IF i = 0 THEN <<>> ELSE Takes(c, u[i - 1], FunctionNames[i])]
    <3>1. u = [i \in 0..k |-> u[i]]
      BY <2>4
    <3> QED BY <2>6, <3>1
  <2>8. Takings(u, c, k)
    BY <2>7 DEF Takings
  <2> QED BY <1>2, <2>8
<1> QED BY <1>3, <1>4

LEMMA NamesAre ==
  /\ Len(FunctionNames) \in Nat /\ DOMAIN FunctionNames = 1..Len(FunctionNames)
  /\ \A i \in 1..Len(FunctionNames) : FunctionNames[i] \in FunctionSet
  /\ \A f \in FunctionSet : \E i \in 1..Len(FunctionNames) : f = FunctionNames[i]
  /\ \A i, j \in 1..Len(FunctionNames) : FunctionNames[i] = FunctionNames[j] => i = j
<1>1. /\ Len(FunctionNames) \in Nat /\ DOMAIN FunctionNames = 1..Len(FunctionNames)
      /\ \A i \in 1..Len(FunctionNames) : FunctionNames[i] \in FunctionSet
  BY FunctionNamesAssumption, LenProperties
<1>2. \A f \in FunctionSet : \E i \in 1..Len(FunctionNames) : f = FunctionNames[i]
  BY <1>1 DEF FunctionSet
<1>3. \A i, j \in 1..Len(FunctionNames) : FunctionNames[i] = FunctionNames[j] => i = j
  BY <1>1, FunctionNamesAssumption DEF IsInjective
<1> QED BY <1>1, <1>2, <1>3

LEMMA ReparsedIs ==
  ASSUME NEW c
  PROVE  \E t : /\ Reparsed(c) = t[Len(FunctionNames)] /\ t[0] = <<>>
                /\ \A i \in 1..Len(FunctionNames) : t[i] = Takes(c, t[i - 1], FunctionNames[i])
<1>1. PICK n \in Nat : n = Len(FunctionNames)
  BY NamesAre
<1>2. PICK t : t = CHOOSE u : Takings(u, c, n)
  OBVIOUS
<1>3. Takings(t, c, n)
  BY <1>2, TakingsExist
<1>4. Reparsed(c) = t[n]
  BY <1>1, <1>2, Zenon DEF Reparsed, Takings
<1>5. t[0] = <<>> /\ \A i \in 1..n : t[i] = Takes(c, t[i - 1], FunctionNames[i])
  BY <1>3 DEF Takings
<1> QED BY <1>1, <1>4, <1>5

(* Taking one more function keeps to the limits and to the snapshot.       *)
FromSnapshot(fs, c) ==
  /\ fs \in FunctionMaps
  /\ Cardinality(DOMAIN fs) <= MaxFunctionCount /\ Sum(fs) <= MaxFunctionBytes
  /\ \A f \in DOMAIN fs : f \in DOMAIN c.functions /\ fs[f] = c.functions[f]

LEMMA TakesOne ==
  ASSUME NEW c, c.functions \in FunctionMaps, c.sourced \subseteq DOMAIN c.functions,
         NEW fs, FromSnapshot(fs, c), NEW f \in FunctionSet, NEW w, w = Takes(c, fs, f)
  PROVE  FromSnapshot(w, c)
<1>0. fs \in FunctionMaps
  BY DEF FromSnapshot
<1>1. PICK b : b = Recomputed(<<>>, <<>>, fs)
  OBVIOUS
<1>2. CASE ~(f \in c.sourced /\ FunctionFits(b, fs, f, c.functions[f]))
  BY <1>1, <1>2 DEF Takes
<1>3. CASE f \in c.sourced /\ FunctionFits(b, fs, f, c.functions[f])
  <2>1. f \in DOMAIN c.functions
    BY <1>3
  <2>2. PICK v \in Nat : v = c.functions[f]
    BY <2>1, MapIs DEF FunctionMaps
  <2>3. w = With(fs, f, v)
    BY <1>1, <1>3, <2>2 DEF Takes
  <2>4. /\ b \in Budget /\ b.function_count = Cardinality(DOMAIN fs)
        /\ b.function_body_bytes = Sum(fs)
    BY <1>0, <1>1, NothingIs, RecomputedIs
  <2>5. Cardinality(DOMAIN fs) \in Nat /\ Sum(fs) \in Nat
    BY <1>0, MapIs, BytesType DEF FunctionMaps
  <2>6. b.function_count >= Cardinality(DOMAIN fs) /\ b.function_body_bytes >= Sum(fs)
    BY <2>4, <2>5
  <2>7. FunctionFits(b, fs, f, v)
    BY <1>3, <2>2
  <2>8. /\ Cardinality(DOMAIN fs) <= MaxFunctionCount =>
             Cardinality(DOMAIN w) <= MaxFunctionCount
        /\ Sum(w) <= MaxFunctionBytes
    BY <1>0, <2>3, <2>4, <2>6, <2>7, FunctionsGrow
  <2>9. w \in FunctionMaps
    <3>1. PICK g \in FunctionMaps : g = With(fs, f, v)
      BY <1>0, WithIs DEF FunctionMaps
    <3> QED BY <2>3, <3>1
  <2>10. \A x \in DOMAIN w : x \in DOMAIN c.functions /\ w[x] = c.functions[x]
    <3>1. /\ DOMAIN w = DOMAIN fs \cup {f} /\ w[f] = v
          /\ \A x \in DOMAIN fs : x # f => w[x] = fs[x]
      BY <2>3 DEF With
    <3>2. \A x \in DOMAIN fs : x \in DOMAIN c.functions /\ fs[x] = c.functions[x]
      BY DEF FromSnapshot
    <3> QED BY <2>1, <2>2, <3>1, <3>2
  <2> QED BY <2>8, <2>9, <2>10 DEF FromSnapshot
<1> QED BY <1>2, <1>3

LEMMA ReparsedFits ==
  ASSUME NEW c, c.functions \in FunctionMaps, c.sourced \subseteq DOMAIN c.functions
  PROVE  FromSnapshot(Reparsed(c), c)
<1>1. PICK n \in Nat : n = Len(FunctionNames)
  BY NamesAre
<1>2. PICK t : /\ Reparsed(c) = t[n] /\ t[0] = <<>>
               /\ \A i \in 1..n : t[i] = Takes(c, t[i - 1], FunctionNames[i])
  BY <1>1, ReparsedIs
<1> DEFINE Bad == {i \in 0..n : ~FromSnapshot(t[i], c)}
<1>3. ASSUME Bad # {} PROVE FALSE
  <2>1. Bad \in SUBSET (0..n)
    OBVIOUS
  <2>2. PICK k \in Bad : \A j \in Bad : k <= j
    <3> HIDE DEF Bad
    <3> QED BY <1>3, <2>1, Smallest
  <2>3. k \in 0..n /\ ~FromSnapshot(t[k], c)
    OBVIOUS
  <2>4. CASE k = 0
    <3>1. \A f \in DOMAIN <<>> : f \in DOMAIN c.functions /\ <<>>[f] = c.functions[f]
      BY EmptyMap
    <3>2. FromSnapshot(<<>>, c)
      BY <3>1, NothingIs, SizesAssumption DEF FromSnapshot
    <3> QED BY <1>2, <2>3, <2>4, <3>2
  <2>5. CASE k # 0
    <3>1. k \in 1..n /\ k - 1 \in 0..n /\ ~(k <= k - 1)
      BY <2>3, <2>5
    <3>2. k - 1 \notin Bad
      BY <2>2, <3>1
    <3>3. FromSnapshot(t[k - 1], c)
      BY <3>1, <3>2
    <3>4. t[k] = Takes(c, t[k - 1], FunctionNames[k]) /\ FunctionNames[k] \in FunctionSet
      BY <1>1, <1>2, <3>1, NamesAre
    <3>5. FromSnapshot(t[k], c)
      BY <3>3, <3>4, TakesOne
    <3> QED BY <2>3, <3>5
  <2> QED BY <2>4, <2>5
<1>4. n \in 0..n
  OBVIOUS
<1> QED BY <1>2, <1>3, <1>4

(* A session's own functions all find room.                                *)
OwnSoFar(fs, all, i) ==
  /\ fs \in FunctionMaps
  /\ \A f : f \in DOMAIN fs <=> /\ f \in DOMAIN all
                                /\ \E j \in 1..i : f = FunctionNames[j]
  /\ \A f \in DOMAIN fs : fs[f] = all[f]

LEMMA TakesOwn ==
  ASSUME NEW c, c.functions \in FunctionMaps, c.sourced = DOMAIN c.functions,
         Cardinality(DOMAIN c.functions) <= MaxFunctionCount,
         Sum(c.functions) <= MaxFunctionBytes,
         NEW i \in 1..Len(FunctionNames), NEW fs, OwnSoFar(fs, c.functions, i - 1),
         NEW w, w = Takes(c, fs, FunctionNames[i])
  PROVE  OwnSoFar(w, c.functions, i)
<1>0. fs \in FunctionMaps /\ \A x \in DOMAIN fs : fs[x] = c.functions[x]
  BY DEF OwnSoFar
<1>00. i \in Nat /\ i - 1 \in Nat /\ \A j \in 1..i : j = i \/ j \in 1..i - 1
  BY NamesAre
<1>1. PICK f \in FunctionSet : f = FunctionNames[i]
  BY NamesAre
<1>2. CASE f \notin DOMAIN c.functions
  <2>1. w = fs
    BY <1>1, <1>2 DEF Takes
  <2>2. \A x : x \in DOMAIN fs <=> /\ x \in DOMAIN c.functions
                                   /\ \E j \in 1..i - 1 : x = FunctionNames[j]
    BY DEF OwnSoFar
  <2>3. \A x : x \in DOMAIN fs <=> /\ x \in DOMAIN c.functions
                                   /\ \E j \in 1..i : x = FunctionNames[j]
    BY <1>00, <1>1, <1>2, <2>2
  <2> QED BY <1>0, <2>1, <2>3 DEF OwnSoFar
<1>3. CASE f \in DOMAIN c.functions
  <2>1. PICK v \in Nat : v = c.functions[f]
    BY <1>3, MapIs DEF FunctionMaps
  <2>2. PICK g \in FunctionMaps : g = With(fs, f, v)
    BY <1>0, WithIs DEF FunctionMaps
  <2>3. /\ DOMAIN g = DOMAIN fs \cup {f} /\ g[f] = v
        /\ \A x \in DOMAIN fs : x # f => g[x] = fs[x]
    BY <2>2 DEF With
  <2>4. \A x : x \in DOMAIN fs <=> /\ x \in DOMAIN c.functions
                                   /\ \E j \in 1..i - 1 : x = FunctionNames[j]
    BY DEF OwnSoFar
  <2>5. f \notin DOMAIN fs
    <3>1. \A j \in 1..i - 1 : j \in 1..Len(FunctionNames) /\ j # i
      BY <1>00, NamesAre
    <3>2. \A j \in 1..i - 1 : FunctionNames[j] # f
      BY <1>1, <3>1, NamesAre
    <3> QED BY <2>4, <3>2
  <2>6. DOMAIN g \subseteq DOMAIN c.functions /\ \A x \in DOMAIN g : g[x] = c.functions[x]
    BY <1>0, <1>3, <2>1, <2>3, <2>4
  <2>7. Sum(g) <= Sum(c.functions)
    BY <2>6, BytesLess DEF FunctionMaps
  <2>8. Cardinality(DOMAIN g) <= Cardinality(DOMAIN c.functions)
    BY <2>6, CountLess DEF FunctionMaps
  <2>9. PICK b : b = Recomputed(<<>>, <<>>, fs)
    OBVIOUS
  <2>10. FunctionFits(b, fs, f, v)
    <3>1. b.function_count = Cardinality(DOMAIN fs) /\ b.function_body_bytes = Sum(fs)
      BY <1>0, <2>9, NothingIs, RecomputedIs
    <3>2. Added(fs, f) = 1 /\ Length(fs, f) = 0
      BY <2>5 DEF Added, Length
    <3>3. Cardinality(DOMAIN g) = Cardinality(DOMAIN fs) + 1
      BY <1>0, <2>2, <3>2, CountWith DEF FunctionMaps
    <3>4. Sum(g) = Sum(fs) + v - 0
      BY <1>0, <2>2, <3>2, SumWith DEF FunctionMaps
    <3>5. /\ Cardinality(DOMAIN fs) \in Nat /\ Sum(fs) \in Nat /\ Sum(g) \in Nat
          /\ Cardinality(DOMAIN c.functions) \in Nat /\ Sum(c.functions) \in Nat
          /\ MaxFunctionCount \in Nat /\ MaxFunctionBytes \in Nat
      BY <1>0, MapIs, BytesType, SizesAssumption DEF FunctionMaps
    <3>6. Cardinality(DOMAIN fs) < MaxFunctionCount
      BY <2>8, <3>3, <3>5
    <3>7. Sum(fs) + v - 0 <= MaxFunctionBytes
      BY <2>7, <3>4, <3>5
    <3> QED BY <3>1, <3>2, <3>6, <3>7 DEF FunctionFits
  <2>11. w = g
    BY <1>1, <1>3, <2>1, <2>2, <2>9, <2>10 DEF Takes
  <2>12. \A x : x \in DOMAIN g <=> /\ x \in DOMAIN c.functions
                                   /\ \E j \in 1..i : x = FunctionNames[j]
    BY <1>00, <1>1, <1>3, <2>3, <2>4
  <2> QED BY <2>6, <2>11, <2>12 DEF OwnSoFar
<1> QED BY <1>2, <1>3

LEMMA OwnReparsed ==
  ASSUME NEW c, c.functions \in FunctionMaps, c.sourced = DOMAIN c.functions,
         Cardinality(DOMAIN c.functions) <= MaxFunctionCount,
         Sum(c.functions) <= MaxFunctionBytes
  PROVE  Reparsed(c) = c.functions
<1>1. PICK n \in Nat : n = Len(FunctionNames)
  BY NamesAre
<1>2. PICK t : /\ Reparsed(c) = t[n] /\ t[0] = <<>>
               /\ \A i \in 1..n : t[i] = Takes(c, t[i - 1], FunctionNames[i])
  BY <1>1, ReparsedIs
<1> DEFINE Bad == {i \in 0..n : ~OwnSoFar(t[i], c.functions, i)}
<1>3. ASSUME Bad # {} PROVE FALSE
  <2>1. Bad \in SUBSET (0..n)
    OBVIOUS
  <2>2. PICK k \in Bad : \A j \in Bad : k <= j
    <3> HIDE DEF Bad
    <3> QED BY <1>3, <2>1, Smallest
  <2>3. k \in 0..n /\ ~OwnSoFar(t[k], c.functions, k)
    OBVIOUS
  <2>4. CASE k = 0
    <3>1. DOMAIN <<>> = {} /\ 1..0 = {}
      BY EmptyMap
    <3>2. OwnSoFar(<<>>, c.functions, 0)
      BY <3>1, NothingIs DEF OwnSoFar
    <3> QED BY <1>2, <2>3, <2>4, <3>2
  <2>5. CASE k # 0
    <3>1. k \in 1..n /\ k - 1 \in 0..n /\ ~(k <= k - 1)
      BY <2>3, <2>5
    <3>2. k - 1 \notin Bad
      BY <2>2, <3>1
    <3>3. OwnSoFar(t[k - 1], c.functions, k - 1)
      BY <3>1, <3>2
    <3>4. t[k] = Takes(c, t[k - 1], FunctionNames[k])
      BY <1>2, <3>1
    <3>5. k \in 1..Len(FunctionNames)
      BY <1>1, <3>1
    <3>6. OwnSoFar(t[k], c.functions, k)
      BY <3>3, <3>4, <3>5, TakesOwn
    <3> QED BY <2>3, <3>6
  <2> QED BY <2>4, <2>5
<1>4. OwnSoFar(t[n], c.functions, n)
  BY <1>3
<1>5. PICK r \in FunctionMaps : r = t[n]
  BY <1>4 DEF OwnSoFar
<1>6. /\ r \in [DOMAIN r -> Nat] /\ c.functions \in [DOMAIN c.functions -> Nat]
      /\ DOMAIN c.functions \subseteq FunctionSet
  BY MapIs DEF FunctionMaps
<1>7. DOMAIN r = DOMAIN c.functions
  <2>1. \A f : f \in DOMAIN r <=> /\ f \in DOMAIN c.functions
                                  /\ \E j \in 1..n : f = FunctionNames[j]
    BY <1>4, <1>5 DEF OwnSoFar
  <2>2. \A f \in DOMAIN c.functions : \E j \in 1..n : f = FunctionNames[j]
    BY <1>1, <1>6, NamesAre
  <2> QED BY <2>1, <2>2
<1>8. \A f \in DOMAIN r : r[f] = c.functions[f]
  BY <1>4, <1>5 DEF OwnSoFar
<1>9. r = c.functions
  BY <1>6, <1>7, <1>8
<1> QED BY <1>2, <1>5, <1>9

----------------------------------------------------------------------------
(***************************************************************************)
(* Every step keeps the invariant.                                         *)
(***************************************************************************)
LEMMA InitKeeps == Init => Inv
<1> SUFFICES ASSUME Init PROVE Inv
  OBVIOUS
<1>1. PICK b : b = Recomputed(<<>>, <<>>, <<>>)
  OBVIOUS
<1>2. /\ b \in Budget /\ b.variable_count = 0 /\ b.variable_bytes = 0
      /\ b.array_entries = 0 /\ b.function_count = 0 /\ b.function_body_bytes = 0
  BY <1>1, NothingIs, RecomputedIs
<1>3. shell = [variables |-> <<>>, env |-> <<>>, arrays |-> <<>>, functions |-> <<>>,
               readonly |-> {}, allexport |-> FALSE, locals |-> <<>>, budget |-> b]
  BY <1>1 DEF Init
<1>4. shell \in ShellType
  BY <1>2, <1>3, NothingIs, LocalsNone DEF ShellType
<1>5. FunctionsKept(shell)
  BY <1>2, <1>3, NothingIs, SizesAssumption DEF FunctionsKept
<1>6. CountsKept(shell)
  BY <1>2, <1>3, NothingIs, LocalsNone, SizesAssumption
     DEF CountsKept, StoredCount, StoredBytes
<1>7. vfs \in TreesWithinLimits
  BY TreesAssumption DEF Init
<1>8. ShellInv
  BY <1>4, <1>5, <1>6, <1>7 DEF Init, ShellInv
<1>9. nest = <<>> /\ nest \in Seq(Frames) /\ Len(nest) = 0
  BY EmptySeq DEF Init
<1>10. Len(shell.locals) = 0
  BY <1>3, LocalsNone
<1>11. \E d : Nested(nest, d, Len(shell.locals))
  <2>1. PICK d : d = [i \in 0..0 |-> 0]
    OBVIOUS
  <2>2. d \in [0..0 -> Nat] /\ d[0] = 0 /\ 1..0 = {}
    BY <2>1
  <2> QED BY <1>9, <1>10, <2>2 DEF Nested
<1>12. NestInv
  BY <1>9, <1>11 DEF NestInv
<1> QED BY <1>8, <1>12 DEF Inv

LEMMA LiteralsAre == \A e \in Literals : e \in Elements
<1> SUFFICES ASSUME NEW e \in Literals PROVE e \in Elements
  OBVIOUS
<1>1. PICK k \in {i + 1 : i \in Indices} \cup {0} : e = {i \in Indices : i < k}
  BY DEF Literals
<1>2. k \in Nat /\ Indices \subseteq Nat
  BY ArraysAssumption
<1>3. e \subseteq Indices /\ \A x \in e : x < k
  BY <1>1
<1>4. IsFiniteSet(e)
  <2>1. IsFiniteSet(0..k)
    BY <1>2, FS_Interval
  <2>2. \A x \in e : x \in Nat /\ x < k
    BY <1>2, <1>3
  <2>3. \A x \in e : x \in 0..k
    BY <1>2, <2>2
  <2> HIDE DEF Literals
  <2> QED BY <2>1, <2>3, FS_Subset
<1> QED BY <1>3, <1>4 DEF Elements

LEMMA ScalarsKeep ==
  ASSUME Inv, Scalars
  PROVE  Inv'
<1>0. ShellInv /\ NestInv /\ shell \in ShellType
  BY DEF Inv, ShellInv
<1>00. PICK n \in Names :
         \/ Unset(n) \/ ReadonlyName(n) \/ ExportName(n)
         \/ \E v \in Sizes : \/ Assign(n, v) \/ Local(n, v) \/ Readonly(n, v)
                             \/ Export(n, v) \/ Store(n, v) \/ Prefix(n, v)
  BY DEF Scalars
<1>s. Sizes \subseteq Nat
  BY SizesAssumption
<1>1. CASE Unset(n)
  <2>1. Keeps(shell, shell')
    BY <1>0, <1>1, UnsetKeeps, KeepsItself DEF Unset, Counted, Leads
  <2> QED BY <1>0, <1>1, <2>1, CountedStep DEF Unset, Counted, Leads, Inv
<1>2. CASE ReadonlyName(n)
  <2>1. PICK ro \in SUBSET Names : ro = shell.readonly \cup {n}
    BY <1>0, ShellIs
  <2>2. PICK ae \in BOOLEAN : ae = shell.allexport
    BY <1>0, ShellIs
  <2>3. shell' = [shell EXCEPT !.readonly = ro, !.allexport = ae]
    BY <1>0, <1>2, <2>1, <2>2 DEF ReadonlyName, Counted, Leads, ShellType
  <2>4. Keeps(shell, shell')
    BY <1>0, <2>3, AttributesKeep
  <2> QED BY <1>0, <1>2, <2>4, CountedStep DEF ReadonlyName, Counted, Leads, Inv
<1>3. CASE ExportName(n)
  <2>1. PICK v \in Nat : v = shell.variables[n]
    BY <1>0, <1>3, ShellIs, MapIs DEF ExportName, Variables
  <2>2. shell' = PutEnv(shell, n, v)
    BY <1>3, <2>1 DEF ExportName, Counted, Leads
  <2>3. Keeps(shell, shell')
    BY <1>0, <2>2, PutEnvKeeps
  <2> QED BY <1>0, <1>3, <2>3, CountedStep DEF ExportName, Counted, Leads, Inv
<1>4. ASSUME NEW v \in Nat, Assign(n, v) PROVE Inv'
  <2>1. Keeps(shell, shell')
    BY <1>0, <1>4, SetVariableKeeps DEF Assign, Counted, Leads
  <2> QED BY <1>0, <1>4, <2>1, CountedStep DEF Assign, Counted, Leads, Inv
<1>5. ASSUME NEW v \in Nat, Local(n, v) PROVE Inv'
  <2>1. CASE shell.locals = <<>>
    <3>1. shell' = InsertVariable(shell, n, v)
      BY <1>5, <2>1 DEF Local, Counted, Leads
    <3>2. Keeps(shell, shell')
      BY <1>0, <3>1, InsertVariableKeeps
    <3> QED BY <1>0, <1>5, <3>2, CountedStep DEF Local, Counted, Leads, Inv
  <2>2. CASE shell.locals # <<>>
    <3>1. shell' = InsertLocal(shell, n, v)
      BY <1>5, <2>2 DEF Local, Counted, Leads
    <3>2. Keeps(shell, shell')
      BY <1>0, <2>2, <3>1, InsertLocalKeeps
    <3> QED BY <1>0, <1>5, <3>2, CountedStep DEF Local, Counted, Leads, Inv
  <2> QED BY <2>1, <2>2
<1>6. ASSUME NEW v \in Nat, Readonly(n, v) PROVE Inv'
  <2>1. PICK ro \in SUBSET Names : ro = shell.readonly \cup {n}
    BY <1>0, ShellIs
  <2>2. PICK e \in Variables : e = shell.env
    BY <1>0, ShellIs
  <2>3. shell' = [shell EXCEPT !.variables = With(@, n, v), !.env = e, !.readonly = ro]
    BY <1>0, <1>6, <2>1, <2>2 DEF Readonly, Uncounted, Leads, ShellType
  <2>4. KeepsFunctions(shell, shell')
    BY <1>0, <2>3, StoreKeeps
  <2> QED BY <1>0, <1>6, <2>4, UncountedStep DEF Readonly, Uncounted, Leads, Inv
<1>7. ASSUME NEW v \in Nat, Export(n, v) PROVE Inv'
  <2>1. PICK ro \in SUBSET Names : ro = shell.readonly
    BY <1>0, ShellIs
  <2>2. PICK e \in Variables : e = With(shell.env, n, v)
    BY <1>0, ShellIs, WithIs DEF Variables
  <2>3. shell' = [shell EXCEPT !.variables = With(@, n, v), !.env = e, !.readonly = ro]
    BY <1>0, <1>7, <2>1, <2>2 DEF Export, PutEnv, Uncounted, Leads, ShellType
  <2>4. KeepsFunctions(shell, shell')
    BY <1>0, <2>3, StoreKeeps
  <2> QED BY <1>0, <1>7, <2>4, UncountedStep DEF Export, Uncounted, Leads, Inv
<1>8. ASSUME NEW v \in Nat, Store(n, v) PROVE Inv'
  <2>1. PICK ro \in SUBSET Names : ro = shell.readonly
    BY <1>0, ShellIs
  <2>2. PICK e \in Variables : e = shell.env
    BY <1>0, ShellIs
  <2>3. shell' = [shell EXCEPT !.variables = With(@, n, v), !.env = e, !.readonly = ro]
    BY <1>0, <1>8, <2>1, <2>2 DEF Store, Uncounted, Leads, ShellType
  <2>4. KeepsFunctions(shell, shell')
    BY <1>0, <2>3, StoreKeeps
  <2> QED BY <1>0, <1>8, <2>4, UncountedStep DEF Store, Uncounted, Leads, Inv
<1>9. ASSUME NEW v \in Nat, Prefix(n, v) PROVE Inv'
  <2>1. PICK s : s = SetVariable(shell, n, v)
    OBVIOUS
  <2>2. Keeps(shell, s)
    BY <1>0, <2>1, SetVariableKeeps
  <2>3. s \in ShellType
    BY <2>2 DEF Keeps, KeepsFunctions
  <2>4. PICK p : p = [name |-> n, exported |-> n \in DOMAIN s.variables,
                      variable |-> Restrict(shell.variables, DOMAIN shell.variables \cap {n}),
                      env |-> Restrict(shell.env, DOMAIN shell.env \cap {n})]
    OBVIOUS
  <2>5. p \in PrefixType
    <3>1. PICK vs \in Variables, e \in Variables : vs = shell.variables /\ e = shell.env
      BY <1>0, ShellIs
    <3>2. Restrict(vs, DOMAIN vs \cap {n}) \in Variables
      BY RestrictIs DEF Variables
    <3>3. Restrict(e, DOMAIN e \cap {n}) \in Variables
      BY RestrictIs DEF Variables
    <3>4. (n \in DOMAIN s.variables) \in BOOLEAN
      OBVIOUS
    <3> QED BY <2>4, <3>1, <3>2, <3>3, <3>4 DEF PrefixType
  <2>6. PICK f : f = [kind |-> "prefix", saved |-> p, drifted |-> drifted]
    OBVIOUS
  <2>7. f \in Frames /\ f.kind = "prefix"
    BY <1>0, <2>5, <2>6 DEF Frames, ShellInv
  <2>8. /\ nest' = Append(nest, f) /\ vfs' = vfs /\ drifted' = drifted
        /\ shell' = s \/ (n \in DOMAIN s.variables /\ shell' = PutEnv(s, n, s.variables[n]))
    BY <1>9, <2>1, <2>4, <2>6 DEF Prefix, Enters
  <2>9. Keeps(s, shell')
    <3>1. CASE shell' = s
      BY <2>3, <3>1, KeepsItself
    <3>2. CASE n \in DOMAIN s.variables /\ shell' = PutEnv(s, n, s.variables[n])
      <4>1. PICK u \in Nat : u = s.variables[n]
        BY <2>3, <3>2, ShellIs, MapIs DEF Variables
      <4> QED BY <2>3, <3>2, <4>1, PutEnvKeeps
    <3> QED BY <2>8, <3>1, <3>2
  <2>10. Keeps(shell, shell')
    BY <2>2, <2>9, KeepsTwice
  <2>11. /\ shell' \in ShellType /\ Len(shell'.locals) = Len(shell.locals)
         /\ FunctionsKept(shell') /\ (~drifted' => CountsKept(shell')) /\ drifted' \in BOOLEAN
    BY <1>0, <2>8, <2>10 DEF Keeps, KeepsFunctions, ShellInv
  <2>12. FrameKept(f) /\ Deepens(f, Len(shell.locals), Len(shell'.locals))
    BY <2>7, <2>11, ChildrenAre DEF FrameKept, Deepens
  <2> QED BY <1>0, <2>7, <2>8, <2>11, <2>12, PushStep DEF Inv
<1> QED BY <1>00, <1>s, <1>1, <1>2, <1>3, <1>4, <1>5, <1>6, <1>7, <1>8, <1>9

LEMMA ArrayCommandsKeep ==
  ASSUME Inv, ArrayCommands
  PROVE  Inv'
<1>0. ShellInv /\ NestInv /\ shell \in ShellType
  BY DEF Inv, ShellInv
<1>00. PICK a \in Arrays :
         \/ \E e \in Literals : AssignArray(a, e) \/ ReadArray(a, e) \/ LocalArray(a, e)
         \/ \E i \in Indices : AssignElement(a, i) \/ UnsetElement(a, i)
  BY DEF ArrayCommands
<1>1. ASSUME NEW e \in Elements, AssignArray(a, e) PROVE Inv'
  <2>1. Keeps(shell, shell')
    BY <1>0, <1>1, InsertArrayKeeps DEF AssignArray, Counted, Leads
  <2> QED BY <1>0, <1>1, <2>1, CountedStep DEF AssignArray, Counted, Leads, Inv
<1>2. ASSUME NEW e \in Elements, ReadArray(a, e) PROVE Inv'
  <2>1. PICK s : s = [shell EXCEPT !.arrays = Without(@, a)]
    OBVIOUS
  <2>2. shell' = s \/ shell' = InsertArray(s, a, e)
    BY <1>2, <2>1 DEF ReadArray, Counted, Leads
  <2>3. Keeps(shell, shell')
    BY <1>0, <2>1, <2>2, ReadArrayKeeps
  <2> QED BY <1>0, <1>2, <2>3, CountedStep DEF ReadArray, Counted, Leads, Inv
<1>3. ASSUME NEW e \in Elements, LocalArray(a, e) PROVE Inv'
  <2>1. shell' = IF shell.locals = <<>> THEN [shell EXCEPT !.arrays = With(@, a, e)]
                 ELSE InsertLocal([shell EXCEPT !.arrays = With(@, a, e)], a, 0)
    BY <1>3 DEF LocalArray, Uncounted, Leads
  <2>2. KeepsFunctions(shell, shell')
    BY <1>0, <2>1, LocalArrayKeeps
  <2> QED BY <1>0, <1>3, <2>2, UncountedStep DEF LocalArray, Uncounted, Leads, Inv
<1>4. ASSUME NEW i \in Indices, AssignElement(a, i) PROVE Inv'
  <2>1. Keeps(shell, shell')
    BY <1>0, <1>4, InsertElementKeeps DEF AssignElement, Counted, Leads
  <2> QED BY <1>0, <1>4, <2>1, CountedStep DEF AssignElement, Counted, Leads, Inv
<1>5. ASSUME NEW i \in Indices, UnsetElement(a, i) PROVE Inv'
  <2>1. Keeps(shell, shell')
    BY <1>0, <1>5, UnsetElementKeeps DEF UnsetElement, Counted, Leads
  <2> QED BY <1>0, <1>5, <2>1, CountedStep DEF UnsetElement, Counted, Leads, Inv
<1> QED BY <1>00, <1>1, <1>2, <1>3, <1>4, <1>5, LiteralsAre

LEMMA FunctionCommandsKeep ==
  ASSUME Inv, FunctionCommands
  PROVE  Inv'
<1>0. ShellInv /\ NestInv /\ shell \in ShellType
  BY DEF Inv, ShellInv
<1>00. PICK f \in FunctionSet :
         (\E body \in Bodies : Define(f, body)) \/ UnsetFunction(f) \/ CallFunction(f)
  BY DEF FunctionCommands
<1>1. ASSUME NEW body \in Nat, Define(f, body) PROVE Inv'
  <2>1. Keeps(shell, shell')
    BY <1>0, <1>1, InsertFunctionKeeps DEF Define, Counted, Leads
  <2> QED BY <1>0, <1>1, <2>1, CountedStep DEF Define, Counted, Leads, Inv
<1>2. CASE UnsetFunction(f)
  <2>1. Keeps(shell, shell')
    BY <1>0, <1>2, UnsetFunctionKeeps DEF UnsetFunction, Counted, Leads
  <2> QED BY <1>0, <1>2, <2>1, CountedStep DEF UnsetFunction, Counted, Leads, Inv
<1>3. CASE CallFunction(f)
  <2>1. PICK fr : fr = [kind |-> "call", saved |-> <<>>, drifted |-> drifted]
    OBVIOUS
  <2>2. fr \in Frames /\ fr.kind = "call"
    BY <1>0, <2>1 DEF Frames, ShellInv
  <2>3. PICK ls : ls = Append(shell.locals, <<>>)
    OBVIOUS
  <2>4. /\ ls \in Locals /\ Len(ls) = Len(shell.locals) + 1
        /\ LocalCount(ls) = LocalCount(shell.locals)
        /\ LocalBytes(ls) = LocalBytes(shell.locals)
    BY <1>0, <2>3, ShellIs, LocalsPush
  <2>5. /\ nest' = Append(nest, fr) /\ vfs' = vfs /\ drifted' = drifted
        /\ shell' = [shell EXCEPT !.locals = ls]
    BY <1>3, <2>1, <2>3 DEF CallFunction, Enters
  <2>6. /\ shell' \in ShellType /\ shell'.locals = ls /\ shell'.variables = shell.variables
        /\ shell'.arrays = shell.arrays /\ shell'.functions = shell.functions
        /\ shell'.budget = shell.budget
    BY <1>0, <2>4, <2>5 DEF ShellType
  <2>7. FunctionsKept(shell')
    BY <1>0, <2>6 DEF ShellInv, FunctionsKept
  <2>8. ~drifted' => CountsKept(shell')
    <3> SUFFICES ASSUME ~drifted PROVE CountsKept(shell')
      BY <2>5
    <3>1. CountsKept(shell)
      BY <1>0 DEF ShellInv
    <3>2. /\ StoredCount(shell') = StoredCount(shell) /\ StoredBytes(shell') = StoredBytes(shell)
      BY <2>4, <2>6 DEF StoredCount, StoredBytes
    <3> QED BY <2>6, <3>1, <3>2 DEF CountsKept
  <2>9. FrameKept(fr) /\ Deepens(fr, Len(shell.locals), Len(shell'.locals))
    BY <2>2, <2>4, <2>6, ChildrenAre DEF FrameKept, Deepens
  <2>10. drifted' \in BOOLEAN
    BY <1>0, <2>5 DEF ShellInv
  <2> QED BY <1>0, <2>2, <2>5, <2>6, <2>7, <2>8, <2>9, <2>10, PushStep DEF Inv
<1>4. Bodies \subseteq Nat
  BY SizesAssumption
<1> QED BY <1>00, <1>1, <1>2, <1>3, <1>4

(* A child begins: what it needs of the parent is in its frame.            *)
LEMMA ChildFrame ==
  ASSUME ShellInv, NEW k \in Children, NEW f,
         f = [kind |-> k, saved |-> shell, drifted |-> drifted]
  PROVE  f \in Frames /\ FrameKept(f) /\ f.kind = k /\ f.saved = shell
BY DEF Frames, FrameKept, ShellInv

LEMMA ChildBegins ==
  ASSUME ShellInv, NestInv, NEW k \in Children, NEW sh \in ShellType, Enters(k, shell, sh),
         k \in {"subst", "subshell"} => Len(sh.locals) = Len(shell.locals),
         k = "child" => Len(sh.locals) = Len(shell.locals) + 1,
         FunctionsKept(sh), drifted' \in BOOLEAN, ~drifted' => CountsKept(sh)
  PROVE  ShellInv' /\ NestInv'
<1>1. PICK f : f = [kind |-> k, saved |-> shell, drifted |-> drifted]
  OBVIOUS
<1>2. f \in Frames /\ FrameKept(f) /\ f.kind = k /\ f.saved = shell
  BY <1>1, ChildFrame
<1>3. nest' = Append(nest, f) /\ vfs' = vfs /\ shell' = sh
  BY <1>1 DEF Enters
<1>4. Deepens(f, Len(shell.locals), Len(shell'.locals))
  BY <1>2, <1>3, ChildrenAre DEF Deepens
<1> QED BY <1>2, <1>3, <1>4, PushStep

LEMMA ChildrenBegin ==
  ASSUME Inv, Substitute \/ Subshell \/ ChildShell \/ Script
  PROVE  Inv'
<1>0. ShellInv /\ NestInv /\ shell \in ShellType /\ FunctionsKept(shell)
      /\ drifted \in BOOLEAN /\ (~drifted => CountsKept(shell))
  BY DEF Inv, ShellInv
<1>b. shell.budget \in Budget
  BY <1>0, ShellIs
<1>c. /\ shell.budget.function_count \in Nat /\ shell.budget.function_body_bytes \in Nat
  BY <1>b, BudgetIs
<1>1. CASE Substitute
  <2>1. Enters("subst", shell, shell) /\ drifted' = drifted
    BY <1>1 DEF Substitute
  <2> QED BY <1>0, <2>1, ChildBegins, ChildrenAre DEF Inv
<1>2. CASE Subshell
  <2>1. Enters("subshell", shell, shell) /\ drifted' = drifted
    BY <1>2 DEF Subshell
  <2> QED BY <1>0, <2>1, ChildBegins, ChildrenAre DEF Inv
<1>3. CASE ChildShell
  <2>1. PICK ls : ls = Append(shell.locals, <<>>)
    OBVIOUS
  <2>2. /\ ls \in Locals /\ Len(ls) = Len(shell.locals) + 1
        /\ LocalCount(ls) = LocalCount(shell.locals)
        /\ LocalBytes(ls) = LocalBytes(shell.locals)
    BY <1>0, <2>1, ShellIs, LocalsPush
  <2>3. PICK z : z = <<>>
    OBVIOUS
  <2>4. /\ z \in Variables /\ z \in ArrayMaps /\ z \in FunctionMaps
        /\ Cardinality(DOMAIN z) = 0 /\ Bytes(z) = 0 /\ Sum(z) = 0 /\ ElementCount(z) = 0
    BY <2>3, NothingIs, Zenon
  <2>5. PICK sh : sh = [shell EXCEPT !.variables = z, !.arrays = z, !.functions = z,
                                     !.allexport = FALSE, !.locals = ls]
    OBVIOUS
  <2>6. /\ sh \in ShellType /\ sh.variables = z /\ sh.arrays = z /\ sh.functions = z
        /\ sh.locals = ls /\ sh.budget = shell.budget
    BY <1>0, <2>2, <2>4, <2>5 DEF ShellType
  <2>7. Enters("child", shell, sh) /\ drifted' = drifted
    BY <1>3, <2>1, <2>3, <2>5 DEF ChildShell
  <2>8. FunctionsKept(sh)
    BY <1>c, <2>4, <2>6, SizesAssumption DEF FunctionsKept
  <2>9. ~drifted => CountsKept(sh)
    <3> SUFFICES ASSUME CountsKept(shell) PROVE CountsKept(sh)
      BY <1>0
    <3>1. /\ Cardinality(DOMAIN shell.variables) \in Nat /\ Bytes(shell.variables) \in Nat
          /\ LocalCount(shell.locals) \in Nat /\ LocalBytes(shell.locals) \in Nat
          /\ ElementCount(shell.arrays) \in Nat
      BY <1>0, StoredIs
    <3>2. /\ shell.budget.variable_count \in Nat /\ shell.budget.variable_bytes \in Nat
          /\ shell.budget.array_entries \in Nat
          /\ MaxVariableCount \in Nat /\ MaxVariableBytes \in Nat /\ MaxArrayEntries \in Nat
      BY <1>b, BudgetIs, SizesAssumption
    <3>3. /\ StoredCount(sh) = LocalCount(shell.locals)
          /\ StoredBytes(sh) = LocalBytes(shell.locals)
      BY <2>2, <2>4, <2>6, <3>1 DEF StoredCount, StoredBytes
    <3>4. /\ shell.budget.variable_count >= LocalCount(shell.locals)
          /\ shell.budget.variable_bytes >= LocalBytes(shell.locals)
          /\ LocalCount(shell.locals) <= MaxVariableCount
      BY <3>1, <3>2 DEF CountsKept, StoredCount, StoredBytes
    <3> QED BY <2>4, <2>6, <3>2, <3>3, <3>4 DEF CountsKept
  <2> QED BY <1>0, <2>2, <2>6, <2>7, <2>8, <2>9, ChildBegins, ChildrenAre DEF Inv
<1>4. CASE Script
  <2>1. PICK ls : ls = << <<>> >>
    OBVIOUS
  <2>2. ls \in Locals
    <3>1. <<>> \in Variables
      BY NothingIs
    <3>2. Append(<<>>, <<>>) \in Locals
      BY <3>1, LocalsNone, LocalsPush
    <3>3. ls = Append(<<>>, <<>>)
      BY <2>1
    <3> QED BY <3>2, <3>3
  <2>3. PICK z : z = <<>>
    OBVIOUS
  <2>4. /\ z \in ArrayMaps /\ z \in FunctionMaps
        /\ Cardinality(DOMAIN z) = 0 /\ Sum(z) = 0
    BY <2>3, NothingIs, Zenon
  <2>5. PICK sh : sh = [shell EXCEPT !.variables = shell.env, !.arrays = z, !.functions = z,
                                     !.readonly = {}, !.allexport = FALSE, !.locals = ls]
    OBVIOUS
  <2>6. sh \in ShellType /\ sh.functions = z /\ sh.budget = shell.budget
    BY <1>0, <2>2, <2>4, <2>5 DEF ShellType
  <2>7. Enters("script", shell, sh) /\ drifted' = TRUE
    BY <1>4, <2>1, <2>3, <2>5 DEF Script
  <2>8. FunctionsKept(sh)
    BY <1>c, <2>4, <2>6, SizesAssumption DEF FunctionsKept
  <2> QED BY <1>0, <2>6, <2>7, <2>8, ChildBegins, ChildrenAre DEF Inv
<1> QED BY <1>1, <1>2, <1>3, <1>4

(* What a child's shell becomes when the parent takes its own back.        *)
TakenBack(saved, e, ls) == [saved EXCEPT !.env = e, !.locals = ls]

LEMMA GivenBack ==
  ASSUME NEW saved \in ShellType, NEW e \in Variables, NEW ls \in Locals
  PROVE  LET g == TakenBack(saved, e, ls) IN
         /\ g \in ShellType /\ g.locals = ls
         /\ g.variables = saved.variables /\ g.arrays = saved.arrays
         /\ g.functions = saved.functions /\ g.readonly = saved.readonly
         /\ g.budget = saved.budget
BY DEF TakenBack, ShellType

LEMMA GivenBackKept ==
  ASSUME NEW saved \in ShellType, NEW e \in Variables, NEW ls \in Locals
  PROVE  /\ FunctionsKept(saved) => FunctionsKept(TakenBack(saved, e, ls))
         /\ CountsKept(saved) /\ ls = saved.locals => CountsKept(TakenBack(saved, e, ls))
<1>1. PICK g : g = TakenBack(saved, e, ls)
  OBVIOUS
<1>2. /\ g.locals = ls
      /\ g.variables = saved.variables /\ g.arrays = saved.arrays
      /\ g.functions = saved.functions /\ g.budget = saved.budget
  BY <1>1 DEF TakenBack, ShellType
<1>3. FunctionsKept(saved) => FunctionsKept(g)
  BY <1>2 DEF FunctionsKept
<1>4. CountsKept(saved) /\ ls = saved.locals => CountsKept(g)
  BY <1>2 DEF CountsKept, StoredCount, StoredBytes
<1> QED BY <1>1, <1>3, <1>4

(* The same of a return from a child, with what it leaves to the parent.   *)
LEMMA ChildReturns ==
  ASSUME ShellInv, NestInv, NEW f, nest # <<>>, f = Last(nest), f.kind \in Children,
         NEW g, g = Returned(f, shell)
  PROVE  /\ g \in ShellType /\ f.saved \in ShellType
         /\ g.variables = f.saved.variables /\ g.arrays = f.saved.arrays
         /\ g.functions = f.saved.functions /\ g.readonly = f.saved.readonly
         /\ g.budget = f.saved.budget
         /\ Len(g.locals) = Len(f.saved.locals)
         /\ f.kind \in {"subshell", "script"} => g.locals = f.saved.locals
         /\ FunctionsKept(g)
         /\ ~f.drifted /\ g.locals = f.saved.locals => CountsKept(g)
<1>1. f \in Frames /\ FrameKept(f)
  BY LastIs
<1>2. PICK saved \in ShellType : saved = f.saved
  BY <1>1, FrameIs
<1>3. FunctionsKept(saved) /\ (~f.drifted => CountsKept(saved))
  BY <1>1, <1>2 DEF FrameKept
<1>4. shell.env \in Variables /\ shell.locals \in Locals /\ saved.locals \in Locals
      /\ saved.env \in Variables
  BY ShellIs DEF ShellInv
<1>5. PICK before \in Nat : Deepens(f, before, Len(shell.locals))
  BY DepthAtLast
<1>e. PICK e \in Variables, top \in Locals, old \in Locals :
        e = shell.env /\ top = shell.locals /\ old = saved.locals
  BY <1>4
<1>6. CASE f.kind = "subst"
  <2>1. g = TakenBack(saved, e, top)
    BY <1>2, <1>6, <1>e DEF TakenBack, Returned, SnapshotRestores
  <2>2. /\ g \in ShellType /\ g.locals = top
        /\ g.variables = saved.variables /\ g.arrays = saved.arrays
        /\ g.functions = saved.functions /\ g.readonly = saved.readonly
        /\ g.budget = saved.budget
    BY <2>1, GivenBack
  <2>k. /\ FunctionsKept(saved) => FunctionsKept(g)
        /\ CountsKept(saved) /\ top = saved.locals => CountsKept(g)
    BY <2>1, GivenBackKept
  <2>3. Len(shell.locals) = Len(saved.locals)
    BY <1>2, <1>5, <1>6, ChildrenAre DEF Deepens
  <2> QED BY <1>2, <1>3, <1>6, <1>e, <2>2, <2>3, <2>k
<1>7. CASE f.kind = "subshell"
  <2>1. g = TakenBack(saved, e, old)
    BY <1>2, <1>7, <1>e DEF TakenBack, Returned, SubshellRestores, ShellType
  <2>2. /\ g \in ShellType /\ g.locals = old
        /\ g.variables = saved.variables /\ g.arrays = saved.arrays
        /\ g.functions = saved.functions /\ g.readonly = saved.readonly
        /\ g.budget = saved.budget
    BY <2>1, GivenBack
  <2>k. /\ FunctionsKept(saved) => FunctionsKept(g)
        /\ CountsKept(saved) /\ old = saved.locals => CountsKept(g)
    BY <2>1, GivenBackKept
  <2> QED BY <1>2, <1>3, <1>7, <1>e, <2>2, <2>k
<1>8. CASE f.kind = "child"
  <2>1. Len(shell.locals) = before + 1 /\ Len(saved.locals) = before
    BY <1>2, <1>5, <1>8, ChildrenAre DEF Deepens
  <2>2. PICK ls : ls = Front(shell.locals)
    OBVIOUS
  <2>3. ls \in Locals /\ Len(ls) = Len(shell.locals) - 1
    BY <1>4, <2>1, <2>2, LocalsPop
  <2>4. g = TakenBack(saved, e, ls)
    BY <1>2, <1>8, <1>e, <2>2 DEF TakenBack, Returned, SnapshotRestores, Popped, ShellType, ShellInv
  <2>5. /\ g \in ShellType /\ g.locals = ls
        /\ g.variables = saved.variables /\ g.arrays = saved.arrays
        /\ g.functions = saved.functions /\ g.readonly = saved.readonly
        /\ g.budget = saved.budget
    BY <2>3, <2>4, GivenBack
  <2>k. /\ FunctionsKept(saved) => FunctionsKept(g)
        /\ CountsKept(saved) /\ ls = saved.locals => CountsKept(g)
    BY <2>3, <2>4, GivenBackKept
  <2>6. Len(ls) = Len(saved.locals)
    BY <2>1, <2>3
  <2> QED BY <1>2, <1>3, <1>8, <2>5, <2>6, <2>k
<1>9. CASE f.kind = "script"
  <2>1. g = saved
    BY <1>2, <1>9 DEF Returned
  <2> QED BY <1>2, <1>3, <1>9, <2>1
<1> QED BY <1>6, <1>7, <1>8, <1>9, ChildrenAre

LEMMA ReturnKeeps ==
  ASSUME Inv, Return
  PROVE  Inv'
<1>0. ShellInv /\ NestInv /\ shell \in ShellType /\ FunctionsKept(shell)
      /\ drifted \in BOOLEAN /\ (~drifted => CountsKept(shell))
  BY DEF Inv, ShellInv
<1>1. PICK f : f = Last(nest)
  OBVIOUS
<1>2. /\ nest # <<>> /\ nest' = Front(nest) /\ vfs' = vfs
      /\ shell' = Returned(f, shell) /\ drifted' = StillDrifted(f)
  BY <1>1 DEF Return
<1>3. f \in Frames /\ FrameKept(f)
  BY <1>0, <1>1, <1>2, LastIs
<1>4. CASE f.kind = "call"
  <2>1. PICK ls : ls = Front(shell.locals)
    OBVIOUS
  <2>2. \A before \in Nat : Deepens(f, before, Len(shell.locals)) =>
          Len(shell.locals) = before + 1
    BY <1>4 DEF Deepens
  <2>3. Len(shell.locals) # 0 /\ Len(shell.locals) \in Nat /\ shell.locals \in Locals
    BY <1>0, <1>1, <1>2, <2>2, DepthAtLast, ShellIs
  <2>4. /\ ls \in Locals /\ Len(ls) = Len(shell.locals) - 1
        /\ LocalCount(ls) <= LocalCount(shell.locals)
        /\ LocalBytes(ls) <= LocalBytes(shell.locals)
    BY <2>1, <2>3, LocalsPop
  <2>5. shell' = [shell EXCEPT !.locals = ls] /\ drifted' = drifted
    BY <1>2, <1>4, <2>1 DEF Returned, Popped, StillDrifted
  <2>6. PICK g : g = shell'
    OBVIOUS
  <2>7. /\ g \in ShellType /\ g.locals = ls /\ g.variables = shell.variables
        /\ g.arrays = shell.arrays /\ g.functions = shell.functions /\ g.budget = shell.budget
    BY <1>0, <2>4, <2>5, <2>6 DEF ShellType
  <2>8. /\ Cardinality(DOMAIN shell.variables) \in Nat /\ Bytes(shell.variables) \in Nat
        /\ LocalCount(shell.locals) \in Nat /\ LocalBytes(shell.locals) \in Nat
        /\ ElementCount(shell.arrays) \in Nat
        /\ Cardinality(DOMAIN shell.functions) \in Nat /\ Sum(shell.functions) \in Nat
    BY <1>0, StoredIs
  <2>9. /\ Cardinality(DOMAIN g.variables) <= Cardinality(DOMAIN shell.variables)
        /\ Bytes(g.variables) <= Bytes(shell.variables)
        /\ ElementCount(g.arrays) <= ElementCount(shell.arrays)
        /\ Cardinality(DOMAIN g.functions) <= Cardinality(DOMAIN shell.functions)
        /\ Sum(g.functions) <= Sum(shell.functions)
        /\ LocalCount(g.locals) <= LocalCount(shell.locals)
        /\ LocalBytes(g.locals) <= LocalBytes(shell.locals)
    BY <2>4, <2>7, <2>8
  <2>10. /\ FunctionsKept(shell) => FunctionsKept(g)
         /\ CountsKept(shell) => CountsKept(g)
    BY <1>0, <2>7, <2>9, LessKept
  <2>11. \A before \in Nat : Deepens(f, before, Len(shell.locals)) => Len(g.locals) = before
    BY <2>2, <2>4, <2>7
  <2>12. /\ shell' \in ShellType /\ FunctionsKept(shell')
         /\ drifted' \in BOOLEAN /\ (~drifted' => CountsKept(shell'))
    BY <1>0, <2>5, <2>6, <2>7, <2>10
  <2>13. \A before \in Nat : Deepens(Last(nest), before, Len(shell.locals)) =>
           Len(shell'.locals) = before
    BY <1>1, <2>6, <2>11
  <2> QED BY <1>0, <1>2, <2>12, <2>13, PopStep DEF Inv
<1>5. CASE f.kind = "prefix"
  <2>1. shell' = PrefixRestores(f.saved, shell) /\ drifted' = drifted
    BY <1>2, <1>5 DEF Returned, StillDrifted
  <2>2. f.saved \in PrefixType
    BY <1>3, <1>5, FrameIs
  <2>3. Keeps(shell, shell')
    BY <1>0, <2>1, <2>2, PrefixRestoresKeeps
  <2>4. /\ shell' \in ShellType /\ Len(shell'.locals) = Len(shell.locals)
        /\ FunctionsKept(shell') /\ drifted' \in BOOLEAN
        /\ (~drifted' => CountsKept(shell'))
    BY <1>0, <2>1, <2>3 DEF Keeps, KeepsFunctions
  <2>5. \A before \in Nat : Deepens(f, before, Len(shell.locals)) => Len(shell'.locals) = before
    BY <1>5, <2>4 DEF Deepens
  <2> QED BY <1>0, <1>1, <1>2, <2>4, <2>5, PopStep DEF Inv
<1>6. CASE f.kind \in Children
  <2>1. PICK g : g = shell'
    OBVIOUS
  <2>2. /\ g \in ShellType /\ Len(g.locals) = Len(f.saved.locals)
        /\ f.kind \in {"subshell", "script"} => g.locals = f.saved.locals
        /\ FunctionsKept(g)
        /\ ~f.drifted /\ g.locals = f.saved.locals => CountsKept(g)
    BY <1>0, <1>1, <1>2, <1>6, <2>1, ChildReturns
  <2>3. f.drifted \in BOOLEAN
    BY <1>3, FrameIs
  <2>4. /\ f.kind \in {"subshell", "script"} => drifted' = f.drifted
        /\ f.kind \in {"subst", "child"} =>
             drifted' = (f.drifted \/ g.locals # f.saved.locals)
    BY <1>2, <2>1 DEF StillDrifted
  <2>5. drifted' \in BOOLEAN /\ (~drifted' => CountsKept(g))
    BY <1>6, <2>2, <2>3, <2>4, ChildrenAre
  <2>6. \A before \in Nat : Deepens(f, before, Len(shell.locals)) => Len(g.locals) = before
    BY <1>6, <2>2 DEF Deepens
  <2> QED BY <1>0, <1>1, <1>2, <2>1, <2>2, <2>5, <2>6, PopStep DEF Inv
<1>7. f.kind \in Kinds
  BY <1>3, FrameIs
<1> QED BY <1>4, <1>5, <1>6, <1>7 DEF Kinds

(* A snapshot is restored: nothing is nested, so there are no locals.      *)
LEMMA RestoreKeeps ==
  ASSUME Inv, NEW c \in Candidates, RestoreSnapshot(c)
  PROVE  Inv'
<1>0. ShellInv /\ NestInv /\ shell \in ShellType
  BY DEF Inv, ShellInv
<1>1. CASE ~(Validated(c) /\ TreeAccepted(c))
  <2>1. shell' = shell /\ nest' = nest /\ vfs' = vfs /\ drifted' = drifted
    BY <1>1 DEF RestoreSnapshot, RestoresTree
  <2> QED BY <1>0, <2>1, CountedStep, KeepsItself DEF Inv
<1>2. CASE Validated(c) /\ TreeAccepted(c)
  <2>1. /\ shell' = Restored(c, shell) /\ drifted' = FALSE /\ nest' = nest /\ nest = <<>>
        /\ vfs' \in {vfs, c.tree} /\ (vfs' = c.tree => vfs' \in TreesWithinLimits)
    <3>1. TreeAccepted(c) => c.tree = NoTree \/ c.tree \in TreesWithinLimits
      BY DEF TreeAccepted
    <3> QED BY <1>0, <1>2, <3>1 DEF RestoreSnapshot, RestoresTree, ShellInv
  <2>2. PICK vs \in Variables, e \in Variables, as \in ArrayMaps :
          vs = c.variables /\ e = c.env /\ as = c.arrays
    BY CandidatesAssumption, MapsAreMaps DEF Variables, ArrayMaps
  <2>3. /\ c.functions \in FunctionMaps /\ c.sourced \subseteq DOMAIN c.functions
        /\ c.readonly \in SUBSET Names /\ c.allexport \in BOOLEAN
    BY CandidatesAssumption, MapsAreMaps DEF FunctionMaps
  <2>4. FromSnapshot(Reparsed(c), c)
    BY <2>3, ReparsedFits
  <2>5. PICK fs \in FunctionMaps : fs = Reparsed(c)
    BY <2>4 DEF FromSnapshot
  <2>6. Cardinality(DOMAIN fs) <= MaxFunctionCount /\ Sum(fs) <= MaxFunctionBytes
    BY <2>4, <2>5 DEF FromSnapshot
  <2>7. PICK b : b = Recomputed(vs, as, fs)
    OBVIOUS
  <2>8. /\ b \in Budget
        /\ b.variable_count = Cardinality(DOMAIN vs) /\ b.variable_bytes = Bytes(vs)
        /\ b.array_entries = ElementCount(as)
        /\ b.function_count = Cardinality(DOMAIN fs) /\ b.function_body_bytes = Sum(fs)
    BY <2>7, RecomputedIs
  <2>9. shell.locals = <<>>
    BY <1>0, <2>1, NoLocalsOutside
  <2>10. shell' = [variables |-> vs, env |-> e, arrays |-> as, functions |-> fs,
                   readonly |-> c.readonly, allexport |-> c.allexport,
                   locals |-> shell.locals, budget |-> b]
    BY <2>1, <2>2, <2>5, <2>7 DEF Restored
  <2>11. PICK g : g = shell'
    OBVIOUS
  <2>12. /\ g.variables = vs /\ g.arrays = as /\ g.functions = fs /\ g.budget = b
         /\ g.locals = shell.locals
    BY <2>10, <2>11
  <2>13. g \in ShellType
    <3>1. shell.locals \in Locals
      BY <1>0, ShellIs
    <3> QED BY <2>3, <2>8, <2>10, <2>11, <3>1 DEF ShellType
  <2>14. /\ Cardinality(DOMAIN vs) \in Nat /\ Bytes(vs) \in Nat /\ ElementCount(as) \in Nat
         /\ Cardinality(DOMAIN fs) \in Nat /\ Sum(fs) \in Nat
    BY <2>8, BudgetIs
  <2>15. FunctionsKept(g)
    BY <2>6, <2>8, <2>12, <2>14 DEF FunctionsKept
  <2>16. /\ Cardinality(DOMAIN vs) <= MaxVariableCount /\ Bytes(vs) <= MaxVariableBytes
         /\ ElementCount(as) <= MaxArrayEntries
    <3>1. PICK y : y = Recomputed(vs, as, <<>>)
      OBVIOUS
    <3>2. /\ y.variable_count = Cardinality(DOMAIN vs) /\ y.variable_bytes = Bytes(vs)
          /\ y.array_entries = ElementCount(as)
      BY <3>1, NothingIs, RecomputedIs
    <3>3. /\ y.variable_count <= MaxVariableCount /\ y.variable_bytes <= MaxVariableBytes
          /\ y.array_entries <= MaxArrayEntries
      BY <1>2, <2>2, <3>1 DEF Validated
    <3> QED BY <3>2, <3>3
  <2>17. CountsKept(g)
    <3>1. LocalCount(g.locals) = 0 /\ LocalBytes(g.locals) = 0
      BY <2>9, <2>12, LocalsNone
    <3>2. StoredCount(g) = Cardinality(DOMAIN vs) /\ StoredBytes(g) = Bytes(vs)
      BY <2>12, <2>14, <3>1 DEF StoredCount, StoredBytes
    <3>3. /\ g.budget.variable_count >= StoredCount(g)
          /\ g.budget.variable_bytes >= StoredBytes(g)
          /\ g.budget.array_entries >= ElementCount(g.arrays)
      <4>1. /\ g.budget.variable_count = Cardinality(DOMAIN vs)
            /\ g.budget.variable_bytes = Bytes(vs)
            /\ g.budget.array_entries = ElementCount(as) /\ g.arrays = as
        BY <2>8, <2>12
      <4>2. \A x \in Nat : x >= x
        OBVIOUS
      <4> QED BY <2>14, <3>2, <4>1, <4>2, Zenon
    <3>4. /\ StoredCount(g) <= MaxVariableCount /\ Bytes(g.variables) <= MaxVariableBytes
          /\ ElementCount(g.arrays) <= MaxArrayEntries
      BY <2>12, <2>16, <3>2
    <3> QED BY <3>3, <3>4 DEF CountsKept
  <2>18. FunctionsKept(shell)' <=> FunctionsKept(shell')
    BY DEF FunctionsKept
  <2>19. CountsKept(shell)' <=> CountsKept(shell')
    BY DEF CountsKept, StoredCount, StoredBytes
  <2>20. ShellInv'
    BY <1>0, <2>1, <2>11, <2>13, <2>15, <2>17, <2>18, <2>19 DEF ShellInv
  <2>21. NestInv'
    <3>1. Len(shell'.locals) = Len(shell.locals)
      BY <2>11, <2>12
    <3> QED BY <1>0, <2>1, <3>1 DEF NestInv
  <2> QED BY <2>20, <2>21 DEF Inv
<1> QED BY <1>1, <1>2

LEMMA NextKeeps == Inv /\ [Next]_vars => Inv'
<1> SUFFICES ASSUME Inv, [Next]_vars PROVE Inv'
  OBVIOUS
<1>0. ShellInv /\ NestInv /\ shell \in ShellType
  BY DEF Inv, ShellInv
<1>1. CASE Scalars
  BY <1>1, ScalarsKeep
<1>2. CASE ArrayCommands
  BY <1>2, ArrayCommandsKeep
<1>3. CASE FunctionCommands
  BY <1>3, FunctionCommandsKeep
<1>4. CASE Nesting
  BY <1>4, ChildrenBegin, ReturnKeeps DEF Nesting
<1>5. CASE Allexport
  <2>1. PICK ro \in SUBSET Names : ro = shell.readonly
    BY <1>0, ShellIs
  <2>2. PICK ae \in BOOLEAN : ae = ~shell.allexport
    OBVIOUS
  <2>3. shell' = [shell EXCEPT !.readonly = ro, !.allexport = ae]
    BY <1>0, <1>5, <2>1, <2>2 DEF Allexport, Counted, Leads, ShellType
  <2>4. Keeps(shell, shell')
    BY <1>0, <2>3, AttributesKeep
  <2> QED BY <1>0, <1>5, <2>4, CountedStep DEF Allexport, Counted, Leads, Inv
<1>6. ASSUME NEW t \in TreesWithinLimits, WriteTree(t) PROVE Inv'
  <2>1. shell' = shell /\ nest' = nest /\ drifted' = drifted /\ vfs' \in TreesWithinLimits
    BY <1>6 DEF WriteTree
  <2>2. ShellInv'
    BY <1>0, <2>1 DEF ShellInv, FunctionsKept, CountsKept, StoredCount, StoredBytes
  <2>3. NestInv'
    BY <1>0, <2>1 DEF NestInv
  <2> QED BY <2>2, <2>3 DEF Inv
<1>7. ASSUME NEW c \in Candidates, RestoreSnapshot(c) PROVE Inv'
  BY <1>7, RestoreKeeps
<1>8. CASE UNCHANGED vars
  <2>1. shell' = shell /\ nest' = nest /\ drifted' = drifted /\ vfs' = vfs
    BY <1>8 DEF vars
  <2> QED BY <1>0, <2>1, CountedStep, KeepsItself DEF Inv
<1> QED BY <1>1, <1>2, <1>3, <1>4, <1>5, <1>6, <1>7, <1>8 DEF Next

LEMMA Invariant == Spec => []Inv
BY InitKeeps, NextKeeps, PTL DEF Spec

----------------------------------------------------------------------------
(***************************************************************************)
(* Theorems.                                                               *)
(***************************************************************************)
LEMMA TypesAreShells ==
  ASSUME NEW sh \in ShellType
  PROVE  IsShell(sh)
<1>1. /\ Maps(sh.variables, Names, Nat) /\ Maps(sh.env, Names, Nat)
  BY ShellIs, MapsAreMaps DEF Variables
<1>2. Maps(sh.arrays, Arrays, Elements)
  BY ShellIs, MapsAreMaps DEF ArrayMaps
<1>3. Maps(sh.functions, FunctionSet, Nat)
  BY ShellIs, MapsAreMaps DEF FunctionMaps
<1>4. \A i \in DOMAIN sh.locals : Maps(sh.locals[i], Names, Nat)
  BY ShellIs, LocalsAre, MapsAreMaps DEF Variables
<1>5. sh.readonly \subseteq Names /\ sh.allexport \in BOOLEAN /\ sh.budget \in Budget
  BY ShellIs
<1> QED BY <1>1, <1>2, <1>3, <1>4, <1>5 DEF IsShell

(* The maps stay finite maps over the names and the counts stay natural    *)
(* numbers, for every nest of calls, prefixes and children.                *)
THEOREM TypeTheorem == Spec => []TypeOK
<1>1. ASSUME Inv PROVE TypeOK
  <2>1. ShellInv /\ NestInv /\ nest \in Seq(Frames)
    BY <1>1 DEF Inv, NestInv
  <2>2. IsShell(shell) /\ vfs \in Trees /\ drifted \in BOOLEAN
    BY <2>1, TypesAreShells, TreesAssumption DEF ShellInv
  <2>3. \A i \in DOMAIN nest : nest[i] \in Frames
    BY <2>1
  <2>4. \A i \in DOMAIN nest : /\ nest[i].kind \in Kinds
                               /\ nest[i].kind \in Children => IsShell(nest[i].saved)
    BY <2>3, FrameIs, TypesAreShells
  <2> QED BY <2>2, <2>4 DEF TypeOK
<1> QED BY <1>1, Invariant, PTL

(* The budget covers what the session stores, and the session keeps the    *)
(* limits, for all names, sizes and limits, any nest and any snapshots.    *)
THEOREM BudgetTheorem == Spec => []BudgetGuardsState
<1>1. ASSUME Inv PROVE BudgetGuardsState
  <2>1. ShellInv
    BY <1>1 DEF Inv
  <2>2. CountsCoverState
    BY <2>1 DEF ShellInv, FunctionsKept, CountsKept, CountsCoverState
  <2>3. StateWithinLimits
    BY <2>1 DEF ShellInv, FunctionsKept, CountsKept, StateWithinLimits
  <2> QED BY <2>2, <2>3 DEF BudgetGuardsState
<1> QED BY <1>1, Invariant, PTL

(* What a session holds between two exec() calls it can restore.           *)
THEOREM OwnSnapshotTheorem == Spec => []OwnSnapshotFits
<1>1. ASSUME Inv PROVE OwnSnapshotFits
  <2> SUFFICES ASSUME nest = <<>>, ~drifted
               PROVE  /\ Validated(OwnSnapshot) /\ TreeAccepted(OwnSnapshot)
                      /\ Restored(OwnSnapshot, shell).functions = shell.functions
    BY DEF OwnSnapshotFits
  <2>0. ShellInv /\ shell \in ShellType /\ FunctionsKept(shell) /\ CountsKept(shell)
    BY <1>1 DEF Inv, ShellInv
  <2>1. PICK c : c = OwnSnapshot
    OBVIOUS
  <2>2. /\ c.variables = shell.variables /\ c.arrays = shell.arrays
        /\ c.functions = shell.functions /\ c.sourced = DOMAIN shell.functions
        /\ c.tree = vfs
    BY <2>1 DEF OwnSnapshot
  <2>3. Validated(c)
    <3>1. PICK vs \in Variables, as \in ArrayMaps : vs = c.variables /\ as = c.arrays
      BY <2>0, <2>2, ShellIs
    <3>2. PICK b : b = Recomputed(vs, as, <<>>)
      OBVIOUS
    <3>3. /\ b.variable_count = Cardinality(DOMAIN vs) /\ b.variable_bytes = Bytes(vs)
          /\ b.array_entries = ElementCount(as)
      BY <3>2, NothingIs, RecomputedIs
    <3>4. /\ Cardinality(DOMAIN vs) \in Nat /\ LocalCount(shell.locals) \in Nat
          /\ MaxVariableCount \in Nat
      BY <2>0, <2>2, <3>1, StoredIs, SizesAssumption
    <3>5. /\ Cardinality(DOMAIN vs) + LocalCount(shell.locals) <= MaxVariableCount
          /\ Bytes(vs) <= MaxVariableBytes /\ ElementCount(as) <= MaxArrayEntries
      BY <2>0, <2>2, <3>1 DEF CountsKept, StoredCount
    <3>6. Cardinality(DOMAIN vs) <= MaxVariableCount
      BY <3>4, <3>5
    <3> QED BY <3>1, <3>2, <3>3, <3>5, <3>6 DEF Validated
  <2>4. TreeAccepted(c)
    BY <2>0, <2>2 DEF TreeAccepted, ShellInv
  <2>5. Reparsed(c) = c.functions
    <3>1. c.functions \in FunctionMaps
      BY <2>0, <2>2, ShellIs
    <3>2. /\ Cardinality(DOMAIN c.functions) <= MaxFunctionCount
          /\ Sum(c.functions) <= MaxFunctionBytes
      BY <2>0, <2>2 DEF FunctionsKept
    <3> QED BY <2>2, <3>1, <3>2, OwnReparsed
  <2>6. Restored(c, shell).functions = Reparsed(c)
    BY DEF Restored
  <2> QED BY <2>1, <2>2, <2>3, <2>4, <2>5, <2>6
<1> QED BY <1>1, Invariant, PTL

(* Whatever a child did, with whatever commands and children of its own,   *)
(* its return gives the parent back what the parent had.                   *)
THEOREM ChildrenTheorem == Spec => ChildrenLeaveNoTrace
<1> DEFINE Kept(child) ==
      /\ shell'.variables = child.saved.variables
      /\ shell'.arrays = child.saved.arrays
      /\ shell'.functions = child.saved.functions
      /\ shell'.readonly = child.saved.readonly
      /\ shell'.budget = child.saved.budget
      /\ child.kind \in {"subshell", "script"} \/ child.saved.locals = <<>>
           => shell'.locals = child.saved.locals
<1>1. ASSUME Inv, Return, Last(nest).kind \in Children
      PROVE  Kept(Last(nest))
  <2>1. ShellInv /\ NestInv
    BY <1>1 DEF Inv
  <2>2. PICK f : f = Last(nest)
    OBVIOUS
  <2>3. PICK g : g = shell'
    OBVIOUS
  <2>4. nest # <<>> /\ g = Returned(f, shell) /\ f.kind \in Children
    BY <1>1, <2>2, <2>3 DEF Return
  <2>5. /\ g \in ShellType /\ f.saved \in ShellType
        /\ g.variables = f.saved.variables /\ g.arrays = f.saved.arrays
        /\ g.functions = f.saved.functions /\ g.readonly = f.saved.readonly
        /\ g.budget = f.saved.budget
        /\ Len(g.locals) = Len(f.saved.locals)
        /\ f.kind \in {"subshell", "script"} => g.locals = f.saved.locals
    BY <2>1, <2>2, <2>4, ChildReturns
  <2>6. f.saved.locals = <<>> => g.locals = f.saved.locals
    <3>1. g.locals \in Locals
      BY <2>5, ShellIs
    <3> QED BY <2>5, <3>1, EmptySeq DEF Locals
  <2> QED BY <2>2, <2>3, <2>5, <2>6
<1>2. Inv /\ [Next]_vars => [Return /\ Last(nest).kind \in Children => Kept(Last(nest))]_vars
  BY <1>1
<1> HIDE DEF Kept
<1>3. Spec => [][Return /\ Last(nest).kind \in Children => Kept(Last(nest))]_vars
  BY <1>2, Invariant, PTL DEF Spec
<1> QED BY <1>3 DEF ChildrenLeaveNoTrace, Kept

(* A snapshot is restored as a whole or not at all.                        *)
THEOREM RestoreTheorem == Spec => RestoreIsAllOrNothing
<1> DEFINE AllOrNothing == \A c \in Candidates : RestoreSnapshot(c) =>
       \/ shell' = shell /\ vfs' = vfs
       \/ /\ shell'.variables = c.variables /\ shell'.env = c.env
          /\ shell'.arrays = c.arrays /\ shell'.readonly = c.readonly
          /\ \A f \in DOMAIN shell'.functions : shell'.functions[f] = c.functions[f]
          /\ c.tree # NoTree => vfs' = c.tree
<1>1. AllOrNothing
  <2> SUFFICES ASSUME NEW c \in Candidates, RestoreSnapshot(c)
               PROVE  \/ shell' = shell /\ vfs' = vfs
                      \/ /\ shell'.variables = c.variables /\ shell'.env = c.env
                         /\ shell'.arrays = c.arrays /\ shell'.readonly = c.readonly
                         /\ \A f \in DOMAIN shell'.functions :
                              shell'.functions[f] = c.functions[f]
                         /\ c.tree # NoTree => vfs' = c.tree
    OBVIOUS
  <2>1. CASE ~(Validated(c) /\ TreeAccepted(c))
    BY <2>1 DEF RestoreSnapshot, RestoresTree
  <2>2. CASE Validated(c) /\ TreeAccepted(c)
    <3>1. shell' = Restored(c, shell) /\ (c.tree # NoTree => vfs' = c.tree)
      BY <2>2 DEF RestoreSnapshot, RestoresTree
    <3>2. /\ shell'.variables = c.variables /\ shell'.env = c.env
          /\ shell'.arrays = c.arrays /\ shell'.readonly = c.readonly
          /\ shell'.functions = Reparsed(c)
      BY <3>1 DEF Restored
    <3>3. c.functions \in FunctionMaps /\ c.sourced \subseteq DOMAIN c.functions
      BY CandidatesAssumption, MapsAreMaps DEF FunctionMaps
    <3>4. FromSnapshot(Reparsed(c), c)
      BY <3>3, ReparsedFits
    <3>5. \A f \in DOMAIN Reparsed(c) : Reparsed(c)[f] = c.functions[f]
      BY <3>4 DEF FromSnapshot
    <3> QED BY <3>1, <3>2, <3>5
  <2> QED BY <2>1, <2>2
<1>2. [][AllOrNothing]_vars
  <2>1. [AllOrNothing]_vars
    BY <1>1
  <2> QED BY <2>1, PTL
<1> QED BY <1>2 DEF RestoreIsAllOrNothing
=============================================================================
