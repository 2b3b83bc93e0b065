---------------------------- MODULE SessionProofs ----------------------------
(* Theorems about a session of the interpreter.  The first part is about   *)
(* ControlFlow: whatever script a call runs, the interpreter implements    *)
(* the shell of ShellMachine.  The second is about SharedSession, for any  *)
(* calls of any kinds, with and without AbortSignals, and whether the host *)
(* overlaps its calls or not.                                              *)
EXTENDS SharedSession, ControlFlow, SequenceTheorems, FiniteSetTheorems, TLAPS

----------------------------------------------------------------------------
(* How a script runs.                                                      *)

(* Sequences of whatever.                                                  *)
LEMMA InSeq ==
  ASSUME NEW S, NEW s \in Seq(S)
  PROVE  IsSequence(s)
<1>1. s \in [1 .. Len(s) -> S] /\ Len(s) \in Nat
  BY LenProperties
<1> DEFINE T == {s[k] : k \in DOMAIN s}
<1>2. s \in [1 .. Len(s) -> T]
  BY <1>1
<1>3. s \in Seq(T)
  BY <1>1, <1>2, SeqDef
<1> QED BY <1>3 DEF IsSequence

LEMMA TwoSequences ==
  ASSUME NEW a, IsSequence(a), NEW b, IsSequence(b)
  PROVE  \E S : a \in Seq(S) /\ b \in Seq(S)
<1> DEFINE A == {a[k] : k \in DOMAIN a}
           B == {b[k] : k \in DOMAIN b}
<1>1. a \in Seq(A) /\ b \in Seq(B)
  BY DEF IsSequence
<1> HIDE DEF A, B
<1>2. a \in Seq(A \union B) /\ b \in Seq(A \union B)
  <2>1. A \subseteq A \union B /\ B \subseteq A \union B
    OBVIOUS
  <2> QED BY <1>1, <2>1, SeqMonotonic
<1> QED BY <1>2

LEMMA Lengths ==
  ASSUME NEW s, IsSequence(s)
  PROVE  /\ Len(s) \in Nat /\ DOMAIN s = 1 .. Len(s)
         /\ s = <<>> <=> Len(s) = 0
<1>1. s \in Seq({s[k] : k \in DOMAIN s})
  BY DEF IsSequence
<1> DEFINE T == {s[k] : k \in DOMAIN s}
<1> HIDE DEF T
<1>2. s \in Seq(T)
  BY <1>1 DEF T
<1> QED BY <1>2, LenProperties, EmptySeq

LEMMA Nothing == IsSequence(<<>>) /\ Len(<<>>) = 0 /\ DOMAIN <<>> = {}
<1>1. <<>> \in Seq({})
  BY EmptySeq
<1>2. IsSequence(<<>>)
  BY <1>1, InSeq
<1>3. Len(<<>>) = 0
  BY EmptySeq
<1>4. DOMAIN <<>> = 1 .. Len(<<>>)
  BY <1>2, Lengths
<1>5. 1 .. 0 = {}
  OBVIOUS
<1> QED BY <1>2, <1>3, <1>4, <1>5

LEMMA OneItem ==
  ASSUME NEW x
  PROVE  /\ IsSequence(<<x>>) /\ Len(<<x>>) = 1 /\ <<x>>[1] = x /\ <<x>> # <<>>
         /\ DOMAIN <<x>> = {1}
<1>1. <<x>> \in Seq({x})
  OBVIOUS
<1>2. Len(<<x>>) = 1 /\ <<x>>[1] = x
  OBVIOUS
<1>3. 1 .. 1 = {1}
  OBVIOUS
<1> QED BY <1>1, <1>2, <1>3, InSeq, Lengths

LEMMA Joining ==
  ASSUME NEW a, IsSequence(a), NEW b, IsSequence(b)
  PROVE  /\ IsSequence(a \o b) /\ Len(a \o b) = Len(a) + Len(b)
         /\ DOMAIN (a \o b) = 1 .. Len(a) + Len(b)
         /\ \A k \in 1 .. Len(a) : (a \o b)[k] = a[k]
         /\ \A k \in 1 .. Len(b) : (a \o b)[Len(a) + k] = b[k]
<1>1. PICK S : a \in Seq(S) /\ b \in Seq(S)
  BY TwoSequences
<1>2. /\ a \o b \in Seq(S)
      /\ Len(a \o b) = Len(a) + Len(b)
      /\ \A i \in 1 .. Len(a) + Len(b) : (a \o b)[i] = IF i <= Len(a) THEN a[i] ELSE b[i - Len(a)]
  BY <1>1, ConcatProperties
<1>3. IsSequence(a \o b)
  BY <1>2, InSeq
<1>4. Len(a) \in Nat /\ Len(b) \in Nat
  BY Lengths
<1>5. \A k \in 1 .. Len(a) : (a \o b)[k] = a[k]
  BY <1>2, <1>4
<1>6. \A k \in 1 .. Len(b) : (a \o b)[Len(a) + k] = b[k]
  <2> TAKE k \in 1 .. Len(b)
  <2>1. Len(a) + k \in 1 .. Len(a) + Len(b) /\ ~(Len(a) + k <= Len(a)) /\ Len(a) + k - Len(a) = k
    BY <1>4
  <2> QED BY <2>1, <1>2
<1> QED BY <1>2, <1>3, <1>5, <1>6, Lengths

LEMMA NothingJoined ==
  ASSUME NEW s, IsSequence(s)
  PROVE  <<>> \o s = s /\ s \o <<>> = s
BY ConcatEmptySeq DEF IsSequence

LEMMA Regrouped ==
  ASSUME NEW a, IsSequence(a), NEW b, IsSequence(b), NEW c, IsSequence(c)
  PROVE  (a \o b) \o c = a \o (b \o c)
<1>1. PICK S : a \in Seq(S) /\ b \in Seq(S)
  BY TwoSequences
<1> DEFINE C == {c[k] : k \in DOMAIN c}
<1>2. c \in Seq(C)
  BY DEF IsSequence
<1> HIDE DEF C
<1>3. a \in Seq(S \union C) /\ b \in Seq(S \union C) /\ c \in Seq(S \union C)
  <2>1. S \subseteq S \union C /\ C \subseteq S \union C
    OBVIOUS
  <2> QED BY <1>1, <1>2, <2>1, SeqMonotonic
<1> QED BY <1>3, ConcatAssociative

LEMMA OpenedRegrouped ==
  ASSUME NEW a, IsSequence(a), NEW b, IsSequence(b), NEW c, IsSequence(c), NEW d, IsSequence(d)
  PROVE  \A opened, rest : opened = (a \o b) \o c /\ rest = b \o (c \o d) => opened \o d = a \o rest
<1>1. IsSequence(a \o b) /\ IsSequence(c \o d)
  BY Joining
<1>2. PICK ab : ab = a \o b
  OBVIOUS
<1>3. PICK cd : cd = c \o d
  OBVIOUS
<1>4. IsSequence(ab) /\ IsSequence(cd)
  BY <1>1, <1>2, <1>3
<1>5. (ab \o c) \o d = ab \o (c \o d)
  BY <1>4, Regrouped, SMTT(30)
<1>6. (a \o b) \o cd = a \o (b \o cd)
  BY <1>4, Regrouped, SMTT(30)
<1>7. ((a \o b) \o c) \o d = a \o (b \o (c \o d))
  BY <1>2, <1>3, <1>5, <1>6
<1> QED BY <1>7

LEMMA HeadFirst ==
  ASSUME NEW x, NEW s, IsSequence(s)
  PROVE  /\ IsSequence(<<x>> \o s) /\ <<x>> \o s # <<>>
         /\ Head(<<x>> \o s) = x /\ Tail(<<x>> \o s) = s
<1>1. IsSequence(<<x>>) /\ Len(<<x>>) = 1 /\ <<x>>[1] = x
  BY OneItem
<1>2. PICK S : <<x>> \in Seq(S) /\ s \in Seq(S)
  BY <1>1, TwoSequences
<1>3. /\ IsSequence(<<x>> \o s) /\ Len(<<x>> \o s) = 1 + Len(s)
      /\ (<<x>> \o s)[1] = x
      /\ \A k \in 1 .. Len(s) : (<<x>> \o s)[1 + k] = s[k]
  BY <1>1, Joining
<1>4. Len(s) \in Nat
  BY Lengths
<1>5. <<x>> \o s # <<>>
  BY <1>3, <1>4, Lengths
<1>6. Head(<<x>> \o s) = x
  BY <1>3, <1>5, <1>2, ConcatProperties
<1>7. PICK t : t = <<x>> \o s
  OBVIOUS
<1>8. t \in Seq(S)
  BY <1>7, <1>2, ConcatProperties
<1>9. /\ Tail(t) \in Seq(S) /\ Len(Tail(t)) = Len(t) - 1
      /\ \A i \in 1 .. Len(Tail(t)) : Tail(t)[i] = t[i + 1]
  BY <1>7, <1>8, <1>5, HeadTailProperties
<1>10. Len(Tail(t)) = Len(s)
  BY <1>9, <1>7, <1>3, <1>4
<1>11. \A i \in 1 .. Len(s) : Tail(t)[i] = s[i]
  BY <1>9, <1>10, <1>7, <1>3, <1>4
<1>12. Tail(t) = s
  BY <1>9, <1>10, <1>11, <1>2, SeqEqual
<1> QED BY <1>3, <1>5, <1>6, <1>7, <1>12

LEMMA Split ==
  ASSUME NEW s, IsSequence(s), s # <<>>
  PROVE  /\ s = <<Head(s)>> \o Tail(s) /\ IsSequence(Tail(s))
         /\ 1 \in DOMAIN s /\ Head(s) = s[1] /\ Len(Tail(s)) = Len(s) - 1 /\ Len(s) # 0
         /\ \A k \in DOMAIN Tail(s) : k + 1 \in DOMAIN s /\ Tail(s)[k] = s[k + 1]
<1> DEFINE S == {s[k] : k \in DOMAIN s}
<1>1. s \in Seq(S)
  BY DEF IsSequence
<1> HIDE DEF S
<1>2. /\ Head(s) \in S /\ Tail(s) \in Seq(S) /\ Len(Tail(s)) = Len(s) - 1
      /\ \A i \in 1 .. Len(Tail(s)) : Tail(s)[i] = s[i + 1]
  BY <1>1, HeadTailProperties
<1>3. IsSequence(Tail(s))
  BY <1>2, InSeq
<1>4. Len(s) \in Nat /\ DOMAIN s = 1 .. Len(s) /\ Len(s) # 0
  BY Lengths
<1>5. Head(s) = s[1]
  BY <1>1
<1>6. DOMAIN Tail(s) = 1 .. Len(Tail(s))
  BY <1>3, Lengths
<1>7. 1 \in DOMAIN s
  BY <1>4
<1>8. \A k \in DOMAIN Tail(s) : k + 1 \in DOMAIN s /\ Tail(s)[k] = s[k + 1]
  BY <1>2, <1>4, <1>6
<1>9. PICK h, t : h = Head(s) /\ t = Tail(s)
  OBVIOUS
<1>10. <<h>> \in Seq(S) /\ Len(<<h>>) = 1 /\ <<h>>[1] = h
  BY <1>9, <1>2
<1>11. /\ <<h>> \o t \in Seq(S) /\ Len(<<h>> \o t) = 1 + Len(t)
       /\ (<<h>> \o t)[1] = h
       /\ \A k \in 1 .. Len(t) : (<<h>> \o t)[1 + k] = t[k]
  BY <1>10, <1>9, <1>2, <1>3, ConcatProperties, OneItem, Joining
<1>12. Len(<<h>> \o t) = Len(s)
  BY <1>11, <1>9, <1>2, <1>4
<1>13. \A i \in 1 .. Len(s) : (<<h>> \o t)[i] = s[i]
  <2> TAKE i \in 1 .. Len(s)
  <2>1. CASE i = 1
    BY <2>1, <1>11, <1>9, <1>5
  <2>2. CASE i # 1
    <3>1. PICK j : j = i - 1
      OBVIOUS
    <3>2. j \in 1 .. Len(t) /\ i = 1 + j
      BY <2>2, <3>1, <1>9, <1>2, <1>4
    <3> QED BY <3>2, <1>11, <1>9, <1>2
  <2> QED BY <2>1, <2>2
<1>14. <<h>> \o t = s
  BY <1>1, <1>11, <1>12, <1>13, SeqEqual
<1> QED BY <1>2, <1>3, <1>4, <1>5, <1>7, <1>8, <1>9, <1>14

LEMMA Appending ==
  ASSUME NEW s, IsSequence(s), NEW x
  PROVE  Append(s, x) = s \o <<x>>
<1>1. PICK S : s \in Seq(S) /\ <<x>> \in Seq(S)
  BY TwoSequences, OneItem
<1> QED BY <1>1

(* What is on the stack of a shell.                                        *)
UpTo(kinds, s, k) == {j \in 1 .. k : s[j].kind \in kinds}

LEMMA FiniteUpTo ==
  ASSUME NEW kinds, NEW s, NEW k \in Nat
  PROVE  IsFiniteSet(UpTo(kinds, s, k)) /\ Cardinality(UpTo(kinds, s, k)) \in Nat
<1>1. IsFiniteSet(1 .. k)
  BY FS_Interval
<1>2. UpTo(kinds, s, k) \subseteq 1 .. k
  BY DEF UpTo
<1> QED BY <1>1, <1>2, FS_Subset, FS_CardinalityType

LEMMA Shifted ==
  ASSUME NEW T \in SUBSET Nat, IsFiniteSet(T), NEW m \in Nat
  PROVE  LET U == {m + j : j \in T} IN IsFiniteSet(U) /\ Cardinality(U) = Cardinality(T)
<1> DEFINE U == {m + j : j \in T}
           f == [j \in T |-> m + j]
<1>1. f \in Bijection(T, U)
  <2>1. f \in [T -> U]
    OBVIOUS
  <2>2. \A i, j \in T : f[i] = f[j] => i = j
    OBVIOUS
  <2>3. \A u \in U : \E j \in T : f[j] = u
    OBVIOUS
  <2> QED BY <2>1, <2>2, <2>3 DEF Bijection, Injection, Surjection, IsInjective
<1>2. ExistsBijection(T, U)
  BY <1>1 DEF ExistsBijection
<1> HIDE DEF U, f
<1>3. IsFiniteSet(U) /\ Cardinality(U) = Cardinality(T)
  BY <1>2, FS_Bijection
<1> QED BY <1>3 DEF U

LEMMA UpToJoined ==
  ASSUME NEW kinds, NEW a, IsSequence(a), NEW b, IsSequence(b), NEW k \in 0 .. Len(b)
  PROVE  Cardinality(UpTo(kinds, a \o b, Len(a) + k))
           = Cardinality(UpTo(kinds, a, Len(a))) + Cardinality(UpTo(kinds, b, k))
<1> DEFINE A == UpTo(kinds, a, Len(a))
           B == UpTo(kinds, b, k)
           C == {Len(a) + j : j \in B}
<1>1. Len(a) \in Nat /\ Len(b) \in Nat /\ k \in Nat
  BY Lengths
<1>2. PICK s : s = a \o b
  OBVIOUS
<1>3. /\ \A j \in 1 .. Len(a) : s[j] = a[j]
      /\ \A j \in 1 .. Len(b) : s[Len(a) + j] = b[j]
  BY <1>2, Joining
<1>4. UpTo(kinds, s, Len(a) + k) = A \union C
  <2>1. ASSUME NEW j \in 1 .. Len(a) + k, s[j].kind \in kinds
        PROVE  j \in A \union C
    <3>1. CASE j <= Len(a)
      <4>1. j \in 1 .. Len(a)
        BY <3>1, <1>1
      <4> QED BY <4>1, <1>3, <2>1 DEF UpTo
    <3>2. CASE ~(j <= Len(a))
      <4>1. PICK i : i = j - Len(a)
        OBVIOUS
      <4>2. i \in 1 .. k /\ i \in 1 .. Len(b) /\ j = Len(a) + i
        BY <3>2, <4>1, <1>1
      <4>3. b[i].kind \in kinds
        BY <4>2, <1>3, <2>1
      <4> QED BY <4>2, <4>3 DEF UpTo
    <3> QED BY <3>1, <3>2
  <2>2. ASSUME NEW j \in A
        PROVE  j \in 1 .. Len(a) + k /\ s[j].kind \in kinds
    BY <2>2, <1>1, <1>3 DEF UpTo
  <2>3. ASSUME NEW i \in B
        PROVE  Len(a) + i \in 1 .. Len(a) + k /\ s[Len(a) + i].kind \in kinds
    <3>1. i \in 1 .. k /\ b[i].kind \in kinds
      BY <2>3 DEF UpTo
    <3>2. i \in 1 .. Len(b) /\ Len(a) + i \in 1 .. Len(a) + k
      BY <3>1, <1>1
    <3> QED BY <3>1, <3>2, <1>3
  <2> HIDE DEF A, B
  <2>4. ASSUME NEW j \in C PROVE j \in 1 .. Len(a) + k /\ s[j].kind \in kinds
    BY <2>3, <2>4
  <2> HIDE DEF C
  <2>5. UpTo(kinds, s, Len(a) + k) \subseteq A \union C
    BY <2>1 DEF UpTo
  <2>6. A \union C \subseteq UpTo(kinds, s, Len(a) + k)
    BY <2>2, <2>4 DEF UpTo
  <2> QED BY <2>5, <2>6
<1>5. IsFiniteSet(A) /\ IsFiniteSet(B)
  BY <1>1, FiniteUpTo
<1>6. B \in SUBSET Nat
  BY DEF UpTo
<1>7. A \intersect C = {}
  BY <1>1 DEF UpTo
<1> HIDE DEF A, B
<1>8. IsFiniteSet(C) /\ Cardinality(C) = Cardinality(B)
  BY <1>1, <1>5, <1>6, Shifted
<1> HIDE DEF C
<1>9. Cardinality(A \union C) = Cardinality(A) + Cardinality(C) - Cardinality(A \intersect C)
  BY <1>5, <1>8, FS_Union
<1>10. Cardinality(A \intersect C) = 0
  BY <1>7, FS_EmptySet, Zenon
<1>11. Cardinality(A) \in Nat /\ Cardinality(B) \in Nat
  BY <1>5, FS_CardinalityType
<1>12. Cardinality(A \union C) = Cardinality(A) + Cardinality(B)
  BY <1>8, <1>9, <1>10, <1>11
<1> QED BY <1>12, <1>4, <1>2 DEF A, B

(* There is at most one n-th item of some kinds.                           *)
LEMMA OneNth ==
  ASSUME NEW kinds, NEW n \in Nat, NEW s, IsSequence(s), NEW k \in DOMAIN s, NEW m \in DOMAIN s,
         IsNth(kinds, n, s, k), IsNth(kinds, n, s, m)
  PROVE  k = m
<1>1. ASSUME NEW i \in DOMAIN s, NEW j \in DOMAIN s, i < j,
             IsNth(kinds, n, s, i), IsNth(kinds, n, s, j)
      PROVE  FALSE
  <2>1. i \in Nat /\ j \in Nat /\ i >= 1
    BY Lengths
  <2> DEFINE I == UpTo(kinds, s, i)
             J == UpTo(kinds, s, j)
  <2>2. Cardinality(I) = n /\ Cardinality(J) = n /\ s[j].kind \in kinds
    BY <1>1 DEF IsNth, UpTo
  <2>3. IsFiniteSet(I) /\ IsFiniteSet(J)
    BY <2>1, FiniteUpTo
  <2>4. I \subseteq J /\ j \in J /\ j \notin I
    BY <1>1, <2>1, <2>2 DEF UpTo
  <2> HIDE DEF I, J
  <2>5. I = J
    BY <2>2, <2>3, <2>4, FS_Subset
  <2> QED BY <2>4, <2>5
<1>2. k \in Nat /\ m \in Nat
  BY Lengths
<1> QED BY <1>1, <1>2

(* The n-th item is found below a prefix with fewer of them.               *)
LEMMA FromBelow ==
  ASSUME NEW kinds, NEW n \in Nat, NEW a, IsSequence(a), NEW b, IsSequence(b),
         NEW c, c = Cardinality(UpTo(kinds, a, Len(a))), c < n
  PROVE  From(kinds, n, a \o b) = From(kinds, n - c, b)
<1>1. PICK s : s = a \o b
  OBVIOUS
<1>2. /\ IsSequence(s) /\ Len(s) = Len(a) + Len(b) /\ DOMAIN s = 1 .. Len(a) + Len(b)
      /\ \A k \in 1 .. Len(a) : s[k] = a[k]
      /\ \A k \in 1 .. Len(b) : s[Len(a) + k] = b[k]
  BY <1>1, Joining
<1>3. Len(a) \in Nat /\ Len(b) \in Nat /\ DOMAIN b = 1 .. Len(b)
  BY Lengths
<1>4. c \in Nat
  BY <1>3, FiniteUpTo
<1>5. ASSUME NEW k \in 1 .. Len(a)
      PROVE  ~IsNth(kinds, n, s, k)
  <2>1. k \in Nat /\ \A j \in 1 .. k : s[j] = a[j]
    BY <1>2, <1>3
  <2>2. UpTo(kinds, s, k) \subseteq UpTo(kinds, a, Len(a))
    BY <2>1, <1>3 DEF UpTo
  <2>3. Cardinality(UpTo(kinds, s, k)) <= c
    BY <2>2, <1>3, FiniteUpTo, FS_Subset
  <2>4. Cardinality(UpTo(kinds, s, k)) \in Nat
    BY <2>1, FiniteUpTo
  <2>5. Cardinality(UpTo(kinds, s, k)) # n
    BY <2>3, <2>4, <1>4
  <2> QED BY <2>5 DEF IsNth, UpTo
<1>6. ASSUME NEW k \in 1 .. Len(b)
      PROVE  IsNth(kinds, n, s, Len(a) + k) <=> IsNth(kinds, n - c, b, k)
  <2>1. Cardinality(UpTo(kinds, s, Len(a) + k)) = c + Cardinality(UpTo(kinds, b, k))
    <3>1. k \in 0 .. Len(b)
      BY <1>3
    <3> QED BY <3>1, <1>1, UpToJoined
  <2>2. Cardinality(UpTo(kinds, b, k)) \in Nat
    BY FiniteUpTo
  <2>3. s[Len(a) + k] = b[k]
    BY <1>2
  <2>4. Cardinality(UpTo(kinds, s, Len(a) + k)) = n <=> Cardinality(UpTo(kinds, b, k)) = n - c
    BY <2>1, <2>2, <1>4
  <2> QED BY <2>3, <2>4 DEF IsNth, UpTo
<1>7. CASE \E k \in DOMAIN b : IsNth(kinds, n - c, b, k)
  <2>1. PICK k \in DOMAIN b : k = CHOOSE i \in DOMAIN b : IsNth(kinds, n - c, b, i)
    BY <1>7
  <2>2. IsNth(kinds, n - c, b, k)
    BY <2>1, <1>7
  <2>3. From(kinds, n - c, b) = SubSeq(b, k, Len(b))
    BY <1>7, <2>1 DEF From
  <2>4. k \in 1 .. Len(b) /\ Len(a) + k \in DOMAIN s
    BY <1>2, <1>3
  <2>5. IsNth(kinds, n, s, Len(a) + k)
    BY <2>2, <2>4, <1>6
  <2>6. PICK m \in DOMAIN s : m = CHOOSE i \in DOMAIN s : IsNth(kinds, n, s, i)
    BY <2>4, <2>5
  <2>7. IsNth(kinds, n, s, m)
    BY <2>4, <2>5, <2>6
  <2>8. m = Len(a) + k
    BY <2>4, <2>5, <2>7, <1>2, OneNth
  <2>9. From(kinds, n, s) = SubSeq(s, Len(a) + k, Len(s))
    BY <2>4, <2>5, <2>6, <2>8 DEF From
  <2>10. PICK S : a \in Seq(S) /\ b \in Seq(S)
    BY TwoSequences
  <2>11. /\ Len(a) + k \in Len(a) + 1 .. Len(a) + Len(b)
         /\ Len(a) + Len(b) \in Len(a) + 1 .. Len(a) + Len(b)
         /\ Len(a) + k - Len(a) = k /\ Len(a) + Len(b) - Len(a) = Len(b)
    BY <2>4, <1>3
  <2>12. SubSeq(a \o b, Len(a) + k, Len(a) + Len(b)) = SubSeq(b, k, Len(b))
    <3>1. PICK p, q : p = Len(a) + k /\ q = Len(a) + Len(b)
      OBVIOUS
    <3>2. p \in Len(a) + 1 .. Len(a) + Len(b) /\ q \in Len(a) + 1 .. Len(a) + Len(b)
      BY <3>1, <2>11
    <3>3. SubSeq(a \o b, p, q) = SubSeq(b, p - Len(a), q - Len(a))
      BY <3>2, <2>10, SubSeqOfConcat2
    <3>4. p - Len(a) = k /\ q - Len(a) = Len(b)
      BY <3>1, <2>11
    <3>5. SubSeq(a \o b, p, q) = SubSeq(b, k, Len(b))
      BY <3>3, <3>4, Zenon
    <3> QED BY <3>1, <3>5, Zenon
  <2> QED BY <2>3, <2>9, <2>12, <1>1, <1>2
<1>8. CASE ~\E k \in DOMAIN b : IsNth(kinds, n - c, b, k)
  <2>1. From(kinds, n - c, b) = <<>>
    BY <1>8 DEF From
  <2>2. ASSUME NEW k \in DOMAIN s, IsNth(kinds, n, s, k) PROVE FALSE
    <3>1. ~(k <= Len(a))
      BY <2>2, <1>2, <1>3, <1>5
    <3>2. PICK i : i = k - Len(a)
      OBVIOUS
    <3>3. i \in 1 .. Len(b) /\ k = Len(a) + i
      BY <3>1, <3>2, <1>2, <1>3
    <3> QED BY <3>3, <2>2, <1>6, <1>8, <1>3
  <2>3. From(kinds, n, s) = <<>>
    BY <2>2 DEF From
  <2> QED BY <2>1, <2>3, <1>1
<1> QED BY <1>7, <1>8

(* What is of other kinds is passed over.                                  *)
LEMMA FromSkips ==
  ASSUME NEW kinds, NEW n \in Nat \ {0}, NEW a, IsSequence(a), NEW b, IsSequence(b),
         \A k \in DOMAIN a : a[k].kind \notin kinds
  PROVE  From(kinds, n, a \o b) = From(kinds, n, b)
<1>1. DOMAIN a = 1 .. Len(a)
  BY Lengths
<1>2. UpTo(kinds, a, Len(a)) = {}
  BY <1>1 DEF UpTo
<1>3. Cardinality(UpTo(kinds, a, Len(a))) = 0
  BY <1>2, FS_EmptySet
<1>4. PICK c : c = Cardinality(UpTo(kinds, a, Len(a)))
  OBVIOUS
<1>5. From(kinds, n, a \o b) = From(kinds, n - c, b)
  BY <1>3, <1>4, FromBelow
<1> QED BY <1>3, <1>4, <1>5

LEMMA FromCounts ==
  ASSUME NEW kinds, NEW n \in Nat, n > 1, NEW x, x.kind \in kinds, NEW b, IsSequence(b)
  PROVE  From(kinds, n, <<x>> \o b) = From(kinds, n - 1, b)
<1>1. IsSequence(<<x>>) /\ Len(<<x>>) = 1 /\ <<x>>[1] = x
  BY OneItem
<1>2. UpTo(kinds, <<x>>, Len(<<x>>)) = {1}
  BY <1>1 DEF UpTo
<1>3. Cardinality({1}) = 1
  BY FS_Singleton
<1>4. PICK a : a = <<x>>
  OBVIOUS
<1>5. IsSequence(a) /\ 1 = Cardinality(UpTo(kinds, a, Len(a))) /\ 1 < n
  BY <1>1, <1>2, <1>3, <1>4
<1>6. From(kinds, n, a \o b) = From(kinds, n - 1, b)
  BY <1>5, FromBelow
<1> QED BY <1>4, <1>6

LEMMA FromHere ==
  ASSUME NEW kinds, NEW x, x.kind \in kinds, NEW b, IsSequence(b)
  PROVE  From(kinds, 1, <<x>> \o b) = <<x>> \o b
<1>1. PICK s : s = <<x>> \o b
  OBVIOUS
<1>2. IsSequence(<<x>>) /\ Len(<<x>>) = 1 /\ <<x>>[1] = x
  BY OneItem
<1>3. IsSequence(s) /\ s[1] = x /\ Len(s) = 1 + Len(b) /\ DOMAIN s = 1 .. 1 + Len(b)
  BY <1>1, <1>2, Joining
<1>4. Len(b) \in Nat
  BY Lengths
<1>5. UpTo(kinds, s, 1) = {1}
  BY <1>3 DEF UpTo
<1>6. Cardinality({1}) = 1
  BY FS_Singleton
<1>7. IsNth(kinds, 1, s, 1)
  BY <1>3, <1>5, <1>6 DEF IsNth, UpTo
<1>8. 1 \in DOMAIN s
  BY <1>3, <1>4
<1>9. PICK k \in DOMAIN s : k = CHOOSE i \in DOMAIN s : IsNth(kinds, 1, s, i)
  BY <1>7, <1>8
<1>10. IsNth(kinds, 1, s, k)
  BY <1>7, <1>8, <1>9
<1>11. k = 1
  BY <1>3, <1>7, <1>8, <1>10, OneNth
<1>12. From(kinds, 1, s) = SubSeq(s, 1, Len(s))
  BY <1>7, <1>8, <1>9, <1>11 DEF From
<1>13. SubSeq(s, 1, Len(s)) = s
  BY <1>3, SubSeqFull DEF IsSequence
<1> QED BY <1>1, <1>12, <1>13

LEMMA FromNothing ==
  ASSUME NEW kinds, NEW n
  PROVE  From(kinds, n, <<>>) = <<>>
BY Nothing DEF From

(* A status is tested where one of the two parts of a stack tests it.      *)
LEMMA TestedJoined ==
  ASSUME NEW a, IsSequence(a), NEW b, IsSequence(b)
  PROVE  Tested(a \o b) <=> Tested(a) \/ Tested(b)
<1>1. PICK s : s = a \o b
  OBVIOUS
<1>2. /\ DOMAIN s = 1 .. Len(a) + Len(b)
      /\ \A k \in 1 .. Len(a) : s[k] = a[k]
      /\ \A k \in 1 .. Len(b) : s[Len(a) + k] = b[k]
  BY <1>1, Joining
<1>3. /\ Len(a) \in Nat /\ Len(b) \in Nat
      /\ DOMAIN a = 1 .. Len(a) /\ DOMAIN b = 1 .. Len(b)
  BY Lengths
<1>4. ASSUME NEW k \in DOMAIN s, Tests(s[k])
      PROVE  Tested(a) \/ Tested(b)
  <2>1. CASE k <= Len(a)
    <3>1. k \in 1 .. Len(a)
      BY <2>1, <1>2, <1>3
    <3> QED BY <3>1, <1>2, <1>3, <1>4 DEF Tested
  <2>2. CASE ~(k <= Len(a))
    <3>1. PICK i : i = k - Len(a)
      OBVIOUS
    <3>2. i \in 1 .. Len(b) /\ k = Len(a) + i
      BY <2>2, <3>1, <1>2, <1>3
    <3> QED BY <3>2, <1>2, <1>3, <1>4 DEF Tested
  <2> QED BY <2>1, <2>2
<1>5. ASSUME NEW k \in DOMAIN a, Tests(a[k])
      PROVE  Tested(s)
  <2>1. k \in DOMAIN s /\ s[k] = a[k]
    BY <1>2, <1>3
  <2> QED BY <2>1, <1>5 DEF Tested
<1>6. ASSUME NEW k \in DOMAIN b, Tests(b[k])
      PROVE  Tested(s)
  <2>1. Len(a) + k \in DOMAIN s /\ s[Len(a) + k] = b[k]
    BY <1>2, <1>3
  <2> QED BY <2>1, <1>6 DEF Tested
<1>7. Tested(s) => Tested(a) \/ Tested(b)
  BY <1>4 DEF Tested
<1>8. Tested(a) \/ Tested(b) => Tested(s)
  BY <1>5, <1>6 DEF Tested
<1> QED BY <1>1, <1>7, <1>8

LEMMA NothingTested == ~Tested(<<>>)
BY Nothing DEF Tested

----------------------------------------------------------------------------
(* Scopes.                                                                 *)
Same(t, s) == t \in Scope /\ t.strict = s.strict

LEMMA ConditionScopeIs ==
  ASSUME NEW s \in Scope
  PROVE  /\ Same(ConditionScope(s), s)
         /\ ConditionScope(s).loops = 0
         /\ ~ConditionScope(s).returns /\ ~ConditionScope(s).exits
         /\ ConditionScope(s).tested = s.strict
BY DEF Same, Scope, ConditionScope, TestScope, NoFlows

LEMMA LoopScopeIs ==
  ASSUME NEW s \in Scope
  PROVE  /\ Same(LoopScope(s), s)
         /\ LoopScope(s).loops = s.loops + 1
         /\ LoopScope(s).returns = s.returns /\ LoopScope(s).exits = s.exits
         /\ LoopScope(s).tested = s.tested
         /\ LoopScope(s).fails = ~s.strict
         /\ LoopScope(s).codes = s.codes
         /\ LoopScope(s).excused = s.excused
<1>1. s.loops + 1 \in Nat
  BY DEF Scope
<1>2. PICK n \in Nat : n = s.loops + 1
  BY <1>1
<1>3. PICK b \in BOOLEAN : b = ~s.strict
  BY Zenon
<1>4. LoopScope(s) = [s EXCEPT !.loops = n, !.fails = b]
  BY <1>2, <1>3, Zenon DEF LoopScope
<1> QED BY <1>2, <1>3, <1>4 DEF Same, Scope

LEMMA CallScopeIs ==
  ASSUME NEW s \in Scope
  PROVE  /\ Same(CallScope(s), s)
         /\ CallScope(s).loops = 0
         /\ CallScope(s).returns /\ CallScope(s).exits = s.exits
         /\ CallScope(s).tested = s.tested
         /\ CallScope(s).fails = s.fails
         /\ CallScope(s).codes => s.codes /\ s.fails
         /\ CallScope(s).excused = ~s.strict
BY DEF Same, Scope, CallScope, Unexcused

LEMMA SubshellScopeIs ==
  ASSUME NEW s \in Scope
  PROVE  /\ Same(SubshellScope(s), s)
         /\ SubshellScope(s).loops = 0
         /\ SubshellScope(s).tested = s.tested
         /\ SubshellScope(s).fails = s.fails
         /\ SubshellScope(s).codes = s.fails
         /\ SubshellScope(s).excused = ~s.strict
BY DEF Same, Scope, SubshellScope, Unexcused

LEMMA SourceScopeIs ==
  ASSUME NEW s \in Scope
  PROVE  /\ Same(SourceScope(s), s)
         /\ SourceScope(s).loops = 0
         /\ ~SourceScope(s).returns /\ ~SourceScope(s).exits
         /\ SourceScope(s).tested = s.tested
         /\ SourceScope(s).fails = s.fails
         /\ SourceScope(s).excused = ~s.strict
BY DEF Same, Scope, SourceScope, Unexcused, NoFlows

LEMMA StageScopeIs ==
  ASSUME NEW s \in Scope
  PROVE  /\ Same(StageScope(s), s)
         /\ StageScope(s).loops = 0
         /\ StageScope(s).tested = s.tested
BY DEF Same, Scope, StageScope

LEMMA LastStageScopeIs ==
  ASSUME NEW s \in Scope
  PROVE  /\ Same(LastStageScope(s), s)
         /\ LastStageScope(s).loops = 0
         /\ ~LastStageScope(s).returns /\ ~LastStageScope(s).exits
         /\ LastStageScope(s).tested = s.tested
         /\ LastStageScope(s).fails = s.fails
         /\ LastStageScope(s).excused = ~s.strict
BY DEF Same, Scope, LastStageScope, Unexcused, NoFlows

LEMMA NegatedScopeIs ==
  ASSUME NEW s \in Scope
  PROVE  /\ Same(NegatedScope(s), s)
         /\ NegatedScope(s).loops = 0
         /\ NegatedScope(s).returns = s.returns /\ NegatedScope(s).exits = s.exits
         /\ NegatedScope(s).tested = s.strict
         /\ NegatedScope(s).codes = s.codes
BY DEF Same, Scope, NegatedScope, TestScope

LEMMA ArmScopeIs ==
  ASSUME NEW s \in Scope, NEW terminator
  PROVE  LET t == ArmScope(s, terminator) IN
         /\ Same(t, s)
         /\ t.loops = s.loops /\ t.returns = s.returns /\ t.exits = s.exits
         /\ t.tested = s.tested
         /\ s.strict /\ t.fails => s.fails /\ terminator = ";;"
         /\ t.codes = s.codes
         /\ t.excused = ~s.strict
BY DEF Same, Scope, ArmScope, Unexcused

LEMMA ListScopeIs ==
  ASSUME NEW s \in Scope, NEW op, NEW next
  PROVE  LET t == ListScope(s, op, next) IN
         /\ Same(t, s)
         /\ t.loops = s.loops /\ t.returns = s.returns /\ t.exits = s.exits
         /\ t.codes = s.codes
         /\ Conditional(next) => t.tested = s.strict /\ t.excused = s.excused
         /\ ~Conditional(next) =>
              /\ t.tested = s.tested
              /\ s.strict /\ t.fails => s.fails /\ ~Conditional(op)
              /\ Conditional(op) => t.excused
<1>1. CASE Conditional(next)
  BY <1>1 DEF Same, Scope, ListScope, TestScope
<1>2. CASE ~Conditional(next)
  BY <1>2 DEF Same, Scope, ListScope
<1> QED BY <1>1, <1>2

LEMMA LineScopeIs ==
  ASSUME NEW s \in Scope, NEW c
  PROVE  LET t == LineScope(s, c) IN
         /\ Same(t, s)
         /\ t.loops = s.loops /\ t.returns = s.returns /\ t.exits = s.exits
         /\ t.tested = s.tested
         /\ s.strict /\ t.fails => s.fails /\ ~Excused(c)
         /\ t.codes = s.codes
         /\ t.excused = s.excused
<1>1. CASE Excused(c)
  BY <1>1 DEF Same, Scope, LineScope
<1>2. CASE ~Excused(c)
  BY <1>2 DEF Same, Scope, LineScope
<1> QED BY <1>1, <1>2

LEMMA OutermostIs ==
  ASSUME NEW e \in BOOLEAN
  PROVE  /\ Outermost(e) \in Scope /\ Outermost(e).strict = e
         /\ ~Outermost(e).tested /\ Outermost(e).loops = 0 /\ ~Outermost(e).returns
BY DEF Outermost, Scope

----------------------------------------------------------------------------
(* Where commands stand.                                                   *)
CommandKinds == SimpleKinds \union CompoundKinds

LEMMA Stands ==
  ASSUME NEW c, NEW s, MayStand(c, s)
  PROVE  s \in Scope /\ Fits(c, s) /\ c.kind \in CommandKinds
<1>1. PICK p \in Legal : p = <<c, s>>
  BY DEF MayStand
<1>2. p[1] = c /\ p[2] = s
  BY <1>1
<1>3. p[2] \in Scope /\ Fits(p[1], p[2])
  BY LegalAssumption
<1>4. s \in Scope /\ Fits(c, s)
  BY <1>2, <1>3
<1> QED BY <1>4 DEF Fits, CommandKinds

LEMMA HeadStands ==
  ASSUME NEW cmds, NEW s, AllMayStand(cmds, s)
  PROVE  /\ IsSequence(cmds)
         /\ cmds # <<>> => MayStand(Head(cmds), s) /\ AllMayStand(Tail(cmds), s)
         /\ \A k \in DOMAIN cmds : cmds[k].kind \in CommandKinds
<1>1. IsSequence(cmds) /\ \A k \in DOMAIN cmds : MayStand(cmds[k], s)
  BY DEF AllMayStand
<1>2. \A k \in DOMAIN cmds : cmds[k].kind \in CommandKinds
  BY <1>1, Stands
<1>3. ASSUME cmds # <<>>
      PROVE  MayStand(Head(cmds), s) /\ AllMayStand(Tail(cmds), s)
  <2>1. /\ IsSequence(Tail(cmds)) /\ 1 \in DOMAIN cmds /\ Head(cmds) = cmds[1]
        /\ \A k \in DOMAIN Tail(cmds) : k + 1 \in DOMAIN cmds /\ Tail(cmds)[k] = cmds[k + 1]
    BY <1>1, <1>3, Split
  <2>2. \A k \in DOMAIN Tail(cmds) : MayStand(Tail(cmds)[k], s)
    BY <1>1, <2>1
  <2> QED BY <1>1, <2>1, <2>2 DEF AllMayStand
<1> QED BY <1>1, <1>2, <1>3

LEMMA FirstLineStands ==
  ASSUME NEW cmds, NEW s, LinesMayStand(cmds, s)
  PROVE  /\ IsSequence(cmds)
         /\ cmds # <<>> => /\ MayStand(Head(cmds), LineScope(s, Head(cmds)))
                          /\ LinesMayStand(Tail(cmds), s)
         /\ \A k \in DOMAIN cmds : cmds[k].kind \in CommandKinds
<1>1. IsSequence(cmds) /\ \A k \in DOMAIN cmds : MayStand(cmds[k], LineScope(s, cmds[k]))
  BY DEF LinesMayStand
<1>2. \A k \in DOMAIN cmds : cmds[k].kind \in CommandKinds
  BY <1>1, Stands
<1>3. ASSUME cmds # <<>>
      PROVE  MayStand(Head(cmds), LineScope(s, Head(cmds))) /\ LinesMayStand(Tail(cmds), s)
  <2>1. /\ IsSequence(Tail(cmds)) /\ 1 \in DOMAIN cmds /\ Head(cmds) = cmds[1]
        /\ \A k \in DOMAIN Tail(cmds) : k + 1 \in DOMAIN cmds /\ Tail(cmds)[k] = cmds[k + 1]
    BY <1>1, <1>3, Split
  <2>2. \A k \in DOMAIN Tail(cmds) : MayStand(Tail(cmds)[k], LineScope(s, Tail(cmds)[k]))
    BY <1>1, <2>1
  <2> QED BY <1>1, <2>1, <2>2 DEF LinesMayStand
<1> QED BY <1>1, <1>2, <1>3

LEMMA LeadingIs ==
  ASSUME NEW rest, IsSequence(rest)
  PROVE  /\ rest = <<>> => Leading(rest) = "end"
         /\ rest # <<>> => Leading(rest) = Head(rest).op
         /\ rest # <<>> => Leading(Tail(rest)) = NextOp(rest, 1)
<1>1. ASSUME rest # <<>>
      PROVE  Leading(rest) = Head(rest).op /\ Leading(Tail(rest)) = NextOp(rest, 1)
  <2>1. /\ Head(rest) = rest[1] /\ Len(Tail(rest)) = Len(rest) - 1 /\ Len(rest) # 0
        /\ \A k \in DOMAIN Tail(rest) : k + 1 \in DOMAIN rest /\ Tail(rest)[k] = rest[k + 1]
        /\ IsSequence(Tail(rest))
    BY <1>1, Split
  <2>2. Len(rest) \in Nat /\ Len(Tail(rest)) \in Nat /\ DOMAIN Tail(rest) = 1 .. Len(Tail(rest))
    BY <2>1, Lengths
  <2>3. 0 < Len(rest)
    BY <2>1, <2>2
  <2>4. CASE Len(rest) > 1
    <3>1. 1 \in DOMAIN Tail(rest) /\ 0 < Len(Tail(rest))
      BY <2>1, <2>2, <2>4
    <3>2. Tail(rest)[1] = rest[2]
      BY <3>1, <2>1
    <3> QED BY <3>1, <3>2, <2>1, <2>3, <2>4 DEF Leading, NextOp
  <2>5. CASE ~(Len(rest) > 1)
    <3>1. ~(0 < Len(Tail(rest))) /\ ~(1 < Len(rest))
      BY <2>1, <2>2, <2>5
    <3> QED BY <3>1, <2>1, <2>3 DEF Leading, NextOp
  <2> QED BY <2>4, <2>5
<1>2. ASSUME rest = <<>>
      PROVE  Leading(rest) = "end"
  BY <1>2, Nothing DEF Leading, NextOp
<1> QED BY <1>1, <1>2

LEMMA RestStands ==
  ASSUME NEW rest, NEW s, RestFits(rest, s)
  PROVE  /\ IsSequence(rest)
         /\ rest # <<>> =>
              /\ Head(rest).op \in {"&&", "||", ";"}
              /\ MayStand(Head(rest).cmd, ListScope(s, Head(rest).op, Leading(Tail(rest))))
              /\ RestFits(Tail(rest), s)
              /\ Tail(rest) = <<>> /\ Conditional(Head(rest).op) => s.excused
<1>1. /\ IsSequence(rest)
      /\ \A k \in DOMAIN rest :
           /\ rest[k].op \in {"&&", "||", ";"}
           /\ MayStand(rest[k].cmd, ListScope(s, rest[k].op, NextOp(rest, k)))
           /\ k = Len(rest) /\ Conditional(rest[k].op) => s.excused
  BY DEF RestFits
<1>2. ASSUME rest # <<>>
      PROVE  /\ Head(rest).op \in {"&&", "||", ";"}
             /\ MayStand(Head(rest).cmd, ListScope(s, Head(rest).op, Leading(Tail(rest))))
             /\ RestFits(Tail(rest), s)
             /\ Tail(rest) = <<>> /\ Conditional(Head(rest).op) => s.excused
  <2>1. /\ IsSequence(Tail(rest)) /\ 1 \in DOMAIN rest /\ Head(rest) = rest[1]
        /\ Len(Tail(rest)) = Len(rest) - 1
        /\ \A k \in DOMAIN Tail(rest) : k + 1 \in DOMAIN rest /\ Tail(rest)[k] = rest[k + 1]
    BY <1>1, <1>2, Split
  <2>2. /\ Len(rest) \in Nat /\ Len(Tail(rest)) \in Nat /\ DOMAIN Tail(rest) = 1 .. Len(Tail(rest))
        /\ Tail(rest) = <<>> <=> Len(Tail(rest)) = 0
    BY <1>1, <2>1, Lengths
  <2>3. Leading(Tail(rest)) = NextOp(rest, 1)
    BY <1>1, <1>2, LeadingIs
  <2>4. MayStand(Head(rest).cmd, ListScope(s, Head(rest).op, Leading(Tail(rest))))
    BY <1>1, <2>1, <2>3
  <2>5. Tail(rest) = <<>> => Len(rest) = 1
    BY <2>1, <2>2
  <2>6. Tail(rest) = <<>> /\ Conditional(Head(rest).op) => s.excused
    BY <1>1, <2>1, <2>5
  <2>7. ASSUME NEW k \in DOMAIN Tail(rest)
        PROVE  NextOp(Tail(rest), k) = NextOp(rest, k + 1)
    <3>1. k \in 1 .. Len(Tail(rest)) /\ (k < Len(Tail(rest)) <=> k + 1 < Len(rest))
      BY <2>1, <2>2
    <3>2. CASE k < Len(Tail(rest))
      <4>1. k + 1 \in DOMAIN Tail(rest)
        BY <3>2, <3>1, <2>2
      <4>2. Tail(rest)[k + 1] = rest[k + 1 + 1]
        BY <4>1, <2>1
      <4> QED BY <3>1, <3>2, <4>2 DEF NextOp
    <3>3. CASE ~(k < Len(Tail(rest)))
      BY <3>1, <3>3 DEF NextOp
    <3> QED BY <3>2, <3>3
  <2>8. ASSUME NEW k \in DOMAIN Tail(rest)
        PROVE  /\ Tail(rest)[k].op \in {"&&", "||", ";"}
               /\ MayStand(Tail(rest)[k].cmd, ListScope(s, Tail(rest)[k].op, NextOp(Tail(rest), k)))
               /\ k = Len(Tail(rest)) /\ Conditional(Tail(rest)[k].op) => s.excused
    <3>1. k + 1 \in DOMAIN rest /\ Tail(rest)[k] = rest[k + 1]
      BY <2>1
    <3>2. k = Len(Tail(rest)) => k + 1 = Len(rest)
      BY <2>1, <2>2
    <3>3. NextOp(Tail(rest), k) = NextOp(rest, k + 1)
      BY <2>7
    <3> QED BY <1>1, <3>1, <3>2, <3>3
  <2>9. RestFits(Tail(rest), s)
    BY <2>1, <2>8 DEF RestFits
  <2> QED BY <1>1, <2>1, <2>4, <2>6, <2>9
<1> QED BY <1>1, <1>2

LEMMA StagesStand ==
  ASSUME NEW stages, NEW s, StagesFit(stages, s)
  PROVE  /\ IsSequence(stages)
         /\ stages # <<>> =>
              /\ MayStand(Head(stages),
                          IF Tail(stages) = <<>> THEN LastStageScope(s) ELSE StageScope(s))
              /\ StagesFit(Tail(stages), s)
<1>1. /\ IsSequence(stages)
      /\ \A k \in DOMAIN stages :
           MayStand(stages[k], IF k < Len(stages) THEN StageScope(s) ELSE LastStageScope(s))
  BY DEF StagesFit
<1>2. ASSUME stages # <<>>
      PROVE  /\ MayStand(Head(stages),
                         IF Tail(stages) = <<>> THEN LastStageScope(s) ELSE StageScope(s))
             /\ StagesFit(Tail(stages), s)
  <2>1. /\ IsSequence(Tail(stages)) /\ 1 \in DOMAIN stages /\ Head(stages) = stages[1]
        /\ Len(Tail(stages)) = Len(stages) - 1
        /\ \A k \in DOMAIN Tail(stages) : k + 1 \in DOMAIN stages /\ Tail(stages)[k] = stages[k + 1]
    BY <1>1, <1>2, Split
  <2>2. /\ Len(stages) \in Nat /\ Len(Tail(stages)) \in Nat
        /\ DOMAIN Tail(stages) = 1 .. Len(Tail(stages))
        /\ Tail(stages) = <<>> <=> Len(Tail(stages)) = 0
    BY <1>1, <2>1, Lengths
  <2>3. Tail(stages) = <<>> <=> ~(1 < Len(stages))
    <3>1. PICK m, n : m = Len(stages) /\ n = Len(Tail(stages))
      OBVIOUS
    <3>2. m \in Nat /\ n \in Nat /\ n = m - 1
      BY <2>1, <2>2, <3>1
    <3>3. n = 0 <=> ~(1 < m)
      BY <3>2
    <3> QED BY <2>2, <3>1, <3>3
  <2>4. MayStand(stages[1], IF 1 < Len(stages) THEN StageScope(s) ELSE LastStageScope(s))
    BY <1>1, <2>1
  <2>5. ASSUME NEW k \in DOMAIN Tail(stages)
        PROVE  MayStand(Tail(stages)[k],
                        IF k < Len(Tail(stages)) THEN StageScope(s) ELSE LastStageScope(s))
    <3>1. k + 1 < Len(stages) <=> k < Len(Tail(stages))
      BY <2>1, <2>2
    <3>2. k + 1 \in DOMAIN stages /\ Tail(stages)[k] = stages[k + 1]
      BY <2>1
    <3>3. MayStand(stages[k + 1],
                   IF k + 1 < Len(stages) THEN StageScope(s) ELSE LastStageScope(s))
      BY <1>1, <3>2
    <3> QED BY <3>1, <3>2, <3>3
  <2>6. StagesFit(Tail(stages), s)
    BY <2>1, <2>5 DEF StagesFit
  <2> QED BY <2>1, <2>3, <2>4, <2>6
<1> QED BY <1>1, <1>2

LEMMA ArmsStand ==
  ASSUME NEW arms, NEW s, ArmsFit(arms, s)
  PROVE  /\ IsSequence(arms)
         /\ arms # <<>> =>
              /\ Head(arms).matches \in BOOLEAN /\ Head(arms).terminator \in {";;", ";&", ";;&"}
              /\ AllMayStand(Head(arms).body, ArmScope(s, Head(arms).terminator))
              /\ ArmsFit(Tail(arms), s)
<1>1. /\ IsSequence(arms)
      /\ \A k \in DOMAIN arms :
           /\ arms[k].matches \in BOOLEAN
           /\ arms[k].terminator \in {";;", ";&", ";;&"}
           /\ AllMayStand(arms[k].body, ArmScope(s, arms[k].terminator))
  BY DEF ArmsFit
<1>2. ASSUME arms # <<>>
      PROVE  /\ Head(arms).matches \in BOOLEAN /\ Head(arms).terminator \in {";;", ";&", ";;&"}
             /\ AllMayStand(Head(arms).body, ArmScope(s, Head(arms).terminator))
             /\ ArmsFit(Tail(arms), s)
  <2>1. /\ IsSequence(Tail(arms)) /\ 1 \in DOMAIN arms /\ Head(arms) = arms[1]
        /\ \A k \in DOMAIN Tail(arms) : k + 1 \in DOMAIN arms /\ Tail(arms)[k] = arms[k + 1]
    BY <1>1, <1>2, Split
  <2>2. ArmsFit(Tail(arms), s)
    BY <1>1, <2>1 DEF ArmsFit
  <2> QED BY <1>1, <2>1, <2>2
<1> QED BY <1>1, <1>2

LEMMA ClausesStand ==
  ASSUME NEW clauses, NEW s, ClausesFit(clauses, s)
  PROVE  /\ IsSequence(clauses) /\ clauses # <<>>
         /\ Head(clauses) = clauses[1]
         /\ AllMayStand(Head(clauses).cond, ConditionScope(s)) /\ AllMayStand(Head(clauses).body, s)
         /\ Len(clauses) # 1 =>
              /\ ClausesFit(Tail(clauses), s) /\ clauses[2] = Head(Tail(clauses))
              /\ AllMayStand(clauses[2].cond, ConditionScope(s))
<1>1. /\ IsSequence(clauses) /\ clauses # <<>>
      /\ \A k \in DOMAIN clauses :
           AllMayStand(clauses[k].cond, ConditionScope(s)) /\ AllMayStand(clauses[k].body, s)
  BY DEF ClausesFit
<1>2. /\ IsSequence(Tail(clauses)) /\ 1 \in DOMAIN clauses /\ Head(clauses) = clauses[1]
      /\ Len(Tail(clauses)) = Len(clauses) - 1 /\ Len(clauses) # 0
      /\ \A k \in DOMAIN Tail(clauses) :
           k + 1 \in DOMAIN clauses /\ Tail(clauses)[k] = clauses[k + 1]
  BY <1>1, Split
<1>3. ASSUME Len(clauses) # 1
      PROVE  /\ ClausesFit(Tail(clauses), s) /\ clauses[2] = Head(Tail(clauses))
             /\ AllMayStand(clauses[2].cond, ConditionScope(s))
  <2>1. Len(clauses) \in Nat /\ DOMAIN clauses = 1 .. Len(clauses)
    BY <1>1, Lengths
  <2>2. Len(Tail(clauses)) # 0
    BY <1>2, <1>3, <2>1
  <2>3. Tail(clauses) # <<>>
    BY <2>2, <1>2, Lengths
  <2>4. 1 \in DOMAIN Tail(clauses) /\ Head(Tail(clauses)) = Tail(clauses)[1]
    BY <2>3, <1>2, Split
  <2>5. Head(Tail(clauses)) = clauses[2] /\ 2 \in DOMAIN clauses
    BY <2>4, <1>2
  <2>6. ClausesFit(Tail(clauses), s)
    BY <1>1, <1>2, <2>3 DEF ClausesFit
  <2> QED BY <2>5, <2>6, <1>1
<1> QED BY <1>1, <1>2, <1>3

(* The condition of a loop, with the test at its end.                      *)
LEMMA ConditionStands ==
  ASSUME NEW lp, NEW s, NEW i, LoopFits(lp, s), lp.kind # "for"
  PROVE  AllMayStand(Condition(lp, i), ConditionScope(s)) /\ Condition(lp, i) # <<>>
<1> DEFINE d == Do(IF (i <= MaxRounds) = (lp.kind = "while") THEN 0 ELSE 1)
<1>1. /\ IsSequence(lp.cond) /\ \A k \in DOMAIN lp.cond : MayStand(lp.cond[k], ConditionScope(s))
      /\ MayStand(Do(0), ConditionScope(s)) /\ MayStand(Do(1), ConditionScope(s))
  BY DEF LoopFits, AllMayStand
<1>2. d = Do(0) \/ d = Do(1)
  OBVIOUS
<1>3. MayStand(d, ConditionScope(s))
  BY <1>1, <1>2
<1>4. Condition(lp, i) = lp.cond \o <<d>>
  BY <1>1, Appending DEF Condition
<1> HIDE DEF d
<1>5. IsSequence(<<d>>) /\ Len(<<d>>) = 1 /\ <<d>>[1] = d
  BY OneItem
<1>6. PICK cmds : cmds = lp.cond \o <<d>>
  OBVIOUS
<1>7. /\ IsSequence(cmds) /\ Len(cmds) = Len(lp.cond) + 1 /\ DOMAIN cmds = 1 .. Len(lp.cond) + 1
      /\ \A k \in 1 .. Len(lp.cond) : cmds[k] = lp.cond[k]
      /\ cmds[Len(lp.cond) + 1] = d
  BY <1>1, <1>5, <1>6, Joining
<1>8. Len(lp.cond) \in Nat /\ DOMAIN lp.cond = 1 .. Len(lp.cond)
  BY <1>1, Lengths
<1>9. ASSUME NEW k \in DOMAIN cmds
      PROVE  MayStand(cmds[k], ConditionScope(s))
  <2>1. CASE k = Len(lp.cond) + 1
    BY <2>1, <1>7, <1>3
  <2>2. CASE k # Len(lp.cond) + 1
    <3>1. k \in 1 .. Len(lp.cond)
      BY <2>2, <1>7, <1>8
    <3> QED BY <3>1, <1>1, <1>7, <1>8
  <2> QED BY <2>1, <2>2
<1>10. cmds # <<>>
  BY <1>7, <1>8, Lengths
<1> QED BY <1>4, <1>6, <1>7, <1>9, <1>10 DEF AllMayStand

(* Commands are passed over on the way to the end of a loop, a function or a shell, and   *)
(* test nothing.                                                                          *)
LEMMA CommandsAreBelow ==
  ASSUME NEW cmds, IsSequence(cmds), \A k \in DOMAIN cmds : cmds[k].kind \in CommandKinds
  PROVE  /\ \A k \in DOMAIN cmds : cmds[k].kind \notin {"round", "functionend", "shellend"}
         /\ ~Tested(cmds)
<1>1. \A k \in DOMAIN cmds :
        cmds[k].kind \notin {"round", "functionend", "shellend", "branch", "decide", "invert", "operator"}
  BY DEF CommandKinds, SimpleKinds, CompoundKinds, Flows, Loops
<1> QED BY <1>1 DEF Tested, Tests

----------------------------------------------------------------------------
(* The nest of open calls.                                                 *)

CallKinds ==
  {"script", "source", "sequence", "subshell", "call", "loop", "if", "case", "list", "stages", "not"}

LEMMA PendingForms ==
  ASSUME NEW call
  PROVE  /\ call.kind \in {"script", "source", "sequence"} => Pending(call) = call.rest
         /\ call.kind = "subshell" => Pending(call) = <<ShellEnd(<<>>)>>
         /\ call.kind = "call" => Pending(call) = <<FunctionEnd>>
         /\ call.kind = "loop" /\ call.stage = "body" => Pending(call) = <<Round(call.loop, call.i + 1)>>
         /\ call.kind = "loop" /\ call.stage # "body" =>
              Pending(call) = <<Decide(call.loop, call.i, call.acc.status)>>
         /\ call.kind = "if" /\ call.stage = "body" => Pending(call) = <<>>
         /\ call.kind = "if" /\ call.stage # "body" =>
              Pending(call) = <<Branch(call.clauses, call.otherwise)>>
         /\ call.kind = "case" /\ call.after = ";;" => Pending(call) = <<>>
         /\ call.kind = "case" /\ call.after # ";;" => Pending(call) = <<Arms(call.arms, call.after = ";&")>>
         /\ call.kind = "list" => Pending(call) = <<Operator(call.rest)>>
         /\ call.kind = "stages" => Pending(call) = <<ShellEnd(call.rest)>>
         /\ call.kind = "not" => Pending(call) = <<Invert>>
<1>1. CASE call.kind \in {"script", "source", "sequence"}
  BY <1>1 DEF Pending
<1>2. CASE call.kind = "subshell"
  BY <1>2 DEF Pending
<1>3. CASE call.kind = "call"
  BY <1>3 DEF Pending
<1>4. CASE call.kind = "loop"
  BY <1>4 DEF Pending
<1>5. CASE call.kind = "if"
  BY <1>5 DEF Pending
<1>6. CASE call.kind = "case"
  BY <1>6 DEF Pending
<1>7. CASE call.kind = "list"
  BY <1>7 DEF Pending
<1>8. CASE call.kind = "stages"
  BY <1>8 DEF Pending
<1>9. CASE call.kind = "not"
  BY <1>9 DEF Pending
<1> QED BY <1>1, <1>2, <1>3, <1>4, <1>5, <1>6, <1>7, <1>8, <1>9

LEMMA InsideForms ==
  ASSUME NEW call, NEW s
  PROVE  /\ call.kind = "script" => Inside(call, s) = LineScope(s, call.command)
         /\ call.kind = "source" => Inside(call, s) = LineScope(SourceScope(s), call.command)
         /\ call.kind = "sequence" => Inside(call, s) = s
         /\ call.kind = "subshell" => Inside(call, s) = SubshellScope(s)
         /\ call.kind = "call" => Inside(call, s) = CallScope(s)
         /\ call.kind = "loop" /\ call.stage = "body" => Inside(call, s) = LoopScope(s)
         /\ call.kind = "loop" /\ call.stage # "body" => Inside(call, s) = ConditionScope(s)
         /\ call.kind = "if" /\ call.stage = "body" => Inside(call, s) = s
         /\ call.kind = "if" /\ call.stage # "body" => Inside(call, s) = ConditionScope(s)
         /\ call.kind = "case" => Inside(call, s) = ArmScope(s, call.after)
         /\ call.kind = "list" => Inside(call, s) = ListScope(s, call.op, Leading(call.rest))
         /\ call.kind = "stages" =>
              Inside(call, s) = IF call.rest = <<>> THEN LastStageScope(s) ELSE StageScope(s)
         /\ call.kind = "not" => Inside(call, s) = NegatedScope(s)
<1>1. CASE call.kind = "script"
  BY <1>1 DEF Inside
<1>2. CASE call.kind = "source"
  BY <1>2 DEF Inside
<1>3. CASE call.kind = "sequence"
  BY <1>3 DEF Inside
<1>4. CASE call.kind = "subshell"
  BY <1>4 DEF Inside
<1>5. CASE call.kind = "call"
  BY <1>5 DEF Inside
<1>6. CASE call.kind = "loop"
  BY <1>6 DEF Inside
<1>7. CASE call.kind = "if"
  BY <1>7 DEF Inside
<1>8. CASE call.kind = "case"
  BY <1>8 DEF Inside
<1>9. CASE call.kind = "list"
  BY <1>9 DEF Inside
<1>10. CASE call.kind = "stages"
  BY <1>10 DEF Inside
<1>11. CASE call.kind = "not"
  BY <1>11 DEF Inside
<1> QED BY <1>1, <1>2, <1>3, <1>4, <1>5, <1>6, <1>7, <1>8, <1>9, <1>10, <1>11

LEMMA TestsForms ==
  /\ \A stages : ~Tests(ShellEnd(stages))
  /\ ~Tests(FunctionEnd)
  /\ \A lp, i : ~Tests(Round(lp, i))
  /\ \A lp, i, last : Tests(Decide(lp, i, last))
  /\ \A clauses, otherwise : Tests(Branch(clauses, otherwise))
  /\ \A arms, fall : ~Tests(Arms(arms, fall))
  /\ \A rest : Tests(Operator(rest)) <=> Conditional(Leading(rest))
  /\ Tests(Invert)
BY DEF Tests, ShellEnd, FunctionEnd, Round, Decide, Branch, Arms, Operator, Invert

LEMMA TestedOne ==
  ASSUME NEW x
  PROVE  IsSequence(<<x>>) /\ (Tested(<<x>>) <=> Tests(x))
BY OneItem DEF Tested

(* The scope inside a call knows what is tested as the stack does.         *)
LEMMA PendingFits ==
  ASSUME NEW call, NEW s \in Scope, CallFits(call, s)
  PROVE  /\ IsSequence(Pending(call)) /\ Same(Inside(call, s), s)
         /\ s.strict => (Tested(Pending(call)) \/ s.tested <=> Inside(call, s).tested)
<1>0. call.kind \in CallKinds
  BY DEF CallFits, CallKinds
<1>a. s.strict \in BOOLEAN /\ s.tested \in BOOLEAN
  BY DEF Scope
<1>1. CASE call.kind = "script"
  <2>1. LinesMayStand(call.rest, s)
    BY <1>1 DEF CallFits, LinesFit
  <2>2. IsSequence(call.rest) /\ ~Tested(call.rest)
    BY <2>1, FirstLineStands, CommandsAreBelow
  <2>3. Pending(call) = call.rest /\ Inside(call, s) = LineScope(s, call.command)
    BY <1>1, PendingForms, InsideForms
  <2> QED BY <2>2, <2>3, LineScopeIs
<1>2. CASE call.kind = "source"
  <2>1. LinesMayStand(call.rest, SourceScope(s))
    BY <1>2 DEF CallFits, LinesFit
  <2>2. IsSequence(call.rest) /\ ~Tested(call.rest)
    BY <2>1, FirstLineStands, CommandsAreBelow
  <2>3. Pending(call) = call.rest /\ Inside(call, s) = LineScope(SourceScope(s), call.command)
    BY <1>2, PendingForms, InsideForms
  <2>4. PICK t : t = SourceScope(s)
    OBVIOUS
  <2>5. Same(t, s) /\ t.tested = s.tested
    BY <2>4, SourceScopeIs
  <2>6. Same(LineScope(t, call.command), t) /\ LineScope(t, call.command).tested = t.tested
    BY <2>5, LineScopeIs DEF Same
  <2> QED BY <2>2, <2>3, <2>4, <2>5, <2>6 DEF Same
<1>3. CASE call.kind = "sequence"
  <2>1. AllMayStand(call.rest, s)
    BY <1>3 DEF CallFits
  <2>2. IsSequence(call.rest) /\ ~Tested(call.rest)
    BY <2>1, HeadStands, CommandsAreBelow
  <2>3. Pending(call) = call.rest /\ Inside(call, s) = s
    BY <1>3, PendingForms, InsideForms
  <2> QED BY <2>2, <2>3 DEF Same
<1>4. CASE call.kind = "subshell"
  <2>1. Pending(call) = <<ShellEnd(<<>>)>> /\ Inside(call, s) = SubshellScope(s)
    BY <1>4, PendingForms, InsideForms
  <2> QED BY <2>1, TestedOne, TestsForms, SubshellScopeIs
<1>5. CASE call.kind = "call"
  <2>1. Pending(call) = <<FunctionEnd>> /\ Inside(call, s) = CallScope(s)
    BY <1>5, PendingForms, InsideForms
  <2> QED BY <2>1, TestedOne, TestsForms, CallScopeIs
<1>6. CASE call.kind = "loop" /\ call.stage = "body"
  <2>1. Pending(call) = <<Round(call.loop, call.i + 1)>> /\ Inside(call, s) = LoopScope(s)
    BY <1>6, PendingForms, InsideForms
  <2> QED BY <2>1, TestedOne, TestsForms, LoopScopeIs
<1>7. CASE call.kind = "loop" /\ call.stage # "body"
  <2>1. Pending(call) = <<Decide(call.loop, call.i, call.acc.status)>> /\ Inside(call, s) = ConditionScope(s)
    BY <1>7, PendingForms, InsideForms
  <2> QED BY <2>1, TestedOne, TestsForms, ConditionScopeIs
<1>8. CASE call.kind = "if" /\ call.stage = "body"
  <2>1. Pending(call) = <<>> /\ Inside(call, s) = s
    BY <1>8, PendingForms, InsideForms
  <2> QED BY <2>1, Nothing, NothingTested DEF Same
<1>9. CASE call.kind = "if" /\ call.stage # "body"
  <2>1. Pending(call) = <<Branch(call.clauses, call.otherwise)>> /\ Inside(call, s) = ConditionScope(s)
    BY <1>9, PendingForms, InsideForms
  <2> QED BY <2>1, TestedOne, TestsForms, ConditionScopeIs
<1>10. CASE call.kind = "case"
  <2>1. Inside(call, s) = ArmScope(s, call.after)
    BY <1>10, InsideForms
  <2>2. Pending(call) = <<>> \/ Pending(call) = <<Arms(call.arms, call.after = ";&")>>
    BY <1>10, PendingForms
  <2>3. IsSequence(Pending(call)) /\ ~Tested(Pending(call))
    BY <2>2, TestedOne, TestsForms, Nothing, NothingTested
  <2>4. Same(ArmScope(s, call.after), s) /\ ArmScope(s, call.after).tested = s.tested
    BY ArmScopeIs
  <2> QED BY <2>1, <2>3, <2>4
<1>11. CASE call.kind = "list"
  <2>1. Pending(call) = <<Operator(call.rest)>> /\ Inside(call, s) = ListScope(s, call.op, Leading(call.rest))
    BY <1>11, PendingForms, InsideForms
  <2>2. Tested(Pending(call)) <=> Conditional(Leading(call.rest))
    BY <2>1, TestedOne, TestsForms
  <2> QED BY <2>1, <2>2, <1>a, TestedOne, ListScopeIs
<1>12. CASE call.kind = "stages"
  <2>1. Pending(call) = <<ShellEnd(call.rest)>> /\ Inside(call, s) \in {LastStageScope(s), StageScope(s)}
    BY <1>12, PendingForms, InsideForms
  <2> QED BY <2>1, TestedOne, TestsForms, StageScopeIs, LastStageScopeIs
<1>13. CASE call.kind = "not"
  <2>1. Pending(call) = <<Invert>> /\ Inside(call, s) = NegatedScope(s)
    BY <1>13, PendingForms, InsideForms
  <2> QED BY <2>1, TestedOne, TestsForms, NegatedScopeIs
<1> QED BY <1>0, <1>1, <1>2, <1>3, <1>4, <1>5, <1>6, <1>7, <1>8, <1>9, <1>10, <1>11, <1>12, <1>13
        DEF CallKinds

LEMMA ActivationInside ==
  ASSUME NEW e \in BOOLEAN, NEW f, ActivationFits(f, e)
  PROVE  LET stack == Pending(f.call) \o f.below
             s == Inside(f.call, f.scope)
         IN  IsSequence(stack) /\ s \in Scope /\ s.strict = e /\ (e => (Tested(stack) <=> s.tested))
<1>1. /\ f.scope \in Scope /\ f.scope.strict = e
      /\ IsSequence(f.below) /\ (e => (Tested(f.below) <=> f.scope.tested))
      /\ CallFits(f.call, f.scope)
  BY DEF ActivationFits
<1>2. PICK call, s, b : call = f.call /\ s = f.scope /\ b = f.below
  OBVIOUS
<1>3. /\ IsSequence(Pending(call)) /\ Same(Inside(call, s), s)
      /\ s.strict => (Tested(Pending(call)) \/ s.tested <=> Inside(call, s).tested)
  BY <1>1, <1>2, PendingFits
<1>4. IsSequence(Pending(call) \o b) /\ (Tested(Pending(call) \o b) <=> Tested(Pending(call)) \/ Tested(b))
  BY <1>1, <1>2, <1>3, Joining, TestedJoined
<1> QED BY <1>1, <1>2, <1>3, <1>4 DEF Same

LEMMA Inwards ==
  ASSUME NEW e \in BOOLEAN, NEW nest, NestFits(nest, e), nest # <<>>
  PROVE  /\ ActivationFits(Head(nest), e)
         /\ IsSequence(StackOf(nest)) /\ StackOf(nest) = Pending(Head(nest).call) \o Head(nest).below
         /\ ScopeIn(nest) \in Scope /\ ScopeIn(nest).strict = e
         /\ ScopeIn(nest) = Inside(Head(nest).call, Head(nest).scope)
         /\ e => (Tested(StackOf(nest)) <=> ScopeIn(nest).tested)
<1>1. IsSequence(nest) /\ \A k \in DOMAIN nest : ActivationFits(nest[k], e)
  BY DEF NestFits
<1>2. Head(nest) = nest[1] /\ 1 \in DOMAIN nest
  BY <1>1, Split
<1>3. ActivationFits(Head(nest), e)
  BY <1>1, <1>2
<1>4. PICK f : f = Head(nest)
  OBVIOUS
<1>5. ActivationFits(f, e)
  BY <1>3, <1>4
<1>6. StackOf(nest) = Pending(f.call) \o f.below /\ ScopeIn(nest) = Inside(f.call, f.scope)
  BY <1>4 DEF StackOf, ScopeIn
<1> QED BY <1>4, <1>5, <1>6, ActivationInside

LEMMA Outwards ==
  ASSUME NEW e \in BOOLEAN, NEW nest, NestFits(nest, e), nest # <<>>
  PROVE  /\ IsSequence(nest) /\ NestFits(Tail(nest), e)
         /\ Tail(nest) = <<>> => OutermostFits(Head(nest), e)
         /\ Tail(nest) # <<>> =>
              /\ Within(Head(nest), Head(Tail(nest)))
              /\ Head(nest).below = StackOf(Tail(nest)) /\ Head(nest).scope = ScopeIn(Tail(nest))
         /\ StackOf(Tail(nest)) = Head(nest).below
<1>1. /\ IsSequence(nest)
      /\ \A k \in DOMAIN nest :
           /\ ActivationFits(nest[k], e)
           /\ IF k = Len(nest) THEN OutermostFits(nest[k], e) ELSE Within(nest[k], nest[k + 1])
  BY DEF NestFits
<1>2. /\ IsSequence(Tail(nest)) /\ 1 \in DOMAIN nest /\ Head(nest) = nest[1]
      /\ Len(Tail(nest)) = Len(nest) - 1
      /\ \A k \in DOMAIN Tail(nest) : k + 1 \in DOMAIN nest /\ Tail(nest)[k] = nest[k + 1]
  BY <1>1, Split
<1>3. /\ Len(nest) \in Nat /\ Len(Tail(nest)) \in Nat /\ DOMAIN Tail(nest) = 1 .. Len(Tail(nest))
      /\ Tail(nest) = <<>> <=> Len(Tail(nest)) = 0
  BY <1>1, <1>2, Lengths
<1>4. ASSUME NEW k \in DOMAIN Tail(nest)
      PROVE  /\ ActivationFits(Tail(nest)[k], e)
             /\ IF k = Len(Tail(nest)) THEN OutermostFits(Tail(nest)[k], e)
                ELSE Within(Tail(nest)[k], Tail(nest)[k + 1])
  <2>1. k + 1 \in DOMAIN nest /\ Tail(nest)[k] = nest[k + 1] /\ (k + 1 = Len(nest) <=> k = Len(Tail(nest)))
    BY <1>2, <1>3
  <2>2. CASE k = Len(Tail(nest))
    BY <1>1, <2>1, <2>2
  <2>3. CASE k # Len(Tail(nest))
    <3>1. k + 1 \in DOMAIN Tail(nest)
      BY <1>3, <2>3
    <3>2. Tail(nest)[k + 1] = nest[k + 1 + 1]
      BY <3>1, <1>2
    <3> QED BY <3>2, <2>1, <2>3, <1>1
  <2> QED BY <2>2, <2>3
<1>5. NestFits(Tail(nest), e)
  BY <1>2, <1>4 DEF NestFits
<1>6. ASSUME Tail(nest) = <<>>
      PROVE  OutermostFits(Head(nest), e)
  <2>1. Len(nest) = 1
    BY <1>2, <1>3, <1>6
  <2> QED BY <2>1, <1>1, <1>2
<1>7. ASSUME Tail(nest) # <<>>
      PROVE  Within(Head(nest), Head(Tail(nest)))
  <2>1. Len(nest) # 1
    BY <1>2, <1>3, <1>7
  <2>2. Head(Tail(nest)) = Tail(nest)[1] /\ 1 \in DOMAIN Tail(nest)
    BY <1>2, <1>7, Split
  <2>3. Head(Tail(nest)) = nest[2]
    BY <2>2, <1>2
  <2> QED BY <2>1, <2>3, <1>1, <1>2
<1>8. Tail(nest) # <<>> => Head(nest).below = StackOf(Tail(nest)) /\ Head(nest).scope = ScopeIn(Tail(nest))
  BY <1>7 DEF Within, StackOf, ScopeIn
<1>9. Tail(nest) = <<>> => Head(nest).below = StackOf(Tail(nest))
  BY <1>6 DEF OutermostFits, StackOf
<1> QED BY <1>1, <1>5, <1>6, <1>7, <1>8, <1>9

LEMMA NestGrows ==
  ASSUME NEW e \in BOOLEAN, NEW nest, NestFits(nest, e), NEW f, ActivationFits(f, e),
         IF nest = <<>> THEN OutermostFits(f, e) ELSE Within(f, Head(nest))
  PROVE  NestFits(<<f>> \o nest, e)
<1>1. /\ IsSequence(nest)
      /\ \A k \in DOMAIN nest :
           /\ ActivationFits(nest[k], e)
           /\ IF k = Len(nest) THEN OutermostFits(nest[k], e) ELSE Within(nest[k], nest[k + 1])
  BY DEF NestFits
<1>2. IsSequence(<<f>>) /\ Len(<<f>>) = 1 /\ <<f>>[1] = f
  BY OneItem
<1>3. PICK n : n = <<f>> \o nest
  OBVIOUS
<1>4. /\ IsSequence(n) /\ Len(n) = 1 + Len(nest) /\ DOMAIN n = 1 .. 1 + Len(nest)
      /\ n[1] = f /\ \A k \in 1 .. Len(nest) : n[1 + k] = nest[k]
  BY <1>1, <1>2, <1>3, Joining
<1>5. Len(nest) \in Nat /\ DOMAIN nest = 1 .. Len(nest) /\ (nest = <<>> <=> Len(nest) = 0)
  BY <1>1, Lengths
<1>6. nest # <<>> => Head(nest) = nest[1]
  BY <1>1, Split
<1>7. ASSUME NEW k \in DOMAIN n
      PROVE  /\ ActivationFits(n[k], e)
             /\ IF k = Len(n) THEN OutermostFits(n[k], e) ELSE Within(n[k], n[k + 1])
  <2>1. CASE k = 1 /\ nest = <<>>
    BY <2>1, <1>4, <1>5
  <2>2. CASE k = 1 /\ nest # <<>>
    <3>1. 1 \in 1 .. Len(nest) /\ k # Len(n)
      BY <2>2, <1>4, <1>5
    <3>2. n[k + 1] = nest[1]
      BY <3>1, <2>2, <1>4
    <3> QED BY <3>1, <3>2, <2>2, <1>4, <1>6
  <2>3. CASE k # 1
    <3>1. PICK j : j = k - 1
      OBVIOUS
    <3>a. k \in 1 .. 1 + Len(nest) /\ Len(n) = 1 + Len(nest) /\ Len(nest) \in Nat
      BY <1>4, <1>5
    <3>2. j \in 1 .. Len(nest) /\ k = 1 + j /\ (k = Len(n) <=> j = Len(nest))
      BY <2>3, <3>1, <3>a
    <3>3. n[k] = nest[j]
      BY <3>2, <1>4
    <3>4. j # Len(nest) => n[k + 1] = nest[j + 1]
      <4>1. j # Len(nest) => j + 1 \in 1 .. Len(nest) /\ k + 1 = 1 + (j + 1)
        BY <3>1, <3>2, <3>a
      <4> QED BY <4>1, <1>4
    <3> QED BY <3>2, <3>3, <3>4, <1>1, <1>5
  <2> QED BY <2>1, <2>2, <2>3
<1> QED BY <1>3, <1>4, <1>7 DEF NestFits

(* A call is opened inside the others.                                     *)
LEMMA Opening ==
  ASSUME NEW e \in BOOLEAN, NEW nest, NestFits(nest, e), nest # <<>>,
         NEW call, CallFits(call, ScopeIn(nest)), call.kind # "script",
         call.kind = "sequence" /\ ~call.check =>
           Head(nest).call.kind \in {"loop", "if"} /\ Head(nest).call.stage = "condition"
  PROVE  LET inner == Opened(call, nest) IN
         /\ NestFits(inner, e) /\ inner # <<>>
         /\ Head(inner).call = call /\ Head(inner).below = StackOf(nest)
         /\ Head(inner).scope = ScopeIn(nest) /\ Tail(inner) = nest
         /\ StackOf(inner) = Pending(call) \o StackOf(nest)
         /\ ScopeIn(inner) = Inside(call, ScopeIn(nest))
<1>1. PICK f : f = Activation(call, StackOf(nest), ScopeIn(nest))
  OBVIOUS
<1>2. f.call = call /\ f.below = StackOf(nest) /\ f.scope = ScopeIn(nest) /\ f = Activation(f.call, f.below, f.scope)
  BY <1>1 DEF Activation
<1>3. /\ IsSequence(StackOf(nest)) /\ StackOf(nest) = Pending(Head(nest).call) \o Head(nest).below
      /\ ScopeIn(nest) \in Scope /\ ScopeIn(nest).strict = e
      /\ ScopeIn(nest) = Inside(Head(nest).call, Head(nest).scope)
      /\ e => (Tested(StackOf(nest)) <=> ScopeIn(nest).tested)
  BY Inwards
<1>4. ActivationFits(f, e)
  BY <1>2, <1>3 DEF ActivationFits
<1>5. Within(f, Head(nest))
  BY <1>2, <1>3 DEF Within
<1>6. NestFits(<<f>> \o nest, e)
  BY <1>4, <1>5, NestGrows
<1>7. IsSequence(nest)
  BY DEF NestFits
<1>8. <<f>> \o nest # <<>> /\ Head(<<f>> \o nest) = f /\ Tail(<<f>> \o nest) = nest
  BY <1>7, HeadFirst
<1>9. PICK inner : inner = <<f>> \o nest
  OBVIOUS
<1>10. Opened(call, nest) = inner
  BY <1>1, <1>9 DEF Opened
<1>11. StackOf(inner) = Pending(call) \o StackOf(nest) /\ ScopeIn(inner) = Inside(call, ScopeIn(nest))
  <2>1. StackOf(inner) = Pending(Head(inner).call) \o Head(inner).below
    BY <1>8, <1>9 DEF StackOf
  <2>2. ScopeIn(inner) = Inside(Head(inner).call, Head(inner).scope)
    BY DEF ScopeIn
  <2>3. Head(inner) = f
    BY <1>8, <1>9
  <2> QED BY <2>1, <2>2, <2>3, <1>2
<1> QED BY <1>2, <1>6, <1>8, <1>9, <1>10, <1>11

(* The innermost call goes on.                                             *)
KeptIn(nest, c) == <<[Head(nest) EXCEPT !.call = c]>> \o Tail(nest)

LEMMA Keeping ==
  ASSUME NEW e \in BOOLEAN, NEW nest, NestFits(nest, e), nest # <<>>,
         NEW call, CallFits(call, Head(nest).scope), call.kind = Head(nest).call.kind,
         call.kind = "sequence" => call.check = Head(nest).call.check
  PROVE  LET stay == KeptIn(nest, call) IN
         /\ NestFits(stay, e) /\ stay # <<>>
         /\ Head(stay).call = call /\ Head(stay).below = Head(nest).below
         /\ Head(stay).scope = Head(nest).scope /\ Tail(stay) = Tail(nest)
         /\ StackOf(stay) = Pending(call) \o Head(nest).below
         /\ ScopeIn(stay) = Inside(call, Head(nest).scope)
<1>1. PICK g : g = Head(nest)
  OBVIOUS
<1>2. ActivationFits(g, e) /\ g = Activation(g.call, g.below, g.scope)
  BY <1>1, Inwards DEF ActivationFits
<1>3. PICK f : f = Activation(call, g.below, g.scope)
  OBVIOUS
<1>4. f = [g EXCEPT !.call = call]
  BY <1>2, <1>3 DEF Activation
<1>5. f.call = call /\ f.below = g.below /\ f.scope = g.scope /\ f = Activation(f.call, f.below, f.scope)
  BY <1>3 DEF Activation
<1>6. ActivationFits(f, e)
  BY <1>1, <1>2, <1>5 DEF ActivationFits
<1>7. /\ IsSequence(nest) /\ NestFits(Tail(nest), e)
      /\ Tail(nest) = <<>> => OutermostFits(g, e)
      /\ Tail(nest) # <<>> => Within(g, Head(Tail(nest)))
  BY <1>1, Outwards
<1>8. Tail(nest) = <<>> => OutermostFits(f, e)
  BY <1>1, <1>5, <1>7 DEF OutermostFits
<1>9. Tail(nest) # <<>> => Within(f, Head(Tail(nest)))
  BY <1>1, <1>5, <1>7 DEF Within
<1>10. NestFits(<<f>> \o Tail(nest), e)
  BY <1>6, <1>7, <1>8, <1>9, NestGrows
<1>11. IsSequence(Tail(nest))
  BY <1>7 DEF NestFits
<1>12. PICK stay : stay = <<f>> \o Tail(nest)
  OBVIOUS
<1>13. stay # <<>> /\ Head(stay) = f /\ Tail(stay) = Tail(nest)
  BY <1>11, <1>12, HeadFirst
<1>14. KeptIn(nest, call) = stay
  BY <1>1, <1>4, <1>12 DEF KeptIn
<1>15. StackOf(stay) = Pending(call) \o g.below /\ ScopeIn(stay) = Inside(call, g.scope)
  BY <1>5, <1>13 DEF StackOf, ScopeIn
<1> QED BY <1>1, <1>5, <1>10, <1>12, <1>13, <1>14, <1>15

----------------------------------------------------------------------------
(* The steps of the shell.                                                 *)
InShell(ctl, nest) ==
  IF ctl.kind = "run" THEN <<ctl.command>> \o StackOf(nest) ELSE Reached(ctl, StackOf(nest))
StatusOf(ctl) ==
  IF ctl.kind = "run" THEN ctl.last
  ELSE IF ctl.flow.kind \in {"return", "exit"} THEN ctl.flow.n ELSE ctl.status
EndedIn(e, code, s) ==
  IF e /\ code # 0 /\ ~Tested(s) THEN From({"shellend"}, 1, s) ELSE s

LEMMA SameWords ==
  /\ \A kinds, n, s : Shell!From(kinds, n, s) = From(kinds, n, s)
  /\ \A kinds, n, s : Shell!Beyond(kinds, n, s) = Beyond(kinds, n, s)
  /\ \A s : Shell!Tested(s) <=> Tested(s)
  /\ \A stages : Shell!ShellEnd(stages) = ShellEnd(stages)
  /\ Shell!FunctionEnd = FunctionEnd /\ Shell!Invert = Invert /\ Shell!Mark = Mark
  /\ \A lp, i : Shell!Round(lp, i) = Round(lp, i)
  /\ \A lp, i, last : Shell!Decide(lp, i, last) = Decide(lp, i, last)
  /\ \A clauses, otherwise : Shell!Branch(clauses, otherwise) = Branch(clauses, otherwise)
  /\ \A arms, fall : Shell!Arms(arms, fall) = Arms(arms, fall)
  /\ \A rest : Shell!Operator(rest) = Operator(rest)
  /\ \A lp, i : Shell!Condition(lp, i) = Condition(lp, i)
  /\ Shell!CompoundKinds = CompoundKinds /\ Shell!Loops = Loops
<1>0. ASSUME NEW S
      PROVE  Shell!Cardinality(S) = Cardinality(S)
  BY Zenon DEF Shell!Cardinality, Cardinality
<1>1. ASSUME NEW kinds, NEW n, NEW s, NEW k
      PROVE  Shell!IsNth(kinds, n, s, k) <=> IsNth(kinds, n, s, k)
  BY <1>0, Zenon DEF Shell!IsNth, IsNth
<1>2. ASSUME NEW kinds, NEW n, NEW s
      PROVE  Shell!From(kinds, n, s) = From(kinds, n, s)
  BY <1>1, Zenon DEF Shell!From, From
<1>3. \A kinds, n, s : Shell!Beyond(kinds, n, s) = Beyond(kinds, n, s)
  BY <1>2 DEF Shell!Beyond, Beyond
<1>4. \A s : Shell!Tested(s) <=> Tested(s)
  BY DEF Shell!Tested, Tested, Shell!Tests, Tests, Shell!Conditional, Conditional, Shell!Leading, Leading,
         Shell!NextOp, NextOp
<1>5. /\ \A stages : Shell!ShellEnd(stages) = ShellEnd(stages)
      /\ Shell!FunctionEnd = FunctionEnd /\ Shell!Invert = Invert /\ Shell!Mark = Mark
      /\ \A lp, i : Shell!Round(lp, i) = Round(lp, i)
      /\ \A lp, i, last : Shell!Decide(lp, i, last) = Decide(lp, i, last)
      /\ \A clauses, otherwise : Shell!Branch(clauses, otherwise) = Branch(clauses, otherwise)
      /\ \A arms, fall : Shell!Arms(arms, fall) = Arms(arms, fall)
      /\ \A rest : Shell!Operator(rest) = Operator(rest)
  BY DEF Shell!ShellEnd, ShellEnd, Shell!FunctionEnd, FunctionEnd, Shell!Invert, Invert, Shell!Mark, Mark,
         Shell!Round, Round, Shell!Decide, Decide, Shell!Branch, Branch, Shell!Arms, Arms,
         Shell!Operator, Operator
<1>6. \A lp, i : Shell!Condition(lp, i) = Condition(lp, i)
  BY DEF Shell!Condition, Condition, Shell!Do, Do
<1>7. Shell!CompoundKinds = CompoundKinds /\ Shell!Loops = Loops
  BY DEF Shell!CompoundKinds, CompoundKinds, Shell!Loops, Loops
<1> QED BY <1>2, <1>3, <1>4, <1>5, <1>6, <1>7

(* A step that leaves the item x for t, over s.                            *)
Moves(x, s, t, code, out) ==
  /\ ShellStack = <<x>> \o s /\ ShellStack' = t /\ ShellStatus' = code
  /\ ran' = ran \o out /\ UNCHANGED errexit

LEMMA Moving ==
  ASSUME NEW x, NEW s, IsSequence(s), NEW t, NEW code, NEW out, Moves(x, s, t, code, out)
  PROVE  /\ Shell!Goes(t, code, out)
         /\ Shell!top = x /\ Shell!rest = s
         /\ \A kinds : x.kind \in kinds => Shell!At(kinds)
<1>1. ShellStack = <<x>> \o s
  BY DEF Moves
<1>2. Head(ShellStack) = x /\ Tail(ShellStack) = s /\ ShellStack # <<>>
  BY <1>1, HeadFirst
<1> QED BY <1>2 DEF Moves, Shell!Goes, Shell!top, Shell!rest, Shell!At

LEMMA ShellRunsDo ==
  ASSUME NEW x, NEW s, IsSequence(s), x.kind = "do",
         Moves(x, s, EndedIn(errexit, x.status, s), x.status, <<x>>)
  PROVE  Shell!Next
<1>1. PICK t : t = EndedIn(errexit, x.status, s)
  OBVIOUS
<1>2. Moves(x, s, t, x.status, <<x>>)
  BY <1>1
<1>3. Shell!Goes(t, x.status, <<x>>) /\ Shell!top = x /\ Shell!rest = s /\ Shell!At({"do"})
  BY <1>2, Moving
<1>4. Shell!Ended(x.status, s) = t
  BY <1>1, SameWords DEF Shell!Ended, EndedIn
<1> QED BY <1>3, <1>4 DEF Shell!Next, Shell!RunDo

LEMMA ShellRunsFlow ==
  ASSUME NEW x, NEW s, IsSequence(s),
         \/ x.kind = "break" /\ Moves(x, s, Beyond({"round"}, x.n, s), 0, <<x>>)
         \/ x.kind = "continue" /\ Moves(x, s, From({"round"}, x.n, s), 0, <<x>>)
         \/ x.kind = "return" /\ Moves(x, s, From({"functionend", "shellend"}, 1, s), x.n, <<x>>)
         \/ x.kind = "exit" /\ Moves(x, s, From({"shellend"}, 1, s), x.n, <<x>>)
  PROVE  Shell!Next
<1>1. CASE x.kind = "break" /\ Moves(x, s, Beyond({"round"}, x.n, s), 0, <<x>>)
  <2>1. PICK t : t = Beyond({"round"}, x.n, s)
    OBVIOUS
  <2>2. Shell!Goes(t, 0, <<x>>) /\ Shell!top = x /\ Shell!rest = s /\ Shell!At({"break"})
    BY <1>1, <2>1, Moving
  <2>3. Shell!Beyond({"round"}, x.n, s) = t
    BY <2>1, SameWords
  <2> QED BY <2>2, <2>3 DEF Shell!Next, Shell!RunBreak
<1>2. CASE x.kind = "continue" /\ Moves(x, s, From({"round"}, x.n, s), 0, <<x>>)
  <2>1. PICK t : t = From({"round"}, x.n, s)
    OBVIOUS
  <2>2. Shell!Goes(t, 0, <<x>>) /\ Shell!top = x /\ Shell!rest = s /\ Shell!At({"continue"})
    BY <1>2, <2>1, Moving
  <2>3. Shell!From({"round"}, x.n, s) = t
    BY <2>1, SameWords
  <2> QED BY <2>2, <2>3 DEF Shell!Next, Shell!RunContinue
<1>3. CASE x.kind = "return" /\ Moves(x, s, From({"functionend", "shellend"}, 1, s), x.n, <<x>>)
  <2>1. PICK t : t = From({"functionend", "shellend"}, 1, s)
    OBVIOUS
  <2>2. Shell!Goes(t, x.n, <<x>>) /\ Shell!top = x /\ Shell!rest = s /\ Shell!At({"return"})
    BY <1>3, <2>1, Moving
  <2>3. Shell!From({"functionend", "shellend"}, 1, s) = t
    BY <2>1, SameWords
  <2> QED BY <2>2, <2>3 DEF Shell!Next, Shell!RunReturn
<1>4. CASE x.kind = "exit" /\ Moves(x, s, From({"shellend"}, 1, s), x.n, <<x>>)
  <2>1. PICK t : t = From({"shellend"}, 1, s)
    OBVIOUS
  <2>2. Shell!Goes(t, x.n, <<x>>) /\ Shell!top = x /\ Shell!rest = s /\ Shell!At({"exit"})
    BY <1>4, <2>1, Moving
  <2>3. Shell!From({"shellend"}, 1, s) = t
    BY <2>1, SameWords
  <2> QED BY <2>2, <2>3 DEF Shell!Next, Shell!RunExit
<1> QED BY <1>1, <1>2, <1>3, <1>4

LEMMA OpenForms ==
  ASSUME NEW c
  PROVE  /\ c.kind \in {"group", "source"} => Shell!Open(c) = c.body
         /\ c.kind = "subshell" => Shell!Open(c) = Append(c.body, ShellEnd(<<>>))
         /\ c.kind = "call" => Shell!Open(c) = Append(c.body, FunctionEnd)
         /\ c.kind \in Loops => Shell!Open(c) = <<Round(c, 1)>>
         /\ c.kind = "if" => Shell!Open(c) = Append(c.clauses[1].cond, Branch(c.clauses, c.otherwise))
         /\ c.kind = "case" => Shell!Open(c) = <<Arms(c.arms, FALSE)>>
         /\ c.kind = "list" => Shell!Open(c) = <<c.first, Operator(c.rest)>>
         /\ c.kind = "pipeline" =>
              Shell!Open(c) =
                (IF Len(c.stages) = 1 THEN c.stages ELSE <<c.stages[1], ShellEnd(Tail(c.stages))>>)
                \o (IF c.negated THEN <<Invert>> ELSE <<>>)
<1>1. CASE c.kind \in {"group", "source"}
  BY <1>1, SameWords DEF Shell!Open, Loops
<1>2. CASE c.kind = "subshell"
  BY <1>2, SameWords DEF Shell!Open, Loops
<1>3. CASE c.kind = "call"
  BY <1>3, SameWords DEF Shell!Open, Loops
<1>4. CASE c.kind \in Loops
  BY <1>4, SameWords DEF Shell!Open, Loops
<1>5. CASE c.kind = "if"
  BY <1>5, SameWords DEF Shell!Open, Loops
<1>6. CASE c.kind = "case"
  BY <1>6, SameWords DEF Shell!Open, Loops
<1>7. CASE c.kind = "list"
  BY <1>7, SameWords DEF Shell!Open, Loops
<1>8. CASE c.kind = "pipeline"
  BY <1>8, SameWords DEF Shell!Open, Loops
<1> QED BY <1>1, <1>2, <1>3, <1>4, <1>5, <1>6, <1>7, <1>8 DEF Loops

LEMMA ShellOpens ==
  ASSUME NEW x, NEW s, IsSequence(s), x.kind \in CompoundKinds,
         Moves(x, s, Shell!Open(x) \o s, 0, <<>>)
  PROVE  Shell!Next
<1>1. PICK t : t = Shell!Open(x) \o s
  OBVIOUS
<1>2. Shell!Goes(t, 0, <<>>) /\ Shell!top = x /\ Shell!rest = s /\ Shell!At(CompoundKinds)
  BY <1>1, Moving
<1> QED BY <1>1, <1>2, SameWords DEF Shell!Next, Shell!OpenCompound

LEMMA ShellEndsFunction ==
  ASSUME NEW s, IsSequence(s),
         Moves(FunctionEnd, s, EndedIn(errexit, ShellStatus, s), ShellStatus, <<>>)
  PROVE  Shell!Next
<1>1. PICK v, t : v = ShellStatus /\ t = EndedIn(errexit, v, s)
  OBVIOUS
<1>2. Moves(FunctionEnd, s, t, v, <<>>)
  BY <1>1
<1>3. FunctionEnd.kind \in {"functionend"}
  BY DEF FunctionEnd
<1>4. Shell!Goes(t, v, <<>>) /\ Shell!rest = s /\ Shell!At({"functionend"})
  BY <1>2, <1>3, Moving
<1>5. Shell!Ended(v, s) = t
  BY <1>1, SameWords DEF Shell!Ended, EndedIn
<1> QED BY <1>1, <1>4, <1>5 DEF Shell!Next, Shell!EndFunction

LEMMA ShellEndsShell ==
  ASSUME NEW stages, NEW s, IsSequence(s),
         IF stages = <<>>
         THEN Moves(ShellEnd(stages), s, EndedIn(errexit, ShellStatus, s), ShellStatus, <<>>)
         ELSE Moves(ShellEnd(stages), s, <<Head(stages), ShellEnd(Tail(stages))>> \o s, ShellStatus, <<>>)
  PROVE  Shell!Next
<1>0. ShellEnd(stages).kind \in {"shellend"} /\ ShellEnd(stages).rest = stages
  BY DEF ShellEnd
<1>1. PICK v : v = ShellStatus
  OBVIOUS
<1>2. CASE stages = <<>>
  <2>1. PICK t : t = EndedIn(errexit, v, s)
    OBVIOUS
  <2>2. Moves(ShellEnd(stages), s, t, v, <<>>)
    BY <1>1, <1>2, <2>1
  <2>3. Shell!Goes(t, v, <<>>) /\ Shell!top = ShellEnd(stages) /\ Shell!rest = s /\ Shell!At({"shellend"})
    BY <2>2, <1>0, Moving
  <2>4. Shell!Ended(v, s) = t
    BY <2>1, SameWords DEF Shell!Ended, EndedIn
  <2> QED BY <1>0, <1>1, <1>2, <2>3, <2>4 DEF Shell!Next, Shell!EndShell
<1>3. CASE stages # <<>>
  <2>1. PICK t : t = <<Head(stages), ShellEnd(Tail(stages))>> \o s
    OBVIOUS
  <2>2. Moves(ShellEnd(stages), s, t, v, <<>>)
    BY <1>1, <1>3, <2>1
  <2>3. Shell!Goes(t, v, <<>>) /\ Shell!top = ShellEnd(stages) /\ Shell!rest = s /\ Shell!At({"shellend"})
    BY <2>2, <1>0, Moving
  <2>4. Shell!ShellEnd(Tail(stages)) = ShellEnd(Tail(stages))
    BY SameWords
  <2>5. <<Head(stages), Shell!ShellEnd(Tail(stages))>> \o s = t
    BY <2>1, <2>4
  <2> QED BY <1>0, <1>1, <1>3, <2>3, <2>5 DEF Shell!Next, Shell!EndShell
<1> QED BY <1>2, <1>3

LEMMA ShellInverts ==
  ASSUME NEW s, IsSequence(s), NEW v, v = ShellStatus,
         Moves(Invert, s, s, IF v = 0 THEN 1 ELSE 0, <<>>)
  PROVE  Shell!Next
<1>1. Invert.kind \in {"invert"}
  BY DEF Invert
<1>2. Shell!Goes(s, IF v = 0 THEN 1 ELSE 0, <<>>) /\ Shell!rest = s /\ Shell!At({"invert"})
  BY <1>1, Moving
<1> QED BY <1>2 DEF Shell!Next, Shell!InvertStatus

LEMMA ShellEntersRound ==
  ASSUME NEW lp, NEW i, NEW s, IsSequence(s), NEW v, v = ShellStatus,
         \/ /\ lp.kind # "for"
            /\ Moves(Round(lp, i), s, Condition(lp, i) \o <<Decide(lp, i, v)>> \o s, 0, <<>>)
         \/ /\ lp.kind = "for" /\ i <= MaxRounds
            /\ Moves(Round(lp, i), s, lp.body \o <<Round(lp, i + 1)>> \o s, 0, <<Mark>>)
         \/ /\ lp.kind = "for" /\ ~(i <= MaxRounds)
            /\ Moves(Round(lp, i), s, s, v, <<>>)
  PROVE  Shell!Next
<1> DEFINE x == Round(lp, i)
<1>0. x.kind \in {"round"} /\ x.loop = lp /\ x.i = i
  BY DEF Round
<1> HIDE DEF x
<1>1. CASE lp.kind # "for" /\ Moves(x, s, Condition(lp, i) \o <<Decide(lp, i, v)>> \o s, 0, <<>>)
  <2>1. PICK t : t = Condition(lp, i) \o <<Decide(lp, i, v)>> \o s
    OBVIOUS
  <2>2. Shell!Goes(t, 0, <<>>) /\ Shell!top = x /\ Shell!rest = s /\ Shell!At({"round"})
    BY <1>0, <1>1, <2>1, Moving
  <2>3. Shell!Condition(lp, i) \o <<Shell!Decide(lp, i, v)>> \o s = t
    BY <2>1, SameWords
  <2> QED BY <1>0, <1>1, <2>2, <2>3 DEF Shell!Next, Shell!NextRound
<1>2. CASE /\ lp.kind = "for" /\ i <= MaxRounds
           /\ Moves(x, s, lp.body \o <<Round(lp, i + 1)>> \o s, 0, <<Mark>>)
  <2>1. PICK t : t = lp.body \o <<Round(lp, i + 1)>> \o s
    OBVIOUS
  <2>2. Shell!Goes(t, 0, <<Mark>>) /\ Shell!top = x /\ Shell!rest = s /\ Shell!At({"round"})
    BY <1>0, <1>2, <2>1, Moving
  <2>3. lp.body \o <<Shell!Round(lp, i + 1)>> \o s = t
    BY <2>1, SameWords
  <2>4. Shell!EnterBody(lp, i)
    BY <2>2, <2>3, SameWords DEF Shell!EnterBody
  <2> QED BY <1>0, <1>2, <2>2, <2>4 DEF Shell!Next, Shell!NextRound
<1>3. CASE lp.kind = "for" /\ ~(i <= MaxRounds) /\ Moves(x, s, s, v, <<>>)
  <2>1. Shell!Goes(s, v, <<>>) /\ Shell!top = x /\ Shell!rest = s /\ Shell!At({"round"})
    BY <1>0, <1>3, Moving
  <2> QED BY <1>0, <1>3, <2>1 DEF Shell!Next, Shell!NextRound
<1> QED BY <1>1, <1>2, <1>3 DEF x

LEMMA ShellDecides ==
  ASSUME NEW lp, NEW i, NEW last, NEW s, IsSequence(s), NEW v, v = ShellStatus,
         \/ /\ v = 0 <=> lp.kind = "while"
            /\ Moves(Decide(lp, i, last), s, lp.body \o <<Round(lp, i + 1)>> \o s, 0, <<Mark>>)
         \/ /\ ~(v = 0 <=> lp.kind = "while")
            /\ Moves(Decide(lp, i, last), s, s, last, <<>>)
  PROVE  Shell!Next
<1> DEFINE x == Decide(lp, i, last)
<1>0. x.kind \in {"decide"} /\ x.loop = lp /\ x.i = i /\ x.last = last
  BY DEF Decide
<1> HIDE DEF x
<1>1. CASE v = 0 <=> lp.kind = "while"
  <2>1. PICK t : t = lp.body \o <<Round(lp, i + 1)>> \o s
    OBVIOUS
  <2>2. Shell!Goes(t, 0, <<Mark>>) /\ Shell!top = x /\ Shell!rest = s /\ Shell!At({"decide"})
    BY <1>0, <1>1, <2>1, Moving DEF x
  <2>3. lp.body \o <<Shell!Round(lp, i + 1)>> \o s = t
    BY <2>1, SameWords
  <2>4. Shell!EnterBody(lp, i)
    BY <2>2, <2>3, SameWords DEF Shell!EnterBody
  <2> QED BY <1>0, <1>1, <2>2, <2>4 DEF Shell!Next, Shell!DecideRound
<1>2. CASE ~(v = 0 <=> lp.kind = "while")
  <2>1. Shell!Goes(s, last, <<>>) /\ Shell!top = x /\ Shell!rest = s /\ Shell!At({"decide"})
    BY <1>0, <1>2, Moving DEF x
  <2> QED BY <1>0, <1>2, <2>1 DEF Shell!Next, Shell!DecideRound
<1> QED BY <1>1, <1>2

LEMMA ShellBranches ==
  ASSUME NEW clauses, NEW otherwise, NEW s, IsSequence(s), NEW v, v = ShellStatus,
         \/ v = 0 /\ Moves(Branch(clauses, otherwise), s, Head(clauses).body \o s, 0, <<>>)
         \/ /\ v # 0 /\ Len(clauses) = 1
            /\ Moves(Branch(clauses, otherwise), s, otherwise \o s, 0, <<>>)
         \/ /\ v # 0 /\ Len(clauses) # 1
            /\ Moves(Branch(clauses, otherwise), s,
                     clauses[2].cond \o <<Branch(Tail(clauses), otherwise)>> \o s, 0, <<>>)
  PROVE  Shell!Next
<1> DEFINE x == Branch(clauses, otherwise)
<1>0. x.kind \in {"branch"} /\ x.clauses = clauses /\ x.otherwise = otherwise
  BY DEF Branch
<1> HIDE DEF x
<1>1. CASE v = 0 /\ Moves(x, s, Head(clauses).body \o s, 0, <<>>)
  <2>1. PICK t : t = Head(clauses).body \o s
    OBVIOUS
  <2>2. Shell!Goes(t, 0, <<>>) /\ Shell!top = x /\ Shell!rest = s /\ Shell!At({"branch"})
    BY <1>0, <1>1, <2>1, Moving
  <2> QED BY <1>0, <1>1, <2>1, <2>2 DEF Shell!Next, Shell!TakeBranch
<1>2. CASE v # 0 /\ Len(clauses) = 1 /\ Moves(x, s, otherwise \o s, 0, <<>>)
  <2>1. PICK t : t = otherwise \o s
    OBVIOUS
  <2>2. Shell!Goes(t, 0, <<>>) /\ Shell!top = x /\ Shell!rest = s /\ Shell!At({"branch"})
    BY <1>0, <1>2, <2>1, Moving
  <2> QED BY <1>0, <1>2, <2>1, <2>2 DEF Shell!Next, Shell!TakeBranch
<1>3. CASE /\ v # 0 /\ Len(clauses) # 1
           /\ Moves(x, s, clauses[2].cond \o <<Branch(Tail(clauses), otherwise)>> \o s, 0, <<>>)
  <2>1. PICK t : t = clauses[2].cond \o <<Branch(Tail(clauses), otherwise)>> \o s
    OBVIOUS
  <2>2. Shell!Goes(t, 0, <<>>) /\ Shell!top = x /\ Shell!rest = s /\ Shell!At({"branch"})
    BY <1>0, <1>3, <2>1, Moving
  <2>3. clauses[2].cond \o <<Shell!Branch(Tail(clauses), otherwise)>> \o s = t
    BY <2>1, SameWords
  <2> QED BY <1>0, <1>3, <2>2, <2>3 DEF Shell!Next, Shell!TakeBranch
<1> QED BY <1>1, <1>2, <1>3 DEF x

FallsIn(arms, terminator) == IF terminator = ";;" THEN <<>> ELSE <<Arms(arms, terminator = ";&")>>

LEMMA ShellTakesArm ==
  ASSUME NEW arms, NEW fall, NEW s, IsSequence(s), NEW v, v = ShellStatus,
         \/ arms = <<>> /\ Moves(Arms(arms, fall), s, s, v, <<>>)
         \/ /\ arms # <<>> /\ (fall \/ Head(arms).matches)
            /\ Moves(Arms(arms, fall), s,
                     Head(arms).body \o FallsIn(Tail(arms), Head(arms).terminator) \o s, 0, <<>>)
         \/ /\ arms # <<>> /\ ~(fall \/ Head(arms).matches)
            /\ Moves(Arms(arms, fall), s, <<Arms(Tail(arms), FALSE)>> \o s, v, <<>>)
  PROVE  Shell!Next
<1> DEFINE x == Arms(arms, fall)
<1>0. x.kind \in {"arms"} /\ x.arms = arms /\ x.fall = fall
  BY DEF Arms
<1> HIDE DEF x
<1>1. CASE arms = <<>> /\ Moves(x, s, s, v, <<>>)
  <2>1. Shell!Goes(s, v, <<>>) /\ Shell!top = x /\ Shell!rest = s /\ Shell!At({"arms"})
    BY <1>0, <1>1, Moving
  <2> QED BY <1>0, <1>1, <2>1 DEF Shell!Next, Shell!TakeArm
<1>2. CASE /\ arms # <<>> /\ (fall \/ Head(arms).matches)
           /\ Moves(x, s, Head(arms).body \o FallsIn(Tail(arms), Head(arms).terminator) \o s, 0, <<>>)
  <2>1. PICK t : t = Head(arms).body \o FallsIn(Tail(arms), Head(arms).terminator) \o s
    OBVIOUS
  <2>2. Shell!Goes(t, 0, <<>>) /\ Shell!top = x /\ Shell!rest = s /\ Shell!At({"arms"})
    BY <1>0, <1>2, <2>1, Moving
  <2>3. PICK a, m : a = Tail(arms) /\ m = Head(arms).terminator
    OBVIOUS
  <2>4. Shell!Falls(a, m) = FallsIn(a, m)
    BY SameWords, Zenon DEF Shell!Falls, FallsIn
  <2>5. Head(arms).body \o Shell!Falls(Tail(arms), Head(arms).terminator) \o s = t
    BY <2>1, <2>3, <2>4
  <2> QED BY <1>0, <1>2, <2>2, <2>5 DEF Shell!Next, Shell!TakeArm
<1>3. CASE /\ arms # <<>> /\ ~(fall \/ Head(arms).matches)
           /\ Moves(x, s, <<Arms(Tail(arms), FALSE)>> \o s, v, <<>>)
  <2>1. PICK t : t = <<Arms(Tail(arms), FALSE)>> \o s
    OBVIOUS
  <2>2. Shell!Goes(t, v, <<>>) /\ Shell!top = x /\ Shell!rest = s /\ Shell!At({"arms"})
    BY <1>0, <1>3, <2>1, Moving
  <2>3. Shell!Arms(Tail(arms), FALSE) = Arms(Tail(arms), FALSE)
    BY SameWords, Zenon
  <2>4. <<Shell!Arms(Tail(arms), FALSE)>> \o s = t
    BY <2>1, <2>3, Zenon
  <2> QED BY <1>0, <1>3, <2>2, <2>4 DEF Shell!Next, Shell!TakeArm
<1> QED BY <1>1, <1>2, <1>3 DEF x

LEMMA ShellTakesOperator ==
  ASSUME NEW rest, NEW s, IsSequence(s), NEW v, v = ShellStatus,
         \/ rest = <<>> /\ Moves(Operator(rest), s, s, v, <<>>)
         \/ /\ rest # <<>> /\ (Head(rest).op = ";" \/ (Head(rest).op = "&&") = (v = 0))
            /\ Moves(Operator(rest), s, <<Head(rest).cmd>> \o (<<Operator(Tail(rest))>> \o s), v, <<>>)
         \/ /\ rest # <<>> /\ ~(Head(rest).op = ";" \/ (Head(rest).op = "&&") = (v = 0))
            /\ Moves(Operator(rest), s, <<Operator(Tail(rest))>> \o s, v, <<>>)
  PROVE  Shell!Next
<1> DEFINE x == Operator(rest)
<1>0. x.kind \in {"operator"} /\ x.rest = rest
  BY DEF Operator
<1> HIDE DEF x
<1>a. Shell!Operator(Tail(rest)) = Operator(Tail(rest))
  BY SameWords
<1>1. CASE rest = <<>> /\ Moves(x, s, s, v, <<>>)
  <2>1. Shell!Goes(s, v, <<>>) /\ Shell!top = x /\ Shell!rest = s /\ Shell!At({"operator"})
    BY <1>0, <1>1, Moving
  <2> QED BY <1>0, <1>1, <2>1 DEF Shell!Next, Shell!TakeOperator
<1>2. CASE /\ rest # <<>> /\ (Head(rest).op = ";" \/ (Head(rest).op = "&&") = (v = 0))
           /\ Moves(x, s, <<Head(rest).cmd>> \o (<<Operator(Tail(rest))>> \o s), v, <<>>)
  <2>1. PICK t : t = <<Head(rest).cmd>> \o (<<Operator(Tail(rest))>> \o s)
    OBVIOUS
  <2>2. Shell!Goes(t, v, <<>>) /\ Shell!top = x /\ Shell!rest = s /\ Shell!At({"operator"})
    BY <1>0, <1>2, <2>1, Moving
  <2>3. <<Head(rest).cmd>> \o (<<Shell!Operator(Tail(rest))>> \o s) = t
    BY <2>1, <1>a
  <2> QED BY <1>0, <1>2, <2>2, <2>3 DEF Shell!Next, Shell!TakeOperator
<1>3. CASE /\ rest # <<>> /\ ~(Head(rest).op = ";" \/ (Head(rest).op = "&&") = (v = 0))
           /\ Moves(x, s, <<Operator(Tail(rest))>> \o s, v, <<>>)
  <2>1. PICK t : t = <<Operator(Tail(rest))>> \o s
    OBVIOUS
  <2>2. Shell!Goes(t, v, <<>>) /\ Shell!top = x /\ Shell!rest = s /\ Shell!At({"operator"})
    BY <1>0, <1>3, <2>1, Moving
  <2>3. <<Shell!Operator(Tail(rest))>> \o s = t
    BY <2>1, <1>a
  <2> QED BY <1>0, <1>3, <2>2, <2>3 DEF Shell!Next, Shell!TakeOperator
<1> QED BY <1>1, <1>2, <1>3 DEF x

----------------------------------------------------------------------------
(* Results.                                                                *)

LEMMA FlowKinds ==
  /\ NoFlow.kind = "none"
  /\ \A kind, n : Flow(kind, n).kind = kind /\ Flow(kind, n).n = n /\ (kind \in Flows => Flow(kind, n) # NoFlow)
<1>1. NoFlow.kind = "none" /\ "none" \notin Flows
  BY DEF NoFlow, Flows
<1>2. \A kind, n : Flow(kind, n).kind = kind /\ Flow(kind, n).n = n
  BY DEF Flow
<1> QED BY <1>1, <1>2

LEMMA FlowOf ==
  ASSUME NEW r, NEW s, FlowFits(r, s)
  PROVE  /\ r.flow = NoFlow => r.flow.kind = "none"
         /\ r.flow # NoFlow => /\ r.flow = Flow(r.flow.kind, r.flow.n)
                              /\ r.flow.kind \in {"break", "continue", "return", "exit"}
BY FlowKinds DEF FlowFits, Flows

LEMMA ResultIs ==
  ASSUME NEW status
  PROVE  /\ IsResult(Result(status)) /\ Result(status).kind = "result"
         /\ Result(status).status = status /\ Result(status).flow = NoFlow
         /\ ~Result(status).suppressed /\ ~Result(status).left
BY DEF Result, IsResult

(* A result is its fields.                                                 *)
Made(status, flow, suppressed, gone) ==
  [kind |-> "result", status |-> status, flow |-> flow, suppressed |-> suppressed, left |-> gone]

LEMMA MadeIs ==
  ASSUME NEW status, NEW flow, NEW suppressed \in BOOLEAN, NEW gone \in BOOLEAN,
         NEW r, r = Made(status, flow, suppressed, gone)
  PROVE  /\ IsResult(r) /\ r.kind = "result" /\ r.status = status /\ r.flow = flow
         /\ r.suppressed = suppressed /\ r.left = gone
BY DEF Made, IsResult

LEMMA PartsOf ==
  ASSUME NEW r, IsResult(r)
  PROVE  \E status, flow, suppressed, gone :
           /\ suppressed \in BOOLEAN /\ gone \in BOOLEAN
           /\ r = Made(status, flow, suppressed, gone) /\ r.status = status /\ r.flow = flow
           /\ r.suppressed = suppressed /\ r.left = gone
<1>1. PICK b \in BOOLEAN, d \in BOOLEAN : b = r.suppressed /\ d = r.left
  BY DEF IsResult
<1>2. PICK v, g : v = r.status /\ g = r.flow
  OBVIOUS
<1>3. r = Made(v, g, b, d)
  BY <1>1, <1>2 DEF IsResult, Made
<1> QED BY <1>1, <1>2, <1>3

LEMMA UnsuppressedIs ==
  ASSUME NEW r, IsResult(r), NEW t, t = Unsuppressed(r)
  PROVE  /\ IsResult(t) /\ t.kind = "result"
         /\ t.status = r.status /\ t.flow = r.flow
         /\ ~t.suppressed /\ t.left = r.left
<1>1. PICK a, g, b, d :
       /\ b \in BOOLEAN /\ d \in BOOLEAN
       /\ r = Made(a, g, b, d) /\ r.status = a /\ r.flow = g /\ r.suppressed = b /\ r.left = d
  BY PartsOf
<1>a. PICK c \in BOOLEAN : c = FALSE
  OBVIOUS
<1>2. t = Made(a, g, c, d)
  BY <1>1, <1>a DEF Unsuppressed, Made
<1>b. d \in BOOLEAN
  BY <1>1
<1>3. /\ IsResult(t) /\ t.kind = "result" /\ t.status = a /\ t.flow = g
      /\ t.suppressed = c /\ t.left = d
  BY <1>a, <1>b, <1>2, MadeIs
<1> QED BY <1>1, <1>a, <1>3

LEMMA InvertedIs ==
  ASSUME NEW r, IsResult(r), NEW t, t = Inverted(r)
  PROVE  /\ IsResult(t) /\ t.kind = "result"
         /\ t.status = IF r.status = 0 THEN 1 ELSE 0
         /\ t.flow = r.flow
         /\ t.suppressed = r.suppressed /\ t.left = r.left
<1>1. PICK a, g, b, d :
       /\ b \in BOOLEAN /\ d \in BOOLEAN
       /\ r = Made(a, g, b, d) /\ r.status = a /\ r.flow = g /\ r.suppressed = b /\ r.left = d
  BY PartsOf
<1>2. PICK v : v = IF r.status = 0 THEN 1 ELSE 0
  OBVIOUS
<1>3. t = Made(v, g, b, d)
  BY <1>1, <1>2 DEF Inverted, Made
<1>4. /\ IsResult(t) /\ t.kind = "result" /\ t.status = v /\ t.flow = g
      /\ t.suppressed = b /\ t.left = d
  BY <1>1, <1>3, MadeIs
<1> QED BY <1>1, <1>2, <1>4

LEMMA WithoutFlow ==
  ASSUME NEW r, IsResult(r), NEW t, t = [r EXCEPT !.flow = NoFlow]
  PROVE  /\ IsResult(t) /\ t.kind = "result" /\ t.status = r.status /\ t.flow = NoFlow
         /\ t.suppressed = r.suppressed /\ t.left = r.left
<1>1. PICK a, g, b, d :
       /\ b \in BOOLEAN /\ d \in BOOLEAN
       /\ r = Made(a, g, b, d) /\ r.status = a /\ r.flow = g /\ r.suppressed = b /\ r.left = d
  BY PartsOf
<1>2. t = Made(a, NoFlow, b, d)
  BY <1>1 DEF Made
<1>3. /\ IsResult(t) /\ t.kind = "result" /\ t.status = a /\ t.flow = NoFlow
      /\ t.suppressed = b /\ t.left = d
  BY <1>1, <1>2, MadeIs
<1> QED BY <1>1, <1>3

LEMMA WithSuppressed ==
  ASSUME NEW r, IsResult(r), NEW c \in BOOLEAN, NEW t, t = [r EXCEPT !.suppressed = c]
  PROVE  /\ IsResult(t) /\ t.kind = "result" /\ t.status = r.status /\ t.flow = r.flow
         /\ t.suppressed = c /\ t.left = r.left
<1>1. PICK a, g, b, d :
       /\ b \in BOOLEAN /\ d \in BOOLEAN
       /\ r = Made(a, g, b, d) /\ r.status = a /\ r.flow = g /\ r.suppressed = b /\ r.left = d
  BY PartsOf
<1>2. t = Made(a, g, c, d)
  BY <1>1 DEF Made
<1>3. /\ IsResult(t) /\ t.kind = "result" /\ t.status = a /\ t.flow = g
      /\ t.suppressed = c /\ t.left = d
  BY <1>1, <1>2, MadeIs
<1> QED BY <1>1, <1>3

LEMMA ConsumedIs ==
  ASSUME NEW r, IsResult(r), NEW kinds, NEW t, t = Consumed(r, kinds)
  PROVE  /\ IsResult(t) /\ t.kind = "result"
         /\ t.suppressed = r.suppressed /\ t.left = r.left
         /\ r.flow.kind \in kinds => t.flow = NoFlow /\ t.status = r.flow.n
         /\ r.flow.kind \notin kinds => t = r
<1>1. PICK a, g, b, d :
       /\ b \in BOOLEAN /\ d \in BOOLEAN
       /\ r = Made(a, g, b, d) /\ r.status = a /\ r.flow = g /\ r.suppressed = b /\ r.left = d
  BY PartsOf
<1>2. CASE r.flow.kind \in kinds
  <2>1. PICK v : v = r.flow.n
    OBVIOUS
  <2>2. t = [r EXCEPT !.flow = NoFlow, !.status = v]
    BY <1>2, <2>1 DEF Consumed
  <2>3. t = Made(v, NoFlow, b, d)
    BY <1>1, <2>2 DEF Made
  <2>4. /\ IsResult(t) /\ t.kind = "result" /\ t.status = v /\ t.flow = NoFlow
        /\ t.suppressed = b /\ t.left = d
    BY <1>1, <2>3, MadeIs
  <2> QED BY <1>1, <1>2, <2>1, <2>4
<1>3. CASE r.flow.kind \notin kinds
  <2>1. t = r
    BY <1>3 DEF Consumed
  <2>2. r.kind = "result"
    BY DEF IsResult
  <2> QED BY <1>3, <2>1, <2>2
<1> QED BY <1>2, <1>3

LEMMA PropagatedIs ==
  ASSUME NEW r, IsResult(r), NEW s, FlowFits(r, s), r.flow # NoFlow, NEW t, t = Propagated(r)
  PROVE  /\ IsResult(t) /\ t.kind = "result" /\ ~t.suppressed /\ t.left = r.left
         /\ r.flow.kind \in {"break", "continue"} =>
              t.flow = Flow(r.flow.kind, r.flow.n - 1) /\ t.status = r.status
         /\ r.flow.kind \in {"return", "exit"} => t.flow = r.flow /\ t.status = r.flow.n
<1>1. r.flow = Flow(r.flow.kind, r.flow.n) /\ r.flow.kind \in {"break", "continue", "return", "exit"}
  BY FlowOf
<1>2. PICK u : u = Unsuppressed(r)
  OBVIOUS
<1>3. IsResult(u) /\ u.status = r.status /\ u.flow = r.flow /\ ~u.suppressed /\ u.left = r.left
  BY <1>2, UnsuppressedIs
<1>4. PICK a, g, b, d :
       /\ b \in BOOLEAN /\ d \in BOOLEAN
       /\ u = Made(a, g, b, d) /\ u.status = a /\ u.flow = g /\ u.suppressed = b /\ u.left = d
  BY <1>3, PartsOf
<1>5. CASE r.flow.kind \in {"break", "continue"}
  <2>1. PICK k, n, f : k = r.flow.kind /\ n = r.flow.n - 1 /\ f = r.flow
    OBVIOUS
  <2>2. OneLevelLess(f) = Flow(k, n)
    BY <1>1, <2>1 DEF OneLevelLess, Flow
  <2>3. t = [u EXCEPT !.flow = OneLevelLess(u.flow)]
    BY <1>2, <1>5 DEF Propagated
  <2>4. t = Made(a, Flow(k, n), b, d)
    BY <1>3, <1>4, <2>1, <2>2, <2>3 DEF Made
  <2>5. /\ IsResult(t) /\ t.kind = "result" /\ t.status = a /\ t.flow = Flow(k, n)
        /\ t.suppressed = b /\ t.left = d
    BY <1>4, <2>4, MadeIs
  <2> QED BY <1>3, <1>4, <1>5, <2>1, <2>5
<1>6. CASE r.flow.kind \in {"return", "exit"}
  <2>1. PICK v : v = r.flow.n
    OBVIOUS
  <2>2. t = [u EXCEPT !.status = v]
    BY <1>2, <1>6, <2>1 DEF Propagated
  <2>3. t = Made(v, g, b, d)
    BY <1>4, <2>2 DEF Made
  <2>4. /\ IsResult(t) /\ t.kind = "result" /\ t.status = v /\ t.flow = g
        /\ t.suppressed = b /\ t.left = d
    BY <1>4, <2>3, MadeIs
  <2> QED BY <1>3, <1>4, <1>6, <2>1, <2>4
<1> QED BY <1>1, <1>5, <1>6

LEMMA SettledIs ==
  ASSUME NEW r, IsResult(r), NEW s, errexit \in BOOLEAN, NEW t, t = Settled(r, s)
  PROVE  /\ IsResult(t) /\ t.kind = "result" /\ t.status = r.status /\ t.flow = r.flow
         /\ t.suppressed = r.suppressed
         /\ t.left <=> errexit /\ r.flow = NoFlow /\ r.status # 0 /\ ~Tested(s)
<1>1. PICK a, g, b, d :
       /\ b \in BOOLEAN /\ d \in BOOLEAN
       /\ r = Made(a, g, b, d) /\ r.status = a /\ r.flow = g /\ r.suppressed = b /\ r.left = d
  BY PartsOf
<1>2. PICK c \in BOOLEAN : c = (errexit /\ r.flow = NoFlow /\ r.status # 0 /\ ~Tested(s))
  BY Zenon
<1>3. t = [r EXCEPT !.left = c]
  BY <1>2, Zenon DEF Settled
<1>4. t = Made(a, g, b, c)
  BY <1>1, <1>3 DEF Made
<1>b. b \in BOOLEAN
  BY <1>1
<1>5. /\ IsResult(t) /\ t.kind = "result" /\ t.status = a /\ t.flow = g
      /\ t.suppressed = b /\ t.left = c
  BY <1>b, <1>4, MadeIs
<1> QED BY <1>1, <1>2, <1>5

LEMMA ReachedForms ==
  ASSUME NEW r, NEW s
  PROVE  /\ r.flow.kind = "break" => Reached(r, s) = Beyond({"round"}, r.flow.n, s)
         /\ r.flow.kind = "continue" => Reached(r, s) = From({"round"}, r.flow.n, s)
         /\ r.flow.kind = "return" => Reached(r, s) = From({"functionend", "shellend"}, 1, s)
         /\ r.flow.kind = "exit" => Reached(r, s) = From({"shellend"}, 1, s)
         /\ r.flow = NoFlow /\ r.left => Reached(r, s) = From({"shellend"}, 1, s)
         /\ r.flow = NoFlow /\ ~r.left => Reached(r, s) = s
<1>1. CASE r.flow.kind \in {"break", "continue", "return", "exit"}
  <2>1. r.flow # NoFlow
    BY <1>1, FlowKinds
  <2> QED BY <1>1, <2>1 DEF Reached
<1>2. CASE r.flow.kind \notin {"break", "continue", "return", "exit"}
  BY <1>2 DEF Reached
<1> QED BY <1>1, <1>2

(* What is no target of a flow drops on its way.                           *)
Between(a) == IsSequence(a) /\ \A k \in DOMAIN a : a[k].kind \notin {"round", "functionend", "shellend"}

LEMMA ReachedSkips ==
  ASSUME NEW r, NEW s, FlowFits(r, s), NEW a, Between(a), NEW b, IsSequence(b), r.flow # NoFlow \/ r.left
  PROVE  Reached(r, a \o b) = Reached(r, b)
<1>0. IsSequence(a)
  BY DEF Between
<1>1. ASSUME NEW kinds, kinds \subseteq {"round", "functionend", "shellend"}, NEW n \in Nat \ {0}
      PROVE  From(kinds, n, a \o b) = From(kinds, n, b)
  <2>1. \A k \in DOMAIN a : a[k].kind \notin kinds
    BY <1>1 DEF Between
  <2> QED BY <2>1, <1>0, FromSkips
<1>2. PICK c : c = a \o b
  OBVIOUS
<1>3. /\ From({"functionend", "shellend"}, 1, c) = From({"functionend", "shellend"}, 1, b)
      /\ From({"shellend"}, 1, c) = From({"shellend"}, 1, b)
      /\ \A n \in Nat \ {0} : From({"round"}, n, c) = From({"round"}, n, b)
  BY <1>1, <1>2
<1>4. CASE r.flow = NoFlow
  <2>1. r.left
    BY <1>4
  <2> QED BY <1>4, <2>1, <1>2, <1>3, ReachedForms
<1>5. CASE r.flow # NoFlow
  <2>1. r.flow.kind \in {"break", "continue", "return", "exit"}
    BY <1>5, FlowOf
  <2>2. CASE r.flow.kind \in {"break", "continue"}
    <3>1. r.flow.n \in 1 .. s.loops
      BY <1>5, <2>2 DEF FlowFits
    <3>2. r.flow.n \in Nat \ {0}
      BY <3>1
    <3>3. From({"round"}, r.flow.n, c) = From({"round"}, r.flow.n, b)
      BY <1>3, <3>2
    <3>4. Beyond({"round"}, r.flow.n, c) = Beyond({"round"}, r.flow.n, b)
      BY <3>3, Zenon DEF Beyond
    <3>5. Reached(r, c) = Reached(r, b)
      BY <2>2, <3>3, <3>4, ReachedForms
    <3> QED BY <3>5, <1>2
  <2>3. CASE r.flow.kind \in {"return", "exit"}
    <3>1. Reached(r, c) = Reached(r, b)
      BY <2>3, <1>3, ReachedForms
    <3> QED BY <3>1, <1>2
  <2> QED BY <2>1, <2>2, <2>3
<1> QED BY <1>4, <1>5

LEMMA BetweenForms ==
  /\ Between(<<>>)
  /\ \A cmds, s : AllMayStand(cmds, s) => Between(cmds)
  /\ \A cmds, s : LinesMayStand(cmds, s) => Between(cmds)
  /\ \A lp, i, last : Between(<<Decide(lp, i, last)>>)
  /\ \A clauses, otherwise : Between(<<Branch(clauses, otherwise)>>)
  /\ \A arms, fall : Between(<<Arms(arms, fall)>>)
  /\ \A rest : Between(<<Operator(rest)>>)
  /\ Between(<<Invert>>)
<1>1. Between(<<>>)
  BY Nothing DEF Between
<1>2. ASSUME NEW cmds, NEW s, AllMayStand(cmds, s)
      PROVE  Between(cmds)
  BY <1>2, HeadStands, CommandsAreBelow DEF Between
<1>3. ASSUME NEW cmds, NEW s, LinesMayStand(cmds, s)
      PROVE  Between(cmds)
  BY <1>3, FirstLineStands, CommandsAreBelow DEF Between
<1>4. ASSUME NEW x, x.kind \notin {"round", "functionend", "shellend"}
      PROVE  Between(<<x>>)
  BY <1>4, OneItem DEF Between
<1>5. \A lp, i, last : Between(<<Decide(lp, i, last)>>)
  BY <1>4 DEF Decide
<1>6. \A clauses, otherwise : Between(<<Branch(clauses, otherwise)>>)
  BY <1>4 DEF Branch
<1>7. \A arms, fall : Between(<<Arms(arms, fall)>>)
  BY <1>4 DEF Arms
<1>8. \A rest : Between(<<Operator(rest)>>)
  BY <1>4 DEF Operator
<1>9. Between(<<Invert>>)
  BY <1>4 DEF Invert
<1> QED BY <1>1, <1>2, <1>3, <1>5, <1>6, <1>7, <1>8, <1>9

----------------------------------------------------------------------------
(* A result that comes back to the innermost call.                         *)
Inner(e, nest, r, call, s, below, outer) ==
  /\ e \in BOOLEAN /\ NestFits(nest, e) /\ nest # <<>>
  /\ ControlFits(r, nest) /\ r.kind = "result"
  /\ call = Head(nest).call /\ s = Head(nest).scope /\ below = Head(nest).below
  /\ outer = Tail(nest)

LEMMA InnerIs ==
  ASSUME NEW e, NEW nest, NEW r, NEW call, NEW s, NEW below, NEW outer,
         Inner(e, nest, r, call, s, below, outer)
  PROVE  /\ e \in BOOLEAN /\ s \in Scope /\ s.strict = e /\ CallFits(call, s)
         /\ IsSequence(below) /\ IsSequence(Pending(call))
         /\ StackOf(nest) = Pending(call) \o below /\ ScopeIn(nest) = Inside(call, s)
         /\ e => (Tested(below) <=> s.tested)
         /\ AnswerFits(r, call, Inside(call, s)) /\ ResultFits(r, Inside(call, s)) /\ IsResult(r)
         /\ InShell(r, nest) = Reached(r, Pending(call) \o below)
         /\ NestFits(outer, e) /\ StackOf(outer) = below
         /\ outer = <<>> => call.kind = "script" /\ below = <<>> /\ s = Outermost(e)
         /\ call.kind = "script" => outer = <<>>
         /\ call.kind # "sequence" => ~s.tested
         /\ call.kind = "sequence" => /\ call.check => ~s.tested
                                      /\ ~call.check /\ e => s.tested
<1>1. /\ e \in BOOLEAN /\ NestFits(nest, e) /\ nest # <<>>
      /\ ControlFits(r, nest) /\ r.kind = "result"
      /\ call = Head(nest).call /\ s = Head(nest).scope /\ below = Head(nest).below
      /\ outer = Tail(nest)
  BY DEF Inner
<1>2. /\ ActivationFits(Head(nest), e)
      /\ StackOf(nest) = Pending(call) \o below /\ ScopeIn(nest) = Inside(call, s)
  BY <1>1, Inwards
<1>3. /\ s \in Scope /\ s.strict = e /\ IsSequence(below) /\ (e => (Tested(below) <=> s.tested))
      /\ CallFits(call, s)
  BY <1>1, <1>2 DEF ActivationFits
<1>4. IsSequence(Pending(call))
  BY <1>3, PendingFits
<1>5. AnswerFits(r, call, Inside(call, s))
  BY <1>1, <1>2 DEF ControlFits
<1>6. ResultFits(r, Inside(call, s)) /\ IsResult(r)
  BY <1>5 DEF AnswerFits, ResultFits
<1>7. InShell(r, nest) = Reached(r, Pending(call) \o below)
  BY <1>1, <1>2 DEF InShell
<1>8. /\ NestFits(outer, e) /\ StackOf(outer) = below
      /\ outer = <<>> => OutermostFits(Head(nest), e)
      /\ outer # <<>> => Within(Head(nest), Head(outer))
  BY <1>1, Outwards
<1>9. outer = <<>> => call.kind = "script" /\ below = <<>> /\ s = Outermost(e)
  BY <1>1, <1>8 DEF OutermostFits
<1>10. call.kind = "script" => outer = <<>>
  BY <1>1, <1>8 DEF Within
<1>11. call.kind # "sequence" => ~s.tested
  BY <1>3 DEF CallFits
<1>12. ASSUME call.kind = "sequence"
       PROVE  /\ call.check => ~s.tested
              /\ ~call.check /\ e => s.tested
  <2>1. call.check => ~s.tested
    BY <1>3 DEF CallFits
  <2>2. ASSUME ~call.check, e
        PROVE  s.tested
    <3>1. PICK g : g = Head(outer)
      OBVIOUS
    <3>2. outer # <<>>
      BY <1>9, <1>12
    <3>3. g.call.kind \in {"loop", "if"} /\ g.call.stage = "condition" /\ s = Inside(g.call, g.scope)
      BY <1>1, <1>8, <1>12, <2>2, <3>1, <3>2 DEF Within
    <3>4. ActivationFits(g, e)
      BY <1>1, <1>8, <3>1, <3>2, Inwards
    <3>5. g.scope \in Scope /\ g.scope.strict = e
      BY <3>4 DEF ActivationFits
    <3>6. s = ConditionScope(g.scope)
      BY <3>3, InsideForms
    <3> QED BY <2>2, <3>5, <3>6, ConditionScopeIs
  <2> QED BY <2>1, <2>2
<1> QED BY <1>1, <1>2, <1>3, <1>4, <1>5, <1>6, <1>7, <1>8, <1>9, <1>10, <1>11, <1>12

(* The innermost call hands a result to the one outside.                   *)
LEMMA Ending ==
  ASSUME NEW e, NEW nest, NEW r, NEW call, NEW s, NEW below, NEW outer,
         Inner(e, nest, r, call, s, below, outer),
         NEW t, outer # <<>> => ResultFits(t, s) /\ (Noticed(t, s) \/ s.tested),
         IsResult(t), outer = <<>> => t.flow = NoFlow
  PROVE  NestFits(outer, e) /\ ControlFits(t, outer) /\ InShell(t, outer) = Reached(t, below)
<1>1. /\ e \in BOOLEAN /\ s \in Scope /\ s.strict = e /\ CallFits(call, s)
      /\ NestFits(outer, e) /\ StackOf(outer) = below
  BY InnerIs
<1>2. t.kind = "result"
  BY DEF IsResult
<1>3. InShell(t, outer) = Reached(t, below)
  BY <1>1, <1>2 DEF InShell
<1>4. CASE outer = <<>>
  BY <1>1, <1>2, <1>3, <1>4 DEF ControlFits
<1>5. CASE outer # <<>>
  <2>1. PICK g : g = Head(outer)
    OBVIOUS
  <2>2. Within(Head(nest), g) /\ call = Head(nest).call /\ s = Head(nest).scope
    BY <1>1, <1>5, <2>1, Outwards DEF Inner
  <2>3. ActivationFits(g, e) /\ ScopeIn(outer) = Inside(g.call, g.scope)
    BY <1>1, <1>5, <2>1, Inwards
  <2>4. s = Inside(g.call, g.scope) /\ g.scope \in Scope /\ g.scope.strict = e
    BY <2>2, <2>3 DEF Within, ActivationFits
  <2>5. e => g.call.kind # "not"
    <3>1. SUFFICES ASSUME e, g.call.kind = "not" PROVE FALSE
      OBVIOUS
    <3>2. s = NegatedScope(g.scope)
      BY <2>4, <3>1, InsideForms
    <3>3. s.tested
      BY <2>4, <3>1, <3>2, NegatedScopeIs
    <3>4. call.kind = "sequence" /\ ~call.check
      BY <1>1, <3>3 DEF CallFits
    <3> QED BY <2>2, <3>1, <3>4 DEF Within
  <2>6. AnswerFits(t, g.call, s)
    BY <1>1, <1>5, <2>5 DEF AnswerFits
  <2> QED BY <1>1, <1>2, <1>3, <1>5, <2>1, <2>3, <2>4, <2>6 DEF ControlFits
<1> QED BY <1>4, <1>5

(* The commands inside a call begin to run.                                *)
Starts(cmds, check, nest, nest2, ctl2) ==
  IF cmds = <<>> THEN nest2 = nest /\ ctl2 = Result(0)
  ELSE /\ nest2 = Opened([kind |-> "sequence", rest |-> Tail(cmds), check |-> check], nest)
       /\ ctl2 = Run(Head(cmds), 0)

LEMMA RunIs ==
  ASSUME NEW c, NEW last, NEW ctl, ctl = Run(c, last)
  PROVE  /\ ctl.kind = "run" /\ ctl.command = c /\ ctl.last = last
         /\ ctl = Run(ctl.command, ctl.last) /\ StatusOf(ctl) = last
         /\ \A nest : InShell(ctl, nest) = <<c>> \o StackOf(nest)
BY DEF Run, StatusOf, InShell

LEMMA SuccessFits ==
  ASSUME NEW s, NEW t, t = Result(0)
  PROVE  /\ ResultFits(t, s) /\ Noticed(t, s) /\ t.flow = NoFlow /\ ~t.left /\ t.status = 0
         /\ t.kind = "result" /\ IsResult(t) /\ ~t.suppressed /\ StatusOf(t) = 0
         /\ \A stack : Reached(t, stack) = stack
<1>1. /\ IsResult(t) /\ t.kind = "result" /\ t.status = 0 /\ t.flow = NoFlow
      /\ ~t.suppressed /\ ~t.left
  BY ResultIs
<1>2. ResultFits(t, s) /\ Noticed(t, s)
  BY <1>1 DEF ResultFits, FlowFits, Noticed
<1>3. StatusOf(t) = 0
  BY <1>1, FlowKinds DEF StatusOf
<1>4. \A stack : Reached(t, stack) = stack
  BY <1>1, ReachedForms
<1> QED BY <1>1, <1>2, <1>3, <1>4

LEMMA Starting ==
  ASSUME NEW e \in BOOLEAN, NEW nest, NestFits(nest, e), nest # <<>>,
         NEW cmds, AllMayStand(cmds, ScopeIn(nest)), NEW check \in BOOLEAN,
         ScopeIn(nest).tested => ~check,
         ~check => Head(nest).call.kind \in {"loop", "if"} /\ Head(nest).call.stage = "condition",
         e => Head(nest).call.kind # "not",
         NEW nest2, NEW ctl2, Starts(cmds, check, nest, nest2, ctl2)
  PROVE  /\ NestFits(nest2, e) /\ ControlFits(ctl2, nest2)
         /\ InShell(ctl2, nest2) = cmds \o StackOf(nest) /\ StatusOf(ctl2) = 0
<1>1. /\ IsSequence(StackOf(nest)) /\ ScopeIn(nest) \in Scope /\ ScopeIn(nest).strict = e
  BY Inwards
<1>2. CASE cmds = <<>>
  <2>1. nest2 = nest /\ ctl2 = Result(0)
    BY <1>2 DEF Starts
  <2>2. PICK s : s = ScopeIn(nest)
    OBVIOUS
  <2>3. /\ ResultFits(ctl2, s) /\ Noticed(ctl2, s) /\ ctl2.kind = "result" /\ StatusOf(ctl2) = 0
        /\ Reached(ctl2, StackOf(nest)) = StackOf(nest)
    BY <2>1, SuccessFits
  <2>4. AnswerFits(ctl2, Head(nest).call, s)
    BY <1>1, <2>2, <2>3 DEF AnswerFits
  <2>5. ControlFits(ctl2, nest2)
    BY <2>1, <2>2, <2>3, <2>4 DEF ControlFits
  <2>6. InShell(ctl2, nest2) = StackOf(nest)
    BY <2>1, <2>3 DEF InShell
  <2> QED BY <1>1, <1>2, <2>1, <2>3, <2>5, <2>6, NothingJoined
<1>3. CASE cmds # <<>>
  <2>1. PICK call : call = [kind |-> "sequence", rest |-> Tail(cmds), check |-> check]
    OBVIOUS
  <2>2. nest2 = Opened(call, nest) /\ ctl2 = Run(Head(cmds), 0)
    BY <1>3, <2>1 DEF Starts
  <2>3. IsSequence(cmds) /\ MayStand(Head(cmds), ScopeIn(nest)) /\ AllMayStand(Tail(cmds), ScopeIn(nest))
    BY <1>3, HeadStands
  <2>4. call.kind = "sequence" /\ call.rest = Tail(cmds) /\ call.check = check
    BY <2>1
  <2>5. CallFits(call, ScopeIn(nest))
    BY <2>1, <2>3, <2>4 DEF CallFits
  <2>6. /\ NestFits(nest2, e) /\ nest2 # <<>> /\ Head(nest2).call = call
        /\ StackOf(nest2) = Pending(call) \o StackOf(nest)
        /\ ScopeIn(nest2) = Inside(call, ScopeIn(nest))
    BY <2>2, <2>4, <2>5, Opening
  <2>7. Pending(call) = Tail(cmds) /\ Inside(call, ScopeIn(nest)) = ScopeIn(nest)
    BY <2>4, PendingForms, InsideForms
  <2>8. /\ ctl2.kind = "run" /\ ctl2.command = Head(cmds) /\ ctl2 = Run(ctl2.command, ctl2.last)
        /\ StatusOf(ctl2) = 0 /\ InShell(ctl2, nest2) = <<Head(cmds)>> \o StackOf(nest2)
    BY <2>2, RunIs
  <2>9. ControlFits(ctl2, nest2)
    BY <2>3, <2>4, <2>6, <2>7, <2>8 DEF ControlFits, CommandFits
  <2>10. InShell(ctl2, nest2) = cmds \o StackOf(nest)
    <3>1. cmds = <<Head(cmds)>> \o Tail(cmds) /\ IsSequence(Tail(cmds)) /\ IsSequence(<<Head(cmds)>>)
      BY <1>3, <2>3, Split, OneItem
    <3>2. PICK c, d, b : c = <<Head(cmds)>> /\ d = Tail(cmds) /\ b = StackOf(nest)
      OBVIOUS
    <3>3. IsSequence(c) /\ IsSequence(d) /\ IsSequence(b)
      BY <3>1, <3>2, <1>1
    <3>4. c \o (d \o b) = (c \o d) \o b
      BY <3>3, Regrouped
    <3>5. cmds = c \o d
      BY <3>1, <3>2
    <3>6. InShell(ctl2, nest2) = c \o (d \o b)
      BY <2>6, <2>7, <2>8, <3>2
    <3> QED BY <3>2, <3>4, <3>5, <3>6
  <2> QED BY <2>6, <2>8, <2>9, <2>10
<1> QED BY <1>2, <1>3

(* A command begins in a call that is open.                                *)
LEMMA Commanding ==
  ASSUME NEW nest, nest # <<>>, NEW c, NEW last, NEW ctl, ctl = Run(c, last),
         CommandFits(c, Head(nest).call, ScopeIn(nest))
  PROVE  ControlFits(ctl, nest) /\ InShell(ctl, nest) = <<c>> \o StackOf(nest) /\ StatusOf(ctl) = last
<1>1. /\ ctl.kind = "run" /\ ctl.command = c /\ ctl = Run(ctl.command, ctl.last)
      /\ StatusOf(ctl) = last /\ InShell(ctl, nest) = <<c>> \o StackOf(nest)
  BY RunIs
<1> QED BY <1>1 DEF ControlFits

----------------------------------------------------------------------------
(* Steps of the interpreter and of the shell.                              *)
FlowInv == FlowsReachTheirTargets /\ IsSequence(ran)
Simulated == Shell!Next \/ UNCHANGED Shell!shellVars

At0(e, nest, ctl) == e = errexit /\ nest = calls /\ ctl = control
GoesTo(nest2, ctl2, out) ==
  calls' = nest2 /\ control' = ctl2 /\ ran' = ran \o out /\ errexit' = errexit

LEMMA Resumed ==
  ASSUME FlowInv, NEW kinds, BackIn(kinds)
  PROVE  \E e, nest, r, call, s, below, outer :
           /\ Inner(e, nest, r, call, s, below, outer) /\ At0(e, nest, r)
           /\ Innermost = call /\ call.kind \in kinds /\ Callers = outer
           /\ Head(calls).below = below
<1>1. PICK e, nest, r : At0(e, nest, r)
  BY DEF At0
<1>2. e \in BOOLEAN
  <2>1. nest # <<>> /\ NestFits(nest, e)
    BY <1>1 DEF FlowInv, FlowsReachTheirTargets, At0, BackIn
  <2>2. ActivationFits(nest[1], e)
    BY <2>1, Split DEF NestFits
  <2>3. nest[1].scope \in Scope /\ nest[1].scope.strict = e
    BY <2>2 DEF ActivationFits
  <2> QED BY <2>3 DEF Scope
<1>3. PICK call, s, below, outer :
        call = Head(nest).call /\ s = Head(nest).scope /\ below = Head(nest).below /\ outer = Tail(nest)
  OBVIOUS
<1>4. Inner(e, nest, r, call, s, below, outer)
  BY <1>1, <1>2, <1>3 DEF Inner, At0, FlowInv, FlowsReachTheirTargets, BackIn
<1>5. Innermost = call /\ call.kind \in kinds /\ Callers = outer /\ Head(calls).below = below
  BY <1>1, <1>3 DEF At0, Innermost, Callers, BackIn
<1> QED BY <1>1, <1>4, <1>5

LEMMA Stays ==
  ASSUME FlowInv, ran' = ran
  PROVE  ran' = ran \o <<>>
BY NothingJoined DEF FlowInv

(* The state after a step fits.                                            *)
LEMMA Arrives ==
  ASSUME NEW e, NEW nest, NEW ctl, At0(e, nest, ctl), NEW nest2, NEW ctl2, NEW out, GoesTo(nest2, ctl2, out),
         NestFits(nest2, e), ControlFits(ctl2, nest2)
  PROVE  /\ FlowsReachTheirTargets'
         /\ ShellStack = InShell(ctl, nest) /\ ShellStatus = StatusOf(ctl)
         /\ ShellStack' = InShell(ctl2, nest2) /\ ShellStatus' = StatusOf(ctl2)
         /\ errexit' = errexit /\ errexit = e
<1>1. FlowsReachTheirTargets'
  BY DEF FlowsReachTheirTargets, At0, GoesTo
<1>2. ShellStack = InShell(ctl, nest)
  BY DEF ShellStack, InShell, Command, At0
<1>3. ShellStatus = StatusOf(ctl)
  BY DEF ShellStatus, StatusOf, At0
<1>4. ShellStack' = InShell(ctl2, nest2)
  BY DEF ShellStack, InShell, Command, GoesTo
<1>5. ShellStatus' = StatusOf(ctl2)
  BY DEF ShellStatus, StatusOf, GoesTo
<1> QED BY <1>1, <1>2, <1>3, <1>4, <1>5 DEF At0, GoesTo

LEMMA Stuttering ==
  ASSUME FlowInv, NEW e, NEW nest, NEW ctl, At0(e, nest, ctl), NEW nest2, NEW ctl2, GoesTo(nest2, ctl2, <<>>),
         NestFits(nest2, e), ControlFits(ctl2, nest2),
         InShell(ctl2, nest2) = InShell(ctl, nest), StatusOf(ctl2) = StatusOf(ctl)
  PROVE  FlowsReachTheirTargets' /\ Simulated
<1>1. /\ FlowsReachTheirTargets'
      /\ ShellStack = InShell(ctl, nest) /\ ShellStatus = StatusOf(ctl)
      /\ ShellStack' = InShell(ctl2, nest2) /\ ShellStatus' = StatusOf(ctl2)
      /\ errexit' = errexit
  BY Arrives
<1>2. ran' = ran
  BY NothingJoined DEF FlowInv, GoesTo
<1> QED BY <1>1, <1>2 DEF Simulated, Shell!shellVars

LEMMA Moved ==
  ASSUME NEW e, NEW nest, NEW ctl, At0(e, nest, ctl), NEW nest2, NEW ctl2, NEW out, GoesTo(nest2, ctl2, out),
         NestFits(nest2, e), ControlFits(ctl2, nest2),
         NEW x, NEW s, InShell(ctl, nest) = <<x>> \o s,
         NEW t, InShell(ctl2, nest2) = t, NEW v, StatusOf(ctl2) = v
  PROVE  Moves(x, s, t, v, out) /\ FlowsReachTheirTargets' /\ ShellStatus = StatusOf(ctl) /\ errexit = e
<1>1. /\ FlowsReachTheirTargets'
      /\ ShellStack = InShell(ctl, nest) /\ ShellStatus = StatusOf(ctl)
      /\ ShellStack' = InShell(ctl2, nest2) /\ ShellStatus' = StatusOf(ctl2)
      /\ errexit' = errexit /\ errexit = e
  BY Arrives
<1> QED BY <1>1 DEF Moves, GoesTo

----------------------------------------------------------------------------
(* A command is run.                                                       *)
Running(e, nest, ctl, c, s, stack) ==
  /\ e \in BOOLEAN /\ NestFits(nest, e) /\ nest # <<>> /\ At0(e, nest, ctl)
  /\ s = ScopeIn(nest) /\ stack = StackOf(nest)
  /\ CommandFits(c, Head(nest).call, s) /\ Fits(c, s)
  /\ s \in Scope /\ s.strict = e /\ IsSequence(stack) /\ (e => (Tested(stack) <=> s.tested))
  /\ InShell(ctl, nest) = <<c>> \o stack
  /\ e /\ c.kind # "do" => Head(nest).call.kind # "not"
  /\ s.tested => c.kind \in SimpleKinds

LEMMA CommandRuns ==
  ASSUME FlowInv, NEW kinds, ToRun(kinds)
  PROVE  \E e, nest, ctl, c, s, stack :
           Running(e, nest, ctl, c, s, stack) /\ Command = c /\ c.kind \in kinds /\ errexit = e /\ calls = nest
<1>1. PICK e, nest, ctl, c, s, stack :
        At0(e, nest, ctl) /\ c = Command /\ s = ScopeIn(nest) /\ stack = StackOf(nest)
  BY DEF At0
<1>2. /\ NestFits(nest, e) /\ ControlFits(ctl, nest) /\ ctl.kind = "run"
      /\ c = ctl.command /\ c.kind \in kinds
  BY <1>1 DEF FlowInv, FlowsReachTheirTargets, At0, ToRun, Command
<1>3. nest # <<>>
  BY <1>2 DEF ControlFits
<1>4. e \in BOOLEAN
  <2>2. ActivationFits(nest[1], e)
    BY <1>2, <1>3, Split DEF NestFits
  <2>3. nest[1].scope \in Scope /\ nest[1].scope.strict = e
    BY <2>2 DEF ActivationFits
  <2> QED BY <2>3 DEF Scope
<1>5. CommandFits(c, Head(nest).call, s)
  BY <1>1, <1>2, <1>3 DEF ControlFits
<1>6. Fits(c, s)
  BY <1>5, Stands DEF CommandFits
<1>7. s \in Scope /\ s.strict = e /\ IsSequence(stack) /\ (e => (Tested(stack) <=> s.tested))
  BY <1>1, <1>2, <1>3, <1>4, Inwards
<1>8. InShell(ctl, nest) = <<c>> \o stack
  BY <1>1, <1>2 DEF InShell
<1>9. e /\ c.kind # "do" => Head(nest).call.kind # "not"
  BY <1>5, <1>7 DEF CommandFits
<1>10. s.tested => c.kind \in SimpleKinds
  BY <1>6 DEF Fits
<1>11. Running(e, nest, ctl, c, s, stack)
  BY <1>1, <1>2, <1>3, <1>4, <1>5, <1>6, <1>7, <1>8, <1>9, <1>10 DEF Running
<1> QED BY <1>1, <1>2, <1>11 DEF At0

LEMMA FlowResultForms ==
  ASSUME NEW c, c.kind \in SimpleKinds, NEW r, r = FlowResult(c)
  PROVE  /\ IsResult(r) /\ r.kind = "result" /\ ~r.suppressed /\ ~r.left
         /\ c.kind = "do" => r.status = c.status /\ r.flow = NoFlow
         /\ c.kind # "do" => r.flow = Flow(c.kind, c.n)
         /\ c.kind \in {"break", "continue", "return"} => r.status = 0
<1>1. CASE c.kind = "do"
  <2>1. r = Result(c.status)
    BY <1>1 DEF FlowResult
  <2> QED BY <1>1, <2>1, ResultIs
<1>2. CASE c.kind = "exit"
  <2>1. r = [Result(c.n) EXCEPT !.flow = Flow("exit", c.n)]
    BY <1>2 DEF FlowResult
  <2>2. PICK g : g = Flow("exit", c.n)
    OBVIOUS
  <2>a. PICK b \in BOOLEAN : b = FALSE
    OBVIOUS
  <2>3. r = Made(c.n, g, b, b)
    BY <2>1, <2>2, <2>a DEF Result, Made
  <2>4. IsResult(r) /\ r.kind = "result" /\ r.flow = g /\ r.suppressed = b /\ r.left = b
    BY <2>3, MadeIs
  <2> QED BY <1>2, <2>2, <2>a, <2>4
<1>3. CASE c.kind \in {"break", "continue", "return"}
  <2>1. r = [Result(0) EXCEPT !.flow = Flow(c.kind, c.n)]
    BY <1>3 DEF FlowResult
  <2>2. PICK g : g = Flow(c.kind, c.n)
    OBVIOUS
  <2>a. PICK b \in BOOLEAN : b = FALSE
    OBVIOUS
  <2>3. r = Made(0, g, b, b)
    BY <2>1, <2>2, <2>a DEF Result, Made
  <2>4. IsResult(r) /\ r.kind = "result" /\ r.status = 0 /\ r.flow = g /\ r.suppressed = b /\ r.left = b
    BY <2>3, MadeIs
  <2> QED BY <1>3, <2>2, <2>a, <2>4
<1> QED BY <1>1, <1>2, <1>3 DEF SimpleKinds, Flows

LEMMA RunSimpleKeeps ==
  ASSUME FlowInv, RunSimple
  PROVE  FlowsReachTheirTargets' /\ Simulated
<1>1. PICK e, nest, ctl, c, s, stack :
        /\ Running(e, nest, ctl, c, s, stack)
        /\ Command = c /\ c.kind \in SimpleKinds /\ errexit = e /\ calls = nest
  BY CommandRuns DEF RunSimple
<1>2. PICK r, t : r = FlowResult(c) /\ t = Settled(r, stack)
  OBVIOUS
<1>3. GoesTo(nest, t, <<c>>)
  BY <1>1, <1>2, Appending DEF RunSimple, GoesTo, Running, FlowInv
<1>4. /\ e \in BOOLEAN /\ NestFits(nest, e) /\ nest # <<>> /\ At0(e, nest, ctl)
      /\ s = ScopeIn(nest) /\ stack = StackOf(nest)
      /\ CommandFits(c, Head(nest).call, s) /\ Fits(c, s)
      /\ s \in Scope /\ s.strict = e /\ IsSequence(stack) /\ (e => (Tested(stack) <=> s.tested))
      /\ InShell(ctl, nest) = <<c>> \o stack
  BY <1>1 DEF Running
<1>5. /\ IsResult(r) /\ ~r.suppressed
      /\ c.kind = "do" => r.status = c.status /\ r.flow = NoFlow
      /\ c.kind # "do" => r.flow = Flow(c.kind, c.n)
      /\ c.kind \in {"break", "continue", "return"} => r.status = 0
  BY <1>1, <1>2, FlowResultForms
<1>6. /\ IsResult(t) /\ t.kind = "result" /\ t.status = r.status /\ t.flow = r.flow
      /\ t.suppressed = r.suppressed
      /\ t.left <=> e /\ r.flow = NoFlow /\ r.status # 0 /\ ~Tested(stack)
  BY <1>1, <1>2, <1>4, <1>5, SettledIs
<1>7. CASE c.kind = "do"
  <2>1. t.flow = NoFlow /\ t.status = c.status /\ ~t.suppressed /\ (c.status = 0 \/ s.fails)
    BY <1>4, <1>5, <1>6, <1>7 DEF Fits
  <2>2. ResultFits(t, s)
    BY <1>4, <1>6, <2>1 DEF ResultFits, FlowFits
  <2>3. Noticed(t, s) \/ s.tested
    BY <1>4, <1>5, <1>6, <1>7 DEF Noticed
  <2>4. AnswerFits(t, Head(nest).call, s)
    BY <1>4, <1>7, <2>1, <2>2, <2>3 DEF AnswerFits, CommandFits
  <2>5. ControlFits(t, nest)
    BY <1>4, <1>6, <2>4 DEF ControlFits
  <2>6. InShell(t, nest) = EndedIn(e, c.status, stack)
    <3>1. InShell(t, nest) = Reached(t, stack)
      BY <1>4, <1>6 DEF InShell
    <3>2. t.left <=> e /\ c.status # 0 /\ ~Tested(stack)
      BY <1>5, <1>6, <1>7
    <3> QED BY <2>1, <3>1, <3>2, ReachedForms DEF EndedIn
  <2>7. StatusOf(t) = c.status
    BY <1>6, <2>1, FlowKinds DEF StatusOf
  <2>8. PICK u, v : u = EndedIn(e, c.status, stack) /\ v = c.status
    OBVIOUS
  <2>9. Moves(c, stack, u, v, <<c>>) /\ FlowsReachTheirTargets'
    BY <1>3, <1>4, <2>5, <2>6, <2>7, <2>8, Moved
  <2>10. Moves(c, stack, EndedIn(errexit, c.status, stack), c.status, <<c>>)
    BY <1>1, <2>8, <2>9
  <2> QED BY <1>4, <1>7, <2>9, <2>10, ShellRunsDo DEF Simulated
<1>8. CASE c.kind # "do"
  <2>1. c.kind \in Flows /\ t.flow = Flow(c.kind, c.n) /\ t.flow # NoFlow
    BY <1>1, <1>5, <1>6, <1>8, FlowKinds DEF SimpleKinds
  <2>2. t.flow.kind = c.kind /\ t.flow.n = c.n
    BY <2>1, FlowKinds
  <2>3. ~t.left /\ ~t.suppressed
    BY <1>5, <1>6, <2>1
  <2>4. FlowFits(t, s)
    BY <1>4, <1>5, <1>6, <2>1, <2>2 DEF FlowFits, Fits
  <2>5. ResultFits(t, s) /\ Noticed(t, s)
    BY <1>6, <2>1, <2>3, <2>4 DEF ResultFits, Noticed
  <2>6. AnswerFits(t, Head(nest).call, s)
    BY <1>4, <1>8, <2>5 DEF AnswerFits, CommandFits
  <2>7. ControlFits(t, nest)
    BY <1>4, <1>6, <2>6 DEF ControlFits
  <2>8. InShell(t, nest) = Reached(t, stack)
    BY <1>4, <1>6 DEF InShell
  <2>9. CASE c.kind = "break"
    <3>1. InShell(t, nest) = Beyond({"round"}, c.n, stack)
      BY <2>2, <2>8, <2>9, ReachedForms
    <3>2. StatusOf(t) = 0
      BY <1>5, <1>6, <2>2, <2>9 DEF StatusOf
    <3>3. PICK u, v : u = Beyond({"round"}, c.n, stack) /\ v = 0
      OBVIOUS
    <3>4. InShell(t, nest) = u /\ StatusOf(t) = v
      BY <3>1, <3>2, <3>3
    <3>5. At0(e, nest, ctl) /\ NestFits(nest, e) /\ InShell(ctl, nest) = <<c>> \o stack
      BY <1>4
    <3>6. Moves(c, stack, u, v, <<c>>) /\ FlowsReachTheirTargets'
      BY <1>3, <2>7, <3>4, <3>5, Moved
    <3> QED BY <1>4, <2>9, <3>3, <3>6, ShellRunsFlow DEF Simulated
  <2>10. CASE c.kind = "continue"
    <3>1. InShell(t, nest) = From({"round"}, c.n, stack)
      BY <2>2, <2>8, <2>10, ReachedForms
    <3>2. StatusOf(t) = 0
      BY <1>5, <1>6, <2>2, <2>10 DEF StatusOf
    <3>3. PICK u, v : u = From({"round"}, c.n, stack) /\ v = 0
      OBVIOUS
    <3>4. InShell(t, nest) = u /\ StatusOf(t) = v
      BY <3>1, <3>2, <3>3
    <3>5. At0(e, nest, ctl) /\ NestFits(nest, e) /\ InShell(ctl, nest) = <<c>> \o stack
      BY <1>4
    <3>6. Moves(c, stack, u, v, <<c>>) /\ FlowsReachTheirTargets'
      BY <1>3, <2>7, <3>4, <3>5, Moved
    <3> QED BY <1>4, <2>10, <3>3, <3>6, ShellRunsFlow DEF Simulated
  <2>11. CASE c.kind = "return"
    <3>1. InShell(t, nest) = From({"functionend", "shellend"}, 1, stack)
      BY <2>2, <2>8, <2>11, ReachedForms
    <3>2. StatusOf(t) = c.n
      BY <1>6, <2>2, <2>11 DEF StatusOf
    <3>3. PICK u, v : u = From({"functionend", "shellend"}, 1, stack) /\ v = c.n
      OBVIOUS
    <3>4. Moves(c, stack, u, v, <<c>>) /\ FlowsReachTheirTargets'
      BY <1>3, <1>4, <2>7, <3>1, <3>2, <3>3, Moved
    <3> QED BY <1>4, <2>11, <3>3, <3>4, ShellRunsFlow DEF Simulated
  <2>12. CASE c.kind = "exit"
    <3>1. InShell(t, nest) = From({"shellend"}, 1, stack)
      BY <2>2, <2>8, <2>12, ReachedForms
    <3>2. StatusOf(t) = c.n
      BY <1>6, <2>2, <2>12 DEF StatusOf
    <3>3. PICK u, v : u = From({"shellend"}, 1, stack) /\ v = c.n
      OBVIOUS
    <3>4. Moves(c, stack, u, v, <<c>>) /\ FlowsReachTheirTargets'
      BY <1>3, <1>4, <2>7, <3>1, <3>2, <3>3, Moved
    <3> QED BY <1>4, <2>12, <3>3, <3>4, ShellRunsFlow DEF Simulated
  <2> QED BY <2>1, <2>9, <2>10, <2>11, <2>12 DEF Flows
<1> QED BY <1>7, <1>8

----------------------------------------------------------------------------
(* A compound command is opened.                                           *)
LEMMA TurnsGo ==
  ASSUME FlowInv, NEW n, NEW c, Turns(n, c)
  PROVE  GoesTo(n, c, <<>>)
BY Stays DEF Turns, GoesTo

LEMMA SequenceStarts ==
  ASSUME FlowInv, NEW cmds, NEW check, NEW n, Begins(cmds, check, n), UNCHANGED <<ran, errexit>>
  PROVE  \E nest2, ctl2 : GoesTo(nest2, ctl2, <<>>) /\ Starts(cmds, check, n, nest2, ctl2)
<1>1. PICK nest2, ctl2 : nest2 = calls' /\ ctl2 = control'
  OBVIOUS
<1>2. GoesTo(nest2, ctl2, <<>>)
  BY <1>1, Stays DEF GoesTo
<1>3. Starts(cmds, check, n, nest2, ctl2)
  BY <1>1 DEF Begins, Starts
<1> QED BY <1>2, <1>3

LEMMA Compound ==
  ASSUME FlowInv, NEW e, NEW nest, NEW ctl, NEW c, NEW s, NEW stack, Running(e, nest, ctl, c, s, stack),
         c.kind \in CompoundKinds, NEW nest2, NEW ctl2, GoesTo(nest2, ctl2, <<>>),
         NestFits(nest2, e), ControlFits(ctl2, nest2),
         InShell(ctl2, nest2) = Shell!Open(c) \o stack, StatusOf(ctl2) = 0
  PROVE  FlowsReachTheirTargets' /\ Simulated
<1>1. At0(e, nest, ctl) /\ InShell(ctl, nest) = <<c>> \o stack /\ IsSequence(stack)
  BY DEF Running
<1>2. PICK t : t = Shell!Open(c) \o stack
  OBVIOUS
<1>a. PICK v, out : v = 0 /\ out = <<>>
  OBVIOUS
<1>b. InShell(ctl2, nest2) = t /\ StatusOf(ctl2) = v /\ GoesTo(nest2, ctl2, out)
  BY <1>2, <1>a
<1>3. Moves(c, stack, t, v, out) /\ FlowsReachTheirTargets'
  BY <1>1, <1>b, Moved
<1>4. Moves(c, stack, Shell!Open(c) \o stack, 0, <<>>)
  BY <1>2, <1>3, <1>a
<1>5. Shell!Next
  BY <1>1, <1>4, ShellOpens
<1> QED BY <1>3, <1>5 DEF Simulated

LEMMA Deeper ==
  ASSUME NEW e, NEW nest, NEW ctl, NEW c, NEW s, NEW stack, Running(e, nest, ctl, c, s, stack),
         NEW call, CallFits(call, s), call.kind \notin {"script", "sequence"},
         NEW inner, inner = Opened(call, nest)
  PROVE  /\ NestFits(inner, e) /\ inner # <<>> /\ Head(inner).call = call
         /\ StackOf(inner) = Pending(call) \o stack /\ ScopeIn(inner) = Inside(call, s)
         /\ IsSequence(Pending(call)) /\ ScopeIn(inner) \in Scope /\ ScopeIn(inner).strict = e
<1>1. /\ e \in BOOLEAN /\ NestFits(nest, e) /\ nest # <<>>
      /\ s = ScopeIn(nest) /\ stack = StackOf(nest) /\ s \in Scope
  BY DEF Running
<1>2. /\ NestFits(inner, e) /\ inner # <<>> /\ Head(inner).call = call
      /\ StackOf(inner) = Pending(call) \o stack /\ ScopeIn(inner) = Inside(call, s)
  BY <1>1, Opening
<1>3. IsSequence(Pending(call))
  BY <1>1, PendingFits
<1>4. ScopeIn(inner) \in Scope /\ ScopeIn(inner).strict = e
  BY <1>1, <1>2, Inwards
<1> QED BY <1>2, <1>3, <1>4

LEMMA NotTested ==
  ASSUME NEW e, NEW nest, NEW ctl, NEW c, NEW s, NEW stack, Running(e, nest, ctl, c, s, stack),
         c.kind \in CompoundKinds
  PROVE  /\ ~s.tested /\ (e => Head(nest).call.kind # "not") /\ c.kind \notin SimpleKinds
         /\ e \in BOOLEAN /\ NestFits(nest, e) /\ nest # <<>>
         /\ s = ScopeIn(nest) /\ stack = StackOf(nest) /\ Fits(c, s)
         /\ s \in Scope /\ s.strict = e /\ IsSequence(stack)
<1>1. c.kind \notin SimpleKinds
  BY DEF CompoundKinds, SimpleKinds, Loops, Flows
<1>2. c.kind # "do"
  BY <1>1 DEF SimpleKinds
<1> QED BY <1>1, <1>2 DEF Running

LEMMA OpenGroupKeeps ==
  ASSUME FlowInv, OpenGroup
  PROVE  FlowsReachTheirTargets' /\ Simulated
<1>1. PICK e, nest, ctl, c, s, stack :
        Running(e, nest, ctl, c, s, stack) /\ Command = c /\ c.kind = "group" /\ calls = nest
  BY CommandRuns DEF OpenGroup
<1>2. PICK nest2, ctl2 : GoesTo(nest2, ctl2, <<>>) /\ Starts(c.body, TRUE, nest, nest2, ctl2)
  BY <1>1, SequenceStarts DEF OpenGroup, Sequence
<1>3. c.kind \in CompoundKinds
  BY <1>1 DEF CompoundKinds
<1>4. /\ ~s.tested /\ (e => Head(nest).call.kind # "not")
      /\ e \in BOOLEAN /\ NestFits(nest, e) /\ nest # <<>>
      /\ s = ScopeIn(nest) /\ stack = StackOf(nest) /\ Fits(c, s)
  BY <1>1, <1>3, NotTested
<1>5. AllMayStand(c.body, s)
  BY <1>1, <1>4 DEF Fits
<1>6. /\ NestFits(nest2, e) /\ ControlFits(ctl2, nest2)
      /\ InShell(ctl2, nest2) = c.body \o stack /\ StatusOf(ctl2) = 0
  BY <1>2, <1>4, <1>5, Starting
<1>7. Shell!Open(c) = c.body
  BY <1>1, OpenForms
<1> QED BY <1>1, <1>2, <1>3, <1>6, <1>7, Compound

LEMMA OpenSubshellKeeps ==
  ASSUME FlowInv, OpenSubshell
  PROVE  FlowsReachTheirTargets' /\ Simulated
<1>1. PICK e, nest, ctl, c, s, stack :
        Running(e, nest, ctl, c, s, stack) /\ Command = c /\ c.kind = "subshell" /\ calls = nest
  BY CommandRuns DEF OpenSubshell
<1>2. PICK call : call = [kind |-> "subshell"]
  OBVIOUS
<1>3. PICK inner : inner = Opened(call, nest)
  OBVIOUS
<1>4. PICK nest2, ctl2 : GoesTo(nest2, ctl2, <<>>) /\ Starts(c.body, TRUE, inner, nest2, ctl2)
  BY <1>1, <1>2, <1>3, SequenceStarts DEF OpenSubshell, Sequence
<1>5. c.kind \in CompoundKinds
  BY <1>1 DEF CompoundKinds
<1>6. /\ ~s.tested /\ e \in BOOLEAN /\ s \in Scope /\ Fits(c, s) /\ IsSequence(stack)
  BY <1>1, <1>5, NotTested
<1>7. AllMayStand(c.body, SubshellScope(s))
  BY <1>1, <1>6 DEF Fits
<1>8. CallFits(call, s) /\ call.kind = "subshell"
  BY <1>2, <1>6 DEF CallFits
<1>9. /\ NestFits(inner, e) /\ inner # <<>> /\ Head(inner).call = call
      /\ StackOf(inner) = Pending(call) \o stack /\ ScopeIn(inner) = Inside(call, s)
  BY <1>1, <1>3, <1>8, Deeper
<1>10. Pending(call) = <<ShellEnd(<<>>)>> /\ Inside(call, s) = SubshellScope(s)
  BY <1>8, PendingForms, InsideForms
<1>11. ~SubshellScope(s).tested
  BY <1>6, SubshellScopeIs
<1>12. /\ NestFits(nest2, e) /\ ControlFits(ctl2, nest2)
       /\ InShell(ctl2, nest2) = c.body \o StackOf(inner) /\ StatusOf(ctl2) = 0
  BY <1>4, <1>6, <1>7, <1>8, <1>9, <1>10, <1>11, Starting
<1>13. Shell!Open(c) \o stack = c.body \o StackOf(inner)
  <2>1. PICK a, x : a = c.body /\ x = ShellEnd(<<>>)
    OBVIOUS
  <2>2. IsSequence(a) /\ IsSequence(<<x>>)
    BY <1>7, <2>1, HeadStands, OneItem
  <2>3. Shell!Open(c) = a \o <<x>>
    BY <1>1, <2>1, <2>2, OpenForms, Appending
  <2>4. (a \o <<x>>) \o stack = a \o (<<x>> \o stack)
    BY <1>6, <2>2, Regrouped
  <2> QED BY <1>9, <1>10, <2>1, <2>3, <2>4
<1> QED BY <1>1, <1>4, <1>5, <1>12, <1>13, Compound

LEMMA OpenCallKeeps ==
  ASSUME FlowInv, OpenCall
  PROVE  FlowsReachTheirTargets' /\ Simulated
<1>1. PICK e, nest, ctl, c, s, stack :
        Running(e, nest, ctl, c, s, stack) /\ Command = c /\ c.kind = "call" /\ calls = nest
  BY CommandRuns DEF OpenCall
<1>2. PICK call : call = [kind |-> "call"]
  OBVIOUS
<1>3. PICK inner : inner = Opened(call, nest)
  OBVIOUS
<1>4. PICK nest2, ctl2 : GoesTo(nest2, ctl2, <<>>) /\ Starts(c.body, TRUE, inner, nest2, ctl2)
  BY <1>1, <1>2, <1>3, SequenceStarts DEF OpenCall, Sequence
<1>5. c.kind \in CompoundKinds
  BY <1>1 DEF CompoundKinds
<1>6. /\ ~s.tested /\ e \in BOOLEAN /\ s \in Scope /\ Fits(c, s) /\ IsSequence(stack)
  BY <1>1, <1>5, NotTested
<1>7. AllMayStand(c.body, CallScope(s))
  BY <1>1, <1>6 DEF Fits
<1>8. CallFits(call, s) /\ call.kind = "call"
  BY <1>2, <1>6 DEF CallFits
<1>9. /\ NestFits(inner, e) /\ inner # <<>> /\ Head(inner).call = call
      /\ StackOf(inner) = Pending(call) \o stack /\ ScopeIn(inner) = Inside(call, s)
  BY <1>1, <1>3, <1>8, Deeper
<1>10. Pending(call) = <<FunctionEnd>> /\ Inside(call, s) = CallScope(s)
  BY <1>8, PendingForms, InsideForms
<1>11. ~CallScope(s).tested
  BY <1>6, CallScopeIs
<1>12. /\ NestFits(nest2, e) /\ ControlFits(ctl2, nest2)
       /\ InShell(ctl2, nest2) = c.body \o StackOf(inner) /\ StatusOf(ctl2) = 0
  BY <1>4, <1>6, <1>7, <1>8, <1>9, <1>10, <1>11, Starting
<1>13. Shell!Open(c) \o stack = c.body \o StackOf(inner)
  <2>1. PICK a, x : a = c.body /\ x = FunctionEnd
    OBVIOUS
  <2>2. IsSequence(a) /\ IsSequence(<<x>>)
    BY <1>7, <2>1, HeadStands, OneItem
  <2>3. Shell!Open(c) = a \o <<x>>
    BY <1>1, <2>1, <2>2, OpenForms, Appending
  <2>4. (a \o <<x>>) \o stack = a \o (<<x>> \o stack)
    BY <1>6, <2>2, Regrouped
  <2> QED BY <1>9, <1>10, <2>1, <2>3, <2>4
<1> QED BY <1>1, <1>4, <1>5, <1>12, <1>13, Compound

LEMMA OpenSourceKeeps ==
  ASSUME FlowInv, OpenSource
  PROVE  FlowsReachTheirTargets' /\ Simulated
<1>1. PICK e, nest, ctl, c, s, stack :
        Running(e, nest, ctl, c, s, stack) /\ Command = c /\ c.kind = "source" /\ calls = nest
  BY CommandRuns DEF OpenSource
<1>2. c.kind \in CompoundKinds
  BY <1>1 DEF CompoundKinds
<1>3. /\ ~s.tested /\ (e => Head(nest).call.kind # "not")
      /\ e \in BOOLEAN /\ NestFits(nest, e) /\ nest # <<>>
      /\ s = ScopeIn(nest) /\ stack = StackOf(nest) /\ Fits(c, s)
      /\ s \in Scope /\ s.strict = e /\ IsSequence(stack)
  BY <1>1, <1>2, NotTested
<1>4. LinesMayStand(c.body, SourceScope(s))
  BY <1>1, <1>3 DEF Fits
<1>5. Shell!Open(c) = c.body
  BY <1>1, OpenForms
<1>6. CASE c.body = <<>>
  <2>1. PICK t : t = Result(0)
    OBVIOUS
  <2>2. GoesTo(nest, t, <<>>)
    BY <1>1, <1>6, <2>1, TurnsGo DEF OpenSource
  <2>3. /\ ResultFits(t, s) /\ Noticed(t, s) /\ t.kind = "result" /\ StatusOf(t) = 0
        /\ Reached(t, stack) = stack
    BY <2>1, SuccessFits
  <2>4. ControlFits(t, nest)
    BY <1>3, <2>3 DEF ControlFits, AnswerFits
  <2>5. InShell(t, nest) = Shell!Open(c) \o stack
    BY <1>3, <1>5, <1>6, <2>3, NothingJoined DEF InShell
  <2> QED BY <1>1, <1>2, <1>3, <2>2, <2>3, <2>4, <2>5, Compound
<1>7. CASE c.body # <<>>
  <2>1. PICK call : call = [kind |-> "source", command |-> Head(c.body), rest |-> Tail(c.body)]
    OBVIOUS
  <2>2. PICK inner, d : inner = Opened(call, nest) /\ d = Run(Head(c.body), 0)
    OBVIOUS
  <2>3. GoesTo(inner, d, <<>>)
    BY <1>1, <1>7, <2>1, <2>2, TurnsGo DEF OpenSource
  <2>4. /\ IsSequence(c.body) /\ LinesMayStand(Tail(c.body), SourceScope(s))
        /\ MayStand(Head(c.body), LineScope(SourceScope(s), Head(c.body)))
    BY <1>4, <1>7, FirstLineStands
  <2>5. /\ call.kind = "source" /\ call.command = Head(c.body) /\ call.rest = Tail(c.body)
        /\ call = [kind |-> call.kind, command |-> call.command, rest |-> call.rest]
    BY <2>1
  <2>6. CallFits(call, s)
    BY <1>3, <2>4, <2>5 DEF CallFits, LinesFit
  <2>7. /\ NestFits(inner, e) /\ inner # <<>> /\ Head(inner).call = call
        /\ StackOf(inner) = Pending(call) \o stack /\ ScopeIn(inner) = Inside(call, s)
    BY <1>1, <2>2, <2>5, <2>6, Deeper
  <2>8. Pending(call) = Tail(c.body) /\ Inside(call, s) = LineScope(SourceScope(s), Head(c.body))
    BY <2>5, PendingForms, InsideForms
  <2>9. CommandFits(Head(c.body), Head(inner).call, ScopeIn(inner))
    BY <2>4, <2>5, <2>7, <2>8 DEF CommandFits
  <2>10. /\ ControlFits(d, inner) /\ InShell(d, inner) = <<Head(c.body)>> \o StackOf(inner)
         /\ StatusOf(d) = 0
    BY <2>2, <2>7, <2>9, Commanding
  <2>11. InShell(d, inner) = Shell!Open(c) \o stack
    <3>1. PICK a, b : a = <<Head(c.body)>> /\ b = Tail(c.body)
      OBVIOUS
    <3>2. IsSequence(a) /\ IsSequence(b) /\ c.body = a \o b
      BY <1>7, <2>4, <3>1, Split, OneItem
    <3>3. (a \o b) \o stack = a \o (b \o stack)
      BY <1>3, <3>2, Regrouped
    <3> QED BY <1>5, <2>7, <2>8, <2>10, <3>1, <3>2, <3>3
  <2> QED BY <1>1, <1>2, <2>3, <2>7, <2>10, <2>11, Compound
<1> QED BY <1>6, <1>7

LEMMA OpenLoopKeeps ==
  ASSUME FlowInv, OpenLoop
  PROVE  FlowsReachTheirTargets' /\ Simulated
<1>1. PICK e, nest, ctl, c, s, stack :
        Running(e, nest, ctl, c, s, stack) /\ Command = c /\ c.kind \in Loops /\ calls = nest
  BY CommandRuns DEF OpenLoop
<1>2. c.kind \in CompoundKinds
  BY <1>1 DEF CompoundKinds
<1>3. /\ ~s.tested /\ s \in Scope /\ Fits(c, s) /\ IsSequence(stack)
  BY <1>1, <1>2, NotTested
<1>4. PICK t : t = Result(0)
  OBVIOUS
<1>5. PICK call : call = [kind |-> "loop", loop |-> c, i |-> 0, stage |-> "body", acc |-> t]
  OBVIOUS
<1>6. PICK inner : inner = Opened(call, nest)
  OBVIOUS
<1>7. GoesTo(inner, t, <<>>)
  BY <1>1, <1>4, <1>5, <1>6, TurnsGo DEF OpenLoop
<1>8. /\ \A sc : ResultFits(t, sc) /\ Noticed(t, sc)
      /\ t.kind = "result" /\ t.flow = NoFlow /\ ~t.left /\ StatusOf(t) = 0
      /\ \A st : Reached(t, st) = st
  BY <1>4, SuccessFits
<1>9. LoopFits(c, s)
  BY <1>1, <1>3 DEF Fits
<1>10. /\ call.kind = "loop" /\ call.loop = c /\ call.i = 0 /\ call.stage = "body" /\ call.acc = t
       /\ call = [kind |-> "loop", loop |-> call.loop, i |-> call.i, stage |-> call.stage, acc |-> call.acc]
  BY <1>5
<1>11. AccFits(t, s)
  BY <1>8 DEF AccFits
<1>12. CallFits(call, s)
  BY <1>1, <1>3, <1>9, <1>10, <1>11 DEF CallFits
<1>13. /\ NestFits(inner, e) /\ inner # <<>> /\ Head(inner).call = call
       /\ StackOf(inner) = Pending(call) \o stack
  BY <1>1, <1>6, <1>10, <1>12, Deeper
<1>14. Pending(call) = <<Round(c, 1)>>
  <2>1. call.i + 1 = 1
    BY <1>10
  <2>2. Pending(call) = <<Round(call.loop, call.i + 1)>>
    BY <1>10, PendingForms
  <2> QED BY <1>10, <2>1, <2>2
<1>15. ControlFits(t, inner)
  BY <1>8, <1>10, <1>13 DEF ControlFits, AnswerFits
<1>16. InShell(t, inner) = Shell!Open(c) \o stack
  BY <1>1, <1>8, <1>13, <1>14, OpenForms DEF InShell
<1> QED BY <1>1, <1>2, <1>7, <1>8, <1>13, <1>15, <1>16, Compound

LEMMA OpenIfKeeps ==
  ASSUME FlowInv, OpenIf
  PROVE  FlowsReachTheirTargets' /\ Simulated
<1>0. ToRun({"if"})
  BY DEF OpenIf
<1>1. PICK e, nest, ctl, c, s, stack :
        Running(e, nest, ctl, c, s, stack) /\ Command = c /\ c.kind = "if" /\ calls = nest
  BY <1>0, CommandRuns
<1>2. PICK call : call = [kind |-> "if", clauses |-> c.clauses, otherwise |-> c.otherwise,
                          stage |-> "condition"]
  OBVIOUS
<1>3. PICK inner, cmds : inner = Opened(call, nest) /\ cmds = Head(c.clauses).cond
  OBVIOUS
<1>4. PICK nest2, ctl2 : GoesTo(nest2, ctl2, <<>>) /\ Starts(cmds, FALSE, inner, nest2, ctl2)
  <2>1. Begins(cmds, FALSE, inner) /\ UNCHANGED <<ran, errexit>>
    BY <1>1, <1>2, <1>3 DEF OpenIf, ConditionSequence
  <2> QED BY <2>1, SequenceStarts
<1>5. c.kind \in CompoundKinds
  BY <1>1 DEF CompoundKinds
<1>6. /\ ~s.tested /\ e \in BOOLEAN /\ s \in Scope /\ Fits(c, s) /\ IsSequence(stack)
  BY <1>1, <1>5, NotTested
<1>7. ClausesFit(c.clauses, s) /\ AllMayStand(c.otherwise, s)
  BY <1>1, <1>6 DEF Fits
<1>8. /\ call.kind = "if" /\ call.clauses = c.clauses /\ call.otherwise = c.otherwise
      /\ call.stage = "condition"
      /\ call = [kind |-> "if", clauses |-> call.clauses, otherwise |-> call.otherwise, stage |-> call.stage]
  BY <1>2
<1>9. CallFits(call, s)
  BY <1>6, <1>7, <1>8 DEF CallFits
<1>10. /\ NestFits(inner, e) /\ inner # <<>> /\ Head(inner).call = call
       /\ StackOf(inner) = Pending(call) \o stack /\ ScopeIn(inner) = Inside(call, s)
  BY <1>1, <1>3, <1>8, <1>9, Deeper
<1>11. Pending(call) = <<Branch(c.clauses, c.otherwise)>> /\ Inside(call, s) = ConditionScope(s)
  BY <1>8, PendingForms, InsideForms
<1>12. AllMayStand(cmds, ConditionScope(s)) /\ Head(c.clauses) = c.clauses[1]
  BY <1>3, <1>7, ClausesStand
<1>13. PICK check \in BOOLEAN : check = FALSE
  OBVIOUS
<1>14. Starts(cmds, check, inner, nest2, ctl2) /\ ~check
  BY <1>4, <1>13
<1>15. /\ NestFits(nest2, e) /\ ControlFits(ctl2, nest2)
       /\ InShell(ctl2, nest2) = cmds \o StackOf(inner) /\ StatusOf(ctl2) = 0
  BY <1>6, <1>8, <1>10, <1>11, <1>12, <1>14, Starting
<1>16. Shell!Open(c) \o stack = cmds \o StackOf(inner)
  <2>1. PICK x : x = Branch(c.clauses, c.otherwise)
    OBVIOUS
  <2>2. IsSequence(cmds) /\ IsSequence(<<x>>)
    BY <1>12, HeadStands, OneItem
  <2>3. Shell!Open(c) = cmds \o <<x>>
    BY <1>1, <1>3, <1>12, <2>1, <2>2, OpenForms, Appending
  <2>4. (cmds \o <<x>>) \o stack = cmds \o (<<x>> \o stack)
    BY <1>6, <2>2, Regrouped
  <2> QED BY <1>10, <1>11, <2>1, <2>3, <2>4
<1> QED BY <1>1, <1>4, <1>5, <1>15, <1>16, Compound

LEMMA OpenCaseKeeps ==
  ASSUME FlowInv, OpenCase
  PROVE  FlowsReachTheirTargets' /\ Simulated
<1>0. ToRun({"case"})
  BY DEF OpenCase
<1>1. PICK e, nest, ctl, c, s, stack :
        Running(e, nest, ctl, c, s, stack) /\ Command = c /\ c.kind = "case" /\ calls = nest
  BY <1>0, CommandRuns
<1>2. c.kind \in CompoundKinds
  BY <1>1 DEF CompoundKinds
<1>3. /\ ~s.tested /\ s \in Scope /\ Fits(c, s) /\ IsSequence(stack)
  BY <1>1, <1>2, NotTested
<1>4. PICK t : t = Result(0)
  OBVIOUS
<1>5. PICK call : call = [kind |-> "case", arms |-> c.arms, after |-> ";;&"]
  OBVIOUS
<1>6. PICK inner : inner = Opened(call, nest)
  OBVIOUS
<1>7. GoesTo(inner, t, <<>>)
  BY <1>1, <1>4, <1>5, <1>6, TurnsGo DEF OpenCase
<1>8. /\ \A sc : ResultFits(t, sc) /\ Noticed(t, sc)
      /\ t.kind = "result" /\ StatusOf(t) = 0
      /\ \A st : Reached(t, st) = st
  BY <1>4, SuccessFits
<1>9. ArmsFit(c.arms, s)
  BY <1>1, <1>3 DEF Fits
<1>10. /\ call.kind = "case" /\ call.arms = c.arms /\ call.after = ";;&"
       /\ call = [kind |-> "case", arms |-> call.arms, after |-> call.after]
  BY <1>5
<1>11. CallFits(call, s) /\ call.kind \notin {"script", "sequence"}
  BY <1>3, <1>9, <1>10 DEF CallFits
<1>12. /\ NestFits(inner, e) /\ inner # <<>> /\ Head(inner).call = call
       /\ StackOf(inner) = Pending(call) \o stack
  BY <1>1, <1>6, <1>11, Deeper
<1>13. Pending(call) = <<Arms(c.arms, FALSE)>>
  <2>1. Pending(call) = <<Arms(call.arms, call.after = ";&")>>
    BY <1>10, PendingForms
  <2>2. PICK m : m = call.after
    OBVIOUS
  <2>3. (m = ";&") = FALSE
    BY <1>10, <2>2
  <2>4. Arms(call.arms, m = ";&") = Arms(c.arms, FALSE)
    BY <1>10, <2>3, Zenon
  <2> QED BY <2>1, <2>2, <2>4
<1>14. ControlFits(t, inner)
  BY <1>8, <1>10, <1>12 DEF ControlFits, AnswerFits
<1>15. InShell(t, inner) = Shell!Open(c) \o stack
  BY <1>1, <1>8, <1>12, <1>13, OpenForms DEF InShell
<1> QED BY <1>1, <1>2, <1>7, <1>8, <1>12, <1>14, <1>15, Compound

LEMMA OpenListKeeps ==
  ASSUME FlowInv, OpenList
  PROVE  FlowsReachTheirTargets' /\ Simulated
<1>0. ToRun({"list"})
  BY DEF OpenList
<1>1. PICK e, nest, ctl, c, s, stack :
        Running(e, nest, ctl, c, s, stack) /\ Command = c /\ c.kind = "list" /\ calls = nest
  BY <1>0, CommandRuns
<1>2. c.kind \in CompoundKinds
  BY <1>1 DEF CompoundKinds
<1>3. /\ ~s.tested /\ s \in Scope /\ Fits(c, s) /\ IsSequence(stack)
  BY <1>1, <1>2, NotTested
<1>4. PICK call : call = [kind |-> "list", op |-> ";", rest |-> c.rest]
  OBVIOUS
<1>a. PICK inner : inner = Opened(call, nest)
  OBVIOUS
<1>5. PICK d : d = Run(c.first, 0)
  OBVIOUS
<1>b. Running(e, nest, ctl, c, s, stack)
  BY <1>1
<1>6. GoesTo(inner, d, <<>>)
  BY <1>1, <1>4, <1>5, <1>a, TurnsGo DEF OpenList
<1>7. ListFits(c, s)
  BY <1>1, <1>3 DEF Fits
<1>8. /\ c.rest # <<>> /\ RestFits(c.rest, s)
      /\ MayStand(c.first, ListScope(s, ";", Leading(c.rest)))
  BY <1>7 DEF ListFits
<1>9. /\ call.kind = "list" /\ call.op = ";" /\ call.rest = c.rest
      /\ call = [kind |-> "list", op |-> call.op, rest |-> call.rest]
  BY <1>4
<1>10. CallFits(call, s) /\ call.kind \notin {"script", "sequence"}
  BY <1>3, <1>8, <1>9 DEF CallFits
<1>11. /\ NestFits(inner, e) /\ inner # <<>> /\ Head(inner).call = call
       /\ StackOf(inner) = Pending(call) \o stack /\ ScopeIn(inner) = Inside(call, s)
  BY <1>a, <1>b, <1>10, Deeper
<1>c. Pending(call) = <<Operator(call.rest)>> /\ Inside(call, s) = ListScope(s, call.op, Leading(call.rest))
  BY <1>9, PendingForms, InsideForms
<1>12. Pending(call) = <<Operator(c.rest)>> /\ Inside(call, s) = ListScope(s, ";", Leading(c.rest))
  BY <1>9, <1>c
<1>13. CommandFits(c.first, Head(inner).call, ScopeIn(inner))
  BY <1>8, <1>9, <1>11, <1>12 DEF CommandFits
<1>14. ControlFits(d, inner) /\ InShell(d, inner) = <<c.first>> \o StackOf(inner) /\ StatusOf(d) = 0
  BY <1>5, <1>11, <1>13, Commanding
<1>15. InShell(d, inner) = Shell!Open(c) \o stack
  <2>1. PICK a, b : a = <<c.first>> /\ b = <<Operator(c.rest)>>
    OBVIOUS
  <2>2. IsSequence(a) /\ IsSequence(b)
    BY <2>1, OneItem
  <2>3. (a \o b) \o stack = a \o (b \o stack)
    BY <1>3, <2>2, Regrouped
  <2>4. Shell!Open(c) = <<c.first, Operator(c.rest)>>
    BY <1>1, OpenForms
  <2>5. <<c.first, Operator(c.rest)>> = a \o b
    BY <2>1
  <2> QED BY <1>11, <1>12, <1>14, <2>1, <2>3, <2>4, <2>5
<1> QED BY <1>1, <1>2, <1>6, <1>11, <1>14, <1>15, Compound

(* The stages of a pipeline, in the nest of the pipeline or of its !.      *)
LEMMA OpenPipelineKeeps ==
  ASSUME FlowInv, OpenPipeline
  PROVE  FlowsReachTheirTargets' /\ Simulated
<1>0. ToRun({"pipeline"})
  BY DEF OpenPipeline
<1>1. PICK e, nest, ctl, c, s, stack :
        Running(e, nest, ctl, c, s, stack) /\ Command = c /\ c.kind = "pipeline" /\ calls = nest
  BY <1>0, CommandRuns
<1>2. c.kind \in CompoundKinds
  BY <1>1 DEF CompoundKinds
<1>3. /\ ~s.tested /\ (e => Head(nest).call.kind # "not")
      /\ e \in BOOLEAN /\ NestFits(nest, e) /\ nest # <<>>
      /\ s = ScopeIn(nest) /\ stack = StackOf(nest) /\ Fits(c, s)
      /\ s \in Scope /\ s.strict = e /\ IsSequence(stack)
  BY <1>1, <1>2, NotTested
<1>4. PICK not, mid, in, out :
        /\ not = [kind |-> "not"]
        /\ mid = (IF c.negated THEN Opened(not, nest) ELSE nest)
        /\ in = (IF c.negated THEN NegatedScope(s) ELSE s)
        /\ out = (IF c.negated THEN <<Invert>> ELSE <<>>)
  OBVIOUS
<1>5. PICK first, later : first = Head(c.stages) /\ later = Tail(c.stages)
  OBVIOUS
<1>6. /\ c.negated \in BOOLEAN /\ c.stages # <<>>
      /\ IF Len(c.stages) = 1 THEN AllMayStand(c.stages, in) ELSE StagesFit(c.stages, in)
      /\ s.strict /\ c.negated => Len(c.stages) = 1 /\ c.stages[1].kind = "do" /\ c.stages[1].status # 0
  BY <1>1, <1>3, <1>4 DEF Fits, PipelineFits
<1>7. CallFits(not, s) /\ not.kind = "not" /\ ~(not.kind \in {"script", "sequence"})
  BY <1>3, <1>4 DEF CallFits
<1>8. /\ NestFits(mid, e) /\ mid # <<>> /\ ScopeIn(mid) = in /\ StackOf(mid) = out \o stack
      /\ IsSequence(out)
      /\ c.negated => Head(mid).call.kind = "not"
      /\ ~c.negated => mid = nest
  <2>1. CASE c.negated
    <3>1. mid = Opened(not, nest) /\ in = NegatedScope(s) /\ out = <<Invert>>
      BY <1>4, <2>1
    <3>2. /\ NestFits(mid, e) /\ mid # <<>> /\ Head(mid).call = not
          /\ StackOf(mid) = Pending(not) \o stack /\ ScopeIn(mid) = Inside(not, s)
      BY <1>1, <1>7, <3>1, Deeper
    <3>3. Pending(not) = <<Invert>> /\ Inside(not, s) = NegatedScope(s)
      BY <1>7, PendingForms, InsideForms
    <3> QED BY <1>7, <2>1, <3>1, <3>2, <3>3, OneItem
  <2>2. CASE ~c.negated
    <3>1. mid = nest /\ in = s /\ out = <<>>
      BY <1>4, <2>2
    <3> QED BY <1>3, <2>2, <3>1, NothingJoined, Nothing
  <2> QED BY <2>1, <2>2
<1>9. in \in Scope /\ in.strict = e
  BY <1>3, <1>8, Inwards
<1>10. IsSequence(c.stages)
  BY <1>6 DEF AllMayStand, StagesFit
<1>11. /\ c.stages = <<first>> \o later /\ IsSequence(later) /\ first = c.stages[1]
       /\ (Len(c.stages) = 1 <=> later = <<>>)
  <2>1. /\ c.stages = <<first>> \o later /\ IsSequence(later) /\ first = c.stages[1]
        /\ Len(later) = Len(c.stages) - 1
    BY <1>5, <1>6, <1>10, Split
  <2>2. Len(c.stages) \in Nat /\ Len(later) \in Nat /\ (later = <<>> <=> Len(later) = 0)
    BY <1>10, <2>1, Lengths
  <2> QED BY <2>1, <2>2
<1>12. PICK d : d = Run(first, 0)
  OBVIOUS
<1>13. Shell!Open(c) = (IF Len(c.stages) = 1 THEN c.stages ELSE <<first, ShellEnd(later)>>) \o out
  BY <1>1, <1>4, <1>5, <1>11, OpenForms
<1>14. CASE Len(c.stages) = 1
  <2>1. GoesTo(mid, d, <<>>)
    BY <1>1, <1>4, <1>5, <1>12, <1>14, TurnsGo DEF OpenPipeline
  <2>2. MayStand(first, in)
    BY <1>5, <1>6, <1>14, HeadStands
  <2>3. CommandFits(first, Head(mid).call, ScopeIn(mid))
    <3>1. CASE c.negated
      BY <1>3, <1>6, <1>8, <1>9, <1>11, <2>2, <3>1 DEF CommandFits
    <3>2. CASE ~c.negated
      BY <1>3, <1>8, <1>9, <2>2, <3>2 DEF CommandFits
    <3> QED BY <3>1, <3>2
  <2>4. ControlFits(d, mid) /\ InShell(d, mid) = <<first>> \o StackOf(mid) /\ StatusOf(d) = 0
    BY <1>8, <1>12, <2>3, Commanding
  <2>5. InShell(d, mid) = Shell!Open(c) \o stack
    <3>1. PICK a : a = <<first>>
      OBVIOUS
    <3>2. c.stages = a
      BY <1>11, <1>14, <3>1, OneItem, NothingJoined
    <3>3. IsSequence(a) /\ (a \o out) \o stack = a \o (out \o stack)
      BY <1>3, <1>8, <3>1, OneItem, Regrouped
    <3> QED BY <1>8, <1>13, <1>14, <2>4, <3>1, <3>2, <3>3
  <2> QED BY <1>1, <1>2, <1>8, <2>1, <2>4, <2>5, Compound
<1>15. CASE Len(c.stages) # 1
  <2>1. PICK call : call = [kind |-> "stages", rest |-> later]
    OBVIOUS
  <2>2. PICK inner : inner = Opened(call, mid)
    OBVIOUS
  <2>3. GoesTo(inner, d, <<>>)
    <3>1. Turns(inner, d)
      BY <1>1, <1>4, <1>5, <1>12, <1>15, <2>1, <2>2 DEF OpenPipeline
    <3> QED BY <3>1, TurnsGo
  <2>4. /\ MayStand(first, IF later = <<>> THEN LastStageScope(in) ELSE StageScope(in))
        /\ StagesFit(later, in)
    BY <1>5, <1>6, <1>15, StagesStand
  <2>5. ~in.tested
    BY <1>3, <1>4, <1>6, <1>15, NegatedScopeIs
  <2>6. call.kind = "stages" /\ call.rest = later /\ call = [kind |-> "stages", rest |-> call.rest]
    BY <2>1
  <2>7. CallFits(call, in) /\ call.kind \notin {"script", "sequence"}
    BY <2>4, <2>5, <2>6 DEF CallFits
  <2>8. /\ NestFits(inner, e) /\ inner # <<>> /\ Head(inner).call = call
        /\ StackOf(inner) = Pending(call) \o StackOf(mid) /\ ScopeIn(inner) = Inside(call, in)
    <3>1. CallFits(call, ScopeIn(mid)) /\ call.kind # "script" /\ call.kind # "sequence"
      BY <1>8, <2>7
    <3>2. NestFits(mid, e) /\ mid # <<>> /\ e \in BOOLEAN
      BY <1>3, <1>8
    <3>3. /\ NestFits(inner, e) /\ inner # <<>> /\ Head(inner).call = call
          /\ StackOf(inner) = Pending(call) \o StackOf(mid) /\ ScopeIn(inner) = Inside(call, ScopeIn(mid))
      BY <2>2, <3>1, <3>2, Opening
    <3> QED BY <1>8, <3>3
  <2>9. /\ Pending(call) = <<ShellEnd(later)>>
        /\ Inside(call, in) = IF later = <<>> THEN LastStageScope(in) ELSE StageScope(in)
    BY <2>6, PendingForms, InsideForms
  <2>10. CommandFits(first, Head(inner).call, ScopeIn(inner))
    BY <2>4, <2>6, <2>8, <2>9 DEF CommandFits
  <2>11. ControlFits(d, inner) /\ InShell(d, inner) = <<first>> \o StackOf(inner) /\ StatusOf(d) = 0
    BY <1>12, <2>8, <2>10, Commanding
  <2>12. InShell(d, inner) = Shell!Open(c) \o stack
    <3>1. PICK a, b : a = <<first>> /\ b = <<ShellEnd(later)>>
      OBVIOUS
    <3>2. IsSequence(a) /\ IsSequence(b) /\ IsSequence(out) /\ IsSequence(stack)
      BY <1>3, <1>8, <3>1, OneItem
    <3>3. <<first, ShellEnd(later)>> = a \o b
      BY <3>1
    <3>4. PICK opened, rest : opened = Shell!Open(c) /\ rest = b \o (out \o stack)
      OBVIOUS
    <3>5. opened = (a \o b) \o out
      BY <1>13, <1>15, <3>3, <3>4
    <3>6. opened \o stack = a \o rest
      BY <3>2, <3>4, <3>5, OpenedRegrouped, SMTT(30)
    <3> QED BY <1>8, <2>8, <2>9, <2>11, <3>1, <3>4, <3>6
  <2> QED BY <1>1, <1>2, <2>3, <2>8, <2>11, <2>12, Compound
<1> QED BY <1>14, <1>15

----------------------------------------------------------------------------
(* Calls end or go on.                                                     *)
LEMMA SameWay ==
  ASSUME NEW r, NEW t, t.flow = r.flow, t.left = r.left
  PROVE  \A stack : Reached(t, stack) = Reached(r, stack)
BY DEF Reached

LEMMA SameStatus ==
  ASSUME NEW r, NEW t, t.flow = r.flow, t.status = r.status, IsResult(r), IsResult(t)
  PROVE  StatusOf(t) = StatusOf(r)
BY DEF StatusOf, IsResult

LEMMA StatusForms ==
  ASSUME NEW r, IsResult(r)
  PROVE  /\ r.kind = "result"
         /\ r.flow = NoFlow => StatusOf(r) = r.status
         /\ r.flow.kind \in {"break", "continue"} => StatusOf(r) = r.status
         /\ r.flow.kind \in {"return", "exit"} => StatusOf(r) = r.flow.n
BY FlowKinds DEF StatusOf, IsResult

LEMMA BackStutters ==
  ASSUME FlowInv,
         NEW e, NEW nest, NEW r, NEW call, NEW s, NEW below, NEW outer,
         Inner(e, nest, r, call, s, below, outer), At0(e, nest, r),
         NEW t, GoesTo(outer, t, <<>>),
         outer # <<>> => ResultFits(t, s) /\ (Noticed(t, s) \/ s.tested),
         IsResult(t), outer = <<>> => t.flow = NoFlow,
         Reached(t, below) = Reached(r, Pending(call) \o below), StatusOf(t) = StatusOf(r)
  PROVE  FlowsReachTheirTargets' /\ Simulated
<1>1. NestFits(outer, e) /\ ControlFits(t, outer) /\ InShell(t, outer) = Reached(t, below)
  BY Ending
<1>2. InShell(r, nest) = Reached(r, Pending(call) \o below)
  BY InnerIs
<1>3. InShell(t, outer) = InShell(r, nest)
  BY <1>1, <1>2
<1> QED BY <1>1, <1>3, Stuttering

LEMMA BackMoves ==
  ASSUME NEW e, NEW nest, NEW r, NEW call, NEW s, NEW below, NEW outer,
         Inner(e, nest, r, call, s, below, outer), At0(e, nest, r),
         NEW t, GoesTo(outer, t, <<>>),
         outer # <<>> => ResultFits(t, s) /\ (Noticed(t, s) \/ s.tested),
         IsResult(t), outer = <<>> => t.flow = NoFlow,
         NEW x, Reached(r, Pending(call) \o below) = <<x>> \o below,
         NEW u, Reached(t, below) = u, NEW v, StatusOf(t) = v
  PROVE  /\ FlowsReachTheirTargets' /\ Moves(x, below, u, v, <<>>)
         /\ ShellStatus = StatusOf(r) /\ errexit = e /\ IsSequence(below)
<1>1. NestFits(outer, e) /\ ControlFits(t, outer) /\ InShell(t, outer) = Reached(t, below)
  BY Ending
<1>2. InShell(r, nest) = Reached(r, Pending(call) \o below) /\ IsSequence(below)
  BY InnerIs
<1>3. InShell(t, outer) = u /\ InShell(r, nest) = <<x>> \o below
  BY <1>1, <1>2
<1>4. PICK out : out = <<>>
  OBVIOUS
<1>5. GoesTo(outer, t, out)
  BY <1>4
<1>6. /\ FlowsReachTheirTargets' /\ Moves(x, below, u, v, out)
      /\ ShellStatus = StatusOf(r) /\ errexit = e
  BY <1>1, <1>3, <1>5, Moved
<1> QED BY <1>2, <1>4, <1>6

LEMMA Going ==
  ASSUME NEW e, NEW nest, NEW r, NEW call, NEW s, NEW below, NEW outer,
         Inner(e, nest, r, call, s, below, outer),
         NEW next, CallFits(next, s), next.kind = call.kind,
         call.kind = "sequence" => next.check = call.check,
         NEW stay, stay = KeptIn(nest, next)
  PROVE  /\ NestFits(stay, e) /\ stay # <<>> /\ Head(stay).call = next
         /\ StackOf(stay) = Pending(next) \o below /\ ScopeIn(stay) = Inside(next, s)
         /\ IsSequence(Pending(next)) /\ ScopeIn(stay) \in Scope /\ ScopeIn(stay).strict = e
<1>1. /\ e \in BOOLEAN /\ NestFits(nest, e) /\ nest # <<>>
      /\ call = Head(nest).call /\ s = Head(nest).scope /\ below = Head(nest).below
      /\ s \in Scope
  BY InnerIs DEF Inner
<1>2. /\ NestFits(stay, e) /\ stay # <<>> /\ Head(stay).call = next
      /\ StackOf(stay) = Pending(next) \o below /\ ScopeIn(stay) = Inside(next, s)
  BY <1>1, Keeping
<1>3. IsSequence(Pending(next))
  BY <1>1, PendingFits
<1>4. ScopeIn(stay) \in Scope /\ ScopeIn(stay).strict = e
  BY <1>1, <1>2, Inwards
<1> QED BY <1>2, <1>3, <1>4

LEMMA KeptIs ==
  ASSUME NEW nest, nest = calls, NEW c
  PROVE  Kept(c) = KeptIn(nest, c)
BY DEF Kept, KeptIn, Callers

(* A failure that has left the shell, and a result with a flow, pass what   *)
(* is no target of theirs.                                                 *)
LEMMA Passing ==
  ASSUME NEW r, NEW s, ResultFits(r, s), NEW a, Between(a), NEW b, IsSequence(b),
         a = <<>> \/ r.flow # NoFlow \/ r.left
  PROVE  Reached(r, a \o b) = Reached(r, b)
<1>1. CASE a = <<>>
  BY <1>1, NothingJoined
<1>2. CASE r.flow # NoFlow \/ r.left
  BY <1>2, ReachedSkips DEF ResultFits
<1> QED BY <1>1, <1>2

(* Nothing passes the end of a shell.                                      *)
LEMMA AtShellEnd ==
  ASSUME NEW r, NEW s, ResultFits(r, s), s.loops = 0, NEW x, x.kind = "shellend",
         NEW b, IsSequence(b)
  PROVE  Reached(r, <<x>> \o b) = <<x>> \o b
<1>1. FlowFits(r, s)
  BY DEF ResultFits
<1>a. ASSUME NEW kinds, x.kind \in kinds
      PROVE  From(kinds, 1, <<x>> \o b) = <<x>> \o b
  BY <1>a, FromHere
<1>2. From({"shellend"}, 1, <<x>> \o b) = <<x>> \o b
  <2>1. PICK kinds : kinds = {"shellend"}
    OBVIOUS
  <2>2. x.kind \in kinds
    BY <2>1
  <2>3. From(kinds, 1, <<x>> \o b) = <<x>> \o b
    BY <1>a, <2>2
  <2> QED BY <2>1, <2>3
<1>3. From({"functionend", "shellend"}, 1, <<x>> \o b) = <<x>> \o b
  <2>1. PICK kinds : kinds = {"functionend", "shellend"}
    OBVIOUS
  <2>2. x.kind \in kinds
    BY <2>1
  <2>3. From(kinds, 1, <<x>> \o b) = <<x>> \o b
    BY <1>a, <2>2
  <2> QED BY <2>1, <2>3
<1>4. r.flow = NoFlow \/ r.flow.kind \in {"return", "exit"}
  <2>1. SUFFICES ASSUME r.flow # NoFlow, r.flow.kind \in {"break", "continue"} PROVE FALSE
    BY <1>1, FlowOf
  <2>2. r.flow.n \in 1 .. s.loops
    BY <1>1, <2>1 DEF FlowFits
  <2>3. r.flow.n \in 1 .. 0
    BY <2>2
  <2> QED BY <2>3
<1>5. PICK c : c = <<x>> \o b
  OBVIOUS
<1>b. From({"shellend"}, 1, c) = c /\ From({"functionend", "shellend"}, 1, c) = c
  BY <1>2, <1>3, <1>5
<1>6. Reached(r, c) = c
  <2>1. CASE r.flow = NoFlow
    <3>1. r.left \in BOOLEAN
      BY DEF ResultFits, IsResult
    <3> QED BY <1>b, <2>1, <3>1, ReachedForms
  <2>2. CASE r.flow.kind = "return"
    BY <1>b, <2>2, ReachedForms
  <2>3. CASE r.flow.kind = "exit"
    BY <1>b, <2>3, ReachedForms
  <2> QED BY <1>4, <2>1, <2>2, <2>3
<1> QED BY <1>5, <1>6

(* A call with some of its parts changed.                                  *)
LEMMA SequenceGoesOnFields ==
  ASSUME NEW k, NEW xrest, NEW xcheck,
         NEW call, call = [kind |-> k, rest |-> xrest, check |-> xcheck],
         NEW newrest, NEW next,
         next = [call EXCEPT !.rest = newrest]
  PROVE  /\ next = [kind |-> k, rest |-> newrest, check |-> xcheck]
         /\ next.kind = k /\ next.rest = newrest /\ next.check = xcheck
OBVIOUS

LEMMA SequenceGoesOn ==
  ASSUME NEW call, call = [kind |-> "sequence", rest |-> call.rest, check |-> call.check],
         NEW newrest, NEW next,
         next = [call EXCEPT !.rest = newrest]
  PROVE  /\ next = [kind |-> "sequence", rest |-> next.rest, check |-> next.check]
         /\ next.kind = call.kind
         /\ next.rest = newrest /\ next.check = call.check
<1>1. PICK k, xrest, xcheck :
        k = call.kind /\ xrest = call.rest /\ xcheck = call.check
  OBVIOUS
<1>2. k = "sequence"
  BY <1>1
<1>3. call = [kind |-> k, rest |-> xrest, check |-> xcheck]
  BY <1>1, <1>2
<1>4. /\ next = [kind |-> k, rest |-> newrest, check |-> xcheck]
      /\ next.kind = k /\ next.rest = newrest /\ next.check = xcheck
  BY <1>3, SequenceGoesOnFields
<1> QED BY <1>1, <1>2, <1>4

LEMMA LinesGoOnFields ==
  ASSUME NEW k, NEW xcommand, NEW xrest,
         NEW call, call = [kind |-> k, command |-> xcommand, rest |-> xrest],
         NEW newcommand, NEW newrest, NEW next,
         next = [call EXCEPT !.command = newcommand, !.rest = newrest]
  PROVE  /\ next = [kind |-> k, command |-> newcommand, rest |-> newrest]
         /\ next.kind = k /\ next.command = newcommand /\ next.rest = newrest
OBVIOUS

LEMMA LinesGoOn ==
  ASSUME NEW call, call = [kind |-> call.kind, command |-> call.command, rest |-> call.rest],
         NEW newcommand, NEW newrest, NEW next,
         next = [call EXCEPT !.command = newcommand, !.rest = newrest]
  PROVE  /\ next = [kind |-> next.kind, command |-> next.command, rest |-> next.rest]
         /\ next.kind = call.kind
         /\ next.command = newcommand /\ next.rest = newrest
<1>1. PICK k, xcommand, xrest :
        k = call.kind /\ xcommand = call.command /\ xrest = call.rest
  OBVIOUS
<1>2. k = call.kind
  BY <1>1
<1>3. call = [kind |-> k, command |-> xcommand, rest |-> xrest]
  BY <1>1, <1>2
<1>4. /\ next = [kind |-> k, command |-> newcommand, rest |-> newrest]
      /\ next.kind = k /\ next.command = newcommand /\ next.rest = newrest
  BY <1>3, LinesGoOnFields
<1> QED BY <1>1, <1>2, <1>4

LEMMA LoopGoesOnFields ==
  ASSUME NEW k, NEW xloop, NEW xi, NEW xstage, NEW xacc,
         NEW call, call = [kind |-> k, loop |-> xloop, i |-> xi, stage |-> xstage, acc |-> xacc],
         NEW newi, NEW newstage, NEW newacc, NEW next,
         next = [call EXCEPT !.i = newi, !.stage = newstage, !.acc = newacc]
  PROVE  /\ next = [kind |-> k, loop |-> xloop, i |-> newi, stage |-> newstage, acc |-> newacc]
         /\ next.kind = k /\ next.loop = xloop /\ next.i = newi /\ next.stage = newstage /\ next.acc = newacc
OBVIOUS

LEMMA BranchGoesOnFields ==
  ASSUME NEW k, NEW xclauses, NEW xotherwise, NEW xstage,
         NEW call, call = [kind |-> k, clauses |-> xclauses, otherwise |-> xotherwise, stage |-> xstage],
         NEW newclauses, NEW next,
         next = [call EXCEPT !.clauses = newclauses]
  PROVE  /\ next = [kind |-> k, clauses |-> newclauses, otherwise |-> xotherwise, stage |-> xstage]
         /\ next.kind = k /\ next.clauses = newclauses /\ next.otherwise = xotherwise /\ next.stage = xstage
OBVIOUS

LEMMA BranchIsTakenFields ==
  ASSUME NEW k, NEW xclauses, NEW xotherwise, NEW xstage,
         NEW call, call = [kind |-> k, clauses |-> xclauses, otherwise |-> xotherwise, stage |-> xstage],
         NEW newstage, NEW next,
         next = [call EXCEPT !.stage = newstage]
  PROVE  /\ next = [kind |-> k, clauses |-> xclauses, otherwise |-> xotherwise, stage |-> newstage]
         /\ next.kind = k /\ next.clauses = xclauses /\ next.otherwise = xotherwise /\ next.stage = newstage
OBVIOUS

LEMMA CaseGoesOnFields ==
  ASSUME NEW k, NEW xarms, NEW xafter,
         NEW call, call = [kind |-> k, arms |-> xarms, after |-> xafter],
         NEW newarms, NEW newafter, NEW next,
         next = [call EXCEPT !.arms = newarms, !.after = newafter]
  PROVE  /\ next = [kind |-> k, arms |-> newarms, after |-> newafter]
         /\ next.kind = k /\ next.arms = newarms /\ next.after = newafter
OBVIOUS

LEMMA ListGoesOnFields ==
  ASSUME NEW k, NEW xop, NEW xrest,
         NEW call, call = [kind |-> k, op |-> xop, rest |-> xrest],
         NEW newop, NEW newrest, NEW next,
         next = [call EXCEPT !.op = newop, !.rest = newrest]
  PROVE  /\ next = [kind |-> k, op |-> newop, rest |-> newrest]
         /\ next.kind = k /\ next.op = newop /\ next.rest = newrest
OBVIOUS

LEMMA StagesGoOnFields ==
  ASSUME NEW k, NEW xrest,
         NEW call, call = [kind |-> k, rest |-> xrest],
         NEW newrest, NEW next,
         next = [call EXCEPT !.rest = newrest]
  PROVE  /\ next = [kind |-> k, rest |-> newrest]
         /\ next.kind = k /\ next.rest = newrest
OBVIOUS

LEMMA StagesGoOn ==
  ASSUME NEW call, call = [kind |-> "stages", rest |-> call.rest],
         NEW newrest, NEW next,
         next = [call EXCEPT !.rest = newrest]
  PROVE  /\ next = [kind |-> "stages", rest |-> next.rest]
         /\ next.kind = call.kind
         /\ next.rest = newrest
<1>1. PICK k, xrest :
        k = call.kind /\ xrest = call.rest
  OBVIOUS
<1>2. k = "stages"
  BY <1>1
<1>3. call = [kind |-> k, rest |-> xrest]
  BY <1>1, <1>2
<1>4. /\ next = [kind |-> k, rest |-> newrest]
      /\ next.kind = k /\ next.rest = newrest
  BY <1>3, StagesGoOnFields
<1> QED BY <1>1, <1>2, <1>4

LEMMA LeaveSequenceKeeps ==
  ASSUME FlowInv, LeaveSequence
  PROVE  FlowsReachTheirTargets' /\ Simulated
<1>0. BackIn({"sequence"})
  BY DEF LeaveSequence
<1>1. PICK e, nest, r, call, s, below, outer :
        /\ Inner(e, nest, r, call, s, below, outer) /\ At0(e, nest, r)
        /\ Innermost = call /\ call.kind = "sequence" /\ Callers = outer
  BY <1>0, Resumed
<1>2. PICK t : t = Unsuppressed(r)
  OBVIOUS
<1>3. GoesTo(outer, t, <<>>)
  BY <1>1, <1>2, TurnsGo DEF LeaveSequence, At0
<1>4. r.flow # NoFlow \/ (call.check /\ e /\ r.status # 0 /\ ~r.suppressed)
  BY <1>1 DEF LeaveSequence, SequenceStops, Flowing, At0
<1>5. /\ e \in BOOLEAN /\ s.strict = e /\ CallFits(call, s) /\ IsSequence(below)
      /\ AnswerFits(r, call, Inside(call, s)) /\ ResultFits(r, Inside(call, s)) /\ IsResult(r)
      /\ outer # <<>> /\ (call.check => ~s.tested)
  BY <1>1, InnerIs
<1>6. Inside(call, s) = s /\ Pending(call) = call.rest
  BY <1>1, InsideForms, PendingForms
<1>7. /\ IsResult(t) /\ t.status = r.status /\ t.flow = r.flow /\ ~t.suppressed /\ t.left = r.left
  BY <1>2, <1>5, UnsuppressedIs
<1>8. ResultFits(r, s) /\ (Noticed(r, s) \/ s.tested)
  BY <1>1, <1>5, <1>6 DEF AnswerFits
<1>9. ResultFits(t, s)
  BY <1>7, <1>8 DEF ResultFits, FlowFits
<1>10. Noticed(t, s) \/ s.tested
  BY <1>4, <1>5, <1>7, <1>8 DEF Noticed
<1>11. r.flow # NoFlow \/ r.left
  BY <1>4, <1>5, <1>8 DEF Noticed
<1>12. Between(call.rest)
  BY <1>1, <1>5, BetweenForms DEF CallFits
<1>13. Reached(r, Pending(call) \o below) = Reached(r, below)
  BY <1>5, <1>6, <1>8, <1>11, <1>12, Passing
<1>14. Reached(t, below) = Reached(r, Pending(call) \o below)
  BY <1>7, <1>13, SameWay
<1>15. StatusOf(t) = StatusOf(r)
  BY <1>5, <1>7, SameStatus
<1> QED BY <1>1, <1>3, <1>5, <1>7, <1>9, <1>10, <1>14, <1>15, BackStutters

LEMMA EndSequenceKeeps ==
  ASSUME FlowInv, EndSequence
  PROVE  FlowsReachTheirTargets' /\ Simulated
<1>0. BackIn({"sequence"})
  BY DEF EndSequence
<1>1. PICK e, nest, r, call, s, below, outer :
        /\ Inner(e, nest, r, call, s, below, outer) /\ At0(e, nest, r)
        /\ Innermost = call /\ call.kind = "sequence" /\ Callers = outer
  BY <1>0, Resumed
<1>5. /\ e \in BOOLEAN /\ s.strict = e /\ CallFits(call, s) /\ IsSequence(below)
      /\ AnswerFits(r, call, Inside(call, s)) /\ ResultFits(r, Inside(call, s)) /\ IsResult(r)
      /\ outer # <<>>
  BY <1>1, InnerIs
<1>2. PICK b \in BOOLEAN : b = (r.suppressed /\ r.status # 0)
  BY Zenon
<1>a. PICK t : t = [r EXCEPT !.suppressed = b]
  OBVIOUS
<1>b. [control EXCEPT !.suppressed = @ /\ control.status # 0] = t
  BY <1>1, <1>2, <1>a, Zenon DEF At0
<1>3. GoesTo(outer, t, <<>>)
  BY <1>1, <1>b, TurnsGo DEF EndSequence
<1>4. r.flow = NoFlow /\ call.rest = <<>>
  BY <1>1 DEF EndSequence, SequenceStops, Flowing, At0
<1>6. Inside(call, s) = s /\ Pending(call) = <<>>
  BY <1>1, <1>4, InsideForms, PendingForms
<1>7. IsResult(t) /\ t.status = r.status /\ t.flow = r.flow /\ t.suppressed = b /\ t.left = r.left
  BY <1>a, <1>5, WithSuppressed
<1>8. ResultFits(r, s) /\ (Noticed(r, s) \/ s.tested)
  BY <1>1, <1>5, <1>6 DEF AnswerFits
<1>c. b => r.suppressed /\ r.status # 0
  BY <1>2, Zenon
<1>d. r.suppressed /\ r.status # 0 => b
  BY <1>2, Zenon
<1>9. ResultFits(t, s)
  BY <1>c, <1>7, <1>8 DEF ResultFits, FlowFits
<1>10. Noticed(t, s) \/ s.tested
  BY <1>d, <1>7, <1>8 DEF Noticed
<1>14. Reached(t, below) = Reached(r, Pending(call) \o below)
  BY <1>5, <1>6, <1>7, NothingJoined, SameWay
<1>15. StatusOf(t) = StatusOf(r)
  BY <1>5, <1>7, SameStatus
<1> QED BY <1>1, <1>3, <1>5, <1>7, <1>9, <1>10, <1>14, <1>15, BackStutters

LEMMA GoOnSequenceKeeps ==
  ASSUME FlowInv, GoOnSequence
  PROVE  FlowsReachTheirTargets' /\ Simulated
<1>0. BackIn({"sequence"})
  BY DEF GoOnSequence
<1>1. PICK e, nest, r, call, s, below, outer :
        /\ Inner(e, nest, r, call, s, below, outer) /\ At0(e, nest, r)
        /\ Innermost = call /\ call.kind = "sequence" /\ Callers = outer
  BY <1>0, Resumed
<1>2. /\ e \in BOOLEAN /\ s.strict = e /\ CallFits(call, s) /\ IsSequence(below)
      /\ AnswerFits(r, call, Inside(call, s)) /\ ResultFits(r, Inside(call, s)) /\ IsResult(r)
      /\ InShell(r, nest) = Reached(r, Pending(call) \o below)
      /\ ~call.check /\ e => s.tested
  BY <1>1, InnerIs
<1>3. /\ r.flow = NoFlow /\ call.rest # <<>>
      /\ ~(call.check /\ e /\ r.status # 0 /\ ~r.suppressed)
  BY <1>1 DEF GoOnSequence, SequenceStops, Flowing, At0
<1>4. PICK next : next = [call EXCEPT !.rest = Tail(call.rest)]
  OBVIOUS
<1>a. PICK stay : stay = KeptIn(nest, next)
  OBVIOUS
<1>b. PICK d : d = Run(Head(call.rest), r.status)
  OBVIOUS
<1>5. GoesTo(stay, d, <<>>)
  <2>1. Turns(Kept(next), d)
    BY <1>1, <1>4, <1>b DEF GoOnSequence, At0
  <2>2. Kept(next) = stay
    BY <1>1, <1>a, KeptIs DEF At0
  <2> QED BY <2>1, <2>2, TurnsGo
<1>6. /\ call = [kind |-> "sequence", rest |-> call.rest, check |-> call.check]
      /\ AllMayStand(call.rest, s) /\ call.check \in BOOLEAN /\ (s.tested => ~call.check)
  BY <1>1, <1>2 DEF CallFits
<1>7. /\ next = [kind |-> "sequence", rest |-> next.rest, check |-> next.check]
      /\ next.kind = "sequence" /\ next.rest = Tail(call.rest) /\ next.check = call.check
  <2>1. PICK later : later = Tail(call.rest)
    OBVIOUS
  <2>2. next = [call EXCEPT !.rest = later]
    BY <1>4, <2>1
  <2>3. call = [kind |-> "sequence", rest |-> call.rest, check |-> call.check]
    BY <1>6
  <2>4. /\ next = [kind |-> "sequence", rest |-> next.rest, check |-> next.check]
        /\ next.kind = call.kind /\ next.rest = later /\ next.check = call.check
    BY <2>2, <2>3, SequenceGoesOn
  <2> QED BY <1>1, <2>1, <2>4
<1>8. IsSequence(call.rest) /\ MayStand(Head(call.rest), s) /\ AllMayStand(Tail(call.rest), s)
  BY <1>3, <1>6, HeadStands
<1>9. CallFits(next, s)
  BY <1>6, <1>7, <1>8 DEF CallFits
<1>10. /\ NestFits(stay, e) /\ stay # <<>> /\ Head(stay).call = next
       /\ StackOf(stay) = Pending(next) \o below /\ ScopeIn(stay) = Inside(next, s)
  BY <1>1, <1>a, <1>7, <1>9, Going
<1>11. /\ Inside(call, s) = s /\ Pending(call) = call.rest
       /\ Inside(next, s) = s /\ Pending(next) = Tail(call.rest)
  BY <1>1, <1>7, InsideForms, PendingForms
<1>12. CommandFits(Head(call.rest), Head(stay).call, ScopeIn(stay))
  BY <1>7, <1>8, <1>10, <1>11 DEF CommandFits
<1>13. /\ ControlFits(d, stay) /\ InShell(d, stay) = <<Head(call.rest)>> \o StackOf(stay)
       /\ StatusOf(d) = r.status
  BY <1>b, <1>10, <1>12, Commanding
<1>14. ~r.left
  BY <1>2, <1>3, <1>11 DEF ResultFits
<1>15. InShell(d, stay) = InShell(r, nest)
  <2>1. InShell(r, nest) = call.rest \o below
    BY <1>2, <1>3, <1>11, <1>14, ReachedForms
  <2>2. PICK a, b : a = <<Head(call.rest)>> /\ b = Tail(call.rest)
    OBVIOUS
  <2>3. IsSequence(a) /\ IsSequence(b) /\ call.rest = a \o b
    BY <1>3, <1>8, <2>2, Split, OneItem
  <2>4. (a \o b) \o below = a \o (b \o below)
    BY <1>2, <2>3, Regrouped
  <2> QED BY <1>10, <1>11, <1>13, <2>1, <2>2, <2>3, <2>4
<1>16. StatusOf(d) = StatusOf(r)
  BY <1>2, <1>3, <1>13, StatusForms
<1> QED BY <1>1, <1>5, <1>10, <1>13, <1>15, <1>16, Stuttering

(* The lines of a script have no flow but exit, at the outermost; those of  *)
(* a sourced file have none.                                               *)
LEMMA LineFlows ==
  ASSUME NEW e, NEW nest, NEW r, NEW call, NEW s, NEW below, NEW outer,
         Inner(e, nest, r, call, s, below, outer), call.kind \in {"script", "source"}
  PROVE  /\ ~s.tested /\ ~Inside(call, s).tested /\ Inside(call, s).strict = e
         /\ Pending(call) = call.rest /\ Between(call.rest) /\ IsSequence(call.rest)
         /\ ResultFits(r, Inside(call, s)) /\ Noticed(r, Inside(call, s)) /\ IsResult(r)
         /\ call.kind = "source" => r.flow = NoFlow /\ outer # <<>>
         /\ call.kind = "script" => /\ r.flow = NoFlow \/ r.flow.kind = "exit"
                                    /\ outer = <<>> /\ below = <<>>
         /\ e /\ Inside(call, s).fails => s.fails /\ ~Excused(call.command)
         /\ call.kind = "source" => Inside(call, s).excused = ~e
<1>1. /\ e \in BOOLEAN /\ s \in Scope /\ s.strict = e /\ CallFits(call, s)
      /\ AnswerFits(r, call, Inside(call, s)) /\ ResultFits(r, Inside(call, s)) /\ IsResult(r)
      /\ outer = <<>> => call.kind = "script" /\ below = <<>> /\ s = Outermost(e)
      /\ call.kind = "script" => outer = <<>>
      /\ ~s.tested
  BY InnerIs
<1>2. Pending(call) = call.rest
  BY PendingForms
<1>3. FlowFits(r, Inside(call, s))
  BY <1>1 DEF ResultFits
<1>4. PICK c : c = call.command
  OBVIOUS
<1>5. CASE call.kind = "script"
  <2>1. Inside(call, s) = LineScope(s, c) /\ s = Outermost(e) /\ outer = <<>> /\ below = <<>>
    BY <1>1, <1>4, <1>5, InsideForms
  <2>2. PICK t : t = LineScope(s, c)
    OBVIOUS
  <2>3. /\ t.strict = e /\ t.loops = 0 /\ ~t.returns /\ ~t.tested
        /\ e /\ t.fails => s.fails /\ ~Excused(c)
    BY <1>1, <2>1, <2>2, LineScopeIs, OutermostIs DEF Same
  <2>4. Between(call.rest) /\ IsSequence(call.rest)
    BY <1>1, <1>5, BetweenForms DEF CallFits, LinesFit, LinesMayStand
  <2>5. r.flow = NoFlow \/ r.flow.kind = "exit"
    <3>1. r.flow # NoFlow => r.flow.kind \in {"break", "continue", "return", "exit"}
      BY <1>3, FlowOf
    <3>2. r.flow.kind \in {"break", "continue"} /\ r.flow # NoFlow => r.flow.n \in 1 .. t.loops
      BY <1>3, <2>1, <2>2 DEF FlowFits
    <3>3. ~(r.flow.n \in 1 .. t.loops)
      BY <2>3
    <3>4. r.flow.kind = "return" /\ r.flow # NoFlow => t.returns
      BY <1>3, <2>1, <2>2 DEF FlowFits
    <3> QED BY <2>3, <3>1, <3>2, <3>3, <3>4
  <2>6. Noticed(r, t)
    BY <1>1, <1>5, <2>1, <2>2, <2>3 DEF AnswerFits
  <2> QED BY <1>1, <1>2, <1>4, <1>5, <2>1, <2>2, <2>3, <2>4, <2>5, <2>6
<1>6. CASE call.kind = "source"
  <2>1. Inside(call, s) = LineScope(SourceScope(s), c) /\ outer # <<>>
    BY <1>1, <1>4, <1>6, InsideForms
  <2>2. PICK u : u = SourceScope(s)
    OBVIOUS
  <2>3. PICK t : t = LineScope(u, c)
    OBVIOUS
  <2>4. /\ u \in Scope /\ u.strict = e /\ u.loops = 0 /\ ~u.returns /\ ~u.exits /\ ~u.tested
        /\ u.fails = s.fails /\ u.excused = ~e
    BY <1>1, <2>2, SourceScopeIs DEF Same
  <2>5. /\ t.strict = e /\ t.loops = 0 /\ ~t.returns /\ ~t.exits /\ ~t.tested
        /\ e /\ t.fails => u.fails /\ ~Excused(c)
        /\ t.excused = ~e
    BY <2>3, <2>4, LineScopeIs DEF Same
  <2>6. Between(call.rest) /\ IsSequence(call.rest)
    BY <1>1, <1>6, BetweenForms DEF CallFits, LinesFit, LinesMayStand
  <2>7. r.flow = NoFlow
    <3>1. r.flow # NoFlow => r.flow.kind \in {"break", "continue", "return", "exit"}
      BY <1>3, FlowOf
    <3>2. r.flow.kind \in {"break", "continue"} /\ r.flow # NoFlow => r.flow.n \in 1 .. t.loops
      BY <1>3, <2>1, <2>2, <2>3 DEF FlowFits
    <3>3. ~(r.flow.n \in 1 .. t.loops)
      BY <2>5
    <3>4. r.flow # NoFlow => (r.flow.kind = "return" => t.returns) /\ (r.flow.kind = "exit" => t.exits)
      BY <1>3, <2>1, <2>2, <2>3 DEF FlowFits
    <3> QED BY <2>5, <3>1, <3>2, <3>3, <3>4
  <2>8. Noticed(r, t)
    BY <1>1, <1>6, <2>1, <2>2, <2>3, <2>5 DEF AnswerFits
  <2> QED BY <1>1, <1>2, <1>4, <1>6, <2>1, <2>2, <2>3, <2>4, <2>5, <2>6, <2>7, <2>8
<1> QED BY <1>5, <1>6

LEMMA LeaveScriptKeeps ==
  ASSUME FlowInv, LeaveScript
  PROVE  FlowsReachTheirTargets' /\ Simulated
<1>0. BackIn({"script", "source"})
  BY DEF LeaveScript
<1>1. PICK e, nest, r, call, s, below, outer :
        /\ Inner(e, nest, r, call, s, below, outer) /\ At0(e, nest, r)
        /\ Innermost = call /\ call.kind \in {"script", "source"} /\ Callers = outer
  BY <1>0, Resumed
<1>2. /\ Pending(call) = call.rest /\ Between(call.rest) /\ IsSequence(call.rest)
      /\ ResultFits(r, Inside(call, s)) /\ IsResult(r)
      /\ call.kind = "source" => r.flow = NoFlow
      /\ call.kind = "script" => (r.flow = NoFlow \/ r.flow.kind = "exit") /\ outer = <<>> /\ below = <<>>
  BY <1>1, LineFlows
<1>3. r.flow # NoFlow
  BY <1>1 DEF LeaveScript, Flowing, At0
<1>4. r.flow.kind = "exit" /\ outer = <<>> /\ below = <<>>
  BY <1>1, <1>2, <1>3
<1>5. PICK t : t = Result(r.flow.n)
  OBVIOUS
<1>6. GoesTo(outer, t, <<>>)
  BY <1>1, <1>4, <1>5, TurnsGo DEF LeaveScript, At0
<1>7. IsResult(t) /\ t.kind = "result" /\ t.status = r.flow.n /\ t.flow = NoFlow /\ ~t.left
  BY <1>5, ResultIs
<1>8. Reached(t, below) = <<>>
  BY <1>4, <1>7, ReachedForms
<1>9. Reached(r, Pending(call) \o below) = Reached(r, below)
  BY <1>1, <1>2, <1>3, Passing, InnerIs
<1>10. Reached(r, below) = <<>>
  BY <1>4, ReachedForms, FromNothing
<1>11. StatusOf(t) = StatusOf(r)
  BY <1>2, <1>4, <1>7, StatusForms
<1>12. Reached(t, below) = Reached(r, Pending(call) \o below)
  BY <1>8, <1>9, <1>10
<1> QED BY <1>1, <1>4, <1>6, <1>7, <1>11, <1>12, BackStutters

LEMMA EndScriptKeeps ==
  ASSUME FlowInv, EndScript
  PROVE  FlowsReachTheirTargets' /\ Simulated
<1>0. BackIn({"script", "source"})
  BY DEF EndScript
<1>1. PICK e, nest, r, call, s, below, outer :
        /\ Inner(e, nest, r, call, s, below, outer) /\ At0(e, nest, r)
        /\ Innermost = call /\ call.kind \in {"script", "source"} /\ Callers = outer
  BY <1>0, Resumed
<1>2. /\ ~s.tested /\ ~Inside(call, s).tested /\ Inside(call, s).strict = e
      /\ Pending(call) = call.rest /\ Between(call.rest) /\ IsSequence(call.rest)
      /\ ResultFits(r, Inside(call, s)) /\ Noticed(r, Inside(call, s)) /\ IsResult(r)
      /\ call.kind = "script" => outer = <<>> /\ below = <<>>
      /\ e /\ Inside(call, s).fails => s.fails
      /\ call.kind = "source" => Inside(call, s).excused = ~e
  BY <1>1, LineFlows
<1>3. PICK t : t = Unsuppressed(r)
  OBVIOUS
<1>4. GoesTo(outer, t, <<>>)
  BY <1>1, <1>3, TurnsGo DEF EndScript, At0
<1>5. r.flow = NoFlow /\ (call.rest = <<>> \/ (e /\ r.status # 0 /\ ~r.suppressed))
  BY <1>1 DEF EndScript, ScriptEnds, LineExcused, Flowing, At0
<1>6. IsResult(t) /\ t.status = r.status /\ t.flow = r.flow /\ ~t.suppressed /\ t.left = r.left
  BY <1>2, <1>3, UnsuppressedIs
<1>7. e \in BOOLEAN /\ s.strict = e /\ IsSequence(below)
  BY <1>1, InnerIs
<1>8. call.rest = <<>> \/ r.left
  BY <1>2, <1>5 DEF Noticed
<1>9. outer # <<>> => ResultFits(t, s) /\ Noticed(t, s)
  <2>1. SUFFICES ASSUME outer # <<>> PROVE ResultFits(t, s) /\ Noticed(t, s)
    OBVIOUS
  <2>2. call.kind = "source"
    BY <1>1, <1>2, <2>1
  <2>3. ResultFits(t, s)
    BY <1>2, <1>5, <1>6, <1>7 DEF ResultFits, FlowFits
  <2>4. Noticed(t, s)
    BY <1>2, <1>6, <1>7, <2>2 DEF Noticed, ResultFits
  <2> QED BY <2>3, <2>4
<1>10. Reached(r, Pending(call) \o below) = Reached(r, below)
  BY <1>2, <1>7, <1>8, Passing
<1>11. Reached(t, below) = Reached(r, Pending(call) \o below)
  BY <1>6, <1>10, SameWay
<1>12. StatusOf(t) = StatusOf(r)
  BY <1>2, <1>6, SameStatus
<1> QED BY <1>1, <1>4, <1>5, <1>6, <1>9, <1>11, <1>12, BackStutters

LEMMA GoOnScriptKeeps ==
  ASSUME FlowInv, GoOnScript
  PROVE  FlowsReachTheirTargets' /\ Simulated
<1>0. BackIn({"script", "source"})
  BY DEF GoOnScript
<1>1. PICK e, nest, r, call, s, below, outer :
        /\ Inner(e, nest, r, call, s, below, outer) /\ At0(e, nest, r)
        /\ Innermost = call /\ call.kind \in {"script", "source"} /\ Callers = outer
  BY <1>0, Resumed
<1>2. /\ ~s.tested /\ Inside(call, s).strict = e
      /\ Pending(call) = call.rest /\ IsSequence(call.rest)
      /\ ResultFits(r, Inside(call, s)) /\ IsResult(r)
      /\ e /\ Inside(call, s).fails => ~Excused(call.command)
  BY <1>1, LineFlows
<1>3. /\ e \in BOOLEAN /\ s.strict = e /\ CallFits(call, s) /\ IsSequence(below)
      /\ InShell(r, nest) = Reached(r, Pending(call) \o below)
  BY <1>1, InnerIs
<1>4. /\ r.flow = NoFlow /\ call.rest # <<>>
      /\ ~(e /\ r.status # 0 /\ ~(Excused(call.command) \/ r.suppressed))
  BY <1>1 DEF GoOnScript, ScriptEnds, LineExcused, Flowing, At0
<1>5. PICK first, later : first = Head(call.rest) /\ later = Tail(call.rest)
  OBVIOUS
<1>6. PICK next : next = [call EXCEPT !.command = first, !.rest = later]
  OBVIOUS
<1>7. PICK stay : stay = KeptIn(nest, next)
  OBVIOUS
<1>8. PICK d : d = Run(first, r.status)
  OBVIOUS
<1>9. GoesTo(stay, d, <<>>)
  <2>1. Turns(Kept(next), d)
    BY <1>1, <1>5, <1>6, <1>8 DEF GoOnScript, At0
  <2>2. Kept(next) = stay
    BY <1>1, <1>7, KeptIs DEF At0
  <2> QED BY <2>1, <2>2, TurnsGo
<1>10. call = [kind |-> call.kind, command |-> call.command, rest |-> call.rest]
  BY <1>1, <1>3 DEF CallFits, LinesFit
<1>11. /\ next = [kind |-> next.kind, command |-> next.command, rest |-> next.rest]
       /\ next.kind = call.kind /\ next.command = first /\ next.rest = later
  BY <1>6, <1>10, LinesGoOn
<1>12. PICK v : v = IF call.kind = "script" THEN s ELSE SourceScope(s)
  OBVIOUS
<1>13. LinesMayStand(call.rest, v)
  BY <1>1, <1>3, <1>12 DEF CallFits, LinesFit
<1>14. MayStand(first, LineScope(v, first)) /\ LinesMayStand(later, v)
  BY <1>4, <1>5, <1>13, FirstLineStands
<1>15. LinesFit(next, v)
  BY <1>11, <1>14 DEF LinesFit
<1>16. CallFits(next, s)
  BY <1>1, <1>2, <1>11, <1>12, <1>15 DEF CallFits
<1>17. /\ NestFits(stay, e) /\ stay # <<>> /\ Head(stay).call = next
       /\ StackOf(stay) = Pending(next) \o below /\ ScopeIn(stay) = Inside(next, s)
  BY <1>1, <1>7, <1>11, <1>16, Going
<1>18. Pending(next) = later /\ Inside(next, s) = LineScope(v, first)
  BY <1>1, <1>11, <1>12, PendingForms, InsideForms
<1>19. CommandFits(first, Head(stay).call, ScopeIn(stay))
  BY <1>1, <1>11, <1>14, <1>17, <1>18 DEF CommandFits
<1>20. ControlFits(d, stay) /\ InShell(d, stay) = <<first>> \o StackOf(stay) /\ StatusOf(d) = r.status
  BY <1>8, <1>17, <1>19, Commanding
<1>21. ~r.left
  BY <1>2, <1>4 DEF ResultFits
<1>22. InShell(d, stay) = InShell(r, nest)
  <2>1. InShell(r, nest) = call.rest \o below
    BY <1>2, <1>3, <1>4, <1>21, ReachedForms
  <2>2. PICK a : a = <<first>>
    OBVIOUS
  <2>3. IsSequence(a) /\ IsSequence(later) /\ call.rest = a \o later
    BY <1>2, <1>4, <1>5, <2>2, Split, OneItem
  <2>4. (a \o later) \o below = a \o (later \o below)
    BY <1>3, <2>3, Regrouped
  <2> QED BY <1>17, <1>18, <1>20, <2>1, <2>2, <2>3, <2>4
<1>23. StatusOf(d) = StatusOf(r)
  BY <1>2, <1>4, <1>20, StatusForms
<1> QED BY <1>1, <1>9, <1>17, <1>20, <1>22, <1>23, Stuttering

(* What a shell or a function that has ended gives to set -e.              *)
LEMMA Settling ==
  ASSUME NEW e \in BOOLEAN, errexit = e, NEW s, s.strict = e, ~s.tested,
         NEW below, e => (Tested(below) <=> s.tested),
         NEW r, IsResult(r), FlowFits(r, s), e => ~r.suppressed,
         e /\ r.flow = NoFlow /\ r.status # 0 => s.fails,
         NEW t, t = Settled(r, below)
  PROVE  /\ IsResult(t) /\ t.status = r.status /\ t.flow = r.flow
         /\ ResultFits(t, s) /\ Noticed(t, s)
         /\ r.flow = NoFlow => Reached(t, below) = EndedIn(e, r.status, below)
         /\ r.flow # NoFlow => ~t.left
         /\ e /\ r.flow = NoFlow /\ r.status # 0 => t.left
<1>1. /\ IsResult(t) /\ t.status = r.status /\ t.flow = r.flow /\ t.suppressed = r.suppressed
      /\ t.left <=> e /\ r.flow = NoFlow /\ r.status # 0 /\ ~Tested(below)
  BY SettledIs
<1>2. ResultFits(t, s)
  BY <1>1 DEF ResultFits, FlowFits
<1>3. Noticed(t, s)
  BY <1>1 DEF Noticed
<1>4. ASSUME r.flow = NoFlow
      PROVE  Reached(t, below) = EndedIn(e, r.status, below)
  <2>1. t.flow = NoFlow /\ (t.left <=> e /\ r.status # 0 /\ ~Tested(below))
    BY <1>1, <1>4
  <2> QED BY <2>1, ReachedForms DEF EndedIn
<1>5. r.flow # NoFlow => ~t.left
  BY <1>1
<1>6. e /\ r.flow = NoFlow /\ r.status # 0 => t.left
  BY <1>1
<1> QED BY <1>1, <1>2, <1>3, <1>4, <1>5, <1>6

LEMMA EndSubshellKeeps ==
  ASSUME FlowInv, EndSubshell
  PROVE  FlowsReachTheirTargets' /\ Simulated
<1>0. BackIn({"subshell"})
  BY DEF EndSubshell
<1>1. PICK e, nest, r, call, s, below, outer :
        /\ Inner(e, nest, r, call, s, below, outer) /\ At0(e, nest, r)
        /\ call.kind = "subshell" /\ Callers = outer /\ Head(calls).below = below
  BY <1>0, Resumed
<1>2. PICK kinds : kinds = {"exit", "return"}
  OBVIOUS
<1>3. PICK q : q = Consumed(r, kinds)
  OBVIOUS
<1>4. PICK t : t = Settled(q, below)
  OBVIOUS
<1>5. GoesTo(outer, t, <<>>)
  BY <1>1, <1>2, <1>3, <1>4, TurnsGo DEF EndSubshell, At0
<1>6. /\ e \in BOOLEAN /\ s \in Scope /\ s.strict = e /\ IsSequence(below)
      /\ e => (Tested(below) <=> s.tested)
      /\ AnswerFits(r, call, Inside(call, s)) /\ ResultFits(r, Inside(call, s)) /\ IsResult(r)
      /\ outer # <<>> /\ ~s.tested
  BY <1>1, InnerIs
<1>7. Inside(call, s) = SubshellScope(s) /\ Pending(call) = <<ShellEnd(<<>>)>>
  BY <1>1, InsideForms, PendingForms
<1>8. PICK u : u = SubshellScope(s)
  OBVIOUS
<1>9. /\ u.strict = e /\ u.loops = 0 /\ ~u.tested /\ u.fails = s.fails /\ u.codes = s.fails
      /\ u.excused = ~e
  BY <1>6, <1>8, SubshellScopeIs DEF Same
<1>10. ResultFits(r, u) /\ FlowFits(r, u) /\ Noticed(r, u)
  BY <1>1, <1>6, <1>7, <1>8, <1>9 DEF AnswerFits, ResultFits
<1>11. r.flow = NoFlow \/ r.flow.kind \in kinds
  <2>1. SUFFICES ASSUME r.flow # NoFlow PROVE r.flow.kind \in kinds
    OBVIOUS
  <2>2. r.flow.kind \in {"break", "continue", "return", "exit"}
    BY <1>10, <2>1, FlowOf
  <2>3. r.flow.kind \in {"break", "continue"} => r.flow.n \in 1 .. u.loops
    BY <1>10, <2>1 DEF FlowFits
  <2>4. ~(r.flow.n \in 1 .. u.loops)
    BY <1>9
  <2> QED BY <1>2, <2>2, <2>3, <2>4
<1>12. /\ IsResult(q) /\ q.suppressed = r.suppressed /\ q.left = r.left
       /\ r.flow.kind \in kinds => q.flow = NoFlow /\ q.status = r.flow.n
       /\ r.flow.kind \notin kinds => q = r
  BY <1>3, <1>6, ConsumedIs
<1>13. q.flow = NoFlow
  BY <1>11, <1>12
<1>14. e => ~q.suppressed
  BY <1>6, <1>9, <1>10, <1>12 DEF ResultFits
<1>15. e /\ q.status # 0 => s.fails
  <2>1. CASE r.flow = NoFlow
    <3>1. q = r
      BY <1>2, <1>12, <2>1, FlowKinds
    <3> QED BY <1>9, <1>10, <1>14, <2>1, <3>1 DEF Noticed, ResultFits
  <2>2. CASE r.flow # NoFlow
    <3>1. r.flow.kind \in kinds /\ q.status = r.flow.n
      BY <1>11, <1>12, <2>2
    <3>2. r.flow.n = 0 \/ u.codes
      BY <1>2, <1>10, <2>2, <3>1 DEF FlowFits
    <3> QED BY <1>9, <3>1, <3>2
  <2> QED BY <2>1, <2>2
<1>16. FlowFits(q, s)
  BY <1>13 DEF FlowFits
<1>17. errexit = e
  BY <1>1 DEF At0
<1>18. /\ IsResult(t) /\ t.status = q.status /\ t.flow = q.flow
       /\ ResultFits(t, s) /\ Noticed(t, s)
       /\ Reached(t, below) = EndedIn(e, q.status, below)
  <2>1. e /\ q.flow = NoFlow /\ q.status # 0 => s.fails
    BY <1>15
  <2>2. /\ IsResult(t) /\ t.status = q.status /\ t.flow = q.flow
        /\ ResultFits(t, s) /\ Noticed(t, s)
        /\ q.flow = NoFlow => Reached(t, below) = EndedIn(e, q.status, below)
    <3>1. e \in BOOLEAN /\ s.strict = e /\ ~s.tested /\ (e => (Tested(below) <=> s.tested))
      BY <1>6
    <3>2. IsResult(q)
      BY <1>12
    <3> QED BY <1>4, <1>14, <1>16, <1>17, <2>1, <3>1, <3>2, Settling
  <2> QED BY <1>13, <2>2
<1>19. StatusOf(t) = q.status /\ StatusOf(r) = q.status
  <2>1. StatusOf(t) = q.status
    BY <1>13, <1>18, StatusForms
  <2>2. StatusOf(r) = q.status
    BY <1>2, <1>6, <1>11, <1>12, StatusForms, FlowKinds
  <2> QED BY <2>1, <2>2
<1>20. PICK x : x = ShellEnd(<<>>)
  OBVIOUS
<1>21. x.kind = "shellend"
  BY <1>20 DEF ShellEnd
<1>22. Reached(r, Pending(call) \o below) = <<x>> \o below
  BY <1>6, <1>7, <1>9, <1>10, <1>20, <1>21, AtShellEnd
<1>23. PICK v, z : v = q.status /\ z = EndedIn(e, v, below)
  OBVIOUS
<1>24. FlowsReachTheirTargets' /\ Moves(x, below, z, v, <<>>) /\ ShellStatus = StatusOf(r)
  BY <1>1, <1>5, <1>6, <1>18, <1>19, <1>22, <1>23, BackMoves
<1>25. Moves(ShellEnd(<<>>), below, EndedIn(errexit, ShellStatus, below), ShellStatus, <<>>)
  BY <1>17, <1>19, <1>20, <1>23, <1>24
<1>26. Shell!Next
  BY <1>6, <1>25, ShellEndsShell
<1> QED BY <1>24, <1>26 DEF Simulated

LEMMA EndCallKeeps ==
  ASSUME FlowInv, EndCall
  PROVE  FlowsReachTheirTargets' /\ Simulated
<1>0. BackIn({"call"})
  BY DEF EndCall
<1>1. PICK e, nest, r, call, s, below, outer :
        /\ Inner(e, nest, r, call, s, below, outer) /\ At0(e, nest, r)
        /\ call.kind = "call" /\ Callers = outer /\ Head(calls).below = below
  BY <1>0, Resumed
<1>2. PICK kinds : kinds = {"return"}
  OBVIOUS
<1>3. PICK q : q = Consumed(r, kinds)
  OBVIOUS
<1>4. PICK t : t = Settled(q, below)
  OBVIOUS
<1>5. GoesTo(outer, t, <<>>)
  BY <1>1, <1>2, <1>3, <1>4, TurnsGo DEF EndCall, At0
<1>6. /\ e \in BOOLEAN /\ s \in Scope /\ s.strict = e /\ IsSequence(below)
      /\ e => (Tested(below) <=> s.tested)
      /\ AnswerFits(r, call, Inside(call, s)) /\ ResultFits(r, Inside(call, s)) /\ IsResult(r)
      /\ outer # <<>> /\ ~s.tested
  BY <1>1, InnerIs
<1>7. Inside(call, s) = CallScope(s) /\ Pending(call) = <<FunctionEnd>>
  BY <1>1, InsideForms, PendingForms
<1>8. PICK u : u = CallScope(s)
  OBVIOUS
<1>9. /\ u.strict = e /\ u.loops = 0 /\ ~u.tested /\ u.fails = s.fails
      /\ u.codes => s.codes /\ s.fails
      /\ u.excused = ~e /\ u.exits = s.exits
  BY <1>6, <1>8, CallScopeIs DEF Same
<1>10. ResultFits(r, u) /\ FlowFits(r, u) /\ Noticed(r, u)
  BY <1>1, <1>6, <1>7, <1>8, <1>9 DEF AnswerFits, ResultFits
<1>11. r.flow = NoFlow \/ r.flow.kind \in {"return", "exit"}
  <2>1. SUFFICES ASSUME r.flow # NoFlow PROVE r.flow.kind \in {"return", "exit"}
    OBVIOUS
  <2>2. r.flow.kind \in {"break", "continue", "return", "exit"}
    BY <1>10, <2>1, FlowOf
  <2>3. r.flow.kind \in {"break", "continue"} => r.flow.n \in 1 .. u.loops
    BY <1>10, <2>1 DEF FlowFits
  <2>4. ~(r.flow.n \in 1 .. u.loops)
    BY <1>9
  <2> QED BY <2>2, <2>3, <2>4
<1>12. /\ IsResult(q) /\ q.suppressed = r.suppressed /\ q.left = r.left
       /\ r.flow.kind \in kinds => q.flow = NoFlow /\ q.status = r.flow.n
       /\ r.flow.kind \notin kinds => q = r
  BY <1>3, <1>6, ConsumedIs
<1>13. r.flow = NoFlow => q = r
  BY <1>2, <1>12, FlowKinds
<1>14. e => ~q.suppressed
  BY <1>6, <1>9, <1>10, <1>12 DEF ResultFits
<1>15. e /\ q.flow = NoFlow /\ q.status # 0 => s.fails
  <2>1. CASE r.flow = NoFlow
    BY <1>9, <1>10, <1>13, <1>14, <2>1 DEF Noticed, ResultFits
  <2>2. CASE r.flow # NoFlow
    <3>1. SUFFICES ASSUME e, q.flow = NoFlow, q.status # 0 PROVE s.fails
      OBVIOUS
    <3>2. r.flow.kind = "return" /\ q.status = r.flow.n
      BY <1>2, <1>11, <1>12, <2>2, <3>1
    <3>3. r.flow.n = 0 \/ u.codes
      BY <1>10, <2>2, <3>2 DEF FlowFits
    <3> QED BY <1>9, <3>1, <3>2, <3>3
  <2> QED BY <2>1, <2>2
<1>16. FlowFits(q, s)
  <2>1. CASE q.flow = NoFlow
    BY <2>1 DEF FlowFits
  <2>2. CASE q.flow # NoFlow
    <3>1. q = r /\ r.flow # NoFlow /\ r.flow.kind = "exit"
      BY <1>2, <1>11, <1>12, <1>13, <2>2
    <3> QED BY <1>9, <1>10, <2>2, <3>1 DEF FlowFits
  <2> QED BY <2>1, <2>2
<1>17. errexit = e
  BY <1>1 DEF At0
<1>18. /\ IsResult(t) /\ t.status = q.status /\ t.flow = q.flow
       /\ ResultFits(t, s) /\ Noticed(t, s)
       /\ q.flow = NoFlow => Reached(t, below) = EndedIn(e, q.status, below)
       /\ q.flow # NoFlow => ~t.left
  <2>1. /\ e \in BOOLEAN /\ errexit = e /\ s.strict = e /\ ~s.tested
        /\ e => (Tested(below) <=> s.tested)
    BY <1>6, <1>17
  <2>2. IsResult(q)
    BY <1>12
  <2> QED BY <1>4, <1>14, <1>15, <1>16, <2>1, <2>2, Settling
<1>19. PICK x : x = FunctionEnd
  OBVIOUS
<1>20. x.kind = "functionend"
  BY <1>19 DEF FunctionEnd
<1>21. CASE r.flow.kind = "exit" \/ (r.flow = NoFlow /\ r.left)
  <2>1. PICK shells : shells = {"shellend"}
    OBVIOUS
  <2>2. Reached(r, Pending(call) \o below) = From(shells, 1, <<x>> \o below)
    BY <1>7, <1>19, <1>21, <2>1, ReachedForms
  <2>3. IsSequence(<<x>>) /\ DOMAIN <<x>> = {1} /\ <<x>>[1] = x
    BY OneItem
  <2>4. PICK a : a = <<x>>
    OBVIOUS
  <2>5. IsSequence(a) /\ \A k \in DOMAIN a : a[k].kind \notin shells
    BY <1>20, <2>1, <2>3, <2>4
  <2>6. From(shells, 1, a \o below) = From(shells, 1, below)
    BY <1>6, <2>5, FromSkips
  <2>7. q = r /\ (r.flow.kind = "exit" => r.flow # NoFlow)
    BY <1>2, <1>12, <1>13, <1>21, FlowKinds
  <2>8. Reached(t, below) = From(shells, 1, below)
    <3>1. CASE r.flow.kind = "exit"
      BY <1>18, <2>1, <2>7, <3>1, ReachedForms
    <3>2. CASE r.flow = NoFlow /\ r.left
      <4>1. e /\ r.status # 0
        BY <1>9, <1>10, <3>2 DEF ResultFits
      <4>2. ~Tested(below)
        BY <1>6, <4>1
      <4> QED BY <1>18, <2>1, <2>7, <3>2, <4>1, <4>2 DEF EndedIn
    <3> QED BY <1>21, <3>1, <3>2
  <2>9. Reached(t, below) = Reached(r, Pending(call) \o below)
    BY <2>2, <2>4, <2>6, <2>8
  <2>10. StatusOf(t) = StatusOf(r)
    BY <1>6, <1>18, <2>7, SameStatus
  <2> QED BY <1>1, <1>5, <1>6, <1>18, <2>9, <2>10, BackStutters
<1>22. CASE r.flow.kind = "return" \/ (r.flow = NoFlow /\ ~r.left)
  <2>1. q.flow = NoFlow
    BY <1>2, <1>12, <1>13, <1>22
  <2>2. Reached(r, Pending(call) \o below) = <<x>> \o below
    <3>1. CASE r.flow = NoFlow /\ ~r.left
      BY <1>7, <1>19, <3>1, ReachedForms
    <3>2. CASE r.flow.kind = "return"
      <4>1. PICK ends : ends = {"functionend", "shellend"}
        OBVIOUS
      <4>2. x.kind \in ends
        BY <1>20, <4>1
      <4>3. From(ends, 1, <<x>> \o below) = <<x>> \o below
        BY <1>6, <4>2, FromHere
      <4>4. Reached(r, Pending(call) \o below) = From(ends, 1, <<x>> \o below)
        BY <1>7, <1>19, <3>2, <4>1, ReachedForms
      <4> QED BY <4>3, <4>4
    <3> QED BY <1>22, <3>1, <3>2
  <2>3. PICK v, z : v = q.status /\ z = EndedIn(e, v, below)
    OBVIOUS
  <2>4. Reached(t, below) = z
    BY <1>18, <2>1, <2>3
  <2>5. StatusOf(t) = v
    BY <1>18, <2>1, <2>3, StatusForms
  <2>6. StatusOf(r) = v
    BY <1>2, <1>6, <1>12, <1>13, <1>22, <2>3, StatusForms, FlowKinds
  <2>7. FlowsReachTheirTargets' /\ Moves(x, below, z, v, <<>>) /\ ShellStatus = StatusOf(r)
    BY <1>1, <1>5, <1>6, <1>18, <2>2, <2>4, <2>5, BackMoves
  <2>8. Moves(FunctionEnd, below, EndedIn(errexit, ShellStatus, below), ShellStatus, <<>>)
    BY <1>17, <1>19, <2>3, <2>6, <2>7
  <2>9. Shell!Next
    BY <1>6, <2>8, ShellEndsFunction
  <2> QED BY <2>7, <2>9 DEF Simulated
<1>23. r.left \in BOOLEAN
  BY <1>6 DEF IsResult
<1> QED BY <1>11, <1>21, <1>22, <1>23

(* A result goes into the nest that it leaves open: the shell moves.       *)
LEMMA Onwards ==
  ASSUME NEW e, NEW nest, NEW r, NEW call, NEW s, NEW below, NEW outer,
         Inner(e, nest, r, call, s, below, outer), At0(e, nest, r),
         NEW nest2, NEW d, NEW out, GoesTo(nest2, d, out),
         NestFits(nest2, e), ControlFits(d, nest2),
         NEW x, Reached(r, Pending(call) \o below) = <<x>> \o below,
         NEW u, InShell(d, nest2) = u, NEW v, StatusOf(d) = v
  PROVE  /\ FlowsReachTheirTargets' /\ Moves(x, below, u, v, out)
         /\ ShellStatus = StatusOf(r) /\ errexit = e /\ IsSequence(below)
<1>1. InShell(r, nest) = Reached(r, Pending(call) \o below) /\ IsSequence(below)
  BY InnerIs
<1>2. InShell(r, nest) = <<x>> \o below
  BY <1>1
<1> QED BY <1>1, <1>2, Moved

LEMMA StatusNow ==
  ASSUME NEW e, NEW nest, NEW r, At0(e, nest, r)
  PROVE  ShellStatus = StatusOf(r)
BY DEF At0, ShellStatus, StatusOf

LEMMA EndStagesKeeps ==
  ASSUME FlowInv, EndStages
  PROVE  FlowsReachTheirTargets' /\ Simulated
<1>0. BackIn({"stages"})
  BY DEF EndStages
<1>1. PICK e, nest, r, call, s, below, outer :
        /\ Inner(e, nest, r, call, s, below, outer) /\ At0(e, nest, r)
        /\ Innermost = call /\ call.kind = "stages" /\ Callers = outer /\ Head(calls).below = below
  BY <1>0, Resumed
<1>2. PICK t : t = Settled(r, below)
  OBVIOUS
<1>3. GoesTo(outer, t, <<>>)
  BY <1>1, <1>2, TurnsGo DEF EndStages, At0
<1>4. call.rest = <<>>
  BY <1>1 DEF EndStages
<1>5. /\ e \in BOOLEAN /\ s \in Scope /\ s.strict = e /\ IsSequence(below)
      /\ e => (Tested(below) <=> s.tested)
      /\ AnswerFits(r, call, Inside(call, s)) /\ ResultFits(r, Inside(call, s)) /\ IsResult(r)
      /\ outer # <<>> /\ ~s.tested
  BY <1>1, InnerIs
<1>6. Inside(call, s) = LastStageScope(s) /\ Pending(call) = <<ShellEnd(<<>>)>>
  BY <1>1, <1>4, InsideForms, PendingForms
<1>7. PICK u : u = LastStageScope(s)
  OBVIOUS
<1>8. /\ u.strict = e /\ u.loops = 0 /\ ~u.returns /\ ~u.exits /\ ~u.tested
      /\ u.fails = s.fails /\ u.excused = ~e
  BY <1>5, <1>7, LastStageScopeIs DEF Same
<1>9. ResultFits(r, u) /\ FlowFits(r, u) /\ Noticed(r, u)
  BY <1>1, <1>5, <1>6, <1>7, <1>8 DEF AnswerFits, ResultFits
<1>10. r.flow = NoFlow
  <2>1. SUFFICES ASSUME r.flow # NoFlow PROVE FALSE
    OBVIOUS
  <2>2. r.flow.kind \in {"break", "continue", "return", "exit"}
    BY <1>9, <2>1, FlowOf
  <2>3. r.flow.kind \in {"break", "continue"} => r.flow.n \in 1 .. u.loops
    BY <1>9, <2>1 DEF FlowFits
  <2>4. ~(r.flow.n \in 1 .. u.loops)
    BY <1>8
  <2>5. r.flow.kind \notin {"return", "exit"}
    BY <1>8, <1>9, <2>1 DEF FlowFits
  <2> QED BY <2>2, <2>3, <2>4, <2>5
<1>11. e => ~r.suppressed
  BY <1>8, <1>9 DEF ResultFits
<1>12. e /\ r.flow = NoFlow /\ r.status # 0 => s.fails
  BY <1>8, <1>9, <1>11 DEF Noticed, ResultFits
<1>13. FlowFits(r, s)
  BY <1>10 DEF FlowFits
<1>14. errexit = e
  BY <1>1 DEF At0
<1>15. /\ IsResult(t) /\ t.status = r.status /\ t.flow = r.flow
       /\ ResultFits(t, s) /\ Noticed(t, s)
       /\ Reached(t, below) = EndedIn(e, r.status, below)
  <2>1. e \in BOOLEAN /\ s.strict = e /\ ~s.tested /\ (e => (Tested(below) <=> s.tested)) /\ IsResult(r)
    BY <1>5
  <2>2. /\ IsResult(t) /\ t.status = r.status /\ t.flow = r.flow
        /\ ResultFits(t, s) /\ Noticed(t, s)
        /\ r.flow = NoFlow => Reached(t, below) = EndedIn(e, r.status, below)
    BY <1>2, <1>11, <1>12, <1>13, <1>14, <2>1, Settling
  <2> QED BY <1>10, <2>2
<1>16. StatusOf(t) = r.status /\ StatusOf(r) = r.status
  BY <1>5, <1>10, <1>15, StatusForms
<1>17. PICK x : x = ShellEnd(<<>>)
  OBVIOUS
<1>18. x.kind = "shellend"
  BY <1>17 DEF ShellEnd
<1>19. Reached(r, Pending(call) \o below) = <<x>> \o below
  BY <1>5, <1>6, <1>8, <1>9, <1>17, <1>18, AtShellEnd
<1>20. PICK v, z : v = r.status /\ z = EndedIn(e, v, below)
  OBVIOUS
<1>21. FlowsReachTheirTargets' /\ Moves(x, below, z, v, <<>>) /\ ShellStatus = StatusOf(r)
  BY <1>1, <1>3, <1>5, <1>15, <1>16, <1>19, <1>20, BackMoves
<1>22. Moves(ShellEnd(<<>>), below, EndedIn(errexit, ShellStatus, below), ShellStatus, <<>>)
  BY <1>14, <1>16, <1>17, <1>20, <1>21
<1>23. Shell!Next
  BY <1>5, <1>22, ShellEndsShell
<1> QED BY <1>21, <1>23 DEF Simulated

LEMMA NextStageKeeps ==
  ASSUME FlowInv, NextStage
  PROVE  FlowsReachTheirTargets' /\ Simulated
<1>0. BackIn({"stages"})
  BY DEF NextStage
<1>1. PICK e, nest, r, call, s, below, outer :
        /\ Inner(e, nest, r, call, s, below, outer) /\ At0(e, nest, r)
        /\ Innermost = call /\ call.kind = "stages" /\ Callers = outer /\ Head(calls).below = below
  BY <1>0, Resumed
<1>2. PICK first, later : first = Head(call.rest) /\ later = Tail(call.rest)
  OBVIOUS
<1>3. PICK next : next = [call EXCEPT !.rest = later]
  OBVIOUS
<1>4. PICK stay : stay = KeptIn(nest, next)
  OBVIOUS
<1>5. PICK d : d = Run(first, StatusOf(r))
  OBVIOUS
<1>6. call.rest # <<>>
  BY <1>1 DEF NextStage
<1>7. GoesTo(stay, d, <<>>)
  <2>1. ShellStatus = StatusOf(r)
    BY <1>1, StatusNow
  <2>2. Turns(Kept(next), d)
    BY <1>1, <1>2, <1>3, <1>5, <2>1 DEF NextStage, At0
  <2>3. Kept(next) = stay
    BY <1>1, <1>4, KeptIs DEF At0
  <2> QED BY <2>2, <2>3, TurnsGo
<1>8. /\ e \in BOOLEAN /\ s \in Scope /\ s.strict = e /\ CallFits(call, s) /\ IsSequence(below)
      /\ ResultFits(r, Inside(call, s)) /\ IsResult(r) /\ ~s.tested
  BY <1>1, InnerIs
<1>9. call = [kind |-> "stages", rest |-> call.rest] /\ StagesFit(call.rest, s)
  BY <1>1, <1>8 DEF CallFits
<1>10. /\ next = [kind |-> "stages", rest |-> next.rest] /\ next.kind = "stages" /\ next.rest = later
  <2>1. call = [kind |-> "stages", rest |-> call.rest]
    BY <1>9
  <2>2. /\ next = [kind |-> "stages", rest |-> next.rest] /\ next.kind = call.kind /\ next.rest = later
    BY <1>3, <2>1, StagesGoOn
  <2> QED BY <1>1, <2>2
<1>11. /\ MayStand(first, IF later = <<>> THEN LastStageScope(s) ELSE StageScope(s))
       /\ StagesFit(later, s)
  <2>1. StagesFit(call.rest, s)
    BY <1>9
  <2> QED BY <1>2, <1>6, <2>1, StagesStand
<1>12. CallFits(next, s)
  BY <1>8, <1>10, <1>11 DEF CallFits
<1>13. /\ NestFits(stay, e) /\ stay # <<>> /\ Head(stay).call = next
       /\ StackOf(stay) = Pending(next) \o below /\ ScopeIn(stay) = Inside(next, s)
  BY <1>1, <1>4, <1>10, <1>12, Going
<1>14. /\ Inside(call, s) = StageScope(s) /\ Pending(call) = <<ShellEnd(call.rest)>>
       /\ Inside(next, s) = IF later = <<>> THEN LastStageScope(s) ELSE StageScope(s)
       /\ Pending(next) = <<ShellEnd(later)>>
  BY <1>1, <1>6, <1>10, InsideForms, PendingForms
<1>15. CommandFits(first, Head(stay).call, ScopeIn(stay))
  BY <1>10, <1>11, <1>13, <1>14 DEF CommandFits
<1>16. /\ ControlFits(d, stay) /\ InShell(d, stay) = <<first>> \o StackOf(stay)
       /\ StatusOf(d) = StatusOf(r)
  BY <1>5, <1>13, <1>15, Commanding
<1>17. PICK x, stages : stages = call.rest /\ x = ShellEnd(stages)
  OBVIOUS
<1>18. x.kind = "shellend"
  BY <1>17 DEF ShellEnd
<1>19. PICK w : w = StageScope(s)
  OBVIOUS
<1>20. ResultFits(r, w) /\ w.loops = 0
  BY <1>8, <1>14, <1>19, StageScopeIs
<1>21. Reached(r, Pending(call) \o below) = <<x>> \o below
  <2>1. Reached(r, <<x>> \o below) = <<x>> \o below
    BY <1>8, <1>18, <1>20, AtShellEnd
  <2> QED BY <1>14, <1>17, <2>1
<1>22. PICK u, v : u = <<first, ShellEnd(later)>> \o below /\ v = StatusOf(r)
  OBVIOUS
<1>23. InShell(d, stay) = u
  <2>1. PICK a, b : a = <<first>> /\ b = <<ShellEnd(later)>>
    OBVIOUS
  <2>2. IsSequence(a) /\ IsSequence(b) /\ <<first, ShellEnd(later)>> = a \o b
    BY <2>1, OneItem
  <2>3. (a \o b) \o below = a \o (b \o below)
    BY <1>8, <2>2, Regrouped
  <2> QED BY <1>13, <1>14, <1>16, <1>22, <2>1, <2>2, <2>3
<1>24. FlowsReachTheirTargets' /\ Moves(x, below, u, v, <<>>) /\ ShellStatus = StatusOf(r)
  <2>1. StatusOf(d) = v
    BY <1>16, <1>22
  <2>2. NestFits(stay, e) /\ ControlFits(d, stay)
    BY <1>13, <1>16
  <2>3. Inner(e, nest, r, call, s, below, outer) /\ At0(e, nest, r)
    BY <1>1
  <2> QED BY <1>7, <1>21, <1>23, <2>1, <2>2, <2>3, Onwards
<1>25. Moves(ShellEnd(stages), below, <<Head(stages), ShellEnd(Tail(stages))>> \o below, ShellStatus, <<>>)
  <2>1. first = Head(stages) /\ later = Tail(stages)
    BY <1>2, <1>17
  <2>2. u = <<Head(stages), ShellEnd(Tail(stages))>> \o below
    BY <1>22, <2>1
  <2>3. v = ShellStatus /\ x = ShellEnd(stages) /\ Moves(x, below, u, v, <<>>)
    BY <1>17, <1>22, <1>24
  <2> QED BY <2>2, <2>3
<1>26. stages # <<>>
  BY <1>6, <1>17
<1>27. Shell!Next
  BY <1>8, <1>25, <1>26, ShellEndsShell
<1> QED BY <1>24, <1>27 DEF Simulated

LEMMA EndNotKeeps ==
  ASSUME FlowInv, EndNot
  PROVE  FlowsReachTheirTargets' /\ Simulated
<1>0. BackIn({"not"})
  BY DEF EndNot
<1>1. PICK e, nest, r, call, s, below, outer :
        /\ Inner(e, nest, r, call, s, below, outer) /\ At0(e, nest, r)
        /\ Innermost = call /\ call.kind = "not" /\ Callers = outer
  BY <1>0, Resumed
<1>2. PICK t : t = Inverted(r)
  OBVIOUS
<1>3. GoesTo(outer, t, <<>>)
  BY <1>1, <1>2, TurnsGo DEF EndNot, At0
<1>4. /\ e \in BOOLEAN /\ s \in Scope /\ s.strict = e /\ IsSequence(below)
      /\ AnswerFits(r, call, Inside(call, s)) /\ ResultFits(r, Inside(call, s)) /\ IsResult(r)
      /\ outer # <<>> /\ ~s.tested
  BY <1>1, InnerIs
<1>5. Inside(call, s) = NegatedScope(s) /\ Pending(call) = <<Invert>>
  BY <1>1, InsideForms, PendingForms
<1>6. PICK u : u = NegatedScope(s)
  OBVIOUS
<1>7. /\ u.strict = e /\ u.loops = 0 /\ u.tested = e /\ u.returns = s.returns /\ u.exits = s.exits
      /\ u.codes = s.codes
  BY <1>4, <1>6, NegatedScopeIs DEF Same
<1>8. /\ ResultFits(r, u) /\ FlowFits(r, u)
      /\ e => r.flow = NoFlow /\ r.status # 0 /\ ~r.suppressed
  BY <1>1, <1>4, <1>5, <1>6, <1>7 DEF AnswerFits, ResultFits
<1>9. ~r.left
  BY <1>7, <1>8 DEF ResultFits
<1>10. /\ IsResult(t) /\ t.status = (IF r.status = 0 THEN 1 ELSE 0) /\ t.flow = r.flow
       /\ t.suppressed = r.suppressed /\ t.left = r.left
  BY <1>2, <1>4, InvertedIs
<1>11. r.flow = NoFlow \/ r.flow.kind \in {"return", "exit"}
  <2>1. SUFFICES ASSUME r.flow # NoFlow PROVE r.flow.kind \in {"return", "exit"}
    OBVIOUS
  <2>2. r.flow.kind \in {"break", "continue", "return", "exit"}
    BY <1>8, <2>1, FlowOf
  <2>3. r.flow.kind \in {"break", "continue"} => r.flow.n \in 1 .. u.loops
    BY <1>8, <2>1 DEF FlowFits
  <2>4. ~(r.flow.n \in 1 .. u.loops)
    BY <1>7
  <2> QED BY <2>2, <2>3, <2>4
<1>12. FlowFits(t, s)
  BY <1>7, <1>8, <1>10, <1>11 DEF FlowFits
<1>13. ResultFits(t, s)
  <2>1. e => t.flow = NoFlow /\ t.status = 0 /\ ~t.suppressed
    BY <1>8, <1>10
  <2> QED BY <1>4, <1>9, <1>10, <1>12, <2>1 DEF ResultFits
<1>14. Noticed(t, s)
  BY <1>4, <1>8, <1>10 DEF Noticed
<1>15. CASE r.flow # NoFlow
  <2>1. Between(<<Invert>>)
    BY BetweenForms
  <2>2. Reached(r, Pending(call) \o below) = Reached(r, below)
    BY <1>4, <1>5, <1>8, <1>15, <2>1, Passing
  <2>3. Reached(t, below) = Reached(r, Pending(call) \o below)
    BY <1>10, <2>2, SameWay
  <2>4. StatusOf(t) = StatusOf(r)
    BY <1>4, <1>10, <1>11, <1>15, StatusForms
  <2> QED BY <1>1, <1>3, <1>4, <1>10, <1>13, <1>14, <2>3, <2>4, BackStutters
<1>16. CASE r.flow = NoFlow
  <2>1. PICK x : x = Invert
    OBVIOUS
  <2>2. Reached(r, Pending(call) \o below) = <<x>> \o below
    BY <1>5, <1>9, <1>16, <2>1, ReachedForms
  <2>3. Reached(t, below) = below
    BY <1>9, <1>10, <1>16, ReachedForms
  <2>4. PICK v, w : v = r.status /\ w = (IF v = 0 THEN 1 ELSE 0)
    OBVIOUS
  <2>5. StatusOf(t) = w /\ StatusOf(r) = v
    BY <1>4, <1>10, <1>16, <2>4, StatusForms
  <2>6. FlowsReachTheirTargets' /\ Moves(x, below, below, w, <<>>) /\ ShellStatus = StatusOf(r)
    BY <1>1, <1>3, <1>4, <1>10, <1>13, <1>14, <2>2, <2>3, <2>5, BackMoves
  <2>7. v = ShellStatus /\ Moves(Invert, below, below, IF v = 0 THEN 1 ELSE 0, <<>>)
    BY <2>1, <2>4, <2>5, <2>6
  <2>8. Shell!Next
    BY <1>4, <2>7, ShellInverts
  <2> QED BY <2>6, <2>8 DEF Simulated
<1> QED BY <1>15, <1>16

(* The commands that a loop, an if or a case goes on with.                 *)
LEMMA RunsInside ==
  ASSUME NEW e, NEW nest, NEW r, NEW call, NEW s, NEW below, NEW outer,
         Inner(e, nest, r, call, s, below, outer), call.kind \in {"loop", "if", "case"},
         NEW next, CallFits(next, s), next.kind = call.kind,
         NEW stay, stay = KeptIn(nest, next),
         NEW cmds, AllMayStand(cmds, Inside(next, s)), NEW check \in BOOLEAN,
         check => ~Inside(next, s).tested,
         ~check => next.kind \in {"loop", "if"} /\ next.stage = "condition",
         NEW nest2, NEW d, Starts(cmds, check, stay, nest2, d)
  PROVE  /\ NestFits(nest2, e) /\ ControlFits(d, nest2)
         /\ InShell(d, nest2) = cmds \o (Pending(next) \o below) /\ StatusOf(d) = 0
         /\ IsSequence(cmds) /\ IsSequence(Pending(next)) /\ IsSequence(below)
<1>1. e \in BOOLEAN /\ IsSequence(below)
  BY InnerIs
<1>2. /\ NestFits(stay, e) /\ stay # <<>> /\ Head(stay).call = next
      /\ StackOf(stay) = Pending(next) \o below /\ ScopeIn(stay) = Inside(next, s)
      /\ IsSequence(Pending(next))
  BY Going
<1>3. /\ NestFits(nest2, e) /\ ControlFits(d, nest2)
      /\ InShell(d, nest2) = cmds \o StackOf(stay) /\ StatusOf(d) = 0
  <2>1. AllMayStand(cmds, ScopeIn(stay)) /\ (ScopeIn(stay).tested => ~check)
    BY <1>2
  <2>2. ~check => Head(stay).call.kind \in {"loop", "if"} /\ Head(stay).call.stage = "condition"
    BY <1>2
  <2>3. e => Head(stay).call.kind # "not"
    BY <1>2
  <2>4. e \in BOOLEAN /\ NestFits(stay, e) /\ stay # <<>>
    BY <1>1, <1>2
  <2>5. check \in BOOLEAN /\ Starts(cmds, check, stay, nest2, d)
    OBVIOUS
  <2> QED BY ONLY <2>1, <2>2, <2>3, <2>4, <2>5, Starting
<1>4. IsSequence(cmds)
  BY HeadStands
<1> QED BY <1>1, <1>2, <1>3, <1>4

LEMMA BodyStarts ==
  ASSUME FlowInv, NEW cmds, NEW n, Begins(cmds, TRUE, n), ran' = Append(ran, Mark), UNCHANGED errexit
  PROVE  \E nest2, ctl2 : GoesTo(nest2, ctl2, <<Mark>>) /\ Starts(cmds, TRUE, n, nest2, ctl2)
<1>1. PICK nest2, ctl2 : nest2 = calls' /\ ctl2 = control'
  OBVIOUS
<1>2. GoesTo(nest2, ctl2, <<Mark>>)
  BY <1>1, Appending DEF GoesTo, FlowInv
<1>3. Starts(cmds, TRUE, n, nest2, ctl2)
  BY <1>1 DEF Begins, Starts
<1> QED BY <1>2, <1>3

LEMMA LoopParts ==
  ASSUME NEW e, NEW nest, NEW r, NEW call, NEW s, NEW below, NEW outer,
         Inner(e, nest, r, call, s, below, outer), call.kind = "loop"
  PROVE  /\ e \in BOOLEAN /\ s \in Scope /\ s.strict = e /\ ~s.tested /\ outer # <<>>
         /\ IsSequence(below) /\ IsResult(r) /\ ResultFits(r, Inside(call, s))
         /\ call = [kind |-> "loop", loop |-> call.loop, i |-> call.i, stage |-> call.stage,
                    acc |-> call.acc]
         /\ call.loop.kind \in Loops /\ LoopFits(call.loop, s) /\ AccFits(call.acc, s)
         /\ call.i \in Nat
         /\ call.stage = "body" \/ (call.stage = "condition" /\ call.loop.kind # "for")
<1>1. /\ e \in BOOLEAN /\ s \in Scope /\ s.strict = e /\ CallFits(call, s)
      /\ ~s.tested /\ outer # <<>>
      /\ IsSequence(below) /\ IsResult(r) /\ ResultFits(r, Inside(call, s))
  BY InnerIs
<1> QED BY <1>1 DEF CallFits

(* What a round leaves to a loop that goes on.                             *)
LEMMA RoundLeaves ==
  ASSUME NEW e, NEW nest, NEW r, NEW call, NEW s, NEW below, NEW outer,
         Inner(e, nest, r, call, s, below, outer), call.kind = "loop", call.stage = "body",
         r.flow = NoFlow \/ InnerLoop(r.flow),
         NEW t, IsResult(t), t.status = r.status, t.flow = NoFlow,
         t.suppressed = r.suppressed, t.left = r.left,
         NEW x, <<x>> = Pending(call)
  PROVE  /\ IsResult(t) /\ t.flow = NoFlow /\ ~t.left /\ t.status = StatusOf(r) /\ StatusOf(t) = t.status
         /\ ResultFits(t, s) /\ Noticed(t, s) /\ AccFits(t, s)
         /\ Reached(t, below) = below
         /\ ~(r.flow # NoFlow /\ r.flow.kind = "break") =>
              Reached(r, Pending(call) \o below) = <<x>> \o below
         /\ r.flow # NoFlow /\ r.flow.kind = "break" => Reached(r, Pending(call) \o below) = below
<1>1. /\ e \in BOOLEAN /\ s \in Scope /\ s.strict = e /\ ~s.tested
      /\ IsSequence(below) /\ IsResult(r) /\ AnswerFits(r, call, Inside(call, s))
  BY InnerIs
<1>2. Inside(call, s) = LoopScope(s) /\ Pending(call) = <<Round(call.loop, call.i + 1)>>
  BY InsideForms, PendingForms
<1>3. PICK u : u = LoopScope(s)
  OBVIOUS
<1>4. /\ u.strict = e /\ u.loops = s.loops + 1 /\ u.tested = s.tested /\ u.fails = ~e
      /\ u.excused = s.excused /\ u.loops \in Nat
  BY <1>1, <1>3, LoopScopeIs DEF Same, Scope
<1>5. ResultFits(r, u) /\ FlowFits(r, u) /\ Noticed(r, u)
  BY <1>1, <1>2, <1>3, <1>4 DEF AnswerFits, ResultFits
<1>6. ~r.left
  BY <1>4, <1>5 DEF ResultFits
<1>7. r.flow # NoFlow =>
        r.flow.kind \in {"break", "continue"} /\ r.flow.n = 1 /\ r.status = 0 /\ (e => ~r.suppressed)
  <2>1. SUFFICES ASSUME r.flow # NoFlow
                 PROVE  r.flow.kind \in {"break", "continue"} /\ r.flow.n = 1 /\ r.status = 0
                        /\ (e => ~r.suppressed)
    OBVIOUS
  <2>2. r.flow.kind \in {"break", "continue"} /\ r.flow.n <= 1
    BY <2>1 DEF InnerLoop
  <2>3. r.flow.n \in 1 .. u.loops /\ r.status = 0
    BY <1>5, <2>1, <2>2 DEF FlowFits
  <2>4. e => ~r.suppressed
    BY <1>4, <1>5, <2>1 DEF ResultFits
  <2> QED BY <1>4, <2>2, <2>3, <2>4
<1>8. /\ IsResult(t) /\ t.status = r.status /\ t.flow = NoFlow
      /\ t.suppressed = r.suppressed /\ t.left = r.left
  OBVIOUS
<1>9. StatusOf(t) = r.status /\ StatusOf(r) = r.status
  BY <1>1, <1>7, <1>8, StatusForms
<1>10. FlowFits(t, s)
  BY <1>8 DEF FlowFits
<1>11. e /\ t.suppressed => t.status # 0 /\ s.excused
  BY <1>4, <1>5, <1>7, <1>8 DEF ResultFits
<1>12. ResultFits(t, s)
  BY <1>1, <1>6, <1>8, <1>10, <1>11 DEF ResultFits
<1>13. Noticed(t, s)
  BY <1>1, <1>4, <1>5, <1>7, <1>8 DEF Noticed
<1>14. AccFits(t, s)
  BY <1>6, <1>8, <1>12, <1>13 DEF AccFits
<1>15. Reached(t, below) = below
  BY <1>6, <1>8, ReachedForms
<1>16. PICK rounds : rounds = {"round"}
  OBVIOUS
<1>17. x.kind \in rounds
  <2>1. PICK y : y = Round(call.loop, call.i + 1)
    OBVIOUS
  <2>2. y.kind = "round" /\ Pending(call) = <<y>>
    BY <1>2, <2>1 DEF Round
  <2>3. <<x>>[1] = x /\ <<y>>[1] = y
    BY OneItem
  <2> QED BY <1>16, <2>2, <2>3
<1>18. From(rounds, 1, <<x>> \o below) = <<x>> \o below
  BY <1>1, <1>17, FromHere
<1>19. Pending(call) = <<x>>
  OBVIOUS
<1>20. ASSUME ~(r.flow # NoFlow /\ r.flow.kind = "break")
       PROVE  Reached(r, Pending(call) \o below) = <<x>> \o below
  <2>1. CASE r.flow = NoFlow
    BY <1>6, <1>19, <2>1, ReachedForms
  <2>2. CASE r.flow # NoFlow
    <3>1. r.flow.kind = "continue" /\ r.flow.n = 1
      BY <1>7, <1>20, <2>2
    <3>2. Reached(r, <<x>> \o below) = From(rounds, 1, <<x>> \o below)
      BY <1>16, <3>1, ReachedForms
    <3> QED BY <1>18, <1>19, <3>2
  <2> QED BY <2>1, <2>2
<1>21. ASSUME r.flow # NoFlow, r.flow.kind = "break"
       PROVE  Reached(r, Pending(call) \o below) = below
  <2>1. r.flow.n = 1
    BY <1>7, <1>21
  <2>2. Reached(r, <<x>> \o below) = Beyond(rounds, 1, <<x>> \o below)
    BY <1>16, <1>21, <2>1, ReachedForms
  <2>3. <<x>> \o below # <<>> /\ Tail(<<x>> \o below) = below
    BY <1>1, HeadFirst
  <2>4. Beyond(rounds, 1, <<x>> \o below) = below
    BY <1>18, <2>3 DEF Beyond
  <2> QED BY <1>19, <2>2, <2>4
<1> QED BY <1>6, <1>8, <1>9, <1>12, <1>13, <1>14, <1>15, <1>20, <1>21

LEMMA BreakLoopKeeps ==
  ASSUME FlowInv, BreakLoop
  PROVE  FlowsReachTheirTargets' /\ Simulated
<1>0. BackIn({"loop"})
  BY DEF BreakLoop
<1>1. PICK e, nest, r, call, s, below, outer :
        /\ Inner(e, nest, r, call, s, below, outer) /\ At0(e, nest, r)
        /\ Innermost = call /\ call.kind = "loop" /\ Callers = outer
  BY <1>0, Resumed
<1>2. PICK t : t = [r EXCEPT !.flow = NoFlow]
  OBVIOUS
<1>3. GoesTo(outer, t, <<>>)
  BY <1>1, <1>2, TurnsGo DEF BreakLoop, At0
<1>4. call.stage = "body" /\ InnerLoop(r.flow) /\ r.flow.kind = "break"
  BY <1>1 DEF BreakLoop, At0
<1>5. r.flow # NoFlow
  BY <1>4, FlowKinds
<1>6. PICK x : <<x>> = Pending(call)
  BY <1>1, <1>4, PendingForms
<1>7. /\ IsResult(t) /\ t.flow = NoFlow /\ t.status = StatusOf(r) /\ StatusOf(t) = t.status
      /\ ResultFits(t, s) /\ Noticed(t, s) /\ Reached(t, below) = below
      /\ Reached(r, Pending(call) \o below) = below
  <2>1. Inner(e, nest, r, call, s, below, outer) /\ call.kind = "loop" /\ call.stage = "body"
    BY <1>1, <1>4
  <2>2. r.flow = NoFlow \/ InnerLoop(r.flow)
    BY <1>4
  <2>3. /\ IsResult(t) /\ t.flow = NoFlow /\ t.status = StatusOf(r) /\ StatusOf(t) = t.status
        /\ ResultFits(t, s) /\ Noticed(t, s) /\ Reached(t, below) = below
        /\ r.flow # NoFlow /\ r.flow.kind = "break" => Reached(r, Pending(call) \o below) = below
    <3>1. IsResult(r)
      BY <1>1, InnerIs
    <3>2. /\ IsResult(t) /\ t.status = r.status /\ t.flow = NoFlow
          /\ t.suppressed = r.suppressed /\ t.left = r.left
      BY <1>2, <3>1, WithoutFlow
    <3> QED BY <1>6, <2>1, <2>2, <3>2, RoundLeaves
  <2> QED BY <1>4, <1>5, <2>3
<1> QED BY <1>1, <1>3, <1>7, BackStutters

LEMMA LeaveLoopKeeps ==
  ASSUME FlowInv, LeaveLoop
  PROVE  FlowsReachTheirTargets' /\ Simulated
<1>0. BackIn({"loop"})
  BY DEF LeaveLoop
<1>1. PICK e, nest, r, call, s, below, outer :
        /\ Inner(e, nest, r, call, s, below, outer) /\ At0(e, nest, r)
        /\ Innermost = call /\ call.kind = "loop" /\ Callers = outer
  BY <1>0, Resumed
<1>2. PICK t : t = Propagated(r)
  OBVIOUS
<1>3. GoesTo(outer, t, <<>>)
  BY <1>1, <1>2, TurnsGo DEF LeaveLoop, At0
<1>4. call.stage = "body" /\ ~InnerLoop(r.flow) /\ r.flow # NoFlow
  BY <1>1 DEF LeaveLoop, Flowing, At0
<1>5. /\ e \in BOOLEAN /\ s \in Scope /\ s.strict = e /\ ~s.tested /\ outer # <<>>
      /\ IsSequence(below) /\ IsResult(r) /\ ResultFits(r, Inside(call, s))
  BY <1>1, InnerIs
<1>6. Inside(call, s) = LoopScope(s) /\ Pending(call) = <<Round(call.loop, call.i + 1)>>
  BY <1>1, <1>4, InsideForms, PendingForms
<1>7. PICK u, x : u = LoopScope(s) /\ x = Round(call.loop, call.i + 1)
  OBVIOUS
<1>8. /\ u.strict = e /\ u.loops = s.loops + 1 /\ u.loops \in Nat /\ s.loops \in Nat
      /\ u.returns = s.returns /\ u.exits = s.exits /\ u.codes = s.codes
  BY <1>5, <1>7, LoopScopeIs DEF Same, Scope
<1>9. ResultFits(r, u) /\ FlowFits(r, u)
  BY <1>5, <1>6, <1>7 DEF ResultFits
<1>10. ~r.left
  BY <1>4, <1>9 DEF ResultFits
<1>11. /\ IsResult(t) /\ ~t.suppressed /\ t.left = r.left
       /\ r.flow.kind \in {"break", "continue"} =>
            t.flow = Flow(r.flow.kind, r.flow.n - 1) /\ t.status = r.status
       /\ r.flow.kind \in {"return", "exit"} => t.flow = r.flow /\ t.status = r.flow.n
  BY <1>2, <1>4, <1>5, <1>9, PropagatedIs
<1>12. PICK rounds : rounds = {"round"}
  OBVIOUS
<1>13. x.kind = "round" /\ Pending(call) = <<x>>
  BY <1>6, <1>7 DEF Round
<1>14. CASE r.flow.kind \in {"break", "continue"}
  <2>1. r.flow.n \in 1 .. u.loops /\ r.status = 0 /\ ~(r.flow.n <= 1)
    BY <1>4, <1>9, <1>14 DEF FlowFits, InnerLoop
  <2>2. PICK n : n = r.flow.n
    OBVIOUS
  <2>3. n \in Nat /\ n > 1 /\ n - 1 \in 1 .. s.loops
    BY <1>8, <2>1, <2>2
  <2>4. /\ t.flow.kind = r.flow.kind /\ t.flow.n = n - 1 /\ t.flow # NoFlow
        /\ t.flow = Flow(t.flow.kind, t.flow.n)
    <3>1. r.flow.kind \in Flows
      BY <1>14 DEF Flows
    <3>2. t.flow = Flow(r.flow.kind, n - 1)
      BY <1>11, <1>14, <2>2
    <3> QED BY <3>1, <3>2, FlowKinds
  <2>5. FlowFits(t, s)
    <3>1. t.flow.kind \in Flows /\ t.flow.kind \in {"break", "continue"} /\ t.status = 0
      BY <1>11, <1>14, <2>1, <2>4 DEF Flows
    <3> QED BY <2>3, <2>4, <3>1 DEF FlowFits
  <2>6. ResultFits(t, s) /\ Noticed(t, s)
    BY <1>10, <1>11, <2>4, <2>5 DEF ResultFits, Noticed
  <2>7. From(rounds, n, <<x>> \o below) = From(rounds, n - 1, below)
    BY <1>5, <1>12, <1>13, <2>3, FromCounts
  <2>8. Reached(t, below) = Reached(r, Pending(call) \o below)
    <3>1. CASE r.flow.kind = "break"
      <4>1. Reached(t, below) = Beyond(rounds, n - 1, below)
        BY <1>12, <2>4, <3>1, ReachedForms
      <4>2. Reached(r, <<x>> \o below) = Beyond(rounds, n, <<x>> \o below)
        BY <1>12, <2>2, <3>1, ReachedForms
      <4>3. Beyond(rounds, n, <<x>> \o below) = Beyond(rounds, n - 1, below)
        BY <2>7 DEF Beyond
      <4> QED BY <1>13, <4>1, <4>2, <4>3
    <3>2. CASE r.flow.kind = "continue"
      <4>1. Reached(t, below) = From(rounds, n - 1, below)
        BY <1>12, <2>4, <3>2, ReachedForms
      <4>2. Reached(r, <<x>> \o below) = From(rounds, n, <<x>> \o below)
        BY <1>12, <2>2, <3>2, ReachedForms
      <4> QED BY <1>13, <2>7, <4>1, <4>2
    <3> QED BY <1>14, <3>1, <3>2
  <2>9. StatusOf(t) = StatusOf(r)
    BY <1>5, <1>11, <1>14, <2>4, StatusForms
  <2> QED BY <1>1, <1>3, <1>5, <1>11, <2>6, <2>8, <2>9, BackStutters
<1>15. CASE r.flow.kind \in {"return", "exit"}
  <2>1. t.flow = r.flow /\ t.status = r.flow.n
    BY <1>11, <1>15
  <2>2. FlowFits(t, s)
    BY <1>4, <1>8, <1>9, <1>15, <2>1 DEF FlowFits
  <2>3. ResultFits(t, s) /\ Noticed(t, s)
    BY <1>4, <1>10, <1>11, <2>1, <2>2 DEF ResultFits, Noticed
  <2>4. PICK a : a = <<x>>
    OBVIOUS
  <2>5. IsSequence(a) /\ DOMAIN a = {1} /\ a[1] = x
    BY <2>4, OneItem
  <2>6. Reached(r, a \o below) = Reached(r, below)
    <3>1. CASE r.flow.kind = "return"
      <4>1. PICK ends : ends = {"functionend", "shellend"}
        OBVIOUS
      <4>2. \A k \in DOMAIN a : a[k].kind \notin ends
        BY <1>13, <2>5, <4>1
      <4>3. From(ends, 1, a \o below) = From(ends, 1, below)
        BY <1>5, <2>5, <4>2, FromSkips
      <4> QED BY <3>1, <4>1, <4>3, ReachedForms
    <3>2. CASE r.flow.kind = "exit"
      <4>1. PICK ends : ends = {"shellend"}
        OBVIOUS
      <4>2. \A k \in DOMAIN a : a[k].kind \notin ends
        BY <1>13, <2>5, <4>1
      <4>3. From(ends, 1, a \o below) = From(ends, 1, below)
        BY <1>5, <2>5, <4>2, FromSkips
      <4> QED BY <3>2, <4>1, <4>3, ReachedForms
    <3> QED BY <1>15, <3>1, <3>2
  <2>7. Reached(t, below) = Reached(r, Pending(call) \o below)
    <3>1. \A stack : Reached(t, stack) = Reached(r, stack)
      BY <1>11, <2>1, SameWay
    <3> QED BY <1>13, <2>4, <2>6, <3>1
  <2>8. StatusOf(t) = StatusOf(r)
    BY <1>5, <1>11, <1>15, <2>1, StatusForms
  <2> QED BY <1>1, <1>3, <1>5, <1>11, <2>3, <2>7, <2>8, BackStutters
<1>16. r.flow.kind \in {"break", "continue", "return", "exit"}
  BY <1>4, <1>9, FlowOf
<1> QED BY <1>14, <1>15, <1>16

(* The call of a loop, as it goes on.                                      *)
LoopCall(call) ==
  /\ call.kind = "loop"
  /\ call = [kind |-> "loop", loop |-> call.loop, i |-> call.i, stage |-> call.stage,
              acc |-> call.acc]
LoopAt(call, i, stage, acc) == [call EXCEPT !.i = i, !.stage = stage, !.acc = acc]

LEMMA LoopAtFields ==
  ASSUME NEW k, k = "loop", NEW xloop, NEW xi, NEW xstage, NEW xacc,
         NEW next, next = [kind |-> k, loop |-> xloop, i |-> xi, stage |-> xstage, acc |-> xacc]
  PROVE  /\ LoopCall(next)
         /\ next.loop = xloop /\ next.i = xi /\ next.stage = xstage /\ next.acc = xacc
<1>1. /\ next.kind = "loop" /\ next.loop = xloop /\ next.i = xi /\ next.stage = xstage
      /\ next.acc = xacc
  OBVIOUS
<1> QED BY <1>1 DEF LoopCall

LEMMA LoopAtIs ==
  ASSUME NEW call, LoopCall(call), NEW i, NEW stage, NEW acc, NEW next, next = LoopAt(call, i, stage, acc)
  PROVE  /\ LoopCall(next)
         /\ next.loop = call.loop /\ next.i = i /\ next.stage = stage /\ next.acc = acc
<1>1. PICK k, xloop, xi, xstage, xacc :
        k = call.kind /\ xloop = call.loop /\ xi = call.i /\ xstage = call.stage /\ xacc = call.acc
  OBVIOUS
<1>2. k = "loop"
  BY <1>1 DEF LoopCall
<1>3. call = [kind |-> k, loop |-> xloop, i |-> xi, stage |-> xstage, acc |-> xacc]
  BY <1>1, <1>2 DEF LoopCall
<1>4. next = [call EXCEPT !.i = i, !.stage = stage, !.acc = acc]
  BY DEF LoopAt
<1>5. next = [kind |-> k, loop |-> xloop, i |-> i, stage |-> stage, acc |-> acc]
  BY <1>3, <1>4, LoopGoesOnFields
<1> QED BY <1>1, <1>2, <1>5, LoopAtFields

LEMMA LoopCallFits ==
  ASSUME NEW call, LoopCall(call), NEW s, ~s.tested,
         call.loop.kind \in Loops, LoopFits(call.loop, s), AccFits(call.acc, s), call.i \in Nat,
         call.stage = "body" \/ (call.stage = "condition" /\ call.loop.kind # "for")
  PROVE  CallFits(call, s)
BY DEF CallFits, LoopCall

LEMMA LoopInside ==
  ASSUME NEW call, LoopCall(call), NEW s
  PROVE  /\ call.kind = "loop"
         /\ call.stage = "body" => Inside(call, s) = LoopScope(s) /\ Pending(call) = <<Round(call.loop, call.i + 1)>>
         /\ call.stage = "condition" =>
              /\ Inside(call, s) = ConditionScope(s)
              /\ Pending(call) = <<Decide(call.loop, call.i, call.acc.status)>>
BY InsideForms, PendingForms DEF LoopCall

LEMMA InnerLoopCall ==
  ASSUME NEW e, NEW nest, NEW r, NEW call, NEW s, NEW below, NEW outer,
         Inner(e, nest, r, call, s, below, outer), call.kind = "loop"
  PROVE  /\ LoopCall(call) /\ e \in BOOLEAN /\ s \in Scope /\ s.strict = e /\ ~s.tested
         /\ outer # <<>> /\ IsSequence(below) /\ IsResult(r)
         /\ call.loop.kind \in Loops /\ LoopFits(call.loop, s) /\ AccFits(call.acc, s)
         /\ call.i \in Nat
         /\ call.stage = "body" \/ (call.stage = "condition" /\ call.loop.kind # "for")
BY LoopParts DEF LoopCall

(* The body of a loop, in the round i.                                     *)
LEMMA RoundFits ==
  ASSUME NEW call, LoopCall(call), NEW s \in Scope, ~s.tested,
         call.loop.kind \in Loops, LoopFits(call.loop, s),
         NEW i \in Nat, NEW acc, AccFits(acc, s), NEW stage, stage = "body",
         NEW next, next = LoopAt(call, i, stage, acc)
  PROVE  /\ CallFits(next, s) /\ next.kind = "loop" /\ call.kind = "loop"
         /\ ~Inside(next, s).tested /\ AllMayStand(call.loop.body, Inside(next, s))
         /\ Pending(next) = <<Round(call.loop, i + 1)>>
<1>2. LoopCall(next) /\ next.loop = call.loop /\ next.i = i /\ next.stage = stage /\ next.acc = acc
  BY LoopAtIs
<1>3. CallFits(next, s)
  BY <1>2, LoopCallFits
<1>4. /\ next.kind = "loop" /\ Inside(next, s) = LoopScope(s)
      /\ Pending(next) = <<Round(next.loop, next.i + 1)>>
  BY <1>2, LoopInside
<1>5. ~LoopScope(s).tested
  BY LoopScopeIs
<1>6. AllMayStand(call.loop.body, LoopScope(s))
  BY DEF LoopFits
<1>7. call.kind = "loop"
  BY DEF LoopCall
<1> QED BY <1>2, <1>3, <1>4, <1>5, <1>6, <1>7

LEMMA NextWordKeeps ==
  ASSUME FlowInv, NextWord
  PROVE  FlowsReachTheirTargets' /\ Simulated
<1>0. BackIn({"loop"})
  BY DEF NextWord
<1>1. PICK e, nest, r, call, s, below, outer :
        /\ Inner(e, nest, r, call, s, below, outer) /\ At0(e, nest, r)
        /\ Innermost = call /\ call.kind = "loop" /\ Callers = outer
  BY <1>0, Resumed
<1>2. PICK t : t = [r EXCEPT !.flow = NoFlow]
  OBVIOUS
<1>3. Acc = t
  BY <1>1, <1>2 DEF Acc, At0
<1>4. /\ call.stage = "body" /\ call.loop.kind = "for"
      /\ r.flow = NoFlow \/ (InnerLoop(r.flow) /\ r.flow.kind = "continue")
  BY <1>1 DEF NextWord, RunsOn, Flowing, At0
<1>5. /\ e \in BOOLEAN /\ s \in Scope /\ s.strict = e /\ ~s.tested /\ outer # <<>>
      /\ IsSequence(below) /\ IsResult(r) /\ call.i \in Nat
  BY <1>1, LoopParts
<1>6. PICK j : j = call.i + 1
  OBVIOUS
<1>7. PICK x : x = Round(call.loop, j)
  OBVIOUS
<1>8. <<x>> = Pending(call)
  BY <1>1, <1>4, <1>6, <1>7, PendingForms
<1>9. /\ IsResult(t) /\ t.flow = NoFlow /\ t.status = StatusOf(r) /\ StatusOf(t) = t.status
      /\ ResultFits(t, s) /\ Noticed(t, s) /\ AccFits(t, s) /\ Reached(t, below) = below
      /\ Reached(r, Pending(call) \o below) = <<x>> \o below
  <2>1. Inner(e, nest, r, call, s, below, outer) /\ call.kind = "loop" /\ call.stage = "body"
    BY <1>1, <1>4
  <2>2. r.flow = NoFlow \/ InnerLoop(r.flow)
    BY <1>4
  <2>3. /\ IsResult(t) /\ t.status = r.status /\ t.flow = NoFlow
        /\ t.suppressed = r.suppressed /\ t.left = r.left
    BY <1>2, <1>5, WithoutFlow
  <2>4. /\ IsResult(t) /\ t.flow = NoFlow /\ t.status = StatusOf(r) /\ StatusOf(t) = t.status
        /\ ResultFits(t, s) /\ Noticed(t, s) /\ AccFits(t, s) /\ Reached(t, below) = below
        /\ ~(r.flow # NoFlow /\ r.flow.kind = "break") =>
             Reached(r, Pending(call) \o below) = <<x>> \o below
    BY ONLY <1>8, <2>1, <2>2, <2>3, RoundLeaves
  <2> QED BY <1>4, <2>4
<1>10. MaxRounds \in Nat /\ j \in Nat /\ (call.i < MaxRounds <=> j <= MaxRounds)
  BY <1>5, <1>6, RoundsAssumption
<1>11. CASE call.i < MaxRounds
  <2>1. PICK stage : stage = "body"
    OBVIOUS
  <2>2. PICK next : next = LoopAt(call, j, stage, t)
    OBVIOUS
  <2>3. PICK stay : stay = KeptIn(nest, next)
    OBVIOUS
  <2>4. PICK lp : lp = call.loop
    OBVIOUS
  <2>5. PICK body, b : body = lp.body /\ b = <<Round(lp, j + 1)>>
    OBVIOUS
  <2>6. Kept(next) = stay
    BY <1>1, <2>3, KeptIs DEF At0
  <2>7. BodyBegins(j, t)
    BY <1>1, <1>3, <1>6, <1>11 DEF NextWord
  <2>8. ran' = Append(ran, Mark) /\ Begins(body, TRUE, stay) /\ UNCHANGED errexit
    BY <1>1, <2>1, <2>2, <2>4, <2>5, <2>6, <2>7 DEF BodyBegins, LoopAt
  <2>9. PICK nest2, d : GoesTo(nest2, d, <<Mark>>) /\ Starts(body, TRUE, stay, nest2, d)
    BY <2>8, BodyStarts
  <2>10. /\ CallFits(next, s) /\ next.kind = "loop"
         /\ ~Inside(next, s).tested /\ AllMayStand(call.loop.body, Inside(next, s))
         /\ Pending(next) = <<Round(call.loop, j + 1)>>
    <3>1. /\ LoopCall(call) /\ s \in Scope /\ ~s.tested
          /\ call.loop.kind \in Loops /\ LoopFits(call.loop, s)
      BY <1>1, InnerLoopCall
    <3>2. AccFits(t, s) /\ j \in Nat
      BY <1>9, <1>10
    <3> QED BY ONLY <2>1, <2>2, <3>1, <3>2, RoundFits
  <2>11. /\ NestFits(nest2, e) /\ ControlFits(d, nest2)
         /\ InShell(d, nest2) = (body \o b) \o below /\ StatusOf(d) = 0
    <3>1. PICK check \in BOOLEAN : check = TRUE
      OBVIOUS
    <3>2. Inner(e, nest, r, call, s, below, outer) /\ call.kind \in {"loop", "if", "case"}
      BY <1>1
    <3>3. next.kind = call.kind /\ CallFits(next, s)
      BY <1>1, <2>10
    <3>4. AllMayStand(body, Inside(next, s)) /\ (check => ~Inside(next, s).tested) /\ check \in BOOLEAN
      BY <2>4, <2>5, <2>10
    <3>5. ~check => next.kind \in {"loop", "if"} /\ next.stage = "condition"
      BY <3>1
    <3>6. Starts(body, check, stay, nest2, d) /\ stay = KeptIn(nest, next)
      BY <2>3, <2>9, <3>1
    <3>7. /\ NestFits(nest2, e) /\ ControlFits(d, nest2)
          /\ InShell(d, nest2) = body \o (Pending(next) \o below) /\ StatusOf(d) = 0
          /\ IsSequence(body) /\ IsSequence(Pending(next)) /\ IsSequence(below)
      BY ONLY <3>2, <3>3, <3>4, <3>5, <3>6, RunsInside
    <3>8. Pending(next) = b
      BY <2>4, <2>5, <2>10
    <3>9. (body \o b) \o below = body \o (b \o below)
      BY <3>7, <3>8, Regrouped
    <3> QED BY <3>7, <3>8, <3>9
  <2>12. PICK u : u = (body \o b) \o below
    OBVIOUS
  <2>13. InShell(d, nest2) = u
    BY <2>11, <2>12
  <2>14. PICK v, out : v = 0 /\ out = <<Mark>>
    OBVIOUS
  <2>15. FlowsReachTheirTargets' /\ Moves(x, below, u, v, out)
    <3>1. NestFits(nest2, e) /\ ControlFits(d, nest2) /\ StatusOf(d) = v /\ GoesTo(nest2, d, out)
      BY <2>9, <2>11, <2>14
    <3>2. Inner(e, nest, r, call, s, below, outer) /\ At0(e, nest, r)
      BY <1>1
    <3>3. Reached(r, Pending(call) \o below) = <<x>> \o below
      BY <1>9
    <3> QED BY <2>13, <3>1, <3>2, <3>3, Onwards
  <2>16. Moves(Round(lp, j), below, lp.body \o <<Round(lp, j + 1)>> \o below, 0, <<Mark>>)
    <3>1. u = lp.body \o <<Round(lp, j + 1)>> \o below /\ x = Round(lp, j)
      BY <1>7, <2>4, <2>5, <2>12
    <3> QED BY <2>14, <2>15, <3>1
  <2>17. lp.kind = "for" /\ j <= MaxRounds
    BY <1>4, <1>10, <1>11, <2>4
  <2>18. Shell!Next
    BY <1>5, <2>16, <2>17, ShellEntersRound
  <2> QED BY <2>15, <2>18 DEF Simulated
<1>12. CASE ~(call.i < MaxRounds)
  <2>1. GoesTo(outer, t, <<>>)
    BY <1>1, <1>3, <1>12, TurnsGo DEF NextWord
  <2>2. PICK v : v = t.status
    OBVIOUS
  <2>3. FlowsReachTheirTargets' /\ Moves(x, below, below, v, <<>>) /\ ShellStatus = StatusOf(r)
    <3>1. StatusOf(t) = v
      BY <1>9, <2>2
    <3>2. outer # <<>> /\ ResultFits(t, s) /\ Noticed(t, s) /\ IsResult(t)
      BY <1>5, <1>9
    <3>3. Reached(r, Pending(call) \o below) = <<x>> \o below /\ Reached(t, below) = below
      BY <1>9
    <3> QED BY <1>1, <2>1, <3>1, <3>2, <3>3, BackMoves
  <2>4. PICK lp : lp = call.loop
    OBVIOUS
  <2>5. Moves(Round(lp, j), below, below, v, <<>>)
    BY <1>7, <2>3, <2>4
  <2>6. v = ShellStatus /\ lp.kind = "for" /\ ~(j <= MaxRounds)
    BY <1>4, <1>9, <1>10, <1>12, <2>2, <2>3, <2>4
  <2>7. Shell!Next
    BY <1>5, <2>5, <2>6, ShellEntersRound
  <2> QED BY <2>3, <2>7 DEF Simulated
<1> QED BY <1>11, <1>12

LEMMA TestLoopKeeps ==
  ASSUME FlowInv, TestLoop
  PROVE  FlowsReachTheirTargets' /\ Simulated
<1>0. BackIn({"loop"})
  BY DEF TestLoop
<1>1. PICK e, nest, r, call, s, below, outer :
        /\ Inner(e, nest, r, call, s, below, outer) /\ At0(e, nest, r)
        /\ Innermost = call /\ call.kind = "loop" /\ Callers = outer
  BY <1>0, Resumed
<1>2. PICK t : t = [r EXCEPT !.flow = NoFlow]
  OBVIOUS
<1>3. Acc = t
  BY <1>1, <1>2 DEF Acc, At0
<1>4. /\ call.stage = "body" /\ call.loop.kind # "for"
      /\ r.flow = NoFlow \/ (InnerLoop(r.flow) /\ r.flow.kind = "continue")
  BY <1>1 DEF TestLoop, RunsOn, Flowing, At0
<1>5. /\ e \in BOOLEAN /\ s \in Scope /\ s.strict = e /\ ~s.tested /\ outer # <<>>
      /\ IsSequence(below) /\ IsResult(r) /\ call.i \in Nat
      /\ call.loop.kind \in Loops /\ LoopFits(call.loop, s)
  BY <1>1, LoopParts
<1>6. PICK j, stage : j = call.i + 1 /\ stage = "condition"
  OBVIOUS
<1>7. PICK x : x = Round(call.loop, j)
  OBVIOUS
<1>8. <<x>> = Pending(call)
  BY <1>1, <1>4, <1>6, <1>7, PendingForms
<1>9. /\ IsResult(t) /\ t.flow = NoFlow /\ t.status = StatusOf(r)
      /\ AccFits(t, s)
      /\ Reached(r, Pending(call) \o below) = <<x>> \o below
  <2>1. Inner(e, nest, r, call, s, below, outer) /\ call.kind = "loop" /\ call.stage = "body"
    BY <1>1, <1>4
  <2>2. r.flow = NoFlow \/ InnerLoop(r.flow)
    BY <1>4
  <2>3. /\ IsResult(t) /\ t.status = r.status /\ t.flow = NoFlow
        /\ t.suppressed = r.suppressed /\ t.left = r.left
    BY <1>2, <1>5, WithoutFlow
  <2>4. /\ IsResult(t) /\ t.flow = NoFlow /\ t.status = StatusOf(r)
        /\ AccFits(t, s)
        /\ ~(r.flow # NoFlow /\ r.flow.kind = "break") =>
             Reached(r, Pending(call) \o below) = <<x>> \o below
    BY ONLY <1>8, <2>1, <2>2, <2>3, RoundLeaves
  <2> QED BY <1>4, <2>4
<1>10. PICK next : next = LoopAt(call, j, stage, t)
  OBVIOUS
<1>11. PICK stay, cmds : stay = KeptIn(nest, next) /\ cmds = Condition(call.loop, j)
  OBVIOUS
<1>12. PICK nest2, d : GoesTo(nest2, d, <<>>) /\ Starts(cmds, FALSE, stay, nest2, d)
  <2>1. Kept(next) = stay
    BY <1>1, <1>11, KeptIs DEF At0
  <2>2. Begins(cmds, FALSE, stay) /\ UNCHANGED <<ran, errexit>>
    BY <1>1, <1>3, <1>6, <1>10, <1>11, <2>1 DEF TestLoop, ConditionSequence, LoopAt
  <2> QED BY <2>2, SequenceStarts
<1>13. LoopCall(next) /\ next.loop = call.loop /\ next.i = j /\ next.stage = stage /\ next.acc = t
  <2>1. LoopCall(call)
    BY <1>1, InnerLoopCall
  <2> QED BY <1>10, <2>1, LoopAtIs
<1>14. CallFits(next, s)
  <2>1. /\ LoopFits(next.loop, s) /\ next.loop.kind \in Loops /\ AccFits(next.acc, s) /\ next.i \in Nat
        /\ next.loop.kind # "for" /\ next.stage = "condition" /\ LoopCall(next) /\ ~s.tested
    BY <1>4, <1>5, <1>6, <1>9, <1>13
  <2> QED BY <2>1, LoopCallFits
<1>15. /\ next.kind = "loop" /\ next.stage = "condition"
       /\ Inside(next, s) = ConditionScope(s) /\ Pending(next) = <<Decide(call.loop, j, t.status)>>
  BY <1>6, <1>13, LoopInside
<1>16. AllMayStand(cmds, ConditionScope(s))
  BY <1>4, <1>5, <1>11, ConditionStands
<1>17. PICK check \in BOOLEAN : check = FALSE
  OBVIOUS
<1>18. /\ NestFits(nest2, e) /\ ControlFits(d, nest2)
       /\ InShell(d, nest2) = cmds \o (Pending(next) \o below) /\ StatusOf(d) = 0
       /\ IsSequence(cmds) /\ IsSequence(Pending(next)) /\ IsSequence(below)
  <2>1. Inner(e, nest, r, call, s, below, outer) /\ call.kind \in {"loop", "if", "case"}
    BY <1>1
  <2>2. next.kind = call.kind
    BY <1>1, <1>15
  <2>3. AllMayStand(cmds, Inside(next, s)) /\ (check => ~Inside(next, s).tested) /\ check \in BOOLEAN
    BY <1>15, <1>16, <1>17
  <2>4. ~check => next.kind \in {"loop", "if"} /\ next.stage = "condition"
    BY <1>15
  <2>5. Starts(cmds, check, stay, nest2, d) /\ stay = KeptIn(nest, next)
    BY <1>11, <1>12, <1>17
  <2> QED BY ONLY <1>14, <2>1, <2>2, <2>3, <2>4, <2>5, RunsInside
<1>19. PICK lp, w : lp = call.loop /\ w = t.status
  OBVIOUS
<1>20. PICK u : u = Condition(lp, j) \o <<Decide(lp, j, w)>> \o below
  OBVIOUS
<1>21. InShell(d, nest2) = u
  <2>1. PICK b : b = <<Decide(lp, j, w)>>
    OBVIOUS
  <2>2. b = Pending(next) /\ cmds = Condition(lp, j)
    BY <1>11, <1>15, <1>19, <2>1
  <2>3. (cmds \o b) \o below = cmds \o (b \o below)
    BY <1>18, <2>2, Regrouped
  <2> QED BY <1>18, <1>20, <2>1, <2>2, <2>3
<1>22. PICK v : v = 0
  OBVIOUS
<1>23. FlowsReachTheirTargets' /\ Moves(x, below, u, v, <<>>) /\ ShellStatus = StatusOf(r)
  <2>1. NestFits(nest2, e) /\ ControlFits(d, nest2) /\ StatusOf(d) = v /\ GoesTo(nest2, d, <<>>)
    BY <1>12, <1>18, <1>22
  <2>2. Inner(e, nest, r, call, s, below, outer) /\ At0(e, nest, r)
    BY <1>1
  <2>3. Reached(r, Pending(call) \o below) = <<x>> \o below
    BY <1>9
  <2> QED BY <1>21, <2>1, <2>2, <2>3, Onwards
<1>24. Moves(Round(lp, j), below, Condition(lp, j) \o <<Decide(lp, j, w)>> \o below, 0, <<>>)
  <2>1. x = Round(lp, j)
    BY <1>7, <1>19
  <2> QED BY <1>20, <1>22, <1>23, <2>1
<1>25. w = ShellStatus /\ lp.kind # "for"
  BY <1>4, <1>9, <1>19, <1>23
<1>26. Shell!Next
  BY <1>5, <1>24, <1>25, ShellEntersRound
<1> QED BY <1>23, <1>26 DEF Simulated

(* The result of a condition.                                              *)
LEMMA ConditionOver ==
  ASSUME NEW e, NEW nest, NEW r, NEW call, NEW s, NEW below, NEW outer,
         Inner(e, nest, r, call, s, below, outer), Inside(call, s) = ConditionScope(s)
  PROVE  /\ r.flow = NoFlow /\ ~r.left /\ IsResult(r) /\ StatusOf(r) = r.status
         /\ \A stack : Reached(r, stack) = stack
<1>1. s \in Scope /\ s.strict = e /\ ResultFits(r, Inside(call, s)) /\ IsResult(r)
  BY InnerIs
<1>2. PICK u : u = ConditionScope(s)
  OBVIOUS
<1>3. u.strict = e /\ u.loops = 0 /\ ~u.returns /\ ~u.exits /\ u.tested = e
  BY <1>1, <1>2, ConditionScopeIs DEF Same
<1>4. ResultFits(r, u) /\ FlowFits(r, u)
  BY <1>1, <1>2 DEF ResultFits
<1>5. r.flow = NoFlow
  <2>1. SUFFICES ASSUME r.flow # NoFlow PROVE FALSE
    OBVIOUS
  <2>2. r.flow.kind \in {"break", "continue", "return", "exit"}
    BY <1>4, <2>1, FlowOf
  <2>3. r.flow.kind \in {"break", "continue"} => r.flow.n \in 1 .. u.loops
    BY <1>4, <2>1 DEF FlowFits
  <2>4. ~(r.flow.n \in 1 .. u.loops)
    BY <1>3
  <2>5. r.flow.kind \notin {"return", "exit"}
    BY <1>3, <1>4, <2>1 DEF FlowFits
  <2> QED BY <2>2, <2>3, <2>4, <2>5
<1>6. ~r.left
  BY <1>3, <1>4 DEF ResultFits
<1>7. StatusOf(r) = r.status
  BY <1>1, <1>5, StatusForms
<1> QED BY <1>1, <1>5, <1>6, <1>7, ReachedForms

LEMMA DecideLoopKeeps ==
  ASSUME FlowInv, DecideLoop
  PROVE  FlowsReachTheirTargets' /\ Simulated
<1>0. BackIn({"loop"})
  BY DEF DecideLoop
<1>1. PICK e, nest, r, call, s, below, outer :
        /\ Inner(e, nest, r, call, s, below, outer) /\ At0(e, nest, r)
        /\ Innermost = call /\ call.kind = "loop" /\ Callers = outer
  BY <1>0, Resumed
<1>2. /\ LoopCall(call) /\ e \in BOOLEAN /\ s \in Scope /\ s.strict = e /\ ~s.tested
      /\ outer # <<>> /\ IsSequence(below) /\ IsResult(r)
      /\ call.loop.kind \in Loops /\ LoopFits(call.loop, s) /\ AccFits(call.acc, s)
      /\ call.i \in Nat
      /\ call.stage = "body" \/ (call.stage = "condition" /\ call.loop.kind # "for")
  BY <1>1, InnerLoopCall
<1>3. call.stage = "condition"
  BY <1>1 DEF DecideLoop
<1>4. PICK lp, i, acc : lp = call.loop /\ i = call.i /\ acc = call.acc
  OBVIOUS
<1>5. PICK last : last = acc.status
  OBVIOUS
<1>6. PICK x : x = Decide(lp, i, last)
  OBVIOUS
<1>7. Inside(call, s) = ConditionScope(s) /\ Pending(call) = <<x>>
  BY <1>2, <1>3, <1>4, <1>5, <1>6, LoopInside
<1>8. /\ r.flow = NoFlow /\ StatusOf(r) = r.status
      /\ Reached(r, Pending(call) \o below) = <<x>> \o below
  <2>1. r.flow = NoFlow /\ StatusOf(r) = r.status /\ \A stack : Reached(r, stack) = stack
    BY <1>1, <1>7, ConditionOver
  <2>2. PICK g : g = <<x>> \o below
    OBVIOUS
  <2>3. Reached(r, g) = g
    BY <2>1
  <2> QED BY <1>7, <2>1, <2>2, <2>3
<1>9. lp.kind \in {"while", "until"}
  BY <1>2, <1>3, <1>4 DEF Loops
<1>10. PICK v : v = r.status
  OBVIOUS
<1>11. CASE (v = 0) = (lp.kind = "until")
  <2>1. GoesTo(outer, acc, <<>>)
    BY <1>1, <1>4, <1>10, <1>11, TurnsGo DEF DecideLoop, At0
  <2>2. /\ ResultFits(acc, s) /\ Noticed(acc, s) /\ IsResult(acc) /\ acc.flow = NoFlow /\ ~acc.left
    BY <1>2, <1>4 DEF AccFits, ResultFits
  <2>3. Reached(acc, below) = below
    BY <2>2, ReachedForms
  <2>4. StatusOf(acc) = last
    BY <1>5, <2>2, StatusForms
  <2>5. FlowsReachTheirTargets' /\ Moves(x, below, below, last, <<>>) /\ ShellStatus = StatusOf(r)
    <3>1. Inner(e, nest, r, call, s, below, outer) /\ At0(e, nest, r)
      BY <1>1
    <3>2. Reached(r, Pending(call) \o below) = <<x>> \o below
      BY <1>8
    <3>3. outer # <<>>
      BY <1>2
    <3> QED BY <2>1, <2>2, <2>3, <2>4, <3>1, <3>2, <3>3, BackMoves
  <2>6. v = ShellStatus /\ ~(v = 0 <=> lp.kind = "while")
    BY <1>8, <1>9, <1>10, <1>11, <2>5
  <2>7. Moves(Decide(lp, i, last), below, below, last, <<>>)
    BY <1>6, <2>5
  <2>8. Shell!Next
    BY <1>2, <2>6, <2>7, ShellDecides
  <2> QED BY <2>5, <2>8 DEF Simulated
<1>12. CASE ~((v = 0) = (lp.kind = "until"))
  <2>1. PICK stage : stage = "body"
    OBVIOUS
  <2>2. PICK next : next = LoopAt(call, i, stage, acc)
    OBVIOUS
  <2>3. PICK stay : stay = KeptIn(nest, next)
    OBVIOUS
  <2>5. PICK body, b : body = lp.body /\ b = <<Round(lp, i + 1)>>
    OBVIOUS
  <2>6. Kept(next) = stay
    BY <1>1, <2>3, KeptIs DEF At0
  <2>7. BodyBegins(i, acc)
    BY <1>1, <1>4, <1>10, <1>12 DEF DecideLoop, At0
  <2>8. ran' = Append(ran, Mark) /\ Begins(body, TRUE, stay) /\ UNCHANGED errexit
    BY <1>1, <1>4, <2>1, <2>2, <2>5, <2>6, <2>7 DEF BodyBegins, LoopAt
  <2>9. PICK nest2, d : GoesTo(nest2, d, <<Mark>>) /\ Starts(body, TRUE, stay, nest2, d)
    BY <2>8, BodyStarts
  <2>10. /\ CallFits(next, s) /\ next.kind = "loop"
         /\ ~Inside(next, s).tested /\ AllMayStand(call.loop.body, Inside(next, s))
         /\ Pending(next) = <<Round(call.loop, i + 1)>>
    <3>1. /\ LoopCall(call) /\ s \in Scope /\ ~s.tested
          /\ call.loop.kind \in Loops /\ LoopFits(call.loop, s)
      BY <1>2
    <3>2. AccFits(acc, s) /\ i \in Nat
      BY <1>2, <1>4
    <3> QED BY ONLY <2>1, <2>2, <3>1, <3>2, RoundFits
  <2>11. /\ NestFits(nest2, e) /\ ControlFits(d, nest2)
         /\ InShell(d, nest2) = (body \o b) \o below /\ StatusOf(d) = 0
    <3>1. PICK check \in BOOLEAN : check = TRUE
      OBVIOUS
    <3>2. Inner(e, nest, r, call, s, below, outer) /\ call.kind \in {"loop", "if", "case"}
      BY <1>1
    <3>3. next.kind = call.kind /\ CallFits(next, s)
      BY <1>1, <2>10
    <3>4. AllMayStand(body, Inside(next, s)) /\ (check => ~Inside(next, s).tested) /\ check \in BOOLEAN
      BY <1>4, <2>5, <2>10
    <3>5. ~check => next.kind \in {"loop", "if"} /\ next.stage = "condition"
      BY <3>1
    <3>6. Starts(body, check, stay, nest2, d) /\ stay = KeptIn(nest, next)
      BY <2>3, <2>9, <3>1
    <3>7. /\ NestFits(nest2, e) /\ ControlFits(d, nest2)
          /\ InShell(d, nest2) = body \o (Pending(next) \o below) /\ StatusOf(d) = 0
          /\ IsSequence(body) /\ IsSequence(Pending(next)) /\ IsSequence(below)
      BY ONLY <3>2, <3>3, <3>4, <3>5, <3>6, RunsInside
    <3>8. Pending(next) = b
      BY <1>4, <2>5, <2>10
    <3>9. (body \o b) \o below = body \o (b \o below)
      BY <3>7, <3>8, Regrouped
    <3> QED BY <3>7, <3>8, <3>9
  <2>12. PICK u : u = (body \o b) \o below
    OBVIOUS
  <2>13. InShell(d, nest2) = u
    BY <2>11, <2>12
  <2>14. PICK w, out : w = 0 /\ out = <<Mark>>
    OBVIOUS
  <2>15. FlowsReachTheirTargets' /\ Moves(x, below, u, w, out) /\ ShellStatus = StatusOf(r)
    <3>1. NestFits(nest2, e) /\ ControlFits(d, nest2) /\ StatusOf(d) = w /\ GoesTo(nest2, d, out)
      BY <2>9, <2>11, <2>14
    <3>2. Inner(e, nest, r, call, s, below, outer) /\ At0(e, nest, r)
      BY <1>1
    <3>3. Reached(r, Pending(call) \o below) = <<x>> \o below
      BY <1>8
    <3> QED BY <2>13, <3>1, <3>2, <3>3, Onwards
  <2>16. Moves(Decide(lp, i, last), below, lp.body \o <<Round(lp, i + 1)>> \o below, 0, <<Mark>>)
    <3>1. u = lp.body \o <<Round(lp, i + 1)>> \o below /\ x = Decide(lp, i, last)
      BY <1>6, <2>5, <2>12
    <3> QED BY <2>14, <2>15, <3>1
  <2>17. v = ShellStatus /\ (v = 0 <=> lp.kind = "while")
    BY <1>8, <1>9, <1>10, <1>12, <2>15
  <2>18. Shell!Next
    BY <1>2, <2>16, <2>17, ShellDecides
  <2> QED BY <2>15, <2>18 DEF Simulated
<1> QED BY <1>11, <1>12

LEMMA EndIfKeeps ==
  ASSUME FlowInv, EndIf
  PROVE  FlowsReachTheirTargets' /\ Simulated
<1>0. BackIn({"if"})
  BY DEF EndIf
<1>1. PICK e, nest, r, call, s, below, outer :
        /\ Inner(e, nest, r, call, s, below, outer) /\ At0(e, nest, r)
        /\ Innermost = call /\ call.kind = "if" /\ Callers = outer
  BY <1>0, Resumed
<1>2. call.stage = "body"
  BY <1>1 DEF EndIf
<1>3. GoesTo(outer, r, <<>>)
  BY <1>1, TurnsGo DEF EndIf, At0
<1>4. /\ e \in BOOLEAN /\ s \in Scope /\ s.strict = e /\ ~s.tested /\ outer # <<>>
      /\ IsSequence(below) /\ IsResult(r) /\ AnswerFits(r, call, Inside(call, s))
  BY <1>1, InnerIs
<1>5. Inside(call, s) = s /\ Pending(call) = <<>>
  BY <1>1, <1>2, InsideForms, PendingForms
<1>6. ResultFits(r, s) /\ Noticed(r, s)
  BY <1>1, <1>4, <1>5 DEF AnswerFits
<1>7. Reached(r, below) = Reached(r, Pending(call) \o below)
  BY <1>4, <1>5, NothingJoined
<1> QED BY <1>1, <1>3, <1>4, <1>6, <1>7, BackStutters

(* The call of an if, as it goes on.                                       *)
IfCall(call) ==
  /\ call.kind = "if"
  /\ call = [kind |-> "if", clauses |-> call.clauses, otherwise |-> call.otherwise,
             stage |-> call.stage]
IfBody(call) == [call EXCEPT !.stage = "body"]
IfLater(call, clauses) == [call EXCEPT !.clauses = clauses]

LEMMA IfFields ==
  ASSUME NEW k, k = "if", NEW xclauses, NEW xotherwise, NEW xstage,
         NEW next, next = [kind |-> k, clauses |-> xclauses, otherwise |-> xotherwise, stage |-> xstage]
  PROVE  /\ IfCall(next)
         /\ next.clauses = xclauses /\ next.otherwise = xotherwise /\ next.stage = xstage
<1>1. /\ next.kind = "if" /\ next.clauses = xclauses /\ next.otherwise = xotherwise
      /\ next.stage = xstage
  OBVIOUS
<1> QED BY <1>1 DEF IfCall

LEMMA IfBodyIs ==
  ASSUME NEW call, IfCall(call), NEW next, next = IfBody(call)
  PROVE  /\ IfCall(next)
         /\ next.clauses = call.clauses /\ next.otherwise = call.otherwise /\ next.stage = "body"
<1>1. PICK k, xclauses, xotherwise, xstage :
        k = call.kind /\ xclauses = call.clauses /\ xotherwise = call.otherwise /\ xstage = call.stage
  OBVIOUS
<1>2. k = "if"
  BY <1>1 DEF IfCall
<1>3. call = [kind |-> k, clauses |-> xclauses, otherwise |-> xotherwise, stage |-> xstage]
  BY <1>1, <1>2 DEF IfCall
<1>4. PICK stage : stage = "body"
  OBVIOUS
<1>5. next = [call EXCEPT !.stage = stage]
  BY <1>4 DEF IfBody
<1>6. next = [kind |-> k, clauses |-> xclauses, otherwise |-> xotherwise, stage |-> stage]
  BY <1>3, <1>5, BranchIsTakenFields
<1> QED BY <1>1, <1>2, <1>4, <1>6, IfFields

LEMMA IfLaterIs ==
  ASSUME NEW call, IfCall(call), NEW clauses, NEW next, next = IfLater(call, clauses)
  PROVE  /\ IfCall(next)
         /\ next.clauses = clauses /\ next.otherwise = call.otherwise /\ next.stage = call.stage
<1>1. PICK k, xclauses, xotherwise, xstage :
        k = call.kind /\ xclauses = call.clauses /\ xotherwise = call.otherwise /\ xstage = call.stage
  OBVIOUS
<1>2. k = "if"
  BY <1>1 DEF IfCall
<1>3. call = [kind |-> k, clauses |-> xclauses, otherwise |-> xotherwise, stage |-> xstage]
  BY <1>1, <1>2 DEF IfCall
<1>5. next = [call EXCEPT !.clauses = clauses]
  BY DEF IfLater
<1>6. next = [kind |-> k, clauses |-> clauses, otherwise |-> xotherwise, stage |-> xstage]
  BY <1>3, <1>5, BranchGoesOnFields
<1> QED BY <1>1, <1>2, <1>6, IfFields

LEMMA IfCallFits ==
  ASSUME NEW call, IfCall(call), NEW s, ~s.tested,
         ClausesFit(call.clauses, s), AllMayStand(call.otherwise, s),
         call.stage \in {"condition", "body"}
  PROVE  CallFits(call, s)
BY DEF CallFits, IfCall

LEMMA IfInside ==
  ASSUME NEW call, IfCall(call), NEW s
  PROVE  /\ call.kind = "if"
         /\ call.stage = "body" => Inside(call, s) = s /\ Pending(call) = <<>>
         /\ call.stage = "condition" =>
              /\ Inside(call, s) = ConditionScope(s)
              /\ Pending(call) = <<Branch(call.clauses, call.otherwise)>>
BY InsideForms, PendingForms DEF IfCall

LEMMA InnerIf ==
  ASSUME NEW e, NEW nest, NEW r, NEW call, NEW s, NEW below, NEW outer,
         Inner(e, nest, r, call, s, below, outer), call.kind = "if"
  PROVE  /\ IfCall(call) /\ e \in BOOLEAN /\ s \in Scope /\ s.strict = e /\ ~s.tested
         /\ outer # <<>> /\ IsSequence(below) /\ IsResult(r)
         /\ ClausesFit(call.clauses, s) /\ AllMayStand(call.otherwise, s)
<1>1. /\ e \in BOOLEAN /\ s \in Scope /\ s.strict = e /\ CallFits(call, s)
      /\ ~s.tested /\ outer # <<>> /\ IsSequence(below) /\ IsResult(r)
  BY InnerIs
<1> QED BY <1>1 DEF CallFits, IfCall

(* A branch of an if: the commands of a clause that holds, or of its else. *)
LEMMA BranchStarts ==
  ASSUME NEW e, NEW nest, NEW r, NEW call, NEW s, NEW below, NEW outer,
         Inner(e, nest, r, call, s, below, outer), call.kind = "if",
         NEW next, next = IfBody(call),
         NEW stay, stay = KeptIn(nest, next),
         NEW cmds, AllMayStand(cmds, s),
         NEW nest2, NEW d, Starts(cmds, TRUE, stay, nest2, d)
  PROVE  /\ NestFits(nest2, e) /\ ControlFits(d, nest2)
         /\ InShell(d, nest2) = cmds \o below /\ StatusOf(d) = 0
<1>1. /\ IfCall(call) /\ ~s.tested /\ IsSequence(below)
      /\ ClausesFit(call.clauses, s) /\ AllMayStand(call.otherwise, s)
  BY InnerIf
<1>2. /\ IfCall(next)
      /\ next.clauses = call.clauses /\ next.otherwise = call.otherwise /\ next.stage = "body"
  BY <1>1, IfBodyIs
<1>3. CallFits(next, s)
  BY <1>1, <1>2, IfCallFits
<1>4. next.kind = "if" /\ Inside(next, s) = s /\ Pending(next) = <<>>
  BY <1>2, IfInside
<1>5. PICK check \in BOOLEAN : check = TRUE
  OBVIOUS
<1>6. /\ NestFits(nest2, e) /\ ControlFits(d, nest2)
      /\ InShell(d, nest2) = cmds \o (Pending(next) \o below) /\ StatusOf(d) = 0
  <2>1. Inner(e, nest, r, call, s, below, outer) /\ call.kind \in {"loop", "if", "case"}
    OBVIOUS
  <2>2. next.kind = call.kind
    BY <1>4
  <2>3. AllMayStand(cmds, Inside(next, s)) /\ (check => ~Inside(next, s).tested) /\ check \in BOOLEAN
    BY <1>1, <1>4
  <2>4. ~check => next.kind \in {"loop", "if"} /\ next.stage = "condition"
    BY <1>5
  <2>5. Starts(cmds, check, stay, nest2, d) /\ stay = KeptIn(nest, next)
    BY <1>5
  <2> QED BY ONLY <1>3, <2>1, <2>2, <2>3, <2>4, <2>5, RunsInside
<1> QED BY <1>1, <1>4, <1>6, NothingJoined

LEMMA DecideIfKeeps ==
  ASSUME FlowInv, DecideIf
  PROVE  FlowsReachTheirTargets' /\ Simulated
<1>0. BackIn({"if"})
  BY DEF DecideIf
<1>1. PICK e, nest, r, call, s, below, outer :
        /\ Inner(e, nest, r, call, s, below, outer) /\ At0(e, nest, r)
        /\ Innermost = call /\ call.kind = "if" /\ Callers = outer
  BY <1>0, Resumed
<1>2. /\ IfCall(call) /\ e \in BOOLEAN /\ s \in Scope /\ s.strict = e /\ ~s.tested
      /\ outer # <<>> /\ IsSequence(below) /\ IsResult(r)
      /\ ClausesFit(call.clauses, s) /\ AllMayStand(call.otherwise, s)
  BY <1>1, InnerIf
<1>3. call.stage = "condition"
  BY <1>1 DEF DecideIf
<1>4. PICK clauses, otherwise : clauses = call.clauses /\ otherwise = call.otherwise
  OBVIOUS
<1>5. PICK x : x = Branch(clauses, otherwise)
  OBVIOUS
<1>6. Inside(call, s) = ConditionScope(s) /\ Pending(call) = <<x>>
  BY <1>2, <1>3, <1>4, <1>5, IfInside
<1>7. /\ r.flow = NoFlow /\ StatusOf(r) = r.status
      /\ Reached(r, Pending(call) \o below) = <<x>> \o below
  <2>1. r.flow = NoFlow /\ StatusOf(r) = r.status /\ \A stack : Reached(r, stack) = stack
    BY <1>1, <1>6, ConditionOver
  <2>2. PICK g : g = <<x>> \o below
    OBVIOUS
  <2>3. Reached(r, g) = g
    BY <2>1
  <2> QED BY <1>6, <2>1, <2>2, <2>3
<1>8. PICK v : v = r.status
  OBVIOUS
<1>9. /\ AllMayStand(Head(clauses).body, s)
      /\ Len(clauses) # 1 =>
           /\ ClausesFit(Tail(clauses), s)
           /\ AllMayStand(clauses[2].cond, ConditionScope(s))
  BY <1>2, <1>4, ClausesStand
<1>10. PICK w : w = 0
  OBVIOUS
<1>11. ASSUME NEW cmds, AllMayStand(cmds, s),
              Sequence(cmds, Kept([Innermost EXCEPT !.stage = "body"]))
       PROVE  /\ FlowsReachTheirTargets' /\ Moves(x, below, cmds \o below, w, <<>>)
              /\ ShellStatus = StatusOf(r)
  <2>1. PICK next : next = IfBody(call)
    OBVIOUS
  <2>2. PICK stay : stay = KeptIn(nest, next)
    OBVIOUS
  <2>3. Kept(next) = stay
    BY <1>1, <2>2, KeptIs DEF At0
  <2>4. Begins(cmds, TRUE, stay) /\ UNCHANGED <<ran, errexit>>
    BY <1>1, <1>11, <2>1, <2>3 DEF Sequence, IfBody
  <2>5. PICK nest2, d : GoesTo(nest2, d, <<>>) /\ Starts(cmds, TRUE, stay, nest2, d)
    BY <2>4, SequenceStarts
  <2>6. /\ NestFits(nest2, e) /\ ControlFits(d, nest2)
        /\ InShell(d, nest2) = cmds \o below /\ StatusOf(d) = 0
    BY <1>1, <1>11, <2>1, <2>2, <2>5, BranchStarts
  <2>7. PICK u : u = cmds \o below
    OBVIOUS
  <2>8. NestFits(nest2, e) /\ ControlFits(d, nest2) /\ InShell(d, nest2) = u /\ StatusOf(d) = w
    BY <1>10, <2>6, <2>7
  <2>9. Inner(e, nest, r, call, s, below, outer) /\ At0(e, nest, r)
    BY <1>1
  <2>10. Reached(r, Pending(call) \o below) = <<x>> \o below
    BY <1>7
  <2>11. /\ FlowsReachTheirTargets' /\ Moves(x, below, u, w, <<>>)
         /\ ShellStatus = StatusOf(r)
    BY <2>5, <2>8, <2>9, <2>10, Onwards
  <2> QED BY <2>7, <2>11
<1>12. CASE r.status = 0
  <2>1. PICK cmds : cmds = Head(clauses).body
    OBVIOUS
  <2>2. Sequence(cmds, Kept([Innermost EXCEPT !.stage = "body"]))
    BY <1>1, <1>4, <1>12, <2>1 DEF DecideIf, At0
  <2>3. AllMayStand(cmds, s)
    BY <1>9, <2>1
  <2>4. /\ FlowsReachTheirTargets' /\ Moves(x, below, cmds \o below, w, <<>>)
        /\ ShellStatus = StatusOf(r)
    BY <1>11, <2>2, <2>3
  <2>5. v = 0 /\ v = ShellStatus /\ Moves(Branch(clauses, otherwise), below, Head(clauses).body \o below, 0, <<>>)
    BY <1>5, <1>7, <1>8, <1>10, <1>12, <2>1, <2>4
  <2>6. Shell!Next
    BY <1>2, <2>5, ShellBranches
  <2> QED BY <2>4, <2>6 DEF Simulated
<1>13. CASE r.status # 0 /\ Len(clauses) = 1
  <2>1. Sequence(otherwise, Kept([Innermost EXCEPT !.stage = "body"]))
    BY <1>1, <1>4, <1>13 DEF DecideIf, At0
  <2>2. AllMayStand(otherwise, s)
    BY <1>2, <1>4
  <2>3. /\ FlowsReachTheirTargets' /\ Moves(x, below, otherwise \o below, w, <<>>)
        /\ ShellStatus = StatusOf(r)
    BY <1>11, <2>1, <2>2
  <2>4. /\ v # 0 /\ v = ShellStatus /\ Len(clauses) = 1
        /\ Moves(Branch(clauses, otherwise), below, otherwise \o below, 0, <<>>)
    BY <1>5, <1>7, <1>8, <1>10, <1>13, <2>3
  <2>5. Shell!Next
    BY <1>2, <2>4, ShellBranches
  <2> QED BY <2>3, <2>5 DEF Simulated
<1>14. CASE r.status # 0 /\ Len(clauses) # 1
  <2>1. PICK later, cmds : later = Tail(clauses) /\ cmds = clauses[2].cond
    OBVIOUS
  <2>2. PICK next : next = IfLater(call, later)
    OBVIOUS
  <2>3. PICK stay : stay = KeptIn(nest, next)
    OBVIOUS
  <2>4. Kept(next) = stay
    BY <1>1, <2>3, KeptIs DEF At0
  <2>5. Begins(cmds, FALSE, stay) /\ UNCHANGED <<ran, errexit>>
    BY <1>1, <1>4, <1>14, <2>1, <2>2, <2>4 DEF DecideIf, ConditionSequence, IfLater, At0
  <2>6. PICK nest2, d : GoesTo(nest2, d, <<>>) /\ Starts(cmds, FALSE, stay, nest2, d)
    BY <2>5, SequenceStarts
  <2>7. /\ IfCall(next)
        /\ next.clauses = later /\ next.otherwise = otherwise /\ next.stage = "condition"
    BY <1>2, <1>3, <1>4, <2>2, IfLaterIs
  <2>8. CallFits(next, s)
    BY <1>2, <1>4, <1>9, <1>14, <2>1, <2>7, IfCallFits
  <2>9. /\ next.kind = "if" /\ Inside(next, s) = ConditionScope(s)
        /\ Pending(next) = <<Branch(later, otherwise)>>
    BY <2>7, IfInside
  <2>10. PICK check \in BOOLEAN : check = FALSE
    OBVIOUS
  <2>11. /\ NestFits(nest2, e) /\ ControlFits(d, nest2)
         /\ InShell(d, nest2) = cmds \o (Pending(next) \o below) /\ StatusOf(d) = 0
         /\ IsSequence(cmds) /\ IsSequence(Pending(next)) /\ IsSequence(below)
    <3>1. Inner(e, nest, r, call, s, below, outer) /\ call.kind \in {"loop", "if", "case"}
      BY <1>1
    <3>2. next.kind = call.kind
      BY <1>1, <2>9
    <3>3. AllMayStand(cmds, Inside(next, s)) /\ (check => ~Inside(next, s).tested) /\ check \in BOOLEAN
      BY <1>9, <1>14, <2>1, <2>9, <2>10
    <3>4. ~check => next.kind \in {"loop", "if"} /\ next.stage = "condition"
      BY <2>7, <2>9
    <3>5. Starts(cmds, check, stay, nest2, d) /\ stay = KeptIn(nest, next)
      BY <2>3, <2>6, <2>10
    <3> QED BY ONLY <2>8, <3>1, <3>2, <3>3, <3>4, <3>5, RunsInside
  <2>12. PICK b : b = <<Branch(later, otherwise)>>
    OBVIOUS
  <2>13. PICK u : u = (cmds \o b) \o below
    OBVIOUS
  <2>14. InShell(d, nest2) = u
    <3>1. b = Pending(next)
      BY <2>9, <2>12
    <3>2. (cmds \o b) \o below = cmds \o (b \o below)
      BY <2>11, <3>1, Regrouped
    <3> QED BY <2>11, <2>13, <3>1, <3>2
  <2>15. /\ FlowsReachTheirTargets' /\ Moves(x, below, u, w, <<>>)
         /\ ShellStatus = StatusOf(r)
    <3>1. NestFits(nest2, e) /\ ControlFits(d, nest2) /\ StatusOf(d) = w
      BY <1>10, <2>11
    <3>2. Inner(e, nest, r, call, s, below, outer) /\ At0(e, nest, r)
      BY <1>1
    <3>3. Reached(r, Pending(call) \o below) = <<x>> \o below
      BY <1>7
    <3> QED BY <2>6, <2>14, <3>1, <3>2, <3>3, Onwards
  <2>16. /\ v # 0 /\ v = ShellStatus /\ Len(clauses) # 1
         /\ Moves(Branch(clauses, otherwise), below,
                  clauses[2].cond \o <<Branch(Tail(clauses), otherwise)>> \o below, 0, <<>>)
    <3>1. u = clauses[2].cond \o <<Branch(Tail(clauses), otherwise)>> \o below
      BY <2>1, <2>12, <2>13
    <3>2. v # 0 /\ v = ShellStatus /\ Len(clauses) # 1
      BY <1>7, <1>8, <1>14, <2>15
    <3> QED BY <1>5, <1>10, <2>15, <3>1, <3>2
  <2>17. Shell!Next
    BY <1>2, <2>16, ShellBranches
  <2> QED BY <2>15, <2>17 DEF Simulated
<1> QED BY <1>12, <1>13, <1>14

(* The call of a case, as it goes on.                                      *)
CaseCall(call) ==
  /\ call.kind = "case"
  /\ call = [kind |-> "case", arms |-> call.arms, after |-> call.after]
CaseAt(call, arms, after) == [call EXCEPT !.arms = arms, !.after = after]

LEMMA CaseFields ==
  ASSUME NEW k, k = "case", NEW xarms, NEW xafter,
         NEW next, next = [kind |-> k, arms |-> xarms, after |-> xafter]
  PROVE  CaseCall(next) /\ next.arms = xarms /\ next.after = xafter
<1>1. next.kind = "case" /\ next.arms = xarms /\ next.after = xafter
  OBVIOUS
<1> QED BY <1>1 DEF CaseCall

LEMMA CaseAtIs ==
  ASSUME NEW call, CaseCall(call), NEW arms, NEW after, NEW next, next = CaseAt(call, arms, after)
  PROVE  CaseCall(next) /\ next.arms = arms /\ next.after = after
<1>1. PICK k, xarms, xafter : k = call.kind /\ xarms = call.arms /\ xafter = call.after
  OBVIOUS
<1>2. k = "case"
  BY <1>1 DEF CaseCall
<1>3. call = [kind |-> k, arms |-> xarms, after |-> xafter]
  BY <1>1, <1>2 DEF CaseCall
<1>4. next = [call EXCEPT !.arms = arms, !.after = after]
  BY DEF CaseAt
<1>5. next = [kind |-> k, arms |-> arms, after |-> after]
  BY <1>3, <1>4, CaseGoesOnFields
<1> QED BY <1>2, <1>5, CaseFields

LEMMA CaseCallFits ==
  ASSUME NEW call, CaseCall(call), NEW s, ~s.tested,
         ArmsFit(call.arms, s), call.after \in {";;", ";&", ";;&"}
  PROVE  CallFits(call, s)
BY DEF CallFits, CaseCall

LEMMA CaseInside ==
  ASSUME NEW call, CaseCall(call), NEW s, NEW fall \in BOOLEAN, fall <=> call.after = ";&"
  PROVE  /\ call.kind = "case" /\ Inside(call, s) = ArmScope(s, call.after)
         /\ call.after = ";;" => Pending(call) = <<>>
         /\ call.after # ";;" => Pending(call) = <<Arms(call.arms, fall)>>
<1>1. /\ call.kind = "case" /\ Inside(call, s) = ArmScope(s, call.after)
      /\ call.after = ";;" => Pending(call) = <<>>
      /\ call.after # ";;" => Pending(call) = <<Arms(call.arms, call.after = ";&")>>
  BY InsideForms, PendingForms DEF CaseCall
<1>2. fall = (call.after = ";&")
  BY Zenon
<1> QED BY <1>1, <1>2, Zenon

LEMMA FallsAre ==
  ASSUME NEW arms, NEW after, NEW fall \in BOOLEAN, fall <=> after = ";&"
  PROVE  /\ after = ";;" => FallsIn(arms, after) = <<>>
         /\ after # ";;" => FallsIn(arms, after) = <<Arms(arms, fall)>>
<1>1. /\ after = ";;" => FallsIn(arms, after) = <<>>
      /\ after # ";;" => FallsIn(arms, after) = <<Arms(arms, after = ";&")>>
  BY DEF FallsIn
<1>2. fall = (after = ";&")
  BY Zenon
<1> QED BY <1>1, <1>2, Zenon

LEMMA InnerCase ==
  ASSUME NEW e, NEW nest, NEW r, NEW call, NEW s, NEW below, NEW outer,
         Inner(e, nest, r, call, s, below, outer), call.kind = "case"
  PROVE  /\ CaseCall(call) /\ e \in BOOLEAN /\ s \in Scope /\ s.strict = e /\ ~s.tested
         /\ outer # <<>> /\ IsSequence(below) /\ IsResult(r)
         /\ ArmsFit(call.arms, s) /\ call.after \in {";;", ";&", ";;&"}
<1>1. /\ e \in BOOLEAN /\ s \in Scope /\ s.strict = e /\ CallFits(call, s)
      /\ ~s.tested /\ outer # <<>> /\ IsSequence(below) /\ IsResult(r)
  BY InnerIs
<1> QED BY <1>1 DEF CallFits, CaseCall

LEMMA ArmsFail ==
  ASSUME NEW s \in Scope, NEW after, NEW t, t = ArmScope(s, after)
  PROVE  s.strict /\ t.fails => s.fails /\ after = ";;"
BY DEF Scope, ArmScope, Unexcused

(* The result of an arm.                                                   *)
LEMMA ArmOver ==
  ASSUME NEW e, NEW nest, NEW r, NEW call, NEW s, NEW below, NEW outer,
         Inner(e, nest, r, call, s, below, outer), call.kind = "case"
  PROVE  /\ FlowFits(r, s)
         /\ e => ~r.suppressed
         /\ r.left => e /\ s.fails /\ call.after = ";;" /\ r.flow = NoFlow /\ r.status # 0
         /\ e /\ r.flow = NoFlow /\ r.status # 0 => r.left
         /\ ResultFits(r, Inside(call, s))
<1>1. /\ CaseCall(call) /\ e \in BOOLEAN /\ s \in Scope /\ s.strict = e /\ ~s.tested
  BY InnerCase
<1>2. AnswerFits(r, call, Inside(call, s)) /\ ResultFits(r, Inside(call, s))
  BY InnerIs
<1>3. PICK after : after = call.after
  OBVIOUS
<1>4. Inside(call, s) = ArmScope(s, after)
  BY <1>1, <1>3, InsideForms
<1>5. PICK u : u = ArmScope(s, after)
  OBVIOUS
<1>6. /\ u.strict = e /\ u.loops = s.loops /\ u.returns = s.returns /\ u.exits = s.exits
      /\ u.tested = s.tested /\ u.codes = s.codes /\ (e => ~u.excused)
      /\ e /\ u.fails => s.fails /\ after = ";;"
  <2>1. /\ Same(u, s) /\ u.loops = s.loops /\ u.returns = s.returns /\ u.exits = s.exits
        /\ u.tested = s.tested /\ u.codes = s.codes /\ u.excused = ~s.strict
        /\ s.strict /\ u.fails => s.fails /\ after = ";;"
    <3>1. Same(u, s) /\ u.loops = s.loops /\ u.returns = s.returns /\ u.exits = s.exits
      BY <1>1, <1>5, ArmScopeIs
    <3>2. u.tested = s.tested /\ u.codes = s.codes /\ u.excused = ~s.strict
      BY <1>1, <1>5, ArmScopeIs
    <3>3. s.strict /\ u.fails => s.fails /\ after = ";;"
      BY <1>1, <1>5, ArmsFail
    <3> QED BY <3>1, <3>2, <3>3
  <2>2. u.strict = s.strict
    BY <2>1 DEF Same
  <2> QED BY <1>1, <2>1, <2>2
<1>7. ResultFits(r, u) /\ FlowFits(r, u) /\ Noticed(r, u)
  BY <1>1, <1>2, <1>4, <1>5, <1>6 DEF AnswerFits, ResultFits
<1>8. FlowFits(r, s)
  BY <1>6, <1>7 DEF FlowFits
<1>9. e => ~r.suppressed
  BY <1>6, <1>7 DEF ResultFits
<1>10. r.left => e /\ s.fails /\ call.after = ";;" /\ r.flow = NoFlow /\ r.status # 0
  BY <1>3, <1>6, <1>7 DEF ResultFits
<1>11. e /\ r.flow = NoFlow /\ r.status # 0 => r.left
  BY <1>6, <1>7, <1>9 DEF Noticed
<1> QED BY <1>2, <1>8, <1>9, <1>10, <1>11

LEMMA EndCaseKeeps ==
  ASSUME FlowInv, EndCase
  PROVE  FlowsReachTheirTargets' /\ Simulated
<1>0. BackIn({"case"})
  BY DEF EndCase
<1>1. PICK e, nest, r, call, s, below, outer :
        /\ Inner(e, nest, r, call, s, below, outer) /\ At0(e, nest, r)
        /\ Innermost = call /\ call.kind = "case" /\ Callers = outer
  BY <1>0, Resumed
<1>2. PICK t : t = Unsuppressed(r)
  OBVIOUS
<1>3. GoesTo(outer, t, <<>>)
  BY <1>1, <1>2, TurnsGo DEF EndCase, At0
<1>4. r.flow # NoFlow \/ call.after = ";;" \/ call.arms = <<>>
  BY <1>1 DEF EndCase, CaseEnds, Flowing, At0
<1>5. /\ CaseCall(call) /\ e \in BOOLEAN /\ s \in Scope /\ s.strict = e /\ ~s.tested
      /\ outer # <<>> /\ IsSequence(below) /\ IsResult(r)
  BY <1>1, InnerCase
<1>6. /\ FlowFits(r, s)
      /\ e => ~r.suppressed
      /\ r.left => e /\ s.fails /\ call.after = ";;" /\ r.flow = NoFlow /\ r.status # 0
      /\ e /\ r.flow = NoFlow /\ r.status # 0 => r.left
      /\ ResultFits(r, Inside(call, s))
  BY <1>1, ArmOver
<1>7. IsResult(t) /\ t.status = r.status /\ t.flow = r.flow /\ ~t.suppressed /\ t.left = r.left
  BY <1>2, <1>5, UnsuppressedIs
<1>8. ResultFits(t, s)
  <2>1. FlowFits(t, s)
    BY <1>6, <1>7 DEF FlowFits
  <2> QED BY <1>5, <1>6, <1>7, <2>1 DEF ResultFits
<1>9. Noticed(t, s)
  BY <1>5, <1>6, <1>7 DEF Noticed
<1>10. PICK fall \in BOOLEAN : fall = (call.after = ";&")
  BY Zenon
<1>a. fall <=> call.after = ";&"
  BY <1>10, Zenon
<1>11. PICK arms : arms = call.arms
  OBVIOUS
<1>12. PICK x : x = Arms(arms, fall)
  OBVIOUS
<1>13. /\ call.after = ";;" => Pending(call) = <<>>
       /\ call.after # ";;" => Pending(call) = <<x>>
  BY <1>5, <1>a, <1>11, <1>12, CaseInside
<1>14. StatusOf(t) = StatusOf(r) /\ \A stack : Reached(t, stack) = Reached(r, stack)
  BY <1>5, <1>7, SameStatus, SameWay
<1>15. CASE r.flow # NoFlow \/ call.after = ";;"
  <2>1. Between(Pending(call))
    <3>1. Between(<<>>) /\ Between(<<x>>)
      BY <1>12, BetweenForms
    <3> QED BY <1>13, <3>1
  <2>2. PICK a : a = Pending(call)
    OBVIOUS
  <2>3. a = <<>> \/ r.flow # NoFlow
    BY <1>13, <1>15, <2>2
  <2>4. Reached(r, a \o below) = Reached(r, below)
    BY <1>5, <1>6, <2>1, <2>2, <2>3, Passing
  <2>5. Reached(t, below) = Reached(r, Pending(call) \o below)
    BY <1>14, <2>2, <2>4
  <2> QED BY <1>1, <1>3, <1>5, <1>7, <1>8, <1>9, <1>14, <2>5, BackStutters
<1>16. CASE r.flow = NoFlow /\ call.after # ";;"
  <2>1. ~r.left /\ arms = <<>>
    BY <1>4, <1>6, <1>11, <1>16
  <2>2. Reached(r, Pending(call) \o below) = <<x>> \o below /\ Reached(r, below) = below
    BY <1>13, <1>16, <2>1, ReachedForms
  <2>3. PICK v : v = r.status
    OBVIOUS
  <2>4. StatusOf(t) = v /\ StatusOf(r) = v /\ Reached(t, below) = below
    BY <1>5, <1>14, <1>16, <2>2, <2>3, StatusForms
  <2>5. FlowsReachTheirTargets' /\ Moves(x, below, below, v, <<>>) /\ ShellStatus = StatusOf(r)
    <3>1. Inner(e, nest, r, call, s, below, outer) /\ At0(e, nest, r)
      BY <1>1
    <3>2. outer # <<>> /\ ResultFits(t, s) /\ Noticed(t, s) /\ IsResult(t)
      BY <1>5, <1>7, <1>8, <1>9
    <3>3. Reached(r, Pending(call) \o below) = <<x>> \o below
      BY <2>2
    <3> QED BY <1>3, <2>4, <3>1, <3>2, <3>3, BackMoves
  <2>6. v = ShellStatus /\ Moves(Arms(arms, fall), below, below, v, <<>>)
    BY <1>12, <2>4, <2>5
  <2>7. Shell!Next
    BY <1>5, <2>1, <2>6, ShellTakesArm
  <2> QED BY <2>5, <2>7 DEF Simulated
<1> QED BY <1>15, <1>16

LEMMA NextArmKeeps ==
  ASSUME FlowInv, NextArm
  PROVE  FlowsReachTheirTargets' /\ Simulated
<1>0. BackIn({"case"})
  BY DEF NextArm
<1>1. PICK e, nest, r, call, s, below, outer :
        /\ Inner(e, nest, r, call, s, below, outer) /\ At0(e, nest, r)
        /\ Innermost = call /\ call.kind = "case" /\ Callers = outer
  BY <1>0, Resumed
<1>2. r.flow = NoFlow /\ call.after # ";;" /\ call.arms # <<>>
  BY <1>1 DEF NextArm, CaseEnds, Flowing, At0
<1>3. /\ CaseCall(call) /\ e \in BOOLEAN /\ s \in Scope /\ s.strict = e /\ ~s.tested
      /\ outer # <<>> /\ IsSequence(below) /\ IsResult(r)
      /\ ArmsFit(call.arms, s) /\ call.after \in {";;", ";&", ";;&"}
  BY <1>1, InnerCase
<1>4. /\ e => ~r.suppressed
      /\ ~r.left /\ (e => r.status = 0)
  BY <1>1, <1>2, <1>3, ArmOver
<1>5. PICK fall \in BOOLEAN : fall = (call.after = ";&")
  BY Zenon
<1>6. fall <=> call.after = ";&"
  BY <1>5, Zenon
<1>7. PICK arms, later, arm : arms = call.arms /\ later = Tail(arms) /\ arm = Head(arms)
  OBVIOUS
<1>8. PICK x : x = Arms(arms, fall)
  OBVIOUS
<1>9. Pending(call) = <<x>>
  BY <1>2, <1>3, <1>6, <1>7, <1>8, CaseInside
<1>10. /\ arm.matches \in BOOLEAN /\ arm.terminator \in {";;", ";&", ";;&"}
       /\ AllMayStand(arm.body, ArmScope(s, arm.terminator))
       /\ ArmsFit(later, s)
  BY <1>2, <1>3, <1>7, ArmsStand
<1>11. Reached(r, Pending(call) \o below) = <<x>> \o below
  BY <1>2, <1>4, <1>9, ReachedForms
<1>12. StatusOf(r) = r.status
  BY <1>2, <1>3, StatusForms
<1>13. CASE call.after = ";&" \/ arm.matches
  <2>1. PICK cmds, after : cmds = arm.body /\ after = arm.terminator
    OBVIOUS
  <2>2. PICK next : next = CaseAt(call, later, after)
    OBVIOUS
  <2>3. PICK stay : stay = KeptIn(nest, next)
    OBVIOUS
  <2>4. Kept(next) = stay
    BY <1>1, <2>3, KeptIs DEF At0
  <2>5. Begins(cmds, TRUE, stay) /\ UNCHANGED <<ran, errexit>>
    <3>0. Innermost = call /\ later = Tail(call.arms) /\ arm = Head(call.arms)
      BY <1>1, <1>7
    <3>a. call.after = ";&" \/ Head(call.arms).matches
      BY <1>13, <3>0
    <3>b. Sequence(Head(call.arms).body,
                   Kept([call EXCEPT !.arms = Tail(call.arms), !.after = Head(call.arms).terminator]))
      BY <3>0, <3>a, Zenon DEF NextArm
    <3>1. Sequence(arm.body, Kept(CaseAt(call, later, arm.terminator)))
      BY <3>0, <3>b DEF CaseAt
    <3>2. Kept(CaseAt(call, later, arm.terminator)) = stay
      BY <2>1, <2>2, <2>4, Zenon
    <3>3. Sequence(cmds, stay)
      BY <2>1, <3>1, <3>2, Zenon
    <3> QED BY <3>3, Zenon DEF Sequence
  <2>6. PICK nest2, d : GoesTo(nest2, d, <<>>) /\ Starts(cmds, TRUE, stay, nest2, d)
    BY <2>5, SequenceStarts
  <2>7. CaseCall(next) /\ next.arms = later /\ next.after = after
    <3>1. CaseCall(call)
      BY <1>3
    <3> QED BY ONLY <2>2, <3>1, CaseAtIs
  <2>8. CallFits(next, s)
    BY <1>3, <1>10, <2>1, <2>7, CaseCallFits
  <2>9. PICK falls \in BOOLEAN : falls = (next.after = ";&")
    BY Zenon
  <2>10. falls <=> next.after = ";&"
    BY <2>9, Zenon
  <2>11. /\ next.kind = "case" /\ Inside(next, s) = ArmScope(s, after)
         /\ after = ";;" => Pending(next) = <<>>
         /\ after # ";;" => Pending(next) = <<Arms(later, falls)>>
    BY <2>7, <2>10, CaseInside
  <2>12. PICK b : b = FallsIn(later, after)
    OBVIOUS
  <2>13. Pending(next) = b
    <3>1. falls <=> after = ";&"
      BY <2>7, <2>10
    <3>2. /\ after = ";;" => FallsIn(later, after) = <<>>
          /\ after # ";;" => FallsIn(later, after) = <<Arms(later, falls)>>
      BY <3>1, FallsAre
    <3> QED BY <2>11, <2>12, <3>2
  <2>14. ~ArmScope(s, after).tested
    BY <1>3, ArmScopeIs
  <2>15. PICK check \in BOOLEAN : check = TRUE
    OBVIOUS
  <2>16. /\ NestFits(nest2, e) /\ ControlFits(d, nest2)
         /\ InShell(d, nest2) = cmds \o (Pending(next) \o below) /\ StatusOf(d) = 0
         /\ IsSequence(cmds) /\ IsSequence(Pending(next)) /\ IsSequence(below)
    <3>1. Inner(e, nest, r, call, s, below, outer) /\ call.kind \in {"loop", "if", "case"}
      BY <1>1
    <3>2. next.kind = call.kind
      BY <1>1, <2>11
    <3>3. AllMayStand(cmds, Inside(next, s)) /\ (check => ~Inside(next, s).tested) /\ check \in BOOLEAN
      BY <1>10, <2>1, <2>11, <2>14
    <3>4. ~check => next.kind \in {"loop", "if"} /\ next.stage = "condition"
      BY <2>15
    <3>5. Starts(cmds, check, stay, nest2, d) /\ stay = KeptIn(nest, next)
      BY <2>3, <2>6, <2>15
    <3> QED BY ONLY <2>8, <3>1, <3>2, <3>3, <3>4, <3>5, RunsInside
  <2>17. PICK u : u = (cmds \o b) \o below
    OBVIOUS
  <2>18. InShell(d, nest2) = u
    <3>1. (cmds \o b) \o below = cmds \o (b \o below)
      BY <2>13, <2>16, Regrouped
    <3> QED BY <2>13, <2>16, <2>17, <3>1
  <2>19. PICK w : w = 0
    OBVIOUS
  <2>20. FlowsReachTheirTargets' /\ Moves(x, below, u, w, <<>>) /\ ShellStatus = StatusOf(r)
    <3>1. NestFits(nest2, e) /\ ControlFits(d, nest2) /\ StatusOf(d) = w
      BY <2>16, <2>19
    <3>2. Inner(e, nest, r, call, s, below, outer) /\ At0(e, nest, r)
      BY <1>1
    <3> QED BY <1>11, <2>6, <2>18, <3>1, <3>2, Onwards
  <2>21. Moves(Arms(arms, fall), below,
               Head(arms).body \o FallsIn(Tail(arms), Head(arms).terminator) \o below, 0, <<>>)
    <3>1. u = Head(arms).body \o FallsIn(Tail(arms), Head(arms).terminator) \o below
      BY <1>7, <2>1, <2>12, <2>17
    <3> QED BY <1>8, <2>19, <2>20, <3>1
  <2>22. PICK v : v = ShellStatus
    OBVIOUS
  <2>23. arms # <<>> /\ (fall \/ Head(arms).matches)
    BY <1>2, <1>6, <1>7, <1>13
  <2>24. Shell!Next
    BY <1>3, <2>21, <2>22, <2>23, ShellTakesArm
  <2> QED BY <2>20, <2>24 DEF Simulated
<1>14. CASE ~(call.after = ";&" \/ arm.matches)
  <2>1. PICK after : after = ";;&"
    OBVIOUS
  <2>2. PICK next : next = CaseAt(call, later, after)
    OBVIOUS
  <2>3. PICK stay : stay = KeptIn(nest, next)
    OBVIOUS
  <2>4. Kept(next) = stay
    BY <1>1, <2>3, KeptIs DEF At0
  <2>5. Turns(stay, r)
    <3>0. Innermost = call /\ later = Tail(call.arms) /\ arm = Head(call.arms)
      BY <1>1, <1>7
    <3>a. ~(call.after = ";&" \/ Head(call.arms).matches)
      BY <1>14, <3>0
    <3>b. Turns(Kept([call EXCEPT !.arms = Tail(call.arms), !.after = ";;&"]), control)
      BY <3>0, <3>a, Zenon DEF NextArm
    <3>1. Turns(Kept(CaseAt(call, later, ";;&")), control)
      BY <3>0, <3>b DEF CaseAt
    <3>2. Kept(CaseAt(call, later, ";;&")) = stay
      BY <2>1, <2>2, <2>4, Zenon
    <3>3. control = r
      BY <1>1 DEF At0
    <3> QED BY <3>1, <3>2, <3>3, Zenon
  <2>6. GoesTo(stay, r, <<>>)
    BY <2>5, TurnsGo
  <2>7. CaseCall(next) /\ next.arms = later /\ next.after = after
    <3>1. CaseCall(call)
      BY <1>3
    <3> QED BY ONLY <2>2, <3>1, CaseAtIs
  <2>8. CallFits(next, s)
    BY <1>3, <1>10, <2>1, <2>7, CaseCallFits
  <2>9. PICK no \in BOOLEAN : no = FALSE
    OBVIOUS
  <2>10. no <=> next.after = ";&"
    BY <2>1, <2>7, <2>9
  <2>11. PICK y : y = Arms(later, no)
    OBVIOUS
  <2>12. next.kind = "case" /\ Inside(next, s) = ArmScope(s, after) /\ Pending(next) = <<y>>
    BY <2>1, <2>7, <2>10, <2>11, CaseInside
  <2>13. /\ NestFits(stay, e) /\ stay # <<>> /\ Head(stay).call = next
         /\ StackOf(stay) = Pending(next) \o below /\ ScopeIn(stay) = Inside(next, s)
    <3>1. next.kind = call.kind
      BY <1>1, <2>12
    <3> QED BY <1>1, <2>3, <2>8, <3>1, Going
  <2>14. PICK q : q = ArmScope(s, after)
    OBVIOUS
  <2>15. q.strict = e
    BY <1>3, <2>14, ArmScopeIs DEF Same
  <2>16. ResultFits(r, q) /\ Noticed(r, q)
    <3>1. FlowFits(r, q)
      BY <1>2 DEF FlowFits
    <3> QED BY <1>3, <1>4, <2>15, <3>1 DEF ResultFits, Noticed
  <2>17. AnswerFits(r, next, q)
    BY <2>12, <2>16 DEF AnswerFits
  <2>18. ControlFits(r, stay) /\ InShell(r, stay) = <<y>> \o below
    <3>1. r.kind = "result"
      BY <1>3, StatusForms
    <3>2. ControlFits(r, stay)
      BY <2>12, <2>13, <2>14, <2>17, <3>1 DEF ControlFits
    <3>3. InShell(r, stay) = Reached(r, <<y>> \o below)
      BY <2>12, <2>13, <3>1 DEF InShell
    <3>4. Reached(r, <<y>> \o below) = <<y>> \o below
      BY <1>2, <1>4, ReachedForms
    <3> QED BY <3>2, <3>3, <3>4
  <2>19. PICK v, u : v = r.status /\ u = <<y>> \o below
    OBVIOUS
  <2>20. FlowsReachTheirTargets' /\ Moves(x, below, u, v, <<>>) /\ ShellStatus = StatusOf(r)
    <3>1. NestFits(stay, e) /\ ControlFits(r, stay) /\ StatusOf(r) = v /\ InShell(r, stay) = u
      BY <1>12, <2>13, <2>18, <2>19
    <3>2. Inner(e, nest, r, call, s, below, outer) /\ At0(e, nest, r)
      BY <1>1
    <3> QED BY <1>11, <2>6, <3>1, <3>2, Onwards
  <2>21. v = ShellStatus /\ Moves(Arms(arms, fall), below, <<Arms(Tail(arms), FALSE)>> \o below, v, <<>>)
    BY <1>7, <1>8, <1>12, <2>9, <2>11, <2>19, <2>20
  <2>22. arms # <<>> /\ ~(fall \/ Head(arms).matches)
    BY <1>2, <1>6, <1>7, <1>14
  <2>23. Shell!Next
    BY <1>3, <2>21, <2>22, ShellTakesArm
  <2> QED BY <2>20, <2>23 DEF Simulated
<1> QED BY <1>13, <1>14

(* The call of a list, as it goes on.                                      *)
ListCall(call) ==
  /\ call.kind = "list"
  /\ call = [kind |-> "list", op |-> call.op, rest |-> call.rest]
ListAt(call, op, later) == [call EXCEPT !.op = op, !.rest = later]

LEMMA ListFields ==
  ASSUME NEW k, k = "list", NEW xop, NEW xrest,
         NEW next, next = [kind |-> k, op |-> xop, rest |-> xrest]
  PROVE  ListCall(next) /\ next.op = xop /\ next.rest = xrest
<1>1. next.kind = "list" /\ next.op = xop /\ next.rest = xrest
  OBVIOUS
<1> QED BY <1>1 DEF ListCall

LEMMA ListAtIs ==
  ASSUME NEW call, ListCall(call), NEW op, NEW later, NEW next, next = ListAt(call, op, later)
  PROVE  ListCall(next) /\ next.op = op /\ next.rest = later
<1>1. PICK k, xop, xrest : k = call.kind /\ xop = call.op /\ xrest = call.rest
  OBVIOUS
<1>2. k = "list"
  BY <1>1 DEF ListCall
<1>3. call = [kind |-> k, op |-> xop, rest |-> xrest]
  BY <1>1, <1>2 DEF ListCall
<1>4. next = [call EXCEPT !.op = op, !.rest = later]
  BY DEF ListAt
<1>5. next = [kind |-> k, op |-> op, rest |-> later]
  BY <1>3, <1>4, ListGoesOnFields
<1> QED BY <1>2, <1>5, ListFields

LEMMA ListCallFits ==
  ASSUME NEW call, ListCall(call), NEW s, ~s.tested,
         RestFits(call.rest, s), call.op \in {"&&", "||", ";"},
         call.rest = <<>> /\ Conditional(call.op) => s.excused
  PROVE  CallFits(call, s)
BY DEF CallFits, ListCall

LEMMA ListInside ==
  ASSUME NEW call, ListCall(call), NEW s
  PROVE  /\ call.kind = "list" /\ Inside(call, s) = ListScope(s, call.op, Leading(call.rest))
         /\ Pending(call) = <<Operator(call.rest)>>
BY InsideForms, PendingForms DEF ListCall

LEMMA InnerList ==
  ASSUME NEW e, NEW nest, NEW r, NEW call, NEW s, NEW below, NEW outer,
         Inner(e, nest, r, call, s, below, outer), call.kind = "list"
  PROVE  /\ ListCall(call) /\ e \in BOOLEAN /\ s \in Scope /\ s.strict = e /\ ~s.tested
         /\ outer # <<>> /\ IsSequence(below) /\ IsResult(r)
         /\ RestFits(call.rest, s) /\ call.op \in {"&&", "||", ";"}
         /\ call.rest = <<>> /\ Conditional(call.op) => s.excused
<1>1. /\ e \in BOOLEAN /\ s \in Scope /\ s.strict = e /\ CallFits(call, s)
      /\ ~s.tested /\ outer # <<>> /\ IsSequence(below) /\ IsResult(r)
  BY InnerIs
<1> QED BY <1>1 DEF CallFits, ListCall

(* The failures of the commands of a list that are excused.                *)
LEMMA ExcusedInList ==
  ASSUME NEW s \in Scope, NEW op, NEW next, NEW t, t = ListScope(s, op, next)
  PROVE  /\ Conditional(next) => t.excused = s.excused
         /\ ~Conditional(next) /\ s.strict /\ t.excused => next = ";" \/ Conditional(op)
         /\ ~Conditional(next) /\ Conditional(op) => t.excused
<1>1. Conditional(next) => t.excused = s.excused
  BY ListScopeIs
<1>2. ASSUME ~Conditional(next), s.strict, t.excused
      PROVE  next = ";" \/ Conditional(op)
  <2>1. t = [s EXCEPT !.fails = ~s.strict \/ (@ /\ ~Conditional(op)),
                      !.excused = ~s.strict \/ next = ";" \/ Conditional(op)]
    BY <1>2, Zenon DEF ListScope
  <2> QED BY <1>2, <2>1 DEF Scope
<1>3. ~Conditional(next) /\ Conditional(op) => t.excused
  BY ListScopeIs
<1> QED BY <1>1, <1>2, <1>3

LEMMA ListPlaces ==
  ASSUME NEW s \in Scope, ~s.tested, NEW op, NEW next, NEW t, t = ListScope(s, op, next)
  PROVE  /\ t.strict = s.strict
         /\ t.loops = s.loops /\ t.returns = s.returns /\ t.exits = s.exits /\ t.codes = s.codes
         /\ t.tested <=> Conditional(next) /\ s.strict
         /\ s.strict /\ t.fails => Conditional(next) \/ (s.fails /\ ~Conditional(op))
<1>1. Same(t, s) /\ t.loops = s.loops /\ t.returns = s.returns /\ t.exits = s.exits /\ t.codes = s.codes
  BY ListScopeIs
<1>2. t.strict = s.strict
  BY <1>1 DEF Same
<1>3. CASE Conditional(next)
  <2>1. t.tested = s.strict
    BY <1>3, ListScopeIs
  <2> QED BY <1>1, <1>2, <1>3, <2>1
<1>4. CASE ~Conditional(next)
  <2>1. t.tested = s.tested
    BY <1>4, ListScopeIs
  <2>2. s.strict /\ t.fails => s.fails /\ ~Conditional(op)
    BY <1>4, ListScopeIs
  <2> QED BY <1>1, <1>2, <1>4, <2>1, <2>2
<1> QED BY <1>3, <1>4

(* The result of a command of a list.                                      *)
LEMMA ListOver ==
  ASSUME NEW e, NEW nest, NEW r, NEW call, NEW s, NEW below, NEW outer,
         Inner(e, nest, r, call, s, below, outer), call.kind = "list"
  PROVE  \E op, next :
         /\ op = call.op /\ next = Leading(call.rest)
         /\ FlowFits(r, s)
         /\ r.left => /\ e /\ s.fails /\ ~Conditional(op) /\ ~Conditional(next)
                      /\ r.flow = NoFlow /\ r.status # 0 /\ ~r.suppressed
         /\ e /\ r.suppressed =>
              /\ r.flow = NoFlow /\ r.status # 0
              /\ Conditional(next) => s.excused
              /\ Conditional(next) \/ next = ";" \/ Conditional(op)
         /\ e /\ r.flow = NoFlow /\ r.status # 0 =>
              r.left \/ r.suppressed \/ Conditional(next) \/ Conditional(op)
         /\ ResultFits(r, Inside(call, s))
<1>0. PICK op, next : op = call.op /\ next = Leading(call.rest)
  OBVIOUS
<1>1. /\ ListCall(call) /\ e \in BOOLEAN /\ s \in Scope /\ s.strict = e /\ ~s.tested
  BY InnerList
<1>2. AnswerFits(r, call, Inside(call, s)) /\ ResultFits(r, Inside(call, s))
  BY InnerIs
<1>3. Inside(call, s) = ListScope(s, op, next)
  BY <1>0, <1>1, ListInside
<1>4. PICK u : u = ListScope(s, op, next)
  OBVIOUS
<1>5. /\ u.strict = s.strict
      /\ u.loops = s.loops /\ u.returns = s.returns /\ u.exits = s.exits /\ u.codes = s.codes
      /\ u.tested <=> Conditional(next) /\ s.strict
      /\ s.strict /\ u.fails => Conditional(next) \/ (s.fails /\ ~Conditional(op))
  BY <1>1, <1>4, ListPlaces
<1>6. /\ Conditional(next) => u.excused = s.excused
      /\ ~Conditional(next) /\ s.strict /\ u.excused => next = ";" \/ Conditional(op)
  BY <1>1, <1>4, ExcusedInList
<1>7. ResultFits(r, u) /\ FlowFits(r, u)
  BY <1>2, <1>3, <1>4 DEF ResultFits
<1>8. Noticed(r, u) \/ u.tested \/ Conditional(op)
  BY <1>0, <1>2, <1>3, <1>4 DEF AnswerFits
<1>9. FlowFits(r, s)
  BY <1>5, <1>7 DEF FlowFits
<1>10. r.left => /\ e /\ s.fails /\ ~Conditional(op) /\ ~Conditional(next)
                 /\ r.flow = NoFlow /\ r.status # 0 /\ ~r.suppressed
  BY <1>1, <1>5, <1>7 DEF ResultFits
<1>11. e /\ r.suppressed => /\ r.flow = NoFlow /\ r.status # 0
                            /\ Conditional(next) => s.excused
                            /\ Conditional(next) \/ next = ";" \/ Conditional(op)
  BY <1>1, <1>5, <1>6, <1>7 DEF ResultFits
<1>12. e /\ r.flow = NoFlow /\ r.status # 0 =>
         r.left \/ r.suppressed \/ Conditional(next) \/ Conditional(op)
  BY <1>1, <1>5, <1>8 DEF Noticed
<1> WITNESS op, next
<1> QED BY <1>0, <1>2, <1>9, <1>10, <1>11, <1>12

LEMMA LeaveListKeeps ==
  ASSUME FlowInv, LeaveList
  PROVE  FlowsReachTheirTargets' /\ Simulated
<1>0. BackIn({"list"})
  BY DEF LeaveList
<1>1. PICK e, nest, r, call, s, below, outer :
        /\ Inner(e, nest, r, call, s, below, outer) /\ At0(e, nest, r)
        /\ Innermost = call /\ call.kind = "list" /\ Callers = outer
  BY <1>0, Resumed
<1>2. PICK t : t = Unsuppressed(r)
  OBVIOUS
<1>3. GoesTo(outer, t, <<>>)
  BY <1>1, <1>2, TurnsGo DEF LeaveList, At0
<1>4. PICK op, next :
        /\ op = call.op /\ next = Leading(call.rest)
        /\ FlowFits(r, s)
        /\ r.left => /\ e /\ s.fails /\ ~Conditional(op) /\ ~Conditional(next)
                     /\ r.flow = NoFlow /\ r.status # 0 /\ ~r.suppressed
        /\ e /\ r.suppressed =>
             /\ r.flow = NoFlow /\ r.status # 0
             /\ Conditional(next) => s.excused
             /\ Conditional(next) \/ next = ";" \/ Conditional(op)
        /\ e /\ r.flow = NoFlow /\ r.status # 0 =>
             r.left \/ r.suppressed \/ Conditional(next) \/ Conditional(op)
        /\ ResultFits(r, Inside(call, s))
  BY <1>1, ListOver, Zenon
<1>5. r.flow # NoFlow \/ (next = ";" /\ e /\ r.status # 0 /\ ~Conditional(op) /\ ~r.suppressed)
  BY <1>1, <1>4 DEF LeaveList, ListStops, FromConditional, Flowing, At0
<1>6. /\ ListCall(call) /\ e \in BOOLEAN /\ s \in Scope /\ s.strict = e /\ ~s.tested
      /\ outer # <<>> /\ IsSequence(below) /\ IsResult(r)
  BY <1>1, InnerList
<1>7. /\ FlowFits(r, s)
      /\ r.left => e /\ s.fails /\ r.flow = NoFlow /\ r.status # 0
      /\ e /\ r.flow = NoFlow /\ r.status # 0 =>
           r.left \/ r.suppressed \/ Conditional(next) \/ Conditional(op)
      /\ ResultFits(r, Inside(call, s))
  BY <1>4
<1>8. IsResult(t) /\ t.status = r.status /\ t.flow = r.flow /\ ~t.suppressed /\ t.left = r.left
  BY <1>2, <1>6, UnsuppressedIs
<1>9. r.flow # NoFlow \/ r.left
  BY <1>5, <1>7 DEF Conditional
<1>10. ResultFits(t, s)
  <2>1. FlowFits(t, s)
    BY <1>7, <1>8 DEF FlowFits
  <2> QED BY <1>6, <1>7, <1>8, <2>1 DEF ResultFits
<1>11. Noticed(t, s)
  BY <1>8, <1>9 DEF Noticed
<1>12. PICK a : a = Pending(call)
  OBVIOUS
<1>13. Between(a)
  BY <1>6, <1>12, ListInside, BetweenForms
<1>14. Reached(r, a \o below) = Reached(r, below)
  BY <1>6, <1>7, <1>9, <1>13, Passing
<1>15. StatusOf(t) = StatusOf(r) /\ \A stack : Reached(t, stack) = Reached(r, stack)
  BY <1>6, <1>8, SameStatus, SameWay
<1>16. Reached(t, below) = Reached(r, Pending(call) \o below)
  BY <1>12, <1>14, <1>15
<1> QED BY <1>1, <1>3, <1>6, <1>8, <1>10, <1>11, <1>15, <1>16, BackStutters

LEMMA EndListKeeps ==
  ASSUME FlowInv, EndList
  PROVE  FlowsReachTheirTargets' /\ Simulated
<1>0. BackIn({"list"})
  BY DEF EndList
<1>1. PICK e, nest, r, call, s, below, outer :
        /\ Inner(e, nest, r, call, s, below, outer) /\ At0(e, nest, r)
        /\ Innermost = call /\ call.kind = "list" /\ Callers = outer
  BY <1>0, Resumed
<1>2. PICK b \in BOOLEAN : b = SuppressedAtEnd(call, r)
  BY Zenon DEF SuppressedAtEnd
<1>3. PICK t : t = [r EXCEPT !.suppressed = b]
  OBVIOUS
<1>a. [control EXCEPT !.suppressed = SuppressedAtEnd(Innermost, control)] = t
  BY <1>1, <1>2, <1>3, Zenon DEF At0
<1>b. GoesTo(outer, t, <<>>)
  BY <1>1, <1>a, TurnsGo DEF EndList
<1>4. PICK op, next :
        /\ op = call.op /\ next = Leading(call.rest)
        /\ FlowFits(r, s)
        /\ r.left => /\ e /\ s.fails /\ ~Conditional(op) /\ ~Conditional(next)
                     /\ r.flow = NoFlow /\ r.status # 0 /\ ~r.suppressed
        /\ e /\ r.suppressed =>
             /\ r.flow = NoFlow /\ r.status # 0
             /\ Conditional(next) => s.excused
             /\ Conditional(next) \/ next = ";" \/ Conditional(op)
        /\ e /\ r.flow = NoFlow /\ r.status # 0 =>
             r.left \/ r.suppressed \/ Conditional(next) \/ Conditional(op)
        /\ ResultFits(r, Inside(call, s))
  BY <1>1, ListOver, Zenon
<1>5. r.flow = NoFlow /\ call.rest = <<>>
  BY <1>1 DEF EndList, ListStops, Flowing, At0
<1>6. /\ ListCall(call) /\ e \in BOOLEAN /\ s \in Scope /\ s.strict = e /\ ~s.tested
      /\ outer # <<>> /\ IsSequence(below) /\ IsResult(r)
      /\ call.rest = <<>> /\ Conditional(call.op) => s.excused
  BY <1>1, InnerList
<1>7. next = "end" /\ ~Conditional(next)
  <2>1. next = "end"
    BY <1>4, <1>5, Nothing, LeadingIs
  <2> QED BY <2>1 DEF Conditional
<1>8. IsResult(t) /\ t.status = r.status /\ t.flow = r.flow /\ t.suppressed = b /\ t.left = r.left
  BY <1>3, <1>6, WithSuppressed
<1>9. b => Conditional(op) /\ r.status # 0
  BY <1>2, <1>4, Zenon DEF SuppressedAtEnd
<1>10. Conditional(op) /\ r.status # 0 => b
  BY <1>2, <1>4, Zenon DEF SuppressedAtEnd
<1>11. ResultFits(t, s)
  <2>1. FlowFits(t, s)
    BY <1>5, <1>8 DEF FlowFits
  <2>2. t.left => s.strict /\ s.fails /\ ~s.tested /\ t.flow = NoFlow /\ t.status # 0 /\ ~t.suppressed
    BY <1>4, <1>6, <1>8, <1>9
  <2>3. s.strict /\ t.suppressed => t.flow = NoFlow /\ t.status # 0 /\ s.excused
    BY <1>4, <1>5, <1>6, <1>8, <1>9
  <2> QED BY <1>8, <2>1, <2>2, <2>3 DEF ResultFits
<1>12. Noticed(t, s)
  <2>1. e /\ r.status # 0 => r.left \/ b
    <3>1. e /\ r.status # 0 => r.left \/ r.suppressed \/ Conditional(op)
      BY <1>4, <1>5, <1>7
    <3>2. e /\ r.suppressed => Conditional(op)
      BY <1>4, <1>7
    <3> QED BY <1>10, <3>1, <3>2
  <2> QED BY <1>6, <1>8, <2>1 DEF Noticed
<1>13. PICK none, x : none = <<>> /\ x = Operator(none)
  OBVIOUS
<1>14. Pending(call) = <<x>>
  BY <1>5, <1>6, <1>13, ListInside
<1>15. StatusOf(t) = StatusOf(r) /\ \A stack : Reached(t, stack) = Reached(r, stack)
  BY <1>6, <1>8, SameStatus, SameWay
<1>16. CASE r.left
  <2>1. Between(Pending(call))
    BY <1>13, <1>14, BetweenForms
  <2>2. PICK a : a = Pending(call)
    OBVIOUS
  <2>3. Reached(r, a \o below) = Reached(r, below)
    <3>1. ResultFits(r, Inside(call, s)) /\ Between(a) /\ IsSequence(below)
      BY <1>4, <1>6, <2>1, <2>2
    <3> QED BY <1>16, <3>1, Passing
  <2>4. Reached(t, below) = Reached(r, Pending(call) \o below)
    BY <1>15, <2>2, <2>3
  <2> QED BY <1>1, <1>b, <1>6, <1>8, <1>11, <1>12, <1>15, <2>4, BackStutters
<1>17. CASE ~r.left
  <2>1. Reached(r, Pending(call) \o below) = <<x>> \o below /\ Reached(r, below) = below
    BY <1>5, <1>14, <1>17, ReachedForms
  <2>2. PICK v : v = r.status
    OBVIOUS
  <2>3. StatusOf(t) = v /\ StatusOf(r) = v /\ Reached(t, below) = below
    BY <1>5, <1>6, <1>15, <2>1, <2>2, StatusForms
  <2>4. FlowsReachTheirTargets' /\ Moves(x, below, below, v, <<>>) /\ ShellStatus = StatusOf(r)
    <3>1. Inner(e, nest, r, call, s, below, outer) /\ At0(e, nest, r)
      BY <1>1
    <3>2. outer # <<>> /\ ResultFits(t, s) /\ Noticed(t, s) /\ IsResult(t)
      BY <1>6, <1>8, <1>11, <1>12
    <3>3. Reached(r, Pending(call) \o below) = <<x>> \o below
      BY <2>1
    <3> QED BY <1>b, <2>3, <3>1, <3>2, <3>3, BackMoves
  <2>5. v = ShellStatus /\ Moves(Operator(none), below, below, v, <<>>)
    BY <1>13, <2>3, <2>4
  <2>6. Shell!Next
    BY <1>6, <1>13, <2>5, ShellTakesOperator
  <2> QED BY <2>4, <2>6 DEF Simulated
<1> QED BY <1>16, <1>17

(* An operator lets the next command run in a shell as in the interpreter. *)
LEMMA Executes ==
  ASSUME NEW op, op \in {"&&", "||", ";"}, NEW v
  PROVE  (\/ op = "&&" /\ v = 0
          \/ op = "||" /\ v # 0
          \/ op = ";")
         <=> (op = ";" \/ (op = "&&") = (v = 0))
<1>1. CASE op = "&&"
  BY <1>1
<1>2. CASE op = "||"
  BY <1>2
<1>3. CASE op = ";"
  BY <1>3
<1> QED BY <1>1, <1>2, <1>3

LEMMA NextInListKeeps ==
  ASSUME FlowInv, NextInList
  PROVE  FlowsReachTheirTargets' /\ Simulated
<1>0. BackIn({"list"})
  BY DEF NextInList
<1>1. PICK e, nest, r, call, s, below, outer :
        /\ Inner(e, nest, r, call, s, below, outer) /\ At0(e, nest, r)
        /\ Innermost = call /\ call.kind = "list" /\ Callers = outer
  BY <1>0, Resumed
<1>2. PICK op, next :
        /\ op = call.op /\ next = Leading(call.rest)
        /\ FlowFits(r, s)
        /\ r.left => /\ e /\ s.fails /\ ~Conditional(op) /\ ~Conditional(next)
                     /\ r.flow = NoFlow /\ r.status # 0 /\ ~r.suppressed
        /\ e /\ r.suppressed =>
             /\ r.flow = NoFlow /\ r.status # 0
             /\ Conditional(next) => s.excused
             /\ Conditional(next) \/ next = ";" \/ Conditional(op)
        /\ e /\ r.flow = NoFlow /\ r.status # 0 =>
             r.left \/ r.suppressed \/ Conditional(next) \/ Conditional(op)
        /\ ResultFits(r, Inside(call, s))
  BY <1>1, ListOver, Zenon
<1>3. /\ r.flow = NoFlow /\ call.rest # <<>>
      /\ ~(next = ";" /\ e /\ r.status # 0 /\ ~Conditional(op) /\ ~r.suppressed)
  BY <1>1, <1>2 DEF NextInList, ListStops, FromConditional, Flowing, At0
<1>4. /\ ListCall(call) /\ e \in BOOLEAN /\ s \in Scope /\ s.strict = e /\ ~s.tested
      /\ outer # <<>> /\ IsSequence(below) /\ IsResult(r) /\ RestFits(call.rest, s)
  BY <1>1, InnerList
<1>5. PICK rest, later, op2, cmd :
        /\ rest = call.rest /\ later = Tail(rest) /\ op2 = Head(rest).op /\ cmd = Head(rest).cmd
  OBVIOUS
<1>6. PICK then : then = Leading(later)
  OBVIOUS
<1>7. /\ next = op2 /\ op2 \in {"&&", "||", ";"} /\ MayStand(cmd, ListScope(s, op2, then))
      /\ RestFits(later, s) /\ (later = <<>> /\ Conditional(op2) => s.excused)
      /\ rest # <<>>
  <2>1. rest # <<>> /\ RestFits(rest, s) /\ next = Leading(rest)
    BY <1>2, <1>3, <1>4, <1>5
  <2>2. IsSequence(rest)
    BY <2>1, RestStands
  <2>3. next = op2
    BY <1>5, <2>1, <2>2, LeadingIs
  <2>4. /\ op2 \in {"&&", "||", ";"} /\ MayStand(cmd, ListScope(s, op2, then))
        /\ RestFits(later, s) /\ (later = <<>> /\ Conditional(op2) => s.excused)
    BY <1>5, <1>6, <2>1, RestStands
  <2> QED BY <2>1, <2>3, <2>4
<1>8. ~r.left
  <2>1. next = ";" \/ Conditional(next)
    BY <1>7 DEF Conditional
  <2> QED BY <1>2, <1>3, <2>1
<1>9. PICK x : x = Operator(rest)
  OBVIOUS
<1>10. Reached(r, Pending(call) \o below) = <<x>> \o below
  <2>1. Pending(call) = <<x>>
    BY <1>4, <1>5, <1>9, ListInside
  <2> QED BY <1>3, <1>8, <2>1, ReachedForms
<1>11. StatusOf(r) = r.status /\ r.kind = "result"
  BY <1>3, <1>4, StatusForms
<1>12. PICK call2 : call2 = ListAt(call, op2, later)
  OBVIOUS
<1>13. PICK stay : stay = KeptIn(nest, call2)
  OBVIOUS
<1>14. Kept(call2) = stay
  BY <1>1, <1>13, KeptIs DEF At0
<1>15. ListCall(call2) /\ call2.op = op2 /\ call2.rest = later
  <2>1. ListCall(call)
    BY <1>4
  <2> QED BY ONLY <1>12, <2>1, ListAtIs
<1>16. CallFits(call2, s)
  BY <1>4, <1>7, <1>15, ListCallFits
<1>17. PICK y : y = Operator(later)
  OBVIOUS
<1>18. PICK q : q = ListScope(s, op2, then)
  OBVIOUS
<1>19. call2.kind = "list" /\ Inside(call2, s) = q /\ Pending(call2) = <<y>>
  BY <1>6, <1>15, <1>17, <1>18, ListInside
<1>20. /\ NestFits(stay, e) /\ stay # <<>> /\ Head(stay).call = call2
       /\ StackOf(stay) = <<y>> \o below /\ ScopeIn(stay) = q
  <2>1. call2.kind = call.kind
    BY <1>1, <1>19
  <2>2. /\ NestFits(stay, e) /\ stay # <<>> /\ Head(stay).call = call2
        /\ StackOf(stay) = Pending(call2) \o below /\ ScopeIn(stay) = Inside(call2, s)
    BY <1>1, <1>13, <1>16, <2>1, Going
  <2> QED BY <1>19, <2>2
<1>21. ShouldExecute(op2) <=> \/ op2 = "&&" /\ r.status = 0
                              \/ op2 = "||" /\ r.status # 0
                              \/ op2 = ";"
  BY <1>1 DEF ShouldExecute, At0
<1>22. PICK v : v = r.status
  OBVIOUS
<1>23. CASE ShouldExecute(op2)
  <2>1. PICK d : d = Run(cmd, v)
    OBVIOUS
  <2>2. GoesTo(stay, d, <<>>)
    <3>1. Innermost = call /\ control = r /\ later = Tail(call.rest) /\ op2 = Head(call.rest).op
          /\ cmd = Head(call.rest).cmd
      BY <1>1, <1>5 DEF At0
    <3>2. Turns(Kept([call EXCEPT !.op = Head(call.rest).op, !.rest = Tail(call.rest)]),
                Run(Head(call.rest).cmd, control.status))
      BY <1>23, <3>1, Zenon DEF NextInList
    <3>3. Turns(Kept(ListAt(call, op2, later)), Run(cmd, control.status))
      BY <3>1, <3>2 DEF ListAt
    <3>4. Kept(ListAt(call, op2, later)) = stay
      BY <1>12, <1>14, Zenon
    <3>5. Run(cmd, control.status) = d
      BY <1>22, <2>1, <3>1
    <3>6. Turns(stay, d)
      BY <3>3, <3>4, <3>5, Zenon
    <3> QED BY <3>6, TurnsGo
  <2>3. CommandFits(cmd, Head(stay).call, ScopeIn(stay))
    BY <1>7, <1>18, <1>19, <1>20 DEF CommandFits
  <2>4. ControlFits(d, stay) /\ InShell(d, stay) = <<cmd>> \o StackOf(stay) /\ StatusOf(d) = v
    BY <1>20, <2>1, <2>3, Commanding
  <2>5. PICK u : u = <<cmd>> \o (<<y>> \o below)
    OBVIOUS
  <2>6. FlowsReachTheirTargets' /\ Moves(x, below, u, v, <<>>) /\ ShellStatus = StatusOf(r)
    <3>1. NestFits(stay, e) /\ ControlFits(d, stay) /\ StatusOf(d) = v /\ InShell(d, stay) = u
      BY <1>20, <2>4, <2>5
    <3>2. Inner(e, nest, r, call, s, below, outer) /\ At0(e, nest, r)
      BY <1>1
    <3> QED BY <1>10, <2>2, <3>1, <3>2, Onwards
  <2>7. v = ShellStatus /\ Moves(Operator(rest), below, <<Head(rest).cmd>> \o (<<Operator(Tail(rest))>> \o below), v, <<>>)
    BY <1>5, <1>9, <1>11, <1>17, <1>22, <2>5, <2>6
  <2>8. Head(rest).op = ";" \/ (Head(rest).op = "&&") = (v = 0)
    <3>1. op2 = ";" \/ (op2 = "&&") = (v = 0)
      BY <1>7, <1>21, <1>22, <1>23, Executes
    <3> QED BY <1>5, <3>1
  <2>9. Shell!Next
    BY <1>4, <1>7, <2>7, <2>8, ShellTakesOperator
  <2> QED BY <2>6, <2>9 DEF Simulated
<1>24. CASE ~ShouldExecute(op2)
  <2>1. GoesTo(stay, r, <<>>)
    <3>1. Innermost = call /\ control = r /\ later = Tail(call.rest) /\ op2 = Head(call.rest).op
      BY <1>1, <1>5 DEF At0
    <3>2. Turns(Kept([call EXCEPT !.op = Head(call.rest).op, !.rest = Tail(call.rest)]), control)
      BY <1>24, <3>1, Zenon DEF NextInList
    <3>3. Turns(Kept(ListAt(call, op2, later)), control)
      BY <3>1, <3>2 DEF ListAt
    <3>4. Kept(ListAt(call, op2, later)) = stay
      BY <1>12, <1>14, Zenon
    <3>5. Turns(stay, r)
      BY <3>1, <3>3, <3>4, Zenon
    <3> QED BY <3>5, TurnsGo
  <2>2. Conditional(op2)
    BY <1>7, <1>21, <1>24 DEF Conditional
  <2>3. ResultFits(r, q)
    <3>1. FlowFits(r, q)
      BY <1>3 DEF FlowFits
    <3>2. q.strict = e
      BY <1>4, <1>18, ListPlaces
    <3>3. /\ Conditional(then) => q.excused = s.excused
          /\ ~Conditional(then) /\ Conditional(op2) => q.excused
      BY <1>4, <1>18, ExcusedInList
    <3>4. e /\ r.suppressed => r.status # 0 /\ q.excused
      BY <1>2, <1>7, <2>2, <3>3
    <3> QED BY <1>3, <1>4, <1>8, <3>1, <3>2, <3>4 DEF ResultFits
  <2>4. AnswerFits(r, call2, q)
    BY <1>15, <1>19, <2>2, <2>3 DEF AnswerFits
  <2>5. ControlFits(r, stay)
    BY <1>11, <1>20, <2>4 DEF ControlFits
  <2>6. PICK u : u = <<y>> \o below
    OBVIOUS
  <2>7. InShell(r, stay) = u
    <3>1. InShell(r, stay) = Reached(r, <<y>> \o below)
      BY <1>11, <1>20 DEF InShell
    <3>2. Reached(r, <<y>> \o below) = <<y>> \o below
      BY <1>3, <1>8, ReachedForms
    <3> QED BY <2>6, <3>1, <3>2
  <2>8. FlowsReachTheirTargets' /\ Moves(x, below, u, v, <<>>) /\ ShellStatus = StatusOf(r)
    <3>1. NestFits(stay, e) /\ ControlFits(r, stay) /\ StatusOf(r) = v /\ InShell(r, stay) = u
      BY <1>11, <1>20, <1>22, <2>5, <2>7
    <3>2. Inner(e, nest, r, call, s, below, outer) /\ At0(e, nest, r)
      BY <1>1
    <3> QED BY <1>10, <2>1, <3>1, <3>2, Onwards
  <2>9. v = ShellStatus /\ Moves(Operator(rest), below, <<Operator(Tail(rest))>> \o below, v, <<>>)
    BY <1>5, <1>9, <1>11, <1>17, <1>22, <2>6, <2>8
  <2>10. ~(Head(rest).op = ";" \/ (Head(rest).op = "&&") = (v = 0))
    <3>1. ~(op2 = ";" \/ (op2 = "&&") = (v = 0))
      BY <1>7, <1>21, <1>22, <1>24, Executes
    <3> QED BY <1>5, <3>1
  <2>11. Shell!Next
    BY <1>4, <1>7, <2>9, <2>10, ShellTakesOperator
  <2> QED BY <2>8, <2>11 DEF Simulated
<1> QED BY <1>23, <1>24

LEMMA NothingMoves ==
  ASSUME FlowInv, UNCHANGED flowVars
  PROVE  FlowInv' /\ Simulated
<1>1. calls' = calls /\ control' = control /\ ran' = ran /\ errexit' = errexit
  BY DEF flowVars
<1>2. FlowsReachTheirTargets'
  BY <1>1 DEF FlowInv, FlowsReachTheirTargets
<1>3. IsSequence(ran)'
  BY <1>1 DEF FlowInv
<1>4. ShellStack' = ShellStack /\ ShellStatus' = ShellStatus
  BY <1>1 DEF ShellStack, ShellStatus, Command
<1>5. UNCHANGED Shell!shellVars
  BY <1>1, <1>4 DEF Shell!shellVars
<1> QED BY <1>2, <1>3, <1>5 DEF Simulated, FlowInv

(* What has run only grows.                                                *)
LEMMA OpensRun ==
  ASSUME Opens
  PROVE  ran' = ran
<1>1. ASSUME NEW cmds, NEW nest, Sequence(cmds, nest) PROVE ran' = ran
  BY <1>1 DEF Sequence
<1>2. ASSUME NEW cmds, NEW nest, ConditionSequence(cmds, nest) PROVE ran' = ran
  BY <1>2 DEF ConditionSequence
<1>3. ASSUME NEW nest, NEW c, Turns(nest, c) PROVE ran' = ran
  BY <1>3 DEF Turns
<1>4. CASE OpenGroup
  BY <1>1, <1>4 DEF OpenGroup
<1>5. CASE OpenSubshell
  BY <1>1, <1>5 DEF OpenSubshell
<1>6. CASE OpenCall
  BY <1>1, <1>6 DEF OpenCall
<1>7. CASE OpenSource
  BY <1>3, <1>7 DEF OpenSource
<1>8. CASE OpenLoop
  BY <1>3, <1>8 DEF OpenLoop
<1>9. CASE OpenIf
  BY <1>2, <1>9 DEF OpenIf
<1>10. CASE OpenCase
  BY <1>3, <1>10 DEF OpenCase
<1>11. CASE OpenList
  BY <1>3, <1>11 DEF OpenList
<1>12. CASE OpenPipeline
  BY <1>3, <1>12 DEF OpenPipeline
<1> QED BY <1>4, <1>5, <1>6, <1>7, <1>8, <1>9, <1>10, <1>11, <1>12 DEF Opens

LEMMA ReturnsRun ==
  ASSUME Returns
  PROVE  ran' = ran \/ ran' = Append(ran, Mark)
<1>1. ASSUME NEW cmds, NEW nest, Sequence(cmds, nest) PROVE ran' = ran
  BY <1>1 DEF Sequence
<1>2. ASSUME NEW cmds, NEW nest, ConditionSequence(cmds, nest) PROVE ran' = ran
  BY <1>2 DEF ConditionSequence
<1>3. ASSUME NEW nest, NEW c, Turns(nest, c) PROVE ran' = ran
  BY <1>3 DEF Turns
<1>4. ASSUME NEW i, NEW acc, BodyBegins(i, acc) PROVE ran' = Append(ran, Mark)
  BY <1>4 DEF BodyBegins
<1>5. CASE LeaveSequence \/ EndSequence \/ GoOnSequence
  BY <1>3, <1>5 DEF LeaveSequence, EndSequence, GoOnSequence
<1>6. CASE LeaveScript \/ EndScript \/ GoOnScript
  BY <1>3, <1>6 DEF LeaveScript, EndScript, GoOnScript
<1>7. CASE EndSubshell \/ EndCall \/ LeaveLoop \/ BreakLoop
  BY <1>3, <1>7 DEF EndSubshell, EndCall, LeaveLoop, BreakLoop
<1>8. CASE NextWord
  BY <1>3, <1>4, <1>8 DEF NextWord
<1>9. CASE TestLoop
  BY <1>2, <1>9 DEF TestLoop
<1>10. CASE DecideLoop
  BY <1>3, <1>4, <1>10 DEF DecideLoop
<1>11. CASE DecideIf
  BY <1>1, <1>2, <1>11 DEF DecideIf
<1>12. CASE EndIf \/ EndCase
  BY <1>3, <1>12 DEF EndIf, EndCase
<1>13. CASE NextArm
  BY <1>1, <1>3, <1>13 DEF NextArm
<1>14. CASE LeaveList \/ EndList \/ NextInList
  BY <1>3, <1>14 DEF LeaveList, EndList, NextInList
<1>15. CASE NextStage \/ EndStages \/ EndNot
  BY <1>3, <1>15 DEF NextStage, EndStages, EndNot
<1> QED BY <1>5, <1>6, <1>7, <1>8, <1>9, <1>10, <1>11, <1>12, <1>13, <1>14, <1>15 DEF Returns

LEMMA RanGrows ==
  ASSUME FlowInv, FlowNext
  PROVE  IsSequence(ran')
<1>1. IsSequence(ran)
  BY DEF FlowInv
<1>2. ran' = ran \/ \E x : ran' = Append(ran, x)
  <2>1. CASE RunSimple
    BY <2>1 DEF RunSimple
  <2>2. CASE Opens
    BY <2>2, OpensRun
  <2>3. CASE Returns
    BY <2>3, ReturnsRun
  <2>4. CASE ScriptHasEnded
    BY <2>4 DEF ScriptHasEnded, flowVars
  <2> QED BY <2>1, <2>2, <2>3, <2>4 DEF FlowNext
<1>3. ASSUME NEW x PROVE IsSequence(Append(ran, x))
  <2>1. Append(ran, x) = ran \o <<x>>
    BY <1>1, Appending
  <2> QED BY <1>1, <2>1, OneItem, Joining
<1> QED BY <1>1, <1>2, <1>3

(* Every step of the interpreter is a step of the shell, or none.          *)
LEMMA OpensKeep ==
  ASSUME FlowInv, Opens
  PROVE  FlowsReachTheirTargets' /\ Simulated
BY OpenGroupKeeps, OpenSubshellKeeps, OpenCallKeeps, OpenSourceKeeps, OpenLoopKeeps, OpenIfKeeps,
   OpenCaseKeeps, OpenListKeeps, OpenPipelineKeeps DEF Opens

LEMMA ReturnsKeep ==
  ASSUME FlowInv, Returns
  PROVE  FlowsReachTheirTargets' /\ Simulated
BY LeaveSequenceKeeps, EndSequenceKeeps, GoOnSequenceKeeps, LeaveScriptKeeps, EndScriptKeeps,
   GoOnScriptKeeps, EndSubshellKeeps, EndCallKeeps, LeaveLoopKeeps, BreakLoopKeeps, NextWordKeeps,
   TestLoopKeeps, DecideLoopKeeps, DecideIfKeeps, EndIfKeeps, EndCaseKeeps, NextArmKeeps,
   LeaveListKeeps, EndListKeeps, NextInListKeeps, NextStageKeeps, EndStagesKeeps, EndNotKeeps
   DEF Returns

LEMMA StepKeeps ==
  ASSUME FlowInv, [FlowNext]_flowVars
  PROVE  FlowInv' /\ Simulated
<1>1. CASE UNCHANGED flowVars
  BY <1>1, NothingMoves
<1>2. CASE FlowNext
  <2>1. IsSequence(ran')
    BY <1>2, RanGrows
  <2>2. CASE RunSimple
    BY <2>1, <2>2, RunSimpleKeeps DEF FlowInv
  <2>3. CASE Opens
    BY <2>1, <2>3, OpensKeep DEF FlowInv
  <2>4. CASE Returns
    BY <2>1, <2>4, ReturnsKeep DEF FlowInv
  <2>5. CASE ScriptHasEnded
    BY <2>5, NothingMoves DEF ScriptHasEnded
  <2> QED BY <1>2, <2>2, <2>3, <2>4, <2>5 DEF FlowNext
<1> QED BY <1>1, <1>2

(* The start of a script.                                                  *)
LEMMA StartFits ==
  ASSUME FlowInit
  PROVE  FlowInv /\ Shell!Init
<1>1. PICK e \in BOOLEAN : e = errexit
  BY DEF FlowInit
<1>2. PICK cmds \in Scripts[e] :
        /\ calls = <<Activation([kind |-> "script", command |-> Head(cmds), rest |-> Tail(cmds)],
                           <<>>, Outermost(e))>>
        /\ control = Run(Head(cmds), 0)
  BY <1>1 DEF FlowInit
<1>3. cmds # <<>> /\ LinesMayStand(cmds, Outermost(e))
  BY <1>1, <1>2, ScriptsAssumption
<1>4. PICK first, later, s : first = Head(cmds) /\ later = Tail(cmds) /\ s = Outermost(e)
  OBVIOUS
<1>5. /\ IsSequence(cmds) /\ MayStand(first, LineScope(s, first)) /\ LinesMayStand(later, s)
  BY <1>3, <1>4, FirstLineStands
<1>6. cmds = <<first>> \o later /\ IsSequence(later)
  BY <1>3, <1>4, <1>5, Split
<1>7. s \in Scope /\ s.strict = e /\ ~s.tested
  BY <1>4, OutermostIs
<1>8. PICK call : call = [kind |-> "script", command |-> first, rest |-> later]
  OBVIOUS
<1>9. /\ call.kind = "script" /\ call.command = first /\ call.rest = later
      /\ call = [kind |-> call.kind, command |-> call.command, rest |-> call.rest]
  BY <1>8
<1>10. CallFits(call, s)
  BY <1>5, <1>7, <1>9 DEF CallFits, LinesFit
<1>11. PICK none : none = <<>>
  OBVIOUS
<1>12. PICK f : f = Activation(call, none, s)
  OBVIOUS
<1>13. f.call = call /\ f.below = none /\ f.scope = s /\ f = Activation(f.call, f.below, f.scope)
  BY <1>12 DEF Activation
<1>14. ActivationFits(f, e)
  <2>1. IsSequence(none) /\ ~Tested(none)
    BY <1>11, Nothing, NothingTested
  <2> QED BY <1>7, <1>10, <1>13, <2>1 DEF ActivationFits
<1>15. OutermostFits(f, e)
  BY <1>4, <1>9, <1>11, <1>13 DEF OutermostFits
<1>16. NestFits(<<f>>, e)
  <2>1. NestFits(none, e)
    BY <1>11, Nothing DEF NestFits
  <2>2. NestFits(<<f>> \o none, e)
    BY <1>11, <1>14, <1>15, <2>1, NestGrows
  <2> QED BY <1>11, <2>2, OneItem, NothingJoined
<1>17. calls = <<f>> /\ control = Run(first, 0)
  BY <1>2, <1>4, <1>8, <1>11, <1>12
<1>18. /\ calls # <<>> /\ Head(calls).call = call
       /\ StackOf(calls) = later /\ ScopeIn(calls) = LineScope(s, first)
  <2>1. calls # <<>> /\ Head(calls) = f
    BY <1>17
  <2>2. StackOf(calls) = Pending(call) \o none /\ ScopeIn(calls) = Inside(call, s)
    BY <1>13, <2>1 DEF StackOf, ScopeIn
  <2>3. Pending(call) = later /\ Inside(call, s) = LineScope(s, first)
    BY <1>9, PendingForms, InsideForms
  <2> QED BY <1>6, <1>11, <1>13, <2>1, <2>2, <2>3, NothingJoined
<1>19. CommandFits(first, Head(calls).call, ScopeIn(calls))
  BY <1>5, <1>9, <1>18 DEF CommandFits
<1>20. /\ ControlFits(control, calls) /\ InShell(control, calls) = <<first>> \o StackOf(calls)
       /\ StatusOf(control) = 0
  BY <1>17, <1>18, <1>19, Commanding
<1>21. FlowInv
  <2>1. NestFits(calls, errexit)
    BY <1>1, <1>16, <1>17
  <2>2. ran = <<>>
    BY DEF FlowInit
  <2> QED BY <1>20, <2>1, <2>2, Nothing DEF FlowInv, FlowsReachTheirTargets
<1>22. ShellStack = cmds /\ ShellStatus = 0
  <2>1. ShellStack = InShell(control, calls) /\ ShellStatus = StatusOf(control)
    BY DEF ShellStack, ShellStatus, InShell, StatusOf, Command
  <2> QED BY <1>6, <1>18, <1>20, <2>1
<1>23. Shell!Init
  BY <1>1, <1>2, <1>22 DEF Shell!Init, FlowInit
<1> QED BY <1>21, <1>23

(* Whatever is nested in what, no flow comes where it has no target, and   *)
(* no failure is forgotten or counted twice.                               *)
THEOREM FlowsAlwaysReachTheirTargets == FlowSpec => []FlowsReachTheirTargets
<1>1. FlowInit => FlowInv
  BY StartFits
<1>2. FlowInv /\ [FlowNext]_flowVars => FlowInv'
  BY StepKeeps
<1>3. FlowInv => FlowsReachTheirTargets
  BY DEF FlowInv
<1> QED BY <1>1, <1>2, <1>3, PTL DEF FlowSpec

(* The interpreter implements the shell: every step is one of the shell,   *)
(* or changes nothing that the shell has.                                  *)
THEOREM InterpreterIsAShell == FlowSpec => ImplementsShell
<1>1. FlowInit => FlowInv /\ Shell!Init
  BY StartFits
<1>2. FlowInv /\ [FlowNext]_flowVars => FlowInv'
  BY StepKeeps
<1>3. FlowInv /\ [FlowNext]_flowVars => [Shell!Next]_(Shell!shellVars)
  BY StepKeeps DEF Simulated
<1> QED BY <1>1, <1>2, <1>3, PTL DEF FlowSpec, ImplementsShell, Shell!Spec

----------------------------------------------------------------------------
(* How the calls share the interpreter.                                    *)

Holding == {"running", "builtin", "promised", "awaiting", "emitted", "output", "returned",
            "refused"}
Outputs == {"output", "returned", "refused"}

Types ==
  /\ phase \in [Calls -> Phases] /\ queue \in Seq(Calls)
  /\ holder \in Calls \union {None}
  /\ cancelled \in BOOLEAN /\ kept \in BOOLEAN
  /\ failed \in [Calls -> BOOLEAN] /\ requested \in [Calls -> BOOLEAN]
  /\ triggered \in [Calls -> BOOLEAN] /\ left \in [Calls -> 0 .. MaxCallbacks]

\* The lock's holder is the one call that runs.
HolderInv == \A c \in Calls : holder = c <=> phase[c] \in Holding

\* The queue holds the promises that are pending, each once, and all but its head wait.
QueueInv ==
  /\ \A c \in Calls : Async(c) /\ phase[c] # "new" => \E i \in 1 .. Len(queue) : queue[i] = c
  /\ \A i \in 1 .. Len(queue) : phase[queue[i]] # "new" /\ Async(queue[i])
  /\ \A i \in 1 .. Len(queue) : i > 1 => phase[queue[i]] = "queued"
  /\ \A i, j \in 1 .. Len(queue) : queue[i] = queue[j] => i = j
  /\ \A c \in Calls : phase[c] \in {"queued", "spawned", "settled"} => Async(c)

\* What a call that blocks the loop may be doing, and that no other does.
Blocked(c) == c \in Calls /\ ~Async(c) /\ \A d \in Calls : ~Async(d) /\ phase[d] # "new" => d = c
NoneBlocks == \A d \in Calls : ~Async(d) => phase[d] = "new"

\* The stack of the event loop: idle, a blocking call, its onOutput, a callback of another
\* thread, whose script may have timed out, or a blocking call within a builtin's callback,
\* and its onOutput.
Late(d) == Async(d) /\ phase[d] \in {"builtin", "settled"}
InSync(c) == Blocked(c) /\ phase[c] \in {"waiting", "running", "returned", "refused"}
AtRest == loop = <<>> /\ NoneBlocks
InCall(c) == loop = <<Frame("call", c)>> /\ InSync(c)
InOutput(c) == /\ loop = <<Frame("call", c), Frame("callback", c)>> /\ Blocked(c)
               /\ phase[c] = "output"
InCallback(d) == /\ loop = <<Frame("callback", d)>> /\ NoneBlocks
                 /\ Async(d) /\ phase[d] \in {"builtin", "settled", "output"}
InBoth(d, c) == loop = <<Frame("callback", d), Frame("call", c)>> /\ InSync(c) /\ Late(d)
InThree(d, c) == /\ loop = <<Frame("callback", d), Frame("call", c), Frame("callback", c)>>
                 /\ Blocked(c) /\ phase[c] = "output" /\ Late(d)
LoopShape ==
  \/ AtRest
  \/ \E c \in Calls : InCall(c) \/ InOutput(c) \/ InCallback(c)
  \/ \E c, d \in Calls : InBoth(d, c) \/ InThree(d, c)

\* Who calls back.
CallersInv ==
  \A c \in Calls : /\ left[c] > 0 => Scripted(c)
                   /\ phase[c] \in {"builtin", "promised", "awaiting", "emitted"} => Async(c)
                   /\ phase[c] \in Outputs \/ phase[c] = "emitted" => Streaming(c)

LoopInv == LoopShape /\ CallersInv

\* Each depth is what it counts.
DepthInv ==
  /\ outputDepth = IF \E c \in Calls : phase[c] \in Outputs THEN 1 ELSE 0
  /\ syncDepth = IF \E c \in Calls : BlocksLoop(c) /\ phase[c] # "new" THEN 1 ELSE 0

TypeInv == Types /\ HolderInv /\ QueueInv /\ LoopInv /\ DepthInv

USE DEF Holding, Outputs

LEMMA InitInv == Init => TypeInv
<1> SUFFICES ASSUME Init PROVE TypeInv
  OBVIOUS
<1> USE CallsAssumption DEF Init
<1>1. Types
  <2>1. phase \in [Calls -> Phases]
    BY DEF Phases
  <2>2. left \in [Calls -> 0 .. MaxCallbacks]
    OBVIOUS
  <2>3. /\ failed \in [Calls -> BOOLEAN] /\ requested \in [Calls -> BOOLEAN]
        /\ triggered \in [Calls -> BOOLEAN]
    BY Zenon
  <2>4. queue \in Seq(Calls) /\ holder = None
    OBVIOUS
  <2>5. cancelled \in BOOLEAN /\ kept \in BOOLEAN
    BY Zenon
  <2> QED BY <2>1, <2>2, <2>3, <2>4, <2>5, Zenon DEF Types
<1>2. HolderInv
  BY DEF HolderInv
<1>3. QueueInv
  BY DEF QueueInv
<1>4. LoopInv
  BY DEF LoopInv, LoopShape, AtRest, CallersInv, NoneBlocks
<1>5. DepthInv
  BY DEF DepthInv
<1> QED BY <1>1, <1>2, <1>3, <1>4, <1>5 DEF TypeInv

LEMMA KindsAreDisjoint ==
  ASSUME NEW c \in Calls
  PROVE  /\ BlocksLoop(c) => ~Async(c) /\ Scripted(c)
         /\ ~Async(c) /\ Scripted(c) => BlocksLoop(c)
         /\ Async(c) => Scripted(c)
         /\ Streaming(c) => Scripted(c)
BY CallsAssumption DEF BlocksLoop, Async, Scripted, Streaming, Kinds

\* A call ends as it runs, or as it waits for a builtin.
CallEnds(c) == Ends(c) /\ phase[c] \in {"running", "builtin", "promised", "awaiting"}

LEMMA EndingSteps ==
  ASSUME NEW c, Finishes(c) \/ Resets(c) \/ TimesOut(c)
  PROVE  CallEnds(c)
BY DEF Finishes, Resets, TimesOut, CallEnds

\* The tail of the queue once its head is done.
LEMMA TailTyped ==
  ASSUME queue \in Seq(Calls), queue # <<>>
  PROVE  /\ Tail(queue) \in Seq(Calls)
         /\ Len(Tail(queue)) = Len(queue) - 1
         /\ \A i \in 1 .. Len(queue) - 1 : Tail(queue)[i] = queue[i + 1]
         /\ Head(queue) = queue[1]
         /\ Len(queue) \in Nat /\ Len(queue) >= 1
OBVIOUS

\* A promise that has left the queue's waiting room is its head.
LEMMA HeadOfQueue ==
  ASSUME Types, QueueInv, NEW c \in Calls, Async(c), phase[c] \notin {"new", "queued"}
  PROVE  queue # <<>> /\ queue[1] = c
<1>1. PICK i \in 1 .. Len(queue) : queue[i] = c
  BY DEF QueueInv
<1>2. Len(queue) \in Nat
  BY DEF Types
<1>3. ~(i > 1)
  BY <1>1 DEF QueueInv
<1>4. i = 1
  BY <1>2, <1>3
<1> QED BY <1>1, <1>2, <1>4

LEMMA TypesNext ==
  ASSUME TypeInv, [Next]_vars
  PROVE  Types'
<1> USE CallsAssumption DEF TypeInv, Types
<1>1. CASE UNCHANGED vars
  BY <1>1 DEF vars
<1>2. CASE Cancel \/ ClearCancel
  <2>1. kept' \in BOOLEAN
    BY <1>2, Zenon DEF Cancel, ClearCancel
  <2> QED BY <1>2, <2>1 DEF Cancel, ClearCancel, locals
<1>3. ASSUME NEW c \in Calls, AsyncCall(c) PROVE Types'
  <2>1. Append(queue, c) \in Seq(Calls)
    OBVIOUS
  <2> QED BY <1>3, <2>1 DEF AsyncCall, flags, locals, Phases
<1>4. ASSUME NEW c \in Calls, BlockingCall(c) PROVE Types'
  BY <1>4 DEF BlockingCall, flags, locals, Phases
<1>5. ASSUME NEW c \in Calls, Abort(c) PROVE Types'
  BY <1>5 DEF Abort, flags, locals
<1>6. ASSUME NEW c \in Calls, Enters(c) PROVE Types'
  <2>1. Async(c) /\ phase[c] # "new"
    BY <1>6 DEF Enters, QueueInv
  <2>2. \E i \in 1 .. Len(queue) : queue[i] = c
    BY <2>1 DEF QueueInv
  <2>3. queue # <<>>
    BY <2>2
  <2>4. Tail(queue) \in Seq(Calls)
    BY <2>3, TailTyped
  <2> QED BY <1>6, <2>4 DEF Enters, flags, locals, Phases
<1>7. ASSUME NEW c \in Calls, Polled(c) PROVE Types'
  BY <1>7 DEF Polled, flags, locals, Phases
<1>8. ASSUME NEW c \in Calls, Locks(c) PROVE Types'
  BY <1>8 DEF Locks, flags, Phases
<1>9. ASSUME NEW c \in Calls, CallsBuiltin(c) PROVE Types'
  BY <1>9 DEF CallsBuiltin, flags, Phases
<1>10. ASSUME NEW c \in Calls, Emits(c) PROVE Types'
  <2>1. /\ UNCHANGED <<queue, holder, cancelled, kept, failed, requested, triggered>>
        /\ left' = [left EXCEPT ![c] = @ - 1] /\ left[c] > 0
        /\ \E at \in {"emitted", "output"} : phase' = [phase EXCEPT ![c] = at]
    BY <1>10 DEF Emits, flags
  <2> QED BY <2>1 DEF Phases
<1>11. ASSUME NEW c \in Calls, Delivers(c) PROVE Types'
  BY <1>11 DEF Delivers, flags, locals
<1>12. ASSUME NEW c \in Calls, CallbackReturns(c) \/ Dispatches(c) PROVE Types'
  BY <1>12 DEF CallbackReturns, Dispatches, flags, locals, Phases
<1>13. ASSUME NEW c \in Calls, Resolves(c) PROVE Types'
  BY <1>13 DEF Resolves, flags, locals, Phases
<1>14. ASSUME NEW c \in Calls, Receives(c) PROVE Types'
  BY <1>14 DEF Receives, Phases, FailureRequests
<1>15. ASSUME NEW c \in Calls, Ends(c), cancelled' \in BOOLEAN, kept' \in BOOLEAN PROVE Types'
  BY <1>15 DEF Ends, Phases
<1>16. ASSUME NEW c \in Calls, Finishes(c) \/ Resets(c) \/ TimesOut(c) PROVE Types'
  BY <1>15, <1>16 DEF Finishes, Resets, TimesOut
<1>17. ASSUME NEW c \in Calls, Settles(c) PROVE Types'
  <2>1. queue # <<>>
    BY <1>17, HeadOfQueue DEF Settles, QueueInv
  <2>2. Tail(queue) \in Seq(Calls)
    BY <2>1, TailTyped
  <2> QED BY <1>17, <2>2 DEF Settles, flags, locals, Phases
<1> QED BY <1>1, <1>2, <1>3, <1>4, <1>5, <1>6, <1>7, <1>8, <1>9, <1>10, <1>11, <1>12, <1>13,
           <1>14, <1>16, <1>17 DEF Next, Goes

LEMMA HolderNext ==
  ASSUME TypeInv, [Next]_vars
  PROVE  HolderInv'
<1> USE CallsAssumption DEF TypeInv, Types, HolderInv
<1>1. CASE UNCHANGED vars
  BY <1>1 DEF vars
<1>2. CASE Cancel \/ ClearCancel
  BY <1>2 DEF Cancel, ClearCancel
<1>3. ASSUME NEW c \in Calls, AsyncCall(c) \/ BlockingCall(c) \/ Abort(c) PROVE HolderInv'
  BY <1>3 DEF AsyncCall, BlockingCall, Abort
<1>4. ASSUME NEW c \in Calls, Enters(c) \/ Polled(c) \/ Delivers(c) \/ Settles(c)
      PROVE HolderInv'
  BY <1>4 DEF Enters, Polled, Delivers, Settles
<1>5. ASSUME NEW c \in Calls, Locks(c) PROVE HolderInv'
  BY <1>5 DEF Locks
<1>6. ASSUME NEW c \in Calls,
             CallsBuiltin(c) \/ Emits(c) \/ Dispatches(c) \/ Resolves(c) \/ Receives(c)
      PROVE HolderInv'
  BY <1>6 DEF CallsBuiltin, Emits, Dispatches, Resolves, Receives
<1>7. ASSUME NEW c \in Calls, CallbackReturns(c) PROVE HolderInv'
  BY <1>7 DEF CallbackReturns
<1>8. ASSUME NEW c \in Calls, Finishes(c) \/ Resets(c) \/ TimesOut(c) PROVE HolderInv'
  <2>1. /\ holder = c /\ holder' = None
        /\ \E at \in {"settled", "new"} : phase' = [phase EXCEPT ![c] = at]
    BY <1>8, EndingSteps, Zenon DEF CallEnds, Ends
  <2> QED BY <2>1
<1> QED BY <1>1, <1>2, <1>3, <1>4, <1>5, <1>6, <1>7, <1>8 DEF Next, Goes

\* A blocking call begins only when none is open: its caller would be that call's onOutput,
\* and is rejected.
LEMMA BlocksOnlyWhenNoneDoes ==
  ASSUME TypeInv, NEW c \in Calls, BlockingCall(c)
  PROVE  /\ NoneBlocks
         /\ \/ loop = <<>>
            \/ \E d \in Calls : /\ loop = <<Frame("callback", d)>>
                                /\ Late(d)
<1>1. \A d \in Calls : phase[d] \notin Outputs
  BY DEF BlockingCall, RejectsReentry, TypeInv, DepthInv
<1>2. loop # <<>> => Top.at = "callback"
  BY DEF BlockingCall, HostRuns
<1>3. ASSUME NEW d \in Calls, loop = <<Frame("call", d)>> PROVE FALSE
  BY <1>2, <1>3 DEF Frame, Top
<1>4. ASSUME NEW d \in Calls, NEW e \in Calls, loop = <<Frame("callback", e), Frame("call", d)>>
      PROVE FALSE
  BY <1>2, <1>4 DEF Frame, Top
<1>5. ASSUME NEW d \in Calls, NEW e \in Calls,
             InCallback(d) \/ InOutput(d) \/ InThree(e, d) \/ InBoth(e, d) \/ InCall(d)
      PROVE  InCallback(d)
  BY <1>1, <1>3, <1>4, <1>5 DEF InCall, InOutput, InThree, InBoth
<1>6. \A d \in Calls : InCallback(d) => Late(d)
  BY <1>1 DEF InCallback, Late
<1> QED BY <1>5, <1>6 DEF TypeInv, LoopInv, LoopShape, AtRest, InCallback

\* No two blocking calls are open.
LEMMA OneBlocks ==
  ASSUME TypeInv, NEW c \in Calls, ~Async(c), phase[c] # "new"
  PROVE  /\ Blocked(c)
         /\ InCall(c) \/ InOutput(c) \/ \E d \in Calls : InBoth(d, c) \/ InThree(d, c)
<1>1. ~NoneBlocks
  BY DEF NoneBlocks
<1>2. \A d \in Calls : Blocked(d) => d = c
  BY DEF Blocked
<1> QED BY <1>1, <1>2 DEF TypeInv, LoopInv, LoopShape, AtRest, InCall, InOutput, InCallback,
           InBoth, InThree, InSync

\* A blocking call that is not in its onOutput is on top of the loop.
LEMMA OnTop ==
  ASSUME TypeInv, NEW c \in Calls, ~Async(c), phase[c] \notin {"new", "output"}
  PROVE  InCall(c) \/ \E d \in Calls : InBoth(d, c)
BY OneBlocks DEF InOutput, InThree

LEMMA DepthNext ==
  ASSUME TypeInv, [Next]_vars
  PROVE  DepthInv'
<1> USE CallsAssumption, KindsAreDisjoint DEF TypeInv, Types, DepthInv, HolderInv
<1>1. CASE UNCHANGED vars
  BY <1>1 DEF vars
<1>2. CASE Cancel \/ ClearCancel
  BY <1>2 DEF Cancel, ClearCancel, depths
<1>3. ASSUME NEW c \in Calls, AsyncCall(c) \/ Abort(c) PROVE DepthInv'
  BY <1>3 DEF AsyncCall, Abort, depths
<1>4. ASSUME NEW c \in Calls, BlockingCall(c) PROVE DepthInv'
  <2>1. \A d \in Calls : ~(BlocksLoop(d) /\ phase[d] # "new")
    BY <1>4, BlocksOnlyWhenNoneDoes DEF NoneBlocks
  <2> QED BY <1>4, <2>1 DEF BlockingCall, EntersSync
<1>5. ASSUME NEW c \in Calls, Enters(c) \/ Polled(c) \/ Settles(c) PROVE DepthInv'
  BY <1>5 DEF Enters, Polled, Settles, depths, QueueInv
<1>6. ASSUME NEW c \in Calls, Delivers(c) \/ Locks(c) \/ CallsBuiltin(c) \/ Resolves(c)
      PROVE DepthInv'
  BY <1>6 DEF Delivers, Locks, CallsBuiltin, Resolves, depths, LoopInv, CallersInv
<1>7. ASSUME NEW c \in Calls, Emits(c) \/ Dispatches(c) PROVE DepthInv'
  BY <1>7 DEF Emits, Dispatches, LoopInv, CallersInv
<1>8. ASSUME NEW c \in Calls, CallbackReturns(c) PROVE DepthInv'
  BY <1>8 DEF CallbackReturns, depths
<1>9. ASSUME NEW c \in Calls, Receives(c) PROVE DepthInv'
  BY <1>9 DEF Receives, LeavesOutput
<1>10. ASSUME NEW c \in Calls, CallEnds(c) PROVE DepthInv'
  <2>1. ~Async(c) => \A d \in Calls : BlocksLoop(d) /\ phase[d] # "new" => d = c
    BY <1>10, OneBlocks DEF CallEnds, Blocked
  <2> QED BY <1>10, <2>1 DEF CallEnds, Ends, LeavesSync
<1> QED BY <1>1, <1>2, <1>3, <1>4, <1>5, <1>6, <1>7, <1>8, <1>9, <1>10,
           EndingSteps
        DEF Next, Goes

\* A step that leaves the queue and each call's place in it leaves QueueInv.
LEMMA QueueKept ==
  ASSUME TypeInv, UNCHANGED queue,
         \A c \in Calls : /\ phase'[c] = "new" <=> phase[c] = "new"
                          /\ phase[c] = "queued" => phase'[c] = "queued"
                          /\ phase'[c] \in {"queued", "spawned", "settled"} => Async(c)
  PROVE  QueueInv'
<1>1. \A i \in 1 .. Len(queue) : queue[i] \in Calls
  BY DEF TypeInv, Types
<1> QED BY <1>1 DEF TypeInv, QueueInv, Async

\* A step of a promise at the head of the queue.
LEMMA QueueSame ==
  ASSUME TypeInv, UNCHANGED queue, NEW c \in Calls, Async(c),
         \A d \in Calls : d # c => phase'[d] = phase[d],
         \A d \in Calls : phase'[d] # "new" <=> phase[d] # "new",
         \A j \in 1 .. Len(queue) : queue[j] \in Calls /\ (j > 1 => queue[j] # c)
  PROVE  QueueInv'
<1>1. (\A d \in Calls : Async(d) /\ phase[d] # "new" =>
         \E i \in 1 .. Len(queue) : queue[i] = d)'
  BY DEF TypeInv, QueueInv
<1>2. (\A i \in 1 .. Len(queue) : phase[queue[i]] # "new" /\ Async(queue[i]))'
  BY DEF TypeInv, QueueInv
<1>3. (\A i \in 1 .. Len(queue) : i > 1 => phase[queue[i]] = "queued")'
  BY DEF TypeInv, QueueInv
<1>4. (\A i, j \in 1 .. Len(queue) : queue[i] = queue[j] => i = j)'
  BY DEF TypeInv, QueueInv
<1>5. (\A d \in Calls : phase[d] \in {"queued", "spawned", "settled"} => Async(d))'
  BY DEF TypeInv, QueueInv
<1> QED BY <1>1, <1>2, <1>3, <1>4, <1>5, Zenon DEF QueueInv

LEMMA QueueNext ==
  ASSUME TypeInv, [Next]_vars
  PROVE  QueueInv'
<1> USE CallsAssumption
<1>1. CASE UNCHANGED vars
  BY <1>1, QueueKept DEF vars, TypeInv, QueueInv
<1>2. CASE Cancel \/ ClearCancel
  BY <1>2, QueueKept DEF Cancel, ClearCancel, TypeInv, QueueInv
<1>3. ASSUME NEW c \in Calls, AsyncCall(c) PROVE QueueInv'
  <2>1. /\ Len(queue') = Len(queue) + 1
        /\ \A i \in 1 .. Len(queue) : queue'[i] = queue[i] /\ queue[i] \in Calls
        /\ queue'[Len(queue) + 1] = c
        /\ Len(queue) \in Nat
    BY <1>3 DEF AsyncCall, TypeInv, Types
  <2>2. \A i \in 1 .. Len(queue) : queue[i] # c
    BY <1>3 DEF AsyncCall, TypeInv, QueueInv
  <2>3. /\ \A d \in Calls : phase'[d] = IF d = c THEN "queued" ELSE phase[d]
        /\ Async(c)
    BY <1>3 DEF AsyncCall, TypeInv, Types
  <2>4. \A d \in Calls : Async(d) /\ phase'[d] # "new" =>
          \E i \in 1 .. Len(queue') : queue'[i] = d
    BY <2>1, <2>3 DEF TypeInv, QueueInv
  <2>5. \A i \in 1 .. Len(queue') : /\ phase'[queue'[i]] # "new" /\ Async(queue'[i])
                                    /\ i > 1 => phase'[queue'[i]] = "queued"
    BY <2>1, <2>3 DEF TypeInv, QueueInv
  <2>6. \A i, j \in 1 .. Len(queue') : queue'[i] = queue'[j] => i = j
    BY <2>1, <2>2 DEF TypeInv, QueueInv
  <2>7. \A d \in Calls : phase'[d] \in {"queued", "spawned", "settled"} => Async(d)
    BY <2>3 DEF TypeInv, QueueInv
  <2>8. (\A d \in Calls : Async(d) /\ phase[d] # "new" =>
           \E i \in 1 .. Len(queue) : queue[i] = d)'
    BY <2>4
  <2>9. (\A i \in 1 .. Len(queue) : phase[queue[i]] # "new" /\ Async(queue[i]))'
    BY <2>5
  <2>10. (\A i \in 1 .. Len(queue) : i > 1 => phase[queue[i]] = "queued")'
    BY <2>5
  <2> QED BY <2>6, <2>7, <2>8, <2>9, <2>10, Zenon DEF QueueInv
<1>4. ASSUME NEW c \in Calls, BlockingCall(c) PROVE QueueInv'
  <2>1. /\ \A d \in Calls : phase'[d] = IF d = c THEN "waiting" ELSE phase[d]
        /\ UNCHANGED queue /\ ~Async(c)
    BY <1>4 DEF BlockingCall, TypeInv, Types
  <2>2. \A i \in 1 .. Len(queue) : queue[i] \in Calls
    BY DEF TypeInv, Types
  <2> QED BY <2>1, <2>2 DEF TypeInv, QueueInv, Async
<1>5. ASSUME NEW c \in Calls, Abort(c) \/ Delivers(c) PROVE QueueInv'
  BY <1>5, QueueKept DEF Abort, Delivers, TypeInv, QueueInv
<1>6. ASSUME NEW c \in Calls, queue # <<>>, queue[1] = c, queue' = Tail(queue), Async(c),
             phase' = [phase EXCEPT ![c] = "new"]
      PROVE  QueueInv'
  <2>1. /\ Len(queue') = Len(queue) - 1
        /\ \A i \in 1 .. Len(queue') : queue'[i] = queue[i + 1]
        /\ Len(queue) \in Nat /\ Len(queue) >= 1
        /\ \A i \in 1 .. Len(queue) : queue[i] \in Calls
    BY <1>6, TailTyped DEF TypeInv, Types
  <2>2. \A d \in Calls : phase'[d] = IF d = c THEN "new" ELSE phase[d]
    BY <1>6 DEF TypeInv, Types
  <2>3. \A i \in 1 .. Len(queue') : queue'[i] # c /\ phase'[queue'[i]] = "queued"
    BY <1>6, <2>1, <2>2 DEF TypeInv, QueueInv
  <2>4. ASSUME NEW d \in Calls, Async(d), phase'[d] # "new"
        PROVE  \E i \in 1 .. Len(queue') : queue'[i] = d
    <3>1. PICK j \in 1 .. Len(queue) : queue[j] = d
      BY <2>2, <2>4 DEF TypeInv, QueueInv
    <3>2. j # 1
      BY <1>6, <2>2, <2>4, <3>1
    <3>3. j - 1 \in 1 .. Len(queue') /\ queue'[j - 1] = queue[j - 1 + 1] /\ j - 1 + 1 = j
      BY <2>1, <3>1, <3>2
    <3> QED BY <3>1, <3>3
  <2>5. \A i \in 1 .. Len(queue') : Async(queue'[i])
    BY <2>1 DEF TypeInv, QueueInv
  <2>6. \A i, j \in 1 .. Len(queue') : queue'[i] = queue'[j] => i = j
    <3> SUFFICES ASSUME NEW i \in 1 .. Len(queue'), NEW j \in 1 .. Len(queue'),
                        queue'[i] = queue'[j]
                 PROVE  i = j
      OBVIOUS
    <3>1. /\ i + 1 \in 1 .. Len(queue) /\ j + 1 \in 1 .. Len(queue)
          /\ queue[i + 1] = queue[j + 1]
      BY <2>1
    <3>2. i + 1 = j + 1
      BY <3>1 DEF TypeInv, QueueInv
    <3> QED BY <3>2
  <2>7. \A d \in Calls : phase'[d] \in {"queued", "spawned", "settled"} => Async(d)
    BY <2>2 DEF TypeInv, QueueInv
  <2>8. (\A d \in Calls : Async(d) /\ phase[d] # "new" =>
           \E i \in 1 .. Len(queue) : queue[i] = d)'
    BY <2>4
  <2>9. (\A i \in 1 .. Len(queue) : phase[queue[i]] # "new" /\ Async(queue[i]))'
    BY <2>3, <2>5
  <2>10. (\A i \in 1 .. Len(queue) : i > 1 => phase[queue[i]] = "queued")'
    BY <2>3
  <2> QED BY <2>6, <2>7, <2>8, <2>9, <2>10, Zenon DEF QueueInv
<1>7. ASSUME NEW c \in Calls, Settles(c) PROVE QueueInv'
  <2>1. Async(c)
    BY <1>7 DEF Settles, TypeInv, QueueInv
  <2> QED BY <1>6, <1>7, <2>1, HeadOfQueue DEF Settles, TypeInv
<1>8. ASSUME NEW c \in Calls, Enters(c) PROVE QueueInv'
  <2>1. Async(c)
    BY <1>8 DEF Enters, TypeInv, QueueInv
  <2>2. PICK i \in 1 .. Len(queue) : queue[i] = c
    BY <1>8, <2>1 DEF Enters, TypeInv, QueueInv
  <2>3. queue # <<>>
    BY <2>2
  <2>4. queue[1] = c
    BY <1>8, <2>3 DEF Enters, TypeInv, Types
  <2>5. CASE triggered[c]
    BY <1>6, <1>8, <2>1, <2>3, <2>4, <2>5 DEF Enters
  <2>6. CASE ~triggered[c]
    <3>1. /\ UNCHANGED queue
          /\ \A d \in Calls : d # c => phase'[d] = phase[d]
          /\ phase'[c] \in {"settled", "spawned", "waiting"}
      BY <1>8, <2>6 DEF Enters, TypeInv, Types
    <3>2. \A j \in 1 .. Len(queue) : queue[j] \in Calls /\ (j > 1 => queue[j] # c)
      <4>1. queue \in Seq(Calls) /\ Len(queue) \in Nat
        BY LenProperties DEF TypeInv, Types
      <4>2. \A j \in 1 .. Len(queue) : queue[j] \in Calls
        BY <4>1, ElementOfSeq
      <4>3. 1 \in 1 .. Len(queue)
        BY <2>2, <4>1
      <4>4. \A j \in 1 .. Len(queue) : queue[1] = queue[j] => 1 = j
        BY <4>3 DEF TypeInv, QueueInv
      <4> QED BY <2>4, <4>2, <4>4
    <3>3. \A d \in Calls : phase'[d] # "new" <=> phase[d] # "new"
      BY <1>8, <3>1 DEF Enters
    <3> QED BY <2>1, <3>1, <3>2, <3>3, QueueSame
  <2> QED BY <2>5, <2>6
<1>9. ASSUME NEW c \in Calls,
             Polled(c) \/ Locks(c) \/ CallsBuiltin(c) \/ Emits(c) \/ Dispatches(c)
      PROVE  QueueInv'
  <2>1. /\ UNCHANGED queue
        /\ \A d \in Calls : d # c => phase'[d] = phase[d]
        /\ phase[c] \in {"spawned", "waiting", "running", "emitted"}
        /\ phase'[c] \in {"settled", "waiting", "running", "builtin", "emitted", "output"}
        /\ phase'[c] = "settled" => phase[c] = "spawned"
    <3>1. CASE Polled(c)
      BY <3>1 DEF Polled, TypeInv, Types
    <3>2. CASE Locks(c)
      BY <3>2 DEF Locks, TypeInv, Types
    <3>3. CASE CallsBuiltin(c)
      BY <3>3 DEF CallsBuiltin, TypeInv, Types
    <3>4. CASE Emits(c) \/ Dispatches(c)
      BY <3>4 DEF Emits, Dispatches, TypeInv, Types
    <3> QED BY <1>9, <3>1, <3>2, <3>3, <3>4
  <2> QED BY <2>1, QueueKept DEF TypeInv, QueueInv
<1>10. ASSUME NEW c \in Calls, CallbackReturns(c) \/ Resolves(c) \/ Receives(c) PROVE QueueInv'
  <2>1. /\ UNCHANGED queue
        /\ \A d \in Calls : d # c => phase'[d] = phase[d]
        /\ phase[c] # "new" /\ phase'[c] # "new" /\ phase[c] # "queued" /\ phase'[c] # "queued"
        /\ phase'[c] \in {"spawned", "settled"} => phase[c] = phase'[c]
    <3>1. CASE CallbackReturns(c)
      BY <3>1 DEF CallbackReturns, TypeInv, Types
    <3>2. CASE Resolves(c)
      BY <3>2 DEF Resolves, TypeInv, Types
    <3>3. CASE Receives(c)
      BY <3>3 DEF Receives, TypeInv, Types
    <3> QED BY <1>10, <3>1, <3>2, <3>3
  <2> QED BY <2>1, QueueKept DEF TypeInv, QueueInv
<1>11. ASSUME NEW c \in Calls, CallEnds(c) PROVE QueueInv'
  <2>1. CASE Async(c)
    BY <1>11, <2>1, QueueKept DEF CallEnds, Ends, TypeInv, Types, QueueInv
  <2>2. CASE ~Async(c)
    <3>1. /\ \A d \in Calls : phase'[d] = IF d = c THEN "new" ELSE phase[d]
          /\ UNCHANGED queue
      BY <1>11, <2>2 DEF CallEnds, Ends, TypeInv, Types
    <3>2. \A i \in 1 .. Len(queue) : queue[i] \in Calls /\ queue[i] # c
      BY <2>2 DEF TypeInv, Types, QueueInv
    <3> QED BY <2>2, <3>1, <3>2 DEF TypeInv, QueueInv, Async
  <2> QED BY <2>1, <2>2
<1> QED BY <1>1, <1>2, <1>3, <1>4, <1>5, <1>7, <1>8, <1>9, <1>10, <1>11,
           EndingSteps
        DEF Next, Goes

\* The stacks of one to three frames.
LEMMA ShortStacks ==
  ASSUME NEW S, NEW x \in S, NEW y \in S
  PROVE  /\ Append(<<x>>, y) = <<x, y>>
         /\ SubSeq(<<x, y>>, 1, Len(<<x, y>>) - 1) = <<x>>
         /\ SubSeq(<<x>>, 1, Len(<<x>>) - 1) = <<>>
<1>1. <<x>> \in Seq(S) /\ <<x, y>> \in Seq(S)
  OBVIOUS
<1>2. Append(<<x>>, y) = <<x, y>>
  <2>1. /\ Append(<<x>>, y) \in Seq(S)
        /\ Len(Append(<<x>>, y)) = 2
        /\ Append(<<x>>, y)[1] = x /\ Append(<<x>>, y)[2] = y
    BY <1>1, AppendProperties
  <2>2. \A i \in 1 .. Len(Append(<<x>>, y)) : Append(<<x>>, y)[i] = <<x, y>>[i]
    <3> TAKE i \in 1 .. Len(Append(<<x>>, y))
    <3>1. i = 1 \/ i = 2
      BY <2>1
    <3> QED BY <2>1, <3>1
  <2> QED BY <1>1, <2>1, <2>2, SeqEqual
<1>3. SubSeq(<<x, y>>, 1, 1) = <<x>>
  <2>1. /\ SubSeq(<<x, y>>, 1, 1) \in Seq(S)
        /\ Len(SubSeq(<<x, y>>, 1, 1)) = 1
        /\ SubSeq(<<x, y>>, 1, 1)[1] = x
    BY <1>1, SubSeqProperties
  <2>2. \A i \in 1 .. Len(SubSeq(<<x, y>>, 1, 1)) : SubSeq(<<x, y>>, 1, 1)[i] = <<x>>[i]
    BY <2>1
  <2>3. Len(SubSeq(<<x, y>>, 1, 1)) = Len(<<x>>)
    BY <2>1
  <2> HIDE <2>1
  <2>4. SubSeq(<<x, y>>, 1, 1) \in Seq(S)
    BY <2>1
  <2> QED BY <1>1, <2>2, <2>3, <2>4, SeqEqual
<1>4. SubSeq(<<x>>, 1, 0) = <<>>
  BY SubSeqEmpty
<1> QED BY <1>2, <1>3, <1>4

LEMMA ThreeFrames ==
  ASSUME NEW S, NEW x \in S, NEW y \in S, NEW z \in S
  PROVE  /\ Append(<<x, y>>, z) = <<x, y, z>>
         /\ SubSeq(<<x, y, z>>, 1, Len(<<x, y, z>>) - 1) = <<x, y>>
<1>1. <<x, y>> \in Seq(S) /\ <<x, y, z>> \in Seq(S)
  OBVIOUS
<1>2. Append(<<x, y>>, z) = <<x, y, z>>
  <2>1. /\ Append(<<x, y>>, z) \in Seq(S)
        /\ Len(Append(<<x, y>>, z)) = 3
        /\ Append(<<x, y>>, z)[1] = x /\ Append(<<x, y>>, z)[2] = y
        /\ Append(<<x, y>>, z)[3] = z
    BY <1>1, AppendProperties
  <2>2. \A i \in 1 .. Len(Append(<<x, y>>, z)) : Append(<<x, y>>, z)[i] = <<x, y, z>>[i]
    <3> TAKE i \in 1 .. Len(Append(<<x, y>>, z))
    <3>1. i = 1 \/ i = 2 \/ i = 3
      BY <2>1
    <3> QED BY <2>1, <3>1
  <2> QED BY <1>1, <2>1, <2>2, SeqEqual
<1>3. SubSeq(<<x, y, z>>, 1, 2) = <<x, y>>
  <2>1. /\ SubSeq(<<x, y, z>>, 1, 2) \in Seq(S)
        /\ Len(SubSeq(<<x, y, z>>, 1, 2)) = 2
        /\ SubSeq(<<x, y, z>>, 1, 2)[1] = x
        /\ SubSeq(<<x, y, z>>, 1, 2)[2] = y
    BY <1>1, SubSeqProperties
  <2>2. \A i \in 1 .. Len(SubSeq(<<x, y, z>>, 1, 2)) :
          SubSeq(<<x, y, z>>, 1, 2)[i] = <<x, y>>[i]
    <3> TAKE i \in 1 .. Len(SubSeq(<<x, y, z>>, 1, 2))
    <3>1. i = 1 \/ i = 2
      BY <2>1
    <3> QED BY <2>1, <3>1
  <2>3. Len(SubSeq(<<x, y, z>>, 1, 2)) = Len(<<x, y>>)
    BY <2>1
  <2>4. SubSeq(<<x, y, z>>, 1, 2) \in Seq(S)
    BY <2>1
  <2> QED BY <1>1, <2>2, <2>3, <2>4, SeqEqual
<1> QED BY <1>2, <1>3

\* A step that leaves the loop, the blocking calls and what is called back leaves the shape;
\* a builtin's call may time out.
LEMMA ShapeKept ==
  ASSUME TypeInv, UNCHANGED loop,
         \A d \in Calls : \/ phase'[d] = phase[d]
                          \/ Async(d) /\ phase[d] = "builtin" /\ phase'[d] = "settled"
                          \/ /\ Async(d) /\ phase[d] \notin {"builtin", "output"}
                             /\ phase[d] = "settled" => loop = <<>>
  PROVE  LoopShape'
<1>1. NoneBlocks => NoneBlocks'
  BY DEF NoneBlocks, Async
<1>2. \A c \in Calls : Blocked(c) => Blocked(c)' /\ phase'[c] = phase[c]
  BY DEF Blocked, Async
<1>3. CASE AtRest
  BY <1>1, <1>3 DEF AtRest, LoopShape
<1>4. ASSUME NEW c \in Calls, InCall(c) PROVE LoopShape'
  <2>1. InCall(c)'
    BY <1>2, <1>4 DEF InCall, InSync, Frame
  <2> QED BY <2>1 DEF LoopShape
<1>5. ASSUME NEW c \in Calls, InOutput(c) PROVE LoopShape'
  <2>1. InOutput(c)'
    BY <1>2, <1>5 DEF InOutput, Frame
  <2> QED BY <2>1 DEF LoopShape
<1>6. ASSUME NEW c \in Calls, InCallback(c) PROVE LoopShape'
  <2>1. InCallback(c)'
    BY <1>1, <1>6 DEF InCallback, Frame, Async
  <2> QED BY <2>1 DEF LoopShape
<1>8. \A d \in Calls : Late(d) /\ loop # <<>> => Late(d)'
  BY DEF Late, Async
<1>7. ASSUME NEW c \in Calls, NEW d \in Calls, InBoth(d, c) PROVE LoopShape'
  <2>1. InBoth(d, c)'
    BY <1>2, <1>7, <1>8 DEF InBoth, InSync, Frame
  <2> QED BY <2>1 DEF LoopShape
<1>9. ASSUME NEW c \in Calls, NEW d \in Calls, InThree(d, c) PROVE LoopShape'
  <2>1. InThree(d, c)'
    BY <1>2, <1>8, <1>9 DEF InThree, Frame
  <2> QED BY <2>1 DEF LoopShape
<1> QED BY <1>3, <1>4, <1>5, <1>6, <1>7, <1>9 DEF TypeInv, LoopInv, LoopShape

\* The one blocking call goes on and stays the only one.
LEMMA BlockedKept ==
  ASSUME NEW c \in Calls, Blocked(c), \A d \in Calls : d # c => phase'[d] = phase[d]
  PROVE  Blocked(c)'
BY DEF Blocked, Async

\* A step of the blocking call on top that leaves the loop.
LEMMA TopGoesOn ==
  ASSUME TypeInv, NEW c \in Calls, ~Async(c), phase[c] \notin {"new", "output"},
         UNCHANGED loop, \A d \in Calls : d # c => phase'[d] = phase[d],
         phase'[c] \in {"waiting", "running", "returned", "refused"}
  PROVE  LoopShape'
<1>1. Blocked(c)'
  BY OneBlocks, BlockedKept
<1>2. ASSUME InCall(c) PROVE LoopShape'
  <2>1. InCall(c)'
    BY <1>1, <1>2 DEF InCall, InSync, Frame
  <2> QED BY <2>1 DEF LoopShape
<1>3. ASSUME NEW d \in Calls, InBoth(d, c) PROVE LoopShape'
  <2>1. InBoth(d, c)'
    BY <1>1, <1>3 DEF InBoth, InSync, Frame, Late, Async
  <2> QED BY <2>1 DEF LoopShape
<1> QED BY <1>2, <1>3, OnTop

LEMMA ShapeNext ==
  ASSUME TypeInv, [Next]_vars
  PROVE  LoopShape'
<1> USE CallsAssumption
<1>1. CASE UNCHANGED vars
  BY <1>1, ShapeKept DEF vars
<1>2. CASE Cancel \/ ClearCancel
  BY <1>2, ShapeKept DEF Cancel, ClearCancel
<1>3. ASSUME NEW c \in Calls, AsyncCall(c) \/ Abort(c) PROVE LoopShape'
  BY <1>3, ShapeKept DEF AsyncCall, Abort, TypeInv, Types
<1>4. ASSUME NEW c \in Calls, BlockingCall(c) PROVE LoopShape'
  <2>1. /\ \A d \in Calls : phase'[d] = IF d = c THEN "waiting" ELSE phase[d]
        /\ ~Async(c) /\ loop' = Append(loop, Frame("call", c))
    BY <1>4 DEF BlockingCall, TypeInv, Types, Pushed
  <2>2. Blocked(c)'
    BY <1>4, <2>1, BlocksOnlyWhenNoneDoes DEF Blocked, NoneBlocks, Async
  <2>3. CASE loop = <<>>
    <3>1. loop' = <<Frame("call", c)>>
      BY <2>1, <2>3
    <3>2. InCall(c)'
      BY <2>1, <2>2, <3>1 DEF InCall, InSync, Frame
    <3> QED BY <3>2 DEF LoopShape
  <2>4. ASSUME NEW d \in Calls, loop = <<Frame("callback", d)>>, Late(d)
        PROVE  LoopShape'
    <3> DEFINE S == {Frame("callback", d), Frame("call", c)}
    <3>1. loop' = <<Frame("callback", d), Frame("call", c)>>
      BY <2>1, <2>4, ShortStacks, Frame("callback", d) \in S, Frame("call", c) \in S
    <3>2. InBoth(d, c)'
      BY <2>1, <2>2, <2>4, <3>1 DEF InBoth, InSync, Late, Frame, Async
    <3> QED BY <3>2 DEF LoopShape
  <2> QED BY <1>4, <2>3, <2>4, BlocksOnlyWhenNoneDoes
<1>5. ASSUME NEW c \in Calls, Enters(c) \/ Polled(c) \/ Settles(c) PROVE LoopShape'
  BY <1>5, ShapeKept DEF Enters, Polled, Settles, LoopIsFree, TypeInv, Types, QueueInv
<1>6. ASSUME NEW c \in Calls, Locks(c) PROVE LoopShape'
  <2>1. CASE Async(c)
    BY <1>6, <2>1, ShapeKept DEF Locks, TypeInv, Types
  <2>2. CASE ~Async(c)
    BY <1>6, <2>2, TopGoesOn DEF Locks, TypeInv, Types
  <2> QED BY <2>1, <2>2
<1>7. ASSUME NEW c \in Calls, CallsBuiltin(c) PROVE LoopShape'
  <2>1. CASE Async(c)
    BY <1>7, <2>1, ShapeKept DEF CallsBuiltin, TypeInv, Types
  <2>2. CASE ~Async(c)
    <3>1. BlocksLoop(c)
      BY <1>7, <2>2, KindsAreDisjoint DEF CallsBuiltin, TypeInv, LoopInv, CallersInv
    <3>2. syncDepth = 1
      BY <1>7, <3>1 DEF CallsBuiltin, TypeInv, DepthInv
    <3>3. UNCHANGED phase
      BY <1>7, <3>2 DEF CallsBuiltin, SentToLoop, TypeInv, Types
    <3> QED BY <1>7, <3>3, ShapeKept DEF CallsBuiltin
  <2> QED BY <2>1, <2>2
<1>8. ASSUME NEW c \in Calls, Emits(c) PROVE LoopShape'
  <2>1. CASE Async(c)
    BY <1>8, <2>1, ShapeKept DEF Emits, TypeInv, Types
  <2>2. CASE ~Async(c)
    <3>1. /\ phase[c] = "running" /\ phase'[c] = "output"
          /\ \A d \in Calls : d # c => phase'[d] = phase[d]
          /\ loop' = Append(loop, Frame("callback", c))
      BY <1>8, <2>2 DEF Emits, Pushed, TypeInv, Types
    <3>2. Blocked(c)'
      BY <2>2, <3>1, OneBlocks, BlockedKept
    <3>3. ASSUME InCall(c) PROVE LoopShape'
      <4> DEFINE S == {Frame("callback", c), Frame("call", c)}
      <4>1. loop' = <<Frame("call", c), Frame("callback", c)>>
        BY <3>1, <3>3, ShortStacks, Frame("callback", c) \in S, Frame("call", c) \in S DEF InCall
      <4>2. InOutput(c)'
        BY <3>1, <3>2, <4>1 DEF InOutput, Frame
      <4> QED BY <4>2 DEF LoopShape
    <3>4. ASSUME NEW d \in Calls, InBoth(d, c) PROVE LoopShape'
      <4> DEFINE S == {Frame("callback", c), Frame("call", c), Frame("callback", d)}
      <4>1. loop' = <<Frame("callback", d), Frame("call", c), Frame("callback", c)>>
        BY <3>1, <3>4, ThreeFrames, Frame("callback", c) \in S, Frame("call", c) \in S,
           Frame("callback", d) \in S DEF InBoth
      <4>2. Late(d)'
        BY <2>2, <3>1, <3>4 DEF InBoth, Late, Async
      <4>3. InThree(d, c)'
        BY <3>1, <3>2, <4>1, <4>2 DEF InThree, Frame
      <4> QED BY <4>3 DEF LoopShape
    <3> QED BY <2>2, <3>1, <3>3, <3>4, OnTop
  <2> QED BY <2>1, <2>2
<1>14. ASSUME NEW c \in Calls, Dispatches(c) PROVE LoopShape'
  BY <1>14, ShapeKept DEF Dispatches, TypeInv, Types, LoopInv, CallersInv
<1>9. ASSUME NEW c \in Calls, Delivers(c) PROVE LoopShape'
  <2>1. AtRest
    BY <1>9 DEF Delivers, LoopIsFree, TypeInv, LoopInv, LoopShape, InCall, InOutput, InCallback,
       InBoth, InThree
  <2>2. loop' = <<Frame("callback", c)>>
    BY <1>9, <2>1 DEF Delivers, AtRest, Pushed
  <2>3. Async(c) /\ phase[c] \in {"builtin", "output"} /\ UNCHANGED phase
    BY <1>9 DEF Delivers, TypeInv, LoopInv, CallersInv
  <2>4. InCallback(c)'
    BY <2>1, <2>2, <2>3 DEF InCallback, AtRest, NoneBlocks, Frame, Async
  <2> QED BY <2>4 DEF LoopShape
<1>10. ASSUME NEW c \in Calls, CallbackReturns(c) PROVE LoopShape'
  <2>1. /\ Top.at = "callback" /\ Top.call = c
        /\ \A d \in Calls : d # c => phase'[d] = phase[d]
        /\ phase[c] = "output" => phase'[c] \in {"returned", "refused"}
    BY <1>10 DEF CallbackReturns, Frame, TypeInv, Types
  <2>2. ASSUME NEW d \in Calls, InCall(d) PROVE FALSE
    BY <2>1, <2>2 DEF InCall, Top, Frame
  <2>3. ASSUME NEW d \in Calls, NEW e \in Calls, InBoth(d, e) PROVE FALSE
    BY <2>1, <2>3 DEF InBoth, Top, Frame
  <2>4. ASSUME NEW d \in Calls, InOutput(d) PROVE LoopShape'
    <3>1. d = c
      BY <2>1, <2>4 DEF InOutput, Top, Frame
    <3>4. loop' = <<Frame("call", c)>>
      <4> DEFINE S == {Frame("callback", c), Frame("call", c)}
      <4>1. loop = <<Frame("call", c), Frame("callback", c)>>
        BY <2>4, <3>1 DEF InOutput
      <4>2. loop' = SubSeq(loop, 1, Len(loop) - 1)
        BY <1>10 DEF CallbackReturns, Popped
      <4> QED BY <4>1, <4>2, ShortStacks, Frame("callback", c) \in S, Frame("call", c) \in S
    <3>2. Blocked(c)'
      BY <2>1, <2>4, <3>1, BlockedKept DEF InOutput
    <3>3. InCall(c)'
      BY <2>1, <2>4, <3>1, <3>2, <3>4 DEF InCall, InSync, InOutput, Frame
    <3> QED BY <3>3 DEF LoopShape
  <2>7. ASSUME NEW e \in Calls, NEW d \in Calls, InThree(e, d) PROVE LoopShape'
    <3>1. d = c
      BY <2>1, <2>7 DEF InThree, Top, Frame
    <3>2. loop' = <<Frame("callback", e), Frame("call", c)>>
      <4> DEFINE S == {Frame("callback", e), Frame("call", c), Frame("callback", c)}
      <4>1. loop = <<Frame("callback", e), Frame("call", c), Frame("callback", c)>>
        BY <2>7, <3>1 DEF InThree
      <4>2. loop' = SubSeq(loop, 1, Len(loop) - 1)
        BY <1>10 DEF CallbackReturns, Popped
      <4> QED BY <4>1, <4>2, ThreeFrames, Frame("callback", e) \in S, Frame("call", c) \in S,
              Frame("callback", c) \in S
    <3>3. Blocked(c)'
      BY <2>1, <2>7, <3>1, BlockedKept DEF InThree
    <3>4. InBoth(e, c)'
      BY <2>1, <2>7, <3>1, <3>2, <3>3 DEF InBoth, InSync, InThree, Late, Frame, Async, Blocked
    <3> QED BY <3>4 DEF LoopShape
  <2>5. ASSUME NEW d \in Calls, InCallback(d) PROVE LoopShape'
    <3>1. d = c /\ loop' = <<>>
      BY <1>10, <2>1, <2>5 DEF InCallback, Top, Frame, CallbackReturns, Popped
    <3>2. NoneBlocks'
      BY <2>1, <2>5, <3>1 DEF InCallback, NoneBlocks, Async
    <3> QED BY <3>1, <3>2 DEF LoopShape, AtRest
  <2>6. ~AtRest
    BY <1>10 DEF CallbackReturns, AtRest
  <2> QED BY <2>2, <2>3, <2>4, <2>5, <2>6, <2>7 DEF TypeInv, LoopInv, LoopShape
<1>11. ASSUME NEW c \in Calls, Resolves(c) PROVE LoopShape'
  BY <1>11, ShapeKept DEF Resolves, TypeInv, Types, LoopInv, CallersInv
<1>12. ASSUME NEW c \in Calls, Receives(c) PROVE LoopShape'
  <2>1. CASE Async(c)
    BY <1>12, <2>1, ShapeKept DEF Receives, TypeInv, Types
  <2>2. CASE ~Async(c)
    BY <1>12, <2>2, TopGoesOn DEF Receives, TypeInv, Types
  <2> QED BY <2>1, <2>2
<1>13. ASSUME NEW c \in Calls, CallEnds(c) PROVE LoopShape'
  <2>1. CASE Async(c)
    BY <1>13, <2>1, ShapeKept DEF CallEnds, Ends, TypeInv, Types
  <2>2. CASE ~Async(c)
    <3>1. /\ phase[c] \notin {"new", "output"} /\ phase'[c] = "new"
          /\ \A d \in Calls : d # c => phase'[d] = phase[d]
          /\ loop' = SubSeq(loop, 1, Len(loop) - 1)
      BY <1>13, <2>2 DEF CallEnds, Ends, Popped, TypeInv, Types
    <3>2. NoneBlocks'
      BY <2>2, <3>1, OneBlocks DEF Blocked, NoneBlocks, Async
    <3>3. ASSUME InCall(c) PROVE LoopShape'
      <4>1. loop' = <<>>
        BY <3>1, <3>3 DEF InCall
      <4> QED BY <3>2, <4>1 DEF LoopShape, AtRest
    <3>4. ASSUME NEW d \in Calls, InBoth(d, c) PROVE LoopShape'
      <4> DEFINE S == {Frame("callback", d), Frame("call", c)}
      <4>1. loop' = <<Frame("callback", d)>>
        BY <3>1, <3>4, ShortStacks, Frame("callback", d) \in S, Frame("call", c) \in S DEF InBoth
      <4>2. InCallback(d)'
        BY <2>2, <3>1, <3>2, <3>4, <4>1 DEF InCallback, InBoth, Late, Frame, Async
      <4> QED BY <4>2 DEF LoopShape
    <3> QED BY <2>2, <3>1, <3>3, <3>4, OnTop
  <2> QED BY <2>1, <2>2
<1> QED BY <1>1, <1>2, <1>3, <1>4, <1>5, <1>6, <1>7, <1>8, <1>9, <1>10, <1>11, <1>12, <1>13,
           <1>14, EndingSteps
        DEF Next, Goes

LEMMA CallersNext ==
  ASSUME TypeInv, [Next]_vars
  PROVE  CallersInv'
<1> USE CallsAssumption, KindsAreDisjoint DEF TypeInv, Types, LoopInv, CallersInv
<1>1. CASE UNCHANGED vars
  BY <1>1 DEF vars, Async, Streaming, Scripted
<1>2. CASE Cancel \/ ClearCancel
  BY <1>2 DEF Cancel, ClearCancel, locals, Async, Streaming, Scripted
<1>3. ASSUME NEW c \in Calls, AsyncCall(c) \/ BlockingCall(c) \/ Abort(c) PROVE CallersInv'
  BY <1>3 DEF AsyncCall, BlockingCall, Abort, locals, Async, Streaming, Scripted
<1>4. ASSUME NEW c \in Calls, Enters(c) \/ Polled(c) \/ Settles(c) \/ Delivers(c)
      PROVE  CallersInv'
  BY <1>4 DEF Enters, Polled, Settles, Delivers, locals, Async, Streaming, Scripted
<1>5. ASSUME NEW c \in Calls, Locks(c) PROVE CallersInv'
  BY <1>5 DEF Locks, Async, Streaming, Scripted
<1>6. ASSUME NEW c \in Calls, CallsBuiltin(c) PROVE CallersInv'
  <2>1. Scripted(c)
    BY <1>6 DEF CallsBuiltin
  <2>2. ~Async(c) => syncDepth = 1
    BY <1>6, <2>1 DEF CallsBuiltin, DepthInv
  <2> QED BY <1>6, <2>1, <2>2 DEF CallsBuiltin, SentToLoop, Async, Streaming, Scripted
<1>7. ASSUME NEW c \in Calls, Emits(c) \/ Dispatches(c) PROVE CallersInv'
  BY <1>7 DEF Emits, Dispatches, locals, Async, Streaming, Scripted
<1>8. ASSUME NEW c \in Calls, CallbackReturns(c) PROVE CallersInv'
  BY <1>8 DEF CallbackReturns, locals, Async, Streaming, Scripted
<1>9. ASSUME NEW c \in Calls, Resolves(c) \/ Receives(c) PROVE CallersInv'
  BY <1>9 DEF Resolves, Receives, locals, Async, Streaming, Scripted
<1>10. ASSUME NEW c \in Calls, CallEnds(c) PROVE CallersInv'
  BY <1>10 DEF CallEnds, Ends, Async, Streaming, Scripted
<1> QED BY <1>1, <1>2, <1>3, <1>4, <1>5, <1>6, <1>7, <1>8, <1>9, <1>10, EndingSteps
        DEF Next, Goes

LEMMA TypeNext == TypeInv /\ [Next]_vars => TypeInv'
BY TypesNext, HolderNext, QueueNext, ShapeNext, CallersNext, DepthNext DEF TypeInv, LoopInv

\* What the depths and the lock say about the calls follows.
LEMMA TypeFollows == TypeInv => TypeOK
<1> SUFFICES ASSUME TypeInv PROVE TypeOK
  OBVIOUS
<1>1. outputDepth \in 0 .. 1
  BY DEF TypeInv, DepthInv
<1>2. \A c \in Calls : holder = c <=> phase[c] \in Holding
  BY DEF TypeInv, HolderInv
<1>3. syncDepth \in 0 .. Len(loop)
  <2>1. CASE NoneBlocks
    <3>1. syncDepth = 0
      BY <2>1, KindsAreDisjoint DEF NoneBlocks, TypeInv, DepthInv
    <3>2. Len(loop) \in Nat
      BY DEF TypeInv, LoopInv, LoopShape, AtRest, InCall, InOutput, InCallback, InBoth, InThree
    <3> QED BY <3>1, <3>2
  <2>2. CASE ~NoneBlocks
    <3>1. Len(loop) \in {1, 2, 3}
      BY <2>2 DEF TypeInv, LoopInv, LoopShape, AtRest, InCall, InOutput, InCallback, InBoth,
         InThree
    <3> QED BY <3>1 DEF TypeInv, DepthInv
  <2> QED BY <2>1, <2>2
<1> QED BY <1>1, <1>2, <1>3 DEF TypeOK, TypeInv, Types

\* Types and, with them, that no more than one onOutput call is open and that the lock's
\* holder is the one call that runs, whatever the host does.
THEOREM TypeCorrect == Spec => []TypeOK
BY InitInv, TypeNext, TypeFollows, PTL DEF Spec

----------------------------------------------------------------------------
(* The cancellation flag.                                                  *)

\* Who has set the flag: a cancel() that is kept, or a callback or a signal of an open call,
\* whose end will clear it.
FlagInv ==
  /\ \A c \in Calls : requested[c] => failed[c]
  /\ \A c \in Calls : failed[c] => phase[c] \in {"running", "builtin", "promised", "awaiting"}
  /\ \A c \in Calls : triggered[c] => phase[c] # "new" /\ c \in Signalled
  /\ kept => cancelled /\ ~WillBeCleared
  /\ cancelled => kept \/ WillBeCleared

LEMMA FlagInit == Init => FlagInv
BY DEF Init, FlagInv, WillBeCleared

\* The flag is left alone by a step that leaves who will clear it.
LEMMA FlagKept ==
  ASSUME FlagInv, UNCHANGED <<cancelled, kept, failed, requested>>,
         \A c \in Calls : /\ triggered'[c] => triggered[c] /\ phase'[c] # "new"
                          /\ triggered[c] /\ phase[c] # "queued" =>
                               triggered'[c] /\ phase'[c] # "queued"
                          /\ phase[c] = "queued" => phase'[c] \in {"new", "queued"} \/ ~triggered[c]
                          /\ failed[c] => phase'[c] \in {"running", "builtin", "promised",
                                                         "awaiting"}
  PROVE  FlagInv'
<1>1. WillBeCleared' <=> WillBeCleared
  BY DEF WillBeCleared, FlagInv
<1> QED BY <1>1 DEF FlagInv

LEMMA FlagNext ==
  ASSUME TypeInv, FlagInv, [Next]_vars
  PROVE  FlagInv'
<1> USE CallsAssumption
<1>1. CASE UNCHANGED vars
  BY <1>1, FlagKept DEF vars, FlagInv
<1>2. CASE Cancel
  <2>1. WillBeCleared' <=> WillBeCleared
    BY <1>2 DEF Cancel, WillBeCleared, locals
  <2> QED BY <1>2, <2>1 DEF Cancel, FlagInv, locals
<1>3. CASE ClearCancel
  BY <1>3 DEF ClearCancel, FlagInv, locals
<1>4. ASSUME NEW c \in Calls, AsyncCall(c) \/ BlockingCall(c) PROVE FlagInv'
  BY <1>4, FlagKept DEF AsyncCall, BlockingCall, flags, locals, FlagInv, TypeInv, Types
<1>5. ASSUME NEW c \in Calls, Abort(c) PROVE FlagInv'
  <2>1. CASE phase[c] = "queued"
    <3>1. WillBeCleared' <=> WillBeCleared
      BY <1>5, <2>1 DEF Abort, WillBeCleared, locals, TypeInv, Types
    <3> QED BY <1>5, <2>1, <3>1 DEF Abort, FlagInv, locals, flags, TypeInv, Types
  <2>2. CASE phase[c] # "queued"
    <3>1. WillBeCleared'
      BY <1>5, <2>2 DEF Abort, WillBeCleared, locals, TypeInv, Types
    <3> QED BY <1>5, <2>2, <3>1 DEF Abort, FlagInv, locals, TypeInv, Types
  <2> QED BY <2>1, <2>2
<1>6. ASSUME NEW c \in Calls, Enters(c) PROVE FlagInv'
  BY <1>6, FlagKept DEF Enters, flags, locals, FlagInv, TypeInv, Types
<1>7. ASSUME NEW c \in Calls, Polled(c) \/ Dispatches(c) \/ Delivers(c) \/ Resolves(c)
      PROVE FlagInv'
  BY <1>7, FlagKept DEF Polled, Dispatches, Delivers, Resolves, flags, locals, FlagInv, TypeInv,
     Types
<1>8. ASSUME NEW c \in Calls, Locks(c) \/ CallsBuiltin(c) \/ Emits(c) PROVE FlagInv'
  <2>1. /\ UNCHANGED <<cancelled, kept, failed, requested, triggered>>
        /\ \A d \in Calls : d # c => phase'[d] = phase[d]
        /\ phase[c] \in {"waiting", "running"}
        /\ phase'[c] \in {"running", "builtin", "emitted", "output"}
        /\ failed[c] => phase'[c] \notin {"emitted", "output"}
        /\ failed[c] => phase[c] = "running" \/ phase'[c] = "running"
    <3>1. CASE Locks(c)
      BY <3>1 DEF Locks, flags, TypeInv, Types
    <3>2. CASE CallsBuiltin(c)
      BY <3>2 DEF CallsBuiltin, flags, TypeInv, Types
    <3>3. CASE Emits(c)
      BY <3>3 DEF Emits, flags, TypeInv, Types
    <3> QED BY <1>8, <3>1, <3>2, <3>3
  <2> QED BY <2>1, FlagKept DEF FlagInv
<1>9. ASSUME NEW c \in Calls, CallbackReturns(c) PROVE FlagInv'
  BY <1>9, FlagKept DEF CallbackReturns, flags, locals, FlagInv, TypeInv, Types
<1>10. ASSUME NEW c \in Calls, Receives(c) PROVE FlagInv'
  <2>1. CASE phase[c] = "returned"
    BY <1>10, <2>1, FlagKept DEF Receives, FlagInv, TypeInv, Types
  <2>2. CASE phase[c] = "refused"
    <3>1. /\ requested' = [requested EXCEPT ![c] = ~cancelled]
          /\ failed' = [failed EXCEPT ![c] = TRUE]
          /\ phase' = [phase EXCEPT ![c] = "running"]
          /\ cancelled' /\ UNCHANGED <<kept, triggered>>
          /\ ~failed[c] /\ ~requested[c]
      BY <1>10, <2>2 DEF Receives, FailureRequests, FlagInv
    <3>2. CASE cancelled
      <4>1. \A d \in Calls : requested'[d] <=> requested[d]
        BY <3>1, <3>2 DEF TypeInv, Types
      <4>2. WillBeCleared' <=> WillBeCleared
        BY <2>2, <3>1, <4>1 DEF WillBeCleared, TypeInv, Types
      <4> QED BY <3>1, <3>2, <4>1, <4>2 DEF FlagInv, TypeInv, Types
    <3>3. CASE ~cancelled
      <4>1. WillBeCleared'
        BY <3>1, <3>3 DEF WillBeCleared, TypeInv, Types
      <4> QED BY <3>1, <3>3, <4>1 DEF FlagInv, TypeInv, Types
    <3> QED BY <3>2, <3>3
  <2> QED BY <1>10, <2>1, <2>2 DEF Receives
<1>11. ASSUME NEW c \in Calls, CallEnds(c)
       PROVE  /\ phase[c] \notin {"new", "queued"}
              /\ \A d \in Calls : /\ d # c => /\ phase'[d] = phase[d]
                                              /\ failed'[d] = failed[d]
                                              /\ requested'[d] = requested[d]
                                              /\ triggered'[d] = triggered[d]
              /\ ~failed'[c] /\ ~requested'[c] /\ (triggered'[c] <=> Async(c) /\ triggered[c])
              /\ phase'[c] = IF Async(c) THEN "settled" ELSE "new"
  BY <1>11 DEF CallEnds, Ends, TypeInv, Types
<1>12. ASSUME NEW c \in Calls, CallEnds(c), ~cancelled', ~kept' PROVE FlagInv'
  BY <1>11, <1>12 DEF FlagInv
<1>13. ASSUME NEW c \in Calls, Resets(c) PROVE FlagInv'
  BY <1>12, <1>13, EndingSteps DEF Resets
<1>14. ASSUME NEW c \in Calls, Finishes(c) \/ TimesOut(c) PROVE FlagInv'
  <2>4. CallEnds(c)
    BY <1>14, EndingSteps
  <2>5. TimesOut(c) => ~BlocksLoop(c)
    BY KindsAreDisjoint DEF TimesOut, TypeInv, LoopInv, CallersInv
  <2>1. CASE BlocksLoop(c) /\ triggered[c]
    BY <1>12, <1>14, <2>1, <2>4, <2>5 DEF Finishes
  <2>2. CASE ~(BlocksLoop(c) /\ triggered[c]) /\ requested[c]
    <3>1. failed[c] /\ ~kept
      BY <2>2 DEF FlagInv, WillBeCleared
    <3>2. ~cancelled' /\ ~kept'
      <4>1. CASE Finishes(c)
        BY <2>2, <3>1, <4>1 DEF Finishes
      <4>2. CASE TimesOut(c)
        BY <2>2, <3>1, <4>2 DEF TimesOut
      <4> QED BY <1>14, <4>1, <4>2
    <3> QED BY <1>12, <2>4, <3>2
  <2>3. CASE ~(BlocksLoop(c) /\ triggered[c]) /\ ~requested[c]
    <3>1. triggered[c] => Async(c)
      BY <2>3 DEF FlagInv, BlocksLoop, Async, Kinds
    <3>2. UNCHANGED kept /\ (cancelled' <=> cancelled)
      BY <1>14, <2>3 DEF Finishes, TimesOut
    <3>3. WillBeCleared' <=> WillBeCleared
      BY <1>11, <2>3, <2>4, <3>1 DEF WillBeCleared
    <3> QED BY <1>11, <2>3, <2>4, <3>1, <3>2, <3>3 DEF FlagInv
  <2> QED BY <2>1, <2>2, <2>3
<1>15. ASSUME NEW c \in Calls, Settles(c) PROVE FlagInv'
  <2>1. CASE triggered[c]
    BY <1>15, <2>1 DEF Settles, FlagInv, locals, TypeInv, Types
  <2>2. CASE ~triggered[c]
    BY <1>15, <2>2, FlagKept DEF Settles, FlagInv, flags, locals, TypeInv, Types
  <2> QED BY <2>1, <2>2
<1> QED BY <1>1, <1>2, <1>3, <1>4, <1>5, <1>6, <1>7, <1>8, <1>9, <1>10, <1>13, <1>14, <1>15
        DEF Next, Goes

LEMMA FlagFollows ==
  ASSUME TypeInv, FlagInv
  PROVE  FlagMeansCancel
<1>1. (\A c \in Calls : phase[c] = "new") => ~WillBeCleared
  BY DEF WillBeCleared, FlagInv
<1> QED BY <1>1 DEF FlagMeansCancel, FlagInv

\* Whatever overlaps, a callback or a signal neither leaves the flag set behind its call nor
\* takes a cancel() back that nothing was due to clear.
THEOREM FlagTheorem == Spec => []FlagMeansCancel
BY InitInv, TypeNext, FlagInit, FlagNext, FlagFollows, PTL DEF Spec

=============================================================================
