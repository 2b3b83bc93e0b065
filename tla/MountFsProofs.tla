--------------------------- MODULE MountFsProofs ---------------------------
(***************************************************************************)
(* Theorems about MountFs for all paths and mount points, any number of    *)
(* sessions and all limits.                                                *)
(***************************************************************************)
EXTENDS MountFs, SumLemmas, SequenceTheorems, TLAPS

----------------------------------------------------------------------------
(***************************************************************************)
(* Paths, component by component.                                          *)
(***************************************************************************)
LEMMA PathIs ==
  ASSUME NEW p \in Paths
  PROVE  /\ p \in Seq(STRING) /\ Len(p) \in Nat
         /\ p \in [1..Len(p) -> STRING]
         /\ p # <<>> => Len(p) >= 1
<1>1. p \in Seq(STRING)
  BY PathsAssumption
<1> QED BY <1>1, LenProperties, EmptySeq

LEMMA HeadOf ==
  ASSUME NEW p \in Seq(STRING), NEW n \in Nat, n <= Len(p)
  PROVE  /\ SubSeq(p, 1, n) \in Seq(STRING)
         /\ Len(SubSeq(p, 1, n)) = n
         /\ \A i \in 1..n : SubSeq(p, 1, n)[i] = p[i]
<1>1. Len(p) \in Nat /\ p \in [1..Len(p) -> STRING]
  BY LenProperties
<1>2. \A i \in 1..n : p[i] \in STRING
  BY <1>1
<1> QED BY <1>1, <1>2, SubSeqProperties

LEMMA PrefixIs ==
  ASSUME NEW p \in Seq(STRING), NEW q \in Seq(STRING)
  PROVE  IsPrefix(p, q) <=> Len(p) <= Len(q) /\ \A i \in 1..Len(p) : p[i] = q[i]
<1>1. Len(p) \in Nat /\ Len(q) \in Nat
  BY LenProperties
<1>2. /\ SubSeq(p, 1, Len(p)) \in Seq(STRING) /\ Len(SubSeq(p, 1, Len(p))) = Len(p)
      /\ \A i \in 1..Len(p) : SubSeq(p, 1, Len(p))[i] = p[i]
  BY <1>1, HeadOf
<1>3. SUFFICES ASSUME Len(p) <= Len(q)
               PROVE  SubSeq(p, 1, Len(p)) = SubSeq(q, 1, Len(p))
                        <=> \A i \in 1..Len(p) : p[i] = q[i]
  BY DEF IsPrefix
<1>4. /\ SubSeq(q, 1, Len(p)) \in Seq(STRING) /\ Len(SubSeq(q, 1, Len(p))) = Len(p)
      /\ \A i \in 1..Len(p) : SubSeq(q, 1, Len(p))[i] = q[i]
  BY <1>1, <1>3, HeadOf
<1>5. ASSUME \A i \in 1..Len(p) : p[i] = q[i]
      PROVE  SubSeq(p, 1, Len(p)) = SubSeq(q, 1, Len(p))
  BY <1>2, <1>4, <1>5, SeqEqual
<1> QED BY <1>2, <1>4, <1>5

LEMMA PrefixSelf ==
  ASSUME NEW p \in Paths
  PROVE  IsPrefix(p, p)
BY PathIs, PrefixIs

(* Two prefixes of one path are prefixes of each other, the shorter one    *)
(* of the longer one.                                                      *)
LEMMA PrefixesNest ==
  ASSUME NEW p \in Seq(STRING), NEW m \in Seq(STRING), NEW n \in Seq(STRING),
         IsPrefix(m, p), IsPrefix(n, p), Len(n) <= Len(m)
  PROVE  IsPrefix(n, m) /\ (Len(n) = Len(m) => n = m)
<1>1. Len(p) \in Nat /\ Len(m) \in Nat /\ Len(n) \in Nat
  BY LenProperties
<1>2. \A i \in 1..Len(n) : n[i] = m[i]
  BY <1>1, PrefixIs
<1>3. Len(n) = Len(m) => n = m
  BY <1>2, SeqEqual
<1> QED BY <1>2, <1>3, PrefixIs

LEMMA BelowIs ==
  ASSUME NEW m \in Seq(STRING), NEW p \in Seq(STRING), IsPrefix(m, p)
  PROVE  /\ Below(m, p) \in Seq(STRING)
         /\ Len(Below(m, p)) = Len(p) - Len(m)
         /\ \A i \in 1..Len(p) - Len(m) : Below(m, p)[i] = p[Len(m) + i]
<1>1. /\ Len(p) \in Nat /\ Len(m) \in Nat /\ Len(m) <= Len(p)
      /\ p \in [1..Len(p) -> STRING]
  BY LenProperties, PrefixIs
<1>2. \A i \in Len(m) + 1..Len(p) : p[i] \in STRING
  BY <1>1
<1>3. /\ SubSeq(p, Len(m) + 1, Len(p)) \in Seq(STRING)
      /\ Len(SubSeq(p, Len(m) + 1, Len(p))) =
           IF Len(m) + 1 <= Len(p) THEN Len(p) - (Len(m) + 1) + 1 ELSE 0
      /\ \A i \in 1..Len(p) - (Len(m) + 1) + 1 :
           SubSeq(p, Len(m) + 1, Len(p))[i] = p[Len(m) + 1 + i - 1]
  BY <1>1, <1>2, SubSeqProperties
<1>4. Len(p) - (Len(m) + 1) + 1 = Len(p) - Len(m)
  BY <1>1
<1>5. \A i \in 1..Len(p) - Len(m) : Len(m) + 1 + i - 1 = Len(m) + i
  BY <1>1
<1> QED BY <1>1, <1>3, <1>4, <1>5 DEF Below

LEMMA BelowPath ==
  ASSUME NEW m \in Paths, NEW p \in Paths, IsPrefix(m, p)
  PROVE  Below(m, p) \in Paths
<1>1. Len(m) \in Nat /\ Len(p) \in Nat /\ Len(m) <= Len(p)
  BY PathIs, PrefixIs
<1>2. Len(m) + 1 \in 1..Len(p) + 1
  BY <1>1
<1> QED BY <1>2, SuffixesAssumption DEF Below

LEMMA FrontIs ==
  ASSUME NEW p \in Seq(STRING), p # <<>>
  PROVE  /\ Front(p) \in Seq(STRING)
         /\ Len(p) \in Nat /\ Len(p) >= 1
         /\ Len(Front(p)) = Len(p) - 1
         /\ \A i \in 1..Len(p) - 1 : Front(p)[i] = p[i]
         /\ Last(p) \in STRING /\ Last(p) = p[Len(p)]
<1>1. Len(p) \in Nat /\ Len(p) >= 1 /\ p \in [1..Len(p) -> STRING]
  BY LenProperties, EmptySeq
<1>2. Len(p) - 1 \in Nat
  BY <1>1
<1>3. /\ SubSeq(p, 1, Len(p) - 1) \in Seq(STRING)
      /\ Len(SubSeq(p, 1, Len(p) - 1)) = Len(p) - 1
      /\ \A i \in 1..Len(p) - 1 : SubSeq(p, 1, Len(p) - 1)[i] = p[i]
  BY <1>1, <1>2, HeadOf
<1> QED BY <1>1, <1>3 DEF Front, Last

(* A path is its parent and its last component.                            *)
LEMMA PathFromParts ==
  ASSUME NEW p \in Seq(STRING), NEW q \in Seq(STRING), p # <<>>, q # <<>>,
         Front(p) = Front(q), Last(p) = Last(q)
  PROVE  p = q
<1>1. Len(p) = Len(q)
  BY FrontIs
<1>2. ASSUME NEW i \in 1..Len(p) PROVE p[i] = q[i]
  <2>1. CASE i = Len(p)
    <3>1. p[Len(p)] = Last(p) /\ q[Len(q)] = Last(q)
      BY FrontIs
    <3> QED BY <1>1, <2>1, <3>1
  <2>2. CASE i # Len(p)
    <3>1. i \in 1..Len(p) - 1
      BY <2>2, FrontIs
    <3>2. Front(p)[i] = p[i]
      BY <3>1, FrontIs
    <3>3. Front(q)[i] = q[i]
      BY <1>1, <3>1, FrontIs
    <3> QED BY <3>2, <3>3
  <2> QED BY <2>1, <2>2
<1> QED BY <1>1, <1>2, SeqEqual

(* What is above a path is above its parent, or is the path.               *)
LEMMA PrefixOfParent ==
  ASSUME NEW m \in Seq(STRING), NEW p \in Seq(STRING), p # <<>>
  PROVE  IsPrefix(m, p) <=> m = p \/ IsPrefix(m, Front(p))
<1>1. /\ Len(m) \in Nat /\ Len(p) \in Nat /\ Len(p) >= 1 /\ Front(p) \in Seq(STRING)
      /\ Len(Front(p)) = Len(p) - 1 /\ \A i \in 1..Len(p) - 1 : Front(p)[i] = p[i]
  BY FrontIs, LenProperties
<1>2. CASE Len(m) >= Len(p)
  <2>1. ~IsPrefix(m, Front(p))
    BY <1>1, <1>2, PrefixIs
  <2>2. IsPrefix(m, p) => m = p
    <3> SUFFICES ASSUME IsPrefix(m, p) PROVE m = p
      OBVIOUS
    <3>1. Len(m) = Len(p) /\ \A i \in 1..Len(m) : m[i] = p[i]
      BY <1>1, <1>2, PrefixIs
    <3> QED BY <3>1, SeqEqual
  <2>3. IsPrefix(p, p)
    BY <1>1, PrefixIs
  <2> QED BY <2>1, <2>2, <2>3
<1>3. CASE Len(m) < Len(p)
  <2>1. m # p
    BY <1>1, <1>3
  <2>2. IsPrefix(m, p) <=> Len(m) <= Len(p) /\ \A i \in 1..Len(m) : m[i] = p[i]
    BY PrefixIs
  <2>3. IsPrefix(m, Front(p)) <=>
          Len(m) <= Len(Front(p)) /\ \A i \in 1..Len(m) : m[i] = Front(p)[i]
    BY <1>1, PrefixIs
  <2>4. \A i \in 1..Len(m) : i \in 1..Len(p) - 1
    BY <1>1, <1>3
  <2>5. Len(m) <= Len(p) /\ Len(m) <= Len(Front(p))
    BY <1>1, <1>3
  <2> QED BY <1>1, <2>1, <2>2, <2>3, <2>4, <2>5
<1> QED BY <1>1, <1>2, <1>3

(* The place of a child below a mount point is the child of the place.     *)
LEMMA BelowChild ==
  ASSUME NEW m \in Seq(STRING), NEW p \in Seq(STRING), p # <<>>, IsPrefix(m, Front(p))
  PROVE  /\ Below(m, p) # <<>>
         /\ Front(Below(m, p)) = Below(m, Front(p))
         /\ Last(Below(m, p)) = Last(p)
<1> DEFINE b == Below(m, p)
           c == Below(m, Front(p))
<1>1. /\ Len(m) \in Nat /\ Len(p) \in Nat /\ Len(p) >= 1 /\ Front(p) \in Seq(STRING)
      /\ Len(Front(p)) = Len(p) - 1 /\ \A i \in 1..Len(p) - 1 : Front(p)[i] = p[i]
      /\ Last(p) = p[Len(p)]
  BY FrontIs, LenProperties
<1>2. Len(m) <= Len(p) - 1
  BY <1>1, PrefixIs
<1>3. IsPrefix(m, p)
  BY <1>1, PrefixOfParent
<1>4. /\ b \in Seq(STRING) /\ Len(b) = Len(p) - Len(m)
      /\ \A i \in 1..Len(p) - Len(m) : b[i] = p[Len(m) + i]
  BY <1>3, BelowIs
<1>5. /\ c \in Seq(STRING) /\ Len(c) = Len(p) - 1 - Len(m)
      /\ \A i \in 1..Len(p) - 1 - Len(m) : c[i] = Front(p)[Len(m) + i]
  BY <1>1, BelowIs
<1> HIDE DEF b, c
<1>6. b # <<>>
  <2>1. Len(b) # 0
    BY <1>1, <1>2, <1>4
  <2> QED BY <2>1, EmptySeq
<1>7. /\ Front(b) \in Seq(STRING) /\ Len(Front(b)) = Len(b) - 1
      /\ \A i \in 1..Len(b) - 1 : Front(b)[i] = b[i]
      /\ Last(b) = b[Len(b)]
  BY <1>4, <1>6, FrontIs
<1>8. Len(Front(b)) = Len(c)
  BY <1>1, <1>4, <1>5, <1>7
<1>9. ASSUME NEW i \in 1..Len(c) PROVE Front(b)[i] = c[i]
  <2>1. i \in 1..Len(b) - 1 /\ i \in 1..Len(p) - Len(m) /\ i \in 1..Len(p) - 1 - Len(m)
        /\ Len(m) + i \in 1..Len(p) - 1
    BY <1>1, <1>2, <1>4, <1>5
  <2> QED BY <1>1, <1>4, <1>5, <1>7, <2>1
<1>10. Front(b) = c
  BY <1>5, <1>7, <1>8, <1>9, SeqEqual
<1>11. Last(b) = Last(p)
  <2>1. Len(b) \in 1..Len(p) - Len(m) /\ Len(m) + Len(b) = Len(p)
    BY <1>1, <1>2, <1>4
  <2> QED BY <1>1, <1>4, <1>7, <2>1
<1> QED BY <1>6, <1>10, <1>11 DEF b, c

----------------------------------------------------------------------------
(***************************************************************************)
(* The table of mounts.                                                    *)
(***************************************************************************)
MountsType ==
  /\ DOMAIN mounts \subseteq MountPoints
  /\ \A m \in DOMAIN mounts : mounts[m] \in Backend

LEMMA MountsAreSequences ==
  ASSUME MountsType, NEW m \in DOMAIN mounts
  PROVE  m \in Paths /\ m \in Seq(STRING) /\ Len(m) \in Nat
BY MountPointsAssumption, PathIs DEF MountsType

(* Among the mount points above a path there is a longest one.             *)
LEMMA LongestExists ==
  ASSUME MountsType, NEW p \in Paths, Covering(p) # {}
  PROVE  \E m \in Covering(p) : \A n \in Covering(p) : Len(n) <= Len(m)
<1> DEFINE all == 1..Len(p)
           left(m) == {i \in all : i > Len(m)}
           Bad == {left(m) : m \in Covering(p)}
<1>1. Len(p) \in Nat /\ p \in Seq(STRING)
  BY PathIs
<1>2. IsFiniteSet(all)
  BY <1>1, FS_Interval
<1>3. Bad \subseteq SUBSET all /\ Bad # {}
  OBVIOUS
<1>4. PICK T \in Bad : \A U \in Bad : ~(U \subseteq T /\ U # T)
  <2> HIDE DEF Bad, all
  <2> QED BY <1>2, <1>3, Least
<1>5. PICK m \in Covering(p) : T = left(m)
  OBVIOUS
<1>6. ASSUME NEW n \in Covering(p), ~(Len(n) <= Len(m)) PROVE FALSE
  <2>1. /\ Len(n) \in Nat /\ Len(m) \in Nat /\ n \in Seq(STRING) /\ IsPrefix(n, p)
    BY MountsAreSequences DEF Covering
  <2>2. Len(n) <= Len(p)
    BY <1>1, <2>1, PrefixIs
  <2>3. left(n) \subseteq left(m)
    BY <1>6, <2>1
  <2>4. Len(n) \in left(m) /\ Len(n) \notin left(n)
    BY <1>1, <1>6, <2>1, <2>2
  <2>5. left(n) \in Bad
    OBVIOUS
  <2> QED BY <1>4, <1>5, <2>3, <2>4, <2>5
<1> QED BY <1>6

(* resolve: without a mount above it a path is the root's; otherwise it is *)
(* found below the nearest mount point.                                    *)
LEMMA ResolveIs ==
  ASSUME MountsType, NEW p \in Paths
  PROVE  \/ /\ \A m \in DOMAIN mounts : ~IsPrefix(m, p)
            /\ Resolve(p) = At(RootFs, p)
         \/ \E m \in DOMAIN mounts :
              /\ Nearest(p, m)
              /\ Resolve(p) = At(mounts[m], Below(m, p))
<1>1. CASE Covering(p) = {}
  BY <1>1 DEF Covering, Resolve
<1>2. CASE Covering(p) # {}
  <2> DEFINE m == CHOOSE x \in Covering(p) : \A n \in Covering(p) : Len(n) <= Len(x)
  <2>1. m \in Covering(p) /\ \A n \in Covering(p) : Len(n) <= Len(m)
    BY <1>2, LongestExists
  <2>2. Resolve(p) = At(mounts[m], Below(m, p))
    BY <1>2 DEF Resolve
  <2> HIDE DEF m
  <2>3. m \in DOMAIN mounts /\ IsPrefix(m, p) /\ m \in Seq(STRING)
    BY <2>1, MountsAreSequences DEF Covering
  <2>4. ASSUME NEW n \in DOMAIN mounts, IsPrefix(n, p) PROVE IsPrefix(n, m)
    <3>1. n \in Covering(p) /\ n \in Seq(STRING) /\ p \in Seq(STRING)
      BY <2>4, MountsAreSequences, PathIs DEF Covering
    <3> QED BY <2>1, <2>3, <2>4, <3>1, PrefixesNest
  <2>5. Nearest(p, m)
    BY <2>3, <2>4 DEF Nearest
  <2> QED BY <2>2, <2>3, <2>5
<1> QED BY <1>1, <1>2

LEMMA AtIs ==
  ASSUME NEW b, NEW p
  PROVE  At(b, p).fs = b.fs /\ At(b, p).arc = b.arc /\ At(b, p).path = p
BY DEF At

LEMMA RootFsIs == RootFs \in Backend /\ RootFs.fs = "root" /\ RootFs.arc = "itself"
BY DEF RootFs, Backend

LEMMA ResolveType ==
  ASSUME MountsType, NEW p \in Paths
  PROVE  Resolve(p) \in Places
<1>1. ASSUME NEW b \in Backend, NEW q \in Paths PROVE At(b, q) \in Places
  BY DEF At, Backend, Places
<1>2. ASSUME NEW m \in DOMAIN mounts, Nearest(p, m)
      PROVE  mounts[m] \in Backend /\ Below(m, p) \in Paths
  BY <1>2, MountsAreSequences, BelowPath DEF Nearest, MountsType
<1>3. CASE Resolve(p) = At(RootFs, p)
  BY <1>1, <1>3, RootFsIs
<1>4. ASSUME NEW m \in DOMAIN mounts, Nearest(p, m), Resolve(p) = At(mounts[m], Below(m, p))
      PROVE  Resolve(p) \in Places
  BY <1>1, <1>2, <1>4
<1> QED BY <1>3, <1>4, ResolveIs

(* The nearest mount point is one.                                         *)
LEMMA NearestUnique ==
  ASSUME MountsType, NEW p \in Paths, NEW m, NEW n, Nearest(p, m), Nearest(p, n)
  PROVE  m = n
<1>1. /\ m \in Seq(STRING) /\ n \in Seq(STRING) /\ Len(m) \in Nat /\ Len(n) \in Nat
      /\ IsPrefix(m, n) /\ IsPrefix(n, m)
  BY MountsAreSequences DEF Nearest
<1>2. Len(m) = Len(n) /\ \A i \in 1..Len(m) : m[i] = n[i]
  BY <1>1, PrefixIs
<1> QED BY <1>1, <1>2, SeqEqual

LEMMA ResolveBelow ==
  ASSUME MountsType, NEW p \in Paths, NEW m, Nearest(p, m)
  PROVE  Resolve(p) = At(mounts[m], Below(m, p))
BY ResolveIs, NearestUnique DEF Nearest

LEMMA ResolveRoot ==
  ASSUME MountsType, NEW p \in Paths, \A m \in DOMAIN mounts : ~IsPrefix(m, p)
  PROVE  Resolve(p) = At(RootFs, p)
BY ResolveIs DEF Nearest

(* A path that is no mount point is found where its parent is.             *)
LEMMA ResolveChild ==
  ASSUME MountsType, NEW p \in Paths, NEW q \in Paths, q # <<>>, Front(q) = p,
         q \notin DOMAIN mounts
  PROVE  LET a == Resolve(p)
             b == Resolve(q)
         IN /\ b.fs = a.fs /\ b.path # <<>>
            /\ Front(b.path) = a.path /\ Last(b.path) = Last(q)
<1>1. q \in Seq(STRING)
  BY PathIs
<1>2. \A m \in DOMAIN mounts : IsPrefix(m, q) <=> IsPrefix(m, p)
  BY <1>1, PrefixOfParent, MountsAreSequences
<1>3. CASE \A m \in DOMAIN mounts : ~IsPrefix(m, p)
  BY <1>2, <1>3, ResolveRoot, AtIs
<1>4. ASSUME NEW m \in DOMAIN mounts, Nearest(p, m)
      PROVE  LET a == Resolve(p)
                 b == Resolve(q)
             IN /\ b.fs = a.fs /\ b.path # <<>>
                /\ Front(b.path) = a.path /\ Last(b.path) = Last(q)
  <2>1. Nearest(q, m) /\ IsPrefix(m, p) /\ m \in Seq(STRING)
    BY <1>2, <1>4, MountsAreSequences DEF Nearest
  <2>2. Resolve(p) = At(mounts[m], Below(m, p)) /\ Resolve(q) = At(mounts[m], Below(m, q))
    BY <1>4, <2>1, ResolveBelow
  <2>3. /\ Below(m, q) # <<>> /\ Front(Below(m, q)) = Below(m, p)
        /\ Last(Below(m, q)) = Last(q)
    BY <1>1, <2>1, BelowChild
  <2> QED BY <2>2, <2>3, AtIs
<1> QED BY <1>3, <1>4, ResolveIs

----------------------------------------------------------------------------
(***************************************************************************)
(* What one call to a file system can change.                              *)
(***************************************************************************)
Related(p, q) == IsPrefix(p, q) \/ IsPrefix(q, p)
Same(e, f, q) ==
  /\ q \in DOMAIN e <=> q \in DOMAIN f
  /\ q \in DOMAIN e => e[q] = f[q]

(* f is a tree, and as e was at all paths that are not above or below one  *)
(* of ps.                                                                  *)
Moved(e, f, ps) ==
  /\ Root!Tree(f)
  /\ \A r \in Paths : (\A p \in ps : ~Related(p, r)) => Same(e, f, r)

LEMMA RelatedSelf ==
  ASSUME NEW p \in Paths
  PROVE  Related(p, p)
BY PrefixSelf DEF Related

(* Both file systems are of one kind.                                      *)
LEMMA OneKind ==
  /\ \A x : Data!WellFormed(x) <=> Root!WellFormed(x)
  /\ \A e : Data!Tree(e) <=> Root!Tree(e)
  /\ \A e, p, x : Data!With(e, p, x) = Root!With(e, p, x)
  /\ \A e, ps : Data!Without(e, ps) = Root!Without(e, ps)
  /\ \A e, ps : Data!WithDirs(e, ps) = Root!WithDirs(e, ps)
  /\ \A kind, n : Data!Plain(kind, n) = Root!Plain(kind, n)
  /\ Data!Directory = Root!Directory
  /\ \A e, kinds : Data!OfKind(e, kinds) = Root!OfKind(e, kinds)
<1>1. \A x : Data!WellFormed(x) <=> Root!WellFormed(x)
  BY DEF Data!WellFormed, Root!WellFormed, Data!Entry, Root!Entry, Data!Kinds, Root!Kinds
<1>2. \A e : Data!Tree(e) <=> Root!Tree(e)
  BY <1>1 DEF Data!Tree, Root!Tree
<1>3. \A e, p, x : Data!With(e, p, x) = Root!With(e, p, x)
  BY DEF Data!With, Root!With
<1>4. \A e, ps : Data!Without(e, ps) = Root!Without(e, ps)
  BY DEF Data!Without, Root!Without, Data!Restrict, Root!Restrict
<1>5. \A kind, n : Data!Plain(kind, n) = Root!Plain(kind, n)
  BY DEF Data!Plain, Root!Plain
<1>6. Data!Directory = Root!Directory
  BY <1>5 DEF Data!Directory, Root!Directory
<1>7. \A e, ps : Data!WithDirs(e, ps) = Root!WithDirs(e, ps)
  BY <1>6 DEF Data!WithDirs, Root!WithDirs
<1>8. \A e, kinds : Data!OfKind(e, kinds) = Root!OfKind(e, kinds)
  BY DEF Data!OfKind, Root!OfKind
<1> QED BY <1>1, <1>2, <1>3, <1>4, <1>5, <1>6, <1>7, <1>8

LEMMA PrefixesAgree ==
  /\ \A p, q : Root!IsPrefix(p, q) <=> IsPrefix(p, q)
  /\ \A p, q : Data!IsPrefix(p, q) <=> IsPrefix(p, q)
  /\ \A p, q : Root!IsStrictPrefix(p, q) => IsPrefix(p, q)
  /\ \A p, q : Data!IsStrictPrefix(p, q) => IsPrefix(p, q)
BY DEF Root!IsPrefix, Data!IsPrefix, IsPrefix, Root!IsStrictPrefix, Data!IsStrictPrefix

LEMMA EntryIs ==
  ASSUME NEW x, Root!WellFormed(x)
  PROVE  /\ x \in Root!Entry
         /\ x.kind \in {"file", "dir", "symlink", "fifo"} /\ x.size \in Nat
         /\ x.kind \in {"dir", "symlink"} => x.size = 0
BY DEF Root!WellFormed, Root!Entry, Root!Kinds

LEMMA PlainIs ==
  ASSUME NEW kind \in {"file", "fifo", "dir", "symlink"}, NEW n \in Nat,
         kind \in {"dir", "symlink"} => n = 0
  PROVE  /\ Root!WellFormed(Root!Plain(kind, n))
         /\ Root!Plain(kind, n).kind = kind /\ Root!Plain(kind, n).size = n
<1>1. kind \in Root!Kinds /\ kind # "lazy"
  BY DEF Root!Kinds
<1>2. Root!Plain(kind, n) = [kind |-> kind, size |-> n, loader |-> NoLoader]
  BY DEF Root!Plain
<1>3. Root!Plain(kind, n) \in Root!Entry
  BY <1>1, <1>2 DEF Root!Entry
<1>4. Root!Plain(kind, n).kind = kind /\ Root!Plain(kind, n).size = n
  BY <1>2
<1> QED BY <1>1, <1>3, <1>4, Zenon DEF Root!WellFormed

LEMMA DirectoryIs == Root!WellFormed(Root!Directory) /\ Root!Directory.kind = "dir"
BY PlainIs DEF Root!Directory

LEMMA StaysMoved ==
  ASSUME NEW e, Root!Tree(e), NEW ps
  PROVE  Moved(e, e, ps)
BY DEF Moved, Same

LEMMA SetMoved ==
  ASSUME NEW e, Root!Tree(e), NEW p \in Paths, NEW x, Root!WellFormed(x), NEW ps, p \in ps
  PROVE  Moved(e, Root!With(e, p, x), ps)
<1>1. PICK f : f = Root!With(e, p, x)
  OBVIOUS
<1>2. DOMAIN f = DOMAIN e \cup {p} /\ \A q \in DOMAIN f : f[q] = IF q = p THEN x ELSE e[q]
  BY <1>1 DEF Root!With
<1>3. Root!Tree(f)
  BY <1>2 DEF Root!Tree
<1>4. \A r \in Paths : r # p => Same(e, f, r)
  BY <1>2 DEF Same
<1> QED BY <1>1, <1>3, <1>4, RelatedSelf DEF Moved

LEMMA UnsetMoved ==
  ASSUME NEW e, Root!Tree(e), NEW p, NEW ps, p \in ps, NEW gone, \A r \in gone : Related(p, r)
  PROVE  Moved(e, Root!Without(e, gone), ps)
<1>1. PICK f : f = Root!Without(e, gone)
  OBVIOUS
<1>2. DOMAIN f = DOMAIN e \ gone /\ \A q \in DOMAIN f : f[q] = e[q]
  BY <1>1 DEF Root!Without, Root!Restrict
<1>3. Root!Tree(f)
  BY <1>2 DEF Root!Tree
<1>4. \A r \in Paths : r \notin gone => Same(e, f, r)
  BY <1>2 DEF Same
<1> QED BY <1>1, <1>3, <1>4 DEF Moved

LEMMA DirsMoved ==
  ASSUME NEW e, Root!Tree(e), NEW p, NEW ps, p \in ps,
         NEW made \in SUBSET Paths, \A r \in made : Related(p, r)
  PROVE  Moved(e, Root!WithDirs(e, made), ps)
<1>1. PICK f : f = Root!WithDirs(e, made)
  OBVIOUS
<1>2. /\ DOMAIN f = DOMAIN e \cup made
      /\ \A q \in DOMAIN f : f[q] = IF q \in DOMAIN e THEN e[q] ELSE Root!Directory
  BY <1>1 DEF Root!WithDirs
<1>3. Root!Tree(f)
  BY <1>2, DirectoryIs DEF Root!Tree
<1>4. \A r \in Paths : r \notin made => Same(e, f, r)
  BY <1>2 DEF Same
<1> QED BY <1>1, <1>3, <1>4 DEF Moved

LEMMA GrownMoved ==
  ASSUME NEW e, Root!Tree(e), NEW p \in Paths, NEW ps, p \in ps,
         p \in Root!OfKind(e, {"file", "lazy", "fifo"}), NEW n \in Nat
  PROVE  Moved(e, [e EXCEPT ![p].size = @ + n], ps)
<1>1. PICK f : f = [e EXCEPT ![p].size = @ + n]
  OBVIOUS
<1>2. p \in DOMAIN e /\ Root!WellFormed(e[p]) /\ e[p].kind \in {"file", "fifo"}
  BY EntryIs DEF Root!Tree, Root!OfKind
<1>3. e[p] \in Root!Entry /\ e[p].size \in Nat
  BY <1>2, EntryIs
<1>4. /\ DOMAIN f = DOMAIN e /\ \A q \in DOMAIN e : q # p => f[q] = e[q]
      /\ f[p] = [e[p] EXCEPT !.size = @ + n]
  BY <1>1, <1>2
<1>5. e[p].size + n \in Nat
  BY <1>3
<1>6. f[p] \in Root!Entry
  BY <1>3, <1>4, <1>5, Zenon DEF Root!Entry
<1>7. f[p].kind = e[p].kind
  BY <1>3, <1>4 DEF Root!Entry
<1>8. Root!WellFormed(f[p])
  BY <1>2, <1>6, <1>7 DEF Root!WellFormed
<1>9. Root!Tree(f)
  BY <1>4, <1>8 DEF Root!Tree
<1>10. \A r \in Paths : r # p => Same(e, f, r)
  BY <1>4 DEF Same
<1> QED BY <1>1, <1>9, <1>10, RelatedSelf DEF Moved

LEMMA MovedTwice ==
  ASSUME NEW e, NEW f, NEW g, NEW ps, Moved(e, f, ps), Moved(f, g, ps)
  PROVE  Moved(e, g, ps)
BY DEF Moved, Same

(* The paths an operation names.                                           *)
Named(op, p, q) == IF op \in TwoPaths THEN {p, q} ELSE {p}

(* One call to the root.                                                   *)
LEMMA OnRootMoved ==
  ASSUME Root!Tree(root), NEW op, NEW p \in Paths, NEW q, op \in TwoPaths => q \in Paths,
         NEW n \in Nat, OnRoot(op, p, q, n)
  PROVE  Moved(root, root', Named(op, p, q))
<1> USE DEF Root!Succeeds, Root!Fails, Root!Ends
<1> DEFINE ps == Named(op, p, q)
<1>1. p \in ps /\ (op \in TwoPaths => q \in ps)
  BY DEF Named
<1> HIDE DEF ps
<1>2. CASE root' = root
  BY <1>2, StaysMoved DEF ps
<1>3. ASSUME NEW x, Root!WellFormed(x) PROVE Moved(root, Root!With(root, p, x), ps)
  BY <1>1, <1>3, SetMoved
<1>4. ASSUME op = "write", Root!WriteFile(p, n) PROVE Moved(root, root', ps)
  <2>1. ASSUME NEW kind \in {"file", "fifo"} PROVE Root!WellFormed(Root!Plain(kind, n))
    BY PlainIs
  <2> QED BY <1>2, <1>3, <1>4, <2>1 DEF Root!WriteFile, ps
<1>5. ASSUME op = "append", Root!AppendNew(p, n) PROVE Moved(root, root', ps)
  BY <1>2, <1>3, <1>5, PlainIs DEF Root!AppendNew, ps
<1>6. ASSUME op = "append", Root!AppendOld(p, n) PROVE Moved(root, root', ps)
  <2>1. p \in Root!OfKind(root, {"file", "lazy", "fifo"})
    BY <1>6 DEF Root!AppendOld, Root!Counted
  <2>2. ~Root!IsLazy(root, p)
    BY EntryIs DEF Root!IsLazy, Root!OfKind, Root!Tree
  <2>3. root' = root \/ root' = [root EXCEPT ![p].size = @ + n]
    BY <1>6, <2>2 DEF Root!AppendOld
  <2> QED BY <1>1, <1>2, <2>1, <2>3, GrownMoved DEF ps
<1>7. ASSUME op = "append", Root!AppendElsewhere(p) PROVE Moved(root, root', ps)
  BY <1>2, <1>7 DEF Root!AppendElsewhere, ps
<1>8. ASSUME op = "mkdir", Root!Mkdir(p) PROVE Moved(root, root', ps)
  BY <1>2, <1>3, <1>8, DirectoryIs DEF Root!Mkdir, ps
<1>9. ASSUME op = "mkdirAll", Root!MkdirAll(p) PROVE Moved(root, root', ps)
  <2>1. PICK made : /\ made \subseteq Root!Ancestors(p) \cup {p}
                    /\ root' = Root!WithDirs(root, made)
    BY <1>9 DEF Root!MkdirAll
  <2>2. \A r \in made : Related(p, r) /\ r \in Paths
    BY <2>1, PrefixesAgree, PrefixSelf DEF Root!Ancestors, Related
  <2> QED BY <1>1, <2>1, <2>2, DirsMoved
<1>10. ASSUME NEW all \in BOOLEAN, Root!RemovePath(p, all) PROVE Moved(root, root', ps)
  <2>1. \/ root' = root
        \/ root' = Root!Without(root, {r \in DOMAIN root : Root!IsPrefix(p, r)})
        \/ root' = Root!Without(root, {p})
    BY <1>10 DEF Root!RemovePath
  <2>2. \A r \in {r \in DOMAIN root : Root!IsPrefix(p, r)} : Related(p, r)
    BY PrefixesAgree DEF Related
  <2>3. \A r \in {p} : Related(p, r)
    BY RelatedSelf
  <2> QED BY <1>1, <1>2, <2>1, <2>2, <2>3, UnsetMoved DEF ps
<1>11. ASSUME op = "symlink", Root!Symlink(p) PROVE Moved(root, root', ps)
  BY <1>2, <1>3, <1>11, PlainIs DEF Root!Symlink, ps
<1>12. ASSUME op = "mkfifo", Root!Mkfifo(p) PROVE Moved(root, root', ps)
  BY <1>2, <1>3, <1>12, PlainIs DEF Root!Mkfifo, ps
<1>13. ASSUME op = "rename", Root!Rename(p, q) PROVE Moved(root, root', ps)
  <2>1. PICK f : f = Root!Without(root, {p})
    OBVIOUS
  <2>2. Moved(root, f, ps)
    BY <1>1, <2>1, UnsetMoved, RelatedSelf
  <2>3. root' = root \/ (p \in DOMAIN root /\ root' = Root!With(f, q, root[p]))
    BY <1>13, <2>1 DEF Root!Rename, Root!PutBack
  <2>4. ASSUME p \in DOMAIN root PROVE Moved(f, Root!With(f, q, root[p]), ps)
    <3>1. q \in Paths /\ q \in ps
      BY <1>1, <1>13 DEF TwoPaths
    <3>2. Root!WellFormed(root[p]) /\ Root!Tree(f)
      BY <2>2, <2>4 DEF Root!Tree, Moved
    <3> QED BY <3>1, <3>2, SetMoved
  <2> QED BY <1>2, <2>2, <2>3, <2>4, MovedTwice DEF ps
<1>14. ASSUME op = "copy", Root!Copy(p, q) PROVE Moved(root, root', ps)
  <2>1. root' = root \/ (p \in DOMAIN root /\ root' = Root!With(root, q, root[p]))
    BY <1>14 DEF Root!Copy
  <2>2. ASSUME p \in DOMAIN root PROVE Moved(root, Root!With(root, q, root[p]), ps)
    <3>1. q \in Paths /\ q \in ps
      BY <1>1, <1>14 DEF TwoPaths
    <3>2. Root!WellFormed(root[p])
      BY <2>2 DEF Root!Tree
    <3> QED BY <3>1, <3>2, SetMoved
  <2> QED BY <1>2, <2>1, <2>2 DEF ps
<1>15. Moved(root, root', ps)
  BY <1>4, <1>5, <1>6, <1>7, <1>8, <1>9, <1>10, <1>11, <1>12, <1>13, <1>14 DEF OnRoot
<1> QED BY <1>15 DEF ps

(* One call to the other.                                                  *)
LEMMA OnDataMoved ==
  ASSUME Root!Tree(data), NEW op, NEW p \in Paths, NEW q, op \in TwoPaths => q \in Paths,
         NEW n \in Nat, OnData(op, p, q, n)
  PROVE  Moved(data, data', Named(op, p, q))
<1> USE DEF Data!Succeeds, Data!Fails, Data!Ends
<1> DEFINE ps == Named(op, p, q)
<1>1. p \in ps /\ (op \in TwoPaths => q \in ps)
  BY DEF Named
<1> HIDE DEF ps
<1>2. CASE data' = data
  BY <1>2, StaysMoved DEF ps
<1>3. ASSUME NEW x, Root!WellFormed(x) PROVE Moved(data, Data!With(data, p, x), ps)
  BY <1>1, <1>3, SetMoved, OneKind
<1>4. ASSUME op = "write", Data!WriteFile(p, n) PROVE Moved(data, data', ps)
  <2>1. ASSUME NEW kind \in {"file", "fifo"} PROVE Root!WellFormed(Data!Plain(kind, n))
    BY PlainIs, OneKind
  <2> QED BY <1>2, <1>3, <1>4, <2>1 DEF Data!WriteFile, ps
<1>5. ASSUME op = "append", Data!AppendNew(p, n) PROVE Moved(data, data', ps)
  BY <1>2, <1>3, <1>5, PlainIs, OneKind DEF Data!AppendNew, ps
<1>6. ASSUME op = "append", Data!AppendOld(p, n) PROVE Moved(data, data', ps)
  <2>1. p \in Data!OfKind(data, {"file", "lazy", "fifo"})
    BY <1>6 DEF Data!AppendOld, Data!Counted
  <2>2. ~Data!IsLazy(data, p)
    BY EntryIs, OneKind DEF Data!IsLazy, Root!OfKind, Root!Tree
  <2>3. data' = data \/ data' = [data EXCEPT ![p].size = @ + n]
    BY <1>6, <2>2 DEF Data!AppendOld
  <2> QED BY <1>1, <1>2, <2>1, <2>3, GrownMoved, OneKind DEF ps
<1>7. ASSUME op = "append", Data!AppendElsewhere(p) PROVE Moved(data, data', ps)
  BY <1>2, <1>7 DEF Data!AppendElsewhere, ps
<1>8. ASSUME op = "mkdir", Data!Mkdir(p) PROVE Moved(data, data', ps)
  BY <1>2, <1>3, <1>8, DirectoryIs, OneKind DEF Data!Mkdir, ps
<1>9. ASSUME op = "mkdirAll", Data!MkdirAll(p) PROVE Moved(data, data', ps)
  <2>1. PICK made : /\ made \subseteq Data!Ancestors(p) \cup {p}
                    /\ data' = Data!WithDirs(data, made)
    BY <1>9 DEF Data!MkdirAll
  <2>2. \A r \in made : Related(p, r) /\ r \in Paths
    BY <2>1, PrefixesAgree, PrefixSelf DEF Data!Ancestors, Related
  <2> QED BY <1>1, <2>1, <2>2, DirsMoved, OneKind
<1>10. ASSUME NEW all \in BOOLEAN, Data!RemovePath(p, all) PROVE Moved(data, data', ps)
  <2>1. \/ data' = data
        \/ data' = Data!Without(data, {r \in DOMAIN data : Data!IsPrefix(p, r)})
        \/ data' = Data!Without(data, {p})
    BY <1>10 DEF Data!RemovePath
  <2>2. \A r \in {r \in DOMAIN data : Data!IsPrefix(p, r)} : Related(p, r)
    BY PrefixesAgree DEF Related
  <2>3. \A r \in {p} : Related(p, r)
    BY RelatedSelf
  <2> QED BY <1>1, <1>2, <2>1, <2>2, <2>3, UnsetMoved, OneKind DEF ps
<1>11. ASSUME op = "symlink", Data!Symlink(p) PROVE Moved(data, data', ps)
  BY <1>2, <1>3, <1>11, PlainIs, OneKind DEF Data!Symlink, ps
<1>12. ASSUME op = "mkfifo", Data!Mkfifo(p) PROVE Moved(data, data', ps)
  BY <1>2, <1>3, <1>12, PlainIs, OneKind DEF Data!Mkfifo, ps
<1>13. ASSUME op = "rename", Data!Rename(p, q) PROVE Moved(data, data', ps)
  <2>1. PICK f : f = Data!Without(data, {p})
    OBVIOUS
  <2>2. Moved(data, f, ps)
    BY <1>1, <2>1, UnsetMoved, OneKind, RelatedSelf
  <2>3. data' = data \/ (p \in DOMAIN data /\ data' = Data!With(f, q, data[p]))
    BY <1>13, <2>1 DEF Data!Rename, Data!PutBack
  <2>4. ASSUME p \in DOMAIN data PROVE Moved(f, Data!With(f, q, data[p]), ps)
    <3>1. q \in Paths /\ q \in ps
      BY <1>1, <1>13 DEF TwoPaths
    <3>2. Root!WellFormed(data[p]) /\ Root!Tree(f)
      BY <2>2, <2>4 DEF Root!Tree, Moved
    <3> QED BY <3>1, <3>2, SetMoved, OneKind
  <2> QED BY <1>2, <2>2, <2>3, <2>4, MovedTwice DEF ps
<1>14. ASSUME op = "copy", Data!Copy(p, q) PROVE Moved(data, data', ps)
  <2>1. data' = data \/ (p \in DOMAIN data /\ data' = Data!With(data, q, data[p]))
    BY <1>14 DEF Data!Copy
  <2>2. ASSUME p \in DOMAIN data PROVE Moved(data, Data!With(data, q, data[p]), ps)
    <3>1. q \in Paths /\ q \in ps
      BY <1>1, <1>14 DEF TwoPaths
    <3>2. Root!WellFormed(data[p])
      BY <2>2 DEF Root!Tree
    <3> QED BY <3>1, <3>2, SetMoved, OneKind
  <2> QED BY <1>2, <2>1, <2>2 DEF ps
<1>15. Moved(data, data', ps)
  BY <1>4, <1>5, <1>6, <1>7, <1>8, <1>9, <1>10, <1>11, <1>12, <1>13, <1>14 DEF OnData
<1> QED BY <1>15 DEF ps

LEMMA BackendMoved ==
  ASSUME Root!Tree(root), Root!Tree(data), NEW op, NEW at \in Places, NEW q,
         op \in TwoPaths => q \in Paths, NEW n \in Nat, CallsBackend(op, at, q, n)
  PROVE  \/ root' = root /\ data' = data
         \/ /\ at.fs = "root" /\ at.arc # "readonly"
            /\ Moved(root, root', Named(op, at.path, q)) /\ data' = data
         \/ /\ at.fs = "data" /\ at.arc # "readonly"
            /\ Moved(data, data', Named(op, at.path, q)) /\ root' = root
<1>1. at.path \in Paths
  BY DEF Places
<1>2. CASE ~Allowed(at.arc, op)
  BY <1>2 DEF CallsBackend
<1>3. CASE at.fs = "root" /\ Allowed(at.arc, op)
  <2>1. OnRoot(op, at.path, q, n) /\ data' = data
    BY <1>3 DEF CallsBackend
  <2>2. Moved(root, root', Named(op, at.path, q))
    BY <1>1, <2>1, OnRootMoved
  <2> QED BY <1>3, <2>1, <2>2 DEF Allowed
<1>4. CASE at.fs = "data" /\ Allowed(at.arc, op)
  <2>1. OnData(op, at.path, q, n) /\ root' = root
    BY <1>4 DEF CallsBackend
  <2>2. Moved(data, data', Named(op, at.path, q))
    BY <1>1, <2>1, OnDataMoved
  <2> QED BY <1>4, <2>1, <2>2 DEF Allowed
<1> QED BY <1>2, <1>3, <1>4 DEF CallsBackend

LEMMA BackendTrees ==
  ASSUME Root!Tree(root), Root!Tree(data), NEW op, NEW at \in Places, NEW q,
         op \in TwoPaths => q \in Paths, NEW n \in Nat, CallsBackend(op, at, q, n)
  PROVE  Root!Tree(root') /\ Root!Tree(data')
BY BackendMoved DEF Moved

----------------------------------------------------------------------------
(***************************************************************************)
(* Types.  What an operation remembers has its type, and its stage says    *)
(* what it found: two backends when it goes on to read, one when it is a   *)
(* single call.                                                            *)
(***************************************************************************)
CallType ==
  [op : OnePath \cup TwoPaths, size : Nat, from : Paths, to : Paths,
   src : Places, dst : Places, want : Root!Entry \cup {NoEntry}, fresh : BOOLEAN,
   next : {"resolve", "call", "read", "write", "remove"}]

Staged(c) ==
  /\ c.next \in {"write", "remove"} => c.want \in Root!Entry
  /\ c.next \in {"read", "write", "remove"} =>
       <<c.src.fs, c.src.arc>> # <<c.dst.fs, c.dst.arc>>
  /\ c.next = "call" => PtrEq(c.src, c.dst)

CallsInv ==
  /\ call \in [Sessions -> CallType \cup {NoCall}]
  /\ \A s \in Sessions : call[s] # NoCall => Staged(call[s])

TypeInv == Root!Tree(root) /\ Root!Tree(data) /\ MountsType /\ CallsInv

LEMMA CallIs ==
  ASSUME NEW c \in CallType
  PROVE  /\ c.op \in OnePath \cup TwoPaths /\ c.size \in Nat
         /\ c.from \in Paths /\ c.to \in Paths /\ c.src \in Places /\ c.dst \in Places
         /\ c.want \in Root!Entry \cup {NoEntry} /\ c.fresh \in BOOLEAN
         /\ c.next \in {"resolve", "call", "read", "write", "remove"}
BY DEF CallType

LEMMA PlaceIs ==
  ASSUME NEW at \in Places
  PROVE  /\ at.fs \in {"root", "data"} /\ at.arc \in {"itself", "readonly", "another"}
         /\ at.path \in Paths
BY DEF Places

LEMMA CarriedIs ==
  ASSUME NEW x, Root!WellFormed(x)
  PROVE  Carried(x) \in Root!Entry
<1>1. x.size \in Nat /\ (x.kind = "symlink" => x.size = 0)
  BY EntryIs
<1>2. ASSUME NEW kind \in {"file", "symlink"}, kind = "symlink" => x.size = 0
      PROVE  Root!Plain(kind, x.size) \in Root!Entry
  BY <1>1, <1>2, PlainIs, EntryIs
<1> QED BY <1>1, <1>2 DEF Carried

LEMMA PlacesTree ==
  ASSUME Root!Tree(root), Root!Tree(data), NEW at \in Places, Found(at)
  PROVE  Root!WellFormed(Tree(at.fs)[at.path])
BY DEF Tree, Found, Root!Tree

LEMMA CallsInvOne ==
  ASSUME CallsInv, NEW s \in Sessions, NEW c \in CallType \cup {NoCall},
         c # NoCall => Staged(c), call' = [call EXCEPT ![s] = c]
  PROVE  CallsInv'
<1>1. call' \in [Sessions -> CallType \cup {NoCall}]
  BY DEF CallsInv
<1>2. ASSUME NEW t \in Sessions, call'[t] # NoCall PROVE Staged(call'[t])
  BY <1>2 DEF CallsInv
<1>3. \A t \in Sessions : (call[t])' = call'[t]
  OBVIOUS
<1> QED BY <1>1, <1>2 DEF CallsInv, Staged

LEMMA BeginsType ==
  ASSUME TypeInv, NEW s \in Sessions, NEW op \in Operations, NEW from \in Targets,
         NEW to \in Targets, NEW n \in Nat, Begins(s, op, from, to, n)
  PROVE  CallsInv'
<1> DEFINE c == [op |-> op, size |-> n, from |-> from, to |-> to,
                 src |-> Resolve(from), dst |-> Resolve(from), want |-> NoEntry,
                 fresh |-> TRUE, next |-> IF op \in TwoPaths THEN "resolve" ELSE "call"]
<1>1. from \in Paths /\ to \in Paths /\ op \in OnePath \cup TwoPaths
  BY MountPointsAssumption, OperationsAssumption
<1>2. Resolve(from) \in Places
  BY <1>1, ResolveType DEF TypeInv
<1>3. (IF op \in TwoPaths THEN "resolve" ELSE "call") \in
        {"resolve", "call", "read", "write", "remove"}
  OBVIOUS
<1>4. c \in CallType
  BY <1>1, <1>2, <1>3, Zenon DEF CallType
<1>5. Staged(c)
  BY DEF Staged, PtrEq
<1>6. call' = [call EXCEPT ![s] = c]
  BY DEF Begins
<1> HIDE DEF c
<1> QED BY <1>4, <1>5, <1>6, CallsInvOne DEF TypeInv

LEMMA ResolvesToType ==
  ASSUME TypeInv, NEW s \in Sessions, ResolvesTo(s)
  PROVE  CallsInv'
<1> DEFINE to == Resolve(call[s].to)
           same == PtrEq(call[s].src, to)
           next == IF same THEN "call" ELSE "read"
<1>1. call[s] \in CallType
  BY DEF ResolvesTo, TypeInv, CallsInv
<1>2. to \in Places /\ call[s].src \in Places
  BY <1>1, CallIs, ResolveType DEF TypeInv
<1>3. PICK c : c = [call[s] EXCEPT !.dst = to, !.next = next]
  OBVIOUS
<1>4. call' = [call EXCEPT ![s] = c]
  <2>1. call \in [Sessions -> CallType \cup {NoCall}]
    BY DEF TypeInv, CallsInv
  <2> QED BY <1>3, <2>1 DEF ResolvesTo
<1>5. next \in {"resolve", "call", "read", "write", "remove"}
  OBVIOUS
<1> HIDE DEF next, to
<1>6. c \in CallType
  BY <1>1, <1>2, <1>3, <1>5 DEF CallType
<1>7. c.src = call[s].src /\ c.dst = to /\ c.next = next
  BY <1>1, <1>3 DEF CallType
<1>8. Staged(c)
  BY <1>2, <1>7 DEF Staged, next, PtrEq
<1> QED BY <1>4, <1>6, <1>8, CallsInvOne DEF TypeInv

LEMMA EndsType ==
  ASSUME TypeInv, NEW s \in Sessions, Ends(s)
  PROVE  CallsInv'
BY CallsInvOne DEF Ends, TypeInv

LEMMA GoesType ==
  ASSUME TypeInv, NEW s \in Sessions, NEW c \in CallType, Staged(c),
         call' = [call EXCEPT ![s] = c]
  PROVE  CallsInv'
BY CallsInvOne DEF TypeInv

LEMMA ReadsType ==
  ASSUME TypeInv, NEW s \in Sessions, Reads(s)
  PROVE  CallsInv'
<1> DEFINE c == call[s]
           found == Found(c.src) /\ Tree(c.src.fs)[c.src.path].kind \in Movable
           want == Carried(Tree(c.src.fs)[c.src.path])
<1>1. c \in CallType /\ Staged(c) /\ c.next = "read"
  BY DEF Reads, TypeInv, CallsInv
<1>2. CASE ~found
  <2>1. Ends(s)
    BY <1>2 DEF Reads
  <2> QED BY <2>1, EndsType
<1>3. CASE found
  <2>1. c.src \in Places
    BY <1>1, CallIs
  <2>2. want \in Root!Entry
    BY <1>3, <2>1, PlacesTree, CarriedIs DEF TypeInv
  <2>3. PICK d : d = [Goes(c, "write") EXCEPT !.want = want]
    OBVIOUS
  <2>4. call' = [call EXCEPT ![s] = d]
    BY <1>3, <2>3 DEF Reads
  <2> HIDE DEF want, c
  <2>5. d \in CallType
    BY <1>1, <2>2, <2>3 DEF CallType, Goes
  <2>6. d.src = c.src /\ d.dst = c.dst /\ d.want = want /\ d.next = "write"
    BY <1>1, <2>3 DEF CallType, Goes
  <2>7. Staged(d)
    BY <1>1, <2>2, <2>6 DEF Staged
  <2> QED BY <2>4, <2>5, <2>7, GoesType
<1> QED BY <1>2, <1>3

LEMMA WritesType ==
  ASSUME TypeInv, NEW s \in Sessions, Writes(s)
  PROVE  CallsInv'
<1> DEFINE c == call[s]
<1>1. c \in CallType /\ Staged(c) /\ c.next = "write"
  BY DEF Writes, TypeInv, CallsInv
<1>2. CASE Ends(s)
  BY <1>2, EndsType
<1>3. CASE call' = [call EXCEPT ![s] = Goes(c, "remove")]
  <2>1. PICK d : d = Goes(c, "remove")
    OBVIOUS
  <2>2. call' = [call EXCEPT ![s] = d]
    BY <1>3, <2>1
  <2> HIDE DEF c
  <2>3. d \in CallType
    BY <1>1, <2>1 DEF CallType, Goes
  <2>4. d.src = c.src /\ d.dst = c.dst /\ d.want = c.want /\ d.next = "remove"
    BY <1>1, <2>1 DEF CallType, Goes
  <2>5. Staged(d)
    BY <1>1, <2>4 DEF Staged
  <2> QED BY <2>2, <2>3, <2>5, GoesType
<1> QED BY <1>2, <1>3 DEF Writes

LEMMA StagedCallIs ==
  ASSUME TypeInv, NEW s \in Sessions, call[s] # NoCall
  PROVE  /\ call[s] \in CallType /\ Staged(call[s])
         /\ call[s].src \in Places /\ call[s].dst \in Places
         /\ call[s].src.path \in Paths /\ call[s].dst.path \in Paths
         /\ call[s].size \in Nat
         /\ call[s].next \in {"write", "remove"} =>
              call[s].want \in Root!Entry /\ call[s].want.size \in Nat
<1>1. call[s] \in CallType /\ Staged(call[s])
  BY DEF TypeInv, CallsInv
<1>2. \A x \in Root!Entry : x.size \in Nat
  BY DEF Root!Entry
<1>3. call[s].src \in Places /\ call[s].dst \in Places /\ call[s].size \in Nat
  BY <1>1, CallIs
<1> QED BY <1>1, <1>2, <1>3, PlaceIs DEF Staged

LEMMA RunsType ==
  ASSUME TypeInv, NEW s \in Sessions, Runs(s)
  PROVE  TypeInv'
<1>1. mounts' = mounts
  BY DEF Runs, ResolvesTo, Calls, Reads, Writes, Removes, Idle
<1>2. MountsType'
  BY <1>1 DEF MountsType, TypeInv
<1>3. CallsInv'
  <2>1. CASE Calls(s) \/ Removes(s)
    BY <2>1, EndsType DEF Calls, Removes
  <2> QED BY <2>1, ResolvesToType, ReadsType, WritesType DEF Runs
<1>4. Root!Tree(root') /\ Root!Tree(data')
  <2>1. CASE ResolvesTo(s) \/ Reads(s)
    BY <2>1 DEF ResolvesTo, Reads, Idle, TypeInv
  <2>2. CASE Calls(s)
    BY <2>2, StagedCallIs, BackendTrees DEF Calls, TypeInv
  <2>3. CASE Writes(s)
    <3>1. PICK op \in {"symlink", "write"} :
            CallsBackend(op, call[s].dst, <<>>, call[s].want.size)
      BY <2>3 DEF Writes
    <3>2. op \notin TwoPaths
      BY DEF TwoPaths
    <3>3. call[s].dst \in Places /\ call[s].want.size \in Nat
      BY <2>3, StagedCallIs DEF Writes
    <3> QED BY <3>1, <3>2, <3>3, BackendTrees DEF TypeInv
  <2>4. CASE Removes(s)
    <3>1. CallsBackend("remove", call[s].src, <<>>, 0) /\ "remove" \notin TwoPaths
      BY <2>4 DEF Removes, TwoPaths
    <3>2. call[s].src \in Places
      BY <2>4, StagedCallIs DEF Removes
    <3> QED BY <3>1, <3>2, BackendTrees DEF TypeInv
  <2> QED BY <2>1, <2>2, <2>3, <2>4 DEF Runs
<1>5. Root!Tree(root)' /\ Root!Tree(data)'
  BY <1>4 DEF Root!Tree, Root!WellFormed
<1> QED BY <1>2, <1>3, <1>5 DEF TypeInv

LEMMA NothingFreshType ==
  ASSUME TypeInv, NothingFresh
  PROVE  CallsInv'
<1>1. ASSUME NEW c \in CallType
      PROVE  [c EXCEPT !.fresh = FALSE] \in CallType
  BY DEF CallType
<1>2. ASSUME NEW c \in CallType, Staged(c)
      PROVE  Staged([c EXCEPT !.fresh = FALSE])
  <2>1. PICK d : d = [c EXCEPT !.fresh = FALSE]
    OBVIOUS
  <2>2. d.src = c.src /\ d.dst = c.dst /\ d.want = c.want /\ d.next = c.next
    BY <2>1 DEF CallType
  <2> QED BY <1>2, <2>1, <2>2 DEF Staged
<1>3. ASSUME NEW s \in Sessions
      PROVE  /\ call'[s] \in CallType \cup {NoCall}
             /\ call'[s] # NoCall => Staged(call'[s])
  BY <1>1, <1>2 DEF NothingFresh, TypeInv, CallsInv
<1>4. call' \in [Sessions -> CallType \cup {NoCall}]
  BY <1>3 DEF NothingFresh
<1> QED BY <1>3, <1>4 DEF CallsInv, Staged

LEMMA HostType ==
  ASSUME TypeInv, Host
  PROVE  TypeInv'
<1>1. root' = root /\ data' = data /\ NothingFresh
  BY DEF Host, Mount, Unmount
<1>2. Root!Tree(root)' /\ Root!Tree(data)'
  BY <1>1 DEF TypeInv, Root!Tree, Root!WellFormed
<1>3. CallsInv'
  BY <1>1, NothingFreshType
<1>4. ASSUME NEW m \in MountPoints, NEW arc \in Arcs, Mount(m, arc) PROVE MountsType'
  <2>1. PICK b : b = [fs |-> "data", arc |-> arc]
    OBVIOUS
  <2>2. b \in Backend
    BY <2>1, MountPointsAssumption DEF Backend
  <2>3. mounts' = [q \in DOMAIN mounts \cup {m} |-> IF q = m THEN b ELSE mounts[q]]
    BY <1>4, <2>1 DEF Mount, Root!With
  <2> QED BY <2>2, <2>3 DEF MountsType, TypeInv
<1>5. ASSUME NEW m \in MountPoints, Unmount(m) PROVE MountsType'
  <2>1. mounts' = [q \in DOMAIN mounts \cap (DOMAIN mounts \ {m}) |-> mounts[q]]
    BY <1>5 DEF Unmount, Root!Without, Root!Restrict
  <2> QED BY <2>1 DEF MountsType, TypeInv
<1> QED BY <1>2, <1>3, <1>4, <1>5 DEF Host, TypeInv

LEMMA StartsType ==
  ASSUME TypeInv, NEW s \in Sessions, Starts(s)
  PROVE  TypeInv'
<1>1. Idle /\ CallsInv'
  <2>1. ASSUME NEW from \in Targets, NEW op \in Operations \cap OnePath, NEW n \in Sizes,
               Begins(s, op, from, from, n)
        PROVE  Idle /\ CallsInv'
    BY <2>1, BeginsType, PathsAssumption DEF Begins
  <2>2. ASSUME NEW from \in Targets, NEW op \in Operations \cap TwoPaths,
               NEW to \in Targets, Begins(s, op, from, to, 0)
        PROVE  Idle /\ CallsInv'
    BY <2>2, BeginsType DEF Begins
  <2> QED BY <2>1, <2>2 DEF Starts
<1>2. root' = root /\ data' = data /\ mounts' = mounts
  BY <1>1 DEF Idle
<1> QED BY <1>1, <1>2 DEF TypeInv, MountsType, Root!Tree, Root!WellFormed

LEMMA TypeInvInit == Init => TypeInv
<1> SUFFICES ASSUME Init PROVE TypeInv
  OBVIOUS
<1>1. MountsType
  BY DEF Init, MountsType
<1>2. CallsInv
  BY DEF Init, CallsInv
<1>3. Root!Tree(root) /\ Root!Tree(data)
  BY PathsAssumption, DirectoryIs, OneKind DEF Init, Root!Tree
<1> QED BY <1>1, <1>2, <1>3 DEF TypeInv

LEMMA TypeInvStep == TypeInv /\ [Next]_vars => TypeInv'
<1> SUFFICES ASSUME TypeInv, [Next]_vars PROVE TypeInv'
  OBVIOUS
<1>1. CASE UNCHANGED vars
  BY <1>1 DEF vars, TypeInv, MountsType, CallsInv, Staged, Root!Tree, Root!WellFormed
<1> QED BY <1>1, RunsType, HostType, StartsType DEF Next

LEMMA TypeInvHolds == Spec => []TypeInv
BY TypeInvInit, TypeInvStep, PTL DEF Spec

LEMMA TypeInvImpliesTypeOK == TypeInv => TypeOK
<1> SUFFICES ASSUME TypeInv PROVE TypeOK
  OBVIOUS
<1>1. Root!Tree(root) /\ Data!Tree(data)
  BY OneKind DEF TypeInv
<1>2. ASSUME NEW s \in Sessions, call[s] # NoCall
      PROVE  LET c == call[s] IN
             /\ c.op \in OnePath \cup TwoPaths /\ c.src \in Places /\ c.dst \in Places
             /\ c.next \in {"resolve", "call", "read", "write", "remove"}
             /\ c.next \in {"write", "remove"} => c.want \in Root!Entry
             /\ c.next \in {"read", "write", "remove"} =>
                  <<c.src.fs, c.src.arc>> # <<c.dst.fs, c.dst.arc>>
  BY <1>2, StagedCallIs, CallIs DEF Staged
<1> QED BY <1>1, <1>2 DEF TypeOK, TypeInv, MountsType

(* The types, whatever the host mounts and unmounts: both trees stay       *)
(* trees, every operation holds places of file systems that exist, and it  *)
(* reads, writes and removes only when it found two backends               *)
(* (mountable.rs:149, :442).                                               *)
THEOREM TypeTheorem == Spec => []TypeOK
BY TypeInvHolds, TypeInvImpliesTypeOK, PTL

----------------------------------------------------------------------------
(***************************************************************************)
(* Listings.                                                               *)
(***************************************************************************)
LEMMA AppendIs ==
  ASSUME NEW p \in Seq(STRING), NEW x \in STRING, NEW q, q = Append(p, x)
  PROVE  Last(q) = x
<1>1. /\ Append(p, x) \in Seq(STRING) /\ Len(Append(p, x)) = Len(p) + 1
      /\ Append(p, x)[Len(p) + 1] = x
  BY AppendProperties
<1>2. Len(q) = Len(p) + 1 /\ q[Len(p) + 1] = x
  BY <1>1, Zenon
<1>3. q[Len(q)] = x
  BY <1>2
<1> QED BY <1>3 DEF Last

LEMMA AppendParts ==
  ASSUME NEW q \in Seq(STRING), q # <<>>
  PROVE  Append(Front(q), Last(q)) = q
<1> DEFINE f == Front(q)
           r == Append(f, Last(q))
<1>1. /\ f \in Seq(STRING) /\ Len(q) \in Nat /\ Len(q) >= 1 /\ Len(f) = Len(q) - 1
      /\ \A i \in 1..Len(q) - 1 : f[i] = q[i]
      /\ Last(q) \in STRING /\ Last(q) = q[Len(q)]
  BY FrontIs
<1> HIDE DEF f
<1>2. /\ r \in Seq(STRING) /\ Len(r) = Len(f) + 1
      /\ \A i \in 1..Len(f) : r[i] = f[i]
      /\ r[Len(f) + 1] = Last(q)
  BY <1>1, AppendProperties
<1> HIDE DEF r
<1>3. Len(r) = Len(q)
  BY <1>1, <1>2
<1>4. ASSUME NEW i \in 1..Len(r) PROVE r[i] = q[i]
  <2>1. CASE i = Len(q)
    BY <1>1, <1>2, <2>1
  <2>2. CASE i # Len(q)
    <3>1. i \in 1..Len(f) /\ i \in 1..Len(q) - 1
      BY <1>1, <1>3, <2>2
    <3> QED BY <1>1, <1>2, <3>1
  <2> QED BY <2>1, <2>2
<1>5. r = q
  BY <1>2, <1>3, <1>4, SeqEqual
<1> QED BY <1>5 DEF r, f

LEMMA NotItsParent ==
  ASSUME NEW q \in Seq(STRING), q # <<>>
  PROVE  q # Front(q)
BY FrontIs

LEMMA TypeInvImpliesListing == TypeInv => ListingAgrees
<1> SUFFICES ASSUME TypeInv, NEW p \in Paths, NEW q \in Paths, q # <<>>, Front(q) = p
             PROVE  q \in Listed(p) <=> Exists(q)
  BY DEF ListingAgrees
<1> DEFINE a == Resolve(p)
           b == Resolve(q)
           e == Tree(a.fs)
<1>1. CASE q \in DOMAIN mounts
  BY <1>1 DEF Listed, Exists
<1>2. CASE q \notin DOMAIN mounts
  <2>1. /\ b.fs = a.fs /\ b.path # <<>>
        /\ Front(b.path) = a.path /\ Last(b.path) = Last(q)
    BY <1>2, ResolveChild DEF TypeInv
  <2>2. a \in Places /\ b \in Places
    BY ResolveType DEF TypeInv
  <2>3. DOMAIN e \subseteq Paths
    BY DEF Tree, TypeInv, Root!Tree
  <2>4. Exists(q) <=> b.path \in DOMAIN e
    BY <1>2, <2>1 DEF Exists, Found
  <2>5. q \in Listed(p) <=>
          \E r \in Root!Children(e, a.path) : q = Append(p, Last(r))
    BY <1>2 DEF Listed
  <2> HIDE DEF a, b, e
  <2>6. /\ b.path \in Paths /\ b.path \in Seq(STRING) /\ q \in Seq(STRING)
        /\ p \in Seq(STRING) /\ Last(q) \in STRING
    BY <2>2, PlaceIs, PathIs, FrontIs
  <2>7. ASSUME b.path \in DOMAIN e PROVE q \in Listed(p)
    <3>1. b.path # a.path
      BY <2>1, <2>6, NotItsParent
    <3>2. b.path \in Root!Children(e, a.path)
      BY <2>1, <2>7, <3>1 DEF Root!Children, Root!Front, Front
    <3>3. q = Append(p, Last(b.path))
      BY <2>1, <2>6, AppendParts
    <3> QED BY <2>5, <3>2, <3>3
  <2>8. ASSUME NEW r \in Root!Children(e, a.path), q = Append(p, Last(r))
        PROVE  b.path \in DOMAIN e
    <3>1. r \in DOMAIN e /\ r # <<>> /\ Front(r) = a.path
      BY DEF Root!Children, Root!Front, Front
    <3>2. r \in Seq(STRING)
      BY <2>3, <3>1, PathIs
    <3>3. Last(r) \in STRING
      BY <3>1, <3>2, FrontIs
    <3>4. Last(q) = Last(r)
      BY <2>6, <2>8, <3>3, AppendIs
    <3>5. b.path = r
      BY <2>1, <2>6, <3>1, <3>2, <3>4, PathFromParts
    <3> QED BY <3>1, <3>5
  <2> QED BY <2>4, <2>5, <2>7, <2>8
<1> QED BY <1>1, <1>2

(* read_dir and exists agree everywhere and in every state: what is listed *)
(* exists, and what exists in a directory is listed, through any nesting   *)
(* of mount points (mountable.rs:400, :431).                               *)
THEOREM ListingTheorem == Spec => []ListingAgrees
BY TypeInvHolds, TypeInvImpliesListing, PTL

----------------------------------------------------------------------------
(***************************************************************************)
(* Which trees an operation may change.                                    *)
(***************************************************************************)
(* A fresh operation holds what resolve answers now.                       *)
FreshInv ==
  \A s \in Sessions : call[s] # NoCall /\ call[s].fresh =>
    /\ call[s].src = Resolve(call[s].from)
    /\ call[s].next # "resolve" => call[s].dst = Resolve(call[s].to)

LEMMA FreshInit == Init => FreshInv
BY DEF Init, FreshInv

LEMMA FreshOne ==
  ASSUME TypeInv, FreshInv, NEW s \in Sessions, NEW c, mounts' = mounts,
         call' = [call EXCEPT ![s] = c],
         c # NoCall /\ c.fresh =>
           /\ c.src = Resolve(c.from)
           /\ c.next # "resolve" => c.dst = Resolve(c.to)
  PROVE  FreshInv'
<1>1. \A p : Resolve(p)' = Resolve(p)
  BY DEF Resolve, Covering
<1>2. \A t \in Sessions : call'[t] = IF t = s THEN c ELSE call[t]
  BY DEF TypeInv, CallsInv
<1> QED BY <1>1, <1>2 DEF FreshInv

LEMMA FreshRuns ==
  ASSUME TypeInv, FreshInv, NEW s \in Sessions, Runs(s)
  PROVE  FreshInv'
<1> DEFINE c == call[s]
<1>1. mounts' = mounts /\ c \in CallType
  BY DEF Runs, ResolvesTo, Calls, Reads, Writes, Removes, Idle, TypeInv, CallsInv
<1>2. CASE Ends(s)
  BY <1>1, <1>2, FreshOne DEF Ends
<1>3. CASE ResolvesTo(s)
  <2> DEFINE to == Resolve(call[s].to)
             next == IF PtrEq(call[s].src, to) THEN "call" ELSE "read"
  <2>1. PICK d : d = [c EXCEPT !.dst = to, !.next = next]
    OBVIOUS
  <2>2. call' = [call EXCEPT ![s] = d]
    <3>1. call \in [Sessions -> CallType \cup {NoCall}]
      BY DEF TypeInv, CallsInv
    <3> QED BY <1>3, <2>1, <3>1 DEF ResolvesTo
  <2>3. c # NoCall
    BY <1>3 DEF ResolvesTo
  <2>4. c.fresh => c.src = Resolve(c.from)
    BY <2>3 DEF FreshInv
  <2> HIDE DEF next
  <2>5. d.src = c.src /\ d.from = c.from /\ d.to = c.to /\ d.fresh = c.fresh /\ d.dst = to
    BY <1>1, <2>1 DEF CallType
  <2> QED BY <1>1, <2>2, <2>4, <2>5, FreshOne
<1>4. ASSUME NEW d, call' = [call EXCEPT ![s] = d], c # NoCall, c.next # "resolve",
             d.src = c.src, d.dst = c.dst, d.from = c.from, d.to = c.to, d.fresh = c.fresh
      PROVE  FreshInv'
  <2>1. c.fresh => c.src = Resolve(c.from) /\ c.dst = Resolve(c.to)
    BY <1>4 DEF FreshInv
  <2> QED BY <1>1, <1>4, <2>1, FreshOne
<1>5. CASE Reads(s) /\ ~Ends(s)
  <2>1. PICK d, want : /\ d = [Goes(c, "write") EXCEPT !.want = want]
                       /\ call' = [call EXCEPT ![s] = d]
    BY <1>5 DEF Reads
  <2>2. /\ d.src = c.src /\ d.dst = c.dst /\ d.from = c.from /\ d.to = c.to
        /\ d.fresh = c.fresh
    BY <1>1, <2>1 DEF CallType, Goes
  <2>3. c # NoCall /\ c.next = "read"
    BY <1>5 DEF Reads
  <2> QED BY <1>4, <2>1, <2>2, <2>3
<1>6. CASE Writes(s) /\ ~Ends(s)
  <2>1. PICK d : d = Goes(c, "remove") /\ call' = [call EXCEPT ![s] = d]
    BY <1>6 DEF Writes
  <2>2. /\ d.src = c.src /\ d.dst = c.dst /\ d.from = c.from /\ d.to = c.to
        /\ d.fresh = c.fresh
    BY <1>1, <2>1 DEF CallType, Goes
  <2>3. c # NoCall /\ c.next = "write"
    BY <1>6 DEF Writes
  <2> QED BY <1>4, <2>1, <2>2, <2>3
<1> QED BY <1>2, <1>3, <1>5, <1>6 DEF Runs, Calls, Removes

LEMMA FreshStarts ==
  ASSUME TypeInv, FreshInv, NEW s \in Sessions, Starts(s)
  PROVE  FreshInv'
<1>1. ASSUME NEW op, NEW from, NEW to, NEW n, Begins(s, op, from, to, n),
             op \in TwoPaths \/ from = to
      PROVE  FreshInv'
  <2> DEFINE next == IF op \in TwoPaths THEN "resolve" ELSE "call"
  <2>1. PICK c : c = [op |-> op, size |-> n, from |-> from, to |-> to,
                      src |-> Resolve(from), dst |-> Resolve(from), want |-> NoEntry,
                      fresh |-> TRUE, next |-> next]
    OBVIOUS
  <2>2. call' = [call EXCEPT ![s] = c] /\ mounts' = mounts
    BY <1>1, <2>1 DEF Begins, Idle
  <2>3. /\ c.from = from /\ c.to = to /\ c.src = Resolve(from) /\ c.dst = Resolve(from)
        /\ c.next = next
    BY <2>1
  <2>4. c.next # "resolve" => from = to
    BY <1>1, <2>3
  <2> QED BY <2>2, <2>3, <2>4, FreshOne
<1>2. ASSUME NEW from \in Targets, NEW op \in Operations \cap OnePath, NEW n \in Sizes,
             Begins(s, op, from, from, n)
      PROVE  FreshInv'
  BY <1>1, <1>2
<1>3. ASSUME NEW from \in Targets, NEW op \in Operations \cap TwoPaths, NEW to \in Targets,
             Begins(s, op, from, to, 0)
      PROVE  FreshInv'
  BY <1>1, <1>3
<1> QED BY <1>2, <1>3 DEF Starts

LEMMA FreshHost ==
  ASSUME TypeInv, Host
  PROVE  FreshInv'
<1>1. NothingFresh
  BY DEF Host, Mount, Unmount
<1>2. ASSUME NEW s \in Sessions, call'[s] # NoCall PROVE ~call'[s].fresh
  <2>1. call[s] \in CallType /\ call'[s] = [call[s] EXCEPT !.fresh = FALSE]
    BY <1>1, <1>2 DEF NothingFresh, TypeInv, CallsInv
  <2> QED BY <2>1 DEF CallType
<1> QED BY <1>2 DEF FreshInv

LEMMA FreshStep == TypeInv /\ FreshInv /\ [Next]_vars => FreshInv'
<1> SUFFICES ASSUME TypeInv, FreshInv, [Next]_vars PROVE FreshInv'
  OBVIOUS
<1>1. CASE UNCHANGED vars
  <2>1. mounts' = mounts /\ call' = call
    BY <1>1 DEF vars
  <2>2. \A p : Resolve(p)' = Resolve(p)
    BY <2>1 DEF Resolve, Covering
  <2> QED BY <2>1, <2>2 DEF FreshInv
<1> QED BY <1>1, FreshRuns, FreshStarts, FreshHost DEF Next

(* What is at or around the place of a path may change.                    *)
LEMMA PlaceTouchable ==
  ASSUME MountsType, NEW p \in Paths, NEW q,
         Resolve(p).arc # "readonly", Related(Resolve(p).path, q)
  PROVE  Touchable(p, Resolve(p).fs, q)
<1>1. CASE /\ \A m \in DOMAIN mounts : ~IsPrefix(m, p)
           /\ Resolve(p) = At(RootFs, p)
  <2>1. Resolve(p).fs = "root" /\ Resolve(p).path = p
    BY <1>1, AtIs, RootFsIs
  <2> QED BY <1>1, <2>1 DEF Touchable, Related
<1>2. ASSUME NEW m \in DOMAIN mounts, Nearest(p, m), Resolve(p) = At(mounts[m], Below(m, p))
      PROVE  Touchable(p, Resolve(p).fs, q)
  <2>1. /\ Resolve(p).fs = mounts[m].fs /\ Resolve(p).arc = mounts[m].arc
        /\ Resolve(p).path = Below(m, p)
    BY <1>2, AtIs
  <2> QED BY <1>2, <2>1 DEF Touchable, Related
<1> QED BY <1>1, <1>2, ResolveIs

(* A call to the backend at a place, naming the second place too if it has *)
(* two paths.                                                              *)
LEMMA BackendTouches ==
  ASSUME TypeInv, NEW op, NEW from \in Paths, NEW to \in Paths, NEW n \in Nat,
         NEW at \in Places, NEW q, op \in TwoPaths => q \in Paths,
         CallsBackend(op, at, q, n),
         at \in {Resolve(from), Resolve(to)},
         op \in TwoPaths => /\ at = Resolve(from) /\ q = Resolve(to).path
                            /\ PtrEq(at, Resolve(to)),
         NEW r \in Paths
  PROVE  /\ Touchable(from, "root", r) \/ Touchable(to, "root", r) \/ Same(root, root', r)
         /\ Touchable(from, "data", r) \/ Touchable(to, "data", r) \/ Same(data, data', r)
<1>1. ASSUME NEW e, NEW f, at.arc # "readonly", Moved(e, f, Named(op, at.path, q))
      PROVE  Touchable(from, at.fs, r) \/ Touchable(to, at.fs, r) \/ Same(e, f, r)
  <2>1. SUFFICES ASSUME NEW p \in Named(op, at.path, q), Related(p, r)
                 PROVE  Touchable(from, at.fs, r) \/ Touchable(to, at.fs, r)
    BY <1>1 DEF Moved
  <2>2. CASE p = at.path
    BY <1>1, <2>1, <2>2, PlaceTouchable DEF TypeInv
  <2>3. CASE op \in TwoPaths /\ p = q
    <3>1. /\ p = Resolve(to).path /\ Resolve(to).fs = at.fs
          /\ Resolve(to).arc # "readonly"
      BY <1>1, <2>3 DEF PtrEq
    <3>2. Touchable(to, Resolve(to).fs, r)
      BY <2>1, <3>1, PlaceTouchable DEF TypeInv
    <3> QED BY <3>1, <3>2
  <2> QED BY <2>2, <2>3 DEF Named
<1>2. Same(root, root, r) /\ Same(data, data, r)
  BY DEF Same
<1>3. CASE root' = root /\ data' = data
  BY <1>2, <1>3
<1>4. CASE /\ at.fs = "root" /\ at.arc # "readonly"
           /\ Moved(root, root', Named(op, at.path, q)) /\ data' = data
  <2>1. Touchable(from, "root", r) \/ Touchable(to, "root", r) \/ Same(root, root', r)
    BY <1>1, <1>4
  <2> QED BY <1>2, <1>4, <2>1
<1>5. CASE /\ at.fs = "data" /\ at.arc # "readonly"
           /\ Moved(data, data', Named(op, at.path, q)) /\ root' = root
  <2>1. Touchable(from, "data", r) \/ Touchable(to, "data", r) \/ Same(data, data', r)
    BY <1>1, <1>5
  <2> QED BY <1>2, <1>5, <2>1
<1> QED BY <1>3, <1>4, <1>5, BackendMoved DEF TypeInv

LEMMA RunsTouch ==
  ASSUME TypeInv, FreshInv, NEW s \in Sessions, Runs(s), call[s].fresh, NEW r \in Paths
  PROVE  /\ \/ Touchable(call[s].from, "root", r) \/ Touchable(call[s].to, "root", r)
            \/ Same(root, root', r)
         /\ \/ Touchable(call[s].from, "data", r) \/ Touchable(call[s].to, "data", r)
            \/ Same(data, data', r)
<1> DEFINE c == call[s]
<1>1. c # NoCall
  BY DEF Runs, ResolvesTo, Calls, Reads, Writes, Removes
<1>2. /\ c.src \in Places /\ c.dst \in Places /\ c.dst.path \in Paths /\ c.size \in Nat
      /\ c.from \in Paths /\ c.to \in Paths /\ Staged(c)
      /\ c.next \in {"write", "remove"} => c.want.size \in Nat
  BY <1>1, StagedCallIs, CallIs
<1>3. c.src = Resolve(c.from) /\ (c.next # "resolve" => c.dst = Resolve(c.to))
  BY <1>1 DEF FreshInv
<1>4. CASE ResolvesTo(s) \/ Reads(s)
  BY <1>4 DEF ResolvesTo, Reads, Idle, Same
<1>5. CASE Calls(s)
  <2>1. CallsBackend(c.op, c.src, c.dst.path, c.size) /\ PtrEq(c.src, c.dst)
        /\ c.dst = Resolve(c.to)
    BY <1>2, <1>3, <1>5 DEF Calls, Staged
  <2> HIDE DEF c
  <2>2. /\ c.src \in {Resolve(c.from), Resolve(c.to)}
        /\ c.dst.path = Resolve(c.to).path /\ PtrEq(c.src, Resolve(c.to))
    BY <1>3, <2>1
  <2>3. /\ Touchable(c.from, "root", r) \/ Touchable(c.to, "root", r) \/ Same(root, root', r)
        /\ Touchable(c.from, "data", r) \/ Touchable(c.to, "data", r) \/ Same(data, data', r)
    BY <1>2, <1>3, <2>1, <2>2, BackendTouches
  <2> QED BY <2>3 DEF c
<1>6. CASE Writes(s)
  <2>1. PICK op \in {"symlink", "write"} : CallsBackend(op, c.dst, <<>>, c.want.size)
    BY <1>6 DEF Writes
  <2>2. op \notin TwoPaths
    BY DEF TwoPaths
  <2>3. c.next = "write"
    BY <1>6 DEF Writes
  <2> HIDE DEF c
  <2>4. c.dst \in {Resolve(c.from), Resolve(c.to)} /\ c.want.size \in Nat
    BY <1>2, <1>3, <2>3
  <2>5. /\ Touchable(c.from, "root", r) \/ Touchable(c.to, "root", r) \/ Same(root, root', r)
        /\ Touchable(c.from, "data", r) \/ Touchable(c.to, "data", r) \/ Same(data, data', r)
    BY <1>2, <2>1, <2>2, <2>4, BackendTouches
  <2> QED BY <2>5 DEF c
<1>7. CASE Removes(s)
  <2>1. CallsBackend("remove", c.src, <<>>, 0) /\ "remove" \notin TwoPaths
    BY <1>7 DEF Removes, TwoPaths
  <2> HIDE DEF c
  <2>2. c.src \in {Resolve(c.from), Resolve(c.to)}
    BY <1>3
  <2>3. /\ Touchable(c.from, "root", r) \/ Touchable(c.to, "root", r) \/ Same(root, root', r)
        /\ Touchable(c.from, "data", r) \/ Touchable(c.to, "data", r) \/ Same(data, data', r)
    BY <1>2, <2>1, <2>2, BackendTouches
  <2> QED BY <2>3 DEF c
<1> QED BY <1>4, <1>5, <1>6, <1>7 DEF Runs

(* While the table stays as resolve saw it, an operation changes a tree    *)
(* only at or around a path it names, in the file system that is nearest   *)
(* above that path, and never through a read-only mount: whatever the      *)
(* mount points nest, and whichever sessions run (mountable.rs:149).       *)
THEOREM NamedTreesTheorem == Spec => OnlyNamedTreesChange
<1> DEFINE A == \A s \in Sessions : Runs(s) /\ call[s].fresh =>
                  \A q \in Paths :
                    LET touchable(fs) == Touchable(call[s].from, fs, q)
                                           \/ Touchable(call[s].to, fs, q)
                        same(e, f) == /\ q \in DOMAIN e <=> q \in DOMAIN f
                                      /\ q \in DOMAIN e => e[q] = f[q]
                    IN /\ touchable("root") \/ same(root, root')
                       /\ touchable("data") \/ same(data, data')
<1>1. ASSUME TypeInv, FreshInv PROVE A
  <2> SUFFICES ASSUME NEW s \in Sessions, Runs(s), call[s].fresh, NEW q \in Paths
               PROVE  /\ \/ Touchable(call[s].from, "root", q)
                         \/ Touchable(call[s].to, "root", q)
                         \/ Same(root, root', q)
                      /\ \/ Touchable(call[s].from, "data", q)
                         \/ Touchable(call[s].to, "data", q)
                         \/ Same(data, data', q)
    BY DEF Same
  <2> QED BY <1>1, RunsTouch
<1>2. TypeInv /\ FreshInv /\ [Next]_vars => [A]_vars
  BY <1>1
<1>3. Spec => [](TypeInv /\ FreshInv)
  BY TypeInvInit, TypeInvStep, FreshInit, FreshStep, PTL DEF Spec
<1>4. Spec => [][A]_vars
  BY <1>2, <1>3, PTL DEF Spec
<1> QED BY <1>4 DEF OnlyNamedTreesChange

----------------------------------------------------------------------------
(***************************************************************************)
(* A move between file systems, one session using them and the host        *)
(* handing over each file system in one Arc, or wrapped.                   *)
(***************************************************************************)
OneSession == \A s, t \in Sessions : s = t
OneArcEach == "another" \notin Arcs

TreeAt(at, e, d) == IF at.fs = "root" THEN e ELSE d

(* What an operation between two steps of a move counts on: after the read *)
(* the entry is at the source, after the write at the target.              *)
Kept(c, e, d) ==
  /\ c.src.arc # "another" /\ c.dst.arc # "another"
  /\ c.next = "write" => Holds(TreeAt(c.src, e, d), c.src.path, c.want)
  /\ c.next = "remove" =>
       /\ c.dst.arc # "readonly"
       /\ Holds(TreeAt(c.dst, e, d), c.dst.path, c.want)

MoveInv ==
  /\ \A m \in DOMAIN mounts : mounts[m].arc # "another"
  /\ \A s \in Sessions : call[s] # NoCall => Kept(call[s], root, data)

LEMMA ResolveArc ==
  ASSUME TypeInv, MoveInv, NEW p \in Paths
  PROVE  Resolve(p).arc # "another"
<1>1. CASE Resolve(p) = At(RootFs, p)
  BY <1>1, AtIs, RootFsIs
<1>2. ASSUME NEW m \in DOMAIN mounts, Resolve(p) = At(mounts[m], Below(m, p))
      PROVE  Resolve(p).arc # "another"
  BY <1>2, AtIs DEF MoveInv
<1> QED BY <1>1, <1>2, ResolveIs DEF TypeInv

(* Only two entries are carried: an empty symlink and a regular file.      *)
LEMMA CarriedForms ==
  ASSUME NEW x, Root!WellFormed(x)
  PROVE  \/ Carried(x) = Root!Plain("symlink", 0)
         \/ \E n \in Nat : Carried(x) = Root!Plain("file", n)
BY EntryIs DEF Carried

LEMMA CarriedPlain ==
  ASSUME NEW kind \in {"file", "fifo"}, NEW n \in Nat
  PROVE  /\ Carried(Root!Plain(kind, n)) = Root!Plain("file", n)
         /\ Carried(Root!Plain("symlink", 0)) = Root!Plain("symlink", 0)
BY DEF Carried, Root!Plain

LEMMA HoldsNow ==
  ASSUME NEW e, NEW p, NEW x, Carried(x) = x
  PROVE  Holds(Root!With(e, p, x), p, x)
BY DEF Holds, Root!With

LEMMA RootWrites ==
  ASSUME NEW y, Root!WellFormed(y), NEW x, x = Carried(y), NEW p,
         OnRoot(IF x.kind = "symlink" THEN "symlink" ELSE "write", p, <<>>, x.size)
  PROVE  \/ outcome'.ok /\ Holds(root', p, x)
         \/ ~outcome'.ok /\ root' = root
<1> USE DEF Root!Succeeds, Root!Fails, Root!Ends
<1>1. CASE x = Root!Plain("symlink", 0)
  <2>1. x.kind = "symlink" /\ Carried(x) = x
    BY <1>1, CarriedPlain, PlainIs
  <2>2. Root!Symlink(p)
    BY <2>1 DEF OnRoot
  <2>3. \/ outcome'.ok /\ root' = Root!With(root, p, x)
        \/ ~outcome'.ok /\ root' = root
    BY <1>1, <2>2 DEF Root!Symlink
  <2> QED BY <2>1, <2>3, HoldsNow
<1>2. ASSUME NEW n \in Nat, x = Root!Plain("file", n)
      PROVE  \/ outcome'.ok /\ Holds(root', p, x)
             \/ ~outcome'.ok /\ root' = root
  <2>1. x.kind = "file" /\ x.size = n
    BY <1>2, PlainIs
  <2>2. Root!WriteFile(p, n)
    BY <2>1 DEF OnRoot
  <2>3. \/ /\ outcome'.ok
           /\ \E kind \in {"file", "fifo"} : root' = Root!With(root, p, Root!Plain(kind, n))
        \/ ~outcome'.ok /\ root' = root
    BY <2>2 DEF Root!WriteFile
  <2>4. ASSUME NEW kind \in {"file", "fifo"}, NEW f,
               f = Root!With(root, p, Root!Plain(kind, n))
        PROVE  Holds(f, p, x)
    <3>1. p \in DOMAIN f /\ f[p] = Root!Plain(kind, n)
      BY <2>4 DEF Root!With
    <3> QED BY <1>2, <3>1, CarriedPlain DEF Holds
  <2> QED BY <2>3, <2>4
<1> QED BY <1>1, <1>2, CarriedForms

LEMMA DataWrites ==
  ASSUME NEW y, Root!WellFormed(y), NEW x, x = Carried(y), NEW p,
         OnData(IF x.kind = "symlink" THEN "symlink" ELSE "write", p, <<>>, x.size)
  PROVE  \/ outcome'.ok /\ Holds(data', p, x)
         \/ ~outcome'.ok /\ data' = data
<1> USE DEF Data!Succeeds, Data!Fails, Data!Ends
<1>1. CASE x = Root!Plain("symlink", 0)
  <2>1. x.kind = "symlink" /\ Carried(x) = x
    BY <1>1, CarriedPlain, PlainIs
  <2>2. Data!Symlink(p)
    BY <2>1 DEF OnData
  <2>3. \/ outcome'.ok /\ data' = Root!With(data, p, x)
        \/ ~outcome'.ok /\ data' = data
    BY <1>1, <2>2, OneKind DEF Data!Symlink
  <2> QED BY <2>1, <2>3, HoldsNow
<1>2. ASSUME NEW n \in Nat, x = Root!Plain("file", n)
      PROVE  \/ outcome'.ok /\ Holds(data', p, x)
             \/ ~outcome'.ok /\ data' = data
  <2>1. x.kind = "file" /\ x.size = n
    BY <1>2, PlainIs
  <2>2. Data!WriteFile(p, n)
    BY <2>1 DEF OnData
  <2>3. \/ /\ outcome'.ok
           /\ \E kind \in {"file", "fifo"} : data' = Root!With(data, p, Root!Plain(kind, n))
        \/ ~outcome'.ok /\ data' = data
    BY <2>2, OneKind DEF Data!WriteFile
  <2>4. ASSUME NEW kind \in {"file", "fifo"}, NEW f,
               f = Root!With(data, p, Root!Plain(kind, n))
        PROVE  Holds(f, p, x)
    <3>1. p \in DOMAIN f /\ f[p] = Root!Plain(kind, n)
      BY <2>4 DEF Root!With
    <3> QED BY <1>2, <3>1, CarriedPlain DEF Holds
  <2> QED BY <2>3, <2>4
<1> QED BY <1>1, <1>2, CarriedForms

(* The write of a move puts the entry at the target, or changes nothing.   *)
LEMMA WriteLands ==
  ASSUME NEW y, Root!WellFormed(y), NEW x, x = Carried(y), NEW at \in Places,
         CallsBackend(IF x.kind = "symlink" THEN "symlink" ELSE "write", at, <<>>, x.size)
  PROVE  \/ /\ outcome'.ok /\ at.arc # "readonly"
            /\ Holds(TreeAt(at, root', data'), at.path, x)
         \/ ~outcome'.ok /\ root' = root /\ data' = data
<1> DEFINE op == IF x.kind = "symlink" THEN "symlink" ELSE "write"
<1>1. CASE ~Allowed(at.arc, op)
  BY <1>1 DEF CallsBackend, Answers, Allowed
<1>2. CASE Allowed(at.arc, op) /\ at.fs = "root"
  <2>1. OnRoot(op, at.path, <<>>, x.size) /\ data' = data /\ at.arc # "readonly"
    BY <1>2 DEF CallsBackend, Allowed
  <2>2. TreeAt(at, root', data') = root'
    BY <1>2 DEF TreeAt
  <2> QED BY <2>1, <2>2, RootWrites
<1>3. CASE Allowed(at.arc, op) /\ at.fs = "data"
  <2>1. OnData(op, at.path, <<>>, x.size) /\ root' = root /\ at.arc # "readonly"
    BY <1>3 DEF CallsBackend, Allowed
  <2>2. TreeAt(at, root', data') = data'
    BY <1>3 DEF TreeAt
  <2> QED BY <2>1, <2>2, DataWrites
<1> QED BY <1>1, <1>2, <1>3, PlaceIs

LEMMA HeldEntry ==
  ASSUME TypeInv, NEW at, NEW x, Holds(TreeAt(at, root, data), at.path, x)
  PROVE  \E y : Root!WellFormed(y) /\ x = Carried(y)
BY DEF TreeAt, Holds, TypeInv, Root!Tree

LEMMA MoveOne ==
  ASSUME OneSession, TypeInv, MoveInv, NEW s \in Sessions, NEW c, mounts' = mounts,
         call' = [call EXCEPT ![s] = c], c # NoCall => Kept(c, root', data')
  PROVE  MoveInv'
<1>1. \A t \in Sessions : t = s /\ call'[t] = c
  BY DEF OneSession, TypeInv, CallsInv
<1> QED BY <1>1 DEF MoveInv, Kept, Holds, TreeAt, Carried

LEMMA WritesMove ==
  ASSUME OneSession, TypeInv, MoveInv, NEW s \in Sessions, Writes(s)
  PROVE  /\ MoveInv'
         /\ \E at \in {call[s].src, call[s].dst} :
              Holds(TreeAt(at, root', data'), at.path, call[s].want)
<1> DEFINE c == call[s]
<1>1. /\ c # NoCall /\ c \in CallType /\ c.next = "write" /\ c.dst \in Places
      /\ Kept(c, root, data)
  BY StagedCallIs DEF Writes, MoveInv
<1>2. CallsBackend(IF c.want.kind = "symlink" THEN "symlink" ELSE "write",
                   c.dst, <<>>, c.want.size)
  BY DEF Writes
<1>3. mounts' = mounts
  BY DEF Writes
<1>4. Ends(s) \/ (outcome'.ok /\ call' = [call EXCEPT ![s] = Goes(c, "remove")])
  BY DEF Writes, GoesOnToRemove
<1>5. Holds(TreeAt(c.src, root, data), c.src.path, c.want)
  BY <1>1 DEF Kept
<1>6. PICK d : d = Goes(c, "remove")
  OBVIOUS
<1> HIDE DEF c
<1>7. /\ d.src = c.src /\ d.dst = c.dst /\ d.want = c.want /\ d.next = "remove"
  BY <1>1, <1>6 DEF CallType, Goes
<1>8. PICK y : Root!WellFormed(y) /\ c.want = Carried(y)
  BY <1>5, HeldEntry
<1>9. \/ /\ outcome'.ok /\ c.dst.arc # "readonly"
         /\ Holds(TreeAt(c.dst, root', data'), c.dst.path, c.want)
      \/ ~outcome'.ok /\ root' = root /\ data' = data
  BY <1>1, <1>2, <1>8, WriteLands
<1>10. CASE Ends(s)
  <2>1. MoveInv'
    BY <1>3, <1>10, MoveOne DEF Ends
  <2> QED BY <1>5, <1>9, <2>1 DEF c
<1>11. CASE outcome'.ok /\ call' = [call EXCEPT ![s] = d]
  <2>1. /\ c.dst.arc # "readonly"
        /\ Holds(TreeAt(c.dst, root', data'), c.dst.path, c.want)
    BY <1>9, <1>11
  <2>2. Kept(d, root', data')
    BY <1>1, <1>7, <2>1 DEF Kept
  <2>3. MoveInv'
    BY <1>3, <1>11, <2>2, MoveOne
  <2> QED BY <2>1, <2>3 DEF c
<1> QED BY <1>4, <1>6, <1>10, <1>11

LEMMA RemovesMove ==
  ASSUME OneSession, TypeInv, MoveInv, NEW s \in Sessions, Removes(s)
  PROVE  /\ MoveInv'
         /\ \E at \in {call[s].src, call[s].dst} :
              Holds(TreeAt(at, root', data'), at.path, call[s].want)
<1> DEFINE c == call[s]
<1>1. /\ c.src \in Places /\ c.dst \in Places /\ Staged(c) /\ c.next = "remove"
      /\ Kept(c, root, data)
  BY StagedCallIs DEF Removes, MoveInv
<1>2. /\ mounts' = mounts /\ Ends(s) /\ CallsBackend("remove", c.src, <<>>, 0)
  BY DEF Removes
<1> HIDE DEF c
<1>3. MoveInv'
  BY <1>2, MoveOne DEF Ends
<1>4. /\ c.dst.arc = "itself" /\ Holds(TreeAt(c.dst, root, data), c.dst.path, c.want)
      /\ c.src.arc \in {"itself", "readonly"}
      /\ <<c.src.fs, c.src.arc>> # <<c.dst.fs, c.dst.arc>>
      /\ c.src.fs \in {"root", "data"} /\ c.dst.fs \in {"root", "data"}
  BY <1>1, PlaceIs DEF Kept, Staged
<1>5. CASE c.src.arc = "readonly"
  <2>1. root' = root /\ data' = data
    BY <1>2, <1>5 DEF CallsBackend, Allowed
  <2> QED BY <1>3, <1>4, <2>1 DEF c
<1>6. CASE c.src.fs # c.dst.fs
  <2>1. TreeAt(c.dst, root', data') = TreeAt(c.dst, root, data)
    BY <1>2, <1>4, <1>6 DEF CallsBackend, TreeAt
  <2> QED BY <1>3, <1>4, <2>1 DEF c
<1> QED BY <1>4, <1>5, <1>6

LEMMA RunsMove ==
  ASSUME OneSession, TypeInv, MoveInv, NEW s \in Sessions, Runs(s)
  PROVE  MoveInv'
<1> DEFINE c == call[s]
<1>1. /\ mounts' = mounts /\ c # NoCall /\ c \in CallType /\ c.src \in Places
      /\ Kept(c, root, data)
  BY StagedCallIs
     DEF Runs, ResolvesTo, Calls, Reads, Writes, Removes, Idle, MoveInv
<1>2. CASE Ends(s)
  BY <1>1, <1>2, MoveOne DEF Ends
<1>3. CASE ResolvesTo(s)
  <2> DEFINE to == Resolve(call[s].to)
             next == IF PtrEq(call[s].src, to) THEN "call" ELSE "read"
  <2>1. PICK d : d = [c EXCEPT !.dst = to, !.next = next]
    OBVIOUS
  <2>2. call' = [call EXCEPT ![s] = d]
    <3>1. call \in [Sessions -> CallType \cup {NoCall}]
      BY DEF TypeInv, CallsInv
    <3> QED BY <1>3, <2>1, <3>1 DEF ResolvesTo
  <2>3. to.arc # "another"
    BY <1>1, CallIs, ResolveArc
  <2>4. next \in {"call", "read"}
    OBVIOUS
  <2> HIDE DEF next, to
  <2>5. d.src = c.src /\ d.dst = to /\ d.next = next
    BY <1>1, <2>1 DEF CallType
  <2>6. Kept(d, root', data')
    BY <1>1, <2>3, <2>4, <2>5 DEF Kept
  <2> QED BY <1>1, <2>2, <2>6, MoveOne
<1>4. CASE Reads(s) /\ ~Ends(s)
  <2> DEFINE want == Carried(Tree(c.src.fs)[c.src.path])
  <2>1. /\ Found(c.src) /\ root' = root /\ data' = data
        /\ call' = [call EXCEPT ![s] = [Goes(c, "write") EXCEPT !.want = want]]
    BY <1>4 DEF Reads, Idle
  <2>2. PICK d : d = [Goes(c, "write") EXCEPT !.want = want]
    OBVIOUS
  <2>3. Holds(TreeAt(c.src, root', data'), c.src.path, want)
    BY <2>1 DEF Holds, TreeAt, Tree, Found
  <2> HIDE DEF want, c
  <2>4. /\ d.src = c.src /\ d.dst = c.dst /\ d.want = want /\ d.next = "write"
    BY <1>1, <2>2 DEF CallType, Goes
  <2>5. Kept(d, root', data')
    BY <1>1, <2>3, <2>4 DEF Kept
  <2> QED BY <1>1, <2>1, <2>2, <2>5, MoveOne DEF c
<1> QED BY <1>2, <1>3, <1>4, WritesMove, RemovesMove DEF Runs, Calls

LEMMA StartsMove ==
  ASSUME OneSession, TypeInv, MoveInv, NEW s \in Sessions, Starts(s)
  PROVE  MoveInv'
<1>1. ASSUME NEW op, NEW from \in Targets, NEW to, NEW n, Begins(s, op, from, to, n)
      PROVE  MoveInv'
  <2> DEFINE next == IF op \in TwoPaths THEN "resolve" ELSE "call"
  <2>1. PICK c : c = [op |-> op, size |-> n, from |-> from, to |-> to,
                      src |-> Resolve(from), dst |-> Resolve(from), want |-> NoEntry,
                      fresh |-> TRUE, next |-> next]
    OBVIOUS
  <2>2. call' = [call EXCEPT ![s] = c] /\ mounts' = mounts
    BY <1>1, <2>1 DEF Begins, Idle
  <2>3. Resolve(from).arc # "another"
    BY ResolveArc, MountPointsAssumption
  <2>4. next \notin {"write", "remove"}
    OBVIOUS
  <2> HIDE DEF next
  <2>5. c.src = Resolve(from) /\ c.dst = Resolve(from) /\ c.next = next
    BY <2>1
  <2>6. Kept(c, root', data')
    BY <2>3, <2>4, <2>5 DEF Kept
  <2> QED BY <2>2, <2>6, MoveOne
<1>2. ASSUME NEW from \in Targets, NEW op \in Operations \cap OnePath, NEW n \in Sizes,
             Begins(s, op, from, from, n)
      PROVE  MoveInv'
  BY <1>1, <1>2
<1>3. ASSUME NEW from \in Targets, NEW op \in Operations \cap TwoPaths, NEW to \in Targets,
             Begins(s, op, from, to, 0)
      PROVE  MoveInv'
  BY <1>1, <1>3
<1> QED BY <1>2, <1>3 DEF Starts

LEMMA HostMoves ==
  ASSUME OneArcEach, TypeInv, MoveInv, Host
  PROVE  MoveInv'
<1>1. root' = root /\ data' = data /\ NothingFresh
  BY DEF Host, Mount, Unmount
<1>2. ASSUME NEW s \in Sessions, call'[s] # NoCall PROVE Kept(call'[s], root', data')
  <2>1. PICK c, d : c = call[s] /\ d = call'[s]
    OBVIOUS
  <2>2. c # NoCall /\ c \in CallType /\ d = [c EXCEPT !.fresh = FALSE]
    BY <1>1, <1>2, <2>1 DEF NothingFresh, TypeInv, CallsInv
  <2>3. d.src = c.src /\ d.dst = c.dst /\ d.want = c.want /\ d.next = c.next
    BY <2>2 DEF CallType
  <2>4. Kept(c, root, data)
    BY <2>1, <2>2 DEF MoveInv
  <2> QED BY <1>1, <2>1, <2>3, <2>4 DEF Kept
<1>3. ASSUME NEW m \in MountPoints, NEW arc \in Arcs, Mount(m, arc)
      PROVE  \A q \in DOMAIN mounts' : mounts'[q].arc # "another"
  <2>1. PICK b : b = [fs |-> "data", arc |-> arc]
    OBVIOUS
  <2>2. b.arc # "another"
    BY <2>1 DEF OneArcEach
  <2>3. mounts' = [q \in DOMAIN mounts \cup {m} |-> IF q = m THEN b ELSE mounts[q]]
    BY <1>3, <2>1 DEF Mount, Root!With
  <2> QED BY <2>2, <2>3 DEF MoveInv
<1>4. ASSUME NEW m \in MountPoints, Unmount(m)
      PROVE  \A q \in DOMAIN mounts' : mounts'[q].arc # "another"
  <2>1. mounts' = [q \in DOMAIN mounts \cap (DOMAIN mounts \ {m}) |-> mounts[q]]
    BY <1>4 DEF Unmount, Root!Without, Root!Restrict
  <2> QED BY <2>1 DEF MoveInv
<1>5. \A q \in DOMAIN mounts' : mounts'[q].arc # "another"
  BY <1>3, <1>4 DEF Host
<1> QED BY <1>2, <1>5 DEF MoveInv, Kept, Holds, TreeAt, Carried

LEMMA MoveStep ==
  ASSUME OneSession, OneArcEach
  PROVE  TypeInv /\ MoveInv /\ [Next]_vars => MoveInv'
<1> SUFFICES ASSUME TypeInv, MoveInv, [Next]_vars PROVE MoveInv'
  OBVIOUS
<1>1. CASE UNCHANGED vars
  BY <1>1 DEF vars, MoveInv, Kept, Holds, TreeAt, Carried
<1> QED BY <1>1, RunsMove, StartsMove, HostMoves DEF Next

(* A rename between file systems never loses the entry: it is at the       *)
(* source until it is at the target, whatever the host mounts and unmounts *)
(* between the read, the write and the removal, and whichever of them is   *)
(* refused (mountable.rs:442).  This needs that no other session changes   *)
(* the entry meanwhile, and that the host hands over no file system in two *)
(* Arcs: without the first another session may remove it, and without the  *)
(* second the code itself loses it (SharedMoveKeepsContent).               *)
THEOREM MoveTheorem ==
  ASSUME OneSession, OneArcEach
  PROVE  Spec => MoveKeepsContent
<1> DEFINE A == \A s \in Sessions :
                  LET c == call[s] IN
                  (Writes(s) \/ Removes(s)) /\ c.op = "rename" =>
                    \E at \in {c.src, c.dst} :
                      Holds(IF at.fs = "root" THEN root' ELSE data', at.path, c.want)
<1>1. ASSUME TypeInv, MoveInv PROVE A
  BY <1>1, WritesMove, RemovesMove DEF TreeAt
<1>2. TypeInv /\ MoveInv /\ [Next]_vars => [A]_vars
  BY <1>1
<1>3. Init => MoveInv
  BY DEF Init, MoveInv
<1>4. TypeInv /\ MoveInv /\ [Next]_vars => MoveInv'
  BY MoveStep
<1>5. Spec => [](TypeInv /\ MoveInv)
  BY <1>3, <1>4, TypeInvInit, TypeInvStep, PTL DEF Spec
<1>6. Spec => [][A]_vars
  BY <1>2, <1>5, PTL DEF Spec
<1> QED BY <1>6 DEF MoveKeepsContent
=============================================================================
