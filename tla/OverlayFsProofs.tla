-------------------------- MODULE OverlayFsProofs --------------------------
(***************************************************************************)
(* Theorems about OverlayFs for every lower layer and all limits; those    *)
(* that say so are about one session at a time, the others about any       *)
(* number.                                                                 *)
(***************************************************************************)
EXTENDS OverlayFs, SumLemmas, SequenceTheorems, FiniteSetTheorems, TLAPS

----------------------------------------------------------------------------
(***************************************************************************)
(* Sequences of calls.  What the invariants say of the calls that are left *)
(* is about the set of them, Range(todo).                                  *)
(***************************************************************************)
LEMMA StepIs ==
  ASSUME NEW do \in CallNames, NEW p \in Paths, NEW n \in Nat
  PROVE  /\ Step(do, p, n) \in Steps
         /\ Step(do, p, n).do = do /\ Step(do, p, n).path = p /\ Step(do, p, n).size = n
BY DEF Step, Steps

LEMMA FieldsOf ==
  ASSUME NEW x \in Steps
  PROVE  x.do \in CallNames /\ x.path \in Paths /\ x.size \in Nat
BY DEF Steps

LEMMA NoCalls == <<>> \in Seq(Steps) /\ Range(<<>>) = {}
BY DEF Range

LEMMA OneCall ==
  ASSUME NEW x \in Steps
  PROVE  <<x>> \in Seq(Steps) /\ Range(<<x>>) = {x} /\ <<x>> # <<>>
BY DEF Range

LEMMA TwoCalls ==
  ASSUME NEW x \in Steps, NEW y \in Steps
  PROVE  <<x, y>> \in Seq(Steps) /\ Range(<<x, y>>) = {x, y} /\ <<x, y>> # <<>>
BY DEF Range

LEMMA ThreeCalls ==
  ASSUME NEW x \in Steps, NEW y \in Steps, NEW z \in Steps
  PROVE  <<x, y, z>> \in Seq(Steps) /\ Range(<<x, y, z>>) = {x, y, z} /\ <<x, y, z>> # <<>>
BY DEF Range

LEMMA CallsJoin ==
  ASSUME NEW a \in Seq(Steps), NEW b \in Seq(Steps)
  PROVE  /\ a \o b \in Seq(Steps) /\ Range(a \o b) = Range(a) \cup Range(b)
         /\ a # <<>> \/ b # <<>> => a \o b # <<>>
BY ConcatProperties, RangeConcatenation, ConcatEqualIffEmpty

LEMMA CallsLeft ==
  ASSUME NEW a \in Seq(Steps), a # <<>>
  PROVE  /\ Head(a) \in Steps /\ Tail(a) \in Seq(Steps)
         /\ Range(a) = {Head(a)} \cup Range(Tail(a))
         /\ Len(a) > 1 <=> Tail(a) # <<>>
<1>1. Head(a) \in Steps /\ Tail(a) \in Seq(Steps) /\ Len(Tail(a)) = Len(a) - 1
      /\ \A i \in 1 .. Len(Tail(a)) : Tail(a)[i] = a[i + 1]
  BY HeadTailProperties
<1>2. Len(a) \in Nat \ {0}
  BY EmptySeq
<1>3. Head(a) = a[1]
  OBVIOUS
<1>4. Range(a) = {a[i] : i \in 1 .. Len(a)}
      /\ Range(Tail(a)) = {Tail(a)[i] : i \in 1 .. Len(Tail(a))}
  BY <1>1, RangeEquality
<1>5. ASSUME NEW x \in Range(a) PROVE x \in {Head(a)} \cup Range(Tail(a))
  <2>1. PICK i \in 1 .. Len(a) : x = a[i]
    BY <1>4, <1>5
  <2>2. CASE i = 1
    BY <1>3, <2>1, <2>2
  <2>3. CASE i # 1
    <3>1. PICK k \in 1 .. Len(Tail(a)) : i = k + 1
      BY <1>1, <1>2, <2>3
    <3> QED BY <1>1, <1>4, <2>1, <3>1
  <2> QED BY <2>2, <2>3
<1>6. ASSUME NEW x \in Range(Tail(a)) PROVE x \in Range(a)
  <2>1. PICK k \in 1 .. Len(Tail(a)) : x = Tail(a)[k]
    BY <1>4, <1>6
  <2>2. k + 1 \in 1 .. Len(a) /\ x = a[k + 1]
    BY <1>1, <1>2, <2>1
  <2> QED BY <1>4, <2>2
<1>7. Head(a) \in Range(a)
  BY <1>2, <1>3, <1>4
<1>8. Len(a) > 1 <=> Tail(a) # <<>>
  <2>1. Tail(a) # <<>> => Len(Tail(a)) \in Nat \ {0}
    BY <1>1, EmptySeq
  <2>2. \A t : t = <<>> => Len(t) = 0
    OBVIOUS
  <2> QED BY <1>1, <1>2, <2>1, <2>2
<1> QED BY <1>1, <1>5, <1>6, <1>7, <1>8

LEMMA EmptyOrNot ==
  ASSUME NEW a \in Seq(Steps)
  PROVE  a = <<>> <=> Range(a) = {}
<1>1. a # <<>> => Range(a) # {}
  BY CallsLeft
<1> QED BY <1>1, NoCalls

LEMMA WhenIs ==
  ASSUME NEW condition \in BOOLEAN, NEW steps, condition => steps \in Seq(Steps)
  PROVE  /\ When(condition, steps) \in Seq(Steps)
         /\ condition => Range(When(condition, steps)) = Range(steps)
         /\ ~condition => Range(When(condition, steps)) = {}
BY NoCalls DEF When

----------------------------------------------------------------------------
(***************************************************************************)
(* What each plan is.                                                      *)
(***************************************************************************)
Hides == {"hideFile", "hideDir"}
Removals == {"remove", "removeAll", "hideFile", "hideDir", "hideBelow", "whiteout"}

LEMMA LowerIs ==
  ASSUME NEW p, InLower(p)
  PROVE  /\ p \in Paths
         /\ Lower[p].kind \in {"file", "dir", "symlink", "fifo"} /\ Lower[p].size \in Nat
         /\ \A q \in Paths : IsStrictPrefix(q, p) =>
              InLower(q) /\ Lower[q].kind = "dir"
<1>1. p \in DOMAIN Lower
  BY DEF InLower
<1>2. Lower[p] \in Upper!Entry /\ Lower[p].kind # "lazy"
  BY <1>1, LowerAssumption
<1>3. Lower[p].kind \in {"file", "dir", "symlink", "fifo"} /\ Lower[p].size \in Nat
  BY <1>2 DEF Upper!Entry, Upper!Kinds
<1>4. \A q \in Paths : IsStrictPrefix(q, p) => q \in Upper!OfKind(Lower, {"dir"})
  BY <1>1, LowerAssumption DEF Upper!IsDir
<1> QED BY <1>1, <1>3, <1>4, LowerAssumption DEF InLower, Upper!OfKind

LEMMA HideIs ==
  ASSUME NEW p, InLower(p)
  PROVE  /\ Hide(p) \in Seq(Steps)
         /\ \A x \in Range(Hide(p)) : x.path = p /\ x.do \in Hides
<1>1. p \in Paths /\ Lower[p].size \in Nat
  BY LowerIs
<1>2. \A n \in Nat : /\ <<Step("hideFile", p, n)>> \in Seq(Steps)
                     /\ \A x \in Range(<<Step("hideFile", p, n)>>) :
                          x.path = p /\ x.do \in Hides
  BY <1>1, StepIs, OneCall DEF CallNames, Hides
<1>3. /\ <<Step("hideDir", p, 0)>> \in Seq(Steps)
      /\ \A x \in Range(<<Step("hideDir", p, 0)>>) : x.path = p /\ x.do \in Hides
  BY <1>1, StepIs, OneCall DEF CallNames, Hides
<1> QED BY <1>1, <1>2, <1>3, NoCalls DEF Hide

LEMMA CopyUpIs ==
  ASSUME NEW p, InLower(p), NEW n \in Nat
  PROVE  /\ CopyUp(p, n) \in Seq(Steps) /\ CopyUp(p, n) # <<>>
         /\ Range(CopyUp(p, n)) = {Step("parent", p, 0), Step("write", p, n),
                                   Step("hideFile", p, Lower[p].size)}
<1>1. p \in Paths /\ Lower[p].size \in Nat
  BY LowerIs
<1>2. /\ Step("parent", p, 0) \in Steps /\ Step("write", p, n) \in Steps
      /\ Step("hideFile", p, Lower[p].size) \in Steps
  BY <1>1, StepIs DEF CallNames
<1> QED BY <1>2, ThreeCalls DEF CopyUp

LEMMA WritePlanIs ==
  ASSUME NEW p \in Paths, NEW n \in Nat, WritePlan(p, n) # Refused
  PROVE  /\ WritePlan(p, n) \in Seq(Steps) /\ WritePlan(p, n) # <<>>
         /\ Step("unhide", p, 0) \in Range(WritePlan(p, n))
         /\ Step("write", p, n) \in Range(WritePlan(p, n))
         /\ \A x \in Range(WritePlan(p, n)) :
              \/ x \in {Step("unhide", p, 0), Step("parent", p, 0), Step("write", p, n)}
              \/ x.path = p /\ x.do \in Hides
<1>1. /\ Step("unhide", p, 0) \in Steps /\ Step("parent", p, 0) \in Steps
      /\ Step("write", p, n) \in Steps
  BY StepIs DEF CallNames
<1>2. PICK a : a = <<Step("unhide", p, 0), Step("parent", p, 0), Step("write", p, n)>>
  OBVIOUS
<1>3. a \in Seq(Steps) /\ a # <<>>
      /\ Range(a) = {Step("unhide", p, 0), Step("parent", p, 0), Step("write", p, n)}
  BY <1>1, <1>2, ThreeCalls
<1>4. PICK b : b = When(InLower(p) /\ ~InUpper(p) /\ ~Whited(p), Hide(p))
  OBVIOUS
<1>5. b \in Seq(Steps) /\ \A x \in Range(b) : x.path = p /\ x.do \in Hides
  <2>1. CASE InLower(p) /\ ~InUpper(p) /\ ~Whited(p)
    BY <1>4, <2>1, HideIs DEF When
  <2>2. CASE ~(InLower(p) /\ ~InUpper(p) /\ ~Whited(p))
    BY <1>4, <2>2, NoCalls DEF When
  <2> QED BY <2>1, <2>2
<1>6. WritePlan(p, n) = a \o b
  BY <1>2, <1>4 DEF WritePlan
<1>7. a \o b \in Seq(Steps) /\ Range(a \o b) = Range(a) \cup Range(b) /\ a \o b # <<>>
  BY <1>3, <1>5, CallsJoin
<1> HIDE DEF Hides
<1> QED BY <1>3, <1>5, <1>6, <1>7

LEMMA AppendPlanIs ==
  ASSUME NEW p \in Paths, NEW n \in Nat, AppendPlan(p, n) # Refused
  PROVE  /\ ~Whited(p)
         /\ \/ InUpper(p) /\ AppendPlan(p, n) = <<Step("append", p, n)>>
            \/ /\ ~InUpper(p) /\ InLower(p) /\ Upper!Readable(Lower, p)
               /\ AppendPlan(p, n) = CopyUp(p, Lower[p].size + n)
            \/ ~InUpper(p) /\ ~InLower(p) /\ AppendPlan(p, n) = <<Step("write", p, n)>>
BY DEF AppendPlan

LEMMA SymlinkPlanIs ==
  ASSUME NEW p \in Paths, SymlinkPlan(p) # Refused
  PROVE  /\ SymlinkPlan(p) \in Seq(Steps) /\ SymlinkPlan(p) # <<>>
         /\ Range(SymlinkPlan(p)) = {Step("unhide", p, 0), Step("symlink", p, 0)}
<1>1. Step("unhide", p, 0) \in Steps /\ Step("symlink", p, 0) \in Steps
  BY StepIs DEF CallNames
<1> QED BY <1>1, TwoCalls DEF SymlinkPlan

LEMMA MkdirPlanIs ==
  ASSUME NEW p \in Paths, NEW all \in BOOLEAN, MkdirPlan(p, all) # Refused
  PROVE  /\ MkdirPlan(p, all) \in Seq(Steps) /\ MkdirPlan(p, all) # <<>>
         /\ \E do \in {"mkdir", "mkdirAll"} :
              Range(MkdirPlan(p, all)) = {Step("unhide", p, 0), Step(do, p, 0)}
<1>1. PICK do \in {"mkdir", "mkdirAll"} : do = IF all THEN "mkdirAll" ELSE "mkdir"
  OBVIOUS
<1>2. Step("unhide", p, 0) \in Steps /\ Step(do, p, 0) \in Steps
  BY StepIs DEF CallNames
<1>3. MkdirPlan(p, all) = <<Step("unhide", p, 0), Step(do, p, 0)>>
  BY <1>1 DEF MkdirPlan
<1> QED BY <1>2, <1>3, TwoCalls

(* A removal: the upper entry goes, and what the lower layer shows is      *)
(* hidden; that it is hidden has its whiteout last.                        *)
LEMMA RemovePlanIs ==
  ASSUME NEW p \in Paths, NEW all \in BOOLEAN, RemovePlan(p, all) # Refused
  PROVE  /\ RemovePlan(p, all) \in Seq(Steps) /\ RemovePlan(p, all) # <<>>
         /\ \A x \in Range(RemovePlan(p, all)) :
              /\ x.path = p /\ x.do \in Removals
              /\ x.do = "removeAll" => all
              /\ x.do = "whiteout" => InLower(p)
         /\ InUpper(p) => \E x \in Range(RemovePlan(p, all)) : x.do \in {"remove", "removeAll"}
         /\ InLower(p) /\ ~Whited(p) =>
              \E x \in Range(RemovePlan(p, all)) : x.do = "whiteout"
<1> DEFINE inLower == ~Whited(p) /\ InLower(p)
           Allowed(x) == /\ x.path = p /\ x.do \in Removals
                         /\ x.do = "removeAll" => all
                         /\ x.do = "whiteout" => InLower(p)
<1>1. PICK do \in {"remove", "removeAll"} : do = IF all THEN "removeAll" ELSE "remove"
  OBVIOUS
<1>2. PICK first : first = When(InUpper(p), <<Step(do, p, 0)>>)
  OBVIOUS
<1>3. PICK second : second = When(inLower /\ ~InUpper(p), Hide(p))
  OBVIOUS
<1>4. PICK third : third = When(inLower /\ ~InUpper(p) /\ all /\ Upper!IsDir(Lower, p),
                                <<Step("hideBelow", p, 0)>>)
  OBVIOUS
<1>5. PICK last : last = When(inLower, <<Step("whiteout", p, 0)>>)
  OBVIOUS
<1>6. RemovePlan(p, all) = first \o second \o third \o last /\ (InUpper(p) \/ inLower)
  BY <1>1, <1>2, <1>3, <1>4, <1>5 DEF RemovePlan
<1>7. /\ first \in Seq(Steps)
      /\ \A x \in Range(first) : Allowed(x)
      /\ InUpper(p) => Step(do, p, 0) \in Range(first) /\ Step(do, p, 0).do = do
  <2>1. Step(do, p, 0) \in Steps /\ Step(do, p, 0).do = do /\ Step(do, p, 0).path = p
    BY StepIs DEF CallNames
  <2>2. CASE InUpper(p)
    BY <1>1, <1>2, <2>1, <2>2, OneCall DEF When, Removals
  <2>3. CASE ~InUpper(p)
    BY <1>2, <2>3, NoCalls DEF When
  <2> QED BY <2>2, <2>3
<1>8. second \in Seq(Steps) /\ \A x \in Range(second) : Allowed(x)
  <2>1. CASE inLower /\ ~InUpper(p)
    <3>1. second = Hide(p)
      BY <1>3, <2>1 DEF When
    <3> QED BY <2>1, <3>1, HideIs DEF Hides, Removals
  <2>2. CASE ~(inLower /\ ~InUpper(p))
    BY <1>3, <2>2, NoCalls DEF When
  <2> QED BY <2>1, <2>2
<1>9. third \in Seq(Steps) /\ \A x \in Range(third) : Allowed(x)
  <2>1. /\ Step("hideBelow", p, 0) \in Steps
        /\ Step("hideBelow", p, 0).do = "hideBelow" /\ Step("hideBelow", p, 0).path = p
    BY StepIs DEF CallNames
  <2>2. third = <<Step("hideBelow", p, 0)>> \/ third = <<>>
    BY <1>4 DEF When
  <2> QED BY <2>1, <2>2, OneCall, NoCalls DEF Removals
<1>10. /\ last \in Seq(Steps)
       /\ \A x \in Range(last) : Allowed(x)
       /\ inLower => \E x \in Range(last) : x.do = "whiteout"
  <2>1. /\ Step("whiteout", p, 0) \in Steps
        /\ Step("whiteout", p, 0).do = "whiteout" /\ Step("whiteout", p, 0).path = p
    BY StepIs DEF CallNames
  <2>2. CASE inLower
    BY <1>5, <2>1, <2>2, OneCall DEF When, Removals
  <2>3. CASE ~inLower
    BY <1>5, <2>3, NoCalls DEF When
  <2> QED BY <2>2, <2>3
<1> HIDE DEF inLower, Allowed
<1>11. first \o second \in Seq(Steps) /\ Range(first \o second) = Range(first) \cup Range(second)
  BY <1>7, <1>8, CallsJoin
<1>12. /\ first \o second \o third \in Seq(Steps)
       /\ Range(first \o second \o third) = Range(first) \cup Range(second) \cup Range(third)
  BY <1>9, <1>11, CallsJoin
<1>13. /\ first \o second \o third \o last \in Seq(Steps)
       /\ Range(first \o second \o third \o last)
            = Range(first) \cup Range(second) \cup Range(third) \cup Range(last)
  BY <1>10, <1>12, CallsJoin
<1>14. PICK plan : plan = RemovePlan(p, all)
  OBVIOUS
<1>15. plan \in Seq(Steps)
       /\ Range(plan) = Range(first) \cup Range(second) \cup Range(third) \cup Range(last)
  BY <1>6, <1>13, <1>14
<1>16. \A x \in Range(plan) : Allowed(x)
  BY <1>7, <1>8, <1>9, <1>10, <1>15
<1>17. InUpper(p) => \E x \in Range(plan) : x.do \in {"remove", "removeAll"}
  BY <1>1, <1>7, <1>15
<1>18. inLower => \E x \in Range(plan) : x.do = "whiteout"
  BY <1>10, <1>15
<1>19. plan # <<>>
  BY <1>6, <1>15, <1>17, <1>18, EmptyOrNot
<1> QED BY <1>14, <1>15, <1>16, <1>17, <1>18, <1>19 DEF inLower, Allowed

----------------------------------------------------------------------------
(***************************************************************************)
(* Trees, and what a call does to the upper one.                           *)
(***************************************************************************)
LEMMA PrefixesAgree ==
  /\ \A p, q : Upper!IsPrefix(p, q) <=> IsPrefix(p, q)
  /\ \A p, q : Upper!IsStrictPrefix(p, q) <=> IsStrictPrefix(p, q)
  /\ \A p, q : IsStrictPrefix(p, q) => IsPrefix(p, q)
BY DEF Upper!IsPrefix, IsPrefix, Upper!IsStrictPrefix, IsStrictPrefix

LEMMA PrefixSelf ==
  ASSUME NEW p \in Paths
  PROVE  IsPrefix(p, p) /\ Related(p, p)
<1>1. p \in Seq(STRING)
  BY PathsAssumption
<1>2. Len(p) \in Nat
  BY <1>1, LenProperties
<1> QED
  BY <1>2 DEF IsPrefix, Related

LEMMA EntryIs ==
  ASSUME NEW x, Upper!WellFormed(x)
  PROVE  /\ x \in Upper!Entry
         /\ x = [kind |-> x.kind, size |-> x.size, loader |-> NoLoader]
         /\ x.kind \in {"file", "dir", "symlink", "fifo"} /\ x.size \in Nat
         /\ x.kind \in {"dir", "symlink"} => x.size = 0
BY DEF Upper!WellFormed, Upper!Entry, Upper!Kinds

LEMMA PlainIs ==
  ASSUME NEW kind \in {"file", "fifo", "dir", "symlink"}, NEW n \in Nat,
         kind \in {"dir", "symlink"} => n = 0
  PROVE  /\ Upper!WellFormed(Upper!Plain(kind, n))
         /\ Upper!Plain(kind, n).kind = kind /\ Upper!Plain(kind, n).size = n
<1>1. kind \in Upper!Kinds /\ kind # "lazy"
  BY DEF Upper!Kinds
<1>2. Upper!Plain(kind, n) = [kind |-> kind, size |-> n, loader |-> NoLoader]
  BY DEF Upper!Plain
<1>3. Upper!Plain(kind, n) \in Upper!Entry
  BY <1>1, <1>2 DEF Upper!Entry
<1>4. Upper!Plain(kind, n).kind = kind /\ Upper!Plain(kind, n).size = n
  BY <1>2
<1> QED BY <1>1, <1>3, <1>4, Zenon DEF Upper!WellFormed

LEMMA DirectoryIs ==
  /\ Upper!WellFormed(Upper!Directory)
  /\ Upper!Directory.kind = "dir" /\ Upper!Directory.size = 0
BY PlainIs DEF Upper!Directory

LEMMA SetTree ==
  ASSUME NEW e, Upper!Tree(e), NEW p \in Paths, NEW x, Upper!WellFormed(x)
  PROVE  /\ Upper!Tree(Upper!With(e, p, x))
         /\ DOMAIN Upper!With(e, p, x) = DOMAIN e \cup {p}
         /\ Upper!With(e, p, x)[p] = x
         /\ \A q \in DOMAIN e : q # p => Upper!With(e, p, x)[q] = e[q]
<1>1. PICK f : f = Upper!With(e, p, x)
  OBVIOUS
<1>2. DOMAIN f = DOMAIN e \cup {p} /\ \A q \in DOMAIN f : f[q] = IF q = p THEN x ELSE e[q]
  BY <1>1 DEF Upper!With
<1>3. Upper!Tree(f)
  BY <1>2 DEF Upper!Tree
<1> QED BY <1>1, <1>2, <1>3

LEMMA UnsetTree ==
  ASSUME NEW e, Upper!Tree(e), NEW gone
  PROVE  /\ Upper!Tree(Upper!Without(e, gone))
         /\ DOMAIN Upper!Without(e, gone) = DOMAIN e \ gone
         /\ \A q \in DOMAIN e \ gone : Upper!Without(e, gone)[q] = e[q]
<1>1. PICK f : f = Upper!Without(e, gone)
  OBVIOUS
<1>2. DOMAIN f = DOMAIN e \ gone /\ \A q \in DOMAIN f : f[q] = e[q]
  BY <1>1 DEF Upper!Without, Upper!Restrict
<1>3. Upper!Tree(f)
  BY <1>2 DEF Upper!Tree
<1> QED BY <1>1, <1>2, <1>3

LEMMA DirsTree ==
  ASSUME NEW e, Upper!Tree(e), NEW made \in SUBSET Paths
  PROVE  /\ Upper!Tree(Upper!WithDirs(e, made))
         /\ DOMAIN Upper!WithDirs(e, made) = DOMAIN e \cup made
         /\ \A q \in DOMAIN e : Upper!WithDirs(e, made)[q] = e[q]
         /\ \A q \in made \ DOMAIN e : Upper!WithDirs(e, made)[q] = Upper!Directory
<1>1. PICK f : f = Upper!WithDirs(e, made)
  OBVIOUS
<1>2. /\ DOMAIN f = DOMAIN e \cup made
      /\ \A q \in DOMAIN f : f[q] = IF q \in DOMAIN e THEN e[q] ELSE Upper!Directory
  BY <1>1 DEF Upper!WithDirs
<1>3. Upper!Tree(f)
  BY <1>2, DirectoryIs DEF Upper!Tree
<1> QED BY <1>1, <1>2, <1>3

(* The size of an entry grows.                                             *)
LEMMA GrownIs ==
  ASSUME NEW e, Upper!Tree(e), NEW p \in DOMAIN e, e[p].kind \in {"file", "fifo"},
         NEW n \in Nat
  PROVE  \E x : /\ Upper!WellFormed(x) /\ x.kind = e[p].kind /\ x.size = e[p].size + n
                /\ [e EXCEPT ![p].size = @ + n] = Upper!With(e, p, x)
<1>1. PICK x : x = [e[p] EXCEPT !.size = @ + n]
  OBVIOUS
<1>2. Upper!WellFormed(e[p])
  BY DEF Upper!Tree
<1>3. e[p] \in Upper!Entry /\ e[p].size \in Nat
  BY <1>2, EntryIs
<1>4. e[p].size + n \in Nat
  BY <1>3
<1>5. x \in Upper!Entry
  BY <1>1, <1>3, <1>4, Zenon DEF Upper!Entry
<1>6. x.kind = e[p].kind /\ x.size = e[p].size + n
  BY <1>1, <1>3 DEF Upper!Entry
<1>7. Upper!WellFormed(x)
  BY <1>5, <1>6 DEF Upper!WellFormed
<1>8. [e EXCEPT ![p].size = @ + n] = [e EXCEPT ![p] = x]
  BY <1>1
<1>9. [q \in DOMAIN e |-> e[q]] = Upper!Without(e, {}) /\ DOMAIN e \cup {p} = DOMAIN e
  BY DEF Upper!Without, Upper!Restrict
<1>10. [e EXCEPT ![p] = x] = [q \in DOMAIN e |-> IF q = p THEN x ELSE e[q]]
  OBVIOUS
<1>11. [e EXCEPT ![p] = x] = Upper!With(e, p, x)
  BY <1>9, <1>10 DEF Upper!With
<1> QED BY <1>6, <1>7, <1>8, <1>11

(* Three ways in which a call ends: it sets one entry, it adds             *)
(* directories, or it takes entries away.                                  *)
Outcomes == [ok : BOOLEAN, read : Nat \cup {Upper!NotRead}]

Fails == upper' = upper /\ ~outcome'.ok
Sets(p, x) ==
  outcome'.ok /\ Upper!WellFormed(x) /\ upper' = Upper!With(upper, p, x)
AddsDirs(p, made) ==
  /\ made \in SUBSET Paths
  /\ \A q \in made : q # <<>> /\ q \notin DOMAIN upper /\ IsPrefix(q, p)
  /\ upper' = Upper!WithDirs(upper, made)
Takes(p, gone) ==
  /\ outcome'.ok /\ p \in gone /\ \A q \in gone : IsPrefix(p, q)
  /\ upper' = Upper!Without(upper, gone)

LEMMA EndsAs ==
  ASSUME NEW e, NEW ok \in BOOLEAN, NEW n \in Nat \cup {Upper!NotRead}, Upper!Ends(e, ok, n)
  PROVE  upper' = e /\ (outcome'.ok <=> ok) /\ outcome' \in Outcomes
BY Zenon DEF Upper!Ends, Outcomes

LEMMA SucceedsAs ==
  ASSUME NEW e, Upper!Succeeds(e)
  PROVE  upper' = e /\ outcome'.ok /\ outcome' \in Outcomes
BY EndsAs DEF Upper!Succeeds

LEMMA FailsAs ==
  ASSUME Upper!Fails
  PROVE  Fails /\ outcome' \in Outcomes
BY EndsAs DEF Upper!Fails, Fails

LEMMA WriteEffect ==
  ASSUME NEW p \in Paths, NEW n \in Nat, Upper!WriteFile(p, n)
  PROVE  /\ outcome' \in Outcomes
         /\ \/ Fails
            \/ \E x : /\ Sets(p, x) /\ x.size = n /\ x.kind \in {"file", "fifo"}
                      /\ x.kind = "fifo" => p \in DOMAIN upper /\ upper[p].kind = "fifo"
<1>1. PICK kind \in {"file", "fifo"} :
        kind = IF p \in Upper!OfKind(upper, {"fifo"}) THEN "fifo" ELSE "file"
  OBVIOUS
<1>2. kind = "fifo" => p \in DOMAIN upper /\ upper[p].kind = "fifo"
  BY <1>1 DEF Upper!OfKind
<1>3. Upper!Fails \/ Upper!Succeeds(Upper!With(upper, p, Upper!Plain(kind, n)))
  BY <1>1 DEF Upper!WriteFile
<1> QED BY <1>2, <1>3, FailsAs, SucceedsAs, PlainIs DEF Sets

LEMMA AppendEffect ==
  ASSUME Upper!Tree(upper), NEW p \in Paths, NEW n \in Nat,
         Upper!AppendNew(p, n) \/ Upper!AppendOld(p, n) \/ Upper!AppendElsewhere(p)
  PROVE  /\ outcome' \in Outcomes
         /\ \/ Fails
            \/ p \notin DOMAIN upper /\ \E x : Sets(p, x) /\ x.size = n /\ x.kind = "file"
            \/ /\ p \in DOMAIN upper /\ upper[p].kind \in {"file", "fifo"}
               /\ \E x : Sets(p, x) /\ x.size = upper[p].size + n /\ x.kind = upper[p].kind
<1>1. CASE Upper!AppendNew(p, n)
  BY <1>1, FailsAs, SucceedsAs, PlainIs DEF Sets, Upper!AppendNew
<1>2. CASE Upper!AppendOld(p, n)
  <2>1. p \in DOMAIN upper /\ upper[p].kind \in {"file", "lazy", "fifo"}
    BY <1>2 DEF Upper!AppendOld, Upper!Counted, Upper!OfKind
  <2>2. upper[p].kind \in {"file", "fifo"}
    BY <2>1, EntryIs DEF Upper!Tree
  <2>3. ~Upper!IsLazy(upper, p)
    BY <2>2 DEF Upper!IsLazy, Upper!OfKind
  <2>4. \/ Upper!Succeeds([upper EXCEPT ![p].size = @ + n])
        \/ Upper!Ends(upper, FALSE, Upper!NotRead)
    BY <1>2, <2>3 DEF Upper!AppendOld
  <2>5. PICK x : /\ Upper!WellFormed(x) /\ x.kind = upper[p].kind
                 /\ x.size = upper[p].size + n
                 /\ [upper EXCEPT ![p].size = @ + n] = Upper!With(upper, p, x)
    BY <2>1, <2>2, GrownIs
  <2>6. CASE Upper!Ends(upper, FALSE, Upper!NotRead)
    BY <2>6, EndsAs DEF Fails
  <2>7. CASE Upper!Succeeds([upper EXCEPT ![p].size = @ + n])
    <3>1. upper' = Upper!With(upper, p, x) /\ outcome'.ok /\ outcome' \in Outcomes
      BY <2>5, <2>7, SucceedsAs
    <3> QED BY <2>1, <2>2, <2>5, <3>1 DEF Sets
  <2> QED BY <2>4, <2>6, <2>7
<1>3. CASE Upper!AppendElsewhere(p)
  BY <1>3, FailsAs DEF Upper!AppendElsewhere
<1> QED BY <1>1, <1>2, <1>3

LEMMA MkdirEffect ==
  ASSUME NEW p \in Paths, Upper!Mkdir(p)
  PROVE  outcome' \in Outcomes /\ (Fails \/ \E x : Sets(p, x) /\ x.kind = "dir")
BY FailsAs, SucceedsAs, DirectoryIs DEF Sets, Upper!Mkdir

LEMMA SymlinkEffect ==
  ASSUME NEW p \in Paths, Upper!Symlink(p)
  PROVE  outcome' \in Outcomes /\ (Fails \/ \E x : Sets(p, x) /\ x.kind = "symlink")
BY FailsAs, SucceedsAs, PlainIs DEF Sets, Upper!Symlink

LEMMA MkdirAllEffect ==
  ASSUME Upper!Tree(upper), NEW p \in Paths, Upper!MkdirAll(p)
  PROVE  /\ outcome' \in Outcomes
         /\ \E made : AddsDirs(p, made)
         /\ outcome'.ok /\ p # <<>> => p \in DOMAIN upper' /\ upper'[p].kind = "dir"
<1> DEFINE chain == Upper!Ancestors(p) \cup ({p} \ {<<>>})
           blocked == chain \cap Upper!NonDirs(upper)
           missing == {q \in chain \ DOMAIN upper :
                         \A b \in blocked : ~Upper!IsPrefix(b, q)}
           before(q) == {r \in missing : Len(r) < Len(q)}
           made == {q \in missing :
                      Upper!RoomForDir(Upper!Cardinality(Upper!OfKind(upper, {"dir"}))
                                       + Upper!Cardinality(before(q)))}
           all == blocked = {} /\ made = missing
<1>1. Upper!Ends(Upper!WithDirs(upper, made), all, Upper!NotRead)
  BY Zenon DEF Upper!MkdirAll
<1>2. made \subseteq chain \ DOMAIN upper
  OBVIOUS
<1>3. all => chain \subseteq DOMAIN upper \cup made
  BY DEF Upper!IsPrefix
<1>4. all => chain \cap Upper!NonDirs(upper) = {}
  OBVIOUS
<1>5. all \in BOOLEAN
  OBVIOUS
<1>6. \A q \in chain : q \in Paths /\ q # <<>> /\ IsPrefix(q, p)
  BY PrefixSelf, PrefixesAgree DEF Upper!Ancestors
<1>7. p # <<>> => p \in chain
  OBVIOUS
<1> HIDE DEF made, all, chain
<1>8. upper' = Upper!WithDirs(upper, made) /\ (outcome'.ok <=> all) /\ outcome' \in Outcomes
  BY <1>1, <1>5, EndsAs
<1>9. AddsDirs(p, made)
  BY <1>2, <1>6, <1>8 DEF AddsDirs
<1>10. ASSUME outcome'.ok, p # <<>>
       PROVE  p \in DOMAIN upper' /\ upper'[p].kind = "dir"
  <2>1. p \in DOMAIN upper \cup made /\ p \notin Upper!NonDirs(upper)
    BY <1>3, <1>4, <1>7, <1>8, <1>10
  <2>2. made \in SUBSET Paths
    BY <1>2, <1>6
  <2>3. PICK f : f = Upper!WithDirs(upper, made)
    OBVIOUS
  <2>4. /\ DOMAIN f = DOMAIN upper \cup made
        /\ \A q \in DOMAIN upper : f[q] = upper[q]
        /\ \A q \in made \ DOMAIN upper : f[q] = Upper!Directory
    BY <2>2, <2>3, DirsTree
  <2>5. p \in DOMAIN upper => upper[p].kind = "dir"
    BY <2>1, EntryIs DEF Upper!NonDirs, Upper!OfKind, Upper!Kinds, Upper!Tree
  <2>6. p \in DOMAIN f /\ f[p].kind = "dir"
    BY <2>1, <2>4, <2>5, DirectoryIs
  <2> QED BY <1>8, <2>3, <2>6
<1> QED BY <1>8, <1>9, <1>10

LEMMA RemoveEffect ==
  ASSUME NEW p \in Paths, NEW all \in BOOLEAN, Upper!RemovePath(p, all)
  PROVE  /\ outcome' \in Outcomes
         /\ Fails \/ \E gone : Takes(p, gone) /\ (~all => gone = {p})
<1>1. PICK below : below = {q \in DOMAIN upper : Upper!IsPrefix(p, q)}
  OBVIOUS
<1>2. p \in DOMAIN upper => p \in below
  BY <1>1, PrefixSelf, PrefixesAgree
<1>3. \A q \in below : IsPrefix(p, q)
  BY <1>1, PrefixesAgree
<1>4. \/ Upper!Fails
      \/ all /\ p \in DOMAIN upper /\ Upper!Succeeds(Upper!Without(upper, below))
      \/ Upper!Succeeds(Upper!Without(upper, {p}))
  BY <1>1 DEF Upper!RemovePath, Upper!IsDir, Upper!OfKind
<1>5. CASE Upper!Fails
  BY <1>5, FailsAs
<1>6. CASE all /\ p \in DOMAIN upper /\ Upper!Succeeds(Upper!Without(upper, below))
  BY <1>2, <1>3, <1>6, SucceedsAs DEF Takes
<1>7. CASE Upper!Succeeds(Upper!Without(upper, {p}))
  BY <1>7, SucceedsAs, PrefixSelf DEF Takes
<1> QED BY <1>4, <1>5, <1>6, <1>7

----------------------------------------------------------------------------
(***************************************************************************)
(* The view.                                                               *)
(***************************************************************************)
LEMMA VisibleIs ==
  ASSUME NEW q
  PROVE  /\ q \in DOMAIN Visible <=> (InUpper(q) \/ InLower(q)) /\ ~Whited(q)
         /\ q \in DOMAIN Visible =>
              Visible[q] = IF InUpper(q) THEN upper[q] ELSE Lower[q]
BY DEF Visible, InUpper, InLower

LEMMA VisibleEntry ==
  ASSUME Upper!Tree(upper), NEW q \in DOMAIN Visible
  PROVE  /\ Visible[q].kind \in {"file", "dir", "symlink", "fifo"}
         /\ Visible[q].size \in Nat
<1>1. CASE InUpper(q)
  <2>1. Upper!WellFormed(upper[q]) /\ Visible[q] = upper[q]
    BY <1>1, VisibleIs DEF Upper!Tree, InUpper
  <2> QED BY <2>1, EntryIs
<1>2. CASE ~InUpper(q)
  BY <1>2, VisibleIs, LowerIs
<1> QED BY <1>1, <1>2

LEMMA SizeAtIs ==
  ASSUME Upper!Tree(upper), NEW p
  PROVE  /\ SizeAt(p) \in Nat
         /\ p \in Upper!OfKind(Visible, {"symlink"}) => SizeAt(p) = 0
         /\ Upper!Readable(Visible, p) => p \in DOMAIN Visible /\ SizeAt(p) = Visible[p].size
<1>1. Upper!Readable(Visible, p) <=>
        p \in DOMAIN Visible /\ Visible[p].kind \in {"file", "fifo"}
  BY DEF Upper!Readable, Upper!OfKind
<1>2. p \in Upper!OfKind(Visible, {"symlink"}) <=>
        p \in DOMAIN Visible /\ Visible[p].kind = "symlink"
  BY DEF Upper!OfKind
<1> QED BY <1>1, <1>2, VisibleEntry DEF SizeAt

LEMMA MovedIs ==
  ASSUME Upper!Tree(upper), NEW p
  PROVE  /\ Upper!WellFormed(Moved(p)) /\ Moved(p).size = SizeAt(p)
         /\ Moved(p).kind = IF p \in Upper!OfKind(Visible, {"symlink"})
                            THEN "symlink" ELSE "file"
<1>1. PICK kind \in {"symlink", "file"} :
        kind = IF p \in Upper!OfKind(Visible, {"symlink"}) THEN "symlink" ELSE "file"
  OBVIOUS
<1>2. Moved(p) = Upper!Plain(kind, SizeAt(p))
  BY <1>1 DEF Moved
<1>3. SizeAt(p) \in Nat /\ (kind = "symlink" => SizeAt(p) = 0)
  BY <1>1, SizeAtIs
<1>4. /\ Upper!WellFormed(Upper!Plain(kind, SizeAt(p)))
      /\ Upper!Plain(kind, SizeAt(p)).kind = kind
      /\ Upper!Plain(kind, SizeAt(p)).size = SizeAt(p)
  BY <1>3, PlainIs
<1> QED BY <1>1, <1>2, <1>4

LEMMA CopyPlanIs ==
  ASSUME Upper!Tree(upper), NEW from \in Paths, NEW to \in Paths,
         CopyPlan(from, to) # Refused
  PROVE  /\ CopyPlan(from, to) \in Seq(Steps) /\ CopyPlan(from, to) # <<>>
         /\ from \in DOMAIN Visible
         /\ \/ /\ from \in Upper!OfKind(Visible, {"symlink"})
               /\ Range(CopyPlan(from, to)) = {Step("unhide", to, 0), Step("symlink", to, 0)}
            \/ /\ from \notin Upper!OfKind(Visible, {"symlink"})
               /\ Upper!Readable(Visible, from) /\ SizeAt(from) = Visible[from].size
               /\ Range(CopyPlan(from, to)) = {Step("writeFile", to, SizeAt(from))}
<1>1. CASE from \in Upper!OfKind(Visible, {"symlink"})
  <2>1. CopyPlan(from, to) = SymlinkPlan(to)
    <3>1. ~Upper!Readable(Visible, from)
      BY <1>1 DEF Upper!Readable, Upper!OfKind
    <3> QED BY <1>1, <3>1 DEF CopyPlan
  <2>2. from \in DOMAIN Visible
    BY <1>1 DEF Upper!OfKind
  <2> QED BY <1>1, <2>1, <2>2, SymlinkPlanIs
<1>2. CASE from \notin Upper!OfKind(Visible, {"symlink"})
  <2>1. /\ Upper!Readable(Visible, from)
        /\ CopyPlan(from, to) = <<Step("writeFile", to, Visible[from].size)>>
    BY <1>2 DEF CopyPlan
  <2>2. from \in DOMAIN Visible /\ SizeAt(from) = Visible[from].size /\ SizeAt(from) \in Nat
    BY <2>1, SizeAtIs
  <2>3. Step("writeFile", to, SizeAt(from)) \in Steps
    BY <2>2, StepIs DEF CallNames
  <2> QED BY <1>2, <2>1, <2>2, <2>3, OneCall
<1> QED BY <1>1, <1>2

LEMMA RenamePlanIs ==
  ASSUME Upper!Tree(upper), NEW from \in Paths, NEW to \in Paths,
         RenamePlan(from, to) # Refused
  PROVE  /\ CopyPlan(from, to) # Refused
         /\ RenamePlan(from, to) = CopyPlan(from, to) \o <<Step("removeFile", from, 0)>>
         /\ RenamePlan(from, to) \in Seq(Steps) /\ RenamePlan(from, to) # <<>>
         /\ Range(RenamePlan(from, to))
              = Range(CopyPlan(from, to)) \cup {Step("removeFile", from, 0)}
<1>1. CopyPlan(from, to) # Refused
  BY DEF RenamePlan
<1>2. RenamePlan(from, to) = CopyPlan(from, to) \o <<Step("removeFile", from, 0)>>
  BY DEF RenamePlan
<1>3. Step("removeFile", from, 0) \in Steps
  BY StepIs DEF CallNames
<1> QED BY <1>1, <1>2, <1>3, CopyPlanIs, OneCall, CallsJoin

(* chmod and set_modified_time.                                            *)
LEMMA MetadataPlanIs ==
  ASSUME NEW p \in Paths, NEW kinds, MetadataPlan(p, kinds) # Refused
  PROVE  /\ MetadataPlan(p, kinds) \in Seq(Steps)
         /\ MetadataPlan(p, kinds) # <<>> =>
              /\ ~Whited(p) /\ ~InUpper(p) /\ InLower(p)
              /\ \/ /\ Lower[p].kind = "dir"
                    /\ Range(MetadataPlan(p, kinds))
                         = {Step("mkdirAll", p, 0), Step("hideDir", p, 0)}
                 \/ /\ Lower[p].kind \in {"file", "fifo"}
                    /\ Range(MetadataPlan(p, kinds))
                         = {Step("parent", p, 0), Step("write", p, Lower[p].size),
                            Step("hideFile", p, Lower[p].size)}
                 \/ /\ Lower[p].kind = "symlink"
                    /\ Range(MetadataPlan(p, kinds))
                         = {Step("parent", p, 0), Step("symlink", p, 0),
                            Step("hideFile", p, 0)}
<1>1. CASE MetadataPlan(p, kinds) = <<>>
  BY <1>1, NoCalls
<1>2. CASE MetadataPlan(p, kinds) # <<>>
  <2>1. ~Whited(p) /\ ~InUpper(p) /\ InLower(p)
    BY <1>2 DEF MetadataPlan
  <2>2. \/ /\ Upper!IsDir(Lower, p)
           /\ MetadataPlan(p, kinds) = <<Step("mkdirAll", p, 0), Step("hideDir", p, 0)>>
        \/ /\ Upper!Readable(Lower, p)
           /\ MetadataPlan(p, kinds) = CopyUp(p, Lower[p].size)
        \/ /\ Lower[p].kind = "symlink"
           /\ MetadataPlan(p, kinds)
                = <<Step("parent", p, 0), Step("symlink", p, 0), Step("hideFile", p, 0)>>
    <3>1. MetadataPlan(p, kinds) =
            CASE Upper!IsDir(Lower, p) /\ DirsFit(MissingDirs(p, TRUE)) ->
                   <<Step("mkdirAll", p, 0), Step("hideDir", p, 0)>>
              [] Upper!Readable(Lower, p) /\ WriteFits(Lower[p].size) ->
                   CopyUp(p, Lower[p].size)
              [] Lower[p].kind = "symlink" /\ WriteFits(0) ->
                   <<Step("parent", p, 0), Step("symlink", p, 0), Step("hideFile", p, 0)>>
              [] OTHER -> Refused
      BY <1>2, <2>1, Zenon DEF MetadataPlan
    <3> QED BY <3>1
  <2>3. CASE /\ Upper!IsDir(Lower, p)
             /\ MetadataPlan(p, kinds) = <<Step("mkdirAll", p, 0), Step("hideDir", p, 0)>>
    <3>1. Step("mkdirAll", p, 0) \in Steps /\ Step("hideDir", p, 0) \in Steps
      BY StepIs DEF CallNames
    <3> QED BY <2>1, <2>3, <3>1, TwoCalls DEF Upper!IsDir, Upper!OfKind
  <2>4. CASE /\ Upper!Readable(Lower, p)
             /\ MetadataPlan(p, kinds) = CopyUp(p, Lower[p].size)
    BY <2>1, <2>4, LowerIs, CopyUpIs DEF Upper!Readable, Upper!OfKind
  <2>5. CASE /\ Lower[p].kind = "symlink"
             /\ MetadataPlan(p, kinds)
                  = <<Step("parent", p, 0), Step("symlink", p, 0), Step("hideFile", p, 0)>>
    <3>1. /\ Step("parent", p, 0) \in Steps /\ Step("symlink", p, 0) \in Steps
          /\ Step("hideFile", p, 0) \in Steps
      BY StepIs DEF CallNames
    <3> QED BY <2>1, <2>5, <3>1, ThreeCalls
  <2> QED BY <2>2, <2>3, <2>4, <2>5
<1> QED BY <1>1, <1>2

----------------------------------------------------------------------------
(***************************************************************************)
(* The calls in progress.  A plan names the paths of the operation and no  *)
(* other, a whiteout is planned only where the lower layer has something,  *)
(* and the removal of a rename is its last call.                           *)
(***************************************************************************)
Good(x, ps) == x.path \in ps /\ (x.do = "whiteout" => InLower(x.path))
RemovesLast(todo) == \A i \in 1 .. Len(todo) - 1 : todo[i].do # "removeFile"
Planned(todo, ps) ==
  /\ todo \in Seq(Steps)
  /\ \A x \in Range(todo) : Good(x, ps)
  /\ RemovesLast(todo)

IsCall(c) == c = [op |-> c.op, from |-> c.from, to |-> c.to,
                  want |-> c.want, todo |-> c.todo]
CallOK(c) ==
  /\ IsCall(c)
  /\ c.op \in OperationNames /\ c.from \in Targets /\ c.to \in Targets
  /\ IF c.op \in {"remove", "metadata"} THEN c.want = NoEntry ELSE Upper!WellFormed(c.want)
  /\ c.todo # <<>> /\ Planned(c.todo, {c.from, c.to})

CallsInv ==
  /\ call = [s \in Sessions |-> call[s]]
  /\ \A s \in Sessions : call[s] # NoCall => CallOK(call[s])

LEMMA NoneRemoves ==
  ASSUME NEW a \in Seq(Steps), \A x \in Range(a) : x.do # "removeFile"
  PROVE  RemovesLast(a)
<1>1. Range(a) = {a[i] : i \in 1 .. Len(a)} /\ Len(a) \in Nat
  BY RangeEquality, LenProperties
<1> QED BY <1>1 DEF RemovesLast

LEMMA RemovesLastTail ==
  ASSUME NEW a \in Seq(Steps), a # <<>>, RemovesLast(a)
  PROVE  RemovesLast(Tail(a))
<1>1. /\ Len(Tail(a)) = Len(a) - 1 /\ Len(a) \in Nat \ {0}
      /\ \A i \in 1 .. Len(Tail(a)) : Tail(a)[i] = a[i + 1]
  BY HeadTailProperties, EmptySeq
<1>2. ASSUME NEW i \in 1 .. Len(Tail(a)) - 1
      PROVE  Tail(a)[i].do # "removeFile"
  <2>1. i + 1 \in 1 .. Len(a) - 1 /\ Tail(a)[i] = a[i + 1]
    BY <1>1
  <2> QED BY <2>1 DEF RemovesLast
<1> QED BY <1>2 DEF RemovesLast

LEMMA RemovesLastJoin ==
  ASSUME NEW a \in Seq(Steps), NEW b \in Seq(Steps),
         \A x \in Range(a) : x.do # "removeFile", RemovesLast(b)
  PROVE  RemovesLast(a \o b)
<1>1. PICK n \in Nat : n = Len(a)
  BY LenProperties
<1>2. PICK m \in Nat : m = Len(b)
  BY LenProperties
<1>3. /\ Len(a \o b) = n + m
      /\ \A i \in 1 .. n + m : (a \o b)[i] = IF i <= n THEN a[i] ELSE b[i - n]
  BY <1>1, <1>2, ConcatProperties
<1>4. \A i \in 1 .. n : a[i].do # "removeFile"
  BY <1>1, RangeEquality
<1>5. ASSUME NEW i \in 1 .. Len(a \o b) - 1
      PROVE  (a \o b)[i].do # "removeFile"
  <2>1. CASE i <= n
    BY <1>3, <1>4, <2>1
  <2>2. CASE i > n
    <3>1. i - n \in 1 .. Len(b) - 1 /\ (a \o b)[i] = b[i - n]
      BY <1>2, <1>3, <2>2
    <3> QED BY <3>1 DEF RemovesLast
  <2> QED BY <2>1, <2>2, <1>3
<1> QED BY <1>5 DEF RemovesLast

LEMMA RemovesThenDone ==
  ASSUME NEW a \in Seq(Steps), a # <<>>, RemovesLast(a), Head(a).do = "removeFile"
  PROVE  Tail(a) = <<>>
<1>1. Len(a) \in Nat \ {0} /\ Head(a) = a[1]
  BY EmptySeq
<1>2. ~(Len(a) > 1)
  BY <1>1 DEF RemovesLast
<1> QED BY <1>2, CallsLeft

LEMMA PlannedTail ==
  ASSUME NEW a, NEW ps, Planned(a, ps), a # <<>>
  PROVE  Head(a) \in Steps /\ Good(Head(a), ps) /\ Planned(Tail(a), ps)
BY CallsLeft, RemovesLastTail DEF Planned

LEMMA PlannedJoin ==
  ASSUME NEW a, NEW b, NEW ps, Planned(a, ps), Planned(b, ps),
         \A x \in Range(a) : x.do # "removeFile"
  PROVE  Planned(a \o b, ps)
<1>1. a \in Seq(Steps) /\ b \in Seq(Steps)
  BY DEF Planned
<1>2. RemovesLast(a \o b)
  BY <1>1, RemovesLastJoin DEF Planned
<1>3. a \o b \in Seq(Steps) /\ Range(a \o b) = Range(a) \cup Range(b)
  BY <1>1, CallsJoin
<1> QED BY <1>2, <1>3 DEF Planned

LEMMA PlannedMore ==
  ASSUME NEW a, NEW ps, NEW qs, Planned(a, ps), ps \subseteq qs
  PROVE  Planned(a, qs)
BY DEF Planned, Good

(* A plan whose calls are all about one path, and none a removal by name.  *)
LEMMA PlannedOf ==
  ASSUME NEW a \in Seq(Steps), NEW p,
         \A x \in Range(a) : /\ x.path = p /\ x.do # "removeFile"
                             /\ x.do = "whiteout" => InLower(p)
  PROVE  Planned(a, {p})
BY NoneRemoves DEF Planned, Good

LEMMA StepFor ==
  ASSUME NEW do \in CallNames, NEW p \in Paths, NEW n \in Nat,
         do \notin {"removeFile", "whiteout"}
  PROVE  /\ Step(do, p, n).path = p /\ Step(do, p, n).do # "removeFile"
         /\ Step(do, p, n).do # "whiteout"
BY StepIs

LEMMA WritePlanned ==
  ASSUME NEW p \in Paths, NEW n \in Nat, WritePlan(p, n) # Refused
  PROVE  Planned(WritePlan(p, n), {p})
<1>1. \A x \in {Step("unhide", p, 0), Step("parent", p, 0), Step("write", p, n)} :
        x.path = p /\ x.do # "removeFile" /\ x.do # "whiteout"
  BY StepFor DEF CallNames
<1>2. \A x \in Range(WritePlan(p, n)) :
        x.path = p /\ x.do # "removeFile" /\ x.do # "whiteout"
  BY <1>1, WritePlanIs DEF Hides
<1>3. WritePlan(p, n) \in Seq(Steps)
  BY WritePlanIs
<1> QED BY <1>2, <1>3, PlannedOf

LEMMA AppendPlanned ==
  ASSUME NEW p \in Paths, NEW n \in Nat, AppendPlan(p, n) # Refused
  PROVE  Planned(AppendPlan(p, n), {p})
<1>1. \A do \in {"append", "write", "parent", "hideFile"} : \A m \in Nat :
        /\ Step(do, p, m) \in Steps /\ Step(do, p, m).path = p
        /\ Step(do, p, m).do # "removeFile" /\ Step(do, p, m).do # "whiteout"
  BY StepIs DEF CallNames
<1>2. ASSUME NEW do \in {"append", "write"} PROVE Planned(<<Step(do, p, n)>>, {p})
  <2>1. PICK x : x = Step(do, p, n)
    OBVIOUS
  <2>2. x \in Steps /\ x.path = p /\ x.do # "removeFile" /\ x.do # "whiteout"
    BY <1>1, <2>1
  <2>3. <<x>> \in Seq(Steps) /\ \A y \in Range(<<x>>) : y = x
    BY <2>2, OneCall
  <2>4. Planned(<<x>>, {p})
    BY <2>2, <2>3, PlannedOf
  <2> QED BY <2>1, <2>4
<1>3. ASSUME InLower(p) PROVE Planned(CopyUp(p, Lower[p].size + n), {p})
  <2>1. Lower[p].size \in Nat /\ Lower[p].size + n \in Nat
    BY <1>3, LowerIs
  <2>2. PICK plan : plan = CopyUp(p, Lower[p].size + n)
    OBVIOUS
  <2>3. /\ plan \in Seq(Steps)
        /\ Range(plan) = {Step("parent", p, 0), Step("write", p, Lower[p].size + n),
                          Step("hideFile", p, Lower[p].size)}
    BY <1>3, <2>1, <2>2, CopyUpIs
  <2>4. \A x \in Range(plan) : x.path = p /\ x.do # "removeFile" /\ x.do # "whiteout"
    BY <1>1, <2>1, <2>3
  <2>5. Planned(plan, {p})
    BY <2>3, <2>4, PlannedOf
  <2> QED BY <2>2, <2>5
<1> QED BY <1>2, <1>3, AppendPlanIs

LEMMA MkdirPlanned ==
  ASSUME NEW p \in Paths, NEW all \in BOOLEAN, MkdirPlan(p, all) # Refused
  PROVE  Planned(MkdirPlan(p, all), {p})
<1>1. PICK do \in {"mkdir", "mkdirAll"} :
        Range(MkdirPlan(p, all)) = {Step("unhide", p, 0), Step(do, p, 0)}
  BY MkdirPlanIs
<1>2. \A x \in {Step("unhide", p, 0), Step(do, p, 0)} :
        x.path = p /\ x.do # "removeFile" /\ x.do # "whiteout"
  BY StepFor DEF CallNames
<1>3. MkdirPlan(p, all) \in Seq(Steps)
  BY MkdirPlanIs
<1> QED BY <1>1, <1>2, <1>3, PlannedOf

LEMMA RemovePlanned ==
  ASSUME NEW p \in Paths, NEW all \in BOOLEAN, RemovePlan(p, all) # Refused
  PROVE  Planned(RemovePlan(p, all), {p})
<1>1. \A do \in Removals : do # "removeFile"
  BY DEF Removals
<1> QED BY <1>1, RemovePlanIs, PlannedOf

LEMMA LinkPlanned ==
  ASSUME NEW plan \in Seq(Steps), NEW p \in Paths,
         Range(plan) = {Step("unhide", p, 0), Step("symlink", p, 0)}
  PROVE  Planned(plan, {p}) /\ \A x \in Range(plan) : x.do # "removeFile"
<1>1. \A x \in {Step("unhide", p, 0), Step("symlink", p, 0)} :
        x.path = p /\ x.do # "removeFile" /\ x.do # "whiteout"
  BY StepFor DEF CallNames
<1> QED BY <1>1, PlannedOf

LEMMA CopyPlanned ==
  ASSUME Upper!Tree(upper), NEW from \in Paths, NEW to \in Paths,
         CopyPlan(from, to) # Refused
  PROVE  /\ Planned(CopyPlan(from, to), {to})
         /\ \A x \in Range(CopyPlan(from, to)) : x.do # "removeFile"
<1>1. CASE Range(CopyPlan(from, to)) = {Step("unhide", to, 0), Step("symlink", to, 0)}
  BY <1>1, CopyPlanIs, LinkPlanned
<1>2. CASE Range(CopyPlan(from, to)) = {Step("writeFile", to, SizeAt(from))}
  <2>1. SizeAt(from) \in Nat
    BY SizeAtIs
  <2>2. \A x \in {Step("writeFile", to, SizeAt(from))} :
          x.path = to /\ x.do # "removeFile" /\ x.do # "whiteout"
    BY <2>1, StepFor DEF CallNames
  <2> QED BY <1>2, <2>2, CopyPlanIs, PlannedOf
<1> QED BY <1>1, <1>2, CopyPlanIs

LEMMA RenamePlanned ==
  ASSUME Upper!Tree(upper), NEW from \in Paths, NEW to \in Paths,
         RenamePlan(from, to) # Refused
  PROVE  Planned(RenamePlan(from, to), {from, to})
<1>1. PICK a : a = CopyPlan(from, to)
  OBVIOUS
<1>2. Planned(a, {from, to}) /\ \A x \in Range(a) : x.do # "removeFile"
  <2>1. Planned(a, {to}) /\ \A x \in Range(a) : x.do # "removeFile"
    BY <1>1, RenamePlanIs, CopyPlanned
  <2>2. {to} \subseteq {from, to}
    OBVIOUS
  <2> QED BY <2>1, <2>2, PlannedMore
<1>3. PICK x : x = Step("removeFile", from, 0)
  OBVIOUS
<1>4. x \in Steps /\ x.do = "removeFile" /\ x.path = from
  BY <1>3, StepIs DEF CallNames
<1>5. Planned(<<x>>, {from, to})
  <2>1. RemovesLast(<<x>>)
    BY DEF RemovesLast
  <2> QED BY <1>4, <2>1, OneCall DEF Planned, Good
<1>6. Planned(a \o <<x>>, {from, to})
  BY <1>2, <1>5, PlannedJoin
<1> QED BY <1>1, <1>3, <1>6, RenamePlanIs

LEMMA MetadataPlanned ==
  ASSUME NEW p \in Paths, NEW kinds, MetadataPlan(p, kinds) # Refused,
         MetadataPlan(p, kinds) # <<>>
  PROVE  Planned(MetadataPlan(p, kinds), {p})
<1>1. InLower(p) /\ Lower[p].size \in Nat
  BY MetadataPlanIs, LowerIs
<1>2. \A do \in {"mkdirAll", "hideDir", "parent", "write", "hideFile", "symlink"} :
        \A n \in {0, Lower[p].size} :
          /\ Step(do, p, n).path = p /\ Step(do, p, n).do # "removeFile"
          /\ Step(do, p, n).do # "whiteout"
  BY <1>1, StepFor DEF CallNames
<1>3. MetadataPlan(p, kinds) \in Seq(Steps)
  BY MetadataPlanIs
<1>4. \A x \in Range(MetadataPlan(p, kinds)) :
        \E do \in {"mkdirAll", "hideDir", "parent", "write", "hideFile", "symlink"} :
          \E n \in {0, Lower[p].size} : x = Step(do, p, n)
  BY MetadataPlanIs
<1>5. \A x \in Range(MetadataPlan(p, kinds)) :
        x.path = p /\ x.do # "removeFile" /\ x.do # "whiteout"
  BY <1>2, <1>4
<1> QED BY <1>3, <1>5, PlannedOf

----------------------------------------------------------------------------
(***************************************************************************)
(* Types.                                                                  *)
(***************************************************************************)
SavedOK ==
  /\ saved # NoSnapshot => Upper!Tree(saved)
  /\ kept # NoSnapshot => DOMAIN kept \subseteq Paths
LayersOK ==
  /\ Upper!Tree(upper) /\ outcome \in Outcomes
  /\ whiteouts \subseteq Paths /\ hidden \in Usages
TypeInv == LayersOK /\ SavedOK /\ CallsInv

LEMMA SavedSame ==
  ASSUME SavedOK, UNCHANGED <<saved, kept>>
  PROVE  SavedOK'
BY DEF SavedOK, Upper!Tree, Upper!WellFormed

LEMMA CallChanges ==
  ASSUME CallsInv, NEW s \in Sessions, NEW c, c = NoCall \/ CallOK(c),
         call' = [call EXCEPT ![s] = c]
  PROVE  CallsInv'
<1>1. call' = [t \in Sessions |-> IF t = s THEN c ELSE call[t]]
  BY DEF CallsInv
<1>2. call' = [t \in Sessions |-> call'[t]]
  BY <1>1
<1>3. \A t \in Sessions : call'[t] = NoCall \/ CallOK(call'[t])
  BY <1>1 DEF CallsInv
<1> QED
  BY <1>2, <1>3, Zenon DEF CallsInv, CallOK, IsCall

(* An operation that is decided on is a call in progress.                  *)
LEMMA BeginsCall ==
  ASSUME TypeInv, NEW s \in Sessions, NEW op \in OperationNames, NEW from \in Targets,
         NEW to \in Targets, NEW want, NEW plan,
         IF op \in {"remove", "metadata"} THEN want = NoEntry ELSE Upper!WellFormed(want),
         plan # Refused /\ plan # <<>> => Planned(plan, {from, to}),
         Begins(s, op, from, to, want, plan)
  PROVE  TypeInv'
<1>1. PICK c : c = [op |-> op, from |-> from, to |-> to, want |-> want, todo |-> plan]
  OBVIOUS
<1>2. plan # Refused /\ plan # <<>> => CallOK(c)
  BY <1>1 DEF CallOK, IsCall
<1>3. call' = [call EXCEPT ![s] = IF plan \in {Refused, <<>>} THEN NoCall ELSE c]
  BY <1>1 DEF Begins
<1>4. CallsInv'
  BY <1>2, <1>3, CallChanges DEF TypeInv
<1>5. PICK ok \in BOOLEAN : outcome' = [ok |-> ok, read |-> Upper!NotRead]
  <2>1. (plan # Refused) \in BOOLEAN
    OBVIOUS
  <2> QED BY <2>1, Zenon DEF Begins, Answers
<1>6. LayersOK'
  BY <1>5 DEF TypeInv, LayersOK, Begins, Outcomes, Upper!Tree, Upper!WellFormed
<1> QED BY <1>4, <1>6, SavedSame DEF TypeInv, Begins

LEMMA StartsType ==
  ASSUME TypeInv, NEW s \in Sessions, Starts(s)
  PROVE  TypeInv'
<1>0. Upper!Tree(upper) /\ \A p \in Targets : p \in Paths
  BY PathsAssumption DEF TypeInv, LayersOK
<1>1. ASSUME NEW p \in Targets, NEW n \in Sizes, WriteFile(s, p, n)
      PROVE  TypeInv'
  <2>1. n \in Nat /\ p \in Paths /\ {p, p} = {p}
    BY <1>0, SizesAssumption
  <2>2. Upper!WellFormed(Upper!Plain("file", n))
    BY <2>1, PlainIs
  <2>3. WritePlan(p, n) # Refused => Planned(WritePlan(p, n), {p, p})
    BY <2>1, WritePlanned
  <2> QED BY <1>1, <2>2, <2>3, BeginsCall DEF WriteFile, OperationNames
<1>2. ASSUME NEW p \in Targets, NEW n \in Sizes, AppendFile(s, p, n)
      PROVE  TypeInv'
  <2>1. n \in Nat /\ p \in Paths /\ {p, p} = {p}
    BY <1>0, SizesAssumption
  <2>2. Upper!WellFormed(Upper!Plain("file", SizeAt(p) + n))
    BY <1>0, <2>1, SizeAtIs, PlainIs
  <2>3. AppendPlan(p, n) # Refused => Planned(AppendPlan(p, n), {p, p})
    BY <2>1, AppendPlanned
  <2> QED BY <1>2, <2>2, <2>3, BeginsCall DEF AppendFile, OperationNames
<1>3. ASSUME NEW p \in Targets, NEW all \in BOOLEAN, Mkdir(s, p, all)
      PROVE  TypeInv'
  <2>1. p \in Paths /\ {p, p} = {p}
    BY <1>0
  <2>2. MkdirPlan(p, all) # Refused => Planned(MkdirPlan(p, all), {p, p})
    BY <2>1, MkdirPlanned
  <2> QED BY <1>3, <2>2, BeginsCall, DirectoryIs DEF Mkdir, OperationNames
<1>4. ASSUME NEW p \in Targets, NEW all \in BOOLEAN, RemovePath(s, p, all)
      PROVE  TypeInv'
  <2>1. p \in Paths /\ {p, p} = {p}
    BY <1>0
  <2>2. RemovePlan(p, all) # Refused => Planned(RemovePlan(p, all), {p, p})
    BY <2>1, RemovePlanned
  <2> QED BY <1>4, <2>2, BeginsCall DEF RemovePath, OperationNames
<1>5. ASSUME NEW p \in Targets, Symlink(s, p)
      PROVE  TypeInv'
  <2>1. p \in Paths /\ {p, p} = {p}
    BY <1>0
  <2>2. SymlinkPlan(p) # Refused => Planned(SymlinkPlan(p), {p, p})
    BY <2>1, SymlinkPlanIs, LinkPlanned
  <2>3. Upper!WellFormed(Upper!Plain("symlink", 0))
    BY PlainIs
  <2> QED BY <1>5, <2>2, <2>3, BeginsCall DEF Symlink, OperationNames
<1>6. ASSUME NEW p \in Targets, Chmod(s, p) \/ SetModifiedTime(s, p)
      PROVE  TypeInv'
  <2>1. p \in Paths /\ {p, p} = {p}
    BY <1>0
  <2>2. PICK kinds : Begins(s, "metadata", p, p, NoEntry, MetadataPlan(p, kinds))
    BY <1>6 DEF Chmod, SetModifiedTime
  <2>3. MetadataPlan(p, kinds) # Refused /\ MetadataPlan(p, kinds) # <<>> =>
          Planned(MetadataPlan(p, kinds), {p, p})
    BY <2>1, MetadataPlanned
  <2> QED BY <2>2, <2>3, BeginsCall DEF OperationNames
<1>7. ASSUME NEW from \in Targets, NEW to \in Targets, Copy(s, from, to)
      PROVE  TypeInv'
  <2>1. CopyPlan(from, to) # Refused => Planned(CopyPlan(from, to), {from, to})
    <3>1. CopyPlan(from, to) # Refused => Planned(CopyPlan(from, to), {to})
      BY <1>0, CopyPlanned
    <3>2. {to} \subseteq {from, to}
      OBVIOUS
    <3> QED BY <3>1, <3>2, PlannedMore
  <2>2. Upper!WellFormed(Moved(from))
    BY <1>0, MovedIs
  <2> QED BY <1>7, <2>1, <2>2, BeginsCall DEF Copy, OperationNames
<1>8. ASSUME NEW from \in Targets, NEW to \in Targets, Rename(s, from, to)
      PROVE  TypeInv'
  <2>1. RenamePlan(from, to) # Refused => Planned(RenamePlan(from, to), {from, to})
    BY <1>0, RenamePlanned
  <2>2. Upper!WellFormed(Moved(from))
    BY <1>0, MovedIs
  <2> QED BY <1>8, <2>1, <2>2, BeginsCall DEF Rename, OperationNames
<1>9. CASE VfsSnapshot(s)
  <2>1. Upper!Succeeds(Upper!Contents(upper)) /\ UNCHANGED <<whiteouts, hidden, call>>
    BY <1>9 DEF VfsSnapshot, Upper!Snapshot
  <2>2. PICK e : e = Upper!Contents(upper)
    OBVIOUS
  <2>3. Upper!Tree(e) /\ DOMAIN e = DOMAIN upper
    <3>1. \A p \in DOMAIN upper : Upper!WellFormed(upper[p]) /\ upper[p].kind # "lazy"
      BY <1>0, EntryIs DEF Upper!Tree
    <3> QED BY <1>0, <2>2, <3>1 DEF Upper!Contents, Upper!Loaded, Upper!Tree
  <2>4. Upper!Tree(Upper!Captured(e))
    <3>1. Upper!WellFormed(Upper!Plain("fifo", 0))
      BY PlainIs
    <3> QED BY <2>3, <3>1 DEF Upper!Captured, Upper!Tree
  <2>5. saved' = Upper!Captured(e) /\ kept' = Upper!Remembered
    BY <1>9, <2>2 DEF VfsSnapshot, Upper!Snapshot
  <2>6. DOMAIN Upper!Remembered \subseteq Paths
    BY <1>0 DEF Upper!Remembered, Upper!Tree
  <2>7. Upper!Tree(saved') /\ DOMAIN kept' \subseteq Paths
    BY <2>4, <2>5, <2>6
  <2>8. Upper!Tree(upper') /\ outcome' \in Outcomes
    BY <2>1, <2>2, <2>3, SucceedsAs
  <2>9. SavedOK'
    BY <2>7 DEF SavedOK, Upper!Tree, Upper!WellFormed
  <2>10. LayersOK'
    BY <2>1, <2>8 DEF TypeInv, LayersOK, Upper!Tree, Upper!WellFormed
  <2>11. CallsInv'
    BY <2>1, Zenon DEF TypeInv, CallsInv, CallOK, IsCall
  <2> QED BY <2>9, <2>10, <2>11 DEF TypeInv
<1>10. CASE VfsRestore(s)
  <2>1. UNCHANGED <<saved, kept, whiteouts, hidden, call>> /\ saved # NoSnapshot
        /\ (Upper!Succeeds(saved) \/ Upper!Fails)
    BY <1>10 DEF VfsRestore, Upper!Restore, Upper!Idle
  <2>2. Upper!Tree(saved)
    BY <2>1 DEF TypeInv, SavedOK
  <2>3. (upper' = saved \/ upper' = upper) /\ outcome' \in Outcomes
    BY <2>1, SucceedsAs, FailsAs DEF Fails
  <2>4. Upper!Tree(upper')
    BY <1>0, <2>2, <2>3
  <2>5. LayersOK'
    BY <2>1, <2>3, <2>4 DEF TypeInv, LayersOK, Upper!Tree, Upper!WellFormed
  <2>6. CallsInv'
    BY <2>1, Zenon DEF TypeInv, CallsInv, CallOK, IsCall
  <2> QED BY <2>1, <2>5, <2>6, SavedSame DEF TypeInv
<1> QED
  BY <1>1, <1>2, <1>3, <1>4, <1>5, <1>6, <1>7, <1>8, <1>9, <1>10 DEF Starts

----------------------------------------------------------------------------
(***************************************************************************)
(* What one call can change.                                               *)
(***************************************************************************)
LEMMA SubSeqTwice ==
  ASSUME NEW S, NEW s \in Seq(S), NEW n \in 1 .. Len(s), NEW m \in 1 .. n
  PROVE  SubSeq(SubSeq(s, 1, n), 1, m) = SubSeq(s, 1, m)
<1>1. Len(s) \in Nat
  BY LenProperties
<1>2. 1 \in 1 .. Len(s) /\ 1 + 1 - 1 = 1 /\ 1 + m - 1 = m
  BY <1>1
<1>3. 1 \in 1 .. n - 1 + 1 /\ m \in 1 .. n - 1 + 1
  BY <1>1
<1>4. SubSeq(SubSeq(s, 1, n), 1, m) = SubSeq(s, 1 + 1 - 1, 1 + m - 1)
  BY <1>2, <1>3, SubSeqOfSubSeq
<1> QED
  BY <1>2, <1>4, Zenon

(* What is above the parent is above the path.                             *)
LEMMA PrefixOfFront ==
  ASSUME NEW p \in Paths, NEW q \in Paths, IsPrefix(q, Front(p))
  PROVE  IsPrefix(q, p)
<1>1. p \in Seq(STRING) /\ q \in Seq(STRING)
  BY PathsAssumption
<1>2. Len(p) \in Nat /\ Len(q) \in Nat
  BY <1>1, LenProperties
<1>3. CASE Len(p) = 0
  <2>1. p = <<>>
    BY <1>1, <1>3, EmptySeq
  <2>2. Front(p) = <<>>
    BY <2>1, <1>3 DEF Front
  <2> QED
    BY <2>1, <2>2
<1>4. CASE Len(p) # 0
  <2>1. Front(p) = SubSeq(p, 1, Len(p) - 1) /\ Len(p) - 1 \in Nat
    BY <1>2, <1>4 DEF Front
  <2>2. PICK n \in Nat : n = Len(p) - 1
    BY <2>1
  <2>3. \A i \in 1 .. n : p[i] \in STRING
    BY <1>1, <1>2, <2>2, LenProperties
  <2>4. Len(SubSeq(p, 1, n)) = n
    BY <2>2, <2>3, SubSeqProperties
  <2>5. Len(q) <= Len(Front(p)) /\ SubSeq(q, 1, Len(q)) = SubSeq(Front(p), 1, Len(q))
    BY DEF IsPrefix
  <2>6. Len(q) <= Len(p) - 1
    BY <2>1, <2>2, <2>4, <2>5, Zenon
  <2>7. SubSeq(Front(p), 1, Len(q)) = SubSeq(p, 1, Len(q))
    <3>1. CASE Len(q) = 0
      BY <3>1, SubSeqEmpty
    <3>2. CASE Len(q) # 0
      <4>1. n \in 1 .. Len(p) /\ Len(q) \in 1 .. n
        BY <1>2, <2>2, <2>6, <3>2
      <4>2. SubSeq(SubSeq(p, 1, n), 1, Len(q)) = SubSeq(p, 1, Len(q))
        BY <1>1, <4>1, SubSeqTwice
      <4> QED
        BY <1>2, <2>1, <2>2, <4>2
    <3> QED
      BY <3>1, <3>2
  <2> QED
    BY <1>2, <2>5, <2>6, <2>7 DEF IsPrefix
<1> QED
  BY <1>3, <1>4

(* The step that a session takes next, and the calls it leaves.            *)
LEMMA NowIs ==
  ASSUME NEW s, CallOK(call[s])
  PROVE  /\ Now(s) \in Steps /\ Now(s).path \in {call[s].from, call[s].to}
         /\ Now(s).path \in Paths /\ Now(s).size \in Nat
         /\ Now(s).do = "whiteout" => InLower(Now(s).path)
         /\ Planned(Tail(call[s].todo), {call[s].from, call[s].to})
         /\ call[s].todo \in Seq(Steps)
         /\ Range(call[s].todo) = {Now(s)} \cup Range(Tail(call[s].todo))
         /\ Len(call[s].todo) > 1 <=> Tail(call[s].todo) # <<>>
<1>1. Planned(call[s].todo, {call[s].from, call[s].to}) /\ call[s].todo # <<>>
  BY DEF CallOK
<1>2. Now(s) \in Steps /\ Good(Now(s), {call[s].from, call[s].to})
      /\ Planned(Tail(call[s].todo), {call[s].from, call[s].to})
  BY <1>1, PlannedTail DEF Now
<1>3. Now(s).path \in Paths /\ Now(s).size \in Nat
  BY <1>2, FieldsOf
<1>4. call[s].todo \in Seq(Steps)
  BY <1>1 DEF Planned
<1>5. /\ Range(call[s].todo) = {Now(s)} \cup Range(Tail(call[s].todo))
      /\ Len(call[s].todo) > 1 <=> Tail(call[s].todo) # <<>>
  BY <1>1, <1>4, CallsLeft DEF Now
<1> QED
  BY <1>2, <1>3, <1>4, <1>5 DEF Good

(* Every call ends in one of these ways.                                   *)
Alters(p) ==
  \/ upper' = upper
  \/ \E x : Sets(p, x)
  \/ \E made : AddsDirs(p, made)
  \/ \E gone : Takes(p, gone)

LEMMA CallsUpperAlters ==
  ASSUME Upper!Tree(upper), NEW s, CallsUpper(s), Now(s).path \in Paths, Now(s).size \in Nat
  PROVE  outcome' \in Outcomes /\ Alters(Now(s).path)
<1>1. PICK p \in Paths, n \in Nat : p = Now(s).path /\ n = Now(s).size
  OBVIOUS
<1>2. CASE Upper!WriteFile(p, n)
  BY <1>1, <1>2, WriteEffect DEF Alters, Fails
<1>3. CASE Upper!AppendNew(p, n) \/ Upper!AppendOld(p, n) \/ Upper!AppendElsewhere(p)
  BY <1>1, <1>3, AppendEffect DEF Alters, Fails
<1>4. CASE Upper!Mkdir(p)
  BY <1>1, <1>4, MkdirEffect DEF Alters, Fails
<1>5. CASE Upper!MkdirAll(p)
  BY <1>1, <1>5, MkdirAllEffect DEF Alters
<1>6. CASE Upper!Symlink(p)
  BY <1>1, <1>6, SymlinkEffect DEF Alters, Fails
<1>7. ASSUME NEW all \in BOOLEAN, Upper!RemovePath(p, all)
      PROVE  outcome' \in Outcomes /\ Alters(p)
  BY <1>1, <1>7, RemoveEffect DEF Alters, Fails
<1> QED
  BY <1>1, <1>2, <1>3, <1>4, <1>5, <1>6, <1>7 DEF CallsUpper

LEMMA AnswersOutcome ==
  ASSUME NEW ok \in BOOLEAN, Answers(ok)
  PROVE  outcome' \in Outcomes /\ (outcome'.ok <=> ok)
BY Zenon DEF Answers, Outcomes

LEMMA MakesParentAlters ==
  ASSUME Upper!Tree(upper), NEW s, MakesParent(s), Now(s).path \in Paths
  PROVE  /\ outcome' \in Outcomes
         /\ upper' = upper \/ \E made : AddsDirs(Now(s).path, made)
<1>1. CASE upper' = upper /\ (Answers(TRUE) \/ Answers(FALSE))
  BY <1>1, AnswersOutcome
<1>2. CASE InLower(Front(Now(s).path)) /\ Upper!MkdirAll(Front(Now(s).path))
  <2>1. PICK parent \in Paths : parent = Front(Now(s).path)
    BY <1>2, LowerAssumption DEF InLower
  <2>2. outcome' \in Outcomes /\ \E made : AddsDirs(parent, made)
    BY <1>2, <2>1, MkdirAllEffect
  <2>3. ASSUME NEW made, AddsDirs(parent, made)
        PROVE  AddsDirs(Now(s).path, made)
    BY <2>1, <2>3, PrefixOfFront DEF AddsDirs
  <2> QED BY <2>2, <2>3
<1> QED BY <1>1, <1>2 DEF MakesParent

LEMMA RunsAlters ==
  ASSUME Upper!Tree(upper), NEW s, Runs(s), CallOK(call[s])
  PROVE  outcome' \in Outcomes /\ Alters(Now(s).path)
<1>0. Now(s).path \in Paths /\ Now(s).size \in Nat
  BY NowIs
<1>1. CASE CallsUpper(s)
  BY <1>0, <1>1, CallsUpperAlters
<1>2. CASE MakesParent(s)
  BY <1>0, <1>2, MakesParentAlters DEF Alters
<1>3. CASE RemovesWhiteout(s) \/ AddsWhiteout(s) \/ HidesLower(s)
  <2>1. UNCHANGED upper /\ Answers(TRUE)
    BY <1>3 DEF RemovesWhiteout, AddsWhiteout, HidesLower
  <2> QED BY <2>1, AnswersOutcome DEF Alters
<1>4. CASE CallsItself(s)
  <2>1. UNCHANGED upper
    BY <1>4 DEF CallsItself
  <2>2. PICK ok \in BOOLEAN : Answers(ok)
    BY <1>4, Zenon DEF CallsItself
  <2> QED BY <2>1, <2>2, AnswersOutcome DEF Alters
<1> QED BY <1>1, <1>2, <1>3, <1>4 DEF Runs

LEMMA AltersTree ==
  ASSUME Upper!Tree(upper), NEW p \in Paths, Alters(p)
  PROVE  Upper!Tree(upper')
<1>1. ASSUME NEW x, Sets(p, x) PROVE Upper!Tree(upper')
  <2>1. Upper!Tree(Upper!With(upper, p, x)) /\ upper' = Upper!With(upper, p, x)
    BY <1>1, SetTree DEF Sets
  <2> QED BY <2>1
<1>2. ASSUME NEW made, AddsDirs(p, made) PROVE Upper!Tree(upper')
  <2>1. Upper!Tree(Upper!WithDirs(upper, made)) /\ upper' = Upper!WithDirs(upper, made)
    BY <1>2, DirsTree DEF AddsDirs
  <2> QED BY <2>1
<1>3. ASSUME NEW gone, Takes(p, gone) PROVE Upper!Tree(upper')
  <2>1. Upper!Tree(Upper!Without(upper, gone)) /\ upper' = Upper!Without(upper, gone)
    BY <1>3, UnsetTree DEF Takes
  <2> QED BY <2>1
<1> QED BY <1>1, <1>2, <1>3 DEF Alters

(* What a call leaves alone.                                               *)
LEMMA AltersElsewhere ==
  ASSUME Upper!Tree(upper), NEW p \in Paths, Alters(p), NEW q, ~Related(q, p)
  PROVE  /\ q \in DOMAIN upper' <=> q \in DOMAIN upper
         /\ q \in DOMAIN upper => upper'[q] = upper[q]
<1>1. q # p /\ ~IsPrefix(q, p) /\ ~IsPrefix(p, q)
  BY PrefixSelf DEF Related
<1>2. ASSUME NEW x, Sets(p, x)
      PROVE  /\ q \in DOMAIN upper' <=> q \in DOMAIN upper
             /\ q \in DOMAIN upper => upper'[q] = upper[q]
  <2>1. PICK f : f = Upper!With(upper, p, x)
    OBVIOUS
  <2>2. DOMAIN f = DOMAIN upper \cup {p} /\ \A r \in DOMAIN upper : r # p => f[r] = upper[r]
    BY <2>1 DEF Upper!With
  <2> QED BY <1>1, <1>2, <2>1, <2>2 DEF Sets
<1>3. ASSUME NEW made, AddsDirs(p, made)
      PROVE  /\ q \in DOMAIN upper' <=> q \in DOMAIN upper
             /\ q \in DOMAIN upper => upper'[q] = upper[q]
  <2>1. PICK f : f = Upper!WithDirs(upper, made)
    OBVIOUS
  <2>2. DOMAIN f = DOMAIN upper \cup made /\ \A r \in DOMAIN upper : f[r] = upper[r]
    BY <1>3, <2>1, DirsTree DEF AddsDirs
  <2> QED BY <1>1, <1>3, <2>1, <2>2 DEF AddsDirs
<1>4. ASSUME NEW gone, Takes(p, gone)
      PROVE  /\ q \in DOMAIN upper' <=> q \in DOMAIN upper
             /\ q \in DOMAIN upper => upper'[q] = upper[q]
  <2>1. PICK f : f = Upper!Without(upper, gone)
    OBVIOUS
  <2>2. DOMAIN f = DOMAIN upper \ gone /\ \A r \in DOMAIN upper \ gone : f[r] = upper[r]
    BY <1>4, <2>1, UnsetTree
  <2> QED BY <1>1, <1>4, <2>1, <2>2 DEF Takes
<1> QED BY <1>2, <1>3, <1>4 DEF Alters

(* The counters of what is hidden stay in range.                           *)
LEMMA HideMoreIs ==
  ASSUME hidden \in Usages, NEW bytes \in Nat, NEW files \in Nat, NEW dirs \in Nat,
         HideMore(bytes, files, dirs)
  PROVE  hidden' \in Usages
<1>1. hidden.bytes \in 0 .. MaxHidden /\ hidden.files \in 0 .. MaxHidden
      /\ hidden.dirs \in 0 .. MaxHidden
  BY DEF Usages
<1>2. \A a \in 0 .. MaxHidden, n \in Nat : SaturatingAdd(a, n) \in 0 .. MaxHidden
  BY SizesAssumption DEF SaturatingAdd
<1>3. PICK b \in 0 .. MaxHidden, f \in 0 .. MaxHidden, d \in 0 .. MaxHidden :
        hidden' = [bytes |-> b, files |-> f, dirs |-> d]
  BY <1>1, <1>2 DEF HideMore
<1> QED BY <1>3 DEF Usages

LEMMA LowerBytes ==
  ASSUME NEW ps \in SUBSET DOMAIN Lower
  PROVE  Upper!Bytes(Lower, ps) \in Nat /\ Cardinality(ps) \in Nat
<1>1. IsFiniteSet(ps)
  BY LowerAssumption, FS_Subset
<1>2. PICK f : f = [p \in DOMAIN Lower |-> Lower[p].size]
  OBVIOUS
<1>3. \A p \in ps : f[p] \in Nat
  BY <1>2, LowerIs DEF InLower
<1>4. SumFunctionOnSet(f, ps) \in Nat
  BY <1>1, <1>3, SumNat
<1>5. Upper!SumFunctionOnSet(f, ps) = SumFunctionOnSet(f, ps)
  BY DEF Upper!SumFunctionOnSet, Upper!FoldFunctionOnSet, Upper!MapThenFoldSet,
         SumFunctionOnSet, FoldFunctionOnSet, MapThenFoldSet
<1> QED BY <1>1, <1>2, <1>4, <1>5, FS_CardinalityType DEF Upper!Bytes

LEMMA RunsHidden ==
  ASSUME hidden \in Usages, NEW s, Runs(s), CallOK(call[s])
  PROVE  hidden' \in Usages
<1>1. CASE HidesLower(s)
  <2>1. PICK files \in SUBSET DOMAIN Lower, dirs \in SUBSET DOMAIN Lower :
          \/ HideMore(Now(s).size, 1, 0)
          \/ HideMore(0, 0, 1)
          \/ HideMore(Upper!Bytes(Lower, files), Cardinality(files), Cardinality(dirs))
    <3>1. PICK below : below = {q \in DOMAIN Lower : IsStrictPrefix(Now(s).path, q) /\ ~Whited(q)}
      OBVIOUS
    <3>2. PICK files : files = {q \in below : Lower[q].kind = "file" /\ ~InUpper(q)}
      OBVIOUS
    <3>3. PICK dirs : dirs = {q \in below : Lower[q].kind = "dir"}
      OBVIOUS
    <3>4. \/ HideMore(Now(s).size, 1, 0)
          \/ HideMore(0, 0, 1)
          \/ HideMore(Upper!Bytes(Lower, files), Cardinality(files), Cardinality(dirs))
      BY <1>1, <3>1, <3>2, <3>3, Zenon DEF HidesLower
    <3> QED BY <3>1, <3>2, <3>3, <3>4
  <2>2. Now(s).size \in Nat /\ 0 \in Nat /\ 1 \in Nat
    BY NowIs
  <2>3. Upper!Bytes(Lower, files) \in Nat /\ Cardinality(files) \in Nat
        /\ Cardinality(dirs) \in Nat
    BY LowerBytes
  <2> QED BY <2>1, <2>2, <2>3, HideMoreIs
<1>2. CASE ~HidesLower(s)
  <2>1. hidden' = hidden
    BY <1>2 DEF Runs, CallsUpper, MakesParent, RemovesWhiteout, AddsWhiteout, CallsItself
  <2> QED BY <2>1
<1> QED BY <1>1, <1>2

(* The calls that are left after one.                                      *)
LEMMA LeftIsCall ==
  ASSUME NEW c, CallOK(c), NEW todo, todo # <<>>, Planned(todo, {c.from, c.to})
  PROVE  CallOK(With(c, todo)) /\ With(c, todo).todo = todo
         /\ With(c, todo).op = c.op /\ With(c, todo).from = c.from
         /\ With(c, todo).to = c.to /\ With(c, todo).want = c.want
<1>1. With(c, todo) = [op |-> c.op, from |-> c.from, to |-> c.to,
                       want |-> c.want, todo |-> todo]
  BY DEF CallOK, IsCall, With
<1>2. PICK d : d = [op |-> c.op, from |-> c.from, to |-> c.to,
                    want |-> c.want, todo |-> todo]
  OBVIOUS
<1>3. d.op = c.op /\ d.from = c.from /\ d.to = c.to /\ d.want = c.want /\ d.todo = todo
  BY <1>2
<1>4. IsCall(d)
  BY <1>2, <1>3 DEF IsCall
<1>5. CallOK(d)
  BY <1>3, <1>4 DEF CallOK
<1> QED BY <1>1, <1>2, <1>3, <1>5

LEMMA ProceedsCall ==
  ASSUME CallsInv, NEW s \in Sessions, call[s] # NoCall, Proceeds(s)
  PROVE  CallsInv'
<1>1. PICK c : c = With(call[s], Tail(call[s].todo))
  OBVIOUS
<1>2. CallOK(call[s])
  BY DEF CallsInv
<1>3. Len(call[s].todo) > 1 => CallOK(c)
  BY <1>1, <1>2, NowIs, LeftIsCall
<1>4. call' = [call EXCEPT ![s] =
                 IF outcome'.ok /\ Len(call[s].todo) > 1 THEN c ELSE NoCall]
  BY <1>1 DEF Proceeds
<1> QED
  BY <1>3, <1>4, CallChanges

(* The calls that copy and rename make to the file system itself.          *)
Nested(s) ==
  CASE Now(s).do = "writeFile" -> WritePlan(Now(s).path, Now(s).size)
    [] Now(s).do = "removeFile" -> RemovePlan(Now(s).path, FALSE)

LEMMA NestedIs ==
  ASSUME NEW s, CallOK(call[s]), CallsItself(s), Nested(s) # Refused
  PROVE  /\ Planned(Nested(s), {Now(s).path}) /\ Nested(s) # <<>>
         /\ Planned(Nested(s) \o Tail(call[s].todo), {call[s].from, call[s].to})
         /\ Nested(s) \o Tail(call[s].todo) # <<>>
         /\ Range(Nested(s) \o Tail(call[s].todo))
              = Range(Nested(s)) \cup Range(Tail(call[s].todo))
         /\ \A x \in Range(Nested(s)) : x.do # "removeFile"
<1>1. PICK p \in Paths, n \in Nat : p = Now(s).path /\ n = Now(s).size
  BY NowIs
<1>2. PICK a : a = Nested(s)
  OBVIOUS
<1>3. Planned(a, {p}) /\ a # <<>> /\ \A x \in Range(a) : x.do # "removeFile"
  <2>1. CASE Now(s).do = "writeFile"
    <3>1. a = WritePlan(p, n) /\ a # Refused
      BY <1>1, <1>2, <2>1 DEF Nested
    <3>2. Planned(a, {p}) /\ a # <<>>
      BY <3>1, WritePlanned, WritePlanIs
    <3>3. \A x \in {Step("unhide", p, 0), Step("parent", p, 0), Step("write", p, n)} :
            x.do # "removeFile"
      BY StepFor DEF CallNames
    <3>4. \A x \in Range(WritePlan(p, n)) : x.do # "removeFile"
      BY <3>1, <3>3, WritePlanIs DEF Hides
    <3> QED BY <3>1, <3>2, <3>4
  <2>2. CASE Now(s).do = "removeFile"
    <3>1. a = RemovePlan(p, FALSE) /\ a # Refused
      BY <1>1, <1>2, <2>2 DEF Nested
    <3>2. Planned(a, {p}) /\ a # <<>>
      BY <3>1, RemovePlanned, RemovePlanIs
    <3>3. \A x \in Range(RemovePlan(p, FALSE)) : x.do \in Removals
      BY <3>1, RemovePlanIs
    <3> QED BY <3>1, <3>2, <3>3 DEF Removals
  <2> QED BY <2>1, <2>2 DEF CallsItself
<1>4. p \in {call[s].from, call[s].to}
      /\ Planned(Tail(call[s].todo), {call[s].from, call[s].to})
  BY <1>1, NowIs
<1>5. {p} \subseteq {call[s].from, call[s].to}
  BY <1>4
<1>6. Planned(a, {call[s].from, call[s].to})
  BY <1>3, <1>5, PlannedMore
<1>7. Planned(a \o Tail(call[s].todo), {call[s].from, call[s].to})
  BY <1>3, <1>4, <1>6, PlannedJoin
<1>8. a \in Seq(Steps) /\ Tail(call[s].todo) \in Seq(Steps)
  BY <1>3, <1>4 DEF Planned
<1>9. /\ Range(a \o Tail(call[s].todo)) = Range(a) \cup Range(Tail(call[s].todo))
      /\ a \o Tail(call[s].todo) # <<>>
  BY <1>3, <1>8, CallsJoin
<1> QED BY <1>1, <1>2, <1>3, <1>7, <1>9

LEMMA NestedCall ==
  ASSUME CallsInv, NEW s \in Sessions, CallsItself(s)
  PROVE  CallsInv'
<1>1. CallOK(call[s])
  BY DEF CallsInv, CallsItself
<1>2. PICK plan : plan = Nested(s)
  OBVIOUS
<1>3. PICK c : c = With(call[s], plan \o Tail(call[s].todo))
  OBVIOUS
<1>4. plan # Refused => CallOK(c)
  BY <1>1, <1>2, <1>3, NestedIs, LeftIsCall
<1>5. call' = [call EXCEPT ![s] = IF plan = Refused THEN NoCall ELSE c]
  BY <1>2, <1>3 DEF CallsItself, Nested
<1> QED
  BY <1>4, <1>5, CallChanges

LEMMA RunsCall ==
  ASSUME NEW s \in Sessions, Runs(s)
  PROVE  call[s] # NoCall /\ (CallsItself(s) \/ Proceeds(s))
BY DEF Runs, CallsUpper, MakesParent, RemovesWhiteout, AddsWhiteout, HidesLower, CallsItself

LEMMA RunsType ==
  ASSUME TypeInv, NEW s \in Sessions, Runs(s)
  PROVE  TypeInv'
<1>1. CallOK(call[s])
  BY RunsCall DEF TypeInv, CallsInv
<1>2. Now(s).path \in Paths
  BY <1>1, NowIs
<1>3. Upper!Tree(upper) /\ hidden \in Usages /\ whiteouts \subseteq Paths
  BY DEF TypeInv, LayersOK
<1>4. outcome' \in Outcomes /\ Upper!Tree(upper')
  BY <1>1, <1>2, <1>3, RunsAlters, AltersTree
<1>5. hidden' \in Usages
  BY <1>1, <1>3, RunsHidden
<1>6. whiteouts' \subseteq Paths
  <2>1. \/ UNCHANGED whiteouts
        \/ whiteouts' = whiteouts \ {Now(s).path}
        \/ whiteouts' = whiteouts \cup {Now(s).path}
    BY DEF Runs, CallsUpper, MakesParent, RemovesWhiteout, Unhidden,
           AddsWhiteout, HidesLower, CallsItself
  <2> QED BY <1>2, <1>3, <2>1
<1>7. LayersOK'
  BY <1>4, <1>5, <1>6 DEF LayersOK, Upper!Tree, Upper!WellFormed
<1>8. SavedOK'
  <2>1. UNCHANGED <<saved, kept>>
    BY DEF Runs, CallsUpper, MakesParent, RemovesWhiteout, AddsWhiteout, HidesLower,
           CallsItself
  <2> QED BY <2>1, SavedSame DEF TypeInv
<1>9. CallsInv'
  BY RunsCall, ProceedsCall, NestedCall DEF TypeInv
<1> QED BY <1>7, <1>8, <1>9 DEF TypeInv

LEMMA TypeInit == Init => TypeInv
<1> SUFFICES ASSUME Init PROVE TypeInv
  OBVIOUS
<1>1. /\ upper = [p \in StartDirs |-> Upper!Directory]
      /\ saved = NoSnapshot /\ kept = NoSnapshot
      /\ outcome = [ok |-> TRUE, read |-> Upper!NotRead]
  BY DEF Init, Upper!Init
<1>2. Upper!Tree(upper)
  BY <1>1, DirectoryIs, PathsAssumption DEF Upper!Tree
<1>3. outcome \in Outcomes
  BY <1>1, Zenon DEF Outcomes
<1>4. hidden \in Usages
  BY SizesAssumption DEF Init, Usages
<1>5. LayersOK
  BY <1>2, <1>3, <1>4 DEF Init, LayersOK
<1>6. SavedOK
  BY <1>1 DEF SavedOK
<1>7. CallsInv
  BY DEF Init, CallsInv
<1> QED BY <1>5, <1>6, <1>7 DEF TypeInv

LEMMA TypeStep == TypeInv /\ [Next]_vars => TypeInv'
<1> SUFFICES ASSUME TypeInv, [Next]_vars PROVE TypeInv'
  OBVIOUS
<1>1. CASE UNCHANGED vars
  <2>1. CallsInv'
    BY <1>1, Zenon DEF TypeInv, CallsInv, CallOK, IsCall, vars
  <2>2. LayersOK'
    BY <1>1 DEF TypeInv, LayersOK, vars, Upper!Tree, Upper!WellFormed
  <2>3. SavedOK'
    BY <1>1, SavedSame DEF TypeInv, vars
  <2> QED BY <2>1, <2>2, <2>3 DEF TypeInv
<1> QED BY <1>1, StartsType, RunsType DEF Next

LEMMA CallIsTyped ==
  ASSUME NEW c, CallOK(c)
  PROVE  c \in Calls /\ c # NoCall
<1>1. c = [op |-> c.op, from |-> c.from, to |-> c.to, want |-> c.want, todo |-> c.todo]
      /\ c.op \in OperationNames
  BY DEF CallOK, IsCall
<1>2. c.from \in Paths /\ c.to \in Paths
  BY PathsAssumption DEF CallOK
<1>3. c.want \in Upper!Entry \cup {NoEntry}
  BY EntryIs DEF CallOK
<1>4. c.todo \in Seq(Steps)
  BY DEF CallOK, Planned
<1> HIDE DEF OperationNames, Steps
<1>5. c \in Calls
  BY <1>1, <1>2, <1>3, <1>4, Zenon DEF Calls
<1> QED BY <1>5, SentinelsAssumption

LEMMA TypeIsOK == TypeInv => TypeOK
<1> SUFFICES ASSUME TypeInv PROVE TypeOK
  OBVIOUS
<1>1. Upper!Tree(upper) /\ outcome \in Outcomes
  BY DEF TypeInv, LayersOK
<1>2. \A X : <<>> \in [{} -> X]
  <2> TAKE X
  <2>1. PICK m : m = <<>>
    OBVIOUS
  <2>2. DOMAIN m = {} /\ m = [i \in {} |-> m[i]]
    BY <2>1
  <2> QED BY <2>1, <2>2
<1>3. saved # NoSnapshot => Upper!Tree(saved) /\ Upper!OfKind(saved, {"lazy"}) = {}
  <2>1. ASSUME Upper!Tree(saved), NEW p \in DOMAIN saved
        PROVE  saved[p].kind # "lazy"
    BY <2>1, EntryIs DEF Upper!Tree
  <2> QED BY <2>1 DEF TypeInv, SavedOK, Upper!OfKind
<1>4. kept # NoSnapshot => DOMAIN kept \subseteq Paths
  BY DEF TypeInv, SavedOK
<1>5. Upper!TypeOK
  BY <1>1, <1>2, <1>3, <1>4, Zenon DEF Upper!TypeOK, Outcomes
<1>6. ASSUME NEW s \in Sessions, call[s] # NoCall
      PROVE  call[s] \in Calls /\ call[s].todo # <<>>
  <2>1. CallOK(call[s])
    BY <1>6 DEF TypeInv, CallsInv
  <2>2. call[s].todo # <<>>
    BY <2>1 DEF CallOK
  <2> QED BY <2>1, <2>2, CallIsTyped
<1> QED BY <1>5, <1>6 DEF TypeInv, LayersOK, TypeOK

(* The types, for every layering and any number of sessions: lower_hidden  *)
(* stays in the range of its counters (overlay.rs:302 adds saturating),    *)
(* and no operation is left without a call to make.                        *)
THEOREM TypeTheorem == Spec => []TypeOK
BY TypeInit, TypeStep, TypeIsOK, PTL DEF Spec

(* A whiteout names an entry of the lower layer, for every layering, every *)
(* number of sessions and all limits: add_whiteout (overlay.rs:433) is     *)
(* reached only from a remove that saw the path in the lower layer.        *)
THEOREM WhiteoutsTheorem == Spec => []WhiteoutsHideSomething
<1> DEFINE IInv == TypeInv /\ WhiteoutsHideSomething
<1>1. Init => IInv
  BY TypeInit DEF Init, WhiteoutsHideSomething
<1>2. IInv /\ [Next]_vars => IInv'
  <2>1. SUFFICES ASSUME IInv, [Next]_vars PROVE WhiteoutsHideSomething'
    BY TypeStep
  <2>2. ASSUME NEW s \in Sessions, AddsWhiteout(s)
        PROVE  WhiteoutsHideSomething'
    <3>1. CallOK(call[s])
      BY <2>1, <2>2 DEF TypeInv, CallsInv, AddsWhiteout
    <3>2. InLower(Now(s).path)
      BY <2>2, <3>1, NowIs DEF AddsWhiteout
    <3> QED
      BY <2>1, <2>2, <3>2 DEF AddsWhiteout, InLower, WhiteoutsHideSomething
  <2>3. CASE whiteouts' \subseteq whiteouts
    BY <2>1, <2>3 DEF WhiteoutsHideSomething
  <2>4. ASSUME NEW s \in Sessions, Starts(s)
        PROVE  UNCHANGED whiteouts
    BY <2>4 DEF Starts, WriteFile, AppendFile, Mkdir, RemovePath, Symlink, Copy,
                Rename, Chmod, SetModifiedTime, VfsSnapshot, VfsRestore, Begins
  <2>5. ASSUME NEW s \in Sessions, Runs(s), ~AddsWhiteout(s)
        PROVE  whiteouts' \subseteq whiteouts
    BY <2>5 DEF Runs, CallsUpper, MakesParent, RemovesWhiteout, Unhidden,
                HidesLower, CallsItself
  <2> QED
    BY <2>1, <2>2, <2>3, <2>4, <2>5 DEF Next, vars
<1>3. IInv => WhiteoutsHideSomething
  OBVIOUS
<1> QED
  BY <1>1, <1>2, <1>3, PTL DEF Spec

LEMMA VisibleSame ==
  ASSUME NEW q, q \in DOMAIN upper' <=> q \in DOMAIN upper,
         q \in DOMAIN upper => upper'[q] = upper[q], Whited(q)' <=> Whited(q)
  PROVE  /\ q \in DOMAIN Visible' <=> q \in DOMAIN Visible
         /\ q \in DOMAIN Visible => Visible'[q] = Visible[q]
<1>1. q \in DOMAIN Visible <=> (InUpper(q) \/ InLower(q)) /\ ~Whited(q)
  BY DEF Visible, InUpper, InLower
<1>2. q \in DOMAIN Visible' <=> (InUpper(q)' \/ InLower(q)) /\ ~Whited(q)'
  BY DEF Visible, InUpper, InLower
<1>3. q \in DOMAIN Visible => Visible[q] = IF InUpper(q) THEN upper[q] ELSE Lower[q]
  BY DEF Visible, InUpper, InLower
<1>4. q \in DOMAIN Visible' => Visible'[q] = IF InUpper(q)' THEN upper'[q] ELSE Lower[q]
  BY DEF Visible, InUpper, InLower
<1>5. InUpper(q)' <=> InUpper(q)
  BY DEF InUpper
<1> QED
  BY <1>1, <1>2, <1>3, <1>4, <1>5 DEF InUpper

(* No step of an operation can be noticed at a path that is neither above  *)
(* nor below one it names, for every layering and every interleaving of    *)
(* any number of sessions (overlay.rs:440: remove_whiteout takes exactly   *)
(* the path).                                                              *)
THEOREM OthersTheorem == Spec => OthersUndisturbed
<1> DEFINE A == \A s \in Sessions : Runs(s) =>
                  \A q \in Paths :
                    ~Related(q, call[s].from) /\ ~Related(q, call[s].to) =>
                      /\ q \in DOMAIN Visible' <=> q \in DOMAIN Visible
                      /\ q \in DOMAIN Visible => Visible'[q] = Visible[q]
<1>1. TypeInv /\ [Next]_vars => [A]_vars
  <2>1. SUFFICES ASSUME TypeInv, NEW s \in Sessions, Runs(s), NEW q \in Paths,
                        ~Related(q, call[s].from), ~Related(q, call[s].to)
                 PROVE  /\ q \in DOMAIN Visible' <=> q \in DOMAIN Visible
                        /\ q \in DOMAIN Visible => Visible'[q] = Visible[q]
    OBVIOUS
  <2>2. CallOK(call[s]) /\ Upper!Tree(upper)
    BY <2>1, RunsCall DEF TypeInv, CallsInv, LayersOK
  <2>3. Now(s).path \in Paths /\ ~Related(q, Now(s).path)
    BY <2>1, <2>2, NowIs
  <2>4. /\ q \in DOMAIN upper' <=> q \in DOMAIN upper
        /\ q \in DOMAIN upper => upper'[q] = upper[q]
    BY <2>1, <2>2, <2>3, RunsAlters, AltersElsewhere
  <2>5. \/ UNCHANGED whiteouts
        \/ whiteouts' = whiteouts \ {Now(s).path}
        \/ whiteouts' = whiteouts \cup {Now(s).path}
    BY <2>1 DEF Runs, CallsUpper, MakesParent, RemovesWhiteout, Unhidden,
                AddsWhiteout, HidesLower, CallsItself
  <2>6. ~IsPrefix(Now(s).path, q)
    BY <2>3 DEF Related
  <2>7. Whited(q)' <=> Whited(q)
    BY <2>5, <2>6 DEF Whited
  <2> QED
    BY <2>4, <2>7, VisibleSame
<1>2. OthersUndisturbed <=> [][A]_vars
  BY DEF OthersUndisturbed
<1> HIDE DEF A
<1> QED
  BY <1>1, <1>2, TypeInit, TypeStep, PTL DEF Spec

----------------------------------------------------------------------------
(***************************************************************************)
(* One session at a time: what each call does to the layers, path by path. *)
(***************************************************************************)
OneSession == \A s, t \in Sessions : s = t

(* q is found in v as it is in u.                                          *)
Kept(u, v, q) ==
  /\ q \in DOMAIN v <=> q \in DOMAIN u
  /\ q \in DOMAIN u => v[q] = u[q]

LEMMA KeptSame == \A u, q : Kept(u, u, q)
BY DEF Kept

LEMMA SetsKept ==
  ASSUME NEW p, NEW x, Sets(p, x)
  PROVE  /\ p \in DOMAIN upper' /\ upper'[p] = x /\ Upper!WellFormed(x) /\ outcome'.ok
         /\ \A q : q # p => Kept(upper, upper', q)
<1>1. upper' = [q \in DOMAIN upper \cup {p} |-> IF q = p THEN x ELSE upper[q]]
  BY Zenon DEF Sets, Upper!With
<1>2. \A q : q # p => Kept(upper, upper', q)
  BY <1>1 DEF Kept
<1>3. p \in DOMAIN upper' /\ upper'[p] = x
  BY <1>1
<1> QED BY <1>2, <1>3 DEF Sets

LEMMA DirsKept ==
  ASSUME NEW p, NEW made, AddsDirs(p, made)
  PROVE  /\ \A q : q \notin made => Kept(upper, upper', q)
         /\ \A q \in DOMAIN upper : q \in DOMAIN upper' /\ upper'[q] = upper[q]
         /\ \A q \in made : /\ q \in DOMAIN upper' /\ upper'[q] = Upper!Directory
                            /\ q \in Paths /\ q # <<>> /\ IsPrefix(q, p)
<1>1. upper' = [q \in DOMAIN upper \cup made |->
                  IF q \in DOMAIN upper THEN upper[q] ELSE Upper!Directory]
  BY Zenon DEF AddsDirs, Upper!WithDirs
<1>2. \A q : q \notin made => Kept(upper, upper', q)
  BY <1>1 DEF Kept
<1>3. \A q \in DOMAIN upper : q \in DOMAIN upper' /\ upper'[q] = upper[q]
  BY <1>1
<1>4. \A q \in made : /\ q \in Paths /\ q # <<>> /\ IsPrefix(q, p) /\ q \notin DOMAIN upper
  BY DEF AddsDirs
<1> QED BY <1>1, <1>2, <1>3, <1>4

LEMMA TakesKept ==
  ASSUME NEW p, NEW gone, Takes(p, gone)
  PROVE  /\ p \notin DOMAIN upper' /\ outcome'.ok
         /\ \A q : q \notin gone => Kept(upper, upper', q)
<1>1. upper' = [q \in DOMAIN upper \ gone |-> upper[q]]
  <2>1. upper' = Upper!Without(upper, gone)
    BY DEF Takes
  <2>2. DOMAIN upper \cap (DOMAIN upper \ gone) = DOMAIN upper \ gone
    OBVIOUS
  <2> QED BY <2>1, <2>2 DEF Upper!Without, Upper!Restrict
<1>2. \A q : q \notin gone => Kept(upper, upper', q)
  BY <1>1 DEF Kept
<1> QED BY <1>1, <1>2 DEF Takes

(* The directories above a path.                                           *)
LEMMA AboveIs ==
  ASSUME NEW p \in Paths, NEW q \in Paths, q # <<>>, IsPrefix(q, Front(p))
  PROVE  IsPrefix(q, p) /\ q # p
<1>1. p \in Seq(STRING) /\ q \in Seq(STRING)
  BY PathsAssumption
<1>2. Len(p) \in Nat /\ Len(q) \in Nat
  BY <1>1, LenProperties
<1>3. CASE p = <<>>
  <2>1. Front(p) = <<>> /\ Len(Front(p)) = 0
    BY <1>3 DEF Front
  <2>2. Len(q) <= 0
    BY <2>1 DEF IsPrefix
  <2> QED BY <1>1, <1>2, <2>2, EmptySeq
<1>4. CASE p # <<>>
  <2>1. Len(p) # 0
    BY <1>1, <1>4, EmptySeq
  <2>2. PICK n \in Nat : n = Len(p) - 1
    BY <1>2, <2>1
  <2>3. \A i \in 1 .. n : p[i] \in STRING
    BY <1>1, <1>2, <2>2, LenProperties
  <2>4. Len(SubSeq(p, 1, n)) = n
    BY <2>2, <2>3, SubSeqProperties
  <2>5. Len(Front(p)) = n
    BY <2>2, <2>4 DEF Front
  <2>6. Len(q) <= n
    BY <2>5 DEF IsPrefix
  <2> QED BY <1>2, <2>2, <2>6, PrefixOfFront
<1> QED BY <1>3, <1>4

Writing == {"write", "append", "mkdir", "mkdirAll", "symlink", "remove", "removeAll", "parent"}
Looking == {"hideFile", "hideDir", "hideBelow", "writeFile", "removeFile"}

(* Which layer a call is to.                                               *)
LEMMA StepLayers ==
  ASSUME NEW s, Runs(s)
  PROVE  /\ Now(s).do = "unhide" => upper' = upper /\ whiteouts' = whiteouts \ {Now(s).path}
         /\ Now(s).do = "whiteout" => upper' = upper /\ whiteouts' = whiteouts \cup {Now(s).path}
         /\ Now(s).do \in Looking => upper' = upper /\ whiteouts' = whiteouts
         /\ Now(s).do \in Writing => whiteouts' = whiteouts
         /\ Now(s).do \in {"writeFile", "removeFile"} <=> CallsItself(s)
         /\ Now(s).do = "parent" => MakesParent(s)
         /\ Now(s).do \in Writing \ {"parent"} => CallsUpper(s)
<1>1. CASE CallsUpper(s)
  BY <1>1 DEF CallsUpper, Writing, Looking, CallsItself
<1>2. CASE MakesParent(s)
  BY <1>2 DEF MakesParent, Writing, Looking, CallsItself
<1>3. CASE RemovesWhiteout(s)
  BY <1>3 DEF RemovesWhiteout, Unhidden, Writing, Looking, CallsItself
<1>4. CASE AddsWhiteout(s)
  BY <1>4 DEF AddsWhiteout, Writing, Looking, CallsItself
<1>5. CASE HidesLower(s)
  BY <1>5 DEF HidesLower, Writing, Looking, CallsItself
<1>6. CASE CallsItself(s)
  BY <1>6 DEF CallsItself, Writing, Looking
<1> QED BY <1>1, <1>2, <1>3, <1>4, <1>5, <1>6 DEF Runs

(* What the calls to the upper layer do there.                             *)
LEMMA StepWrites ==
  ASSUME Upper!Tree(upper), NEW s, Runs(s), CallOK(call[s])
  PROVE  /\ Now(s).do = "write" =>
              \/ Fails
              \/ \E x : Sets(Now(s).path, x) /\ x.size = Now(s).size /\ x.kind \in {"file", "fifo"}
                        /\ (x.kind = "fifo" =>
                              /\ Now(s).path \in DOMAIN upper
                              /\ upper[Now(s).path].kind = "fifo")
         /\ Now(s).do = "mkdir" => Fails \/ \E x : Sets(Now(s).path, x) /\ x.kind = "dir"
         /\ Now(s).do = "symlink" => Fails \/ \E x : Sets(Now(s).path, x) /\ x.kind = "symlink"
         /\ Now(s).do = "remove" => Fails \/ Takes(Now(s).path, {Now(s).path})
         /\ Now(s).do = "removeAll" => Fails \/ \E gone : Takes(Now(s).path, gone)
<1>1. PICK p \in Paths, n \in Nat : p = Now(s).path /\ n = Now(s).size
  BY NowIs
<1>2. CASE Now(s).do = "write"
  <2>1. Upper!WriteFile(p, n)
    BY <1>1, <1>2, StepLayers DEF CallsUpper, Writing
  <2> QED BY <1>1, <1>2, <2>1, WriteEffect
<1>3. CASE Now(s).do = "mkdir"
  <2>1. Upper!Mkdir(p)
    BY <1>1, <1>3, StepLayers DEF CallsUpper, Writing
  <2> QED BY <1>1, <1>3, <2>1, MkdirEffect
<1>4. CASE Now(s).do = "symlink"
  <2>1. Upper!Symlink(p)
    BY <1>1, <1>4, StepLayers DEF CallsUpper, Writing
  <2> QED BY <1>1, <1>4, <2>1, SymlinkEffect
<1>5. CASE Now(s).do = "remove"
  <2>1. Upper!RemovePath(p, FALSE)
    BY <1>1, <1>5, StepLayers DEF CallsUpper, Writing
  <2> QED BY <1>1, <1>5, <2>1, RemoveEffect
<1>6. CASE Now(s).do = "removeAll"
  <2>1. Upper!RemovePath(p, TRUE)
    BY <1>1, <1>6, StepLayers DEF CallsUpper, Writing
  <2> QED BY <1>1, <1>6, <2>1, RemoveEffect
<1> QED BY <1>2, <1>3, <1>4, <1>5, <1>6

LEMMA StepAppends ==
  ASSUME Upper!Tree(upper), NEW s, Runs(s), CallOK(call[s]), Now(s).do = "append",
         Now(s).path \in DOMAIN upper
  PROVE  \/ Fails
         \/ /\ upper[Now(s).path].kind \in {"file", "fifo"}
            /\ \E x : /\ Sets(Now(s).path, x) /\ x.size = upper[Now(s).path].size + Now(s).size
                      /\ x.kind = upper[Now(s).path].kind
<1>1. PICK p \in Paths, n \in Nat : p = Now(s).path /\ n = Now(s).size
  BY NowIs
<1>2. Upper!AppendNew(p, n) \/ Upper!AppendOld(p, n) \/ Upper!AppendElsewhere(p)
  BY <1>1, StepLayers DEF CallsUpper, Writing
<1> QED BY <1>1, <1>2, AppendEffect

(* mkdir -p, and the parent of what is written.                            *)
LEMMA StepMakesDirs ==
  ASSUME Upper!Tree(upper), NEW s, Runs(s), CallOK(call[s]),
         Now(s).do \in {"mkdirAll", "parent"}
  PROVE  /\ \E made : /\ upper' = upper \/ AddsDirs(Now(s).path, made)
                      /\ Now(s).do = "parent" => Now(s).path \notin made
         /\ Now(s).do = "mkdirAll" /\ outcome'.ok /\ Now(s).path # <<>> =>
              Now(s).path \in DOMAIN upper' /\ upper'[Now(s).path].kind = "dir"
<1>1. PICK p \in Paths : p = Now(s).path
  BY NowIs
<1>2. CASE Now(s).do = "mkdirAll"
  <2>1. Upper!MkdirAll(p)
    BY <1>1, <1>2, StepLayers DEF CallsUpper, Writing
  <2> QED BY <1>1, <1>2, <2>1, MkdirAllEffect
<1>3. CASE Now(s).do = "parent"
  <2>1. MakesParent(s)
    BY <1>3, StepLayers
  <2>2. CASE upper' = upper
    <3>1. upper' = upper /\ p \notin {}
      BY <2>2
    <3> QED BY <1>1, <1>3, <3>1
  <2>3. CASE upper' # upper
    <3>1. InLower(Front(p)) /\ Upper!MkdirAll(Front(p))
      BY <1>1, <2>1, <2>3 DEF MakesParent
    <3>2. PICK parent \in Paths : parent = Front(p)
      BY <3>1, LowerAssumption DEF InLower
    <3>3. PICK made : AddsDirs(parent, made)
      BY <3>1, <3>2, MkdirAllEffect
    <3>4. AddsDirs(p, made)
      BY <3>2, <3>3, PrefixOfFront DEF AddsDirs
    <3>5. p \notin made
      BY <3>2, <3>3, AboveIs DEF AddsDirs
    <3> QED BY <1>1, <1>3, <3>4, <3>5
  <2> QED BY <2>2, <2>3
<1> QED BY <1>2, <1>3

----------------------------------------------------------------------------
(***************************************************************************)
(* What is written lands.  The calls that an operation has left are a set, *)
(* R, the layers are u and w: the invariants are about these, so that they *)
(* can be stated of the state before a step and of the one after it.       *)
(***************************************************************************)
Bears(x, want) ==
  /\ want.kind = "file" => x.kind \in {"file", "fifo"} /\ x.size = want.size
  /\ want.kind \in {"dir", "symlink"} => x.kind = want.kind

(* The calls that put what is wanted in its place, those that make way for *)
(* it, and those by which a rename takes the source away.                  *)
Landing(x, c) ==
  /\ x.path = c.to
  /\ \/ x.do \in {"write", "writeFile"} /\ c.want.kind = "file" /\ x.size = c.want.size
     \/ x.do = "symlink" /\ c.want.kind = "symlink"
     \/ x.do \in {"mkdir", "mkdirAll"} /\ c.want.kind = "dir"
Preparing(x, c) == x.path = c.to /\ x.do \in {"unhide", "parent", "hideFile", "hideDir"}
Clearing(x, c) ==
  /\ c.op = "rename" /\ c.from # c.to
  /\ x.path = c.from /\ x.do \in {"removeFile"} \cup (Removals \ {"removeAll"})
Unhiding(x, c) == x.path = c.to /\ x.do \in {"unhide", "writeFile"}

Landed(c, u) == c.to \in DOMAIN u /\ Bears(u[c.to], c.want)

Lands(c, R, u, w) ==
  /\ \A x \in R : Landing(x, c) \/ Preparing(x, c) \/ Clearing(x, c)
  /\ (\E x \in R : Landing(x, c)) \/ Landed(c, u)
  /\ (\E x \in R : Unhiding(x, c)) \/ c.to \notin w

(* An append to what the upper layer holds is one call.                    *)
Appends(c, R, u, w) ==
  /\ c.to \in DOMAIN u /\ c.to \notin w /\ c.want.kind = "file"
  /\ \E x : /\ R = {x} /\ x.do = "append" /\ x.path = c.to
            /\ u[c.to].kind \in {"file", "fifo"} => u[c.to].size + x.size = c.want.size

LEMMA LandedKept ==
  ASSUME NEW c, NEW u, NEW v, Landed(c, u), Kept(u, v, c.to)
  PROVE  Landed(c, v)
BY DEF Landed, Kept

(* One call of its own.                                                    *)
LEMMA LandStep ==
  ASSUME Upper!Tree(upper), NEW s, Runs(s), CallOK(call[s]), ~CallsItself(s),
         outcome'.ok, NEW c, c = call[s], c.to # <<>> \/ c.want.kind # "dir",
         NEW R, Lands(c, {Now(s)} \cup R, upper, whiteouts)
  PROVE  Lands(c, R, upper', whiteouts')
<1>1. Landing(Now(s), c) \/ Preparing(Now(s), c) \/ Clearing(Now(s), c)
  BY DEF Lands
<1>2. CASE Landing(Now(s), c)
  <2>1. Now(s).path = c.to /\ Now(s).do \in Writing /\ ~Unhiding(Now(s), c)
    BY <1>2, StepLayers DEF Landing, Writing, Unhiding
  <2>2. whiteouts' = whiteouts
    BY <2>1, StepLayers
  <2>3. Landed(c, upper')
    <3>1. CASE Now(s).do = "write"
      <4>1. c.want.kind = "file" /\ Now(s).size = c.want.size
        BY <1>2, <3>1 DEF Landing
      <4>2. PICK x : /\ Sets(c.to, x) /\ x.size = Now(s).size /\ x.kind \in {"file", "fifo"}
        BY <2>1, <3>1, StepWrites DEF Fails
      <4>3. c.to \in DOMAIN upper' /\ upper'[c.to] = x
        BY <4>2, SetsKept
      <4> QED BY <4>1, <4>2, <4>3 DEF Landed, Bears
    <3>2. CASE Now(s).do = "symlink"
      <4>1. c.want.kind = "symlink"
        BY <1>2, <3>2 DEF Landing
      <4>2. PICK x : Sets(c.to, x) /\ x.kind = "symlink"
        BY <2>1, <3>2, StepWrites DEF Fails
      <4>3. c.to \in DOMAIN upper' /\ upper'[c.to] = x
        BY <4>2, SetsKept
      <4> QED BY <4>1, <4>2, <4>3 DEF Landed, Bears
    <3>3. CASE Now(s).do = "mkdir"
      <4>1. c.want.kind = "dir"
        BY <1>2, <3>3 DEF Landing
      <4>2. PICK x : Sets(c.to, x) /\ x.kind = "dir"
        BY <2>1, <3>3, StepWrites DEF Fails
      <4>3. c.to \in DOMAIN upper' /\ upper'[c.to] = x
        BY <4>2, SetsKept
      <4> QED BY <4>1, <4>2, <4>3 DEF Landed, Bears
    <3>4. CASE Now(s).do = "mkdirAll"
      <4>1. c.want.kind = "dir"
        BY <1>2, <3>4 DEF Landing
      <4>2. c.to \in DOMAIN upper' /\ upper'[c.to].kind = "dir"
        BY <2>1, <3>4, <4>1, StepMakesDirs
      <4> QED BY <4>1, <4>2 DEF Landed, Bears
    <3>5. Now(s).do # "writeFile"
      BY StepLayers
    <3> QED BY <1>2, <3>1, <3>2, <3>3, <3>4, <3>5 DEF Landing
  <2> QED BY <2>1, <2>2, <2>3 DEF Lands
<1>3. CASE Preparing(Now(s), c)
  <2>1. ~Landing(Now(s), c) /\ Now(s).path = c.to
    BY <1>3 DEF Preparing, Landing
  <2>2. Kept(upper, upper', c.to)
    <3>1. CASE Now(s).do = "parent"
      BY <2>1, <3>1, StepMakesDirs, DirsKept, KeptSame
    <3>2. CASE Now(s).do # "parent"
      <4>1. upper' = upper
        BY <1>3, <3>2, StepLayers DEF Preparing, Looking
      <4> QED BY <4>1, KeptSame
    <3> QED BY <3>1, <3>2
  <2>3. (\E x \in R : Landing(x, c)) \/ Landed(c, upper')
    BY <2>1, <2>2, LandedKept DEF Lands
  <2>4. (\E x \in R : Unhiding(x, c)) \/ c.to \notin whiteouts'
    <3>1. CASE Now(s).do = "unhide"
      BY <2>1, <3>1, StepLayers
    <3>2. CASE Now(s).do # "unhide"
      <4>1. whiteouts' = whiteouts /\ ~Unhiding(Now(s), c)
        BY <1>3, <3>2, StepLayers DEF Preparing, Looking, Writing, Unhiding
      <4> QED BY <4>1 DEF Lands
    <3> QED BY <3>1, <3>2
  <2> QED BY <2>3, <2>4 DEF Lands
<1>4. CASE Clearing(Now(s), c)
  <2>1. Now(s).path = c.from /\ c.from # c.to /\ ~Landing(Now(s), c) /\ ~Unhiding(Now(s), c)
    BY <1>4 DEF Clearing, Landing, Unhiding
  <2>2. Kept(upper, upper', c.to)
    <3>1. CASE Now(s).do = "remove"
      <4>1. Takes(c.from, {c.from})
        BY <2>1, <3>1, StepWrites DEF Fails
      <4>2. c.to \notin {c.from}
        BY <2>1
      <4> QED BY <4>1, <4>2, TakesKept
    <3>2. CASE Now(s).do # "remove"
      <4>1. upper' = upper
        BY <1>4, <3>2, StepLayers DEF Clearing, Removals, Looking
      <4> QED BY <4>1, KeptSame
    <3> QED BY <3>1, <3>2
  <2>3. (\E x \in R : Landing(x, c)) \/ Landed(c, upper')
    BY <2>1, <2>2, LandedKept DEF Lands
  <2>4. whiteouts' \subseteq whiteouts \cup {c.from}
    BY <1>4, <2>1, StepLayers DEF Clearing, Removals, Looking, Writing
  <2>5. (\E x \in R : Unhiding(x, c)) \/ c.to \notin whiteouts'
    BY <2>1, <2>4 DEF Lands
  <2> QED BY <2>3, <2>5 DEF Lands
<1> QED BY <1>1, <1>2, <1>3, <1>4

(* A call to the file system itself is replaced by its plan.               *)
LEMMA LandNested ==
  ASSUME Upper!Tree(upper), NEW s, CallsItself(s), CallOK(call[s]), Nested(s) # Refused,
         NEW c, c = call[s], NEW R, Lands(c, {Now(s)} \cup R, upper, whiteouts)
  PROVE  Lands(c, Range(Nested(s)) \cup R, upper, whiteouts)
<1>1. PICK p \in Paths, n \in Nat : p = Now(s).path /\ n = Now(s).size
  BY NowIs
<1>2. PICK N : N = Range(Nested(s))
  OBVIOUS
<1>3. CASE Now(s).do = "writeFile"
  <2>1. Landing(Now(s), c)
    BY <1>3 DEF Lands, Preparing, Clearing, Removals
  <2>2. p = c.to /\ c.want.kind = "file" /\ n = c.want.size
    BY <1>1, <1>3, <2>1 DEF Landing
  <2>3. Nested(s) = WritePlan(p, n) /\ WritePlan(p, n) # Refused
    BY <1>1, <1>3 DEF Nested
  <2>4. /\ Step("unhide", p, 0) \in N /\ Step("write", p, n) \in N
        /\ \A x \in N :
             \/ x \in {Step("unhide", p, 0), Step("parent", p, 0), Step("write", p, n)}
             \/ x.path = p /\ x.do \in Hides
    BY <1>2, <2>3, WritePlanIs
  <2>5. \A do \in {"unhide", "parent", "write"} : \A m \in {0, n} :
          Step(do, p, m).do = do /\ Step(do, p, m).path = p /\ Step(do, p, m).size = m
    BY StepIs DEF CallNames
  <2>6. Landing(Step("write", p, n), c)
    BY <2>2, <2>5 DEF Landing
  <2>7. /\ Unhiding(Step("unhide", p, 0), c)
        /\ Preparing(Step("unhide", p, 0), c) /\ Preparing(Step("parent", p, 0), c)
    BY <2>2, <2>5 DEF Unhiding, Preparing
  <2>8. \A x : x.path = p /\ x.do \in Hides => Preparing(x, c)
    BY <2>2 DEF Hides, Preparing
  <2>9. \A x \in N : Landing(x, c) \/ Preparing(x, c)
    BY <2>4, <2>6, <2>7, <2>8
  <2> QED BY <1>2, <2>4, <2>6, <2>7, <2>9 DEF Lands
<1>4. CASE Now(s).do = "removeFile"
  <2>1. Clearing(Now(s), c)
    BY <1>4 DEF Lands, Preparing, Landing
  <2>2. p = c.from /\ c.op = "rename" /\ c.from # c.to
    BY <1>1, <2>1 DEF Clearing
  <2>3. Nested(s) = RemovePlan(p, FALSE) /\ RemovePlan(p, FALSE) # Refused
    BY <1>1, <1>4 DEF Nested
  <2>4. \A x \in N : x.path = p /\ x.do \in Removals /\ x.do # "removeAll"
    BY <1>2, <2>3, RemovePlanIs
  <2>5. \A x \in N : Clearing(x, c)
    BY <2>2, <2>4 DEF Clearing
  <2>6. ~Landing(Now(s), c) /\ ~Unhiding(Now(s), c)
    BY <1>4 DEF Landing, Unhiding
  <2> QED BY <1>2, <2>5, <2>6 DEF Lands
<1> QED BY <1>3, <1>4 DEF CallsItself

LEMMA AppendStep ==
  ASSUME Upper!Tree(upper), NEW s, Runs(s), CallOK(call[s]), outcome'.ok,
         NEW c, c = call[s], NEW R, Appends(c, {Now(s)} \cup R, upper, whiteouts)
  PROVE  Now(s).do = "append" /\ Landed(c, upper') /\ c.to \notin whiteouts'
<1>1. Now(s).do = "append" /\ Now(s).path = c.to
      /\ (upper[c.to].kind \in {"file", "fifo"} => upper[c.to].size + Now(s).size = c.want.size)
  BY DEF Appends
<1>2. /\ upper[c.to].kind \in {"file", "fifo"}
      /\ \E x : /\ Sets(c.to, x) /\ x.size = upper[c.to].size + Now(s).size
                /\ x.kind = upper[c.to].kind
  BY <1>1, StepAppends DEF Fails, Appends
<1>3. PICK x : Sets(c.to, x) /\ x.size = c.want.size /\ x.kind \in {"file", "fifo"}
  BY <1>1, <1>2
<1>4. c.to \in DOMAIN upper' /\ upper'[c.to] = x
  BY <1>3, SetsKept
<1>5. whiteouts' = whiteouts
  BY <1>1, StepLayers DEF Writing
<1> QED BY <1>1, <1>3, <1>4, <1>5 DEF Landed, Bears, Appends

----------------------------------------------------------------------------
(***************************************************************************)
(* What is removed goes from both layers.                                  *)
(***************************************************************************)
WhitedIn(w, p) == \E q \in w : IsPrefix(q, p)

Leaving(c, R) ==
  /\ \E x \in R : x.do = "removeFile"
  /\ \A x \in R : x.do = "removeFile" => x.path = c.from
Removing(c, R, u, w) ==
  /\ \A x \in R : x.path = c.from /\ x.do \in Removals
  /\ c.from \in DOMAIN u => \E x \in R : x.do \in {"remove", "removeAll"}
  /\ InLower(c.from) /\ ~WhitedIn(w, c.from) => \E x \in R : x.do = "whiteout"
Goes(c, R, u, w) == Leaving(c, R) \/ Removing(c, R, u, w)

LEMMA GoneStep ==
  ASSUME Upper!Tree(upper), NEW s, Runs(s), CallOK(call[s]), ~CallsItself(s),
         outcome'.ok, NEW c, c = call[s],
         NEW R, Goes(c, {Now(s)} \cup R, upper, whiteouts)
  PROVE  Goes(c, R, upper', whiteouts')
<1>1. Now(s).do # "removeFile"
  BY StepLayers
<1>2. CASE Leaving(c, {Now(s)} \cup R)
  BY <1>1, <1>2 DEF Leaving, Goes
<1>3. CASE Removing(c, {Now(s)} \cup R, upper, whiteouts)
  <2>1. Now(s).path = c.from /\ Now(s).do \in Removals /\ c.from \in Paths
    BY <1>3, PathsAssumption DEF Removing, CallOK
  <2>2. c.from \in DOMAIN upper' => \E x \in R : x.do \in {"remove", "removeAll"}
    <3>1. CASE Now(s).do \in {"remove", "removeAll"}
      BY <2>1, <3>1, StepWrites, TakesKept DEF Fails
    <3>2. CASE Now(s).do \notin {"remove", "removeAll"}
      <4>1. upper' = upper
        BY <2>1, <3>2, StepLayers DEF Removals, Looking
      <4> QED BY <1>3, <3>2, <4>1 DEF Removing
    <3> QED BY <3>1, <3>2
  <2>3. InLower(c.from) /\ ~WhitedIn(whiteouts', c.from) => \E x \in R : x.do = "whiteout"
    <3>1. CASE Now(s).do = "whiteout"
      <4>1. c.from \in whiteouts'
        BY <2>1, <3>1, StepLayers
      <4> QED BY <2>1, <4>1, PrefixSelf DEF WhitedIn
    <3>2. CASE Now(s).do # "whiteout"
      <4>1. whiteouts' = whiteouts
        BY <2>1, <3>2, StepLayers DEF Removals, Looking, Writing
      <4> QED BY <1>3, <3>2, <4>1 DEF Removing
    <3> QED BY <3>1, <3>2
  <2> QED BY <1>3, <2>2, <2>3 DEF Removing, Goes
<1> QED BY <1>2, <1>3 DEF Goes

(* The plan of a removal, at the path that is to go.                       *)
LEMMA RemovingPlan ==
  ASSUME NEW c, c.from \in Paths, NEW all \in BOOLEAN, RemovePlan(c.from, all) # Refused
  PROVE  Removing(c, Range(RemovePlan(c.from, all)), upper, whiteouts)
<1>1. PICK p \in Paths : p = c.from
  OBVIOUS
<1>2. PICK N : N = Range(RemovePlan(p, all))
  OBVIOUS
<1>3. /\ \A x \in N : x.path = p /\ x.do \in Removals
      /\ InUpper(p) => \E x \in N : x.do \in {"remove", "removeAll"}
      /\ InLower(p) /\ ~Whited(p) => \E x \in N : x.do = "whiteout"
  BY <1>1, <1>2, RemovePlanIs
<1>4. Removing(c, N, upper, whiteouts)
  BY <1>1, <1>3 DEF Removing, WhitedIn, Whited, InUpper
<1> QED BY <1>1, <1>2, <1>4

LEMMA GoneNested ==
  ASSUME NEW s, CallsItself(s), CallOK(call[s]), Nested(s) # Refused,
         NEW c, c = call[s], NEW R, R = Range(Tail(call[s].todo)),
         Goes(c, {Now(s)} \cup R, upper, whiteouts)
  PROVE  Goes(c, Range(Nested(s)) \cup R, upper, whiteouts)
<1>1. Leaving(c, {Now(s)} \cup R)
  <2>1. Now(s).do \in {"writeFile", "removeFile"}
    BY DEF CallsItself
  <2> QED BY <2>1 DEF Goes, Removing, Removals
<1>2. CASE Now(s).do = "removeFile"
  <2>1. Now(s).path = c.from /\ c.from \in Paths
    BY <1>1, <1>2, NowIs DEF Leaving
  <2>2. Tail(call[s].todo) = <<>>
    BY <1>2, NowIs, RemovesThenDone DEF CallOK, Planned, Now
  <2>3. R = {}
    BY <2>2, NoCalls
  <2>4. Nested(s) = RemovePlan(c.from, FALSE) /\ RemovePlan(c.from, FALSE) # Refused
    BY <1>2, <2>1 DEF Nested
  <2>5. Removing(c, Range(RemovePlan(c.from, FALSE)), upper, whiteouts)
    BY <2>1, <2>4, RemovingPlan
  <2>6. Range(Nested(s)) \cup R = Range(RemovePlan(c.from, FALSE))
    BY <2>3, <2>4
  <2> QED BY <2>5, <2>6 DEF Goes
<1>3. CASE Now(s).do = "writeFile"
  <2>1. \A x \in Range(Nested(s)) : x.do # "removeFile"
    BY NestedIs
  <2> QED BY <1>1, <1>3, <2>1 DEF Leaving, Goes
<1> QED BY <1>2, <1>3 DEF CallsItself

----------------------------------------------------------------------------
(***************************************************************************)
(* A rename keeps what it moves: until its last call the source is there,  *)
(* and after it nothing but the source is touched.                         *)
(***************************************************************************)
At(u, p) == IF p \in DOMAIN u THEN u[p] ELSE Lower[p]
Shown(u, w, p) == (p \in DOMAIN u \/ InLower(p)) /\ ~WhitedIn(w, p)

LEMMA ShownIs ==
  ASSUME NEW p
  PROVE  /\ p \in DOMAIN Visible <=> Shown(upper, whiteouts, p)
         /\ p \in DOMAIN Visible => Visible[p] = At(upper, p)
BY VisibleIs DEF Shown, At, InUpper, Whited, WhitedIn

LEMMA ShownNext ==
  ASSUME NEW p
  PROVE  /\ p \in DOMAIN Visible' <=> Shown(upper', whiteouts', p)
         /\ p \in DOMAIN Visible' => Visible'[p] = At(upper', p)
BY DEF Visible, Shown, At, InUpper, InLower, Whited, WhitedIn

Keeps(c, R, u, w) ==
  /\ c.want.kind \in {"file", "symlink"}
  /\ Lands(c, R, u, w)
  /\ \/ /\ Shown(u, w, c.from) /\ Bears(At(u, c.from), c.want)
        /\ \A x \in R : x.do = "removeFile" \/ Landing(x, c) \/ Preparing(x, c)
     \/ \A x \in R : Clearing(x, c) /\ x.do # "removeFile"

(* The content is at one of the two paths, unless the new one is out of    *)
(* reach.                                                                  *)
LEMMA KeepsContent ==
  ASSUME NEW c, NEW R, NEW u, NEW w, Keeps(c, R, u, w), Reachable(c.to, w)
  PROVE  \E p \in {c.from, c.to} : Shown(u, w, p) /\ Carries(At(u, p), c.want)
<1>1. \A x : Bears(x, c.want) => Carries(x, c.want)
  BY DEF Keeps, Bears, Carries
<1>2. CASE Shown(u, w, c.from) /\ Bears(At(u, c.from), c.want)
  BY <1>1, <1>2
<1>3. CASE \A x \in R : Clearing(x, c) /\ x.do # "removeFile"
  <2>1. \A x \in R : ~Landing(x, c) /\ ~Unhiding(x, c)
    BY <1>3 DEF Clearing, Landing, Unhiding, Removals
  <2>2. Landed(c, u) /\ c.to \notin w
    BY <2>1 DEF Keeps, Lands
  <2>3. ~WhitedIn(w, c.to)
    BY <2>2 DEF Reachable, WhitedIn, IsStrictPrefix
  <2>4. Shown(u, w, c.to) /\ Bears(At(u, c.to), c.want)
    BY <2>2, <2>3 DEF Shown, At, Landed
  <2> QED BY <1>1, <2>4
<1> QED BY <1>2, <1>3 DEF Keeps

(* What a call for the target leaves of the source, even when it fails.    *)
LEMMA SourceStays ==
  ASSUME Upper!Tree(upper), NEW s, Runs(s), CallOK(call[s]),
         NEW c, c = call[s], ~IsPrefix(c.from, c.to), c.want.kind \in {"file", "symlink"},
         Now(s).do = "removeFile" \/ Landing(Now(s), c) \/ Preparing(Now(s), c),
         Shown(upper, whiteouts, c.from), Bears(At(upper, c.from), c.want)
  PROVE  Shown(upper', whiteouts', c.from) /\ Bears(At(upper', c.from), c.want)
<1>1. c.from \in Paths /\ c.from # c.to
  <2>1. c.from \in Paths
    BY PathsAssumption DEF CallOK
  <2> QED BY <2>1, PrefixSelf
<1>2. Kept(upper, upper', c.from)
  <2>1. CASE Now(s).do \in {"write", "symlink"}
    <3>1. Now(s).path = c.to
      BY <2>1 DEF Landing, Preparing
    <3>2. upper' = upper \/ \E x : Sets(c.to, x)
      BY <2>1, <3>1, StepWrites DEF Fails
    <3> QED BY <1>1, <3>2, SetsKept, KeptSame
  <2>2. CASE Now(s).do = "parent"
    <3>1. Now(s).path = c.to
      BY <2>2 DEF Landing, Preparing
    <3>2. PICK made : upper' = upper \/ AddsDirs(c.to, made)
      BY <2>2, <3>1, StepMakesDirs
    <3> QED BY <3>2, DirsKept, KeptSame
  <2>3. CASE Now(s).do \in {"unhide", "hideFile", "hideDir", "writeFile", "removeFile"}
    <3>1. upper' = upper
      BY <2>3, StepLayers DEF Looking
    <3> QED BY <3>1, KeptSame
  <2> QED BY <2>1, <2>2, <2>3 DEF Landing, Preparing
<1>3. whiteouts' \subseteq whiteouts
  BY StepLayers DEF Landing, Preparing, Looking, Writing
<1> QED BY <1>2, <1>3 DEF Kept, Shown, At, WhitedIn

LEMMA KeepStep ==
  ASSUME Upper!Tree(upper), NEW s, Runs(s), CallOK(call[s]), ~CallsItself(s),
         outcome'.ok, NEW c, c = call[s], ~IsPrefix(c.from, c.to),
         NEW R, Keeps(c, {Now(s)} \cup R, upper, whiteouts)
  PROVE  Keeps(c, R, upper', whiteouts')
<1>1. Lands(c, R, upper', whiteouts')
  BY LandStep DEF Keeps
<1>2. CASE /\ Shown(upper, whiteouts, c.from) /\ Bears(At(upper, c.from), c.want)
           /\ \A x \in {Now(s)} \cup R :
                x.do = "removeFile" \/ Landing(x, c) \/ Preparing(x, c)
  <2>1. Shown(upper', whiteouts', c.from) /\ Bears(At(upper', c.from), c.want)
    BY <1>2, SourceStays DEF Keeps
  <2> QED BY <1>1, <1>2, <2>1 DEF Keeps
<1>3. CASE \A x \in {Now(s)} \cup R : Clearing(x, c) /\ x.do # "removeFile"
  BY <1>1, <1>3 DEF Keeps
<1> QED BY <1>2, <1>3 DEF Keeps

(* A call that fails leaves the layers as they are, or makes directories.  *)
LEMMA KeepFails ==
  ASSUME Upper!Tree(upper), NEW s, Runs(s), CallOK(call[s]),
         ~outcome'.ok, NEW c, c = call[s], ~IsPrefix(c.from, c.to),
         NEW R, Keeps(c, {Now(s)} \cup R, upper, whiteouts), Reachable(c.to, whiteouts')
  PROVE  \E p \in {c.from, c.to} :
           Shown(upper', whiteouts', p) /\ Carries(At(upper', p), c.want)
<1>1. CASE /\ Shown(upper, whiteouts, c.from) /\ Bears(At(upper, c.from), c.want)
           /\ \A x \in {Now(s)} \cup R :
                x.do = "removeFile" \/ Landing(x, c) \/ Preparing(x, c)
  <2>1. Shown(upper', whiteouts', c.from) /\ Bears(At(upper', c.from), c.want)
    BY <1>1, SourceStays DEF Keeps
  <2> QED BY <2>1 DEF Keeps, Bears, Carries
<1>2. CASE \A x \in {Now(s)} \cup R : Clearing(x, c) /\ x.do # "removeFile"
  <2>1. Clearing(Now(s), c) /\ Now(s).do # "removeFile"
    BY <1>2
  <2>2. upper' = upper
    <3>1. CASE Now(s).do = "remove"
      BY <3>1, StepWrites, TakesKept DEF Fails
    <3>2. CASE Now(s).do # "remove"
      BY <2>1, <3>2, StepLayers DEF Clearing, Removals, Looking
    <3> QED BY <3>1, <3>2
  <2>3. Now(s).do # "whiteout"
    <3>1. Now(s).do = "whiteout" => AddsWhiteout(s)
      BY DEF Runs, CallsUpper, MakesParent, RemovesWhiteout, AddsWhiteout, HidesLower,
             CallsItself
    <3> QED BY <3>1, AnswersOutcome DEF AddsWhiteout
  <2>4. whiteouts' = whiteouts
    BY <2>1, <2>3, StepLayers DEF Clearing, Removals, Looking, Writing
  <2> QED BY <2>2, <2>4, KeepsContent
<1> QED BY <1>1, <1>2 DEF Keeps

LEMMA KeepNested ==
  ASSUME Upper!Tree(upper), NEW s, CallsItself(s), CallOK(call[s]), Nested(s) # Refused,
         NEW c, c = call[s], NEW R, R = Range(Tail(call[s].todo)),
         Keeps(c, {Now(s)} \cup R, upper, whiteouts)
  PROVE  Keeps(c, Range(Nested(s)) \cup R, upper, whiteouts)
<1>1. PICK N : N = Range(Nested(s))
  OBVIOUS
<1>2. Lands(c, N \cup R, upper, whiteouts)
  BY <1>1, LandNested DEF Keeps
<1>3. /\ Shown(upper, whiteouts, c.from) /\ Bears(At(upper, c.from), c.want)
      /\ \A x \in {Now(s)} \cup R :
           x.do = "removeFile" \/ Landing(x, c) \/ Preparing(x, c)
  BY DEF Keeps, CallsItself, Clearing, Removals
<1>4. CASE Now(s).do = "writeFile"
  <2>1. Now(s).path = c.to
    BY <1>3, <1>4 DEF Landing, Preparing
  <2>2. \A x \in N : x.path = c.to /\ x.do # "removeFile"
    BY <1>1, <2>1, NestedIs DEF Planned, Good
  <2>3. \A x \in N : x.do \in {"unhide", "parent", "write", "hideFile", "hideDir"}
    <3>1. PICK p \in Paths, n \in Nat : p = Now(s).path /\ n = Now(s).size
      BY NowIs
    <3>2. Nested(s) = WritePlan(p, n) /\ WritePlan(p, n) # Refused
      BY <1>4, <3>1 DEF Nested
    <3>3. \A x \in N : \/ x \in {Step("unhide", p, 0), Step("parent", p, 0), Step("write", p, n)}
                       \/ x.path = p /\ x.do \in Hides
      BY <1>1, <3>2, WritePlanIs
    <3>4. \A do \in {"unhide", "parent", "write"} : \A m \in {0, n} : Step(do, p, m).do = do
      BY StepIs DEF CallNames
    <3> QED BY <3>3, <3>4 DEF Hides
  <2>4. \A x \in N : Landing(x, c) \/ Preparing(x, c)
    <3>1. \A x \in N : x.do # "write" => Preparing(x, c)
      BY <2>2, <2>3 DEF Preparing
    <3>2. \A x \in N : x.do = "write" => ~Clearing(x, c)
      BY DEF Clearing, Removals
    <3> QED BY <1>2, <3>1, <3>2 DEF Lands
  <2> QED BY <1>1, <1>2, <1>3, <2>4 DEF Keeps
<1>5. CASE Now(s).do = "removeFile"
  <2>1. Tail(call[s].todo) = <<>>
    BY <1>5, NowIs, RemovesThenDone DEF CallOK, Planned, Now
  <2>2. R = {}
    BY <2>1, NoCalls
  <2>3. Clearing(Now(s), c)
    BY <1>5 DEF Keeps, Lands, Landing, Preparing
  <2>4. PICK p \in Paths : p = Now(s).path /\ p = c.from
    BY <2>3, NowIs DEF Clearing
  <2>5. Nested(s) = RemovePlan(p, FALSE) /\ RemovePlan(p, FALSE) # Refused
    BY <1>5, <2>4 DEF Nested
  <2>6. \A x \in N : x.path = p /\ x.do \in Removals /\ x.do # "removeAll"
    BY <1>1, <2>5, RemovePlanIs
  <2>7. \A x \in N : Clearing(x, c) /\ x.do # "removeFile"
    BY <2>3, <2>4, <2>6 DEF Clearing, Removals
  <2> QED BY <1>1, <1>2, <2>2, <2>7 DEF Keeps
<1> QED BY <1>4, <1>5 DEF CallsItself

----------------------------------------------------------------------------
(***************************************************************************)
(* chmod and set_modified_time bring an entry of the lower layer up with   *)
(* the size that it has there.                                             *)
(***************************************************************************)
PlainLower == \A p \in DOMAIN Lower : Upper!WellFormed(Lower[p])

Raising(x, c) ==
  /\ x.path = c.to
  /\ \/ x.do \in {"parent", "hideFile", "hideDir"}
     \/ x.do = "write" /\ x.size = Lower[c.to].size
     \/ x.do = "symlink" /\ Lower[c.to].kind = "symlink"
     \/ x.do = "mkdirAll" /\ Lower[c.to].kind = "dir"
Raises(c, R, u) ==
  /\ InLower(c.to)
  /\ \A x \in R : Raising(x, c)
  /\ c.to \in DOMAIN u => u[c.to].size = Lower[c.to].size

(* Nothing that is found becomes longer or shorter.                        *)
SameSizes(u, v) ==
  \A q : /\ (q \in DOMAIN v \/ InLower(q)) <=> (q \in DOMAIN u \/ InLower(q))
         /\ q \in DOMAIN u \/ InLower(q) => At(v, q).size = At(u, q).size

LEMMA SizesKept ==
  ASSUME NEW u, NEW v, \A q : Kept(u, v, q)
  PROVE  SameSizes(u, v)
BY DEF Kept, SameSizes, At

LEMMA RaiseSets ==
  ASSUME NEW s, NEW c, NEW x, Sets(c.to, x), InLower(c.to), x.size = Lower[c.to].size,
         c.to \in DOMAIN upper => upper[c.to].size = Lower[c.to].size
  PROVE  SameSizes(upper, upper') /\ upper'[c.to].size = Lower[c.to].size
<1>1. /\ c.to \in DOMAIN upper' /\ upper'[c.to] = x
      /\ \A q : q # c.to => Kept(upper, upper', q)
  BY SetsKept
<1> QED BY <1>1 DEF SameSizes, Kept, At

LEMMA RaiseDirs ==
  ASSUME PlainLower, NEW c, c.to \in Paths, InLower(c.to), NEW made, AddsDirs(c.to, made),
         c.to \in made => Lower[c.to].kind = "dir",
         c.to \in DOMAIN upper => upper[c.to].size = Lower[c.to].size
  PROVE  /\ SameSizes(upper, upper')
         /\ c.to \in DOMAIN upper' => upper'[c.to].size = Lower[c.to].size
<1>1. /\ \A q : q \notin made => Kept(upper, upper', q)
      /\ \A q \in DOMAIN upper : q \in DOMAIN upper' /\ upper'[q] = upper[q]
      /\ \A q \in made : /\ q \in DOMAIN upper' /\ upper'[q] = Upper!Directory
                         /\ q \in Paths /\ IsPrefix(q, c.to)
  BY DirsKept
<1>2. \A q \in made : InLower(q) /\ Lower[q].kind = "dir"
  BY <1>1, LowerIs DEF IsStrictPrefix
<1>3. \A q \in made : Lower[q].size = 0
  BY <1>2, EntryIs DEF PlainLower, InLower
<1>4. Upper!Directory.size = 0
  BY DirectoryIs
<1>5. \A q \in made : q \notin DOMAIN upper
  BY DEF AddsDirs
<1>6. ASSUME NEW q
      PROVE  /\ (q \in DOMAIN upper' \/ InLower(q)) <=> (q \in DOMAIN upper \/ InLower(q))
             /\ q \in DOMAIN upper \/ InLower(q) => At(upper', q).size = At(upper, q).size
  <2>1. CASE q \in made
    BY <1>1, <1>2, <1>3, <1>4, <1>5, <2>1 DEF At
  <2>2. CASE q \notin made
    BY <1>1, <2>2 DEF Kept, At
  <2> QED BY <2>1, <2>2
<1>7. c.to \in DOMAIN upper' => upper'[c.to].size = Lower[c.to].size
  <2>1. CASE c.to \in made
    BY <1>1, <1>3, <1>4, <2>1
  <2>2. CASE c.to \notin made
    BY <1>1, <2>2 DEF Kept
  <2> QED BY <2>1, <2>2
<1> QED BY <1>6, <1>7 DEF SameSizes

LEMMA RaiseStep ==
  ASSUME Upper!Tree(upper), PlainLower, NEW s, Runs(s), CallOK(call[s]),
         NEW c, c = call[s], NEW R, Raises(c, {Now(s)} \cup R, upper)
  PROVE  /\ Raises(c, R, upper') /\ SameSizes(upper, upper') /\ whiteouts' = whiteouts
         /\ ~CallsItself(s)
<1>1. Raising(Now(s), c) /\ Now(s).path = c.to /\ c.to \in Paths /\ InLower(c.to)
      /\ (c.to \in DOMAIN upper => upper[c.to].size = Lower[c.to].size)
  BY PathsAssumption DEF Raises, Raising, CallOK
<1>2. whiteouts' = whiteouts /\ ~CallsItself(s)
  BY <1>1, StepLayers DEF Raising, Looking, Writing
<1>3. SameSizes(upper, upper')
      /\ (c.to \in DOMAIN upper' => upper'[c.to].size = Lower[c.to].size)
  <2>1. CASE upper' = upper
    BY <1>1, <2>1, KeptSame, SizesKept
  <2>2. CASE Now(s).do = "write" /\ upper' # upper
    <3>1. Now(s).size = Lower[c.to].size
      BY <1>1, <2>2 DEF Raising
    <3>2. PICK x : Sets(c.to, x) /\ x.size = Now(s).size
      BY <1>1, <2>2, StepWrites DEF Fails
    <3> QED BY <1>1, <3>1, <3>2, RaiseSets
  <2>3. CASE Now(s).do = "symlink" /\ upper' # upper
    <3>1. Lower[c.to].kind = "symlink"
      BY <1>1, <2>3 DEF Raising
    <3>2. Lower[c.to].size = 0
      BY <1>1, <3>1, EntryIs DEF PlainLower, InLower
    <3>3. PICK x : Sets(c.to, x) /\ x.kind = "symlink"
      BY <1>1, <2>3, StepWrites DEF Fails
    <3>4. x.size = 0
      BY <3>3, SetsKept, EntryIs
    <3> QED BY <1>1, <3>2, <3>3, <3>4, RaiseSets
  <2>4. CASE Now(s).do \in {"parent", "mkdirAll"} /\ upper' # upper
    <3>1. PICK made : AddsDirs(c.to, made) /\ (Now(s).do = "parent" => c.to \notin made)
      BY <1>1, <2>4, StepMakesDirs
    <3>2. c.to \in made => Lower[c.to].kind = "dir"
      BY <1>1, <2>4, <3>1 DEF Raising
    <3> QED BY <1>1, <3>1, <3>2, RaiseDirs
  <2>5. CASE Now(s).do \in {"hideFile", "hideDir"}
    BY <2>1, <2>5, StepLayers DEF Looking
  <2> QED BY <1>1, <2>1, <2>2, <2>3, <2>4, <2>5 DEF Raising
<1> QED BY <1>1, <1>2, <1>3 DEF Raises

LEMMA SizesSame ==
  ASSUME SameSizes(upper, upper'), whiteouts' = whiteouts
  PROVE  VisibleSizes' = VisibleSizes
<1>1. \A q : q \in DOMAIN Visible' <=> q \in DOMAIN Visible
  BY ShownIs, ShownNext DEF SameSizes, Shown
<1>2. \A q \in DOMAIN Visible : Visible'[q].size = Visible[q].size
  BY <1>1, ShownIs, ShownNext DEF SameSizes, Shown
<1>3. DOMAIN Visible' = DOMAIN Visible
  BY <1>1
<1> QED BY <1>2, <1>3 DEF VisibleSizes

----------------------------------------------------------------------------
(***************************************************************************)
(* No call makes a fifo: write_file keeps one, and there is none at first. *)
(***************************************************************************)
FifoFree(e) == \A p \in DOMAIN e : e[p].kind # "fifo"
NoFifo == FifoFree(upper) /\ (saved # NoSnapshot => FifoFree(saved))

LEMMA RunsNoFifo ==
  ASSUME Upper!Tree(upper), FifoFree(upper), NEW s, Runs(s), CallOK(call[s])
  PROVE  FifoFree(upper')
<1>1. PICK p \in Paths : p = Now(s).path
  BY NowIs
<1>2. ASSUME NEW x, Sets(p, x), x.kind # "fifo"
      PROVE  FifoFree(upper')
  <2>1. /\ upper'[p] = x /\ \A q : q # p => Kept(upper, upper', q)
    BY <1>2, SetsKept
  <2> QED BY <1>2, <2>1 DEF FifoFree, Kept
<1>3. ASSUME NEW made, AddsDirs(p, made)
      PROVE  FifoFree(upper')
  <2>1. /\ \A q : q \notin made => Kept(upper, upper', q)
        /\ \A q \in made : upper'[q] = Upper!Directory
    BY <1>3, DirsKept
  <2> QED BY <2>1, DirectoryIs DEF FifoFree, Kept
<1>4. ASSUME NEW gone, Takes(p, gone)
      PROVE  FifoFree(upper')
  <2>1. upper' = Upper!Without(upper, gone)
    BY <1>4 DEF Takes
  <2>2. DOMAIN Upper!Without(upper, gone) = DOMAIN upper \ gone
        /\ \A q \in DOMAIN upper \ gone : Upper!Without(upper, gone)[q] = upper[q]
    BY UnsetTree
  <2> QED BY <2>1, <2>2 DEF FifoFree
<1>5. CASE upper' = upper
  BY <1>5 DEF FifoFree
<1>6. CASE Now(s).do = "write"
  <2>1. Fails \/ \E x : Sets(p, x) /\ x.kind # "fifo"
    BY <1>1, <1>6, StepWrites DEF FifoFree
  <2> QED BY <1>2, <1>5, <2>1 DEF Fails
<1>7. CASE Now(s).do = "append"
  <2>1. PICK n \in Nat : n = Now(s).size
    BY NowIs
  <2>2. Upper!AppendNew(p, n) \/ Upper!AppendOld(p, n) \/ Upper!AppendElsewhere(p)
    BY <1>1, <1>7, <2>1, StepLayers DEF CallsUpper, Writing
  <2>3. Fails \/ \E x : Sets(p, x) /\ x.kind # "fifo"
    BY <2>2, AppendEffect DEF FifoFree
  <2> QED BY <1>2, <1>5, <2>3 DEF Fails
<1>8. CASE Now(s).do \in {"mkdir", "symlink"}
  <2>1. Fails \/ \E x : Sets(p, x) /\ x.kind # "fifo"
    BY <1>1, <1>8, StepWrites
  <2> QED BY <1>2, <1>5, <2>1 DEF Fails
<1>9. CASE Now(s).do \in {"mkdirAll", "parent"}
  BY <1>1, <1>3, <1>5, <1>9, StepMakesDirs
<1>10. CASE Now(s).do \in {"remove", "removeAll"}
  BY <1>1, <1>4, <1>5, <1>10, StepWrites DEF Fails
<1>11. CASE Now(s).do \in Looking \cup {"unhide", "whiteout"}
  BY <1>5, <1>11, StepLayers
<1>12. Now(s).do \in CallNames
  BY NowIs, FieldsOf
<1> QED
  BY <1>6, <1>7, <1>8, <1>9, <1>10, <1>11, <1>12 DEF CallNames, Looking

----------------------------------------------------------------------------
(***************************************************************************)
(* What is true of an operation in progress, while nobody else has one.    *)
(***************************************************************************)
Finds(c) ==
  /\ c.op \in {"write", "append", "mkdir", "symlink", "copy", "rename"}
  /\ c.op = "rename" => c.from # c.to
  /\ c.to # <<>> \/ c.want.kind # "dir"
Loses(c) == c.op = "remove" \/ (c.op = "rename" /\ c.from # c.to)
Moves(c) == c.op = "rename" /\ ~IsPrefix(c.from, c.to)

Work(c, todo, u, w) ==
  /\ Finds(c) => /\ c.want.kind \in {"file", "dir", "symlink"}
                 /\ \/ Lands(c, Range(todo), u, w)
                    \/ Appends(c, Range(todo), u, w) /\ Tail(todo) = <<>>
  /\ Moves(c) => Keeps(c, Range(todo), u, w)
  /\ Loses(c) => Goes(c, Range(todo), u, w)
  /\ PlainLower /\ c.op = "metadata" => Raises(c, Range(todo), u)

WorkInv == \A s \in Sessions : call[s] # NoCall => Work(call[s], call[s].todo, upper, whiteouts)

LEMMA WorkOf ==
  ASSUME NEW c, NEW d, d.op = c.op, d.from = c.from, d.to = c.to, d.want = c.want,
         NEW todo, NEW u, NEW w, Work(c, todo, u, w)
  PROVE  Work(d, todo, u, w)
<1>1. \A x : /\ Landing(x, d) <=> Landing(x, c)
             /\ Preparing(x, d) <=> Preparing(x, c)
             /\ Clearing(x, d) <=> Clearing(x, c)
             /\ Unhiding(x, d) <=> Unhiding(x, c)
             /\ Raising(x, d) <=> Raising(x, c)
  BY DEF Landing, Preparing, Clearing, Unhiding, Raising
<1>2. (Finds(d) <=> Finds(c)) /\ (Moves(d) <=> Moves(c)) /\ (Loses(d) <=> Loses(c))
  BY DEF Finds, Moves, Loses
<1>3. \A R : Lands(c, R, u, w) => Lands(d, R, u, w)
  BY <1>1 DEF Lands, Landed
<1>4. \A R : Appends(c, R, u, w) => Appends(d, R, u, w)
  BY DEF Appends
<1>5. \A R : Goes(c, R, u, w) => Goes(d, R, u, w)
  BY DEF Goes, Leaving, Removing
<1>6. \A R : Keeps(c, R, u, w) => Keeps(d, R, u, w)
  BY <1>1, <1>3 DEF Keeps
<1>7. \A R : Raises(c, R, u) => Raises(d, R, u)
  BY <1>1 DEF Raises
<1> QED BY <1>2, <1>3, <1>4, <1>5, <1>6, <1>7 DEF Work

(* The next call leaves the others with what is true of them.              *)
LEMMA StepWork ==
  ASSUME Upper!Tree(upper), NEW s, Runs(s), CallOK(call[s]), outcome'.ok,
         ~CallsItself(s), Work(call[s], call[s].todo, upper, whiteouts)
  PROVE  Work(call[s], Tail(call[s].todo), upper', whiteouts')
<1>1. PICK c : c = call[s]
  OBVIOUS
<1>2. PICK R : R = Range(Tail(c.todo))
  OBVIOUS
<1>3. Range(c.todo) = {Now(s)} \cup R
  BY <1>1, <1>2, NowIs
<1>4. Finds(c) => Lands(c, R, upper', whiteouts')
  <2> HAVE Finds(c)
  <2>1. CASE Lands(c, {Now(s)} \cup R, upper, whiteouts)
    BY <1>1, <2>1, LandStep DEF Finds
  <2>2. CASE Appends(c, {Now(s)} \cup R, upper, whiteouts) /\ Tail(c.todo) = <<>>
    <3>1. Landed(c, upper') /\ c.to \notin whiteouts'
      BY <1>1, <2>2, AppendStep
    <3>2. R = {}
      BY <1>2, <2>2, NoCalls
    <3> QED BY <3>1, <3>2 DEF Lands
  <2> QED BY <1>1, <1>3, <2>1, <2>2 DEF Work
<1>5. Moves(c) => Keeps(c, R, upper', whiteouts')
  BY <1>1, <1>3, KeepStep DEF Work, Moves
<1>6. Loses(c) => Goes(c, R, upper', whiteouts')
  BY <1>1, <1>3, GoneStep DEF Work
<1>7. PlainLower /\ c.op = "metadata" => Raises(c, R, upper')
  BY <1>1, <1>3, RaiseStep DEF Work
<1>8. Work(c, Tail(c.todo), upper', whiteouts')
  BY <1>1, <1>2, <1>4, <1>5, <1>6, <1>7 DEF Work
<1> QED BY <1>1, <1>8

LEMMA NestedWork ==
  ASSUME Upper!Tree(upper), NEW s, Runs(s), CallOK(call[s]),
         CallsItself(s), Nested(s) # Refused, Work(call[s], call[s].todo, upper, whiteouts)
  PROVE  Work(call[s], Nested(s) \o Tail(call[s].todo), upper, whiteouts)
<1>1. PICK c : c = call[s]
  OBVIOUS
<1>2. PICK R : R = Range(Tail(c.todo))
  OBVIOUS
<1>3. Range(c.todo) = {Now(s)} \cup R
  BY <1>1, <1>2, NowIs
<1>4. Finds(c) => Lands(c, Range(Nested(s)) \cup R, upper, whiteouts)
  <2> HAVE Finds(c)
  <2>1. CASE Lands(c, {Now(s)} \cup R, upper, whiteouts)
    BY <1>1, <2>1, LandNested
  <2>2. CASE Appends(c, {Now(s)} \cup R, upper, whiteouts)
    BY <2>2 DEF Appends, CallsItself
  <2> QED BY <1>1, <1>3, <2>1, <2>2 DEF Work
<1>5. Moves(c) => Keeps(c, Range(Nested(s)) \cup R, upper, whiteouts)
  BY <1>1, <1>2, <1>3, KeepNested DEF Work
<1>6. Loses(c) => Goes(c, Range(Nested(s)) \cup R, upper, whiteouts)
  BY <1>1, <1>2, <1>3, GoneNested DEF Work
<1>7. PlainLower => c.op # "metadata"
  BY <1>1, <1>3, RaiseStep DEF Work
<1>8. Range(Nested(s) \o Tail(c.todo)) = Range(Nested(s)) \cup R
  BY <1>1, <1>2, NestedIs
<1>9. Work(c, Nested(s) \o Tail(c.todo), upper, whiteouts)
  BY <1>1, <1>4, <1>5, <1>6, <1>7, <1>8 DEF Work
<1> QED BY <1>1, <1>9

(* The plans.                                                              *)
LEMMA WriteLands ==
  ASSUME NEW c, NEW p \in Paths, NEW n \in Nat, c.to = p, c.want.kind = "file",
         c.want.size = n, WritePlan(p, n) # Refused
  PROVE  Lands(c, Range(WritePlan(p, n)), upper, whiteouts)
<1>1. PICK N : N = Range(WritePlan(p, n))
  OBVIOUS
<1>2. /\ Step("unhide", p, 0) \in N /\ Step("write", p, n) \in N
      /\ \A x \in N :
           \/ x \in {Step("unhide", p, 0), Step("parent", p, 0), Step("write", p, n)}
           \/ x.path = p /\ x.do \in Hides
  BY <1>1, WritePlanIs
<1>3. \A do \in {"unhide", "parent", "write"} : \A m \in {0, n} :
        Step(do, p, m).do = do /\ Step(do, p, m).path = p /\ Step(do, p, m).size = m
  BY StepIs DEF CallNames
<1>4. Landing(Step("write", p, n), c)
  BY <1>3 DEF Landing
<1>5. /\ Unhiding(Step("unhide", p, 0), c)
      /\ Preparing(Step("unhide", p, 0), c) /\ Preparing(Step("parent", p, 0), c)
  BY <1>3 DEF Unhiding, Preparing
<1>6. \A x : x.path = p /\ x.do \in Hides => Preparing(x, c)
  BY DEF Hides, Preparing
<1>7. \A x \in N : Landing(x, c) \/ Preparing(x, c)
  BY <1>2, <1>4, <1>5, <1>6
<1> QED BY <1>1, <1>2, <1>4, <1>5, <1>7 DEF Lands

LEMMA AppendLands ==
  ASSUME Upper!Tree(upper), NEW c, NEW p \in Paths, NEW n \in Nat, c.to = p, c.want.kind = "file",
         c.want.size = SizeAt(p) + n, AppendPlan(p, n) # Refused
  PROVE  \/ Lands(c, Range(AppendPlan(p, n)), upper, whiteouts)
         \/ /\ Appends(c, Range(AppendPlan(p, n)), upper, whiteouts)
            /\ Tail(AppendPlan(p, n)) = <<>>
<1>1. ~Whited(p) /\ p \notin whiteouts
  BY AppendPlanIs, PrefixSelf DEF Whited
<1>2. CASE InUpper(p) /\ AppendPlan(p, n) = <<Step("append", p, n)>>
  <2>1. PICK x : x = Step("append", p, n)
    OBVIOUS
  <2>2. x \in Steps /\ x.do = "append" /\ x.path = p /\ x.size = n
    BY <2>1, StepIs DEF CallNames
  <2>3. Range(<<x>>) = {x} /\ Tail(<<x>>) = <<>>
    BY <2>2, OneCall
  <2>4. p \in DOMAIN Visible /\ Visible[p] = upper[p]
    BY <1>1, <1>2, VisibleIs
  <2>5. upper[p].kind \in {"file", "fifo"} => SizeAt(p) = upper[p].size
    BY <2>4 DEF SizeAt, Upper!Readable, Upper!OfKind
  <2>6. Appends(c, {x}, upper, whiteouts)
    BY <1>1, <1>2, <2>2, <2>5 DEF Appends, InUpper
  <2> QED BY <1>2, <2>1, <2>3, <2>6
<1>3. CASE /\ ~InUpper(p) /\ InLower(p) /\ Upper!Readable(Lower, p)
           /\ AppendPlan(p, n) = CopyUp(p, Lower[p].size + n)
  <2>1. p \in DOMAIN Visible /\ Visible[p] = Lower[p]
    BY <1>1, <1>3, VisibleIs
  <2>2. SizeAt(p) = Lower[p].size
    BY <1>3, <2>1 DEF SizeAt, Upper!Readable, Upper!OfKind
  <2>3. PICK m \in Nat : m = Lower[p].size + n
    BY <1>3, LowerIs
  <2>4. PICK k \in Nat : k = Lower[p].size
    BY <1>3, LowerIs
  <2>5. Range(AppendPlan(p, n)) = {Step("parent", p, 0), Step("write", p, m), Step("hideFile", p, k)}
    BY <1>3, <2>3, <2>4, CopyUpIs
  <2>6. /\ Step("parent", p, 0).do = "parent" /\ Step("parent", p, 0).path = p
        /\ Step("write", p, m).do = "write" /\ Step("write", p, m).path = p
        /\ Step("write", p, m).size = m
        /\ Step("hideFile", p, k).do = "hideFile" /\ Step("hideFile", p, k).path = p
    BY StepIs DEF CallNames
  <2>7. Preparing(Step("parent", p, 0), c) /\ Preparing(Step("hideFile", p, k), c)
        /\ Landing(Step("write", p, m), c)
    BY <2>2, <2>3, <2>6 DEF Preparing, Landing
  <2> QED BY <1>1, <2>5, <2>7 DEF Lands
<1>4. CASE ~InUpper(p) /\ ~InLower(p) /\ AppendPlan(p, n) = <<Step("write", p, n)>>
  <2>1. p \notin DOMAIN Visible
    BY <1>4, VisibleIs
  <2>2. SizeAt(p) = 0
    BY <2>1 DEF SizeAt, Upper!Readable, Upper!OfKind
  <2>3. PICK x : x = Step("write", p, n)
    OBVIOUS
  <2>4. x \in Steps /\ x.do = "write" /\ x.path = p /\ x.size = n
    BY <2>3, StepIs DEF CallNames
  <2>5. Range(<<x>>) = {x}
    BY <2>4, OneCall
  <2>6. Landing(x, c)
    BY <2>2, <2>4 DEF Landing
  <2>7. Lands(c, {x}, upper, whiteouts)
    BY <1>1, <2>6 DEF Lands
  <2> QED BY <1>4, <2>3, <2>5, <2>7
<1> QED BY <1>2, <1>3, <1>4, AppendPlanIs

LEMMA MkdirLands ==
  ASSUME NEW c, NEW p \in Paths, NEW all \in BOOLEAN, c.to = p, c.want.kind = "dir",
         MkdirPlan(p, all) # Refused
  PROVE  Lands(c, Range(MkdirPlan(p, all)), upper, whiteouts)
<1>1. PICK do \in {"mkdir", "mkdirAll"} :
        Range(MkdirPlan(p, all)) = {Step("unhide", p, 0), Step(do, p, 0)}
  BY MkdirPlanIs
<1>2. /\ Step("unhide", p, 0).do = "unhide" /\ Step("unhide", p, 0).path = p
      /\ Step(do, p, 0).do = do /\ Step(do, p, 0).path = p
  BY StepIs DEF CallNames
<1>3. /\ Preparing(Step("unhide", p, 0), c) /\ Unhiding(Step("unhide", p, 0), c)
      /\ Landing(Step(do, p, 0), c)
  BY <1>2 DEF Preparing, Unhiding, Landing
<1> QED BY <1>1, <1>3 DEF Lands

LEMMA LinkLands ==
  ASSUME NEW c, NEW p \in Paths, c.to = p, c.want.kind = "symlink", NEW R,
         R = {Step("unhide", p, 0), Step("symlink", p, 0)}
  PROVE  Lands(c, R, upper, whiteouts) /\ \A x \in R : Landing(x, c) \/ Preparing(x, c)
<1>1. /\ Step("unhide", p, 0).do = "unhide" /\ Step("unhide", p, 0).path = p
      /\ Step("symlink", p, 0).do = "symlink" /\ Step("symlink", p, 0).path = p
  BY StepIs DEF CallNames
<1>2. /\ Preparing(Step("unhide", p, 0), c) /\ Unhiding(Step("unhide", p, 0), c)
      /\ Landing(Step("symlink", p, 0), c)
  BY <1>1 DEF Preparing, Unhiding, Landing
<1> QED BY <1>2 DEF Lands

LEMMA CopyLands ==
  ASSUME Upper!Tree(upper), NEW c, NEW from \in Paths, NEW to \in Paths, c.to = to,
         c.want = Moved(from), CopyPlan(from, to) # Refused
  PROVE  /\ Lands(c, Range(CopyPlan(from, to)), upper, whiteouts)
         /\ \A x \in Range(CopyPlan(from, to)) : Landing(x, c) \/ Preparing(x, c)
         /\ c.want.kind \in {"file", "symlink"}
         /\ Shown(upper, whiteouts, from) /\ Bears(At(upper, from), c.want)
<1>1. /\ c.want.size = SizeAt(from)
      /\ c.want.kind = IF from \in Upper!OfKind(Visible, {"symlink"})
                       THEN "symlink" ELSE "file"
  BY MovedIs
<1>2. from \in DOMAIN Visible /\ Shown(upper, whiteouts, from)
      /\ Visible[from] = At(upper, from)
  BY CopyPlanIs, ShownIs
<1>3. CASE /\ from \in Upper!OfKind(Visible, {"symlink"})
           /\ Range(CopyPlan(from, to)) = {Step("unhide", to, 0), Step("symlink", to, 0)}
  <2>1. Visible[from].kind = "symlink"
    BY <1>3 DEF Upper!OfKind
  <2> QED BY <1>1, <1>2, <1>3, <2>1, LinkLands DEF Bears
<1>4. CASE /\ from \notin Upper!OfKind(Visible, {"symlink"})
           /\ Upper!Readable(Visible, from) /\ SizeAt(from) = Visible[from].size
           /\ Range(CopyPlan(from, to)) = {Step("writeFile", to, SizeAt(from))}
  <2>1. PICK x : x = Step("writeFile", to, SizeAt(from))
    OBVIOUS
  <2>2. x.do = "writeFile" /\ x.path = to /\ x.size = SizeAt(from)
    BY <2>1, SizeAtIs, StepIs DEF CallNames
  <2>3. Landing(x, c) /\ Unhiding(x, c)
    BY <1>1, <1>4, <2>2 DEF Landing, Unhiding
  <2>4. Visible[from].kind \in {"file", "fifo"}
    BY <1>4 DEF Upper!Readable, Upper!OfKind
  <2>5. Bears(At(upper, from), c.want)
    BY <1>1, <1>2, <1>4, <2>4 DEF Bears
  <2>6. Lands(c, {x}, upper, whiteouts)
    BY <2>3 DEF Lands
  <2> QED BY <1>1, <1>2, <1>4, <2>1, <2>3, <2>5, <2>6
<1> QED BY <1>3, <1>4, CopyPlanIs

LEMMA RenameWorks ==
  ASSUME Upper!Tree(upper), NEW c, NEW from \in Paths, NEW to \in Paths, c.op = "rename",
         c.from = from, c.to = to, c.want = Moved(from), RenamePlan(from, to) # Refused
  PROVE  Work(c, RenamePlan(from, to), upper, whiteouts)
<1>1. PICK R : R = Range(CopyPlan(from, to))
  OBVIOUS
<1>2. PICK x : x = Step("removeFile", from, 0)
  OBVIOUS
<1>3. x.do = "removeFile" /\ x.path = from
  BY <1>2, StepIs DEF CallNames
<1>4. Range(RenamePlan(from, to)) = R \cup {x} /\ CopyPlan(from, to) # Refused
  BY <1>1, <1>2, RenamePlanIs
<1>5. /\ Lands(c, R, upper, whiteouts)
      /\ \A y \in R : Landing(y, c) \/ Preparing(y, c)
      /\ c.want.kind \in {"file", "symlink"}
      /\ Shown(upper, whiteouts, from) /\ Bears(At(upper, from), c.want)
  BY <1>1, <1>4, CopyLands
<1>6. from # to => Clearing(x, c)
  BY <1>3 DEF Clearing
<1>7. from # to => Lands(c, R \cup {x}, upper, whiteouts)
  BY <1>5, <1>6 DEF Lands
<1>8. Moves(c) => Keeps(c, R \cup {x}, upper, whiteouts)
  <2> HAVE Moves(c)
  <2>1. from # to
    BY PrefixSelf DEF Moves
  <2>2. \A y \in R \cup {x} : y.do = "removeFile" \/ Landing(y, c) \/ Preparing(y, c)
    BY <1>3, <1>5
  <2>3. Lands(c, R \cup {x}, upper, whiteouts)
    BY <1>7, <2>1
  <2> QED BY <1>5, <2>2, <2>3 DEF Keeps
<1>9. Leaving(c, R \cup {x})
  <2>1. \A y \in R : y.do # "removeFile"
    BY <1>5 DEF Landing, Preparing
  <2> QED BY <1>3, <2>1 DEF Leaving
<1> QED BY <1>4, <1>5, <1>7, <1>8, <1>9 DEF Work, Finds, Goes

LEMMA MetadataWorks ==
  ASSUME NEW c, NEW p \in Paths, NEW kinds, c.op = "metadata", c.to = p,
         MetadataPlan(p, kinds) # Refused, MetadataPlan(p, kinds) # <<>>
  PROVE  Work(c, MetadataPlan(p, kinds), upper, whiteouts)
<1>1. PICK R : R = Range(MetadataPlan(p, kinds))
  OBVIOUS
<1>2. ~InUpper(p) /\ InLower(p)
  BY MetadataPlanIs
<1>3. PICK k \in Nat : k = Lower[p].size
  BY <1>2, LowerIs
<1>4. \/ /\ Lower[p].kind = "dir"
         /\ R = {Step("mkdirAll", p, 0), Step("hideDir", p, 0)}
      \/ R = {Step("parent", p, 0), Step("write", p, k), Step("hideFile", p, k)}
      \/ /\ Lower[p].kind = "symlink"
         /\ R = {Step("parent", p, 0), Step("symlink", p, 0), Step("hideFile", p, 0)}
  BY <1>1, <1>3, MetadataPlanIs
<1>5. \A do \in {"mkdirAll", "hideDir", "parent", "write", "hideFile", "symlink"} :
        \A n \in {0, k} :
          Step(do, p, n).do = do /\ Step(do, p, n).path = p /\ Step(do, p, n).size = n
  BY StepIs DEF CallNames
<1>6. \A x \in R : Raising(x, c)
  <2>1. \A do \in {"parent", "hideFile", "hideDir"} : \A n \in {0, k} :
          Raising(Step(do, p, n), c)
    BY <1>5 DEF Raising
  <2>2. Raising(Step("write", p, k), c)
    BY <1>3, <1>5 DEF Raising
  <2>3. Lower[p].kind = "symlink" => Raising(Step("symlink", p, 0), c)
    BY <1>5 DEF Raising
  <2>4. Lower[p].kind = "dir" => Raising(Step("mkdirAll", p, 0), c)
    BY <1>5 DEF Raising
  <2> QED BY <1>4, <2>1, <2>2, <2>3, <2>4
<1>7. Raises(c, R, upper)
  BY <1>2, <1>6 DEF Raises, InUpper
<1> QED BY <1>1, <1>7 DEF Work, Finds, Moves, Loses

(* An operation begins with what is to be true of it.                      *)
LEMMA BeginsWork ==
  ASSUME OneSession, CallsInv, NEW s \in Sessions, NEW op, NEW from, NEW to, NEW want,
         NEW plan, Begins(s, op, from, to, want, plan),
         NEW c, c = [op |-> op, from |-> from, to |-> to, want |-> want, todo |-> plan],
         plan # Refused /\ plan # <<>> => Work(c, plan, upper, whiteouts)
  PROVE  WorkInv'
<1>1. call'[s] = IF plan \in {Refused, <<>>} THEN NoCall ELSE c
  BY DEF Begins, CallsInv
<1>2. upper' = upper /\ whiteouts' = whiteouts
  BY DEF Begins
<1>3. c.todo = plan
  OBVIOUS
<1>4. call'[s] # NoCall => Work(call'[s], call'[s].todo, upper', whiteouts')
  BY <1>1, <1>2, <1>3
<1>5. \A t \in Sessions : t = s
  BY DEF OneSession
<1>6. \A t \in Sessions :
        call'[t] # NoCall => Work(call'[t], call'[t].todo, upper', whiteouts')
  BY <1>4, <1>5
<1> QED BY <1>6, Zenon DEF WorkInv, Work, Lands, Landed, Appends, Keeps, Shown, At, Goes,
                           Leaving, Removing, Raises

LEMMA StartsWork ==
  ASSUME OneSession, TypeInv, WorkInv, NEW s \in Sessions, Starts(s)
  PROVE  WorkInv'
<1>0. CallsInv /\ Upper!Tree(upper) /\ \A p \in Targets : p \in Paths
  BY PathsAssumption DEF TypeInv, LayersOK
<1>1. ASSUME NEW p \in Targets, NEW n \in Sizes, WriteFile(s, p, n)
      PROVE  WorkInv'
  <2>1. n \in Nat /\ p \in Paths
    BY <1>0, SizesAssumption
  <2>2. PICK want : want = Upper!Plain("file", n)
    OBVIOUS
  <2>3. want.kind = "file" /\ want.size = n
    BY <2>1, <2>2, PlainIs
  <2>4. PICK c : c = [op |-> "write", from |-> p, to |-> p, want |-> want,
                      todo |-> WritePlan(p, n)]
    OBVIOUS
  <2>5. c.op = "write" /\ c.to = p /\ c.want = want
    BY <2>4
  <2>6. WritePlan(p, n) # Refused => Lands(c, Range(WritePlan(p, n)), upper, whiteouts)
    BY <2>1, <2>3, <2>5, WriteLands
  <2>7. WritePlan(p, n) # Refused => Work(c, WritePlan(p, n), upper, whiteouts)
    BY <2>3, <2>5, <2>6 DEF Work, Moves, Loses
  <2>8. Begins(s, "write", p, p, want, WritePlan(p, n))
    BY <1>1, <2>2 DEF WriteFile
  <2> QED BY <1>0, <2>4, <2>7, <2>8, BeginsWork
<1>2. ASSUME NEW p \in Targets, NEW n \in Sizes, AppendFile(s, p, n)
      PROVE  WorkInv'
  <2>1. n \in Nat /\ p \in Paths /\ SizeAt(p) \in Nat
    BY <1>0, SizesAssumption, SizeAtIs
  <2>2. PICK want : want = Upper!Plain("file", SizeAt(p) + n)
    OBVIOUS
  <2>3. want.kind = "file" /\ want.size = SizeAt(p) + n
    BY <2>1, <2>2, PlainIs
  <2>4. PICK c : c = [op |-> "append", from |-> p, to |-> p, want |-> want,
                      todo |-> AppendPlan(p, n)]
    OBVIOUS
  <2>5. c.op = "append" /\ c.to = p /\ c.want = want
    BY <2>4
  <2>6. AppendPlan(p, n) # Refused =>
          \/ Lands(c, Range(AppendPlan(p, n)), upper, whiteouts)
          \/ /\ Appends(c, Range(AppendPlan(p, n)), upper, whiteouts)
             /\ Tail(AppendPlan(p, n)) = <<>>
    BY <1>0, <2>1, <2>3, <2>5, AppendLands
  <2>7. AppendPlan(p, n) # Refused => Work(c, AppendPlan(p, n), upper, whiteouts)
    BY <2>3, <2>5, <2>6 DEF Work, Moves, Loses
  <2>8. Begins(s, "append", p, p, want, AppendPlan(p, n))
    BY <1>2, <2>2 DEF AppendFile
  <2> QED BY <1>0, <2>4, <2>7, <2>8, BeginsWork
<1>3. ASSUME NEW p \in Targets, NEW all \in BOOLEAN, Mkdir(s, p, all)
      PROVE  WorkInv'
  <2>1. p \in Paths
    BY <1>0
  <2>2. PICK want : want = Upper!Directory
    OBVIOUS
  <2>3. want.kind = "dir"
    BY <2>2, DirectoryIs
  <2>4. PICK c : c = [op |-> "mkdir", from |-> p, to |-> p, want |-> want,
                      todo |-> MkdirPlan(p, all)]
    OBVIOUS
  <2>5. c.op = "mkdir" /\ c.to = p /\ c.want = want
    BY <2>4
  <2>6. MkdirPlan(p, all) # Refused => Lands(c, Range(MkdirPlan(p, all)), upper, whiteouts)
    BY <2>1, <2>3, <2>5, MkdirLands
  <2>7. MkdirPlan(p, all) # Refused => Work(c, MkdirPlan(p, all), upper, whiteouts)
    BY <2>3, <2>5, <2>6 DEF Work, Moves, Loses
  <2>8. Begins(s, "mkdir", p, p, want, MkdirPlan(p, all))
    BY <1>3, <2>2 DEF Mkdir
  <2> QED BY <1>0, <2>4, <2>7, <2>8, BeginsWork
<1>4. ASSUME NEW p \in Targets, NEW all \in BOOLEAN, RemovePath(s, p, all)
      PROVE  WorkInv'
  <2>1. p \in Paths
    BY <1>0
  <2>2. PICK c : c = [op |-> "remove", from |-> p, to |-> p, want |-> NoEntry,
                      todo |-> RemovePlan(p, all)]
    OBVIOUS
  <2>3. c.op = "remove" /\ c.from = p
    BY <2>2
  <2>4. RemovePlan(p, all) # Refused => Goes(c, Range(RemovePlan(p, all)), upper, whiteouts)
    BY <2>1, <2>3, RemovingPlan DEF Goes
  <2>5. RemovePlan(p, all) # Refused => Work(c, RemovePlan(p, all), upper, whiteouts)
    BY <2>3, <2>4 DEF Work, Moves, Finds
  <2>6. Begins(s, "remove", p, p, NoEntry, RemovePlan(p, all))
    BY <1>4 DEF RemovePath
  <2> QED BY <1>0, <2>2, <2>5, <2>6, BeginsWork
<1>5. ASSUME NEW p \in Targets, Symlink(s, p)
      PROVE  WorkInv'
  <2>1. p \in Paths
    BY <1>0
  <2>2. PICK want : want = Upper!Plain("symlink", 0)
    OBVIOUS
  <2>3. want.kind = "symlink"
    BY <2>2, PlainIs
  <2>4. PICK c : c = [op |-> "symlink", from |-> p, to |-> p, want |-> want,
                      todo |-> SymlinkPlan(p)]
    OBVIOUS
  <2>5. c.op = "symlink" /\ c.to = p /\ c.want = want
    BY <2>4
  <2>6. SymlinkPlan(p) # Refused =>
          Range(SymlinkPlan(p)) = {Step("unhide", p, 0), Step("symlink", p, 0)}
    BY <2>1, SymlinkPlanIs
  <2>7. SymlinkPlan(p) # Refused => Lands(c, Range(SymlinkPlan(p)), upper, whiteouts)
    BY <2>1, <2>3, <2>5, <2>6, LinkLands
  <2>8. SymlinkPlan(p) # Refused => Work(c, SymlinkPlan(p), upper, whiteouts)
    BY <2>3, <2>5, <2>7 DEF Work, Moves, Loses
  <2>9. Begins(s, "symlink", p, p, want, SymlinkPlan(p))
    BY <1>5, <2>2 DEF Symlink
  <2> QED BY <1>0, <2>4, <2>8, <2>9, BeginsWork
<1>6. ASSUME NEW p \in Targets, Chmod(s, p) \/ SetModifiedTime(s, p)
      PROVE  WorkInv'
  <2>1. p \in Paths
    BY <1>0
  <2>2. PICK kinds : Begins(s, "metadata", p, p, NoEntry, MetadataPlan(p, kinds))
    BY <1>6 DEF Chmod, SetModifiedTime
  <2>3. PICK c : c = [op |-> "metadata", from |-> p, to |-> p, want |-> NoEntry,
                      todo |-> MetadataPlan(p, kinds)]
    OBVIOUS
  <2>4. c.op = "metadata" /\ c.to = p
    BY <2>3
  <2>5. MetadataPlan(p, kinds) # Refused /\ MetadataPlan(p, kinds) # <<>> =>
          Work(c, MetadataPlan(p, kinds), upper, whiteouts)
    BY <2>1, <2>4, MetadataWorks
  <2> QED BY <1>0, <2>2, <2>3, <2>5, BeginsWork
<1>7. ASSUME NEW from \in Targets, NEW to \in Targets, Copy(s, from, to)
      PROVE  WorkInv'
  <2>1. from \in Paths /\ to \in Paths
    BY <1>0
  <2>2. PICK want : want = Moved(from)
    OBVIOUS
  <2>3. PICK c : c = [op |-> "copy", from |-> from, to |-> to, want |-> want,
                      todo |-> CopyPlan(from, to)]
    OBVIOUS
  <2>4. c.op = "copy" /\ c.to = to /\ c.want = Moved(from)
    BY <2>2, <2>3
  <2>5. CopyPlan(from, to) # Refused =>
          /\ Lands(c, Range(CopyPlan(from, to)), upper, whiteouts)
          /\ c.want.kind \in {"file", "symlink"}
    BY <1>0, <2>1, <2>4, CopyLands
  <2>6. CopyPlan(from, to) # Refused => Work(c, CopyPlan(from, to), upper, whiteouts)
    BY <2>4, <2>5 DEF Work, Moves, Loses
  <2>7. Begins(s, "copy", from, to, want, CopyPlan(from, to))
    BY <1>7, <2>2 DEF Copy
  <2> QED BY <1>0, <2>3, <2>6, <2>7, BeginsWork
<1>8. ASSUME NEW from \in Targets, NEW to \in Targets, Rename(s, from, to)
      PROVE  WorkInv'
  <2>1. from \in Paths /\ to \in Paths
    BY <1>0
  <2>2. PICK want : want = Moved(from)
    OBVIOUS
  <2>3. PICK c : c = [op |-> "rename", from |-> from, to |-> to, want |-> want,
                      todo |-> RenamePlan(from, to)]
    OBVIOUS
  <2>4. c.op = "rename" /\ c.from = from /\ c.to = to /\ c.want = Moved(from)
    BY <2>2, <2>3
  <2>5. RenamePlan(from, to) # Refused => Work(c, RenamePlan(from, to), upper, whiteouts)
    BY <1>0, <2>1, <2>4, RenameWorks
  <2>6. Begins(s, "rename", from, to, want, RenamePlan(from, to))
    BY <1>8, <2>2 DEF Rename
  <2> QED BY <1>0, <2>3, <2>5, <2>6, BeginsWork
<1>9. CASE VfsSnapshot(s) \/ VfsRestore(s)
  <2>1. call' = call /\ call[s] = NoCall
    BY <1>9 DEF VfsSnapshot, VfsRestore
  <2>2. \A t \in Sessions : call'[t] = NoCall
    BY <2>1 DEF OneSession
  <2> QED BY <2>2 DEF WorkInv
<1> QED
  BY <1>1, <1>2, <1>3, <1>4, <1>5, <1>6, <1>7, <1>8, <1>9 DEF Starts

LEMMA ProceedsTo ==
  ASSUME CallsInv, NEW s \in Sessions, Proceeds(s)
  PROVE  call'[s] = IF outcome'.ok /\ Len(call[s].todo) > 1
                    THEN With(call[s], Tail(call[s].todo)) ELSE NoCall
BY DEF CallsInv, Proceeds

LEMMA CallsItselfTo ==
  ASSUME CallsInv, NEW s \in Sessions, CallsItself(s)
  PROVE  /\ call'[s] = IF Nested(s) = Refused THEN NoCall
                       ELSE With(call[s], Nested(s) \o Tail(call[s].todo))
         /\ outcome'.ok <=> Nested(s) # Refused
         /\ upper' = upper /\ whiteouts' = whiteouts
<1>1. PICK plan : plan = Nested(s)
  OBVIOUS
<1>2. /\ call' = [call EXCEPT ![s] = IF plan = Refused THEN NoCall
                                     ELSE With(@, plan \o Tail(@.todo))]
      /\ Answers(plan # Refused) /\ upper' = upper /\ whiteouts' = whiteouts
  BY <1>1, Zenon DEF CallsItself, Nested
<1>3. (plan # Refused) \in BOOLEAN
  OBVIOUS
<1>4. outcome'.ok <=> plan # Refused
  BY <1>2, <1>3, AnswersOutcome
<1> QED BY <1>1, <1>2, <1>4 DEF CallsInv

LEMMA RunsWork ==
  ASSUME OneSession, TypeInv, WorkInv, NEW s \in Sessions, Runs(s)
  PROVE  WorkInv'
<1>1. CallOK(call[s]) /\ Upper!Tree(upper) /\ CallsInv
      /\ Work(call[s], call[s].todo, upper, whiteouts)
  BY RunsCall DEF TypeInv, LayersOK, CallsInv, WorkInv
<1>2. PICK d : d = call'[s]
  OBVIOUS
<1>3. d # NoCall => Work(d, d.todo, upper', whiteouts')
  <2> HAVE d # NoCall
  <2>1. CASE CallsItself(s)
    <3>1. /\ Nested(s) # Refused /\ d = With(call[s], Nested(s) \o Tail(call[s].todo))
          /\ upper' = upper /\ whiteouts' = whiteouts
      BY <1>1, <1>2, <2>1, CallsItselfTo
    <3>2. /\ Planned(Nested(s) \o Tail(call[s].todo), {call[s].from, call[s].to})
          /\ Nested(s) \o Tail(call[s].todo) # <<>>
      BY <1>1, <2>1, <3>1, NestedIs
    <3>3. /\ d.op = call[s].op /\ d.from = call[s].from /\ d.to = call[s].to
          /\ d.want = call[s].want /\ d.todo = Nested(s) \o Tail(call[s].todo)
      BY <1>1, <3>1, <3>2, LeftIsCall
    <3>4. Work(call[s], Nested(s) \o Tail(call[s].todo), upper, whiteouts)
      BY <1>1, <2>1, <3>1, NestedWork
    <3>5. Work(d, Nested(s) \o Tail(call[s].todo), upper, whiteouts)
      BY <3>3, <3>4, WorkOf
    <3> QED BY <3>1, <3>3, <3>5
  <2>2. CASE ~CallsItself(s)
    <3>1. /\ outcome'.ok /\ Tail(call[s].todo) # <<>>
          /\ d = With(call[s], Tail(call[s].todo))
      BY <1>1, <1>2, <2>2, RunsCall, ProceedsTo, NowIs
    <3>2. Planned(Tail(call[s].todo), {call[s].from, call[s].to})
      BY <1>1, NowIs
    <3>3. /\ d.op = call[s].op /\ d.from = call[s].from /\ d.to = call[s].to
          /\ d.want = call[s].want /\ d.todo = Tail(call[s].todo)
      BY <1>1, <3>1, <3>2, LeftIsCall
    <3>4. Work(call[s], Tail(call[s].todo), upper', whiteouts')
      BY <1>1, <2>2, <3>1, StepWork
    <3>5. Work(d, Tail(call[s].todo), upper', whiteouts')
      BY <3>3, <3>4, WorkOf
    <3> QED BY <3>3, <3>5
  <2> QED BY <2>1, <2>2
<1>4. \A t \in Sessions : t = s
  BY DEF OneSession
<1>5. \A t \in Sessions :
        call'[t] # NoCall => Work(call'[t], call'[t].todo, upper', whiteouts')
  BY <1>2, <1>3, <1>4
<1> QED BY <1>5, Zenon DEF WorkInv, Work, Lands, Landed, Appends, Keeps, Shown, At, Goes,
                           Leaving, Removing, Raises

LEMMA WorkStep == OneSession => (TypeInv /\ WorkInv /\ [Next]_vars => WorkInv')
<1> SUFFICES ASSUME OneSession, TypeInv, WorkInv, [Next]_vars PROVE WorkInv'
  OBVIOUS
<1>1. CASE UNCHANGED vars
  <2>1. call' = call /\ upper' = upper /\ whiteouts' = whiteouts
    BY <1>1 DEF vars
  <2>2. \A t \in Sessions :
          call'[t] # NoCall => Work(call'[t], call'[t].todo, upper', whiteouts')
    BY <2>1 DEF WorkInv
  <2> QED BY <2>2, Zenon DEF WorkInv, Work, Lands, Landed, Appends, Keeps, Shown, At, Goes,
                             Leaving, Removing, Raises
<1> QED BY <1>1, StartsWork, RunsWork DEF Next

LEMMA WorkInit == Init => WorkInv
BY DEF Init, WorkInv

LEMMA NoFifoInit == Init => NoFifo
BY DirectoryIs DEF Init, Upper!Init, NoFifo, FifoFree

LEMMA NoFifoStep == TypeInv /\ NoFifo /\ [Next]_vars => NoFifo'
<1> SUFFICES ASSUME TypeInv, NoFifo, [Next]_vars PROVE NoFifo'
  OBVIOUS
<1>1. Upper!Tree(upper) /\ FifoFree(upper)
  BY DEF TypeInv, LayersOK, NoFifo
<1>2. CASE upper' = upper /\ saved' = saved
  BY <1>2 DEF NoFifo, FifoFree
<1>3. ASSUME NEW s \in Sessions, Runs(s)
      PROVE  NoFifo'
  <2>1. FifoFree(upper')
    BY <1>1, <1>3, RunsCall, RunsNoFifo DEF TypeInv, CallsInv
  <2>2. saved' = saved
    BY <1>3 DEF Runs, CallsUpper, MakesParent, RemovesWhiteout, AddsWhiteout, HidesLower,
                CallsItself
  <2> QED BY <2>1, <2>2 DEF NoFifo, FifoFree
<1>4. ASSUME NEW s \in Sessions, VfsSnapshot(s)
      PROVE  NoFifo'
  <2>1. PICK e : e = Upper!Contents(upper)
    OBVIOUS
  <2>2. Upper!Succeeds(e) /\ saved' = Upper!Captured(e)
    BY <1>4, <2>1 DEF VfsSnapshot, Upper!Snapshot
  <2>3. upper' = e
    BY <2>2, SucceedsAs
  <2>4. \A p \in DOMAIN upper : Upper!WellFormed(upper[p]) /\ upper[p].kind # "lazy"
    BY <1>1, EntryIs DEF Upper!Tree
  <2>5. FifoFree(e)
    BY <1>1, <2>1, <2>4 DEF FifoFree, Upper!Contents, Upper!Loaded
  <2>6. FifoFree(Upper!Captured(e))
    BY <2>5 DEF FifoFree, Upper!Captured
  <2> QED BY <2>2, <2>3, <2>5, <2>6 DEF NoFifo, FifoFree
<1>5. ASSUME NEW s \in Sessions, VfsRestore(s)
      PROVE  NoFifo'
  <2>1. saved' = saved /\ saved # NoSnapshot /\ (Upper!Succeeds(saved) \/ Upper!Fails)
    BY <1>5 DEF VfsRestore, Upper!Restore, Upper!Idle
  <2>2. upper' = saved \/ upper' = upper
    BY <2>1, SucceedsAs, FailsAs DEF Fails
  <2> QED BY <2>1, <2>2 DEF NoFifo, FifoFree
<1>6. ASSUME NEW s \in Sessions, Starts(s), ~VfsSnapshot(s), ~VfsRestore(s)
      PROVE  upper' = upper /\ saved' = saved
  BY <1>6 DEF Starts, WriteFile, AppendFile, Mkdir, RemovePath, Symlink, Copy,
              Rename, Chmod, SetModifiedTime, Begins
<1> QED BY <1>2, <1>3, <1>4, <1>5, <1>6 DEF Next, vars

----------------------------------------------------------------------------
(***************************************************************************)
(* The end of an operation.                                                *)
(***************************************************************************)
LEMMA OnlyRuns ==
  ASSUME OneSession, [Next]_vars, NEW s \in Sessions, Succeeds(s)
  PROVE  Runs(s)
<1>1. ~UNCHANGED vars
  BY DEF Succeeds, vars
<1>2. PICK t \in Sessions : Starts(t) \/ Runs(t)
  BY <1>1 DEF Next
<1>3. t = s
  BY DEF OneSession
<1>4. Starts(s) => call[s] = NoCall
  BY DEF Starts, WriteFile, AppendFile, Mkdir, RemovePath, Symlink, Copy,
         Rename, Chmod, SetModifiedTime, Begins, VfsSnapshot, VfsRestore
<1> QED BY <1>2, <1>3, <1>4 DEF Succeeds

LEMMA Ended ==
  ASSUME TypeInv, NEW s \in Sessions, Runs(s), Succeeds(s),
         Work(call[s], call[s].todo, upper, whiteouts)
  PROVE  Work(call[s], <<>>, upper', whiteouts')
<1>1. CallsInv /\ CallOK(call[s]) /\ Upper!Tree(upper)
  BY RunsCall DEF TypeInv, CallsInv, LayersOK
<1>2. outcome'.ok /\ call'[s] = NoCall
  BY DEF Succeeds
<1>3. ~CallsItself(s)
  <2> SUFFICES ASSUME CallsItself(s) PROVE FALSE
    OBVIOUS
  <2>1. /\ Nested(s) # Refused /\ call'[s] = With(call[s], Nested(s) \o Tail(call[s].todo))
    BY <1>1, <1>2, CallsItselfTo
  <2>2. /\ Planned(Nested(s) \o Tail(call[s].todo), {call[s].from, call[s].to})
        /\ Nested(s) \o Tail(call[s].todo) # <<>>
    BY <1>1, <2>1, NestedIs
  <2>3. CallOK(With(call[s], Nested(s) \o Tail(call[s].todo)))
    BY <1>1, <2>2, LeftIsCall
  <2> QED BY <1>2, <2>1, <2>3, CallIsTyped
<1>4. Tail(call[s].todo) = <<>>
  <2> SUFFICES ASSUME Tail(call[s].todo) # <<>> PROVE FALSE
    OBVIOUS
  <2>1. Len(call[s].todo) > 1 /\ Planned(Tail(call[s].todo), {call[s].from, call[s].to})
    BY <1>1, NowIs
  <2>2. call'[s] = With(call[s], Tail(call[s].todo))
    BY <1>1, <1>2, <1>3, <2>1, RunsCall, ProceedsTo
  <2>3. CallOK(With(call[s], Tail(call[s].todo)))
    BY <1>1, <2>1, LeftIsCall
  <2> QED BY <1>2, <2>2, <2>3, CallIsTyped
<1>5. Work(call[s], Tail(call[s].todo), upper', whiteouts')
  BY <1>1, <1>2, <1>3, StepWork
<1> QED BY <1>4, <1>5

LEMMA RenameStays ==
  ASSUME TypeInv, NEW s \in Sessions, Runs(s), NEW c, c = call[s],
         Work(c, c.todo, upper, whiteouts), Moves(c), Reachable(c.to, whiteouts')
  PROVE  \E p \in {c.from, c.to} : p \in DOMAIN Visible' /\ Carries(Visible'[p], c.want)
<1>1. CallsInv /\ CallOK(call[s]) /\ Upper!Tree(upper)
  BY RunsCall DEF TypeInv, CallsInv, LayersOK
<1>2. PICK R : R = Range(Tail(c.todo))
  OBVIOUS
<1>3. Keeps(c, {Now(s)} \cup R, upper, whiteouts) /\ ~IsPrefix(c.from, c.to)
  BY <1>1, <1>2, NowIs DEF Work, Moves
<1>4. \E p \in {c.from, c.to} :
        Shown(upper', whiteouts', p) /\ Carries(At(upper', p), c.want)
  <2>1. CASE CallsItself(s)
    <3>1. upper' = upper /\ whiteouts' = whiteouts
      BY <2>1 DEF CallsItself
    <3> QED BY <1>3, <3>1, KeepsContent
  <2>2. CASE ~CallsItself(s) /\ outcome'.ok
    <3>1. Keeps(c, R, upper', whiteouts')
      BY <1>1, <1>3, <2>2, KeepStep
    <3> QED BY <3>1, KeepsContent
  <2>3. CASE ~outcome'.ok
    BY <1>1, <1>3, <2>3, KeepFails
  <2> QED BY <2>1, <2>2, <2>3
<1> QED BY <1>4, ShownNext

(* After each call of a rename, one that fails included, the content is at *)
(* the old path or at the new one (overlay.rs:768), for every layering and *)
(* all limits, while no other session is in the middle of an operation.    *)
THEOREM RenameTheorem ==
  ASSUME OneSession PROVE Spec => RenameKeepsContent
<1> DEFINE A == \A s \in Sessions :
      LET c == call[s] IN
      Runs(s) /\ c.op = "rename" /\ ~IsPrefix(c.from, c.to)
           /\ Reachable(c.to, whiteouts') =>
        \E p \in {c.from, c.to} : p \in DOMAIN Visible' /\ Carries(Visible'[p], c.want)
<1>1. TypeInv /\ WorkInv /\ [Next]_vars => [A]_vars
  <2>1. SUFFICES ASSUME TypeInv, WorkInv, NEW s \in Sessions, Runs(s),
                        NEW c, c = call[s], c.op = "rename", ~IsPrefix(c.from, c.to),
                        Reachable(c.to, whiteouts')
                 PROVE  \E p \in {c.from, c.to} :
                          p \in DOMAIN Visible' /\ Carries(Visible'[p], c.want)
    OBVIOUS
  <2>2. Work(c, c.todo, upper, whiteouts) /\ Moves(c)
    BY <2>1, RunsCall DEF WorkInv, Moves
  <2> QED BY <2>1, <2>2, RenameStays
<1>2. RenameKeepsContent <=> [][A]_vars
  BY DEF RenameKeepsContent
<1>3. TypeInv /\ WorkInv /\ [Next]_vars => WorkInv'
  BY WorkStep
<1> HIDE DEF A
<1> QED
  BY <1>1, <1>2, <1>3, TypeInit, TypeStep, WorkInit, PTL DEF Spec

LEMMA GoneAtEnd ==
  ASSUME NEW c, NEW u, NEW w, Goes(c, Range(<<>>), u, w)
  PROVE  ~Shown(u, w, c.from)
BY NoCalls DEF Goes, Leaving, Removing, Shown

(* What was removed, or moved away, is not found again in the layer below  *)
(* (overlay.rs:56), for every layering, while no other session is in the   *)
(* middle of an operation.                                                 *)
THEOREM GoneTheorem ==
  ASSUME OneSession PROVE Spec => RemovedIsGone
<1> DEFINE A == \A s \in Sessions :
      LET c == call[s] IN
      Succeeds(s) /\ (c.op = "remove" \/ (c.op = "rename" /\ c.from # c.to)) =>
        c.from \notin DOMAIN Visible'
<1>1. TypeInv /\ WorkInv /\ [Next]_vars => [A]_vars
  <2>1. SUFFICES ASSUME TypeInv, WorkInv, [Next]_vars, NEW s \in Sessions, Succeeds(s),
                        NEW c, c = call[s], Loses(c)
                 PROVE  c.from \notin DOMAIN Visible'
    BY DEF Loses
  <2>2. Work(c, <<>>, upper', whiteouts')
    BY <2>1, OnlyRuns, RunsCall, Ended DEF WorkInv
  <2>3. ~Shown(upper', whiteouts', c.from)
    BY <2>1, <2>2, GoneAtEnd DEF Work
  <2> QED BY <2>3, ShownNext
<1>2. RemovedIsGone <=> [][A]_vars
  BY DEF RemovedIsGone
<1>3. TypeInv /\ WorkInv /\ [Next]_vars => WorkInv'
  BY WorkStep
<1> HIDE DEF A
<1> QED
  BY <1>1, <1>2, <1>3, TypeInit, TypeStep, WorkInit, PTL DEF Spec

LEMMA FoundAtEnd ==
  ASSUME TypeInv, FifoFree(upper'), Upper!Tree(upper'),
         NEW s \in Sessions, NEW c, c = call[s], CallOK(c),
         Finds(c), Work(c, <<>>, upper', whiteouts'), Reachable(c.to, whiteouts')
  PROVE  c.to \in DOMAIN Visible' /\ Visible'[c.to] = c.want
<1>1. c.want.kind \in {"file", "dir", "symlink"} /\ Upper!WellFormed(c.want)
  BY DEF Work, Finds, CallOK
<1>2. Landed(c, upper') /\ c.to \notin whiteouts'
  <2>1. ~Appends(c, Range(<<>>), upper', whiteouts')
    BY NoCalls DEF Appends
  <2>2. Lands(c, Range(<<>>), upper', whiteouts')
    BY <2>1 DEF Work
  <2> QED BY <2>2, NoCalls DEF Lands
<1>3. ~WhitedIn(whiteouts', c.to)
  BY <1>2 DEF Reachable, WhitedIn, IsStrictPrefix
<1>4. PICK x : x = upper'[c.to] /\ c.to \in DOMAIN upper'
  BY <1>2 DEF Landed
<1>5. Bears(x, c.want) /\ Upper!WellFormed(x) /\ x.kind # "fifo"
  BY <1>2, <1>4 DEF Landed, FifoFree, Upper!Tree
<1>6. x.kind = c.want.kind /\ x.size = c.want.size
  BY <1>1, <1>5, EntryIs DEF Bears
<1>7. x = c.want
  BY <1>1, <1>5, <1>6, EntryIs
<1> QED BY <1>3, <1>4, <1>7, ShownNext DEF Shown, At

(* What was written, appended, made, copied or moved is found by the next  *)
(* look, as it was wanted (overlay.rs:489), and a chmod changes no content *)
(* though it brings a lower entry up (overlay.rs:859): for every lower     *)
(* layer of files, directories, symlinks and fifos, while no other session *)
(* is in the middle of an operation, for operations on paths below the     *)
(* root.                                                                   *)
THEOREM FoundTheorem ==
  ASSUME OneSession, PlainLower, <<>> \notin Targets PROVE Spec => WritesAreFound
<1> DEFINE A == \A s \in Sessions :
      LET c == call[s] IN
      /\ Succeeds(s) /\ c.want # NoEntry /\ ~(c.op = "rename" /\ c.from = c.to)
           /\ Reachable(c.to, whiteouts') =>
             c.to \in DOMAIN Visible' /\ Visible'[c.to] = c.want
      /\ Runs(s) /\ c.op = "metadata" => VisibleSizes' = VisibleSizes
<1>1. TypeInv /\ WorkInv /\ NoFifo /\ [Next]_vars => [A]_vars
  <2>1. SUFFICES ASSUME TypeInv, WorkInv, NoFifo, [Next]_vars, NEW s \in Sessions,
                        NEW c, c = call[s]
                 PROVE
          /\ Succeeds(s) /\ c.want # NoEntry /\ ~(c.op = "rename" /\ c.from = c.to)
               /\ Reachable(c.to, whiteouts') =>
                 c.to \in DOMAIN Visible' /\ Visible'[c.to] = c.want
          /\ Runs(s) /\ c.op = "metadata" => VisibleSizes' = VisibleSizes
    OBVIOUS
  <2>2. ASSUME Succeeds(s), c.want # NoEntry, ~(c.op = "rename" /\ c.from = c.to),
               Reachable(c.to, whiteouts')
        PROVE  c.to \in DOMAIN Visible' /\ Visible'[c.to] = c.want
    <3>1. Runs(s)
      BY <2>1, <2>2, OnlyRuns
    <3>2. CallOK(c) /\ Work(c, c.todo, upper, whiteouts)
      BY <2>1, <3>1, RunsCall DEF TypeInv, CallsInv, WorkInv
    <3>3. Finds(c)
      BY <2>2, <3>2 DEF CallOK, Finds, OperationNames
    <3>4. Work(c, <<>>, upper', whiteouts')
      BY <2>1, <2>2, <3>1, <3>2, Ended
    <3>5. FifoFree(upper') /\ Upper!Tree(upper')
      <4>1. FifoFree(upper')
        BY <2>1, <3>1, <3>2, RunsNoFifo DEF NoFifo, TypeInv, LayersOK
      <4>2. Upper!Tree(upper')
        BY <2>1, <3>1, <3>2, NowIs, RunsAlters, AltersTree DEF TypeInv, LayersOK
      <4> QED BY <4>1, <4>2
    <3> QED BY <2>1, <2>2, <3>2, <3>3, <3>4, <3>5, FoundAtEnd
  <2>3. ASSUME Runs(s), c.op = "metadata"
        PROVE  VisibleSizes' = VisibleSizes
    <3>1. CallOK(c) /\ Work(c, c.todo, upper, whiteouts) /\ Upper!Tree(upper)
      BY <2>1, <2>3, RunsCall DEF TypeInv, CallsInv, WorkInv, LayersOK
    <3>2. PICK R : R = Range(Tail(c.todo))
      OBVIOUS
    <3>3. Raises(c, {Now(s)} \cup R, upper)
      BY <2>1, <2>3, <3>1, <3>2, NowIs DEF Work
    <3> QED BY <2>1, <2>3, <3>1, <3>3, RaiseStep, SizesSame
  <2> QED BY <2>2, <2>3
<1>2. WritesAreFound <=> [][A]_vars
  BY DEF WritesAreFound
<1>3. TypeInv /\ WorkInv /\ [Next]_vars => WorkInv'
  BY WorkStep
<1> HIDE DEF A
<1> QED
  BY <1>1, <1>2, <1>3, TypeInit, TypeStep, WorkInit, NoFifoInit, NoFifoStep, PTL DEF Spec
=============================================================================
