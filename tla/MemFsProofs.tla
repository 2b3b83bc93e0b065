---------------------------- MODULE MemFsProofs ----------------------------
(***************************************************************************)
(* Theorems about MemFs for all paths, loaders, sizes and limits.          *)
(***************************************************************************)
EXTENDS MemFs, SumLemmas, FiniteSetTheorems, TLAPS

----------------------------------------------------------------------------
(***************************************************************************)
(* The operations on trees.                                                *)
(***************************************************************************)

(* The entries that operations make.                                       *)
LEMMA PlainEntry ==
  ASSUME NEW kind \in Kinds \ {"lazy"}, NEW n \in Nat,
         kind \in {"dir", "symlink"} => n = 0
  PROVE  WellFormed(Plain(kind, n)) /\ Plain(kind, n).kind = kind
BY Zenon DEF WellFormed, Plain, Entry

LEMMA LazyEntry ==
  ASSUME NEW l \in Loaders
  PROVE  WellFormed(LazyFile(l)) /\ LazyFile(l).kind = "lazy"
<1>1. Hint[l] \in Nat
  BY SizesAssumption
<1>2. "lazy" \in Kinds
  BY DEF Kinds
<1> QED
  BY <1>1, <1>2, Zenon DEF WellFormed, LazyFile, Entry

LEMMA DirectoryEntry == WellFormed(Directory) /\ Directory.kind = "dir"
BY PlainEntry DEF Directory, Kinds

LEMMA LoadedEntry ==
  ASSUME NEW x, WellFormed(x)
  PROVE  /\ WellFormed(Loaded(x))
         /\ Loaded(x).kind = IF x.kind = "lazy" THEN "file" ELSE x.kind
<1>1. CASE x.kind = "lazy"
  <2>1. LoadSize[x.loader] \in Nat
    BY <1>1, SizesAssumption DEF WellFormed
  <2> QED
    BY <1>1, <2>1, PlainEntry DEF Loaded, Kinds
<1>2. CASE x.kind # "lazy"
  BY <1>2 DEF Loaded
<1> QED
  BY <1>1, <1>2

(* Setting one path.                                                       *)
LEMMA WithTree ==
  ASSUME NEW e, Tree(e), NEW p \in Paths, NEW x, WellFormed(x)
  PROVE  /\ Tree(With(e, p, x))
         /\ DOMAIN With(e, p, x) = DOMAIN e \cup {p}
<1>1. DOMAIN With(e, p, x) = DOMAIN e \cup {p}
  BY DEF With
<1>2. With(e, p, x)[p] = x
  BY DEF With
<1>3. \A q \in DOMAIN e : q # p => With(e, p, x)[q] = e[q]
  BY DEF With
<1> QED
  BY <1>1, <1>2, <1>3, Zenon DEF Tree

(* Removing a set of paths.                                                *)
LEMMA WithoutTree ==
  ASSUME NEW e, Tree(e), NEW ps
  PROVE  /\ Tree(Without(e, ps))
         /\ DOMAIN Without(e, ps) = DOMAIN e \ ps
         /\ \A q \in DOMAIN e \ ps : Without(e, ps)[q] = e[q]
BY DEF Without, Restrict, Tree

(* Adding directories where nothing was.                                   *)
LEMMA DirsTree ==
  ASSUME NEW e, Tree(e), NEW ps, ps \subseteq Paths
  PROVE  /\ Tree(WithDirs(e, ps))
         /\ DOMAIN WithDirs(e, ps) = DOMAIN e \cup ps
         /\ \A q \in DOMAIN e : WithDirs(e, ps)[q] = e[q]
         /\ \A q \in ps \ DOMAIN e : WithDirs(e, ps)[q] = Directory
<1>1. DOMAIN WithDirs(e, ps) = DOMAIN e \cup ps
  BY DEF WithDirs
<1>2. \A q \in DOMAIN e : WithDirs(e, ps)[q] = e[q]
  BY DEF WithDirs
<1>3. \A q \in ps \ DOMAIN e : WithDirs(e, ps)[q] = Directory
  BY DEF WithDirs
<1> QED
  BY <1>1, <1>2, <1>3, DirectoryEntry, Zenon DEF Tree

(* Loading every lazy file.                                                *)
LEMMA ContentsTree ==
  ASSUME NEW e, Tree(e)
  PROVE  /\ Tree(Contents(e))
         /\ DOMAIN Contents(e) = DOMAIN e
         /\ \A q \in DOMAIN e :
              Contents(e)[q].kind = IF e[q].kind = "lazy" THEN "file" ELSE e[q].kind
BY LoadedEntry DEF Contents, Tree

(* What a snapshot keeps.                                                  *)
LEMMA CapturedTree ==
  ASSUME NEW e, Tree(e)
  PROVE  /\ Tree(Captured(e))
         /\ DOMAIN Captured(e) = DOMAIN e
         /\ \A q \in DOMAIN e : Captured(e)[q].kind = e[q].kind
<1>1. WellFormed(Plain("fifo", 0)) /\ Plain("fifo", 0).kind = "fifo"
  BY PlainEntry DEF Kinds
<1> QED
  BY <1>1 DEF Captured, Tree

(* add_file and add_lazy_file: the path, and directories above it.         *)
LEMMA WithAncestorsTree ==
  ASSUME Tree(entries), NEW p \in Paths, NEW x, WellFormed(x)
  PROVE  /\ Tree(WithAncestors(p, x))
         /\ DOMAIN entries \subseteq DOMAIN WithAncestors(p, x)
         /\ \A q \in DOMAIN WithAncestors(p, x) :
              /\ q = p => WithAncestors(p, x)[q] = x
              /\ q # p /\ q \in DOMAIN entries => WithAncestors(p, x)[q] = entries[q]
              /\ q # p /\ q \notin DOMAIN entries => WithAncestors(p, x)[q] = Directory
<1>0. PICK d : d = WithDirs(entries, Ancestors(p))
  OBVIOUS
<1>1. /\ Tree(d)
      /\ DOMAIN d = DOMAIN entries \cup Ancestors(p)
      /\ \A q \in DOMAIN entries : d[q] = entries[q]
      /\ \A q \in Ancestors(p) \ DOMAIN entries : d[q] = Directory
  <2>1. Ancestors(p) \subseteq Paths
    BY DEF Ancestors
  <2> QED
    BY <1>0, <2>1, DirsTree
<1>2. Tree(With(d, p, x)) /\ DOMAIN With(d, p, x) = DOMAIN d \cup {p}
  BY <1>1, WithTree
<1>3. WithAncestors(p, x) = With(d, p, x)
  BY <1>0 DEF WithAncestors
<1>4. ASSUME NEW q \in DOMAIN With(d, p, x)
      PROVE  /\ q = p => With(d, p, x)[q] = x
             /\ q # p /\ q \in DOMAIN entries => With(d, p, x)[q] = entries[q]
             /\ q # p /\ q \notin DOMAIN entries => With(d, p, x)[q] = Directory
  BY <1>1, <1>2 DEF With
<1>5. DOMAIN entries \subseteq DOMAIN With(d, p, x)
  BY <1>1, <1>2
<1> QED
  BY <1>2, <1>3, <1>4, <1>5

----------------------------------------------------------------------------
(***************************************************************************)
(* Type correctness.                                                       *)
(***************************************************************************)
Outcomes == [ok : BOOLEAN, read : Nat \cup {NotRead}]
Effect == Tree(entries') /\ outcome' \in Outcomes

(* Ways to end an operation.                                               *)
LEMMA EndsWell ==
  ASSUME NEW e, Tree(e), NEW ok \in BOOLEAN, NEW n \in Nat \cup {NotRead},
         Ends(e, ok, n)
  PROVE  Effect
BY Zenon DEF Effect, Ends, Outcomes

LEMMA SucceedsWell ==
  ASSUME NEW e, Tree(e), Succeeds(e)
  PROVE  Effect
BY EndsWell DEF Succeeds

LEMMA FailsWell ==
  ASSUME Tree(entries), Fails
  PROVE  Effect
BY EndsWell DEF Fails

LEMMA IdleWell ==
  ASSUME TypeOK, Effect, Idle
  PROVE  TypeOK'
BY DEF TypeOK, Effect, Idle, Outcomes, Tree, OfKind

LEMMA CalledType ==
  ASSUME TypeOK, NEW ps
  PROVE  Called(ps) \in [Loaders -> {"unused", "added", "once", "again"}]
<1>1. ASSUME NEW l \in Loaders, NEW n
      PROVE  (CASE n = 0 -> loaderRuns[l]
                [] n = 1 /\ loaderRuns[l] = "added" -> "once"
                [] OTHER -> "again") \in {"unused", "added", "once", "again"}
  BY DEF TypeOK
<1> QED
  BY <1>1 DEF Called

LEMMA TargetsArePaths == Targets \subseteq Paths
BY PathsAssumption

LEMMA EntryAt ==
  ASSUME TypeOK, NEW p \in DOMAIN entries
  PROVE  /\ Tree(entries) /\ p \in Paths
         /\ WellFormed(entries[p]) /\ entries[p].size \in Nat
BY DEF TypeOK, Tree, WellFormed, Entry

LEMMA WriteFileType ==
  ASSUME TypeOK, NEW p \in Targets, NEW n \in Sizes, WriteFile(p, n)
  PROVE  TypeOK'
<1>1. n \in Nat /\ p \in Paths /\ Tree(entries)
  BY SizesAssumption, TargetsArePaths DEF TypeOK
<1>2. ASSUME NEW kind \in {"file", "fifo"}
      PROVE  Tree(With(entries, p, Plain(kind, n)))
  BY <1>1, PlainEntry, WithTree DEF Kinds
<1>3. Effect
  BY <1>1, <1>2, SucceedsWell, FailsWell DEF WriteFile
<1> QED
  BY <1>3, IdleWell DEF WriteFile

LEMMA AppendType ==
  ASSUME TypeOK, NEW p \in Targets, NEW n \in Sizes,
         AppendNew(p, n) \/ AppendOld(p, n)
  PROVE  TypeOK'
<1>1. n \in Nat /\ p \in Paths /\ Tree(entries)
  BY SizesAssumption, TargetsArePaths DEF TypeOK
<1>2. CASE AppendNew(p, n)
  <2>1. Tree(With(entries, p, Plain("file", n)))
    BY <1>1, PlainEntry, WithTree DEF Kinds
  <2>2. Effect
    BY <1>1, <1>2, <2>1, SucceedsWell, FailsWell DEF AppendNew
  <2> QED
    BY <1>2, <2>2, IdleWell DEF AppendNew
<1>3. CASE AppendOld(p, n)
  <2>1. PICK e : e = IF IsLazy(entries, p)
                     THEN With(entries, p, Loaded(entries[p])) ELSE entries
    OBVIOUS
  <2>2. p \in DOMAIN entries
    BY <1>3 DEF AppendOld, Counted, OfKind
  <2>3. Tree(e) /\ p \in DOMAIN e
    <3>1. PICK x : x = Loaded(entries[p])
      OBVIOUS
    <3>2. WellFormed(x)
      BY <2>2, <3>1, EntryAt, LoadedEntry
    <3>3. Tree(With(entries, p, x))
      BY <1>1, <3>2, WithTree
    <3>4. p \in DOMAIN With(entries, p, x)
      BY DEF With
    <3> QED
      BY <1>1, <2>1, <2>2, <3>1, <3>3, <3>4
  <2>4. WellFormed(e[p])
    BY <2>3 DEF Tree
  <2>5. Tree([e EXCEPT ![p].size = @ + n])
    <3>1. [e[p] EXCEPT !.size = @ + n].kind = e[p].kind
      BY <2>4 DEF WellFormed, Entry
    <3>2. e[p].size + n \in Nat
      BY <1>1, <2>4 DEF WellFormed, Entry
    <3>3. WellFormed([e[p] EXCEPT !.size = @ + n])
      <4>1. [e[p] EXCEPT !.size = @ + n] \in Entry
        BY <2>4, <3>2, Zenon DEF WellFormed, Entry
      <4>2. /\ [e[p] EXCEPT !.size = @ + n].kind = e[p].kind
            /\ [e[p] EXCEPT !.size = @ + n].loader = e[p].loader
        BY <2>4 DEF WellFormed, Entry
      <4>3. e[p].kind \notin {"dir", "symlink"}
        BY <2>1, <1>3 DEF AppendOld, Counted, OfKind, With, Loaded, Plain
      <4> QED
        BY <2>4, <4>1, <4>2, <4>3, Zenon DEF WellFormed
    <3>4. [e EXCEPT ![p].size = @ + n] = [e EXCEPT ![p] = [e[p] EXCEPT !.size = @ + n]]
      BY <2>3
    <3> HIDE DEF Tree
    <3> QED
      BY <2>3, <3>3, <3>4 DEF Tree
  <2>6. Effect
    BY <1>3, <2>1, <2>3, <2>5, EndsWell, SucceedsWell DEF AppendOld
  <2>7. loaderRuns' \in [Loaders -> {"unused", "added", "once", "again"}]
    BY <1>3, CalledType DEF AppendOld, TypeOK
  <2> QED
    BY <1>3, <2>6, <2>7 DEF AppendOld, TypeOK, Effect, Outcomes, Tree, OfKind
<1> QED
  BY <1>2, <1>3

LEMMA MakeType ==
  ASSUME TypeOK, NEW p \in Targets,
         Mkdir(p) \/ MkdirAll(p) \/ Symlink(p) \/ Mkfifo(p) \/ AppendElsewhere(p)
  PROVE  TypeOK'
<1>1. p \in Paths /\ Tree(entries)
  BY TargetsArePaths DEF TypeOK
<1>2. CASE Mkdir(p)
  <2>1. Tree(With(entries, p, Directory))
    BY <1>1, DirectoryEntry, WithTree
  <2>2. Effect
    BY <1>1, <1>2, <2>1, SucceedsWell, FailsWell DEF Mkdir
  <2> QED
    BY <1>2, <2>2, IdleWell DEF Mkdir
<1>3. CASE MkdirAll(p)
  <2> DEFINE chain == Ancestors(p) \cup ({p} \ {<<>>})
             blocked == chain \cap NonDirs(entries)
             missing == {q \in chain \ DOMAIN entries :
                           \A b \in blocked : ~IsPrefix(b, q)}
             before(q) == {r \in missing : Len(r) < Len(q)}
             made == {q \in missing :
                        RoomForDir(Cardinality(OfKind(entries, {"dir"}))
                                   + Cardinality(before(q)))}
             all == blocked = {} /\ made = missing
  <2>1. made \subseteq Paths
    BY <1>1 DEF Ancestors
  <2>2. Ends(WithDirs(entries, made), all, NotRead)
    BY <1>3, Zenon DEF MkdirAll
  <2>3. all \in BOOLEAN
    OBVIOUS
  <2> HIDE DEF made, all
  <2>4. Tree(WithDirs(entries, made))
    BY <1>1, <2>1, DirsTree
  <2>5. Effect
    BY <2>2, <2>3, <2>4, EndsWell, Zenon
  <2> QED
    BY <1>3, <2>5, IdleWell DEF MkdirAll
<1>4. CASE Symlink(p)
  <2>1. Tree(With(entries, p, Plain("symlink", 0)))
    BY <1>1, PlainEntry, WithTree DEF Kinds
  <2>2. Effect
    BY <1>1, <1>4, <2>1, SucceedsWell, FailsWell DEF Symlink
  <2> QED
    BY <1>4, <2>2, IdleWell DEF Symlink
<1>5. CASE Mkfifo(p)
  <2>1. Tree(With(entries, p, Plain("fifo", 0)))
    BY <1>1, PlainEntry, WithTree DEF Kinds
  <2>2. Effect
    BY <1>1, <1>5, <2>1, SucceedsWell, FailsWell DEF Mkfifo
  <2> QED
    BY <1>5, <2>2, IdleWell DEF Mkfifo
<1>6. CASE AppendElsewhere(p)
  BY <1>1, <1>6, FailsWell, IdleWell DEF AppendElsewhere
<1> QED
  BY <1>2, <1>3, <1>4, <1>5, <1>6

LEMMA RemoveType ==
  ASSUME TypeOK, NEW p \in Targets, NEW recursive \in BOOLEAN, RemovePath(p, recursive)
  PROVE  TypeOK'
<1>1. Tree(entries)
  BY DEF TypeOK
<1>2. \A ps : Tree(Without(entries, ps))
  BY <1>1, WithoutTree
<1>3. Effect
  BY <1>1, <1>2, SucceedsWell, FailsWell DEF RemovePath
<1> QED
  BY <1>3, IdleWell DEF RemovePath

LEMMA RenameCopyType ==
  ASSUME TypeOK, NEW from \in Targets, NEW to \in Targets,
         Rename(from, to) \/ Copy(from, to)
  PROVE  TypeOK'
<1>1. to \in Paths /\ Tree(entries)
  BY TargetsArePaths DEF TypeOK
<1>2. CASE Rename(from, to)
  <2>1. PICK others : others = Without(entries, {from})
    OBVIOUS
  <2>2. Tree(others)
    BY <1>1, <2>1, WithoutTree
  <2>3. ASSUME from \in DOMAIN entries
        PROVE  Tree(With(others, to, entries[from]))
    BY <1>1, <2>2, <2>3, EntryAt, WithTree
  <2>4. Effect
    BY <1>1, <1>2, <2>1, <2>3, EndsWell, SucceedsWell, FailsWell DEF Rename, PutBack
  <2> QED
    BY <1>2, <2>4, IdleWell DEF Rename
<1>3. CASE Copy(from, to)
  <2>1. ASSUME from \in DOMAIN entries
        PROVE  Tree(With(entries, to, entries[from]))
    BY <1>1, <2>1, EntryAt, WithTree
  <2>2. Effect
    BY <1>1, <1>3, <2>1, SucceedsWell, FailsWell DEF Copy
  <2> QED
    BY <1>3, <2>2, IdleWell DEF Copy
<1> QED
  BY <1>2, <1>3

LEMMA AddType ==
  ASSUME TypeOK, NEW p \in Targets,
         \/ \E n \in Sizes : AddFile(p, n)
         \/ \E l \in Loaders : AddLazyFile(p, l)
  PROVE  TypeOK'
<1>1. p \in Paths /\ Tree(entries)
  BY TargetsArePaths DEF TypeOK
<1>2. ASSUME NEW n \in Sizes, AddFile(p, n)
      PROVE  TypeOK'
  <2>1. n \in Nat
    BY SizesAssumption
  <2>2. Tree(WithAncestors(p, Plain("file", n)))
    BY <1>1, <2>1, PlainEntry, WithAncestorsTree DEF Kinds
  <2>3. Effect
    BY <1>1, <1>2, <2>2, SucceedsWell, FailsWell DEF AddFile
  <2> QED
    BY <1>2, <2>3, IdleWell DEF AddFile
<1>3. ASSUME NEW l \in Loaders, AddLazyFile(p, l)
      PROVE  TypeOK'
  <2>1. Tree(WithAncestors(p, LazyFile(l)))
    BY <1>1, LazyEntry, WithAncestorsTree
  <2>2. Effect
    BY <1>1, <1>3, <2>1, SucceedsWell, FailsWell DEF AddLazyFile
  <2>3. loaderRuns' \in [Loaders -> {"unused", "added", "once", "again"}]
    BY <1>3 DEF AddLazyFile, TypeOK
  <2> QED
    BY <1>3, <2>2, <2>3 DEF AddLazyFile, TypeOK, Effect, Outcomes, Tree, OfKind
<1> QED
  BY <1>2, <1>3

LEMMA ReadFileType ==
  ASSUME TypeOK, NEW r \in Readers, NEW p \in Targets, ReadFile(r, p)
  PROVE  TypeOK'
<1>1. Tree(entries) /\ p \in Paths
  BY TargetsArePaths DEF TypeOK
<1>2. Effect
  <2>1. CASE IsLazy(entries, p)
    BY <1>1, <2>1 DEF ReadFile, Effect, TypeOK, Outcomes
  <2>2. CASE ~IsLazy(entries, p)
    BY <1>1, <2>2, SucceedsWell, FailsWell DEF ReadFile
  <2> QED
    BY <2>1, <2>2
<1>3. pending' \in [Readers -> Paths \cup {NoPath}]
  BY <1>1 DEF ReadFile, TypeOK
<1> QED
  BY <1>2, <1>3 DEF ReadFile, TypeOK, Effect, Outcomes, Tree, OfKind

LEMMA ReadLazyType ==
  ASSUME TypeOK, NEW r \in Readers, ReadLazy(r)
  PROVE  TypeOK'
<1>1. PICK p : p = pending[r]
  OBVIOUS
<1>2. Tree(entries) /\ p \in Paths
  BY <1>1 DEF ReadLazy, TypeOK
<1>3. Effect
  <2>1. CASE StillLazy(entries, p)
    <3>1. PICK x : x = Loaded(entries[p])
      OBVIOUS
    <3>2. p \in DOMAIN entries
      BY <2>1 DEF StillLazy, IsLazy, OfKind
    <3>3. WellFormed(x)
      BY <3>1, <3>2, EntryAt, LoadedEntry
    <3>4. Tree(With(entries, p, x))
      BY <1>2, <3>3, WithTree
    <3>5. x.size \in Nat
      BY <3>3 DEF WellFormed, Entry
    <3>6. \/ Ends(With(entries, p, x), TRUE, x.size)
          \/ Ends(PutBack(entries, p), FALSE, NotRead)
      BY <1>1, <2>1, <3>1 DEF ReadLazy
    <3> QED
      BY <1>2, <3>4, <3>5, <3>6, EndsWell DEF PutBack
  <2>2. CASE ~StillLazy(entries, p)
    <3>1. Readable(entries, p) => entries[p].size \in Nat
      BY EntryAt DEF Readable, OfKind
    <3>2. \/ Readable(entries, p) /\ Ends(entries, TRUE, entries[p].size)
          \/ Fails
      BY <1>1, <2>2 DEF ReadLazy
    <3> QED
      BY <1>2, <3>1, <3>2, EndsWell, FailsWell
  <2> QED
    BY <2>1, <2>2
<1>4. pending' \in [Readers -> Paths \cup {NoPath}]
  BY DEF ReadLazy, TypeOK
<1>5. loaderRuns' \in [Loaders -> {"unused", "added", "once", "again"}]
  <2>1. loaderRuns' = loaderRuns \/ loaderRuns' = Called({p})
    BY <1>1 DEF ReadLazy
  <2>2. Called({p}) \in [Loaders -> {"unused", "added", "once", "again"}]
    BY CalledType
  <2>3. loaderRuns \in [Loaders -> {"unused", "added", "once", "again"}]
    BY DEF TypeOK
  <2> QED
    BY <2>1, <2>2, <2>3, Zenon
<1> QED
  BY <1>3, <1>4, <1>5 DEF ReadLazy, TypeOK, Effect, Outcomes, Tree, OfKind

LEMMA SnapshotType ==
  ASSUME TypeOK, Snapshot
  PROVE  TypeOK'
<1>1. PICK e : e = Contents(entries)
  OBVIOUS
<1>2. /\ Tree(e) /\ DOMAIN e = DOMAIN entries
      /\ \A q \in DOMAIN e : e[q].kind # "lazy"
  BY <1>1, ContentsTree DEF TypeOK
<1>3. Effect
  BY <1>1, <1>2, SucceedsWell, Zenon DEF Snapshot
<1>4. Tree(saved') /\ OfKind(saved', {"lazy"}) = {}
  <2>1. saved' = Captured(e)
    BY <1>1 DEF Snapshot
  <2>2. /\ Tree(Captured(e))
        /\ DOMAIN Captured(e) = DOMAIN e
        /\ \A q \in DOMAIN e : Captured(e)[q].kind = e[q].kind
    BY <1>2, CapturedTree
  <2> QED
    BY <1>2, <2>1, <2>2 DEF OfKind
<1>5. DOMAIN kept' \subseteq Paths
  BY DEF Snapshot, Remembered, TypeOK, Tree
<1>6. loaderRuns' \in [Loaders -> {"unused", "added", "once", "again"}]
  BY CalledType DEF Snapshot
<1> QED
  BY <1>3, <1>4, <1>5, <1>6 DEF Snapshot, TypeOK, Effect, Outcomes, Tree, OfKind

LEMMA RestoreType ==
  ASSUME TypeOK, Restore
  PROVE  TypeOK'
<1>1. Effect
  BY SucceedsWell, FailsWell DEF Restore, TypeOK
<1> QED
  BY <1>1, IdleWell DEF Restore

(* Every variable keeps its type, for all paths, contents and limits: in   *)
(* particular no step leaves a lazy file in a snapshot, or an entry whose  *)
(* loader is gone (TypeOK of the model-checked runs).                      *)
THEOREM TypeCorrect == Spec => []TypeOK
<1>1. Init => TypeOK
  <2> SUFFICES ASSUME Init PROVE TypeOK
    OBVIOUS
  <2>1. Tree(entries)
    BY DirectoryEntry, PathsAssumption DEF Init, Tree
  <2> QED
    BY <2>1 DEF Init, TypeOK
<1>2. TypeOK /\ [Next]_vars => TypeOK'
  <2> SUFFICES ASSUME TypeOK, [Next]_vars
               PROVE  TypeOK'
    OBVIOUS
  <2>1. CASE UNCHANGED vars
    BY <2>1 DEF vars, TypeOK, Tree, OfKind
  <2>2. CASE Next
    BY <2>2, WriteFileType, AppendType, MakeType, RemoveType, RenameCopyType,
       AddType, ReadFileType, ReadLazyType, SnapshotType, RestoreType DEF Next
  <2> QED
    BY <2>1, <2>2
<1> QED
  BY <1>1, <1>2, PTL DEF Spec

----------------------------------------------------------------------------
(***************************************************************************)
(* The limit on the number of files.                                       *)
(***************************************************************************)

(* A snapshot taken within the limit stays within it until it is restored: *)
(* restore counts regular files only, so the fifos' share must come from   *)
(* the tree the snapshot was taken of.                                     *)
SavedWithinLimit ==
  saved # NoSnapshot => Cardinality(Counted(saved)) <= MaxFileCount

CountInv == TypeOK /\ FilesWithinLimit /\ SavedWithinLimit

CountedNow == Cardinality(Counted(entries')) <= MaxFileCount

LEMMA CountedFinite ==
  ASSUME NEW e, Tree(e)
  PROVE  /\ IsFiniteSet(Counted(e)) /\ Cardinality(Counted(e)) \in Nat
         /\ \A s \in SUBSET Counted(e) : Cardinality(s) \in Nat
                                          /\ Cardinality(s) <= Cardinality(Counted(e))
<1>1. IsFiniteSet(Counted(e))
  BY PathsAssumption, FS_Subset DEF Counted, OfKind, Tree
<1> QED
  BY <1>1, FS_Subset, FS_CardinalityType

(* Files that were counted before are still few enough.                    *)
LEMMA FewerFiles ==
  ASSUME CountInv, Counted(entries') \subseteq Counted(entries)
  PROVE  CountedNow
BY CountedFinite, LimitsAssumption DEF CountInv, FilesWithinLimit, TypeOK, CountedNow

(* Setting one path to anything, where there is a file or room for one.    *)
LEMMA OneMoreFile ==
  ASSUME CountInv, NEW p,
         p \in Counted(entries) \/ Cardinality(Counted(entries)) < MaxFileCount,
         Counted(entries') \subseteq Counted(entries) \cup {p}
  PROVE  CountedNow
<1>1. CASE p \in Counted(entries)
  BY <1>1, FewerFiles
<1>2. CASE Cardinality(Counted(entries)) < MaxFileCount
  <2> DEFINE c == Counted(entries)
  <2>1. IsFiniteSet(c) /\ Cardinality(c) \in Nat
    BY CountedFinite DEF CountInv, TypeOK
  <2>2. IsFiniteSet(c \cup {p}) /\ Cardinality(c \cup {p}) <= Cardinality(c) + 1
    <3> HIDE DEF c
    <3> QED
      BY <2>1, FS_AddElement
  <2>3. Cardinality(Counted(entries')) <= Cardinality(c \cup {p})
    BY <2>2, FS_Subset
  <2>4. Cardinality(Counted(entries')) \in Nat /\ Cardinality(c \cup {p}) \in Nat
    BY <2>2, FS_Subset, FS_CardinalityType
  <2> QED
    BY <1>2, <2>1, <2>2, <2>3, <2>4, LimitsAssumption DEF CountedNow
<1> QED
  BY <1>1, <1>2

LEMMA WithCounted ==
  ASSUME NEW e, NEW p, NEW x
  PROVE  /\ Counted(With(e, p, x)) \subseteq Counted(e) \cup {p}
         /\ x.kind \notin {"file", "lazy", "fifo"} =>
              Counted(With(e, p, x)) \subseteq Counted(e)
BY DEF With, Counted, OfKind

LEMMA WithoutCounted ==
  ASSUME NEW e, NEW ps
  PROVE  Counted(Without(e, ps)) = Counted(e) \ ps
BY DEF Without, Restrict, Counted, OfKind

LEMMA WithDirsCounted ==
  ASSUME NEW e, NEW ps
  PROVE  Counted(WithDirs(e, ps)) = Counted(e)
BY DirectoryEntry DEF WithDirs, Counted, OfKind

LEMMA ContentsCounted ==
  ASSUME NEW e, Tree(e)
  PROVE  Counted(Contents(e)) = Counted(e)
BY ContentsTree DEF Counted, OfKind

(* rename takes the source's count with it.                                *)
LEMMA RenameCount ==
  ASSUME CountInv, NEW from \in DOMAIN entries, NEW to,
         entries' = With(Without(entries, {from}), to, entries[from])
  PROVE  CountedNow
<1> DEFINE c == Counted(entries)
<1>1. CASE from \in c
  <2>1. Counted(entries') \subseteq (c \ {from}) \cup {to}
    BY WithCounted, WithoutCounted
  <2>2. IsFiniteSet(c) /\ Cardinality(c) \in Nat
    BY CountedFinite DEF CountInv, TypeOK
  <2>3. IsFiniteSet(c \ {from}) /\ Cardinality(c \ {from}) = Cardinality(c) - 1
    BY <1>1, <2>2, FS_RemoveElement
  <2>4. /\ IsFiniteSet((c \ {from}) \cup {to})
        /\ Cardinality((c \ {from}) \cup {to}) <= Cardinality(c \ {from}) + 1
    BY <2>2, <2>3, FS_AddElement
  <2>5. /\ Cardinality(Counted(entries')) <= Cardinality((c \ {from}) \cup {to})
        /\ Cardinality(Counted(entries')) \in Nat
        /\ Cardinality((c \ {from}) \cup {to}) \in Nat
    BY <2>1, <2>4, FS_Subset, FS_CardinalityType
  <2> QED
    BY <2>2, <2>3, <2>4, <2>5, LimitsAssumption
       DEF CountInv, FilesWithinLimit, CountedNow
<1>2. CASE from \notin c
  <2>1. entries[from].kind \notin {"file", "lazy", "fifo"}
    BY <1>2 DEF Counted, OfKind
  <2>2. Counted(entries') \subseteq c
    BY <2>1, WithCounted, WithoutCounted
  <2> QED
    BY <2>2, FewerFiles
<1> QED
  BY <1>1, <1>2

LEMMA WriteCount ==
  ASSUME CountInv, NEW p, NEW n, NEW x, WriteAllowed(entries, p, n)
  PROVE  /\ entries' = With(entries, p, x) => CountedNow
         /\ entries' = WithAncestors(p, x) => CountedNow
<1>1. p \in Counted(entries) \/ Cardinality(Counted(entries)) < MaxFileCount
  BY DEF WriteAllowed, RoomForFile
<1>2. ASSUME entries' = With(entries, p, x)
      PROVE  CountedNow
  BY <1>1, <1>2, WithCounted, OneMoreFile
<1>3. ASSUME entries' = WithAncestors(p, x)
      PROVE  CountedNow
  <2>1. PICK d : d = WithDirs(entries, Ancestors(p))
    OBVIOUS
  <2>2. Counted(d) = Counted(entries)
    BY <2>1, WithDirsCounted
  <2>3. entries' = With(d, p, x)
    BY <1>3, <2>1 DEF WithAncestors
  <2>4. Counted(entries') \subseteq Counted(entries) \cup {p}
    BY <2>2, <2>3, WithCounted
  <2> QED
    BY <1>1, <2>4, OneMoreFile
<1> QED
  BY <1>2, <1>3

LEMMA SameCount ==
  ASSUME CountInv, entries' = entries
  PROVE  CountedNow
BY FewerFiles

LEMMA CountStep ==
  ASSUME CountInv, Next
  PROVE  CountedNow
<1> USE DEF Succeeds, Fails, Ends
<1>1. ASSUME NEW p \in Targets, NEW n \in Sizes,
             WriteFile(p, n) \/ AppendNew(p, n) \/ AddFile(p, n)
      PROVE  CountedNow
  BY <1>1, WriteCount, SameCount DEF WriteFile, AppendNew, AddFile
<1>2. ASSUME NEW p \in Targets, NEW n \in Sizes, AppendOld(p, n)
      PROVE  CountedNow
  <2>1. PICK e : e = IF IsLazy(entries, p)
                     THEN With(entries, p, Loaded(entries[p])) ELSE entries
    OBVIOUS
  <2>2. p \in Counted(entries)
    BY <1>2 DEF AppendOld
  <2>3. Counted(e) \subseteq Counted(entries) \cup {p}
    BY <2>1, WithCounted
  <2>4. entries' = e \/ entries' = [e EXCEPT ![p].size = @ + n]
    BY <1>2, <2>1 DEF AppendOld
  <2>5. Counted([e EXCEPT ![p].size = @ + n]) \subseteq Counted(e) \cup {p}
    BY DEF Counted, OfKind
  <2> QED
    BY <2>2, <2>3, <2>4, <2>5, FewerFiles
<1>3. ASSUME NEW p \in Targets, AppendElsewhere(p) \/ Mkdir(p) \/ Symlink(p)
      PROVE  CountedNow
  <2>1. Directory.kind = "dir" /\ Plain("symlink", 0).kind = "symlink"
    BY DEF Directory, Plain
  <2>2. \/ entries' = entries
        \/ entries' = With(entries, p, Directory)
        \/ entries' = With(entries, p, Plain("symlink", 0))
    BY <1>3 DEF AppendElsewhere, Mkdir, Symlink
  <2>3. Counted(entries') \subseteq Counted(entries)
    BY <2>1, <2>2, WithCounted
  <2> QED
    BY <2>3, FewerFiles
<1>4. ASSUME NEW p \in Targets, MkdirAll(p)
      PROVE  CountedNow
  <2>1. PICK ps : entries' = WithDirs(entries, ps)
    BY <1>4 DEF MkdirAll
  <2>2. Counted(entries') \subseteq Counted(entries)
    BY <2>1, WithDirsCounted
  <2> QED
    BY <2>2, FewerFiles
<1>5. ASSUME NEW p \in Targets, Mkfifo(p)
      PROVE  CountedNow
  <2>1. CASE Fails
    BY <2>1, SameCount
  <2>2. CASE Succeeds(With(entries, p, Plain("fifo", 0)))
             /\ RoomForFile(Cardinality(NonDirs(entries)))
    <3>1. Counted(entries) \subseteq NonDirs(entries)
      BY DEF Counted, NonDirs, OfKind, Kinds
    <3>2. IsFiniteSet(NonDirs(entries))
      BY PathsAssumption, FS_Subset DEF NonDirs, OfKind, CountInv, TypeOK, Tree
    <3>3. /\ Cardinality(Counted(entries)) <= Cardinality(NonDirs(entries))
          /\ Cardinality(Counted(entries)) \in Nat
          /\ Cardinality(NonDirs(entries)) \in Nat
      BY <3>1, <3>2, FS_Subset, FS_CardinalityType
    <3>4. Cardinality(Counted(entries)) < MaxFileCount
      BY <2>2, <3>3, LimitsAssumption DEF RoomForFile
    <3> QED
      BY <2>2, <3>4, WithCounted, OneMoreFile
  <2> QED
    BY <1>5, <2>1, <2>2 DEF Mkfifo
<1>6. ASSUME NEW p \in Targets, NEW recursive \in BOOLEAN, RemovePath(p, recursive)
      PROVE  CountedNow
  <2>1. entries' = entries \/ \E ps : entries' = Without(entries, ps)
    BY <1>6 DEF RemovePath
  <2>2. Counted(entries') \subseteq Counted(entries)
    BY <2>1, WithoutCounted
  <2> QED
    BY <2>2, FewerFiles
<1>7. ASSUME NEW from \in Targets, NEW to \in Targets, Rename(from, to)
      PROVE  CountedNow
  BY <1>7, RenameCount, SameCount DEF Rename, PutBack
<1>8. ASSUME NEW from \in Targets, NEW to \in Targets, Copy(from, to)
      PROVE  CountedNow
  BY <1>8, WriteCount, SameCount DEF Copy
<1>9. ASSUME NEW p \in Targets, NEW l \in Loaders, AddLazyFile(p, l)
      PROVE  CountedNow
  BY <1>9, WriteCount, SameCount DEF AddLazyFile
<1>10. ASSUME NEW r \in Readers, NEW p \in Targets, ReadFile(r, p)
       PROVE  CountedNow
  BY <1>10, SameCount DEF ReadFile
<1>11. ASSUME NEW r \in Readers, ReadLazy(r)
       PROVE  CountedNow
  <2>1. PICK p : p = pending[r]
    OBVIOUS
  <2>2. CASE entries' = entries
    BY <2>2, SameCount
  <2>3. CASE IsLazy(entries, p) /\ entries' = With(entries, p, Loaded(entries[p]))
    <3>1. p \in Counted(entries)
      BY <2>3 DEF IsLazy, Counted, OfKind
    <3> QED
      BY <2>3, <3>1, WithCounted, OneMoreFile
  <2> QED
    BY <1>11, <2>1, <2>2, <2>3 DEF ReadLazy, StillLazy, PutBack
<1>12. CASE Snapshot
  <2>1. Counted(entries') \subseteq Counted(entries)
    BY <1>12, ContentsCounted DEF Snapshot, CountInv, TypeOK
  <2> QED
    BY <2>1, FewerFiles
<1>13. CASE Restore
  BY <1>13, SameCount DEF Restore, CountInv, SavedWithinLimit, CountedNow
<1> QED
  BY <1>1, <1>2, <1>3, <1>4, <1>5, <1>6, <1>7, <1>8, <1>9, <1>10, <1>11,
     <1>12, <1>13 DEF Next

LEMMA SavedStep ==
  ASSUME CountInv, Next
  PROVE  SavedWithinLimit'
<1>1. CASE Snapshot
  <2>1. PICK e : e = Contents(entries)
    OBVIOUS
  <2>2. Tree(e) /\ Counted(e) = Counted(entries)
    BY <2>1, ContentsTree, ContentsCounted DEF CountInv, TypeOK
  <2>3. Counted(Captured(e)) = Counted(e)
    BY <2>2, CapturedTree DEF Counted, OfKind
  <2>4. saved' = Captured(e)
    BY <1>1, <2>1 DEF Snapshot
  <2> QED
    BY <2>2, <2>3, <2>4 DEF SavedWithinLimit, CountInv, FilesWithinLimit
<1>2. CASE ~Snapshot
  <2>1. saved' = saved
    BY <1>2 DEF Next, WriteFile, AppendNew, AppendOld, AddFile, AppendElsewhere,
       Mkdir, MkdirAll, Symlink, Mkfifo, RemovePath, Rename, Copy, AddLazyFile,
       ReadFile, ReadLazy, Restore, Idle
  <2> QED
    BY <2>1 DEF SavedWithinLimit, CountInv
<1> QED
  BY <1>1, <1>2

(* FilesWithinLimit for every file system: whatever is written, copied     *)
(* over, renamed, loaded or restored, files, lazy files and fifos together *)
(* never exceed max_file_count.                                            *)
THEOREM CountTheorem == Spec => []FilesWithinLimit
<1>1. Init => FilesWithinLimit /\ SavedWithinLimit
  <2> SUFFICES ASSUME Init PROVE FilesWithinLimit /\ SavedWithinLimit
    OBVIOUS
  <2>1. Counted(entries) = {}
    BY DirectoryEntry DEF Init, Counted, OfKind
  <2> QED
    BY <2>1, FS_EmptySet, LimitsAssumption DEF Init, FilesWithinLimit, SavedWithinLimit
<1>2. TypeOK /\ TypeOK' /\ FilesWithinLimit /\ SavedWithinLimit /\ [Next]_vars
        => FilesWithinLimit' /\ SavedWithinLimit'
  <2> SUFFICES ASSUME CountInv, [Next]_vars
               PROVE  FilesWithinLimit' /\ SavedWithinLimit'
    BY DEF CountInv
  <2>1. CASE UNCHANGED vars
    BY <2>1 DEF vars, CountInv, FilesWithinLimit, SavedWithinLimit, Counted, OfKind
  <2>2. CASE Next
    BY <2>2, CountStep, SavedStep DEF CountedNow, FilesWithinLimit
  <2> QED
    BY <2>1, <2>2
<1> QED
  BY <1>1, <1>2, TypeCorrect, PTL DEF Spec

----------------------------------------------------------------------------
(***************************************************************************)
(* The limits on bytes.                                                    *)
(***************************************************************************)
NeverLazy == \A l \in Loaders : loaderRuns[l] = "unused"
Fits(e) == /\ Bytes(e, Counted(e)) <= MaxTotalBytes
           /\ \A p \in DOMAIN e : e[p].size <= MaxFileSize

(* A lazy entry is known to the history of its loader; what a snapshot     *)
(* holds of a fifo has no bytes, so that the files restore counts are all  *)
(* there is to count.                                                      *)
LazyIsAdded == \A p \in OfKind(entries, {"lazy"}) : loaderRuns[entries[p].loader] # "unused"
FifosAreEmpty == saved # NoSnapshot => \A p \in OfKind(saved, {"fifo"}) : saved[p].size = 0

BytesInv == TypeOK /\ LazyIsAdded /\ FifosAreEmpty /\ BytesWithinLimit

LEMMA SizeAt ==
  ASSUME NEW e, Tree(e), NEW p \in DOMAIN e
  PROVE  /\ WellFormed(e[p]) /\ e[p].size \in Nat
         /\ e[p].kind \in Kinds
         /\ e[p].kind \in {"dir", "symlink"} => e[p].size = 0
BY DEF Tree, WellFormed, Entry

LEMMA BytesType ==
  ASSUME NEW e, Tree(e), NEW ps, ps \subseteq Counted(e)
  PROVE  /\ Bytes(e, ps) \in Nat
         /\ IsFiniteSet(ps)
         /\ \A q \in ps : [p \in DOMAIN e |-> e[p].size][q] \in Nat
<1>1. IsFiniteSet(ps)
  BY CountedFinite, FS_Subset
<1>2. \A q \in ps : [p \in DOMAIN e |-> e[p].size][q] \in Nat
  BY SizeAt DEF Counted, OfKind
<1> QED BY <1>1, <1>2, SumNat DEF Bytes

(* Files that were there before, with the bytes they had, are no more.     *)
LEMMA BytesFewer ==
  ASSUME NEW e, Tree(e), NEW f, Tree(f), NEW s, NEW r, s \subseteq Counted(f), r \subseteq Counted(e),
         s \subseteq r, \A q \in s : f[q].size = e[q].size
  PROVE  Bytes(f, s) <= Bytes(e, r)
<1> DEFINE of(t) == [p \in DOMAIN t |-> t[p].size]
<1>1. \A q \in s : of(f)[q] = of(e)[q]
  BY DEF Counted, OfKind
<1>2. IsFiniteSet(s) /\ IsFiniteSet(r) /\ \A q \in r : of(e)[q] \in Nat
  BY BytesType
<1> HIDE DEF of
<1>3. SumFunctionOnSet(of(f), s) = SumFunctionOnSet(of(e), s)
  BY <1>1, <1>2, SumSame
<1>4. SumFunctionOnSet(of(e), s) <= SumFunctionOnSet(of(e), r)
  BY <1>2, SumMonotone
<1>5. Bytes(f, s) = SumFunctionOnSet(of(f), s) /\ Bytes(e, r) = SumFunctionOnSet(of(e), r)
  BY DEF Bytes, of
<1> QED BY <1>3, <1>4, <1>5

(* The bytes at one path apart.                                            *)
LEMMA BytesApart ==
  ASSUME NEW e, Tree(e), NEW p \in Counted(e)
  PROVE  Bytes(e, Counted(e)) = e[p].size + Bytes(e, Counted(e) \ {p})
<1> DEFINE f == [q \in DOMAIN e |-> e[q].size]
<1>1. IsFiniteSet(Counted(e)) /\ \A q \in Counted(e) : f[q] \in Nat
  BY BytesType
<1>2. f[p] = e[p].size
  BY DEF Counted, OfKind
<1> HIDE DEF f
<1>3. SumFunctionOnSet(f, Counted(e)) = f[p] + SumFunctionOnSet(f, Counted(e) \ {p})
  BY <1>1, SumRemove
<1> QED BY <1>2, <1>3 DEF Bytes, f

(* Only one path has changed, and holds n bytes now if it counts.          *)
LEMMA BytesSet ==
  ASSUME NEW e, Tree(e), NEW f, Tree(f), NEW p, NEW n \in Nat,
         Counted(f) \subseteq Counted(e) \cup {p},
         \A q \in Counted(f) : f[q].size = IF q = p THEN n ELSE e[q].size
  PROVE  Bytes(f, Counted(f)) <= Bytes(e, Counted(e) \ {p}) + n
<1>1. Bytes(f, Counted(f) \ {p}) <= Bytes(e, Counted(e) \ {p})
  BY BytesFewer
<1>2. /\ Bytes(f, Counted(f) \ {p}) \in Nat /\ Bytes(e, Counted(e) \ {p}) \in Nat
      /\ Bytes(f, Counted(f)) \in Nat
  BY BytesType
<1>3. CASE p \in Counted(f)
  <2>1. Bytes(f, Counted(f)) = n + Bytes(f, Counted(f) \ {p})
    BY <1>3, BytesApart
  <2> QED BY <1>1, <1>2, <2>1
<1>4. CASE p \notin Counted(f)
  <2>1. Counted(f) \ {p} = Counted(f)
    BY <1>4
  <2>2. Bytes(f, Counted(f)) = Bytes(f, Counted(f) \ {p})
    BY <2>1
  <2> QED BY <1>1, <1>2, <2>2
<1> QED BY <1>3, <1>4

(* Ways to keep the limits.                                                *)
LEMMA FewerFit ==
  ASSUME NEW e, Tree(e), Fits(e), NEW f, Tree(f), Counted(f) \subseteq Counted(e),
         \A q \in DOMAIN f : \/ q \in DOMAIN e /\ f[q].size = e[q].size
                             \/ q \notin Counted(f) /\ f[q].size = 0
  PROVE  Fits(f)
<1>1. \A q \in Counted(f) : f[q].size = e[q].size
  BY DEF Counted, OfKind
<1>2. Bytes(f, Counted(f)) <= Bytes(e, Counted(e))
  BY <1>1, BytesFewer
<1>3. Bytes(f, Counted(f)) \in Nat /\ Bytes(e, Counted(e)) \in Nat
  BY BytesType
<1>4. Bytes(f, Counted(f)) <= MaxTotalBytes
  BY <1>2, <1>3, LimitsAssumption DEF Fits
<1>5. \A q \in DOMAIN f : f[q].size <= MaxFileSize
  BY LimitsAssumption DEF Fits
<1> QED BY <1>4, <1>5 DEF Fits

LEMMA WithFits ==
  ASSUME NEW e, Tree(e), Fits(e), NEW p \in Paths, NEW x, WellFormed(x),
         x.size <= MaxFileSize,
         Bytes(e, Counted(e) \ {p}) + x.size <= MaxTotalBytes
  PROVE  Fits(With(e, p, x))
<1>1. PICK f : f = With(e, p, x)
  OBVIOUS
<1>2. /\ DOMAIN f = DOMAIN e \cup {p}
      /\ \A q \in DOMAIN f : f[q] = IF q = p THEN x ELSE e[q]
  BY <1>1 DEF With
<1>3. Tree(f) /\ Counted(f) \subseteq Counted(e) \cup {p}
  BY <1>1, WithTree, WithCounted
<1>4. \A q \in Counted(f) : f[q].size = IF q = p THEN x.size ELSE e[q].size
  BY <1>2 DEF Counted, OfKind
<1>5. x.size \in Nat
  BY DEF WellFormed, Entry
<1>6. Bytes(f, Counted(f)) <= Bytes(e, Counted(e) \ {p}) + x.size
  BY <1>3, <1>4, <1>5, BytesSet
<1>7. Bytes(f, Counted(f)) \in Nat /\ Bytes(e, Counted(e) \ {p}) \in Nat
  BY <1>3, BytesType
<1>8. Bytes(f, Counted(f)) <= MaxTotalBytes
  BY <1>5, <1>6, <1>7, LimitsAssumption
<1>9. \A q \in DOMAIN f : f[q].size <= MaxFileSize
  BY <1>2 DEF Fits
<1> QED BY <1>1, <1>8, <1>9 DEF Fits

(* What WriteAllowed allows.                                               *)
LEMMA WriteFits ==
  ASSUME NEW e, Tree(e), Fits(e), NEW p \in Paths, NEW x, WellFormed(x),
         WriteAllowed(e, p, x.size)
  PROVE  Fits(With(e, p, x))
BY WithFits DEF WriteAllowed

(* An entry without bytes.                                                 *)
LEMMA EmptyFits ==
  ASSUME NEW e, Tree(e), Fits(e), NEW p \in Paths, NEW x, WellFormed(x), x.size = 0
  PROVE  Fits(With(e, p, x))
<1>1. Bytes(e, Counted(e) \ {p}) <= Bytes(e, Counted(e))
  BY BytesFewer
<1>2. Bytes(e, Counted(e) \ {p}) \in Nat /\ Bytes(e, Counted(e)) \in Nat
  BY BytesType
<1>3. Bytes(e, Counted(e) \ {p}) + 0 <= MaxTotalBytes
  BY <1>1, <1>2, LimitsAssumption DEF Fits
<1> QED BY <1>3, WithFits, LimitsAssumption

LEMMA WithDirsFits ==
  ASSUME NEW e, Tree(e), Fits(e), NEW ps, ps \subseteq Paths
  PROVE  Fits(WithDirs(e, ps))
<1>1. PICK f : f = WithDirs(e, ps)
  OBVIOUS
<1>2. /\ Tree(f) /\ DOMAIN f = DOMAIN e \cup ps
      /\ \A q \in DOMAIN e : f[q] = e[q]
      /\ \A q \in ps \ DOMAIN e : f[q] = Directory
  BY <1>1, DirsTree
<1>3. Counted(f) = Counted(e)
  BY <1>1, WithDirsCounted
<1>4. Directory.size = 0
  BY DEF Directory, Plain
<1>5. \A q \in DOMAIN f : \/ q \in DOMAIN e /\ f[q].size = e[q].size
                          \/ q \notin Counted(f) /\ f[q].size = 0
  BY <1>2, <1>3, <1>4 DEF Counted, OfKind
<1> QED BY <1>1, <1>2, <1>3, <1>5, FewerFit

LEMMA WithoutFits ==
  ASSUME NEW e, Tree(e), Fits(e), NEW ps
  PROVE  Fits(Without(e, ps))
<1>1. PICK f : f = Without(e, ps)
  OBVIOUS
<1>2. /\ Tree(f) /\ DOMAIN f = DOMAIN e \ ps
      /\ \A q \in DOMAIN f : f[q] = e[q]
  BY <1>1, WithoutTree
<1>3. Counted(f) \subseteq Counted(e)
  BY <1>1, WithoutCounted
<1> QED BY <1>1, <1>2, <1>3, FewerFit

(* add_file: the directories above it hold no bytes.                       *)
LEMMA AddFits ==
  ASSUME TypeOK, Fits(entries), NEW p \in Paths, NEW x, WellFormed(x),
         WriteAllowed(entries, p, x.size)
  PROVE  Fits(WithAncestors(p, x))
<1>1. PICK d : d = WithDirs(entries, Ancestors(p))
  OBVIOUS
<1>2. Ancestors(p) \subseteq Paths /\ Tree(entries)
  BY DEF Ancestors, TypeOK
<1>3. Tree(d) /\ Fits(d) /\ Counted(d) = Counted(entries)
  BY <1>1, <1>2, DirsTree, WithDirsFits, WithDirsCounted
<1>4. \A q \in DOMAIN entries : d[q] = entries[q]
  BY <1>1, <1>2, DirsTree
<1>5. Bytes(d, Counted(d) \ {p}) <= Bytes(entries, Counted(entries) \ {p})
  BY <1>2, <1>3, <1>4, BytesFewer DEF Counted, OfKind
<1>6. /\ Bytes(d, Counted(d) \ {p}) \in Nat /\ Bytes(entries, Counted(entries) \ {p}) \in Nat
      /\ x.size \in Nat
  BY <1>2, <1>3, BytesType DEF WellFormed, Entry
<1>7. Bytes(d, Counted(d) \ {p}) + x.size <= MaxTotalBytes
  BY <1>5, <1>6, LimitsAssumption DEF WriteAllowed
<1>8. Fits(With(d, p, x))
  BY <1>3, <1>7, WithFits DEF WriteAllowed
<1> QED BY <1>1, <1>8 DEF WithAncestors

(* rename takes the bytes with it.                                         *)
LEMMA RenameFits ==
  ASSUME NEW e, Tree(e), Fits(e), NEW from \in DOMAIN e, NEW to \in Paths
  PROVE  Fits(With(Without(e, {from}), to, e[from]))
<1>1. PICK f : f = Without(e, {from})
  OBVIOUS
<1>2. /\ Tree(f) /\ Fits(f) /\ Counted(f) = Counted(e) \ {from}
      /\ \A q \in DOMAIN f : f[q] = e[q]
  <2>1. Tree(f) /\ DOMAIN f = DOMAIN e \ {from} /\ \A q \in DOMAIN e \ {from} : f[q] = e[q]
    BY <1>1, WithoutTree
  <2>2. Fits(f)
    BY <1>1, WithoutFits
  <2>3. Counted(f) = Counted(e) \ {from}
    BY <1>1, WithoutCounted
  <2> QED BY <2>1, <2>2, <2>3
<1>3. WellFormed(e[from]) /\ e[from].size \in Nat /\ e[from].kind \in Kinds
      /\ (e[from].kind \in {"dir", "symlink"} => e[from].size = 0)
  BY SizeAt
<1>4. CASE from \in Counted(e)
  <2>1. Bytes(f, Counted(f) \ {to}) <= Bytes(e, Counted(e) \ {from})
    BY <1>2, BytesFewer DEF Counted, OfKind
  <2>2. Bytes(e, Counted(e)) = e[from].size + Bytes(e, Counted(e) \ {from})
    BY <1>4, BytesApart
  <2>3. /\ Bytes(f, Counted(f) \ {to}) \in Nat /\ Bytes(e, Counted(e) \ {from}) \in Nat
        /\ Bytes(e, Counted(e)) \in Nat
    BY <1>2, BytesType
  <2>4. Bytes(f, Counted(f) \ {to}) + e[from].size <= MaxTotalBytes
    BY <1>3, <2>1, <2>2, <2>3, LimitsAssumption DEF Fits
  <2>5. e[from].size <= MaxFileSize
    BY DEF Fits
  <2> QED BY <1>1, <1>2, <1>3, <2>4, <2>5, WithFits
<1>5. CASE from \notin Counted(e)
  <2>1. e[from].size = 0
    BY <1>3, <1>5 DEF Counted, OfKind, Kinds
  <2> QED BY <1>1, <1>2, <1>3, <2>1, EmptyFits
<1> QED BY <1>4, <1>5

(* append_file, where nothing is lazy.                                     *)
LEMMA AppendFits ==
  ASSUME NEW e, Tree(e), Fits(e), OfKind(e, {"lazy"}) = {},
         NEW p \in Counted(e), NEW n \in Nat, AppendAllowed(e, p, n)
  PROVE  Fits([e EXCEPT ![p].size = @ + n])
<1>1. PICK f : f = [e EXCEPT ![p].size = @ + n]
  OBVIOUS
<1>2. p \in DOMAIN e /\ e[p].size \in Nat /\ WellFormed(e[p])
  BY SizeAt DEF Counted, OfKind
<1>3. /\ DOMAIN f = DOMAIN e /\ \A q \in DOMAIN e : q # p => f[q] = e[q]
      /\ f[p] = [e[p] EXCEPT !.size = @ + n]
  BY <1>1, <1>2
<1>4. f[p].size = e[p].size + n /\ f[p].kind = e[p].kind
  BY <1>2, <1>3 DEF WellFormed, Entry
<1>5. Counted(f) = Counted(e) /\ OfKind(e, {"file", "fifo"}) = Counted(e)
  BY <1>2, <1>3, <1>4 DEF Counted, OfKind
<1>6. Tree(f)
  <2>1. e[p].kind \in {"file", "fifo"}
    BY <1>5 DEF OfKind
  <2>0. e[p].size + n \in Nat
    BY <1>2
  <2>2. f[p] \in Entry
    BY <1>2, <1>3, <2>0, Zenon DEF WellFormed, Entry
  <2>3. WellFormed(f[p])
    BY <1>4, <2>1, <2>2 DEF WellFormed
  <2> QED BY <1>3, <2>3 DEF Tree
<1>7. Bytes(f, Counted(f)) = f[p].size + Bytes(f, Counted(f) \ {p})
  BY <1>5, <1>6, BytesApart
<1>8. Bytes(e, Counted(e)) = e[p].size + Bytes(e, Counted(e) \ {p})
  BY BytesApart
<1>9. Bytes(f, Counted(f) \ {p}) <= Bytes(e, Counted(e) \ {p})
  BY <1>3, <1>5, <1>6, BytesFewer DEF Counted, OfKind
<1>10. /\ Bytes(f, Counted(f) \ {p}) \in Nat /\ Bytes(e, Counted(e) \ {p}) \in Nat
       /\ Bytes(f, Counted(f)) \in Nat /\ Bytes(e, Counted(e)) \in Nat
  BY <1>6, BytesType
<1>11. Bytes(e, Counted(e)) + n <= MaxTotalBytes /\ e[p].size + n <= MaxFileSize
  BY <1>5 DEF AppendAllowed
<1>12. Bytes(f, Counted(f)) <= MaxTotalBytes
  BY <1>2, <1>4, <1>7, <1>8, <1>9, <1>10, <1>11, LimitsAssumption
<1>13. \A q \in DOMAIN f : f[q].size <= MaxFileSize
  BY <1>3, <1>4, <1>11 DEF Fits
<1> QED BY <1>1, <1>12, <1>13 DEF Fits

(* restore: fifos have no bytes in a snapshot.                             *)
LEMMA RestoreFits ==
  ASSUME NEW e, Tree(e), OfKind(e, {"lazy"}) = {},
         \A p \in OfKind(e, {"fifo"}) : e[p].size = 0, RestoreAllowed(e)
  PROVE  Fits(e)
<1> DEFINE files == OfKind(e, {"file"})
<1>1. \A p \in DOMAIN e : e[p].kind # "file" => e[p].size = 0
  BY SizeAt DEF OfKind, Kinds
<1>2. \A p \in DOMAIN e : e[p].size <= MaxFileSize
  BY <1>1, LimitsAssumption DEF RestoreAllowed, OfKind
<1>3. Bytes(e, Counted(e)) <= Bytes(e, files)
  <2> DEFINE of(t) == [p \in DOMAIN t |-> t[p].size]
             Bad == {s \in SUBSET Counted(e) :
                       files \subseteq s /\ ~(Bytes(e, s) <= Bytes(e, files))}
  <2>1. Bad \subseteq SUBSET Counted(e) /\ IsFiniteSet(Counted(e))
    BY BytesType
  <2>2. SUFFICES ASSUME Bad # {} PROVE FALSE
    BY DEF Counted, OfKind
  <2>3. PICK s \in Bad : \A u \in Bad : ~(u \subseteq s /\ u # s)
    <3> HIDE DEF Bad
    <3> QED BY <2>1, <2>2, Least
  <2>4. /\ s \subseteq Counted(e) /\ files \subseteq s /\ files \subseteq Counted(e)
        /\ ~(Bytes(e, s) <= Bytes(e, files))
    BY <2>3
  <2>5. Bytes(e, files) \in Nat
    BY <2>4, BytesType
  <2>6. PICK p \in s : p \notin files
    <3>1. s # files
      <4> SUFFICES ASSUME s = files PROVE FALSE
        OBVIOUS
      <4>1. Bytes(e, s) = Bytes(e, files)
        OBVIOUS
      <4> HIDE DEF files
      <4> QED BY <2>4, <2>5, <4>1
    <3> QED BY <2>4, <3>1
  <2>7. e[p].size = 0 /\ p \in DOMAIN e
    BY <1>1, <2>4, <2>6 DEF Counted, OfKind
  <2>8. Bytes(e, s) = e[p].size + Bytes(e, s \ {p})
    <3>1. IsFiniteSet(s) /\ \A q \in s : of(e)[q] \in Nat
      BY <2>4, BytesType
    <3>2. of(e)[p] = e[p].size
      BY <2>7
    <3> HIDE DEF of
    <3>3. SumFunctionOnSet(of(e), s) = of(e)[p] + SumFunctionOnSet(of(e), s \ {p})
      BY <2>6, <3>1, SumRemove
    <3> QED BY <3>2, <3>3 DEF Bytes, of
  <2>9. Bytes(e, s \ {p}) \in Nat
    BY <2>4, BytesType
  <2>10. s \ {p} \in Bad
    BY <2>4, <2>5, <2>6, <2>7, <2>8, <2>9
  <2> QED BY <2>3, <2>6, <2>10
<1>4. Bytes(e, files) <= MaxTotalBytes /\ Bytes(e, files) \in Nat /\ Bytes(e, Counted(e)) \in Nat
  BY BytesType DEF RestoreAllowed, Counted, OfKind
<1>5. Bytes(e, Counted(e)) <= MaxTotalBytes
  BY <1>3, <1>4, LimitsAssumption
<1> QED BY <1>2, <1>5 DEF Fits

----------------------------------------------------------------------------
(* A loader that was used stays used.                                      *)
LEMMA UsedStays ==
  ASSUME TypeOK, Next, NEW l \in Loaders, loaderRuns[l] # "unused"
  PROVE  loaderRuns'[l] # "unused"
<1>1. ASSUME NEW ps PROVE Called(ps)[l] # "unused"
  <2> DEFINE n == Cardinality({p \in ps : entries[p].loader = l})
  <2>1. Called(ps)[l] = CASE n = 0 -> loaderRuns[l]
                          [] n = 1 /\ loaderRuns[l] = "added" -> "once"
                          [] OTHER -> "again"
    BY DEF Called
  <2> HIDE DEF n
  <2> QED BY <2>1
<1>2. \/ loaderRuns' = loaderRuns
      \/ \E ps : loaderRuns' = Called(ps)
      \/ \E k \in Loaders : loaderRuns' = [loaderRuns EXCEPT ![k] = "added"]
  BY DEF Next, WriteFile, AppendNew, AppendOld, AddFile, AppendElsewhere,
     Mkdir, MkdirAll, Symlink, Mkfifo, RemovePath, Rename, Copy, AddLazyFile,
     ReadFile, ReadLazy, Restore, Snapshot, Idle
<1> QED BY <1>1, <1>2 DEF TypeOK

LEMMA LazyStep ==
  ASSUME TypeOK, LazyIsAdded, Next
  PROVE  LazyIsAdded'
<1> USE DEF Succeeds, Fails, Ends
<1> DEFINE Old(p) == /\ p \in OfKind(entries, {"lazy"})
                     /\ entries'[p].loader = entries[p].loader
           New(p) == loaderRuns'[entries'[p].loader] # "unused"
<1>0. \A p \in OfKind(entries, {"lazy"}) : entries[p].loader \in Loaders
  BY DEF OfKind, TypeOK, Tree, WellFormed
<1>1. SUFFICES ASSUME NEW q \in OfKind(entries', {"lazy"})
               PROVE  New(q) \/ \E p \in OfKind(entries, {"lazy"}) : entries'[q].loader = entries[p].loader
  BY <1>0, UsedStays DEF LazyIsAdded
<1>2. q \in DOMAIN entries' /\ entries'[q].kind = "lazy"
  BY DEF OfKind
<1>3. CASE entries' = entries
  BY <1>3
<1>4. ASSUME NEW e, NEW p, NEW x, entries' = With(e, p, x),
             \A r \in OfKind(e, {"lazy"}) : r \in OfKind(entries, {"lazy"}) /\ e[r] = entries[r],
             \/ x.kind # "lazy"
             \/ \E r \in OfKind(entries, {"lazy"}) : x = entries[r]
      PROVE  \E r \in OfKind(entries, {"lazy"}) : entries'[q].loader = entries[r].loader
  <2>1. entries'[q] = x \/ (q \in DOMAIN e /\ entries'[q] = e[q])
    BY <1>2, <1>4 DEF With
  <2> QED BY <1>2, <1>4, <2>1 DEF OfKind
<1>5. ASSUME NEW ps, entries' = WithDirs(entries, ps)
      PROVE  \E r \in OfKind(entries, {"lazy"}) : entries'[q].loader = entries[r].loader
  BY <1>2, <1>5, DirectoryEntry DEF WithDirs, OfKind
<1>6. ASSUME NEW ps, entries' = Without(entries, ps)
      PROVE  \E r \in OfKind(entries, {"lazy"}) : entries'[q].loader = entries[r].loader
  BY <1>2, <1>6 DEF Without, Restrict, OfKind
<1>7. \A kind, n : Plain(kind, n).kind = kind
  BY DEF Plain
<1>8. ASSUME NEW p \in Targets, NEW n \in Sizes, WriteFile(p, n) \/ AppendNew(p, n)
      PROVE  \E r \in OfKind(entries, {"lazy"}) : entries'[q].loader = entries[r].loader
  BY <1>3, <1>4, <1>7, <1>8 DEF WriteFile, AppendNew
<1>9. ASSUME NEW p \in Targets, NEW n \in Sizes, AppendOld(p, n)
      PROVE  \E r \in OfKind(entries, {"lazy"}) : entries'[q].loader = entries[r].loader
  <2>1. PICK e : e = IF IsLazy(entries, p)
                     THEN With(entries, p, Loaded(entries[p])) ELSE entries
    OBVIOUS
  <2>2. entries' = e \/ entries' = [e EXCEPT ![p].size = @ + n]
    BY <1>9, <2>1 DEF AppendOld
  <2>3. p \in DOMAIN entries /\ Loaded(entries[p]).kind # "lazy"
    BY <1>7, <1>9 DEF AppendOld, Counted, OfKind, Loaded
  <2>4. DOMAIN e = DOMAIN entries /\ \A r \in DOMAIN e : r # p => e[r] = entries[r]
    BY <2>1, <2>3 DEF With
  <2>5. e[p].kind # "lazy"
    BY <2>1, <2>3 DEF With, IsLazy, OfKind
  <2>6. DOMAIN entries' = DOMAIN e /\ \A r \in DOMAIN e : r # p => entries'[r] = e[r]
    BY <2>2
  <2>7. entries'[p] = e[p] \/ entries'[p] = [e[p] EXCEPT !.size = @ + n]
    BY <2>2, <2>3, <2>4
  <2>8. e[p] \in Entry
    BY <2>1, <2>3, EntryAt, LoadedEntry DEF With, WellFormed
  <2>9. entries'[p].kind # "lazy"
    BY <2>5, <2>7, <2>8 DEF Entry
  <2> QED BY <1>2, <2>4, <2>6, <2>9 DEF OfKind
<1>10. ASSUME NEW p \in Targets, NEW n \in Sizes, AddFile(p, n)
      PROVE  \E r \in OfKind(entries, {"lazy"}) : entries'[q].loader = entries[r].loader
  <2>1. CASE entries' = WithAncestors(p, Plain("file", n))
    <3>1. \A r \in OfKind(WithDirs(entries, Ancestors(p)), {"lazy"}) :
             r \in OfKind(entries, {"lazy"}) /\ WithDirs(entries, Ancestors(p))[r] = entries[r]
      BY DirectoryEntry DEF WithDirs, OfKind
    <3> QED BY <1>4, <1>7, <2>1, <3>1 DEF WithAncestors
  <2> QED BY <1>3, <1>10, <2>1 DEF AddFile
<1>11. ASSUME NEW p \in Targets,
             AppendElsewhere(p) \/ Mkdir(p) \/ Symlink(p) \/ Mkfifo(p)
      PROVE  \E r \in OfKind(entries, {"lazy"}) : entries'[q].loader = entries[r].loader
  BY <1>3, <1>4, <1>7, <1>11, DirectoryEntry DEF AppendElsewhere, Mkdir, Symlink, Mkfifo
<1>12. ASSUME NEW p \in Targets, MkdirAll(p)
      PROVE  \E r \in OfKind(entries, {"lazy"}) : entries'[q].loader = entries[r].loader
  BY <1>5, <1>12 DEF MkdirAll
<1>13. ASSUME NEW p \in Targets, NEW recursive \in BOOLEAN, RemovePath(p, recursive)
      PROVE  \E r \in OfKind(entries, {"lazy"}) : entries'[q].loader = entries[r].loader
  BY <1>3, <1>6, <1>13 DEF RemovePath
<1>14. ASSUME NEW from \in Targets, NEW to \in Targets, Rename(from, to)
      PROVE  \E r \in OfKind(entries, {"lazy"}) : entries'[q].loader = entries[r].loader
  <2>1. \A r \in OfKind(Without(entries, {from}), {"lazy"}) :
          r \in OfKind(entries, {"lazy"}) /\ Without(entries, {from})[r] = entries[r]
    BY DEF Without, Restrict, OfKind
  <2>2. from \in DOMAIN entries =>
          entries[from].kind # "lazy" \/ from \in OfKind(entries, {"lazy"})
    BY DEF OfKind
  <2> QED BY <1>3, <1>4, <1>14, <2>1, <2>2 DEF Rename, PutBack
<1>15. ASSUME NEW from \in Targets, NEW to \in Targets, Copy(from, to)
      PROVE  \E r \in OfKind(entries, {"lazy"}) : entries'[q].loader = entries[r].loader
  <2>2. from \in DOMAIN entries =>
          entries[from].kind # "lazy" \/ from \in OfKind(entries, {"lazy"})
    BY DEF OfKind
  <2> QED BY <1>3, <1>4, <1>15, <2>2 DEF Copy
<1>16. ASSUME NEW p \in Targets, NEW l \in Loaders, AddLazyFile(p, l)
      PROVE  New(q) \/ \E r \in OfKind(entries, {"lazy"}) : entries'[q].loader = entries[r].loader
  <2>1. CASE Fails
    BY <1>3, <2>1
  <2>2. CASE Succeeds(WithAncestors(p, LazyFile(l)))
             /\ loaderRuns' = [loaderRuns EXCEPT ![l] = "added"]
    <3>1. loaderRuns'[l] = "added"
      BY <2>2 DEF TypeOK
    <3>2. LazyFile(l).loader = l
      BY DEF LazyFile
    <3>3. entries'[q] = LazyFile(l) \/ (q \in DOMAIN entries /\ entries'[q] = entries[q])
      BY <1>2, <2>2, DirectoryEntry DEF WithAncestors, With, WithDirs
    <3> QED BY <1>2, <3>1, <3>2, <3>3 DEF OfKind
  <2> QED BY <1>16, <2>1, <2>2 DEF AddLazyFile
<1>17. ASSUME NEW r \in Readers, NEW p \in Targets, ReadFile(r, p)
      PROVE  \E p_1 \in OfKind(entries, {"lazy"}) : entries'[q].loader = entries[p_1].loader
  BY <1>3, <1>17 DEF ReadFile
<1>18. ASSUME NEW r \in Readers, ReadLazy(r)
      PROVE  \E p \in OfKind(entries, {"lazy"}) : entries'[q].loader = entries[p].loader
  <2>1. PICK p : p = pending[r]
    OBVIOUS
  <2>2. CASE entries' = With(entries, p, Loaded(entries[p]))
    BY <1>4, <1>7, <2>2 DEF Loaded
  <2> QED BY <1>3, <1>18, <2>1, <2>2 DEF ReadLazy, PutBack
<1>19. CASE Snapshot
  BY <1>2, <1>19, ContentsTree DEF Snapshot, TypeOK
<1>20. CASE Restore
  BY <1>2, <1>3, <1>20 DEF Restore, TypeOK, OfKind
<1> HIDE DEF New
<1> QED BY <1>8, <1>9, <1>10, <1>11, <1>12, <1>13, <1>14, <1>15, <1>16, <1>17, <1>18,
     <1>19, <1>20 DEF Next

LEMMA FifosStep ==
  ASSUME TypeOK, FifosAreEmpty, Next
  PROVE  FifosAreEmpty'
<1>1. CASE Snapshot
  <2>1. \A p \in DOMAIN entries :
          saved'[p] = IF Contents(entries)[p].kind = "fifo" THEN Plain("fifo", 0)
                      ELSE Contents(entries)[p]
    BY <1>1 DEF Snapshot, Captured, Contents
  <2>2. DOMAIN saved' = DOMAIN entries
    BY <1>1 DEF Snapshot, Captured, Contents
  <2> QED BY <2>1, <2>2 DEF FifosAreEmpty, OfKind, Plain
<1>2. CASE ~Snapshot
  <2>1. saved' = saved
    BY <1>2 DEF Next, WriteFile, AppendNew, AppendOld, AddFile, AppendElsewhere,
       Mkdir, MkdirAll, Symlink, Mkfifo, RemovePath, Rename, Copy, AddLazyFile,
       ReadFile, ReadLazy, Restore, Idle
  <2> QED BY <2>1 DEF FifosAreEmpty, OfKind
<1> QED BY <1>1, <1>2

(* Where no loader was ever used, every operation keeps the limits.        *)
LEMMA FitsStep ==
  ASSUME BytesInv, Next, NeverLazy, NeverLazy'
  PROVE  Fits(entries')
<1> USE DEF Succeeds, Fails, Ends
<1>1. TypeOK /\ Tree(entries) /\ Fits(entries) /\ Targets \subseteq Paths
  BY TargetsArePaths DEF BytesInv, BytesWithinLimit, NeverLazy, Fits, TypeOK
<1>2. OfKind(entries, {"lazy"}) = {}
  BY DEF BytesInv, LazyIsAdded, NeverLazy, OfKind, TypeOK, Tree, WellFormed
<1>3. \A n \in Sizes : n \in Nat
  BY SizesAssumption
<1>4. \A kind, n : Plain(kind, n).size = n
  BY DEF Plain
<1>5. Directory.size = 0
  BY <1>4 DEF Directory
<1>6. ASSUME NEW p \in Targets, NEW n \in Sizes, WriteFile(p, n)
      PROVE  Fits(entries')
  <2>1. ASSUME NEW kind \in {"file", "fifo"}, WriteAllowed(entries, p, n)
        PROVE  Fits(With(entries, p, Plain(kind, n)))
    <3>1. PICK x : x = Plain(kind, n)
      OBVIOUS
    <3>2. WellFormed(x) /\ x.size = n
      BY <1>3, <1>4, <3>1, PlainEntry DEF Kinds
    <3> QED BY <1>1, <2>1, <3>1, <3>2, WriteFits
  <2> QED BY <1>1, <1>6, <2>1 DEF WriteFile
<1>7. ASSUME NEW p \in Targets, NEW n \in Sizes, AppendNew(p, n) \/ AddFile(p, n)
      PROVE  Fits(entries')
  <2>1. PICK x : x = Plain("file", n)
    OBVIOUS
  <2>2. WellFormed(x) /\ x.size = n
    BY <1>3, <1>4, <2>1, PlainEntry DEF Kinds
  <2>3. ASSUME WriteAllowed(entries, p, n)
        PROVE  Fits(With(entries, p, x)) /\ Fits(WithAncestors(p, x))
    BY <1>1, <2>2, <2>3, WriteFits, AddFits
  <2> QED BY <1>1, <1>7, <2>1, <2>3 DEF AppendNew, AddFile
<1>8. ASSUME NEW p \in Targets, NEW n \in Sizes, AppendOld(p, n)
      PROVE  Fits(entries')
  <2>1. ~IsLazy(entries, p)
    BY <1>2 DEF IsLazy
  <2>2. /\ p \in Counted(entries)
        /\ \/ AppendAllowed(entries, p, n) /\ entries' = [entries EXCEPT ![p].size = @ + n]
           \/ entries' = entries
    BY <1>8, <2>1 DEF AppendOld
  <2> QED BY <1>1, <1>2, <1>3, <2>2, AppendFits
<1>9. ASSUME NEW p \in Targets,
             AppendElsewhere(p) \/ Mkdir(p) \/ Symlink(p) \/ Mkfifo(p)
      PROVE  Fits(entries')
  <2>1. WellFormed(Plain("symlink", 0)) /\ WellFormed(Plain("fifo", 0)) /\ WellFormed(Directory)
    BY PlainEntry, DirectoryEntry DEF Kinds
  <2>2. /\ Fits(With(entries, p, Plain("symlink", 0))) /\ Fits(With(entries, p, Plain("fifo", 0)))
        /\ Fits(With(entries, p, Directory))
    BY <1>1, <1>4, <1>5, <2>1, EmptyFits
  <2> QED BY <1>1, <1>9, <2>2 DEF AppendElsewhere, Mkdir, Symlink, Mkfifo
<1>10. ASSUME NEW p \in Targets, MkdirAll(p)
       PROVE  Fits(entries')
  <2> DEFINE chain == Ancestors(p) \cup ({p} \ {<<>>})
             blocked == chain \cap NonDirs(entries)
             missing == {q \in chain \ DOMAIN entries :
                           \A b \in blocked : ~IsPrefix(b, q)}
             before(q) == {r \in missing : Len(r) < Len(q)}
             made == {q \in missing :
                        RoomForDir(Cardinality(OfKind(entries, {"dir"}))
                                   + Cardinality(before(q)))}
  <2>1. made \subseteq Paths
    BY <1>1 DEF Ancestors
  <2>2. entries' = WithDirs(entries, made)
    BY <1>10, Zenon DEF MkdirAll
  <2> HIDE DEF made
  <2> QED BY <1>1, <2>1, <2>2, WithDirsFits
<1>11. ASSUME NEW p \in Targets, NEW recursive \in BOOLEAN, RemovePath(p, recursive)
       PROVE  Fits(entries')
  <2>1. entries' = entries \/ \E ps : entries' = Without(entries, ps)
    BY <1>11 DEF RemovePath
  <2> QED BY <1>1, <2>1, WithoutFits
<1>12. ASSUME NEW from \in Targets, NEW to \in Targets, Rename(from, to)
       PROVE  Fits(entries')
  BY <1>1, <1>12, RenameFits DEF Rename, PutBack
<1>13. ASSUME NEW from \in Targets, NEW to \in Targets, Copy(from, to)
       PROVE  Fits(entries')
  <2>1. ASSUME from \in DOMAIN entries,
               WriteAllowed(entries, to, IF Readable(entries, from) THEN entries[from].size ELSE 0)
        PROVE  Fits(With(entries, to, entries[from]))
    <3>1. /\ WellFormed(entries[from]) /\ entries[from].kind \in Kinds
          /\ entries[from].kind \in {"dir", "symlink"} => entries[from].size = 0
      BY <1>1, <2>1, SizeAt
    <3>2. ~Readable(entries, from) => entries[from].size = 0
      BY <1>2, <2>1, <3>1 DEF Readable, OfKind, Kinds
    <3>3. WriteAllowed(entries, to, entries[from].size)
      BY <2>1, <3>2
    <3> QED BY <1>1, <3>1, <3>3, WriteFits
  <2> QED BY <1>1, <1>13, <2>1 DEF Copy
<1>14. ASSUME NEW p \in Targets, NEW l \in Loaders, AddLazyFile(p, l)
       PROVE  Fits(entries')
  <2>1. loaderRuns' # [loaderRuns EXCEPT ![l] = "added"]
    BY <1>1 DEF NeverLazy, TypeOK
  <2> QED BY <1>1, <1>14, <2>1 DEF AddLazyFile
<1>15. ASSUME NEW r \in Readers, ReadLazy(r) \/ \E p \in Targets : ReadFile(r, p)
       PROVE  Fits(entries')
  <2>1. entries' = entries
    BY <1>2, <1>15 DEF ReadLazy, ReadFile, StillLazy, IsLazy
  <2> QED BY <1>1, <2>1
<1>16. CASE Snapshot
  <2>1. PICK e : e = Contents(entries)
    OBVIOUS
  <2>2. Tree(e) /\ DOMAIN e = DOMAIN entries /\ Counted(e) = Counted(entries)
    BY <1>1, <2>1, ContentsTree, ContentsCounted
  <2>3. \A p \in DOMAIN e : e[p] = entries[p]
    BY <1>2, <2>1 DEF Contents, Loaded, OfKind
  <2>4. Fits(e)
    BY <1>1, <2>2, <2>3, FewerFit
  <2> QED BY <1>16, <2>1, <2>4 DEF Snapshot
<1>17. CASE Restore
  BY <1>1, <1>17, RestoreFits DEF Restore, BytesInv, FifosAreEmpty, TypeOK
<1> QED
  BY <1>6, <1>7, <1>8, <1>9, <1>10, <1>11, <1>12, <1>13, <1>14, <1>15, <1>16, <1>17 DEF Next

(* BytesWithinLimit for every file system: as long as no lazy file was     *)
(* added, overwriting, appending, copying over, renaming and restoring     *)
(* never add up to more than max_total_bytes, and no file is longer than   *)
(* max_file_size.                                                          *)
THEOREM BytesTheorem == Spec => []BytesWithinLimit
<1>1. Init => LazyIsAdded /\ FifosAreEmpty /\ BytesWithinLimit
  <2> SUFFICES ASSUME Init PROVE LazyIsAdded /\ FifosAreEmpty /\ BytesWithinLimit
    OBVIOUS
  <2>1. \A p \in DOMAIN entries : entries[p] = Directory
    BY DEF Init
  <2>2. Directory.kind = "dir" /\ Directory.size = 0
    BY DEF Directory, Plain
  <2>3. Counted(entries) = {} /\ OfKind(entries, {"lazy"}) = {}
    BY <2>1, <2>2 DEF Counted, OfKind
  <2>4. Bytes(entries, Counted(entries)) = 0
    BY <2>3, SumEmpty DEF Bytes
  <2>5. BytesWithinLimit
    BY <2>1, <2>2, <2>4, LimitsAssumption DEF BytesWithinLimit
  <2> QED BY <2>3, <2>5 DEF Init, LazyIsAdded, FifosAreEmpty
<1>2. TypeOK /\ LazyIsAdded /\ FifosAreEmpty /\ BytesWithinLimit /\ [Next]_vars
        => LazyIsAdded' /\ FifosAreEmpty' /\ BytesWithinLimit'
  <2> SUFFICES ASSUME BytesInv, [Next]_vars
               PROVE  LazyIsAdded' /\ FifosAreEmpty' /\ BytesWithinLimit'
    BY DEF BytesInv
  <2>1. CASE UNCHANGED vars
    BY <2>1 DEF vars, BytesInv, LazyIsAdded, FifosAreEmpty, BytesWithinLimit,
       OfKind, Bytes, Counted
  <2>2. CASE Next
    <3>1. LazyIsAdded' /\ FifosAreEmpty'
      BY <2>2, LazyStep, FifosStep DEF BytesInv
    <3>2. NeverLazy' => NeverLazy
      BY <2>2, UsedStays DEF NeverLazy, BytesInv
    <3>3. NeverLazy' => Fits(entries')
      BY <2>2, <3>2, FitsStep
    <3>4. BytesWithinLimit'
      BY <3>3 DEF NeverLazy, Fits, BytesWithinLimit
    <3> QED BY <3>1, <3>4
  <2> QED BY <2>1, <2>2
<1> QED
  BY <1>1, <1>2, TypeCorrect, PTL DEF Spec

----------------------------------------------------------------------------
(***************************************************************************)
(* What steps never do.                                                    *)
(***************************************************************************)
Same(e, f) == /\ DOMAIN e \subseteq DOMAIN f
              /\ \A p \in DOMAIN f : IF p \in DOMAIN e
                                     THEN Loaded(f[p]) = Loaded(e[p])
                                     ELSE IsDir(f, p)

LEMMA LoadedTwice ==
  ASSUME NEW x
  PROVE  Loaded(Loaded(x)) = Loaded(x)
BY DEF Loaded, Plain

(* Loading a file changes nothing that readers see.                        *)
LEMMA LoadingIsInvisible ==
  ASSUME NEW e, NEW p \in DOMAIN e
  PROVE  Contents(With(e, p, Loaded(e[p]))) = Contents(e)
<1> DEFINE f == With(e, p, Loaded(e[p]))
<1>1. DOMAIN f = DOMAIN e
  BY DEF With
<1>2. ASSUME NEW q \in DOMAIN e
      PROVE  Loaded(f[q]) = Loaded(e[q])
  BY LoadedTwice DEF With
<1> HIDE DEF f
<1>3. Contents(f) = Contents(e)
  BY <1>1, <1>2 DEF Contents
<1> QED
  BY <1>3 DEF f

LEMMA ReadStep ==
  ASSUME TypeOK, NEW r \in Readers, ReadLazy(r)
  PROVE  /\ Contents(entries') = Contents(entries)
         /\ outcome'.ok => LET p == pending[r] IN
              Readable(entries', p) /\ outcome'.read = entries'[p].size
<1> DEFINE p == pending[r]
<1>1. CASE StillLazy(entries, p)
  <2>1. p \in DOMAIN entries /\ entries[p].kind = "lazy"
    BY <1>1 DEF StillLazy, IsLazy, OfKind
  <2>2. Loaded(entries[p]).kind = "file"
    BY <2>1 DEF Loaded, Plain
  <2>3. CASE Ends(With(entries, p, Loaded(entries[p])), TRUE, Loaded(entries[p]).size)
    <3>1. entries' = With(entries, p, Loaded(entries[p]))
      BY <2>3 DEF Ends
    <3>2. Contents(entries') = Contents(entries)
      BY <2>1, <3>1, LoadingIsInvisible
    <3>3. p \in DOMAIN entries' /\ entries'[p] = Loaded(entries[p])
      BY <3>1 DEF With
    <3> QED
      BY <2>2, <2>3, <3>2, <3>3 DEF Ends, Readable, OfKind
  <2>4. CASE Ends(PutBack(entries, p), FALSE, NotRead)
    BY <2>4 DEF Ends, PutBack
  <2> QED
    BY <1>1, <2>3, <2>4 DEF ReadLazy
<1>2. CASE ~StillLazy(entries, p)
  BY <1>2 DEF ReadLazy, Ends, Fails
<1> QED
  BY <1>1, <1>2

(* ReadsAreTrue for every file system: whatever other sessions do between  *)
(* the two locks of read_file, a read answers with what is there when it   *)
(* ends and no reader can tell that it loaded a file.                      *)
THEOREM ReadsTheorem == Spec => ReadsAreTrue
<1>1. TypeOK /\ [Next]_vars =>
        [\A r \in Readers : ReadLazy(r) =>
           /\ Contents(entries') = Contents(entries)
           /\ outcome'.ok => LET p == pending[r] IN
                Readable(entries', p) /\ outcome'.read = entries'[p].size]_vars
  BY ReadStep
<1> QED
  BY <1>1, TypeCorrect, PTL DEF Spec, ReadsAreTrue

LEMMA FailureStep ==
  ASSUME TypeOK, Next, ~outcome'.ok
  PROVE  Same(entries, entries')
<1>1. SUFFICES ASSUME entries' # entries
               PROVE  Same(entries, entries')
  BY DEF Same
<1> USE DEF Succeeds, Fails, Ends
<1>2. CASE \E p \in Targets, n \in Sizes : AppendOld(p, n)
  <2>1. PICK p \in Targets, n \in Sizes : AppendOld(p, n)
    BY <1>2
  <2>2. IsLazy(entries, p) /\ entries' = With(entries, p, Loaded(entries[p]))
    BY <1>1, <2>1 DEF AppendOld
  <2>3. p \in DOMAIN entries
    BY <2>2 DEF IsLazy, OfKind
  <2> QED
    BY <2>2, <2>3, LoadedTwice DEF Same, With
<1>3. CASE \E p \in Targets : MkdirAll(p)
  <2>1. PICK ps : entries' = WithDirs(entries, ps)
    BY <1>3 DEF MkdirAll
  <2> QED
    BY <2>1, DirectoryEntry DEF Same, WithDirs, IsDir, OfKind
<1>4. CASE \E p \in Targets, n \in Sizes : WriteFile(p, n) \/ AppendNew(p, n) \/ AddFile(p, n)
  BY <1>1, <1>4 DEF WriteFile, AppendNew, AddFile
<1>5. CASE \E p \in Targets : AppendElsewhere(p) \/ Mkdir(p) \/ Symlink(p) \/ Mkfifo(p)
  BY <1>1, <1>5 DEF AppendElsewhere, Mkdir, Symlink, Mkfifo
<1>6. CASE \E p \in Targets, recursive \in BOOLEAN : RemovePath(p, recursive)
  BY <1>1, <1>6 DEF RemovePath
<1>7. CASE \E from \in Targets, to \in Targets : Rename(from, to) \/ Copy(from, to)
  BY <1>1, <1>7 DEF Rename, Copy, PutBack
<1>8. CASE \E p \in Targets, l \in Loaders : AddLazyFile(p, l)
  BY <1>1, <1>8 DEF AddLazyFile
<1>9. CASE \E r \in Readers : ReadLazy(r) \/ \E p \in Targets : ReadFile(r, p)
  BY <1>1, <1>9 DEF ReadLazy, ReadFile, PutBack
<1>10. CASE Snapshot \/ Restore
  BY <1>1, <1>10 DEF Snapshot, Restore
<1> QED
  BY <1>2, <1>3, <1>4, <1>5, <1>6, <1>7, <1>8, <1>9, <1>10 DEF Next

(* FailuresKeepContents for every file system: an operation that returns   *)
(* an error leaves what readers see, but for the directories mkdir -p had  *)
(* made before it met the obstacle.                                        *)
THEOREM FailuresTheorem == Spec => FailuresKeepContents
<1>1. TypeOK /\ [Next]_vars =>
        [~outcome'.ok =>
           /\ DOMAIN entries \subseteq DOMAIN entries'
           /\ \A p \in DOMAIN entries' :
                IF p \in DOMAIN entries
                THEN Loaded(entries'[p]) = Loaded(entries[p])
                ELSE IsDir(entries', p)]_vars
  BY FailureStep DEF Same
<1> QED
  BY <1>1, TypeCorrect, PTL DEF Spec, FailuresKeepContents

(* The snapshot is what readers saw of every path, fifos emptied.          *)
SavedIsKept ==
  saved # NoSnapshot =>
    /\ DOMAIN saved = DOMAIN kept
    /\ \A p \in DOMAIN kept : saved[p].kind = kept[p].kind /\ saved[p].size = kept[p].size

LEMMA SnapshotKeeps ==
  ASSUME TypeOK, Snapshot
  PROVE  SavedIsKept'
<1>1. DOMAIN saved' = DOMAIN entries /\ DOMAIN kept' = DOMAIN entries
  BY DEF Snapshot, Captured, Contents, Remembered
<1>2. ASSUME NEW p \in DOMAIN entries
      PROVE  saved'[p].kind = kept'[p].kind /\ saved'[p].size = kept'[p].size
  <2>1. WellFormed(entries[p])
    BY EntryAt
  <2>2. PICK x : x = Loaded(entries[p])
    OBVIOUS
  <2>3. saved'[p] = IF x.kind = "fifo" THEN Plain("fifo", 0) ELSE x
    BY <2>2 DEF Snapshot, Captured, Contents
  <2>4. /\ kept'[p].kind = x.kind
        /\ kept'[p].size = IF entries[p].kind = "lazy" THEN LoadSize[entries[p].loader]
                           ELSE IF entries[p].kind = "file" THEN entries[p].size ELSE 0
    BY <2>2 DEF Snapshot, Remembered, IsLazy, OfKind
  <2>5. CASE entries[p].kind = "lazy"
    BY <2>2, <2>3, <2>4, <2>5 DEF Loaded, Plain
  <2>6. CASE entries[p].kind = "file"
    BY <2>2, <2>3, <2>4, <2>6 DEF Loaded
  <2>7. CASE entries[p].kind = "fifo"
    BY <2>2, <2>3, <2>4, <2>7 DEF Loaded, Plain
  <2>8. CASE entries[p].kind \in {"dir", "symlink"}
    BY <2>1, <2>2, <2>3, <2>4, <2>8 DEF Loaded, WellFormed
  <2> QED
    BY <2>1, <2>5, <2>6, <2>7, <2>8 DEF WellFormed, Entry, Kinds
<1> QED
  BY <1>1, <1>2 DEF SavedIsKept

(* RestoreBringsBack for every file system: a restore that succeeds gives  *)
(* every path the kind and length readers saw when the snapshot was taken, *)
(* whatever happened since, and no other path.                             *)
THEOREM RestoreTheorem == Spec => RestoreBringsBack
<1>1. Init => SavedIsKept
  BY DEF Init, SavedIsKept
<1>2. TypeOK /\ SavedIsKept /\ [Next]_vars => SavedIsKept'
  <2> SUFFICES ASSUME TypeOK, SavedIsKept, [Next]_vars
               PROVE  SavedIsKept'
    OBVIOUS
  <2>1. CASE Snapshot
    BY <2>1, SnapshotKeeps
  <2>2. CASE ~Snapshot
    <3>1. saved' = saved /\ kept' = kept
      BY <2>2 DEF Next, WriteFile, AppendNew, AppendOld, AddFile, AppendElsewhere,
         Mkdir, MkdirAll, Symlink, Mkfifo, RemovePath, Rename, Copy, AddLazyFile,
         ReadFile, ReadLazy, Restore, Idle, vars
    <3> QED
      BY <3>1 DEF SavedIsKept
  <2> QED
    BY <2>1, <2>2
<1>3. SavedIsKept /\ [Next]_vars =>
        [Restore /\ outcome'.ok =>
           /\ DOMAIN entries' = DOMAIN kept
           /\ \A p \in DOMAIN kept :
                /\ entries'[p].kind = kept[p].kind
                /\ entries'[p].size = kept[p].size]_vars
  BY DEF SavedIsKept, Restore, Succeeds, Fails, Ends
<1> QED
  BY <1>1, <1>2, <1>3, TypeCorrect, PTL DEF Spec, RestoreBringsBack
=============================================================================
