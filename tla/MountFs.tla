------------------------------ MODULE MountFs ------------------------------
(***************************************************************************)
(* MountableFs (crates/bashkit/src/fs/mountable.rs): a root file system    *)
(* and a table of others, each seen under its mount point, and ReadOnlyFs  *)
(* (fs/readonly.rs), the wrapper in which a mounted one may come.          *)
(*                                                                         *)
(* An operation finds its file system under the read lock of the table,    *)
(* lets go of it, and then calls that file system: the host may mount and  *)
(* unmount in between, and between the two looks of an operation with two  *)
(* paths.  rename and copy between file systems are a read, a write and a  *)
(* removal, each a step.  Consecutive looks at a file are one step.        *)
(*                                                                         *)
(* The file systems are two InMemoryFs: the root, and one to mount.  What  *)
(* MemFs leaves out is left out here; so are the paths that validate_path  *)
(* refuses, which are those outside Paths, and vfs_snapshot, which is that *)
(* of the root.                                                            *)
(***************************************************************************)
EXTENDS Integers, FiniteSets, Sequences, SequencesExt

CONSTANTS
  Paths, Targets, StartDirs, Sizes,                        \* as in MemFs
  MaxFileSize, MaxTotalBytes, MaxFileCount, MaxDirCount,   \* as in MemFs
  MountPoints,    \* the paths the host mounts at
  Arcs,           \* how the host hands over a file system: "itself",
                  \* "readonly", or in "another" Arc that reaches it
  Sessions,       \* the sessions that share the file system
  Operations,     \* the operations they use in this instance
  NoPath, NoLoader, NoSnapshot,                            \* as in MemFs
  NoCall, NoEntry

ASSUME PathsAssumption ==
  /\ Paths \subseteq Seq(STRING) /\ StartDirs \subseteq Paths
  /\ Sizes \subseteq Nat
ASSUME MountPointsAssumption ==
  /\ MountPoints \subseteq Paths /\ Targets \subseteq Paths
  /\ Arcs \subseteq {"itself", "readonly", "another"}
ASSUME SuffixesAssumption ==
  \A p \in Paths : \A i \in 1..Len(p) + 1 : SubSeq(p, i, Len(p)) \in Paths

TwoPaths == {"rename", "copy"}
OnePath == {"write", "append", "mkdir", "mkdirAll", "remove", "removeAll",
            "symlink", "mkfifo"}
ASSUME OperationsAssumption == Operations \subseteq OnePath \cup TwoPaths

VARIABLES
  root,    \* the entries of MountableFs::root
  data,    \* the entries of the file system that is mounted
  mounts,  \* MountableFs::mounts: mount point -> backend
  call,    \* per session: the operation it is in the middle of, or NoCall
  outcome  \* how the last call ended

vars == <<root, data, mounts, call, outcome>>

Root == INSTANCE MemFs WITH
  entries <- root, saved <- <<>>, kept <- <<>>,
  pending <- <<>>, loaderRuns <- <<>>, MaxSaved <- 0,
  Loaders <- {}, Hint <- <<>>, LoadSize <- <<>>, Readers <- {}
Data == INSTANCE MemFs WITH
  entries <- data, saved <- <<>>, kept <- <<>>,
  pending <- <<>>, loaderRuns <- <<>>, MaxSaved <- 0,
  Loaders <- {}, Hint <- <<>>, LoadSize <- <<>>, Readers <- {}

Tree(fs) == IF fs = "root" THEN root ELSE data

(***************************************************************************)
(* The table.                                                              *)
(***************************************************************************)
(* A backend, and a place in one: what resolve returns.                    *)
Backend == [fs : {"root", "data"}, arc : {"itself", "readonly", "another"}]
RootFs == [fs |-> "root", arc |-> "itself"]
At(b, p) == [fs |-> b.fs, arc |-> b.arc, path |-> p]

Below(m, p) == SubSeq(p, Len(m) + 1, Len(p))
Covering(p) == {m \in DOMAIN mounts : IsPrefix(m, p)}

(* mutant: the first mount point in the order of the table *)
ResolveFirst(p) ==
  IF Covering(p) = {} THEN At(RootFs, p)
  ELSE LET m == CHOOSE m \in Covering(p) : \A n \in Covering(p) : Len(m) <= Len(n)
       IN At(mounts[m], Below(m, p))

(* resolve: the longest mount point wins, and what follows it becomes a    *)
(* path from the mounted root.                                             *)
Resolve(p) ==
  IF Covering(p) = {} THEN At(RootFs, p)
  ELSE LET m == CHOOSE m \in Covering(p) : \A n \in Covering(p) : Len(n) <= Len(m)
       IN At(mounts[m], Below(m, p))

(* mutant: places are compared, not file systems *)
SamePlace(a, b) == a = b

(* Arc::ptr_eq, which tells Arcs apart and not what they reach.            *)
PtrEq(a, b) == a.fs = b.fs /\ a.arc = b.arc

(***************************************************************************)
(* read_dir, exists and stat, as the caller finds them.                    *)
(***************************************************************************)
Found(at) == at.path \in DOMAIN Tree(at.fs)

(* mutant: a mount point is looked up in its file system *)
ExistsInside(p) == Found(Resolve(p))
Exists(p) == p \in DOMAIN mounts \/ Found(Resolve(p))

IsDirectory(p) == Found(Resolve(p)) /\ Tree(Resolve(p).fs)[Resolve(p).path].kind = "dir"

(* The names read_dir gives: the entries of the file system there, and the *)
(* mount points that are its children.                                     *)
Listed(p) ==
  {Append(p, Last(q)) : q \in Root!Children(Tree(Resolve(p).fs), Resolve(p).path)}
    \cup {m \in DOMAIN mounts : m # <<>> /\ Front(m) = p}

(***************************************************************************)
(* Operations.  `src` and `dst` are what resolve gave for the two paths,   *)
(* `want` is the entry a move between file systems has read, `fresh` is    *)
(* history: the table is the one resolve saw.                              *)
(***************************************************************************)

Idle == UNCHANGED <<root, data, mounts>>
Answers(ok) == outcome' = [ok |-> ok, read |-> Root!NotRead]

Ends(s) == call' = [call EXCEPT ![s] = NoCall]
Goes(c, stage) == [c EXCEPT !.next = stage]

Begins(s, op, from, to, n) ==
  /\ call[s] = NoCall
  /\ call' = [call EXCEPT ![s] =
       [op |-> op, size |-> n, from |-> from, to |-> to,
        src |-> Resolve(from), dst |-> Resolve(from), want |-> NoEntry,
        fresh |-> TRUE, next |-> IF op \in TwoPaths THEN "resolve" ELSE "call"]]
  /\ Answers(TRUE)
  /\ Idle

(* The second look at the table.                                           *)
ResolvesTo(s) ==
  LET to == Resolve(call[s].to) IN
  /\ call[s] # NoCall /\ call[s].next = "resolve"
  /\ call' = [call EXCEPT ![s].dst = to,
                          ![s].next = IF PtrEq(call[s].src, to) THEN "call" ELSE "read"]
  /\ Answers(TRUE)
  /\ Idle

(* One call to the file system that was found.                             *)
OnRoot(op, p, q, n) ==
  \/ op = "write" /\ Root!WriteFile(p, n)
  \/ op = "append" /\ \/ Root!AppendNew(p, n)
                      \/ Root!AppendOld(p, n)
                      \/ Root!AppendElsewhere(p)
  \/ op = "mkdir" /\ Root!Mkdir(p)
  \/ op = "mkdirAll" /\ Root!MkdirAll(p)
  \/ op = "remove" /\ Root!RemovePath(p, FALSE)
  \/ op = "removeAll" /\ Root!RemovePath(p, TRUE)
  \/ op = "symlink" /\ Root!Symlink(p)
  \/ op = "mkfifo" /\ Root!Mkfifo(p)
  \/ op = "rename" /\ Root!Rename(p, q)
  \/ op = "copy" /\ Root!Copy(p, q)

OnData(op, p, q, n) ==
  \/ op = "write" /\ Data!WriteFile(p, n)
  \/ op = "append" /\ \/ Data!AppendNew(p, n)
                      \/ Data!AppendOld(p, n)
                      \/ Data!AppendElsewhere(p)
  \/ op = "mkdir" /\ Data!Mkdir(p)
  \/ op = "mkdirAll" /\ Data!MkdirAll(p)
  \/ op = "remove" /\ Data!RemovePath(p, FALSE)
  \/ op = "removeAll" /\ Data!RemovePath(p, TRUE)
  \/ op = "symlink" /\ Data!Symlink(p)
  \/ op = "mkfifo" /\ Data!Mkfifo(p)
  \/ op = "rename" /\ Data!Rename(p, q)
  \/ op = "copy" /\ Data!Copy(p, q)

(* ReadOnlyFs refuses every change.                                        *)
Allowed(arc, op) == arc # "readonly"

CallsBackend(op, at, q, n) ==
  \/ ~Allowed(at.arc, op) /\ Answers(FALSE) /\ UNCHANGED <<root, data>>
  \/ Allowed(at.arc, op) /\ at.fs = "root" /\ OnRoot(op, at.path, q, n) /\ UNCHANGED data
  \/ Allowed(at.arc, op) /\ at.fs = "data" /\ OnData(op, at.path, q, n) /\ UNCHANGED root

(* The operation is one call.                                              *)
Calls(s) ==
  LET c == call[s] IN
  /\ c # NoCall /\ c.next = "call"
  /\ CallsBackend(c.op, c.src, c.dst.path, c.size)
  /\ Ends(s)
  /\ UNCHANGED mounts

(* Between file systems: stat, and then read_file or read_link.            *)
Movable == {"file", "fifo", "symlink"}
Carried(x) == Root!Plain(IF x.kind = "symlink" THEN "symlink" ELSE "file", x.size)

Reads(s) ==
  LET c == call[s]
      found == Found(c.src) /\ Tree(c.src.fs)[c.src.path].kind \in Movable
  IN
  /\ c # NoCall /\ c.next = "read"
  /\ IF found
     THEN call' = [call EXCEPT ![s] = [Goes(c, "write") EXCEPT
                     !.want = Carried(Tree(c.src.fs)[c.src.path])]]
     ELSE Ends(s)
  /\ Answers(found)
  /\ Idle

(* mutant: the target's answer is not waited for *)
GoesOnAnyway(c, ok) == c.op = "rename"
GoesOnToRemove(c, ok) == c.op = "rename" /\ ok

Writes(s) ==
  LET c == call[s] IN
  /\ c # NoCall /\ c.next = "write"
  /\ CallsBackend(IF c.want.kind = "symlink" THEN "symlink" ELSE "write",
                  c.dst, <<>>, c.want.size)
  /\ IF GoesOnToRemove(c, outcome'.ok)
     THEN call' = [call EXCEPT ![s] = Goes(c, "remove")]
     ELSE Ends(s)
  /\ UNCHANGED mounts

(* A refused removal leaves the entry in both places.                      *)
Removes(s) ==
  LET c == call[s] IN
  /\ c # NoCall /\ c.next = "remove"
  /\ CallsBackend("remove", c.src, <<>>, 0)
  /\ Ends(s)
  /\ UNCHANGED mounts

(***************************************************************************)
(* The host.  Mounting over a mount point replaces what was there.         *)
(***************************************************************************)
NothingFresh ==
  call' = [s \in Sessions |->
             IF call[s] = NoCall THEN NoCall ELSE [call[s] EXCEPT !.fresh = FALSE]]

Mount(m, arc) ==
  /\ mounts' = Root!With(mounts, m, [fs |-> "data", arc |-> arc])
  /\ NothingFresh
  /\ Answers(TRUE)
  /\ UNCHANGED <<root, data>>

Unmount(m) ==
  /\ mounts' = Root!Without(mounts, {m})
  /\ NothingFresh
  /\ Answers(m \in DOMAIN mounts)
  /\ UNCHANGED <<root, data>>

Init ==
  /\ root = [p \in StartDirs |-> Root!Directory]
  /\ data = [p \in StartDirs |-> Data!Directory]
  /\ outcome = [ok |-> TRUE, read |-> Root!NotRead]
  /\ mounts = <<>>
  /\ call = [s \in Sessions |-> NoCall]

Starts(s) ==
  \E from \in Targets :
    \/ \E op \in Operations \cap OnePath, n \in Sizes : Begins(s, op, from, from, n)
    \/ \E op \in Operations \cap TwoPaths, to \in Targets : Begins(s, op, from, to, 0)

Runs(s) == ResolvesTo(s) \/ Calls(s) \/ Reads(s) \/ Writes(s) \/ Removes(s)

Host == \E m \in MountPoints : Unmount(m) \/ \E arc \in Arcs : Mount(m, arc)

Next == Host \/ \E s \in Sessions : Starts(s) \/ Runs(s)

Spec == Init /\ [][Next]_vars

----------------------------------------------------------------------------
(***************************************************************************)
(* Properties.                                                             *)
(***************************************************************************)
Places == [fs : {"root", "data"}, arc : {"itself", "readonly", "another"}, path : Paths]

(* The types: both trees are trees, every place an operation holds is one  *)
(* of a file system and a path in it, and only a move between two backends *)
(* is a read, a write and a removal.                                       *)
TypeOK ==
  /\ Root!Tree(root) /\ Data!Tree(data)
  /\ DOMAIN mounts \subseteq MountPoints
  /\ \A m \in DOMAIN mounts : mounts[m] \in Backend
  /\ \A s \in Sessions : call[s] # NoCall =>
       LET c == call[s] IN
       /\ c.op \in OnePath \cup TwoPaths /\ c.src \in Places /\ c.dst \in Places
       /\ c.next \in {"resolve", "call", "read", "write", "remove"}
       /\ c.next \in {"write", "remove"} => c.want \in Root!Entry
       /\ c.next \in {"read", "write", "remove"} =>
            <<c.src.fs, c.src.arc>> # <<c.dst.fs, c.dst.arc>>

(* The mount that a path is under: no other one is nearer (mountable.rs:149*)
(* "longer prefix wins").                                                  *)
Nearest(p, m) ==
  /\ m \in DOMAIN mounts /\ IsPrefix(m, p)
  /\ \A n \in DOMAIN mounts : IsPrefix(n, p) => IsPrefix(n, m)
Touchable(p, fs, q) ==
  LET related(r) == IsPrefix(r, q) \/ IsPrefix(q, r) IN
  \/ /\ fs = "root" /\ related(p)
     /\ \A m \in DOMAIN mounts : ~IsPrefix(m, p)
  \/ \E m \in DOMAIN mounts :
       /\ Nearest(p, m)
       /\ mounts[m].fs = fs /\ mounts[m].arc # "readonly" /\ related(Below(m, p))

(* While the table stays as it was, an operation changes a tree only at or *)
(* around a path it names, in the file system that is nearest above that   *)
(* path, and nothing of one mounted read-only: what a mount hides in the   *)
(* root, and what a nested mount hides in the outer one, stays as it was.  *)
OnlyNamedTreesChange ==
  [][\A s \in Sessions : Runs(s) /\ call[s].fresh =>
       \A q \in Paths :
         LET touchable(fs) == Touchable(call[s].from, fs, q) \/ Touchable(call[s].to, fs, q)
             same(e, f) == /\ q \in DOMAIN e <=> q \in DOMAIN f
                           /\ q \in DOMAIN e => e[q] = f[q]
         IN /\ touchable("root") \/ same(root, root')
            /\ touchable("data") \/ same(data, data')]_vars

(* A rename between file systems never loses the entry: after the read it  *)
(* is at the source until the removal, which comes only once it is at the  *)
(* target, whatever the host mounts and unmounts meanwhile and whichever   *)
(* call is refused (mountable.rs:442).                                     *)
Holds(e, p, x) == p \in DOMAIN e /\ Carried(e[p]) = x
MoveKeepsContent ==
  [][\A s \in Sessions :
       LET c == call[s] IN
       (Writes(s) \/ Removes(s)) /\ c.op = "rename" =>
         \E at \in {c.src, c.dst} :
           Holds(IF at.fs = "root" THEN root' ELSE data', at.path, c.want)]_vars

(* mountable.rs:448 "Check if both paths resolve to the same filesystem":  *)
(* what it checks is that both are one Arc.  With one file system under    *)
(* two mount points, each with an Arc of its own, a move from one to the   *)
(* other writes the file over itself and then removes it.                  *)
SharedMoveKeepsContent ==
  [][\A s \in Sessions :
       LET c == call[s] IN
       Removes(s) /\ c.fresh =>
         \E at \in {c.src, c.dst} :
           Holds(IF at.fs = "root" THEN root' ELSE data', at.path, c.want)]_vars

(* A path that read_dir lists exists, and what exists in a directory is    *)
(* listed, mount points included: also when the root of the file system    *)
(* inside a mount point was removed (mountable.rs:400, :431).              *)
ListingAgrees ==
  \A p \in Paths : IsDirectory(p) =>
    \A q \in Paths : q # <<>> /\ Front(q) = p => (q \in Listed(p) <=> Exists(q))
=============================================================================
