------------------------------- MODULE MemFs -------------------------------
(***************************************************************************)
(* InMemoryFs (crates/bashkit/src/fs/memory.rs) and the FsLimits it        *)
(* enforces (fs/limits.rs): one map from paths to entries behind one       *)
(* RwLock, shared by every session that holds the Arc<dyn FileSystem>.     *)
(*                                                                         *)
(* Every operation takes the lock once and is one step, except read_file   *)
(* of a lazy file: it looks under the read lock, lets go, and loads under  *)
(* the write lock (ReadFile, then ReadLazy), and anything may happen in    *)
(* between.                                                                *)
(*                                                                         *)
(* A path is the sequence of its components, <<>> is "/".  Contents are    *)
(* represented by their length, a lazy file by its loader.  Modes, times,  *)
(* symlink targets and the /dev files are left out: no operation looks at  *)
(* them.                                                                   *)
(***************************************************************************)
EXTENDS Integers, FiniteSets, Sequences, SequencesExt

CONSTANTS
  Paths,          \* the paths of this instance
  Targets,        \* those that operations name
  StartDirs,      \* the directories with_limits creates
  Sizes,          \* lengths of the contents that callers write
  Loaders,        \* the closures given to add_lazy_file
  Hint, LoadSize, \* per loader: its size_hint, the length it really loads
  Readers,        \* sessions that may be between the two locks of read_file
  MaxFileSize, MaxTotalBytes, MaxFileCount, MaxDirCount,     \* FsLimits
  MaxSaved,       \* bound: the host snapshots trees of at most this many paths
  NoPath, NoLoader, NoSnapshot

ASSUME PathsAssumption ==
  /\ IsFiniteSet(Paths)        \* max_path_length
  /\ \A p \in Paths : p # <<>> => Len(p) \in Nat \ {0} /\ Front(p) \in Paths
  /\ StartDirs \subseteq Paths /\ Targets \subseteq Paths
  /\ NoPath \notin Paths
  /\ NoLoader \notin Loaders
ASSUME SizesAssumption ==
  /\ Sizes \subseteq Nat
  /\ Hint \in [Loaders -> Nat]
  /\ LoadSize \in [Loaders -> Nat]
ASSUME LimitsAssumption ==
  /\ MaxFileSize \in Nat /\ MaxTotalBytes \in Nat
  /\ MaxFileCount \in Nat /\ MaxDirCount \in Nat

VARIABLES
  entries,   \* InMemoryFs::entries
  pending,   \* per reader: the lazy file it waits to load, or NoPath
  saved,     \* the VfsSnapshot the host holds, or NoSnapshot
  loaderRuns,\* history, per loader: "unused", "added", "once" or "again"
  kept,      \* history: what readers saw when the snapshot was taken
  outcome    \* history: how the last operation ended, and the bytes
             \* a read gave under the write lock

vars == <<entries, pending, saved, loaderRuns, kept, outcome>>

(***************************************************************************)
(* Entries.                                                                *)
(***************************************************************************)
Kinds == {"file", "lazy", "dir", "symlink", "fifo"}

(* FsEntry with the fields of its Metadata that are read: `size` is the    *)
(* content's length, for a lazy file the declared size.                    *)
Entry == [kind : Kinds, size : Nat, loader : Loaders \cup {NoLoader}]

Plain(kind, n) == [kind |-> kind, size |-> n, loader |-> NoLoader]
LazyFile(l) == [kind |-> "lazy", size |-> Hint[l], loader |-> l]
Directory == Plain("dir", 0)

OfKind(e, kinds) == {p \in DOMAIN e : e[p].kind \in kinds}
IsDir(e, p) == p \in OfKind(e, {"dir"})
IsLazy(e, p) == p \in OfKind(e, {"lazy"})

(* What check_write_limits counts as files, and what compute_usage, symlink *)
(* and mkfifo count: the symlinks too.                                      *)
Counted(e) == OfKind(e, {"file", "lazy", "fifo"})
NonDirs(e) == OfKind(e, Kinds \ {"dir"})

Bytes(e, ps) == SumFunctionOnSet([p \in DOMAIN e |-> e[p].size], ps)

With(e, p, x) == [q \in DOMAIN e \cup {p} |-> IF q = p THEN x ELSE e[q]]
WithDirs(e, ps) == [q \in DOMAIN e \cup ps |->
                      IF q \in DOMAIN e THEN e[q] ELSE Directory]
Without(e, ps) == Restrict(e, DOMAIN e \ ps)

(* Every write path but mkdir accepts any entry as the parent.             *)
ParentMissing(e, p) ==
  p # <<>> /\ Front(p) # <<>> /\ Front(p) \notin DOMAIN e

Children(e, p) == {q \in DOMAIN e : q # <<>> /\ q # p /\ Front(q) = p}
Ancestors(p) == {q \in Paths : q # <<>> /\ IsStrictPrefix(q, p)}

(* The entry a lazy file becomes, and what readers find at each path.      *)
Loaded(x) == IF x.kind = "lazy" THEN Plain("file", LoadSize[x.loader]) ELSE x
Contents(e) == [p \in DOMAIN e |-> Loaded(e[p])]

(***************************************************************************)
(* FsLimits.  check_file_count and check_dir_count ask for room for one    *)
(* more.                                                                   *)
(***************************************************************************)
RoomForDir(n) == n < MaxDirCount

(* mutant: one file too many *)
RoomForOneMore(n) == n <= MaxFileCount
RoomForFile(n) == n < MaxFileCount

(* check_write_limits: p is about to hold n bytes.                         *)
WriteAllowed(e, p, n) ==
  /\ n <= MaxFileSize
  /\ p \in Counted(e) \/ RoomForFile(Cardinality(Counted(e)))
  /\ Bytes(e, Counted(e) \ {p}) + n <= MaxTotalBytes

(* restore validates the files, and nothing else, of a snapshot.           *)
RestoreAllowed(s) ==
  LET files == OfKind(s, {"file"}) IN
  /\ \A p \in files : s[p].size <= MaxFileSize
  /\ Bytes(s, files) <= MaxTotalBytes
  /\ RoomForFile(Cardinality(files))

(***************************************************************************)
(* Steps.  An operation runs only while no other holds the lock, so each   *)
(* of them ends by setting entries and outcome at once.                    *)
(***************************************************************************)
NotRead == -1
Ends(e, ok, n) == entries' = e /\ outcome' = [ok |-> ok, read |-> n]
Succeeds(e) == Ends(e, TRUE, NotRead)
Fails == Ends(entries, FALSE, NotRead)

Idle == UNCHANGED <<pending, saved, loaderRuns, kept>>

(* The runs of the loaders at ps, each called once per path.               *)
Called(ps) ==
  [l \in Loaders |->
     LET n == Cardinality({p \in ps : entries[p].loader = l}) IN
     CASE n = 0 -> loaderRuns[l]
       [] n = 1 /\ loaderRuns[l] = "added" -> "once"
       [] OTHER -> "again"]

Init ==
  /\ entries = [p \in StartDirs |-> Directory]
  /\ pending = [r \in Readers |-> NoPath]
  /\ saved = NoSnapshot
  /\ loaderRuns = [l \in Loaders |-> "unused"]
  /\ kept = NoSnapshot
  /\ outcome = [ok |-> TRUE, read |-> NotRead]

----------------------------------------------------------------------------
(* read_file.  Under the read lock everything but a lazy file is answered. *)
Readable(e, p) == p \in OfKind(e, {"file", "fifo"})

ReadFile(r, p) ==
  /\ pending[r] = NoPath
  /\ \/ /\ IsLazy(entries, p)
        /\ pending' = [pending EXCEPT ![r] = p]
        /\ UNCHANGED <<entries, outcome>>
     \/ /\ ~IsLazy(entries, p)
        /\ IF Readable(entries, p) THEN Succeeds(entries) ELSE Fails
        /\ UNCHANGED pending
  /\ UNCHANGED <<saved, loaderRuns, kept>>

(* mutant: the early return forgets the entry it took out *)
LeftOut(e, p) == Without(e, {p})

(* An entry taken out of the map goes back in when an operation refuses.   *)
PutBack(e, p) == e

(* mutant: any entry found on the second look is taken for the lazy one *)
StillThere(e, p) == p \in DOMAIN e
StillLazy(e, p) == IsLazy(e, p)

(* Under the write lock the entry is looked up again: another session may  *)
(* have loaded, overwritten or removed it.  The limits are checked against *)
(* the entries without the lazy file.                                      *)
ReadLazy(r) ==
  LET p == pending[r] IN
  /\ p # NoPath
  /\ pending' = [pending EXCEPT ![r] = NoPath]
  /\ \/ /\ StillLazy(entries, p)
        /\ LET file == Loaded(entries[p]) IN
           IF WriteAllowed(Without(entries, {p}), p, file.size)
           THEN Ends(With(entries, p, file), TRUE, file.size)
           ELSE Ends(PutBack(entries, p), FALSE, NotRead)
        /\ loaderRuns' = Called({p})
     \/ /\ ~StillLazy(entries, p)
        /\ IF Readable(entries, p) THEN Ends(entries, TRUE, entries[p].size) ELSE Fails
        /\ UNCHANGED loaderRuns
  /\ UNCHANGED <<saved, kept>>

(* write_file.  A fifo stays one; anything else but a directory becomes a  *)
(* regular file, a symlink included.                                       *)
WriteFile(p, n) ==
  /\ IF ~ParentMissing(entries, p) /\ ~IsDir(entries, p) /\ WriteAllowed(entries, p, n)
     THEN LET kind == IF p \in OfKind(entries, {"fifo"}) THEN "fifo" ELSE "file" IN
          Succeeds(With(entries, p, Plain(kind, n)))
     ELSE Fails
  /\ Idle

(* append_file to a path that does not exist creates it.                   *)
AppendNew(p, n) ==
  /\ p \notin DOMAIN entries
  /\ IF WriteAllowed(entries, p, n) /\ ~ParentMissing(entries, p)
     THEN Succeeds(With(entries, p, Plain("file", n)))
     ELSE Fails
  /\ Idle

(* mutant: only the file's own size is checked *)
AppendToAnySize(e, p, n) == e[p].size + n <= MaxFileSize

(* Files and fifos count against the total here, lazy files do not.        *)
AppendAllowed(e, p, n) ==
  /\ e[p].size + n <= MaxFileSize
  /\ Bytes(e, OfKind(e, {"file", "fifo"})) + n <= MaxTotalBytes

(* A lazy file is loaded first, unchecked, and stays loaded if the append  *)
(* is refused.                                                             *)
AppendOld(p, n) ==
  LET e == IF IsLazy(entries, p) THEN With(entries, p, Loaded(entries[p])) ELSE entries IN
  /\ p \in Counted(entries)
  /\ IF AppendAllowed(e, p, n)
     THEN Succeeds([e EXCEPT ![p].size = @ + n])
     ELSE Ends(e, FALSE, NotRead)
  /\ loaderRuns' = IF IsLazy(entries, p) THEN Called({p}) ELSE loaderRuns
  /\ UNCHANGED <<pending, saved, kept>>

AppendElsewhere(p) ==
  /\ p \in OfKind(entries, {"dir", "symlink"})
  /\ Fails
  /\ Idle

(* mkdir.                                                                  *)
Mkdir(p) ==
  /\ IF /\ ~ParentMissing(entries, p)
        /\ p \notin DOMAIN entries
        /\ RoomForDir(Cardinality(OfKind(entries, {"dir"})))
     THEN Succeeds(With(entries, p, Directory))
     ELSE Fails
  /\ Idle

(* mkdir -p goes down the path and stops at the first component that is    *)
(* not a directory, or that the limit refuses; what it made so far stays.  *)
MkdirAll(p) ==
  LET chain == Ancestors(p) \cup ({p} \ {<<>>})
      blocked == chain \cap NonDirs(entries)
      missing == {q \in chain \ DOMAIN entries :
                    \A b \in blocked : ~IsPrefix(b, q)}
      before(q) == {r \in missing : Len(r) < Len(q)}
      made == {q \in missing :
                 RoomForDir(Cardinality(OfKind(entries, {"dir"})) + Cardinality(before(q)))}
  IN /\ Ends(WithDirs(entries, made), blocked = {} /\ made = missing, NotRead)
     /\ Idle

(* remove.  Only a directory's children keep it from going: nothing asks   *)
(* whether a removed file has entries below it.                            *)
RemovePath(p, recursive) ==
  /\ \/ /\ IsDir(entries, p) /\ recursive
        /\ Succeeds(Without(entries, {q \in DOMAIN entries : IsPrefix(p, q)}))
     \/ /\ IsDir(entries, p) /\ ~recursive
        /\ IF Children(entries, p) = {}
           THEN Succeeds(Without(entries, {p}))
           ELSE Fails
     \/ /\ p \in NonDirs(entries)
        /\ Succeeds(Without(entries, {p}))
     \/ /\ p \notin DOMAIN entries
        /\ Fails
  /\ Idle

(* rename moves one entry, whatever its new parent and its children.  The  *)
(* source is out of the map when the target is looked at.                  *)
Rename(from, to) ==
  LET others == Without(entries, {from}) IN
  /\ \/ /\ from \notin DOMAIN entries
        /\ Fails
     \/ /\ from \in OfKind(entries, {"file", "symlink", "fifo"})
        /\ IsDir(others, to)
        /\ Ends(PutBack(entries, from), FALSE, NotRead)
     \/ /\ from \in DOMAIN entries
        /\ ~(entries[from].kind \in {"file", "symlink", "fifo"} /\ IsDir(others, to))
        /\ Succeeds(With(others, to, entries[from]))
  /\ Idle

(* copy checks the limits as if a lazy file had no bytes, and a directory  *)
(* were an empty file.                                                     *)
Copy(from, to) ==
  /\ IF /\ from \in DOMAIN entries
        /\ WriteAllowed(entries, to, IF Readable(entries, from) THEN entries[from].size ELSE 0)
     THEN Succeeds(With(entries, to, entries[from]))
     ELSE Fails
  /\ Idle

Symlink(p) ==
  /\ IF p \in DOMAIN entries \/ RoomForFile(Cardinality(NonDirs(entries)))
     THEN Succeeds(With(entries, p, Plain("symlink", 0)))
     ELSE Fails
  /\ Idle

Mkfifo(p) ==
  /\ IF /\ ~ParentMissing(entries, p)
        /\ p \notin DOMAIN entries
        /\ RoomForFile(Cardinality(NonDirs(entries)))
     THEN Succeeds(With(entries, p, Plain("fifo", 0)))
     ELSE Fails
  /\ Idle

(* add_file and add_lazy_file make the missing ancestors as directories,   *)
(* beyond max_dir_count if need be, and return silently when refused.      *)
WithAncestors(p, x) ==
  With(WithDirs(entries, Ancestors(p)), p, x)

AddFile(p, n) ==
  /\ IF WriteAllowed(entries, p, n)
     THEN Succeeds(WithAncestors(p, Plain("file", n)))
     ELSE Fails
  /\ Idle

AddLazyFile(p, l) ==
  /\ loaderRuns[l] = "unused"
  /\ IF WriteAllowed(entries, p, Hint[l])
     THEN /\ Succeeds(WithAncestors(p, LazyFile(l)))
          /\ loaderRuns' = [loaderRuns EXCEPT ![l] = "added"]
     ELSE Fails /\ UNCHANGED loaderRuns
  /\ UNCHANGED <<pending, saved, kept>>

(***************************************************************************)
(* snapshot loads every lazy file, whatever the limits, and keeps all but  *)
(* the bytes in fifos.                                                     *)
(***************************************************************************)
(* mutant: a lazy file that was never read is not in the snapshot *)
CapturedIfRead(e) ==
  [p \in DOMAIN e \ OfKind(entries, {"lazy"}) |->
     IF e[p].kind = "fifo" THEN Plain("fifo", 0) ELSE e[p]]

(* mutant: a lazy file goes into the snapshot as it is *)
CapturedUnloaded(e) ==
  [p \in DOMAIN e |->
     IF e[p].kind = "fifo" THEN Plain("fifo", 0) ELSE entries[p]]

Captured(e) == [p \in DOMAIN e |->
                  IF e[p].kind = "fifo" THEN Plain("fifo", 0) ELSE e[p]]


(* History: what readers see of each path, but for the bytes in fifos.      *)
Remembered ==
  [p \in DOMAIN entries |->
     [kind |-> Loaded(entries[p]).kind,
      size |-> IF IsLazy(entries, p) THEN LoadSize[entries[p].loader]
               ELSE IF entries[p].kind = "file" THEN entries[p].size ELSE 0]]

Snapshot ==
  /\ Cardinality(DOMAIN entries) <= MaxSaved
  /\ Succeeds(Contents(entries))
  /\ saved' = Captured(Contents(entries))
  /\ kept' = Remembered
  /\ loaderRuns' = Called(OfKind(entries, {"lazy"}))
  /\ UNCHANGED pending

Restore ==
  /\ saved # NoSnapshot
  /\ IF RestoreAllowed(saved) THEN Succeeds(saved) ELSE Fails
  /\ Idle

Next ==
  \/ \E p \in Targets, n \in Sizes :
       \/ WriteFile(p, n) \/ AppendNew(p, n) \/ AppendOld(p, n) \/ AddFile(p, n)
  \/ \E p \in Targets :
       \/ AppendElsewhere(p) \/ Mkdir(p) \/ MkdirAll(p) \/ Symlink(p) \/ Mkfifo(p)
  \/ \E p \in Targets, recursive \in BOOLEAN : RemovePath(p, recursive)
  \/ \E from \in Targets, to \in Targets : Rename(from, to) \/ Copy(from, to)
  \/ \E p \in Targets, l \in Loaders : AddLazyFile(p, l)
  \/ \E r \in Readers, p \in Targets : ReadFile(r, p)
  \/ \E r \in Readers : ReadLazy(r)
  \/ Snapshot
  \/ Restore

Spec == Init /\ [][Next]_vars

----------------------------------------------------------------------------
(***************************************************************************)
(* Properties.                                                             *)
(***************************************************************************)
WellFormed(x) ==
  /\ x \in Entry
  /\ x.kind = "lazy" => x.loader \in Loaders
  /\ x.kind \in {"dir", "symlink"} => x.size = 0
Tree(e) == DOMAIN e \subseteq Paths /\ \A p \in DOMAIN e : WellFormed(e[p])

(* The types: a lazy entry has a loader, a snapshot holds none, and a      *)
(* reader that waits for the write lock waits for a path.                  *)
TypeOK ==
  /\ Tree(entries)
  /\ pending \in [Readers -> Paths \cup {NoPath}]
  /\ saved # NoSnapshot => Tree(saved) /\ OfKind(saved, {"lazy"}) = {}
  /\ kept # NoSnapshot => DOMAIN kept \subseteq Paths
  /\ loaderRuns \in [Loaders -> {"unused", "added", "once", "again"}]
  /\ outcome \in [ok : BOOLEAN, read : Nat \cup {NotRead}]

(* max_file_count for what check_write_limits counts: files, lazy files    *)
(* and fifos are never more, through writes, copies over any kind of       *)
(* entry, renames and a restore of an earlier tree.  The symlinks, which   *)
(* the repository counts as well, come on top: FilesAndLinksWithinLimit.   *)
FilesWithinLimit == Cardinality(Counted(entries)) <= MaxFileCount

(* limits.rs:90 "Maximum number of files (not including directories)" and  *)
(* memory.rs:502 "Symlinks count toward file count".  They do when a link  *)
(* or a fifo is made; writing, copying and adding a file ask               *)
(* check_write_limits, which passes over them (memory.rs:529): files may   *)
(* fill the room that links have, and while there is room for one file     *)
(* links are copied without end.                                           *)
FilesAndLinksWithinLimit == Cardinality(NonDirs(entries)) <= MaxFileCount

(* max_total_bytes and max_file_size, as long as no lazy file was added:   *)
(* overwriting, appending, copying over and restoring never add up to more *)
(* than the limits.                                                        *)
BytesWithinLimit ==
  (\A l \in Loaders : loaderRuns[l] = "unused") =>
    /\ Bytes(entries, Counted(entries)) <= MaxTotalBytes
    /\ \A p \in DOMAIN entries : entries[p].size <= MaxFileSize

(* A read gives the bytes of a file or fifo that is there when it ends,    *)
(* and changes nothing that another reader could see, whatever happened    *)
(* between its two locks (memory.rs:1036).                                 *)
ReadsAreTrue ==
  [][\A r \in Readers : ReadLazy(r) =>
       /\ Contents(entries') = Contents(entries)
       /\ outcome'.ok => LET p == pending[r] IN
            Readable(entries', p) /\ outcome'.read = entries'[p].size]_vars

(* An operation that returns an error changes nothing that readers see,    *)
(* but for the directories mkdir -p had already made: rename puts back     *)
(* what it took out, restore refuses before it clears (memory.rs:709).     *)
FailuresKeepContents ==
  [][~outcome'.ok =>
       /\ DOMAIN entries \subseteq DOMAIN entries'
       /\ \A p \in DOMAIN entries' :
            IF p \in DOMAIN entries
            THEN Loaded(entries'[p]) = Loaded(entries[p])
            ELSE IsDir(entries', p)]_vars

(* A restore that succeeds brings back what readers saw when the snapshot  *)
(* was taken, lazy files not yet read included; only fifos come back       *)
(* empty.                                                                  *)
RestoreBringsBack ==
  [][Restore /\ outcome'.ok =>
       /\ DOMAIN entries' = DOMAIN kept
       /\ \A p \in DOMAIN kept :
            /\ entries'[p].kind = kept[p].kind
            /\ entries'[p].size = kept[p].size]_vars

(* memory.rs:900: the loader "is called at most once".  A load that the    *)
(* limits refuse is put back and runs again at the next read.              *)
LoaderCalledAtMostOnce == \A l \in Loaders : loaderRuns[l] # "again"

(* memory.rs:576: "The snapshot can be restored later".  restore asks for  *)
(* room for one more file than the snapshot holds.                         *)
OwnSnapshotRestores == saved # NoSnapshot => RestoreAllowed(saved)
=============================================================================
