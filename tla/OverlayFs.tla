----------------------------- MODULE OverlayFs -----------------------------
(***************************************************************************)
(* OverlayFs (crates/bashkit/src/fs/overlay.rs): a writable upper layer,   *)
(* which is an InMemoryFs, over a lower layer that is only read, with      *)
(* whiteouts for what was deleted from the lower one.                      *)
(*                                                                         *)
(* No lock spans an operation.  It looks at the layers, decides, and then  *)
(* makes a sequence of calls that each take one lock: the calls still to   *)
(* make are the session's `todo`, and those of other sessions may come     *)
(* between any two of them.  Consecutive looks are one step.               *)
(*                                                                         *)
(* Paths, contents and entries are those of MemFs.  The lower layer is a   *)
(* constant: nothing is ever written to it.  Modes, times and symlink      *)
(* targets are left out.                                                   *)
(***************************************************************************)
EXTENDS Integers, FiniteSets, Sequences, SequencesExt

CONSTANTS
  Paths, Targets, StartDirs, Sizes,                        \* as in MemFs
  MaxFileSize, MaxTotalBytes, MaxFileCount, MaxDirCount,   \* as in MemFs
  Lower,          \* OverlayFs::lower, the entries of the base layer
  Sessions,       \* the sessions that share the file system
  Operations,     \* per session: the operations it uses in this instance
  MaxHidden,      \* bound: the model's u64::MAX for lower_hidden
  MaxSaved, NoPath, NoLoader, NoSnapshot,                  \* as in MemFs
  NoCall, NoEntry

VARIABLES
  upper,      \* OverlayFs::upper
  whiteouts,  \* OverlayFs::whiteouts
  hidden,     \* OverlayFs::lower_hidden
  call,       \* per session: the operation it is in the middle of, or NoCall
  saved,      \* the VfsSnapshot the host holds, or NoSnapshot
  kept,       \* history of MemFs: what the upper layer held then
  outcome     \* how the last call ended

vars == <<upper, whiteouts, hidden, call, saved, kept, outcome>>

(* The upper layer.  BashBuilder::build adds files and lazy files straight *)
(* to it before the first operation (lib.rs:2497); the model starts with   *)
(* none, and no operation of the overlay makes a lazy file.                *)
Upper == INSTANCE MemFs WITH
  entries <- upper, pending <- <<>>, loaderRuns <- <<>>,
  Loaders <- {}, Hint <- <<>>, LoadSize <- <<>>, Readers <- {}

ASSUME PathsAssumption ==
  /\ Paths \subseteq Seq(STRING)
  /\ Targets \subseteq Paths /\ StartDirs \subseteq Paths
ASSUME SizesAssumption == Sizes \subseteq Nat /\ MaxHidden \in Nat
ASSUME LowerAssumption ==
  /\ IsFiniteSet(DOMAIN Lower)
  /\ DOMAIN Lower \subseteq Paths
  /\ \A p \in DOMAIN Lower :
       /\ Lower[p] \in Upper!Entry
       /\ Lower[p].kind # "lazy"
       /\ \A q \in Paths : IsStrictPrefix(q, p) => Upper!IsDir(Lower, q)

InUpper(p) == p \in DOMAIN upper
InLower(p) == p \in DOMAIN Lower

(* is_whiteout: a whiteout hides its path and everything below.            *)
Whited(p) == \E q \in whiteouts : IsPrefix(q, p)

(* What stat, exists and read_file find.                                   *)
Visible == [p \in {q \in DOMAIN upper \cup DOMAIN Lower : ~Whited(q)} |->
              IF InUpper(p) THEN upper[p] ELSE Lower[p]]

(***************************************************************************)
(* FsUsage, and the limits of the combined view.                           *)
(***************************************************************************)
Usage(e) == [bytes |-> Upper!Bytes(e, DOMAIN e),
             files |-> Cardinality(Upper!NonDirs(e)),
             dirs  |-> Cardinality(Upper!OfKind(e, {"dir"}))]

(* mutant: the sum may leave the range of the counter *)
WrappingAdd(a, b) == a + b
SaturatingAdd(a, b) == IF a + b > MaxHidden THEN MaxHidden ELSE a + b
SaturatingSub(a, b) == IF a < b THEN 0 ELSE a - b

(* compute_usage.                                                          *)
Used(what) ==
  SaturatingSub(Usage(upper)[what] + Usage(Lower)[what], hidden[what])

(* check_write_limits: no file that is replaced is deducted.               *)
WriteFits(n) ==
  /\ n <= MaxFileSize
  /\ Used("bytes") + n <= MaxTotalBytes
  /\ Used("files") < MaxFileCount

DirsFit(n) == Used("dirs") + n <= MaxDirCount

(***************************************************************************)
(* Plans: the calls an operation has decided to make.                      *)
(***************************************************************************)
CallNames == {"unhide", "parent", "write", "append", "mkdir", "mkdirAll",
              "symlink", "remove", "removeAll", "hideFile", "hideDir",
              "hideBelow", "whiteout", "writeFile", "removeFile"}
OperationNames == {"write", "append", "mkdir", "remove", "symlink", "copy",
                   "rename", "metadata"}

Steps == [do : CallNames, path : Paths, size : Nat]
Calls == [op : OperationNames, from : Paths, to : Paths,
          want : Upper!Entry \cup {NoEntry}, todo : Seq(Steps)]
ASSUME SentinelsAssumption == NoCall \notin Calls /\ NoEntry \notin Upper!Entry

Step(do, p, n) == [do |-> do, path |-> p, size |-> n]
Refused == <<Step("refuse", <<>>, 0)>>
When(condition, steps) == IF condition THEN steps ELSE <<>>

(* hide_lower_file or hide_lower_dir; a symlink or a fifo of the lower     *)
(* layer is not recorded.                                                  *)
Hide(p) ==
  CASE Lower[p].kind = "file" -> <<Step("hideFile", p, Lower[p].size)>>
    [] Lower[p].kind = "dir"  -> <<Step("hideDir", p, 0)>>
    [] OTHER -> <<>>

(* A lower file is brought to the upper layer with n bytes.                *)
CopyUp(p, n) ==
  <<Step("parent", p, 0), Step("write", p, n), Step("hideFile", p, Lower[p].size)>>

(* mutant: the whiteout stays *)
WriteUnderWhiteout(p, n) ==
  IF WriteFits(n)
  THEN <<Step("parent", p, 0), Step("write", p, n)>>
       \o When(InLower(p) /\ ~InUpper(p) /\ ~Whited(p), Hide(p))
  ELSE Refused

WritePlan(p, n) ==
  IF WriteFits(n)
  THEN <<Step("unhide", p, 0), Step("parent", p, 0), Step("write", p, n)>>
       \o When(InLower(p) /\ ~InUpper(p) /\ ~Whited(p), Hide(p))
  ELSE Refused

(* append_file creates a file, but not where one was deleted.              *)
AppendPlan(p, n) ==
  CASE Whited(p) -> Refused
    [] ~Whited(p) /\ InUpper(p) ->
         IF WriteFits(n) THEN <<Step("append", p, n)>> ELSE Refused
    [] ~Whited(p) /\ ~InUpper(p) /\ InLower(p) ->
         IF Upper!Readable(Lower, p) /\ WriteFits(Lower[p].size + n)
         THEN CopyUp(p, Lower[p].size + n)
         ELSE Refused
    [] OTHER -> IF WriteFits(n) THEN <<Step("write", p, n)>> ELSE Refused

(* count_missing_upper_dirs.                                               *)
MissingDirs(p, all) ==
  Cardinality({q \in (IF all THEN Upper!Ancestors(p) ELSE {}) \cup {p} : ~InUpper(q)})

MkdirPlan(p, all) ==
  IF DirsFit(MissingDirs(p, all))
  THEN <<Step("unhide", p, 0), Step(IF all THEN "mkdirAll" ELSE "mkdir", p, 0)>>
  ELSE Refused

(* mutant: what is in the upper layer is removed there and nowhere else *)
RemoveFromOne(p, all) ==
  LET inLower == ~Whited(p) /\ InLower(p) IN
  CASE InUpper(p) -> <<Step(IF all THEN "removeAll" ELSE "remove", p, 0)>>
    [] ~InUpper(p) /\ inLower -> Hide(p) \o <<Step("whiteout", p, 0)>>
    [] OTHER -> Refused

(* mutant: a whiteout for whatever is removed *)
RemoveAndWhiteout(p, all) ==
  IF InUpper(p) \/ (~Whited(p) /\ InLower(p))
  THEN When(InUpper(p), <<Step(IF all THEN "removeAll" ELSE "remove", p, 0)>>)
       \o <<Step("whiteout", p, 0)>>
  ELSE Refused

(* remove asks the upper layer whether a directory is empty, not the view. *)
RemovePlan(p, all) ==
  LET inLower == ~Whited(p) /\ InLower(p) IN
  IF InUpper(p) \/ inLower
  THEN When(InUpper(p), <<Step(IF all THEN "removeAll" ELSE "remove", p, 0)>>)
       \o When(inLower /\ ~InUpper(p), Hide(p))
       \o When(inLower /\ ~InUpper(p) /\ all /\ Upper!IsDir(Lower, p),
               <<Step("hideBelow", p, 0)>>)
       \o When(inLower, <<Step("whiteout", p, 0)>>)
  ELSE Refused

SymlinkPlan(p) ==
  IF WriteFits(0)
  THEN <<Step("unhide", p, 0), Step("symlink", p, 0)>>
  ELSE Refused

(* copy and rename move a file by write_file, a symlink as it is, and no   *)
(* directory.                                                              *)
CopyPlan(from, to) ==
  CASE from \in Upper!OfKind(Visible, {"symlink"}) -> SymlinkPlan(to)
    [] Upper!Readable(Visible, from) -> <<Step("writeFile", to, Visible[from].size)>>
    [] OTHER -> Refused

(* mutant: the source goes first *)
RemoveThenWrite(from, to) ==
  IF CopyPlan(from, to) = Refused THEN Refused
  ELSE <<Step("removeFile", from, 0)>> \o CopyPlan(from, to)

RenamePlan(from, to) ==
  IF CopyPlan(from, to) = Refused THEN Refused
  ELSE CopyPlan(from, to) \o <<Step("removeFile", from, 0)>>

(* chmod and set_modified_time of an entry of the upper layer change its   *)
(* metadata alone; one of the lower layer is brought up if it is of a kind *)
(* that the operation knows.                                               *)
MetadataPlan(p, kinds) ==
  LET known == InLower(p) /\ Lower[p].kind \in kinds IN
  CASE Whited(p) \/ ~(InUpper(p) \/ known) -> Refused
    [] ~Whited(p) /\ InUpper(p) -> <<>>
    [] OTHER ->
         CASE Upper!IsDir(Lower, p) /\ DirsFit(MissingDirs(p, TRUE)) ->
                <<Step("mkdirAll", p, 0), Step("hideDir", p, 0)>>
           [] Upper!Readable(Lower, p) /\ WriteFits(Lower[p].size) ->
                CopyUp(p, Lower[p].size)
           [] Lower[p].kind = "symlink" /\ WriteFits(0) ->
                <<Step("parent", p, 0), Step("symlink", p, 0), Step("hideFile", p, 0)>>
           [] OTHER -> Refused

(***************************************************************************)
(* The operations.  `want` is history: the entry that the caller of a      *)
(* write expects at `to`.                                                  *)
(***************************************************************************)
Answers(ok) == outcome' = [ok |-> ok, read |-> Upper!NotRead]

Begins(s, op, from, to, want, plan) ==
  /\ call[s] = NoCall /\ op \in Operations[s]
  /\ Answers(plan # Refused)
  /\ call' = [call EXCEPT ![s] =
       IF plan \in {Refused, <<>>} THEN NoCall
       ELSE [op |-> op, from |-> from, to |-> to, want |-> want, todo |-> plan]]
  /\ UNCHANGED <<upper, whiteouts, hidden, saved, kept>>

SizeAt(p) == IF Upper!Readable(Visible, p) THEN Visible[p].size ELSE 0

WriteFile(s, p, n) ==
  Begins(s, "write", p, p, Upper!Plain("file", n), WritePlan(p, n))

AppendFile(s, p, n) ==
  Begins(s, "append", p, p, Upper!Plain("file", SizeAt(p) + n), AppendPlan(p, n))

Mkdir(s, p, all) == Begins(s, "mkdir", p, p, Upper!Directory, MkdirPlan(p, all))

RemovePath(s, p, all) == Begins(s, "remove", p, p, NoEntry, RemovePlan(p, all))

Symlink(s, p) == Begins(s, "symlink", p, p, Upper!Plain("symlink", 0), SymlinkPlan(p))

Moved(p) == Upper!Plain(IF p \in Upper!OfKind(Visible, {"symlink"}) THEN "symlink" ELSE "file",
                        SizeAt(p))

Copy(s, from, to) == Begins(s, "copy", from, to, Moved(from), CopyPlan(from, to))

Rename(s, from, to) == Begins(s, "rename", from, to, Moved(from), RenamePlan(from, to))

Chmod(s, p) ==
  Begins(s, "metadata", p, p, NoEntry, MetadataPlan(p, {"file", "dir"}))

SetModifiedTime(s, p) ==
  Begins(s, "metadata", p, p, NoEntry, MetadataPlan(p, {"file", "fifo", "dir", "symlink"}))

(***************************************************************************)
(* The calls.  An error ends the operation where it is.                    *)
(***************************************************************************)
Now(s) == Head(call[s].todo)
With(c, todo) == [c EXCEPT !.todo = todo]

Proceeds(s) ==
  call' = [call EXCEPT ![s] =
    IF outcome'.ok /\ Len(@.todo) > 1 THEN With(@, Tail(@.todo)) ELSE NoCall]

(* One call to the upper layer.                                            *)
CallsUpper(s) ==
  LET do == Now(s).do
      p == Now(s).path
      n == Now(s).size
  IN
  /\ call[s] # NoCall
  /\ \/ do = "write" /\ Upper!WriteFile(p, n)
     \/ do = "append" /\ \/ Upper!AppendNew(p, n)
                         \/ Upper!AppendOld(p, n)
                         \/ Upper!AppendElsewhere(p)
     \/ do = "mkdir" /\ Upper!Mkdir(p)
     \/ do = "mkdirAll" /\ Upper!MkdirAll(p)
     \/ do = "symlink" /\ Upper!Symlink(p)
     \/ do = "remove" /\ Upper!RemovePath(p, FALSE)
     \/ do = "removeAll" /\ Upper!RemovePath(p, TRUE)
  /\ Proceeds(s)
  /\ UNCHANGED <<whiteouts, hidden, saved, kept>>

(* The parent of what is written is made in the upper layer, if the lower  *)
(* one has any entry there.                                                *)
MakesParent(s) ==
  LET parent == Front(Now(s).path) IN
  /\ call[s] # NoCall /\ Now(s).do = "parent"
  /\ IF InUpper(parent) THEN Answers(TRUE) /\ UNCHANGED upper
     ELSE IF InLower(parent) THEN Upper!MkdirAll(parent)
     ELSE Answers(FALSE) /\ UNCHANGED upper
  /\ Proceeds(s)
  /\ UNCHANGED <<whiteouts, hidden, saved, kept>>

(* mutant: the whiteouts of the directories above go too *)
WithoutAncestors(p) == {q \in whiteouts : ~IsPrefix(q, p)}

(* remove_whiteout.                                                        *)
Unhidden(p) == whiteouts \ {p}

RemovesWhiteout(s) ==
  /\ call[s] # NoCall /\ Now(s).do = "unhide"
  /\ whiteouts' = Unhidden(Now(s).path)
  /\ Answers(TRUE)
  /\ Proceeds(s)
  /\ UNCHANGED <<upper, hidden, saved, kept>>

AddsWhiteout(s) ==
  /\ call[s] # NoCall /\ Now(s).do = "whiteout"
  /\ whiteouts' = whiteouts \cup {Now(s).path}
  /\ Answers(TRUE)
  /\ Proceeds(s)
  /\ UNCHANGED <<upper, hidden, saved, kept>>

HideMore(bytes, files, dirs) ==
  hidden' = [bytes |-> SaturatingAdd(hidden.bytes, bytes),
             files |-> SaturatingAdd(hidden.files, files),
             dirs  |-> SaturatingAdd(hidden.dirs, dirs)]

(* hide_lower_children_recursive looks at each child as it comes to it.    *)
HidesLower(s) ==
  LET p == Now(s).path
      below == {q \in DOMAIN Lower : IsStrictPrefix(p, q) /\ ~Whited(q)}
      files == {q \in below : Lower[q].kind = "file" /\ ~InUpper(q)}
      dirs == {q \in below : Lower[q].kind = "dir"}
  IN
  /\ call[s] # NoCall
  /\ \/ Now(s).do = "hideFile" /\ HideMore(Now(s).size, 1, 0)
     \/ Now(s).do = "hideDir" /\ HideMore(0, 0, 1)
     \/ /\ Now(s).do = "hideBelow"
        /\ HideMore(Upper!Bytes(Lower, files), Cardinality(files), Cardinality(dirs))
  /\ Answers(TRUE)
  /\ Proceeds(s)
  /\ UNCHANGED <<upper, whiteouts, saved, kept>>

(* copy and rename call write_file and remove, which look again.           *)
CallsItself(s) ==
  LET p == Now(s).path
      plan == CASE Now(s).do = "writeFile" -> WritePlan(p, Now(s).size)
                [] Now(s).do = "removeFile" -> RemovePlan(p, FALSE)
  IN
  /\ call[s] # NoCall /\ Now(s).do \in {"writeFile", "removeFile"}
  /\ Answers(plan # Refused)
  /\ call' = [call EXCEPT ![s] =
       IF plan = Refused THEN NoCall ELSE With(@, plan \o Tail(@.todo))]
  /\ UNCHANGED <<upper, whiteouts, hidden, saved, kept>>

(* vfs_snapshot and vfs_restore are those of the upper layer alone.        *)
VfsSnapshot(s) ==
  call[s] = NoCall /\ Upper!Snapshot /\ UNCHANGED <<whiteouts, hidden, call>>
VfsRestore(s) ==
  call[s] = NoCall /\ Upper!Restore /\ UNCHANGED <<whiteouts, hidden, call>>

Init ==
  /\ Upper!Init
  /\ whiteouts = {}
  /\ hidden = [bytes |-> 0, files |-> 0, dirs |-> 0]
  /\ call = [s \in Sessions |-> NoCall]

Starts(s) ==
  \/ \E p \in Targets, n \in Sizes : WriteFile(s, p, n) \/ AppendFile(s, p, n)
  \/ \E p \in Targets, all \in BOOLEAN : Mkdir(s, p, all) \/ RemovePath(s, p, all)
  \/ \E p \in Targets : Symlink(s, p) \/ Chmod(s, p) \/ SetModifiedTime(s, p)
  \/ \E from \in Targets, to \in Targets : Copy(s, from, to) \/ Rename(s, from, to)
  \/ VfsSnapshot(s) \/ VfsRestore(s)

Runs(s) ==
  \/ CallsUpper(s) \/ MakesParent(s)
  \/ RemovesWhiteout(s) \/ AddsWhiteout(s) \/ HidesLower(s)
  \/ CallsItself(s)

Next == \E s \in Sessions : Starts(s) \/ Runs(s)

Spec == Init /\ [][Next]_vars

----------------------------------------------------------------------------
(***************************************************************************)
(* Properties.                                                             *)
(***************************************************************************)
Usages == [{"bytes", "files", "dirs"} -> 0..MaxHidden]

(* The types: counters stay in range, and a session that is in the middle  *)
(* of an operation has a call left to make.                                *)
TypeOK ==
  /\ Upper!TypeOK
  /\ whiteouts \subseteq Paths
  /\ hidden \in Usages
  /\ \A s \in Sessions :
       call[s] # NoCall => call[s] \in Calls /\ call[s].todo # <<>>

(* A whiteout hides something of the lower layer (overlay.rs:172           *)
(* "Paths that have been deleted"): deleting what only the upper layer     *)
(* holds leaves none behind, so there are never more than lower entries,   *)
(* whatever two sessions delete and create at once.                        *)
WhiteoutsHideSomething == whiteouts \subseteq DOMAIN Lower

(* No call of an operation can be noticed at a path that is neither above  *)
(* nor below one it names: deleting and creating again in one directory    *)
(* never brings back another entry of it (overlay.rs:440).                 *)
Related(p, q) == IsPrefix(p, q) \/ IsPrefix(q, p)
OthersUndisturbed ==
  [][\A s \in Sessions : Runs(s) =>
       \A q \in Paths :
         ~Related(q, call[s].from) /\ ~Related(q, call[s].to) =>
           /\ q \in DOMAIN Visible' <=> q \in DOMAIN Visible
           /\ q \in DOMAIN Visible => Visible'[q] = Visible[q]]_vars

Succeeds(s) == call[s] # NoCall /\ call'[s] = NoCall /\ outcome'.ok
Reachable(p, hiding) == \A q \in hiding : ~IsStrictPrefix(q, p)

VisibleSizes == [p \in DOMAIN Visible |-> Visible[p].size]

(* One session at a time: what was written, appended, made, copied or      *)
(* moved is found by the next look, wherever it or its earlier version     *)
(* was, unless a directory above it is whited out, which write_file does   *)
(* not ask (overlay.rs:489).  And no step of chmod or set_modified_time    *)
(* changes a content, though they bring a lower entry up (overlay.rs:859). *)
WritesAreFound ==
  [][\A s \in Sessions :
       LET c == call[s] IN
       /\ Succeeds(s) /\ c.want # NoEntry /\ ~(c.op = "rename" /\ c.from = c.to)
            /\ Reachable(c.to, whiteouts') =>
              c.to \in DOMAIN Visible' /\ Visible'[c.to] = c.want
       /\ Runs(s) /\ c.op = "metadata" => VisibleSizes' = VisibleSizes]_vars

(* One session at a time: what was removed, or moved away, is not found    *)
(* again in the layer below (overlay.rs:56 "deleted files are hidden").    *)
RemovedIsGone ==
  [][\A s \in Sessions :
       LET c == call[s] IN
       Succeeds(s) /\ (c.op = "remove" \/ (c.op = "rename" /\ c.from # c.to)) =>
         c.from \notin DOMAIN Visible']_vars

(* One session at a time: after each call of a rename, one that fails      *)
(* included, the content is at the old path or at the new one              *)
(* (overlay.rs:768); a fifo becomes a file.  Not so when a file is moved   *)
(* below itself: write_file makes a directory of the upper layer over a    *)
(* file of the lower one before it writes (overlay.rs:499).                *)
Carries(x, want) ==
  IF want.kind = "symlink" THEN x.kind = "symlink"
  ELSE x.kind \in {"file", "fifo"} /\ x.size = want.size

RenameKeepsContent ==
  [][\A s \in Sessions :
       LET c == call[s] IN
       Runs(s) /\ c.op = "rename" /\ ~IsPrefix(c.from, c.to)
            /\ Reachable(c.to, whiteouts') =>
         \E p \in {c.from, c.to} : p \in DOMAIN Visible' /\ Carries(Visible'[p], c.want)]_vars

(* overlay.rs:54 "Reads: Check upper layer first, fall back to lower       *)
(* layer".  A whiteout above hides what the upper layer holds, and a write *)
(* below a deleted directory makes such an entry.                          *)
ReadsCheckUpperFirst == DOMAIN upper \subseteq DOMAIN Visible

(* overlay.rs:8: "Limits apply to the combined filesystem view (upper +    *)
(* lower)."  What a recursive removal deducts comes back when the          *)
(* directory is made again.                                                *)
CombinedWithinLimits ==
  Upper!Bytes(Visible, DOMAIN Visible) <= MaxTotalBytes
=============================================================================
