# bashkit in TLA+

Specifications, model-checking runs and machine-checked proofs for bashkit, an
in-process bash interpreter with a virtual file system (`crates/bashkit`). Paths
below are relative to `crates/bashkit/src/` unless they start with `crates/`.

## 1. The system

| Part | State | Operations | What makes it hard |
|---|---|---|---|
| Execution engine (`interpreter/mod.rs`, `limits.rs`, `lib.rs`) | variables, functions, traps and options (`SubshellSnapshot`), `call_stack`, `bash_source_stack`, `pipeline_stdin`, `output_callback`, `pending_fd_capture_depth`, `in_trap`, `ExecutionCounters` | `exec`, `execute`, `execute_command` and every construct that awaits it | an await can return, fail with `?` or be dropped by a timeout; each construct restores its own fields, on some of these ways only; eval and aliases re-enter `execute` |
| Shell state and memory budget (`interpreter/mod.rs`, `limits.rs`) | maps of variables, environment, arrays, functions; locals of each call; counts of all of them | assignments, declarations, unset, calls, subshells, child shells | the counts are kept beside the maps, one change at a time, and not every builtin tells them |
| Snapshots (`snapshot.rs`) | a serialised session | take, restore | a restore has to check everything before it changes anything |
| Control flow and `set -e` (`interpreter/mod.rs`, `interpreter/state.rs`, `builtins/flow.rs`) | none beyond the result a command returns | every construct that runs commands | a result says what its callers still have to do, and each of a dozen of them passes it on, counts it down or ends it in its own code |
| Patterns (`interpreter/glob.rs`, `interpreter/mod.rs`) | none | match, remove a prefix or a suffix | backtracking under a depth limit; five code paths for removal |
| In-memory file system (`fs/memory.rs`, `fs/limits.rs`) | one map of paths to entries under one `RwLock` | read, write, append, mkdir, remove, rename, copy, symlink, chmod, lazy files, snapshot, restore | the read of a lazy file takes the lock twice; each operation checks its own selection of limits and type rules |
| Overlay file system (`fs/overlay.rs`) | upper layer, lower layer, whiteouts, usage corrections | the same operations | each is several operations on two layers without a common lock |
| Mountable file system (`fs/mountable.rs`) | mount table | mount, unmount, path resolution, the same operations | cross-mount rename and copy are not atomic; the table may change between two steps |
| Wrappers (`fs/posix.rs`, `fs/readonly.rs`, `fs/realfs.rs`, `fs/backend.rs`, `fs/search.rs`) | none, or the host's | checks around an inner backend | type rules that every backend must keep (`specs/vfs.md`) |
| Network client (`network/`, `credential.rs`, `hooks.rs`, `builtins/curl.rs`, `builtins/http.rs`) | allowlist, credential rules, hooks; per command the headers, the redirects and the body | one command with its redirects | each hop must be allowed again, names resolve differently each time, servers may do anything |
| Bindings (`crates/bashkit-js`, `crates/bashkit-python`) | a locked session, a cancellation flag, callbacks | execute, executeSync, cancel, reset, file access | callbacks need the event loop that a blocking call holds; three parties set and clear one flag |
| Job table (`interpreter/jobs.rs`) | results of background jobs | spawn, wait, wait_all | nothing runs beside the script: `&` is awaited at once |
| Parser (`parser/`) | depth, fuel | parse, static budget | termination and limits on any input |
| Builtins (`builtins/`) | mostly none; sqlite, git, ssh, python and typescript hold some | one call each | `timeout`, `parallel`, `retry` and `wait` hand plans back to the interpreter |
| Tools (`tool.rs`, `scripted_tool/`) | registered tools, streams | execute, stream | callbacks during execution |
| CLI, benches, evaluation, fuzzing, site | none shared | drivers | none |

A `Bash` value owns its interpreter (`&mut self`), so inside one session the
interleavings are those of awaits, timeouts and the shared cancellation token.
Two sessions may share an `Arc<dyn FileSystem>`, and then each file-system call
interleaves with the other's (`specs/parallel-execution.md`). A binding shares
one session among threads and the event loop of its host, under a lock.

## 2. Modules

| Module | What it models |
|---|---|
| `ExecEngine` | the execution engine: the nest of awaiting calls, what each saves and restores, counters and limits, traps, timeouts, cancellation |
| `ShellState` | the data of a session and the memory budget beside it; children, snapshots and restores |
| `Commands` | the commands of scripts, the places where each may stand, what a shell keeps on its stack |
| `ControlFlow` | the nested calls that run a script, and the results that carry `break`, `continue`, `return`, `exit` and `set -e` up through them; it implements `ShellMachine` |
| `ShellMachine` | the abstract specification: a shell as POSIX and bash describe it, a machine with one stack |
| `Patterns` | the pattern matcher and the removal of prefixes and suffixes, against what patterns mean |
| `MemFs` | the in-memory file system and its limits |
| `OverlayFs` | the overlay file system; its upper layer is an instance of `MemFs` |
| `MountFs` | the mountable file system; its root and what is mounted are instances of `MemFs` |
| `HttpTransfer` | one network command: allowlist, lookups, hooks, credentials, redirects, limits, timeouts |
| `SharedSession` | one instance of the JavaScript binding: promises and blocking calls on a locked session, callbacks, one cancellation flag |
| `MC...` | finite instances of each for TLC; `MCStray` runs single scripts that `ControlFlow` does not speak of |
| `ExecEngineProofs`, `ShellStateProofs`, `MemFsProofs`, `OverlayFsProofs`, `MountFsProofs`, `HttpTransferProofs`, `SessionProofs` | theorems for every value of the constants |
| `SumLemmas` | what the sum of a function over a finite set is and how it changes, for the proofs about bytes and counts |

### ExecEngine

A call that awaits other commands is a *frame*; `stack` is the nest of frames,
outermost first, and a frame holds what the Rust function has in its local
variables across the await. `shell` holds the interpreter fields that calls
save and restore. The maps of `SubshellSnapshot` are always saved and restored
together, so they are one abstract value, `scope`. `mode` says whether the top
call is awaiting commands (`"run"`), an `Err` is on its way up (`"err"`) or no
`exec` is running (`"idle"`).

One action starts each construct (`FunctionCall`, `SubshellBegins`, `Source`,
`ShellBegins` for `bash -c`, `ScriptBegins` for `./file`, `EvalOrAlias`,
`LoopBegins`, `TrapFires`, `TimeoutBegins`, ...), guarded by what
`execute_command` checks first: the token, `tick_command`, the session limits.
`a | b | c` is `PipelineBegins` and a frame `"pipeline"`, under which the stages run
one after the other, as many as the limits let. A simple stage is one of the other
actions; `execute_pipeline` only ticks it, so that neither the token nor the session
limits are asked (`AtStage` in `Admitted`, `interpreter/mod.rs:4121`). A compound
stage gets a frame `"pipe"` that holds the pipeline input to put back
(`CompoundPipelineStage`), and its command goes through `execute_command`.
Every call can end in three ways, and these are actions of their own, because
the code does different things in each: `Returned` runs the whole code after
the await (`Restored`), `ErrorPropagates` what is left of it when the await is
followed by `?` (`RestoredOnError`), `TimeoutElapses` and `ExecTimesOut` none of
it. `Features` selects the constructs and host events an instance uses, so that
a run can ask what holds without eval, aliases or timeouts.

Abstracted: the words, redirection targets and output of commands; control flow
values (`break`, `return`, `exit` end a call like `Returned`; where they go is
`ControlFlow`); the memory budget; background jobs. `work` is a history variable.

### MemFs

`entries` is the map behind the lock of `InMemoryFs`. A path is the sequence of
its components and `/` is the empty sequence, so "the parent" and "below" are
those of sequences; contents are represented by their length, which is all the
limits and the copies depend on; a lazy file is represented by its loader, with
the size its registration declared (`Hint`) and the length it loads
(`LoadSize`), which may differ.

There is one action per operation of the `FileSystem` and `FileSystemExt`
traits (`WriteFile`, `Mkdir`, `MkdirAll` for `mkdir -p`, `RemovePath`, `Rename`,
`Copy`, `Symlink`, `Mkfifo`, `AddFile`, `AddLazyFile`, `Snapshot`, `Restore`;
appending is three, because it treats an absent path, a file and anything else
differently). An operation that fails is a step too: `Ends` sets the entries it
leaves behind and the verdict it returns. Each takes the write lock once and is
one step, but for `read_file` of a lazy file, which is `ReadFile` under the read
lock and `ReadLazy` under the write lock: every other operation may come
between, and `pending` is what the waiting reader remembers, the path only.

`loaderRuns`, `kept` and `outcome` are history variables: how often each loader
ran, what readers would have seen when the snapshot was taken, how the last
operation ended. The host keeps one snapshot and restores only what it took.

Abstracted: modes and times (no operation reads them), symlink targets (the
in-memory file system never follows one), the `/dev` files and the other
directories a new file system starts with (they are `StartDirs`), the fail
points of the tests, the validation of the path itself. `Paths` is finite, as
`max_path_length` makes it.

### OverlayFs

`upper` is the map of the upper layer, and every call to it is the action of
`MemFs` for that operation (`Upper == INSTANCE MemFs WITH entries <- upper,
...`). `BashBuilder::build` adds the files and lazy files it is given straight to the
upper layer of a new overlay (`lib.rs:2497`), past its limits; the model starts
without them, and since no operation of the overlay makes a lazy file, lazy entries of
the upper layer are not modelled. `whiteouts` and `hidden` are the two other
locked fields. The lower layer is a constant: the code never writes to it, and
the properties should hold whatever it holds.

The code takes no lock over a whole operation. It asks both layers and the
whiteouts some questions, decides, and then makes a number of calls that each
take one lock. An operation of the model does the same: its first action
(`WriteFile`, `RemovePath`, `Rename`, ...) looks and leaves the *plan*, the
sequence of calls still to make, in the session's `todo`; `CallsUpper`,
`MakesParent`, `RemovesWhiteout`, `AddsWhiteout`, `HidesLower` each make the
first call of it. An error ends the operation where it is. `rename` and `copy`
call `write_file` and `remove` of the overlay itself, which look again
(`CallsItself`). With several sessions the calls interleave in any way.
The properties about the result of an operation are asked of one session; with
two, what any interleaving must keep.

Consecutive questions of one operation are one step, so another session never
comes between two of them. Modes, times, symlink targets and path validation
are left out. `Operations` names what each session does in an instance;
`MaxHidden` stands for `u64::MAX`, where the deductions of `hidden` saturate.
`want` is a history variable, the entry the caller of an operation may expect.

What `read_dir` lists is not modelled; it agrees with `exists` (`Visible`)
but for entries below something that is no longer a directory.

An implementation of a plain file system is not stated: the code differs from
one in the ways the hazards list (a write below a deleted directory is not
found, a directory that is made again has its old children, `rename` of a path
to itself deletes it, a failing write brings a deleted entry back), so the
properties say what is kept. `RenameKeepsContent` leaves out a target that a
whiteout above it hides and a target below the source: `write_file` then makes a
directory of the upper layer over the source, a file of the lower one, before it
writes (`fs/overlay.rs:499`), and the limits may refuse the write.

### MountFs

`root` and `data` are the maps of two in-memory file systems, each an instance
of `MemFs`; `mounts` is the table from mount points to backends. A backend is a
file system and the `Arc` the host handed over: the same one, a `ReadOnlyFs`
around it, or another `Arc` that reaches it, because `rename` and `copy` compare
`Arc`s (`PtrEq`). `Resolve` is `resolve`: the longest mount point wins.

An operation resolves its path (`Begins`), lets go of the table and calls the
backend (`Calls`); `rename` and `copy` resolve twice (`ResolvesTo`), and between
two backends they are `Reads`, `Writes` and, for `rename`, `Removes`. The host's
`Mount` and `Unmount` come between any two of these. `fresh` is a history
variable: the table is still the one the operation saw.

Left out: `vfs_snapshot` and `vfs_restore` (those of the root), the sum of
what `usage` reports, modes and times.

### ShellState

`shell` is a record of the interpreter's maps (`variables`, `env`, `arrays`,
`functions`, the locals of every call frame, the readonly marks, `allexport`) and
its `MemoryBudget`. A value is its length, an array the set of its indices, a
function the length of its body: what the budget counts. The maps are finite, with
any of the names. Every helper that asks
and tells the budget is an operator that gives the shell that follows
(`InsertVariable`, `SetVariable`, `InsertLocal`, `InsertArray`, `InsertElement`,
`InsertFunction`), with the code's choice of check and record, which differ: a
value that does not fit is dropped in silence, `set_variable` into a local
records without a check, `unset` tells nobody.

`nest` holds the commands that run others: a call, a command with a prefix
assignment, `$(...)`, `( ... )`, `bash -c`, a script; each with what it saved.
`Return` gives back what that kind gives back (`Returned`): an environment of
its own only for a script, the call frames only for `( ... )` and a script. A
restore (`RestoreSnapshot`) validates, restores the files, then the shell, and
parses the functions again in the order of their names, each against the budget
of those taken before it (`Takes`, `Reparsed`).

`drifted` is a history variable: a builtin has stored past the budget
(`readonly n=v`, `export n=v`, `printf -v`, `local a=(...)`), or a substitution
changed locals, which the restored budget does not know of. Errors and drops in
the middle of a command are those of `ExecEngine`.

Left out: namerefs, integer and case attributes, aliases, the arrays and markers
the interpreter keeps for itself, the digest of a snapshot and the counters it
captures and does not restore.

### ControlFlow

`execute_command` and the functions it calls for each construct call themselves
for the commands inside; every call gives an `ExecResult` that says what its
caller still has to do. `calls` is the nest of open calls, the innermost first,
each with the local variables it has across the await (the commands that are
left, `acc` of a loop, the operator of a list). `control` is the command that runs
next or the result that the innermost call is given: a status, a flow (`break` and
`continue` with a count, `return` and `exit` with a code) and
`errexit_suppressed`. `RunSimple` runs a simple command, which is only what it does
to the status and the flow; one `Open...` action enters each construct; and one
action each stands for the ways a call goes on with a result or ends with one
(`LeaveSequence`, `EndSequence`, `GoOnSequence`; `BreakLoop`, `LeaveLoop`,
`NextWord`, `TestLoop`, `DecideLoop`; ...). Words, redirections and output are left
out. A `for` has `MaxRounds` words and the condition of a `while` ends in a test
that holds as many times.

`ShellMachine` is the specification it implements, written from what POSIX and bash
say and built in another way. It has no results: it has one stack of commands and
of what open constructs have still to do. `break n` drops everything up to the n-th
round of a loop, `return` up to its function, `exit` up to its shell, all at once;
with `set -e` a failure that no item of the stack tests leaves the shell.
`ran` is the trace both have in common: the simple commands in their order, with a
mark where the body of a loop begins.

`ImplementsShell == Shell!Spec` is the refinement. The stack of the shell is the
command that runs on top of what each open call will still do (`Pending`); while a
flow is on its way up through the calls, the shell has already dropped
everything above its target (`Reached`), so the steps in between are stutters. Three
pieces of history make the mapping a function of the state: `below` and
`scope` of each call (what is under it on the stack, where it stands), `left` of a result
(the shell has left at this failure), and `last` (the status a command finds).

The interpreter is not bash for every script, and `Fits` says for which it is
claimed: each command stands in a scope that says how many loops a `break` may
count, whether there is a function for a `return`, and, with `set -e`, where
failures may happen. The restrictions are these, and each is a place where the code
differs (see below):

* no `break` from a subshell, function or pipeline stage to a loop outside it, no flow
  out of a condition, a sourced file or the last stage of a pipeline;
* with `set -e`: what is tested is a simple command; no untested failure in the body of
  a loop, in an arm that falls through, after `&&` or `||`, or in a list on a line of
  its own; no failure that was tested becomes the status of a function, a subshell, a
  pipeline, a `case` or a sourced file, where the code would take it for a
  new one.

A legal script is one whose lines fit the outermost scope. `Legal` is the set of
pairs of a command and a scope; `LegalAssumption` says that every part of a
legal command is legal in the scope of the part, which makes the definition recursive
without a recursive operator. Without `set -e` nothing but the places of flows is
restricted.

Left out: `select`, `time`, `coproc`, background commands, `pipefail`, traps,
`exit` and `return` without a number (which give 0), an `on_exit` hook that
cancels the exit.

### Patterns

The matcher as it is written (`GlobMatchImpl`, `Walk`, `MatchExtglob`, with its
depth limit), over patterns of tokens: the scanning of brackets and groups is
left out. `Means` is the reference, written from what POSIX and bash say: the
value is cut into pieces, one for each token. `RemovePattern` is
`${x#p}`, `${x##p}`, `${x%p}`, `${x%%p}` with the five ways the code takes. The
specification grows a value and a pattern, so that every pair within the bounds
is a state; `Searched` names the patterns that the depth limit does not cut off.

With a bracket or a group in the pattern, removal asks the matcher about one cut of
the value after the other and gives up after `MAX_GLOB_MATCH_CALLS` = 10000 of them
(`Asked`): `RemovalsAreExact` promises the longest removal of fewer characters than
that, and `patterns_known.cfg` shows what is missing. An `Escaped` token is a character
behind a backslash, which is what quoting leaves of it. Removal takes the backslashes
away (`Text`), but the matcher knows none (`Raw`): the exactness of escapes is
claimed where the pattern has no bracket or group, and `patterns_known.cfg` shows
the rest. The alternatives of groups hold no escapes, and `MatchesAreExact` (`case`,
`[[`, pathnames) promises nothing of patterns with them.

### HttpTransfer

One `curl`, `wget` or `http` command. `stage` is the await the command is at:
the check of the URL, the hooks, the second check, the sending, the wait for the
head, the body. `curl` is what the command goes on with after a redirect (URL,
headers, number of redirects), `request` what the hooks made of it. A lookup
gives any of the results the host may have (`Lookups`), a new one each time, and
none when it fails. The servers, the handler of the host and the resolver may do
anything: answer, redirect anywhere, declare a length, send chunks, stall, fail.

Credential rules are applied in the order they were added and before the host's
own hook, as they are registered: one step of `CredentialHook` for each rule of
its loop, and `request.rules` says how many it went through. A header is its name and
one of a few values, a body a number of bytes, an address public or private.
Time is counted from the sending of a request (`Tick`), up to the timeout that
the code picks for the command and the client (`RequestTimeout`).

Left out: the signatures of `bot_auth`, the connect timeout, `after_http` hooks,
exit codes and output formats.

### SharedSession

`phase` says where each call of the host is; `queue` is the chain of promises of
`wrapper.ts`; `holder` has the lock of the session; `loop` is the stack of the
event loop, which is what callbacks and blocking calls share. A promise runs on
another thread: `Locks`, then callbacks (`CallsBuiltin`; `Emits` and `Dispatches`)
that the loop delivers (`Delivers`, `CallbackReturns`, `Resolves`, `Receives`), then
`Finishes` and, on the loop, `Settles`. A script that waits for a builtin or its
promise may time out (`TimesOut`, the timeout of `Bash::exec`, 30 s by default); one
that waits for `onOutput` may not, because its own thread blocks in a channel
(`crates/bashkit-js/src/lib.rs:893`). The promise of a builtin may wait for nothing
of this instance or for one of its promises, which the queue holds behind the
builtin's own call: phase `awaiting`, which only the timeout ends. A callback the loop
runs after its call has timed out is like any task of the host. A blocking call is on the stack from when it is made
until it ends. `cancelled` is the one flag; `requested` and `triggered` say who
of those that set it will clear it.

`kept` is a history variable, a `cancel()` that nothing has taken back.
`HostOverlaps` says whether the host makes blocking calls while a promise with
`onOutput` is pending. That is an assumption of the model: the repository asks only
that `onOutput` itself does not call back, and `docs/custom_builtins_js.md:243` shows
a builtin that reads a file of its own instance, a blocking call the model allows.

Left out: the result and the arguments of calls, `ScriptedTool`, the Python
binding, whose lock and guards are its own code.

## 3. Runs

| Run | Bounds | What it shows |
|---|---|---|
| `exec_nesting` | nest of 4 calls, 2 exec calls, limits of 1 or 2 | without eval, aliases and the timeout builtin: `BookkeepingIsTrue` (counters and the trap flag agree with the nest), `LimitsHold` (recursion, and loops but for one iteration a command, see below), `FailuresLeaveLittle`, `ChildrenAreIsolated` |
| `exec_everything` | nest of 3, everything on; limits of 1 to 3 | `TypeOK`, `OverrunBounded` (the commands of an exec pass `max_commands` by one per open call at most; those of a session by what the stages of open pipelines may still run, see below), `CleanExecsLeaveNothing`, `ExecTerminates` |
| `memfs` | 3 paths below `/`, contents of 1 byte, a lazy file declared 1 and loading 2, limits of 2 files, 3 directories, 2 bytes a file, 3 in all; snapshots of up to 2 paths | `TypeOK`, `FilesWithinLimit`, `BytesWithinLimit`, `ReadsAreTrue`, `FailuresKeepContents`, `RestoreBringsBack` |
| `overlay` | 1 session; lower layer with `/d`, `/d/e`, `/d/f`; operations on `/d`, `/d/f`, `/g`; files of 2 bytes over files of 1; limits of 3 bytes a file, 6 in all, 4 files, 5 directories; deductions up to 2; a snapshot of one path | `TypeOK`, `RenameKeepsContent`, `WritesAreFound`, `RemovedIsGone`, `WhiteoutsHideSomething` (whiteouts name lower entries), `OthersUndisturbed` (no operation is noticed at paths it does not name) |
| `mount` | 1 session; `/f`, `/m`, `/m/f`; mount points `/m` and `/m/f`; the mounted file system itself or read-only; 1 byte a file, 2 in all, 2 files, 3 directories | `TypeOK`, `OnlyNamedTreesChange`, `MoveKeepsContent`, `ListingAgrees` |
| `session` | 1 name, also of an array with 2 indices, 2 functions; values of 1 and 2 bytes; 2 variables, 4 bytes, 1 array element, 1 function; nest of 2 calls or prefixes; 5 foreign snapshots | `TypeOK`, `BudgetGuardsState` (the count covers the state, the state keeps the limits), `OwnSnapshotFits`, `RestoreIsAllOrNothing` |
| `session_children` | 1 name, 1 function, 3 bytes; nest of 2 with one child | `ChildrenLeaveNoTrace` |
| `transfer` | 5 URLs of 4 origins, one that is not allowed and one whose name may be public or private; 3 credential rules; 5 command lines; with and without a handler, private addresses blocked or not; bodies of 1 byte, 2 redirects, timeouts of 1 and 2 | `TypeOK`, `RequestsAreAllowed`, `SecretsStayWhereDue` (injected credentials follow their rules, sensitive headers keep to their origin), `TransferEnds` |
| `bindings` | 7 calls: 3 promises (one with `onOutput`), 2 `executeSync`, a file access, a reset; 3 callbacks a script; three calls with an AbortSignal; no blocking calls while a promise with `onOutput` is pending | `TypeOK`, `FlagMeansCancel`, `EveryCallEnds` |
| `patterns` | values of up to 4 of 2 letters, patterns of up to 3 of 24 tokens, two of them escaped; depth limit 12, 4 calls of the matcher for a removal | `MatchesAreExact`, `RemovalsAreExact` |
| `control` | 3532 scripts: all legal ones that three steps build of 8 simple commands and 22 constructs; loops of 2 rounds; with and without `set -e` | `FlowsReachTheirTargets`, `ImplementsShell` |
| `bindings_hang` | as `bindings`, without that restriction | **violated**: the event loop waits in `executeSync` for a lock whose holder's thread waits for the event loop to run `onOutput`. The guard against re-entry is not up yet when `executeSync` begins, and the execution timeout cannot fire |

`OverrunBounded` says of the session counter no more than the code does. A simple
stage of a pipeline is not asked about `max_session_commands`, so a pipeline of n
stages passes it by n (`exec_pipeline_session.cfg`); only the limit of the exec stops
it, and a trap in a stage, an alias or an `eval` inside opens the next pipeline with
a new exec count. The bound is the nest's depth times what one exec may run.

Each construct acts on another through one frame above or below it, and
limits are reached at one or two: nests of three or four calls and two execs
contain every pair of constructs in either order, an overrun of every limit,
and a second exec after whatever the first left behind. Deadlock is not checked
in these runs because the host may stop calling `exec` when the session is
exhausted; nor in `patterns`, which enumerates and then stops. It is checked in
all the others; in `control` it says that every result has a call that takes it.

`LimitsHold` bounds the iterations of an exec by `max_total_loop_iterations` plus
its commands. The limit alone does not hold: the refusal is an error, a DEBUG, ERR
or EXIT trap swallows the error of what it runs, and the script goes on to the next
loop, which ticks once more before it is refused as well. Each such loop is a
command, and commands have their own limit.

In `memfs` the paths are `/a`, `/a/b` and `/c`: one below another and one apart,
which is what rename, copy and removal tell apart. Two bytes a file and three
in all let an append, an overwrite, a copy and a load each be the one that
breaks a limit. The lazy file declares less than it loads, so a load can be
refused, and `BytesWithinLimit` speaks of the time before a lazy file is added,
because appending and taking a snapshot load unchecked. One waiting reader is
enough for the two locks: what happens between them is every operation of
everybody else.

The lower layer of the overlay runs has a directory with a file that the
operations name and one they do not, and `/g` is in neither layer: a path can be
in the lower layer, in the upper one, in both, in none, and whited out itself or
by the directory above. The limits are low enough that each check refuses in
some state. That whiteouts name lower entries and that other paths are undisturbed
is proved for any number of sessions; `overlay_shared.cfg` checks both for two of
them, one that writes and makes directories and one that removes and changes
metadata. `WritesAreFound`, `RemovedIsGone` and `RenameKeepsContent` are asked of one
session only: `chmod` brings a lower file up from what it read before, over what
another session has written since (`overlay_lost_write.cfg`).

In `mount` a mount point is inside another and a file of the root is hidden by
each, so that the nearest mount, the outer one and the root all differ for some
path. One session is enough: the only shared state between two steps of an
operation is the table and the trees, and what another session could do to a
tree the host's mounts do to the path.

In `session` the limits are at one or two of everything, so that every check
refuses in some state; `unset` and returns let the counts drift upwards for as
long as the limits let them. The foreign snapshots are one that fits and one for
each reason to refuse or to drop something. `session_children` has one child
around or inside one call, prefix or second child's place: what a child leaves
depends only on what it saved and on what is nested in it. `ChildrenLeaveNoTrace` says
nothing of the environment, which only a script puts back, nor of the locals around
`$( ... )` and `bash -c` when there are any, and the run has no arrays. `MaxDrift` bounds the
bytes that builtins and locals store past the limit, which nothing in the code
does.

In `transfer` the chain of redirects may leave the first origin, visit another
and come back, or go to the private or the forbidden URL. Two redirects and a
limit of one byte are enough for one hop too many and one chunk too many.

In `bindings` every pair of kinds of calls may meet; a second promise without
`onOutput` is there to wait behind the first.

In `patterns` three tokens put a token before and after another group or star,
and four letters let a group repeat with an alternative of two. The depth limit
is lowered with the sizes: 12 is reached by some of the pairs, so both sides of
`Searched` occur; the code has 50. The limit of calls is lowered to 4 in the same
way: a value of four letters has five cuts, the last of which is not asked.

In `control` three steps put two constructs around a command with a third beside it,
or one around a pair: a `break 2` with a construct between its loops, a failing list
in a function in a condition. A script may only stand where `Fits` lets it, so each of the 22
constructs is there with what it forbids left out. Two rounds are enough to see
whether a loop goes on. Every script runs to its end.

**Fairness.** `ExecEngine`: weak fairness of the engine's own steps. While an
`exec` is awaited the executor keeps polling its future; nothing is assumed of
the host (new calls, timeouts, the token). `HttpTransfer`: weak fairness of the
client's steps, that is of polling, of lookups that return and of time that
passes; nothing of servers, handlers and hooks. `SharedSession`: strong fairness of
each call's own progress: of threads; of the lock, a tokio mutex, which is granted in
the order of asking; of the event loop, which gets to what waits for it because the
host's tasks and callbacks end, however many blocking calls they make; of scripts
that end, which `ExecTerminates` shows of them, by the execution timeout if not
before. Nothing else of the host.

### Known disagreements

Where the code does something else than its documentation says, a property
states the documented behaviour and an instance violates it. `bindings_hang` is
one of the runs above; the others are kept beside the project and are run with
`tlc -config X.cfg MC....tla`; each ends in the counterexample named. One that has
several properties stops at the first: take it out of the file to see the next.

| Configuration | Property it violates | What happens |
|---|---|---|
| `exec_eval_recursion.cfg` | `RecursionWithinLimit` | `execute`, nested by eval and aliases, sets `function_depth` to 0 (`interpreter/mod.rs:2022`), so `f() { eval f; }` passes `max_function_depth` |
| `exec_pipeline_session.cfg` | `SessionStopsAtOnce` | the simple stages of `a \| b \| c` are ticked without the session check (`interpreter/mod.rs:4121`), so a session passes "Maximum total commands across all exec() calls" (`limits.rs:289`) by their number |
| `exec_isolation.cfg` | `ChildrenAreIsolated` | `timeout 1 bash -c ...`: the dropped child's scope stays in the parent (`interpreter/mod.rs:7221`) |
| `exec_isolation.cfg` | `SubstitutionsAreIsolated` | a failing `$(...)` leaves before the snapshot is put back (`interpreter/mod.rs:8002`) |
| `memfs_loader.cfg` | `LoaderCalledAtMostOnce` | a loader runs again for each copy of its file and after a refused load (`fs/memory.rs:900`, `:1045`) |
| `memfs_known.cfg` | `OwnSnapshotRestores` | a file system with exactly `max_file_count` files cannot restore its own snapshot (`fs/memory.rs:734`) |
| `memfs_known.cfg` | `FilesAndLinksWithinLimit` | symlinks count toward the file limit when a link or a fifo is made (`fs/memory.rs:502`, `:1566`), not when a file is written, added or copied (`:529`): files and links together pass `max_file_count` |
| `overlay_lost_write.cfg` | `WritesAreFound`, of two sessions | `chmod` or `set_modified_time` of a lower file copies it up from what it read before, over what another session has written since (`fs/overlay.rs:871`) |
| `overlay_unseen.cfg` | `ReadsCheckUpperFirst` | a file written below a deleted directory is stored and cannot be read (`fs/overlay.rs:489`) |
| `overlay_limits.cfg` | `CombinedWithinLimits` | removing a directory and making it again leaves its children deducted and visible (`fs/overlay.rs:586`) |
| `mount_shared.cfg` | `SharedMoveKeepsContent` | two `Arc`s of one file system under two mount points: a move from one to the other writes the file over itself and removes it (`fs/mountable.rs:448`) |
| `session_known.cfg` | `ChildrenLeaveEnvironment` | `( ... )`, `$( ... )` and `bash -c` leave in the environment what they export (`interpreter/mod.rs:7960`; `:3818` says nothing must leak back) |
| `session_known.cfg` | `SubstitutionsLeaveLocals` | an assignment to a local inside `$(...)` stays in the caller (`interpreter/mod.rs:7997`) |
| `session_count.cfg` | `CountIsTrue` | what unset, returns and prefixes take away is never taken off the count, until no variable can be made although there is none (`limits.rs:709`) |
| `control_loops.cfg` | `KeepsToShell` (`MCStray`) | with `set -e` a failure in the body of a loop ends the round, and the next one starts (`interpreter/state.rs:169`); `tests/integration/set_e_and_or_tests.rs:173` says the shell exits |
| `control_lines.cfg` | `KeepsToShell` (`MCStray`) | with `set -e`, `a; b` with a failing `a` skips `b` and runs the next line (`interpreter/mod.rs:2144`) |
| `control_condition.cfg` | `KeepsToShell` (`MCStray`) | `if exit 3; then ...; fi` does not leave the shell: the flow of a condition is not looked at (`interpreter/mod.rs:2489`) |
| `patterns_negation.cfg` | `NegationsMeanTheRest` | `a!(b)` does not match `a`, `!(a)*` does not match `a` (`interpreter/glob.rs:306`, `:421`) |
| `patterns_known.cfg` | `LongestIsLongest` | with a bracket or a group in `p`, `${x##p}` looks at 10000 prefixes only, and a longer one is not removed (`interpreter/mod.rs:9262`, with the limit lowered to 4: `${x##*(a)}` leaves an `a` of `aaaa`) |
| `patterns_known.cfg` | `EscapesCount` | a pattern with a bracket or a group goes to the matcher with its backslashes, which the matcher takes for characters: `${x##\b*(a)}` does not remove the `b` of `b` (`interpreter/mod.rs:9125`) |

Read in the code while modelling, and not in a run:

* Patterns: `@(|x)` and `+(|x)` at the end of a value fail like `!(...)`; under
  `!(...)` giving up at the depth limit turns into a match; `+(a)` no longer
  matches 25 characters; `${x#*}` and `${x%*}` remove one character; `?` and a
  second `*` stand for themselves in `${x#p}` when `p` has no bracket or group.
* Control flow: a `break` with more levels than there are loops leaves functions
  and ends the script; `(break)` leaves the loop around the subshell
  (`interpreter/mod.rs:2467`); the
  last stage of a pipeline runs in the parent, as the repository documents, and
  its `break` or `exit` too; `return 3` in a sourced file gives 0, and `exit` in
  `eval` or a sourced file does not leave the shell; `set -e` acts inside
  functions and groups that are themselves tested, and on `! true`; `case` and
  `eval` drop the excuse of a tested failure; a failing last command of an `&&`
  list stops nothing.
* Network: `--max-time` holds for each hop, not for the command
  (`builtins/curl.rs:47`); without a timeout of its own a request through a
  handler gets `DEFAULT_TIMEOUT_SECS`, not the client's (`network/client.rs:745`);
  a lookup that fails passes the check (`network/client.rs:438`) although the
  connection then fails; the host's hook sees credentials already injected when
  it rewrites a URL, and what it rewrites to is not matched against the rules
  again; a redirect is resolved against the URL curl asked for, not the one that
  was fetched.
* Bindings: a `cancel()` made while a failing `onOutput` or an `AbortSignal` is on
  its way to clear the flag is lost (`crates/bashkit-js/wrapper.ts:786`); a
  blocking call from any task of the host is rejected while an `onOutput` call is
  with the event loop, as if it came from inside it, but not in the moment before
  (`bindings_hang`); `docs/custom_builtins_js.md:243` recommends a blocking
  `readFile` inside a builtin of the same instance, which waits for the lock of the
  script that runs the builtin until the execution timeout ends that script.

## 4. Proofs

Each theorem holds for every value of the constants that the module's assumptions
allow: any finite or infinite set of names and contents, any limits, any number of
sessions. The assumptions give the constants their types (`PathsAssumption` of
`MemFs` also that `Paths` is finite and has the parent of each path,
`LowerAssumption` of `OverlayFs` that the lower layer is a finite tree,
`SuffixesAssumption` of `MountFs` that it has what is left of a path below a mount
point, `HeadersAssumption` of `HttpTransfer` that secrets are not placeholders,
`FunctionNamesAssumption` of `ShellState` that function names come in one order,
`LegalAssumption` and `ScriptsAssumption` of `Commands` that what is inside a legal
command is legal where it stands and that scripts consist of such lines).
Where a theorem needs more, its hypothesis is in its statement and below.

| Theorem | Module | Property | Hypothesis |
|---|---|---|---|
| `TypeCorrect` | `ExecEngineProofs` | `[]TypeOK` | |
| `OverrunTheorem` | `ExecEngineProofs` | `[]OverrunBounded` | |
| `BookkeepingTheorem` | `ExecEngineProofs` | `[]BookkeepingIsTrue` | |
| `LimitsTheorem` | `ExecEngineProofs` | `[]LimitsHold` | no eval, alias or `timeout` builtin |
| `FailuresTheorem` | `ExecEngineProofs` | `[]FailuresLeaveLittle` | |
| `CleanTheorem` | `ExecEngineProofs` | `[]CleanExecsLeaveNothing` | |
| `ChildrenTheorem` | `ExecEngineProofs` | `ChildrenAreIsolated` | no timeout drops a future |
| `TypeTheorem` | `ShellStateProofs` | `[]TypeOK` | |
| `BudgetTheorem` | `ShellStateProofs` | `[]BudgetGuardsState` | |
| `OwnSnapshotTheorem` | `ShellStateProofs` | `[]OwnSnapshotFits` | |
| `ChildrenTheorem` | `ShellStateProofs` | `ChildrenLeaveNoTrace` | |
| `RestoreTheorem` | `ShellStateProofs` | `RestoreIsAllOrNothing` | |
| `TypeCorrect` | `MemFsProofs` | `[]TypeOK` | |
| `CountTheorem` | `MemFsProofs` | `[]FilesWithinLimit` | |
| `BytesTheorem` | `MemFsProofs` | `[]BytesWithinLimit` | |
| `ReadsTheorem` | `MemFsProofs` | `ReadsAreTrue` | |
| `FailuresTheorem` | `MemFsProofs` | `FailuresKeepContents` | |
| `RestoreTheorem` | `MemFsProofs` | `RestoreBringsBack` | |
| `TypeTheorem` | `OverlayFsProofs` | `[]TypeOK` | |
| `RenameTheorem` | `OverlayFsProofs` | `RenameKeepsContent` | `OneSession` |
| `GoneTheorem` | `OverlayFsProofs` | `RemovedIsGone` | `OneSession` |
| `FoundTheorem` | `OverlayFsProofs` | `WritesAreFound` | `OneSession`, `PlainLower`, the root is no target |
| `WhiteoutsTheorem` | `OverlayFsProofs` | `[]WhiteoutsHideSomething` | |
| `OthersTheorem` | `OverlayFsProofs` | `OthersUndisturbed` | |
| `TypeTheorem` | `MountFsProofs` | `[]TypeOK` | |
| `ListingTheorem` | `MountFsProofs` | `[]ListingAgrees` | |
| `NamedTreesTheorem` | `MountFsProofs` | `OnlyNamedTreesChange` | |
| `MoveTheorem` | `MountFsProofs` | `MoveKeepsContent` | `OneSession`, `OneArcEach` |
| `TypeCorrect` | `HttpTransferProofs` | `[]TypeOK` | |
| `RequestsTheorem` | `HttpTransferProofs` | `[]RequestsAreAllowed` | |
| `SecretsTheorem` | `HttpTransferProofs` | `[]SecretsStayWhereDue` | |
| `InterpreterIsAShell` | `SessionProofs` | `ImplementsShell` | |
| `FlowsAlwaysReachTheirTargets` | `SessionProofs` | `[]FlowsReachTheirTargets` | |
| `TypeCorrect` | `SessionProofs` | `[]TypeOK` | |
| `FlagTheorem` | `SessionProofs` | `[]FlagMeansCancel` | |

Sums and counts would need induction over the data, and the induction theorems of
the prover's library are out of its provers' reach. The proofs go by the least
counterexample instead: in a nonempty set of natural numbers there is a least one
(`Least` of `SumLemmas`, `Smallest` of `ShellStateProofs`), which is first-order. That
a recursive function is what its definition says (`TakingsExist`) and how a sum
changes with one entry follow from it.

### ExecEngineProofs

* `TypeCorrect`. The inductive invariant `TypeInv` adds that the nest is empty
  exactly when idle, that an exec is at its bottom (so that a timeout never empties
  it), that only constructs with an EXIT trap are in it, and that a frame of `source` which replaced the positional parameters holds
  them.
* `OverrunTheorem`. Traps swallow errors, so a limit can be overrun again and
  again. The inductive invariant `OverrunInv` has two parts. `CommandsInv`: each
  open call has one command beyond `max_commands`, which it gives up when it ends;
  the frames of compound stages have none, since no trap of theirs swallows an error
  and it leaves their pipeline too. `SessionInv`: what is above `max_session_commands`
  is at most what the current exec has counted and, for each pipeline that may still
  begin a stage (`Ahead`: all that are open, but for one an `Err` is about to leave),
  the most an exec may count. So the room grows, when `eval` resets the count in a
  stage and is refused, by the very amount that the error costs: its pipeline ends.
  Every step is one of six as the counters see it (`CommandSteps`).
* The others rest on `NestInv`, the conjunction of what relates the nest to the
  rest of the state:
  `KindsInv` (what is nested is a feature of the instance), `DepthInv` (where
  nothing resets the counters they are the number of frames of their kind, and
  `function_depth` is within its limit), `TrapInv` (`in_trap` is up exactly while
  one trap is live, unless a timeout may drop its frame), `LoopInv` (each open
  loop has paid for one iteration beyond the limit with its command), `CleanInv`
  (as long as all calls returned Ok, no counter is above the nest), `CallbackInv`,
  and `UnwindInv`, of which `FailuresTheorem` and `CleanTheorem` are a consequence:
  there is a sequence of shells, one for each level of the nest, such that what
  each frame restores is the shell of its level, but for consumed input if the exec
  is clean, and also for captured descriptors and one positional frame if something
  failed (`Near`). Counting frames is
  `Live`; its lemmas say how it changes when a frame is pushed, popped or dropped.
* `ChildrenTheorem` is an action property: it looks at the frames between the old
  and the new top of the nest. Its hypothesis is the one `exec_isolation.cfg`
  shows to be needed, and that of `LimitsTheorem` is the one
  `exec_eval_recursion.cfg` shows to be needed.

### ShellStateProofs

All five theorems follow from one inductive invariant, `Inv`:

* `ShellInv`: the shell is well typed, its functions are covered by their count
  and within the limits (`FunctionsKept`), and so are variables, locals and arrays
  unless `drifted` (`CountsKept`); the files are those of a tree within the limits.
* `NestInv`: the same of the shell that each child has saved, as it was when the
  child began (`FrameKept`), and there is a function giving the number of call
  frames below each level of the nest (`Nested`). A call and a `bash -c` push one,
  and what a child saved has as many as its level, so that every return pops the
  frame that its call pushed and, when nothing is nested, there are no locals.

Each operation on the shell has a lemma `Keeps(sh, g)`: what follows is well typed,
has as many call frames, and keeps both counts if they held before. The checks and
records of the budget differ, so each has its own argument, for
instance that an assignment to a local, which is recorded and not checked, can
bring bytes past the limit but never an entry. `OwnSnapshotTheorem` needs that a
session's functions, in any order, fit one after another (`TakesOwn`), because each
part of a sum within a limit is within it.

### MemFsProofs

* `TypeCorrect`, inductive as it stands; each operation builds its entries with
  `With`, `WithDirs`, `Without` or `Contents`, and a lemma for each says that the
  result is a tree of well-formed entries.
* `CountTheorem`. The inductive invariant `CountInv` adds `SavedWithinLimit`, the
  same of the snapshot, which a restore needs; the rest is how each operation
  changes the number of counted entries.
* `BytesTheorem`. `BytesInv` adds that a lazy entry was added (so that there is none
  while the property speaks) and that the fifos of the snapshot are empty, because
  the limit that a restore checks counts files only. The lemmas
  say by how much the sum changes when an entry is put, replaced, moved or removed.
* `ReadsTheorem`, `FailuresTheorem`, from `TypeOK`.
* `RestoreTheorem`, from `SavedIsKept`: the snapshot agrees with what readers saw
  when it was taken.

### OverlayFsProofs

* `TypeTheorem`. The inductive invariant `TypeInv` adds `CallsInv`: the calls still
  to make are well formed, name only the paths of the operation, are a whiteout only
  for an entry of the lower layer, and the removal at the end of a rename is the
  last. A lemma for each plan shows it when the operation is decided.
* `WhiteoutsTheorem`, `OthersTheorem`, from `TypeInv` and a lemma that each call
  changes nothing of the upper layer at a path that is not above or below its own.
* `RenameTheorem`, `GoneTheorem`, `FoundTheorem`. The invariant `WorkInv` says of an
  operation in progress what its remaining calls will still do to the layers as they
  are now, as a predicate of the set of those calls and of the layers. `Lands`: what
  is wanted is at the target, or one of the calls puts it there, and so for the
  whiteout that has to go. `Goes`: what is to leave is in neither layer, or one of
  the calls takes it out of the layer it is in. `Keeps`: the source still has the
  content, or it has landed. `Raises`: what chmod brings up has the size it has
  below. For each there is a lemma that the plan establishes it, that the next call
  keeps it for the remaining ones, and that it survives when `copy` and `rename` call
  `write_file` or `remove` and these decide anew. With no calls left each is the
  property. `NoFifo`, that the upper layer and the snapshot hold no fifo, makes
  `FoundTheorem` exact: `write_file` keeps a fifo a fifo, and the overlay makes none.
* The hypotheses. `OneSession`: another session may remove or replace the entry
  between two calls. `PlainLower`: the lower layer's directories and symlinks have no
  size. No operation names the root: a recursive `mkdir` of it succeeds without a
  call that puts an entry there.

### MountFsProofs

* `TypeTheorem`. The inductive invariant `TypeInv` adds `Staged` of every open
  operation: what it carries from its read is an entry, it reads, writes and
  removes only between two different backends, and it calls one backend only if
  both its paths are in it.
* `ListingTheorem`. `TypeInv` implies it: a case analysis over which mount point is
  the nearest one for a directory and for what is in it, with lemmas on prefixes.
* `NamedTreesTheorem` adds `FreshInv`: as long as the table is the one the operation
  resolved in, the places it holds are still those its paths resolve to.
* `MoveTheorem` adds `MoveInv`: after the read, the entry is at the source until it
  is at the target. It is proved of one session (`OneSession`: another one may of
  course remove the entry between two steps) whose host hands over every file system
  in one `Arc` (`OneArcEach`: without it the code loses the entry, as
  `mount_shared.cfg` shows). What the host mounts meanwhile is not restricted.

### HttpTransferProofs

* `RequestsTheorem`, `TypeCorrect`. The invariant `RequestInv` adds that a request
  which passed its second check names an allowed URL until it is answered, and that
  a connection's address is one the resolver let pass.
* `SecretsTheorem`. `HopInv`: curl itself never holds a secret of the host, and a
  sensitive header of the script is gone once a hop has left the origin of the
  command. `RulesInv`: after the first k rules, each secret in the request is there
  by one of them, and each of them that applies is in effect unless a later one
  replaced it; each step of the hook keeps this.

### SessionProofs

About `ControlFlow`, for every set of legal scripts and however deep they nest:

* `FlowsAlwaysReachTheirTargets`. The invariant is inductive once it also says that
  `ran` is a sequence. `NestFits`: each open call fits its scope and stands where the
  call outside it says, and with `set -e` the scope knows of a test exactly when the
  stack below has one. `ControlFits`: the command that runs may stand there, or the
  result is one that commands of that scope can give; with `set -e` each
  failure in it is suppressed, or has left the shell, or is about to meet what tests it. A flow in
  a result needs a loop, function or shell in the scope, so it cannot come to the
  end of its way without meeting it.
* `InterpreterIsAShell`. Each action has a lemma (`RunSimpleKeeps`,
  `OpenPipelineKeeps`, `NextInListKeeps`, ...) which says of a state that fits that the state after it
  fits and that the step is one of the shell or leaves its stack, status and trace
  alone. They rest on lemmas about the stack: the n-th item of some kinds is found
  below a prefix with fewer of them (`FromBelow`, `FromSkips`), so a flow drops
  the same items whether it does so at once or call by call (`ReachedSkips`); a stack tests a status
  where one of its two parts does (`TestedJoined`). Cardinalities of prefixes stand
  for counting, so that no induction is needed.

About `SharedSession`:

* `TypeCorrect`. The inductive invariant `TypeInv` adds the shape of the stack of
  the event loop (empty, a blocking call, its `onOutput`, a callback of a promise,
  whose script may have timed out meanwhile, or a blocking call made from a custom
  builtin's callback, and its `onOutput`), that the lock's holder
  is the call that runs, that the queue holds the pending promises and all but its
  head wait, and that both depths count what is open.
* `FlagTheorem`. `FlagInv` says what the flag means while calls are open: it is set
  exactly if a cancel is kept or some open call has set it and will clear it.

### Model-checked only

* Liveness: `ExecTerminates`, `TransferEnds`, `EveryCallEnds`. The prover does not
  reason about fairness and `ENABLED`.
* `Patterns`: its operators are recursive over patterns and values.
* That `Legal` can be what `Commands!Fits` says for scripts of any depth is a definition
  by recursion over the syntax; the theorems take such a set as given, and `control`
  builds one (`Standing`).

## 5. Not modelled

* The parser: a grammar over text, a computation on data without state that
  outlives it. Its static budget and fuel bound that computation.
* The job table: a command with `&` is awaited before the next one starts
  (`interpreter/mod.rs:4198`), and the table only keeps its result.
* Word expansion, arithmetic, brace expansion, pathname expansion, and the
  builtins that compute text (awk, sed, jq, grep, sort and the like): data without
  shared state.
* `RealFs`, ssh, the network itself: host I/O.
* `tool.rs` and `scripted_tool/`: descriptions, schemas and one session per call;
  the callbacks of a call are those of `SharedSession`.
* The Python binding: its own code for the same lock, queue and flag.
* CLI, benches, evaluation, fuzzing, site: drivers.
