----------------------------- MODULE ShellState -----------------------------
(***************************************************************************)
(* The data of one session: variables, environment, arrays, functions and  *)
(* the locals of every call frame, the memory budget that is kept beside   *)
(* them one change at a time (crates/bashkit/src/interpreter/mod.rs,       *)
(* limits.rs), and the restoring of a snapshot (snapshot.rs).              *)
(*                                                                         *)
(* A script is a sequence of commands; the ones that run other commands    *)
(* (a function call, a command with a prefix assignment, $(...), `( ... )`,*)
(* bash -c, a script) are frames of `nest` and give back on return what    *)
(* they took.  Calls that fail or are dropped are ExecEngine's.            *)
(*                                                                         *)
(* A value is its length.  Left out: namerefs, the integer and case        *)
(* attributes, aliases, traps, and the arrays and markers the interpreter  *)
(* keeps for itself (PIPESTATUS, BASH_SOURCE, FUNCNAME, options).         *)
(***************************************************************************)
EXTENDS Integers, FiniteSets, Sequences, Functions, SequencesExt

CONSTANTS
  Names,            \* of scalar variables
  Arrays, Indices,  \* of indexed arrays, and of their elements
  FunctionNames,    \* the sequence of all function names, in their order
  Sizes, Bodies,    \* lengths of values and of function bodies
  KeyLen,           \* the length of a name
  MaxVariableCount, MaxVariableBytes, MaxArrayEntries,
  MaxFunctionCount, MaxFunctionBytes,   \* MemoryLimits
  Trees, TreesWithinLimits,   \* contents of the file system, and those it accepts
  Candidates,       \* the snapshots the host may ask to restore
  Features,         \* the commands this instance uses
  MaxNest,          \* bound on the nest of commands,
  MaxChildren,      \* and on the children among them
  MaxDrift          \* bound on the bytes counted beyond the limit when a
                    \* child begins: each may add to them, see set_variable

ASSUME SizesAssumption ==
  /\ Sizes \subseteq Nat /\ Bodies \subseteq Nat /\ KeyLen \in Nat
  /\ MaxVariableCount \in Nat /\ MaxVariableBytes \in Nat
  /\ MaxArrayEntries \in Nat /\ MaxFunctionCount \in Nat
  /\ MaxFunctionBytes \in Nat
ASSUME ArraysAssumption == Arrays \subseteq Names /\ Indices \subseteq Nat
ASSUME TreesAssumption == TreesWithinLimits \subseteq Trees /\ TreesWithinLimits # {}

VARIABLES
  shell,   \* the interpreter's maps, its call frames' locals and its budget
  nest,    \* the commands that are running others, outermost first
  vfs,     \* what the file system holds
  drifted  \* history: something was stored that the budget was not told of

vars == <<shell, nest, vfs, drifted>>

FunctionSet == {FunctionNames[i] : i \in DOMAIN FunctionNames}
ASSUME FunctionNamesAssumption ==
  FunctionNames \in Seq(FunctionSet) /\ IsInjective(FunctionNames)

(* The maps are finite, and so are the elements of an array.               *)
Maps(m, S, T) == m \in [DOMAIN m -> T] /\ DOMAIN m \subseteq S /\ IsFiniteSet(DOMAIN m)
Elements == {e \in SUBSET Indices : IsFiniteSet(e)}

(* A snapshot has the maps of a session, and the source of some functions. *)
ASSUME CandidatesAssumption ==
  \A c \in Candidates :
    /\ Maps(c.variables, Names, Nat) /\ Maps(c.env, Names, Nat)
    /\ Maps(c.arrays, Arrays, Elements)
    /\ Maps(c.functions, FunctionSet, Nat) /\ c.sourced \subseteq DOMAIN c.functions
    /\ c.readonly \subseteq Names /\ c.allexport \in BOOLEAN

With(f, k, v) == [x \in DOMAIN f \cup {k} |-> IF x = k THEN v ELSE f[x]]
Without(f, k) == Restrict(f, DOMAIN f \ {k})
(* mutant: subtractions go below zero *)
Plain(n) == n
Saturated(n) == IF n < 0 THEN 0 ELSE n
Length(f, k) == IF k \in DOMAIN f THEN f[k] ELSE 0
Entries(as, a) == IF a \in DOMAIN as THEN as[a] ELSE {}

(***************************************************************************)
(* MemoryBudget.  Subtractions saturate.                                   *)
(***************************************************************************)
Budget == [variable_count: Nat, variable_bytes: Nat, array_entries: Nat,
           function_count: Nat, function_body_bytes: Nat]

Sum(f) == SumFunction(f)
Bytes(f) == KeyLen * Cardinality(DOMAIN f) + Sum(f)
ElementCount(as) == Sum([a \in DOMAIN as |-> Cardinality(as[a])])

(* recompute_from_state.                                                   *)
Recomputed(variables, arrays, functions) ==
  [variable_count |-> Cardinality(DOMAIN variables),
   variable_bytes |-> Bytes(variables),
   array_entries |-> ElementCount(arrays),
   function_count |-> Cardinality(DOMAIN functions),
   function_body_bytes |-> Sum(functions)]

(* What a map's new value does to the counts: `added` is 1 for a new key.  *)
Added(f, k) == IF k \in DOMAIN f THEN 0 ELSE 1
BytesAfter(b, f, k, v) ==
  Saturated(b.variable_bytes + KeyLen + v
              - (IF k \in DOMAIN f THEN KeyLen + f[k] ELSE 0))

(* check_variable_insert and record_variable_insert.                       *)
VariableFits(b, f, k, v) ==
  /\ Added(f, k) = 0 \/ b.variable_count < MaxVariableCount
  /\ BytesAfter(b, f, k, v) <= MaxVariableBytes

VariableRecorded(b, f, k, v) ==
  [b EXCEPT !.variable_count = @ + Added(f, k),
            !.variable_bytes = BytesAfter(b, f, k, v)]

(* check_function_insert and record_function_insert.                       *)
FunctionFits(b, f, k, v) ==
  /\ Added(f, k) = 0 \/ b.function_count < MaxFunctionCount
  /\ b.function_body_bytes + v - Length(f, k) <= MaxFunctionBytes
FunctionRecorded(b, f, k, v) ==
  [b EXCEPT !.function_count = @ + Added(f, k),
            !.function_body_bytes = Saturated(@ + v - Length(f, k))]

(* mutant: the check is made before the elements are counted *)
AnyEntriesFit(b, old, new) == b.array_entries <= MaxArrayEntries

(* insert_array_checked: `old` and `new` are the elements.                 *)
EntriesFit(b, old, new) ==
  LET net == Saturated(Cardinality(new) - Cardinality(old)) IN
  net = 0 \/ b.array_entries + net <= MaxArrayEntries
EntriesRecorded(b, old, new) ==
  [b EXCEPT !.array_entries = Saturated(@ - Cardinality(old)) + Cardinality(new)]

(***************************************************************************)
(* Changes of the maps.  Each gives the shell that follows; what does not  *)
(* fit is dropped in silence.                                              *)
(***************************************************************************)
InsertVariable(sh, n, v) ==
  IF VariableFits(sh.budget, sh.variables, n, v)
  THEN [sh EXCEPT !.variables = With(@, n, v),
                  !.budget = VariableRecorded(@, sh.variables, n, v)]
  ELSE sh

(* insert_env_checked goes by the environment's own size.                  *)
InsertEnv(sh, n, v) ==
  LET next == With(sh.env, n, v) IN
  IF /\ n \in DOMAIN sh.env \/ Cardinality(DOMAIN sh.env) < MaxVariableCount
     /\ Bytes(next) <= MaxVariableBytes
  THEN [sh EXCEPT !.env = next]
  ELSE sh

PutEnv(sh, n, v) == [sh EXCEPT !.env = With(@, n, v)]

(* set_variable: the innermost frame that has the name takes the value,    *)
(* and its bytes are recorded without a check.                             *)
Holders(sh, n) == {i \in DOMAIN sh.locals : n \in DOMAIN sh.locals[i]}
Innermost(sh, n) == CHOOSE i \in Holders(sh, n) : \A j \in Holders(sh, n) : j <= i

SetLocal(sh, n, v) ==
  LET i == Innermost(sh, n) IN
  [sh EXCEPT !.locals[i] = With(@, n, v),
             !.budget.variable_bytes = Saturated(@ + v - sh.locals[i][n])]

SetVariable(sh, n, v) ==
  LET mirrored(s) == IF sh.allexport THEN InsertEnv(s, n, v) ELSE s
      global == InsertVariable(sh, n, v)
  IN CASE n \in sh.readonly -> sh
       [] n \notin sh.readonly /\ Holders(sh, n) # {} -> mirrored(SetLocal(sh, n, v))
       [] OTHER -> IF n \in DOMAIN global.variables THEN mirrored(global) ELSE global

(* insert_local_checked.                                                   *)
InsertLocal(sh, n, v) ==
  LET top == Len(sh.locals) IN
  IF VariableFits(sh.budget, sh.locals[top], n, v)
  THEN [sh EXCEPT !.locals[top] = With(@, n, v),
                  !.budget = VariableRecorded(@, sh.locals[top], n, v)]
  ELSE sh

InsertArray(sh, a, elements) ==
  LET old == Entries(sh.arrays, a) IN
  IF EntriesFit(sh.budget, old, elements)
  THEN [sh EXCEPT !.arrays = With(@, a, elements),
                  !.budget = EntriesRecorded(@, old, elements)]
  ELSE sh

(* A single element goes in by record_array_insert(1).                     *)
InsertElement(sh, a, i) ==
  LET old == Entries(sh.arrays, a) IN
  IF i \in old \/ sh.budget.array_entries + 1 > MaxArrayEntries
  THEN sh
  ELSE [sh EXCEPT !.arrays = With(@, a, old \cup {i}), !.budget.array_entries = @ + 1]

InsertFunction(sh, f, body) ==
  IF FunctionFits(sh.budget, sh.functions, f, body)
  THEN [sh EXCEPT !.functions = With(@, f, body),
                  !.budget = FunctionRecorded(@, sh.functions, f, body)]
  ELSE sh

(***************************************************************************)
(* Commands that run no others.                                            *)
(***************************************************************************)
Leads(sh) == shell' = sh /\ UNCHANGED <<nest, vfs>>
Counted(sh) == Leads(sh) /\ UNCHANGED drifted
Uncounted(sh) == Leads(sh) /\ drifted' = TRUE

Assign(n, v) == Counted(SetVariable(shell, n, v))
AssignArray(a, elements) == Counted(InsertArray(shell, a, elements))
AssignElement(a, i) == Counted(InsertElement(shell, a, i))
Define(f, body) == Counted(InsertFunction(shell, f, body))

(* local: outside a function it assigns, readonly or not.                  *)
Local(n, v) ==
  Counted(IF shell.locals = <<>> THEN InsertVariable(shell, n, v)
          ELSE InsertLocal(shell, n, v))

(* local a=(...) puts the elements into the global array and marks the     *)
(* name as a local; nobody counts the elements.                            *)
LocalArray(a, elements) ==
  LET stored == [shell EXCEPT !.arrays = With(@, a, elements)] IN
  Uncounted(IF shell.locals = <<>> THEN stored ELSE InsertLocal(stored, a, 0))

(* mapfile lets go of the old array before it asks for room.               *)
ReadArray(a, elements) ==
  LET emptied == [shell EXCEPT !.arrays = Without(@, a)] IN
  Counted(IF elements = {} THEN emptied ELSE InsertArray(emptied, a, elements))

(* unset, unset a[i], unset -f: the budget is not told.                    *)
Unset(n) ==
  Counted(IF n \in shell.readonly THEN shell
          ELSE [shell EXCEPT !.variables = Without(@, n), !.env = Without(@, n),
                             !.arrays = Without(@, n),
                             !.locals = [i \in DOMAIN @ |-> Without(@[i], n)]])
UnsetElement(a, i) ==
  /\ a \in DOMAIN shell.arrays
  /\ Counted([shell EXCEPT !.arrays[a] = @ \ {i}])
UnsetFunction(f) == Counted([shell EXCEPT !.functions = Without(@, f)])

(* Builtins that write the map of variables themselves: readonly n=v,      *)
(* export n=v, and printf -v and getopts, which only store.                *)
Store(n, v) == Uncounted([shell EXCEPT !.variables = With(@, n, v)])
Readonly(n, v) ==
  Uncounted([shell EXCEPT !.variables = With(@, n, v), !.readonly = @ \cup {n}])
ReadonlyName(n) == Counted([shell EXCEPT !.readonly = @ \cup {n}])
Export(n, v) ==
  /\ n \notin shell.readonly
  /\ Uncounted(PutEnv([shell EXCEPT !.variables = With(@, n, v)], n, v))
ExportName(n) ==
  /\ n \in DOMAIN shell.variables
  /\ Counted(PutEnv(shell, n, shell.variables[n]))

(* set -a, set +a.                                                         *)
Allexport == Counted([shell EXCEPT !.allexport = ~@])

(* Any command on files: the in-memory file system keeps its own limits.   *)
WriteTree(t) == vfs' = t /\ UNCHANGED <<shell, nest, drifted>>

(***************************************************************************)
(* Commands that run others, and what each kind of them gives back.        *)
(***************************************************************************)
Children == {"subst", "subshell", "child", "script"}
Kinds == {"call", "prefix"} \cup Children
ChildrenOpen == Cardinality({i \in DOMAIN nest : nest[i].kind \in Children})

(* `saved` is what the kind will need: for a prefix the name, its two old  *)
(* values and whether it went into the environment, for a child the shell. *)
Enters(kind, saved, sh) ==
  /\ Len(nest) < MaxNest
  /\ kind \in Children => /\ ChildrenOpen < MaxChildren
                         /\ shell.budget.variable_bytes <= MaxVariableBytes + MaxDrift
  /\ nest' = Append(nest, [kind |-> kind, saved |-> saved, drifted |-> drifted])
  /\ shell' = sh
  /\ UNCHANGED vfs

CallFunction(f) ==
  /\ f \in DOMAIN shell.functions
  /\ Enters("call", <<>>, [shell EXCEPT !.locals = Append(@, <<>>)])
  /\ UNCHANGED drifted

(* n=v cmd: assigned like any variable; what the global map then holds     *)
(* goes into the environment.                                              *)
Prefix(n, v) ==
  LET assigned == SetVariable(shell, n, v)
      exported == n \in DOMAIN assigned.variables
  IN
  /\ Enters("prefix",
            [name |-> n, exported |-> exported,
             variable |-> Restrict(shell.variables, DOMAIN shell.variables \cap {n}),
             env |-> Restrict(shell.env, DOMAIN shell.env \cap {n})],
            IF exported THEN PutEnv(assigned, n, assigned.variables[n]) ELSE assigned)
  /\ UNCHANGED drifted

Substitute == Enters("subst", shell, shell) /\ UNCHANGED drifted
Subshell == Enters("subshell", shell, shell) /\ UNCHANGED drifted

(* bash -c: reset_state_for_child_shell.  No variable carries the EXPORT   *)
(* attribute; exported values are found in the environment.                *)
ChildShell ==
  /\ Enters("child", shell,
        [shell EXCEPT !.variables = <<>>, !.arrays = <<>>, !.functions = <<>>,
                      !.allexport = FALSE, !.locals = Append(@, <<>>)])
  /\ UNCHANGED drifted

(* A script file: the environment becomes the variables, counted or not.   *)
Script ==
  /\ Enters("script", shell,
        [shell EXCEPT !.variables = shell.env, !.arrays = <<>>, !.functions = <<>>,
                      !.readonly = {}, !.allexport = FALSE, !.locals = << <<>> >>])
  /\ drifted' = TRUE

PutBack(saved, k, now) ==
  IF k \in DOMAIN saved THEN With(now, k, saved[k]) ELSE Without(now, k)

PrefixRestores(p, sh) ==
  LET cleared == IF p.exported THEN [sh EXCEPT !.env = PutBack(p.env, p.name, @)] ELSE sh
  IN IF p.name \in DOMAIN p.variable
     THEN InsertVariable(cleared, p.name, p.variable[p.name])
     ELSE [cleared EXCEPT !.variables = Without(@, p.name)]

(* restore_subshell_state: all but the environment and the call frames.    *)
SnapshotRestores(saved, sh) == [saved EXCEPT !.env = sh.env, !.locals = sh.locals]

(* mutant: what became readonly stays so *)
SubshellKeepsReadonly(saved, sh) ==
  [saved EXCEPT !.env = sh.env, !.readonly = sh.readonly]

(* `( ... )` also puts the call stack back.                                *)
SubshellRestores(saved, sh) == [saved EXCEPT !.env = sh.env]

Popped(sh) == [sh EXCEPT !.locals = Front(@)]

Returned(f, sh) ==
  CASE f.kind = "call" -> Popped(sh)
    [] f.kind = "prefix" -> PrefixRestores(f.saved, sh)
    [] f.kind = "subst" -> SnapshotRestores(f.saved, sh)
    [] f.kind = "subshell" -> SubshellRestores(f.saved, sh)
    [] f.kind = "child" -> SnapshotRestores(f.saved, Popped(sh))
    [] f.kind = "script" -> f.saved

(* Whether something uncounted is left when a frame ends.                  *)
StillDrifted(f) ==
  CASE f.kind \in {"call", "prefix"} -> drifted
    [] f.kind \in {"subshell", "script"} -> f.drifted
    [] OTHER -> f.drifted \/ Returned(f, shell).locals # f.saved.locals

Return ==
  /\ nest # <<>>
  /\ shell' = Returned(Last(nest), shell)
  /\ drifted' = StillDrifted(Last(nest))
  /\ nest' = Front(nest)
  /\ UNCHANGED vfs

(***************************************************************************)
(* Snapshots: between two exec() calls, when nothing is nested.  `tree` is *)
(* the file system of the snapshot, or NoTree when it was left out.        *)
(***************************************************************************)
NoTree == "none"

(* validate_shell_state_restore_limits; functions are not validated.       *)
Validated(c) ==
  LET b == Recomputed(c.variables, c.arrays, <<>>) IN
  /\ b.variable_count <= MaxVariableCount
  /\ b.variable_bytes <= MaxVariableBytes
  /\ b.array_entries <= MaxArrayEntries

(* Functions are parsed again from their source, in the order of their     *)
(* names; one without source or without room is dropped.                   *)
Takes(c, fs, f) ==
  IF f \in c.sourced /\ FunctionFits(Recomputed(<<>>, <<>>, fs), fs, f, c.functions[f])
  THEN With(fs, f, c.functions[f]) ELSE fs

Reparsed(c) ==
  LET taken[i \in 0..Len(FunctionNames)] ==
        IF i = 0 THEN <<>> ELSE Takes(c, taken[i - 1], FunctionNames[i])
  IN taken[Len(FunctionNames)]

(* mutant: the counts stay those of the shell that is replaced *)
RestoredUncounted(c, sh) ==
  [variables |-> c.variables, env |-> c.env, arrays |-> c.arrays,
   functions |-> Reparsed(c), readonly |-> c.readonly, allexport |-> c.allexport,
   locals |-> sh.locals, budget |-> sh.budget]

(* restore_shell_state.                                                    *)
Restored(c, sh) ==
  [variables |-> c.variables, env |-> c.env, arrays |-> c.arrays,
   functions |-> Reparsed(c), readonly |-> c.readonly, allexport |-> c.allexport,
   locals |-> sh.locals,
   budget |-> Recomputed(c.variables, c.arrays, Reparsed(c))]

TreeAccepted(c) == c.tree = NoTree \/ c.tree \in TreesWithinLimits

(* mutant: the file system is restored first *)
TreeFirst(c) == TreeAccepted(c)
RestoresTree(c) == Validated(c) /\ TreeAccepted(c)

RestoreSnapshot(c) ==
  /\ nest = <<>>
  /\ vfs' = IF RestoresTree(c) /\ c.tree # NoTree THEN c.tree ELSE vfs
  /\ IF Validated(c) /\ TreeAccepted(c)
     THEN shell' = Restored(c, shell) /\ drifted' = FALSE
     ELSE UNCHANGED <<shell, drifted>>
  /\ UNCHANGED nest

Init ==
  /\ shell = [variables |-> <<>>, env |-> <<>>, arrays |-> <<>>, functions |-> <<>>,
              readonly |-> {}, allexport |-> FALSE, locals |-> <<>>,
              budget |-> Recomputed(<<>>, <<>>, <<>>)]
  /\ nest = <<>>
  /\ vfs = CHOOSE t \in TreesWithinLimits : TRUE
  /\ drifted = FALSE

Uses(feature) == feature \in Features
Literals == {{i \in Indices : i < k} : k \in {i + 1 : i \in Indices} \cup {0}}

Scalars ==
  \E n \in Names :
    \/ Uses("unset") /\ Unset(n)
    \/ Uses("readonly") /\ ReadonlyName(n)
    \/ Uses("export") /\ ExportName(n)
    \/ \E v \in Sizes :
         \/ Assign(n, v)
         \/ Uses("local") /\ Local(n, v)
         \/ Uses("readonly") /\ Readonly(n, v)
         \/ Uses("export") /\ Export(n, v)
         \/ Uses("store") /\ Store(n, v)
         \/ Uses("prefix") /\ Prefix(n, v)

ArrayCommands ==
  Uses("array") /\ \E a \in Arrays :
    \/ \E elements \in Literals : \/ AssignArray(a, elements)
                                  \/ ReadArray(a, elements)
                                  \/ Uses("local") /\ LocalArray(a, elements)
    \/ \E i \in Indices : \/ AssignElement(a, i)
                          \/ Uses("unset") /\ UnsetElement(a, i)

FunctionCommands ==
  Uses("function") /\ \E f \in FunctionSet :
    \/ \E body \in Bodies : Define(f, body)
    \/ Uses("unset") /\ UnsetFunction(f)
    \/ CallFunction(f)

Nesting ==
  \/ Uses("subst") /\ Substitute
  \/ Uses("subshell") /\ Subshell
  \/ Uses("child") /\ ChildShell
  \/ Uses("script") /\ Script
  \/ Return

Next ==
  \/ Scalars \/ ArrayCommands \/ FunctionCommands \/ Nesting
  \/ Uses("allexport") /\ Allexport
  \/ Uses("tree") /\ \E t \in TreesWithinLimits : WriteTree(t)
  \/ \E c \in Candidates : RestoreSnapshot(c)

Spec == Init /\ [][Next]_vars

----------------------------------------------------------------------------
(***************************************************************************)
(* Properties.                                                             *)
(***************************************************************************)
IsShell(sh) ==
  /\ Maps(sh.variables, Names, Nat) /\ Maps(sh.env, Names, Nat)
  /\ Maps(sh.arrays, Arrays, Elements)
  /\ Maps(sh.functions, FunctionSet, Nat)
  /\ sh.readonly \subseteq Names /\ sh.allexport \in BOOLEAN
  /\ \A i \in DOMAIN sh.locals : Maps(sh.locals[i], Names, Nat)
  /\ sh.budget \in Budget

(* The types, with counts that never go below zero.                        *)
TypeOK ==
  /\ IsShell(shell)
  /\ vfs \in Trees /\ drifted \in BOOLEAN
  /\ \A i \in DOMAIN nest :
       /\ nest[i].kind \in Kinds
       /\ nest[i].kind \in Children => IsShell(nest[i].saved)

(* All that is stored: the globals and the locals of every call.           *)
LocalCount(ls) == Sum([i \in DOMAIN ls |-> Cardinality(DOMAIN ls[i])])
LocalBytes(ls) == Sum([i \in DOMAIN ls |-> Bytes(ls[i])])
StoredCount(sh) == Cardinality(DOMAIN sh.variables) + LocalCount(sh.locals)
StoredBytes(sh) == Bytes(sh.variables) + LocalBytes(sh.locals)

(* The budget is never told less than there is, unless a builtin stored    *)
(* past it (drifted): through locals that shadow globals, prefixes that    *)
(* are taken back, children that start from other maps, refusals and       *)
(* restores, which start the counts afresh (limits.rs:707).  For functions *)
(* it is what keeps the plain subtraction of check_function_insert         *)
(* (limits.rs:811) from going below zero.                                  *)
CountsCoverState ==
  LET b == shell.budget IN
  /\ b.function_count >= Cardinality(DOMAIN shell.functions)
  /\ b.function_body_bytes >= Sum(shell.functions)
  /\ ~drifted => /\ b.variable_count >= StoredCount(shell)
                 /\ b.variable_bytes >= StoredBytes(shell)
                 /\ b.array_entries >= ElementCount(shell.arrays)

(* What MemoryLimits promises of the session (limits.rs:615): counts of    *)
(* variables, array elements and functions, also after a restore of any    *)
(* snapshot.  The bytes of locals are not bounded: set_variable does not   *)
(* check them.                                                             *)
StateWithinLimits ==
  /\ Cardinality(DOMAIN shell.functions) <= MaxFunctionCount
  /\ Sum(shell.functions) <= MaxFunctionBytes
  /\ ~drifted => /\ StoredCount(shell) <= MaxVariableCount
                 /\ Bytes(shell.variables) <= MaxVariableBytes
                 /\ ElementCount(shell.arrays) <= MaxArrayEntries

(* The budget does its work: it covers the state, and the state keeps the  *)
(* limits that the budget is there to guard.                               *)
BudgetGuardsState == CountsCoverState /\ StateWithinLimits

(* Whatever commands ran in a child, the parent finds its variables,       *)
(* arrays, functions and readonly marks, and room for as much as before,   *)
(* and with ( ... ) and scripts, or where there were none, the locals of   *)
(* its calls too (mod.rs:2411 "mutations don't leak to the parent",        *)
(* mod.rs:3816).  The environment is not among them, nor are the locals    *)
(* around $( ... ) and bash -c: ChildrenLeaveEnvironment,                  *)
(* SubstitutionsLeaveLocals.                                               *)
ChildrenLeaveNoTrace ==
  [][LET child == Last(nest) IN
     Return /\ child.kind \in Children =>
       /\ shell'.variables = child.saved.variables
       /\ shell'.arrays = child.saved.arrays
       /\ shell'.functions = child.saved.functions
       /\ shell'.readonly = child.saved.readonly
       /\ shell'.budget = child.saved.budget
       /\ child.kind \in {"subshell", "script"} \/ child.saved.locals = <<>>
            => shell'.locals = child.saved.locals]_vars

(* A snapshot that is refused changes neither the shell nor the files, and *)
(* one that is accepted brings back both, but for functions that find no   *)
(* room (snapshot.rs:327 "can't leave the instance in a half-restored      *)
(* state").                                                                *)
RestoreIsAllOrNothing ==
  [][\A c \in Candidates : RestoreSnapshot(c) =>
       \/ shell' = shell /\ vfs' = vfs
       \/ /\ shell'.variables = c.variables /\ shell'.env = c.env
          /\ shell'.arrays = c.arrays /\ shell'.readonly = c.readonly
          /\ \A f \in DOMAIN shell'.functions : shell'.functions[f] = c.functions[f]
          /\ c.tree # NoTree => vfs' = c.tree]_vars

(* What a session holds between two exec() calls it can restore: its own   *)
(* snapshot passes the validation and loses no function.                   *)
OwnSnapshot ==
  [variables |-> shell.variables, env |-> shell.env, arrays |-> shell.arrays,
   functions |-> shell.functions, sourced |-> DOMAIN shell.functions,
   readonly |-> shell.readonly, allexport |-> shell.allexport, tree |-> vfs]
OwnSnapshotFits ==
  nest = <<>> /\ ~drifted =>
    /\ Validated(OwnSnapshot) /\ TreeAccepted(OwnSnapshot)
    /\ Restored(OwnSnapshot, shell).functions = shell.functions

(* The same of the environment, which only scripts put back: what a child  *)
(* shell exports (mod.rs:3818 "mutations the child performs must not leak  *)
(* back to the parent") its parent's commands see.                         *)
ChildrenLeaveEnvironment ==
  [][Return /\ Last(nest).kind \in Children =>
       shell'.env = Last(nest).saved.env]_vars

(* mod.rs:7997 "Command substitution runs in a subshell: snapshot all      *)
(* mutable state so mutations don't leak to the parent": the locals of the *)
(* calls around it are not in the snapshot, and an assignment in $(...)    *)
(* stays.                                                                  *)
SubstitutionsLeaveLocals ==
  [][Return /\ Last(nest).kind = "subst" =>
       shell'.locals = Last(nest).saved.locals]_vars

(* limits.rs:709 "Number of scalar variables": what unset, the end of a    *)
(* call and the end of a prefix take away is never taken off, until no     *)
(* variable can be made although there is none.                            *)
CountIsTrue == ~drifted => shell.budget.variable_count = StoredCount(shell)

=============================================================================
