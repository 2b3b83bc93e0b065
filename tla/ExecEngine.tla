----------------------------- MODULE ExecEngine -----------------------------
(***************************************************************************)
(* The interpreter's execution engine: one Bash session, the nest of       *)
(* awaits that runs a script, and the state that each await saves and puts *)
(* back (crates/bashkit/src/interpreter/mod.rs, limits.rs, lib.rs).        *)
(*                                                                         *)
(* Every construct that runs other commands (a function call, $(...),      *)
(* `( ... )`, source, eval, bash -c, a loop, a redirected compound, ...)   *)
(* is a Rust async call that changes some of the interpreter's fields,     *)
(* awaits execute_command, and undoes the change.  `stack` is the nest of  *)
(* those calls; a frame holds what its call saved.  A call can end in      *)
(* three ways and they undo different things:                              *)
(*   - it returns Ok                       (Returned)                      *)
(*   - an Err crosses it on its way up     (ErrorPropagates)               *)
(*   - its future is dropped by a timeout  (TimeoutElapses, ExecTimesOut): *)
(*     then no code after the await runs at all.                           *)
(***************************************************************************)
EXTENDS Integers, Sequences, FiniteSets

CONSTANTS
  Features,       \* the frame kinds and host events this instance uses
  Scopes,         \* abstract contents of the maps SubshellSnapshot saves
  ChildScope,     \* the contents a child shell starts with
  Args,           \* abstract lists of positional parameters
  Data,           \* abstract pipeline inputs
  NoStdin,        \* pipeline_stdin is None
  MaxCommands, MaxLoopIterations, MaxTotalLoopIterations,
  MaxFunctionDepth, MaxSubstDepth,             \* ExecutionLimits
  MaxSessionCommands, MaxExecCalls,            \* SessionLimits
  MaxStack        \* bound on the nest of calls

(* The frame kinds, each a construct of the source that awaits commands. *)
Kinds == {"exec", "eval", "alias", "function", "source", "shell", "script",
          "subshell", "subst", "loop", "redirect", "pipeline", "pipe", "trap", "timeout"}

(* Events from outside the script that a run may leave out. *)
HostEvents == {"exec_timeout", "cancel"}

ASSUME FeaturesAssumption == Features \subseteq Kinds \cup HostEvents
ASSUME ScopeAssumption == ChildScope \in Scopes
ASSUME ArgsAssumption == Args # {}
ASSUME StdinAssumption == NoStdin \notin Data
ASSUME LimitAssumption ==
  /\ MaxCommands \in Nat /\ MaxLoopIterations \in Nat
  /\ MaxTotalLoopIterations \in Nat /\ MaxFunctionDepth \in Nat
  /\ MaxSubstDepth \in Nat /\ MaxSessionCommands \in Nat
  /\ MaxExecCalls \in Nat /\ MaxStack \in Nat

VARIABLES
  mode,       \* "idle": no exec; "run": the top call is awaiting commands;
              \* "err": an Err is on its way up
  stack,      \* the nest of awaiting calls, outermost first
  shell,      \* the interpreter fields that calls save and restore
  counters,   \* ExecutionCounters
  cancelled,  \* the shared cancellation token
  work        \* history: the commands and loop iterations of the running
              \* exec(), and whether every call so far has returned Ok

vars == <<mode, stack, shell, counters, cancelled, work>>

Stdin == Data \cup {NoStdin}

(* SHELL: scope stands for everything SubshellSnapshot holds; call_stack   *)
(* for the positional parameters of each CallFrame; bash_source for the    *)
(* length of bash_source_stack; callback for output_callback.is_some().    *)
ShellState ==
  [scope: Scopes, call_stack: Seq(Args), bash_source: Nat, stdin: Stdin,
   callback: BOOLEAN, capture_depth: Nat, in_trap: BOOLEAN]

Frames ==
  [kind: Kinds, scope: Scopes, call_stack: Seq(Args), depth: Nat,
   bash_source: Nat, stdin: Stdin, args: {"none", "replaced", "pushed"}, input: BOOLEAN,
   callback: BOOLEAN, captured: BOOLEAN, file: BOOLEAN, exit_trap: BOOLEAN]

Counters ==
  [commands: Nat, loop_iterations: Seq(Nat), total_loop_iterations: Nat,
   function_depth: Nat, subst_depth: Nat,
   session_commands: Nat, session_exec_calls: Nat]

Work == [commands: Nat, loops: Nat, clean: BOOLEAN]

TypeOK ==
  /\ mode \in {"idle", "run", "err"}
  /\ stack \in Seq(Frames)
  /\ shell \in ShellState
  /\ counters \in Counters
  /\ cancelled \in BOOLEAN
  /\ work \in Work

Init ==
  /\ mode = "idle"
  /\ stack = <<>>
  /\ shell = [scope |-> ChildScope, call_stack |-> <<>>, bash_source |-> 0,
              stdin |-> NoStdin, callback |-> FALSE, capture_depth |-> 0,
              in_trap |-> FALSE]
  /\ counters = [commands |-> 0, loop_iterations |-> <<>>,
                 total_loop_iterations |-> 0, function_depth |-> 0,
                 subst_depth |-> 0, session_commands |-> 0,
                 session_exec_calls |-> 0]
  /\ cancelled = FALSE
  /\ work = [commands |-> 0, loops |-> 0, clean |-> TRUE]

(* A frame that saved nothing; a call overrides the fields it does save. *)
Frame(k) ==
  [kind |-> k, scope |-> ChildScope, call_stack |-> <<>>, depth |-> 0,
   bash_source |-> 0, stdin |-> NoStdin, args |-> "none", input |-> FALSE, callback |-> FALSE,
   captured |-> FALSE, file |-> FALSE, exit_trap |-> FALSE]

Top == stack[Len(stack)]
ButLast(s) == SubSeq(s, 1, Len(s) - 1)
Larger(m, n) == IF m >= n THEN m ELSE n
Smaller(m, n) == IF m <= n THEN m ELSE n

-----------------------------------------------------------------------------
(* ExecutionCounters *)

(* tick_command: counts first and checks second, so a refused command is   *)
(* still counted. *)
TickCommand(c) ==
  [c EXCEPT !.commands = @ + 1, !.session_commands = @ + 1]

SessionAllows(c) ==
  /\ c.session_exec_calls <= MaxExecCalls
  /\ c.session_commands <= MaxSessionCommands

ResetForExecution(c) ==
  [c EXCEPT !.commands = 0, !.loop_iterations = <<>>,
            !.total_loop_iterations = 0, !.function_depth = 0,
            !.subst_depth = 0]

(* The head of Interpreter::execute: every call of it, the nested ones of  *)
(* eval and of alias expansion too, starts from fresh per-exec counters. *)
StartExecute(c) ==
  [ResetForExecution(c) EXCEPT !.session_exec_calls = @ + 1]

TickLoop(c) ==
  LET open == IF c.loop_iterations = <<>> THEN <<0>> ELSE c.loop_iterations
      n == Len(open)
  IN [c EXCEPT !.loop_iterations = [open EXCEPT ![n] = @ + 1],
               !.total_loop_iterations = @ + 1]

LoopAllows(c) ==
  /\ c.loop_iterations[Len(c.loop_iterations)] <= MaxLoopIterations
  /\ c.total_loop_iterations <= MaxTotalLoopIterations

EnterLoop(c) == [c EXCEPT !.loop_iterations = Append(@, 0)]

ExitLoop(c) ==
  [c EXCEPT !.loop_iterations = IF @ = <<>> THEN <<>> ELSE ButLast(@)]

PushForgotten(c) == c
PushFunction(c) == [c EXCEPT !.function_depth = @ + 1]
PopUnsaturated(c, n) == [c EXCEPT !.function_depth = @ - n]
PopFunction(c, n) == [c EXCEPT !.function_depth = Larger(0, @ - n)]
PushSubst(c) == [c EXCEPT !.subst_depth = @ + 1]
PopSubst(c) == [c EXCEPT !.subst_depth = Larger(0, @ - 1)]

-----------------------------------------------------------------------------
(* A call that awaits commands: pushed by the command that starts it. *)

Running == mode = "run" /\ stack # <<>>

(* execute_pipeline awaits its next stage. *)
AtStage == Top.kind = "pipeline"

(* execute_command: the token, then tick_command, then the session check.  *)
(* A simple stage is ticked by execute_pipeline itself, which asks neither *)
(* the token nor the session limits. *)
Admitted ==
  /\ Running
  /\ TickCommand(counters).commands <= MaxCommands
  /\ ~AtStage => ~cancelled /\ SessionAllows(TickCommand(counters))

(* What is not a simple command gets there by execute_command alone. *)
CompoundAdmitted == Admitted /\ ~AtStage

Call(f) ==
  /\ f.kind \in Features
  /\ Len(stack) < MaxStack
  /\ stack' = Append(stack, f)

CountCommands(n) == work' = [work EXCEPT !.commands = @ + n]

(* A command refused by the token: nothing is counted. *)
CommandCancelled ==
  /\ Running
  /\ cancelled /\ ~AtStage
  /\ mode' = "err"
  /\ UNCHANGED <<stack, shell, counters, cancelled, work>>

(* A command refused by a limit: it has been counted. *)
RefusalIgnored ==
  /\ Running
  /\ AtStage \/ ~cancelled
  /\ ~Admitted
  /\ counters' = TickCommand(counters)
  /\ CountCommands(1)
  /\ UNCHANGED <<mode, stack, shell, cancelled>>
CommandRefused ==
  /\ Running
  /\ AtStage \/ ~cancelled
  /\ ~Admitted
  /\ counters' = TickCommand(counters)
  /\ mode' = "err"
  /\ CountCommands(1)
  /\ UNCHANGED <<stack, shell, cancelled>>

(* A simple command without nested commands: an assignment, a builtin.  It *)
(* may change the scope and may consume the pipeline input. *)
SimpleCommand ==
  /\ Admitted
  /\ counters' = TickCommand(counters)
  /\ \E s \in Scopes, d \in {shell.stdin, NoStdin} :
       shell' = [shell EXCEPT !.scope = s, !.stdin = d]
  /\ CountCommands(1)
  /\ UNCHANGED <<mode, stack, cancelled>>

(* a | b | c: each simple stage is one of the other actions, admitted as a  *)
(* stage. *)
PipelineBegins ==
  /\ CompoundAdmitted
  /\ Call(Frame("pipeline"))
  /\ counters' = TickCommand(counters)
  /\ CountCommands(1)
  /\ UNCHANGED <<mode, shell, cancelled>>

(* A compound stage goes through execute_command, which counts it, with the *)
(* previous stage's output as its pipeline input. *)
CompoundPipelineStage ==
  /\ Running
  /\ AtStage
  /\ \E d \in Stdin :
       /\ Call([Frame("pipe") EXCEPT !.stdin = shell.stdin,
                                     !.depth = counters.session_commands])
       /\ shell' = [shell EXCEPT !.stdin = d]
  /\ UNCHANGED <<mode, counters, cancelled, work>>

(* A compound command with redirections: an input redirection replaces the *)
(* pipeline input, an output redirection takes the streaming callback away *)
(* and `2>&1 >file` captures pending descriptors. *)
CompoundWithRedirects ==
  /\ CompoundAdmitted
  /\ \E d \in Stdin, output, captured \in BOOLEAN :
       /\ captured => output
       /\ d # NoStdin \/ output
       /\ Call([Frame("redirect") EXCEPT
                   !.input = (d # NoStdin),
                   !.stdin = IF d # NoStdin THEN shell.stdin ELSE NoStdin,
                   !.callback = output /\ shell.callback,
                   !.captured = captured])
       /\ shell' = [shell EXCEPT
                       !.stdin = IF d # NoStdin THEN d ELSE @,
                       !.callback = @ /\ ~output,
                       !.capture_depth = IF captured THEN @ + 1 ELSE @]
  /\ counters' = TickCommand(counters)
  /\ CountCommands(1)
  /\ UNCHANGED <<mode, cancelled>>

(* for, while, until, select, for ((;;)): the first iteration is ticked as *)
(* soon as the loop is entered.  A loop without iterations is a            *)
(* SimpleCommand. *)
LoopBegins ==
  /\ CompoundAdmitted
  /\ Call(Frame("loop"))
  /\ LET c == TickLoop(EnterLoop(TickCommand(counters))) IN
       /\ counters' = c
       /\ mode' = IF LoopAllows(c) THEN "run" ELSE "err"
  /\ work' = [work EXCEPT !.commands = @ + 1, !.loops = @ + 1]
  /\ UNCHANGED <<shell, cancelled>>

LoopIterates ==
  /\ Running
  /\ Top.kind = "loop"
  /\ LET c == TickLoop(counters) IN
       /\ counters' = c
       /\ mode' = IF LoopAllows(c) THEN "run" ELSE "err"
  /\ work' = [work EXCEPT !.loops = @ + 1]
  /\ UNCHANGED <<stack, shell, cancelled>>

(* ( commands ) *)
SubshellBegins ==
  /\ CompoundAdmitted
  /\ Call([Frame("subshell") EXCEPT !.scope = shell.scope,
                                    !.call_stack = shell.call_stack])
  /\ counters' = TickCommand(counters)
  /\ CountCommands(1)
  /\ UNCHANGED <<mode, shell, cancelled>>

(* A simple command with $(...) in one of its words.  Beyond the depth     *)
(* limit the expansion fails; inside $((...)) it is silently 0. *)
CommandSubstitution ==
  /\ Admitted
  /\ LET c == TickCommand(counters) IN
       IF c.subst_depth < MaxSubstDepth
         THEN /\ Call([Frame("subst") EXCEPT !.scope = shell.scope])
              /\ counters' = PushSubst(c)
              /\ mode' = mode
         ELSE /\ "subst" \in Features
              /\ counters' = c
              /\ mode' \in {mode, "err"}
              /\ UNCHANGED stack
  /\ CountCommands(1)
  /\ UNCHANGED <<shell, cancelled>>

FunctionCall ==
  /\ Admitted
  /\ LET c == TickCommand(counters) IN
       IF c.function_depth < MaxFunctionDepth
         THEN /\ Call([Frame("function") EXCEPT !.stdin = shell.stdin])
              /\ counters' = PushFunction(c)
              /\ \E a \in Args, d \in Stdin :
                   shell' = [shell EXCEPT
                               !.call_stack = Append(@, a),
                               !.bash_source = @ + 1,
                               !.stdin = d]
              /\ mode' = mode
         ELSE /\ "function" \in Features
              /\ counters' = c
              /\ mode' = "err"
              /\ UNCHANGED <<stack, shell>>
  /\ CountCommands(1)
  /\ UNCHANGED cancelled

(* source FILE [ARGS]: the caller's positional parameters are replaced     *)
(* before the depth is checked, so a refusal leaves them replaced. *)
Source ==
  /\ Admitted
  /\ \E with_args \in BOOLEAN, a \in Args :
       LET c == TickCommand(counters)
           n == Len(shell.call_stack)
           how == IF ~with_args THEN "none"
                  ELSE IF n = 0 THEN "pushed" ELSE "replaced"
           replaced == [shell EXCEPT
                          !.call_stack = CASE how = "none" -> @
                                           [] how = "pushed" -> <<a>>
                                           [] OTHER -> [@ EXCEPT ![n] = a]]
       IN IF c.function_depth < MaxFunctionDepth
            THEN /\ Call([Frame("source") EXCEPT
                            !.args = how,
                            !.call_stack = IF how = "replaced"
                                             THEN <<shell.call_stack[n]>>
                                             ELSE <<>>])
                 /\ counters' = PushFunction(c)
                 /\ shell' = [replaced EXCEPT !.bash_source = @ + 1]
                 /\ mode' = mode
            ELSE /\ "source" \in Features
                 /\ counters' = c
                 /\ shell' = replaced
                 /\ mode' = "err"
                 /\ UNCHANGED stack
  /\ CountCommands(1)
  /\ UNCHANGED cancelled

(* bash -c TEXT, bash FILE: the child starts from a wiped scope. *)
ShellBegins ==
  /\ Admitted
  /\ \E a \in Args, d \in Stdin, file \in BOOLEAN :
       /\ Call([Frame("shell") EXCEPT !.scope = shell.scope,
                                      !.stdin = shell.stdin,
                                      !.file = file])
       /\ shell' = [shell EXCEPT
                       !.scope = ChildScope,
                       !.call_stack = Append(@, a),
                       !.bash_source = IF file THEN @ + 1 ELSE @,
                       !.stdin = d]
  /\ counters' = TickCommand(counters)
  /\ CountCommands(1)
  /\ UNCHANGED <<mode, cancelled>>

(* ./FILE: the call stack and BASH_SOURCE are replaced, not extended. *)
ScriptBegins ==
  /\ Admitted
  /\ \E a \in Args, d \in Stdin :
       /\ Call([Frame("script") EXCEPT !.scope = shell.scope,
                                       !.call_stack = shell.call_stack,
                                       !.bash_source = shell.bash_source,
                                       !.stdin = shell.stdin])
       /\ shell' = [shell EXCEPT !.scope = ChildScope, !.call_stack = <<a>>,
                                 !.bash_source = 1, !.stdin = d]
  /\ counters' = TickCommand(counters)
  /\ CountCommands(1)
  /\ UNCHANGED <<mode, cancelled>>

(* eval TEXT and an expanded alias both run through Interpreter::execute,  *)
(* which resets the per-exec counters and counts one more exec call.  Only *)
(* the alias puts the pipeline input back when that call is refused. *)
EvalOrAlias(k) ==
  /\ Admitted
  /\ \E d \in Stdin :
       LET c == StartExecute(TickCommand(counters)) IN
       IF SessionAllows(c)
         THEN /\ Call([Frame(k) EXCEPT !.stdin = shell.stdin])
              /\ counters' = c
              /\ shell' = [shell EXCEPT !.stdin = d]
              /\ mode' = mode
         ELSE /\ k \in Features
              /\ counters' = c
              /\ shell' = [shell EXCEPT !.stdin = IF k = "eval" THEN d ELSE @]
              /\ mode' = "err"
              /\ UNCHANGED stack
  /\ CountCommands(1)
  /\ UNCHANGED cancelled

TrapMayFire == ~shell.in_trap

(* A simple command that fires the DEBUG trap before its own effect, or    *)
(* the ERR trap after it; neither fires inside a trap. *)
TrapFires ==
  /\ Admitted
  /\ TrapMayFire
  /\ Call(Frame("trap"))
  /\ \E s \in Scopes :
       shell' = [shell EXCEPT !.in_trap = TRUE, !.scope = s]
  /\ counters' = TickCommand(counters)
  /\ CountCommands(1)
  /\ UNCHANGED <<mode, cancelled>>

(* timeout N COMMAND: notes the two stack heights before it awaits. *)
TimeoutBegins ==
  /\ Admitted
  /\ Call([Frame("timeout") EXCEPT !.depth = Len(shell.call_stack),
                                   !.bash_source = shell.bash_source])
  /\ counters' = TickCommand(counters)
  /\ CountCommands(1)
  /\ UNCHANGED <<mode, shell, cancelled>>

(* The commands of a frame are done and its EXIT trap starts. *)
HasExitTrap == {"exec", "eval", "alias", "shell", "script", "subshell", "subst"}

ExitTrapBegins ==
  /\ Running
  /\ Top.kind \in HasExitTrap
  /\ ~Top.exit_trap
  /\ stack' = [stack EXCEPT ![Len(stack)].exit_trap = TRUE]
  /\ UNCHANGED <<mode, shell, counters, cancelled, work>>

-----------------------------------------------------------------------------
(* How a call ends. *)

Popped(s) == IF s = <<>> THEN <<>> ELSE ButLast(s)
Less(n) == Larger(0, n - 1)

(* What the code after the await puts back, construct by construct. *)
ExecRestores(f, sh) == [sh EXCEPT !.callback = FALSE]

StdinRestores(f, sh) == [sh EXCEPT !.stdin = f.stdin]

RedirectRestoresNoCapture(f, sh) ==
  [sh EXCEPT !.stdin = IF f.input THEN f.stdin ELSE @,
             !.callback = @ \/ f.callback]
RedirectRestores(f, sh) ==
  [sh EXCEPT !.stdin = IF f.input THEN f.stdin ELSE @,
             !.callback = @ \/ f.callback,
             !.capture_depth = IF f.captured THEN Less(@) ELSE @]

SubshellRestores(f, sh) ==
  [sh EXCEPT !.scope = f.scope, !.call_stack = f.call_stack]

SubstRestores(f, sh) == [sh EXCEPT !.scope = f.scope]

FunctionRestores(f, sh) ==
  [sh EXCEPT !.call_stack = Popped(@), !.bash_source = Less(@),
             !.stdin = f.stdin]

SourceRestoresArgs(f, calls) ==
  CASE f.args = "pushed" -> Popped(calls)
    [] f.args = "replaced" /\ calls # <<>> ->
         [calls EXCEPT ![Len(calls)] = f.call_stack[1]]
    [] OTHER -> calls

SourceRestores(f, sh) ==
  [sh EXCEPT !.bash_source = Less(@), !.call_stack = SourceRestoresArgs(f, @)]

ShellRestores(f, sh) ==
  [sh EXCEPT !.scope = f.scope, !.call_stack = Popped(@), !.stdin = f.stdin,
             !.bash_source = IF f.file THEN Less(@) ELSE @]

ScriptRestores(f, sh) ==
  [sh EXCEPT !.scope = f.scope, !.call_stack = f.call_stack,
             !.bash_source = f.bash_source, !.stdin = f.stdin]

TrapRestores(f, sh) == [sh EXCEPT !.in_trap = FALSE]

Restored(f, sh) ==
  CASE f.kind = "exec" -> ExecRestores(f, sh)
    [] f.kind \in {"eval", "alias", "pipe"} -> StdinRestores(f, sh)
    [] f.kind = "redirect" -> RedirectRestores(f, sh)
    [] f.kind = "subshell" -> SubshellRestores(f, sh)
    [] f.kind = "subst" -> SubstRestores(f, sh)
    [] f.kind = "function" -> FunctionRestores(f, sh)
    [] f.kind = "source" -> SourceRestores(f, sh)
    [] f.kind = "shell" -> ShellRestores(f, sh)
    [] f.kind = "script" -> ScriptRestores(f, sh)
    [] f.kind = "trap" -> TrapRestores(f, sh)
    [] f.kind \in {"loop", "pipeline", "timeout"} -> sh

(* What is put back when an Err crosses the call.  Four constructs leave   *)
(* with `?` before their restoring code, source before part of it. *)
LeavesAll == {"eval", "pipe", "redirect", "subst"}

SourceLeavesAll(f, sh) ==
  IF f.kind \in LeavesAll \cup {"source"} THEN sh ELSE Restored(f, sh)
SubshellLeavesAll(f, sh) ==
  IF f.kind \in LeavesAll \cup {"subshell"} THEN sh ELSE Restored(f, sh)
RestoredOnError(f, sh) ==
  IF f.kind \in LeavesAll THEN sh
  ELSE IF f.kind = "source" THEN [sh EXCEPT !.bash_source = Less(@)]
  ELSE Restored(f, sh)

CountersAfter(f, c) ==
  CASE f.kind = "loop" -> ExitLoop(c)
    [] f.kind \in {"function", "source"} -> PopFunction(c, 1)
    [] f.kind = "subst" -> PopSubst(c)
    [] OTHER -> c

FunctionKeepsDepth(f, c) ==
  IF f.kind \in {"subst", "function"} THEN c ELSE CountersAfter(f, c)
CountersAfterError(f, c) == IF f.kind = "subst" THEN c ELSE CountersAfter(f, c)

NeverIdle(running) == IF Len(stack) = 1 THEN "run" ELSE running
Outer(running) == IF Len(stack) = 1 THEN "idle" ELSE running

(* The command of a compound stage has been through execute_command. *)
StageCounted(f) == f.kind = "pipe" => counters.session_commands > f.depth

Returned ==
  /\ Running
  /\ StageCounted(Top)
  /\ shell' = Restored(Top, shell)
  /\ counters' = CountersAfter(Top, counters)
  /\ stack' = ButLast(stack)
  /\ mode' = Outer("run")
  /\ UNCHANGED <<cancelled, work>>

(* A DEBUG or ERR trap swallows an Err, and so does an EXIT trap: its      *)
(* frame then ends as if the trap had returned. *)
ErrorPropagates ==
  /\ mode = "err"
  /\ LET f == Top IN
       /\ IF f.exit_trap
            THEN /\ shell' = Restored(f, shell)
                 /\ counters' = CountersAfter(f, counters)
            ELSE /\ shell' = RestoredOnError(f, shell)
                 /\ counters' = CountersAfterError(f, counters)
       /\ mode' = Outer(IF f.exit_trap \/ f.kind = "trap" THEN "run" ELSE "err")
  /\ stack' = ButLast(stack)
  /\ work' = [work EXCEPT !.clean = FALSE]
  /\ UNCHANGED cancelled

(* The timeout builtin's timer fires: the futures above it are dropped and *)
(* reconcile_cancelled_execution_state truncates the two stacks. *)
TimeoutElapses(i) ==
  /\ Running
  /\ stack[i].kind = "timeout"
  /\ LET f == stack[i]
         calls == Larger(0, Len(shell.call_stack) - f.depth)
         sources == Larger(0, shell.bash_source - f.bash_source)
     IN /\ shell' = [shell EXCEPT
                       !.call_stack = SubSeq(@, 1, Smaller(Len(@), f.depth)),
                       !.bash_source = Smaller(@, f.bash_source)]
        /\ counters' = PopFunction(counters, Larger(calls, sources))
  /\ stack' = SubSeq(stack, 1, i - 1)
  /\ work' = [work EXCEPT !.clean = FALSE]
  /\ UNCHANGED <<mode, cancelled>>

-----------------------------------------------------------------------------
(* The host *)

(* exec_streaming, the exec() that has an output callback to lose: the     *)
(* token is not touched, the fields that calls save are not reset; traps   *)
(* and options, part of the scope, are. *)
Exec ==
  /\ mode = "idle"
  /\ counters.session_exec_calls <= MaxExecCalls   \* bound: one refused exec
  /\ LET c == StartExecute(counters) IN
       /\ counters' = c
       /\ IF SessionAllows(c)
            THEN /\ Call(Frame("exec"))
                 /\ mode' = "run"
                 /\ \E s \in Scopes :
                      shell' = [shell EXCEPT !.callback = TRUE, !.scope = s]
            ELSE /\ \E s \in Scopes : shell' = [shell EXCEPT !.scope = s]
                 /\ UNCHANGED <<mode, stack>>
  /\ work' = [work EXCEPT !.commands = 0, !.loops = 0]
  /\ UNCHANGED cancelled

(* A script that is too long, does not parse or is over the static budget  *)
(* never reaches Interpreter::execute. *)
ExecRejected ==
  /\ mode = "idle"
  /\ \E s \in Scopes : shell' = [shell EXCEPT !.scope = s]
  /\ UNCHANGED <<mode, stack, counters, cancelled, work>>

(* The execution timeout drops the whole nest; nothing of it is restored,  *)
(* only exec_streaming's own callback is cleared. *)
ExecTimesOut ==
  /\ "exec_timeout" \in Features
  /\ Running
  /\ mode' = "idle"
  /\ stack' = <<>>
  /\ shell' = [shell EXCEPT !.callback = FALSE]
  /\ work' = [work EXCEPT !.clean = FALSE]
  /\ UNCHANGED <<counters, cancelled>>

(* Any thread may set or clear the cancellation token at any time. *)
SetToken ==
  /\ "cancel" \in Features
  /\ cancelled' = ~cancelled
  /\ UNCHANGED <<mode, stack, shell, counters, work>>

Engine ==
  \/ CommandCancelled \/ CommandRefused \/ SimpleCommand
  \/ PipelineBegins \/ CompoundPipelineStage \/ CompoundWithRedirects
  \/ LoopBegins \/ LoopIterates \/ SubshellBegins \/ CommandSubstitution
  \/ FunctionCall \/ Source \/ ShellBegins \/ ScriptBegins
  \/ EvalOrAlias("eval") \/ EvalOrAlias("alias")
  \/ TrapFires \/ TimeoutBegins \/ ExitTrapBegins
  \/ Returned \/ ErrorPropagates
  \/ \E i \in DOMAIN stack : TimeoutElapses(i)

Next == Engine \/ Exec \/ ExecRejected \/ ExecTimesOut \/ SetToken

Spec == Init /\ [][Next]_vars

(* The engine keeps polling while an exec is awaited; the host owes it     *)
(* nothing. *)
FairSpec == Spec /\ WF_vars(Engine)

-----------------------------------------------------------------------------
(* Properties *)

Live(kinds) == Cardinality({i \in DOMAIN stack : stack[i].kind \in kinds})

Depth == {"function", "source"}     \* the kinds push_function counts
Resets == {"eval", "alias"}         \* the kinds that run Interpreter::execute

(* The depth counters are kept by hand, one push and one pop at a time, on *)
(* paths that return, fail and are swallowed by traps.  Where no nested    *)
(* execute and no timeout builtin interferes they agree with the nest of   *)
(* calls itself; substitutions that failed may leave subst_depth too high, *)
(* never too low. *)
CountersMatchStack ==
  Features \cap (Resets \cup {"timeout"}) = {} /\ mode # "idle" =>
    /\ counters.function_depth = Live(Depth)
    /\ Len(counters.loop_iterations) = Live({"loop"})
    /\ counters.subst_depth >= Live({"subst"})

(* "Maximum function call depth (recursion limit)", limits.rs:46: never    *)
(* more than max_function_depth calls of functions and sourced files are   *)
(* nested. *)
RecursionWithinLimit == Live(Depth) <= MaxFunctionDepth

(* "tracking total iterations across all loops", limits.rs:353: without a   *)
(* nested execute no exec() ticks more loop iterations than                 *)
(* max_total_loop_iterations, plus the one that is refused.  A trap may     *)
(* swallow that refusal and the script then begin another loop, but each    *)
(* loop is refused once, and each costs a command.                          *)
LoopsWithinLimit == work.loops <= MaxTotalLoopIterations + work.commands

(* The limits on what is nested and on what loops hold together. *)
LimitsHold == RecursionWithinLimit /\ LoopsWithinLimit

(* A command limit stops a session although traps swallow the error.  The  *)
(* count of an execute overruns max_commands by at most one command per    *)
(* open call; the count of a session overruns its limit by what is left of *)
(* the pipelines that are open when it is reached, since simple stages are *)
(* not asked about it, each up to the limit of an execute.  For every      *)
(* construct, every reset and every timeout. *)
MostOfAnExecute == MaxCommands + MaxStack + 1

OverrunBounded ==
  /\ counters.commands <= MostOfAnExecute
  /\ counters.session_commands <= MaxSessionCommands + (MaxStack + 1) * MostOfAnExecute

(* "Maximum total commands across all exec() calls", limits.rs:289: no more  *)
(* than one refused command per open call above it.  The code goes further:  *)
(* the stages of one pipeline alone pass the limit by their number, since    *)
(* execute_pipeline ticks them without the check (mod.rs:4121). *)
SessionStopsAtOnce == counters.session_commands <= MaxSessionCommands + MaxStack + 1

(* If every call returned Ok, a finished exec() leaves no trace of its     *)
(* nest: call frames, BASH_SOURCE, pipeline input, descriptor capture,     *)
(* trap flag and depth counters are as before the first command. *)
CleanExecsLeaveNothing ==
  mode = "idle" /\ work.clean =>
    /\ shell.call_stack = <<>> /\ shell.bash_source = 0
    /\ shell.stdin = NoStdin /\ ~shell.callback
    /\ shell.capture_depth = 0 /\ ~shell.in_trap
    /\ counters.function_depth = 0 /\ counters.subst_depth = 0
    /\ counters.loop_iterations = <<>>

(* Failed calls may leave pieces behind, but not without limit: at most    *)
(* the one positional frame that a failed `source FILE ARGS` pushed, no    *)
(* BASH_SOURCE entry, and no trap flag (no future dropped). *)
FailuresLeaveLittle ==
  Features \cap {"timeout", "exec_timeout"} = {} /\ mode = "idle" =>
    /\ Len(shell.call_stack) <= 1
    /\ shell.bash_source = 0
    /\ ~shell.in_trap

(* in_trap keeps DEBUG and ERR traps from nesting, and it is up only while *)
(* such a trap is running: otherwise traps would be off for good. *)
TrapFlagMatchesStack ==
  /\ Live({"trap"}) <= 1
  /\ Features \cap {"timeout", "exec_timeout"} = {} =>
       (shell.in_trap <=> Live({"trap"}) = 1)

(* What the interpreter counts and flags is what is nested, on every path  *)
(* by which calls end. *)
BookkeepingIsTrue == CountersMatchStack /\ TrapFlagMatchesStack

(* "mutations the child performs must not leak back to the parent",        *)
(* mod.rs:3818: whenever calls end, however they end, the scope is again   *)
(* the one that the outermost isolated call among them saved. *)
Isolated == {"subshell", "shell", "script"}

ChildrenAreIsolated ==
  [][\A i \in (Len(stack') + 1) .. Len(stack) :
       stack[i].kind \in Isolated
         /\ (\A j \in (Len(stack') + 1) .. (i - 1) : stack[j].kind \notin Isolated)
       => shell'.scope = stack[i].scope]_vars

(* The same promise for $(...): "mutations don't leak to the parent",      *)
(* mod.rs:7998. *)
SubstitutionsAreIsolated ==
  [][\A i \in (Len(stack') + 1) .. Len(stack) :
       stack[i].kind = "subst" => shell'.scope = stack[i].scope]_vars

(* Every exec() comes to an end: whatever it nests, and although eval and  *)
(* aliases reset the per-exec counters, the session limits end it. *)
ExecTerminates == (mode # "idle") ~> (mode = "idle")
=============================================================================
