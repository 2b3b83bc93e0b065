----------------------------- MODULE ControlFlow -----------------------------
(***************************************************************************)
(* How the interpreter hands break, continue, return, exit and set -e      *)
(* through nested constructs (interpreter/mod.rs).  execute_command calls  *)
(* itself for the commands inside a construct; each call gives a result    *)
(* that says what its caller still has to do.  `calls` is the nest of nest *)
(* calls, `control` the command that is run next or the result that the    *)
(* innermost call is given.  ShellMachine is what it implements.           *)
(***************************************************************************)
EXTENDS Commands

VARIABLES calls,       \* the open calls, the innermost first
          control,     \* a command to run, or a result
          ran,         \* history: the simple commands that ran and the rounds of loops
          errexit      \* set -e

flowVars == <<calls, control, ran, errexit>>

----------------------------------------------------------------------------
(* Results.                                                                *)

NoFlow == [kind |-> "none"]

\* ExecResult.  left is history: a shell has left by set -e.
Result(status) ==
  [kind |-> "result", status |-> status, flow |-> NoFlow, suppressed |-> FALSE, left |-> FALSE]
Unsuppressed(r) == [r EXCEPT !.suppressed = FALSE]
Inverted(r) == [r EXCEPT !.status = IF @ = 0 THEN 1 ELSE 0]

\* last is history: the status that the command sees as $?.
Run(c, last) == [kind |-> "run", command |-> c, last |-> last]

FlowResult(c) ==
  CASE c.kind = "do" -> Result(c.status)
    [] c.kind = "exit" -> [Result(c.n) EXCEPT !.flow = Flow("exit", c.n)]
    [] OTHER -> [Result(0) EXCEPT !.flow = Flow(c.kind, c.n)]

\* Mutants: slips in handing a result on.
SameLevel(flow) == flow
NeverSuppressed(c, r) == FALSE

\* LoopAccumulator: one level less for the loop outside
OneLevelLess(flow) == [flow EXCEPT !.n = @ - 1]
Propagated(r) ==
  IF r.flow.kind \in {"break", "continue"} THEN [Unsuppressed(r) EXCEPT !.flow = OneLevelLess(@)]
  ELSE [Unsuppressed(r) EXCEPT !.status = r.flow.n]

\* The flows that end at a construct give it their code as status.
Consumed(r, kinds) ==
  IF r.flow.kind \in kinds THEN [r EXCEPT !.flow = NoFlow, !.status = r.flow.n] ELSE r

----------------------------------------------------------------------------
(* Open calls.  With each stands, as history, what a shell has on its      *)
(* stack below the construct, and the scope of the construct.              *)

\* What a shell has on its stack for an open call
Pending(call) ==
  CASE call.kind \in {"script", "source", "sequence"} -> call.rest
    [] call.kind = "subshell" -> <<ShellEnd(<<>>)>>
    [] call.kind = "call"     -> <<FunctionEnd>>
    [] call.kind = "loop"     ->
         IF call.stage = "body" THEN <<Round(call.loop, call.i + 1)>>
         ELSE <<Decide(call.loop, call.i, call.acc.status)>>
    [] call.kind = "if"       ->
         IF call.stage = "body" THEN <<>> ELSE <<Branch(call.clauses, call.otherwise)>>
    [] call.kind = "case"     ->
         IF call.after = ";;" THEN <<>> ELSE <<Arms(call.arms, call.after = ";&")>>
    [] call.kind = "list"     -> <<Operator(call.rest)>>
    [] call.kind = "stages"   -> <<ShellEnd(call.rest)>>
    [] call.kind = "not"      -> <<Invert>>

\* The scope of the commands an open call runs, s being its own
Inside(call, s) ==
  CASE call.kind = "script"   -> LineScope(s, call.command)
    [] call.kind = "source"   -> LineScope(SourceScope(s), call.command)
    [] call.kind = "sequence" -> s
    [] call.kind = "subshell" -> SubshellScope(s)
    [] call.kind = "call"     -> CallScope(s)
    [] call.kind = "loop"     -> IF call.stage = "body" THEN LoopScope(s) ELSE ConditionScope(s)
    [] call.kind = "if"       -> IF call.stage = "body" THEN s ELSE ConditionScope(s)
    [] call.kind = "case"     -> ArmScope(s, call.after)
    [] call.kind = "list"     -> ListScope(s, call.op, Leading(call.rest))
    [] call.kind = "stages"   -> IF call.rest = <<>> THEN LastStageScope(s) ELSE StageScope(s)
    [] call.kind = "not"      -> NegatedScope(s)

StackOf(nest) == IF nest = <<>> THEN <<>> ELSE Pending(Head(nest).call) \o Head(nest).below
ScopeIn(nest) == Inside(Head(nest).call, Head(nest).scope)

Activation(call, below, scope) == [call |-> call, below |-> below, scope |-> scope]
Opened(call, nest) == <<Activation(call, StackOf(nest), ScopeIn(nest))>> \o nest

\* set -e, as a shell has it, when something ends with the result r and s is still to run
Settled(r, s) == [r EXCEPT !.left = errexit /\ r.flow = NoFlow /\ r.status # 0 /\ ~Tested(s)]

----------------------------------------------------------------------------
(* Steps.                                                                  *)

Turns(nest, next) == calls' = nest /\ control' = next /\ UNCHANGED <<ran, errexit>>

\* execute_command_sequence_impl for the commands inside the open calls
Begins(cmds, check, nest) ==
  IF cmds = <<>> THEN calls' = nest /\ control' = Result(0)
  ELSE /\ calls' = Opened([kind |-> "sequence", rest |-> Tail(cmds), check |-> check], nest)
       /\ control' = Run(Head(cmds), 0)
Sequence(cmds, nest) == Begins(cmds, TRUE, nest) /\ UNCHANGED <<ran, errexit>>
ConditionSequence(cmds, nest) == Begins(cmds, FALSE, nest) /\ UNCHANGED <<ran, errexit>>

ToRun(kinds) == control.kind = "run" /\ control.command.kind \in kinds
Command == control.command

RunSimple ==
  /\ ToRun(SimpleKinds)
  /\ ran' = Append(ran, Command)
  /\ control' = Settled(FlowResult(Command), StackOf(calls))
  /\ UNCHANGED <<calls, errexit>>

OpenGroup == ToRun({"group"}) /\ Sequence(Command.body, calls)

OpenSubshell ==
  ToRun({"subshell"}) /\ Sequence(Command.body, Opened([kind |-> "subshell"], calls))

OpenCall == ToRun({"call"}) /\ Sequence(Command.body, Opened([kind |-> "call"], calls))

OpenSource ==
  /\ ToRun({"source"})
  /\ IF Command.body = <<>> THEN Turns(calls, Result(0))
     ELSE Turns(Opened([kind |-> "source", command |-> Head(Command.body),
                        rest |-> Tail(Command.body)], calls),
                Run(Head(Command.body), 0))

\* acc: what the last round left
OpenLoop ==
  /\ ToRun(Loops)
  /\ Turns(Opened([kind |-> "loop", loop |-> Command, i |-> 0, stage |-> "body",
                   acc |-> Result(0)], calls),
           Result(0))

OpenIf ==
  /\ ToRun({"if"})
  /\ ConditionSequence(Head(Command.clauses).cond,
                       Opened([kind |-> "if", clauses |-> Command.clauses,
                               otherwise |-> Command.otherwise, stage |-> "condition"], calls))

\* after: the terminator of the arm that ran last
OpenCase ==
  /\ ToRun({"case"})
  /\ Turns(Opened([kind |-> "case", arms |-> Command.arms, after |-> ";;&"], calls), Result(0))

\* op: the operator before the command that ran last
OpenList ==
  /\ ToRun({"list"})
  /\ Turns(Opened([kind |-> "list", op |-> ";", rest |-> Command.rest], calls),
           Run(Command.first, 0))

OpenPipeline ==
  /\ ToRun({"pipeline"})
  /\ LET nest == IF Command.negated THEN Opened([kind |-> "not"], calls) ELSE calls
     IN Turns(IF Len(Command.stages) = 1 THEN nest
              ELSE Opened([kind |-> "stages", rest |-> Tail(Command.stages)], nest),
              Run(Head(Command.stages), 0))

\* A result comes back to the innermost Innermost.
BackIn(kinds) == control.kind = "result" /\ calls # <<>> /\ Head(calls).call.kind \in kinds
Innermost == Head(calls).call
Callers == Tail(calls)
Kept(c) == <<[Head(calls) EXCEPT !.call = c]>> \o Callers      \* the call goes on
Flowing == control.flow # NoFlow
ShellStatus ==
  IF control.kind = "run" THEN control.last
  ELSE IF control.flow.kind \in {"return", "exit"} THEN control.flow.n ELSE control.status

\* The commands of a sequence after one of them
SequenceStops ==
  Flowing \/ (Innermost.check /\ errexit /\ control.status # 0 /\ ~control.suppressed)
LeaveSequence ==
  /\ BackIn({"sequence"})
  /\ SequenceStops
  /\ Turns(Callers, Unsuppressed(control))
EndSequence ==
  /\ BackIn({"sequence"})
  /\ ~SequenceStops /\ Innermost.rest = <<>>
  /\ Turns(Callers, [control EXCEPT !.suppressed = @ /\ control.status # 0])
GoOnSequence ==
  /\ BackIn({"sequence"})
  /\ ~SequenceStops /\ Innermost.rest # <<>>
  /\ Turns(Kept([Innermost EXCEPT !.rest = Tail(@)]), Run(Head(Innermost.rest), control.status))

\* The lines of a script, at the top level and of what eval and source run.  exit's code
\* comes back through the on_exit hooks; the failures of lists and negated pipelines stop
\* nothing; no flow leaves.
LineExcused == Excused(Innermost.command) \/ control.suppressed
LeaveScript ==
  /\ BackIn({"script", "source"})
  /\ Flowing
  /\ Turns(Callers, Result(IF control.flow.kind = "exit" THEN control.flow.n ELSE control.status))
ScriptEnds == Innermost.rest = <<>> \/ (errexit /\ control.status # 0 /\ ~LineExcused)
EndScript ==
  /\ BackIn({"script", "source"})
  /\ ~Flowing /\ ScriptEnds
  /\ Turns(Callers, Unsuppressed(control))
GoOnScript ==
  /\ BackIn({"script", "source"})
  /\ ~Flowing /\ ~ScriptEnds
  /\ Turns(Kept([Innermost EXCEPT !.command = Head(Innermost.rest), !.rest = Tail(@)]),
           Run(Head(Innermost.rest), control.status))

EndSubshell ==
  /\ BackIn({"subshell"})
  /\ Turns(Callers, Settled(Consumed(control, {"exit", "return"}), Head(calls).below))

EndCall ==
  /\ BackIn({"call"})
  /\ Turns(Callers, Settled(Consumed(control, {"return"}), Head(calls).below))

\* A round of a loop has ended.
InnerLoop(flow) == flow.kind \in {"break", "continue"} /\ flow.n <= 1
LeaveLoop ==
  /\ BackIn({"loop"}) /\ Innermost.stage = "body"
  /\ Flowing /\ ~InnerLoop(control.flow)
  /\ Turns(Callers, Propagated(control))
BreakLoop ==
  /\ BackIn({"loop"}) /\ Innermost.stage = "body"
  /\ InnerLoop(control.flow) /\ control.flow.kind = "break"
  /\ Turns(Callers, [control EXCEPT !.flow = NoFlow])

RunsOn == \/ ~Flowing
          \/ InnerLoop(control.flow) /\ control.flow.kind = "continue"
Acc == [control EXCEPT !.flow = NoFlow]

\* The body of a loop, in round i
BodyBegins(i, acc) ==
  /\ ran' = Append(ran, Mark)
  /\ Begins(Innermost.loop.body, TRUE, Kept([Innermost EXCEPT !.i = i, !.stage = "body", !.acc = acc]))
  /\ UNCHANGED errexit

NextWord ==
  /\ BackIn({"loop"}) /\ Innermost.stage = "body" /\ Innermost.loop.kind = "for"
  /\ RunsOn
  /\ IF Innermost.i < MaxRounds THEN BodyBegins(Innermost.i + 1, Acc) ELSE Turns(Callers, Acc)

TestLoop ==
  /\ BackIn({"loop"}) /\ Innermost.stage = "body" /\ Innermost.loop.kind # "for"
  /\ RunsOn
  /\ ConditionSequence(Condition(Innermost.loop, Innermost.i + 1),
       Kept([Innermost EXCEPT !.i = @ + 1, !.stage = "condition", !.acc = Acc]))

\* The flow of a result of a condition is not looked at.
DecideLoop ==
  /\ BackIn({"loop"}) /\ Innermost.stage = "condition"
  /\ LET shouldBreak == (control.status = 0) = (Innermost.loop.kind = "until")
     IN IF shouldBreak THEN Turns(Callers, Innermost.acc) ELSE BodyBegins(Innermost.i, Innermost.acc)

DecideIf ==
  /\ BackIn({"if"}) /\ Innermost.stage = "condition"
  /\ IF control.status = 0
     THEN Sequence(Head(Innermost.clauses).body, Kept([Innermost EXCEPT !.stage = "body"]))
     ELSE IF Len(Innermost.clauses) = 1
     THEN Sequence(Innermost.otherwise, Kept([Innermost EXCEPT !.stage = "body"]))
     ELSE ConditionSequence(Innermost.clauses[2].cond, Kept([Innermost EXCEPT !.clauses = Tail(@)]))
EndIf ==
  /\ BackIn({"if"}) /\ Innermost.stage = "body"
  /\ Turns(Callers, control)

\* The arms of a case; at its start as after ;;&.
CaseEnds == Flowing \/ Innermost.after = ";;" \/ Innermost.arms = <<>>
EndCase ==
  /\ BackIn({"case"})
  /\ CaseEnds
  /\ Turns(Callers, Unsuppressed(control))
NextArm ==
  /\ BackIn({"case"})
  /\ ~CaseEnds
  /\ LET arm == Head(Innermost.arms)
     IN IF Innermost.after = ";&" \/ arm.matches
        THEN Sequence(arm.body, Kept([Innermost EXCEPT !.arms = Tail(@), !.after = arm.terminator]))
        ELSE Turns(Kept([Innermost EXCEPT !.arms = Tail(@), !.after = ";;&"]), control)

\* The status so far was tested by && or ||, here or inside.
FromConditional == Conditional(Innermost.op) \/ control.suppressed
\* errexit_suppressed of a list; its last operator is the one before its last command.
SuppressedAtEnd(c, r) == Conditional(c.op) /\ r.status # 0
ListStops ==
  \/ Flowing
  \/ /\ Leading(Innermost.rest) = ";" /\ errexit
     /\ control.status # 0 /\ ~FromConditional
LeaveList ==
  /\ BackIn({"list"})
  /\ ListStops
  /\ Turns(Callers, Unsuppressed(control))
EndList ==
  /\ BackIn({"list"})
  /\ ~ListStops /\ Innermost.rest = <<>>
  /\ Turns(Callers, [control EXCEPT !.suppressed = SuppressedAtEnd(Innermost, control)])

ShouldExecute(op) == \/ op = "&&" /\ control.status = 0
                     \/ op = "||" /\ control.status # 0
                     \/ op = ";"
NextInList ==
  /\ BackIn({"list"})
  /\ ~ListStops /\ Innermost.rest # <<>>
  /\ LET next == Head(Innermost.rest)
         kept == Kept([Innermost EXCEPT !.op = next.op, !.rest = Tail(@)])
     IN IF ShouldExecute(next.op) THEN Turns(kept, Run(next.cmd, control.status))
        ELSE Turns(kept, control)

\* Of all stages but the last only the output counts.
NextStage ==
  /\ BackIn({"stages"}) /\ Innermost.rest # <<>>
  /\ Turns(Kept([Innermost EXCEPT !.rest = Tail(@)]), Run(Head(Innermost.rest), ShellStatus))
EndStages ==
  /\ BackIn({"stages"}) /\ Innermost.rest = <<>>
  /\ Turns(Callers, Settled(control, Head(calls).below))
EndNot ==
  /\ BackIn({"not"})
  /\ Turns(Callers, Inverted(control))

ScriptHasEnded == calls = <<>> /\ UNCHANGED flowVars

FlowInit ==
  /\ errexit \in BOOLEAN
  /\ \E cmds \in Scripts[errexit] :
       /\ calls = <<Activation([kind |-> "script", command |-> Head(cmds), rest |-> Tail(cmds)],
                          <<>>, Outermost(errexit))>>
       /\ control = Run(Head(cmds), 0)
  /\ ran = <<>>

Opens == \/ OpenGroup \/ OpenSubshell \/ OpenCall \/ OpenSource
         \/ OpenLoop \/ OpenIf \/ OpenCase \/ OpenList \/ OpenPipeline
Returns == \/ LeaveSequence \/ EndSequence \/ GoOnSequence
           \/ LeaveScript \/ EndScript \/ GoOnScript
           \/ EndSubshell \/ EndCall
           \/ LeaveLoop \/ BreakLoop \/ NextWord \/ TestLoop \/ DecideLoop
           \/ DecideIf \/ EndIf \/ EndCase \/ NextArm
           \/ LeaveList \/ EndList \/ NextInList
           \/ NextStage \/ EndStages \/ EndNot

FlowNext == RunSimple \/ Opens \/ Returns \/ ScriptHasEnded

FlowSpec == FlowInit /\ [][FlowNext]_flowVars

----------------------------------------------------------------------------
(* The shell that the interpreter implements.                              *)

\* A flow on its way up has dropped in the shell all that lies above its target.
Reached(r, s) ==
  CASE r.flow.kind = "break"    -> Beyond({"round"}, r.flow.n, s)
    [] r.flow.kind = "continue" -> From({"round"}, r.flow.n, s)
    [] r.flow.kind = "return"   -> From({"functionend", "shellend"}, 1, s)
    [] r.flow.kind = "exit"     -> From({"shellend"}, 1, s)
    [] OTHER -> IF r.left THEN From({"shellend"}, 1, s) ELSE s

ShellStack ==
  IF control.kind = "run" THEN <<Command>> \o StackOf(calls)
  ELSE Reached(control, StackOf(calls))

Shell == INSTANCE ShellMachine WITH stack <- ShellStack, status <- ShellStatus

\* Whatever is nested in what, the commands that run, the rounds of the loops and the status
\* at the end are those of the shell: break and continue reach the loop they count to, return
\* the function and exit the shell it is in (state.rs:141, mod.rs:2458, mod.rs:6154); under
\* set -e nothing stops at a failure that is tested (mod.rs:4049 "no errexit checking",
\* state.rs:72), and everything at the first that is not, with its status.
ImplementsShell == Shell!Spec

----------------------------------------------------------------------------
(* What the interpreter keeps, whatever the nesting.                       *)

IsResult(r) ==
  /\ r = [kind |-> "result", status |-> r.status, flow |-> r.flow,
           suppressed |-> r.suppressed, left |-> r.left]
  /\ r.suppressed \in BOOLEAN /\ r.left \in BOOLEAN

FlowFits(r, s) ==
  \/ r.flow = NoFlow
  \/ /\ r.flow = Flow(r.flow.kind, r.flow.n) /\ r.flow.kind \in Flows
     /\ r.flow.kind \in {"break", "continue"} => r.flow.n \in 1 .. s.loops /\ r.status = 0
     /\ r.flow.kind = "return" => s.returns /\ (r.flow.n = 0 \/ s.codes)
     /\ r.flow.kind = "exit" => s.exits /\ (r.flow.n = 0 \/ s.codes)

\* A failure has left the shell only where nothing tests it; a suppressed one is one that
\* was tested, where that may become the status.
ResultFits(r, s) ==
  /\ IsResult(r)
  /\ FlowFits(r, s)
  /\ r.left => /\ s.strict /\ s.fails /\ ~s.tested
               /\ r.flow = NoFlow /\ r.status # 0 /\ ~r.suppressed
  /\ s.strict /\ r.suppressed => r.flow = NoFlow /\ r.status # 0 /\ s.excused

\* Every other failure is suppressed, or about to be by the construct that tests it.
Noticed(r, s) == s.strict /\ r.flow = NoFlow /\ r.status # 0 => r.left \/ r.suppressed

AccFits(r, s) == ResultFits(r, s) /\ r.flow = NoFlow /\ ~r.left /\ Noticed(r, s)

LinesFit(call, s) ==
  /\ call = [kind |-> call.kind, command |-> call.command, rest |-> call.rest]
  /\ MayStand(call.command, LineScope(s, call.command)) /\ LinesMayStand(call.rest, s)

\* A call in its scope; only the commands of a condition stand where the status is tested.
CallFits(call, s) ==
  /\ call.kind \in {"script", "source", "sequence", "subshell", "call", "loop", "if", "case",
                    "list", "stages", "not"}
  /\ s.tested => call.kind = "sequence" /\ ~call.check
  /\ call.kind = "script" => LinesFit(call, s)
  /\ call.kind = "source" => LinesFit(call, SourceScope(s))
  /\ call.kind = "sequence" =>
       /\ call = [kind |-> "sequence", rest |-> call.rest, check |-> call.check]
       /\ AllMayStand(call.rest, s) /\ call.check \in BOOLEAN
  /\ call.kind = "loop" =>
       /\ call = [kind |-> "loop", loop |-> call.loop, i |-> call.i, stage |-> call.stage,
                  acc |-> call.acc]
       /\ call.loop.kind \in Loops /\ LoopFits(call.loop, s) /\ AccFits(call.acc, s)
       /\ call.i \in Nat
       /\ call.stage = "body" \/ (call.stage = "condition" /\ call.loop.kind # "for")
  /\ call.kind = "if" =>
       /\ call = [kind |-> "if", clauses |-> call.clauses, otherwise |-> call.otherwise,
                  stage |-> call.stage]
       /\ ClausesFit(call.clauses, s) /\ AllMayStand(call.otherwise, s)
       /\ call.stage \in {"condition", "body"}
  /\ call.kind = "case" =>
       /\ call = [kind |-> "case", arms |-> call.arms, after |-> call.after]
       /\ ArmsFit(call.arms, s) /\ call.after \in {";;", ";&", ";;&"}
  /\ call.kind = "list" =>
       /\ call = [kind |-> "list", op |-> call.op, rest |-> call.rest]
       /\ RestFits(call.rest, s) /\ call.op \in {"&&", "||", ";"}
       /\ call.rest = <<>> /\ Conditional(call.op) => s.excused
  /\ call.kind = "stages" => /\ call = [kind |-> "stages", rest |-> call.rest]
                             /\ StagesFit(call.rest, s)

\* The frame of a call stands where the one outside it says.  A shell with set -e looks
\* through its stack for what tests a status; the scope says the same.
ActivationFits(f, e) ==
  /\ f = Activation(f.call, f.below, f.scope)
  /\ f.scope \in Scope /\ f.scope.strict = e
  /\ IsSequence(f.below) /\ (e => (Tested(f.below) <=> f.scope.tested))
  /\ CallFits(f.call, f.scope)
Within(f, g) ==
  /\ f.below = Pending(g.call) \o g.below /\ f.scope = Inside(g.call, g.scope)
  /\ f.call.kind # "script"
  /\ f.call.kind = "sequence" /\ ~f.call.check =>
       g.call.kind \in {"loop", "if"} /\ g.call.stage = "condition"
OutermostFits(f, e) ==
  f.call.kind = "script" /\ f.below = <<>> /\ f.scope = Outermost(e)
NestFits(nest, e) ==
  /\ IsSequence(nest)
  /\ \A k \in DOMAIN nest :
       /\ ActivationFits(nest[k], e)
       /\ IF k = Len(nest) THEN OutermostFits(nest[k], e) ELSE Within(nest[k], nest[k + 1])

CommandFits(c, call, s) ==
  /\ MayStand(c, s)
  /\ s.strict /\ call.kind = "not" => c.kind = "do" /\ c.status # 0
AnswerFits(r, call, s) ==
  /\ ResultFits(r, s)
  /\ Noticed(r, s) \/ s.tested \/ (call.kind = "list" /\ Conditional(call.op))
  /\ s.strict /\ call.kind = "not" => r.flow = NoFlow /\ r.status # 0 /\ ~r.suppressed
ControlFits(ctl, nest) ==
  IF nest = <<>> THEN ctl.kind = "result" /\ ctl.flow = NoFlow
  ELSE IF ctl.kind = "run"
  THEN ctl = Run(ctl.command, ctl.last) /\ CommandFits(ctl.command, Head(nest).call, ScopeIn(nest))
  ELSE AnswerFits(ctl, Head(nest).call, ScopeIn(nest))

\* No break, continue, return or exit comes to a construct that is not inside its target,
\* with as many levels to go as there are loops; under set -e no failure is forgotten and
\* none counted twice: one that a shell would not stop at is on its way suppressed up to
\* the construct that tested it (mod.rs:4049, mod.rs:4083, state.rs:72), and every other has
\* left the shell and stops each sequence on its way.
FlowsReachTheirTargets == NestFits(calls, errexit) /\ ControlFits(control, calls)

=============================================================================
