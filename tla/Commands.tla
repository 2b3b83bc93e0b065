------------------------------ MODULE Commands ------------------------------
(***************************************************************************)
(* The commands of scripts as the parser hands them over (parser/ast.rs),  *)
(* the places where a command may stand, and what a shell keeps on its     *)
(* stack while it runs them.  A simple command is what it does to the flow *)
(* and to the status; words, redirections and output are left out.         *)
(***************************************************************************)
EXTENDS Naturals, Sequences, FiniteSets

CONSTANTS MaxRounds,        \* what loops go through: words of a for, true conditions of a while
          Legal,            \* pairs of a command and a scope in which it may stand
          Scripts           \* the scripts without (FALSE) and with (TRUE) set -e

----------------------------------------------------------------------------
(* Kinds of commands.                                                      *)

Flows == {"break", "continue", "return", "exit"}
SimpleKinds == Flows \union {"do"}
Loops == {"for", "while", "until"}
CompoundKinds ==
  {"group", "source", "subshell", "call", "if", "case", "list", "pipeline"} \union Loops

\* A command that ends with this status
Do(status) == [kind |-> "do", status |-> status]

\* break and continue with the levels they count, return and exit with the code they make
\* of their argument
Flow(kind, n) == [kind |-> kind, n |-> n]

Conditional(op) == op \in {"&&", "||"}

\* The conditions of while and until end in a test that holds MaxRounds times.
Condition(loop, i) ==
  Append(loop.cond, Do(IF (i <= MaxRounds) = (loop.kind = "while") THEN 0 ELSE 1))

----------------------------------------------------------------------------
(* Scopes: which flows have a place to go to, and under set -e which       *)
(* failures the interpreter notices as a shell does.                       *)

Scope == [loops : Nat,            \* the loops a break may count, in this function and shell
          returns : BOOLEAN,      \* in a function
          exits : BOOLEAN,        \* exit ends something that takes its status
          strict : BOOLEAN,       \* the script runs with set -e; if so:
          tested : BOOLEAN,       \*   the status is tested, by a simple command only
          fails : BOOLEAN,        \*   a failure that nothing tests may happen
          codes : BOOLEAN,        \*   return and exit may give another code than 0
          excused : BOOLEAN]      \*   a tested failure may become the status

Outermost(e) ==
  [loops |-> 0, returns |-> FALSE, exits |-> TRUE, strict |-> e, tested |-> FALSE,
   fails |-> TRUE, codes |-> TRUE, excused |-> TRUE]

NoFlows(s) == [s EXCEPT !.loops = 0, !.returns = FALSE, !.exits = FALSE]
Unexcused(s) == [s EXCEPT !.excused = ~s.strict]
TestScope(s) == [s EXCEPT !.tested = s.strict, !.fails = TRUE]

ConditionScope(s) == TestScope(NoFlows(s))
LoopScope(s) == [s EXCEPT !.loops = @ + 1, !.fails = ~s.strict]
CallScope(s) ==
  [Unexcused(s) EXCEPT !.loops = 0, !.returns = TRUE, !.codes = s.codes /\ s.fails]
SubshellScope(s) == [Unexcused(s) EXCEPT !.loops = 0, !.exits = TRUE, !.codes = s.fails]
SourceScope(s) == Unexcused(NoFlows(s))
StageScope(s) ==
  [s EXCEPT !.loops = 0, !.exits = TRUE, !.fails = TRUE, !.codes = TRUE, !.excused = TRUE]
LastStageScope(s) == Unexcused(NoFlows(s))
NegatedScope(s) == [TestScope(s) EXCEPT !.loops = 0]
ArmScope(s, terminator) ==
  [Unexcused(s) EXCEPT !.fails = ~s.strict \/ (@ /\ terminator = ";;")]

\* op leads to the command, next follows it.
ListScope(s, op, next) ==
  IF Conditional(next) THEN TestScope(s)
  ELSE [s EXCEPT !.fails = ~s.strict \/ (@ /\ ~Conditional(op)),
                 !.excused = ~s.strict \/ next = ";" \/ Conditional(op)]

\* A line of a script: the failures of lists and of negated pipelines stop no script.
Excused(c) == c.kind = "list" \/ (c.kind = "pipeline" /\ c.negated)
LineScope(s, c) == IF Excused(c) THEN [s EXCEPT !.fails = ~s.strict] ELSE s

NextOp(rest, k) == IF k < Len(rest) THEN rest[k + 1].op ELSE "end"
Leading(rest) == NextOp(rest, 0)

----------------------------------------------------------------------------
(* Where a command may stand.                                              *)

IsSequence(cmds) == cmds \in Seq({cmds[k] : k \in DOMAIN cmds})

MayStand(c, s) == <<c, s>> \in Legal
AllMayStand(cmds, s) == IsSequence(cmds) /\ \A k \in DOMAIN cmds : MayStand(cmds[k], s)
LinesMayStand(cmds, s) ==
  IsSequence(cmds) /\ \A k \in DOMAIN cmds : MayStand(cmds[k], LineScope(s, cmds[k]))

LoopFits(loop, s) ==
  /\ AllMayStand(loop.body, LoopScope(s))
  /\ loop.kind # "for" =>
       /\ AllMayStand(loop.cond, ConditionScope(s))
       /\ \A status \in {0, 1} : MayStand(Do(status), ConditionScope(s))

ClausesFit(clauses, s) ==
  /\ IsSequence(clauses) /\ clauses # <<>>
  /\ \A k \in DOMAIN clauses :
       AllMayStand(clauses[k].cond, ConditionScope(s)) /\ AllMayStand(clauses[k].body, s)

ArmsFit(arms, s) ==
  /\ IsSequence(arms)
  /\ \A k \in DOMAIN arms :
       /\ arms[k].matches \in BOOLEAN
       /\ arms[k].terminator \in {";;", ";&", ";;&"}
       /\ AllMayStand(arms[k].body, ArmScope(s, arms[k].terminator))

RestFits(rest, s) ==
  /\ IsSequence(rest)
  /\ \A k \in DOMAIN rest :
       /\ rest[k].op \in {"&&", "||", ";"}
       /\ MayStand(rest[k].cmd, ListScope(s, rest[k].op, NextOp(rest, k)))
       /\ k = Len(rest) /\ Conditional(rest[k].op) => s.excused

ListFits(list, s) ==
  /\ list.rest # <<>> /\ RestFits(list.rest, s)
  /\ MayStand(list.first, ListScope(s, ";", Leading(list.rest)))

StagesFit(stages, s) ==
  /\ IsSequence(stages)
  /\ \A k \in DOMAIN stages :
       MayStand(stages[k], IF k < Len(stages) THEN StageScope(s) ELSE LastStageScope(s))

PipelineFits(p, s) ==
  LET inner == IF p.negated THEN NegatedScope(s) ELSE s
  IN  /\ p.negated \in BOOLEAN /\ p.stages # <<>>
      /\ IF Len(p.stages) = 1 THEN AllMayStand(p.stages, inner) ELSE StagesFit(p.stages, inner)
      /\ s.strict /\ p.negated =>
           Len(p.stages) = 1 /\ p.stages[1].kind = "do" /\ p.stages[1].status # 0

\* Every break and continue has its loops in the same function, shell and pipeline stage,
\* every return a function, and none of them, nor an exit, leaves a condition or the last
\* stage of a pipeline.  Under set -e what is tested is a simple command; the bodies of
\* loops, the arms that fall through and what follows && or || have no failure that nothing
\* tests; and none that was tested becomes the status of a function, a subshell, a
\* pipeline, a case or a sourced file.
Fits(c, s) ==
  /\ c.kind \in SimpleKinds \union CompoundKinds
  /\ s.tested => c.kind \in SimpleKinds
  /\ c.kind = "do" => c.status \in Nat /\ (c.status = 0 \/ s.fails)
  /\ c.kind \in {"break", "continue"} => c.n \in 1 .. s.loops
  /\ c.kind = "return" => s.returns /\ c.n \in Nat /\ (c.n = 0 \/ s.codes)
  /\ c.kind = "exit" => s.exits /\ c.n \in Nat /\ (c.n = 0 \/ s.codes)
  /\ c.kind = "group" => AllMayStand(c.body, s)
  /\ c.kind = "subshell" => AllMayStand(c.body, SubshellScope(s))
  /\ c.kind = "call" => AllMayStand(c.body, CallScope(s))
  /\ c.kind = "source" => LinesMayStand(c.body, SourceScope(s))
  /\ c.kind \in Loops => LoopFits(c, s)
  /\ c.kind = "if" => ClausesFit(c.clauses, s) /\ AllMayStand(c.otherwise, s)
  /\ c.kind = "case" => ArmsFit(c.arms, s)
  /\ c.kind = "list" => ListFits(c, s)
  /\ c.kind = "pipeline" => PipelineFits(c, s)

\* Every part of a command that stands in a scope may stand in the part's own.
ASSUME RoundsAssumption == MaxRounds \in Nat
ASSUME LegalAssumption ==
  \A p \in Legal : p = <<p[1], p[2]>> /\ p[2] \in Scope /\ Fits(p[1], p[2])
ASSUME ScriptsAssumption ==
  /\ DOMAIN Scripts = BOOLEAN
  /\ \A e \in BOOLEAN : \A cmds \in Scripts[e] :
       cmds # <<>> /\ LinesMayStand(cmds, Outermost(e))

----------------------------------------------------------------------------
(* What stands on the stack of a shell: commands that are still to run,    *)
(* and what is to be done after those above.                               *)

FunctionEnd == [kind |-> "functionend"]
ShellEnd(stages) == [kind |-> "shellend", rest |-> stages]   \* the stages that are still to run
Round(loop, i) == [kind |-> "round", loop |-> loop, i |-> i]
Decide(loop, i, last) == [kind |-> "decide", loop |-> loop, i |-> i, last |-> last]
Branch(clauses, otherwise) == [kind |-> "branch", clauses |-> clauses, otherwise |-> otherwise]
Arms(arms, fall) == [kind |-> "arms", arms |-> arms, fall |-> fall]
Operator(rest) == [kind |-> "operator", rest |-> rest]
Invert == [kind |-> "invert"]

\* A failing command is tested if an open construct asks for the status.
Tests(item) == \/ item.kind \in {"branch", "decide", "invert"}
               \/ item.kind = "operator" /\ Conditional(Leading(item.rest))
Tested(stack) == \E k \in DOMAIN stack : Tests(stack[k])

\* stack[k] is the n-th item of these kinds.
IsNth(kinds, n, stack, k) ==
  /\ stack[k].kind \in kinds
  /\ Cardinality({j \in 1 .. k : stack[j].kind \in kinds}) = n

\* The stack from the n-th item of these kinds on, and the stack below it
From(kinds, n, stack) ==
  IF \E k \in DOMAIN stack : IsNth(kinds, n, stack, k)
  THEN SubSeq(stack, CHOOSE k \in DOMAIN stack : IsNth(kinds, n, stack, k), Len(stack))
  ELSE <<>>
Beyond(kinds, n, stack) ==
  LET s == From(kinds, n, stack) IN IF s = <<>> THEN <<>> ELSE Tail(s)

Mark == [kind |-> "mark"]    \* stands among the commands that ran where the body of a loop starts

=============================================================================
