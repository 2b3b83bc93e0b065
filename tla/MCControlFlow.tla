---------------------------- MODULE MCControlFlow ----------------------------
(* A finite instance of ControlFlow: the scripts that a few steps build, with every kind *)
(* of flow, one and two levels up, in every construct.                                   *)
EXTENDS ControlFlow, TLC

Leaves == {Do(0), Do(1), Flow("break", 1), Flow("break", 2), Flow("continue", 1),
           Flow("continue", 2), Flow("return", 2), Flow("exit", 3)}

Body(kind, cmds) == [kind |-> kind, body |-> cmds]
Loop(kind, cond, cmds) == [kind |-> kind, cond |-> cond, body |-> cmds]
Clause(cond, cmds) == [cond |-> cond, body |-> cmds]
If(clauses, otherwise) == [kind |-> "if", clauses |-> clauses, otherwise |-> otherwise]
Arm(matches, cmds, terminator) ==
  [matches |-> matches, body |-> cmds, terminator |-> terminator]
Case(arms) == [kind |-> "case", arms |-> arms]
Pipeline(stages, negated) == [kind |-> "pipeline", stages |-> stages, negated |-> negated]
Then(op, cmd) == [op |-> op, cmd |-> cmd]
List(first, after) == [kind |-> "list", first |-> first, rest |-> after]

ok == Do(0)
One(cmds) == IF Len(cmds) = 1 /\ cmds[1].kind # "list" THEN cmds[1] ELSE Body("group", cmds)

\* The constructs around a script
Around(cmds) ==
  LET c == One(cmds) IN
  << Body("group", cmds), Body("subshell", cmds), Body("call", cmds), Body("source", cmds),
     Body("for", cmds), Loop("while", <<>>, cmds), Loop("until", <<>>, cmds),
     Loop("while", cmds, <<ok>>),
     If(<<Clause(cmds, <<ok>>)>>, <<ok, ok>>),
     If(<<Clause(<<Do(1)>>, <<ok>>), Clause(<<ok>>, cmds)>>, <<>>),
     Case(<<Arm(TRUE, cmds, ";;"), Arm(TRUE, <<ok>>, ";;")>>),
     Case(<<Arm(TRUE, cmds, ";&"), Arm(FALSE, <<ok>>, ";;")>>),
     Case(<<Arm(TRUE, cmds, ";;&"), Arm(FALSE, <<Do(1)>>, ";&"), Arm(TRUE, <<>>, ";;&")>>),
     Pipeline(<<c>>, TRUE), Pipeline(<<c, ok>>, FALSE), Pipeline(<<ok, c>>, FALSE),
     List(c, <<Then("&&", ok)>>), List(c, <<Then("||", ok)>>),
     List(ok, <<Then("&&", c)>>), List(Do(1), <<Then("||", c)>>),
     List(c, <<Then(";", ok)>>),
     List(Do(1), <<Then("&&", ok), Then(";", c), Then("||", ok)>>) >>
Forms == DOMAIN Around(<<ok>>)

Enclosed(scripts) == {Around(cmds)[form] : cmds \in scripts, form \in Forms}
Lone(cmds) == {<<c>> : c \in cmds}
Longer(scripts) ==
  {<<c>> \o cmds : c \in Leaves, cmds \in scripts}
    \union {Append(cmds, c) : c \in Leaves, cmds \in scripts}
    \union Lone(Enclosed(scripts))

Short == Lone(Leaves) \union Longer(Lone(Leaves))
Built == Short \union Longer(Short)

\* The commands inside a command
Elements(cmds) == {cmds[k] : k \in DOMAIN cmds}
Parts(c) ==
  CASE c.kind \in {"group", "source", "subshell", "call", "for"} -> Elements(c.body)
    [] c.kind \in {"while", "until"} -> {Do(0), Do(1)} \union Elements(c.cond) \union Elements(c.body)
    [] c.kind = "if" -> UNION {Elements(d.cond) \union Elements(d.body) : d \in Elements(c.clauses)}
                          \union Elements(c.otherwise)
    [] c.kind = "case" -> UNION {Elements(arm.body) : arm \in Elements(c.arms)}
    [] c.kind = "pipeline" -> Elements(c.stages)
    [] c.kind = "list" -> {c.first} \union {d.cmd : d \in Elements(c.rest)}
    [] OTHER -> {}

Inner(cmds) == UNION {Parts(c) : c \in cmds}
Level0 == Leaves \union Enclosed(Short)
Level1 == Inner(Level0)
Level2 == Inner(Level1)
Level3 == Inner(Level2)
Level4 == Inner(Level3)

\* The scopes of the parts of a command that stands in a scope
RECURSIVE Scopes(_)
Scopes(known) ==
  LET parts(s) == {ConditionScope(s), LoopScope(s), CallScope(s), SubshellScope(s),
                   SourceScope(s), LineScope(SourceScope(s), [kind |-> "list"]),
                   StageScope(s), LastStageScope(s), NegatedScope(s),
                   ArmScope(s, ";;"), ArmScope(s, ";&")}
                  \union {ListScope(s, op, next) : op \in {"&&", ";"}, next \in {"&&", ";", "end"}}
      more == {s \in UNION {parts(s) : s \in known} : s.loops <= 2} \ known
  IN  IF more = {} THEN known ELSE Scopes(known \union more)

Lines == UNION {{Outermost(e), LineScope(Outermost(e), [kind |-> "list"])} : e \in BOOLEAN}
Known == Scopes(Lines)

\* L and the pairs of these commands and scopes that fit when those inside them do
C(L) == INSTANCE Commands WITH Legal <- L, Scripts <- {}, MaxRounds <- 0
Fitting(cmds, scopes, L) == L \union {p \in cmds \X scopes : C(L)!Fits(p[1], p[2])}

Standing ==
  Fitting(Level0, Lines,
    Fitting(Level1, Known,
      Fitting(Level2, Known, Fitting(Level3, Known, Fitting(Level4, Known, {})))))
Runnable ==
  LET L == Standing
  IN  [e \in BOOLEAN |-> {cmds \in Built : C(L)!LinesMayStand(cmds, Outermost(e))}]

\* With LET, or TLC's coverage follows these in a circle through the Legal of Commands.
MCLegal == LET L == Standing IN L
MCScripts == LET scripts == Runnable IN scripts

=============================================================================
