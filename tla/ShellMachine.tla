---------------------------- MODULE ShellMachine ----------------------------
(***************************************************************************)
(* A shell as POSIX and bash describe it: a machine with a stack of the    *)
(* commands that are still to run and of what is left to do in the         *)
(* constructs that are open.  break, continue, return and exit drop what   *)
(* lies above their target at once, and with set -e so does a failure      *)
(* that no open construct tests.                                           *)
(***************************************************************************)
EXTENDS Commands

VARIABLES stack,       \* the top first
          status,      \* $?
          ran,         \* the simple commands that ran, with a mark for every round of a loop
          errexit      \* set -e

shellVars == <<stack, status, ran, errexit>>

Init == /\ errexit \in BOOLEAN
        /\ stack \in Scripts[errexit]
        /\ status = 0
        /\ ran = <<>>

At(kinds) == stack # <<>> /\ Head(stack).kind \in kinds
top == Head(stack)
rest == Tail(stack)

Goes(s, code, out) ==
  stack' = s /\ status' = code /\ ran' = ran \o out /\ UNCHANGED errexit

\* Something has ended with this status: with set -e a failure that nobody tests leaves
\* the shell.
Ended(code, s) ==
  IF errexit /\ code # 0 /\ ~Tested(s) THEN From({"shellend"}, 1, s) ELSE s

RunDo == At({"do"}) /\ Goes(Ended(top.status, rest), top.status, <<top>>)
RunBreak == At({"break"}) /\ Goes(Beyond({"round"}, top.n, rest), 0, <<top>>)
RunContinue == At({"continue"}) /\ Goes(From({"round"}, top.n, rest), 0, <<top>>)
RunReturn == At({"return"}) /\ Goes(From({"functionend", "shellend"}, 1, rest), top.n, <<top>>)
RunExit == At({"exit"}) /\ Goes(From({"shellend"}, 1, rest), top.n, <<top>>)

Open(c) ==
  CASE c.kind \in {"group", "source"} -> c.body
    [] c.kind = "subshell" -> Append(c.body, ShellEnd(<<>>))
    [] c.kind = "call"     -> Append(c.body, FunctionEnd)
    [] c.kind \in Loops    -> <<Round(c, 1)>>
    [] c.kind = "if"       -> Append(c.clauses[1].cond, Branch(c.clauses, c.otherwise))
    [] c.kind = "case"     -> <<Arms(c.arms, FALSE)>>
    [] c.kind = "list"     -> <<c.first, Operator(c.rest)>>
    [] c.kind = "pipeline" ->
         (IF Len(c.stages) = 1 THEN c.stages ELSE <<c.stages[1], ShellEnd(Tail(c.stages))>>)
         \o (IF c.negated THEN <<Invert>> ELSE <<>>)

OpenCompound == At(CompoundKinds) /\ Goes(Open(top) \o rest, 0, <<>>)

EndFunction == At({"functionend"}) /\ Goes(Ended(status, rest), status, <<>>)

\* The status of the last stage is that of the pipeline; the next one starts whatever the
\* others' are.
EndShell ==
  /\ At({"shellend"})
  /\ IF top.rest = <<>> THEN Goes(Ended(status, rest), status, <<>>)
     ELSE Goes(<<Head(top.rest), ShellEnd(Tail(top.rest))>> \o rest, status, <<>>)

InvertStatus == At({"invert"}) /\ Goes(rest, IF status = 0 THEN 1 ELSE 0, <<>>)

EnterBody(loop, i) == Goes(loop.body \o <<Round(loop, i + 1)>> \o rest, 0, <<Mark>>)

NextRound ==
  /\ At({"round"})
  /\ LET loop == top.loop
     IN IF loop.kind # "for"
        THEN Goes(Condition(loop, top.i) \o <<Decide(loop, top.i, status)>> \o rest, 0, <<>>)
        ELSE IF top.i <= MaxRounds THEN EnterBody(loop, top.i)
        ELSE Goes(rest, status, <<>>)

\* A loop ends with the status of its last round.
DecideRound ==
  /\ At({"decide"})
  /\ IF (status = 0) = (top.loop.kind = "while") THEN EnterBody(top.loop, top.i)
     ELSE Goes(rest, top.last, <<>>)

TakeBranch ==
  /\ At({"branch"})
  /\ IF status = 0 THEN Goes(Head(top.clauses).body \o rest, 0, <<>>)
     ELSE IF Len(top.clauses) = 1 THEN Goes(top.otherwise \o rest, 0, <<>>)
     ELSE Goes(top.clauses[2].cond \o <<Branch(Tail(top.clauses), top.otherwise)>> \o rest, 0, <<>>)

\* Where an arm of a case leads to when its commands have run
Falls(arms, terminator) ==
  IF terminator = ";;" THEN <<>> ELSE <<Arms(arms, terminator = ";&")>>

TakeArm ==
  /\ At({"arms"})
  /\ IF top.arms = <<>> THEN Goes(rest, status, <<>>)
     ELSE LET arm == Head(top.arms)
          IN IF top.fall \/ arm.matches
             THEN Goes(arm.body \o Falls(Tail(top.arms), arm.terminator) \o rest, 0, <<>>)
             ELSE Goes(<<Arms(Tail(top.arms), FALSE)>> \o rest, status, <<>>)

TakeOperator ==
  /\ At({"operator"})
  /\ IF top.rest = <<>> THEN Goes(rest, status, <<>>)
     ELSE LET next == Head(top.rest)
              later == <<Operator(Tail(top.rest))>> \o rest
          IN IF next.op = ";" \/ (next.op = "&&") = (status = 0)
             THEN Goes(<<next.cmd>> \o later, status, <<>>)
             ELSE Goes(later, status, <<>>)

Next == \/ RunDo \/ RunBreak \/ RunContinue \/ RunReturn \/ RunExit
        \/ OpenCompound
        \/ EndFunction \/ EndShell \/ InvertStatus
        \/ NextRound \/ DecideRound \/ TakeBranch \/ TakeArm \/ TakeOperator

Spec == Init /\ [][Next]_shellVars

=============================================================================
