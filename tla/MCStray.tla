------------------------------ MODULE MCStray ------------------------------
(* Scripts that Commands!Fits leaves out, on which the interpreter is not the shell that *)
(* ShellMachine describes: one known disagreement in each configuration.                 *)
EXTENDS Naturals, Sequences

CONSTANT Stray             \* the script that runs
VARIABLES calls, control, ran, errexit

Do(status) == [kind |-> "do", status |-> status]
Body(kind, cmds) == [kind |-> kind, body |-> cmds]

\* for i in 1 2; do false; true; done
FailingLoop == <<Body("for", <<Do(1), Do(0)>>)>>

\* false; true      on one line, and a second line
FailingLine ==
  << [kind |-> "list", first |-> Do(1), rest |-> <<[op |-> ";", cmd |-> Do(0)]>>], Do(0) >>

\* if exit 3; then true; fi      and a second line
ExitInCondition ==
  << [kind |-> "if", otherwise |-> <<>>,
      clauses |-> <<[cond |-> <<[kind |-> "exit", n |-> 3]>>, body |-> <<Do(0)>>]>>], Do(0) >>

Flow == INSTANCE ControlFlow WITH
          MaxRounds <- 2, Legal <- {}, Scripts <- [e \in BOOLEAN |-> {Stray}]

StraySpec == Flow!FlowSpec

\* What ControlFlow keeps to for every script that fits, here of one that does not: set -e
\* leaves at the first failure that nothing tests (state.rs:169, mod.rs:2144), and exit leaves
\* the shell wherever it stands (mod.rs:2489).
KeepsToShell == Flow!ImplementsShell

=============================================================================
