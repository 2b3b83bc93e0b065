-------------------------- MODULE ExecEngineProofs --------------------------
(***************************************************************************)
(* What ExecEngine guarantees for every set of features and every limit.   *)
(***************************************************************************)
EXTENDS ExecEngine, SequenceTheorems, FiniteSetTheorems, TLAPS

-----------------------------------------------------------------------------
(* Sequences and numbers *)

(* The first n elements of a sequence. *)
LEMMA PrefixProperties ==
  ASSUME NEW S, NEW s \in Seq(S), NEW n \in 0 .. Len(s)
  PROVE  /\ SubSeq(s, 1, n) \in Seq(S)
         /\ Len(SubSeq(s, 1, n)) = n
         /\ \A i \in 1 .. n : SubSeq(s, 1, n)[i] = s[i]
  BY SubSeqProperties

(* Dropping the last element of a sequence keeps the others in place. *)
LEMMA ButLastProperties ==
  ASSUME NEW S, NEW s \in Seq(S), s # <<>>
  PROVE  /\ ButLast(s) \in Seq(S)
         /\ Len(ButLast(s)) = Len(s) - 1
         /\ \A i \in 1 .. Len(s) - 1 : ButLast(s)[i] = s[i]
         /\ Len(s) \in Nat \ {0}
         /\ s[Len(s)] \in S
  <1>1. Len(s) \in Nat \ {0}
    BY EmptySeq
  <1>2. /\ ButLast(s) \in Seq(S)
        /\ Len(ButLast(s)) = Len(s) - 1
        /\ \A i \in 1 .. Len(s) - 1 : ButLast(s)[i] = s[i]
    <2> DEFINE n == Len(s) - 1
    <2>1. n \in 0 .. Len(s) /\ n = Len(s) - 1 /\ ButLast(s) = SubSeq(s, 1, n)
      BY <1>1 DEF ButLast
    <2> HIDE DEF n
    <2>2. QED
      BY <2>1, PrefixProperties
  <1>3. s[Len(s)] \in S
    BY <1>1
  <1>4. QED
    BY <1>1, <1>2, <1>3

LEMMA PoppedType ==
  ASSUME NEW S, NEW s \in Seq(S)
  PROVE  Popped(s) \in Seq(S)
  BY ButLastProperties DEF Popped

LEMMA LessType ==
  ASSUME NEW n \in Nat
  PROVE  Less(n) \in Nat
  BY DEF Less, Larger

-----------------------------------------------------------------------------
(* Types of what the operations compute *)

(* Each operation of ExecutionCounters yields counters. *)
LEMMA CountersType ==
  ASSUME NEW c \in Counters
  PROVE  /\ TickCommand(c) \in Counters
         /\ ResetForExecution(c) \in Counters
         /\ StartExecute(c) \in Counters
         /\ TickLoop(c) \in Counters
         /\ EnterLoop(c) \in Counters
         /\ ExitLoop(c) \in Counters
         /\ PushFunction(c) \in Counters
         /\ \A n \in Nat : PopFunction(c, n) \in Counters
         /\ PushSubst(c) \in Counters
         /\ PopSubst(c) \in Counters
  <1>a. /\ c.commands \in Nat /\ c.loop_iterations \in Seq(Nat)
        /\ c.total_loop_iterations \in Nat /\ c.function_depth \in Nat
        /\ c.subst_depth \in Nat /\ c.session_commands \in Nat
        /\ c.session_exec_calls \in Nat
    BY DEF Counters
  <1>b. /\ 0 \in Nat /\ <<>> \in Seq(Nat)
        /\ c.commands + 1 \in Nat /\ c.session_commands + 1 \in Nat
        /\ c.session_exec_calls + 1 \in Nat
        /\ c.total_loop_iterations + 1 \in Nat
        /\ c.function_depth + 1 \in Nat /\ c.subst_depth + 1 \in Nat
    BY <1>a
  <1>1. TickCommand(c) \in Counters
    BY <1>b, Zenon DEF TickCommand, Counters
  <1>2. ResetForExecution(c) \in Counters
    BY <1>b, Zenon DEF ResetForExecution, Counters
  <1>3. StartExecute(c) \in Counters
    <2>1. ResetForExecution(c).session_exec_calls = c.session_exec_calls
      BY DEF ResetForExecution, Counters
    <2>2. QED
      BY <1>b, <1>2, <2>1, Zenon DEF StartExecute, Counters
  <1>4. TickLoop(c) \in Counters
    <2> DEFINE open == IF c.loop_iterations = <<>> THEN <<0>>
                       ELSE c.loop_iterations
    <2>1. open \in Seq(Nat) /\ Len(open) \in 1 .. Len(open)
      BY <1>a, EmptySeq
    <2> HIDE DEF open
    <2>2. open[Len(open)] + 1 \in Nat
      BY <2>1
    <2>3. [open EXCEPT ![Len(open)] = open[Len(open)] + 1] \in Seq(Nat)
      BY <2>1, <2>2
    <2>4. TickLoop(c) =
            [c EXCEPT !.loop_iterations =
                          [open EXCEPT ![Len(open)] = open[Len(open)] + 1],
                      !.total_loop_iterations = c.total_loop_iterations + 1]
      BY Zenon DEF TickLoop, open, Counters
    <2>5. QED
      BY <1>b, <2>3, <2>4, Zenon DEF Counters
  <1>5. EnterLoop(c) \in Counters
    <2>1. Append(c.loop_iterations, 0) \in Seq(Nat)
      BY <1>a
    <2>2. QED
      BY <2>1, Zenon DEF EnterLoop, Counters
  <1>6. ExitLoop(c) \in Counters
    <2>1. Popped(c.loop_iterations) \in Seq(Nat)
      BY <1>a, PoppedType
    <2>2. QED
      BY <2>1, Zenon DEF ExitLoop, Popped, Counters
  <1>7. PushFunction(c) \in Counters
    BY <1>b, Zenon DEF PushFunction, Counters
  <1>8. ASSUME NEW n \in Nat
        PROVE  PopFunction(c, n) \in Counters
    <2>1. Larger(0, c.function_depth - n) \in Nat
      BY <1>a DEF Larger
    <2>2. QED
      BY <2>1, Zenon DEF PopFunction, Counters
  <1>9. PushSubst(c) \in Counters
    BY <1>b, Zenon DEF PushSubst, Counters
  <1>10. PopSubst(c) \in Counters
    <2>1. Larger(0, c.subst_depth - 1) \in Nat
      BY <1>a DEF Larger
    <2>2. QED
      BY <2>1, Zenon DEF PopSubst, Counters
  <1>11. QED
    BY <1>1, <1>2, <1>3, <1>4, <1>5, <1>6, <1>7, <1>8, <1>9, <1>10

LEMMA CountersAfterType ==
  ASSUME NEW c \in Counters, NEW f \in Frames
  PROVE  CountersAfter(f, c) \in Counters /\ CountersAfterError(f, c) \in Counters
  <1>1. 1 \in Nat
    OBVIOUS
  <1>2. QED
    BY <1>1, CountersType, Zenon DEF CountersAfter, CountersAfterError

(* Frames in which source has not saved positional parameters and whose    *)
(* EXIT trap has not started: new ones, and those that differ from them in *)
(* the fields a call saves. *)
Plain(f) == f \in Frames /\ f.args = "none" /\ ~f.exit_trap

LEMMA FrameType ==
  ASSUME NEW k \in Kinds
  PROVE  Plain(Frame(k))
  BY ScopeAssumption DEF Frame, Frames, Stdin, Plain

LEMMA FrameUpdate ==
  ASSUME NEW f, Plain(f)
  PROVE  /\ \A s \in Scopes : Plain([f EXCEPT !.scope = s])
         /\ \A d \in Stdin : Plain([f EXCEPT !.stdin = d])
         /\ \A c \in Seq(Args) : Plain([f EXCEPT !.call_stack = c])
         /\ \A n \in Nat : /\ Plain([f EXCEPT !.depth = n])
                           /\ Plain([f EXCEPT !.bash_source = n])
         /\ \A b \in BOOLEAN : /\ Plain([f EXCEPT !.input = b])
                               /\ Plain([f EXCEPT !.callback = b])
                               /\ Plain([f EXCEPT !.captured = b])
                               /\ Plain([f EXCEPT !.file = b])
  BY Zenon DEF Frames, Plain

(* A frame for source that replaced the caller's positional parameters     *)
(* holds exactly those parameters, and only some calls have an EXIT trap. *)
WellFormed(f) ==
  /\ f.args = "replaced" => Len(f.call_stack) = 1
  /\ f.exit_trap => f.kind \in HasExitTrap

(* What a call puts back has the types of the fields it restores. *)
LEMMA RestoredType ==
  ASSUME NEW f \in Frames, WellFormed(f), NEW sh \in ShellState
  PROVE  Restored(f, sh) \in ShellState /\ RestoredOnError(f, sh) \in ShellState
  <1>a. /\ sh.scope \in Scopes /\ sh.call_stack \in Seq(Args)
        /\ sh.bash_source \in Nat /\ sh.stdin \in Stdin
        /\ sh.callback \in BOOLEAN /\ sh.capture_depth \in Nat
        /\ sh.in_trap \in BOOLEAN
    BY DEF ShellState
  <1>b. /\ f.scope \in Scopes /\ f.call_stack \in Seq(Args)
        /\ f.bash_source \in Nat /\ f.stdin \in Stdin
        /\ f.callback \in BOOLEAN /\ f.kind \in Kinds
    BY DEF Frames
  <1>c. /\ Less(sh.bash_source) \in Nat
        /\ Less(sh.capture_depth) \in Nat
        /\ Popped(sh.call_stack) \in Seq(Args)
    BY <1>a, LessType, PoppedType
  <1>d. SourceRestoresArgs(f, sh.call_stack) \in Seq(Args)
    <2>1. CASE f.args = "replaced" /\ sh.call_stack # <<>>
      <3>1. Len(f.call_stack) = 1 /\ f.call_stack[1] \in Args
        BY <1>b, <2>1 DEF WellFormed
      <3>2. Len(sh.call_stack) \in 1 .. Len(sh.call_stack)
        BY <1>a, <2>1, EmptySeq
      <3>3. [sh.call_stack EXCEPT ![Len(sh.call_stack)] = f.call_stack[1]]
               \in Seq(Args)
        BY <1>a, <3>1, <3>2
      <3>4. QED
        BY <2>1, <3>3 DEF SourceRestoresArgs
    <2>2. CASE ~(f.args = "replaced" /\ sh.call_stack # <<>>)
      BY <2>2, <1>a, <1>c DEF SourceRestoresArgs
    <2>3. QED
      BY <2>1, <2>2
  <1>1. ExecRestores(f, sh) \in ShellState
    BY Zenon DEF ExecRestores, ShellState
  <1>2. StdinRestores(f, sh) \in ShellState
    BY <1>b, Zenon DEF StdinRestores, ShellState
  <1>3. RedirectRestores(f, sh) \in ShellState
    <2> DEFINE d == IF f.input THEN f.stdin ELSE sh.stdin
               cb == sh.callback \/ f.callback
               n == IF f.captured THEN Less(sh.capture_depth) ELSE sh.capture_depth
    <2>1. d \in Stdin /\ cb \in BOOLEAN /\ n \in Nat
      BY <1>a, <1>b, <1>c
    <2>2. RedirectRestores(f, sh) =
            [sh EXCEPT !.stdin = d, !.callback = cb, !.capture_depth = n]
      BY Zenon DEF RedirectRestores, ShellState
    <2> HIDE DEF d, cb, n
    <2>3. QED
      BY <2>1, <2>2, Zenon DEF ShellState
  <1>4. SubshellRestores(f, sh) \in ShellState
    BY <1>b, Zenon DEF SubshellRestores, ShellState
  <1>5. SubstRestores(f, sh) \in ShellState
    BY <1>b, Zenon DEF SubstRestores, ShellState
  <1>6. FunctionRestores(f, sh) \in ShellState
    BY <1>b, <1>c, Zenon DEF FunctionRestores, ShellState
  <1>7. SourceRestores(f, sh) \in ShellState
    BY <1>c, <1>d, Zenon DEF SourceRestores, ShellState
  <1>8. ShellRestores(f, sh) \in ShellState
    BY <1>b, <1>c, Zenon DEF ShellRestores, ShellState
  <1>9. ScriptRestores(f, sh) \in ShellState
    BY <1>b, Zenon DEF ScriptRestores, ShellState
  <1>10. TrapRestores(f, sh) \in ShellState
    BY Zenon DEF TrapRestores, ShellState
  <1>11. Restored(f, sh) \in ShellState
    BY <1>b, <1>1, <1>2, <1>3, <1>4, <1>5, <1>6, <1>7, <1>8, <1>9, <1>10
    DEF Restored, Kinds
  <1>12. [sh EXCEPT !.bash_source = Less(sh.bash_source)] \in ShellState
    BY <1>c, Zenon DEF ShellState
  <1>13. QED
    BY <1>11, <1>12, Zenon DEF RestoredOnError

-----------------------------------------------------------------------------
(* Type correctness.  TypeOK is not inductive as it stands: an Err looks    *)
(* at the top of the stack, which must not be empty, a timeout must leave   *)
(* the exec at its bottom, source takes the positional parameters it saved  *)
(* out of its frame, which must hold them, and an Err ends only at calls    *)
(* that have an EXIT trap. *)

StackWellFormed ==
  /\ \A i \in DOMAIN stack : WellFormed(stack[i])
  /\ stack # <<>> => stack[1].kind = "exec"

TypeInv ==
  /\ TypeOK
  /\ StackWellFormed
  /\ mode = "idle" <=> stack = <<>>

LEMMA InitTypeInv == Init => TypeInv
  <1> SUFFICES ASSUME Init
               PROVE  TypeInv
    OBVIOUS
  <1>1. stack = <<>> /\ mode = "idle" /\ cancelled \in BOOLEAN
    BY DEF Init
  <1>2. shell \in ShellState
    BY ScopeAssumption DEF Init, ShellState, Stdin
  <1>3. counters \in Counters
    BY DEF Init, Counters
  <1>4. work \in Work
    BY DEF Init, Work
  <1>5. QED
    BY <1>1, <1>2, <1>3, <1>4 DEF TypeInv, TypeOK, StackWellFormed

(* A call puts one well-formed frame on the nest. *)
LEMMA CallType ==
  ASSUME TypeInv, NEW f \in Frames, WellFormed(f), Call(f),
         stack # <<>> \/ f.kind = "exec"
  PROVE  /\ stack' \in Seq(Frames) /\ StackWellFormed'
         /\ stack' # <<>> /\ Len(stack') = Len(stack) + 1
  <1>1. /\ stack \in Seq(Frames) /\ stack' = Append(stack, f)
        /\ \A i \in DOMAIN stack : WellFormed(stack[i])
        /\ stack # <<>> => stack[1].kind = "exec"
    BY DEF TypeInv, TypeOK, StackWellFormed, Call
  <1>2. /\ stack' \in Seq(Frames) /\ Len(stack') = Len(stack) + 1
        /\ Len(stack) \in Nat
        /\ DOMAIN stack' = 1 .. Len(stack) + 1
        /\ DOMAIN stack = 1 .. Len(stack)
        /\ stack'[Len(stack) + 1] = f
        /\ \A i \in 1 .. Len(stack) : stack'[i] = stack[i]
    BY <1>1
  <1>3. ASSUME NEW i \in DOMAIN stack'
        PROVE  WellFormed(stack'[i])
    <2>1. i \in DOMAIN stack \/ i = Len(stack) + 1
      BY <1>2
    <2>2. QED
      BY <1>1, <1>2, <2>1
  <1>4. stack'[1].kind = "exec"
    <2>1. CASE stack = <<>>
      BY <1>2, <2>1
    <2>2. CASE stack # <<>>
      <3>1. 1 \in 1 .. Len(stack)
        BY <1>1, <1>2, <2>2, EmptySeq
      <3>2. QED
        BY <1>1, <1>2, <2>2, <3>1
    <2>3. QED
      BY <2>1, <2>2
  <1>5. stack' # <<>>
    BY <1>2, EmptySeq
  <1>6. QED
    BY <1>2, <1>3, <1>4, <1>5 DEF StackWellFormed

(* Ending calls leaves a prefix of the nest. *)
LEMMA PrefixType ==
  ASSUME TypeInv, NEW n \in 0 .. Len(stack), stack' = SubSeq(stack, 1, n)
  PROVE  /\ stack' \in Seq(Frames) /\ StackWellFormed'
         /\ Len(stack') = n /\ (stack' = <<>> <=> n = 0)
         /\ \A i \in 1 .. n : stack'[i] = stack[i]
  <1>1. /\ stack \in Seq(Frames)
        /\ \A i \in DOMAIN stack : WellFormed(stack[i])
        /\ stack # <<>> => stack[1].kind = "exec"
    BY DEF TypeInv, TypeOK, StackWellFormed
  <1>2. /\ stack' \in Seq(Frames) /\ Len(stack') = n
        /\ \A i \in 1 .. n : stack'[i] = stack[i]
    BY <1>1, PrefixProperties
  <1>3. DOMAIN stack' \subseteq DOMAIN stack /\ DOMAIN stack' = 1 .. n
    BY <1>1, <1>2
  <1>4. stack' = <<>> <=> n = 0
    BY <1>2, EmptySeq
  <1>5. stack' # <<>> => stack'[1].kind = "exec"
    <2> SUFFICES ASSUME stack' # <<>>
                 PROVE  stack'[1].kind = "exec"
      OBVIOUS
    <2>1. 1 \in 1 .. n /\ stack # <<>>
      BY <1>1, <1>2, <1>4, EmptySeq
    <2>2. QED
      BY <1>1, <1>2, <2>1
  <1>6. QED
    BY <1>1, <1>2, <1>3, <1>4, <1>5 DEF StackWellFormed

(* The frame on top of a nest that is running or failing. *)
LEMMA TopType ==
  ASSUME TypeInv, mode # "idle"
  PROVE  /\ stack # <<>> /\ Len(stack) \in DOMAIN stack
         /\ Len(stack) \in Nat \ {0}
         /\ Top \in Frames /\ WellFormed(Top)
  <1>1. stack \in Seq(Frames) /\ stack # <<>>
    BY DEF TypeInv, TypeOK
  <1>2. Len(stack) \in Nat \ {0} /\ Len(stack) \in DOMAIN stack
    BY <1>1, EmptySeq
  <1>3. QED
    BY <1>1, <1>2 DEF TypeInv, StackWellFormed, Top

(* The history variable. *)
LEMMA WorkType ==
  ASSUME work \in Work
  PROVE  /\ \A n \in Nat : [work EXCEPT !.commands = @ + n] \in Work
         /\ [work EXCEPT !.loops = @ + 1] \in Work
         /\ [work EXCEPT !.commands = @ + 1, !.loops = @ + 1] \in Work
         /\ [work EXCEPT !.commands = 0, !.loops = 0] \in Work
         /\ [work EXCEPT !.clean = FALSE] \in Work
  <1>1. /\ work.commands \in Nat /\ work.loops \in Nat /\ 0 \in Nat
        /\ work.loops + 1 \in Nat /\ work.commands + 1 \in Nat
        /\ \A n \in Nat : work.commands + n \in Nat
    BY DEF Work
  <1>2. ASSUME NEW n \in Nat
        PROVE  [work EXCEPT !.commands = @ + n] \in Work
    BY <1>1, Zenon DEF Work
  <1>3. [work EXCEPT !.loops = @ + 1] \in Work
    BY <1>1, Zenon DEF Work
  <1>4. [work EXCEPT !.commands = @ + 1, !.loops = @ + 1] \in Work
    BY <1>1, Zenon DEF Work
  <1>5. [work EXCEPT !.commands = 0, !.loops = 0] \in Work
    BY <1>1, Zenon DEF Work
  <1>6. [work EXCEPT !.clean = FALSE] \in Work
    BY <1>1, Zenon DEF Work
  <1>7. QED
    BY <1>2, <1>3, <1>4, <1>5, <1>6

(* The fields of the shell state that calls change, one by one or several  *)
(* at a time. *)
LEMMA ShellType ==
  ASSUME shell \in ShellState
  PROVE  /\ shell.scope \in Scopes /\ shell.call_stack \in Seq(Args)
         /\ shell.bash_source \in Nat /\ shell.stdin \in Stdin
         /\ shell.callback \in BOOLEAN /\ shell.capture_depth \in Nat
         /\ Len(shell.call_stack) \in Nat
         /\ NoStdin \in Stdin
         /\ \A a \in Args : /\ Append(shell.call_stack, a) \in Seq(Args)
                            /\ <<a>> \in Seq(Args)
         /\ shell.bash_source + 1 \in Nat
         /\ shell.capture_depth + 1 \in Nat
         /\ \A s \in Scopes, d \in Stdin :
              /\ [shell EXCEPT !.scope = s] \in ShellState
              /\ [shell EXCEPT !.stdin = d] \in ShellState
              /\ [shell EXCEPT !.scope = s, !.stdin = d] \in ShellState
  <1>1. /\ shell.scope \in Scopes /\ shell.call_stack \in Seq(Args)
        /\ shell.bash_source \in Nat /\ shell.stdin \in Stdin
        /\ shell.callback \in BOOLEAN /\ shell.capture_depth \in Nat
    BY DEF ShellState
  <1>2. ASSUME NEW s \in Scopes, NEW d \in Stdin
        PROVE  /\ [shell EXCEPT !.scope = s] \in ShellState
               /\ [shell EXCEPT !.stdin = d] \in ShellState
               /\ [shell EXCEPT !.scope = s, !.stdin = d] \in ShellState
    BY <1>2, Zenon DEF ShellState
  <1>3. /\ \A a \in Args : /\ Append(shell.call_stack, a) \in Seq(Args)
                           /\ <<a>> \in Seq(Args)
        /\ Len(shell.call_stack) \in Nat /\ NoStdin \in Stdin
        /\ shell.bash_source + 1 \in Nat /\ shell.capture_depth + 1 \in Nat
    BY <1>1 DEF Stdin
  <1>4. QED
    BY <1>1, <1>2, <1>3, Zenon

(* Nothing but the counters, the mode and the history change. *)
LEMMA CommandType ==
  ASSUME TypeInv, Running
  PROVE  /\ TickCommand(counters) \in Counters
         /\ mode = "run" /\ mode # "idle" /\ stack # <<>>
         /\ shell \in ShellState /\ work \in Work /\ cancelled \in BOOLEAN
         /\ stack \in Seq(Frames) /\ StackWellFormed
  BY CountersType DEF TypeInv, TypeOK, Running

LEMMA CommandStep ==
  ASSUME TypeInv, Running, mode' \in {"run", "err"},
         shell' \in ShellState, counters' \in Counters,
         work' \in Work, cancelled' \in BOOLEAN,
         \/ UNCHANGED stack
         \/ \E f \in Frames : WellFormed(f) /\ Call(f)
  PROVE  TypeInv'
  <1>1. CASE UNCHANGED stack
    <2>1. StackWellFormed'
      BY <1>1, CommandType DEF StackWellFormed
    <2>2. stack' \in Seq(Frames) /\ stack' # <<>>
      BY <1>1, CommandType
    <2>3. QED
      BY <2>1, <2>2 DEF TypeInv, TypeOK
  <1>2. CASE \E f \in Frames : WellFormed(f) /\ Call(f)
    <2>1. stack # <<>>
      BY CommandType
    <2>2. stack' \in Seq(Frames) /\ StackWellFormed' /\ stack' # <<>>
      BY <1>2, <2>1, CallType
    <2>3. QED
      BY <2>2 DEF TypeInv, TypeOK
  <1>3. QED
    BY <1>1, <1>2

(* Every step keeps the types: one step per action. *)
LEMMA TypeStep == TypeInv /\ [Next]_vars => TypeInv'
  <1> SUFFICES ASSUME TypeInv, [Next]_vars
               PROVE  TypeInv'
    OBVIOUS
  <1>a. shell \in ShellState /\ counters \in Counters /\ work \in Work
        /\ cancelled \in BOOLEAN /\ stack \in Seq(Frames)
    BY DEF TypeInv, TypeOK
  <1>b. TickCommand(counters) \in Counters
    BY <1>a, CountersType
  <1>c. ASSUME NEW n \in Nat, CountCommands(n)
        PROVE  work' \in Work
    BY <1>a, <1>c, WorkType DEF CountCommands
  <1>d. 1 \in Nat /\ 2 \in Nat /\ "run" \in {"run", "err"}
    OBVIOUS
  <1>e. Admitted => Running
    BY DEF Admitted
  <1>1. CASE CommandCancelled
    BY <1>1, <1>a, CommandStep DEF CommandCancelled
  <1>2. CASE CommandRefused
    <2>1. work' \in Work
      BY <1>2, <1>c, <1>d DEF CommandRefused
    <2>2. QED
      BY <1>2, <1>a, <1>b, <2>1, CommandStep DEF CommandRefused
  <1>3. CASE SimpleCommand
    <2>1. work' \in Work
      BY <1>3, <1>c, <1>d DEF SimpleCommand
    <2>2. shell' \in ShellState
      BY <1>3, <1>a, ShellType DEF SimpleCommand
    <2>3. QED
      BY <1>3, <1>a, <1>b, <1>e, <2>1, <2>2, CommandStep
      DEF Plain, SimpleCommand, Admitted, Running
  <1>4. CASE PipelineBegins
    <2>1. work' \in Work
      BY <1>4, <1>c, <1>d DEF PipelineBegins
    <2>2. /\ Frame("pipeline") \in Frames /\ WellFormed(Frame("pipeline"))
          /\ Call(Frame("pipeline"))
      BY <1>4, FrameType DEF PipelineBegins, Kinds, WellFormed, Plain
    <2>3. QED
      BY <1>4, <1>a, <1>b, <1>e, <2>1, <2>2, CommandStep
      DEF PipelineBegins, CompoundAdmitted, Admitted, Running
  <1>5. CASE CompoundPipelineStage
    <2>1. shell' \in ShellState
      BY <1>5, <1>a, ShellType DEF CompoundPipelineStage
    <2> DEFINE f == [Frame("pipe") EXCEPT !.stdin = shell.stdin,
                                        !.depth = counters.session_commands]
    <2>2. Plain(f)
      <3>1. counters.session_commands \in Nat
        BY <1>a DEF Counters
      <3>2. Plain([[Frame("pipe") EXCEPT !.stdin = shell.stdin]
                    EXCEPT !.depth = counters.session_commands])
        BY <1>a, <3>1, ShellType, FrameType, FrameUpdate DEF Kinds
      <3>3. QED
        BY <3>2, Zenon
    <2>3. WellFormed(f) /\ Call(f)
      BY <1>5, <2>2 DEF CompoundPipelineStage, WellFormed, Plain
    <2> HIDE DEF f
    <2>4. QED
      BY <1>5, <1>a, <2>1, <2>2, <2>3, CommandStep
      DEF Plain, CompoundPipelineStage, Running
  <1>6. CASE CompoundWithRedirects
    <2>1. work' \in Work
      BY <1>6, <1>c, <1>d DEF CompoundWithRedirects
    <2> DEFINE Saved(d, output, captured) ==
                 [Frame("redirect") EXCEPT
                    !.input = (d # NoStdin),
                    !.stdin = IF d # NoStdin THEN shell.stdin ELSE NoStdin,
                    !.callback = output /\ shell.callback,
                    !.captured = captured]
               Changed(d, output, captured) ==
                 [shell EXCEPT
                    !.stdin = IF d # NoStdin THEN d ELSE @,
                    !.callback = @ /\ ~output,
                    !.capture_depth = IF captured THEN @ + 1 ELSE @]
    <2>2. PICK d \in Stdin, output \in BOOLEAN, captured \in BOOLEAN :
            Call(Saved(d, output, captured)) /\ shell' = Changed(d, output, captured)
      BY <1>6 DEF CompoundWithRedirects
    <2>3. Plain(Saved(d, output, captured))
      <3> DEFINE in == (d # NoStdin)
                 sd == IF d # NoStdin THEN shell.stdin ELSE NoStdin
                 cb == output /\ shell.callback
      <3>1. in \in BOOLEAN /\ sd \in Stdin /\ cb \in BOOLEAN
        BY <1>a, ShellType
      <3>2. Saved(d, output, captured) =
              [Frame("redirect") EXCEPT !.input = in, !.stdin = sd,
                                        !.callback = cb, !.captured = captured]
        BY Zenon
      <3> HIDE DEF in, sd, cb, Saved
      <3>3. Plain([[[[Frame("redirect") EXCEPT !.input = in]
                                        EXCEPT !.stdin = sd]
                                        EXCEPT !.callback = cb]
                                        EXCEPT !.captured = captured])
        BY <3>1, FrameType, FrameUpdate DEF Kinds
      <3>4. QED
        BY <3>2, <3>3, Zenon
    <2>4. Changed(d, output, captured) \in ShellState
      <3> DEFINE sd == IF d # NoStdin THEN d ELSE shell.stdin
                 cb == shell.callback /\ ~output
                 n == IF captured THEN shell.capture_depth + 1
                      ELSE shell.capture_depth
      <3>1. sd \in Stdin /\ cb \in BOOLEAN /\ n \in Nat
        BY <1>a, ShellType
      <3>2. Changed(d, output, captured) =
              [shell EXCEPT !.stdin = sd, !.callback = cb, !.capture_depth = n]
        BY <1>a, Zenon DEF ShellState
      <3> HIDE DEF sd, cb, n
      <3>3. [shell EXCEPT !.stdin = sd, !.callback = cb, !.capture_depth = n]
              \in ShellState
        BY <1>a, <3>1, Zenon DEF ShellState
      <3>4. QED
        BY <3>2, <3>3, Zenon
    <2> HIDE DEF Saved, Changed
    <2>5. WellFormed(Saved(d, output, captured))
      BY <2>3 DEF WellFormed, Plain
    <2>6. QED
      BY <1>6, <1>a, <1>b, <1>e, <2>1, <2>2, <2>3, <2>4, <2>5, CommandStep
      DEF Plain, CompoundWithRedirects, CompoundAdmitted, Admitted, Running
  <1>7. CASE LoopBegins
    <2>1. work' \in Work
      BY <1>7, <1>a, WorkType DEF LoopBegins
    <2>2. counters' \in Counters
      BY <1>7, <1>b, CountersType DEF LoopBegins
    <2>3. /\ Frame("loop") \in Frames /\ WellFormed(Frame("loop"))
          /\ Call(Frame("loop"))
      BY <1>7, FrameType DEF LoopBegins, Kinds, WellFormed, Plain
    <2>4. mode' \in {"run", "err"}
      BY <1>7 DEF LoopBegins
    <2>5. QED
      BY <1>7, <1>a, <1>e, <2>1, <2>2, <2>3, <2>4, CommandStep
      DEF LoopBegins, Plain, CompoundAdmitted
  <1>8. CASE LoopIterates
    <2>1. work' \in Work
      BY <1>8, <1>a, WorkType DEF LoopIterates
    <2>2. counters' \in Counters
      BY <1>8, <1>a, CountersType DEF LoopIterates
    <2>3. mode' \in {"run", "err"}
      BY <1>8 DEF LoopIterates
    <2>4. QED
      BY <1>8, <1>a, <2>1, <2>2, <2>3, CommandStep DEF LoopIterates
  <1>9. CASE SubshellBegins
    <2>1. work' \in Work
      BY <1>9, <1>c, <1>d DEF SubshellBegins
    <2>2. shell' \in ShellState
      BY <1>9, <1>a, ShellType DEF SubshellBegins
    <2> DEFINE f == [Frame("subshell") EXCEPT !.scope = shell.scope,
                                            !.call_stack = shell.call_stack]
    <2>3. Plain(f)
      <3>1. Plain([[Frame("subshell") EXCEPT !.scope = shell.scope]
                    EXCEPT !.call_stack = shell.call_stack])
        BY <1>a, ShellType, FrameType, FrameUpdate DEF Kinds
      <3>2. QED
        BY <3>1, Zenon
    <2>4. WellFormed(f) /\ Call(f)
      BY <1>9, <2>3 DEF SubshellBegins, WellFormed, Plain
    <2> HIDE DEF f
    <2>5. QED
      BY <1>9, <1>a, <1>b, <1>e, <2>1, <2>2, <2>3, <2>4, CommandStep
      DEF Plain, SubshellBegins, CompoundAdmitted, Admitted, Running
  <1>10. CASE CommandSubstitution
    <2> DEFINE c == TickCommand(counters)
               f == [Frame("subst") EXCEPT !.scope = shell.scope]
    <2>1. work' \in Work
      BY <1>10, <1>c, <1>d DEF CommandSubstitution
    <2>2. counters' \in Counters
      BY <1>10, <1>b, CountersType DEF CommandSubstitution
    <2>3. Plain(f)
      BY <1>a, ShellType, FrameType, FrameUpdate DEF Kinds
    <2>4. WellFormed(f)
      BY <2>3 DEF WellFormed, Plain
    <2>5. mode' \in {"run", "err"} /\ (UNCHANGED stack \/ Call(f))
      BY <1>10 DEF CommandSubstitution, Admitted, Running
    <2> HIDE DEF f
    <2>6. QED
      BY <1>10, <1>a, <1>e, <2>1, <2>2, <2>3, <2>4, <2>5, CommandStep
      DEF Plain, CommandSubstitution
  <1>11. CASE FunctionCall
    <2> DEFINE f == [Frame("function") EXCEPT !.stdin = shell.stdin]
    <2>1. work' \in Work
      BY <1>11, <1>c, <1>d DEF FunctionCall
    <2>2. counters' \in Counters
      BY <1>11, <1>b, CountersType DEF FunctionCall
    <2>3. Plain(f)
      BY <1>a, ShellType, FrameType, FrameUpdate DEF Kinds
    <2>4. WellFormed(f)
      BY <2>3 DEF WellFormed, Plain
    <2>5. mode' \in {"run", "err"} /\ (UNCHANGED stack \/ Call(f))
      BY <1>11 DEF FunctionCall, Admitted, Running
    <2>6. shell' \in ShellState
      <3>1. CASE UNCHANGED shell
        BY <3>1, <1>a
      <3>2. CASE ~UNCHANGED shell
        <4>1. PICK a \in Args, d \in Stdin :
                shell' = [shell EXCEPT !.call_stack = Append(@, a),
                                       !.bash_source = @ + 1,
                                       !.stdin = d]
          BY <1>11, <3>2 DEF FunctionCall
        <4>2. QED
          BY <1>a, <4>1, ShellType, Zenon DEF ShellState
      <3>3. QED
        BY <3>1, <3>2
    <2> HIDE DEF f
    <2>7. QED
      BY <1>11, <1>a, <1>e, <2>1, <2>2, <2>3, <2>4, <2>5, <2>6, CommandStep
      DEF Plain, FunctionCall
  <1>12. CASE Source
    <2>1. work' \in Work
      BY <1>12, <1>c, <1>d DEF Source
    <2>2. counters' \in Counters /\ mode' \in {"run", "err"}
      BY <1>12, <1>b, CountersType DEF Source, Admitted, Running
    <2> DEFINE n == Len(shell.call_stack)
               How(with_args) == IF ~with_args THEN "none"
                                 ELSE IF n = 0 THEN "pushed" ELSE "replaced"
               Calls(how, a) == CASE how = "none" -> shell.call_stack
                                  [] how = "pushed" -> <<a>>
                                  [] OTHER -> [shell.call_stack EXCEPT ![n] = a]
               SavedArgs(how) == IF how = "replaced" THEN <<shell.call_stack[n]>>
                                 ELSE <<>>
               Saved(how) == [Frame("source") EXCEPT !.args = how,
                                                     !.call_stack = SavedArgs(how)]
               Replaced(how, a) == [shell EXCEPT !.call_stack = Calls(how, a)]
    <2>3. PICK with_args \in BOOLEAN, a \in Args :
            \/ /\ Call(Saved(How(with_args)))
               /\ shell' = [Replaced(How(with_args), a) EXCEPT !.bash_source = @ + 1]
            \/ /\ UNCHANGED stack
               /\ shell' = Replaced(How(with_args), a)
      BY <1>12, Zenon DEF Source
    <2> DEFINE how == How(with_args)
    <2>4. /\ how \in {"none", "replaced", "pushed"}
          /\ Calls(how, a) \in Seq(Args)
          /\ SavedArgs(how) \in Seq(Args)
          /\ how = "replaced" => Len(SavedArgs(how)) = 1
      <3>1. shell.call_stack \in Seq(Args) /\ n \in Nat
        BY <1>a, ShellType
      <3>2. how \in {"none", "replaced", "pushed"}
        OBVIOUS
      <3>3. how = "replaced" => n \in 1 .. n /\ shell.call_stack[n] \in Args
        BY <3>1
      <3>4. how = "replaced" => [shell.call_stack EXCEPT ![n] = a] \in Seq(Args)
        BY <3>1, <3>3
      <3>5. <<a>> \in Seq(Args)
        OBVIOUS
      <3> HIDE DEF how
      <3>6. QED
        BY <3>1, <3>2, <3>3, <3>4, <3>5
    <2>5. /\ Saved(how) \in Frames /\ ~Saved(how).exit_trap
          /\ Saved(how).args = how /\ Saved(how).call_stack = SavedArgs(how)
      <3> HIDE DEF how, SavedArgs
      <3>1. Frame("source") \in Frames /\ ~Frame("source").exit_trap
        BY FrameType DEF Kinds, Plain
      <3> DEFINE g == [Frame("source") EXCEPT !.args = how]
      <3>2. g \in Frames /\ g.args = how /\ ~g.exit_trap
        BY <2>4, <3>1, Zenon DEF Frames
      <3>3. Saved(how) = [g EXCEPT !.call_stack = SavedArgs(how)]
        BY Zenon
      <3> HIDE DEF g, Saved
      <3>4. QED
        BY <2>4, <3>2, <3>3, Zenon DEF Frames
    <2>6. /\ Replaced(how, a) \in ShellState
          /\ [Replaced(how, a) EXCEPT !.bash_source = @ + 1] \in ShellState
      <3> HIDE DEF how, Calls
      <3>1. Replaced(how, a) \in ShellState
        BY <1>a, <2>4, Zenon DEF ShellState
      <3> HIDE DEF Replaced
      <3>2. Replaced(how, a).bash_source + 1 \in Nat
        BY <3>1 DEF ShellState
      <3>3. [Replaced(how, a) EXCEPT !.bash_source = @ + 1] \in ShellState
        BY <3>1, <3>2, Zenon DEF ShellState
      <3>4. QED
        BY <3>1, <3>3
    <2>7. WellFormed(Saved(how))
      <3> HIDE DEF Saved, how, SavedArgs
      <3>1. QED
        BY <2>4, <2>5 DEF WellFormed
    <2>8. shell' \in ShellState /\ (UNCHANGED stack \/ Call(Saved(how)))
      <3> HIDE DEF Saved, Replaced, How
      <3>1. QED
        BY <2>3, <2>6
    <2> HIDE DEF Saved, Replaced, how
    <2>9. QED
      BY <1>12, <1>a, <1>e, <2>1, <2>2, <2>5, <2>7, <2>8, CommandStep DEF Source
  <1>13. CASE ShellBegins
    <2>1. work' \in Work
      BY <1>13, <1>c, <1>d DEF ShellBegins
    <2> DEFINE f(file) == [Frame("shell") EXCEPT !.scope = shell.scope,
                                                 !.stdin = shell.stdin,
                                                 !.file = file]
    <2>2. PICK a \in Args, d \in Stdin, file \in BOOLEAN :
            /\ Call(f(file))
            /\ shell' = [shell EXCEPT
                            !.scope = ChildScope,
                            !.call_stack = Append(@, a),
                            !.bash_source = IF file THEN @ + 1 ELSE @,
                            !.stdin = d]
      BY <1>13 DEF ShellBegins
    <2>3. Plain(f(file))
      <3>1. Plain([[[Frame("shell") EXCEPT !.scope = shell.scope]
                                    EXCEPT !.stdin = shell.stdin]
                                    EXCEPT !.file = file])
        BY <1>a, ShellType, FrameType, FrameUpdate DEF Kinds
      <3>2. QED
        BY <3>1, Zenon
    <2>4. shell' \in ShellState
      <3> DEFINE n == IF file THEN shell.bash_source + 1 ELSE shell.bash_source
      <3>1. n \in Nat /\ Append(shell.call_stack, a) \in Seq(Args)
        BY <1>a, ShellType
      <3>2. shell' = [shell EXCEPT !.scope = ChildScope,
                                   !.call_stack = Append(shell.call_stack, a),
                                   !.bash_source = n,
                                   !.stdin = d]
        BY <1>a, <2>2, Zenon DEF ShellState
      <3> HIDE DEF n
      <3>3. QED
        BY <1>a, <3>1, <3>2, ScopeAssumption, Zenon DEF ShellState
    <2>5. WellFormed(f(file))
      BY <2>3 DEF WellFormed, Plain
    <2> HIDE DEF f
    <2>6. QED
      BY <1>13, <1>a, <1>b, <1>e, <2>1, <2>2, <2>3, <2>4, <2>5, CommandStep
      DEF Plain, ShellBegins, Admitted, Running
  <1>14. CASE ScriptBegins
    <2>1. work' \in Work
      BY <1>14, <1>c, <1>d DEF ScriptBegins
    <2> DEFINE f == [Frame("script") EXCEPT !.scope = shell.scope,
                                            !.call_stack = shell.call_stack,
                                            !.bash_source = shell.bash_source,
                                            !.stdin = shell.stdin]
    <2>2. PICK a \in Args, d \in Stdin :
            /\ Call(f)
            /\ shell' = [shell EXCEPT !.scope = ChildScope, !.call_stack = <<a>>,
                                      !.bash_source = 1, !.stdin = d]
      BY <1>14 DEF ScriptBegins
    <2>3. Plain(f)
      <3>1. Plain([[[[Frame("script") EXCEPT !.scope = shell.scope]
                                      EXCEPT !.call_stack = shell.call_stack]
                                      EXCEPT !.bash_source = shell.bash_source]
                                      EXCEPT !.stdin = shell.stdin])
        BY <1>a, ShellType, FrameType, FrameUpdate DEF Kinds
      <3>2. QED
        BY <3>1, Zenon
    <2>4. shell' \in ShellState
      BY <1>a, <1>d, <2>2, ShellType, ScopeAssumption, Zenon DEF ShellState
    <2>5. WellFormed(f)
      BY <2>3 DEF WellFormed, Plain
    <2> HIDE DEF f
    <2>6. QED
      BY <1>14, <1>a, <1>b, <1>e, <2>1, <2>2, <2>3, <2>4, <2>5, CommandStep
      DEF Plain, ScriptBegins, Admitted, Running
  <1>15. ASSUME NEW k \in {"eval", "alias"}, EvalOrAlias(k)
         PROVE  TypeInv'
    <2> DEFINE f == [Frame(k) EXCEPT !.stdin = shell.stdin]
    <2>1. work' \in Work
      BY <1>15, <1>c, <1>d DEF EvalOrAlias
    <2>2. counters' \in Counters /\ mode' \in {"run", "err"}
      BY <1>15, <1>b, CountersType DEF EvalOrAlias, Admitted, Running
    <2>3. shell' \in ShellState
      <3>1. PICK d \in Stdin :
              \/ shell' = [shell EXCEPT !.stdin = d]
              \/ shell' = [shell EXCEPT !.stdin = IF k = "eval" THEN d ELSE @]
        BY <1>15 DEF EvalOrAlias
      <3> DEFINE sd == IF k = "eval" THEN d ELSE shell.stdin
      <3>2. sd \in Stdin
        BY <1>a, ShellType
      <3>3. \/ shell' = [shell EXCEPT !.stdin = d]
            \/ shell' = [shell EXCEPT !.stdin = sd]
        BY <1>a, <3>1, Zenon DEF ShellState
      <3> HIDE DEF sd
      <3>4. QED
        BY <1>a, <3>2, <3>3, Zenon DEF ShellState
    <2>4. k \in Kinds
      BY DEF Kinds
    <2>5. Plain(f)
      BY <1>a, <2>4, ShellType, FrameType, FrameUpdate
    <2>6. UNCHANGED stack \/ Call(f)
      BY <1>15, Zenon DEF EvalOrAlias
    <2>7. WellFormed(f)
      BY <2>5 DEF WellFormed, Plain
    <2> HIDE DEF f
    <2>8. QED
      BY <1>15, <1>a, <1>e, <2>1, <2>2, <2>3, <2>5, <2>6, <2>7, CommandStep
      DEF Plain, EvalOrAlias
  <1>16. CASE TrapFires
    <2>1. work' \in Work
      BY <1>16, <1>c, <1>d DEF TrapFires
    <2>2. shell' \in ShellState
      BY <1>16, <1>a, ShellType, Zenon DEF TrapFires, ShellState
    <2>3. /\ Frame("trap") \in Frames /\ WellFormed(Frame("trap"))
          /\ Call(Frame("trap"))
      BY <1>16, FrameType DEF TrapFires, Kinds, WellFormed, Plain
    <2>4. QED
      BY <1>16, <1>a, <1>b, <1>e, <2>1, <2>2, <2>3, CommandStep
      DEF Plain, TrapFires, Admitted, Running
  <1>17. CASE TimeoutBegins
    <2>1. work' \in Work
      BY <1>17, <1>c, <1>d DEF TimeoutBegins
    <2> DEFINE f == [Frame("timeout") EXCEPT !.depth = Len(shell.call_stack),
                                             !.bash_source = shell.bash_source]
    <2>2. Plain(f)
      <3>1. Plain([[Frame("timeout") EXCEPT !.depth = Len(shell.call_stack)]
                    EXCEPT !.bash_source = shell.bash_source])
        BY <1>a, ShellType, FrameType, FrameUpdate DEF Kinds
      <3>2. QED
        BY <3>1, Zenon
    <2>3. WellFormed(f) /\ Call(f)
      BY <1>17, <2>2 DEF TimeoutBegins, WellFormed, Plain
    <2> HIDE DEF f
    <2>4. QED
      BY <1>17, <1>a, <1>b, <1>e, <2>1, <2>2, <2>3, CommandStep
      DEF Plain, TimeoutBegins, Admitted, Running
  <1>18. CASE ExitTrapBegins
    <2> DEFINE n == Len(stack)
               f == [Top EXCEPT !.exit_trap = TRUE]
    <2>1. Top \in Frames /\ WellFormed(Top) /\ n \in DOMAIN stack /\ stack # <<>>
      BY <1>18, TopType DEF ExitTrapBegins, Running
    <2>2. /\ f \in Frames /\ f.args = Top.args
          /\ f.call_stack = Top.call_stack /\ f.kind = Top.kind
      BY <2>1, Zenon DEF Frames
    <2>3. stack' = [stack EXCEPT ![n] = f]
      BY <1>18 DEF ExitTrapBegins, Top
    <2>4. WellFormed(f)
      BY <1>18, <2>1, <2>2 DEF ExitTrapBegins, WellFormed
    <2> HIDE DEF f
    <2>5. /\ stack' \in Seq(Frames) /\ DOMAIN stack' = DOMAIN stack
          /\ \A i \in DOMAIN stack : stack'[i] \in {stack[i], f}
          /\ Len(stack') = Len(stack)
      BY <1>a, <2>1, <2>2, <2>3
    <2>6. stack' # <<>> /\ 1 \in DOMAIN stack
      BY <1>a, <2>1, <2>5, EmptySeq
    <2>7. StackWellFormed'
      <3>1. stack[1].kind = "exec" /\ (stack'[1] = f => n = 1 \/ stack[1] = f)
        BY <1>a, <2>1, <2>3, <2>6 DEF TypeInv, StackWellFormed
      <3>2. stack'[1].kind = "exec"
        BY <2>2, <2>5, <2>6, <3>1 DEF Top
      <3>3. QED
        BY <2>4, <2>5, <3>2 DEF TypeInv, StackWellFormed
    <2>8. QED
      BY <1>18, <1>a, <2>5, <2>6, <2>7 DEF ExitTrapBegins, Running, TypeInv, TypeOK
  <1>19. CASE Returned
    <2> DEFINE n == Len(stack) - 1
    <2>1. /\ mode = "run" /\ Top \in Frames /\ WellFormed(Top)
          /\ n \in 0 .. Len(stack) /\ (n = 0 <=> Len(stack) = 1)
      BY <1>19, TopType DEF Returned, Running
    <2>2. stack' = SubSeq(stack, 1, n)
      BY <1>19 DEF Returned, ButLast
    <2>3. shell' \in ShellState
      BY <1>19, <1>a, <2>1, RestoredType DEF Returned
    <2>4. counters' \in Counters
      BY <1>19, <1>a, <2>1, CountersAfterType DEF Returned
    <2> HIDE DEF n
    <2>5. /\ stack' \in Seq(Frames) /\ StackWellFormed'
          /\ (stack' = <<>> <=> Len(stack) = 1)
      BY <2>1, <2>2, PrefixType
    <2>6. QED
      BY <1>19, <1>a, <2>3, <2>4, <2>5 DEF Returned, Outer, TypeInv, TypeOK
  <1>20. CASE ErrorPropagates
    <2> DEFINE n == Len(stack) - 1
    <2>1. /\ mode = "err" /\ Top \in Frames /\ WellFormed(Top)
          /\ n \in 0 .. Len(stack) /\ (n = 0 <=> Len(stack) = 1)
      BY <1>20, TopType DEF ErrorPropagates
    <2>2. stack' = SubSeq(stack, 1, n)
      BY <1>20 DEF ErrorPropagates, ButLast
    <2>3. shell' \in ShellState
      BY <1>20, <1>a, <2>1, RestoredType DEF ErrorPropagates
    <2>4. counters' \in Counters
      BY <1>20, <1>a, <2>1, CountersAfterType DEF ErrorPropagates
    <2>5. work' \in Work
      BY <1>20, <1>a, WorkType DEF ErrorPropagates
    <2> HIDE DEF n
    <2>6. /\ stack' \in Seq(Frames) /\ StackWellFormed'
          /\ (stack' = <<>> <=> Len(stack) = 1)
      BY <2>1, <2>2, PrefixType
    <2>7. mode' \in {"idle", "run", "err"} /\ (mode' = "idle" <=> Len(stack) = 1)
      BY <1>20 DEF ErrorPropagates, Outer
    <2>8. QED
      BY <1>20, <1>a, <2>3, <2>4, <2>5, <2>6, <2>7
      DEF ErrorPropagates, TypeInv, TypeOK
  <1>21. ASSUME NEW i \in DOMAIN stack, TimeoutElapses(i)
         PROVE  TypeInv'
    <2> DEFINE n == i - 1
               f == stack[i]
               calls == Larger(0, Len(shell.call_stack) - f.depth)
               sources == Larger(0, shell.bash_source - f.bash_source)
    <2>1. /\ n \in 0 .. Len(stack) /\ stack' = SubSeq(stack, 1, n)
          /\ f \in Frames
      BY <1>21, <1>a DEF TimeoutElapses
    <2>2. /\ f.depth \in Nat /\ f.bash_source \in Nat
          /\ Len(shell.call_stack) \in Nat /\ shell.bash_source \in Nat
          /\ shell.call_stack \in Seq(Args)
      BY <1>a, <2>1, ShellType DEF Frames
    <2>3. /\ Larger(calls, sources) \in Nat
          /\ Smaller(Len(shell.call_stack), f.depth) \in 0 .. Len(shell.call_stack)
          /\ Smaller(shell.bash_source, f.bash_source) \in Nat
      <3> HIDE DEF f
      <3>1. QED
        BY <2>2 DEF Larger, Smaller
    <2>4. SubSeq(shell.call_stack, 1, Smaller(Len(shell.call_stack), f.depth))
            \in Seq(Args)
      BY <2>2, <2>3, PrefixProperties
    <2>5. shell' \in ShellState
      BY <1>21, <1>a, <2>3, <2>4, Zenon DEF TimeoutElapses, ShellState
    <2>6. counters' = PopFunction(counters, Larger(calls, sources))
      BY <1>21 DEF TimeoutElapses
    <2>7. counters' \in Counters
      <3> HIDE DEF calls, sources
      <3>1. QED
        BY <1>a, <2>3, <2>6, CountersType
    <2>8. work' \in Work
      BY <1>21, <1>a, WorkType DEF TimeoutElapses
    <2>9. n \in 0 .. Len(stack) /\ stack' = SubSeq(stack, 1, n) /\ n # 0
      <3>1. stack[1].kind = "exec" /\ f.kind = "timeout"
        BY <1>21 DEF TimeoutElapses, Running, TypeInv, StackWellFormed
      <3>2. i # 1
        BY <3>1
      <3>3. QED
        BY <1>a, <2>1, <3>2
    <2> HIDE DEF n
    <2>10. stack' \in Seq(Frames) /\ StackWellFormed' /\ stack' # <<>>
      BY <2>9, PrefixType
    <2>11. mode' = "run" /\ cancelled' \in BOOLEAN
      BY <1>21, <1>a DEF TimeoutElapses, Running
    <2>12. QED
      BY <2>5, <2>7, <2>8, <2>10, <2>11 DEF TypeInv, TypeOK
  <1>22. CASE Exec
    <2>1. work' \in Work
      BY <1>22, <1>a, WorkType DEF Exec
    <2>2. counters' \in Counters
      BY <1>22, <1>a, CountersType DEF Exec
    <2>3. CASE ~SessionAllows(StartExecute(counters))
      <3>1. shell' \in ShellState
        BY <1>22, <1>a, <2>3, ShellType DEF Exec
      <3>2. UNCHANGED <<mode, stack>>
        BY <1>22, <2>3 DEF Exec
      <3>3. QED
        BY <1>22, <1>a, <2>1, <2>2, <3>1, <3>2
        DEF Exec, TypeInv, TypeOK, StackWellFormed
    <2>4. CASE SessionAllows(StartExecute(counters))
      <3>1. PICK s \in Scopes :
              /\ Call(Frame("exec")) /\ mode' = "run"
              /\ shell' = [shell EXCEPT !.callback = TRUE, !.scope = s]
        BY <1>22, <2>4 DEF Exec
      <3>2. shell' \in ShellState
        BY <1>a, <3>1, Zenon DEF ShellState
      <3>3. /\ Frame("exec") \in Frames /\ WellFormed(Frame("exec"))
            /\ Frame("exec").kind = "exec"
        BY FrameType DEF Kinds, WellFormed, Plain, Frame
      <3>4. stack' \in Seq(Frames) /\ StackWellFormed' /\ stack' # <<>>
        BY <3>1, <3>3, CallType
      <3>5. QED
        BY <1>22, <1>a, <2>1, <2>2, <3>1, <3>2, <3>4
        DEF Exec, TypeInv, TypeOK
    <2>5. QED
      BY <2>3, <2>4
  <1>23. CASE ExecTimesOut
    <2>1. work' \in Work
      BY <1>23, <1>a, WorkType DEF ExecTimesOut
    <2>2. shell' \in ShellState
      BY <1>23, <1>a, Zenon DEF ExecTimesOut, ShellState
    <2>3. QED
      BY <1>23, <1>a, <2>1, <2>2
      DEF ExecTimesOut, TypeInv, TypeOK, StackWellFormed
  <1>24. CASE SetToken
    BY <1>24, <1>a DEF SetToken, TypeInv, TypeOK, StackWellFormed
  <1>25. CASE ExecRejected
    <2>1. shell' \in ShellState
      BY <1>25, <1>a, ShellType DEF ExecRejected
    <2>2. QED
      BY <1>25, <1>a, <2>1 DEF ExecRejected, TypeInv, TypeOK, StackWellFormed
  <1>26. CASE UNCHANGED vars
    BY <1>26, <1>a DEF vars, TypeInv, TypeOK, StackWellFormed
  <1>27. QED
    BY <1>1, <1>2, <1>3, <1>4, <1>5, <1>6, <1>7, <1>8, <1>9, <1>10, <1>11,
       <1>12, <1>13, <1>14, <1>15, <1>16, <1>17, <1>18, <1>19, <1>20, <1>21,
       <1>22, <1>23, <1>24, <1>25, <1>26 DEF Next, Engine

LEMMA TypeInvariant == Spec => []TypeInv
  <1>1. QED
    BY InitTypeInv, TypeStep, PTL DEF Spec

(* Every field keeps its type whatever is nested in whatever, and however   *)
(* the calls end: depths never go negative, and no frame is asked for       *)
(* positional parameters it does not hold. *)
THEOREM TypeCorrect == Spec => []TypeOK
  <1>1. TypeInv => TypeOK
    BY DEF TypeInv
  <1>2. QED
    BY <1>1, TypeInvariant, PTL

-----------------------------------------------------------------------------
(* The two command counters, and the nest that grows. *)

SameCommands(c, d) ==
  c.commands = d.commands /\ c.session_commands = d.session_commands

(* Of the operations of ExecutionCounters only tick_command and the reset   *)
(* touch the two command counters. *)
LEMMA CommandCounts ==
  ASSUME NEW c \in Counters
  PROVE  /\ TickCommand(c).commands = c.commands + 1
         /\ TickCommand(c).session_commands = c.session_commands + 1
         /\ StartExecute(c).commands = 0
         /\ StartExecute(c).session_commands = c.session_commands
         /\ SameCommands(TickLoop(c), c)
         /\ SameCommands(EnterLoop(c), c)
         /\ SameCommands(ExitLoop(c), c)
         /\ SameCommands(PushFunction(c), c)
         /\ \A n \in Nat : SameCommands(PopFunction(c, n), c)
         /\ SameCommands(PushSubst(c), c)
         /\ SameCommands(PopSubst(c), c)
  <1> USE DEF Counters, SameCommands
  <1>1. /\ TickCommand(c).commands = c.commands + 1
        /\ TickCommand(c).session_commands = c.session_commands + 1
    BY DEF TickCommand
  <1>2. /\ StartExecute(c).commands = 0
        /\ StartExecute(c).session_commands = c.session_commands
    BY DEF StartExecute, ResetForExecution
  <1>3. SameCommands(TickLoop(c), c)
    BY DEF TickLoop
  <1>4. SameCommands(EnterLoop(c), c) /\ SameCommands(ExitLoop(c), c)
    BY DEF EnterLoop, ExitLoop
  <1>5. SameCommands(PushFunction(c), c) /\ SameCommands(PushSubst(c), c)
    BY DEF PushFunction, PushSubst
  <1>6. \A n \in Nat : SameCommands(PopFunction(c, n), c)
    BY DEF PopFunction
  <1>7. SameCommands(PopSubst(c), c)
    BY DEF PopSubst
  <1>8. QED
    BY <1>1, <1>2, <1>3, <1>4, <1>5, <1>6, <1>7

LEMMA CommandsAfter ==
  ASSUME NEW c \in Counters, NEW f
  PROVE  /\ SameCommands(CountersAfter(f, c), c)
         /\ SameCommands(CountersAfterError(f, c), c)
  <1>1. SameCommands(c, c) /\ 1 \in Nat
    BY DEF SameCommands
  <1>2. SameCommands(CountersAfter(f, c), c)
    BY <1>1, CommandCounts, Zenon DEF CountersAfter
  <1>3. QED
    BY <1>1, <1>2, Zenon DEF CountersAfterError

(* The nest grows by the frame of the call and never beyond its bound. *)
LEMMA CallGrows ==
  ASSUME stack \in Seq(Frames), NEW f, Call(f)
  PROVE  /\ Len(stack') = Len(stack) + 1 /\ Len(stack') <= MaxStack
         /\ Len(stack) \in Nat
         /\ DOMAIN stack' = 1 .. Len(stack) + 1
         /\ \A i \in 1 .. Len(stack) : stack'[i] = stack[i]
         /\ stack'[Len(stack) + 1] = f
  <1> DEFINE S == Frames \cup {f}
  <1>1. stack \in Seq(S) /\ f \in S /\ stack' = Append(stack, f)
        /\ Len(stack) \in Nat /\ Len(stack) < MaxStack
    BY DEF Call
  <1> HIDE DEF S
  <1>2. /\ stack' \in Seq(S) /\ Len(stack') = Len(stack) + 1
        /\ \A i \in 1 .. Len(stack) : stack'[i] = stack[i]
        /\ stack'[Len(stack) + 1] = f
    BY <1>1, AppendProperties
  <1>3. QED
    BY <1>1, <1>2, LimitAssumption

-----------------------------------------------------------------------------
(***************************************************************************)
(* What the interpreter counts and flags agrees with what is nested, the   *)
(* limits on nesting and looping hold, and the code after each await puts  *)
(* back what the call before it changed.                                   *)
(***************************************************************************)

(* Counting the frames of a nest by kind *)

Count(s, kinds) == Cardinality({i \in DOMAIN s : s[i].kind \in kinds})

One(b) == IF b THEN 1 ELSE 0

LEMMA CountType ==
  ASSUME NEW s \in Seq(Frames), NEW kinds
  PROVE  /\ IsFiniteSet({i \in DOMAIN s : s[i].kind \in kinds})
         /\ Count(s, kinds) \in Nat
  <1> DEFINE S == {i \in DOMAIN s : s[i].kind \in kinds}
  <1>1. IsFiniteSet(1 .. Len(s)) /\ S \subseteq 1 .. Len(s)
    BY FS_Interval
  <1> HIDE DEF S
  <1>2. IsFiniteSet(S)
    BY <1>1, FS_Subset
  <1>3. Cardinality(S) \in Nat
    BY <1>2, FS_CardinalityType
  <1>4. QED
    BY <1>2, <1>3 DEF Count, S

LEMMA CountEmpty ==
  ASSUME NEW kinds
  PROVE  Count(<<>>, kinds) = 0
  <1>1. {i \in DOMAIN <<>> : <<>>[i].kind \in kinds} = {}
    OBVIOUS
  <1>2. QED
    BY <1>1, FS_EmptySet DEF Count

(* A call adds its own frame to the count of its kind. *)
LEMMA CountAppend ==
  ASSUME NEW s \in Seq(Frames), NEW t \in Seq(Frames), NEW f, NEW kinds,
         Len(t) = Len(s) + 1, t[Len(s) + 1] = f,
         \A i \in 1 .. Len(s) : t[i] = s[i]
  PROVE  Count(t, kinds) = Count(s, kinds) + One(f.kind \in kinds)
  <1> DEFINE S == {i \in DOMAIN s : s[i].kind \in kinds}
             T == {i \in DOMAIN t : t[i].kind \in kinds}
             n == Len(s) + 1
  <1>1. /\ n \in Nat /\ DOMAIN t = 1 .. n /\ DOMAIN s = 1 .. Len(s)
        /\ Len(s) \in Nat
    OBVIOUS
  <1>2. n \notin S
    BY <1>1
  <1>3. IsFiniteSet(S) /\ Cardinality(S) \in Nat
    BY CountType DEF Count
  <1>4. CASE f.kind \in kinds
    <2>1. T = S \cup {n}
      BY <1>1, <1>4
    <2> HIDE DEF S, T, n
    <2>2. Cardinality(T) = Cardinality(S) + 1
      BY <1>2, <1>3, <2>1, FS_AddElement
    <2>3. QED
      BY <1>4, <2>2 DEF Count, One, S, T
  <1>5. CASE f.kind \notin kinds
    <2>1. T = S
      BY <1>1, <1>5
    <2>2. Count(t, kinds) = Cardinality(T) /\ Count(s, kinds) = Cardinality(S)
      BY DEF Count
    <2>3. One(f.kind \in kinds) = 0
      BY <1>5 DEF One
    <2> HIDE DEF S, T
    <2>4. QED
      BY <1>3, <2>1, <2>2, <2>3
  <1>6. QED
    BY <1>4, <1>5

(* Ending calls can only lower a count; ending the top call lowers that of *)
(* its kind by one. *)
LEMMA CountPrefix ==
  ASSUME NEW s \in Seq(Frames), NEW n \in 0 .. Len(s), NEW kinds
  PROVE  Count(SubSeq(s, 1, n), kinds) <= Count(s, kinds)
  <1> DEFINE t == SubSeq(s, 1, n)
             S == {i \in DOMAIN s : s[i].kind \in kinds}
             T == {i \in DOMAIN t : t[i].kind \in kinds}
  <1>1. /\ t \in Seq(Frames) /\ Len(t) = n
        /\ \A i \in 1 .. n : t[i] = s[i]
    BY PrefixProperties
  <1>2. T \subseteq S
    BY <1>1
  <1>3. IsFiniteSet(S)
    BY CountType
  <1> HIDE DEF S, T, t
  <1>4. Cardinality(T) <= Cardinality(S)
    BY <1>2, <1>3, FS_Subset
  <1>5. QED
    BY <1>4 DEF Count, S, T, t

LEMMA CountPop ==
  ASSUME NEW s \in Seq(Frames), s # <<>>, NEW kinds
  PROVE  Count(ButLast(s), kinds) = Count(s, kinds) - One(s[Len(s)].kind \in kinds)
  <1> DEFINE t == ButLast(s)
             f == s[Len(s)]
  <1>1. /\ t \in Seq(Frames) /\ Len(t) = Len(s) - 1 /\ Len(s) \in Nat \ {0}
        /\ \A i \in 1 .. Len(s) - 1 : t[i] = s[i]
    BY ButLastProperties
  <1>2. /\ Len(s) = Len(t) + 1 /\ s[Len(t) + 1] = f
        /\ \A i \in 1 .. Len(t) : s[i] = t[i]
    BY <1>1
  <1> HIDE DEF t, f
  <1>3. Count(s, kinds) = Count(t, kinds) + One(f.kind \in kinds)
    BY <1>1, <1>2, CountAppend
  <1>4. Count(t, kinds) \in Nat /\ One(f.kind \in kinds) \in Nat
    BY <1>1, CountType DEF One
  <1>5. Count(t, kinds) = Count(s, kinds) - One(f.kind \in kinds)
    BY <1>3, <1>4
  <1>6. QED
    BY <1>5 DEF t, f

(* Only the kinds matter to a count. *)
LEMMA CountSame ==
  ASSUME NEW s \in Seq(Frames), NEW t \in Seq(Frames), NEW kinds,
         Len(s) = Len(t), \A i \in 1 .. Len(s) : s[i].kind = t[i].kind
  PROVE  Count(s, kinds) = Count(t, kinds)
  <1>1. {i \in DOMAIN s : s[i].kind \in kinds} = {i \in DOMAIN t : t[i].kind \in kinds}
    OBVIOUS
  <1>2. QED
    BY <1>1 DEF Count

(* One frame of a kind on the nest makes its count positive. *)
LEMMA CountPositive ==
  ASSUME NEW s \in Seq(Frames), NEW kinds, NEW i \in DOMAIN s, s[i].kind \in kinds
  PROVE  Count(s, kinds) >= 1
  <1> DEFINE S == {j \in DOMAIN s : s[j].kind \in kinds}
  <1>1. i \in S /\ IsFiniteSet(S) /\ Cardinality(S) \in Nat
    BY CountType DEF Count
  <1> HIDE DEF S
  <1>2. Cardinality(S) # 0
    BY <1>1, FS_EmptySet
  <1>3. QED
    BY <1>1, <1>2 DEF Count, S

-----------------------------------------------------------------------------
(* What the operations of ExecutionCounters do to the depths. *)

SameDepths(c, d) ==
  /\ c.function_depth = d.function_depth
  /\ c.loop_iterations = d.loop_iterations
  /\ c.subst_depth = d.subst_depth
  /\ c.total_loop_iterations = d.total_loop_iterations

Fresh(c) ==
  /\ c.function_depth = 0 /\ c.loop_iterations = <<>>
  /\ c.subst_depth = 0 /\ c.total_loop_iterations = 0

LEMMA DepthFields ==
  ASSUME NEW c \in Counters
  PROVE  /\ c.function_depth \in Nat /\ c.subst_depth \in Nat
         /\ c.total_loop_iterations \in Nat
         /\ c.loop_iterations \in Seq(Nat) /\ Len(c.loop_iterations) \in Nat
  BY DEF Counters

LEMMA TickLoopDepths ==
  ASSUME NEW c \in Counters
  PROVE  /\ TickLoop(c).function_depth = c.function_depth
         /\ TickLoop(c).subst_depth = c.subst_depth
         /\ TickLoop(c).total_loop_iterations = c.total_loop_iterations + 1
         /\ Len(TickLoop(c).loop_iterations) =
              Larger(1, Len(c.loop_iterations))
  <1> DEFINE open == IF c.loop_iterations = <<>> THEN <<0>>
                     ELSE c.loop_iterations
             ticked == [open EXCEPT ![Len(open)] = open[Len(open)] + 1]
  <1>1. TickLoop(c) = [c EXCEPT !.loop_iterations = ticked,
                                !.total_loop_iterations = c.total_loop_iterations + 1]
    BY Zenon DEF TickLoop, Counters
  <1>2. c.loop_iterations \in Seq(Nat)
    BY DEF Counters
  <1>3. /\ open \in Seq(Nat)
        /\ Len(open) = Larger(1, Len(c.loop_iterations))
    <2>1. CASE c.loop_iterations = <<>>
      BY <2>1 DEF Larger
    <2>2. CASE c.loop_iterations # <<>>
      <3>1. Len(c.loop_iterations) \in Nat \ {0}
        BY <1>2, <2>2, EmptySeq
      <3>2. QED
        BY <1>2, <2>2, <3>1 DEF Larger
    <2>3. QED
      BY <2>1, <2>2
  <1> HIDE DEF open
  <1>4. Len(ticked) = Len(open)
    BY <1>3
  <1> HIDE DEF ticked
  <1>5. QED
    BY <1>1, <1>3, <1>4 DEF Counters

LEMMA ExitLoopDepths ==
  ASSUME NEW c \in Counters
  PROVE  /\ ExitLoop(c).function_depth = c.function_depth
         /\ ExitLoop(c).subst_depth = c.subst_depth
         /\ ExitLoop(c).total_loop_iterations = c.total_loop_iterations
         /\ Len(ExitLoop(c).loop_iterations) = Less(Len(c.loop_iterations))
  <1>1. c.loop_iterations \in Seq(Nat)
    BY DEF Counters
  <1>2. ExitLoop(c) = [c EXCEPT !.loop_iterations = Popped(c.loop_iterations)]
    BY Zenon DEF ExitLoop, Popped, Counters
  <1>3. Len(Popped(c.loop_iterations)) = Less(Len(c.loop_iterations))
    <2>1. CASE c.loop_iterations = <<>>
      BY <2>1 DEF Popped, Less, Larger
    <2>2. CASE c.loop_iterations # <<>>
      BY <1>1, <2>2, ButLastProperties DEF Popped, Less, Larger
    <2>3. QED
      BY <2>1, <2>2
  <1>4. QED
    BY <1>2, <1>3 DEF Counters

LEMMA DepthCounts ==
  ASSUME NEW c \in Counters
  PROVE  /\ SameDepths(TickCommand(c), c)
         /\ Fresh(StartExecute(c))
         /\ EnterLoop(c).function_depth = c.function_depth
         /\ EnterLoop(c).subst_depth = c.subst_depth
         /\ EnterLoop(c).total_loop_iterations = c.total_loop_iterations
         /\ Len(EnterLoop(c).loop_iterations) = Len(c.loop_iterations) + 1
         /\ PushFunction(c).function_depth = c.function_depth + 1
         /\ PushFunction(c).loop_iterations = c.loop_iterations
         /\ PushFunction(c).subst_depth = c.subst_depth
         /\ PushFunction(c).total_loop_iterations = c.total_loop_iterations
         /\ PushSubst(c).subst_depth = c.subst_depth + 1
         /\ PushSubst(c).function_depth = c.function_depth
         /\ PushSubst(c).loop_iterations = c.loop_iterations
         /\ PushSubst(c).total_loop_iterations = c.total_loop_iterations
  <1> USE DEF Counters
  <1>1. SameDepths(TickCommand(c), c)
    BY DEF TickCommand, SameDepths
  <1>2. Fresh(StartExecute(c))
    BY DEF StartExecute, ResetForExecution, Fresh
  <1>3. /\ EnterLoop(c).function_depth = c.function_depth
        /\ EnterLoop(c).subst_depth = c.subst_depth
        /\ EnterLoop(c).total_loop_iterations = c.total_loop_iterations
        /\ Len(EnterLoop(c).loop_iterations) = Len(c.loop_iterations) + 1
    BY DEF EnterLoop
  <1>4. /\ PushFunction(c).function_depth = c.function_depth + 1
        /\ PushFunction(c).loop_iterations = c.loop_iterations
        /\ PushFunction(c).subst_depth = c.subst_depth
        /\ PushFunction(c).total_loop_iterations = c.total_loop_iterations
    BY DEF PushFunction
  <1>5. /\ PushSubst(c).subst_depth = c.subst_depth + 1
        /\ PushSubst(c).function_depth = c.function_depth
        /\ PushSubst(c).loop_iterations = c.loop_iterations
        /\ PushSubst(c).total_loop_iterations = c.total_loop_iterations
    BY DEF PushSubst
  <1>6. QED
    BY <1>1, <1>2, <1>3, <1>4, <1>5

(* Leaving a call takes its own depth off, and nothing else; an error that  *)
(* crosses $(...) does not even do that. *)
LEMMA DepthsAfter ==
  ASSUME NEW c \in Counters, NEW f \in Frames
  PROVE  LET d == CountersAfter(f, c)
             e == CountersAfterError(f, c)
         IN /\ d.function_depth = IF f.kind \in Depth THEN Less(c.function_depth)
                                  ELSE c.function_depth
            /\ Len(d.loop_iterations) = IF f.kind = "loop"
                                          THEN Less(Len(c.loop_iterations))
                                          ELSE Len(c.loop_iterations)
            /\ d.subst_depth = IF f.kind = "subst" THEN Less(c.subst_depth)
                               ELSE c.subst_depth
            /\ d.total_loop_iterations = c.total_loop_iterations
            /\ e = IF f.kind = "subst" THEN c ELSE d
  <1> DEFINE d == CountersAfter(f, c)
  <1>1. CountersAfterError(f, c) = IF f.kind = "subst" THEN c ELSE d
    BY DEF CountersAfterError
  <1>2. CASE f.kind = "loop"
    <2>1. d = ExitLoop(c)
      BY <1>2 DEF CountersAfter
    <2> HIDE DEF d
    <2>2. QED
      BY <1>1, <1>2, <2>1, ExitLoopDepths DEF Depth, d
  <1>3. CASE f.kind \in {"function", "source"}
    <2>1. d = [c EXCEPT !.function_depth = Less(@)]
      BY <1>3, DepthFields DEF CountersAfter, PopFunction, Less
    <2> HIDE DEF d
    <2>2. QED
      BY <1>1, <1>3, <2>1 DEF Depth, Counters, d
  <1>4. CASE f.kind = "subst"
    <2>1. d = [c EXCEPT !.subst_depth = Less(@)]
      BY <1>4 DEF CountersAfter, PopSubst, Less
    <2> HIDE DEF d
    <2>2. QED
      BY <1>1, <1>4, <2>1 DEF Depth, Counters, d
  <1>5. CASE f.kind \notin {"loop", "function", "source", "subst"}
    <2>1. d = c
      BY <1>5 DEF CountersAfter
    <2> HIDE DEF d
    <2>2. QED
      BY <1>1, <1>5, <2>1 DEF Depth, d
  <1>6. QED
    BY <1>2, <1>3, <1>4, <1>5

-----------------------------------------------------------------------------
(* What a call puts back.  Near(a, b, clean) says that the shell a differs  *)
(* from the shell b by no more than calls that have ended may leave behind: *)
(* the scope and the callback aside, nothing but consumed input when all of *)
(* them returned Ok, and otherwise input, captured descriptors and one      *)
(* positional frame under a nest that had none.                             *)

Near(a, b, clean) ==
  /\ a.bash_source = b.bash_source
  /\ a.in_trap = b.in_trap
  /\ \/ Len(a.call_stack) = Len(b.call_stack)
     \/ Len(b.call_stack) = 0 /\ Len(a.call_stack) = 1
  /\ clean => /\ Len(a.call_stack) = Len(b.call_stack)
              /\ a.capture_depth = b.capture_depth
              /\ a.stdin \in {b.stdin, NoStdin}

(* The call f, pushed in the shell b, turned it into s; ending f undoes it. *)
Undone(f, s, b) ==
  /\ Near(Restored(f, s), b, TRUE)
  /\ Near(RestoredOnError(f, s), b, FALSE)

LEMMA NearReflexive ==
  ASSUME NEW a, NEW clean
  PROVE  Near(a, a, clean)
  BY DEF Near

LEMMA NearTransitive ==
  ASSUME NEW a \in ShellState, NEW b \in ShellState, NEW c \in ShellState,
         NEW m \in BOOLEAN, NEW n \in BOOLEAN, Near(a, b, m), Near(b, c, n)
  PROVE  Near(a, c, m /\ n)
  BY DEF Near

LEMMA NearWeaker ==
  ASSUME NEW a, NEW b, NEW m \in BOOLEAN, NEW n \in BOOLEAN, n => m,
         Near(a, b, m)
  PROVE  Near(a, b, n)
  BY DEF Near

LEMMA ShellFields ==
  ASSUME NEW a \in ShellState
  PROVE  /\ a = [scope |-> a.scope, call_stack |-> a.call_stack,
                 bash_source |-> a.bash_source, stdin |-> a.stdin,
                 callback |-> a.callback, capture_depth |-> a.capture_depth,
                 in_trap |-> a.in_trap]
         /\ a.call_stack \in Seq(Args) /\ Len(a.call_stack) \in Nat
         /\ a.bash_source \in Nat /\ a.capture_depth \in Nat
         /\ a.stdin \in Stdin /\ a.in_trap \in BOOLEAN
  BY DEF ShellState

(* Which fields each restoration sets, kind by kind. *)
LEMMA RestoredFields ==
  ASSUME NEW f \in Frames, NEW sh \in ShellState
  PROVE  LET r == Restored(f, sh)
         IN /\ r.bash_source =
                 IF f.kind \in {"function", "source"}
                    \/ (f.kind = "shell" /\ f.file) THEN Less(sh.bash_source)
                 ELSE IF f.kind = "script" THEN f.bash_source
                 ELSE sh.bash_source
            /\ r.in_trap = IF f.kind = "trap" THEN FALSE ELSE sh.in_trap
            /\ r.call_stack =
                 IF f.kind \in {"function", "shell"} THEN Popped(sh.call_stack)
                 ELSE IF f.kind \in {"subshell", "script"} THEN f.call_stack
                 ELSE IF f.kind = "source"
                   THEN SourceRestoresArgs(f, sh.call_stack)
                 ELSE sh.call_stack
            /\ r.capture_depth =
                 IF f.kind = "redirect" /\ f.captured
                   THEN Less(sh.capture_depth) ELSE sh.capture_depth
            /\ r.stdin =
                 IF f.kind \in {"eval", "alias", "pipe", "function", "shell",
                                "script"} \/ (f.kind = "redirect" /\ f.input)
                   THEN f.stdin ELSE sh.stdin
  <1> USE DEF ShellState
  <1>0. f.kind \in Kinds
    BY DEF Frames
  <1> DEFINE r == Restored(f, sh)
  <1>1. CASE f.kind = "exec"
    <2>1. r = ExecRestores(f, sh)
      BY <1>1 DEF Restored
    <2> HIDE DEF r
    <2>2. QED
      BY <1>1, <2>1 DEF ExecRestores, r
  <1>2. CASE f.kind \in {"eval", "alias", "pipe"}
    <2>1. r = StdinRestores(f, sh)
      BY <1>2 DEF Restored
    <2> HIDE DEF r
    <2>2. QED
      BY <1>2, <2>1 DEF StdinRestores, r
  <1>3. CASE f.kind = "redirect"
    <2>1. r = RedirectRestores(f, sh)
      BY <1>3 DEF Restored
    <2> HIDE DEF r
    <2>2. QED
      BY <1>3, <2>1 DEF RedirectRestores, r
  <1>4. CASE f.kind = "subshell"
    <2>1. r = SubshellRestores(f, sh)
      BY <1>4 DEF Restored
    <2> HIDE DEF r
    <2>2. QED
      BY <1>4, <2>1 DEF SubshellRestores, r
  <1>5. CASE f.kind = "subst"
    <2>1. r = SubstRestores(f, sh)
      BY <1>5 DEF Restored
    <2> HIDE DEF r
    <2>2. QED
      BY <1>5, <2>1 DEF SubstRestores, r
  <1>6. CASE f.kind = "function"
    <2>1. r = FunctionRestores(f, sh)
      BY <1>6 DEF Restored
    <2> HIDE DEF r
    <2>2. QED
      BY <1>6, <2>1 DEF FunctionRestores, r
  <1>7. CASE f.kind = "source"
    <2>1. r = SourceRestores(f, sh)
      BY <1>7 DEF Restored
    <2> HIDE DEF r
    <2>2. QED
      BY <1>7, <2>1 DEF SourceRestores, r
  <1>8. CASE f.kind = "shell"
    <2>1. r = ShellRestores(f, sh)
      BY <1>8 DEF Restored
    <2> HIDE DEF r
    <2>2. QED
      BY <1>8, <2>1 DEF ShellRestores, r
  <1>9. CASE f.kind = "script"
    <2>1. r = ScriptRestores(f, sh)
      BY <1>9 DEF Restored
    <2> HIDE DEF r
    <2>2. QED
      BY <1>9, <2>1 DEF ScriptRestores, r
  <1>10. CASE f.kind = "trap"
    <2>1. r = TrapRestores(f, sh)
      BY <1>10 DEF Restored
    <2> HIDE DEF r
    <2>2. QED
      BY <1>10, <2>1 DEF TrapRestores, r
  <1>11. CASE f.kind \in {"loop", "pipeline", "timeout"}
    <2>1. r = sh
      BY <1>11 DEF Restored
    <2> HIDE DEF r
    <2>2. QED
      BY <1>11, <2>1 DEF r
  <1>12. QED
    BY <1>0, <1>1, <1>2, <1>3, <1>4, <1>5, <1>6, <1>7, <1>8, <1>9, <1>10,
       <1>11 DEF Kinds

(* An Err leaves four constructs as they are and takes the BASH_SOURCE      *)
(* entry of a sourced file off; every other call is restored as usual.      *)
LEMMA RestoredOnErrorFields ==
  ASSUME NEW f \in Frames, NEW sh \in ShellState
  PROVE  LET e == RestoredOnError(f, sh)
         IN /\ f.kind \in LeavesAll => e = sh
            /\ f.kind = "source" =>
                 /\ e.bash_source = Less(sh.bash_source)
                 /\ e.in_trap = sh.in_trap /\ e.call_stack = sh.call_stack
                 /\ e.capture_depth = sh.capture_depth /\ e.stdin = sh.stdin
            /\ f.kind \notin LeavesAll \cup {"source"} => e = Restored(f, sh)
  BY DEF RestoredOnError, LeavesAll, ShellState

(* Only the number of positional frames matters to Near. *)
LEMMA PoppedLength ==
  ASSUME NEW S, NEW s \in Seq(S)
  PROVE  Len(Popped(s)) = Less(Len(s))
  <1>1. CASE s = <<>>
    BY <1>1 DEF Popped, Less, Larger
  <1>2. CASE s # <<>>
    BY <1>2, ButLastProperties DEF Popped, Less, Larger
  <1>3. QED
    BY <1>1, <1>2

LEMMA SourceArgsLength ==
  ASSUME NEW f \in Frames, NEW calls \in Seq(Args)
  PROVE  Len(SourceRestoresArgs(f, calls)) =
           IF f.args = "pushed" THEN Less(Len(calls)) ELSE Len(calls)
  <1>1. CASE f.args = "pushed"
    BY <1>1, PoppedLength DEF SourceRestoresArgs
  <1>2. CASE f.args = "replaced" /\ calls # <<>>
    <2>1. SourceRestoresArgs(f, calls) =
            [calls EXCEPT ![Len(calls)] = f.call_stack[1]]
      BY <1>2 DEF SourceRestoresArgs
    <2>2. QED
      BY <1>2, <2>1
  <1>3. CASE f.args # "pushed" /\ ~(f.args = "replaced" /\ calls # <<>>)
    BY <1>3 DEF SourceRestoresArgs
  <1>4. QED
    BY <1>1, <1>2, <1>3

LEMMA RestoredCalls ==
  ASSUME NEW f \in Frames, NEW sh \in ShellState
  PROVE  Len(Restored(f, sh).call_stack) =
           IF f.kind \in {"function", "shell"}
              \/ (f.kind = "source" /\ f.args = "pushed")
             THEN Less(Len(sh.call_stack))
           ELSE IF f.kind \in {"subshell", "script"} THEN Len(f.call_stack)
           ELSE Len(sh.call_stack)
  <1>1. sh.call_stack \in Seq(Args)
    BY ShellFields
  <1>2. /\ Len(Popped(sh.call_stack)) = Less(Len(sh.call_stack))
        /\ Len(SourceRestoresArgs(f, sh.call_stack)) =
             IF f.args = "pushed" THEN Less(Len(sh.call_stack))
             ELSE Len(sh.call_stack)
    BY <1>1, PoppedLength, SourceArgsLength
  <1>3. QED
    BY <1>2, RestoredFields

(* Restoring keeps the order: what was near before is near after. *)
LEMMA RestoredMonotone ==
  ASSUME NEW f \in Frames, NEW a \in ShellState, NEW b \in ShellState,
         NEW clean \in BOOLEAN, Near(a, b, clean)
  PROVE  /\ Near(Restored(f, a), Restored(f, b), clean)
         /\ Near(RestoredOnError(f, a), RestoredOnError(f, b), clean)
  <1>1. Near(Restored(f, a), Restored(f, b), clean)
    <2> DEFINE r == Restored(f, a)
               q == Restored(f, b)
    <2>a. /\ Len(a.call_stack) \in Nat /\ Len(b.call_stack) \in Nat
          /\ a.bash_source = b.bash_source /\ a.in_trap = b.in_trap
      BY ShellFields DEF Near
    <2>b. \A sh \in ShellState :
            /\ Restored(f, sh).bash_source =
                 IF f.kind \in {"function", "source"}
                    \/ (f.kind = "shell" /\ f.file) THEN Less(sh.bash_source)
                 ELSE IF f.kind = "script" THEN f.bash_source
                 ELSE sh.bash_source
            /\ Restored(f, sh).in_trap =
                 IF f.kind = "trap" THEN FALSE ELSE sh.in_trap
      BY RestoredFields
    <2>c. \A sh \in ShellState :
            /\ Restored(f, sh).capture_depth =
                 IF f.kind = "redirect" /\ f.captured
                   THEN Less(sh.capture_depth) ELSE sh.capture_depth
            /\ Restored(f, sh).stdin =
                 IF f.kind \in {"eval", "alias", "pipe", "function", "shell",
                                "script"} \/ (f.kind = "redirect" /\ f.input)
                   THEN f.stdin ELSE sh.stdin
      BY RestoredFields
    <2>1. r.bash_source = q.bash_source /\ r.in_trap = q.in_trap
      BY <2>a, <2>b
    <2>2. /\ \/ Len(r.call_stack) = Len(q.call_stack)
             \/ Len(q.call_stack) = 0 /\ Len(r.call_stack) = 1
          /\ Len(a.call_stack) = Len(b.call_stack)
               => Len(r.call_stack) = Len(q.call_stack)
      <3>1. \/ Len(a.call_stack) = Len(b.call_stack)
            \/ Len(b.call_stack) = 0 /\ Len(a.call_stack) = 1
        BY DEF Near
      <3>2. Len(a.call_stack) = Len(b.call_stack)
               => Len(r.call_stack) = Len(q.call_stack)
        BY RestoredCalls
      <3>3. CASE Len(b.call_stack) = 0 /\ Len(a.call_stack) = 1
        <4>1. Less(0) = 0 /\ Less(1) = 0
          BY DEF Less, Larger
        <4> HIDE DEF r, q
        <4>2. QED
          BY <3>3, <4>1, RestoredCalls DEF r, q
      <3>4. QED
        BY <3>1, <3>2, <3>3
    <2>3. clean => /\ r.capture_depth = q.capture_depth
                   /\ r.stdin \in {q.stdin, NoStdin}
      BY <2>c DEF Near
    <2>4. clean => Len(a.call_stack) = Len(b.call_stack)
      BY DEF Near
    <2> HIDE DEF r, q
    <2>5. Near(r, q, clean)
      BY <2>1, <2>2, <2>3, <2>4 DEF Near
    <2>6. QED
      BY <2>5 DEF r, q
  <1>2. CASE f.kind \in LeavesAll
    BY <1>1, <1>2, RestoredOnErrorFields
  <1>3. CASE f.kind = "source"
    BY <1>1, <1>3, RestoredOnErrorFields DEF Near
  <1>4. CASE f.kind \notin LeavesAll \cup {"source"}
    BY <1>1, <1>4, RestoredOnErrorFields
  <1>5. QED
    BY <1>1, <1>2, <1>3, <1>4

(* What the code before the await changes, and what it saves of it. *)
SavesSource(f) ==
  f.kind \in {"function", "source"} \/ (f.kind = "shell" /\ f.file)
SavesStdin(f) ==
  \/ f.kind \in {"eval", "alias", "pipe", "function", "shell", "script"}
  \/ f.kind = "redirect" /\ f.input

Pushed(f, s, b) ==
  /\ IF SavesSource(f) THEN s.bash_source = b.bash_source + 1
     ELSE IF f.kind = "script" THEN f.bash_source = b.bash_source
     ELSE s.bash_source = b.bash_source
  /\ IF f.kind = "trap" THEN ~b.in_trap /\ s.in_trap ELSE s.in_trap = b.in_trap
  /\ IF f.kind \in {"function", "shell"}
       THEN Len(s.call_stack) = Len(b.call_stack) + 1
     ELSE IF f.kind \in {"subshell", "script"}
       THEN f.call_stack = b.call_stack
     ELSE IF f.kind = "source" /\ f.args = "pushed"
       THEN Len(b.call_stack) = 0 /\ Len(s.call_stack) = 1
     ELSE Len(s.call_stack) = Len(b.call_stack)
  /\ s.capture_depth = b.capture_depth + One(f.kind = "redirect" /\ f.captured)
  /\ IF SavesStdin(f) THEN f.stdin = b.stdin ELSE s.stdin = b.stdin

(* Every construct restores what it saved. *)
LEMMA PushedUndone ==
  ASSUME NEW f \in Frames, NEW s \in ShellState, NEW b \in ShellState,
         Pushed(f, s, b)
  PROVE  Undone(f, s, b)
  <1> DEFINE r == Restored(f, s)
             e == RestoredOnError(f, s)
  <1>a. /\ Len(s.call_stack) \in Nat /\ Len(b.call_stack) \in Nat
        /\ s.bash_source \in Nat /\ b.bash_source \in Nat
        /\ s.capture_depth \in Nat /\ b.capture_depth \in Nat
        /\ s.in_trap \in BOOLEAN /\ b.in_trap \in BOOLEAN
    BY ShellFields
  <1>b. \A n \in Nat : Less(n + 1) = n
    BY DEF Less, Larger
  <1>c. /\ r.bash_source = IF SavesSource(f) THEN Less(s.bash_source)
                           ELSE IF f.kind = "script" THEN f.bash_source
                           ELSE s.bash_source
        /\ r.in_trap = IF f.kind = "trap" THEN FALSE ELSE s.in_trap
        /\ r.capture_depth = IF f.kind = "redirect" /\ f.captured
                               THEN Less(s.capture_depth) ELSE s.capture_depth
        /\ r.stdin = IF SavesStdin(f) THEN f.stdin ELSE s.stdin
    BY RestoredFields DEF SavesSource, SavesStdin
  <1>d. Len(r.call_stack) =
           IF f.kind \in {"function", "shell"}
              \/ (f.kind = "source" /\ f.args = "pushed")
             THEN Less(Len(s.call_stack))
           ELSE IF f.kind \in {"subshell", "script"} THEN Len(f.call_stack)
           ELSE Len(s.call_stack)
    BY RestoredCalls
  <1> HIDE DEF r, e
  <1>1. r.bash_source = b.bash_source
    <2>1. /\ SavesSource(f) => s.bash_source = b.bash_source + 1
          /\ ~SavesSource(f) /\ f.kind = "script" => f.bash_source = b.bash_source
          /\ ~SavesSource(f) /\ f.kind # "script" => s.bash_source = b.bash_source
      BY DEF Pushed
    <2>2. QED
      BY <1>a, <1>b, <1>c, <2>1
  <1>2. r.in_trap = b.in_trap
    BY <1>a, <1>c DEF Pushed
  <1>3. Len(r.call_stack) = Len(b.call_stack)
    <2>1. CASE f.kind \in {"function", "shell"}
      <3>1. Len(s.call_stack) = Len(b.call_stack) + 1
        BY <2>1 DEF Pushed
      <3>2. QED
        BY <1>a, <1>b, <1>d, <2>1, <3>1
    <2>2. CASE f.kind \in {"subshell", "script"}
      BY <1>d, <2>2 DEF Pushed
    <2>3. CASE f.kind = "source" /\ f.args = "pushed"
      <3>1. Len(b.call_stack) = 0 /\ Len(s.call_stack) = 0 + 1
        BY <2>3 DEF Pushed
      <3>2. QED
        BY <1>b, <1>d, <2>3, <3>1
    <2>4. CASE /\ f.kind \notin {"function", "shell", "subshell", "script"}
               /\ ~(f.kind = "source" /\ f.args = "pushed")
      BY <1>d, <2>4 DEF Pushed
    <2>5. QED
      BY <2>1, <2>2, <2>3, <2>4
  <1>4. r.capture_depth = b.capture_depth
    <2>1. s.capture_depth =
            b.capture_depth + One(f.kind = "redirect" /\ f.captured)
      BY DEF Pushed
    <2>2. CASE f.kind = "redirect" /\ f.captured
      <3>1. s.capture_depth = b.capture_depth + 1
        BY <2>1, <2>2 DEF One
      <3>2. QED
        BY <1>a, <1>b, <1>c, <2>2, <3>1
    <2>3. CASE ~(f.kind = "redirect" /\ f.captured)
      <3>1. s.capture_depth = b.capture_depth + 0
        BY <2>1, <2>3 DEF One
      <3>2. QED
        BY <1>a, <1>c, <2>3, <3>1
    <2>4. QED
      BY <2>2, <2>3
  <1>5. r.stdin = b.stdin
    BY <1>c DEF Pushed
  <1>6. Near(r, b, TRUE)
    BY <1>1, <1>2, <1>3, <1>4, <1>5 DEF Near
  <1>7. Near(e, b, FALSE)
    <2>1. CASE f.kind \in LeavesAll
      <3>1. e = s
        BY <2>1, RestoredOnErrorFields DEF e
      <3>2. QED
        BY <2>1, <3>1 DEF Near, Pushed, LeavesAll, SavesSource
    <2>2. CASE f.kind = "source"
      <3>1. /\ e.bash_source = Less(s.bash_source)
            /\ e.in_trap = s.in_trap /\ e.call_stack = s.call_stack
        BY <2>2, RestoredOnErrorFields DEF e
      <3>2. /\ s.bash_source = b.bash_source + 1 /\ s.in_trap = b.in_trap
            /\ \/ Len(s.call_stack) = Len(b.call_stack)
               \/ Len(b.call_stack) = 0 /\ Len(s.call_stack) = 1
        BY <2>2 DEF Pushed, SavesSource
      <3>3. QED
        BY <1>a, <1>b, <3>1, <3>2 DEF Near
    <2>3. CASE f.kind \notin LeavesAll \cup {"source"}
      <3>1. e = r
        BY <2>3 DEF RestoredOnError, LeavesAll, r, e
      <3>2. QED
        BY <1>6, <3>1 DEF Near
    <2>4. QED
      BY <2>1, <2>2, <2>3
  <1>8. QED
    BY <1>6, <1>7 DEF Undone, r, e

-----------------------------------------------------------------------------
(* The steps of the interpreter, seen from the nest: a step of the running  *)
(* call leaves the nest alone (Stays) or puts one call on it (Pushes); the  *)
(* other steps end calls or belong to the host.                             *)

SameCall(f, g) == f = g \/ f = [g EXCEPT !.exit_trap = TRUE]

Stays ==
  /\ mode = "run" /\ mode' \in {"run", "err"}
  /\ Len(stack') = Len(stack)
  /\ \A i \in 1 .. Len(stack) : SameCall(stack'[i], stack[i])
  /\ \/ SameDepths(counters', counters) /\ work'.loops = work.loops
     \/ /\ Top.kind = "loop" /\ counters' = TickLoop(counters)
        /\ mode' = "run" => counters'.total_loop_iterations <= MaxTotalLoopIterations
        /\ work'.loops = work.loops + 1
     \/ /\ Features \cap Resets # {} /\ Fresh(counters')
        /\ work'.loops = work.loops
  /\ work'.commands >= work.commands
  /\ work'.clean = work.clean
  /\ Near(shell', shell, mode' # "err")
  /\ shell'.callback = shell.callback

(* One more level of depth for a call of kind k. *)
Deeper(k) ==
  /\ counters'.function_depth = counters.function_depth + One(k \in Depth)
  /\ k \in Depth => counters.function_depth < MaxFunctionDepth
  /\ Len(counters'.loop_iterations) =
       Len(counters.loop_iterations) + One(k = "loop")
  /\ counters'.subst_depth = counters.subst_depth + One(k = "subst")
  /\ counters'.total_loop_iterations =
       counters.total_loop_iterations + One(k = "loop")
  /\ k = "loop" /\ mode' = "run" =>
       counters'.total_loop_iterations <= MaxTotalLoopIterations

Pushes(f) ==
  /\ mode = "run" /\ mode' \in {"run", "err"}
  /\ mode' = "err" => f.kind = "loop"
  /\ f.kind # "exec" /\ Call(f)
  /\ IF f.kind \in Resets THEN Fresh(counters') ELSE Deeper(f.kind)
  /\ work'.commands = work.commands + One(f.kind # "pipe")
  /\ work'.loops = work.loops + One(f.kind = "loop")
  /\ work'.clean = work.clean
  /\ Pushed(f, shell', shell)

LEMMA PushedType ==
  ASSUME TypeInv, TypeInv', NEW f, Call(f)
  PROVE  f \in Frames
  <1>1. stack \in Seq(Frames) /\ stack' \in Seq(Frames)
    BY DEF TypeInv, TypeOK
  <1>2. Len(stack') = Len(stack) + 1 /\ stack'[Len(stack) + 1] = f
        /\ Len(stack) \in Nat
    BY <1>1, CallGrows
  <1>3. QED
    BY <1>1, <1>2

(* The depths after a command that opens a call of a kind that no counter  *)
(* follows. *)
LEMMA SameIsDeeper ==
  ASSUME counters \in Counters, SameDepths(counters', counters),
         NEW k, k \notin Depth \cup {"loop", "subst"}
  PROVE  Deeper(k)
  <1>1. /\ k \notin Depth /\ k # "loop" /\ k # "subst"
        /\ One(FALSE) = 0
    BY DEF One
  <1>2. /\ counters.function_depth \in Nat /\ counters.subst_depth \in Nat
        /\ counters.total_loop_iterations \in Nat
        /\ Len(counters.loop_iterations) \in Nat
    BY DepthFields
  <1>3. /\ One(k \in Depth) = 0 /\ One(k = "loop") = 0 /\ One(k = "subst") = 0
    BY <1>1 DEF One
  <1>4. QED
    BY <1>1, <1>2, <1>3 DEF SameDepths, Deeper

LEMMA CommandCounted ==
  ASSUME work \in Work, NEW n \in Nat, CountCommands(n)
  PROVE  /\ work'.commands = work.commands + n /\ work'.commands >= work.commands
         /\ work'.loops = work.loops /\ work'.clean = work.clean
         /\ work.loops \in Nat
  <1>1. work.commands \in Nat /\ work.loops \in Nat
    BY DEF Work
  <1>2. /\ work'.commands = work.commands + n
        /\ work'.loops = work.loops /\ work'.clean = work.clean
    BY DEF CountCommands, Work
  <1>3. QED
    BY <1>1, <1>2

LEMMA SameNest ==
  ASSUME UNCHANGED stack
  PROVE  /\ Len(stack') = Len(stack)
         /\ \A i \in 1 .. Len(stack) : SameCall(stack'[i], stack[i])
  BY DEF SameCall

LEMMA PlainPush ==
  ASSUME TypeInv, Admitted, NEW f, Call(f), UNCHANGED mode,
         counters' = TickCommand(counters), CountCommands(1),
         f.kind \notin Depth \cup Resets \cup {"loop", "subst", "exec", "pipe"},
         Pushed(f, shell', shell)
  PROVE  Pushes(f)
  <1>1. mode = "run" /\ counters \in Counters /\ work \in Work
    BY DEF Admitted, Running, TypeInv, TypeOK
  <1>2. Deeper(f.kind)
    BY <1>1, DepthCounts, SameIsDeeper
  <1>3. /\ work'.commands = work.commands + 1 /\ work'.clean = work.clean
        /\ work'.loops = work.loops /\ work.loops \in Nat
    BY <1>1, CommandCounted
  <1>4. /\ work'.commands = work.commands + One(f.kind # "pipe")
        /\ work'.loops = work.loops + One(f.kind = "loop")
    BY <1>3 DEF One
  <1>5. QED
    BY <1>1, <1>2, <1>3, <1>4 DEF Pushes

(* A step that changes neither the nest nor the depths. *)
LEMMA QuietStep ==
  ASSUME TypeInv, mode = "run", mode' \in {"run", "err"}, UNCHANGED stack,
         SameDepths(counters', counters), work'.loops = work.loops,
         work'.commands >= work.commands, work'.clean = work.clean,
         Near(shell', shell, mode' # "err"), shell'.callback = shell.callback
  PROVE  Stays
  BY SameNest DEF Stays

(* The simple commands, and the ones that are refused. *)
LEMMA SimpleSteps ==
  ASSUME TypeInv,
         CommandCancelled \/ CommandRefused \/ SimpleCommand
  PROVE  Stays
  <1>a. /\ counters \in Counters /\ work \in Work /\ shell \in ShellState
        /\ TickCommand(counters) \in Counters
    BY CountersType DEF TypeInv, TypeOK
  <1>b. SameDepths(TickCommand(counters), counters)
    BY <1>a, DepthCounts
  <1>c. SameDepths(counters, counters) /\ Near(shell, shell, TRUE)
        /\ Near(shell, shell, FALSE)
    BY NearReflexive DEF SameDepths
  <1>d. Admitted => mode = "run"
    BY DEF Admitted, Running
  <1>e. ASSUME NEW s \in Scopes, NEW d \in {shell.stdin, NoStdin},
               \/ shell' = [shell EXCEPT !.scope = s, !.stdin = d]
               \/ shell' = [shell EXCEPT !.scope = s]
        PROVE  Near(shell', shell, TRUE) /\ shell'.callback = shell.callback
    BY <1>a, <1>e DEF Near, ShellState
  <1>1. CASE CommandCancelled
    <2>1. /\ mode = "run" /\ mode' = "err"
          /\ UNCHANGED <<stack, shell, counters, work>>
      BY <1>1 DEF CommandCancelled, Running
    <2>2. work'.commands >= work.commands
      BY <1>a, <2>1 DEF Work
    <2>3. Near(shell', shell, mode' # "err")
      BY <2>1, NearReflexive
    <2>4. QED
      BY <1>c, <2>1, <2>2, <2>3, QuietStep
  <1>2. CASE CommandRefused
    <2>1. /\ mode = "run" /\ mode' = "err" /\ UNCHANGED <<stack, shell>>
          /\ counters' = TickCommand(counters) /\ CountCommands(1)
      BY <1>2 DEF CommandRefused, Running
    <2>2. QED
      BY <1>a, <1>b, <1>c, <2>1, CommandCounted, QuietStep
  <1>3. CASE SimpleCommand
    <2>1. /\ mode = "run" /\ mode' = "run" /\ UNCHANGED stack
          /\ counters' = TickCommand(counters) /\ CountCommands(1)
      BY <1>3, <1>d DEF SimpleCommand
    <2>2. Near(shell', shell, TRUE) /\ shell'.callback = shell.callback
      <3>1. PICK s \in Scopes, d \in {shell.stdin, NoStdin} :
              shell' = [shell EXCEPT !.scope = s, !.stdin = d]
        BY <1>3 DEF SimpleCommand
      <3>2. QED
        BY <1>e, <3>1
    <2>3. Near(shell', shell, mode' # "err")
      BY <2>1, <2>2
    <2>4. QED
      BY <1>a, <1>b, <2>1, <2>2, <2>3, CommandCounted, QuietStep
  <1>4. QED
    BY <1>1, <1>2, <1>3

(* The commands that open a call which no depth counter follows. *)
LEMMA PlainPushSteps ==
  ASSUME TypeInv,
         \/ PipelineBegins \/ CompoundPipelineStage \/ CompoundWithRedirects
         \/ SubshellBegins \/ ShellBegins \/ ScriptBegins \/ TrapFires \/ TimeoutBegins
  PROVE  \E f : Pushes(f)
  <1>a. shell \in ShellState
    BY DEF TypeInv, TypeOK
  <1> USE DEF Pushed, SavesSource, SavesStdin, One, Depth, Resets
  <1>b. /\ Len(shell.call_stack) \in Nat /\ shell.bash_source \in Nat
        /\ shell.capture_depth \in Nat /\ shell.call_stack \in Seq(Args)
        /\ shell.in_trap \in BOOLEAN
    BY <1>a, ShellFields
  <1>1. CASE CompoundPipelineStage
    <2> DEFINE f == [Frame("pipe") EXCEPT !.stdin = shell.stdin,
                                        !.depth = counters.session_commands]
    <2>1. PICK d \in Stdin : Call(f) /\ shell' = [shell EXCEPT !.stdin = d]
      BY <1>1 DEF CompoundPipelineStage
    <2>2. f.kind = "pipe" /\ f.stdin = shell.stdin
      BY DEF Frame
    <2> HIDE DEF f
    <2>3. Pushed(f, shell', shell)
      BY <1>a, <1>b, <2>1, <2>2 DEF ShellState
    <2>4. mode = "run" /\ UNCHANGED <<mode, counters, work>>
      BY <1>1 DEF CompoundPipelineStage, Running
    <2>5. Deeper(f.kind)
      BY <2>2, <2>4, SameIsDeeper DEF TypeInv, TypeOK, SameDepths
    <2>6. /\ work'.commands = work.commands + One(f.kind # "pipe")
          /\ work'.loops = work.loops + One(f.kind = "loop")
      BY <2>2, <2>4 DEF TypeInv, TypeOK, Work
    <2> HIDE DEF Pushed, One
    <2>7. QED
      BY <2>1, <2>2, <2>3, <2>4, <2>5, <2>6 DEF Pushes
  <1>2. CASE CompoundWithRedirects
    <2> DEFINE Saved(d, output, captured) ==
                 [Frame("redirect") EXCEPT
                    !.input = (d # NoStdin),
                    !.stdin = IF d # NoStdin THEN shell.stdin ELSE NoStdin,
                    !.callback = output /\ shell.callback,
                    !.captured = captured]
               Changed(d, output, captured) ==
                 [shell EXCEPT
                    !.stdin = IF d # NoStdin THEN d ELSE @,
                    !.callback = @ /\ ~output,
                    !.capture_depth = IF captured THEN @ + 1 ELSE @]
    <2>1. PICK d \in Stdin, output \in BOOLEAN, captured \in BOOLEAN :
            Call(Saved(d, output, captured)) /\ shell' = Changed(d, output, captured)
      BY <1>2 DEF CompoundWithRedirects
    <2> DEFINE f == Saved(d, output, captured)
    <2>2. /\ f.kind = "redirect" /\ f.captured = captured
          /\ f.input = (d # NoStdin) /\ (d # NoStdin => f.stdin = shell.stdin)
      BY DEF Frame
    <2>3. /\ shell'.bash_source = shell.bash_source
          /\ shell'.in_trap = shell.in_trap
          /\ shell'.call_stack = shell.call_stack
          /\ shell'.capture_depth = IF captured THEN shell.capture_depth + 1
                                    ELSE shell.capture_depth
          /\ d = NoStdin => shell'.stdin = shell.stdin
      BY <1>a, <2>1 DEF ShellState
    <2>4. Call(f)
      BY <2>1
    <2> HIDE DEF f, Saved, Changed
    <2>5. shell'.capture_depth =
            shell.capture_depth + One(f.kind = "redirect" /\ f.captured)
      <3>1. CASE captured
        BY <2>2, <2>3, <3>1
      <3>2. CASE ~captured
        BY <1>b, <2>2, <2>3, <3>2
      <3>3. QED
        BY <3>1, <3>2
    <2>6. Pushed(f, shell', shell)
      <3>1. SavesStdin(f) => f.stdin = shell.stdin
        BY <2>2
      <3>2. ~SavesStdin(f) => shell'.stdin = shell.stdin
        BY <2>2, <2>3
      <3>3. ~SavesSource(f) /\ f.kind = "redirect"
        BY <2>2
      <3> HIDE DEF SavesStdin, SavesSource, One
      <3>4. QED
        BY <2>3, <2>5, <3>1, <3>2, <3>3
    <2>7. QED
      BY <1>2, <2>2, <2>4, <2>6, PlainPush
      DEF CompoundWithRedirects, CompoundAdmitted
  <1>3. CASE SubshellBegins
    <2> DEFINE f == [Frame("subshell") EXCEPT !.scope = shell.scope,
                                            !.call_stack = shell.call_stack]
    <2>1. Call(f) /\ UNCHANGED shell
      BY <1>3 DEF SubshellBegins
    <2>2. f.kind = "subshell" /\ f.call_stack = shell.call_stack
      BY DEF Frame
    <2> HIDE DEF f
    <2>3. Pushed(f, shell', shell)
      BY <1>b, <2>1, <2>2
    <2>4. QED
      BY <1>3, <2>1, <2>2, <2>3, PlainPush
      DEF SubshellBegins, CompoundAdmitted
  <1>4. CASE ShellBegins
    <2> DEFINE Saved(file) == [Frame("shell") EXCEPT !.scope = shell.scope,
                                                     !.stdin = shell.stdin,
                                                     !.file = file]
    <2>1. PICK a \in Args, d \in Stdin, file \in BOOLEAN :
            /\ Call(Saved(file))
            /\ shell' = [shell EXCEPT
                            !.scope = ChildScope,
                            !.call_stack = Append(@, a),
                            !.bash_source = IF file THEN @ + 1 ELSE @,
                            !.stdin = d]
      BY <1>4 DEF ShellBegins
    <2> DEFINE f == Saved(file)
    <2>2. f.kind = "shell" /\ f.file = file /\ f.stdin = shell.stdin
      BY DEF Frame
    <2>3. /\ shell'.bash_source = IF file THEN shell.bash_source + 1
                                  ELSE shell.bash_source
          /\ shell'.in_trap = shell.in_trap
          /\ shell'.call_stack = Append(shell.call_stack, a)
          /\ shell'.capture_depth = shell.capture_depth
      BY <1>a, <2>1 DEF ShellState
    <2>4. Len(shell'.call_stack) = Len(shell.call_stack) + 1
      BY <1>b, <2>3
    <2>5. Call(f)
      BY <2>1
    <2> HIDE DEF f, Saved
    <2>6. Pushed(f, shell', shell)
      BY <1>b, <2>2, <2>3, <2>4
    <2>7. QED
      BY <1>4, <2>2, <2>5, <2>6, PlainPush DEF ShellBegins
  <1>5. CASE ScriptBegins
    <2> DEFINE f == [Frame("script") EXCEPT !.scope = shell.scope,
                                            !.call_stack = shell.call_stack,
                                            !.bash_source = shell.bash_source,
                                            !.stdin = shell.stdin]
    <2>1. PICK a \in Args, d \in Stdin :
            /\ Call(f)
            /\ shell' = [shell EXCEPT !.scope = ChildScope, !.call_stack = <<a>>,
                                      !.bash_source = 1, !.stdin = d]
      BY <1>5 DEF ScriptBegins
    <2>2. /\ f.kind = "script" /\ f.call_stack = shell.call_stack
          /\ f.bash_source = shell.bash_source /\ f.stdin = shell.stdin
      BY DEF Frame
    <2>3. /\ shell'.in_trap = shell.in_trap
          /\ shell'.capture_depth = shell.capture_depth
      BY <1>a, <2>1 DEF ShellState
    <2> HIDE DEF f
    <2>4. Pushed(f, shell', shell)
      BY <1>b, <2>2, <2>3
    <2>5. QED
      BY <1>5, <2>1, <2>2, <2>4, PlainPush DEF ScriptBegins
  <1>6. CASE TrapFires
    <2> DEFINE f == Frame("trap")
    <2>1. PICK s \in Scopes :
            shell' = [shell EXCEPT !.in_trap = TRUE, !.scope = s]
      BY <1>6 DEF TrapFires
    <2>2. Call(f) /\ ~shell.in_trap /\ f.kind = "trap"
      BY <1>6 DEF TrapFires, TrapMayFire, Frame
    <2> HIDE DEF f
    <2>3. Pushed(f, shell', shell)
      BY <1>a, <1>b, <2>1, <2>2 DEF ShellState
    <2>4. QED
      BY <1>6, <2>2, <2>3, PlainPush DEF TrapFires
  <1>7. CASE TimeoutBegins
    <2> DEFINE f == [Frame("timeout") EXCEPT !.depth = Len(shell.call_stack),
                                             !.bash_source = shell.bash_source]
    <2>1. Call(f) /\ UNCHANGED shell
      BY <1>7 DEF TimeoutBegins
    <2>2. f.kind = "timeout"
      BY DEF Frame
    <2> HIDE DEF f
    <2>3. Pushed(f, shell', shell)
      BY <1>b, <2>1, <2>2
    <2>4. QED
      BY <1>7, <2>1, <2>2, <2>3, PlainPush DEF TimeoutBegins
  <1>8. CASE PipelineBegins
    <2> DEFINE f == Frame("pipeline")
    <2>1. Call(f) /\ UNCHANGED shell /\ f.kind = "pipeline"
      BY <1>8 DEF PipelineBegins, Frame
    <2> HIDE DEF f
    <2>2. Pushed(f, shell', shell)
      BY <1>b, <2>1
    <2>3. QED
      BY <1>8, <2>1, <2>2, PlainPush DEF PipelineBegins, CompoundAdmitted, f
  <1>9. QED
    BY <1>1, <1>2, <1>3, <1>4, <1>5, <1>6, <1>7, <1>8

(* Loops: each begins with a tick and may tick again while it is on top. *)
LEMMA LoopIterateStays ==
  ASSUME TypeInv, LoopIterates
  PROVE  Stays
  <1>1. /\ mode = "run" /\ mode' \in {"run", "err"} /\ UNCHANGED <<stack, shell>>
        /\ counters' = TickLoop(counters) /\ Top.kind = "loop"
        /\ mode' = "run" => LoopAllows(TickLoop(counters))
        /\ work' = [work EXCEPT !.loops = @ + 1]
    BY DEF LoopIterates, Running
  <1>2. /\ work'.commands >= work.commands
        /\ work'.loops = work.loops + 1 /\ work'.clean = work.clean
    BY <1>1 DEF TypeInv, TypeOK, Work
  <1>3. mode' = "run" => counters'.total_loop_iterations <= MaxTotalLoopIterations
    BY <1>1 DEF LoopAllows
  <1>4. Near(shell', shell, mode' # "err")
    BY <1>1, NearReflexive
  <1>5. QED
    BY <1>1, <1>2, <1>3, <1>4, SameNest DEF Stays

LEMMA LoopSteps ==
  ASSUME TypeInv, LoopBegins \/ LoopIterates
  PROVE  Stays \/ \E f : Pushes(f)
  <1>a. /\ counters \in Counters /\ work \in Work /\ shell \in ShellState
        /\ TickCommand(counters) \in Counters
        /\ EnterLoop(TickCommand(counters)) \in Counters
        /\ work.commands \in Nat /\ work.loops \in Nat
    BY CountersType DEF TypeInv, TypeOK, Work
  <1>1. CASE LoopBegins
    <2> DEFINE f == Frame("loop")
               t == TickCommand(counters)
               e == EnterLoop(t)
               c == TickLoop(e)
    <2>1. /\ mode = "run" /\ mode' \in {"run", "err"} /\ Call(f)
          /\ counters' = c /\ UNCHANGED shell
          /\ mode' = "run" => LoopAllows(c)
          /\ work' = [work EXCEPT !.commands = @ + 1, !.loops = @ + 1]
      BY <1>1 DEF LoopBegins, CompoundAdmitted, Admitted, Running
    <2>2. f.kind = "loop"
      BY DEF Frame
    <2>3. SameDepths(t, counters)
      BY <1>a, DepthCounts
    <2>4. /\ e.function_depth = t.function_depth
          /\ e.subst_depth = t.subst_depth
          /\ e.total_loop_iterations = t.total_loop_iterations
          /\ Len(e.loop_iterations) = Len(t.loop_iterations) + 1
      BY <1>a, DepthCounts
    <2>5. /\ c.function_depth = e.function_depth
          /\ c.subst_depth = e.subst_depth
          /\ c.total_loop_iterations = e.total_loop_iterations + 1
          /\ Len(c.loop_iterations) = Larger(1, Len(e.loop_iterations))
      BY <1>a, TickLoopDepths
    <2>6. /\ counters.function_depth \in Nat /\ counters.subst_depth \in Nat
          /\ counters.total_loop_iterations \in Nat
          /\ Len(counters.loop_iterations) \in Nat
      BY <1>a, DepthFields
    <2>7. work' = [work EXCEPT !.commands = work.commands + 1,
                               !.loops = work.loops + 1]
      BY <1>a, <2>1, Zenon
    <2>8. /\ work'.commands = work.commands + 1
          /\ work'.loops = work.loops + 1 /\ work'.clean = work.clean
      BY <1>a, <2>7 DEF Work
    <2>9. mode' = "run" => c.total_loop_iterations <= MaxTotalLoopIterations
      BY <2>1 DEF LoopAllows
    <2> HIDE DEF f, t, e, c
    <2>10. /\ counters'.function_depth = counters.function_depth
           /\ counters'.subst_depth = counters.subst_depth
           /\ counters'.total_loop_iterations = counters.total_loop_iterations + 1
           /\ Len(counters'.loop_iterations) = Len(counters.loop_iterations) + 1
      BY <2>1, <2>3, <2>4, <2>5, <2>6 DEF SameDepths, Larger
    <2>11. Deeper("loop")
      BY <2>1, <2>6, <2>9, <2>10 DEF Deeper, One, Depth
    <2>12. Pushed(f, shell', shell)
      BY <1>a, <2>1, <2>2, ShellFields DEF Pushed, SavesSource, SavesStdin, One
    <2>13. /\ work'.commands = work.commands + One(f.kind # "pipe")
           /\ work'.loops = work.loops + One(f.kind = "loop")
      BY <2>2, <2>8 DEF One
    <2>14. Pushes(f)
      BY <2>1, <2>2, <2>8, <2>11, <2>12, <2>13 DEF Pushes, Resets
    <2>15. QED
      BY <2>14
  <1>2. CASE LoopIterates
    BY <1>2, LoopIterateStays
  <1>3. QED
    BY <1>1, <1>2

(* $(...), functions and source count their depth before they await. *)
LEMMA CountedPushSteps ==
  ASSUME TypeInv, CommandSubstitution \/ FunctionCall \/ Source
  PROVE  Stays \/ \E f : Pushes(f)
  <1> DEFINE c == TickCommand(counters)
  <1>a. /\ counters \in Counters /\ work \in Work /\ shell \in ShellState
        /\ c \in Counters /\ SameDepths(c, counters)
    BY CountersType, DepthCounts DEF TypeInv, TypeOK
  <1>b. /\ Len(shell.call_stack) \in Nat /\ shell.bash_source \in Nat
        /\ shell.capture_depth \in Nat /\ shell.call_stack \in Seq(Args)
        /\ shell.in_trap \in BOOLEAN
    BY <1>a, ShellFields
  <1>c. /\ Near(shell, shell, TRUE) /\ Near(shell, shell, FALSE)
    BY NearReflexive
  <1>d. /\ counters.function_depth \in Nat /\ counters.subst_depth \in Nat
        /\ counters.total_loop_iterations \in Nat
        /\ Len(counters.loop_iterations) \in Nat
    BY <1>a, DepthFields
  <1>e. ASSUME CountCommands(1)
        PROVE  /\ work'.commands = work.commands + 1
               /\ work'.commands >= work.commands
               /\ work'.loops = work.loops /\ work'.clean = work.clean
               /\ work'.loops = work.loops + 0
    BY <1>a, <1>e, CommandCounted
  <1>f. ASSUME counters' = PushFunction(c), c.function_depth < MaxFunctionDepth,
               NEW k \in Depth
        PROVE  Deeper(k)
    <2>1. /\ counters'.function_depth = c.function_depth + 1
          /\ counters'.loop_iterations = c.loop_iterations
          /\ counters'.subst_depth = c.subst_depth
          /\ counters'.total_loop_iterations = c.total_loop_iterations
      BY <1>a, <1>f, DepthCounts
    <2>2. k # "loop" /\ k # "subst"
      BY DEF Depth
    <2> HIDE DEF c
    <2>3. QED
      BY <1>a, <1>d, <1>f, <2>1, <2>2 DEF Deeper, One, SameDepths
  <1>1. CASE CommandSubstitution
    <2> DEFINE f == [Frame("subst") EXCEPT !.scope = shell.scope]
    <2>1. mode = "run" /\ UNCHANGED shell /\ CountCommands(1)
      BY <1>1 DEF CommandSubstitution, Admitted, Running
    <2>2. f.kind = "subst"
      BY DEF Frame
    <2>3. CASE c.subst_depth < MaxSubstDepth
      <3>1. Call(f) /\ counters' = PushSubst(c) /\ mode' = mode
        BY <1>1, <2>3 DEF CommandSubstitution
      <3>2. /\ counters'.subst_depth = c.subst_depth + 1
            /\ counters'.loop_iterations = c.loop_iterations
            /\ counters'.function_depth = c.function_depth
            /\ counters'.total_loop_iterations = c.total_loop_iterations
        BY <1>a, <3>1, DepthCounts
      <3> HIDE DEF c, f
      <3>3. Deeper("subst")
        BY <1>a, <1>d, <3>2 DEF Deeper, One, SameDepths, Depth
      <3>4. Pushed(f, shell', shell)
        BY <1>b, <2>1, <2>2 DEF Pushed, SavesSource, SavesStdin, One
      <3>5. /\ work'.commands = work.commands + One(f.kind # "pipe")
            /\ work'.loops = work.loops + One(f.kind = "loop")
        BY <1>e, <2>1, <2>2 DEF One
      <3>6. Pushes(f)
        BY <1>e, <2>1, <2>2, <3>1, <3>3, <3>4, <3>5 DEF Pushes, Resets
      <3>7. QED
        BY <3>6
    <2>4. CASE ~(c.subst_depth < MaxSubstDepth)
      <3>1. counters' = c /\ mode' \in {"run", "err"} /\ UNCHANGED stack
        BY <1>1, <2>1, <2>4 DEF CommandSubstitution
      <3>2. Near(shell', shell, mode' # "err")
        BY <2>1, NearReflexive
      <3>3. QED
        BY <1>a, <1>e, <2>1, <3>1, <3>2, QuietStep
    <2>5. QED
      BY <2>3, <2>4
  <1>2. CASE FunctionCall
    <2> DEFINE f == [Frame("function") EXCEPT !.stdin = shell.stdin]
    <2>1. mode = "run" /\ CountCommands(1)
      BY <1>2 DEF FunctionCall, Admitted, Running
    <2>2. f.kind = "function" /\ f.stdin = shell.stdin
      BY DEF Frame
    <2>3. CASE c.function_depth < MaxFunctionDepth
      <3>1. /\ Call(f) /\ counters' = PushFunction(c) /\ mode' = mode
            /\ \E a \in Args, d \in Stdin :
                 shell' = [shell EXCEPT !.call_stack = Append(@, a),
                                        !.bash_source = @ + 1,
                                        !.stdin = d]
        BY <1>2, <2>3 DEF FunctionCall
      <3>2. PICK a \in Args, d \in Stdin :
              shell' = [shell EXCEPT !.call_stack = Append(@, a),
                                     !.bash_source = @ + 1,
                                     !.stdin = d]
        BY <3>1
      <3>3. Deeper("function")
        BY <1>f, <2>3, <3>1 DEF Depth
      <3>4. /\ shell'.call_stack = Append(shell.call_stack, a)
            /\ shell'.bash_source = shell.bash_source + 1
            /\ shell'.in_trap = shell.in_trap
            /\ shell'.capture_depth = shell.capture_depth
        BY <1>a, <3>2 DEF ShellState
      <3>5. Len(shell'.call_stack) = Len(shell.call_stack) + 1
        BY <1>b, <3>4
      <3> HIDE DEF c, f
      <3>6. Pushed(f, shell', shell)
        BY <1>b, <2>2, <3>4, <3>5 DEF Pushed, SavesSource, SavesStdin, One
      <3>7. /\ work'.commands = work.commands + One(f.kind # "pipe")
            /\ work'.loops = work.loops + One(f.kind = "loop")
        BY <1>e, <2>1, <2>2 DEF One
      <3>8. Pushes(f)
        BY <1>e, <2>1, <2>2, <3>1, <3>3, <3>6, <3>7 DEF Pushes, Resets
      <3>9. QED
        BY <3>8
    <2>4. CASE ~(c.function_depth < MaxFunctionDepth)
      <3>1. counters' = c /\ mode' = "err" /\ UNCHANGED <<stack, shell>>
        BY <1>2, <2>4 DEF FunctionCall
      <3>2. Near(shell', shell, mode' # "err")
        BY <3>1, NearReflexive
      <3>3. QED
        BY <1>a, <1>e, <2>1, <3>1, <3>2, QuietStep
    <2>5. QED
      BY <2>3, <2>4
  <1>3. CASE Source
    <2> DEFINE n == Len(shell.call_stack)
               How(with_args) == IF ~with_args THEN "none"
                                 ELSE IF n = 0 THEN "pushed" ELSE "replaced"
               Calls(how, a) == CASE how = "none" -> shell.call_stack
                                  [] how = "pushed" -> <<a>>
                                  [] OTHER -> [shell.call_stack EXCEPT ![n] = a]
               Saved(how) == [Frame("source") EXCEPT
                                !.args = how,
                                !.call_stack = IF how = "replaced"
                                                 THEN <<shell.call_stack[n]>>
                                                 ELSE <<>>]
               Replaced(how, a) == [shell EXCEPT !.call_stack = Calls(how, a)]
    <2>1. mode = "run" /\ CountCommands(1)
      BY <1>3 DEF Source, Admitted, Running
    <2>2. PICK with_args \in BOOLEAN, a \in Args :
            \/ /\ c.function_depth < MaxFunctionDepth
               /\ Call(Saved(How(with_args))) /\ counters' = PushFunction(c)
               /\ shell' = [Replaced(How(with_args), a) EXCEPT !.bash_source = @ + 1]
               /\ mode' = mode
            \/ /\ counters' = c /\ mode' = "err" /\ UNCHANGED stack
               /\ shell' = Replaced(How(with_args), a)
      BY <1>3, Zenon DEF Source
    <2> DEFINE how == How(with_args)
               f == Saved(how)
               r == Replaced(how, a)
    <2>3. how \in {"none", "pushed", "replaced"} /\ (how = "pushed" <=> with_args /\ n = 0)
      OBVIOUS
    <2>4. /\ f.kind = "source" /\ f.args = how
      BY DEF Frame
    <2>5. /\ Calls(how, a) \in Seq(Args)
          /\ IF how = "pushed" THEN n = 0 /\ Len(Calls(how, a)) = 1
             ELSE Len(Calls(how, a)) = n
      <3>1. CASE how = "none"
        BY <1>b, <3>1
      <3>2. CASE how = "pushed"
        BY <1>b, <2>3, <3>2
      <3>3. CASE how = "replaced"
        <4>1. Calls(how, a) = [shell.call_stack EXCEPT ![n] = a]
          BY <3>3
        <4>2. n \in 1 .. n
          BY <1>b, <3>3
        <4>3. /\ [shell.call_stack EXCEPT ![n] = a] \in Seq(Args)
              /\ Len([shell.call_stack EXCEPT ![n] = a]) = n
          BY <1>b, <4>2
        <4>4. QED
          BY <3>3, <4>1, <4>3
      <3>4. QED
        BY <2>3, <3>1, <3>2, <3>3
    <2>6. /\ r.call_stack = Calls(how, a) /\ r.bash_source = shell.bash_source
          /\ r.in_trap = shell.in_trap /\ r.capture_depth = shell.capture_depth
          /\ r.stdin = shell.stdin /\ r.callback = shell.callback
          /\ r \in ShellState
      <3> HIDE DEF how, Calls
      <3>1. QED
        BY <1>a, <2>5 DEF ShellState
    <2>7. \/ /\ c.function_depth < MaxFunctionDepth
             /\ Call(f) /\ counters' = PushFunction(c)
             /\ shell' = [r EXCEPT !.bash_source = @ + 1]
             /\ mode' = mode
          \/ /\ counters' = c /\ mode' = "err" /\ UNCHANGED stack
             /\ shell' = r
      BY <2>2
    <2> HIDE DEF f, r, how, Saved, Replaced, How, Calls
    <2>8. CASE /\ c.function_depth < MaxFunctionDepth
               /\ Call(f) /\ counters' = PushFunction(c)
               /\ shell' = [r EXCEPT !.bash_source = @ + 1]
               /\ mode' = mode
      <3>1. Deeper("source")
        BY <1>f, <2>8 DEF Depth
      <3>2. /\ shell'.call_stack = r.call_stack
            /\ shell'.bash_source = r.bash_source + 1
            /\ shell'.in_trap = r.in_trap
            /\ shell'.capture_depth = r.capture_depth
            /\ shell'.stdin = r.stdin
        BY <2>6, <2>8 DEF ShellState
      <3>3. Pushed(f, shell', shell)
        BY <1>b, <2>4, <2>5, <2>6, <3>2
        DEF Pushed, SavesSource, SavesStdin, One
      <3>4. /\ work'.commands = work.commands + One(f.kind # "pipe")
            /\ work'.loops = work.loops + One(f.kind = "loop")
        BY <1>e, <2>1, <2>4 DEF One
      <3>5. Pushes(f)
        BY <1>e, <2>1, <2>4, <2>8, <3>1, <3>3, <3>4 DEF Pushes, Resets
      <3>6. QED
        BY <3>5
    <2>9. CASE /\ counters' = c /\ mode' = "err" /\ UNCHANGED stack
               /\ shell' = r
      <3>1. Near(shell', shell, FALSE)
        BY <2>5, <2>6, <2>9 DEF Near
      <3>2. Near(shell', shell, mode' # "err")
        BY <2>9, <3>1
      <3>3. shell'.callback = shell.callback
        BY <2>6, <2>9
      <3>4. QED
        BY <1>a, <1>e, <2>1, <2>9, <3>2, <3>3, QuietStep
    <2>10. QED
      BY <2>7, <2>8, <2>9
  <1>4. QED
    BY <1>1, <1>2, <1>3

(* eval and an expanded alias start from fresh counters, admitted or not. *)
LEMMA ResetSteps ==
  ASSUME TypeInv, NEW k \in Resets, EvalOrAlias(k)
  PROVE  Stays \/ \E f : Pushes(f)
  <1> DEFINE t == TickCommand(counters)
             c == StartExecute(t)
             f == [Frame(k) EXCEPT !.stdin = shell.stdin]
  <1>a. /\ counters \in Counters /\ work \in Work /\ shell \in ShellState
        /\ t \in Counters
    BY CountersType DEF TypeInv, TypeOK
  <1>b. mode = "run" /\ CountCommands(1)
    BY DEF EvalOrAlias, Admitted, Running
  <1>c. /\ work'.commands = work.commands + 1
        /\ work'.commands >= work.commands
        /\ work'.loops = work.loops /\ work'.clean = work.clean
        /\ work'.loops = work.loops + 0
    BY <1>a, <1>b, CommandCounted
  <1>d. Fresh(c)
    BY <1>a, DepthCounts
  <1>e. f.kind = k /\ f.stdin = shell.stdin /\ k \in {"eval", "alias"}
    BY DEF Frame, Resets
  <1>1. PICK d \in Stdin :
          \/ /\ Call(f) /\ counters' = c /\ mode' = mode
             /\ shell' = [shell EXCEPT !.stdin = d]
          \/ /\ k \in Features /\ counters' = c /\ mode' = "err"
             /\ shell' = [shell EXCEPT !.stdin = IF k = "eval" THEN d ELSE @]
             /\ UNCHANGED stack
    BY Zenon DEF EvalOrAlias
  <1> HIDE DEF c, f
  <1>2. CASE /\ Call(f) /\ counters' = c /\ mode' = mode
             /\ shell' = [shell EXCEPT !.stdin = d]
    <2>1. /\ shell'.call_stack = shell.call_stack
          /\ shell'.bash_source = shell.bash_source
          /\ shell'.in_trap = shell.in_trap
          /\ shell'.capture_depth = shell.capture_depth
          /\ shell.capture_depth \in Nat
      BY <1>a, <1>2 DEF ShellState
    <2>2. Pushed(f, shell', shell)
      BY <1>e, <2>1 DEF Pushed, SavesSource, SavesStdin, One
    <2>3. /\ work'.commands = work.commands + One(f.kind # "pipe")
          /\ work'.loops = work.loops + One(f.kind = "loop")
      BY <1>c, <1>e DEF One
    <2>4. Pushes(f)
      BY <1>b, <1>c, <1>d, <1>e, <1>2, <2>2, <2>3 DEF Pushes, Resets
    <2>5. QED
      BY <2>4
  <1>3. CASE /\ k \in Features /\ counters' = c /\ mode' = "err"
             /\ shell' = [shell EXCEPT !.stdin = IF k = "eval" THEN d ELSE @]
             /\ UNCHANGED stack
    <2>1. /\ shell'.call_stack = shell.call_stack
          /\ shell'.bash_source = shell.bash_source
          /\ shell'.in_trap = shell.in_trap
          /\ shell'.callback = shell.callback
      BY <1>a, <1>3 DEF ShellState
    <2>2. Near(shell', shell, FALSE)
      BY <2>1 DEF Near
    <2>3. Near(shell', shell, mode' # "err")
      BY <1>3, <2>2
    <2>4. Features \cap Resets # {}
      BY <1>3
    <2>5. QED
      BY <1>b, <1>c, <1>d, <1>3, <2>1, <2>3, <2>4, SameNest DEF Stays
  <1>4. QED
    BY <1>1, <1>2, <1>3

LEMMA ExitTrapStep ==
  ASSUME TypeInv, ExitTrapBegins
  PROVE  Stays
  <1>1. /\ mode = "run" /\ mode' = "run" /\ UNCHANGED <<shell, counters, work>>
        /\ stack' = [stack EXCEPT ![Len(stack)].exit_trap = TRUE]
    BY DEF ExitTrapBegins, Running
  <1>2. stack \in Seq(Frames) /\ Len(stack) \in DOMAIN stack /\ work \in Work
    BY <1>1, TopType DEF TypeInv, TypeOK
  <1>3. /\ Len(stack') = Len(stack)
        /\ \A i \in 1 .. Len(stack) : SameCall(stack'[i], stack[i])
    <2> DEFINE n == Len(stack)
               f == [stack[n] EXCEPT !.exit_trap = TRUE]
    <2>1. stack' = [stack EXCEPT ![n] = f]
      BY <1>1
    <2>2. SameCall(f, stack[n])
      BY DEF SameCall
    <2>3. n \in 1 .. n /\ stack \in Seq(Frames)
      BY <1>2
    <2> HIDE DEF f
    <2>4. /\ DOMAIN stack' = 1 .. n
          /\ \A i \in 1 .. n : stack'[i] = IF i = n THEN f ELSE stack[i]
      BY <2>1, <2>3
    <2>5. Len(stack') = n
      BY <2>1, <2>3
    <2>6. \A i \in 1 .. n : SameCall(stack'[i], stack[i])
      BY <2>2, <2>4 DEF SameCall
    <2>7. QED
      BY <2>5, <2>6
  <1>4. SameDepths(counters', counters) /\ Near(shell', shell, mode' # "err")
    BY <1>1, NearReflexive DEF SameDepths
  <1>5. work'.commands >= work.commands
    BY <1>1, <1>2 DEF Work
  <1>6. QED
    BY <1>1, <1>3, <1>4, <1>5 DEF Stays

Idles == UNCHANGED <<mode, stack, shell, counters, work>>

LEMMA NestStep ==
  ASSUME TypeInv, [Next]_vars
  PROVE  \/ Idles \/ Stays \/ (\E f : Pushes(f)) \/ Returned \/ ErrorPropagates
         \/ (\E i \in DOMAIN stack : TimeoutElapses(i))
         \/ Exec \/ ExecRejected \/ ExecTimesOut
  <1>1. ASSUME NEW k \in Resets, EvalOrAlias(k)
        PROVE  Stays \/ \E f : Pushes(f)
    BY <1>1, ResetSteps
  <1>2. SetToken \/ UNCHANGED vars => Idles
    BY DEF SetToken, vars, Idles
  <1>3. "eval" \in Resets /\ "alias" \in Resets
    BY DEF Resets
  <1>4. QED
    BY <1>1, <1>2, <1>3, SimpleSteps, PlainPushSteps, LoopSteps,
       CountedPushSteps, ExitTrapStep, Zenon DEF Next, Engine

-----------------------------------------------------------------------------
(* How each kind of step changes the number of live frames of a kind. *)

LEMMA LiveType ==
  ASSUME TypeInv, NEW kinds
  PROVE  Live(kinds) \in Nat /\ Live(kinds) = Count(stack, kinds)
  <1>1. Live(kinds) = Count(stack, kinds)
    BY DEF Live, Count
  <1>2. QED
    BY <1>1, CountType DEF TypeInv, TypeOK

LEMMA LiveTypeNext ==
  ASSUME TypeInv', NEW kinds
  PROVE  Live(kinds)' \in Nat
  <1>1. stack' \in Seq(Frames)
    BY DEF TypeInv, TypeOK
  <1>2. Count(stack', kinds) \in Nat
    BY <1>1, CountType
  <1>3. QED
    BY <1>2 DEF Live, Count

LEMMA LiveNone ==
  ASSUME stack = <<>>, NEW kinds
  PROVE  Live(kinds) = 0
  BY CountEmpty DEF Live, Count

LEMMA LivePush ==
  ASSUME TypeInv, TypeInv', NEW f, Call(f), NEW kinds
  PROVE  Live(kinds)' = Live(kinds) + One(f.kind \in kinds)
  <1>1. stack \in Seq(Frames) /\ stack' \in Seq(Frames)
    BY DEF TypeInv, TypeOK
  <1>2. /\ Len(stack') = Len(stack) + 1 /\ stack'[Len(stack) + 1] = f
        /\ \A i \in 1 .. Len(stack) : stack'[i] = stack[i]
    BY <1>1, CallGrows
  <1>3. Count(stack', kinds) = Count(stack, kinds) + One(f.kind \in kinds)
    BY <1>1, <1>2, CountAppend
  <1>4. QED
    BY <1>3 DEF Live, Count

LEMMA SameCallFields ==
  ASSUME NEW g \in Frames, NEW f, SameCall(f, g)
  PROVE  f.kind = g.kind
  BY DEF SameCall, Frames

LEMMA LiveStay ==
  ASSUME TypeInv, TypeInv', Stays, NEW kinds
  PROVE  Live(kinds)' = Live(kinds)
  <1>1. stack \in Seq(Frames) /\ stack' \in Seq(Frames)
    BY DEF TypeInv, TypeOK
  <1>2. /\ Len(stack') = Len(stack)
        /\ \A i \in 1 .. Len(stack) : stack'[i].kind = stack[i].kind
    BY <1>1, SameCallFields DEF Stays
  <1>3. Count(stack', kinds) = Count(stack, kinds)
    BY <1>1, <1>2, CountSame
  <1>4. QED
    BY <1>3 DEF Live, Count

LEMMA LivePop ==
  ASSUME TypeInv, mode # "idle", stack' = ButLast(stack), NEW kinds
  PROVE  Live(kinds)' = Live(kinds) - One(Top.kind \in kinds)
  <1>1. stack \in Seq(Frames) /\ stack # <<>>
    BY TopType DEF TypeInv, TypeOK
  <1>2. Count(stack', kinds) =
          Count(stack, kinds) - One(stack[Len(stack)].kind \in kinds)
    BY <1>1, CountPop
  <1>3. QED
    BY <1>2 DEF Live, Count, Top

LEMMA LiveDrop ==
  ASSUME TypeInv, NEW i \in DOMAIN stack, stack' = SubSeq(stack, 1, i - 1),
         NEW kinds
  PROVE  Live(kinds)' <= Live(kinds)
  <1>1. stack \in Seq(Frames) /\ i - 1 \in 0 .. Len(stack)
    BY DEF TypeInv, TypeOK
  <1>2. Count(SubSeq(stack, 1, i - 1), kinds) <= Count(stack, kinds)
    BY <1>1, CountPrefix
  <1>3. QED
    BY <1>2 DEF Live, Count

(* The frame on top is counted. *)
LEMMA LiveTop ==
  ASSUME TypeInv, mode # "idle", NEW kinds, Top.kind \in kinds
  PROVE  Live(kinds) >= 1
  <1>1. /\ stack \in Seq(Frames) /\ Len(stack) \in DOMAIN stack
        /\ stack[Len(stack)].kind \in kinds
    BY TopType DEF TypeInv, TypeOK, Top
  <1>2. Count(stack, kinds) >= 1
    BY <1>1, CountPositive
  <1>3. QED
    BY <1>2 DEF Live, Count

-----------------------------------------------------------------------------
(* The command limits.  Traps swallow errors, so one limit can be overrun   *)
(* again and again; what stops it is that a swallowed error ends a call:    *)
(* each open call gives up its one extra command when it is left.  The call *)
(* of a compound stage is not counted: an Err that leaves it leaves its     *)
(* pipeline too.  The session limit is not asked for the stages of the      *)
(* pipelines that are open, so each of them may still run as many commands  *)
(* as an execute allows.                                                    *)

Within(c, n) == c.commands <= MaxCommands + n

Counted == Kinds \ {"pipe"}

CommandsInv ==
  /\ Len(stack) <= MaxStack
  /\ Within(counters, MaxStack - Live(Counted) + (IF mode = "err" THEN 2 ELSE 1))

(* The pipelines that may still begin a stage, and what they may still run. *)
AheadOf(m, s) == Count(IF m = "err" THEN ButLast(s) ELSE s, {"pipeline"})
Ahead == AheadOf(mode, stack)
Room(p) == (MaxStack - p) * MostOfAnExecute

SessionInv ==
  counters.session_commands
    <= MaxSessionCommands + Room(Ahead)
         + (IF mode = "idle" THEN MostOfAnExecute ELSE counters.commands)

OverrunInv == CommandsInv /\ SessionInv

LEMMA RoomFacts ==
  /\ MostOfAnExecute \in Nat /\ MaxCommands <= MostOfAnExecute
  /\ \A p \in 0 .. MaxStack : Room(p) \in Nat
  /\ \A p \in 0 .. MaxStack, q \in 0 .. MaxStack : p <= q => Room(q) <= Room(p)
  /\ \A p \in 0 .. MaxStack, q \in 0 .. MaxStack :
       p = q - 1 => Room(p) = Room(q) + MostOfAnExecute
  <1>1. /\ MostOfAnExecute \in Nat /\ MaxCommands <= MostOfAnExecute
        /\ MaxStack \in Nat
    BY LimitAssumption DEF MostOfAnExecute
  <1>2. ASSUME NEW k \in Nat, NEW m \in Nat, NEW n \in Nat, m <= n
        PROVE  m * k \in Nat /\ n * k \in Nat /\ m * k <= n * k
    <2>1. n * k = m * k + (n - m) * k
      BY <1>2
    <2>2. m * k \in Nat /\ n * k \in Nat /\ (n - m) * k \in Nat
      BY <1>2
    <2>3. QED
      BY <2>1, <2>2
  <1>3. ASSUME NEW k \in Nat, NEW m \in Nat
        PROVE  (m + 1) * k = m * k + k
    BY <1>3
  <1>4. \A p \in 0 .. MaxStack : Room(p) \in Nat
    BY <1>1, <1>2 DEF Room
  <1>5. ASSUME NEW p \in 0 .. MaxStack, NEW q \in 0 .. MaxStack, p <= q
        PROVE  Room(q) <= Room(p)
    <2>1. MaxStack - q \in Nat /\ MaxStack - p \in Nat /\ MaxStack - q <= MaxStack - p
      BY <1>1, <1>5
    <2>2. QED
      BY <1>1, <1>2, <2>1 DEF Room
  <1>6. ASSUME NEW p \in 0 .. MaxStack, NEW q \in 0 .. MaxStack, p = q - 1
        PROVE  Room(p) = Room(q) + MostOfAnExecute
    <2> DEFINE m == MaxStack - q
    <2>1. m \in Nat /\ MaxStack - p = m + 1
      BY <1>1, <1>6
    <2> HIDE DEF m
    <2>2. (m + 1) * MostOfAnExecute = m * MostOfAnExecute + MostOfAnExecute
      BY <1>1, <1>3, <2>1
    <2>3. QED
      BY <2>1, <2>2 DEF Room, m
  <1>7. QED
    BY <1>1, <1>4, <1>5, <1>6

LEMMA CountWithinLength ==
  ASSUME NEW s \in Seq(Frames), NEW kinds
  PROVE  Count(s, kinds) \in 0 .. Len(s)
  <1> DEFINE S == {i \in DOMAIN s : s[i].kind \in kinds}
  <1> DEFINE n == Len(s)
  <1>1. n \in Nat /\ S \subseteq 1 .. n
    OBVIOUS
  <1> HIDE DEF n, S
  <1>a. IsFiniteSet(1 .. n) /\ Cardinality(1 .. n) = n
    BY <1>1, FS_Interval
  <1>2. Cardinality(S) <= n
    <2> DEFINE I == 1 .. n
    <2>1. IsFiniteSet(I) /\ Cardinality(I) = n /\ S \subseteq I
      BY <1>1, <1>a
    <2> HIDE DEF I
    <2>2. Cardinality(S) <= Cardinality(I)
      BY <2>1, FS_Subset
    <2>3. QED
      BY <2>1, <2>2
  <1>3. Count(s, kinds) = Cardinality(S) /\ Count(s, kinds) \in Nat
    BY CountType DEF Count, S
  <1>4. Count(s, kinds) \in 0 .. n
    BY <1>1, <1>2, <1>3
  <1>5. QED
    BY <1>4 DEF n

LEMMA AheadOfType ==
  ASSUME NEW m, NEW s \in Seq(Frames), m = "err" => s # <<>>
  PROVE  /\ AheadOf(m, s) \in 0 .. Len(s)
         /\ AheadOf(m, s) <= Count(s, {"pipeline"})
         /\ m # "err" => AheadOf(m, s) = Count(s, {"pipeline"})
         /\ m = "err" => AheadOf(m, s) = Count(s, {"pipeline"})
                            - One(s[Len(s)].kind \in {"pipeline"})
  <1>1. Count(s, {"pipeline"}) \in 0 .. Len(s)
    BY CountWithinLength
  <1>2. CASE m # "err"
    <2>1. AheadOf(m, s) = Count(s, {"pipeline"})
      BY <1>2 DEF AheadOf
    <2>2. QED
      BY <1>1, <1>2, <2>1
  <1>3. CASE m = "err"
    <2>1. /\ Len(ButLast(s)) = Len(s) - 1
          /\ ButLast(s) \in Seq(Frames) /\ Len(s) \in Nat
      BY <1>3, ButLastProperties
    <2>2. AheadOf(m, s) = Count(ButLast(s), {"pipeline"})
      BY <1>3 DEF AheadOf
    <2>3. AheadOf(m, s) \in 0 .. Len(s) - 1
      BY <2>1, <2>2, CountWithinLength
    <2>4. AheadOf(m, s)
            = Count(s, {"pipeline"}) - One(s[Len(s)].kind \in {"pipeline"})
      BY <1>3, <2>2, CountPop
    <2>5. One(s[Len(s)].kind \in {"pipeline"}) \in Nat
      BY DEF One
    <2>6. QED
      BY <1>1, <1>3, <2>1, <2>3, <2>4, <2>5
  <1>4. QED
    BY <1>2, <1>3

LEMMA AheadType ==
  ASSUME TypeInv
  PROVE  /\ Ahead \in 0 .. Len(stack) /\ Len(stack) \in Nat
         /\ mode # "err" => Ahead = Live({"pipeline"})
         /\ mode = "err" =>
              Ahead = Live({"pipeline"}) - One(Top.kind \in {"pipeline"})
  <1>1. /\ stack \in Seq(Frames) /\ (mode = "err" => stack # <<>>)
        /\ Live({"pipeline"}) = Count(stack, {"pipeline"})
    BY LiveType DEF TypeInv, TypeOK
  <1>2. QED
    BY <1>1, AheadOfType DEF Ahead, Top

LEMMA AheadTypeNext ==
  ASSUME TypeInv'
  PROVE  /\ Ahead' \in 0 .. Len(stack') /\ Len(stack') \in Nat
         /\ Ahead' <= Live({"pipeline"})'
  <1>1. /\ stack' \in Seq(Frames) /\ (mode' = "err" => stack' # <<>>)
        /\ Live({"pipeline"})' = Count(stack', {"pipeline"})
    BY DEF TypeInv, TypeOK, Live, Count
  <1>2. Ahead' = AheadOf(mode', stack')
    BY DEF Ahead
  <1>3. QED
    BY <1>1, <1>2, AheadOfType

(* A session below its limit has the room of all its pipelines. *)
LEMMA SessionWithin ==
  ASSUME TypeInv', Len(stack') <= MaxStack,
         counters'.session_commands <= MaxSessionCommands
  PROVE  SessionInv'
  <1>1. Ahead' \in 0 .. MaxStack
    BY AheadTypeNext, LimitAssumption
  <1>2. Room(Ahead') \in Nat /\ MostOfAnExecute \in Nat
    BY <1>1, RoomFacts
  <1>3. /\ counters'.commands \in Nat /\ counters'.session_commands \in Nat
        /\ MaxSessionCommands \in Nat
    BY LimitAssumption DEF TypeInv, TypeOK, Counters
  <1>4. /\ counters'.session_commands
             <= MaxSessionCommands + Room(Ahead') + MostOfAnExecute
        /\ counters'.session_commands
             <= MaxSessionCommands + Room(Ahead') + counters'.commands
    BY <1>2, <1>3
  <1>5. QED
    BY <1>4 DEF SessionInv, Room, MostOfAnExecute

(* A command is counted in both counters. *)
LEMMA SessionKept ==
  ASSUME TypeInv, TypeInv', SessionInv, mode # "idle", mode' # "idle",
         Len(stack) <= MaxStack, Len(stack') <= MaxStack, Ahead' <= Ahead,
         NEW n \in Nat,
         counters'.commands = counters.commands + n,
         counters'.session_commands = counters.session_commands + n
  PROVE  SessionInv'
  <1>1. Ahead \in 0 .. MaxStack /\ Ahead' \in 0 .. MaxStack
    BY AheadType, AheadTypeNext, LimitAssumption
  <1>2. Room(Ahead) \in Nat /\ Room(Ahead') \in Nat /\ Room(Ahead) <= Room(Ahead')
    BY <1>1, RoomFacts
  <1>3. /\ counters.commands \in Nat /\ counters.session_commands \in Nat
        /\ MaxSessionCommands \in Nat
    BY LimitAssumption DEF TypeInv, TypeOK, Counters
  <1>4. counters.session_commands
          <= MaxSessionCommands + Room(Ahead) + counters.commands
    BY DEF SessionInv
  <1>5. counters'.session_commands
          <= MaxSessionCommands + Room(Ahead') + counters'.commands
    BY <1>2, <1>3, <1>4
  <1>6. QED
    BY <1>5 DEF SessionInv, Room, MostOfAnExecute

-----------------------------------------------------------------------------
(* The steps of the interpreter, seen from the command counters. *)

(* A command that a limit refuses. *)
Refuses ==
  /\ mode = "run" /\ mode' = "err" /\ UNCHANGED stack
  /\ counters' = TickCommand(counters)

(* A command that is admitted, and the call it may open. *)
Admits ==
  /\ Admitted /\ mode = "run" /\ mode' \in {"run", "err"}
  /\ SameCommands(counters', TickCommand(counters))
  /\ \/ UNCHANGED stack
     \/ \E f : Call(f) /\ f.kind \in Counted /\ (AtStage => f.kind # "pipeline")

(* A nested execute: begun, or refused by the session. *)
Restarts ==
  /\ Admitted /\ mode = "run"
  /\ counters'.commands = 0
  /\ counters'.session_commands = counters.session_commands + 1
  /\ \/ /\ mode' = "run" /\ counters'.session_commands <= MaxSessionCommands
        /\ \E f : Call(f) /\ f.kind \in Resets
     \/ mode' = "err" /\ UNCHANGED stack

(* Nothing is counted and no call is left. *)
Waits ==
  /\ mode = "run" /\ mode' \in {"run", "err"}
  /\ SameCommands(counters', counters)
  /\ Stays \/ (\E f : Call(f) /\ f.kind = "pipe")

(* Calls end: only a call that is counted can stop an Err. *)
Ends ==
  /\ mode # "idle"
  /\ SameCommands(counters', counters)
  /\ \/ /\ stack' = ButLast(stack)
        /\ mode' = "err" => mode = "err"
        /\ mode = "err" /\ mode' # "err" => Top.kind \in Counted
     \/ /\ mode = "run" /\ mode' \in {"idle", "run"}
        /\ \E n \in 0 .. Len(stack) : stack' = SubSeq(stack, 1, n)

LEMMA CommandSteps ==
  ASSUME TypeInv, [Next]_vars
  PROVE  \/ UNCHANGED <<mode, stack, counters>>
         \/ Refuses \/ Admits \/ Restarts \/ Waits \/ Ends \/ Exec
  <1> DEFINE c == TickCommand(counters)
  <1>a. /\ counters \in Counters /\ c \in Counters /\ stack \in Seq(Frames)
        /\ Len(stack) \in Nat
    BY CountersType DEF TypeInv, TypeOK
  <1>b. SameCommands(counters, counters) /\ SameCommands(c, c)
    BY DEF SameCommands
  <1>c. ASSUME Admitted, mode' \in {mode, "err"}, SameCommands(counters', c),
               UNCHANGED stack
        PROVE  Admits
    BY <1>c DEF Admits, Admitted, Running
  <1>d. ASSUME Admitted, mode' \in {mode, "err"}, SameCommands(counters', c),
               NEW f, Call(f), f.kind \in Counted, AtStage => f.kind # "pipeline"
        PROVE  Admits
    BY <1>d DEF Admits, Admitted, Running
  <1>1. CASE CommandCancelled
    <2>1. /\ mode = "run" /\ mode' = "err"
          /\ UNCHANGED <<stack, shell, counters, work>>
      BY <1>1 DEF CommandCancelled, Running
    <2>2. Stays
      BY <1>1, SimpleSteps
    <2>3. QED
      BY <1>b, <2>1, <2>2 DEF Waits
  <1>2. CASE CommandRefused
    BY <1>2 DEF CommandRefused, Running, Refuses
  <1>3. CASE SimpleCommand
    BY <1>3, <1>b, <1>c DEF SimpleCommand
  <1>4. CASE PipelineBegins
    <2>1. ~AtStage /\ Admitted /\ Call(Frame("pipeline")) /\ mode' = mode
          /\ counters' = c
      BY <1>4 DEF PipelineBegins, CompoundAdmitted
    <2>2. Frame("pipeline").kind \in Counted
      BY DEF Frame, Counted, Kinds
    <2> HIDE DEF c
    <2>3. QED
      BY <1>b, <1>d, <2>1, <2>2
  <1>5. CASE CompoundPipelineStage
    <2> DEFINE f == [Frame("pipe") EXCEPT !.stdin = shell.stdin,
                                        !.depth = counters.session_commands]
    <2>1. mode = "run" /\ UNCHANGED <<mode, counters>> /\ Call(f)
      BY <1>5 DEF CompoundPipelineStage, Running
    <2>2. f.kind = "pipe"
      BY DEF Frame
    <2> HIDE DEF f
    <2>3. QED
      BY <1>b, <2>1, <2>2 DEF Waits
  <1>6. CASE CompoundWithRedirects
    <2> DEFINE Saved(d, output, captured) ==
                 [Frame("redirect") EXCEPT
                    !.input = (d # NoStdin),
                    !.stdin = IF d # NoStdin THEN shell.stdin ELSE NoStdin,
                    !.callback = output /\ shell.callback,
                    !.captured = captured]
    <2>1. PICK d \in Stdin, output \in BOOLEAN, captured \in BOOLEAN :
            Call(Saved(d, output, captured))
      BY <1>6 DEF CompoundWithRedirects
    <2>2. Saved(d, output, captured).kind \in Counted \ {"pipeline"}
      BY DEF Frame, Counted, Kinds
    <2> HIDE DEF Saved
    <2>3. Admitted /\ mode' = mode /\ counters' = c
      BY <1>6 DEF CompoundWithRedirects, CompoundAdmitted
    <2>4. QED
      BY <1>b, <1>d, <2>1, <2>2, <2>3
  <1>7. CASE LoopBegins
    <2>1. Admitted /\ mode = "run" /\ mode' \in {"run", "err"} /\ Call(Frame("loop"))
          /\ counters' = TickLoop(EnterLoop(c))
      BY <1>7 DEF LoopBegins, CompoundAdmitted, Admitted, Running
    <2>2. SameCommands(counters', c)
      BY <1>a, <2>1, CommandCounts, CountersType DEF SameCommands
    <2>3. Frame("loop").kind \in Counted \ {"pipeline"}
      BY DEF Frame, Counted, Kinds
    <2> HIDE DEF c
    <2>4. QED
      BY <1>d, <2>1, <2>2, <2>3
  <1>8. CASE LoopIterates
    <2>1. /\ mode = "run" /\ mode' \in {"run", "err"} /\ UNCHANGED <<stack, shell>>
          /\ counters' = TickLoop(counters)
      BY <1>8 DEF LoopIterates, Running
    <2>2. SameCommands(counters', counters)
      BY <1>a, <2>1, CommandCounts
    <2>3. QED
      BY <1>8, <2>1, <2>2, LoopIterateStays DEF Waits
  <1>9. CASE SubshellBegins
    <2> DEFINE f == [Frame("subshell") EXCEPT !.scope = shell.scope,
                                            !.call_stack = shell.call_stack]
    <2>1. Admitted /\ mode' = mode /\ counters' = c /\ Call(f)
      BY <1>9 DEF SubshellBegins, CompoundAdmitted
    <2>2. f.kind \in Counted \ {"pipeline"}
      BY DEF Frame, Counted, Kinds
    <2> HIDE DEF f
    <2>3. QED
      BY <1>b, <1>d, <2>1, <2>2
  <1>10. CASE CommandSubstitution
    <2> DEFINE f == [Frame("subst") EXCEPT !.scope = shell.scope]
    <2>1. /\ Admitted /\ mode' \in {mode, "err"} /\ (UNCHANGED stack \/ Call(f))
          /\ counters' = c \/ counters' = PushSubst(c)
      BY <1>10 DEF CommandSubstitution
    <2>2. SameCommands(counters', c)
      BY <1>a, <1>b, <2>1, CommandCounts
    <2>3. f.kind \in Counted \ {"pipeline"}
      BY DEF Frame, Counted, Kinds
    <2> HIDE DEF f, c
    <2>4. QED
      BY <1>c, <1>d, <2>1, <2>2, <2>3
  <1>11. CASE FunctionCall
    <2> DEFINE f == [Frame("function") EXCEPT !.stdin = shell.stdin]
    <2>1. /\ Admitted /\ mode' \in {mode, "err"} /\ (UNCHANGED stack \/ Call(f))
          /\ counters' = c \/ counters' = PushFunction(c)
      BY <1>11 DEF FunctionCall
    <2>2. SameCommands(counters', c)
      BY <1>a, <1>b, <2>1, CommandCounts
    <2>3. f.kind \in Counted \ {"pipeline"}
      BY DEF Frame, Counted, Kinds
    <2> HIDE DEF f, c
    <2>4. QED
      BY <1>c, <1>d, <2>1, <2>2, <2>3
  <1>12. CASE Source
    <2> DEFINE f(how, calls) == [Frame("source") EXCEPT !.args = how,
                                                       !.call_stack = calls]
    <2>1. /\ Admitted /\ mode' \in {mode, "err"}
          /\ UNCHANGED stack \/ (\E how, calls : Call(f(how, calls)))
          /\ counters' = c \/ counters' = PushFunction(c)
      BY <1>12, Zenon DEF Source
    <2>2. SameCommands(counters', c)
      BY <1>a, <1>b, <2>1, CommandCounts
    <2>3. \A how, calls : f(how, calls).kind \in Counted \ {"pipeline"}
      BY DEF Frame, Counted, Kinds
    <2> HIDE DEF f, c
    <2>4. QED
      BY <1>c, <1>d, <2>1, <2>2, <2>3
  <1>13. CASE ShellBegins
    <2> DEFINE f(file) == [Frame("shell") EXCEPT !.scope = shell.scope,
                                                 !.stdin = shell.stdin,
                                                 !.file = file]
    <2>1. Admitted /\ mode' = mode /\ counters' = c /\ (\E file : Call(f(file)))
      BY <1>13 DEF ShellBegins
    <2>2. \A file : f(file).kind \in Counted \ {"pipeline"}
      BY DEF Frame, Counted, Kinds
    <2> HIDE DEF f
    <2>3. QED
      BY <1>b, <1>d, <2>1, <2>2
  <1>14. CASE ScriptBegins
    <2> DEFINE f == [Frame("script") EXCEPT !.scope = shell.scope,
                                            !.call_stack = shell.call_stack,
                                            !.bash_source = shell.bash_source,
                                            !.stdin = shell.stdin]
    <2>1. Admitted /\ mode' = mode /\ counters' = c /\ Call(f)
      BY <1>14 DEF ScriptBegins
    <2>2. f.kind \in Counted \ {"pipeline"}
      BY DEF Frame, Counted, Kinds
    <2> HIDE DEF f
    <2>3. QED
      BY <1>b, <1>d, <2>1, <2>2
  <1>15. ASSUME NEW k \in {"eval", "alias"}, EvalOrAlias(k)
         PROVE  Restarts
    <2> DEFINE e == StartExecute(c)
               f == [Frame(k) EXCEPT !.stdin = shell.stdin]
    <2>1. /\ Admitted /\ counters' = e
          /\ \/ SessionAllows(e) /\ Call(f) /\ mode' = mode
             \/ UNCHANGED stack /\ mode' = "err"
      BY <1>15, Zenon DEF EvalOrAlias
    <2>2. /\ e.commands = 0 /\ e.session_commands = counters.session_commands + 1
      BY <1>a, CommandCounts
    <2>3. f.kind \in Resets
      BY DEF Frame, Resets
    <2>4. SessionAllows(e) => e.session_commands <= MaxSessionCommands
      BY DEF SessionAllows
    <2>5. mode = "run"
      BY <2>1 DEF Admitted, Running
    <2> HIDE DEF e, f
    <2>6. QED
      BY <2>1, <2>2, <2>3, <2>4, <2>5 DEF Restarts
  <1>16. CASE TrapFires
    <2>1. Admitted /\ mode' = mode /\ counters' = c /\ Call(Frame("trap"))
      BY <1>16 DEF TrapFires
    <2>2. Frame("trap").kind \in Counted \ {"pipeline"}
      BY DEF Frame, Counted, Kinds
    <2>3. QED
      BY <1>b, <1>d, <2>1, <2>2
  <1>17. CASE TimeoutBegins
    <2> DEFINE f == [Frame("timeout") EXCEPT !.depth = Len(shell.call_stack),
                                             !.bash_source = shell.bash_source]
    <2>1. Admitted /\ mode' = mode /\ counters' = c /\ Call(f)
      BY <1>17 DEF TimeoutBegins
    <2>2. f.kind \in Counted \ {"pipeline"}
      BY DEF Frame, Counted, Kinds
    <2> HIDE DEF f
    <2>3. QED
      BY <1>b, <1>d, <2>1, <2>2
  <1>18. CASE ExitTrapBegins
    <2>1. mode = "run" /\ UNCHANGED <<mode, counters>>
      BY <1>18 DEF ExitTrapBegins, Running
    <2>2. Stays
      BY <1>18, ExitTrapStep
    <2>3. QED
      BY <1>b, <2>1, <2>2 DEF Waits
  <1>19. CASE Returned
    <2>1. /\ mode = "run" /\ mode' \in {"idle", "run"} /\ stack' = ButLast(stack)
          /\ counters' = CountersAfter(Top, counters)
      BY <1>19 DEF Returned, Running, Outer
    <2>2. SameCommands(counters', counters)
      BY <1>a, <2>1, CommandsAfter
    <2>3. QED
      BY <2>1, <2>2 DEF Ends
  <1>20. CASE ErrorPropagates
    <2>1. /\ mode = "err" /\ stack' = ButLast(stack)
          /\ counters' \in {CountersAfter(Top, counters),
                            CountersAfterError(Top, counters)}
          /\ mode' = Outer(IF Top.exit_trap \/ Top.kind = "trap" THEN "run" ELSE "err")
      BY <1>20 DEF ErrorPropagates
    <2>2. SameCommands(counters', counters)
      BY <1>a, <2>1, CommandsAfter
    <2>3. mode' # "err" => Top.kind \in Counted
      <3> SUFFICES ASSUME mode' # "err"
                   PROVE  Top.kind \in Counted
        OBVIOUS
      <3>1. \/ Len(stack) = 1
            \/ Top.exit_trap \/ Top.kind = "trap"
        BY <2>1 DEF Outer
      <3>2. CASE Len(stack) = 1
        <4>1. Top.kind = "exec"
          BY <2>1, <3>2, TopType DEF TypeInv, StackWellFormed, Top
        <4>2. QED
          BY <4>1 DEF Counted, Kinds
      <3>3. CASE Top.exit_trap \/ Top.kind = "trap"
        <4>1. WellFormed(Top)
          BY <2>1, TopType
        <4>2. QED
          BY <3>3, <4>1 DEF WellFormed, HasExitTrap, Counted, Kinds
      <3>4. QED
        BY <3>1, <3>2, <3>3
    <2>4. QED
      BY <2>1, <2>2, <2>3 DEF Ends
  <1>21. ASSUME NEW i \in DOMAIN stack, TimeoutElapses(i)
         PROVE  Ends
    <2>1. /\ i - 1 \in 0 .. Len(stack) /\ stack' = SubSeq(stack, 1, i - 1)
          /\ mode = "run" /\ mode' = "run"
      BY <1>21, <1>a DEF TimeoutElapses, Running
    <2>2. SameCommands(counters', counters)
      BY <1>21, <1>a DEF TimeoutElapses, PopFunction, SameCommands, Counters
    <2>3. QED
      BY <2>1, <2>2 DEF Ends
  <1>22. CASE ExecTimesOut
    <2>1. /\ mode = "run" /\ mode' = "idle" /\ stack' = <<>> /\ UNCHANGED counters
      BY <1>22 DEF ExecTimesOut, Running
    <2>2. 0 \in 0 .. Len(stack) /\ SubSeq(stack, 1, 0) = <<>>
      BY <1>a
    <2>3. QED
      BY <1>b, <2>1, <2>2 DEF Ends
  <1>23. CASE SetToken \/ ExecRejected \/ UNCHANGED vars
    BY <1>23 DEF SetToken, ExecRejected, vars
  <1>24. QED
    BY <1>1, <1>2, <1>3, <1>4, <1>5, <1>6, <1>7, <1>8, <1>9, <1>10, <1>11,
       <1>12, <1>13, <1>14, <1>15, <1>16, <1>17, <1>18, <1>19, <1>20, <1>21,
       <1>22, <1>23 DEF Next, Engine

(* The bound on the commands of an execute. *)
LEMMA CommandsStep ==
  ASSUME TypeInv, TypeInv', CommandsInv, [Next]_vars
  PROVE  CommandsInv'
  <1> DEFINE n == Live(Counted)
             d == IF mode = "err" THEN 2 ELSE 1
             e == IF mode' = "err" THEN 2 ELSE 1
  <1>a. /\ n \in Nat /\ n' \in Nat /\ d \in 1 .. 2 /\ e \in 1 .. 2
        /\ counters.commands \in Nat /\ counters'.commands \in Nat
        /\ MaxCommands \in Nat /\ MaxStack \in Nat
        /\ stack \in Seq(Frames) /\ Len(stack) \in Nat /\ counters \in Counters
        /\ stack' \in Seq(Frames) /\ Len(stack') \in Nat
    BY LiveType, LiveTypeNext, LimitAssumption DEF TypeInv, TypeOK, Counters
  <1>b. /\ Len(stack) <= MaxStack
        /\ counters.commands <= MaxCommands + (MaxStack - n + d)
    BY DEF CommandsInv, Within
  <1>c. Len(stack') <= MaxStack => n' <= MaxStack
    <2>1. Count(stack', Counted) \in 0 .. Len(stack')
      BY <1>a, CountWithinLength
    <2>2. n' = Count(stack', Counted)
      BY DEF Live, Count
    <2> HIDE DEF n
    <2>3. QED
      BY <1>a, <2>1, <2>2
  <1>d. ASSUME Len(stack') <= MaxStack,
               counters'.commands <= MaxCommands + (MaxStack - n' + e)
        PROVE  CommandsInv'
    BY <1>d DEF CommandsInv, Within
  <1>e. ASSUME Len(stack') <= MaxStack, counters'.commands <= MaxCommands
        PROVE  CommandsInv'
    <2> HIDE DEF n, e
    <2>1. QED
      BY <1>a, <1>c, <1>d, <1>e
  <1>f. UNCHANGED stack => n' = n /\ Len(stack') <= MaxStack
    BY <1>b DEF Live
  <1>g. \A f : Call(f) => Len(stack') <= MaxStack
    BY <1>a, CallGrows
  <1>1. CASE UNCHANGED <<mode, stack, counters>>
    BY <1>1, <1>b, <1>d, <1>f
  <1>2. CASE Refuses
    <2>1. d = 1 /\ e = 2 /\ n' = n /\ Len(stack') <= MaxStack
          /\ counters'.commands = counters.commands + 1
      BY <1>2, <1>a, <1>f, CommandCounts DEF Refuses
    <2> HIDE DEF n, d, e
    <2>2. QED
      BY <1>a, <1>b, <1>d, <2>1
  <1>3. CASE Admits
    <2>1. counters'.commands <= MaxCommands
      BY <1>3 DEF Admits, Admitted, SameCommands
    <2>2. Len(stack') <= MaxStack
      BY <1>3, <1>f, <1>g DEF Admits
    <2>3. QED
      BY <1>e, <2>1, <2>2
  <1>4. CASE Restarts
    <2>1. counters'.commands <= MaxCommands
      BY <1>4, <1>a DEF Restarts
    <2>2. Len(stack') <= MaxStack
      BY <1>4, <1>f, <1>g DEF Restarts
    <2>3. QED
      BY <1>e, <2>1, <2>2
  <1>5. CASE Waits
    <2>1. d = 1 /\ counters'.commands = counters.commands
      BY <1>5 DEF Waits, SameCommands
    <2>2. n' = n /\ Len(stack') <= MaxStack
      <3>1. CASE Stays
        BY <1>b, <3>1, LiveStay DEF Stays
      <3>2. ASSUME NEW f, Call(f), f.kind = "pipe"
            PROVE  n' = n /\ Len(stack') <= MaxStack
        <4>1. One(f.kind \in Counted) = 0
          BY <3>2 DEF One, Counted
        <4>2. n' = n + One(f.kind \in Counted)
          BY <3>2, LivePush
        <4> HIDE DEF n
        <4>3. QED
          BY <1>a, <1>g, <3>2, <4>1, <4>2
      <3>3. QED
        BY <1>5, <3>1, <3>2 DEF Waits
    <2> HIDE DEF n, d, e
    <2>3. QED
      BY <1>a, <1>b, <1>d, <2>1, <2>2
  <1>6. CASE Ends
    <2>1. counters'.commands = counters.commands
      BY <1>6 DEF Ends, SameCommands
    <2>2. CASE /\ mode # "idle" /\ stack' = ButLast(stack)
               /\ mode' = "err" => mode = "err"
               /\ mode = "err" /\ mode' # "err" => Top.kind \in Counted
      <3>1. Len(stack') <= MaxStack
        BY <1>a, <1>b, <2>2, TopType, ButLastProperties
      <3>2. n' = n - One(Top.kind \in Counted)
        BY <2>2, LivePop
      <3>3. /\ One(Top.kind \in Counted) \in 0 .. 1
            /\ Top.kind \in Counted => One(Top.kind \in Counted) = 1
        BY DEF One
      <3>4. \/ d = e
            \/ d = 2 /\ e = 1 /\ One(Top.kind \in Counted) = 1
            \/ d = 1 /\ e = 2 /\ FALSE
        BY <2>2, <3>3
      <3> DEFINE t == One(Top.kind \in Counted)
      <3>5. /\ n' = n - t /\ t \in 0 .. 1
            /\ d = e \/ (d = 2 /\ e = 1 /\ t = 1)
        BY <3>2, <3>3, <3>4
      <3> HIDE DEF n, d, e, t
      <3>6. counters'.commands <= MaxCommands + (MaxStack - n' + e)
        BY <1>a, <1>b, <2>1, <3>5
      <3>7. QED
        BY <1>d, <3>1, <3>6
    <2>3. ASSUME mode = "run", mode' \in {"idle", "run"},
                 NEW m \in 0 .. Len(stack), stack' = SubSeq(stack, 1, m)
          PROVE  CommandsInv'
      <3>1. Len(stack') <= MaxStack
        BY <1>a, <1>b, <2>3, PrefixProperties
      <3>2. n' <= n
        <4>1. Count(stack', Counted) <= Count(stack, Counted)
          BY <1>a, <2>3, CountPrefix
        <4>2. QED
          BY <4>1 DEF Live, Count
      <3>3. d = 1 /\ e = 1
        BY <2>3
      <3> HIDE DEF n, d, e
      <3>4. QED
        BY <1>a, <1>b, <1>d, <2>1, <3>1, <3>2, <3>3
    <2>4. QED
      BY <1>6, <2>2, <2>3 DEF Ends
  <1>7. CASE Exec
    <2>1. counters'.commands <= MaxCommands
      <3>1. counters' = StartExecute(counters)
        BY <1>7, Zenon DEF Exec
      <3>2. StartExecute(counters).commands = 0
        BY <1>a, CommandCounts
      <3>3. QED
        BY <1>a, <3>1, <3>2
    <2>2. Len(stack') <= MaxStack
      BY <1>7, <1>f, <1>g DEF Exec
    <2>3. QED
      BY <1>e, <2>1, <2>2
  <1>8. QED
    BY <1>1, <1>2, <1>3, <1>4, <1>5, <1>6, <1>7, CommandSteps

(* No more than the property allows: an Err finds at least the exec open. *)
LEMMA CommandsWithin ==
  ASSUME TypeInv, CommandsInv
  PROVE  counters.commands <= MostOfAnExecute
  <1> DEFINE n == Live(Counted)
             d == IF mode = "err" THEN 2 ELSE 1
  <1>1. /\ n \in Nat /\ d \in 1 .. 2 /\ counters.commands \in Nat
        /\ MaxCommands \in Nat /\ MaxStack \in Nat
        /\ counters.commands <= MaxCommands + (MaxStack - n + d)
    BY LiveType, LimitAssumption
    DEF CommandsInv, Within, TypeInv, TypeOK, Counters
  <1>2. d = 2 => n >= 1
    <2> SUFFICES ASSUME mode = "err"
                 PROVE  n >= 1
      OBVIOUS
    <2>1. stack \in Seq(Frames) /\ stack # <<>> /\ stack[1].kind = "exec"
      BY DEF TypeInv, TypeOK, StackWellFormed
    <2>2. 1 \in DOMAIN stack
      BY <2>1, EmptySeq
    <2>3. Count(stack, Counted) >= 1
      BY <2>1, <2>2, CountPositive DEF Counted, Kinds
    <2>4. QED
      BY <2>3, LiveType
  <1> HIDE DEF n, d
  <1>3. QED
    BY <1>1, <1>2 DEF MostOfAnExecute

(* The bound on the commands of the session. *)
LEMMA SessionStep ==
  ASSUME TypeInv, TypeInv', CommandsInv, CommandsInv', SessionInv, [Next]_vars
  PROVE  SessionInv'
  <1> DEFINE s == counters.session_commands
             k == MostOfAnExecute
  <1>a. /\ counters \in Counters /\ stack \in Seq(Frames) /\ stack' \in Seq(Frames)
        /\ counters.commands \in Nat /\ counters.session_commands \in Nat
        /\ counters'.commands \in Nat /\ counters'.session_commands \in Nat
        /\ MaxSessionCommands \in Nat /\ MaxStack \in Nat /\ MaxCommands \in Nat
        /\ Len(stack) <= MaxStack /\ Len(stack') <= MaxStack
    BY LimitAssumption DEF TypeInv, TypeOK, Counters, CommandsInv
  <1>b. /\ Ahead \in 0 .. MaxStack /\ Ahead' \in 0 .. MaxStack
        /\ Ahead' <= Live({"pipeline"})'
        /\ Live({"pipeline"}) \in Nat /\ Live({"pipeline"})' \in Nat
        /\ mode # "err" => Ahead = Live({"pipeline"})
    BY <1>a, AheadType, AheadTypeNext, LiveType, LiveTypeNext
  <1>c. UNCHANGED stack => Live({"pipeline"})' = Live({"pipeline"})
    BY DEF Live
  <1>d. ASSUME NEW f, Call(f), f.kind # "pipeline"
        PROVE  Live({"pipeline"})' = Live({"pipeline"})
    <2>1. One(f.kind \in {"pipeline"}) = 0
      BY <1>d DEF One
    <2>2. Live({"pipeline"})' = Live({"pipeline"}) + One(f.kind \in {"pipeline"})
      BY <1>d, LivePush
    <2>3. QED
      BY <1>b, <2>1, <2>2
  <1>e. ASSUME Admitted, ~AtStage,
               counters'.session_commands = counters.session_commands + 1
        PROVE  SessionInv'
    <2>1. counters'.session_commands <= MaxSessionCommands
      BY <1>a, <1>e, CommandCounts DEF Admitted, SessionAllows
    <2>2. QED
      BY <1>a, <2>1, SessionWithin
  <1>1. CASE UNCHANGED <<mode, stack, counters>>
    BY <1>1 DEF SessionInv, Ahead, AheadOf, Room, MostOfAnExecute
  <1>2. CASE Refuses
    <2>1. /\ mode # "idle" /\ mode' # "idle" /\ Ahead' <= Ahead
          /\ counters'.commands = counters.commands + 1
          /\ counters'.session_commands = counters.session_commands + 1
      BY <1>2, <1>a, <1>b, <1>c, CommandCounts DEF Refuses
    <2>2. QED
      BY <1>a, <2>1, SessionKept
  <1>3. CASE Admits
    <2>1. /\ mode = "run" /\ mode' # "idle"
          /\ counters'.commands = counters.commands + 1
          /\ counters'.session_commands = counters.session_commands + 1
      BY <1>3, <1>a, CommandCounts DEF Admits, SameCommands
    <2>2. CASE ~AtStage
      BY <1>3, <1>e, <2>1, <2>2 DEF Admits
    <2>3. CASE AtStage
      <3>1. Live({"pipeline"})' = Live({"pipeline"})
        BY <1>3, <1>c, <1>d, <2>3 DEF Admits
      <3>2. Ahead' <= Ahead
        BY <1>b, <2>1, <3>1
      <3>3. QED
        BY <1>a, <2>1, <3>2, SessionKept
    <2>4. QED
      BY <2>2, <2>3
  <1>4. CASE Restarts
    <2>1. CASE counters'.session_commands <= MaxSessionCommands
      BY <1>a, <2>1, SessionWithin
    <2>2. CASE ~AtStage
      BY <1>4, <1>e, <2>2 DEF Restarts
    <2>3. CASE AtStage /\ mode' = "err" /\ UNCHANGED stack
      <3>1. mode = "run" /\ counters.commands + 1 <= MaxCommands
            /\ counters'.commands = 0
            /\ counters'.session_commands = counters.session_commands + 1
        BY <1>4, <1>a, CommandCounts DEF Restarts, Admitted
      <3>2. Ahead' = Ahead - 1
        <4>1. stack # <<>> /\ stack' = stack
          BY <2>3, <3>1 DEF TypeInv
        <4>2. Ahead' = AheadOf("err", stack)
          BY <2>3, <4>1 DEF Ahead
        <4>3. AheadOf("err", stack) = Count(stack, {"pipeline"})
                - One(stack[Len(stack)].kind \in {"pipeline"})
          BY <1>a, <4>1, AheadOfType
        <4>4. One(stack[Len(stack)].kind \in {"pipeline"}) = 1
          BY <2>3 DEF AtStage, Top, One
        <4>5. Ahead = Count(stack, {"pipeline"})
          BY <1>b, <3>1 DEF Live, Count
        <4>6. QED
          BY <4>2, <4>3, <4>4, <4>5
      <3>3. /\ Room(Ahead') = Room(Ahead) + k /\ Room(Ahead) \in Nat
            /\ k \in Nat /\ MaxCommands <= k
        BY <1>b, <3>2, RoomFacts
      <3>4. counters.session_commands
              <= MaxSessionCommands + Room(Ahead) + counters.commands
        BY <3>1 DEF SessionInv
      <3> HIDE DEF k
      <3>5. counters'.session_commands
              <= MaxSessionCommands + Room(Ahead') + counters'.commands
        BY <1>a, <3>1, <3>3, <3>4
      <3>6. QED
        BY <2>3, <3>5 DEF SessionInv, Room, MostOfAnExecute
    <2>4. QED
      BY <1>4, <2>1, <2>2, <2>3 DEF Restarts
  <1>5. CASE Waits
    <2>1. /\ mode = "run" /\ mode # "idle" /\ mode' # "idle"
          /\ counters'.commands = counters.commands + 0
          /\ counters'.session_commands = counters.session_commands + 0
      BY <1>5, <1>a DEF Waits, SameCommands
    <2>2. Live({"pipeline"})' = Live({"pipeline"})
      BY <1>5, <1>d, LiveStay DEF Waits
    <2>3. Ahead' <= Ahead /\ 0 \in Nat
      BY <1>b, <2>1, <2>2
    <2>4. QED
      BY <1>a, <2>1, <2>3, SessionKept
  <1>6. CASE Ends
    <2>1. /\ mode # "idle"
          /\ counters'.commands = counters.commands + 0
          /\ counters'.session_commands = counters.session_commands + 0
      BY <1>6, <1>a DEF Ends, SameCommands
    <2>2. Ahead' <= Ahead
      <3>1. CASE mode = "err"
        <4>1. stack' = ButLast(stack)
          BY <1>6, <3>1 DEF Ends
        <4>2. Ahead = Count(stack', {"pipeline"})
          BY <3>1, <4>1 DEF Ahead, AheadOf
        <4>3. Live({"pipeline"})' = Count(stack', {"pipeline"})
          BY DEF Live, Count
        <4>4. QED
          BY <1>b, <4>2, <4>3
      <3>2. CASE mode # "err"
        <4>1. PICK n \in 0 .. Len(stack) : stack' = SubSeq(stack, 1, n)
          <5>1. Len(stack) - 1 \in 0 .. Len(stack)
            BY <2>1, TopType
          <5>2. QED
            BY <1>6, <5>1 DEF Ends, ButLast
        <4>2. Count(stack', {"pipeline"}) <= Count(stack, {"pipeline"})
          BY <1>a, <4>1, CountPrefix
        <4>3. Live({"pipeline"})' <= Live({"pipeline"})
          BY <4>2 DEF Live, Count
        <4>4. QED
          BY <1>b, <3>2, <4>3
      <3>3. QED
        BY <3>1, <3>2
    <2>3. CASE mode' # "idle"
      <3>1. 0 \in Nat
        OBVIOUS
      <3>2. QED
        BY <1>a, <2>1, <2>2, <2>3, <3>1, SessionKept
    <2>4. CASE mode' = "idle"
      <3>1. Room(Ahead) <= Room(Ahead') /\ Room(Ahead) \in Nat /\ Room(Ahead') \in Nat
        BY <1>b, <2>2, RoomFacts
      <3>2. counters.session_commands
              <= MaxSessionCommands + Room(Ahead) + counters.commands
        BY <2>1 DEF SessionInv
      <3>3. counters.commands <= k /\ k \in Nat
        BY CommandsWithin, RoomFacts
      <3> HIDE DEF k
      <3>4. counters'.session_commands <= MaxSessionCommands + Room(Ahead') + k
        BY <1>a, <2>1, <3>1, <3>2, <3>3
      <3>5. QED
        BY <2>4, <3>4 DEF SessionInv, Room, MostOfAnExecute, k
    <2>5. QED
      BY <2>3, <2>4
  <1>7. CASE Exec
    <2> DEFINE e == StartExecute(counters)
    <2>1. /\ mode = "idle" /\ counters' = e
          /\ SessionAllows(e) \/ UNCHANGED <<mode, stack>>
      BY <1>7 DEF Exec
    <2>2. e.session_commands = counters.session_commands
      BY <1>a, CommandCounts
    <2>3. CASE SessionAllows(e)
      <3>1. counters'.session_commands <= MaxSessionCommands
        BY <2>1, <2>3 DEF SessionAllows
      <3>2. QED
        BY <1>a, <3>1, SessionWithin
    <2>4. CASE UNCHANGED <<mode, stack>>
      <3>1. /\ mode' = "idle" /\ Ahead' = Ahead
            /\ counters'.session_commands = counters.session_commands
        BY <2>1, <2>2, <2>4 DEF Ahead, AheadOf
      <3> HIDE DEF e
      <3>2. counters'.session_commands <= MaxSessionCommands + Room(Ahead') + k
        BY <2>1, <3>1 DEF SessionInv
      <3>3. QED
        BY <3>1, <3>2 DEF SessionInv, Room, MostOfAnExecute
    <2>5. QED
      BY <2>1, <2>3, <2>4
  <1>8. QED
    BY <1>1, <1>2, <1>3, <1>4, <1>5, <1>6, <1>7, CommandSteps

LEMMA OverrunInvariant == Spec => [](TypeInv /\ OverrunInv)
  <1>1. Init => OverrunInv
    <2> SUFFICES ASSUME Init
                 PROVE  OverrunInv
      OBVIOUS
    <2>1. /\ stack = <<>> /\ mode = "idle" /\ counters.commands = 0
          /\ counters.session_commands = 0
      BY DEF Init
    <2>2. Live(Counted) = 0 /\ Ahead = 0
      BY <2>1, LiveNone, CountEmpty DEF Ahead, AheadOf
    <2>3. MaxSessionCommands \in Nat /\ MaxStack \in Nat /\ MaxCommands \in Nat
          /\ Room(0) \in Nat /\ MostOfAnExecute \in Nat
      BY LimitAssumption, RoomFacts
    <2>4. CommandsInv
      BY <2>1, <2>2, <2>3 DEF CommandsInv, Within
    <2>5. SessionInv
      BY <2>1, <2>2, <2>3 DEF SessionInv
    <2>6. QED
      BY <2>4, <2>5 DEF OverrunInv
  <1>2. TypeInv /\ TypeInv' /\ OverrunInv /\ [Next]_vars => OverrunInv'
    BY CommandsStep, SessionStep DEF OverrunInv
  <1>3. QED
    BY <1>1, <1>2, TypeInvariant, PTL DEF Spec

(* A command limit stops an execute and a session for every nest of         *)
(* constructs, although DEBUG, ERR and EXIT traps swallow the error, eval    *)
(* and aliases reset the per-exec counters, timeouts drop calls and the      *)
(* stages of a pipeline are not asked about the session limit.               *)
THEOREM OverrunTheorem == Spec => []OverrunBounded
  <1>1. TypeInv /\ OverrunInv => OverrunBounded
    <2> SUFFICES ASSUME TypeInv, CommandsInv, SessionInv
                 PROVE  OverrunBounded
      BY DEF OverrunInv
    <2> DEFINE k == MostOfAnExecute
               s == counters.session_commands
    <2>1. counters.commands <= k /\ k \in Nat
      BY CommandsWithin, RoomFacts
    <2>2. /\ MaxStack \in Nat /\ MaxSessionCommands \in Nat
          /\ counters.commands \in Nat /\ s \in Nat /\ Len(stack) <= MaxStack
      BY LimitAssumption DEF TypeInv, TypeOK, Counters, CommandsInv
    <2>3. Ahead \in 0 .. MaxStack /\ 0 \in 0 .. MaxStack
      BY <2>2, AheadType
    <2>4. Room(Ahead) <= Room(0) /\ Room(Ahead) \in Nat /\ Room(0) \in Nat
      BY <2>2, <2>3, RoomFacts
    <2>5. \/ s <= MaxSessionCommands + Room(Ahead) + k
          \/ s <= MaxSessionCommands + Room(Ahead) + counters.commands
      BY DEF SessionInv
    <2>6. (MaxStack + 1) * k = Room(0) + k
      <3>1. Room(0) = MaxStack * k
        BY <2>2 DEF Room
      <3> HIDE DEF k
      <3>2. (MaxStack + 1) * k = MaxStack * k + k
        BY <2>1, <2>2
      <3>3. QED
        BY <3>1, <3>2
    <2> HIDE DEF k, s
    <2>7. s <= MaxSessionCommands + (Room(0) + k)
      BY <2>1, <2>2, <2>4, <2>5
    <2>8. QED
      BY <2>1, <2>6, <2>7 DEF OverrunBounded, k, s
  <1>2. QED
    BY <1>1, OverrunInvariant, PTL

(* What holds of every frame of the nest keeps holding when the nest gets   *)
(* shorter: here, that its kind is one of the instance's features. *)
KindsInv == \A i \in DOMAIN stack : stack[i].kind \in Features

LEMMA KindsStep ==
  ASSUME TypeInv, TypeInv', KindsInv, [Next]_vars
  PROVE  KindsInv'
  <1>a. stack \in Seq(Frames) /\ stack' \in Seq(Frames)
    BY DEF TypeInv, TypeOK
  <1>b. ASSUME NEW n \in 0 .. Len(stack), stack' = SubSeq(stack, 1, n)
        PROVE  KindsInv'
    BY <1>a, <1>b, PrefixProperties DEF KindsInv
  <1>c. ASSUME NEW f, Call(f)
        PROVE  KindsInv'
    BY <1>a, <1>c, CallGrows DEF KindsInv, Call
  <1>d. ASSUME mode # "idle", stack' = ButLast(stack)
        PROVE  KindsInv'
    <2>1. Len(stack) - 1 \in 0 .. Len(stack)
      BY <1>d, TopType
    <2>2. QED
      BY <1>b, <1>d, <2>1 DEF ButLast
  <1>1. CASE Idles
    BY <1>1 DEF Idles, KindsInv
  <1>2. CASE Stays
    BY <1>2, <1>a, SameCallFields DEF Stays, KindsInv
  <1>3. CASE \E f : Pushes(f)
    BY <1>3, <1>c DEF Pushes
  <1>4. CASE Returned \/ ErrorPropagates
    BY <1>4, <1>d DEF Returned, ErrorPropagates, Running
  <1>5. CASE \E i \in DOMAIN stack : TimeoutElapses(i)
    <2>1. PICK i \in DOMAIN stack : TimeoutElapses(i)
      BY <1>5
    <2>2. i - 1 \in 0 .. Len(stack) /\ stack' = SubSeq(stack, 1, i - 1)
      BY <1>a, <2>1 DEF TimeoutElapses
    <2>3. QED
      BY <1>b, <2>2
  <1>6. CASE Exec
    <2>1. UNCHANGED stack \/ Call(Frame("exec"))
      BY <1>6 DEF Exec
    <2>2. QED
      BY <1>c, <2>1 DEF KindsInv
  <1>7. CASE ExecRejected
    BY <1>7 DEF ExecRejected, KindsInv
  <1>8. CASE ExecTimesOut
    BY <1>8 DEF ExecTimesOut, KindsInv
  <1>9. QED
    BY <1>1, <1>2, <1>3, <1>4, <1>5, <1>6, <1>7, <1>8, NestStep

-----------------------------------------------------------------------------
(* The depth counters.  Where no nested execute resets them and no timeout  *)
(* builtin drops frames they are exactly the nest's own depths, except that *)
(* a failed $(...) leaves its level behind; and since a function is entered *)
(* only below the limit, the depth never exceeds it.                        *)

DepthsAreTracked == Features \cap (Resets \cup {"timeout"}) = {}

DepthsMatch ==
  /\ counters.function_depth = Live(Depth)
  /\ Len(counters.loop_iterations) = Live({"loop"})
  /\ counters.subst_depth >= Live({"subst"})
  /\ counters.function_depth <= MaxFunctionDepth

DepthInv == DepthsAreTracked /\ mode # "idle" => DepthsMatch

(* Leaving a call takes the same level off the counters and off the nest. *)
LEMMA DepthsMatchPop ==
  ASSUME TypeInv, mode # "idle", DepthsMatch, stack' = ButLast(stack),
         \/ counters' = CountersAfter(Top, counters)
         \/ counters' = CountersAfterError(Top, counters)
  PROVE  DepthsMatch'
  <1> DEFINE k == Top.kind
  <1>a. counters \in Counters /\ Top \in Frames
    BY TopType DEF TypeInv, TypeOK
  <1>b. /\ counters.function_depth \in Nat /\ counters.subst_depth \in Nat
        /\ Len(counters.loop_iterations) \in Nat
    BY <1>a, DepthFields
  <1>c. /\ Live(Depth)' = Live(Depth) - One(k \in Depth)
        /\ Live({"loop"})' = Live({"loop"}) - One(k \in {"loop"})
        /\ Live({"subst"})' = Live({"subst"}) - One(k \in {"subst"})
    BY LivePop
  <1>d. /\ Live(Depth) \in Nat /\ Live({"loop"}) \in Nat /\ Live({"subst"}) \in Nat
    BY LiveType
  <1>e. /\ k \in Depth => Live(Depth) >= 1
        /\ k \in {"loop"} => Live({"loop"}) >= 1
    BY LiveTop
  <1>1. /\ counters'.function_depth = IF k \in Depth THEN Less(counters.function_depth)
                                      ELSE counters.function_depth
        /\ Len(counters'.loop_iterations) = IF k = "loop"
                                              THEN Less(Len(counters.loop_iterations))
                                              ELSE Len(counters.loop_iterations)
        /\ counters'.subst_depth \in {counters.subst_depth, Less(counters.subst_depth)}
        /\ k # "subst" => counters'.subst_depth = counters.subst_depth
    <2>1. CASE counters' = CountersAfter(Top, counters)
      BY <1>a, <2>1, DepthsAfter
    <2>2. CASE counters' = CountersAfterError(Top, counters)
      <3>1. CASE k = "subst"
        <4>1. counters' = counters
          BY <2>2, <3>1 DEF CountersAfterError
        <4>2. QED
          BY <3>1, <4>1 DEF Depth
      <3>2. CASE k # "subst"
        <4>1. counters' = CountersAfter(Top, counters)
          BY <2>2, <3>2 DEF CountersAfterError
        <4>2. QED
          BY <2>1, <4>1
      <3>3. QED
        BY <3>1, <3>2
    <2>3. QED
      BY <2>1, <2>2
  <1> HIDE DEF k
  <1>2. /\ counters'.function_depth = Live(Depth)'
        /\ counters'.function_depth <= MaxFunctionDepth
    <2>1. CASE k \in Depth
      BY <1>b, <1>c, <1>d, <1>e, <1>1, <2>1, LimitAssumption
      DEF DepthsMatch, One, Less, Larger
    <2>2. CASE k \notin Depth
      BY <1>b, <1>c, <1>d, <1>1, <2>2 DEF DepthsMatch, One
    <2>3. QED
      BY <2>1, <2>2
  <1>3. Len(counters'.loop_iterations) = Live({"loop"})'
    <2>1. CASE k = "loop"
      BY <1>b, <1>c, <1>d, <1>e, <1>1, <2>1 DEF DepthsMatch, One, Less, Larger
    <2>2. CASE k # "loop"
      BY <1>b, <1>c, <1>d, <1>1, <2>2 DEF DepthsMatch, One
    <2>3. QED
      BY <2>1, <2>2
  <1>4. counters'.subst_depth >= Live({"subst"})'
    <2>1. CASE k = "subst"
      BY <1>b, <1>c, <1>d, <1>1, <2>1 DEF DepthsMatch, One, Less, Larger
    <2>2. CASE k # "subst"
      BY <1>b, <1>c, <1>d, <1>1, <2>2 DEF DepthsMatch, One
    <2>3. QED
      BY <2>1, <2>2
  <1>5. QED
    BY <1>2, <1>3, <1>4 DEF DepthsMatch

LEMMA DepthStep ==
  ASSUME TypeInv, TypeInv', KindsInv, DepthInv, [Next]_vars
  PROVE  DepthInv'
  <1> SUFFICES ASSUME DepthsAreTracked, mode' # "idle"
               PROVE  DepthsMatch'
    BY DEF DepthInv, DepthsAreTracked
  <1>a. counters \in Counters /\ counters' \in Counters
    BY DEF TypeInv, TypeOK
  <1>b. /\ counters.function_depth \in Nat /\ counters.subst_depth \in Nat
        /\ Len(counters.loop_iterations) \in Nat
    BY <1>a, DepthFields
  <1>d. /\ Live(Depth) \in Nat /\ Live({"loop"}) \in Nat /\ Live({"subst"}) \in Nat
    BY LiveType
  <1>1. CASE Idles
    BY <1>1 DEF Idles, DepthInv, DepthsMatch, Live
  <1>2. CASE Stays
    <2>1. DepthsMatch
      BY <1>2 DEF Stays, DepthInv
    <2>2. /\ Live(Depth)' = Live(Depth) /\ Live({"loop"})' = Live({"loop"})
          /\ Live({"subst"})' = Live({"subst"})
      BY <1>2, LiveStay
    <2>3. CASE SameDepths(counters', counters)
      BY <2>1, <2>2, <2>3 DEF DepthsMatch, SameDepths
    <2>4. CASE Top.kind = "loop" /\ counters' = TickLoop(counters)
      <3>1. Live({"loop"}) >= 1
        BY <1>2, <2>4, LiveTop DEF Stays
      <3>2. /\ counters'.function_depth = counters.function_depth
            /\ counters'.subst_depth = counters.subst_depth
            /\ Len(counters'.loop_iterations) =
                 Larger(1, Len(counters.loop_iterations))
        BY <1>a, <2>4, TickLoopDepths
      <3>3. Len(counters'.loop_iterations) = Len(counters.loop_iterations)
        BY <1>b, <2>1, <3>1, <3>2 DEF Larger, DepthsMatch
      <3>4. QED
        BY <2>1, <2>2, <3>2, <3>3 DEF DepthsMatch
    <2>5. Features \cap Resets = {}
      BY DEF DepthsAreTracked
    <2>6. QED
      BY <1>2, <2>3, <2>4, <2>5 DEF Stays
  <1>3. ASSUME NEW f, Pushes(f)
        PROVE  DepthsMatch'
    <2>1. DepthsMatch
      BY <1>3 DEF Pushes, DepthInv
    <2>2. Call(f) /\ f.kind \in Features /\ f.kind \notin Resets
      BY <1>3 DEF Pushes, Call, DepthsAreTracked
    <2>3. Deeper(f.kind)
      BY <1>3, <2>2 DEF Pushes
    <2>4. /\ Live(Depth)' = Live(Depth) + One(f.kind \in Depth)
          /\ Live({"loop"})' = Live({"loop"}) + One(f.kind \in {"loop"})
          /\ Live({"subst"})' = Live({"subst"}) + One(f.kind \in {"subst"})
      BY <2>2, LivePush
    <2>5. /\ counters'.function_depth = Live(Depth)'
          /\ counters'.function_depth <= MaxFunctionDepth
      <3>1. CASE f.kind \in Depth
        BY <1>b, <1>d, <2>1, <2>3, <2>4, <3>1, LimitAssumption
        DEF Deeper, One, DepthsMatch
      <3>2. CASE f.kind \notin Depth
        BY <1>b, <1>d, <2>1, <2>3, <2>4, <3>2 DEF Deeper, One, DepthsMatch
      <3>3. QED
        BY <3>1, <3>2
    <2>6. Len(counters'.loop_iterations) = Live({"loop"})'
      <3>1. CASE f.kind = "loop"
        BY <1>b, <1>d, <2>1, <2>3, <2>4, <3>1 DEF Deeper, One, DepthsMatch
      <3>2. CASE f.kind # "loop"
        BY <1>b, <1>d, <2>1, <2>3, <2>4, <3>2 DEF Deeper, One, DepthsMatch
      <3>3. QED
        BY <3>1, <3>2
    <2>7. counters'.subst_depth >= Live({"subst"})'
      <3>1. CASE f.kind = "subst"
        BY <1>b, <1>d, <2>1, <2>3, <2>4, <3>1 DEF Deeper, One, DepthsMatch
      <3>2. CASE f.kind # "subst"
        BY <1>b, <1>d, <2>1, <2>3, <2>4, <3>2 DEF Deeper, One, DepthsMatch
      <3>3. QED
        BY <3>1, <3>2
    <2>8. QED
      BY <2>5, <2>6, <2>7 DEF DepthsMatch
  <1>4. CASE Returned
    <2>1. /\ mode # "idle" /\ stack' = ButLast(stack)
          /\ counters' = CountersAfter(Top, counters)
      BY <1>4 DEF Returned, Running
    <2>2. QED
      BY <2>1, DepthsMatchPop DEF DepthInv
  <1>5. CASE ErrorPropagates
    <2>1. /\ mode # "idle" /\ stack' = ButLast(stack)
          /\ \/ counters' = CountersAfter(Top, counters)
             \/ counters' = CountersAfterError(Top, counters)
      BY <1>5 DEF ErrorPropagates
    <2>2. QED
      BY <2>1, DepthsMatchPop DEF DepthInv
  <1>6. ASSUME NEW i \in DOMAIN stack, TimeoutElapses(i)
        PROVE  FALSE
    BY <1>6 DEF TimeoutElapses, KindsInv, DepthsAreTracked
  <1>7. CASE Exec
    <2> DEFINE f == Frame("exec")
    <2>1. mode = "idle" /\ counters' = StartExecute(counters)
      BY <1>7 DEF Exec
    <2>2. stack = <<>> /\ Call(f)
      BY <1>7, <2>1 DEF Exec, TypeInv
    <2>3. f.kind = "exec"
      BY DEF Frame
    <2>4. Fresh(counters')
      BY <1>a, <2>1, DepthCounts
    <2>5. Live(Depth) = 0 /\ Live({"loop"}) = 0 /\ Live({"subst"}) = 0
      BY <2>2, LiveNone
    <2> HIDE DEF f
    <2>6. /\ Live(Depth)' = Live(Depth) + One(f.kind \in Depth)
          /\ Live({"loop"})' = Live({"loop"}) + One(f.kind \in {"loop"})
          /\ Live({"subst"})' = Live({"subst"}) + One(f.kind \in {"subst"})
      BY <2>2, LivePush
    <2>7. Live(Depth)' = 0 /\ Live({"loop"})' = 0 /\ Live({"subst"})' = 0
      BY <2>3, <2>5, <2>6 DEF One, Depth
    <2>8. QED
      BY <2>4, <2>7, LimitAssumption DEF Fresh, DepthsMatch
  <1>8. CASE ExecRejected \/ ExecTimesOut
    BY <1>8 DEF ExecRejected, ExecTimesOut
  <1>9. QED
    BY <1>1, <1>2, <1>3, <1>4, <1>5, <1>6, <1>7, <1>8, NestStep

-----------------------------------------------------------------------------
(* The trap flag.  A trap fires only while the flag is down, so at most one *)
(* is live; ending it takes the flag down again.  Only dropping the frame   *)
(* by a timeout can leave the flag up.                                      *)

NothingDropped == Features \cap {"timeout", "exec_timeout"} = {}

TrapInv ==
  /\ Live({"trap"}) <= 1
  /\ Live({"trap"}) = 1 => shell.in_trap
  /\ NothingDropped /\ shell.in_trap => Live({"trap"}) = 1

LEMMA TrapPop ==
  ASSUME TypeInv, TrapInv, mode # "idle", stack' = ButLast(stack),
         shell' = Restored(Top, shell) \/ shell' = RestoredOnError(Top, shell)
  PROVE  TrapInv'
  <1>a. shell \in ShellState /\ Top \in Frames
    BY TopType DEF TypeInv, TypeOK
  <1>1. shell'.in_trap = IF Top.kind = "trap" THEN FALSE ELSE shell.in_trap
    <2>1. Restored(Top, shell).in_trap =
            IF Top.kind = "trap" THEN FALSE ELSE shell.in_trap
      BY <1>a, RestoredFields
    <2>2. RestoredOnError(Top, shell).in_trap =
            IF Top.kind = "trap" THEN FALSE ELSE shell.in_trap
      <3>1. CASE Top.kind \in LeavesAll
        <4>1. RestoredOnError(Top, shell) = shell /\ Top.kind # "trap"
          BY <3>1 DEF RestoredOnError, LeavesAll
        <4>2. QED
          BY <4>1
      <3>2. CASE Top.kind = "source"
        BY <1>a, <3>2, RestoredOnErrorFields
      <3>3. CASE Top.kind \notin LeavesAll \cup {"source"}
        <4>1. RestoredOnError(Top, shell) = Restored(Top, shell)
          BY <3>3 DEF RestoredOnError, LeavesAll
        <4>2. QED
          BY <2>1, <4>1
      <3>4. QED
        BY <3>1, <3>2, <3>3
    <2>3. QED
      BY <2>1, <2>2
  <1>2. /\ Live({"trap"})' = Live({"trap"}) - One(Top.kind \in {"trap"})
        /\ Live({"trap"}) \in Nat
        /\ Top.kind \in {"trap"} => Live({"trap"}) >= 1
    BY LivePop, LiveType, LiveTop
  <1>3. CASE Top.kind = "trap"
    <2>1. Live({"trap"})' = 0 /\ shell'.in_trap = FALSE
      BY <1>1, <1>2, <1>3 DEF TrapInv, One
    <2>2. QED
      BY <2>1 DEF TrapInv, NothingDropped
  <1>4. CASE Top.kind # "trap"
    <2>1. Live({"trap"})' = Live({"trap"}) /\ shell'.in_trap = shell.in_trap
      BY <1>1, <1>2, <1>4 DEF One
    <2>2. QED
      BY <2>1 DEF TrapInv, NothingDropped
  <1>5. QED
    BY <1>3, <1>4

LEMMA TrapStep ==
  ASSUME TypeInv, TypeInv', KindsInv, TrapInv, [Next]_vars
  PROVE  TrapInv'
  <1> DEFINE n == Live({"trap"})
  <1>a. n \in Nat
    BY LiveType
  <1>b. ASSUME n' <= n, n' \in Nat, shell'.in_trap = shell.in_trap,
               n' = n \/ ~NothingDropped
        PROVE  TrapInv'
    <2> HIDE DEF n
    <2>1. n' <= 1 /\ (n' = 1 => shell'.in_trap)
      BY <1>a, <1>b DEF TrapInv, n
    <2>2. NothingDropped /\ shell'.in_trap => n' = 1
      BY <1>a, <1>b DEF TrapInv, n
    <2>3. QED
      BY <2>1, <2>2 DEF TrapInv, NothingDropped, n
  <1>c. shell \in ShellState /\ n' \in Nat
    BY LiveTypeNext DEF TypeInv, TypeOK
  <1>1. CASE Idles
    BY <1>1 DEF Idles, TrapInv, Live, NothingDropped
  <1>2. CASE Stays
    <2>1. n' = n /\ shell'.in_trap = shell.in_trap
      BY <1>2, LiveStay DEF Stays, Near
    <2> HIDE DEF n
    <2>2. n' <= n /\ n' \in Nat
      BY <1>a, <2>1
    <2>3. QED
      BY <1>b, <2>1, <2>2
  <1>3. ASSUME NEW f, Pushes(f)
        PROVE  TrapInv'
    <2>1. /\ n' = n + One(f.kind \in {"trap"})
          /\ IF f.kind = "trap" THEN ~shell.in_trap /\ shell'.in_trap
             ELSE shell'.in_trap = shell.in_trap
      BY <1>3, LivePush DEF Pushes, Pushed
    <2> HIDE DEF n
    <2>2. CASE f.kind = "trap"
      <3>1. n # 1 /\ n <= 1
        BY <1>a, <2>1, <2>2 DEF TrapInv, n
      <3>2. n' = 1 /\ shell'.in_trap
        BY <1>a, <2>1, <2>2, <3>1 DEF One
      <3>3. QED
        BY <3>2 DEF TrapInv, n
    <2>3. CASE f.kind # "trap"
      <3>1. n' = n + 0 /\ shell'.in_trap = shell.in_trap
        BY <2>1, <2>3 DEF One
      <3>2. n' = n /\ n' <= n /\ n' \in Nat
        BY <1>a, <3>1
      <3>3. QED
        BY <1>b, <3>1, <3>2
    <2>4. QED
      BY <2>2, <2>3
  <1>4. CASE Returned
    BY <1>4, TrapPop DEF Returned, Running
  <1>5. CASE ErrorPropagates
    <2>1. /\ mode # "idle" /\ stack' = ButLast(stack)
          /\ shell' = Restored(Top, shell) \/ shell' = RestoredOnError(Top, shell)
      BY <1>5 DEF ErrorPropagates
    <2>2. QED
      BY <2>1, TrapPop
  <1>6. ASSUME NEW i \in DOMAIN stack, TimeoutElapses(i)
        PROVE  TrapInv'
    <2>1. stack' = SubSeq(stack, 1, i - 1)
      BY <1>6 DEF TimeoutElapses
    <2>2. n' <= n
      BY <2>1, LiveDrop
    <2>3. shell'.in_trap = shell.in_trap
      BY <1>6, <1>c DEF TimeoutElapses, ShellState
    <2>4. ~NothingDropped
      BY <1>6 DEF TimeoutElapses, KindsInv, NothingDropped
    <2> HIDE DEF n
    <2>5. QED
      BY <1>b, <1>c, <2>2, <2>3, <2>4
  <1>7. CASE Exec
    <2>1. mode = "idle" /\ stack = <<>>
      BY <1>7 DEF Exec, TypeInv
    <2>2. shell'.in_trap = shell.in_trap
      BY <1>7, <1>c DEF Exec, ShellState
    <2>3. CASE UNCHANGED stack
      <3>1. n' = n
        BY <2>3 DEF Live
      <3> HIDE DEF n
      <3>2. n' <= n
        BY <1>a, <3>1
      <3>3. QED
        BY <1>b, <1>c, <2>2, <3>1, <3>2
    <2>4. CASE Call(Frame("exec"))
      <3>1. n' = n + One(Frame("exec").kind \in {"trap"})
        BY <2>4, LivePush
      <3>2. Frame("exec").kind = "exec"
        BY DEF Frame
      <3> HIDE DEF n
      <3>3. n' = n + 0
        BY <3>1, <3>2 DEF One
      <3>4. n' = n /\ n' <= n
        BY <1>a, <3>3
      <3>5. QED
        BY <1>b, <1>c, <2>2, <3>4
    <2>5. QED
      BY <1>7, <2>3, <2>4 DEF Exec
  <1>8. CASE ExecRejected
    <2>1. n' = n /\ shell'.in_trap = shell.in_trap
      BY <1>8, <1>c DEF ExecRejected, ShellState, Live
    <2> HIDE DEF n
    <2>2. n' <= n
      BY <1>a, <2>1
    <2>3. QED
      BY <1>b, <1>c, <2>1, <2>2
  <1>9. CASE ExecTimesOut
    <2>1. stack' = <<>> /\ ~NothingDropped /\ shell'.in_trap = shell.in_trap
      BY <1>9, <1>c DEF ExecTimesOut, NothingDropped, ShellState
    <2>2. n' = 0
      <3>1. Count(stack', {"trap"}) = 0
        BY <2>1, CountEmpty
      <3>2. QED
        BY <3>1 DEF Live, Count
    <2> HIDE DEF n
    <2>3. n' <= n
      BY <1>a, <2>2
    <2>4. QED
      BY <1>b, <1>c, <2>1, <2>3
  <1>10. QED
    BY <1>1, <1>2, <1>3, <1>4, <1>5, <1>6, <1>7, <1>8, <1>9, NestStep

-----------------------------------------------------------------------------
(* The loop limit.  A loop whose tick was refused is on its way out, so the *)
(* loops that are still open have not been refused; those that have left    *)
(* have been refused at most once each, and each had been begun by a        *)
(* command.                                                                 *)

Refused == IF mode = "err" /\ Top.kind = "loop" THEN 1 ELSE 0

LoopsMatch ==
  /\ work.loops = counters.total_loop_iterations
  /\ Live({"loop"}) <= work.commands
  /\ counters.total_loop_iterations
       <= MaxTotalLoopIterations + work.commands - Live({"loop"}) + Refused

LoopInv == Features \cap Resets = {} => LoopsMatch

LEMMA WorkFields ==
  ASSUME TypeInv
  PROVE  /\ work.commands \in Nat /\ work.loops \in Nat
         /\ counters.total_loop_iterations \in Nat
         /\ Live({"loop"}) \in Nat
         /\ Refused \in 0 .. 1 /\ (mode # "err" => Refused = 0)
  BY LiveType, DepthFields DEF TypeInv, TypeOK, Work, Refused

LEMMA WorkFieldsNext ==
  ASSUME TypeInv'
  PROVE  /\ work'.commands \in Nat /\ work'.loops \in Nat
         /\ counters'.total_loop_iterations \in Nat
         /\ Live({"loop"})' \in Nat
         /\ Refused' \in 0 .. 1
  BY LiveTypeNext, DepthFields DEF TypeInv, TypeOK, Work, Refused

(* Ending calls ticks nothing, and a refusal leaves with its loop. *)
LEMMA LoopEnd ==
  ASSUME TypeInv, TypeInv', LoopsMatch,
         counters'.total_loop_iterations = counters.total_loop_iterations,
         work'.loops = work.loops, work'.commands = work.commands,
         Live({"loop"})' <= Live({"loop"}) - Refused
  PROVE  LoopsMatch'
  <1>1. /\ work'.loops = counters'.total_loop_iterations
        /\ Live({"loop"})' <= work'.commands
    BY WorkFields, WorkFieldsNext DEF LoopsMatch
  <1>2. counters'.total_loop_iterations
          <= MaxTotalLoopIterations + work'.commands - Live({"loop"})' + Refused'
    <2> DEFINE n == Live({"loop"})
               m == n'
               t == counters.total_loop_iterations
               c == work.commands
               r == Refused
               q == Refused'
    <2>1. /\ t <= MaxTotalLoopIterations + c - n + r /\ m <= n - r
          /\ t \in Nat /\ c \in Nat /\ n \in Nat /\ m \in Nat
          /\ r \in 0 .. 1 /\ q \in 0 .. 1 /\ MaxTotalLoopIterations \in Nat
      BY WorkFields, WorkFieldsNext, LimitAssumption DEF LoopsMatch
    <2> HIDE DEF n, m, t, c, r, q
    <2>2. t <= MaxTotalLoopIterations + c - m + q
      BY <2>1
    <2>3. QED
      BY <2>2 DEF n, m, t, c, q
  <1>3. QED
    BY <1>1, <1>2 DEF LoopsMatch

LEMMA LoopPop ==
  ASSUME TypeInv, TypeInv', LoopsMatch, mode # "idle", stack' = ButLast(stack),
         \/ counters' = CountersAfter(Top, counters)
         \/ counters' = CountersAfterError(Top, counters),
         work'.loops = work.loops, work'.commands = work.commands
  PROVE  LoopsMatch'
  <1>a. counters \in Counters /\ Top \in Frames
    BY TopType DEF TypeInv, TypeOK
  <1>1. counters'.total_loop_iterations = counters.total_loop_iterations
    <2>1. CASE counters' = CountersAfter(Top, counters)
      BY <1>a, <2>1, DepthsAfter
    <2>2. CASE counters' = CountersAfterError(Top, counters)
      BY <1>a, <2>1, <2>2 DEF CountersAfterError
    <2>3. QED
      BY <2>1, <2>2
  <1>2. Live({"loop"})' = Live({"loop"}) - One(Top.kind \in {"loop"})
    BY LivePop
  <1>3. Live({"loop"})' <= Live({"loop"}) - Refused
    <2>1. CASE Top.kind = "loop"
      BY <1>2, <2>1, WorkFields DEF One
    <2>2. CASE Top.kind # "loop"
      BY <1>2, <2>2, WorkFields DEF One, Refused
    <2>3. QED
      BY <2>1, <2>2
  <1>4. QED
    BY <1>1, <1>3, LoopEnd

(* A step of the running call: what it ticks beyond the limit is refused.   *)
LEMMA LoopRun ==
  ASSUME TypeInv, TypeInv', LoopsMatch, mode = "run",
         NEW t \in 0 .. 1, NEW p \in 0 .. 1,
         counters'.total_loop_iterations = counters.total_loop_iterations + t,
         work'.loops = work.loops + t,
         Live({"loop"})' = Live({"loop"}) + p,
         work'.commands >= work.commands + p,
         \/ t = 0
         \/ counters'.total_loop_iterations <= MaxTotalLoopIterations
         \/ Refused' = 1
  PROVE  LoopsMatch'
  <1> DEFINE n == Live({"loop"})
             m == n'
             c == work.commands
             d == work'.commands
             u == counters.total_loop_iterations
             v == counters'.total_loop_iterations
             q == Refused'
             max == MaxTotalLoopIterations
  <1>1. /\ n \in Nat /\ m \in Nat /\ c \in Nat /\ d \in Nat /\ u \in Nat
        /\ v \in Nat /\ q \in 0 .. 1 /\ max \in Nat
        /\ v = u + t /\ m = n + p /\ d >= c + p
        /\ n <= c /\ u <= max + c - n
        /\ t = 0 \/ v <= max \/ q = 1
    BY WorkFields, WorkFieldsNext, LimitAssumption DEF LoopsMatch
  <1>2. work'.loops = v
    BY DEF LoopsMatch
  <1> HIDE DEF n, m, c, d, u, v, q, max
  <1>3. m <= d /\ v <= max + d - m + q
    BY <1>1
  <1>4. QED
    BY <1>2, <1>3 DEF LoopsMatch, n, m, d, v, q, max

LEMMA LoopStep ==
  ASSUME TypeInv, TypeInv', LoopInv, [Next]_vars
  PROVE  LoopInv'
  <1> SUFFICES ASSUME Features \cap Resets = {}
               PROVE  LoopsMatch'
    BY DEF LoopInv
  <1>a. LoopsMatch
    BY DEF LoopInv
  <1>b. /\ stack \in Seq(Frames) /\ counters \in Counters /\ work \in Work
        /\ stack' \in Seq(Frames)
    BY DEF TypeInv, TypeOK
  <1>c. 0 \in 0 .. 1 /\ 1 \in 0 .. 1
    OBVIOUS
  <1>1. CASE Idles
    BY <1>1, <1>a DEF Idles, LoopsMatch, Live, Refused, Top
  <1>2. CASE Stays
    <2>1. /\ mode = "run" /\ work'.commands >= work.commands + 0
          /\ Live({"loop"})' = Live({"loop"}) + 0
      BY <1>2, LiveStay, WorkFields, WorkFieldsNext DEF Stays
    <2>2. CASE SameDepths(counters', counters) /\ work'.loops = work.loops
      <3>1. /\ counters'.total_loop_iterations = counters.total_loop_iterations + 0
            /\ work'.loops = work.loops + 0
        BY <2>2, WorkFields DEF SameDepths
      <3>2. QED
        BY <1>a, <1>c, <2>1, <3>1, LoopRun
    <2>3. CASE /\ Top.kind = "loop" /\ counters' = TickLoop(counters)
               /\ mode' = "run" => counters'.total_loop_iterations <= MaxTotalLoopIterations
               /\ work'.loops = work.loops + 1
      <3>1. counters'.total_loop_iterations = counters.total_loop_iterations + 1
        BY <1>b, <2>3, TickLoopDepths
      <3>2. mode' # "run" => Refused' = 1
        <4> SUFFICES ASSUME mode' # "run"
                     PROVE  Refused' = 1
          OBVIOUS
        <4>1. mode' = "err" /\ Len(stack') = Len(stack)
          BY <1>2 DEF Stays
        <4>2. Len(stack) \in 1 .. Len(stack) /\ Top \in Frames
          BY <2>1, TopType
        <4>3. stack'[Len(stack')].kind = stack[Len(stack)].kind
          BY <1>2, <4>1, <4>2, SameCallFields DEF Stays, Top
        <4>4. QED
          BY <2>3, <4>1, <4>3 DEF Refused, Top
      <3>3. QED
        BY <1>a, <1>c, <2>1, <2>3, <3>1, <3>2, LoopRun
    <2>4. QED
      BY <1>2, <2>2, <2>3 DEF Stays
  <1>3. ASSUME NEW f, Pushes(f)
        PROVE  LoopsMatch'
    <2>1. /\ mode = "run" /\ Call(f) /\ f.kind \notin Resets
          /\ work'.commands = work.commands + One(f.kind # "pipe")
      BY <1>3 DEF Pushes, Call
    <2>2. Deeper(f.kind) /\ work'.loops = work.loops + One(f.kind = "loop")
      BY <1>3, <2>1 DEF Pushes
    <2>3. Live({"loop"})' = Live({"loop"}) + One(f.kind \in {"loop"})
      BY <2>1, LivePush
    <2>4. CASE f.kind = "loop"
      <3>1. /\ counters'.total_loop_iterations = counters.total_loop_iterations + 1
            /\ work'.loops = work.loops + 1
            /\ Live({"loop"})' = Live({"loop"}) + 1
            /\ mode' = "run" => counters'.total_loop_iterations <= MaxTotalLoopIterations
        BY <2>2, <2>3, <2>4 DEF Deeper, One
      <3>2. work'.commands >= work.commands + 1
        BY <2>1, <2>4, WorkFields DEF One
      <3>3. mode' # "run" => Refused' = 1
        <4>1. Len(stack') = Len(stack) + 1 /\ stack'[Len(stack) + 1] = f
          BY <1>b, <2>1, CallGrows
        <4>2. stack'[Len(stack')].kind = "loop"
          BY <2>4, <4>1
        <4>3. QED
          BY <1>3, <4>2 DEF Pushes, Refused, Top
      <3>4. QED
        BY <1>a, <1>c, <2>1, <3>1, <3>2, <3>3, LoopRun
    <2>5. CASE f.kind # "loop"
      <3>1. /\ counters'.total_loop_iterations = counters.total_loop_iterations + 0
            /\ work'.loops = work.loops + 0
            /\ Live({"loop"})' = Live({"loop"}) + 0
        BY <2>2, <2>3, <2>5 DEF Deeper, One
      <3>2. work'.commands >= work.commands + 0
        BY <2>1, WorkFields DEF One
      <3>3. QED
        BY <1>a, <1>c, <2>1, <3>1, <3>2, LoopRun
    <2>6. QED
      BY <2>4, <2>5
  <1>4. CASE Returned
    <2>1. /\ mode # "idle" /\ stack' = ButLast(stack)
          /\ counters' = CountersAfter(Top, counters) /\ UNCHANGED work
      BY <1>4 DEF Returned, Running
    <2>2. QED
      BY <1>a, <2>1, LoopPop
  <1>5. CASE ErrorPropagates
    <2>1. /\ mode # "idle" /\ stack' = ButLast(stack)
          /\ \/ counters' = CountersAfter(Top, counters)
             \/ counters' = CountersAfterError(Top, counters)
          /\ work' = [work EXCEPT !.clean = FALSE]
      BY <1>5 DEF ErrorPropagates
    <2>2. work'.loops = work.loops /\ work'.commands = work.commands
      BY <1>b, <2>1 DEF Work
    <2>3. QED
      BY <1>a, <2>1, <2>2, LoopPop
  <1>6. ASSUME NEW i \in DOMAIN stack, TimeoutElapses(i)
        PROVE  LoopsMatch'
    <2>1. /\ stack' = SubSeq(stack, 1, i - 1) /\ mode = "run"
          /\ work' = [work EXCEPT !.clean = FALSE]
          /\ \E n : counters' = PopFunction(counters, n)
      BY <1>6 DEF TimeoutElapses, Running
    <2>2. /\ work'.loops = work.loops /\ work'.commands = work.commands
          /\ counters'.total_loop_iterations = counters.total_loop_iterations
      BY <1>b, <2>1 DEF Work, PopFunction, Counters
    <2>3. Live({"loop"})' <= Live({"loop"}) - Refused
      <3>1. Live({"loop"})' <= Live({"loop"})
        BY <2>1, LiveDrop
      <3>2. Refused = 0 /\ Live({"loop"}) \in Nat /\ Live({"loop"})' \in Nat
        BY <2>1, WorkFields, WorkFieldsNext
      <3>3. QED
        BY <3>1, <3>2
    <2>4. QED
      BY <1>a, <2>2, <2>3, LoopEnd
  <1>7. CASE Exec
    <2>1. /\ mode = "idle" /\ counters' = StartExecute(counters)
          /\ work' = [work EXCEPT !.commands = 0, !.loops = 0]
          /\ stack = <<>>
      BY <1>7 DEF Exec, TypeInv
    <2>2. work'.commands = 0 /\ work'.loops = 0
      BY <1>b, <2>1 DEF Work
    <2>3. counters'.total_loop_iterations = 0
      BY <1>b, <2>1, DepthCounts DEF Fresh
    <2>4. Live({"loop"})' = 0
      <3>1. Live({"loop"}) = 0
        BY <2>1, LiveNone
      <3>2. CASE UNCHANGED stack
        BY <3>1, <3>2 DEF Live
      <3>3. CASE Call(Frame("exec"))
        <4>1. Live({"loop"})' = Live({"loop"}) + One(Frame("exec").kind \in {"loop"})
          BY <3>3, LivePush
        <4>2. Frame("exec").kind = "exec"
          BY DEF Frame
        <4>3. QED
          BY <3>1, <4>1, <4>2 DEF One
      <3>4. QED
        BY <1>7, <3>2, <3>3 DEF Exec
    <2>5. QED
      BY <2>2, <2>3, <2>4, WorkFieldsNext, LimitAssumption DEF LoopsMatch
  <1>8. CASE ExecRejected
    <2>1. UNCHANGED <<mode, stack, counters, work>>
      BY <1>8 DEF ExecRejected
    <2>2. QED
      BY <1>a, <2>1 DEF LoopsMatch, Live, Refused, Top
  <1>9. CASE ExecTimesOut
    <2>1. /\ stack' = <<>> /\ mode = "run" /\ UNCHANGED counters
          /\ work' = [work EXCEPT !.clean = FALSE]
      BY <1>9 DEF ExecTimesOut, Running
    <2>2. work'.loops = work.loops /\ work'.commands = work.commands
      BY <1>b, <2>1 DEF Work
    <2>3. Live({"loop"})' = 0
      <3>1. Count(stack', {"loop"}) = 0
        BY <2>1, CountEmpty
      <3>2. QED
        BY <3>1 DEF Live, Count
    <2>4. Live({"loop"})' <= Live({"loop"}) - Refused
      BY <2>1, <2>3, WorkFields
    <2>5. QED
      BY <1>a, <2>1, <2>2, <2>4, LoopEnd
  <1>10. QED
    BY <1>1, <1>2, <1>3, <1>4, <1>5, <1>6, <1>7, <1>8, <1>9, NestStep

-----------------------------------------------------------------------------
(* Unwinding.  h remembers the shell in which each call of the nest started *)
(* its commands: h[1] is the shell of the idle interpreter, h[i + 1] the    *)
(* one that the i-th call set up.  Ending the i-th call leads from a shell  *)
(* near h[i + 1] to one near h[i], so ending all of them leads back to a    *)
(* shell near h[1].                                                         *)

Links(h) ==
  /\ h \in Seq(ShellState) /\ Len(h) = Len(stack) + 1
  /\ h[1].call_stack = <<>> /\ h[1].bash_source = 0 /\ ~h[1].in_trap
  /\ h[1].capture_depth = 0 /\ h[1].stdin = NoStdin
  /\ \A i \in 1 .. Len(stack) :
       /\ Near(Restored(stack[i], h[i + 1]), h[i], work.clean)
       /\ Near(RestoredOnError(stack[i], h[i + 1]), h[i], FALSE)
  /\ Near(shell, h[Len(stack) + 1], work.clean /\ mode # "err")

UnwindInv == NothingDropped \/ work.clean => \E h : Links(h)

(* The EXIT trap's mark plays no part in what a frame restores. *)
LEMMA SameCallRestored ==
  ASSUME NEW g \in Frames, NEW f, SameCall(f, g), NEW sh \in ShellState
  PROVE  /\ Restored(f, sh) = Restored(g, sh)
         /\ RestoredOnError(f, sh) = RestoredOnError(g, sh)
  <1>1. /\ f.kind = g.kind /\ f.scope = g.scope /\ f.call_stack = g.call_stack
        /\ f.bash_source = g.bash_source /\ f.stdin = g.stdin
        /\ f.args = g.args /\ f.input = g.input /\ f.callback = g.callback
        /\ f.captured = g.captured /\ f.file = g.file
    BY DEF SameCall, Frames
  <1>2. /\ ExecRestores(f, sh) = ExecRestores(g, sh)
        /\ StdinRestores(f, sh) = StdinRestores(g, sh)
        /\ RedirectRestores(f, sh) = RedirectRestores(g, sh)
        /\ SubshellRestores(f, sh) = SubshellRestores(g, sh)
        /\ SubstRestores(f, sh) = SubstRestores(g, sh)
    BY <1>1, Zenon
    DEF ExecRestores, StdinRestores, RedirectRestores, SubshellRestores,
        SubstRestores
  <1>3. /\ FunctionRestores(f, sh) = FunctionRestores(g, sh)
        /\ SourceRestores(f, sh) = SourceRestores(g, sh)
        /\ ShellRestores(f, sh) = ShellRestores(g, sh)
        /\ ScriptRestores(f, sh) = ScriptRestores(g, sh)
        /\ TrapRestores(f, sh) = TrapRestores(g, sh)
    BY <1>1, Zenon
    DEF FunctionRestores, SourceRestores, SourceRestoresArgs, ShellRestores,
        ScriptRestores, TrapRestores
  <1>4. Restored(f, sh) = Restored(g, sh)
    BY <1>1, <1>2, <1>3, Zenon DEF Restored
  <1>5. QED
    BY <1>1, <1>4, Zenon DEF RestoredOnError

(* The types of everything a link speaks of. *)
LEMMA LinkTypes ==
  ASSUME TypeInv, NEW h, Links(h), NEW i \in 1 .. Len(stack)
  PROVE  /\ stack[i] \in Frames /\ WellFormed(stack[i])
         /\ h[i] \in ShellState /\ h[i + 1] \in ShellState
         /\ Restored(stack[i], h[i + 1]) \in ShellState
         /\ RestoredOnError(stack[i], h[i + 1]) \in ShellState
  <1>1. /\ stack \in Seq(Frames) /\ h \in Seq(ShellState)
        /\ Len(h) = Len(stack) + 1
        /\ \A j \in DOMAIN stack : WellFormed(stack[j])
    BY DEF TypeInv, TypeOK, StackWellFormed, Links
  <1>2. i \in 1 .. Len(h) /\ i + 1 \in 1 .. Len(h) /\ i \in DOMAIN stack
    BY <1>1
  <1>3. /\ stack[i] \in Frames /\ h[i] \in ShellState /\ h[i + 1] \in ShellState
    BY <1>1, <1>2
  <1>4. QED
    BY <1>1, <1>2, <1>3, RestoredType

(* A call whose change is undone at its end adds one link. *)
LEMMA LinksPush ==
  ASSUME TypeInv, TypeInv', NEW h, Links(h), mode # "err", NEW f, Call(f),
         Pushed(f, shell', shell), work'.clean = work.clean,
         NEW g, g = Append(h, shell')
  PROVE  Links(g)'
  <1> DEFINE n == Len(stack)
  <1>a. /\ stack \in Seq(Frames) /\ stack' \in Seq(Frames) /\ n \in Nat
        /\ shell \in ShellState /\ shell' \in ShellState
        /\ work.clean \in BOOLEAN
    BY DEF TypeInv, TypeOK, Work
  <1>b. /\ Len(stack') = n + 1 /\ stack'[n + 1] = f
        /\ \A i \in 1 .. n : stack'[i] = stack[i]
    BY <1>a, CallGrows
  <1>c. f \in Frames /\ WellFormed(f)
    <2>1. n + 1 \in DOMAIN stack'
      BY <1>a, <1>b
    <2>2. QED
      BY <1>a, <1>b, <2>1 DEF TypeInv, StackWellFormed
  <1>d. h \in Seq(ShellState) /\ Len(h) = n + 1
    BY DEF Links
  <1>1. /\ g \in Seq(ShellState) /\ Len(g) = n + 2 /\ g[n + 2] = shell'
        /\ \A i \in 1 .. n + 1 : g[i] = h[i]
    BY <1>a, <1>d
  <1>2. h[n + 1] \in ShellState
    BY <1>a, <1>d
  <1>3. Undone(f, shell', shell)
    BY <1>a, <1>c, PushedUndone
  <1>4. /\ Restored(f, shell') \in ShellState
        /\ RestoredOnError(f, shell') \in ShellState
    BY <1>a, <1>c, RestoredType
  <1>5. Near(shell, h[n + 1], work.clean)
    BY <1>a DEF Links
  <1>6. Near(Restored(f, shell'), h[n + 1], work.clean)
    <2>1. Near(Restored(f, shell'), shell, TRUE)
      BY <1>3 DEF Undone
    <2>2. QED
      BY <1>5, <2>1 DEF Near
  <1>7. Near(RestoredOnError(f, shell'), h[n + 1], FALSE)
    <2>1. Near(RestoredOnError(f, shell'), shell, FALSE)
      BY <1>3 DEF Undone
    <2>2. QED
      BY <1>5, <2>1 DEF Near
  <1>8. ASSUME NEW i \in 1 .. Len(stack')
        PROVE  /\ Near(Restored(stack'[i], g[i + 1]), g[i], work'.clean)
               /\ Near(RestoredOnError(stack'[i], g[i + 1]), g[i], FALSE)
    <2>1. CASE i = n + 1
      <3>1. stack'[i] = f /\ g[i + 1] = shell' /\ g[i] = h[n + 1]
        BY <1>a, <1>b, <1>1, <2>1
      <3>2. QED
        BY <1>6, <1>7, <3>1
    <2>2. CASE i # n + 1
      <3>1. i \in 1 .. n
        BY <1>a, <1>b, <2>2
      <3>2. /\ stack'[i] = stack[i] /\ g[i + 1] = h[i + 1] /\ g[i] = h[i]
        BY <1>a, <1>b, <1>1, <3>1
      <3>3. QED
        BY <3>1, <3>2 DEF Links
    <2>3. QED
      BY <2>1, <2>2
  <1>9. Near(shell', g[Len(stack') + 1], (work.clean /\ mode # "err")')
    <2>1. g[Len(stack') + 1] = shell'
      BY <1>a, <1>b, <1>1
    <2>2. QED
      BY <2>1, NearReflexive
  <1>10. g[1] = h[1] /\ Len(g) = Len(stack') + 1
    BY <1>a, <1>b, <1>1
  <1>11. /\ h[1].call_stack = <<>> /\ h[1].bash_source = 0 /\ ~h[1].in_trap
         /\ h[1].capture_depth = 0 /\ h[1].stdin = NoStdin
    BY DEF Links
  <1>12. QED
    BY <1>1, <1>8, <1>9, <1>10, <1>11 DEF Links

(* Steps that leave the nest alone keep the links. *)
LEMMA LinksStay ==
  ASSUME TypeInv, TypeInv', NEW h, Links(h), mode # "err",
         Len(stack') = Len(stack),
         \A i \in 1 .. Len(stack) : SameCall(stack'[i], stack[i]),
         work'.clean = work.clean, Near(shell', shell, mode' # "err")
  PROVE  Links(h)'
  <1>a. /\ stack \in Seq(Frames) /\ Len(stack) \in Nat
        /\ shell \in ShellState /\ shell' \in ShellState
        /\ work.clean \in BOOLEAN
    BY DEF TypeInv, TypeOK, Work
  <1>1. ASSUME NEW i \in 1 .. Len(stack')
        PROVE  /\ Near(Restored(stack'[i], h[i + 1]), h[i], work'.clean)
               /\ Near(RestoredOnError(stack'[i], h[i + 1]), h[i], FALSE)
    <2>1. i \in 1 .. Len(stack)
      OBVIOUS
    <2>2. /\ Restored(stack'[i], h[i + 1]) = Restored(stack[i], h[i + 1])
          /\ RestoredOnError(stack'[i], h[i + 1]) = RestoredOnError(stack[i], h[i + 1])
      BY <2>1, LinkTypes, SameCallRestored
    <2>3. QED
      BY <2>1, <2>2 DEF Links
  <1>2. h[Len(stack) + 1] \in ShellState
    BY <1>a DEF Links
  <1>3. Near(shell, h[Len(stack) + 1], work.clean)
    BY <1>a DEF Links
  <1>4. Near(shell', h[Len(stack) + 1], (work.clean /\ mode # "err")')
    <2>1. CASE mode' # "err"
      <3>1. Near(shell', shell, TRUE)
        BY <2>1 DEF Near
      <3>2. Near(shell', h[Len(stack) + 1], work.clean)
        BY <1>3, <3>1 DEF Near
      <3>3. QED
        BY <2>1, <3>2 DEF Near
    <2>2. CASE mode' = "err"
      <3>1. Near(shell', shell, FALSE)
        BY <2>2 DEF Near
      <3>2. Near(shell', h[Len(stack) + 1], FALSE)
        BY <1>3, <3>1 DEF Near
      <3>3. QED
        BY <2>2, <3>2 DEF Near
    <2>3. QED
      BY <2>1, <2>2
  <1>5. Near(shell', h[Len(stack') + 1], (work.clean /\ mode # "err")')
    BY <1>4
  <1>6. /\ h \in Seq(ShellState) /\ Len(h) = Len(stack') + 1
        /\ h[1].call_stack = <<>> /\ h[1].bash_source = 0 /\ ~h[1].in_trap
        /\ h[1].capture_depth = 0 /\ h[1].stdin = NoStdin
    BY DEF Links
  <1>7. QED
    BY <1>1, <1>5, <1>6 DEF Links

LEMMA RestoredNear ==
  ASSUME NEW f \in Frames, NEW a \in ShellState, NEW b \in ShellState
  PROVE  /\ Near(a, b, TRUE) => Near(Restored(f, a), Restored(f, b), TRUE)
         /\ Near(a, b, FALSE) =>
              /\ Near(Restored(f, a), Restored(f, b), FALSE)
              /\ Near(RestoredOnError(f, a), RestoredOnError(f, b), FALSE)
  <1>1. TRUE \in BOOLEAN /\ FALSE \in BOOLEAN
    OBVIOUS
  <1>2. QED
    BY <1>1, RestoredMonotone, Zenon

(* Ending the top call goes back over its link. *)
LEMMA LinksPop ==
  ASSUME TypeInv, TypeInv', NEW h, Links(h), mode # "idle",
         stack' = ButLast(stack),
         \/ /\ mode = "run" /\ work'.clean = work.clean
            /\ shell' = Restored(Top, shell)
         \/ /\ work'.clean = FALSE
            /\ shell' \in {Restored(Top, shell), RestoredOnError(Top, shell)},
         NEW g, g = ButLast(h)
  PROVE  Links(g)'
  <1> DEFINE n == Len(stack)
  <1>a. /\ stack \in Seq(Frames) /\ stack # <<>> /\ Top \in Frames
        /\ shell \in ShellState /\ shell' \in ShellState
        /\ work.clean \in BOOLEAN
    BY TopType DEF TypeInv, TypeOK, Work
  <1>b. /\ Len(stack') = n - 1 /\ n \in Nat \ {0} /\ n \in 1 .. n
        /\ \A i \in 1 .. n - 1 : stack'[i] = stack[i]
    BY <1>a, ButLastProperties
  <1>c. h \in Seq(ShellState) /\ Len(h) = n + 1 /\ h # <<>>
    BY <1>b DEF Links
  <1>1. /\ g \in Seq(ShellState) /\ Len(g) = n
        /\ \A i \in 1 .. n : g[i] = h[i]
    BY <1>b, <1>c, ButLastProperties
  <1>2. /\ h[n] \in ShellState /\ h[n + 1] \in ShellState
    BY <1>b, LinkTypes
  <1>3. /\ Near(Restored(Top, h[n + 1]), h[n], work.clean)
        /\ Near(RestoredOnError(Top, h[n + 1]), h[n], FALSE)
        /\ Near(shell, h[n + 1], work.clean /\ mode # "err")
    BY <1>b DEF Links, Top
  <1>4. Near(shell', h[n], (work.clean /\ mode # "err")')
    <2>1. Near(shell, h[n + 1], FALSE)
      BY <1>3 DEF Near
    <2>2. Near(Restored(Top, h[n + 1]), h[n], FALSE)
      BY <1>3 DEF Near
    <2>3. /\ Near(Restored(Top, shell), Restored(Top, h[n + 1]), FALSE)
          /\ Near(RestoredOnError(Top, shell), RestoredOnError(Top, h[n + 1]), FALSE)
      BY <1>a, <1>2, <2>1, RestoredNear
    <2>4. Near(shell', h[n], FALSE)
      <3>1. CASE shell' = Restored(Top, shell)
        BY <2>2, <2>3, <3>1 DEF Near
      <3>2. CASE shell' = RestoredOnError(Top, shell)
        BY <1>3, <2>3, <3>2 DEF Near
      <3>3. QED
        BY <3>1, <3>2
    <2>5. CASE work'.clean
      <3>1. work.clean /\ mode # "err" /\ shell' = Restored(Top, shell)
        BY <2>5
      <3>2. Near(shell, h[n + 1], TRUE) /\ Near(Restored(Top, h[n + 1]), h[n], TRUE)
        BY <1>3, <3>1 DEF Near
      <3>3. Near(Restored(Top, shell), Restored(Top, h[n + 1]), TRUE)
        BY <1>a, <1>2, <3>2, RestoredNear
      <3>4. QED
        BY <3>1, <3>2, <3>3 DEF Near
    <2>6. CASE ~work'.clean
      BY <2>4, <2>6 DEF Near
    <2>7. QED
      BY <2>5, <2>6
  <1>5. ASSUME NEW i \in 1 .. Len(stack')
        PROVE  /\ Near(Restored(stack'[i], g[i + 1]), g[i], work'.clean)
               /\ Near(RestoredOnError(stack'[i], g[i + 1]), g[i], FALSE)
    <2>1. i \in 1 .. n /\ i \in 1 .. n - 1 /\ i + 1 \in 1 .. n
      BY <1>b
    <2>2. stack'[i] = stack[i] /\ g[i] = h[i] /\ g[i + 1] = h[i + 1]
      BY <1>b, <1>1, <2>1
    <2>3. /\ Near(Restored(stack[i], h[i + 1]), h[i], work.clean)
          /\ Near(RestoredOnError(stack[i], h[i + 1]), h[i], FALSE)
      BY <2>1 DEF Links
    <2>4. QED
      BY <2>2, <2>3 DEF Near
  <1>6. Near(shell', g[Len(stack') + 1], (work.clean /\ mode # "err")')
    <2>1. g[Len(stack') + 1] = h[n]
      BY <1>b, <1>1
    <2>2. QED
      BY <1>4, <2>1
  <1>7. /\ g[1] = h[1] /\ Len(g) = Len(stack') + 1
        /\ h[1].call_stack = <<>> /\ h[1].bash_source = 0 /\ ~h[1].in_trap
        /\ h[1].capture_depth = 0 /\ h[1].stdin = NoStdin
    BY <1>b, <1>1 DEF Links
  <1>8. QED
    BY <1>1, <1>5, <1>6, <1>7 DEF Links

LEMMA ScopeChange ==
  ASSUME NEW a \in ShellState, NEW b,
         \E s \in Scopes : b = [a EXCEPT !.scope = s]
  PROVE  Near(b, a, TRUE) /\ b.callback = a.callback
  BY DEF Near, ShellState

LEMMA UnwindStep ==
  ASSUME TypeInv, TypeInv', KindsInv, UnwindInv, [Next]_vars
  PROVE  UnwindInv'
  <1> SUFFICES ASSUME NothingDropped \/ work'.clean
               PROVE  \E g : Links(g)'
    BY DEF UnwindInv, NothingDropped
  <1>a. /\ stack \in Seq(Frames) /\ shell \in ShellState /\ work \in Work
        /\ shell' \in ShellState /\ work' \in Work /\ Len(stack) \in Nat
        /\ (mode = "idle" => stack = <<>>)
    BY DEF TypeInv, TypeOK
  <1>b. ASSUME work'.clean = work.clean \/ work'.clean = FALSE
        PROVE  \E h : Links(h)
    <2>1. NothingDropped \/ work.clean
      BY <1>b
    <2>2. QED
      BY <2>1 DEF UnwindInv
  <1>c. ASSUME work'.clean = work.clean, mode # "err", NEW f, Call(f),
               Pushed(f, shell', shell)
        PROVE  \E g : Links(g)'
    <2>1. PICK h : Links(h)
      BY <1>b, <1>c
    <2>2. PICK g : g = Append(h, shell')
      OBVIOUS
    <2>3. QED
      BY <1>c, <2>1, <2>2, LinksPush
  <1>d. ASSUME work'.clean = work.clean, mode = "idle", UNCHANGED <<mode, stack>>,
               Near(shell', shell, TRUE)
        PROVE  \E g : Links(g)'
    <2>1. PICK h : Links(h)
      BY <1>b, <1>d
    <2>2. Near(shell', shell, mode' # "err") /\ mode # "err"
      BY <1>d DEF Near
    <2>3. \A i \in 1 .. Len(stack) : SameCall(stack'[i], stack[i])
      BY <1>d DEF SameCall
    <2>4. Len(stack') = Len(stack)
      BY <1>d
    <2>5. QED
      BY <1>d, <2>1, <2>2, <2>3, <2>4, LinksStay
  <1>1. CASE Idles
    <2>1. /\ work' = work /\ shell' = shell /\ stack' = stack /\ mode' = mode
      BY <1>1 DEF Idles
    <2>2. PICK h : Links(h)
      BY <1>b, <2>1
    <2>3. QED
      BY <2>1, <2>2 DEF Links
  <1>2. CASE Stays
    <2>1. PICK h : Links(h)
      BY <1>b, <1>2 DEF Stays
    <2>2. mode # "err"
      BY <1>2 DEF Stays
    <2>3. /\ Len(stack') = Len(stack) /\ work'.clean = work.clean
          /\ \A i \in 1 .. Len(stack) : SameCall(stack'[i], stack[i])
          /\ Near(shell', shell, mode' # "err")
      BY <1>2 DEF Stays
    <2>4. QED
      BY <2>1, <2>2, <2>3, LinksStay
  <1>3. ASSUME NEW f, Pushes(f)
        PROVE  \E g : Links(g)'
    BY <1>3, <1>c DEF Pushes
  <1>4. CASE Returned
    <2>1. /\ mode = "run" /\ mode # "idle" /\ stack' = ButLast(stack)
          /\ shell' = Restored(Top, shell) /\ work' = work
      BY <1>4 DEF Returned, Running
    <2>2. PICK h : Links(h)
      BY <1>b, <2>1
    <2>3. PICK g : g = ButLast(h)
      OBVIOUS
    <2>4. QED
      BY <2>1, <2>2, <2>3, LinksPop
  <1>5. CASE ErrorPropagates
    <2>1. /\ mode # "idle" /\ stack' = ButLast(stack)
          /\ shell' \in {Restored(Top, shell), RestoredOnError(Top, shell)}
          /\ work' = [work EXCEPT !.clean = FALSE]
      BY <1>5 DEF ErrorPropagates
    <2>2. work'.clean = FALSE
      BY <1>a, <2>1 DEF Work
    <2>3. PICK h : Links(h)
      BY <1>b, <2>2
    <2>4. PICK g : g = ButLast(h)
      OBVIOUS
    <2>5. QED
      BY <2>1, <2>2, <2>3, <2>4, LinksPop
  <1>6. ASSUME NEW i \in DOMAIN stack, TimeoutElapses(i)
        PROVE  FALSE
    <2>1. "timeout" \in Features
      BY <1>6 DEF TimeoutElapses, KindsInv
    <2>2. work'.clean = FALSE
      BY <1>a, <1>6 DEF TimeoutElapses, Work
    <2>3. QED
      BY <2>1, <2>2 DEF NothingDropped
  <1>7. CASE Exec
    <2>1. /\ mode = "idle" /\ work' = [work EXCEPT !.commands = 0, !.loops = 0]
      BY <1>7 DEF Exec
    <2>2. work'.clean = work.clean
      BY <1>a, <2>1 DEF Work
    <2>3. CASE SessionAllows(StartExecute(counters))
      <3>1. Call(Frame("exec"))
        BY <1>7, <2>3 DEF Exec
      <3>2. PICK s \in Scopes :
              shell' = [shell EXCEPT !.callback = TRUE, !.scope = s]
        BY <1>7, <2>3 DEF Exec
      <3>3. /\ shell'.bash_source = shell.bash_source
            /\ shell'.in_trap = shell.in_trap /\ shell'.stdin = shell.stdin
            /\ shell'.call_stack = shell.call_stack
            /\ shell'.capture_depth = shell.capture_depth
            /\ shell.capture_depth \in Nat
        BY <1>a, <3>2, ShellFields DEF ShellState
      <3>4. Frame("exec").kind = "exec"
        BY DEF Frame
      <3>5. Pushed(Frame("exec"), shell', shell)
        BY <3>3, <3>4 DEF Pushed, SavesSource, SavesStdin, One
      <3>6. QED
        BY <1>c, <2>1, <2>2, <3>1, <3>5
    <2>4. CASE ~SessionAllows(StartExecute(counters))
      <3>1. /\ UNCHANGED <<mode, stack>>
            /\ \E s \in Scopes : shell' = [shell EXCEPT !.scope = s]
        BY <1>7, <2>4 DEF Exec
      <3>2. Near(shell', shell, TRUE)
        BY <1>a, <3>1, ScopeChange
      <3>3. QED
        BY <1>d, <2>1, <2>2, <3>1, <3>2
    <2>5. QED
      BY <2>3, <2>4
  <1>8. CASE ExecRejected
    <2>1. /\ mode = "idle" /\ UNCHANGED <<mode, stack>> /\ work' = work
          /\ \E s \in Scopes : shell' = [shell EXCEPT !.scope = s]
      BY <1>8 DEF ExecRejected
    <2>2. Near(shell', shell, TRUE)
      BY <1>a, <2>1, ScopeChange
    <2>3. QED
      BY <1>d, <2>1, <2>2
  <1>9. CASE ExecTimesOut
    <2>1. "exec_timeout" \in Features /\ work'.clean = FALSE
      BY <1>a, <1>9 DEF ExecTimesOut, Work
    <2>2. QED
      BY <2>1 DEF NothingDropped
  <1>10. QED
    BY <1>1, <1>2, <1>3, <1>4, <1>5, <1>6, <1>7, <1>8, <1>9, NestStep

-----------------------------------------------------------------------------
(* Depths of clean execs.  While every call has returned Ok, no depth       *)
(* counter is above the nest, whatever nested executes reset.               *)

NotAbove ==
  /\ counters.function_depth <= Live(Depth)
  /\ Len(counters.loop_iterations) <= Live({"loop"})
  /\ counters.subst_depth <= Live({"subst"})

CleanInv == work.clean => NotAbove

LEMMA FreshNotAbove ==
  ASSUME TypeInv', Fresh(counters')
  PROVE  NotAbove'
  <1>1. /\ Live(Depth)' \in Nat /\ Live({"loop"})' \in Nat
        /\ Live({"subst"})' \in Nat
    BY LiveTypeNext
  <1>2. Len(counters'.loop_iterations) = 0
    BY DEF Fresh
  <1>3. QED
    BY <1>1, <1>2 DEF Fresh, NotAbove

LEMMA NotAbovePush ==
  ASSUME TypeInv, TypeInv', NotAbove, NEW f, Call(f), Deeper(f.kind)
  PROVE  NotAbove'
  <1>a. counters \in Counters
    BY DEF TypeInv, TypeOK
  <1>b. /\ counters.function_depth \in Nat /\ counters.subst_depth \in Nat
        /\ Len(counters.loop_iterations) \in Nat
        /\ Live(Depth) \in Nat /\ Live({"loop"}) \in Nat /\ Live({"subst"}) \in Nat
    BY <1>a, DepthFields, LiveType
  <1>1. /\ Live(Depth)' = Live(Depth) + One(f.kind \in Depth)
        /\ Live({"loop"})' = Live({"loop"}) + One(f.kind \in {"loop"})
        /\ Live({"subst"})' = Live({"subst"}) + One(f.kind \in {"subst"})
    BY LivePush
  <1>2. counters'.function_depth <= Live(Depth)'
    <2>1. CASE f.kind \in Depth
      BY <1>b, <1>1, <2>1 DEF Deeper, One, NotAbove
    <2>2. CASE f.kind \notin Depth
      BY <1>b, <1>1, <2>2 DEF Deeper, One, NotAbove
    <2>3. QED
      BY <2>1, <2>2
  <1>3. Len(counters'.loop_iterations) <= Live({"loop"})'
    <2>1. CASE f.kind = "loop"
      BY <1>b, <1>1, <2>1 DEF Deeper, One, NotAbove
    <2>2. CASE f.kind # "loop"
      BY <1>b, <1>1, <2>2 DEF Deeper, One, NotAbove
    <2>3. QED
      BY <2>1, <2>2
  <1>4. counters'.subst_depth <= Live({"subst"})'
    <2>1. CASE f.kind = "subst"
      BY <1>b, <1>1, <2>1 DEF Deeper, One, NotAbove
    <2>2. CASE f.kind # "subst"
      BY <1>b, <1>1, <2>2 DEF Deeper, One, NotAbove
    <2>3. QED
      BY <2>1, <2>2
  <1>5. QED
    BY <1>2, <1>3, <1>4 DEF NotAbove

LEMMA NotAbovePop ==
  ASSUME TypeInv, mode # "idle", NotAbove, stack' = ButLast(stack),
         counters' = CountersAfter(Top, counters)
  PROVE  NotAbove'
  <1> DEFINE k == Top.kind
  <1>a. counters \in Counters /\ Top \in Frames
    BY TopType DEF TypeInv, TypeOK
  <1>b. /\ counters.function_depth \in Nat /\ counters.subst_depth \in Nat
        /\ Len(counters.loop_iterations) \in Nat
        /\ Live(Depth) \in Nat /\ Live({"loop"}) \in Nat /\ Live({"subst"}) \in Nat
    BY <1>a, DepthFields, LiveType
  <1>c. /\ Live(Depth)' = Live(Depth) - One(k \in Depth)
        /\ Live({"loop"})' = Live({"loop"}) - One(k \in {"loop"})
        /\ Live({"subst"})' = Live({"subst"}) - One(k \in {"subst"})
    BY LivePop
  <1>d. /\ k \in Depth => Live(Depth) >= 1
        /\ k = "loop" => Live({"loop"}) >= 1
        /\ k = "subst" => Live({"subst"}) >= 1
    BY LiveTop
  <1>e. /\ counters'.function_depth =
             IF k \in Depth THEN Less(counters.function_depth)
             ELSE counters.function_depth
        /\ Len(counters'.loop_iterations) =
             IF k = "loop" THEN Less(Len(counters.loop_iterations))
             ELSE Len(counters.loop_iterations)
        /\ counters'.subst_depth =
             IF k = "subst" THEN Less(counters.subst_depth)
             ELSE counters.subst_depth
    BY <1>a, DepthsAfter
  <1> HIDE DEF k
  <1>1. counters'.function_depth <= Live(Depth)'
    <2>1. CASE k \in Depth
      BY <1>b, <1>c, <1>d, <1>e, <2>1 DEF One, NotAbove, Less, Larger
    <2>2. CASE k \notin Depth
      BY <1>b, <1>c, <1>e, <2>2 DEF One, NotAbove
    <2>3. QED
      BY <2>1, <2>2
  <1>2. Len(counters'.loop_iterations) <= Live({"loop"})'
    <2>1. CASE k = "loop"
      BY <1>b, <1>c, <1>d, <1>e, <2>1 DEF One, NotAbove, Less, Larger
    <2>2. CASE k # "loop"
      BY <1>b, <1>c, <1>e, <2>2 DEF One, NotAbove
    <2>3. QED
      BY <2>1, <2>2
  <1>3. counters'.subst_depth <= Live({"subst"})'
    <2>1. CASE k = "subst"
      BY <1>b, <1>c, <1>d, <1>e, <2>1 DEF One, NotAbove, Less, Larger
    <2>2. CASE k # "subst"
      BY <1>b, <1>c, <1>e, <2>2 DEF One, NotAbove
    <2>3. QED
      BY <2>1, <2>2
  <1>4. QED
    BY <1>1, <1>2, <1>3 DEF NotAbove

LEMMA CleanStep ==
  ASSUME TypeInv, TypeInv', CleanInv, [Next]_vars
  PROVE  CleanInv'
  <1> SUFFICES ASSUME work'.clean
               PROVE  NotAbove'
    BY DEF CleanInv
  <1>a. /\ counters \in Counters /\ counters' \in Counters /\ work \in Work
    BY DEF TypeInv, TypeOK
  <1>b. /\ counters.function_depth \in Nat /\ counters.subst_depth \in Nat
        /\ Len(counters.loop_iterations) \in Nat
        /\ Live(Depth) \in Nat /\ Live({"loop"}) \in Nat /\ Live({"subst"}) \in Nat
    BY <1>a, DepthFields, LiveType
  <1>1. CASE Idles
    BY <1>1 DEF Idles, CleanInv, NotAbove, Live
  <1>2. CASE Stays
    <2>1. NotAbove
      BY <1>2 DEF Stays, CleanInv
    <2>2. /\ Live(Depth)' = Live(Depth) /\ Live({"loop"})' = Live({"loop"})
          /\ Live({"subst"})' = Live({"subst"})
      BY <1>2, LiveStay
    <2>3. CASE SameDepths(counters', counters)
      BY <2>1, <2>2, <2>3 DEF NotAbove, SameDepths
    <2>4. CASE Top.kind = "loop" /\ counters' = TickLoop(counters)
      <3>1. Live({"loop"}) >= 1
        BY <1>2, <2>4, LiveTop DEF Stays
      <3>2. /\ counters'.function_depth = counters.function_depth
            /\ counters'.subst_depth = counters.subst_depth
            /\ Len(counters'.loop_iterations) =
                 Larger(1, Len(counters.loop_iterations))
        BY <1>a, <2>4, TickLoopDepths
      <3>3. Len(counters'.loop_iterations) <= Live({"loop"})
        BY <1>b, <2>1, <3>1, <3>2 DEF Larger, NotAbove
      <3>4. QED
        BY <2>1, <2>2, <3>2, <3>3 DEF NotAbove
    <2>5. CASE Fresh(counters')
      BY <2>5, FreshNotAbove
    <2>6. QED
      BY <1>2, <2>3, <2>4, <2>5 DEF Stays
  <1>3. ASSUME NEW f, Pushes(f)
        PROVE  NotAbove'
    <2>1. NotAbove /\ Call(f)
      BY <1>3 DEF Pushes, CleanInv
    <2>2. CASE Fresh(counters')
      BY <2>2, FreshNotAbove
    <2>3. CASE Deeper(f.kind)
      BY <2>1, <2>3, NotAbovePush
    <2>4. QED
      BY <1>3, <2>2, <2>3 DEF Pushes
  <1>4. CASE Returned
    <2>1. /\ mode # "idle" /\ stack' = ButLast(stack) /\ work' = work
          /\ counters' = CountersAfter(Top, counters)
      BY <1>4 DEF Returned, Running
    <2>2. QED
      BY <2>1, NotAbovePop DEF CleanInv
  <1>5. CASE ErrorPropagates
    BY <1>a, <1>5 DEF ErrorPropagates, Work
  <1>6. ASSUME NEW i \in DOMAIN stack, TimeoutElapses(i)
        PROVE  FALSE
    BY <1>a, <1>6 DEF TimeoutElapses, Work
  <1>7. CASE Exec
    <2>1. counters' = StartExecute(counters)
      BY <1>7 DEF Exec
    <2>2. Fresh(counters')
      BY <1>a, <2>1, DepthCounts
    <2>3. QED
      BY <2>2, FreshNotAbove
  <1>8. CASE ExecRejected
    <2>1. stack' = stack /\ counters' = counters /\ work' = work
      BY <1>8 DEF ExecRejected
    <2>2. QED
      BY <2>1 DEF CleanInv, NotAbove, Live
  <1>9. CASE ExecTimesOut
    BY <1>a, <1>9 DEF ExecTimesOut, Work
  <1>10. QED
    BY <1>1, <1>2, <1>3, <1>4, <1>5, <1>6, <1>7, <1>8, <1>9, NestStep

-----------------------------------------------------------------------------
(* The output callback.  Only exec_streaming sets it, and its frame is the  *)
(* outermost one. *)

CallbackInv == mode = "idle" => ~shell.callback

LEMMA CallbackStep ==
  ASSUME TypeInv, TypeInv', CallbackInv, [Next]_vars
  PROVE  CallbackInv'
  <1> SUFFICES ASSUME mode' = "idle"
               PROVE  ~shell'.callback
    BY DEF CallbackInv
  <1>a. stack \in Seq(Frames) /\ shell \in ShellState
    BY DEF TypeInv, TypeOK
  <1>b. ASSUME mode # "idle", stack' = ButLast(stack)
        PROVE  Top \in Frames /\ Top.kind = "exec"
    <2>1. stack' = <<>>
      BY DEF TypeInv
    <2>2. Len(stack) = 1
      <3>1. Len(stack') = Len(stack) - 1 /\ Len(stack) \in Nat
        BY <1>a, <1>b, TopType, ButLastProperties
      <3>2. Len(stack') = 0
        BY <2>1
      <3>3. QED
        BY <3>1, <3>2
    <2>3. QED
      BY <1>b, <2>2, TopType DEF TypeInv, StackWellFormed, Top
  <1>c. ASSUME Top.kind = "exec"
        PROVE  /\ ~Restored(Top, shell).callback
               /\ ~RestoredOnError(Top, shell).callback
    <2>1. Restored(Top, shell) = ExecRestores(Top, shell)
      BY <1>c DEF Restored
    <2>2. RestoredOnError(Top, shell) = Restored(Top, shell)
      BY <1>c DEF RestoredOnError, LeavesAll
    <2>3. QED
      BY <1>a, <2>1, <2>2 DEF ExecRestores, ShellState
  <1>1. CASE Idles
    BY <1>1 DEF Idles, CallbackInv
  <1>2. CASE Stays
    BY <1>2 DEF Stays
  <1>3. ASSUME NEW f, Pushes(f)
        PROVE  FALSE
    BY <1>3 DEF Pushes
  <1>4. CASE Returned
    <2>1. /\ mode # "idle" /\ stack' = ButLast(stack)
          /\ shell' = Restored(Top, shell)
      BY <1>4 DEF Returned, Running
    <2>2. QED
      BY <1>b, <1>c, <2>1
  <1>5. CASE ErrorPropagates
    <2>1. /\ mode # "idle" /\ stack' = ButLast(stack)
          /\ shell' \in {Restored(Top, shell), RestoredOnError(Top, shell)}
      BY <1>5 DEF ErrorPropagates
    <2>2. QED
      BY <1>b, <1>c, <2>1
  <1>6. ASSUME NEW i \in DOMAIN stack, TimeoutElapses(i)
        PROVE  FALSE
    BY <1>6 DEF TimeoutElapses, Running
  <1>7. CASE Exec
    <2>1. /\ mode = "idle" /\ \E s \in Scopes : shell' = [shell EXCEPT !.scope = s]
      BY <1>7, Zenon DEF Exec
    <2>2. QED
      BY <1>a, <2>1, ScopeChange DEF CallbackInv
  <1>8. CASE ExecRejected
    <2>1. /\ mode = "idle" /\ \E s \in Scopes : shell' = [shell EXCEPT !.scope = s]
      BY <1>8 DEF ExecRejected
    <2>2. QED
      BY <1>a, <2>1, ScopeChange DEF CallbackInv
  <1>9. CASE ExecTimesOut
    BY <1>a, <1>9 DEF ExecTimesOut, ShellState
  <1>10. QED
    BY <1>1, <1>2, <1>3, <1>4, <1>5, <1>6, <1>7, <1>8, <1>9, NestStep

-----------------------------------------------------------------------------
(* The inductive invariant and what follows from it. *)

NestInv ==
  /\ TypeInv /\ KindsInv /\ DepthInv /\ TrapInv /\ LoopInv /\ UnwindInv
  /\ CleanInv /\ CallbackInv

LEMMA InitNestInv == Init => NestInv
  <1> SUFFICES ASSUME Init
               PROVE  NestInv
    OBVIOUS
  <1>1. TypeInv
    BY InitTypeInv
  <1>2. /\ stack = <<>> /\ mode = "idle" /\ Len(stack) = 0 /\ DOMAIN stack = {}
    BY DEF Init
  <1>3. /\ Live(Depth) = 0 /\ Live({"loop"}) = 0 /\ Live({"subst"}) = 0
        /\ Live({"trap"}) = 0
    BY <1>2, LiveNone
  <1>4. /\ shell \in ShellState /\ shell.call_stack = <<>>
        /\ shell.bash_source = 0 /\ shell.stdin = NoStdin /\ ~shell.callback
        /\ shell.capture_depth = 0 /\ ~shell.in_trap
    BY <1>1 DEF Init, TypeInv, TypeOK
  <1>5. /\ counters.function_depth = 0 /\ Len(counters.loop_iterations) = 0
        /\ counters.subst_depth = 0 /\ counters.total_loop_iterations = 0
        /\ work.commands = 0 /\ work.loops = 0 /\ work.clean
    BY DEF Init
  <1>6. KindsInv /\ CallbackInv /\ TrapInv /\ DepthInv /\ CleanInv
    BY <1>2, <1>3, <1>4, <1>5
    DEF KindsInv, CallbackInv, TrapInv, DepthInv, CleanInv, NotAbove
  <1>7. LoopInv
    <2>1. Refused = 0
      BY <1>2 DEF Refused
    <2>2. QED
      BY <1>3, <1>5, <2>1, LimitAssumption DEF LoopInv, LoopsMatch
  <1>8. UnwindInv
    <2>1. PICK h : h = <<shell>>
      OBVIOUS
    <2>2. /\ h \in Seq(ShellState) /\ Len(h) = 1 /\ h[1] = shell
      BY <1>4, <2>1
    <2>3. Near(shell, shell, work.clean /\ mode # "err")
      BY DEF Near
    <2>4. Links(h)
      BY <1>2, <1>4, <2>2, <2>3 DEF Links
    <2>5. QED
      BY <2>4 DEF UnwindInv
  <1>9. QED
    BY <1>1, <1>6, <1>7, <1>8 DEF NestInv

LEMMA NestInvariant == Spec => []NestInv
  <1>1. NestInv /\ TypeInv' /\ [Next]_vars => NestInv'
    BY KindsStep, DepthStep, TrapStep, LoopStep, UnwindStep, CleanStep,
       CallbackStep DEF NestInv
  <1>2. QED
    BY <1>1, InitNestInv, TypeInvariant, PTL DEF Spec

(* What the interpreter counts and flags is what is nested: function_depth  *)
(* and the loop stack equal the live calls and loops, subst_depth is never  *)
(* too low, and in_trap is up exactly while a DEBUG or ERR trap runs, on    *)
(* every path by which a call returns, fails or is swallowed by a trap.     *)
THEOREM BookkeepingTheorem == Spec => []BookkeepingIsTrue
  <1>1. NestInv => BookkeepingIsTrue
    <2> SUFFICES ASSUME NestInv
                 PROVE  BookkeepingIsTrue
      OBVIOUS
    <2>1. CountersMatchStack
      BY DEF NestInv, DepthInv, DepthsAreTracked, DepthsMatch, CountersMatchStack
    <2>2. TrapFlagMatchesStack
      <3>1. Live({"trap"}) \in Nat
        BY LiveType DEF NestInv
      <3>2. QED
        BY <3>1 DEF NestInv, TrapInv, NothingDropped, TrapFlagMatchesStack
    <2>3. QED
      BY <2>1, <2>2 DEF BookkeepingIsTrue
  <1>2. QED
    BY <1>1, NestInvariant, PTL

(* No more than max_function_depth functions and sourced files are nested,  *)
(* and an exec() ticks no more loop iterations than the total allows plus   *)
(* one per command, wherever no nested execute resets the counters and no   *)
(* timeout builtin pops them. *)
THEOREM LimitsTheorem ==
  ASSUME Features \cap (Resets \cup {"timeout"}) = {}
  PROVE  Spec => []LimitsHold
  <1>1. NestInv => LimitsHold
    <2> SUFFICES ASSUME NestInv
                 PROVE  LimitsHold
      OBVIOUS
    <2>1. DepthsAreTracked /\ Features \cap Resets = {}
      BY DEF DepthsAreTracked
    <2>2. RecursionWithinLimit
      <3>1. CASE mode = "idle"
        <4>1. Live(Depth) = 0
          BY <3>1, LiveNone DEF NestInv, TypeInv
        <4>2. QED
          BY <4>1, LimitAssumption DEF RecursionWithinLimit
      <3>2. CASE mode # "idle"
        BY <2>1, <3>2 DEF NestInv, DepthInv, DepthsMatch, RecursionWithinLimit
      <3>3. QED
        BY <3>1, <3>2
    <2>3. LoopsWithinLimit
      <3>1. TypeInv /\ LoopsMatch
        BY <2>1 DEF NestInv, LoopInv
      <3>2. /\ work.commands \in Nat /\ work.loops \in Nat
            /\ Live({"loop"}) \in Nat /\ Refused \in 0 .. 1
            /\ counters.total_loop_iterations \in Nat
        BY <3>1, WorkFields
      <3>3. Refused <= Live({"loop"})
        <4>1. Refused = 1 => mode # "idle" /\ Top.kind \in {"loop"}
          BY DEF Refused
        <4>2. Refused = 1 => Live({"loop"}) >= 1
          BY <3>1, <4>1, LiveTop
        <4>3. QED
          BY <3>2, <4>2
      <3>4. QED
        BY <3>1, <3>2, <3>3, LimitAssumption DEF LoopsMatch, LoopsWithinLimit
    <2>4. QED
      BY <2>2, <2>3 DEF LimitsHold
  <1>2. QED
    BY <1>1, NestInvariant, PTL

(* Whatever failed on the way, a finished exec() whose futures were not     *)
(* dropped leaves at most one positional frame, no BASH_SOURCE entry and no *)
(* trap flag behind. *)
THEOREM FailuresTheorem == Spec => []FailuresLeaveLittle
  <1>1. NestInv => FailuresLeaveLittle
    <2> SUFFICES ASSUME NestInv, NothingDropped, mode = "idle"
                 PROVE  /\ Len(shell.call_stack) <= 1
                        /\ shell.bash_source = 0 /\ ~shell.in_trap
      BY DEF FailuresLeaveLittle, NothingDropped
    <2>1. PICK h : Links(h)
      BY DEF NestInv, UnwindInv
    <2>2. Len(stack) = 0
      BY DEF NestInv, TypeInv
    <2>3. Near(shell, h[1], FALSE) /\ h[1].call_stack = <<>>
      BY <2>1, <2>2 DEF Links, Near
    <2>4. Len(shell.call_stack) \in {0, 1}
      <3>1. Len(h[1].call_stack) = 0
        BY <2>3
      <3>2. QED
        BY <2>3, <3>1 DEF Near
    <2>5. shell.bash_source = 0 /\ ~shell.in_trap
      BY <2>1, <2>3 DEF Links, Near
    <2>6. Len(shell.call_stack) <= 1
      <3>1. \A n \in {0, 1} : n <= 1
        OBVIOUS
      <3>2. QED
        BY <2>4, <3>1, Zenon
    <2>7. QED
      BY <2>5, <2>6
  <1>2. QED
    BY <1>1, NestInvariant, PTL

(* If every call of it returned Ok, a finished exec() leaves no trace of    *)
(* its nest: call frames, BASH_SOURCE, pipeline input, output callback,     *)
(* descriptor capture, trap flag and depth counters are as they were before *)
(* the first command. *)
THEOREM CleanTheorem == Spec => []CleanExecsLeaveNothing
  <1>1. NestInv => CleanExecsLeaveNothing
    <2> SUFFICES ASSUME NestInv, mode = "idle", work.clean
                 PROVE  /\ shell.call_stack = <<>> /\ shell.bash_source = 0
                        /\ shell.stdin = NoStdin /\ ~shell.callback
                        /\ shell.capture_depth = 0 /\ ~shell.in_trap
                        /\ counters.function_depth = 0
                        /\ counters.subst_depth = 0
                        /\ counters.loop_iterations = <<>>
      BY DEF CleanExecsLeaveNothing
    <2>1. PICK h : Links(h)
      BY DEF NestInv, UnwindInv
    <2>2. stack = <<>> /\ Len(stack) = 0 /\ shell \in ShellState
          /\ counters \in Counters
      BY DEF NestInv, TypeInv, TypeOK
    <2>3. Near(shell, h[1], TRUE)
      BY <2>1, <2>2 DEF Links, Near
    <2>4. /\ Len(shell.call_stack) = 0 /\ shell.bash_source = 0
          /\ shell.stdin = NoStdin /\ shell.capture_depth = 0 /\ ~shell.in_trap
      BY <2>1, <2>3 DEF Links, Near
    <2>5. shell.call_stack = <<>>
      BY <2>2, <2>4, ShellFields, EmptySeq
    <2>6. ~shell.callback
      BY DEF NestInv, CallbackInv
    <2>7. /\ counters.function_depth <= 0 /\ Len(counters.loop_iterations) <= 0
          /\ counters.subst_depth <= 0
      BY <2>2, LiveNone DEF NestInv, CleanInv, NotAbove
    <2>8. /\ counters.function_depth = 0 /\ counters.subst_depth = 0
          /\ counters.loop_iterations = <<>>
      BY <2>2, <2>7, DepthFields, EmptySeq
    <2>9. QED
      BY <2>4, <2>5, <2>6, <2>8
  <1>2. QED
    BY <1>1, NestInvariant, PTL

(* What a child shell changed is undone when it ends, by returning or by an *)
(* Err: its scope is again the one its caller had.  Only dropping the       *)
(* child's future breaks this. *)
THEOREM ChildrenTheorem ==
  ASSUME Features \cap {"timeout", "exec_timeout"} = {}
  PROVE  Spec => ChildrenAreIsolated
  <1> DEFINE Same(i) ==
        stack[i].kind \in Isolated
          /\ (\A j \in (Len(stack') + 1) .. (i - 1) : stack[j].kind \notin Isolated)
        => shell'.scope = stack[i].scope
  <1>1. ASSUME NestInv, TypeInv', [Next]_vars,
               NEW i \in (Len(stack') + 1) .. Len(stack), stack[i].kind \in Isolated
        PROVE  shell'.scope = stack[i].scope
    <2>a. TypeInv /\ KindsInv /\ stack \in Seq(Frames) /\ Len(stack) \in Nat
          /\ shell \in ShellState
      BY <1>1 DEF NestInv, TypeInv, TypeOK
    <2>b. ASSUME mode # "idle", stack' = ButLast(stack),
                 shell' \in {Restored(Top, shell), RestoredOnError(Top, shell)}
          PROVE  shell'.scope = stack[i].scope
      <3>1. Len(stack') = Len(stack) - 1
        BY <2>a, <2>b, TopType, ButLastProperties
      <3>2. stack[i] = Top /\ Top \in Frames
        BY <1>1, <2>a, <2>b, <3>1, TopType DEF Top
      <3>3. Top.kind \in {"subshell", "shell", "script"}
        BY <1>1, <3>2 DEF Isolated
      <3>4. RestoredOnError(Top, shell) = Restored(Top, shell)
        BY <3>3 DEF RestoredOnError, LeavesAll
      <3>5. Restored(Top, shell).scope = Top.scope
        <4>1. CASE Top.kind = "subshell"
          <5>1. Restored(Top, shell) = SubshellRestores(Top, shell)
            BY <4>1 DEF Restored
          <5>2. QED
            BY <2>a, <5>1 DEF SubshellRestores, ShellState
        <4>2. CASE Top.kind = "shell"
          <5>1. Restored(Top, shell) = ShellRestores(Top, shell)
            BY <4>2 DEF Restored
          <5>2. QED
            BY <2>a, <5>1 DEF ShellRestores, ShellState
        <4>3. CASE Top.kind = "script"
          <5>1. Restored(Top, shell) = ScriptRestores(Top, shell)
            BY <4>3 DEF Restored
          <5>2. QED
            BY <2>a, <5>1 DEF ScriptRestores, ShellState
        <4>4. QED
          BY <3>3, <4>1, <4>2, <4>3
      <3>6. QED
        BY <2>b, <3>2, <3>4, <3>5
    <2>c. ASSUME Len(stack') >= Len(stack), Len(stack') \in Nat
          PROVE  FALSE
      BY <1>1, <2>a, <2>c
    <2>1. CASE Idles
      BY <2>1, <2>a, <2>c DEF Idles
    <2>2. CASE Stays
      BY <2>2, <2>a, <2>c DEF Stays
    <2>3. ASSUME NEW f, Pushes(f)
          PROVE  FALSE
      <3>1. Len(stack') = Len(stack) + 1
        BY <2>a, <2>3, CallGrows DEF Pushes
      <3>2. QED
        BY <2>a, <2>c, <3>1
    <2>4. CASE Returned
      BY <2>4, <2>b DEF Returned, Running
    <2>5. CASE ErrorPropagates
      <3>1. /\ mode # "idle" /\ stack' = ButLast(stack)
            /\ shell' \in {Restored(Top, shell), RestoredOnError(Top, shell)}
        BY <2>5 DEF ErrorPropagates
      <3>2. QED
        BY <2>b, <3>1
    <2>6. ASSUME NEW j \in DOMAIN stack, TimeoutElapses(j)
          PROVE  FALSE
      BY <2>6, <2>a DEF TimeoutElapses, KindsInv
    <2>7. CASE Exec \/ ExecRejected
      <3>1. stack = <<>>
        BY <2>7, <2>a DEF Exec, ExecRejected, TypeInv
      <3>2. Len(stack') \in Nat /\ Len(stack) = 0
        BY <1>1, <3>1 DEF TypeInv, TypeOK
      <3>3. QED
        BY <2>c, <3>2
    <2>8. CASE ExecTimesOut
      BY <2>8 DEF ExecTimesOut
    <2>9. QED
      BY <1>1, <2>a, <2>1, <2>2, <2>3, <2>4, <2>5, <2>6, <2>7, <2>8, NestStep
  <1>2. NestInv /\ TypeInv' /\ [Next]_vars
          => [\A i \in (Len(stack') + 1) .. Len(stack) : Same(i)]_vars
    BY <1>1
  <1>3. QED
    BY <1>2, NestInvariant, TypeInvariant, PTL DEF Spec, ChildrenAreIsolated
=============================================================================
