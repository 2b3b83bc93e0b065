--------------------------- MODULE SharedSession ---------------------------
(***************************************************************************)
(* One Bash instance of the JavaScript binding (crates/bashkit-js): calls   *)
(* that return a promise run on other threads under the lock of the        *)
(* session, one at a time; executeSync, reset and direct file access block *)
(* the event loop until they have that lock.  Scripts call back into       *)
(* JavaScript, which only the event loop can run: custom builtins, awaited *)
(* under the execution timeout, and onOutput, for which the script's own   *)
(* thread blocks.  cancel() sets one flag for whatever runs, a failing     *)
(* onOutput sets the same flag, and an AbortSignal does too.               *)
(***************************************************************************)
EXTENDS Naturals, Sequences

CONSTANTS Calls, Kind,      \* the calls the host may make, and of which method
          Signalled,        \* calls made with an AbortSignal
          MaxCallbacks,     \* how often one script calls back
          HostOverlaps,     \* blocking calls while a promise with onOutput is pending?
          None

Kinds == {"execute", "streaming", "sync", "syncStreaming", "access", "reset"}

ASSUME CallsAssumption ==
  /\ None \notin Calls
  /\ Kind \in [Calls -> Kinds]
  /\ \A c \in Signalled : c \in Calls /\ Kind[c] \notin {"access", "reset"}
  /\ MaxCallbacks \in Nat /\ HostOverlaps \in BOOLEAN

Async(c) == Kind[c] \in {"execute", "streaming"}
Streaming(c) == Kind[c] \in {"streaming", "syncStreaming"}
Scripted(c) == Kind[c] \notin {"access", "reset"}
BlocksLoop(c) == Kind[c] \in {"sync", "syncStreaming"}

Phases == {"new", "queued", "spawned", "waiting", "running", "builtin", "promised",
           "awaiting", "emitted", "output", "returned", "refused", "settled"}

VARIABLES phase,        \* where each call is
          queue,        \* asyncExecuteQueues of wrapper.ts
          holder,       \* who has the lock of SharedState.inner
          loop,         \* the stack of the event loop: calls that block it, callbacks
          cancelled,    \* the cancellation flag
          outputDepth, syncDepth,     \* on_output_reentry_depth, in_sync_execute_depth
          failed, requested,          \* callback_error and callback_requested_cancel of a call
          triggered,    \* the signal of a call was aborted
          left,         \* callbacks the script may still make
          kept          \* history: a cancel() that nothing has taken back

vars == <<phase, queue, holder, loop, cancelled, outputDepth, syncDepth, failed, requested,
          triggered, left, kept>>
flags == <<cancelled, kept>>
locals == <<failed, requested, left>>
depths == <<outputDepth, syncDepth>>

Frame(at, c) == [at |-> at, call |-> c]
Top == loop[Len(loop)]
Pushed(at, c) == Append(loop, Frame(at, c))
Popped == SubSeq(loop, 1, Len(loop) - 1)

\* JavaScript of the host runs: a task of its own, or one of its callbacks.
HostRuns == IF loop = <<>> THEN TRUE ELSE Top.at = "callback"
LoopIsFree == loop = <<>>

----------------------------------------------------------------------------
(* Rules of the binding.                                                   *)

\* Mutants of the rules, each a plausible slip.
NeverRejects == FALSE
StaysEntered == outputDepth
AlwaysRequests == TRUE

\* reject_on_output_reentry
RejectsReentry == outputDepth > 0

\* OnOutputReentryScope is dropped when the callback has returned.
LeavesOutput == outputDepth - 1

\* SyncExecuteScope
EntersSync(c) == IF BlocksLoop(c) THEN syncDepth + 1 ELSE syncDepth
LeavesSync(c) == IF BlocksLoop(c) THEN syncDepth - 1 ELSE syncDepth

\* record_callback_error: the callback's failure is what sets the flag.
FailureRequests == ~cancelled

\* A custom builtin is only sent to the event loop when no executeSync blocks it.
SentToLoop(c) == syncDepth = 0

\* Will the end of some call clear the flag, whoever set it?
WillBeCleared ==
  \E c \in Calls : requested[c] \/ (triggered[c] /\ phase[c] # "queued")

\* An assumption on the host that nothing in the repository asks for: with HostOverlaps FALSE
\* it makes no blocking call while a promise with onOutput is pending, unless from onOutput,
\* which the binding itself has to reject.  Other promises do not stop it: a custom builtin
\* may read a file of its own instance, as custom_builtins_js.md does.
MayBlock ==
  \/ HostOverlaps \/ outputDepth > 0
  \/ \A c \in Calls : Async(c) /\ Streaming(c) => phase[c] = "new"

----------------------------------------------------------------------------
(* What the host does.                                                     *)

Init ==
  /\ phase = [c \in Calls |-> "new"] /\ queue = <<>> /\ holder = None /\ loop = <<>>
  /\ cancelled = FALSE /\ kept = FALSE /\ outputDepth = 0 /\ syncDepth = 0
  /\ failed = [c \in Calls |-> FALSE] /\ requested = [c \in Calls |-> FALSE]
  /\ triggered = [c \in Calls |-> FALSE] /\ left = [c \in Calls |-> 0]

\* execute() of wrapper.ts: one after the other, each when the one before has settled.
AsyncCall(c) ==
  /\ HostRuns /\ Async(c) /\ phase[c] = "new"
  /\ phase' = [phase EXCEPT ![c] = "queued"]
  /\ queue' = Append(queue, c)
  /\ UNCHANGED <<holder, loop, flags, depths, locals, triggered>>

\* executeSync, reset, snapshot, stat and the like: they throw, or block the loop.
BlockingCall(c) ==
  /\ HostRuns /\ MayBlock /\ ~Async(c) /\ phase[c] = "new"
  /\ ~RejectsReentry
  /\ phase' = [phase EXCEPT ![c] = "waiting"]
  /\ loop' = Pushed("call", c)
  /\ syncDepth' = EntersSync(c)
  /\ UNCHANGED <<queue, holder, flags, outputDepth, locals, triggered>>

Cancel ==
  /\ HostRuns
  /\ cancelled' = TRUE
  /\ kept' = (kept \/ ~WillBeCleared)
  /\ UNCHANGED <<phase, queue, holder, loop, depths, locals, triggered>>

ClearCancel ==
  /\ HostRuns
  /\ cancelled' = FALSE /\ kept' = FALSE
  /\ UNCHANGED <<phase, queue, holder, loop, depths, locals, triggered>>

\* The AbortSignal of a call: its listener is there from when the queue reaches a promise
\* or executeSync begins.
Abort(c) ==
  /\ HostRuns /\ c \in Signalled /\ phase[c] # "new" /\ ~triggered[c]
  /\ triggered' = [triggered EXCEPT ![c] = TRUE]
  /\ IF phase[c] = "queued" THEN UNCHANGED flags ELSE cancelled' = TRUE /\ kept' = FALSE
  /\ UNCHANGED <<phase, queue, holder, loop, depths, locals>>

----------------------------------------------------------------------------
(* What the event loop, the runtime and the script do.                     *)

\* The queue reaches a call.
Enters(c) ==
  /\ LoopIsFree /\ phase[c] = "queued" /\ Head(queue) = c
  /\ IF triggered[c]
     THEN /\ phase' = [phase EXCEPT ![c] = "new"]
          /\ queue' = Tail(queue)
          /\ triggered' = [triggered EXCEPT ![c] = FALSE]
     ELSE /\ phase' = [phase EXCEPT ![c] = IF RejectsReentry THEN "settled"
                                           ELSE IF Streaming(c) THEN "spawned" ELSE "waiting"]
          /\ UNCHANGED <<queue, triggered>>
  /\ UNCHANGED <<holder, loop, flags, depths, locals>>

\* executeWithOutput looks again when its future is polled.
Polled(c) ==
  /\ phase[c] = "spawned"
  /\ phase' = [phase EXCEPT ![c] = IF RejectsReentry THEN "settled" ELSE "waiting"]
  /\ UNCHANGED <<queue, holder, loop, flags, depths, locals, triggered>>

Locks(c) ==
  /\ phase[c] = "waiting" /\ holder = None
  /\ phase' = [phase EXCEPT ![c] = "running"]
  /\ holder' = c
  /\ left' = [left EXCEPT ![c] = IF Scripted(c) THEN MaxCallbacks ELSE 0]
  /\ UNCHANGED <<queue, loop, flags, depths, failed, requested, triggered>>

\* A command of the script is a custom builtin; under executeSync it fails at once.
CallsBuiltin(c) ==
  /\ phase[c] = "running" /\ left[c] > 0 /\ ~cancelled
  /\ left' = [left EXCEPT ![c] = @ - 1]
  /\ phase' = [phase EXCEPT ![c] = IF SentToLoop(c) THEN "builtin" ELSE "running"]
  /\ UNCHANGED <<queue, holder, loop, flags, depths, failed, requested, triggered>>

\* The script has output for onOutput, which is not called again once it has failed.  A
\* promise's script hands it to a task of the callback runtime and blocks its thread.
Emits(c) ==
  /\ phase[c] = "running" /\ Streaming(c) /\ left[c] > 0 /\ ~failed[c]
  /\ left' = [left EXCEPT ![c] = @ - 1]
  /\ IF Async(c)
     THEN /\ phase' = [phase EXCEPT ![c] = "emitted"]
          /\ UNCHANGED <<outputDepth, loop>>
     ELSE /\ phase' = [phase EXCEPT ![c] = "output"]
          /\ outputDepth' = outputDepth + 1
          /\ loop' = Pushed("callback", c)
  /\ UNCHANGED <<queue, holder, flags, syncDepth, failed, requested, triggered>>

\* That task enters OnOutputReentryScope and sends the callback to the event loop.
Dispatches(c) ==
  /\ phase[c] = "emitted"
  /\ phase' = [phase EXCEPT ![c] = "output"]
  /\ outputDepth' = outputDepth + 1
  /\ UNCHANGED <<queue, holder, loop, flags, syncDepth, locals, triggered>>

\* The event loop gets to a callback of a script that runs on another thread.
Delivers(c) ==
  /\ LoopIsFree
  /\ phase[c] = "builtin" \/ (phase[c] = "output" /\ Async(c))
  /\ loop' = Pushed("callback", c)
  /\ UNCHANGED <<phase, queue, holder, flags, depths, locals, triggered>>

\* The promise a builtin returns may wait for a promise of this instance: the queue holds c
\* until it settles, so that one is c itself or queued behind it.  A builtin whose call has
\* timed out returns to nobody.
CallbackReturns(c) ==
  /\ loop # <<>> /\ Top = Frame("callback", c)
  /\ loop' = Popped
  /\ \/ /\ phase[c] = "builtin"
        /\ \E wait \in {"promised", "awaiting"} : phase' = [phase EXCEPT ![c] = wait]
     \/ /\ phase[c] = "output"
        /\ \E verdict \in {"returned", "refused"} : phase' = [phase EXCEPT ![c] = verdict]
     \/ phase[c] = "settled" /\ UNCHANGED phase
  /\ UNCHANGED <<queue, holder, flags, depths, locals, triggered>>

\* The promise of a builtin resolves; the event loop is needed for that too.
Resolves(c) ==
  /\ LoopIsFree /\ phase[c] = "promised"
  /\ phase' = [phase EXCEPT ![c] = "running"]
  /\ UNCHANGED <<queue, holder, loop, flags, depths, locals, triggered>>

\* The script's thread hears of the callback's end.
Receives(c) ==
  /\ phase[c] \in {"returned", "refused"}
  /\ outputDepth' = LeavesOutput
  /\ IF phase[c] = "refused"
     THEN /\ failed' = [failed EXCEPT ![c] = TRUE]
          /\ requested' = [requested EXCEPT ![c] = FailureRequests]
          /\ cancelled' = TRUE
     ELSE UNCHANGED <<failed, requested, cancelled>>
  /\ phase' = [phase EXCEPT ![c] = "running"]
  /\ UNCHANGED <<queue, holder, loop, syncDepth, triggered, left, kept>>

\* A call is done: the lock is released, and the loop goes on if the call blocked it.
Ends(c) ==
  /\ holder' = None
  /\ failed' = [failed EXCEPT ![c] = FALSE]
  /\ requested' = [requested EXCEPT ![c] = FALSE]
  /\ left' = [left EXCEPT ![c] = 0]
  /\ phase' = [phase EXCEPT ![c] = IF Async(c) THEN "settled" ELSE "new"]
  /\ loop' = IF Async(c) THEN loop ELSE Popped
  /\ syncDepth' = LeavesSync(c)
  /\ triggered' = [triggered EXCEPT ![c] = Async(c) /\ @]
  /\ UNCHANGED <<queue, outputDepth>>

\* execute_rust_bash after exec: a flag the callback has set is cleared.  After executeSync
\* the finally of wrapper.ts clears what a signal has set.
Finishes(c) ==
  /\ phase[c] = "running" /\ Kind[c] # "reset" /\ Ends(c)
  /\ IF BlocksLoop(c) /\ triggered[c] THEN cancelled' = FALSE /\ kept' = FALSE
     ELSE /\ cancelled' = (cancelled /\ ~(failed[c] /\ requested[c]))
          /\ UNCHANGED kept

\* exec runs under tokio::time::timeout: a script that waits for a builtin is dropped and its
\* call ends as any other.  (A script whose thread blocks for onOutput is not polled, so this
\* cannot happen to it; one dropped as it runs ends like one that is done.)
TimesOut(c) ==
  /\ phase[c] \in {"builtin", "promised", "awaiting"} /\ Ends(c)
  /\ cancelled' = (cancelled /\ ~(failed[c] /\ requested[c]))
  /\ UNCHANGED kept

\* reset: another interpreter, with a flag of its own.
Resets(c) ==
  phase[c] = "running" /\ Kind[c] = "reset" /\ Ends(c) /\ cancelled' = FALSE /\ kept' = FALSE

\* The promise settles: the finally of wrapper.ts clears the flag its signal set.
Settles(c) ==
  /\ LoopIsFree /\ phase[c] = "settled"
  /\ phase' = [phase EXCEPT ![c] = "new"]
  /\ queue' = Tail(queue)
  /\ triggered' = [triggered EXCEPT ![c] = FALSE]
  /\ IF triggered[c] THEN cancelled' = FALSE /\ kept' = FALSE ELSE UNCHANGED flags
  /\ UNCHANGED <<holder, loop, depths, locals>>

\* What the loop, the runtime and a callback owe a call.
Goes(c) ==
  \/ Enters(c) \/ Polled(c) \/ Locks(c) \/ Dispatches(c) \/ Delivers(c) \/ CallbackReturns(c)
  \/ Resolves(c) \/ Receives(c) \/ Finishes(c) \/ TimesOut(c) \/ Resets(c) \/ Settles(c)

Next ==
  \/ Cancel \/ ClearCancel
  \/ \E c \in Calls : \/ AsyncCall(c) \/ BlockingCall(c) \/ Abort(c)
                      \/ CallsBuiltin(c) \/ Emits(c) \/ Goes(c)

Spec == Init /\ [][Next]_vars

\* Threads go on, the lock is granted in the order of asking, the host's tasks and callbacks
\* end, however many blocking calls they make, so that the event loop gets to what waits for
\* it, and scripts end, by the execution timeout if not before.
FairSpec == Spec /\ \A c \in Calls : SF_vars(Goes(c))

----------------------------------------------------------------------------
(* What the binding promises.                                              *)

\* Types.  Each depth counts the callbacks and the calls that are open, no more than one
\* onOutput is, and the lock's holder is the one call that runs.
TypeOK ==
  /\ phase \in [Calls -> Phases] /\ queue \in Seq(Calls)
  /\ holder \in Calls \union {None}
  /\ \A c \in Calls : holder = c <=> phase[c] \in {"running", "builtin", "promised", "output",
                                                   "awaiting", "emitted", "returned", "refused"}
  /\ cancelled \in BOOLEAN /\ kept \in BOOLEAN
  /\ outputDepth \in 0 .. 1
  /\ syncDepth \in 0 .. Len(loop)
  /\ failed \in [Calls -> BOOLEAN] /\ requested \in [Calls -> BOOLEAN]
  /\ triggered \in [Calls -> BOOLEAN] /\ left \in [Calls -> 0 .. MaxCallbacks]

\* When no call is open, the flag is set exactly if the host has cancelled and nothing took
\* it back: a failing onOutput does not poison later calls, and it does not take back a
\* cancel() that came before it or after its call (streaming-output.spec.ts:149, 168).
FlagMeansCancel ==
  (\A c \in Calls : phase[c] = "new") => (cancelled <=> kept)

\* Every call ends, also when a custom builtin makes a blocking call on its own instance or
\* awaits a promise queued behind its own: the execution timeout gives the lock back.  What a
\* host must not do is make a blocking call while a promise with onOutput is pending.
EveryCallEnds == \A c \in Calls : phase[c] # "new" ~> phase[c] = "new"

\* The event loop never waits for a lock whose holder's thread waits for the event loop: no
\* timeout ends that.  reject_on_output_reentry is there to prevent it and looks too early:
\* executeSync is let through before the script has output, or before the task that carries
\* the output has entered the scope.
LoopNeverWaitsForItself ==
  \A c, d \in Calls :
    holder = d /\ phase[d] \in {"emitted", "output"} =>
      ~(loop # <<>> /\ Top = Frame("call", c) /\ phase[c] = "waiting")

=============================================================================
