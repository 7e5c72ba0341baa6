---------------------------- MODULE ProcessExit ----------------------------
(***************************************************************************)
(* How a hermes-node process ends: the runtime's steps 13 to 16            *)
(* (lib/runtime/hermes_node_runtime.cpp), process.exit                     *)
(* (lib/process/node_process.cpp), the uncaught-exception route            *)
(* (lib/bindings/node_errors.cpp, libjs/process-events.js) and the two     *)
(* exit codes and two "exiting" flags they keep.                           *)
(*                                                                         *)
(* The program is any JavaScript: in every activation it may assign        *)
(* process.exitCode, or clear it, call process.exit, throw, return, put    *)
(* the terminal in raw mode, and add or remove an 'uncaughtException'      *)
(* listener.                                                               *)
(***************************************************************************)
EXTENDS Naturals, Sequences

CONSTANTS Codes,          \* the exit codes the program uses, 0 and 1 among them
          Undefined,      \* undefined, null: an exitCode, or an argument, not given
          MaxCallbacks,   \* bound: loop callbacks that run
          MaxDepth        \* bound: activations and flushes on the stack

ASSUME ExitAssumption ==
  /\ {0, 1} \subseteq Codes /\ Codes \subseteq Nat /\ Undefined \notin Codes
  /\ MaxCallbacks \in Nat /\ MaxDepth \in Nat \ {0}

VARIABLES
  stage,           \* the step of the runtime that is running
  stack,           \* JS activations and process.exit flushes, innermost last
  exitCode,        \* the runtime's own
  jsExitCode,      \* process.exitCode
  before,          \* process.exitCode as step 15 found it
  processExiting, jsExiting,   \* the native flag; process._exiting
  uncaught,        \* the 'uncaughtException' list: "none", "empty" or "listed"
  rawMode,         \* the terminal is in raw mode
  status, how,     \* the status the process ended with, and the route
  exits, emitted,              \* history: 'exit' events, the code of the last
  single, failed, handlerThrew, late, swallowed, callbacks   \* history

codeVars == <<exitCode, jsExitCode, before, single, failed, handlerThrew>>
flagVars == <<processExiting, jsExiting, exits, emitted>>
endVars  == <<rawMode, status, how>>
vars == <<stage, stack, codeVars, flagVars, endVars, uncaught, late, swallowed, callbacks>>

(***************************************************************************)
(* Activations: the main script, a loop callback, an 'uncaughtException'   *)
(* listener, and 'exit' handlers run by step 15, process.exit or           *)
(* _fatalException; "flush" is process.exit inside flushPendingWrites.     *)
(***************************************************************************)
Kinds  == {"script", "callback", "listener", "exitNative", "exitCall", "exitFatal", "flush"}
Stages == {"script", "loop", "settle", "emit", "flush", "cleanup", "done"}
Routes == {"none", "natural", "exit", "fatal", "listenerThrew", "rejection"}

Top == stack[Len(stack)]
Ended == status # Undefined
InJS == ~Ended /\ stack # <<>> /\ Top.kind # "flush"
Running(kind) == ~Ended /\ stack # <<>> /\ Top.kind = kind
Native(s) == ~Ended /\ stack = <<>> /\ stage = s

Frame(kind, code) == [kind |-> kind, code |-> code]
Pop == SubSeq(stack, 1, Len(stack) - 1)
Replace(f) == [stack EXCEPT ![Len(stack)] = f]

\* A process.exitCode that is not a number leaves the code as it is.
readProcessExitCode(code) == IF jsExitCode = Undefined THEN code ELSE jsExitCode

\* The process ends with status c; the routes through _exit reset the terminal.
End(c, route) ==
  /\ status' = c /\ how' = route
  /\ rawMode' = IF route \in {"exit", "fatal", "listenerThrew"} THEN FALSE ELSE rawMode

Init ==
  /\ stage = "script" /\ stack = <<Frame("script", 0)>>
  /\ exitCode = 0 /\ jsExitCode = Undefined /\ before = Undefined
  /\ processExiting = FALSE /\ jsExiting = FALSE
  /\ uncaught = "none" /\ rawMode = FALSE /\ status = Undefined /\ how = "none"
  /\ exits = 0 /\ emitted = 0 /\ single = Undefined /\ failed = FALSE /\ handlerThrew = FALSE
  /\ late = FALSE /\ swallowed = FALSE /\ callbacks = 0

-----------------------------------------------------------------------------
(* What the program does                                                   *)

\* process.exitCode = c, a plain property: also back to undefined or null.
AssignExitCode(c) ==
  /\ InJS
  /\ jsExitCode' = c /\ single' = c
  /\ UNCHANGED <<stage, stack, exitCode, before, flagVars, endVars, uncaught>>
  /\ UNCHANGED <<late, swallowed, failed, handlerThrew, callbacks>>

SetRawMode ==
  /\ InJS
  /\ rawMode' = TRUE
  /\ UNCHANGED <<stage, stack, codeVars, flagVars, status, how, uncaught>>
  /\ UNCHANGED <<late, swallowed, callbacks>>

\* process.on, process.off (which keeps the list) and process.removeAllListeners.
ChangeListener ==
  /\ InJS
  /\ \/ uncaught' = "listed"
     \/ uncaught = "listed" /\ uncaught' = "empty"
     \/ uncaught' = "none"
  /\ UNCHANGED <<stage, stack, codeVars, flagVars, endVars, late, swallowed, callbacks>>

\* process.exit([code]): without an argument the code is process.exitCode. The
\* first call publishes it and emits 'exit'; a later one goes on to the flush.
processExit(arg) ==
  /\ InJS /\ Len(stack) < MaxDepth
  /\ LET code == IF arg = Undefined THEN readProcessExitCode(0) ELSE arg
     IN /\ single' = IF arg = Undefined THEN single ELSE arg
        /\ IF processExiting
             THEN /\ stack' = Append(stack, Frame("flush", code))
                  /\ UNCHANGED <<processExiting, jsExitCode, exits, emitted>>
             ELSE /\ processExiting' = TRUE
                  /\ jsExitCode' = code
                  /\ exits' = exits + 1 /\ emitted' = code
                  /\ stack' = Append(stack, Frame("exitCall", code))
  /\ UNCHANGED <<stage, exitCode, before, jsExiting, endVars, uncaught, late, swallowed>>
  /\ UNCHANGED <<failed, handlerThrew, callbacks>>

-----------------------------------------------------------------------------
(* How activations end; a throw is an exception that leaves the activation *)

\* The main script returns, or throws: the run has failed and skips the loop.
ScriptEnds ==
  /\ Running("script")
  /\ stack' = <<>>
  /\ \/ stage' = "loop" /\ UNCHANGED <<exitCode, single, failed>>
     \/ stage' = "settle" /\ exitCode' = 1 /\ single' = 1 /\ failed' = TRUE
  /\ UNCHANGED <<jsExitCode, before, handlerThrew, flagVars, endVars, uncaught>>
  /\ UNCHANGED <<late, swallowed, callbacks>>

CallbackReturns ==
  /\ Running("callback")
  /\ stack' = Pop
  /\ UNCHANGED <<stage, codeVars, flagVars, endVars, uncaught, late, swallowed, callbacks>>

\* Mutant: _fatalException leaves the 'exit' handlers to step 15.
CallbackThrowsNoExit ==
  /\ Running("callback")
  /\ \/ /\ uncaught # "none"
        /\ stack' = IF uncaught = "listed" THEN Replace(Frame("listener", 0)) ELSE Pop
        /\ swallowed' = (swallowed \/ uncaught = "empty")
        /\ UNCHANGED <<jsExiting, jsExitCode, exits, emitted, single, endVars>>
     \/ /\ uncaught = "none"
        /\ jsExiting' = TRUE /\ single' = 1 /\ End(1, "fatal")
        /\ UNCHANGED <<stack, jsExitCode, exits, emitted, swallowed>>
  /\ UNCHANGED <<stage, exitCode, before, processExiting, uncaught, late, failed>>
  /\ UNCHANGED <<handlerThrew, callbacks>>

\* triggerUncaughtException: process.emit answers whether there is a list of
\* listeners. With none, _fatalException emits 'exit' unless _exiting.
CallbackThrows ==
  /\ Running("callback")
  /\ \/ /\ uncaught # "none"
        /\ stack' = IF uncaught = "listed" THEN Replace(Frame("listener", 0)) ELSE Pop
        /\ swallowed' = (swallowed \/ uncaught = "empty")
        /\ UNCHANGED <<jsExiting, jsExitCode, exits, emitted, single, endVars>>
     \/ /\ uncaught = "none" /\ ~jsExiting
        /\ jsExiting' = TRUE /\ jsExitCode' = 1 /\ single' = 1
        /\ exits' = exits + 1 /\ emitted' = 1
        /\ stack' = Replace(Frame("exitFatal", 1))
        /\ UNCHANGED <<swallowed, endVars>>
     \/ /\ uncaught = "none" /\ jsExiting
        /\ single' = 1 /\ End(1, "fatal")
        /\ UNCHANGED <<stack, jsExiting, jsExitCode, exits, emitted, swallowed>>
  /\ UNCHANGED <<stage, exitCode, before, processExiting, uncaught, late, failed>>
  /\ UNCHANGED <<handlerThrew, callbacks>>

\* A listener that returns has handled the error; one that throws is fatal.
ListenerEnds ==
  /\ Running("listener")
  /\ \/ stack' = Pop /\ UNCHANGED endVars
     \/ End(1, "listenerThrew") /\ UNCHANGED stack
  /\ UNCHANGED <<stage, codeVars, flagVars, uncaught, late, swallowed, callbacks>>

\* The tick callback finds a rejection nobody handled: the errors binding's
\* triggerUncaughtException reports it and calls _exit.
UnhandledRejection ==
  /\ Running("callback")
  /\ single' = 1 /\ End(1, "rejection")
  /\ UNCHANGED <<stage, stack, exitCode, jsExitCode, before, flagVars, uncaught>>
  /\ UNCHANGED <<late, swallowed, failed, handlerThrew, callbacks>>

\* 'exit' handlers are over: they return, or one throws and the exception is
\* cleared, printed by step 15 only. Either way the exit goes on.
HandlersEnd(kind) ==
  /\ Running(kind)
  /\ handlerThrew' \in {handlerThrew, TRUE}

FatalExitEnds ==
  /\ HandlersEnd("exitFatal")
  /\ End(1, "fatal")
  /\ UNCHANGED <<stage, stack, exitCode, jsExitCode, before, single, failed, flagVars, uncaught>>
  /\ UNCHANGED <<late, swallowed, callbacks>>

\* Mutant: what the handlers left is taken without looking at its type.
ExitCallEndsUnchecked ==
  /\ HandlersEnd("exitCall")
  /\ stack' = Replace(Frame("flush", jsExitCode))
  /\ UNCHANGED <<stage, exitCode, jsExitCode, before, single, failed, flagVars, endVars, uncaught>>
  /\ UNCHANGED <<late, swallowed, callbacks>>

\* process.exit reads back the code the handlers may have changed, then flushes.
ExitCallEnds ==
  /\ HandlersEnd("exitCall")
  /\ stack' = Replace(Frame("flush", readProcessExitCode(Top.code)))
  /\ UNCHANGED <<stage, exitCode, jsExitCode, before, single, failed, flagVars, endVars, uncaught>>
  /\ UNCHANGED <<late, swallowed, callbacks>>

\* Mutant: the value the handlers left always replaces the runtime's.
NativeExitEndsReread ==
  /\ HandlersEnd("exitNative")
  /\ stack' = <<>> /\ stage' = "flush"
  /\ exitCode' = readProcessExitCode(0)
  /\ UNCHANGED <<jsExitCode, before, single, failed, flagVars, endVars, uncaught>>
  /\ UNCHANGED <<late, swallowed, callbacks>>

\* Step 15: a handler that changed process.exitCode has the last word.
NativeExitEnds ==
  /\ HandlersEnd("exitNative")
  /\ stack' = <<>> /\ stage' = "flush"
  /\ exitCode' = IF jsExitCode # before THEN readProcessExitCode(exitCode) ELSE exitCode
  /\ UNCHANGED <<jsExitCode, before, single, failed, flagVars, endVars, uncaught>>
  /\ UNCHANGED <<late, swallowed, callbacks>>

-----------------------------------------------------------------------------
(* Native code: the loop, wherever it is run, and the runtime's steps      *)

LoopRuns == Native("loop") \/ Native("flush") \/ Native("cleanup") \/ Running("flush")

\* uv_run finds a callback that is ready.
RunCallback ==
  /\ LoopRuns /\ callbacks < MaxCallbacks /\ Len(stack) < MaxDepth
  /\ callbacks' = callbacks + 1
  /\ late' = (late \/ ~Native("loop"))
  /\ stack' = Append(stack, Frame("callback", 0))
  /\ UNCHANGED <<stage, codeVars, flagVars, endVars, uncaught, swallowed>>

LoopEnds ==
  /\ Native("loop")
  /\ stage' = "settle"
  /\ UNCHANGED <<stack, codeVars, flagVars, endVars, uncaught, late, swallowed, callbacks>>

\* Mutant: step 15 emits without claiming the exit.
SettleUnclaimed ==
  /\ Native("settle")
  /\ before' = jsExitCode
  /\ exitCode' = IF exitCode = 0 THEN readProcessExitCode(0) ELSE exitCode
  /\ exits' = exits + 1 /\ emitted' = exitCode'
  /\ stack' = <<Frame("exitNative", 0)>> /\ stage' = "emit"
  /\ UNCHANGED <<jsExitCode, single, processExiting, jsExiting, endVars, uncaught>>
  /\ UNCHANGED <<late, swallowed, failed, handlerThrew, callbacks>>

\* Step 15: claims the exit, takes process.exitCode unless the run has failed,
\* and emits 'exit'.
Settle ==
  /\ Native("settle")
  /\ processExiting' = TRUE
  /\ before' = jsExitCode
  /\ exitCode' = IF exitCode = 0 THEN readProcessExitCode(0) ELSE exitCode
  /\ exits' = exits + 1 /\ emitted' = exitCode'
  /\ stack' = <<Frame("exitNative", 0)>> /\ stage' = "emit"
  /\ UNCHANGED <<jsExitCode, single, jsExiting, endVars, uncaught, late, swallowed>>
  /\ UNCHANGED <<failed, handlerThrew, callbacks>>

FlushEnds ==
  /\ Native("flush")
  /\ stage' = "cleanup"
  /\ UNCHANGED <<stack, codeVars, flagVars, endVars, uncaught, late, swallowed, callbacks>>

\* The end of step 16: the runtime returns its exit code to main.
CleanupEnds ==
  /\ Native("cleanup")
  /\ stage' = "done" /\ End(exitCode, "natural")
  /\ UNCHANGED <<stack, codeVars, flagVars, uncaught, late, swallowed, callbacks>>

\* process.exit, after its flush: reset the terminal and _exit.
ExitNow ==
  /\ Running("flush")
  /\ End(Top.code, "exit")
  /\ UNCHANGED <<stage, stack, codeVars, flagVars, uncaught, late, swallowed, callbacks>>

Next ==
  \/ \E c \in Codes \cup {Undefined} : AssignExitCode(c) \/ processExit(c)
  \/ SetRawMode \/ ChangeListener
  \/ ScriptEnds \/ CallbackReturns \/ CallbackThrows \/ ListenerEnds \/ UnhandledRejection
  \/ FatalExitEnds \/ ExitCallEnds \/ NativeExitEnds
  \/ RunCallback \/ LoopEnds \/ Settle \/ FlushEnds \/ CleanupEnds \/ ExitNow

Spec == Init /\ [][Next]_vars

-----------------------------------------------------------------------------
(***************************************************************************)
(* single is what the program last said, as Node's one variable keeps it   *)
(* where this runtime keeps two: what it assigned (undefined included),    *)
(* the code it passed to process.exit, and the 1 of an uncaught exception. *)
(* The exception of an 'exit' handler is not in it: the code drops it, and *)
(* handlerThrew records that it did.  late: a callback ran after 'exit'.   *)
(***************************************************************************)

TypeOK ==
  /\ stage \in Stages /\ stack \in Seq([kind : Kinds, code : Codes]) /\ Len(stack) <= MaxDepth
  /\ exitCode \in Codes /\ jsExitCode \in Codes \cup {Undefined}
  /\ before \in Codes \cup {Undefined} /\ single \in Codes \cup {Undefined}
  /\ processExiting \in BOOLEAN /\ jsExiting \in BOOLEAN /\ rawMode \in BOOLEAN
  /\ uncaught \in {"none", "empty", "listed"}
  /\ status \in Codes \cup {Undefined} /\ how \in Routes
  /\ exits \in Nat /\ emitted \in Codes /\ callbacks \in 0..MaxCallbacks
  /\ handlerThrew \in BOOLEAN /\ failed \in BOOLEAN /\ late \in BOOLEAN /\ swallowed \in BOOLEAN

\* Step 15 and process.exit: the status is the code the program last stated, also
\* when an 'exit' handler throws, if the main script did not throw. If it did, the
\* runtime's own failure stands unless an 'exit' handler said otherwise. A program
\* that last cleared process.exitCode states none: a natural end then keeps the code
\* 'exit' was emitted with, and process.exit ends with that or with 0.
ExitStatus ==
  (Ended /\ ~late) =>
    /\ (how \in {"natural", "exit"} /\ ~failed /\ single # Undefined) => status = single
    /\ (how = "natural" /\ failed /\ single # Undefined) => status \in {1, single}
    /\ (how = "natural" /\ single = Undefined) => status = emitted
    /\ (how = "exit" /\ single = Undefined) => status \in {0, emitted}

\* processExiting: as long as no exception is fatal, step 15 and any number of
\* nested process.exit calls emit 'exit' once between them.
ExitOnceUnlessFatal == ~jsExiting => exits <= 1

\* An orderly end - the loop running out, process.exit, an exception no listener
\* takes - never skips the 'exit' handlers.
ExitHandlersRun == (Ended /\ how \in {"natural", "exit", "fatal"}) => exits >= 1

\* markProcessExiting, "so the 'exit' event fires exactly once however the process
\* ends": 'exit' is not emitted a second time on any route.
ExitOnce == exits <= 1

\* Step 15, "Reconcile them in the order Node's single variable would have ended up
\* in", for every natural end and every process.exit of a program that states a code
\* and whose 'exit' handlers do not throw.
SingleVariable ==
  (Ended /\ ~late /\ ~handlerThrew /\ how \in {"natural", "exit"} /\ single # Undefined)
    => status = single

\* _fatalException, "true means a listener took responsibility": an exception that
\* escapes a callback is not dropped with no listener there to take it.
ThrowTaken == ~swallowed

\* process.exit, "every path that calls _exit() needs its own" terminal reset: the
\* process does not leave the terminal raw through _exit.
TerminalRestored == (Ended /\ how # "natural") => ~rawMode
=============================================================================
