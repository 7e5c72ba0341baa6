--------------------------- MODULE SigintWatchdog ---------------------------
(***************************************************************************)
(* The SIGINT watchdog of the vm binding (lib/bindings/node_contextify.cpp)*)
(* as the REPL uses it: JS starts and stops it around script evaluations,  *)
(* which nest, while signals arrive at any point of the native code.       *)
(*                                                                         *)
(* The handler runs on the main thread, where the kernel delivers a SIGINT *)
(* that thread does not block: it interrupts the thread between two steps  *)
(* and runs to completion.                                                 *)
(***************************************************************************)
EXTENDS Naturals, Sequences

CONSTANTS MaxDepth,    \* bound: nested evaluations
          MaxSignals   \* bound: signals that reach the handler

ASSUME SigintBounds == MaxDepth \in Nat \ {0} /\ MaxSignals \in Nat

VARIABLES
  s_sigintWatching, s_sigintReceived, s_vmScriptDepth,
  installed,   \* sigintHandler is the disposition of SIGINT
  starting,    \* inside startSigintWatchdog, after sigaction
  asyncBreak,  \* the break requested of the interpreter and not yet observed
  frames,      \* the runInContext calls on the stack, innermost last
  last,        \* how the last evaluation ended, and what its caller saw
  arrived, delivered   \* history: signals handled; interrupts thrown or reported

sigVars == <<s_sigintWatching, s_sigintReceived, installed>>
vars == <<sigVars, s_vmScriptDepth, starting, asyncBreak, frames, last, arrived, delivered>>

(***************************************************************************)
(* The phases of runInContext, and how hermes_run_bytecode ended: it       *)
(* returned, the script threw, or the interpreter observed the break.      *)
(***************************************************************************)
Phases == {"entered", "leave", "clear", "discard", "run", "ran", "cancel", "settle", "convert"}
Fates  == {"none", "ok", "own", "break"}
Seen   == {"none", "ok", "own", "timeout", "interrupted"}

Frame == [phase : Phases, fate : Fates, breakWasPending : BOOLEAN, nested : BOOLEAN]

Top == frames[Len(frames)]
At(phase) == frames # <<>> /\ Top.phase = phase
SetTop(f) == frames' = [frames EXCEPT ![Len(frames)] = f]

\* JS runs: outside any evaluation, or in the innermost script.
InJS == ~starting /\ (frames = <<>> \/ At("run"))

Init ==
  /\ s_sigintWatching = FALSE /\ s_sigintReceived = FALSE /\ s_vmScriptDepth = 0
  /\ installed = FALSE /\ starting = FALSE /\ asyncBreak = FALSE
  /\ frames = <<>> /\ last = [fate |-> "none", seen |-> "none"]
  /\ arrived = 0 /\ delivered = 0

-----------------------------------------------------------------------------
\* Latches the signal; breaks the interpreter only inside an evaluation.
sigintHandler ==
  /\ installed /\ arrived < MaxSignals
  /\ s_sigintReceived' = TRUE
  /\ asyncBreak' = (asyncBreak \/ s_vmScriptDepth > 0)
  /\ arrived' = arrived + 1
  /\ UNCHANGED <<s_sigintWatching, installed, s_vmScriptDepth, starting, frames, last, delivered>>

\* startSigintWatchdog up to sigaction, which may fail; a no-op while watching.
startSigintWatchdog ==
  /\ InJS /\ ~s_sigintWatching
  /\ s_sigintReceived' = FALSE
  /\ \/ installed' = TRUE /\ starting' = TRUE
     \/ UNCHANGED <<installed, starting>>
  /\ UNCHANGED <<s_sigintWatching, s_vmScriptDepth, asyncBreak, frames, last, arrived, delivered>>

startSigintWatchdogReturn ==
  /\ starting
  /\ s_sigintWatching' = TRUE /\ starting' = FALSE
  /\ UNCHANGED <<s_sigintReceived, installed, s_vmScriptDepth, asyncBreak, frames, last>>
  /\ UNCHANGED <<arrived, delivered>>

\* stopSigintWatchdog: no signal comes in once the disposition is restored.
stopSigintWatchdog ==
  /\ InJS /\ s_sigintWatching
  /\ installed' = FALSE /\ s_sigintWatching' = FALSE
  /\ delivered' = IF s_sigintReceived THEN delivered + 1 ELSE delivered
  /\ s_sigintReceived' = FALSE
  /\ asyncBreak' = FALSE
  /\ UNCHANGED <<s_vmScriptDepth, starting, frames, last, arrived>>

-----------------------------------------------------------------------------
(* runInContext, one step per access to what the handler shares            *)

\* Mutant: an evaluation within an evaluation resets the count.
runInContextReset ==
  /\ InJS /\ Len(frames) < MaxDepth
  /\ s_vmScriptDepth' = 1
  /\ frames' = Append([i \in DOMAIN frames |-> [frames[i] EXCEPT !.nested = TRUE]],
                      [phase |-> "entered", fate |-> "none", breakWasPending |-> FALSE,
                       nested |-> FALSE])
  /\ UNCHANGED <<sigVars, starting, asyncBreak, last, arrived, delivered>>

\* Enters the interruptible region.
runInContext ==
  /\ InJS /\ Len(frames) < MaxDepth
  /\ s_vmScriptDepth' = s_vmScriptDepth + 1
  /\ frames' = Append([i \in DOMAIN frames |-> [frames[i] EXCEPT !.nested = TRUE]],
                      [phase |-> "entered", fate |-> "none", breakWasPending |-> FALSE,
                       nested |-> FALSE])
  /\ UNCHANGED <<sigVars, starting, asyncBreak, last, arrived, delivered>>

\* Mutant: no look at a signal that precedes the evaluation.
EntryCheckSkipped ==
  /\ At("entered")
  /\ SetTop([Top EXCEPT !.phase = "run"])
  /\ UNCHANGED <<sigVars, s_vmScriptDepth, starting, asyncBreak, last, arrived, delivered>>

\* The check for a SIGINT that is already pending.
EntryCheck ==
  /\ At("entered")
  /\ SetTop([Top EXCEPT !.phase =
               IF s_sigintWatching /\ s_sigintReceived THEN "leave" ELSE "run"])
  /\ UNCHANGED <<sigVars, s_vmScriptDepth, starting, asyncBreak, last, arrived, delivered>>

\* A pending one is delivered at entry: leave the region, ...
EntryLeave ==
  /\ At("leave")
  /\ s_vmScriptDepth' = s_vmScriptDepth - 1
  /\ SetTop([Top EXCEPT !.phase = "clear"])
  /\ UNCHANGED <<sigVars, starting, asyncBreak, last, arrived, delivered>>

\* The innermost evaluation is over; f and s are its fate and what JS sees of it.
\* The uncatchable TimeoutError ends the script that made the call as well.
Return(f, s) ==
  /\ last' = [fate |-> f, seen |-> s]
  /\ LET rest == SubSeq(frames, 1, Len(frames) - 1)
     IN frames' = IF s = "timeout" /\ rest # <<>>
                    THEN [rest EXCEPT ![Len(rest)].phase = "ran", ![Len(rest)].fate = "break"]
                    ELSE rest

\* ... clear the latch, ...
EntryClear ==
  /\ At("clear")
  /\ s_sigintReceived' = FALSE
  /\ delivered' = delivered + 1
  /\ SetTop([Top EXCEPT !.phase = "discard"])
  /\ UNCHANGED <<s_sigintWatching, installed, s_vmScriptDepth, starting, asyncBreak, last, arrived>>

\* ... cancel the break and throw the catchable error.
EntryThrow ==
  /\ At("discard")
  /\ asyncBreak' = FALSE
  /\ Return("none", "interrupted")
  /\ UNCHANGED <<sigVars, s_vmScriptDepth, starting, arrived, delivered>>

\* hermes_run_bytecode returns; the interpreter may observe the break instead.
ScriptEnds ==
  /\ At("run") /\ ~starting
  /\ \/ \E f \in {"ok", "own"} :
          /\ SetTop([Top EXCEPT !.phase = "ran", !.fate = f])
          /\ UNCHANGED asyncBreak
     \/ /\ asyncBreak
        /\ asyncBreak' = FALSE
        /\ SetTop([Top EXCEPT !.phase = "ran", !.fate = "break"])
  /\ UNCHANGED <<sigVars, s_vmScriptDepth, starting, last, arrived, delivered>>

LeaveRegion ==
  /\ At("ran")
  /\ s_vmScriptDepth' = s_vmScriptDepth - 1
  /\ SetTop([Top EXCEPT !.phase = "cancel"])
  /\ UNCHANGED <<sigVars, starting, asyncBreak, last, arrived, delivered>>

\* Mutant: the break is only cancelled when the evaluation failed.
CancelBreakOnFailure ==
  /\ At("cancel")
  /\ SetTop([Top EXCEPT !.phase = "settle",
                        !.breakWasPending = s_sigintWatching /\ asyncBreak])
  /\ asyncBreak' = IF s_sigintWatching /\ Top.fate # "ok" THEN FALSE ELSE asyncBreak
  /\ UNCHANGED <<sigVars, s_vmScriptDepth, starting, last, arrived, delivered>>

\* Cancels the break the script did not observe, when the watchdog is active.
CancelBreak ==
  /\ At("cancel")
  /\ SetTop([Top EXCEPT !.phase = "settle",
                        !.breakWasPending = s_sigintWatching /\ asyncBreak])
  /\ asyncBreak' = IF s_sigintWatching THEN FALSE ELSE asyncBreak
  /\ UNCHANGED <<sigVars, s_vmScriptDepth, starting, last, arrived, delivered>>

\* A failure with a latched signal and no break pending counts as the interrupt;
\* any other outcome is the caller's.
Settle ==
  /\ At("settle")
  /\ IF Top.fate # "ok" /\ s_sigintReceived /\ ~Top.breakWasPending
       THEN SetTop([Top EXCEPT !.phase = "convert"]) /\ UNCHANGED last
       ELSE Return(Top.fate, IF Top.fate = "break" THEN "timeout" ELSE Top.fate)
  /\ UNCHANGED <<sigVars, s_vmScriptDepth, starting, asyncBreak, arrived, delivered>>

\* Mutant: the signal stays latched after it has been delivered.
ConvertLatched ==
  /\ At("convert")
  /\ delivered' = delivered + 1
  /\ Return(Top.fate, "interrupted")
  /\ UNCHANGED <<sigVars, s_vmScriptDepth, starting, asyncBreak, arrived>>

\* Marks the signal delivered and throws the catchable error instead.
Convert ==
  /\ At("convert")
  /\ s_sigintReceived' = FALSE
  /\ delivered' = delivered + 1
  /\ Return(Top.fate, "interrupted")
  /\ UNCHANGED <<s_sigintWatching, installed, s_vmScriptDepth, starting, asyncBreak, arrived>>

Next ==
  \/ sigintHandler
  \/ startSigintWatchdog \/ startSigintWatchdogReturn \/ stopSigintWatchdog
  \/ runInContext \/ EntryCheck \/ EntryLeave \/ EntryClear \/ EntryThrow
  \/ ScriptEnds \/ LeaveRegion \/ CancelBreak \/ Settle \/ Convert

Spec == Init /\ [][Next]_vars

-----------------------------------------------------------------------------
(* Properties                                                              *)

TypeOK ==
  /\ s_sigintWatching \in BOOLEAN /\ s_sigintReceived \in BOOLEAN
  /\ s_vmScriptDepth \in 0..MaxDepth /\ installed \in BOOLEAN /\ starting \in BOOLEAN
  /\ asyncBreak \in BOOLEAN /\ frames \in Seq(Frame) /\ Len(frames) <= MaxDepth
  /\ last \in [fate : Fates, seen : Seen]
  /\ arrived \in 0..MaxSignals /\ delivered \in Nat

\* sigintHandler, "would detonate at the next async break check in any JS": when
\* JS runs outside every vm evaluation no break is pending, wherever a handler on
\* the main thread interrupted the evaluations before.
BreakContained == (frames = <<>> /\ ~starting) => ~asyncBreak

\* s_sigintReceived, "delivery-once": no more interrupts are thrown or reported
\* than signals were received, and one is owed exactly while a signal is latched.
DeliveredOnce ==
  /\ delivered <= arrived
  /\ s_sigintReceived => delivered < arrived
  /\ arrived > 0 /\ ~s_sigintReceived => delivered > 0

\* runInContext, "no window in between": while a script runs that has made no
\* nested evaluation, a latched signal has its break pending in the interpreter.
InterruptArmed ==
  (At("run") /\ ~Top.nested /\ s_sigintReceived) => asyncBreak

\* runInContext, "converts the uncatchable timeout error into a catchable Error so
\* the REPL can recover": JS never sees the TimeoutError of an observed break.
TimeoutConverted == last.fate = "break" => last.seen = "interrupted"
=============================================================================
