# hermes-node in TLA+

hermes-node runs Node.js programs on the Hermes engine: Node's own JavaScript
library (`libjs-node/`), a C++ runtime and bindings (`lib/`), and libuv. These
modules model the parts of it where order matters: threads against the event
loop, signals against script evaluation, nested callbacks against process exit.
TLC checks them on small instances; TLAPS proves the event loop's invariants for
every instance.

Paths are relative to the repository. "JS" is whatever program is running.

## The system, and what is hard about it

| Part | State | Operations | What is hard to test |
|---|---|---|---|
| N-API host, `lib/event-loop/uv_event_loop.cpp` | task list, `loopRefs`, `closed` under `taskMutex`; async handle and its reference; libuv's request count | `postTask`, `postWork`, `refLoop`, `unrefLoop`, `onAsync`, `drainTasks`, `run`, `close` | foreign threads between unlock and send; liveness decided on stale data; calls after `close()` |
| SIGINT watchdog, `lib/bindings/node_contextify.cpp` | `s_sigintWatching`, `s_sigintReceived`, `s_vmScriptDepth`, the interpreter's pending break | start, stop, `runInContext`, the signal handler | a signal between any two instructions, two signals, nested evaluations |
| Process exit, `lib/process/node_process.cpp`, `lib/bindings/node_errors.cpp`, `libjs/process-events.js`, steps 13-16 of `lib/runtime/hermes_node_runtime.cpp` | two exit codes, two "exiting" flags, the listeners, the terminal mode | main script, loop, `process.exit`, uncaught exception, rejection, step 15, cleanup | exits nested in exits; callbacks run by the exit's own flush |
| Timers, immediates, ticks, rejections: `node_timers.cpp`, `node_task_queue.cpp`, `libjs-node/internal/timers.js`, `task_queues.js`, `promises.js` | lists per duration, priority queue, one `uv_timer_t`, immediate queues and counts, tick queue, pending rejections | insert, unenroll, `processTimers`, `processImmediate`, `processTicksAndRejections` | a callback that throws, clears or inserts in the middle of a list |
| Inspector bridge, `lib/inspector/inspector_bridge.cpp` | two queues, three async handles, ready and shutdown flags | send both ways, `notifyReady`, shutdown, join | two loops starting and stopping in any order |
| Compile cache, `lib/compile-cache/` | files of a generation directory | look up, save, invalidate, prune | several processes, a crash between write and rename |
| Bundles, `lib/bundle/`, `lib/build-exe/` | container file, unpacked native modules | build, map, resolve, unpack | concurrent unpacking; the rest is sequential |
| Handles and streams, child processes, zlib, c-ares, fs | one object per libuv handle or request | open, start, stop, close, requests | close against a pending request or callback |
| Module loader, binding registry, pure bindings, command line | module cache; none | load; functions | cyclic and failing loads |

`PROJECT.json` lists every part with its sources, and the hazards at their lines.

## Modules

**`UvEventLoop`** is the host vtable driven as `runHermesNode` drives it. The
variables `closed`, `taskHead`, `loopRefs` are the fields of `Impl`; `asyncRef`,
`asyncHandle`, `asyncPending` the `uv_async_t`; `activeReqs`, `handles`,
`closing` libuv's counts. A section under `taskMutex` is one step; `host` and
`pc` say where the loop thread and a foreign thread are inside a host call after
the unlock. `stage` follows the runtime (script, loop, exit, the steps of
`close()`, teardown of the env), `ctx` the position within `uv_run`. JS may make
any host call in any callback. `uv_run`, the liveness test, `uv_async_send` and
the closing of handles are modelled from libuv's own source. Handles other than
the async handle are a count. `cancelWork` (always false), the destructor and the
result of `uv_loop_close` are left out.

Two behaviours of it are easy to miss. An off-thread `uv_queue_work` increments
libuv's plain request count while the loop thread increments or decrements it, a
data race: every update is a read and a write, in two steps, and `lost` records
that one overwrote another. And `process.exit` may be called from any JS,
`drainTasks` included: it runs `exit` handlers and then the loop
(`flushPendingWrites`) on top of its caller and never returns. A drain made there
takes newer tasks while the rest of the batch below is on a stack nobody goes back
to; `skipped` counts those tasks. `Terminate` is `_exit`, by `process.exit` or for
an exception nobody handles. The model has one runtime: the inspector's, which
overwrites the loop that `process.exit` flushes, is a hazard listed and not
modelled.

**`HostQueue`** is what the host promises N-API: tasks are run in the order they
are accepted, each once, and those accepted before the host shuts are all run
(`Progress`). Only the exit of the process breaks the promise (`Exit`): it may give
up tasks from the front of the queue, and later ones may still run.
`UvEventLoop` implements it with `queue <- batch \o Reverse(taskHead)`.

**`SigintWatchdog`** has one step per access to what the handler shares; the
handler interrupts the main thread between two steps. `frames` is the stack of
`runInContext` calls, `asyncBreak` the break requested of Hermes and not yet
observed. The TimeoutError is uncatchable, so it also ends the script that made
the nested call. `watchdogHasPendingSigint` reads a flag and is left out. The
handler runs on the main thread, where Linux delivers a process-directed signal
that thread does not block.

**`ProcessExit`** has a stack of activations (the main script, loop callbacks,
listeners, `exit` handlers, and `process.exit` in its flush), in each of which JS
may do anything the routes depend on. `exitCode` and `processExiting` are the
native variables, `jsExitCode` and `jsExiting` the properties of `process`.
`uncaught` tells an empty listener list from none, as `process.emit` does.
The program may also clear `process.exitCode`: `undefined`, `null` or anything but
a number is no opinion, and `readProcessExitCode` keeps the code it had. History:
`single` is what the program last said, as the one variable Node keeps would have
it; `exits` counts `exit` events and `emitted` is the code of the last; `late` says
a callback ran after the event; `handlerThrew` says an `exit` handler threw. Node
would end with 1 then; this code drops the exception, step 15 after printing it,
and goes on to the status it would have had. `ExitStatus` says so, and
`SingleVariable`, which is about Node's rule, excludes it. Left out:
`process.abort` and the abort of `napi_fatal_exception`, which end the process on
the spot, `uncaughtExceptionMonitor`, which behaves as a part of the listener, and
the coercion of arguments (one that `process.exit` rejects is a throw of the
program).

`MCUvEventLoop` gives `UvEventLoop` its sets of threads and work items; the other
two modules take their constants from the configuration alone.

## Runs

| Run | Instance | Shows |
|---|---|---|
| `event_loop` | two foreign threads, one of which queues work, two work items, four host calls, one other handle | all safety properties of the host; that `run()` returns only when idle, unless an update of the request count was lost; and that it implements `HostQueue!Spec` |
| `event_loop_live` | one foreign thread that posts tasks and queues work, two work items, three host calls, no other handle | until the process exits, and unless an update of the request count is lost: every task runs (`HostQueue!Progress`), every item queued before `close()` completes |
| `event_loop_queue_race` | one foreign thread, one work item | **violated**: a thread can be inside `uv_queue_work` while `close()` tears the loop down |
| `event_loop_work_lost` | one foreign thread, two work items | **violated**: an update of the request count is lost, and `run()` returns with an item queued |
| `event_loop_close_hang` | one other handle | **violated**: `close()` never returns while a handle is open |
| `sigint` | two nested evaluations, three signals | no break leaks into other JS; delivery once; no window for a script that has made no nested evaluation (a nested one may take the break of its caller's signal) |
| `sigint_timeout` | one evaluation, two signals | **violated**: the uncatchable error escapes |
| `exit` | two callbacks, four activations, codes 0 to 2 and none, handlers that throw | status, number of `exit` events, no orderly route skips them |
| `exit_once` | same | **violated**: a second `exit` event |
| `exit_status` | same | **violated**: a failed script ends with 0 |
| `exit_swallowed` | same | **violated**: an exception with no listener is dropped |
| `exit_terminal` | same | **violated**: `_exit` with the terminal raw |

Each violated property quotes a comment of the code; the findings in
`PROJECT.json` give the line, the comment and the behaviour.

Bounds. Four host calls by three threads cover a task posted before, while and
after the loop thread steals the list or closes, a `process.exit` in the first of
two tasks with a third posted behind it, and two items whose updates of the count
race; the proofs remove the bound. Two
evaluations are an inner and an outer one, the only distinction the code makes,
and three signals are one more than it takes to have one latched and one pending.
Two callbacks and four activations fit an exit in a callback in a flush in an
exit. Codes 0, 1 and 2 are success, the runtime's own failure and the program's.
`CHECK_DEADLOCK FALSE` stands where the process ends, or where the bound on host
calls is used up.

Fairness (`event_loop_live`, `event_loop_close_hang`). A thread inside a host call
finishes it and JS callbacks return: weak fairness of the threads' steps. libuv
serves a pending wakeup or a finished request each time it polls, and an
iteration serves finitely many events and closings: strong fairness of `OnAsync`,
`OnWorkDone` and of an `EndIteration` that finishes all closings. Between `exit`
and `close()` the runtime runs a bounded number of single iterations: strong
fairness of `Close`. Nothing is assumed of foreign threads between calls, of
handles, or of a process that exits: the liveness properties end there. They also
end where an update of the request count is lost, since a count that is too high
keeps `close()` in `uv_run` and one that is too low lets `run()` return;
`event_loop_work_lost` shows the second.

## Proofs

`UvEventLoopProofs` proves, for every set of threads and work items and all
bounds, from the assumptions on the constants in `UvEventLoop`:

- `TypeCorrect`: `TypeOK`. Booleans (`FlagsOK`) and the rest (`StateOK`) are
  separate conjuncts, one for each prover.
- `TasksRunInOrder`, `CloseDrains`, `WakeupNotLost`, `AsyncRefCorrect`,
  `CompleteOnce`, `HandleNotTouched`: the safety properties of `event_loop`.
- `HostQueueRefined`: `UvEventLoop` implements `HostQueue!Spec`.

`UvEventLoopIdleProofs` adds `RunReturnsIdle`: `RunReturnsWhenIdle`.

None of the invariants is inductive alone. `Inductive` adds: `ControlInv`, which
`stage`, `ctx` and `host` go together, and that `closed` holds exactly from
`marked` on; `QueueInv`, that list, batch and history are consecutive numbers,
that a batch exists only inside `drainTasks`, and that nothing that ran comes after
what waits, the tasks left behind by `process.exit` counted; `RefInv`, that `alive`, once
computed, is still right when it is applied - a foreign push can only make it
too small for a task that is not the loop thread's, which is what the property
allows; `WorkInv`, where an item can be while a foreign thread holds it. Each
conjunct has a lemma with one case per action; the theorems follow from
`InductiveHolds`. The refinement rests on `PendingValue`, which says what
`batch \o Reverse(taskHead)` is: every step leaves it alone, appends the accepted
task, removes its head or, in `process.exit`, cuts the batch off its front
(`CutFront`); `ExitStays` says that no step takes the exit back. `RunReturnsIdle`
needs `CountInv`: while no update has been lost, the request count is the number
of items that are queued or executed and not done. A thread that writes what it
read before another's update sets `lost`, so the count needs no lock for this.

Only model-checked: liveness (fairness is out of the prover's reach), and the
modules `SigintWatchdog` and `ProcessExit`.

## Plan

1. `UvEventLoop`, `HostQueue` and their proofs: done.
2. `SigintWatchdog`, `ProcessExit`: modelled and checked; proofs of
   `BreakContained`, `DeliveredOnce` and `ExitOnceUnlessFatal` to come.
3. `Timers`: lists, priority queue and `uv_timer_t` against an abstract set of
   timers with deadlines; immediates; the tick drain around them; throwing
   callbacks.
4. `InspectorBridge`: two loops and threads, against an abstract pair of FIFO
   channels; liveness of shutdown.
5. `CompileCache`: several processes over one directory with crashes, and the
   unpacking of native modules of a bundle, which uses the same rename.
6. `HandleWrap` and the stream requests on it, then zlib, `spawnSync`, c-ares and
   the module cache, as far as each has more than one actor.

## Not modelled

`PROJECT.json` gives the reason for every part left out: sequential conversions
(bundle container, command line), functions of their arguments (buffers, URL,
encodings), generated or vendored code (llhttp, zlib, Node's library; of libuv
only what the host uses is modelled, from its source), Hermes and its N-API, whose
source is not in the repository, and the parts in the plan above.
