---------------------------- MODULE UvEventLoop ----------------------------
(***************************************************************************)
(* The libuv-backed host of Hermes N-API (lib/event-loop/uv_event_loop.cpp)*)
(* driven the way runHermesNode drives it: the main script, the do/while   *)
(* around uv_run, the exit stage, close() and the teardown of the env; or  *)
(* process.exit, from any JS, which runs the loop from where it was called *)
(* and never returns, or a fatal exception.                                *)
(*                                                                         *)
(* One loop thread and a set of foreign threads (addon threads that use a  *)
(* thread-safe function or queue async work) interleave at every point     *)
(* where the code gives up taskMutex.  A section under the mutex is one    *)
(* step.  What a callback does is up to the environment: any sequence of   *)
(* host calls, of which there are at most MaxOps in a behaviour.           *)
(***************************************************************************)
EXTENDS Integers, Sequences

CONSTANTS Loop,         \* the thread that called init()
          Producers,    \* foreign threads that call post_task
          WorkPosters,  \* foreign threads that also call post_work
          Works,        \* async work items, each submitted at most once
          NoWork,       \* no work item
          MaxOps,       \* bound: host calls and handle openings altogether
          MaxHandles    \* bound: other referenced handles open at a time

ASSUME ThreadAssumption == Loop \notin Producers /\ WorkPosters \subseteq Producers
ASSUME WorkAssumption   == NoWork \notin Works
ASSUME BoundAssumption  == MaxOps \in Nat /\ MaxHandles \in Nat

VARIABLES
  closed, taskHead, loopRefs,           \* the Impl fields under taskMutex
  batch,                                \* drainTasks: the stolen list, reversed
  asyncRef, asyncHandle, asyncPending,  \* the uv_async_t
  activeReqs, handles, closing,         \* the uv_loop_t's counts
  work, completed,                      \* per work item: progress, complete calls
  lost,                                 \* history: an update of activeReqs was lost
  stage, ctx, once,                     \* the loop thread: where it is
  host, alive, sends,                   \* the loop thread inside a host call
  pc, arg, reg,                         \* the foreign threads; all threads in
                                        \* libuv: their item, the count they read
  accepted, executed, skipped,          \* history: who posted task i; tasks run;
                                        \* tasks in batches nobody goes back to
  ops                                   \* host calls made so far

taskVars  == <<closed, taskHead, loopRefs, batch, accepted, executed,
               skipped>>
asyncVars == <<asyncRef, asyncHandle, asyncPending>>
workVars  == <<activeReqs, work, completed, lost>>
loopVars  == <<stage, ctx, once>>
hostVars  == <<host, alive, sends>>
prodVars  == <<pc, arg, reg>>
hdlVars   == <<handles, closing>>
vars == <<taskVars, asyncVars, workVars, loopVars, hostVars, prodVars, hdlVars, ops>>

Threads == Producers \cup {Loop}

(***************************************************************************)
(* stage: "main" script, "loop" the do/while around run(), "exit" from     *)
(* the 'exit' event to close(), then the steps of close(), "closed";       *)
(* "exiting" inside process.exit, whose 'exit' handlers and flush run with *)
(* the frames of the call still on the stack but never returned to.        *)
(* ctx: in "script" native code that may call JS, outside uv_run; "check"  *)
(* uv_run's liveness test; "poll" an iteration; "steal", "drain" inside    *)
(* drainTasks; "task" in a task's callback; "cb" in any other callback;    *)
(* "ended" when the process is gone.                                       *)
(***************************************************************************)
Stages   == {"main", "loop", "exit", "marked", "run1", "drain", "run2", "closed", "exiting"}
Contexts == {"script", "check", "poll", "steal", "drain", "task", "cb", "ended"}

\* process.exit has been called, or the process is gone.
Exiting == stage = "exiting" \/ ctx = "ended"

\* JS runs on the loop thread, and no host call of its is in progress.
InJS == host = "none" /\ ctx \in {"script", "task", "cb"} /\ stage # "marked"

\* uv__loop_alive: a referenced active handle, an active request, a closing handle.
\* The count of requests is unsigned: -1 is its wrapped-around value (a build with
\* assertions stops there instead).
LoopAlive ==
  \/ handles > 0 \/ closing > 0
  \/ activeReqs # 0
  \/ asyncHandle = "open" /\ asyncRef
  \/ asyncHandle = "closing"

Reverse(s) == [i \in 1..Len(s) |-> s[Len(s) + 1 - i]]

Init ==
  /\ closed = FALSE /\ taskHead = <<>> /\ loopRefs = 0 /\ batch = <<>>
  /\ asyncRef = FALSE /\ asyncHandle = "open" /\ asyncPending = FALSE
  /\ activeReqs = 0 /\ handles = 0 /\ closing = 0
  /\ work = [w \in Works |-> "new"] /\ completed = [w \in Works |-> 0] /\ lost = FALSE
  /\ stage = "main" /\ ctx = "script" /\ once = FALSE
  /\ host = "none" /\ alive = FALSE /\ sends = FALSE
  /\ pc = [p \in Producers |-> "idle"]
  /\ arg = [t \in Threads |-> NoWork] /\ reg = [t \in Threads |-> 0]
  /\ accepted = <<>> /\ executed = <<>> /\ skipped = 0 /\ ops = 0

CountOp == ops < MaxOps /\ ops' = ops + 1

-----------------------------------------------------------------------------
(* postTask, postWork, refLoop, unrefLoop: the host vtable                 *)

\* Mutant: the test of closed is missing.
PushTaskAlways(t) ==
  /\ taskHead' = <<Len(accepted) + 1>> \o taskHead
  /\ accepted' = Append(accepted, t)
  /\ UNCHANGED <<closed, loopRefs, batch, executed, skipped>>

\* The section of postTask under taskMutex; tasks are numbered as accepted.
PushTask(t) ==
  /\ ~closed
  /\ taskHead' = <<Len(accepted) + 1>> \o taskHead
  /\ accepted' = Append(accepted, t)
  /\ UNCHANGED <<closed, loopRefs, batch, executed, skipped>>

\* uv_async_send: coalescing; uv_close leaves the flag set, so it is then inert.
AsyncSend == asyncPending' = TRUE /\ UNCHANGED <<asyncRef, asyncHandle>>

\* Mutant: the loop thread takes the reference but does not send the wakeup.
LoopPostTaskSilent ==
  /\ InJS /\ CountOp
  /\ PushTask(Loop)
  /\ host' = "read" /\ sends' = FALSE /\ UNCHANGED alive
  /\ UNCHANGED <<asyncVars, workVars, loopVars, prodVars, hdlVars>>

\* postTask on the loop thread: push, then updateAsyncRef, then uv_async_send.
LoopPostTask ==
  /\ InJS /\ CountOp
  /\ PushTask(Loop)
  /\ host' = "read" /\ sends' = TRUE /\ UNCHANGED alive
  /\ UNCHANGED <<asyncVars, workVars, loopVars, prodVars, hdlVars>>

\* postTask on a foreign thread: no updateAsyncRef.
PostTask(p) ==
  /\ pc[p] = "idle" /\ ctx # "ended" /\ CountOp
  /\ PushTask(p)
  /\ pc' = [pc EXCEPT ![p] = "send"]
  /\ UNCHANGED <<asyncVars, workVars, loopVars, hostVars, arg, reg, hdlVars>>

PostTaskSend(p) ==
  /\ pc[p] = "send" /\ ctx # "ended"
  /\ AsyncSend
  /\ pc' = [pc EXCEPT ![p] = "idle"]
  /\ UNCHANGED <<taskVars, workVars, loopVars, hostVars, arg, reg, hdlVars, ops>>

\* postTask by any thread once closed: the entry is dropped.
PostTaskClosed(t) ==
  /\ IF t = Loop THEN InJS ELSE pc[t] = "idle" /\ ctx # "ended"
  /\ CountOp
  /\ closed
  /\ UNCHANGED <<taskVars, asyncVars, workVars, loopVars, hostVars, prodVars, hdlVars>>

Complete(w) == completed' = [completed EXCEPT ![w] = @ + 1]

\* A work item nobody has submitted or is about to submit.
Fresh(w) == work[w] = "new" /\ \A t \in Threads : arg[t] # w

\* postWork once closed, or when uv_queue_work fails: complete(napi_cancelled).
\* The libuv of this repository fails only without a work callback; postWork's
\* error path is kept.
Cancel(w) ==
  /\ work' = [work EXCEPT ![w] = "done"]
  /\ Complete(w)
  /\ UNCHANGED <<activeReqs, lost>>

\* active_reqs is a plain counter, and ++ and -- of it a read and a write: t has
\* read it and goes on with item w, ...
ReadCount(t, w) ==
  /\ reg' = [reg EXCEPT ![t] = activeReqs]
  /\ arg' = [arg EXCEPT ![t] = w]

\* ... then writes what it read plus d. An update made in between is lost.
WriteCount(t, d) ==
  /\ activeReqs' = reg[t] + d
  /\ lost' = (lost \/ reg[t] # activeReqs)
  /\ arg' = [arg EXCEPT ![t] = NoWork]
  /\ UNCHANGED reg

\* postWork on the loop thread: uv_queue_work registers the request, ...
LoopPostWork(w) ==
  /\ InJS /\ CountOp /\ Fresh(w)
  /\ \/ /\ ~closed
        /\ ReadCount(Loop, w)
        /\ host' = "inc" /\ sends' = FALSE /\ UNCHANGED <<workVars, alive>>
     \/ Cancel(w) /\ UNCHANGED <<arg, reg, hostVars>>
  /\ UNCHANGED <<taskVars, asyncVars, loopVars, pc, hdlVars>>

\* Mutant: the request is not counted, as if it did not hold the loop open.
LoopPostWorkUncounted ==
  /\ host = "inc"
  /\ arg' = [arg EXCEPT ![Loop] = NoWork]
  /\ work' = [work EXCEPT ![arg[Loop]] = "queued"]
  /\ host' = "none"
  /\ UNCHANGED <<activeReqs, lost, reg, completed, taskVars, asyncVars, loopVars, alive, sends>>
  /\ UNCHANGED <<pc, hdlVars, ops>>

\* ... and hands it to the pool.
LoopPostWorkQueue ==
  /\ host = "inc"
  /\ WriteCount(Loop, 1)
  /\ work' = [work EXCEPT ![arg[Loop]] = "queued"]
  /\ host' = "none"
  /\ UNCHANGED <<completed, taskVars, asyncVars, loopVars, alive, sends, pc, hdlVars, ops>>

\* Mutant: no return after the cancellation, so that the work is queued as well.
PostWorkFallThrough(p, w) ==
  /\ p \in WorkPosters /\ pc[p] = "idle" /\ ctx # "ended" /\ CountOp /\ Fresh(w)
  /\ \/ closed /\ Complete(w)
     \/ ~closed /\ UNCHANGED completed
  /\ pc' = [pc EXCEPT ![p] = "queue"]
  /\ arg' = [arg EXCEPT ![p] = w]
  /\ UNCHANGED <<activeReqs, work, lost, taskVars, asyncVars, loopVars, hostVars, reg, hdlVars>>

\* postWork on a foreign thread: reads closed under the mutex and releases it.
PostWork(p, w) ==
  /\ p \in WorkPosters /\ pc[p] = "idle" /\ ctx # "ended" /\ CountOp /\ Fresh(w)
  /\ \/ /\ closed
        /\ Cancel(w)
        /\ UNCHANGED <<pc, arg>>
     \/ /\ ~closed
        /\ pc' = [pc EXCEPT ![p] = "queue"]
        /\ arg' = [arg EXCEPT ![p] = w]
        /\ UNCHANGED workVars
  /\ UNCHANGED <<taskVars, asyncVars, loopVars, hostVars, reg, hdlVars>>

\* uv_queue_work off the loop thread, with no lock around the count; it may also
\* fail.
PostWorkRead(p) ==
  /\ pc[p] = "queue" /\ ctx # "ended"
  /\ \/ /\ ReadCount(p, arg[p])
        /\ pc' = [pc EXCEPT ![p] = "bump"]
        /\ UNCHANGED workVars
     \/ /\ Cancel(arg[p])
        /\ pc' = [pc EXCEPT ![p] = "idle"]
        /\ arg' = [arg EXCEPT ![p] = NoWork]
        /\ UNCHANGED reg
  /\ UNCHANGED <<taskVars, asyncVars, loopVars, hostVars, hdlVars, ops>>

PostWorkQueue(p) ==
  /\ pc[p] = "bump" /\ ctx # "ended"
  /\ WriteCount(p, 1)
  /\ work' = [work EXCEPT ![arg[p]] = "queued"]
  /\ pc' = [pc EXCEPT ![p] = "idle"]
  /\ UNCHANGED <<taskVars, asyncVars, completed, loopVars, hostVars, hdlVars, ops>>

\* refLoop and unrefLoop, loop thread only; unrefLoop needs a matching refLoop.
\* They still run after close(), from the teardown of the env.
RefLoop ==
  /\ InJS /\ CountOp
  /\ loopRefs' = loopRefs + 1
  /\ host' = "read" /\ sends' = FALSE /\ UNCHANGED alive
  /\ UNCHANGED <<closed, taskHead, batch, accepted, executed, skipped>>
  /\ UNCHANGED <<asyncVars, workVars, loopVars, prodVars, hdlVars>>

\* Mutant: an unref_loop without a matching ref_loop goes through.
UnrefLoopUnmatched ==
  /\ InJS /\ loopRefs > -1
  /\ loopRefs' = loopRefs - 1
  /\ host' = "read" /\ sends' = FALSE /\ UNCHANGED alive
  /\ UNCHANGED <<closed, taskHead, batch, accepted, executed, skipped>>
  /\ UNCHANGED <<asyncVars, workVars, loopVars, prodVars, hdlVars, ops>>

UnrefLoop ==
  /\ InJS /\ loopRefs > 0
  /\ loopRefs' = loopRefs - 1
  /\ host' = "read" /\ sends' = FALSE /\ UNCHANGED alive
  /\ UNCHANGED <<closed, taskHead, batch, accepted, executed, skipped>>
  /\ UNCHANGED <<asyncVars, workVars, loopVars, prodVars, hdlVars, ops>>

-----------------------------------------------------------------------------
(* updateAsyncRef, and the rest of the host call it was made from          *)

HostReturn == host' = IF sends THEN "send" ELSE "none"

\* Mutant: only the task list is looked at.
UpdateAsyncRefReadTasks ==
  /\ host = "read"
  /\ alive' = (taskHead # <<>>)
  /\ IF closed THEN HostReturn ELSE host' = "set"
  /\ UNCHANGED <<taskVars, asyncVars, workVars, loopVars, prodVars, sends, hdlVars, ops>>

\* Mutant: not inert once closed.
UpdateAsyncRefReadAlways ==
  /\ host = "read"
  /\ alive' = (taskHead # <<>> \/ loopRefs > 0)
  /\ host' = "set"
  /\ UNCHANGED <<taskVars, asyncVars, workVars, loopVars, prodVars, sends, hdlVars, ops>>

\* Under taskMutex: is there anything to stay alive for?  Inert once closed.
UpdateAsyncRefRead ==
  /\ host = "read"
  /\ alive' = (taskHead # <<>> \/ loopRefs > 0)
  /\ IF closed THEN HostReturn ELSE host' = "set"
  /\ UNCHANGED <<taskVars, asyncVars, workVars, loopVars, prodVars, sends, hdlVars, ops>>

\* uv_ref or uv_unref, after the mutex is released.
UpdateAsyncRefSet ==
  /\ host = "set"
  /\ asyncRef' = alive
  /\ HostReturn
  /\ UNCHANGED <<taskVars, asyncHandle, asyncPending, workVars, loopVars>>
  /\ UNCHANGED <<prodVars, alive, sends, hdlVars, ops>>

LoopPostTaskSend ==
  /\ host = "send"
  /\ AsyncSend
  /\ host' = "none"
  /\ UNCHANGED <<taskVars, workVars, loopVars, prodVars, alive, sends, hdlVars, ops>>

-----------------------------------------------------------------------------
(* uv_run and the callbacks it makes                                       *)

\* Native code of the runtime enters run(), and again while the loop is alive.
Run ==
  /\ InJS /\ ctx = "script"
  /\ \/ stage = "main" /\ stage' = "loop"
     \/ stage = "loop" /\ LoopAlive /\ UNCHANGED stage
  /\ once' = FALSE /\ ctx' = "check"
  /\ UNCHANGED <<taskVars, asyncVars, workVars, hostVars, prodVars, hdlVars, ops>>

\* Single iterations (UV_RUN_NOWAIT): flushPendingWrites, of the runtime after
\* 'exit' or of process.exit, and the ones the runtime makes before close().
flushPendingWrites ==
  /\ InJS /\ ctx = "script" /\ stage \in {"exit", "exiting"} /\ LoopAlive
  /\ once' = TRUE /\ ctx' = "check"
  /\ UNCHANGED <<taskVars, asyncVars, workVars, stage, hostVars, prodVars, hdlVars, ops>>

\* process.exit, from any JS: 'exit' handlers run, then the loop, on top of the
\* caller. It does not return, so that the batch that a drainTasks below it had
\* stolen is never finished, while the drains it makes run newer tasks. JS that
\* runs between two iterations stands for the last callback of the first.
processExit ==
  /\ InJS /\ stage # "closed"
  /\ stage' = "exiting" /\ ctx' = "script"
  /\ batch' = <<>> /\ skipped' = skipped + Len(batch)
  /\ UNCHANGED <<closed, taskHead, loopRefs, accepted, executed, once>>
  /\ UNCHANGED <<asyncVars, workVars, hostVars, prodVars, hdlVars, ops>>

\* _exit: at the end of process.exit, or for an exception nobody handles. The
\* other threads end with the process.
Terminate ==
  /\ InJS /\ stage # "closed"
  /\ ctx' = "ended"
  /\ UNCHANGED <<taskVars, asyncVars, workVars, stage, once, hostVars, prodVars, hdlVars, ops>>

\* The do/while ends, or it is skipped because the script failed.
LeaveLoop ==
  /\ InJS /\ ctx = "script"
  /\ \/ stage = "main"
     \/ stage = "loop" /\ ~LoopAlive
  /\ stage' = "exit"
  /\ UNCHANGED <<taskVars, asyncVars, workVars, ctx, once, hostVars, prodVars, hdlVars, ops>>

Iterate ==
  /\ ctx = "check" /\ LoopAlive
  /\ ctx' = "poll"
  /\ UNCHANGED <<taskVars, asyncVars, workVars, stage, once, hostVars, prodVars, hdlVars, ops>>

\* The end of an iteration: the close callbacks of the handles closed so far run.
\* What they and the timers after them close waits for the next iteration, as does
\* a signal handle with signals to deliver.  A single iteration returns.  (libuv
\* also drops the reference of the closed async handle; nothing reads it again.)
EndIteration ==
  /\ ctx = "poll" /\ host = "none"
  /\ asyncHandle' = IF asyncHandle = "closing" THEN "closed" ELSE asyncHandle
  /\ closing' \in 0..closing
  /\ ctx' = IF once THEN "script" ELSE "check"
  /\ UNCHANGED <<taskVars, asyncRef, asyncPending, workVars, stage, once, hostVars>>
  /\ UNCHANGED <<prodVars, handles, ops>>

\* Mutant: close() does not drain the tasks that arrived after the loop stopped.
RunReturnNoDrain ==
  /\ ctx = "check" /\ ~LoopAlive
  /\ \/ stage \in {"loop", "exit", "exiting"} /\ ctx' = "script" /\ UNCHANGED stage
     \/ stage \in {"run1", "run2"} /\ ctx' = "script" /\ stage' = "closed"
  /\ UNCHANGED <<taskVars, asyncVars, workVars, once, hostVars, prodVars, hdlVars, ops>>

\* uv_run(UV_RUN_DEFAULT) returns to the runtime, or to the next step of close().
RunReturn ==
  /\ ctx = "check" /\ ~LoopAlive
  /\ \/ stage \in {"loop", "exit", "exiting"} /\ ctx' = "script" /\ UNCHANGED stage
     \/ stage = "run1" /\ ctx' = "steal" /\ stage' = "drain"
     \/ stage = "run2" /\ ctx' = "script" /\ stage' = "closed"
  /\ UNCHANGED <<taskVars, asyncVars, workVars, once, hostVars, prodVars, hdlVars, ops>>

\* libuv takes the wakeup and calls onAsync.
OnAsync ==
  /\ ctx = "poll" /\ host = "none"
  /\ asyncPending /\ asyncHandle = "open"
  /\ asyncPending' = FALSE
  /\ ctx' = "steal"
  /\ UNCHANGED <<taskVars, asyncRef, asyncHandle, workVars, stage, once, hostVars>>
  /\ UNCHANGED <<prodVars, hdlVars, ops>>

\* Mutant: the stolen list is not reversed.
DrainTasksUnreversed ==
  /\ ctx = "steal"
  /\ taskHead' = <<>>
  /\ batch' = taskHead
  /\ ctx' = "drain"
  /\ UNCHANGED <<closed, loopRefs, accepted, executed, skipped>>
  /\ UNCHANGED <<asyncVars, workVars, stage, once, hostVars, prodVars, hdlVars, ops>>

\* drainTasks: takes the whole list under the mutex and reverses it.
DrainTasks ==
  /\ ctx = "steal"
  /\ taskHead' = <<>>
  /\ batch' = Reverse(taskHead)
  /\ ctx' = "drain"
  /\ UNCHANGED <<closed, loopRefs, accepted, executed, skipped>>
  /\ UNCHANGED <<asyncVars, workVars, stage, once, hostVars, prodVars, hdlVars, ops>>

RunTask ==
  /\ ctx = "drain" /\ host = "none" /\ batch # <<>>
  /\ executed' = Append(executed, Head(batch))
  /\ batch' = Tail(batch)
  /\ ctx' = "task"
  /\ UNCHANGED <<closed, taskHead, loopRefs, accepted, skipped>>
  /\ UNCHANGED <<asyncVars, workVars, stage, once, hostVars, prodVars, hdlVars, ops>>

\* The callback returns; after the last one drainTasks calls updateAsyncRef.
TaskReturn ==
  /\ ctx = "task" /\ host = "none"
  /\ ctx' = "drain"
  /\ host' = IF batch = <<>> THEN "read" ELSE "none"
  /\ sends' = FALSE
  /\ UNCHANGED <<taskVars, asyncVars, workVars, stage, once, alive, prodVars, hdlVars, ops>>

\* drainTasks returns: to uv_run, or to close(), whose uv_walk force-closes
\* the other handles before it enters uv_run again.
DrainReturn ==
  /\ ctx = "drain" /\ host = "none" /\ batch = <<>>
  /\ IF stage = "drain"
       THEN ctx' = "check" /\ stage' = "run2" /\ handles' = 0 /\ closing' = closing + handles
       ELSE ctx' = "poll" /\ UNCHANGED <<stage, hdlVars>>
  /\ UNCHANGED <<taskVars, asyncVars, workVars, once, hostVars, prodVars, ops>>

\* onWork, on a thread of the pool.
OnWork(w) ==
  /\ work[w] = "queued" /\ ctx # "ended"
  /\ work' = [work EXCEPT ![w] = "executed"]
  /\ UNCHANGED <<taskVars, asyncVars, activeReqs, completed, lost, loopVars, hostVars>>
  /\ UNCHANGED <<prodVars, hdlVars, ops>>

\* libuv drops the request of an executed item, ...
OnWorkDone(w) ==
  /\ ctx = "poll" /\ host = "none" /\ work[w] = "executed"
  /\ ReadCount(Loop, w)
  /\ host' = "dec" /\ sends' = FALSE
  /\ UNCHANGED <<taskVars, asyncVars, workVars, loopVars, alive, pc, hdlVars, ops>>

\* ... then onWorkDone calls complete, which runs JS.
OnWorkComplete ==
  /\ host = "dec"
  /\ WriteCount(Loop, -1)
  /\ work' = [work EXCEPT ![arg[Loop]] = "done"]
  /\ Complete(arg[Loop])
  /\ host' = "none" /\ ctx' = "cb"
  /\ UNCHANGED <<taskVars, asyncVars, stage, once, alive, sends, pc, hdlVars, ops>>

\* Other referenced handles (sockets, servers, timers): JS opens and closes
\* them, and libuv calls back for them, for the close included.
OpenHandle ==
  /\ InJS /\ stage # "closed" /\ handles + closing < MaxHandles /\ CountOp
  /\ handles' = handles + 1 /\ UNCHANGED closing
  /\ UNCHANGED <<taskVars, asyncVars, workVars, loopVars, hostVars, prodVars>>

\* uv_close; or the handle is stopped or unreferenced, and no longer counts.
CloseHandle ==
  /\ InJS /\ stage # "closed" /\ handles > 0
  /\ handles' = handles - 1 /\ closing' \in {closing, closing + 1}
  /\ UNCHANGED <<taskVars, asyncVars, workVars, loopVars, hostVars, prodVars, ops>>

\* An iteration also serves the runtime's own unreferenced handles.
OnHandle ==
  /\ ctx = "poll" /\ host = "none"
  /\ ctx' = "cb"
  /\ UNCHANGED <<taskVars, asyncVars, workVars, stage, once, hostVars, prodVars, hdlVars, ops>>

CallbackReturn ==
  /\ ctx = "cb" /\ host = "none"
  /\ ctx' = "poll"
  /\ UNCHANGED <<taskVars, asyncVars, workVars, stage, once, hostVars, prodVars, hdlVars, ops>>

-----------------------------------------------------------------------------
(* close()                                                                 *)

\* Marks the vtable inert, under the mutex.
Close ==
  /\ InJS /\ ctx = "script" /\ stage = "exit"
  /\ closed' = TRUE
  /\ stage' = "marked" /\ once' = FALSE
  /\ UNCHANGED <<taskHead, loopRefs, batch, accepted, executed, skipped, ctx>>
  /\ UNCHANGED <<asyncVars, workVars, hostVars, prodVars, hdlVars, ops>>

\* uv_close of the async handle (no wakeup gets through any more) and the first
\* uv_run of close().
CloseAsync ==
  /\ stage = "marked"
  /\ asyncHandle' = "closing" /\ asyncPending' = TRUE
  /\ stage' = "run1" /\ ctx' = "check"
  /\ UNCHANGED <<taskVars, asyncRef, workVars, once, hostVars, prodVars, hdlVars, ops>>

-----------------------------------------------------------------------------
HostCall ==
  \/ LoopPostTask \/ RefLoop \/ UnrefLoop \/ PostTaskClosed(Loop)
  \/ \E w \in Works : LoopPostWork(w)

ProducerCall(p) ==
  \/ PostTask(p) \/ PostTaskClosed(p)
  \/ \E w \in Works : PostWork(p, w)

ProducerStep(p) == PostTaskSend(p) \/ PostWorkRead(p) \/ PostWorkQueue(p)

\* The steps of the loop thread that no choice of JS is behind.
LoopStep ==
  \/ UpdateAsyncRefRead \/ UpdateAsyncRefSet \/ LoopPostTaskSend
  \/ LoopPostWorkQueue \/ OnWorkComplete
  \/ Run \/ flushPendingWrites \/ LeaveLoop \/ Iterate \/ RunReturn
  \/ DrainTasks \/ RunTask \/ TaskReturn \/ DrainReturn \/ CallbackReturn
  \/ Close \/ CloseAsync

Next ==
  \/ HostCall \/ OpenHandle \/ CloseHandle \/ processExit \/ Terminate
  \/ LoopStep \/ EndIteration \/ OnAsync \/ OnHandle
  \/ \E p \in Producers : ProducerCall(p) \/ ProducerStep(p)
  \/ \E w \in Works : OnWork(w) \/ OnWorkDone(w)

Spec == Init /\ [][Next]_vars

(***************************************************************************)
(* Fairness: a thread inside a call finishes it, JS callbacks return, and  *)
(* the loop thread goes on to the next step of the runtime.  An iteration  *)
(* that polls with the wakeup written, or with a finished request, serves  *)
(* it, hence strong fairness for onAsync and onWorkDone.  An iteration     *)
(* serves finitely many events and close callbacks close finitely many     *)
(* handles, and only finitely many single iterations come before close(),  *)
(* hence strong fairness for those two.                                    *)
(***************************************************************************)
Fairness ==
  /\ WF_vars(LoopStep) /\ SF_vars(EndIteration /\ closing' = 0) /\ SF_vars(OnAsync) /\ SF_vars(Close)
  /\ \A p \in Producers : WF_vars(ProducerStep(p))
  /\ \A w \in Works : WF_vars(OnWork(w)) /\ SF_vars(OnWorkDone(w))

FairSpec == Spec /\ Fairness

-----------------------------------------------------------------------------
(* Properties                                                              *)

FlagsOK ==
  /\ closed \in BOOLEAN /\ asyncRef \in BOOLEAN /\ asyncPending \in BOOLEAN
  /\ lost \in BOOLEAN /\ once \in BOOLEAN /\ alive \in BOOLEAN /\ sends \in BOOLEAN

StateOK ==
  /\ loopRefs \in Nat /\ activeReqs \in Int
  /\ handles \in Nat /\ closing \in Nat /\ ops \in Nat /\ skipped \in Nat
  /\ taskHead \in Seq(Nat) /\ batch \in Seq(Nat) /\ executed \in Seq(Nat)
  /\ accepted \in Seq(Threads)
  /\ asyncHandle \in {"open", "closing", "closed"}
  /\ work \in [Works -> {"new", "queued", "executed", "done"}]
  /\ completed \in [Works -> Nat]
  /\ stage \in Stages /\ ctx \in Contexts
  /\ host \in {"none", "read", "set", "send", "inc", "dec"}
  /\ pc \in [Producers -> {"idle", "send", "queue", "bump"}]
  /\ arg \in [Threads -> Works \cup {NoWork}] /\ reg \in [Threads -> Int]

TypeOK == FlagsOK /\ StateOK

\* postTask/drainTasks: whatever the threads' interleaving, the tasks run in the
\* order in which they took the mutex and none twice, also when process.exit
\* drains inside a drain. Until process.exit is called none is left out: the n-th
\* task to run is the n-th accepted. Then only the rest of the batch in which it
\* was called is: what has neither run nor been left behind there waits in the
\* list or in the batch being drained.
TasksInOrder ==
  /\ \A i, j \in DOMAIN executed : i < j => executed[i] < executed[j]
  /\ stage # "exiting" => skipped = 0
  /\ skipped = 0 => \A i \in DOMAIN executed : executed[i] = i
  /\ \A i \in DOMAIN batch : batch[i] = Len(executed) + skipped + i
  /\ \A i \in DOMAIN taskHead : taskHead[i] = Len(accepted) + 1 - i
  /\ Len(accepted) = Len(executed) + skipped + Len(batch) + Len(taskHead)

\* close(): the tasks accepted before the vtable went inert have all been run
\* before the handles are force-closed, and none is left when the loop is gone.
DrainedBeforeClosed ==
  stage \in {"run2", "closed"} => Len(executed) = Len(accepted)

\* postTask/onAsync: while a task waits in the list, the wakeup is pending, or
\* some thread is about to send it, or the loop thread is about to take the list.
NoLostWakeup ==
  taskHead # <<>> =>
    \/ asyncPending
    \/ \E p \in Producers : pc[p] = "send"
    \/ host # "none" /\ sends
    \/ ctx = "steal"

\* updateAsyncRef: outside the drain and outside a host call, the async handle
\* holds the loop open exactly when it should: always for a ref_loop and for a
\* task posted on the loop thread, never when there is neither a ref nor a task
\* (but for process.exit in a task, after which nobody evaluates it again).
AsyncRefAccurate ==
  (~closed /\ host = "none" /\ ctx \in {"script", "check", "poll", "cb"}) =>
    /\ loopRefs > 0 => asyncRef
    /\ (\E i \in DOMAIN taskHead : accepted[taskHead[i]] = Loop) => asyncRef
    /\ stage # "exiting" => (asyncRef => loopRefs > 0 \/ taskHead # <<>>)

\* updateAsyncRef after close(), from the env's teardown: the reference flag of
\* the handle is never written once the handle has been closed.
ClosedHandleUntouched ==
  [][asyncHandle # "open" => asyncRef' = asyncRef]_vars

\* postWork/onWorkDone: complete is called once for an item that is done, and
\* not at all before, whether it was executed, cancelled or refused by libuv.
CompletedOnce ==
  \A w \in Works : completed[w] = IF work[w] = "done" THEN 1 ELSE 0

\* run(): it returns only when no ref_loop is outstanding, no task posted on the
\* loop thread is left waiting and, unless a race on libuv's request count lost an
\* update, every item any thread has queued is done.
RunReturnsWhenIdle ==
  [][(ctx = "check" /\ ctx' = "script" /\ stage' = "loop") =>
       /\ loopRefs = 0
       /\ lost \/ \A w \in Works : work[w] \in {"new", "done"}
       /\ \A i \in DOMAIN taskHead : accepted[taskHead[i]] # Loop]_vars

\* postWork, "uv_queue_work() bumps the loop's active request count, and that is
\* what keeps the loop alive for work submitted from elsewhere": run() does not
\* return while an item is queued and not done.
WorkKeepsLoopAlive ==
  [][(ctx = "check" /\ ctx' = "script" /\ stage' = "loop") =>
       \A w \in Works : work[w] \in {"new", "done"}]_vars

HQ == INSTANCE HostQueue WITH open <- ~closed, queue <- batch \o Reverse(taskHead),
                              posted <- Len(accepted), ran <- executed,
                              exiting <- Exiting

\* postTask/drainTasks: the list, its theft and its reversal implement an atomic
\* first-in first-out queue, which process.exit cuts short.
FirstInFirstOut == HQ!Spec

\* ... and which goes on running tasks while it holds any, from the loop or in
\* close(), until the process exits: with the order, every task accepted runs. Only
\* a lost update of the request count can keep close() from getting to its drain.
EveryTaskRuns == HQ!Progress \/ <>lost

\* postWork: an item that is queued before close() marks the vtable inert, by any
\* thread, is eventually completed, unless the process exits first or an update of
\* the request count is lost.
EveryWorkCompletes ==
  \A w \in Works : (work[w] = "queued" /\ ~closed) ~> (completed[w] = 1 \/ Exiting \/ lost)

\* close(), "another thread can never queue onto a loop we are tearing down": no
\* foreign thread is inside uv_queue_work once the vtable is marked inert.
NeverQueuesWhileClosing ==
  \A p \in Producers : closed => pc[p] \notin {"queue", "bump"}

\* close(), "Returns 0 on success, UV_EBUSY if handles are still active": a call
\* of close() returns, unless a callback it makes ends the process.
CloseReturns == (stage = "marked") ~> (stage = "closed" \/ Exiting)
=============================================================================
