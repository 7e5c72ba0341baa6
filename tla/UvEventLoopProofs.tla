------------------------- MODULE UvEventLoopProofs -------------------------
(***************************************************************************)
(* Proofs about UvEventLoop, for any set of foreign threads and of work    *)
(* items and any bounds.                                                   *)
(***************************************************************************)
EXTENDS UvEventLoop, SequenceTheorems, TLAPS

\* Reversing a list of tasks gives a list of the same length.
LEMMA ReverseType ==
  ASSUME NEW s \in Seq(Nat)
  PROVE  /\ Reverse(s) \in Seq(Nat)
         /\ Len(Reverse(s)) = Len(s)
         /\ \A i \in 1..Len(s) : Reverse(s)[i] = s[Len(s) + 1 - i]
<1>1. Reverse(s) \in [1..Len(s) -> Nat]
  BY DEF Reverse
<1>2. Len(s) \in Nat
  OBVIOUS
<1>3. Reverse(s) \in Seq(Nat)
  BY <1>1, <1>2
<1>4. DOMAIN Reverse(s) = 1..Len(s)
  BY <1>1
<1>5. Len(Reverse(s)) = Len(s)
  BY <1>2, <1>3, <1>4
<1> QED
  BY <1>3, <1>5 DEF Reverse

\* Every variable keeps its type, whatever the threads do.
THEOREM TypeCorrect == Spec => []TypeOK
<1>1. Init => StateOK
  BY DEF Init, StateOK, Stages, Contexts
<1>2. StateOK /\ [Next]_vars => StateOK'
  <2> SUFFICES ASSUME StateOK, [Next]_vars PROVE StateOK'
    OBVIOUS
  <2> USE DEF StateOK, Stages, Contexts, Threads, taskVars, asyncVars, workVars, loopVars,
              hostVars, prodVars, hdlVars
  <2>1. ASSUME NEW t \in Threads, PushTask(t)
        PROVE  taskHead' \in Seq(Nat) /\ accepted' \in Seq(Threads)
    BY <2>1 DEF PushTask
  <2>a. ASSUME NEW w \in Works, Complete(w) PROVE completed' \in [Works -> Nat]
    BY <2>a DEF Complete
  <2>b. ASSUME NEW w, NEW x \in {"queued", "executed", "done"},
               work' = [work EXCEPT ![w] = x]
        PROVE  work' \in [Works -> {"new", "queued", "executed", "done"}]
    BY <2>b, Zenon
  <2>c. ASSUME NEW p \in Producers, NEW x \in {"idle", "send", "queue", "bump"},
               pc' = [pc EXCEPT ![p] = x]
        PROVE  pc' \in [Producers -> {"idle", "send", "queue", "bump"}]
    BY <2>c
  <2>d. ASSUME NEW t \in Threads, NEW w \in Works \cup {NoWork},
               arg' = [arg EXCEPT ![t] = w]
        PROVE  arg' \in [Threads -> Works \cup {NoWork}]
    BY <2>d
  <2>e. ASSUME NEW t \in Threads, NEW w \in Works \cup {NoWork}, ReadCount(t, w)
        PROVE  arg' \in [Threads -> Works \cup {NoWork}] /\ reg' \in [Threads -> Int]
    BY <2>d, <2>e DEF ReadCount
  <2>f. ASSUME NEW t \in Threads, NEW d \in {-1, 1}, WriteCount(t, d)
        PROVE  /\ arg' \in [Threads -> Works \cup {NoWork}] /\ reg' \in [Threads -> Int]
               /\ activeReqs' \in Int
    BY <2>d, <2>f DEF WriteCount
  <2>g. ASSUME NEW w, Complete(w) PROVE completed' \in [Works -> Nat]
    <3>1. CASE w \in Works
      BY <2>g, <3>1, <2>a
    <3>2. CASE w \notin Works
      <4>1. completed' = completed
        BY <2>g, <3>2 DEF Complete
      <4> QED
        BY <4>1
    <3> QED
      BY <3>1, <3>2
  <2>h. Loop \in Threads /\ Producers \subseteq Threads
    OBVIOUS
  <2>2. CASE LoopPostTask
    BY <2>1, <2>2 DEF LoopPostTask, CountOp, PushTask
  <2>3. CASE RefLoop
    BY <2>3 DEF RefLoop, CountOp
  <2>4. CASE UnrefLoop
    BY <2>4 DEF UnrefLoop
  <2>5. ASSUME NEW t \in Threads, PostTaskClosed(t) PROVE StateOK'
    BY <2>5 DEF PostTaskClosed, CountOp
  <2>6. ASSUME NEW w \in Works, LoopPostWork(w) PROVE StateOK'
    <3>0. ops' \in Nat /\ UNCHANGED <<taskVars, asyncVars, loopVars, pc, hdlVars>>
      BY <2>6 DEF LoopPostWork, CountOp
    <3>1. CASE ReadCount(Loop, w) /\ host' = "inc" /\ UNCHANGED workVars
      <4>1. arg' \in [Threads -> Works \cup {NoWork}] /\ reg' \in [Threads -> Int]
        BY <3>1, <2>e, <2>h, Zenon
      <4> QED
        BY <3>0, <3>1, <4>1
    <3>2. CASE Cancel(w) /\ UNCHANGED <<arg, reg, hostVars>>
      <4>1. work' \in [Works -> {"new", "queued", "executed", "done"}]
        BY <3>2, <2>b, Zenon DEF Cancel
      <4>2. completed' \in [Works -> Nat]
        BY <3>2, <2>a DEF Cancel
      <4> QED
        BY <3>0, <3>2, <4>1, <4>2 DEF Cancel
    <3> QED
      BY <2>6, <3>1, <3>2, Zenon DEF LoopPostWork
  <2>7. ASSUME NEW p \in Producers, PostTask(p) PROVE StateOK'
    BY <2>1, <2>7 DEF PostTask, CountOp, PushTask
  <2>8. ASSUME NEW p \in Producers, NEW w \in Works, PostWork(p, w) PROVE StateOK'
    <3>1. CASE closed /\ Cancel(w) /\ UNCHANGED <<pc, arg>>
      <4>1. work' \in [Works -> {"new", "queued", "executed", "done"}]
        BY <3>1, <2>b DEF Cancel
      <4>2. completed' \in [Works -> Nat]
        BY <3>1, <2>a DEF Cancel
      <4> QED
        BY <2>8, <3>1, <4>1, <4>2 DEF PostWork, CountOp, Cancel
    <3>2. CASE ~closed /\ pc' = [pc EXCEPT ![p] = "queue"] /\ arg' = [arg EXCEPT ![p] = w]
               /\ UNCHANGED workVars
      <4>1. pc' \in [Producers -> {"idle", "send", "queue", "bump"}]
        BY <3>2, <2>c
      <4>2. arg' \in [Threads -> Works \cup {NoWork}]
        BY <3>2, <2>d, <2>h
      <4> QED
        BY <2>8, <3>2, <4>1, <4>2 DEF PostWork, CountOp
    <3> QED
      BY <2>8, <3>1, <3>2, Zenon DEF PostWork
  <2>9. ASSUME NEW p \in Producers, PostTaskSend(p) PROVE StateOK'
    BY <2>9 DEF PostTaskSend, AsyncSend
  <2>10. ASSUME NEW p \in Producers, PostWorkRead(p) PROVE StateOK'
    <3>1. pc' \in [Producers -> {"idle", "send", "queue", "bump"}]
      BY <2>10, <2>c, Zenon DEF PostWorkRead
    <3>0. p \in Threads /\ arg[p] \in Works \cup {NoWork}
          /\ UNCHANGED <<taskVars, asyncVars, loopVars, hostVars, hdlVars, ops>>
      BY <2>10 DEF PostWorkRead
    <3>2. CASE ReadCount(p, arg[p]) /\ UNCHANGED workVars
      <4>1. arg' \in [Threads -> Works \cup {NoWork}] /\ reg' \in [Threads -> Int]
        BY <3>0, <3>2, <2>e, Zenon
      <4> QED
        BY <3>0, <3>1, <3>2, <4>1
    <3>3. CASE Cancel(arg[p]) /\ arg' = [arg EXCEPT ![p] = NoWork] /\ UNCHANGED reg
      <4>1. arg' \in [Threads -> Works \cup {NoWork}]
        BY <3>0, <3>3, <2>d
      <4>2. work' \in [Works -> {"new", "queued", "executed", "done"}]
        BY <3>3, Zenon DEF Cancel
      <4>3. completed' \in [Works -> Nat]
        BY <3>3, <2>g, Zenon DEF Cancel
      <4>4. activeReqs' \in Int
        BY <3>3 DEF Cancel
      <4> QED
        BY <3>0, <3>1, <3>3, <4>1, <4>2, <4>3, <4>4
    <3> QED
      BY <2>10, <3>2, <3>3, Zenon DEF PostWorkRead
  <2>11. ASSUME NEW p \in Producers, PostWorkQueue(p) PROVE StateOK'
    <3>0. UNCHANGED <<taskVars, asyncVars, completed, loopVars, hostVars, hdlVars, ops>>
      BY <2>11 DEF PostWorkQueue
    <3>1. pc' \in [Producers -> {"idle", "send", "queue", "bump"}]
      BY <2>11, <2>c DEF PostWorkQueue
    <3>2. /\ arg' \in [Threads -> Works \cup {NoWork}] /\ reg' \in [Threads -> Int]
          /\ activeReqs' \in Int
      BY <2>11, <2>f, <2>h, Zenon DEF PostWorkQueue
    <3>3. work' \in [Works -> {"new", "queued", "executed", "done"}]
      BY <2>11, <2>b, Zenon DEF PostWorkQueue
    <3> QED
      BY <3>0, <3>1, <3>2, <3>3
  <2>22. CASE LoopPostWorkQueue \/ OnWorkComplete
    <3>0. /\ UNCHANGED <<taskVars, asyncVars, stage, pc, hdlVars, ops>>
          /\ host' = "none" /\ ctx' \in {ctx, "cb"}
      BY <2>22, Zenon DEF LoopPostWorkQueue, OnWorkComplete
    <3>1. \E d \in {-1, 1} : WriteCount(Loop, d)
      BY <2>22, Zenon DEF LoopPostWorkQueue, OnWorkComplete
    <3>2. /\ arg' \in [Threads -> Works \cup {NoWork}] /\ reg' \in [Threads -> Int]
          /\ activeReqs' \in Int
      BY <3>1, <2>f, <2>h, Zenon
    <3>3. work' \in [Works -> {"new", "queued", "executed", "done"}]
      BY <2>22, <2>b, Zenon DEF LoopPostWorkQueue, OnWorkComplete
    <3>4. completed' \in [Works -> Nat]
      <4>1. UNCHANGED completed \/ Complete(arg[Loop])
        BY <2>22, Zenon DEF LoopPostWorkQueue, OnWorkComplete
      <4> QED
        BY <4>1, <2>g, Zenon
    <3> QED
      BY <3>0, <3>2, <3>3, <3>4
  <2>12. CASE UpdateAsyncRefRead \/ UpdateAsyncRefSet \/ LoopPostTaskSend
    <3>1. CASE UpdateAsyncRefRead BY <3>1, Zenon DEF UpdateAsyncRefRead, HostReturn
    <3>2. CASE UpdateAsyncRefSet BY <3>2, Zenon DEF UpdateAsyncRefSet, HostReturn
    <3>3. CASE LoopPostTaskSend BY <3>3, ZenonT(40) DEF LoopPostTaskSend, AsyncSend, HostReturn
    <3> QED BY <2>12, <3>1, <3>2, <3>3, Zenon
  <2>13. CASE Run \/ LeaveLoop \/ Iterate \/ RunReturn \/ CallbackReturn \/ Close \/ CloseAsync
              \/ flushPendingWrites \/ processExit \/ Terminate
    <3>1. CASE Run
      BY <3>1 DEF Run
    <3>2. CASE LeaveLoop
      BY <3>2 DEF LeaveLoop
    <3>3. CASE Iterate
      BY <3>3 DEF Iterate
    <3>4. CASE RunReturn
      BY <3>4 DEF RunReturn
    <3>5. CASE CallbackReturn
      BY <3>5 DEF CallbackReturn
    <3>6. CASE Close
      BY <3>6 DEF Close
    <3>7. CASE CloseAsync
      BY <3>7 DEF CloseAsync
    <3>8. CASE flushPendingWrites
      BY <3>8 DEF flushPendingWrites
    <3>9. CASE processExit
      <4>1. batch' = <<>> /\ skipped' \in Nat /\ stage' = "exiting" /\ ctx' = "script"
        BY <3>9 DEF processExit
      <4> QED
        BY <3>9, <4>1 DEF processExit
    <3>10. CASE Terminate
      BY <3>10 DEF Terminate
    <3> QED
      BY <2>13, <3>1, <3>2, <3>3, <3>4, <3>5, <3>6, <3>7, <3>8, <3>9, <3>10, Zenon
  <2>14. CASE DrainTasks
    BY <2>14, ReverseType DEF DrainTasks
  <2>15. CASE RunTask
    BY <2>15 DEF RunTask
  <2>16. CASE TaskReturn \/ DrainReturn
    BY <2>16, SMTT(30) DEF TaskReturn, DrainReturn
  <2>17. CASE OpenHandle \/ CloseHandle \/ OnHandle
    <3>1. CASE OpenHandle
      BY <3>1 DEF OpenHandle, CountOp
    <3>2. CASE CloseHandle
      BY <3>2 DEF CloseHandle
    <3>3. CASE OnHandle
      BY <3>3 DEF OnHandle
    <3> QED
      BY <2>17, <3>1, <3>2, <3>3, Zenon
  <2>18. CASE EndIteration \/ OnAsync
    BY <2>18, SMTT(30) DEF EndIteration, OnAsync
  <2>20. ASSUME NEW w \in Works, OnWork(w) PROVE StateOK'
    <3>1. work' \in [Works -> {"new", "queued", "executed", "done"}]
      BY <2>20, <2>b DEF OnWork
    <3> QED
      BY <2>20, <3>1 DEF OnWork
  <2>21. ASSUME NEW w \in Works, OnWorkDone(w) PROVE StateOK'
    <3>1. arg' \in [Threads -> Works \cup {NoWork}] /\ reg' \in [Threads -> Int]
      BY <2>21, <2>e, <2>h, Zenon DEF OnWorkDone
    <3> QED
      BY <2>21, <3>1 DEF OnWorkDone
  <2>19. CASE UNCHANGED vars
    BY <2>19 DEF vars
  <2> HIDE DEF StateOK, Stages, Contexts, taskVars, asyncVars, workVars, loopVars,
               hostVars, prodVars, hdlVars
  <2> QED
    BY <2>2, <2>3, <2>4, <2>5, <2>6, <2>7, <2>8, <2>9, <2>10, <2>11, <2>12, <2>13, <2>14, <2>15, <2>16, <2>17,
        <2>18, <2>19, <2>20, <2>21, <2>22, Zenon DEF Next, HostCall, LoopStep, ProducerCall, ProducerStep
<1>3. Init => FlagsOK
  BY Zenon DEF Init, FlagsOK
<1>4. FlagsOK /\ [Next]_vars => FlagsOK'
  <2> SUFFICES ASSUME FlagsOK, [Next]_vars PROVE FlagsOK'
    OBVIOUS
  <2> USE DEF FlagsOK, taskVars, asyncVars, workVars, loopVars, hostVars
  <2>a. ASSUME NEW t, NEW d, WriteCount(t, d) PROVE lost' \in BOOLEAN
    <3>1. (lost \/ reg[t] # activeReqs) \in BOOLEAN
      OBVIOUS
    <3> QED
      BY <2>a, <3>1, Zenon DEF WriteCount
  <2>1. CASE LoopPostTask \/ RefLoop \/ UnrefLoop
    BY <2>1, Zenon DEF LoopPostTask, RefLoop, UnrefLoop, PushTask
  <2>2. ASSUME NEW t \in Threads, PostTaskClosed(t) PROVE FlagsOK'
    BY <2>2 DEF PostTaskClosed
  <2>3. ASSUME NEW w \in Works, LoopPostWork(w) \/ OnWork(w) \/ OnWorkDone(w) PROVE FlagsOK'
    BY <2>3, Zenon DEF LoopPostWork, OnWork, OnWorkDone, Cancel
  <2>4. ASSUME NEW p \in Producers, PostTask(p) \/ ProducerStep(p) PROVE FlagsOK'
    <3>1. CASE PostTask(p)
      BY <3>1, Zenon DEF PostTask, PushTask
    <3>2. CASE PostTaskSend(p)
      BY <3>2, Zenon DEF PostTaskSend, AsyncSend
    <3>3. CASE PostWorkRead(p)
      BY <3>3, Zenon DEF PostWorkRead, Cancel
    <3>4. CASE PostWorkQueue(p)
      BY <3>4, <2>a, Zenon DEF PostWorkQueue
    <3> QED
      BY <2>4, <3>1, <3>2, <3>3, <3>4 DEF ProducerStep
  <2>5. ASSUME NEW p \in Producers, NEW w \in Works, PostWork(p, w) PROVE FlagsOK'
    BY <2>5, Zenon DEF PostWork, Cancel
  <2>12. CASE LoopPostWorkQueue \/ OnWorkComplete
    <3>1. lost' \in BOOLEAN
      BY <2>12, <2>a, Zenon DEF LoopPostWorkQueue, OnWorkComplete
    <3> QED
      BY <2>12, <3>1, Zenon DEF LoopPostWorkQueue, OnWorkComplete
  <2>13. CASE flushPendingWrites \/ processExit \/ Terminate
    BY <2>13, Zenon DEF flushPendingWrites, processExit, Terminate
  <2>6. CASE UpdateAsyncRefRead
    BY <2>6 DEF UpdateAsyncRefRead
  <2>7. CASE UpdateAsyncRefSet \/ LoopPostTaskSend
    BY <2>7, Zenon DEF UpdateAsyncRefSet, LoopPostTaskSend, AsyncSend
  <2>8. CASE Run \/ LeaveLoop \/ Iterate \/ RunReturn \/ EndIteration \/ OnAsync
    BY <2>8, ZenonT(40) DEF Run, LeaveLoop, Iterate, RunReturn, EndIteration, OnAsync
  <2>9. CASE DrainTasks \/ RunTask \/ TaskReturn \/ DrainReturn \/ CallbackReturn
    BY <2>9, ZenonT(40) DEF DrainTasks, RunTask, TaskReturn, DrainReturn, CallbackReturn
  <2>10. CASE Close \/ CloseAsync \/ OpenHandle \/ CloseHandle \/ OnHandle
    BY <2>10, Zenon DEF Close, CloseAsync, OpenHandle, CloseHandle, OnHandle
  <2>11. CASE UNCHANGED vars
    BY <2>11 DEF vars
  <2> HIDE DEF FlagsOK
  <2> QED
    BY <2>1, <2>2, <2>3, <2>4, <2>5, <2>6, <2>7, <2>8, <2>9, <2>10, <2>11, <2>12, <2>13
       DEF Next, HostCall, LoopStep, ProducerCall, Threads
<1> QED
  BY <1>1, <1>2, <1>3, <1>4, PTL DEF Spec, TypeOK

-----------------------------------------------------------------------------
(* The inductive invariants.                                               *)

\* Where the loop thread can be: which contexts go with which stage of the
\* runtime, when a batch is being drained, when a host call is in progress.
ControlInv ==
  /\ batch # <<>> => ctx \in {"drain", "task", "ended"}
  /\ host \in {"read", "set", "send", "inc"} => ctx \in {"script", "task", "cb", "drain"}
  /\ host = "dec" => ctx = "poll"
  /\ host \in {"inc", "dec"} => ~sends
  /\ stage # "exiting" => (closed <=> stage \in {"marked", "run1", "drain", "run2", "closed"})
  /\ asyncHandle # "open" => closed
  /\ stage = "marked" => ctx = "script" /\ host = "none"
  /\ stage \in {"main", "closed"} => ctx \in {"script", "ended"}
  /\ stage = "drain" => ctx \in {"steal", "drain", "task", "ended"}
  /\ host = "set" => ~closed

\* What the order and the count of the tasks rest on: no task run is newer than
\* the tasks run or left behind, the batch is empty when the list is stolen, and
\* nothing enters the list once close() has drained it.
QueueInv ==
  /\ TasksInOrder
  /\ \A i \in DOMAIN executed : executed[i] <= Len(executed) + skipped
  /\ (stage \in {"run2", "closed"} \/ (stage = "drain" /\ ctx # "steal")) => taskHead = <<>>
  /\ stage \in {"run2", "closed"} => batch = <<>>

\* A task posted on the loop thread waits in the list.
LoopTaskWaits == \E i \in DOMAIN taskHead : accepted[taskHead[i]] = Loop

\* What updateAsyncRef read is still good when it sets the flag, and the flag is
\* good from then on; it may only be stale while a batch is being drained, and when
\* process.exit or the end of the process cuts the drain short.
RefInv ==
  ~closed =>
    /\ host = "set" =>
         /\ (loopRefs > 0 \/ LoopTaskWaits) => alive
         /\ alive => loopRefs > 0 \/ taskHead # <<>>
    /\ host \notin {"read", "set"} =>
         /\ (loopRefs > 0 \/ LoopTaskWaits) => asyncRef
         /\ (ctx \notin {"task", "ended"} /\ stage # "exiting" /\ batch = <<>>)
              => (asyncRef => loopRefs > 0 \/ taskHead # <<>>)

\* A foreign thread inside uv_queue_work owns an item nobody has touched, ...
ForeignOwns ==
  \A p \in Producers :
    /\ pc[p] \in {"queue", "bump"} => arg[p] \in Works /\ work[arg[p]] = "new"
    /\ pc[p] \notin {"queue", "bump"} => arg[p] = NoWork

\* ... and so does the loop thread; in uv__queue_done it owns an executed one.
LoopOwns ==
  /\ host = "inc" => arg[Loop] \in Works /\ work[arg[Loop]] = "new"
  /\ host = "dec" => arg[Loop] \in Works /\ work[arg[Loop]] = "executed"
  /\ host \notin {"inc", "dec"} => arg[Loop] = NoWork

\* No two threads own the same item.
OwnersDiffer == \A s, t \in Threads : s # t /\ arg[s] # NoWork => arg[s] # arg[t]

WorkInv == CompletedOnce /\ ForeignOwns /\ LoopOwns /\ OwnersDiffer

-----------------------------------------------------------------------------
\* The context, the stage, the host call and the batch agree in every state.
LEMMA ControlStep == StateOK /\ ControlInv /\ [Next]_vars => ControlInv'
<1> SUFFICES ASSUME StateOK, ControlInv, [Next]_vars PROVE ControlInv'
  OBVIOUS
<1> USE DEF ControlInv, taskVars, asyncVars, loopVars, hostVars
<1>1. CASE LoopPostTask \/ RefLoop \/ UnrefLoop
  BY <1>1 DEF LoopPostTask, RefLoop, UnrefLoop, PushTask, InJS
<1>2. ASSUME NEW t \in Threads, PostTaskClosed(t) PROVE ControlInv'
  BY <1>2 DEF PostTaskClosed
<1>3. ASSUME NEW w \in Works, LoopPostWork(w) \/ OnWork(w) PROVE ControlInv'
  BY <1>3 DEF LoopPostWork, OnWork, InJS
<1>4. ASSUME NEW w \in Works, OnWorkDone(w) PROVE ControlInv'
  BY <1>4 DEF OnWorkDone
<1>5. ASSUME NEW p \in Producers, PostTask(p) \/ ProducerStep(p) PROVE ControlInv'
  BY <1>5 DEF PostTask, ProducerStep, PostTaskSend, PostWorkRead, PostWorkQueue, PushTask,
              AsyncSend
<1>6. ASSUME NEW p \in Producers, NEW w \in Works, PostWork(p, w) PROVE ControlInv'
  BY <1>6 DEF PostWork
<1>7. CASE UpdateAsyncRefRead
  BY <1>7 DEF UpdateAsyncRefRead, HostReturn
<1>8. CASE UpdateAsyncRefSet \/ LoopPostTaskSend
  BY <1>8 DEF UpdateAsyncRefSet, LoopPostTaskSend, AsyncSend, HostReturn
<1>9. CASE Run \/ flushPendingWrites
  BY <1>9 DEF Run, flushPendingWrites, InJS
<1>10. CASE LeaveLoop
  BY <1>10 DEF LeaveLoop, InJS
<1>11. CASE Iterate
  BY <1>11 DEF Iterate
<1>12. CASE RunReturn
  BY <1>12 DEF RunReturn
<1>13. CASE EndIteration
  BY <1>13 DEF EndIteration
<1>14. CASE OnAsync
  BY <1>14 DEF OnAsync
<1>15. CASE DrainTasks
  BY <1>15 DEF DrainTasks
<1>16. CASE RunTask
  BY <1>16 DEF RunTask
<1>17. CASE TaskReturn
  BY <1>17 DEF TaskReturn
<1>18. CASE DrainReturn
  BY <1>18 DEF DrainReturn
<1>19. CASE CallbackReturn \/ OnHandle
  BY <1>19 DEF CallbackReturn, OnHandle
<1>20. CASE Close
  BY <1>20 DEF Close, InJS
<1>21. CASE CloseAsync
  BY <1>21 DEF CloseAsync
<1>22. CASE OpenHandle \/ CloseHandle
  BY <1>22 DEF OpenHandle, CloseHandle
<1>23. CASE UNCHANGED vars
  BY <1>23 DEF vars
<1>24. CASE LoopPostWorkQueue
  BY <1>24 DEF LoopPostWorkQueue
<1>25. CASE OnWorkComplete
  BY <1>25 DEF OnWorkComplete
<1>26. CASE processExit
  BY <1>26 DEF processExit, InJS
<1>27. CASE Terminate
  BY <1>27 DEF Terminate, InJS
<1> HIDE DEF ControlInv
<1> QED
  BY <1>1, <1>2, <1>3, <1>4, <1>5, <1>6, <1>7, <1>8, <1>9, <1>10, <1>11, <1>12, <1>13, <1>14, <1>15, <1>16,
      <1>17, <1>18, <1>19, <1>20, <1>21, <1>22, <1>23, <1>24, <1>25, <1>26, <1>27
     DEF Next, HostCall, LoopStep, ProducerCall, Threads

\* Accepting, stealing and running tasks keeps them numbered in the order in
\* which they were accepted; every other step leaves the three lists alone.
LEMMA QueueStep ==
  StateOK /\ ControlInv /\ QueueInv /\ [Next]_vars => QueueInv'
<1> SUFFICES ASSUME StateOK, ControlInv, QueueInv, [Next]_vars PROVE QueueInv'
  OBVIOUS
<1>a. /\ taskHead \in Seq(Nat) /\ batch \in Seq(Nat) /\ executed \in Seq(Nat)
      /\ accepted \in Seq(Threads) /\ skipped \in Nat
  BY DEF StateOK
<1>b. /\ Len(taskHead) \in Nat /\ Len(batch) \in Nat /\ Len(executed) \in Nat
      /\ Len(accepted) \in Nat
      /\ DOMAIN batch = 1..Len(batch) /\ DOMAIN executed = 1..Len(executed)
  BY <1>a
<1>c. Len(accepted) = Len(executed) + skipped + Len(batch) + Len(taskHead)
  BY Zenon DEF QueueInv, TasksInOrder
<1>d. /\ \A i, j \in DOMAIN executed : i < j => executed[i] < executed[j]
      /\ \A i \in DOMAIN executed : executed[i] <= Len(executed) + skipped
      /\ skipped = 0 => \A i \in DOMAIN executed : executed[i] = i
  BY Zenon DEF QueueInv, TasksInOrder
<1>e. \A i \in DOMAIN batch : batch[i] = Len(executed) + skipped + i
  BY Zenon DEF QueueInv, TasksInOrder
<1>f. \A i \in DOMAIN taskHead : taskHead[i] = Len(accepted) + 1 - i
  BY Zenon DEF QueueInv, TasksInOrder
<1>g. stage # "exiting" => skipped = 0
  BY Zenon DEF QueueInv, TasksInOrder
<1>h. ASSUME UNCHANGED <<executed, skipped>>, stage' # "exiting" => stage # "exiting"
      PROVE  /\ \A i, j \in DOMAIN executed' : i < j => executed'[i] < executed'[j]
             /\ \A i \in DOMAIN executed' : executed'[i] <= Len(executed') + skipped'
             /\ skipped' = 0 => \A i \in DOMAIN executed' : executed'[i] = i
             /\ stage' # "exiting" => skipped' = 0
  BY <1>d, <1>g, <1>h, Zenon
<1>1. ASSUME NEW t \in Threads, PushTask(t), UNCHANGED <<stage, ctx>> PROVE QueueInv'
  <2>1. TasksInOrder'
    <3>1. /\ taskHead' \in Seq(Nat) /\ Len(taskHead') = Len(taskHead) + 1
          /\ Len(accepted') = Len(accepted) + 1
      BY <1>1, <1>a DEF PushTask
    <3>2. ASSUME NEW i \in DOMAIN taskHead' PROVE taskHead'[i] = Len(accepted') + 1 - i
      <4>1. i \in 1..(Len(taskHead) + 1)
        BY <3>1, <1>a
      <4>2. taskHead'[i] = IF i = 1 THEN Len(accepted) + 1 ELSE taskHead[i - 1]
        BY <1>1, <1>a, <4>1 DEF PushTask
      <4>3. i # 1 => i - 1 \in DOMAIN taskHead
        BY <4>1, <1>a
      <4> QED
        BY <3>1, <4>1, <4>2, <4>3, <1>f, <1>b
    <3>3. UNCHANGED <<batch, executed, skipped, stage>>
      BY <1>1 DEF PushTask
    <3>4. Len(accepted') = Len(executed') + skipped' + Len(batch') + Len(taskHead')
      BY <3>1, <3>3, <1>a, <1>b, <1>c
    <3>5. \A i \in DOMAIN batch' : batch'[i] = Len(executed') + skipped' + i
      BY <3>3, <1>e, Zenon
    <3> QED
      BY <1>h, <3>2, <3>3, <3>4, <3>5, Zenon DEF TasksInOrder
  <2>2. ~closed /\ UNCHANGED <<batch, executed, skipped, stage, ctx>>
    BY <1>1 DEF PushTask
  <2>3. \A i \in DOMAIN executed' : executed'[i] <= Len(executed') + skipped'
    BY <1>h, <2>2, Zenon
  <2>4. stage \notin {"run2", "closed", "drain"}
    BY <2>2 DEF ControlInv
  <2> QED
    BY <2>1, <2>2, <2>3, <2>4 DEF QueueInv
<1>2. CASE DrainTasks
  <2>1. batch = <<>>
    BY <1>2 DEF DrainTasks, ControlInv
  <2>2. /\ taskHead' = <<>> /\ batch' = Reverse(taskHead)
        /\ UNCHANGED <<accepted, executed, skipped, stage>> /\ ctx' = "drain" /\ ctx = "steal"
    BY <1>2 DEF DrainTasks
  <2>3. /\ batch' \in Seq(Nat) /\ Len(batch') = Len(taskHead)
        /\ \A i \in 1..Len(taskHead) : batch'[i] = taskHead[Len(taskHead) + 1 - i]
    BY <2>2, <1>a, ReverseType, Zenon
  <2>4. TasksInOrder'
    <3>1. ASSUME NEW i \in DOMAIN batch' PROVE batch'[i] = Len(executed') + skipped' + i
      <4>1. i \in 1..Len(taskHead)
        BY <2>3
      <4>2. Len(taskHead) + 1 - i \in DOMAIN taskHead
        BY <4>1, <1>a
      <4>3. batch'[i] = taskHead[Len(taskHead) + 1 - i]
        BY <2>3, <4>1, Zenon
      <4>4. taskHead[Len(taskHead) + 1 - i] = Len(accepted) + 1 - (Len(taskHead) + 1 - i)
        BY <4>2, <1>f
      <4>5. Len(accepted) = Len(executed) + skipped + Len(taskHead)
        BY <2>1, <1>a, <1>b, <1>c
      <4>6. i \in Nat
        BY <4>1, <1>b
      <4>7. Len(accepted) + 1 - (Len(taskHead) + 1 - i) = Len(executed) + skipped + i
        BY <4>5, <4>6, <1>a, <1>b
      <4> QED
        BY <4>3, <4>4, <4>7, <2>2
    <3>2. Len(taskHead') = 0 /\ DOMAIN taskHead' = {} /\ Len(batch) = 0
      BY <2>1, <2>2
    <3>3. Len(accepted') = Len(executed') + skipped' + Len(batch') + Len(taskHead')
      BY <2>2, <2>3, <3>2, <1>a, <1>b, <1>c
    <3> QED
      BY <2>2, <3>1, <3>2, <3>3, <1>h, Zenon DEF TasksInOrder
  <2>5. stage \in {"run2", "closed"} => batch' = <<>>
    BY <2>2, <2>3, <1>a DEF QueueInv
  <2>6. \A i \in DOMAIN executed' : executed'[i] <= Len(executed') + skipped'
    BY <1>h, <2>2, Zenon
  <2> QED
    BY <2>2, <2>4, <2>5, <2>6 DEF QueueInv
<1>3. CASE RunTask
  <2>1. /\ batch # <<>> /\ executed' = Append(executed, Head(batch)) /\ batch' = Tail(batch)
        /\ UNCHANGED <<taskHead, accepted, skipped, stage>> /\ ctx = "drain" /\ ctx' = "task"
    BY <1>3 DEF RunTask
  <2>2. /\ executed' \in Seq(Nat) /\ Len(executed') = Len(executed) + 1
        /\ batch' \in Seq(Nat) /\ Len(batch') = Len(batch) - 1 /\ Len(batch) > 0
        /\ DOMAIN executed' = 1..(Len(executed) + 1)
    BY <2>1, <1>a
  <2>a. executed'[Len(executed) + 1] = Len(executed) + skipped + 1
    <3>1. executed'[Len(executed) + 1] = batch[1]
      BY <2>1, <1>a
    <3>2. 1 \in DOMAIN batch
      BY <2>2, <1>b
    <3> QED
      BY <3>1, <3>2, <1>e
  <2>b. \A i \in DOMAIN executed : executed'[i] = executed[i] /\ executed[i] \in Nat
    BY <2>1, <1>a
  <2>c. ASSUME NEW i \in DOMAIN executed', i # Len(executed) + 1
        PROVE  i \in DOMAIN executed /\ executed'[i] = executed[i]
    BY <2>2, <2>b, <2>c, <1>b
  <2>d. \A i, j \in DOMAIN executed' : i < j => executed'[i] < executed'[j]
    <3> SUFFICES ASSUME NEW i \in DOMAIN executed', NEW j \in DOMAIN executed', i < j
                 PROVE  executed'[i] < executed'[j]
      OBVIOUS
    <3>1. i # Len(executed) + 1 /\ i \in DOMAIN executed /\ executed'[i] = executed[i]
      BY <2>2, <2>c, <1>b
    <3>2. CASE j = Len(executed) + 1
      <4>1. executed[i] <= Len(executed) + skipped /\ executed[i] \in Nat
        BY <3>1, <1>d, <2>b, Zenon
      <4> QED
        BY <3>1, <3>2, <4>1, <2>a, <1>a, <1>b
    <3>3. CASE j # Len(executed) + 1
      <4>1. j \in DOMAIN executed /\ executed'[j] = executed[j]
        BY <3>3, <2>c
      <4>2. executed[i] < executed[j]
        BY <3>1, <4>1, <1>d, Zenon
      <4> QED
        BY <3>1, <4>1, <4>2
    <3> QED
      BY <3>2, <3>3
  <2>e. ASSUME NEW i \in DOMAIN executed' PROVE executed'[i] <= Len(executed') + skipped'
    <3>1. CASE i = Len(executed) + 1
      BY <3>1, <2>1, <2>2, <2>a, <1>a, <1>b
    <3>2. CASE i # Len(executed) + 1
      <4>1. i \in DOMAIN executed /\ executed'[i] = executed[i]
        BY <3>2, <2>c
      <4>2. executed[i] <= Len(executed) + skipped /\ executed[i] \in Nat
        BY <4>1, <1>d, <2>b, Zenon
      <4> QED
        BY <4>1, <4>2, <2>1, <2>2, <1>a, <1>b
    <3> QED
      BY <3>1, <3>2
  <2>3. ASSUME NEW i \in DOMAIN executed', skipped' = 0 PROVE executed'[i] = i
    <3>1. CASE i = Len(executed) + 1
      BY <3>1, <2>1, <2>3, <2>a, <1>a, <1>b
    <3>2. CASE i # Len(executed) + 1
      <4>1. i \in DOMAIN executed /\ executed'[i] = executed[i]
        BY <3>2, <2>c
      <4> QED
        BY <4>1, <2>1, <2>3, <1>d, Zenon
    <3> QED
      BY <3>1, <3>2
  <2>4. ASSUME NEW i \in DOMAIN batch' PROVE batch'[i] = Len(executed') + skipped' + i
    <3>0. DOMAIN batch' = 1..Len(batch')
      BY <2>2
    <3>1. i \in 1..(Len(batch) - 1) /\ i + 1 \in DOMAIN batch
      BY <2>2
    <3>2. batch'[i] = batch[i + 1]
      BY <2>1, <3>1, <1>a
    <3>3. batch[i + 1] = Len(executed) + skipped + (i + 1)
      BY <3>1, <1>e, Zenon
    <3> QED
      BY <2>1, <2>2, <3>1, <3>2, <3>3, <1>a, <1>b
  <2>5. TasksInOrder'
    <3>1. Len(accepted') = Len(executed') + skipped' + Len(batch') + Len(taskHead')
      BY <2>1, <2>2, <1>a, <1>b, <1>c
    <3>2. \A i \in DOMAIN taskHead' : taskHead'[i] = Len(accepted') + 1 - i
      BY <2>1, <1>f, Zenon
    <3>3. stage' # "exiting" => skipped' = 0
      BY <2>1, <1>g, Zenon
    <3> QED
      BY <2>d, <2>3, <2>4, <3>1, <3>2, <3>3, Zenon DEF TasksInOrder
  <2>6. stage \notin {"run2", "closed"} /\ (stage = "drain" => taskHead' = <<>>)
    BY <2>1 DEF QueueInv
  <2> QED
    BY <2>1, <2>5, <2>6, <2>e, Zenon DEF QueueInv
<1>18. ASSUME UNCHANGED <<taskHead, batch, executed, accepted, skipped>>,
              stage' # "exiting" => stage # "exiting"
       PROVE  /\ TasksInOrder'
              /\ \A i \in DOMAIN executed' : executed'[i] <= Len(executed') + skipped'
  <2>1. \A i \in DOMAIN batch' : batch'[i] = Len(executed') + skipped' + i
    BY <1>18, <1>e, Zenon
  <2>2. \A i \in DOMAIN taskHead' : taskHead'[i] = Len(accepted') + 1 - i
    BY <1>18, <1>f, Zenon
  <2>3. Len(accepted') = Len(executed') + skipped' + Len(batch') + Len(taskHead')
    BY <1>18, <1>c, Zenon
  <2> QED
    BY <1>18, <1>h, <2>1, <2>2, <2>3, Zenon DEF TasksInOrder
<1>6. ASSUME UNCHANGED <<taskHead, batch, executed, accepted, skipped, stage>>,
             ctx' = "steal" \/ ctx # "steal" \/ stage # "drain"
      PROVE  QueueInv'
  BY <1>6, <1>18, Zenon DEF QueueInv
<1> USE DEF taskVars, loopVars
<1>4. CASE DrainReturn
  <2>1. /\ UNCHANGED <<taskHead, batch, executed, accepted, skipped>> /\ ctx = "drain"
        /\ batch = <<>> /\ ((stage = "drain" /\ stage' = "run2") \/ UNCHANGED stage)
    BY <1>4, Zenon DEF DrainReturn
  <2>2. stage' # "exiting" => stage # "exiting"
    BY <2>1, Zenon
  <2>3. CASE stage = "drain" /\ stage' = "run2"
    <3>1. taskHead = <<>>
      BY <2>1, <2>3 DEF QueueInv
    <3> QED
      BY <2>1, <2>2, <2>3, <3>1, <1>18 DEF QueueInv
  <2>4. CASE UNCHANGED stage
    BY <2>1, <2>4, <1>6
  <2> QED
    BY <2>1, <2>3, <2>4
<1>5. CASE RunReturn
  <2>1. /\ UNCHANGED <<taskHead, batch, executed, accepted, skipped>> /\ ctx = "check"
        /\ \/ stage \in {"loop", "exit", "exiting"} /\ UNCHANGED stage
           \/ stage = "run1" /\ ctx' = "steal" /\ stage' = "drain"
           \/ stage = "run2" /\ stage' = "closed"
    BY <1>5, Zenon DEF RunReturn
  <2>2. stage' # "exiting" => stage # "exiting"
    BY <2>1
  <2>3. CASE UNCHANGED stage
    BY <2>1, <2>3, <1>6
  <2>4. CASE stage = "run1" /\ ctx' = "steal" /\ stage' = "drain"
    BY <2>1, <2>2, <2>4, <1>18 DEF QueueInv
  <2>5. CASE stage = "run2" /\ stage' = "closed"
    <3>1. taskHead = <<>> /\ batch = <<>>
      BY <2>5 DEF QueueInv
    <3> QED
      BY <2>1, <2>2, <2>5, <3>1, <1>18 DEF QueueInv
  <2> QED
    BY <2>1, <2>3, <2>4, <2>5
<1>19. CASE processExit
  <2>1. /\ UNCHANGED <<taskHead, executed, accepted>> /\ stage' = "exiting" /\ batch' = <<>>
        /\ skipped' = skipped + Len(batch)
    BY <1>19 DEF processExit
  <2>2. /\ Len(batch') = 0 /\ DOMAIN batch' = {}
        /\ skipped' \in Nat /\ skipped' >= skipped /\ (skipped' = 0 => skipped = 0)
    BY <2>1, <1>a, <1>b
  <2>3. Len(accepted') = Len(executed') + skipped' + Len(batch') + Len(taskHead')
    BY <2>1, <2>2, <1>a, <1>b, <1>c
  <2>4. \A i \in DOMAIN taskHead' : taskHead'[i] = Len(accepted') + 1 - i
    BY <2>1, <1>f, Zenon
  <2>5. /\ \A i, j \in DOMAIN executed' : i < j => executed'[i] < executed'[j]
        /\ skipped' = 0 => \A i \in DOMAIN executed' : executed'[i] = i
    BY <2>1, <2>2, <1>d, Zenon
  <2>6. ASSUME NEW i \in DOMAIN executed' PROVE executed'[i] <= Len(executed') + skipped'
    <3>1. executed'[i] = executed[i] /\ executed[i] \in Nat /\ i \in DOMAIN executed
      BY <2>1, <1>a
    <3>2. executed[i] <= Len(executed) + skipped
      BY <3>1, <1>d, Zenon
    <3> QED
      BY <3>1, <3>2, <2>1, <2>2, <1>a, <1>b
  <2>7. TasksInOrder'
    BY <2>1, <2>2, <2>3, <2>4, <2>5, Zenon DEF TasksInOrder
  <2> QED
    BY <2>1, <2>6, <2>7 DEF QueueInv
<1>7. CASE LoopPostTask
  BY <1>1, <1>7 DEF LoopPostTask, Threads
<1>8. ASSUME NEW p \in Producers, PostTask(p) PROVE QueueInv'
  BY <1>1, <1>8 DEF PostTask, Threads
<1>9. CASE Run \/ LeaveLoop \/ Close \/ CloseAsync
  <2>1. /\ UNCHANGED <<taskHead, batch, executed, accepted, skipped>>
        /\ stage # "exiting" /\ stage' \in {"loop", "exit", "marked", "run1"}
    BY <1>9 DEF Run, LeaveLoop, Close, CloseAsync
  <2> QED
    BY <2>1, <1>18 DEF QueueInv
<1>20. CASE flushPendingWrites \/ Terminate
  BY <1>6, <1>20 DEF flushPendingWrites, Terminate, InJS
<1>21. CASE LoopPostWorkQueue
  BY <1>6, <1>21 DEF LoopPostWorkQueue
<1>22. CASE OnWorkComplete
  <2>1. ctx # "steal"
    BY <1>22 DEF OnWorkComplete, ControlInv
  <2> QED
    BY <1>6, <1>22, <2>1 DEF OnWorkComplete
<1>10. CASE RefLoop \/ UnrefLoop \/ OpenHandle \/ CloseHandle
  BY <1>6, <1>10 DEF RefLoop, UnrefLoop, OpenHandle, CloseHandle
<1>11. ASSUME NEW t \in Threads, PostTaskClosed(t) PROVE QueueInv'
  BY <1>6, <1>11 DEF PostTaskClosed
<1>12. ASSUME NEW w \in Works, LoopPostWork(w) \/ OnWork(w) \/ OnWorkDone(w) PROVE QueueInv'
  BY <1>6, <1>12 DEF LoopPostWork, OnWork, OnWorkDone
<1>13. ASSUME NEW p \in Producers, ProducerStep(p) PROVE QueueInv'
  BY <1>6, <1>13, Zenon DEF ProducerStep, PostTaskSend, PostWorkRead, PostWorkQueue
<1>14. ASSUME NEW p \in Producers, NEW w \in Works, PostWork(p, w) PROVE QueueInv'
  BY <1>6, <1>14 DEF PostWork
<1>15. CASE UpdateAsyncRefRead \/ UpdateAsyncRefSet \/ LoopPostTaskSend
  BY <1>6, <1>15, Zenon DEF UpdateAsyncRefRead, UpdateAsyncRefSet, LoopPostTaskSend
<1>16. CASE Iterate \/ EndIteration \/ OnAsync \/ OnHandle \/ CallbackReturn \/ TaskReturn
  BY <1>6, <1>16 DEF Iterate, EndIteration, OnAsync, OnHandle, CallbackReturn, TaskReturn
<1>17. CASE UNCHANGED vars
  BY <1>6, <1>17 DEF vars
<1> QED
  BY <1>2, <1>3, <1>4, <1>5, <1>7, <1>8, <1>9, <1>10, <1>11, <1>12, <1>13, <1>14, <1>15, <1>16,
     <1>17, <1>19, <1>20, <1>21, <1>22 DEF Next, HostCall, LoopStep, ProducerCall, Threads

\* A task that waits in the list has its wakeup pending or about to be sent.
LEMMA WakeStep ==
  StateOK /\ ControlInv /\ NoLostWakeup /\ [Next]_vars => NoLostWakeup'
<1> SUFFICES ASSUME StateOK, ControlInv, NoLostWakeup, [Next]_vars PROVE NoLostWakeup'
  OBVIOUS
<1>a. pc \in [Producers -> {"idle", "send", "queue", "bump"}]
  BY DEF StateOK
<1> USE DEF NoLostWakeup, taskVars, asyncVars, loopVars, hostVars, prodVars
<1>1. CASE LoopPostTask
  BY <1>1 DEF LoopPostTask
<1>2. ASSUME NEW p \in Producers, PostTask(p) PROVE NoLostWakeup'
  <2>1. pc'[p] = "send"
    BY <1>2, <1>a DEF PostTask
  <2> QED
    BY <2>1
<1>3. ASSUME NEW p \in Producers, PostTaskSend(p) PROVE NoLostWakeup'
  BY <1>3 DEF PostTaskSend, AsyncSend
<1>4. ASSUME NEW p \in Producers, PostWorkRead(p) PROVE NoLostWakeup'
  <2>1. \A q \in Producers : pc[q] = "send" => pc'[q] = "send"
    BY <1>4, <1>a, SMTT(30) DEF PostWorkRead
  <2> QED
    BY <1>4, <2>1 DEF PostWorkRead
<1>5. ASSUME NEW p \in Producers, PostWorkQueue(p) PROVE NoLostWakeup'
  <2>1. \A q \in Producers : pc[q] = "send" => pc'[q] = "send"
    BY <1>5, <1>a DEF PostWorkQueue
  <2> QED
    BY <1>5, <2>1, Zenon DEF PostWorkQueue
<1>6. ASSUME NEW p \in Producers, NEW w \in Works, PostWork(p, w) PROVE NoLostWakeup'
  <2>1. \A q \in Producers : pc[q] = "send" => pc'[q] = "send"
    BY <1>6, <1>a, SMTT(30) DEF PostWork
  <2> QED
    BY <1>6, <2>1 DEF PostWork
<1>7. CASE RefLoop \/ UnrefLoop \/ OpenHandle \/ CloseHandle
  BY <1>7 DEF RefLoop, UnrefLoop, OpenHandle, CloseHandle, InJS
<1>8. ASSUME NEW t \in Threads, PostTaskClosed(t) PROVE NoLostWakeup'
  BY <1>8 DEF PostTaskClosed
<1>9. ASSUME NEW w \in Works, LoopPostWork(w) \/ OnWork(w) \/ OnWorkDone(w) PROVE NoLostWakeup'
  BY <1>9, Zenon DEF LoopPostWork, OnWork, OnWorkDone, InJS
<1>15. CASE LoopPostWorkQueue \/ OnWorkComplete
  <2>1. /\ host \in {"inc", "dec"} /\ ctx \in {ctx', "poll"}
        /\ UNCHANGED <<taskHead, asyncPending, pc>>
    BY <1>15, Zenon DEF LoopPostWorkQueue, OnWorkComplete, ControlInv
  <2>2. ~sends /\ "poll" # "steal"
    BY <2>1 DEF ControlInv
  <2> QED
    BY <2>1, <2>2, Zenon
<1>16. CASE flushPendingWrites \/ processExit \/ Terminate
  <2>1. /\ UNCHANGED <<taskHead, asyncPending, pc, host, sends>>
        /\ ctx \in {"script", "task", "cb"}
    BY <1>16, Zenon DEF flushPendingWrites, processExit, Terminate, InJS
  <2> QED
    BY <2>1
<1>10. CASE UpdateAsyncRefRead \/ UpdateAsyncRefSet \/ LoopPostTaskSend
  BY <1>10 DEF UpdateAsyncRefRead, UpdateAsyncRefSet, LoopPostTaskSend, HostReturn, AsyncSend
<1>11. CASE DrainTasks
  BY <1>11, SMTT(30) DEF DrainTasks
<1>12. CASE Run \/ LeaveLoop \/ Iterate \/ EndIteration \/ RunReturn \/ OnAsync \/ OnHandle
  BY <1>12, Zenon DEF Run, LeaveLoop, Iterate, EndIteration, RunReturn, OnAsync, OnHandle
<1>13. CASE RunTask \/ TaskReturn \/ DrainReturn \/ CallbackReturn \/ Close \/ CloseAsync
  BY <1>13, Zenon DEF RunTask, TaskReturn, DrainReturn, CallbackReturn, Close, CloseAsync
<1>14. CASE UNCHANGED vars
  BY <1>14 DEF vars
<1> HIDE DEF NoLostWakeup
<1> QED
  BY <1>1, <1>2, <1>3, <1>4, <1>5, <1>6, <1>7, <1>8, <1>9, <1>10, <1>11, <1>12, <1>13, <1>14, <1>15, <1>16, Zenon DEF Next,
      HostCall, LoopStep, ProducerCall, ProducerStep, Threads

\* An item is completed when it becomes done, and it becomes done only once.
LEMMA WorkStep == StateOK /\ WorkInv /\ [Next]_vars => WorkInv'
<1> SUFFICES ASSUME StateOK, WorkInv, [Next]_vars PROVE WorkInv'
  OBVIOUS
<1>a. /\ pc \in [Producers -> {"idle", "send", "queue", "bump"}]
      /\ arg \in [Threads -> Works \cup {NoWork}]
      /\ work \in [Works -> {"new", "queued", "executed", "done"}]
      /\ completed \in [Works -> Nat]
  BY DEF StateOK
<1>b. /\ CompletedOnce /\ ForeignOwns /\ LoopOwns /\ OwnersDiffer
  BY DEF WorkInv
<1>c. Loop \in Threads /\ \A p \in Producers : p \in Threads /\ p # Loop
  BY ThreadAssumption DEF Threads
<1> USE DEF workVars, prodVars, hostVars
<1>1. ASSUME NEW w \in Works, Complete(w), work' = [work EXCEPT ![w] = "done"], work[w] # "done"
      PROVE  CompletedOnce'
  BY <1>1, <1>a, <1>b DEF Complete, CompletedOnce
<1>2. ASSUME NEW w \in Works, NEW x \in {"queued", "executed"}, work[w] # "done",
             work' = [work EXCEPT ![w] = x], UNCHANGED completed
      PROVE  CompletedOnce'
  BY <1>2, <1>a, <1>b DEF CompletedOnce
<1>d. ASSUME NEW w \in Works, NEW x, work' = [work EXCEPT ![w] = x]
      PROVE  work'[w] = x /\ \A v \in Works : v # w => work'[v] = work[v]
  BY <1>d, <1>a, Zenon
<1>e. ASSUME NEW t \in Threads, NEW w, arg' = [arg EXCEPT ![t] = w]
      PROVE  arg'[t] = w /\ \A s \in Threads : s # t => arg'[s] = arg[s]
  BY <1>e, <1>a, Zenon
<1>f. ASSUME NEW t \in Threads, NEW w, arg' = [arg EXCEPT ![t] = w],
             w = NoWork \/ \A s \in Threads : s # t => arg[s] # w
      PROVE  OwnersDiffer'
  <2>1. arg'[t] = w /\ \A s \in Threads : s # t => arg'[s] = arg[s]
    BY <1>a, <1>f, Zenon
  <2> SUFFICES ASSUME NEW s \in Threads, NEW u \in Threads, s # u, arg'[s] # NoWork
               PROVE  arg'[s] # arg'[u]
    BY DEF OwnersDiffer
  <2>2. CASE s = t
    BY <2>1, <2>2, <1>f
  <2>3. CASE u = t
    BY <2>1, <2>3, <1>f
  <2>4. CASE s # t /\ u # t
    BY <2>1, <2>4, <1>b DEF OwnersDiffer
  <2> QED
    BY <2>2, <2>3, <2>4
<1>g. ASSUME NEW p \in Producers, NEW x, pc' = [pc EXCEPT ![p] = x]
      PROVE  pc'[p] = x /\ \A q \in Producers : q # p => pc'[q] = pc[q]
  BY <1>g, <1>a, Zenon
<1>3. ASSUME NEW w \in Works, LoopPostWork(w) PROVE WorkInv'
  <2>1. /\ work[w] = "new" /\ host = "none" /\ UNCHANGED pc
        /\ \A t \in Threads : arg[t] # w
    BY <1>3, Zenon DEF LoopPostWork, Fresh, InJS
  <2>2. CASE ReadCount(Loop, w) /\ host' = "inc" /\ UNCHANGED workVars
    <3>0. arg' = [arg EXCEPT ![Loop] = w] /\ UNCHANGED <<work, completed>>
      BY <2>2 DEF ReadCount
    <3>1. arg'[Loop] = w /\ \A p \in Producers : arg'[p] = arg[p]
      BY <3>0, <1>c, <1>e, Zenon
    <3>2. OwnersDiffer'
      BY <2>1, <3>0, <1>c, <1>f, Zenon
    <3>3. ForeignOwns'
      BY <2>1, <3>0, <3>1, <1>b, SMTT(30) DEF ForeignOwns
    <3>4. LoopOwns'
      BY <2>1, <2>2, <3>0, <3>1 DEF LoopOwns
    <3>5. CompletedOnce'
      BY <3>0, <1>b, Zenon DEF CompletedOnce
    <3> QED
      BY <3>2, <3>3, <3>4, <3>5 DEF WorkInv
  <2>3. CASE Cancel(w) /\ UNCHANGED <<arg, reg, hostVars>>
    <3>0. work' = [work EXCEPT ![w] = "done"] /\ Complete(w) /\ UNCHANGED <<arg, host, pc>>
      BY <2>1, <2>3 DEF Cancel
    <3>1. CompletedOnce'
      BY <1>1, <2>1, <3>0, Zenon
    <3>2. \A v \in Works : v # w => work'[v] = work[v]
      BY <1>d, <3>0, Zenon
    <3>3. ForeignOwns'
      BY <2>1, <3>0, <3>2, <1>b, <1>c DEF ForeignOwns
    <3>4. LoopOwns'
      BY <2>1, <3>0, <1>b DEF LoopOwns
    <3>5. OwnersDiffer'
      BY <3>0, <1>b, Zenon DEF OwnersDiffer
    <3> QED
      BY <3>1, <3>3, <3>4, <3>5 DEF WorkInv
  <2> QED
    BY <1>3, <2>2, <2>3, Zenon DEF LoopPostWork
<1>4. ASSUME NEW w \in Works, OnWork(w) PROVE WorkInv'
  <2>0. /\ work[w] = "queued" /\ work' = [work EXCEPT ![w] = "executed"]
        /\ UNCHANGED <<completed, arg, pc, host>>
    BY <1>4 DEF OnWork
  <2>1. CompletedOnce'
    BY <1>2, <2>0, Zenon
  <2>2. \A v \in Works : work[v] # "queued" => work'[v] = work[v]
    BY <2>0, <1>d, Zenon
  <2>3. ForeignOwns'
    BY <2>0, <2>2, <1>b DEF ForeignOwns
  <2>4. LoopOwns'
    BY <2>0, <2>2, <1>b DEF LoopOwns
  <2>5. OwnersDiffer'
    BY <2>0, <1>b, Zenon DEF OwnersDiffer
  <2> QED
    BY <2>1, <2>3, <2>4, <2>5 DEF WorkInv
<1>15. ASSUME NEW w \in Works, OnWorkDone(w) PROVE WorkInv'
  <2>0. /\ work[w] = "executed" /\ host = "none" /\ host' = "dec"
        /\ arg' = [arg EXCEPT ![Loop] = w] /\ UNCHANGED <<completed, work, pc>>
    BY <1>15 DEF OnWorkDone, ReadCount
  <2>1. arg'[Loop] = w /\ \A p \in Producers : arg'[p] = arg[p]
    BY <2>0, <1>c, <1>e, Zenon
  <2>2. \A p \in Producers : arg[p] # w
    BY <2>0, <1>b, WorkAssumption DEF ForeignOwns
  <2>3. \A s \in Threads : s # Loop => arg[s] # w
    BY <2>2 DEF Threads
  <2>4. OwnersDiffer'
    BY <2>0, <2>3, <1>c, <1>f, Zenon
  <2>5. ForeignOwns'
    BY <2>0, <2>1, <1>b DEF ForeignOwns
  <2>6. LoopOwns'
    BY <2>0, <2>1 DEF LoopOwns
  <2>7. CompletedOnce'
    BY <2>0, <1>b, Zenon DEF CompletedOnce
  <2> QED
    BY <2>4, <2>5, <2>6, <2>7 DEF WorkInv
<1>16. CASE LoopPostWorkQueue \/ OnWorkComplete
  <2>. DEFINE w == arg[Loop]
  <2>0. /\ host \in {"inc", "dec"} /\ host' = "none" /\ UNCHANGED pc
        /\ arg' = [arg EXCEPT ![Loop] = NoWork]
        /\ \/ work' = [work EXCEPT ![w] = "queued"] /\ UNCHANGED completed
           \/ work' = [work EXCEPT ![w] = "done"] /\ Complete(w)
    BY <1>16, Zenon DEF LoopPostWorkQueue, OnWorkComplete, WriteCount
  <2>1. w \in Works /\ work[w] # "done"
    BY <2>0, <1>b DEF LoopOwns
  <2>2. CompletedOnce'
    BY <2>0, <2>1, <1>1, <1>2, Zenon
  <2>3. \A v \in Works : v # w => work'[v] = work[v]
    BY <2>0, <2>1, <1>d, Zenon
  <2>4. arg'[Loop] = NoWork /\ \A p \in Producers : arg'[p] = arg[p] /\ arg[p] # w
    <3>1. arg'[Loop] = NoWork /\ \A p \in Producers : arg'[p] = arg[p]
      BY <2>0, <1>c, <1>e, Zenon
    <3>2. w # NoWork
      BY <2>1, WorkAssumption
    <3> QED
      BY <3>1, <3>2, <1>b, <1>c DEF OwnersDiffer
  <2>. HIDE DEF w
  <2>5. ForeignOwns'
    BY <2>0, <2>3, <2>4, <1>b DEF ForeignOwns
  <2>6. LoopOwns'
    BY <2>0, <2>4 DEF LoopOwns
  <2>7. OwnersDiffer'
    BY <2>0, <1>c, <1>f, Zenon
  <2> QED
    BY <2>2, <2>5, <2>6, <2>7 DEF WorkInv
<1>5. ASSUME NEW p \in Producers, NEW w \in Works, PostWork(p, w) PROVE WorkInv'
  <2>1. /\ pc[p] = "idle" /\ work[w] = "new" /\ UNCHANGED host
        /\ \A t \in Threads : arg[t] # w
    BY <1>5, Zenon DEF PostWork, Fresh
  <2>2. CASE Cancel(w) /\ UNCHANGED <<pc, arg>>
    <3>0. work' = [work EXCEPT ![w] = "done"] /\ Complete(w)
      BY <2>2 DEF Cancel
    <3>1. CompletedOnce'
      BY <1>1, <2>1, <3>0, Zenon
    <3>2. \A v \in Works : v # w => work'[v] = work[v]
      BY <1>d, <3>0, Zenon
    <3>3. ForeignOwns'
      BY <2>1, <2>2, <3>2, <1>b, <1>c, SMTT(30) DEF ForeignOwns
    <3>4. LoopOwns'
      BY <2>1, <2>2, <3>2, <1>b, <1>c DEF LoopOwns
    <3>5. OwnersDiffer'
      BY <2>2, <1>b, Zenon DEF OwnersDiffer
    <3> QED
      BY <3>1, <3>3, <3>4, <3>5 DEF WorkInv
  <2>3. CASE pc' = [pc EXCEPT ![p] = "queue"] /\ arg' = [arg EXCEPT ![p] = w]
             /\ UNCHANGED workVars
    <3>1. pc'[p] = "queue" /\ arg'[p] = w /\ arg'[Loop] = arg[Loop]
      BY <2>3, <1>a, <1>c
    <3>2. \A q \in Producers : q # p => pc'[q] = pc[q] /\ arg'[q] = arg[q]
      BY <2>3, <1>a, <1>c
    <3>3. CompletedOnce'
      BY <2>3, <1>b, Zenon DEF CompletedOnce
    <3>4. ForeignOwns'
      BY <2>1, <2>3, <3>1, <3>2, <1>b DEF ForeignOwns
    <3>5. LoopOwns'
      BY <2>1, <2>3, <3>1, <1>b DEF LoopOwns
    <3>6. OwnersDiffer'
      BY <2>1, <2>3, <1>c, <1>f, Zenon
    <3> QED
      BY <3>3, <3>4, <3>5, <3>6 DEF WorkInv
  <2> QED
    BY <1>5, <2>2, <2>3, Zenon DEF PostWork
<1>6. ASSUME NEW p \in Producers, PostWorkRead(p) PROVE WorkInv'
  <2>1. pc[p] = "queue" /\ arg[p] \in Works /\ work[arg[p]] = "new" /\ UNCHANGED host
    BY <1>6, <1>b, Zenon DEF PostWorkRead, ForeignOwns
  <2>2. CASE pc' = [pc EXCEPT ![p] = "bump"] /\ ReadCount(p, arg[p]) /\ UNCHANGED workVars
    <3>0. UNCHANGED arg
      BY <2>2, <1>a, <1>c DEF ReadCount
    <3>1. pc'[p] = "bump" /\ \A q \in Producers : q # p => pc'[q] = pc[q]
      BY <2>2, <1>g, Zenon
    <3>2. ForeignOwns'
      BY <2>1, <2>2, <3>0, <3>1, <1>b DEF ForeignOwns
    <3>3. CompletedOnce' /\ LoopOwns' /\ OwnersDiffer'
      BY <2>1, <2>2, <3>0, <1>b, Zenon DEF CompletedOnce, LoopOwns, OwnersDiffer
    <3> QED
      BY <3>2, <3>3 DEF WorkInv
  <2>3. CASE Cancel(arg[p]) /\ pc' = [pc EXCEPT ![p] = "idle"]
             /\ arg' = [arg EXCEPT ![p] = NoWork]
    <3>0. work' = [work EXCEPT ![arg[p]] = "done"] /\ Complete(arg[p])
      BY <2>3 DEF Cancel
    <3>1. pc'[p] = "idle" /\ arg'[p] = NoWork /\ arg'[Loop] = arg[Loop]
      BY <2>3, <1>a, <1>c
    <3>2. \A q \in Producers : q # p => pc'[q] = pc[q] /\ arg'[q] = arg[q]
      BY <2>3, <1>a, <1>c
    <3>3. CompletedOnce'
      BY <1>1, <2>1, <3>0, Zenon
    <3>4. \A v \in Works : v # arg[p] => work'[v] = work[v]
      BY <2>1, <3>0, <1>d, Zenon
    <3>5. \A t \in Threads : t # p => arg[t] # arg[p]
      BY <2>1, <1>b, <1>c, WorkAssumption DEF OwnersDiffer
    <3>6. ForeignOwns'
      BY <3>1, <3>2, <3>4, <3>5, <1>b, <1>c, SMTT(30) DEF ForeignOwns
    <3>7. LoopOwns'
      BY <2>1, <3>1, <3>4, <3>5, <1>b, <1>c DEF LoopOwns
    <3>8. OwnersDiffer'
      BY <2>3, <1>c, <1>f, Zenon
    <3> QED
      BY <3>3, <3>6, <3>7, <3>8 DEF WorkInv
  <2> QED
    BY <1>6, <2>2, <2>3, ZenonT(40) DEF PostWorkRead
<1>7. ASSUME NEW p \in Producers, PostWorkQueue(p) PROVE WorkInv'
  <2>1. pc[p] = "bump" /\ arg[p] \in Works /\ work[arg[p]] = "new" /\ UNCHANGED <<host, completed>>
    BY <1>7, <1>b DEF PostWorkQueue, ForeignOwns
  <2>a. /\ pc' = [pc EXCEPT ![p] = "idle"] /\ arg' = [arg EXCEPT ![p] = NoWork]
        /\ work' = [work EXCEPT ![arg[p]] = "queued"]
    BY <1>7 DEF PostWorkQueue, WriteCount
  <2>2. pc'[p] = "idle" /\ arg'[p] = NoWork /\ arg'[Loop] = arg[Loop]
    BY <2>a, <1>a, <1>c
  <2>3. \A q \in Producers : q # p => pc'[q] = pc[q] /\ arg'[q] = arg[q]
    BY <2>a, <1>a, <1>c
  <2>4. CompletedOnce'
    BY <1>2, <2>1, <2>a, Zenon
  <2>5. \A v \in Works : v # arg[p] => work'[v] = work[v]
    BY <2>1, <2>a, <1>d, Zenon
  <2>6. \A t \in Threads : t # p => arg[t] # arg[p]
    BY <2>1, <1>b, <1>c, WorkAssumption DEF OwnersDiffer
  <2>7. ForeignOwns'
    BY <2>2, <2>3, <2>5, <2>6, <1>b, <1>c DEF ForeignOwns
  <2>8. LoopOwns'
    BY <2>1, <2>2, <2>5, <2>6, <1>b, <1>c DEF LoopOwns
  <2>9. OwnersDiffer'
    BY <2>a, <1>c, <1>f, Zenon
  <2> QED
    BY <2>4, <2>7, <2>8, <2>9 DEF WorkInv
<1>8. ASSUME NEW p \in Producers, PostTask(p) \/ PostTaskSend(p) PROVE WorkInv'
  <2>1. \A q \in Producers : pc'[q] \in {"queue", "bump"} <=> pc[q] \in {"queue", "bump"}
    BY <1>8, <1>a DEF PostTask, PostTaskSend
  <2>2. UNCHANGED <<arg, work, completed, host>>
    BY <1>8, SMTT(30) DEF PostTask, PostTaskSend
  <2>3. ForeignOwns'
    BY <2>1, <2>2, <1>b DEF ForeignOwns
  <2>4. CompletedOnce' /\ LoopOwns' /\ OwnersDiffer'
    BY <2>2, <1>b, Zenon DEF CompletedOnce, LoopOwns, OwnersDiffer
  <2> QED
    BY <2>3, <2>4 DEF WorkInv
<1>9. ASSUME UNCHANGED <<work, completed, pc, arg>>,
             host' = host \/ (host \notin {"inc", "dec"} /\ host' \notin {"inc", "dec"})
      PROVE  WorkInv'
  <2>1. CompletedOnce' /\ ForeignOwns' /\ OwnersDiffer'
    BY <1>9, <1>b, Zenon DEF CompletedOnce, ForeignOwns, OwnersDiffer
  <2>2. LoopOwns'
    BY <1>9, <1>b DEF LoopOwns
  <2> QED
    BY <2>1, <2>2 DEF WorkInv
<1>10. ASSUME NEW t \in Threads, PostTaskClosed(t) PROVE WorkInv'
  BY <1>9, <1>10 DEF PostTaskClosed
<1>11. CASE LoopPostTask \/ RefLoop \/ UnrefLoop \/ OpenHandle \/ CloseHandle \/ processExit
            \/ Terminate
  <2>1. CASE LoopPostTask
    BY <1>9, <2>1 DEF LoopPostTask, InJS
  <2>2. CASE RefLoop
    BY <1>9, <2>2 DEF RefLoop, InJS
  <2>3. CASE UnrefLoop
    BY <1>9, <2>3 DEF UnrefLoop, InJS
  <2>4. CASE OpenHandle
    BY <1>9, <2>4 DEF OpenHandle
  <2>5. CASE CloseHandle
    BY <1>9, <2>5, SMTT(30) DEF CloseHandle
  <2>6. CASE processExit \/ Terminate
    BY <1>9, <2>6 DEF processExit, Terminate
  <2> QED
    BY <1>11, <2>1, <2>2, <2>3, <2>4, <2>5, <2>6
<1>12. CASE LoopStep
  <2>1. CASE UpdateAsyncRefRead \/ UpdateAsyncRefSet \/ LoopPostTaskSend
    <3>1. /\ UNCHANGED <<work, completed, pc, arg>> /\ host \in {"read", "set", "send"}
          /\ host' \in {"none", "set", "send"}
      BY <2>1, ZenonT(40) DEF UpdateAsyncRefRead, UpdateAsyncRefSet, LoopPostTaskSend, HostReturn
    <3> QED
      BY <1>9, <3>1
  <2>2. CASE TaskReturn
    <3>1. UNCHANGED <<work, completed, pc, arg>> /\ host = "none" /\ host' \in {"none", "read"}
      BY <2>2, Zenon DEF TaskReturn
    <3> QED
      BY <1>9, <3>1
  <2>3. CASE LoopPostWorkQueue \/ OnWorkComplete
    BY <1>16, <2>3
  <2>4. CASE ~(UpdateAsyncRefRead \/ UpdateAsyncRefSet \/ LoopPostTaskSend \/ TaskReturn
               \/ LoopPostWorkQueue \/ OnWorkComplete)
    BY <1>9, <1>12, <2>4, Zenon DEF LoopStep, Run, flushPendingWrites, LeaveLoop, Iterate,
         RunReturn, DrainTasks, RunTask, DrainReturn, CallbackReturn, Close, CloseAsync
  <2> QED
    BY <2>1, <2>2, <2>3, <2>4
<1>13. CASE EndIteration \/ OnAsync \/ OnHandle
  <2>1. CASE EndIteration
    BY <1>9, <2>1 DEF EndIteration
  <2>2. CASE OnAsync
    BY <1>9, <2>2 DEF OnAsync
  <2>3. CASE OnHandle
    BY <1>9, <2>3 DEF OnHandle
  <2> QED
    BY <1>13, <2>1, <2>2, <2>3
<1>14. CASE UNCHANGED vars
  BY <1>9, <1>14 DEF vars
<1> QED
  BY <1>3, <1>4, <1>5, <1>6, <1>7, <1>8, <1>10, <1>11, <1>12, <1>13, <1>14, <1>15
     DEF Next, HostCall, ProducerCall, ProducerStep, Threads

\* A task posted by a foreign thread does not make a task of the loop thread wait.
LEMMA ForeignPush ==
  ASSUME StateOK, QueueInv, NEW p \in Producers, PushTask(p)
  PROVE  (LoopTaskWaits' => LoopTaskWaits) /\ taskHead' # <<>>
<1>a. /\ taskHead \in Seq(Nat) /\ accepted \in Seq(Threads)
      /\ Len(taskHead) \in Nat /\ Len(accepted) \in Nat
      /\ Len(executed) \in Nat /\ Len(batch) \in Nat /\ skipped \in Nat
      /\ DOMAIN taskHead = 1..Len(taskHead)
  BY DEF StateOK
<1>d. /\ Len(accepted) = Len(executed) + skipped + Len(batch) + Len(taskHead)
      /\ \A i \in DOMAIN taskHead : taskHead[i] = Len(accepted) + 1 - i
  BY Zenon DEF QueueInv, TasksInOrder
<1>b. Len(taskHead) <= Len(accepted)
  BY <1>a, <1>d
<1>c. p # Loop /\ p \in Threads
  BY ThreadAssumption DEF Threads
<1>1. /\ taskHead' = <<Len(accepted) + 1>> \o taskHead /\ accepted' = Append(accepted, p)
  BY DEF PushTask
<1>2. taskHead' # <<>> /\ DOMAIN taskHead' = 1..(Len(taskHead) + 1)
  BY <1>1, <1>a
<1>3. ASSUME NEW i \in DOMAIN taskHead', accepted'[taskHead'[i]] = Loop PROVE LoopTaskWaits
  <2>1. i \in 1..(Len(taskHead) + 1)
    BY <1>2
  <2>2. CASE i = 1
    <3>1. taskHead'[i] = Len(accepted) + 1
      BY <2>2, <1>1, <1>a
    <3>2. accepted'[Len(accepted) + 1] = p
      BY <1>1, <1>a, <1>c
    <3> QED
      BY <1>3, <1>c, <3>1, <3>2
  <2>3. CASE i # 1
    <3>1. i - 1 \in DOMAIN taskHead
      BY <2>1, <2>3, <1>a
    <3>2. taskHead'[i] = taskHead[i - 1]
      BY <2>1, <2>3, <1>1, <1>a
    <3>3. taskHead[i - 1] = Len(accepted) + 1 - (i - 1)
      BY <3>1, <1>d, Zenon
    <3>4. taskHead[i - 1] \in 1..Len(accepted)
      BY <2>1, <2>3, <3>3, <1>b
    <3>5. accepted'[taskHead[i - 1]] = accepted[taskHead[i - 1]]
      BY <3>4, <1>1, <1>a, <1>c
    <3> QED
      BY <1>3, <3>1, <3>2, <3>5 DEF LoopTaskWaits
  <2> QED
    BY <2>2, <2>3
<1> QED
  BY <1>2, <1>3 DEF LoopTaskWaits

\* updateAsyncRef, although it sets the flag after it gave up the mutex, never
\* leaves the flag wrong: only the loop thread can make what it read stale.
LEMMA RefStep ==
  StateOK /\ ControlInv /\ QueueInv /\ RefInv /\ [Next]_vars => RefInv'
<1> SUFFICES ASSUME StateOK, ControlInv, QueueInv, RefInv, [Next]_vars PROVE RefInv'
  OBVIOUS
<1> USE DEF taskVars, asyncVars, loopVars, hostVars
<1>1. CASE LoopPostTask \/ RefLoop \/ UnrefLoop
  BY <1>1 DEF LoopPostTask, RefLoop, UnrefLoop, RefInv
<1>2. ASSUME NEW p \in Producers, PostTask(p) PROVE RefInv'
  <2>1. (LoopTaskWaits' => LoopTaskWaits) /\ taskHead' # <<>>
    BY <1>2, ForeignPush DEF PostTask
  <2>2. UNCHANGED <<closed, loopRefs, batch, asyncRef, host, alive, ctx, stage>>
    BY <1>2 DEF PostTask, PushTask
  <2> QED
    BY <2>1, <2>2 DEF RefInv
<1>3. ASSUME UNCHANGED <<closed, loopRefs, batch, taskHead, accepted, asyncRef, alive>>,
             host' = host \/ (host \notin {"read", "set"} /\ host' \notin {"read", "set"}),
             stage = "exiting" => stage' = "exiting",
             ctx' = ctx \/ ctx \notin {"task", "ended"} \/ ctx' = "ended" \/ batch # <<>>
      PROVE  RefInv'
  <2>1. LoopTaskWaits' <=> LoopTaskWaits
    BY <1>3 DEF LoopTaskWaits
  <2> QED
    BY <1>3, <2>1 DEF RefInv
<1>4. CASE UpdateAsyncRefRead
  <2>1. UNCHANGED <<closed, loopRefs, taskHead, accepted>>
    BY <1>4 DEF UpdateAsyncRefRead
  <2>2. closed \/ (host' = "set" /\ (alive' <=> (taskHead # <<>> \/ loopRefs > 0)))
    BY <1>4, Zenon DEF UpdateAsyncRefRead
  <2>3. LoopTaskWaits => taskHead # <<>>
    BY DEF LoopTaskWaits
  <2>4. LoopTaskWaits' <=> LoopTaskWaits
    BY <2>1 DEF LoopTaskWaits
  <2> QED
    BY <2>1, <2>2, <2>3, <2>4 DEF RefInv
<1>5. CASE UpdateAsyncRefSet
  <2>1. LoopTaskWaits' <=> LoopTaskWaits
    BY <1>5 DEF UpdateAsyncRefSet, LoopTaskWaits
  <2>2. UNCHANGED <<closed, loopRefs, taskHead, batch, ctx, stage>> /\ asyncRef' = alive
    BY <1>5 DEF UpdateAsyncRefSet
  <2>3. host = "set" /\ host' # "set"
    BY <1>5 DEF UpdateAsyncRefSet, HostReturn
  <2> QED
    BY <2>1, <2>2, <2>3 DEF RefInv
<1>6. CASE LoopPostTaskSend
  BY <1>3, <1>6 DEF LoopPostTaskSend, AsyncSend
<1>7. CASE DrainTasks
  <2>1. /\ taskHead' = <<>> /\ batch' = Reverse(taskHead) /\ batch = <<>> /\ host = "none"
        /\ ctx = "steal" /\ ctx' = "drain"
        /\ UNCHANGED <<closed, loopRefs, accepted, asyncRef, host, alive, stage>>
    <3>1. /\ taskHead' = <<>> /\ batch' = Reverse(taskHead) /\ ctx = "steal" /\ ctx' = "drain"
          /\ UNCHANGED <<closed, loopRefs, accepted, asyncRef, host, alive, stage>>
      BY <1>7 DEF DrainTasks
    <3>2. host \in {"none", "read", "set", "send", "inc", "dec"}
      BY DEF StateOK
    <3>3. batch = <<>> /\ host = "none"
      BY <3>1, <3>2 DEF ControlInv
    <3> QED
      BY <3>1, <3>3
  <2>2. ~LoopTaskWaits'
    BY <2>1 DEF LoopTaskWaits
  <2>3. batch' = <<>> => taskHead = <<>>
    <3>1. taskHead \in Seq(Nat) /\ Len(batch') = Len(taskHead)
      BY <2>1, ReverseType DEF StateOK
    <3> QED
      BY <3>1, SMTT(30)
  <2> QED
    BY <2>1, <2>2, <2>3 DEF RefInv
<1>8. CASE RunTask
  <2>1. /\ ctx' = "task" /\ UNCHANGED <<closed, loopRefs, taskHead, accepted, asyncRef, host, alive>>
    BY <1>8 DEF RunTask
  <2> QED
    BY <2>1 DEF RefInv, LoopTaskWaits
<1>9. CASE TaskReturn
  <2>1. /\ host = "none" /\ host' = IF batch = <<>> THEN "read" ELSE "none"
        /\ UNCHANGED <<closed, loopRefs, batch, taskHead, accepted, asyncRef, alive>>
    BY <1>9, SMTT(30) DEF TaskReturn
  <2> QED
    BY <2>1 DEF RefInv, LoopTaskWaits
<1>10. CASE Close \/ CloseAsync
  BY <1>10 DEF Close, CloseAsync, RefInv, ControlInv
<1>11. ASSUME NEW t \in Threads, PostTaskClosed(t) PROVE RefInv'
  BY <1>3, <1>11, SMTT(30) DEF PostTaskClosed
<1>12. ASSUME NEW w \in Works, LoopPostWork(w) \/ OnWork(w) \/ OnWorkDone(w) PROVE RefInv'
  <2>1. /\ UNCHANGED <<closed, loopRefs, batch, taskHead, accepted, asyncRef, alive, stage, ctx>>
        /\ host' = host \/ (host = "none" /\ host' \in {"inc", "dec"})
    BY <1>12, Zenon DEF LoopPostWork, OnWork, OnWorkDone, InJS
  <2> QED
    BY <1>3, <2>1
<1>19. CASE LoopPostWorkQueue \/ OnWorkComplete
  <2>1. /\ UNCHANGED <<closed, loopRefs, batch, taskHead, accepted, asyncRef, alive, stage>>
        /\ host \in {"inc", "dec"} /\ host' = "none"
        /\ ctx' = ctx \/ host = "dec"
    BY <1>19, Zenon DEF LoopPostWorkQueue, OnWorkComplete
  <2>2. ctx' = ctx \/ ctx = "poll"
    BY <2>1 DEF ControlInv
  <2> QED
    BY <1>3, <2>1, <2>2
<1>20. CASE processExit
  <2>1. /\ UNCHANGED <<closed, loopRefs, taskHead, accepted, asyncRef, host, alive>>
        /\ host = "none" /\ stage' = "exiting"
    BY <1>20 DEF processExit, InJS
  <2> QED
    BY <2>1 DEF RefInv, LoopTaskWaits
<1>21. CASE Terminate \/ flushPendingWrites
  BY <1>3, <1>21 DEF Terminate, flushPendingWrites
<1>13. ASSUME NEW p \in Producers, ProducerStep(p) PROVE RefInv'
  <2>1. UNCHANGED <<closed, loopRefs, batch, taskHead, accepted, asyncRef, alive, host, stage, ctx>>
    BY <1>13, Zenon DEF ProducerStep, PostTaskSend, PostWorkRead, PostWorkQueue, AsyncSend
  <2> QED
    BY <1>3, <2>1
<1>14. ASSUME NEW p \in Producers, NEW w \in Works, PostWork(p, w) PROVE RefInv'
  BY <1>3, <1>14, SMTT(30) DEF PostWork
<1>15. CASE Run \/ LeaveLoop \/ Iterate \/ EndIteration \/ RunReturn
  <2>1. /\ UNCHANGED <<closed, loopRefs, batch, taskHead, accepted, asyncRef, alive, host>>
        /\ ctx \in {"script", "check", "poll"}
        /\ stage = "exiting" => stage' = "exiting"
    BY <1>15, SMTT(30) DEF Run, LeaveLoop, Iterate, EndIteration, RunReturn
  <2> QED
    BY <1>3, <2>1, SMTT(30)
<1>16. CASE OnAsync \/ OnHandle \/ CallbackReturn \/ DrainReturn
  BY <1>3, <1>16, SMTT(30) DEF OnAsync, OnHandle, CallbackReturn, DrainReturn
<1>17. CASE OpenHandle \/ CloseHandle
  BY <1>3, <1>17 DEF OpenHandle, CloseHandle
<1>18. CASE UNCHANGED vars
  BY <1>3, <1>18 DEF vars
<1> QED
  BY <1>1, <1>2, <1>4, <1>5, <1>6, <1>7, <1>8, <1>9, <1>10, <1>11, <1>12, <1>13, <1>14, <1>15, <1>16, <1>17,
      <1>18, <1>19, <1>20, <1>21, Zenon DEF Next, HostCall, LoopStep, ProducerCall, Threads

-----------------------------------------------------------------------------
(* The theorems                                                            *)

Inductive ==
  StateOK /\ ControlInv /\ QueueInv /\ NoLostWakeup /\ RefInv /\ WorkInv

\* The conjunction of the invariants holds initially and every step keeps it.
LEMMA InductiveHolds == Spec => []Inductive
<1>1. Init => ControlInv
  BY DEF Init, ControlInv
<1>2. Init => QueueInv
  BY DEF Init, QueueInv, TasksInOrder
<1>3. Init => NoLostWakeup
  BY DEF Init, NoLostWakeup
<1>4. Init => RefInv
  BY DEF Init, RefInv, LoopTaskWaits
<1>5. Init => WorkInv
  <2> SUFFICES ASSUME Init PROVE WorkInv
    OBVIOUS
  <2>1. /\ work = [w \in Works |-> "new"] /\ completed = [w \in Works |-> 0]
        /\ pc = [p \in Producers |-> "idle"] /\ arg = [t \in Threads |-> NoWork]
        /\ host = "none"
    BY DEF Init
  <2>2. \A t \in Threads : arg[t] = NoWork
    BY <2>1
  <2>3. CompletedOnce
    BY <2>1 DEF CompletedOnce
  <2>4. ForeignOwns /\ LoopOwns /\ OwnersDiffer
    BY <2>1, <2>2 DEF ForeignOwns, LoopOwns, OwnersDiffer, Threads
  <2> QED
    BY <2>3, <2>4 DEF WorkInv
<1>6. StateOK /\ [Next]_vars /\ ControlInv /\ QueueInv /\ NoLostWakeup /\ RefInv /\ WorkInv
        => ControlInv' /\ QueueInv' /\ NoLostWakeup' /\ RefInv' /\ WorkInv'
  BY ControlStep, QueueStep, WakeStep, RefStep, WorkStep
<1>7. TypeOK => StateOK
  BY DEF TypeOK
<1> QED
  BY <1>1, <1>2, <1>3, <1>4, <1>5, <1>6, <1>7, TypeCorrect, PTL DEF Spec, Inductive

\* Tasks accepted by postTask are run in the order of acceptance and none twice,
\* also in the drains that process.exit makes inside a drain, and none is left out
\* but those of a batch that process.exit was called from, for any number of foreign
\* threads and of tasks.
THEOREM TasksRunInOrder == Spec => []TasksInOrder
<1>1. Inductive => TasksInOrder
  BY DEF Inductive, QueueInv
<1> QED
  BY <1>1, InductiveHolds, PTL

\* close() runs every task that was accepted before it marked the vtable inert.
THEOREM CloseDrains == Spec => []DrainedBeforeClosed
<1>1. Inductive => DrainedBeforeClosed
  <2> SUFFICES ASSUME Inductive, stage \in {"run2", "closed"} PROVE Len(executed) = Len(accepted)
    BY DEF DrainedBeforeClosed
  <2>1. Len(accepted) = Len(executed) + skipped + Len(batch) + Len(taskHead)
    BY Zenon DEF Inductive, QueueInv, TasksInOrder
  <2>2. batch = <<>> /\ taskHead = <<>>
    BY DEF Inductive, QueueInv
  <2>3. skipped = 0
    <3>1. stage # "exiting"
      OBVIOUS
    <3> QED
      BY <3>1, Zenon DEF Inductive, QueueInv, TasksInOrder
  <2>4. Len(executed) \in Nat
    BY DEF Inductive, StateOK
  <2> QED
    BY <2>1, <2>2, <2>3, <2>4
<1> QED
  BY <1>1, InductiveHolds, PTL

\* No interleaving of postTask with the loop loses the wakeup of a waiting task.
THEOREM WakeupNotLost == Spec => []NoLostWakeup
<1>1. Inductive => NoLostWakeup
  BY DEF Inductive
<1> QED
  BY <1>1, InductiveHolds, PTL

\* updateAsyncRef keeps the loop open exactly when something needs it.
THEOREM AsyncRefCorrect == Spec => []AsyncRefAccurate
<1>1. Inductive => AsyncRefAccurate
  <2> SUFFICES ASSUME Inductive, ~closed, host = "none", ctx \in {"script", "check", "poll", "cb"}
               PROVE  /\ loopRefs > 0 => asyncRef
                      /\ LoopTaskWaits => asyncRef
                      /\ stage # "exiting" => (asyncRef => loopRefs > 0 \/ taskHead # <<>>)
    BY DEF AsyncRefAccurate, LoopTaskWaits
  <2>1. batch = <<>>
    BY DEF Inductive, ControlInv
  <2> QED
    BY <2>1 DEF Inductive, RefInv
<1> QED
  BY <1>1, InductiveHolds, PTL

\* complete is called exactly once for every item that was submitted and is done.
THEOREM CompleteOnce == Spec => []CompletedOnce
<1>1. Inductive => CompletedOnce
  BY DEF Inductive, WorkInv
<1> QED
  BY <1>1, InductiveHolds, PTL

\* Nothing writes the reference flag of the async handle after close() closed it.
THEOREM HandleNotTouched == Spec => ClosedHandleUntouched
<1>1. Inductive /\ [Next]_vars => [asyncHandle # "open" => asyncRef' = asyncRef]_vars
  <2> SUFFICES ASSUME Inductive, Next, asyncHandle # "open" PROVE asyncRef' = asyncRef
    BY DEF vars
  <2>1. host # "set"
    BY DEF Inductive, ControlInv
  <2>2. ~UpdateAsyncRefSet
    BY <2>1 DEF UpdateAsyncRefSet
  <2> USE DEF asyncVars
  <2>3. CASE HostCall \/ OpenHandle \/ CloseHandle \/ processExit \/ Terminate
    <3>1. CASE LoopPostTask
      BY <3>1 DEF LoopPostTask
    <3>2. CASE RefLoop \/ UnrefLoop
      BY <3>2 DEF RefLoop, UnrefLoop
    <3>3. CASE OpenHandle \/ CloseHandle
      BY <3>3 DEF OpenHandle, CloseHandle
    <3>4. ASSUME NEW t \in Threads, PostTaskClosed(t) PROVE asyncRef' = asyncRef
      BY <3>4 DEF PostTaskClosed
    <3>5. ASSUME NEW w \in Works, LoopPostWork(w) PROVE asyncRef' = asyncRef
      BY <3>5, SMTT(30) DEF LoopPostWork
    <3>6. CASE processExit \/ Terminate
      BY <3>6 DEF processExit, Terminate
    <3> QED
      BY <2>3, <3>1, <3>2, <3>3, <3>4, <3>5, <3>6 DEF HostCall, Threads
  <2>4. CASE LoopStep
    BY <2>2, <2>4, ZenonT(40) DEF LoopStep, UpdateAsyncRefRead, LoopPostTaskSend, AsyncSend,
         LoopPostWorkQueue, OnWorkComplete, Run, flushPendingWrites, LeaveLoop, Iterate, RunReturn, DrainTasks, RunTask, TaskReturn, DrainReturn, CallbackReturn,
         Close, CloseAsync
  <2>5. CASE EndIteration \/ OnAsync \/ OnHandle
    BY <2>5, SMTT(30) DEF EndIteration, OnAsync, OnHandle
  <2>6. ASSUME NEW p \in Producers, ProducerCall(p) \/ ProducerStep(p) PROVE asyncRef' = asyncRef
    BY <2>6, Zenon DEF ProducerCall, ProducerStep, PostTask, PostTaskClosed, PostWork, PostTaskSend,
                PostWorkRead, PostWorkQueue, AsyncSend
  <2>7. ASSUME NEW w \in Works, OnWork(w) \/ OnWorkDone(w) PROVE asyncRef' = asyncRef
    BY <2>7 DEF OnWork, OnWorkDone
  <2> QED
    BY <2>3, <2>4, <2>5, <2>6, <2>7 DEF Next
<1> QED
  BY <1>1, InductiveHolds, PTL DEF Spec, ClosedHandleUntouched

-----------------------------------------------------------------------------
(* The refinement of HostQueue                                             *)

\* The queue that the batch and the list stand for: the accepted tasks not yet
\* run or left behind, in order.
Pending == batch \o Reverse(taskHead)

PendingOK ==
  /\ Pending \in Seq(Nat) /\ Len(Pending) = Len(accepted) - (Len(executed) + skipped)
  /\ \A i \in 1..Len(Pending) : Pending[i] = Len(executed) + skipped + i
  /\ Len(executed) \in Nat /\ Len(accepted) \in Nat /\ skipped \in Nat

\* In drainTasks' terms: the batch and then the reversed list hold exactly the
\* tasks between the last one run or left behind and the last one accepted.
LEMMA PendingValue == StateOK /\ QueueInv => PendingOK
<1> SUFFICES ASSUME StateOK, QueueInv PROVE PendingOK
  OBVIOUS
<1>a. /\ taskHead \in Seq(Nat) /\ batch \in Seq(Nat)
      /\ Len(taskHead) \in Nat /\ Len(batch) \in Nat
      /\ Len(executed) \in Nat /\ Len(accepted) \in Nat /\ skipped \in Nat
      /\ DOMAIN batch = 1..Len(batch) /\ DOMAIN taskHead = 1..Len(taskHead)
  BY DEF StateOK
<1>b. /\ Len(accepted) = Len(executed) + skipped + Len(batch) + Len(taskHead)
      /\ \A i \in DOMAIN batch : batch[i] = Len(executed) + skipped + i
      /\ \A i \in DOMAIN taskHead : taskHead[i] = Len(accepted) + 1 - i
  BY Zenon DEF QueueInv, TasksInOrder
<1>1. /\ Reverse(taskHead) \in Seq(Nat) /\ Len(Reverse(taskHead)) = Len(taskHead)
      /\ \A i \in 1..Len(taskHead) : Reverse(taskHead)[i] = taskHead[Len(taskHead) + 1 - i]
  BY <1>a, ReverseType
<1>2. Pending \in Seq(Nat) /\ Len(Pending) = Len(batch) + Len(taskHead)
  <2>. DEFINE r == Reverse(taskHead)
  <2>1. r \in Seq(Nat) /\ Len(r) = Len(taskHead)
    BY <1>1
  <2>. HIDE DEF r
  <2>2. batch \o r \in Seq(Nat) /\ Len(batch \o r) = Len(batch) + Len(r)
    BY <2>1, <1>a, ConcatProperties, Zenon
  <2> QED
    BY <2>1, <2>2 DEF Pending, r
<1>3. ASSUME NEW i \in 1..Len(Pending) PROVE Pending[i] = Len(executed) + skipped + i
  <2>0. i \in 1..(Len(batch) + Len(taskHead))
    BY <1>2
  <2>1. CASE i <= Len(batch)
    <3>1. Pending[i] = batch[i] /\ i \in DOMAIN batch
      BY <2>0, <2>1, <1>a, <1>1 DEF Pending
    <3> QED
      BY <3>1, <1>b, Zenon
  <2>2. CASE i > Len(batch)
    <3>. DEFINE k == Len(taskHead) + 1 - (i - Len(batch))
    <3>1. i - Len(batch) \in 1..Len(taskHead) /\ k \in DOMAIN taskHead
      BY <2>0, <2>2, <1>a
    <3>2. Pending[i] = Reverse(taskHead)[i - Len(batch)]
      BY <2>0, <2>2, <1>a, <1>1 DEF Pending
    <3>3. Reverse(taskHead)[i - Len(batch)] = taskHead[k]
      BY <3>1, <1>1, Zenon
    <3>4. taskHead[k] = Len(accepted) + 1 - k
      BY <3>1, <1>b
    <3>5. Len(accepted) + 1 - k = Len(executed) + skipped + i
      BY <2>0, <1>a, <1>b
    <3> QED
      BY <3>2, <3>3, <3>4, <3>5
  <2> QED
    BY <2>0, <2>1, <2>2, <1>a
<1>4. Len(Pending) = Len(accepted) - (Len(executed) + skipped)
  BY <1>2, <1>a, <1>b
<1> QED
  BY <1>2, <1>3, <1>4, <1>a, Zenon DEF PendingOK

\* A run of consecutive numbers without its first n is the run that starts n later.
LEMMA CutFront ==
  ASSUME NEW s \in Seq(Nat), NEW t \in Seq(Nat), NEW e \in Nat, NEW k \in Nat,
         NEW n \in 0..Len(s), Len(t) = Len(s) - n,
         \A i \in 1..Len(s) : s[i] = e + k + i,
         \A i \in 1..Len(t) : t[i] = e + (k + n) + i
  PROVE  t = SubSeq(s, n + 1, Len(s))
<1>. DEFINE r == SubSeq(s, n + 1, Len(s))
            l == Len(s)
<1>1. l \in Nat /\ n \in Nat /\ n <= l
  OBVIOUS
<1>2. \A i \in (n + 1)..l : s[i] \in Nat
  BY <1>1
<1>3. /\ r \in Seq(Nat)
      /\ Len(r) = IF n + 1 <= l THEN l - (n + 1) + 1 ELSE 0
      /\ \A i \in 1..(l - (n + 1) + 1) : r[i] = s[(n + 1) + i - 1]
  <2>1. n + 1 \in Int /\ l \in Int
    BY <1>1
  <2> QED
    BY <1>2, <2>1, SubSeqProperties
<1>. HIDE DEF r
<1>4. Len(r) = Len(t)
  BY <1>1, <1>3
<1>5. ASSUME NEW i \in 1..Len(t) PROVE t[i] = r[i]
  <2>1. i \in 1..(l - n) /\ i \in Nat /\ l - (n + 1) + 1 = l - n /\ (n + 1) + i - 1 = n + i
    BY <1>1
  <2>2. r[i] = s[n + i]
    BY <1>3, <2>1, Zenon
  <2>3. n + i \in 1..l
    BY <1>1, <2>1
  <2>4. s[n + i] = e + k + (n + i) /\ t[i] = e + (k + n) + i
    BY <2>3, Zenon
  <2>5. e + k + (n + i) = e + (k + n) + i
    BY <1>1, <2>1
  <2> QED
    BY <2>2, <2>4, <2>5, Zenon
<1> QED
  BY <1>3, <1>4, <1>5, SeqEqual, Zenon DEF r

\* Only process.exit and the end of the process leave tasks behind or start an
\* exit, and no step takes an exit back.
LEMMA ExitStays ==
  ASSUME ControlInv, [Next]_vars
  PROVE  processExit \/ Terminate \/ (UNCHANGED skipped /\ (Exiting <=> Exiting'))
<1>1. ASSUME UNCHANGED <<skipped, stage>>, ctx' = ctx \/ (ctx # "ended" /\ ctx' # "ended")
      PROVE  UNCHANGED skipped /\ (Exiting <=> Exiting')
  BY <1>1, Zenon DEF Exiting
<1>2. ASSUME UNCHANGED skipped, stage # "exiting", stage' # "exiting", ctx # "ended", ctx' # "ended"
      PROVE  UNCHANGED skipped /\ (Exiting <=> Exiting')
  BY <1>2, Zenon DEF Exiting
<1> DEFINE Goal == UNCHANGED skipped /\ (Exiting <=> Exiting')
<1> HIDE DEF Goal
<1>a. Goal <=> (UNCHANGED skipped /\ (Exiting <=> Exiting'))
  BY DEF Goal
<1> USE DEF taskVars, loopVars
<1>3. CASE LoopPostTask \/ RefLoop \/ UnrefLoop \/ OpenHandle \/ CloseHandle
  BY <1>1, <1>3, <1>a, Zenon DEF LoopPostTask, RefLoop, UnrefLoop, OpenHandle, CloseHandle, PushTask
<1>4. ASSUME NEW t \in Threads, PostTaskClosed(t) PROVE Goal
  BY <1>1, <1>4, <1>a, Zenon DEF PostTaskClosed
<1>5. ASSUME NEW w \in Works, LoopPostWork(w) \/ OnWork(w) \/ OnWorkDone(w) PROVE Goal
  BY <1>1, <1>5, <1>a, Zenon DEF LoopPostWork, OnWork, OnWorkDone
<1>6. ASSUME NEW p \in Producers, ProducerStep(p) \/ PostTask(p) PROVE Goal
  BY <1>1, <1>6, <1>a, Zenon DEF ProducerStep, PostTaskSend, PostWorkRead, PostWorkQueue, PostTask,
                                 PushTask
<1>7. ASSUME NEW p \in Producers, NEW w \in Works, PostWork(p, w) PROVE Goal
  BY <1>1, <1>7, <1>a, Zenon DEF PostWork
<1>8. CASE UpdateAsyncRefRead \/ UpdateAsyncRefSet \/ LoopPostTaskSend \/ LoopPostWorkQueue
  BY <1>1, <1>8, <1>a, Zenon DEF UpdateAsyncRefRead, UpdateAsyncRefSet, LoopPostTaskSend,
                                 LoopPostWorkQueue
<1>9. CASE OnWorkComplete
  <2>1. UNCHANGED <<skipped, stage>> /\ ctx' = "cb" /\ ctx = "poll"
    BY <1>9 DEF OnWorkComplete, ControlInv
  <2>2. ctx # "ended" /\ ctx' # "ended"
    BY <2>1
  <2> QED
    BY <1>1, <1>a, <2>1, <2>2, Zenon
<1>10. CASE Iterate \/ EndIteration \/ OnAsync \/ OnHandle \/ CallbackReturn
  <2>1. /\ UNCHANGED <<skipped, stage>>
        /\ ctx \in {"check", "poll", "cb"} /\ ctx' \in {"script", "check", "poll", "steal", "cb"}
    BY <1>10, SMTT(30) DEF Iterate, EndIteration, OnAsync, OnHandle, CallbackReturn
  <2>2. ctx # "ended" /\ ctx' # "ended"
    BY <2>1
  <2> QED
    BY <1>1, <1>a, <2>1, <2>2, ZenonT(40)
<1>11. CASE DrainTasks \/ RunTask \/ TaskReturn \/ flushPendingWrites
  <2>1. /\ UNCHANGED <<skipped, stage>>
        /\ ctx \in {"steal", "drain", "task", "script"} /\ ctx' \in {"drain", "task", "check"}
    BY <1>11, SMTT(30) DEF DrainTasks, RunTask, TaskReturn, flushPendingWrites
  <2>2. ctx # "ended" /\ ctx' # "ended"
    BY <2>1
  <2> QED
    BY <1>1, <1>a, <2>1, <2>2, ZenonT(40)
<1>12. CASE DrainReturn
  <2>1. /\ UNCHANGED skipped /\ ctx = "drain" /\ ctx' \in {"check", "poll"}
        /\ (UNCHANGED stage \/ (stage = "drain" /\ stage' = "run2"))
    BY <1>12, SMTT(30) DEF DrainReturn
  <2>2. ctx # "ended" /\ ctx' # "ended" /\ (UNCHANGED stage \/ (stage # "exiting" /\ stage' # "exiting"))
    BY <2>1
  <2> QED
    BY <1>1, <1>2, <1>a, <2>1, <2>2, Zenon
<1>13. CASE RunReturn
  <2>1. /\ UNCHANGED skipped /\ ctx = "check" /\ ctx' \in {"script", "steal"}
        /\ (UNCHANGED stage \/ (stage \in {"run1", "run2"} /\ stage' \in {"drain", "closed"}))
    BY <1>13, SMTT(30) DEF RunReturn
  <2>2. ctx # "ended" /\ ctx' # "ended" /\ (UNCHANGED stage \/ (stage # "exiting" /\ stage' # "exiting"))
    BY <2>1
  <2> QED
    BY <1>1, <1>2, <1>a, <2>1, <2>2, Zenon
<1>14. CASE Run \/ LeaveLoop \/ Close \/ CloseAsync
  <2>1. /\ UNCHANGED skipped /\ ctx = "script" /\ ctx' \in {"script", "check"}
        /\ stage \in {"main", "loop", "exit", "marked"}
        /\ stage' \in {"loop", "exit", "marked", "run1"}
    BY <1>14, SMTT(30) DEF Run, LeaveLoop, Close, CloseAsync, ControlInv
  <2>2. ctx # "ended" /\ ctx' # "ended" /\ stage # "exiting" /\ stage' # "exiting"
    BY <2>1
  <2> QED
    BY <1>2, <1>a, <2>1, <2>2, ZenonT(40)
<1>15. CASE UNCHANGED vars
  BY <1>1, <1>15, <1>a, Zenon DEF vars
<1> QED
  BY <1>3, <1>4, <1>5, <1>6, <1>7, <1>8, <1>9, <1>10, <1>11, <1>12, <1>13, <1>14, <1>15, <1>a, Zenon
     DEF Next, HostCall, LoopStep, ProducerCall, Threads

\* postTask and drainTasks implement the atomic first-in first-out queue: pushing
\* is the abstract Post, running a task the abstract RunFirst, marking the vtable
\* inert the abstract Shut; stealing and reversing the list change nothing.
\* process.exit is the abstract Exit: it gives up exactly the rest of the batch
\* being drained.
THEOREM HostQueueRefined == Spec => FirstInFirstOut
<1>1. Init => HQ!Init
  <2> SUFFICES ASSUME Init PROVE HQ!Init
    OBVIOUS
  <2>1. /\ taskHead = <<>> /\ batch = <<>> /\ executed = <<>> /\ accepted = <<>> /\ ~closed
        /\ stage = "main" /\ ctx = "script"
    BY DEF Init
  <2>2. Reverse(<<>>) \in Seq(Nat) /\ Len(Reverse(<<>>)) = 0
    <3>1. <<>> \in Seq(Nat) /\ Len(<<>>) = 0
      OBVIOUS
    <3> QED
      BY <3>1, ReverseType, Zenon
  <2>3. batch \o Reverse(taskHead) = <<>>
    BY <2>1, <2>2
  <2>4. (~closed) = TRUE /\ Len(accepted) = 0
    BY <2>1
  <2>7. Exiting = FALSE
    BY <2>1 DEF Exiting
  <2>. DEFINE q == batch \o Reverse(taskHead)
  <2>5. q = <<>>
    BY <2>3
  <2>. HIDE DEF q
  <2>6. (~closed) = TRUE /\ q = <<>> /\ Len(accepted) = 0 /\ executed = <<>> /\ Exiting = FALSE
    BY <2>1, <2>4, <2>5, <2>7
  <2> QED
    BY <2>6, Zenon DEF HQ!Init, q
<1>2. Inductive /\ Inductive' /\ [Next]_vars => [HQ!Next]_(HQ!hostVars)
  <2> SUFFICES ASSUME Inductive, Inductive', [Next]_vars PROVE HQ!Next \/ UNCHANGED HQ!hostVars
    OBVIOUS
  <2>a. PendingOK /\ PendingOK'
    <3>1. StateOK /\ QueueInv /\ StateOK' /\ QueueInv'
      BY DEF Inductive
    <3> QED
      BY <3>1, PendingValue, PTL
  <2>b. Pending = batch \o Reverse(taskHead) /\ Pending' = batch' \o Reverse(taskHead')
    BY DEF Pending
  <2>c. processExit \/ Terminate \/ (UNCHANGED skipped /\ (Exiting <=> Exiting'))
    BY ExitStays DEF Inductive
  <2>d. UNCHANGED skipped /\ (Exiting <=> Exiting') => UNCHANGED <<skipped, Exiting>>
    BY Zenon DEF Exiting
  <2>1. ASSUME UNCHANGED <<accepted, executed, skipped>> PROVE Pending' = Pending
    <3>1. Len(Pending') = Len(Pending) /\ \A i \in 1..Len(Pending) : Pending'[i] = Pending[i]
      BY <2>a, <2>1 DEF PendingOK
    <3> QED
      BY <2>a, <3>1, SeqEqual, Zenon DEF PendingOK
  <2>17. ASSUME processExit \/ Terminate PROVE HQ!Next
    <3>. DEFINE n == skipped' - skipped
    <3>1. /\ UNCHANGED <<accepted, executed, closed>>
          /\ skipped' = skipped \/ skipped' = skipped + Len(batch)
      BY <2>17 DEF processExit, Terminate, taskVars
    <3>2. /\ Len(executed) \in Nat /\ Len(accepted) \in Nat /\ skipped \in Nat /\ skipped' \in Nat
          /\ Pending \in Seq(Nat) /\ Pending' \in Seq(Nat)
          /\ Len(Pending) = Len(accepted) - (Len(executed) + skipped)
          /\ Len(Pending') = Len(accepted') - (Len(executed') + skipped')
      BY <2>a, Zenon DEF PendingOK
    <3>3. Len(batch) \in Nat /\ Len(Pending) \in Nat /\ Len(Pending') \in Nat
      <4>1. batch \in Seq(Nat)
        BY DEF Inductive, StateOK
      <4> QED
        BY <3>2, <4>1
    <3>4. Len(Pending') = Len(accepted) - (Len(executed) + skipped')
      BY <3>1, <3>2, Zenon
    <3>5. n \in 0..Len(Pending) /\ Len(Pending') = Len(Pending) - n
          /\ skipped' = skipped + n
      <4>. DEFINE A == Len(accepted)  E == Len(executed)  B == Len(batch)
                  L == Len(Pending)  M == Len(Pending')  S == skipped  T == skipped'
      <4>1. /\ A \in Nat /\ E \in Nat /\ B \in Nat /\ L \in Nat /\ M \in Nat /\ S \in Nat /\ T \in Nat
            /\ L = A - (E + S) /\ M = A - (E + T) /\ (T = S \/ T = S + B)
        BY <3>1, <3>2, <3>3, <3>4, Zenon
      <4>. HIDE DEF A, E, B, L, M, S, T
      <4>2. T - S \in 0..L /\ M = L - (T - S) /\ T = S + (T - S)
        BY <4>1
      <4> QED
        BY <4>2, Zenon DEF n, L, M, S, T
    <3>. HIDE DEF n
    <3>8. \A i \in 1..Len(Pending') : Pending'[i] = Len(executed) + (skipped + n) + i
      BY <2>a, <3>1, <3>5, Zenon DEF PendingOK
    <3>9. \A i \in 1..Len(Pending) : Pending[i] = Len(executed) + skipped + i
      BY <2>a, Zenon DEF PendingOK
    <3>10. Pending' = SubSeq(Pending, n + 1, Len(Pending))
      <4>. DEFINE s == Pending  t == Pending'  e == Len(executed)  k == skipped
      <4>1. /\ s \in Seq(Nat) /\ t \in Seq(Nat) /\ e \in Nat /\ k \in Nat
            /\ n \in 0..Len(s) /\ Len(t) = Len(s) - n
            /\ \A i \in 1..Len(s) : s[i] = e + k + i
            /\ \A i \in 1..Len(t) : t[i] = e + (k + n) + i
        BY <3>2, <3>5, <3>8, <3>9, Zenon
      <4>. HIDE DEF s, t, e, k
      <4>2. t = SubSeq(s, n + 1, Len(s))
        BY <4>1, CutFront
      <4> QED
        BY <4>2, Zenon DEF s, t
    <3>6. Exiting' = TRUE
      BY <2>17 DEF processExit, Terminate, Exiting
    <3>11. Len(accepted') = Len(accepted)
      BY <3>1
    <3>7. HQ!Exit
      BY <3>1, <3>5, <3>6, <3>10, <3>11, <2>b, Zenon DEF HQ!Exit
    <3> QED
      BY <3>7 DEF HQ!Next
  <2>18. ASSUME UNCHANGED <<skipped, Exiting>> PROVE HQ!Next \/ UNCHANGED HQ!hostVars
    <3>2. ASSUME UNCHANGED <<accepted, executed, closed>> PROVE UNCHANGED HQ!hostVars
      BY <2>1, <2>18, <3>2, <2>b DEF HQ!hostVars
    <3>3. ASSUME NEW t \in Threads, PushTask(t) PROVE HQ!Next
      <4>0. /\ accepted \in Seq(Threads) /\ UNCHANGED <<closed, executed>> /\ ~closed
            /\ accepted' = Append(accepted, t)
        BY <3>3 DEF PushTask, Inductive, StateOK
      <4>1. Len(accepted') = Len(accepted) + 1
        BY <4>0
      <4>. DEFINE e == Len(accepted) + 1
                  n == Append(Pending, e)
      <4>2. e \in Nat /\ e = Len(executed) + skipped + Len(Pending) + 1
        BY <2>a DEF PendingOK
      <4>. HIDE DEF e
      <4>3. n \in Seq(Nat) /\ Len(n) = Len(Pending) + 1
            /\ (\A i \in 1..Len(Pending) : n[i] = Pending[i]) /\ n[Len(Pending) + 1] = e
        <5>1. Pending \in Seq(Nat)
          BY <2>a DEF PendingOK
        <5> QED
          BY <4>2, <5>1, AppendProperties
      <4>. HIDE DEF n
      <4>4. Len(Pending') = Len(Pending) + 1
        BY <2>a, <2>18, <4>0, <4>1 DEF PendingOK
      <4>5. ASSUME NEW i \in 1..Len(Pending') PROVE Pending'[i] = n[i]
        <5>0. Len(Pending) \in Nat /\ i \in 1..(Len(Pending) + 1)
          BY <2>a, <4>4
        <5>1. Pending'[i] = Len(executed) + skipped + i
          BY <2>a, <2>18, <4>0 DEF PendingOK
        <5>2. CASE i \in 1..Len(Pending)
          BY <2>a, <4>3, <5>1, <5>2 DEF PendingOK
        <5>3. CASE i = Len(Pending) + 1
          BY <2>a, <4>2, <4>3, <5>0, <5>1, <5>3 DEF PendingOK
        <5> QED
          BY <5>0, <5>2, <5>3
      <4>6. Pending' = n
        BY <2>a, <4>3, <4>4, <4>5, SeqEqual, Zenon DEF PendingOK
      <4>7. HQ!Post
        BY <4>0, <4>1, <4>6, <2>b, <2>18, Zenon DEF HQ!Post, n, e
      <4> QED
        BY <4>7 DEF HQ!Next
    <3>4. CASE RunTask
      <4>0. /\ batch \in Seq(Nat) /\ batch # <<>> /\ executed \in Seq(Nat)
            /\ executed' = Append(executed, Head(batch))
            /\ UNCHANGED <<accepted, taskHead, closed>>
        BY <3>4 DEF RunTask, Inductive, StateOK
      <4>1. Len(executed') = Len(executed) + 1
        BY <4>0
      <4>2. Len(Pending) > 0 /\ Pending # <<>>
        BY <2>a, <2>18, <4>0, <4>1 DEF PendingOK
      <4>3. Head(batch) = Head(Pending)
        <5>1. 1 \in DOMAIN batch /\ Head(batch) = batch[1]
          BY <4>0, SMTT(30)
        <5>2. batch[1] = Len(executed) + skipped + 1
          BY <5>1, Zenon DEF Inductive, QueueInv, TasksInOrder
        <5>3. Head(Pending) = Pending[1] /\ Pending[1] = Len(executed) + skipped + 1
          BY <2>a, <4>2 DEF PendingOK
        <5> QED
          BY <5>1, <5>2, <5>3
      <4>. DEFINE r == Tail(Pending)
      <4>4. r \in Seq(Nat) /\ Len(r) = Len(Pending) - 1
            /\ \A i \in 1..Len(r) : r[i] = Pending[i + 1]
        BY <2>a, <4>2, HeadTailProperties DEF PendingOK
      <4>. HIDE DEF r
      <4>5. Len(Pending') = Len(r)
        BY <2>a, <2>18, <4>0, <4>1, <4>4 DEF PendingOK
      <4>6. ASSUME NEW i \in 1..Len(Pending') PROVE Pending'[i] = r[i]
        <5>0. Len(Pending) \in Nat
          BY <2>a DEF PendingOK
        <5>a. i \in 1..(Len(Pending) - 1) /\ i \in 1..Len(r)
          BY <4>4, <4>5
        <5>b. i + 1 \in 1..Len(Pending) /\ i \in Nat
          BY <5>0, <5>a
        <5>1. r[i] = Pending[i + 1]
          BY <4>4, <5>a, Zenon
        <5>2. Pending'[i] = Len(executed') + skipped + i
          BY <2>a, <2>18 DEF PendingOK
        <5>3. Pending[i + 1] = Len(executed) + skipped + (i + 1)
          BY <2>a, <5>b, Zenon DEF PendingOK
        <5>4. Len(executed') + skipped + i = Len(executed) + skipped + (i + 1)
          <6>1. Len(executed) \in Nat /\ skipped \in Nat
            BY <2>a DEF PendingOK
          <6> QED
            BY <4>1, <5>b, <6>1
        <5> QED
          BY <5>1, <5>2, <5>3, <5>4
      <4>7. Pending' = r
        BY <2>a, <4>4, <4>5, <4>6, SeqEqual, Zenon DEF PendingOK
      <4>8. Len(accepted') = Len(accepted)
        BY <4>0
      <4>9. HQ!RunFirst
        BY <4>0, <4>2, <4>3, <4>7, <4>8, <2>b, <2>18, Zenon DEF HQ!RunFirst, r
      <4> QED
        BY <4>9, Zenon DEF HQ!Next
    <3>5. CASE Close
      <4>1. UNCHANGED <<accepted, executed>> /\ closed' = TRUE /\ stage = "exit"
        BY <3>5 DEF Close
      <4>2. ~closed
        BY <4>1 DEF Inductive, ControlInv
      <4>3. (~closed)' = FALSE /\ Len(accepted') = Len(accepted)
        BY <4>1
      <4>4. Pending' = Pending
        BY <4>1, <2>1, <2>18
      <4>5. HQ!Shut
        BY <4>1, <4>2, <4>3, <4>4, <2>b, <2>18, Zenon DEF HQ!Shut
      <4> QED
        BY <4>5 DEF HQ!Next
    <3> USE DEF taskVars
    <3>6. CASE LoopPostTask
      BY <3>3, <3>6, SMTT(30) DEF LoopPostTask, Threads
    <3>7. ASSUME NEW p \in Producers, PostTask(p) PROVE HQ!Next
      BY <3>3, <3>7, SMTT(30) DEF PostTask, Threads
    <3>8. CASE RefLoop \/ UnrefLoop \/ OpenHandle \/ CloseHandle
      BY <3>2, <3>8, SMTT(30) DEF RefLoop, UnrefLoop, OpenHandle, CloseHandle
    <3>9. ASSUME NEW t \in Threads, PostTaskClosed(t) PROVE UNCHANGED HQ!hostVars
      BY <3>2, <3>9, SMTT(30) DEF PostTaskClosed
    <3>10. ASSUME NEW w \in Works, LoopPostWork(w) \/ OnWork(w) \/ OnWorkDone(w)
           PROVE  UNCHANGED HQ!hostVars
      BY <3>2, <3>10, SMTT(30) DEF LoopPostWork, OnWork, OnWorkDone
    <3>11. ASSUME NEW p \in Producers, ProducerStep(p) PROVE UNCHANGED HQ!hostVars
      BY <3>2, <3>11, Zenon DEF ProducerStep, PostTaskSend, PostWorkRead, PostWorkQueue
    <3>12. ASSUME NEW p \in Producers, NEW w \in Works, PostWork(p, w)
           PROVE  UNCHANGED HQ!hostVars
      BY <3>2, <3>12, SMTT(30) DEF PostWork
    <3>13. CASE UpdateAsyncRefRead \/ UpdateAsyncRefSet \/ LoopPostTaskSend \/ CloseAsync
                \/ LoopPostWorkQueue \/ OnWorkComplete
      BY <3>2, <3>13, ZenonT(40) DEF UpdateAsyncRefRead, UpdateAsyncRefSet, LoopPostTaskSend, CloseAsync,
                                    LoopPostWorkQueue, OnWorkComplete
    <3>14. CASE Run \/ flushPendingWrites \/ LeaveLoop \/ Iterate \/ EndIteration \/ RunReturn
                \/ OnAsync \/ OnHandle
      BY <3>2, <3>14, ZenonT(40) DEF Run, flushPendingWrites, LeaveLoop, Iterate, EndIteration,
                                    RunReturn, OnAsync, OnHandle
    <3>15. CASE DrainTasks \/ TaskReturn \/ DrainReturn \/ CallbackReturn
      BY <3>2, <3>15, SMTT(30) DEF DrainTasks, TaskReturn, DrainReturn, CallbackReturn
    <3>16. CASE UNCHANGED vars
      BY <3>2, <3>16 DEF vars
    <3> QED
      BY <2>17, <3>4, <3>5, <3>6, <3>7, <3>8, <3>9, <3>10, <3>11, <3>12, <3>13, <3>14, <3>15, <3>16,
         Zenon DEF Next, HostCall, LoopStep, ProducerCall, Threads
  <2> QED
    BY <2>c, <2>d, <2>17, <2>18, Zenon
<1> QED
  BY <1>1, <1>2, InductiveHolds, PTL DEF Spec, FirstInFirstOut, HQ!Spec
=============================================================================
