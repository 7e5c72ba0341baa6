----------------------- MODULE UvEventLoopIdleProofs -----------------------
(***************************************************************************)
(* run() returns only when nothing is left to do: the request count of     *)
(* libuv is the number of outstanding work items for as long as no racing  *)
(* update of it is lost, for any number of threads and of items.           *)
(***************************************************************************)
EXTENDS UvEventLoopProofs, FiniteSetTheorems

\* The items that hold a request of the loop.
Outstanding == {w \in Works : work[w] \in {"queued", "executed"}}

\* As long as no update was lost, the request count is exact.
CountInv ==
  /\ IsFiniteSet(Outstanding)
  /\ lost \/ activeReqs = Cardinality(Outstanding)

\* Queueing an item and completing it count it once and drop it once; a read of the
\* count that another thread has made stale by the time of the write is lost.
LEMMA CountStep == StateOK /\ ControlInv /\ WorkInv /\ CountInv /\ [Next]_vars => CountInv'
<1> SUFFICES ASSUME StateOK, ControlInv, WorkInv, CountInv, [Next]_vars PROVE CountInv'
  OBVIOUS
<1>a. /\ work \in [Works -> {"new", "queued", "executed", "done"}]
      /\ activeReqs \in Int
  BY DEF StateOK
<1>b. IsFiniteSet(Outstanding) /\ (lost \/ activeReqs = Cardinality(Outstanding))
  BY DEF CountInv
<1>c. ForeignOwns /\ LoopOwns
  BY DEF WorkInv
<1>d. ASSUME NEW w \in Works, NEW x, work' = [work EXCEPT ![w] = x]
      PROVE  work'[w] = x /\ \A v \in Works : v # w => work'[v] = work[v]
  BY <1>d, <1>a, Zenon
<1>1. ASSUME NEW w \in Works, NEW t, work[w] = "new", work' = [work EXCEPT ![w] = "queued"],
             WriteCount(t, 1)
      PROVE  CountInv'
  <2>1. work'[w] = "queued" /\ \A v \in Works : v # w => work'[v] = work[v]
    BY <1>1, <1>d, Zenon
  <2>2. Outstanding' = Outstanding \cup {w} /\ w \notin Outstanding
    BY <1>1, <2>1 DEF Outstanding
  <2>3. /\ IsFiniteSet(Outstanding \cup {w})
        /\ Cardinality(Outstanding \cup {w}) =
             IF w \in Outstanding THEN Cardinality(Outstanding) ELSE Cardinality(Outstanding) + 1
    BY <1>b, FS_AddElement, Zenon
  <2>4. IsFiniteSet(Outstanding') /\ Cardinality(Outstanding') = Cardinality(Outstanding) + 1
    BY <2>2, <2>3, Zenon
  <2>5. lost' \/ (~lost /\ activeReqs' = activeReqs + 1)
    BY <1>1, Zenon DEF WriteCount
  <2>6. lost' \/ activeReqs' = Cardinality(Outstanding')
    BY <2>4, <2>5, <1>b, Zenon
  <2> QED
    BY <2>4, <2>6, Zenon DEF CountInv
<1>2. ASSUME NEW w \in Works, NEW t, work[w] = "executed", work' = [work EXCEPT ![w] = "done"],
             WriteCount(t, -1)
      PROVE  CountInv'
  <2>1. work'[w] = "done" /\ \A v \in Works : v # w => work'[v] = work[v]
    BY <1>2, <1>d, Zenon
  <2>2. Outstanding' = Outstanding \ {w} /\ w \in Outstanding
    BY <1>2, <2>1 DEF Outstanding
  <2>3. /\ IsFiniteSet(Outstanding \ {w})
        /\ Cardinality(Outstanding \ {w}) =
             IF w \in Outstanding THEN Cardinality(Outstanding) - 1 ELSE Cardinality(Outstanding)
    BY <1>b, FS_RemoveElement, Zenon
  <2>4. IsFiniteSet(Outstanding') /\ Cardinality(Outstanding') = Cardinality(Outstanding) - 1
    BY <2>2, <2>3, Zenon
  <2>5. lost' \/ (~lost /\ activeReqs' = activeReqs - 1)
    BY <1>2, <1>a, Zenon DEF WriteCount
  <2>6. lost' \/ activeReqs' = Cardinality(Outstanding')
    BY <2>4, <2>5, <1>b, Zenon
  <2> QED
    BY <2>4, <2>6, Zenon DEF CountInv
<1>3. ASSUME Outstanding' = Outstanding, UNCHANGED <<activeReqs, lost>> PROVE CountInv'
  BY <1>3, <1>b, Zenon DEF CountInv
<1>4. ASSUME UNCHANGED <<activeReqs, work, completed, lost>> PROVE CountInv'
  <2>1. Outstanding' = Outstanding
    BY <1>4, Zenon DEF Outstanding
  <2> QED
    BY <1>3, <1>4, <2>1, Zenon
<1>5. ASSUME NEW w \in Works, Cancel(w), work[w] = "new" PROVE CountInv'
  <2>0. work' = [work EXCEPT ![w] = "done"] /\ UNCHANGED <<activeReqs, lost>>
    BY <1>5 DEF Cancel
  <2>1. work'[w] = "done" /\ \A v \in Works : v # w => work'[v] = work[v]
    BY <2>0, <1>d, Zenon
  <2>2. Outstanding' = Outstanding
    BY <1>5, <2>1 DEF Outstanding
  <2> QED
    BY <1>3, <2>0, <2>2, Zenon
<1>6. ASSUME NEW w \in Works, OnWork(w) PROVE CountInv'
  <2>0. /\ work[w] = "queued" /\ work' = [work EXCEPT ![w] = "executed"]
        /\ UNCHANGED <<activeReqs, lost>>
    BY <1>6 DEF OnWork
  <2>1. work'[w] = "executed" /\ \A v \in Works : v # w => work'[v] = work[v]
    BY <2>0, <1>d, Zenon
  <2>2. Outstanding' = Outstanding
    BY <2>0, <2>1 DEF Outstanding
  <2> QED
    BY <1>3, <2>0, <2>2, Zenon
<1> USE DEF workVars
<1>7. ASSUME NEW w \in Works, LoopPostWork(w) PROVE CountInv'
  BY <1>4, <1>5, <1>7, Zenon DEF LoopPostWork, Fresh
<1>8. ASSUME NEW p \in Producers, NEW w \in Works, PostWork(p, w) PROVE CountInv'
  BY <1>4, <1>5, <1>8, Zenon DEF PostWork, Fresh
<1>9. ASSUME NEW p \in Producers, PostWorkRead(p) PROVE CountInv'
  <2>1. arg[p] \in Works /\ work[arg[p]] = "new"
    BY <1>9, <1>c DEF PostWorkRead, ForeignOwns
  <2> QED
    BY <1>4, <1>5, <1>9, <2>1, Zenon DEF PostWorkRead
<1>10. ASSUME NEW p \in Producers, PostWorkQueue(p) PROVE CountInv'
  <2>1. arg[p] \in Works /\ work[arg[p]] = "new"
    BY <1>10, <1>c DEF PostWorkQueue, ForeignOwns
  <2> QED
    BY <1>1, <1>10, <2>1, Zenon DEF PostWorkQueue
<1>11. CASE LoopPostWorkQueue
  <2>1. arg[Loop] \in Works /\ work[arg[Loop]] = "new"
    BY <1>11, <1>c DEF LoopPostWorkQueue, LoopOwns
  <2> QED
    BY <1>1, <1>11, <2>1, Zenon DEF LoopPostWorkQueue
<1>12. CASE OnWorkComplete
  <2>1. arg[Loop] \in Works /\ work[arg[Loop]] = "executed"
    BY <1>12, <1>c DEF OnWorkComplete, LoopOwns
  <2> QED
    BY <1>2, <1>12, <2>1, Zenon DEF OnWorkComplete
<1>13. ASSUME NEW w \in Works, OnWorkDone(w) PROVE CountInv'
  BY <1>4, <1>13, Zenon DEF OnWorkDone
<1>14. ASSUME NEW t \in Threads, PostTaskClosed(t) PROVE CountInv'
  BY <1>4, <1>14, Zenon DEF PostTaskClosed
<1>15. ASSUME NEW p \in Producers, PostTask(p) \/ PostTaskSend(p) PROVE CountInv'
  BY <1>4, <1>15, Zenon DEF PostTask, PostTaskSend
<1>16. CASE LoopPostTask \/ RefLoop \/ UnrefLoop \/ OpenHandle \/ CloseHandle
  BY <1>4, <1>16, Zenon DEF LoopPostTask, RefLoop, UnrefLoop, OpenHandle, CloseHandle
<1>17. CASE UpdateAsyncRefRead \/ UpdateAsyncRefSet \/ LoopPostTaskSend
  BY <1>4, <1>17, Zenon DEF UpdateAsyncRefRead, UpdateAsyncRefSet, LoopPostTaskSend
<1>18. CASE Run \/ flushPendingWrites \/ processExit \/ Terminate \/ LeaveLoop \/ Iterate \/ RunReturn
  BY <1>4, <1>18, Zenon DEF Run, flushPendingWrites, processExit, Terminate, LeaveLoop, Iterate, RunReturn
<1>19. CASE DrainTasks \/ RunTask \/ TaskReturn \/ DrainReturn \/ CallbackReturn \/ OnHandle
  BY <1>4, <1>19, Zenon DEF DrainTasks, RunTask, TaskReturn, DrainReturn, CallbackReturn, OnHandle
<1>20. CASE EndIteration \/ OnAsync \/ Close \/ CloseAsync
  BY <1>4, <1>20, Zenon DEF EndIteration, OnAsync, Close, CloseAsync
<1>21. CASE UNCHANGED vars
  BY <1>4, <1>21, Zenon DEF vars
<1> QED
  BY <1>6, <1>7, <1>8, <1>9, <1>10, <1>11, <1>12, <1>13, <1>14, <1>15, <1>16, <1>17, <1>18, <1>19, <1>20, <1>21,
     Zenon DEF Next, HostCall, LoopStep, ProducerCall, ProducerStep, Threads

\* The request count is exact until an update of it is lost.
LEMMA CountHolds == Spec => []CountInv
<1>1. Init => CountInv
  <2> SUFFICES ASSUME Init PROVE CountInv
    OBVIOUS
  <2>1. work = [w \in Works |-> "new"] /\ activeReqs = 0
    BY DEF Init
  <2>2. Outstanding = {}
    BY <2>1 DEF Outstanding
  <2> QED
    BY <2>1, <2>2, FS_EmptySet DEF CountInv
<1>2. Inductive /\ CountInv /\ [Next]_vars => CountInv'
  BY CountStep DEF Inductive
<1> QED
  BY <1>1, <1>2, InductiveHolds, PTL DEF Spec

\* Only the return of uv_run leads from its liveness test to the native code that
\* called run().
LEMMA OnlyRunReturns ==
  ASSUME ControlInv, Next, ctx = "check", ctx' = "script", stage' = "loop"
  PROVE  ~LoopAlive /\ stage = "loop"
<1>a. ctx' # ctx /\ ctx # "poll" /\ ctx' # "poll" /\ ctx \notin {"script", "task", "cb"}
  OBVIOUS
<1>1. host \notin {"read", "set", "send", "inc", "dec"}
  BY DEF ControlInv
<1>2. ~InJS
  BY <1>a DEF InJS
<1> USE DEF loopVars
<1>3. ~HostCall /\ ~OpenHandle /\ ~CloseHandle /\ ~processExit /\ ~Terminate
  <2>1. \A w \in Works : ~LoopPostWork(w)
    BY <1>2, Zenon DEF LoopPostWork
  <2>2. ~LoopPostTask /\ ~RefLoop /\ ~UnrefLoop /\ ~PostTaskClosed(Loop)
    BY <1>2, Zenon DEF LoopPostTask, RefLoop, UnrefLoop, PostTaskClosed
  <2>3. ~OpenHandle /\ ~CloseHandle /\ ~processExit /\ ~Terminate
    BY <1>2, Zenon DEF OpenHandle, CloseHandle, processExit, Terminate
  <2> QED
    BY <2>1, <2>2, <2>3, Zenon DEF HostCall
<1>4. ASSUME NEW p \in Producers PROVE ~ProducerCall(p) /\ ~ProducerStep(p)
  <2>1. ~PostTask(p) /\ ~PostTaskClosed(p) /\ \A w \in Works : ~PostWork(p, w)
    BY <1>a, Zenon DEF PostTask, PostTaskClosed, PostWork
  <2>2. ~ProducerStep(p)
    BY <1>a, Zenon DEF ProducerStep, PostTaskSend, PostWorkRead, PostWorkQueue
  <2> QED
    BY <2>1, <2>2, Zenon DEF ProducerCall
<1>5. ASSUME NEW w \in Works PROVE ~OnWork(w) /\ ~OnWorkDone(w)
  BY <1>a, Zenon DEF OnWork, OnWorkDone
<1>6. ~EndIteration /\ ~OnAsync /\ ~OnHandle
  BY <1>a, Zenon DEF EndIteration, OnAsync, OnHandle
<1>7. ~UpdateAsyncRefRead /\ ~UpdateAsyncRefSet /\ ~LoopPostTaskSend
  BY <1>a, Zenon DEF UpdateAsyncRefRead, UpdateAsyncRefSet, LoopPostTaskSend
<1>8. ~LoopPostWorkQueue /\ ~OnWorkComplete
  BY <1>1 DEF LoopPostWorkQueue, OnWorkComplete
<1>9. ~Run /\ ~flushPendingWrites /\ ~LeaveLoop /\ ~Iterate /\ ~Close
  BY <1>2, <1>a, Zenon DEF Run, flushPendingWrites, LeaveLoop, Iterate, Close
<1>10. ~DrainTasks /\ ~RunTask /\ ~TaskReturn /\ ~DrainReturn /\ ~CallbackReturn /\ ~CloseAsync
  <2>1. ctx \notin {"steal", "drain", "task", "cb"} /\ ctx' # "check"
    OBVIOUS
  <2> QED
    BY <2>1 DEF DrainTasks, RunTask, TaskReturn, DrainReturn, CallbackReturn, CloseAsync
<1>11. RunReturn
  BY <1>3, <1>4, <1>5, <1>6, <1>7, <1>8, <1>9, <1>10, Zenon DEF Next, LoopStep
<1> QED
  BY <1>11 DEF RunReturn

\* run() returns only when no ref_loop is outstanding, no task of the loop thread
\* waits and, unless a racing update of the request count was lost, no item that
\* was queued is unfinished: for any number of threads, tasks and items.
THEOREM RunReturnsIdle == Spec => RunReturnsWhenIdle
<1>1. Inductive /\ CountInv /\ [Next]_vars =>
        [(ctx = "check" /\ ctx' = "script" /\ stage' = "loop") =>
           /\ loopRefs = 0
           /\ lost \/ \A w \in Works : work[w] \in {"new", "done"}
           /\ \A i \in DOMAIN taskHead : accepted[taskHead[i]] # Loop]_vars
  <2> SUFFICES ASSUME Inductive, CountInv, Next, ctx = "check", ctx' = "script", stage' = "loop"
               PROVE  /\ loopRefs = 0
                      /\ lost \/ \A w \in Works : work[w] \in {"new", "done"}
                      /\ ~LoopTaskWaits
    BY Zenon DEF LoopTaskWaits
  <2>a. StateOK /\ ControlInv /\ RefInv
    BY DEF Inductive
  <2>1. ~LoopAlive /\ stage = "loop"
    BY <2>a, OnlyRunReturns
  <2>2. ~closed /\ asyncHandle = "open"
    BY <2>a, <2>1 DEF ControlInv
  <2>3. activeReqs = 0 /\ ~asyncRef
    BY <2>1, <2>2 DEF LoopAlive
  <2>4. host \notin {"read", "set"}
    BY <2>a DEF ControlInv
  <2>5. ~(loopRefs > 0 \/ LoopTaskWaits)
    BY <2>a, <2>2, <2>3, <2>4, Zenon DEF RefInv
  <2>6. loopRefs = 0
    BY <2>5, <2>a DEF StateOK
  <2>7. ASSUME ~lost, NEW w \in Works PROVE work[w] \in {"new", "done"}
    <3>1. IsFiniteSet(Outstanding) /\ Cardinality(Outstanding) = 0
      BY <2>3, <2>7, Zenon DEF CountInv
    <3>2. Outstanding = {}
      BY <3>1, FS_EmptySet, Zenon
    <3>3. work[w] \in {"new", "queued", "executed", "done"}
      BY <2>a DEF StateOK
    <3> QED
      BY <3>2, <3>3 DEF Outstanding
  <2> QED
    BY <2>5, <2>6, <2>7, Zenon
<1> QED
  BY <1>1, InductiveHolds, CountHolds, PTL DEF Spec, RunReturnsWhenIdle
=============================================================================
