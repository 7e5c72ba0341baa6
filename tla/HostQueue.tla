----------------------------- MODULE HostQueue -----------------------------
(***************************************************************************)
(* What the host promises the callers of post_task: a first-in first-out   *)
(* queue.  Posting is atomic, each task is run once, in order, and the     *)
(* queue goes on running what it holds after it stopped accepting tasks.   *)
(* Only the exit of the process breaks the promise: it may give up tasks   *)
(* from the front of the queue, and run later ones.                        *)
(* Tasks are numbered in the order in which they were accepted.            *)
(***************************************************************************)
EXTENDS Naturals, Sequences

VARIABLES open, queue, posted, ran, exiting

hostVars == <<open, queue, posted, ran, exiting>>

Init == open = TRUE /\ queue = <<>> /\ posted = 0 /\ ran = <<>> /\ exiting = FALSE

Post ==
  /\ open
  /\ posted' = posted + 1
  /\ queue' = Append(queue, posted + 1)
  /\ UNCHANGED <<open, ran, exiting>>

RunFirst ==
  /\ queue # <<>>
  /\ ran' = Append(ran, Head(queue))
  /\ queue' = Tail(queue)
  /\ UNCHANGED <<open, posted, exiting>>

Shut == open /\ open' = FALSE /\ UNCHANGED <<queue, posted, ran, exiting>>

Exit ==
  /\ exiting' = TRUE
  /\ \E n \in 0..Len(queue) : queue' = SubSeq(queue, n + 1, Len(queue))
  /\ UNCHANGED <<open, posted, ran>>

Next == Post \/ RunFirst \/ Shut \/ Exit

Spec == Init /\ [][Next]_hostVars

Progress == WF_hostVars(~exiting /\ RunFirst)
=============================================================================
