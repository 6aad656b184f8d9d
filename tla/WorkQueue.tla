----------------------------- MODULE WorkQueue -----------------------------
(* What mc::executor (include/minicomps/executor.h, "A work queue.") promises *)
(* to the components that use it, without the mutex and the two vectors: a    *)
(* task is enqueued once, tasks wait in the order they were enqueued, and     *)
(* they are run from the front, each of them once.                            *)
EXTENDS Naturals, Sequences

CONSTANT Tasks      \* what can be enqueued

VARIABLES queue,    \* the tasks that wait, oldest first
          ran       \* the tasks that were run, oldest first

wqVars == <<queue, ran>>

\* the tasks enqueued so far
Issued == {queue[i] : i \in DOMAIN queue} \cup {ran[i] : i \in DOMAIN ran}

WQInit == queue = <<>> /\ ran = <<>>

WQEnqueue == \E t \in Tasks \ Issued :
                /\ queue' = Append(queue, t)
                /\ UNCHANGED ran

WQRun == /\ queue # <<>>
         /\ ran' = Append(ran, Head(queue))
         /\ queue' = Tail(queue)

WQNext == WQEnqueue \/ WQRun

WQSafeSpec == WQInit /\ [][WQNext]_wqVars

\* The thread that owns the executor calls execute() in a loop, so a task at
\* the front is run at some time.
WQSpec == WQSafeSpec /\ WF_wqVars(WQRun)
=============================================================================
