------------------------------ MODULE Executor ------------------------------
(* mc::executor, include/minicomps/executor.h: two vectors and a mutex.       *)
(* Threads enqueue into work_items_ under the mutex; the thread that owns the *)
(* executor swaps the vectors under the mutex and runs the batch without it.  *)
(* A task that runs may enqueue into the executor it runs on (an async query  *)
(* a component sends to a component with the same executor override, an event *)
(* that is handled by another event, ...), so the worker is a producer too.   *)
(*                                                                            *)
(* A task is named by its producer and the number of the call. The payload    *)
(* (fixed_any) and num_lock_failures_, a statistic, are abstracted.           *)
EXTENDS Naturals, Sequences

CONSTANTS Producers,   \* threads that only enqueue
          Worker,      \* the thread that calls execute()
          NoThread,    \* the mutex is free
          Blank,       \* a task emplaced in the vector and not yet assigned
          MaxTasks     \* bound: calls of enqueue_work per thread

Threads == Producers \cup {Worker}
Tasks   == Threads \X (1..MaxTasks)

ASSUME ExecutorAssumption ==
    /\ Worker \notin Producers
    /\ NoThread \notin Threads
    /\ Blank \notin Tasks
    /\ MaxTasks \in Nat

VARIABLES mutex_,                   \* the thread that holds mutex_
          work_items_,              \* the vector that is filled
          work_items_back_buffer_,  \* the vector that is run
          pos,                      \* items of the batch already started
          pc,                       \* where each thread is
          calls,                    \* calls of enqueue_work assigned, per thread
          enqueued,                 \* history: tasks in the order they were stored
          executed                  \* history: tasks in the order they were run

vars == <<mutex_, work_items_, work_items_back_buffer_, pos, pc, calls,
          enqueued, executed>>

\* where enqueue_work leaves a thread: the worker calls it from inside a task
Home(t) == IF t = Worker THEN "item" ELSE "idle"

Init == /\ mutex_ = NoThread
        /\ work_items_ = <<>>
        /\ work_items_back_buffer_ = <<>>
        /\ pos = 0
        /\ pc = [t \in Threads |-> "idle"]
        /\ calls = [t \in Threads |-> 0]
        /\ enqueued = <<>>
        /\ executed = <<>>

Goto(t, l) == pc' = [pc EXCEPT ![t] = l]

\* `if (!mutex_.try_lock()) mutex_.lock();` -- try_lock succeeds on a free
\* mutex, else the thread goes on to the blocking call
TryLock(t, got, wait) ==
    IF mutex_ = NoThread THEN mutex_' = t /\ Goto(t, got)
                         ELSE UNCHANGED mutex_ /\ Goto(t, wait)
Lock(t, got) == mutex_ = NoThread /\ mutex_' = t /\ Goto(t, got)

(* ------------------------------ enqueue_work ------------------------------ *)

queueVars == <<work_items_, work_items_back_buffer_, pos, calls, enqueued, executed>>

EnqueueTryLock(t) == /\ pc[t] = Home(t)
                     /\ calls[t] < MaxTasks
                     /\ TryLock(t, "emplace", "enqueue_wait")
                     /\ UNCHANGED queueVars

\* mutant: after a failed try_lock the thread goes on without the mutex
EnqueueNoLock(t) == /\ pc[t] = "enqueue_wait"
                    /\ Goto(t, "emplace")
                    /\ UNCHANGED <<mutex_, queueVars>>


EnqueueLock(t) == /\ pc[t] = "enqueue_wait"
                  /\ Lock(t, "emplace")
                  /\ UNCHANGED queueVars

\* mutant: the mutex is released as soon as the vector has its new slot
EmplaceUnlocks(t) == /\ pc[t] = "emplace"
                     /\ work_items_' = Append(work_items_, Blank)
                     /\ mutex_' = NoThread
                     /\ Goto(t, "assign")
                     /\ UNCHANGED <<work_items_back_buffer_, pos, calls, enqueued, executed>>

\* task& work_item = work_items_.emplace_back();
Emplace(t) == /\ pc[t] = "emplace"
              /\ work_items_' = Append(work_items_, Blank)
              /\ Goto(t, "assign")
              /\ UNCHANGED <<mutex_, work_items_back_buffer_, pos, calls, enqueued, executed>>

\* mutant: the slot at the front is filled instead of the last one
AssignFirst(t) == LET task == <<t, calls[t] + 1>> IN
             /\ pc[t] = "assign"
             /\ work_items_' = [work_items_ EXCEPT ![1] = task]
             /\ calls' = [calls EXCEPT ![t] = @ + 1]
             /\ enqueued' = Append(enqueued, task)
             /\ Goto(t, "enqueue_unlock")
             /\ UNCHANGED <<mutex_, work_items_back_buffer_, pos, executed>>

\* work_item.fun = ...; work_item.data.assign(...);
Assign(t) == LET task == <<t, calls[t] + 1>> IN
             /\ pc[t] = "assign"
             /\ work_items_' = [work_items_ EXCEPT ![Len(work_items_)] = task]
             /\ calls' = [calls EXCEPT ![t] = @ + 1]
             /\ enqueued' = Append(enqueued, task)
             /\ Goto(t, "enqueue_unlock")
             /\ UNCHANGED <<mutex_, work_items_back_buffer_, pos, executed>>

EnqueueUnlock(t) == /\ pc[t] = "enqueue_unlock"
                    /\ mutex_' = NoThread
                    /\ Goto(t, Home(t))
                    /\ UNCHANGED queueVars

(* --------------------------------- execute -------------------------------- *)

ExecuteTryLock == /\ pc[Worker] = "idle"
                  /\ TryLock(Worker, "swap", "execute_wait")
                  /\ UNCHANGED queueVars

ExecuteLock == /\ pc[Worker] = "execute_wait"
               /\ Lock(Worker, "swap")
               /\ UNCHANGED queueVars

\* std::swap(work_items_, work_items_back_buffer_);
Swap == /\ pc[Worker] = "swap"
        /\ work_items_' = work_items_back_buffer_
        /\ work_items_back_buffer_' = work_items_
        /\ Goto(Worker, "execute_unlock")
        /\ UNCHANGED <<mutex_, pos, calls, enqueued, executed>>

\* mutant: the batch is run with the mutex held
ExecuteKeepsLock == /\ pc[Worker] = "execute_unlock"
                    /\ Goto(Worker, "batch")
                    /\ UNCHANGED <<mutex_, queueVars>>


ExecuteUnlock == /\ pc[Worker] = "execute_unlock"
                 /\ mutex_' = NoThread
                 /\ Goto(Worker, "batch")
                 /\ UNCHANGED queueVars

\* for (auto& item : work_items_back_buffer_) item.execute();
StartItem == /\ pc[Worker] = "batch"
             /\ pos < Len(work_items_back_buffer_)
             /\ pos' = pos + 1
             /\ executed' = Append(executed, work_items_back_buffer_[pos + 1])
             /\ Goto(Worker, "item")
             /\ UNCHANGED <<mutex_, work_items_, work_items_back_buffer_, calls, enqueued>>

FinishItem == /\ pc[Worker] = "item"
              /\ Goto(Worker, "batch")
              /\ UNCHANGED <<mutex_, queueVars>>

\* mutant: the batch that was run is not cleared and comes back with the next swap
ClearNothing == /\ pc[Worker] = "batch"
                /\ pos = Len(work_items_back_buffer_)
                /\ pos' = 0
                /\ Goto(Worker, "idle")
                /\ UNCHANGED <<mutex_, work_items_, work_items_back_buffer_, calls, enqueued, executed>>

\* mutant: the iteration is not started anew for the next batch
ClearKeepsPos == /\ pc[Worker] = "batch"
                 /\ pos = Len(work_items_back_buffer_)
                 /\ work_items_back_buffer_' = <<>>
                 /\ Goto(Worker, "idle")
                 /\ UNCHANGED <<mutex_, work_items_, pos, calls, enqueued, executed>>

\* work_items_back_buffer_.clear();
ClearBatch == /\ pc[Worker] = "batch"
              /\ pos = Len(work_items_back_buffer_)
              /\ work_items_back_buffer_' = <<>>
              /\ pos' = 0
              /\ Goto(Worker, "idle")
              /\ UNCHANGED <<mutex_, work_items_, calls, enqueued, executed>>

(* -------------------------------------------------------------------------- *)

InCall(t) == EnqueueLock(t) \/ Emplace(t) \/ Assign(t) \/ EnqueueUnlock(t)
Enqueue(t) == EnqueueTryLock(t) \/ InCall(t)
Execute == \/ ExecuteTryLock \/ ExecuteLock \/ Swap \/ ExecuteUnlock
           \/ StartItem \/ FinishItem \/ ClearBatch

Next == Execute \/ \E t \in Threads : Enqueue(t)

\* The owning thread runs `while (!done) executor->execute();` and a thread
\* inside enqueue_work goes on to its end. Nobody has to start a call, and no
\* fairness among the threads that wait for the mutex is assumed.
Fairness == /\ WF_vars(Execute)
            /\ \A t \in Threads : WF_vars(InCall(t))

SafeSpec == Init /\ [][Next]_vars
Spec == SafeSpec /\ Fairness
-----------------------------------------------------------------------------

Locations == {"idle", "item", "enqueue_wait", "emplace", "assign", "enqueue_unlock",
              "execute_wait", "swap", "execute_unlock", "batch"}
EnqueueLocked == {"emplace", "assign", "enqueue_unlock"}
Locked == EnqueueLocked \cup {"swap", "execute_unlock"}

\* Type invariant of executor.h's fields; the batch index stays inside the batch.
TypeOK == /\ mutex_ \in Threads \cup {NoThread}
          /\ work_items_ \in Seq(Tasks \cup {Blank})
          /\ work_items_back_buffer_ \in Seq(Tasks \cup {Blank})
          /\ pos \in 0..Len(work_items_back_buffer_)
          /\ pc \in [Threads -> Locations]
          /\ calls \in [Threads -> 0..MaxTasks]
          /\ enqueued \in Seq(Tasks)
          /\ executed \in Seq(Tasks \cup {Blank})

\* Lock discipline of enqueue_work and execute: the thread between lock() and
\* unlock() is the holder of the mutex, so there is at most one, and a mutex
\* that is taken is held by a thread that is on its way to unlock() -- above
\* all the worker does not hold it while it runs a task that enqueues.
LockDiscipline == \A t \in Threads : pc[t] \in Locked <=> mutex_ = t

\* A task is emplaced first and gets its function and data afterwards: the
\* worker never takes a task into its batch before both are there (calling the
\* empty std::function would throw).
NoHalfBuiltTask == \A i \in DOMAIN work_items_back_buffer_ : work_items_back_buffer_[i] # Blank

\* work_items_ without the task that is being built
Ready == IF \E t \in Threads : pc[t] = "assign"
         THEN SubSeq(work_items_, 1, Len(work_items_) - 1)
         ELSE work_items_

\* the batch items not yet started
Remaining == SubSeq(work_items_back_buffer_, pos + 1, Len(work_items_back_buffer_))

\* what waits in the two vectors, oldest first. While the worker is between the
\* unlock and the clear, the batch is older than what is in work_items_.
Waiting == Remaining \o Ready

\* enqueue_work and execute together: every task is run exactly once and in the
\* order of the enqueue_work calls -- swapping, clearing and tasks that enqueue
\* while the batch is run lose, repeat and reorder nothing.
ExactlyOnceInOrder == enqueued = executed \o Waiting

\* The executor implements the work queue its class comment names, and the
\* owning thread's loop makes it run what is at the front.
WQ == INSTANCE WorkQueue WITH queue <- Waiting, ran <- executed
ImplementsWorkQueue == WQ!WQSpec

\* A task that is stored is run at some time, whatever other threads do with
\* the mutex, and also when a task enqueues into the executor it runs on.
EveryTaskRuns == \A task \in Tasks :
    (\E i \in DOMAIN enqueued : enqueued[i] = task)
        ~> (\E i \in DOMAIN executed : executed[i] = task)

=============================================================================
