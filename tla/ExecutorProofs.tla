--------------------------- MODULE ExecutorProofs ---------------------------
(* Proofs about Executor for any number of producers and calls. The argument: *)
(*   ControlInv  where each thread is, who holds the mutex, when the batch is *)
(*               empty and that the last slot exists while it is filled;      *)
(*   DataInv     given ControlInv: what the vectors hold.                     *)
(* The safety properties of Executor are conjuncts of the two, and each step  *)
(* that keeps them maps to a step or a stutter of WorkQueue.                  *)
EXTENDS Executor, SequenceTheorems, TLAPS

Slots == Tasks \cup {Blank}

Building == \E t \in Threads : pc[t] = "assign"

\* A producer never is in the worker's loop.
Places == \A p \in Producers : pc[p] \in {"idle", "enqueue_wait"} \cup EnqueueLocked

\* A call that has not stored its task yet is within the bound.
CallsBounded == \A t \in Threads :
    pc[t] \in {"enqueue_wait", "emplace", "assign"} => calls[t] < MaxTasks

\* Before the swap the back buffer is empty: the last batch was cleared.
BatchEmpty ==
    /\ pc[Worker] \in {"idle", "execute_wait", "swap"} => work_items_back_buffer_ = <<>>
    /\ pc[Worker] \in {"idle", "execute_wait", "swap", "execute_unlock"} => pos = 0

\* The slot that is assigned is there: nobody swaps between emplace and assign.
SlotThere == Building => Len(work_items_) > 0

ControlInv == TypeOK /\ LockDiscipline /\ Places /\ CallsBounded /\ BatchEmpty /\ SlotThere

\* A slot that is not assigned is the last one, while its thread is at "assign".
OnlyLastBlank == \A i \in DOMAIN work_items_ :
    work_items_[i] = Blank => Building /\ i = Len(work_items_)

\* The calls of a thread are numbered, so no task is enqueued twice.
Numbered == \A i \in DOMAIN enqueued : enqueued[i][2] <= calls[enqueued[i][1]]

DataInv == OnlyLastBlank /\ NoHalfBuiltTask /\ ExactlyOnceInOrder /\ Numbered

IInv == ControlInv /\ DataInv
-----------------------------------------------------------------------------
\* A finite sequence's slot is overwritten: the last one, as assign() does.
LEMMA ReplaceLast ==
  ASSUME NEW S, NEW s \in Seq(S), Len(s) > 0, NEW e \in S
  PROVE  [s EXCEPT ![Len(s)] = e] = Append(SubSeq(s, 1, Len(s) - 1), e)
<1>1. Len(s) \in 1..Len(s)  BY LenProperties
<1> DEFINE front == SubSeq(s, 1, Len(s) - 1)
           new   == [s EXCEPT ![Len(s)] = e]
<1>2. /\ new \in Seq(S)
      /\ Len(new) = Len(s)
      /\ \A j \in 1..Len(s) : new[j] = IF j = Len(s) THEN e ELSE s[j]
  BY <1>1, ExceptSeq
<1>3. /\ front \in Seq(S)
      /\ Len(front) = Len(s) - 1
      /\ \A i \in 1..(Len(s) - 1) : front[i] = s[i]
  <2>1. \A i \in 1..(Len(s) - 1) : s[i] \in S  BY <1>1, ElementOfSeq
  <2>2. 1 \in Int /\ Len(s) - 1 \in Int /\ Len(s) \in Nat  BY <1>1, LenProperties
  <2>3. /\ front \in Seq(S)
        /\ Len(front) = IF 1 <= Len(s) - 1 THEN Len(s) - 1 - 1 + 1 ELSE 0
        /\ \A i \in 1..(Len(s) - 1 - 1 + 1) : front[i] = s[1 + i - 1]
    BY <2>1, <2>2, SubSeqProperties
  <2> HIDE DEF front
  <2>4. Len(front) = Len(s) - 1
    <3>1. CASE Len(s) = 1  BY <2>3, <3>1
    <3>2. CASE Len(s) > 1
      <4>1. 1 <= Len(s) - 1 /\ Len(s) - 1 - 1 + 1 = Len(s) - 1  BY <2>2, <3>2
      <4> QED  BY <2>3, <4>1
    <3> DEFINE n == Len(s)
    <3>3. n \in Nat /\ n > 0  BY <2>2
    <3> HIDE DEF n
    <3>4. n = 1 \/ n > 1  BY <3>3
    <3> QED  BY <3>1, <3>2, <3>4 DEF n
  <2>5. ASSUME NEW i \in 1..(Len(s) - 1) PROVE front[i] = s[i]
    <3>1. i \in 1..(Len(s) - 1 - 1 + 1) /\ 1 + i - 1 = i  BY <2>2
    <3> QED  BY <2>3, <3>1
  <2> QED  BY <2>3, <2>4, <2>5
<1> HIDE DEF front, new
<1>4. /\ Append(front, e) \in Seq(S)
      /\ Len(Append(front, e)) = Len(front) + 1
      /\ \A i \in 1..Len(front) : Append(front, e)[i] = front[i]
      /\ Append(front, e)[Len(front) + 1] = e
  BY <1>3, AppendProperties
<1>5. \A i \in 1..Len(new) : new[i] = Append(front, e)[i]
  BY <1>1, <1>2, <1>3, <1>4
<1>6. new = Append(front, e)
  BY <1>1, <1>2, <1>3, <1>4, <1>5, SeqEqual
<1> QED  BY <1>6 DEF front, new

\* Cutting off what was appended last.
LEMMA FrontOfAppend ==
  ASSUME NEW S, NEW s \in Seq(S), NEW e \in S
  PROVE  SubSeq(Append(s, e), 1, Len(Append(s, e)) - 1) = s
<1>1. /\ Append(s, e) \in Seq(S)
      /\ Len(Append(s, e)) = Len(s) + 1
      /\ \A i \in 1..Len(s) : Append(s, e)[i] = s[i]
  BY AppendProperties
<1>2. Len(s) \in Nat  BY LenProperties
<1> DEFINE f == SubSeq(Append(s, e), 1, Len(s))
<1>3. \A i \in 1..Len(s) : s[i] \in S  BY ElementOfSeq
<1>4. f \in Seq(S) /\ Len(f) = Len(s) /\ \A i \in 1..Len(s) : f[i] = Append(s, e)[i]
  <2>1. 1 \in Int /\ Len(s) \in Int  BY <1>2
  <2>2. \A i \in 1..Len(s) : Append(s, e)[i] \in S  BY <1>1, <1>3
  <2> QED  BY <1>2, <2>1, <2>2, SubSeqProperties, SMT
<1> HIDE DEF f
<1>5. f = s  BY <1>1, <1>4, SeqEqual
<1> QED  BY <1>1, <1>2, <1>5 DEF f
-----------------------------------------------------------------------------
\* ControlInv holds initially.
LEMMA ControlInit == Init => ControlInv
<1> SUFFICES ASSUME Init PROVE ControlInv  OBVIOUS
<1>1. TypeOK
  BY ExecutorAssumption, EmptySeq DEF Init, TypeOK, Locations
<1>2. LockDiscipline
  BY ExecutorAssumption DEF Init, LockDiscipline, Locked, EnqueueLocked, Threads
<1>3. Places /\ CallsBounded /\ BatchEmpty /\ SlotThere
  BY ExecutorAssumption DEF Init, Places, CallsBounded, BatchEmpty, SlotThere, Building, Threads
<1> QED  BY <1>1, <1>2, <1>3 DEF ControlInv

\* Every step keeps ControlInv.
LEMMA ControlStep == ControlInv /\ [Next]_vars => ControlInv'
<1> SUFFICES ASSUME ControlInv, [Next]_vars PROVE ControlInv'  OBVIOUS
<1> USE ExecutorAssumption
<1>0. TypeOK /\ LockDiscipline /\ Places /\ CallsBounded /\ BatchEmpty /\ SlotThere
  BY DEF ControlInv
<1>1. ASSUME NEW t \in Threads, EnqueueTryLock(t) PROVE ControlInv'
  <2>1. TypeOK'
    BY <1>0, <1>1 DEF EnqueueTryLock, TryLock, Goto, Home, queueVars, TypeOK, Locations, Threads, Tasks
  <2>2. LockDiscipline'
    BY <1>0, <1>1 DEF EnqueueTryLock, TryLock, Goto, Home, queueVars, LockDiscipline, TypeOK, Locked, EnqueueLocked, Threads
  <2>3. Places'
    BY <1>0, <1>1 DEF EnqueueTryLock, TryLock, Goto, Home, queueVars, Places, TypeOK, EnqueueLocked, Threads
  <2>4. CallsBounded'
    BY <1>0, <1>1 DEF EnqueueTryLock, TryLock, Goto, Home, queueVars, CallsBounded, TypeOK, Threads
  <2>5. BatchEmpty'
    BY <1>0, <1>1 DEF EnqueueTryLock, TryLock, Goto, Home, queueVars, BatchEmpty, TypeOK, Threads
  <2>6. SlotThere'
    BY <1>0, <1>1 DEF EnqueueTryLock, TryLock, Goto, Home, queueVars, SlotThere, Building, TypeOK, LockDiscipline, Locked, EnqueueLocked, Threads
  <2> QED  BY <2>1, <2>2, <2>3, <2>4, <2>5, <2>6 DEF ControlInv
<1>2. ASSUME NEW t \in Threads, EnqueueLock(t) PROVE ControlInv'
  <2>1. TypeOK'
    BY <1>0, <1>2 DEF EnqueueLock, Lock, Goto, queueVars, TypeOK, Locations, Threads, Tasks
  <2>2. LockDiscipline'
    BY <1>0, <1>2 DEF EnqueueLock, Lock, Goto, queueVars, LockDiscipline, TypeOK, Locked, EnqueueLocked, Threads
  <2>3. Places'
    BY <1>0, <1>2 DEF EnqueueLock, Lock, Goto, queueVars, Places, TypeOK, EnqueueLocked, Threads
  <2>4. CallsBounded'
    BY <1>0, <1>2 DEF EnqueueLock, Lock, Goto, queueVars, CallsBounded, TypeOK, Threads
  <2>5. BatchEmpty'
    BY <1>0, <1>2 DEF EnqueueLock, Lock, Goto, queueVars, BatchEmpty, TypeOK, Threads
  <2>6. SlotThere'
    BY <1>0, <1>2 DEF EnqueueLock, Lock, Goto, queueVars, SlotThere, Building, TypeOK, LockDiscipline, Locked, EnqueueLocked, Threads
  <2> QED  BY <2>1, <2>2, <2>3, <2>4, <2>5, <2>6 DEF ControlInv
<1>3. ASSUME NEW t \in Threads, Emplace(t) PROVE ControlInv'
  <2>1. TypeOK'
    BY <1>0, <1>3 DEF Emplace, Goto, TypeOK, Locations, Threads, Tasks
  <2>2. LockDiscipline'
    BY <1>0, <1>3 DEF Emplace, Goto, LockDiscipline, TypeOK, Locked, EnqueueLocked, Threads
  <2>3. Places'
    BY <1>0, <1>3 DEF Emplace, Goto, Places, TypeOK, EnqueueLocked, Threads
  <2>4. CallsBounded'
    BY <1>0, <1>3 DEF Emplace, Goto, CallsBounded, TypeOK, Threads
  <2>5. BatchEmpty'
    BY <1>0, <1>3 DEF Emplace, Goto, BatchEmpty, TypeOK, Threads
  <2>6. SlotThere'
    BY <1>0, <1>3 DEF Emplace, Goto, SlotThere, Building, TypeOK, LockDiscipline, Locked, EnqueueLocked, Threads
  <2> QED  BY <2>1, <2>2, <2>3, <2>4, <2>5, <2>6 DEF ControlInv
<1>4. ASSUME NEW t \in Threads, Assign(t) PROVE ControlInv'
  <2>1. TypeOK'
    <3> DEFINE task == <<t, calls[t] + 1>>
    <3>1. calls[t] < MaxTasks /\ calls[t] \in 0..MaxTasks
      BY <1>0, <1>4 DEF CallsBounded, TypeOK, Assign
    <3>2. calls[t] + 1 \in 1..MaxTasks  BY <3>1
    <3>3. task \in Tasks  BY <3>2 DEF Tasks
    <3>4. calls' \in [Threads -> 0..MaxTasks]
      BY <1>0, <1>4, <3>2 DEF TypeOK, Assign
    <3>5. Len(work_items_) \in 1..Len(work_items_)
      BY <1>0, <1>4, LenProperties DEF SlotThere, Building, Assign, TypeOK
    <3> HIDE DEF task
    <3>6. work_items_' \in Seq(Tasks \cup {Blank})
      BY <1>0, <1>4, <3>3, <3>5, ExceptSeq DEF TypeOK, Assign, task
    <3>7. enqueued' \in Seq(Tasks)
      BY <1>0, <1>4, <3>3, AppendProperties DEF TypeOK, Assign, task
    <3> QED  BY <1>0, <1>4, <3>4, <3>6, <3>7 DEF Assign, Goto, TypeOK, Locations
  <2>2. LockDiscipline'
    BY <1>0, <1>4 DEF Assign, Goto, LockDiscipline, TypeOK, Locked, EnqueueLocked, Threads
  <2>3. Places'
    BY <1>0, <1>4 DEF Assign, Goto, Places, TypeOK, EnqueueLocked, Threads
  <2>4. CallsBounded'
    BY <1>0, <1>4 DEF Assign, Goto, CallsBounded, TypeOK, Threads
  <2>5. BatchEmpty'
    BY <1>0, <1>4 DEF Assign, Goto, BatchEmpty, TypeOK, Threads
  <2>6. SlotThere'
    BY <1>0, <1>4 DEF Assign, Goto, SlotThere, Building, TypeOK, LockDiscipline, Locked, EnqueueLocked, Threads
  <2> QED  BY <2>1, <2>2, <2>3, <2>4, <2>5, <2>6 DEF ControlInv
<1>5. ASSUME NEW t \in Threads, EnqueueUnlock(t) PROVE ControlInv'
  <2>1. TypeOK'
    BY <1>0, <1>5 DEF EnqueueUnlock, Goto, Home, queueVars, TypeOK, Locations, Threads, Tasks
  <2>2. LockDiscipline'
    BY <1>0, <1>5 DEF EnqueueUnlock, Goto, Home, queueVars, LockDiscipline, TypeOK, Locked, EnqueueLocked, Threads
  <2>3. Places'
    BY <1>0, <1>5 DEF EnqueueUnlock, Goto, Home, queueVars, Places, TypeOK, EnqueueLocked, Threads
  <2>4. CallsBounded'
    BY <1>0, <1>5 DEF EnqueueUnlock, Goto, Home, queueVars, CallsBounded, TypeOK, Threads
  <2>5. BatchEmpty'
    BY <1>0, <1>5 DEF EnqueueUnlock, Goto, Home, queueVars, BatchEmpty, TypeOK, Threads
  <2>6. SlotThere'
    BY <1>0, <1>5 DEF EnqueueUnlock, Goto, Home, queueVars, SlotThere, Building, TypeOK, LockDiscipline, Locked, EnqueueLocked, Threads
  <2> QED  BY <2>1, <2>2, <2>3, <2>4, <2>5, <2>6 DEF ControlInv
<1>6. CASE ExecuteTryLock
  <2>1. TypeOK'
    BY <1>0, <1>6 DEF ExecuteTryLock, TryLock, Goto, queueVars, TypeOK, Locations, Threads, Tasks
  <2>2. LockDiscipline'
    BY <1>0, <1>6 DEF ExecuteTryLock, TryLock, Goto, queueVars, LockDiscipline, TypeOK, Locked, EnqueueLocked, Threads
  <2>3. Places'
    BY <1>0, <1>6 DEF ExecuteTryLock, TryLock, Goto, queueVars, Places, TypeOK, EnqueueLocked, Threads
  <2>4. CallsBounded'
    BY <1>0, <1>6 DEF ExecuteTryLock, TryLock, Goto, queueVars, CallsBounded, TypeOK, Threads
  <2>5. BatchEmpty'
    BY <1>0, <1>6 DEF ExecuteTryLock, TryLock, Goto, queueVars, BatchEmpty, TypeOK, Threads
  <2>6. SlotThere'
    BY <1>0, <1>6 DEF ExecuteTryLock, TryLock, Goto, queueVars, SlotThere, Building, TypeOK, LockDiscipline, Locked, EnqueueLocked, Threads
  <2> QED  BY <2>1, <2>2, <2>3, <2>4, <2>5, <2>6 DEF ControlInv
<1>7. CASE ExecuteLock
  <2>1. TypeOK'
    BY <1>0, <1>7 DEF ExecuteLock, Lock, Goto, queueVars, TypeOK, Locations, Threads, Tasks
  <2>2. LockDiscipline'
    BY <1>0, <1>7 DEF ExecuteLock, Lock, Goto, queueVars, LockDiscipline, TypeOK, Locked, EnqueueLocked, Threads
  <2>3. Places'
    BY <1>0, <1>7 DEF ExecuteLock, Lock, Goto, queueVars, Places, TypeOK, EnqueueLocked, Threads
  <2>4. CallsBounded'
    BY <1>0, <1>7 DEF ExecuteLock, Lock, Goto, queueVars, CallsBounded, TypeOK, Threads
  <2>5. BatchEmpty'
    BY <1>0, <1>7 DEF ExecuteLock, Lock, Goto, queueVars, BatchEmpty, TypeOK, Threads
  <2>6. SlotThere'
    BY <1>0, <1>7 DEF ExecuteLock, Lock, Goto, queueVars, SlotThere, Building, TypeOK, LockDiscipline, Locked, EnqueueLocked, Threads
  <2> QED  BY <2>1, <2>2, <2>3, <2>4, <2>5, <2>6 DEF ControlInv
<1>8. CASE Swap
  <2>1. TypeOK'
    <3>1. pos = 0 /\ pos' = 0  BY <1>0, <1>8 DEF BatchEmpty, Swap
    <3>2. Len(work_items_) \in Nat  BY <1>0, LenProperties DEF TypeOK
    <3>3. pos' \in 0..Len(work_items_back_buffer_')  BY <1>8, <3>1, <3>2 DEF Swap
    <3> QED  BY <1>0, <1>8, <3>3 DEF Swap, Goto, TypeOK, Locations, Threads
  <2>2. LockDiscipline'
    BY <1>0, <1>8 DEF Swap, Goto, LockDiscipline, TypeOK, Locked, EnqueueLocked, Threads
  <2>3. Places'
    BY <1>0, <1>8 DEF Swap, Goto, Places, TypeOK, EnqueueLocked, Threads
  <2>4. CallsBounded'
    BY <1>0, <1>8 DEF Swap, Goto, CallsBounded, TypeOK, Threads
  <2>5. BatchEmpty'
    BY <1>0, <1>8 DEF Swap, Goto, BatchEmpty, TypeOK, Threads
  <2>6. SlotThere'
    BY <1>0, <1>8 DEF Swap, Goto, SlotThere, Building, TypeOK, LockDiscipline, Locked, EnqueueLocked, Threads
  <2> QED  BY <2>1, <2>2, <2>3, <2>4, <2>5, <2>6 DEF ControlInv
<1>9. CASE ExecuteUnlock
  <2>1. TypeOK'
    BY <1>0, <1>9 DEF ExecuteUnlock, Goto, queueVars, TypeOK, Locations, Threads, Tasks
  <2>2. LockDiscipline'
    BY <1>0, <1>9 DEF ExecuteUnlock, Goto, queueVars, LockDiscipline, TypeOK, Locked, EnqueueLocked, Threads
  <2>3. Places'
    BY <1>0, <1>9 DEF ExecuteUnlock, Goto, queueVars, Places, TypeOK, EnqueueLocked, Threads
  <2>4. CallsBounded'
    BY <1>0, <1>9 DEF ExecuteUnlock, Goto, queueVars, CallsBounded, TypeOK, Threads
  <2>5. BatchEmpty'
    BY <1>0, <1>9 DEF ExecuteUnlock, Goto, queueVars, BatchEmpty, TypeOK, Threads
  <2>6. SlotThere'
    BY <1>0, <1>9 DEF ExecuteUnlock, Goto, queueVars, SlotThere, Building, TypeOK, LockDiscipline, Locked, EnqueueLocked, Threads
  <2> QED  BY <2>1, <2>2, <2>3, <2>4, <2>5, <2>6 DEF ControlInv
<1>10. CASE StartItem
  <2>1. TypeOK'
    BY <1>0, <1>10 DEF StartItem, Goto, TypeOK, Locations, Threads, Tasks
  <2>2. LockDiscipline'
    BY <1>0, <1>10 DEF StartItem, Goto, LockDiscipline, TypeOK, Locked, EnqueueLocked, Threads
  <2>3. Places'
    BY <1>0, <1>10 DEF StartItem, Goto, Places, TypeOK, EnqueueLocked, Threads
  <2>4. CallsBounded'
    BY <1>0, <1>10 DEF StartItem, Goto, CallsBounded, TypeOK, Threads
  <2>5. BatchEmpty'
    BY <1>0, <1>10 DEF StartItem, Goto, BatchEmpty, TypeOK, Threads
  <2>6. SlotThere'
    BY <1>0, <1>10 DEF StartItem, Goto, SlotThere, Building, TypeOK, LockDiscipline, Locked, EnqueueLocked, Threads
  <2> QED  BY <2>1, <2>2, <2>3, <2>4, <2>5, <2>6 DEF ControlInv
<1>11. CASE FinishItem
  <2>1. TypeOK'
    BY <1>0, <1>11 DEF FinishItem, Goto, queueVars, TypeOK, Locations, Threads, Tasks
  <2>2. LockDiscipline'
    BY <1>0, <1>11 DEF FinishItem, Goto, queueVars, LockDiscipline, TypeOK, Locked, EnqueueLocked, Threads
  <2>3. Places'
    BY <1>0, <1>11 DEF FinishItem, Goto, queueVars, Places, TypeOK, EnqueueLocked, Threads
  <2>4. CallsBounded'
    BY <1>0, <1>11 DEF FinishItem, Goto, queueVars, CallsBounded, TypeOK, Threads
  <2>5. BatchEmpty'
    BY <1>0, <1>11 DEF FinishItem, Goto, queueVars, BatchEmpty, TypeOK, Threads
  <2>6. SlotThere'
    BY <1>0, <1>11 DEF FinishItem, Goto, queueVars, SlotThere, Building, TypeOK, LockDiscipline, Locked, EnqueueLocked, Threads
  <2> QED  BY <2>1, <2>2, <2>3, <2>4, <2>5, <2>6 DEF ControlInv
<1>12. CASE ClearBatch
  <2>1. TypeOK'
    BY <1>0, <1>12 DEF ClearBatch, Goto, TypeOK, Locations, Threads, Tasks
  <2>2. LockDiscipline'
    BY <1>0, <1>12 DEF ClearBatch, Goto, LockDiscipline, TypeOK, Locked, EnqueueLocked, Threads
  <2>3. Places'
    BY <1>0, <1>12 DEF ClearBatch, Goto, Places, TypeOK, EnqueueLocked, Threads
  <2>4. CallsBounded'
    BY <1>0, <1>12 DEF ClearBatch, Goto, CallsBounded, TypeOK, Threads
  <2>5. BatchEmpty'
    BY <1>0, <1>12 DEF ClearBatch, Goto, BatchEmpty, TypeOK, Threads
  <2>6. SlotThere'
    BY <1>0, <1>12 DEF ClearBatch, Goto, SlotThere, Building, TypeOK, LockDiscipline, Locked, EnqueueLocked, Threads
  <2> QED  BY <2>1, <2>2, <2>3, <2>4, <2>5, <2>6 DEF ControlInv
<1>13. CASE UNCHANGED vars
  BY <1>13 DEF vars, ControlInv, TypeOK, LockDiscipline, Places, CallsBounded, BatchEmpty, SlotThere, Building
<1> QED
  BY <1>1, <1>2, <1>3, <1>4, <1>5, <1>6, <1>7, <1>8, <1>9, <1>10, <1>11, <1>12, <1>13 DEF Next, Enqueue, InCall, Execute
-----------------------------------------------------------------------------
\* The lock discipline says that nobody else is in a locked section.
LEMMA OneLocked ==
  ASSUME ControlInv, NEW t \in Threads, pc[t] \in Locked,
         NEW u \in Threads, pc[u] \in Locked
  PROVE  t = u
BY DEF ControlInv, LockDiscipline

\* What DataInv's sequences are, and where the batch ends.
LEMMA Shapes ==
  ASSUME ControlInv
  PROVE  /\ work_items_ \in Seq(Slots) /\ Len(work_items_) \in Nat
         /\ work_items_back_buffer_ \in Seq(Slots)
         /\ Len(work_items_back_buffer_) \in Nat
         /\ executed \in Seq(Slots) /\ enqueued \in Seq(Slots) /\ enqueued \in Seq(Tasks)
         /\ Remaining \in Seq(Slots)
         /\ Ready \in Seq(Slots)
         /\ Waiting \in Seq(Slots)
<1>1. TypeOK /\ SlotThere  BY DEF ControlInv
<1>2. /\ work_items_ \in Seq(Slots) /\ work_items_back_buffer_ \in Seq(Slots)
      /\ executed \in Seq(Slots) /\ enqueued \in Seq(Tasks)
      /\ pos \in 0..Len(work_items_back_buffer_)
  BY <1>1 DEF TypeOK, Slots
<1>3. enqueued \in Seq(Slots)
  BY <1>2, SeqMonotonic DEF Slots
<1>4. Len(work_items_) \in Nat /\ Len(work_items_back_buffer_) \in Nat
  BY <1>2, LenProperties
<1>5. Remaining \in Seq(Slots)
  <2>1. pos + 1 \in Int /\ Len(work_items_back_buffer_) \in Int  BY <1>2, <1>4
  <2>2. \A i \in (pos + 1)..Len(work_items_back_buffer_) : work_items_back_buffer_[i] \in Slots
    <3> TAKE i \in (pos + 1)..Len(work_items_back_buffer_)
    <3>1. i \in 1..Len(work_items_back_buffer_)  BY <1>2, <1>4
    <3> QED  BY <1>2, <3>1, ElementOfSeq
  <2> QED  BY <2>1, <2>2, SubSeqProperties DEF Remaining
<1>6. Ready \in Seq(Slots)
  <2>1. 1 \in Int /\ Len(work_items_) - 1 \in Int  BY <1>4
  <2>2. \A i \in 1..(Len(work_items_) - 1) : work_items_[i] \in Slots
    <3> TAKE i \in 1..(Len(work_items_) - 1)
    <3>1. i \in 1..Len(work_items_)  BY <1>4
    <3> QED  BY <1>2, <3>1, ElementOfSeq
  <2>3. SubSeq(work_items_, 1, Len(work_items_) - 1) \in Seq(Slots)
    BY <2>1, <2>2, SubSeqProperties
  <2> QED  BY <1>2, <2>3 DEF Ready
<1>7. Waiting \in Seq(Slots)
  BY <1>5, <1>6, ConcatProperties DEF Waiting
<1> QED  BY <1>2, <1>3, <1>4, <1>5, <1>6, <1>7

\* A step that moves no thread to or from "assign" and leaves the two vectors
\* and the batch index alone changes nothing of what waits.
LEMMA SameWaiting ==
  ASSUME Building' <=> Building,
         UNCHANGED <<work_items_, work_items_back_buffer_, pos>>
  PROVE  Waiting' = Waiting
BY DEF Waiting, Ready, Remaining, Building
-----------------------------------------------------------------------------
\* DataInv holds initially.
LEMMA DataInit == Init => DataInv
<1> SUFFICES ASSUME Init PROVE DataInv  OBVIOUS
<1>1. OnlyLastBlank /\ NoHalfBuiltTask /\ Numbered
  BY EmptySeq DEF Init, OnlyLastBlank, NoHalfBuiltTask, Numbered
<1>2. ~ \E t \in Threads : pc[t] = "assign"  BY DEF Init
<1>3. Remaining = <<>>
  BY EmptySeq, SubSeqEmpty DEF Init, Remaining
<1>4. Waiting = <<>>
  BY <1>2, <1>3, ConcatEmptySeq, EmptySeq DEF Waiting, Ready, Init
<1>5. ExactlyOnceInOrder
  BY <1>4, ConcatEmptySeq, EmptySeq DEF ExactlyOnceInOrder, Init
<1> QED  BY <1>1, <1>5 DEF DataInv

\* Steps that only take or release the mutex, or end a task, keep DataInv.
LEMMA DataLockStep ==
  ASSUME DataInv, UNCHANGED queueVars, Building' <=> Building
  PROVE  DataInv' /\ Waiting' = Waiting
<1>1. Waiting' = Waiting  BY SameWaiting DEF queueVars
<1> QED
  BY <1>1 DEF DataInv, OnlyLastBlank, NoHalfBuiltTask, ExactlyOnceInOrder, Numbered, queueVars

\* Emplacing adds a slot that does not count as a waiting task yet.
LEMMA DataEmplace ==
  ASSUME ControlInv, DataInv, NEW t \in Threads, Emplace(t)
  PROVE  DataInv' /\ Waiting' = Waiting
<1>1. TypeOK /\ LockDiscipline  BY DEF ControlInv
<1>2. ~Building
  <2> SUFFICES ASSUME NEW u \in Threads, pc[u] = "assign" PROVE FALSE  BY DEF Building
  <2>1. u = t  BY OneLocked DEF Emplace, Locked, EnqueueLocked
  <2> QED  BY <2>1 DEF Emplace
<1>3. Building'  BY <1>1 DEF Building, Emplace, Goto, TypeOK
<1>4. work_items_ \in Seq(Slots) /\ Blank \in Slots  BY Shapes DEF Slots
<1>5. /\ Len(work_items_') = Len(work_items_) + 1
      /\ \A i \in 1..Len(work_items_) : work_items_'[i] = work_items_[i]
      /\ DOMAIN work_items_ = 1..Len(work_items_)
      /\ DOMAIN work_items_' = 1..Len(work_items_')
      /\ Len(work_items_) \in Nat
  BY <1>4, AppendProperties, LenProperties DEF Emplace
<1>6. OnlyLastBlank'
  <2> SUFFICES ASSUME NEW i \in 1..(Len(work_items_) + 1), work_items_'[i] = Blank
               PROVE  i = Len(work_items_) + 1
    BY <1>3, <1>5 DEF OnlyLastBlank
  <2>1. i \notin 1..Len(work_items_)  BY <1>2, <1>5 DEF DataInv, OnlyLastBlank
  <2> QED  BY <1>5, <2>1
<1>7. Ready' = Ready
  <2>1. Ready = work_items_  BY <1>2 DEF Ready, Building
  <2>2. Ready' = SubSeq(work_items_', 1, Len(work_items_') - 1)  BY <1>3 DEF Ready, Building
  <2> QED  BY <1>4, <2>1, <2>2, FrontOfAppend DEF Emplace
<1>8. Waiting' = Waiting  BY <1>7 DEF Waiting, Remaining, Emplace
<1> QED
  BY <1>6, <1>8 DEF DataInv, NoHalfBuiltTask, ExactlyOnceInOrder, Numbered, Emplace

\* Assigning makes the slot a task: the end of what waits, and of `enqueued`.
LEMMA DataAssign ==
  ASSUME ControlInv, ControlInv', DataInv, NEW t \in Threads, Assign(t)
  PROVE  /\ DataInv'
         /\ <<t, calls[t] + 1>> \in Tasks
         /\ Waiting' = Append(Waiting, <<t, calls[t] + 1>>)
<1> DEFINE task == <<t, calls[t] + 1>>
<1>1. TypeOK /\ LockDiscipline /\ SlotThere /\ CallsBounded /\ TypeOK'
  BY DEF ControlInv
<1>2. Building  BY DEF Building, Assign
<1>3. ~Building'
  <2> SUFFICES ASSUME NEW u \in Threads, pc'[u] = "assign" PROVE FALSE  BY DEF Building
  <2>1. pc[u] = "assign" /\ u # t  BY <1>1 DEF Assign, Goto, TypeOK
  <2> QED  BY <2>1, OneLocked DEF Assign, Locked, EnqueueLocked
<1>4. /\ calls[t] \in Nat
      /\ calls[t] + 1 \in 1..MaxTasks
      /\ \A u \in Threads : calls[u] \in Nat
      /\ \A u \in Threads : calls[u] <= calls'[u]
      /\ calls'[t] = calls[t] + 1
  BY <1>1, ExecutorAssumption DEF CallsBounded, TypeOK, Assign
<1>5. task \in Tasks /\ task \in Slots  BY <1>4 DEF Tasks, Slots
<1>6. task # Blank  BY <1>5, ExecutorAssumption
<1>7. /\ work_items_ \in Seq(Slots) /\ Len(work_items_) \in Nat
      /\ Len(work_items_) > 0
      /\ enqueued \in Seq(Tasks) /\ enqueued \in Seq(Slots) /\ executed \in Seq(Slots)
      /\ Remaining \in Seq(Slots) /\ Ready \in Seq(Slots) /\ Waiting \in Seq(Slots)
  BY <1>1, <1>2, Shapes DEF SlotThere
<1>8. Ready' = Append(Ready, task)
  <2>1. Ready = SubSeq(work_items_, 1, Len(work_items_) - 1)  BY <1>2 DEF Ready, Building
  <2>2. Ready' = work_items_'  BY <1>3 DEF Ready, Building
  <2>3. work_items_' = [work_items_ EXCEPT ![Len(work_items_)] = task]  BY DEF Assign
  <2> HIDE DEF task
  <2> QED  BY <1>5, <1>7, <2>1, <2>2, <2>3, ReplaceLast
<1>9. Remaining' = Remaining  BY DEF Remaining, Assign
<1> HIDE DEF task
<1>10. <<task>> \in Seq(Slots)  BY <1>5
<1>11. Waiting' = Append(Waiting, task)
  <2>1. Waiting' = Remaining \o (Ready \o <<task>>)
    BY <1>5, <1>7, <1>8, <1>9, AppendIsConcat DEF Waiting
  <2>2. Waiting' = (Remaining \o Ready) \o <<task>>
    BY <1>7, <1>10, <2>1, ConcatAssociative
  <2> QED  BY <1>5, <1>7, <2>2, AppendIsConcat DEF Waiting
<1>12. ExactlyOnceInOrder'
  <2>1. enqueued' = enqueued \o <<task>>
    BY <1>5, <1>7, AppendIsConcat DEF Assign, task
  <2>2. enqueued = executed \o Waiting  BY DEF DataInv, ExactlyOnceInOrder
  <2>3. enqueued' = executed \o (Waiting \o <<task>>)
    <3>1. PICK u \in Seq(Slots), v \in Seq(Slots), s \in Seq(Slots) :
             u = executed /\ v = Waiting /\ s = <<task>>
      BY <1>7, <1>10
    <3>2. (u \o v) \o s = u \o (v \o s)  BY ConcatAssociative
    <3>3. (executed \o Waiting) \o <<task>> = executed \o (Waiting \o <<task>>)
      BY <3>1, <3>2
    <3> QED  BY <2>1, <2>2, <3>3
  <2>4. enqueued' = executed \o Waiting'
    BY <1>5, <1>7, <1>11, <2>3, AppendIsConcat
  <2>5. executed' = executed  BY DEF Assign
  <2> QED  BY <2>4, <2>5 DEF ExactlyOnceInOrder
<1>13. OnlyLastBlank'
  <2>1. Len(work_items_) \in 1..Len(work_items_)  BY <1>7
  <2>2. /\ Len(work_items_') = Len(work_items_)
        /\ \A i \in 1..Len(work_items_) :
             work_items_'[i] = IF i = Len(work_items_) THEN task ELSE work_items_[i]
        /\ work_items_' \in Seq(Slots)
    BY <1>5, <1>7, <2>1, ExceptSeq DEF Assign, task
  <2>3. DOMAIN work_items_ = 1..Len(work_items_) /\ DOMAIN work_items_' = 1..Len(work_items_)
    BY <1>7, <2>2, LenProperties
  <2> SUFFICES ASSUME NEW i \in 1..Len(work_items_), work_items_'[i] = Blank PROVE FALSE
    BY <2>3 DEF OnlyLastBlank
  <2> QED  BY <1>6, <2>2, <2>3 DEF DataInv, OnlyLastBlank
<1>14. Numbered'
  <2>1. /\ Len(enqueued') = Len(enqueued) + 1
        /\ \A i \in 1..Len(enqueued) : enqueued'[i] = enqueued[i]
        /\ enqueued'[Len(enqueued) + 1] = task
        /\ DOMAIN enqueued = 1..Len(enqueued)
        /\ DOMAIN enqueued' = 1..Len(enqueued')
        /\ Len(enqueued) \in Nat
    BY <1>5, <1>7, AppendProperties, LenProperties DEF Assign, task
  <2> SUFFICES ASSUME NEW i \in 1..(Len(enqueued) + 1)
               PROVE  enqueued'[i][2] <= calls'[enqueued'[i][1]]
    BY <2>1 DEF Numbered
  <2>2. CASE i = Len(enqueued) + 1
    BY <1>4, <2>1, <2>2 DEF task
  <2>3. CASE i \in 1..Len(enqueued)
    <3>1. enqueued[i] \in Tasks  BY <1>7, <2>3, ElementOfSeq
    <3>2. enqueued[i][1] \in Threads /\ enqueued[i][2] \in Nat
      BY <3>1, ExecutorAssumption DEF Tasks
    <3>3. enqueued[i][2] <= calls[enqueued[i][1]]
      BY <2>1, <2>3 DEF DataInv, Numbered
    <3>4. /\ calls[enqueued[i][1]] <= calls'[enqueued[i][1]]
          /\ calls[enqueued[i][1]] \in Nat /\ calls'[enqueued[i][1]] \in Nat
      <4>1. \A u \in Threads : calls[u] <= calls'[u] /\ calls[u] \in Nat /\ calls'[u] \in Nat
        BY <1>1, <1>4, ExecutorAssumption DEF TypeOK
      <4> QED  BY <3>2, <4>1
    <3>5. enqueued[i][2] <= calls'[enqueued[i][1]]  BY <3>2, <3>3, <3>4
    <3> QED  BY <2>1, <2>3, <3>5
  <2> QED  BY <2>1, <2>2, <2>3
<1>15. NoHalfBuiltTask'  BY DEF DataInv, NoHalfBuiltTask, Assign
<1> QED  BY <1>5, <1>11, <1>12, <1>13, <1>14, <1>15 DEF DataInv, task

\* The swap moves what waits from one vector to the other.
LEMMA DataSwap ==
  ASSUME ControlInv, DataInv, Swap
  PROVE  DataInv' /\ Waiting' = Waiting
<1>1. TypeOK /\ LockDiscipline /\ BatchEmpty /\ Worker \in Threads
  BY DEF ControlInv, Threads
<1>2. ~Building
  <2> SUFFICES ASSUME NEW u \in Threads, pc[u] = "assign" PROVE FALSE  BY DEF Building
  <2>1. u = Worker  BY <1>1, OneLocked DEF Swap, Locked, EnqueueLocked
  <2> QED  BY <2>1 DEF Swap
<1>3. ~Building'  BY <1>1, <1>2 DEF Building, Swap, Goto, TypeOK
<1>4. /\ work_items_ \in Seq(Slots) /\ Len(work_items_) \in Nat
      /\ work_items_back_buffer_ = <<>> /\ work_items_' = <<>>
      /\ work_items_back_buffer_' = work_items_
      /\ pos = 0 /\ pos' = 0
  BY <1>1, Shapes DEF BatchEmpty, Swap
<1>5. Remaining = <<>>
  BY <1>4, EmptySeq, SubSeqEmpty DEF Remaining
<1>6. Remaining' = work_items_
  <2>1. Remaining' = SubSeq(work_items_, 1, Len(work_items_))
    BY <1>4 DEF Remaining
  <2> QED  BY <1>4, <2>1, SubSeqFull
<1>7. Ready = work_items_ /\ Ready' = <<>>
  BY <1>2, <1>3, <1>4 DEF Ready, Building
<1>8. Waiting' = Waiting
  BY <1>4, <1>5, <1>6, <1>7, ConcatEmptySeq DEF Waiting
<1>9. NoHalfBuiltTask'
  BY <1>2, <1>4 DEF DataInv, OnlyLastBlank, NoHalfBuiltTask
<1>10. OnlyLastBlank'
  BY <1>4 DEF OnlyLastBlank
<1> QED
  BY <1>8, <1>9, <1>10 DEF DataInv, ExactlyOnceInOrder, Numbered, Swap

\* Starting an item takes the first of what waits.
LEMMA DataStartItem ==
  ASSUME ControlInv, DataInv, StartItem
  PROVE  /\ DataInv'
         /\ Waiting # <<>>
         /\ executed' = Append(executed, Head(Waiting))
         /\ Waiting' = Tail(Waiting)
<1> DEFINE item == work_items_back_buffer_[pos + 1]
           rest == SubSeq(work_items_back_buffer_, pos + 2, Len(work_items_back_buffer_))
<1>1. TypeOK /\ Worker \in Threads  BY DEF ControlInv, Threads
<1>2. /\ work_items_back_buffer_ \in Seq(Slots)
      /\ Len(work_items_back_buffer_) \in Nat
      /\ executed \in Seq(Slots) /\ Remaining \in Seq(Slots) /\ Ready \in Seq(Slots)
      /\ Waiting \in Seq(Slots)
  BY Shapes
<1>3. pos + 1 \in 1..Len(work_items_back_buffer_) /\ pos \in Nat
  BY <1>1, <1>2 DEF TypeOK, StartItem
<1>4. item \in Slots  BY <1>2, <1>3, ElementOfSeq
<1>5. Remaining = <<item>> \o rest
  <2>1. Len(work_items_back_buffer_) \in (pos + 1)..Len(work_items_back_buffer_)
    BY <1>2, <1>3
  <2>2. SubSeq(work_items_back_buffer_, pos + 1, Len(work_items_back_buffer_))
          = <<item>> \o SubSeq(work_items_back_buffer_, pos + 1 + 1, Len(work_items_back_buffer_))
    BY <1>2, <1>3, <2>1, SubSeqRecursiveFirst
  <2>3. pos + 1 + 1 = pos + 2  BY <1>3
  <2> QED  BY <2>2, <2>3 DEF Remaining
<1>6. Remaining' = rest
  <2>1. (pos + 1) + 1 = pos + 2  BY <1>3
  <2> QED  BY <2>1 DEF Remaining, StartItem
<1>7. rest \in Seq(Slots)
  <2>1. \A i \in (pos + 2)..Len(work_items_back_buffer_) : work_items_back_buffer_[i] \in Slots
    <3> TAKE i \in (pos + 2)..Len(work_items_back_buffer_)
    <3>1. i \in 1..Len(work_items_back_buffer_)  BY <1>2, <1>3
    <3> QED  BY <1>2, <3>1, ElementOfSeq
  <2>2. pos + 2 \in Int /\ Len(work_items_back_buffer_) \in Int  BY <1>2, <1>3
  <2> QED  BY <2>1, <2>2, SubSeqProperties
<1>8. Ready' = Ready
  BY <1>1 DEF Ready, StartItem, Goto, TypeOK
<1> HIDE DEF item, rest
<1>9. <<item>> \in Seq(Slots) /\ Len(<<item>>) = 1 /\ <<item>>[1] = item  BY <1>4
<1>10. Waiting = <<item>> \o Waiting'
  <2>1. (<<item>> \o rest) \o Ready = <<item>> \o (rest \o Ready)
    BY <1>2, <1>7, <1>9, ConcatAssociative
  <2> QED  BY <1>5, <1>6, <1>8, <2>1 DEF Waiting
<1>11. Waiting' \in Seq(Slots)
  BY <1>2, <1>6, <1>7, <1>8, ConcatProperties DEF Waiting
<1> DEFINE w == Waiting'
<1>12. w \in Seq(Slots) /\ Waiting = <<item>> \o w  BY <1>10, <1>11
<1> HIDE DEF w
<1>13. Waiting # <<>> /\ Head(Waiting) = item /\ Tail(Waiting) = w
  <2>1. /\ Len(Waiting) = 1 + Len(w)
        /\ \A i \in 1..(1 + Len(w)) : Waiting[i] = IF i <= 1 THEN item ELSE w[i - 1]
        /\ Len(w) \in Nat
    BY <1>9, <1>12, ConcatProperties, LenProperties
  <2>2. Waiting # <<>>  BY <2>1, EmptySeq
  <2>3. Head(Waiting) = item  BY <1>2, <2>1, <2>2
  <2>4. /\ Tail(Waiting) \in Seq(Slots) /\ Len(Tail(Waiting)) = Len(Waiting) - 1
        /\ \A i \in 1..Len(Tail(Waiting)) : Tail(Waiting)[i] = Waiting[i + 1]
    BY <1>2, <2>2, HeadTailProperties
  <2>5. Len(Tail(Waiting)) = Len(w)  BY <2>1, <2>4
  <2>6. \A i \in 1..Len(w) : Tail(Waiting)[i] = w[i]
    <3> TAKE i \in 1..Len(w)
    <3>1. i + 1 \in 1..(1 + Len(w)) /\ ~(i + 1 <= 1) /\ i + 1 - 1 = i  BY <2>1
    <3>2. Waiting[i + 1] = w[i]  BY <2>1, <3>1
    <3> QED  BY <2>4, <2>5, <3>2
  <2>7. Tail(Waiting) = w  BY <1>12, <2>4, <2>5, <2>6, SeqEqual
  <2> QED  BY <2>2, <2>3, <2>7
<1>14. ExactlyOnceInOrder'
  <2>1. executed' = executed \o <<item>>
    BY <1>2, <1>4, AppendIsConcat DEF StartItem, item
  <2>2. enqueued = executed \o (<<item>> \o w)
    BY <1>12 DEF DataInv, ExactlyOnceInOrder
  <2>3. (executed \o <<item>>) \o w = executed \o (<<item>> \o w)
    BY <1>2, <1>9, <1>12, ConcatAssociative
  <2>4. enqueued' = enqueued  BY DEF StartItem
  <2> QED  BY <2>1, <2>2, <2>3, <2>4 DEF ExactlyOnceInOrder, w
<1>15. OnlyLastBlank' /\ NoHalfBuiltTask' /\ Numbered'
  BY <1>1 DEF DataInv, OnlyLastBlank, NoHalfBuiltTask, Numbered, StartItem, Goto, Building, TypeOK
<1> QED  BY <1>13, <1>14, <1>15 DEF DataInv, StartItem, item, w

\* Clearing drops only items that were started.
LEMMA DataClearBatch ==
  ASSUME ControlInv, DataInv, ClearBatch
  PROVE  DataInv' /\ Waiting' = Waiting
<1>1. TypeOK /\ Worker \in Threads  BY DEF ControlInv, Threads
<1>2. Len(work_items_back_buffer_) \in Nat  BY Shapes
<1>3. Remaining = <<>>
  <2>1. pos + 1 \in Int /\ Len(work_items_back_buffer_) < pos + 1  BY <1>2 DEF ClearBatch
  <2> QED  BY <1>2, <2>1, SubSeqEmpty DEF Remaining
<1>4. Remaining' = <<>>
  BY EmptySeq, SubSeqEmpty DEF Remaining, ClearBatch
<1>5. Building' <=> Building
  BY <1>1 DEF Building, ClearBatch, Goto, TypeOK
<1>6. Ready' = Ready  BY <1>5 DEF Ready, ClearBatch, Building
<1>7. Waiting' = Waiting  BY <1>3, <1>4, <1>6 DEF Waiting
<1> QED
  BY <1>5, <1>7, EmptySeq
  DEF DataInv, OnlyLastBlank, NoHalfBuiltTask, ExactlyOnceInOrder, Numbered, ClearBatch
-----------------------------------------------------------------------------
\* The task that is assigned was not enqueued before.
LEMMA Fresh ==
  ASSUME ControlInv, DataInv, NEW t \in Threads
  PROVE  <<t, calls[t] + 1>> \notin WQ!Issued
<1> DEFINE task == <<t, calls[t] + 1>>
<1>1. /\ executed \in Seq(Slots) /\ Waiting \in Seq(Slots)
      /\ enqueued \in Seq(Slots)
      /\ enqueued = executed \o Waiting
      /\ calls[t] \in Nat
  BY Shapes, ExecutorAssumption DEF DataInv, ExactlyOnceInOrder, ControlInv, TypeOK
<1>2. /\ Len(executed) \in Nat /\ Len(Waiting) \in Nat
      /\ DOMAIN executed = 1..Len(executed)
      /\ DOMAIN Waiting = 1..Len(Waiting)
      /\ DOMAIN enqueued = 1..Len(enqueued)
      /\ Len(enqueued) = Len(executed) + Len(Waiting)
      /\ \A i \in 1..(Len(executed) + Len(Waiting)) :
           enqueued[i] = IF i <= Len(executed) THEN executed[i] ELSE Waiting[i - Len(executed)]
  BY <1>1, LenProperties, ConcatProperties
<1>3. \A i \in DOMAIN enqueued : enqueued[i] # task
  <2> SUFFICES ASSUME NEW i \in DOMAIN enqueued, enqueued[i] = task PROVE FALSE  OBVIOUS
  <2>1. enqueued[i][2] <= calls[enqueued[i][1]]  BY DEF DataInv, Numbered
  <2>2. calls[t] + 1 <= calls[t]  BY <2>1
  <2> QED  BY <1>1, <2>2
<1> HIDE DEF task
<1>4. \A i \in DOMAIN executed : executed[i] # task
  <2> TAKE i \in DOMAIN executed
  <2>1. i \in DOMAIN enqueued /\ enqueued[i] = executed[i]  BY <1>2
  <2> QED  BY <1>3, <2>1
<1>5. \A i \in DOMAIN Waiting : Waiting[i] # task
  <2> TAKE i \in DOMAIN Waiting
  <2>1. /\ Len(executed) + i \in 1..(Len(executed) + Len(Waiting))
        /\ ~(Len(executed) + i <= Len(executed))
        /\ Len(executed) + i - Len(executed) = i
    BY <1>2
  <2>2. enqueued[Len(executed) + i] = Waiting[i]  BY <1>2, <2>1
  <2>3. Len(executed) + i \in DOMAIN enqueued  BY <1>2, <2>1
  <2> QED  BY <1>3, <2>2, <2>3
<1> QED  BY <1>4, <1>5 DEF WQ!Issued, task

\* Every step keeps DataInv and is a step or a stutter of WorkQueue.
LEMMA DataStep ==
  ASSUME ControlInv, DataInv, [Next]_vars
  PROVE  DataInv' /\ [WQ!WQNext]_(WQ!wqVars)
<1> DEFINE Stutter == DataInv' /\ Waiting' = Waiting /\ executed' = executed
<1>0. ControlInv'  BY ControlStep
<1>1. TypeOK /\ Worker \in Threads  BY DEF ControlInv, Threads
<1>2. ASSUME NEW t \in Threads, EnqueueTryLock(t) PROVE Stutter
  <2>1. Building' <=> Building
    BY <1>1, <1>2 DEF Building, EnqueueTryLock, TryLock, Goto, Home, TypeOK
  <2> QED  BY <1>2, <2>1, DataLockStep DEF EnqueueTryLock, queueVars
<1>3. ASSUME NEW t \in Threads, EnqueueLock(t) PROVE Stutter
  <2>1. Building' <=> Building
    BY <1>1, <1>3 DEF Building, EnqueueLock, Lock, Goto, TypeOK
  <2> QED  BY <1>3, <2>1, DataLockStep DEF EnqueueLock, queueVars
<1>4. ASSUME NEW t \in Threads, Emplace(t) PROVE Stutter
  BY <1>4, DataEmplace DEF Emplace
<1>5. ASSUME NEW t \in Threads, Assign(t) PROVE DataInv' /\ WQ!WQEnqueue
  BY <1>0, <1>5, DataAssign, Fresh DEF WQ!WQEnqueue, Assign
<1>6. ASSUME NEW t \in Threads, EnqueueUnlock(t) PROVE Stutter
  <2>1. Building' <=> Building
    BY <1>1, <1>6 DEF Building, EnqueueUnlock, Goto, Home, TypeOK
  <2> QED  BY <1>6, <2>1, DataLockStep DEF EnqueueUnlock, queueVars
<1>7. CASE ExecuteTryLock
  <2>1. Building' <=> Building
    BY <1>1, <1>7 DEF Building, ExecuteTryLock, TryLock, Goto, TypeOK
  <2>2. Stutter  BY <1>7, <2>1, DataLockStep DEF ExecuteTryLock, queueVars
  <2> QED  BY <2>2 DEF WQ!wqVars
<1>8. CASE ExecuteLock
  <2>1. Building' <=> Building
    BY <1>1, <1>8 DEF Building, ExecuteLock, Lock, Goto, TypeOK
  <2>2. Stutter  BY <1>8, <2>1, DataLockStep DEF ExecuteLock, queueVars
  <2> QED  BY <2>2 DEF WQ!wqVars
<1>9. CASE Swap
  BY <1>9, DataSwap DEF Swap, WQ!wqVars
<1>10. CASE ExecuteUnlock
  <2>1. Building' <=> Building
    BY <1>1, <1>10 DEF Building, ExecuteUnlock, Goto, TypeOK
  <2>2. Stutter  BY <1>10, <2>1, DataLockStep DEF ExecuteUnlock, queueVars
  <2> QED  BY <2>2 DEF WQ!wqVars
<1>11. CASE StartItem
  BY <1>11, DataStartItem DEF WQ!WQNext, WQ!WQRun
<1>12. CASE FinishItem
  <2>1. Building' <=> Building
    BY <1>1, <1>12 DEF Building, FinishItem, Goto, TypeOK
  <2>2. Stutter  BY <1>12, <2>1, DataLockStep DEF FinishItem, queueVars
  <2> QED  BY <2>2 DEF WQ!wqVars
<1>13. CASE ClearBatch
  BY <1>13, DataClearBatch DEF ClearBatch, WQ!wqVars
<1>14. CASE UNCHANGED vars
  <2>1. UNCHANGED queueVars /\ (Building' <=> Building)
    BY <1>14 DEF vars, queueVars, Building
  <2>2. Stutter  BY <2>1, DataLockStep DEF queueVars
  <2> QED  BY <2>2 DEF WQ!wqVars
<1>15. ASSUME NEW t \in Threads, Enqueue(t) PROVE DataInv' /\ [WQ!WQNext]_(WQ!wqVars)
  <2>1. CASE Assign(t)  BY <1>5, <2>1 DEF WQ!WQNext
  <2>2. CASE Stutter  BY <2>2 DEF WQ!wqVars
  <2> HIDE DEF Stutter
  <2> QED  BY <1>2, <1>3, <1>4, <1>6, <1>15, <2>1, <2>2 DEF Enqueue, InCall
<1> HIDE DEF Stutter
<1>16. CASE Execute
  BY <1>7, <1>8, <1>9, <1>10, <1>11, <1>12, <1>13, <1>16 DEF Execute
<1> QED  BY <1>14, <1>15, <1>16 DEF Next
-----------------------------------------------------------------------------
\* IInv is inductive.
LEMMA Inductive == Spec => []IInv
<1>1. Init => IInv  BY ControlInit, DataInit DEF IInv
<1>2. IInv /\ [Next]_vars => IInv'
  BY ControlStep, DataStep DEF IInv
<1> QED  BY <1>1, <1>2, PTL DEF Spec, SafeSpec

\* The fields of the executor keep their types and the loop over the batch
\* stays inside it, for any number of producers.
THEOREM TypeCorrect == Spec => []TypeOK
<1>1. IInv => TypeOK  BY DEF IInv, ControlInv
<1> QED  BY <1>1, Inductive, PTL

\* The mutex protects the two vectors: whoever is between lock and unlock holds
\* it, and a task never runs under it.
THEOREM LockDisciplineHolds == Spec => []LockDiscipline
<1>1. IInv => LockDiscipline  BY DEF IInv, ControlInv
<1> QED  BY <1>1, Inductive, PTL

\* The worker's batch holds only tasks with their function and data.
THEOREM NoHalfBuiltTaskRuns == Spec => []NoHalfBuiltTask
<1>1. IInv => NoHalfBuiltTask  BY DEF IInv, DataInv
<1> QED  BY <1>1, Inductive, PTL

\* Nothing enqueued is lost, run twice or run out of order.
THEOREM RunsExactlyOnceInOrder == Spec => []ExactlyOnceInOrder
<1>1. IInv => ExactlyOnceInOrder  BY DEF IInv, DataInv
<1> QED  BY <1>1, Inductive, PTL

\* The safety part of ImplementsWorkQueue: every behaviour of the executor is
\* one of the work queue.
THEOREM SafetyRefinement == Spec => WQ!WQSafeSpec
<1>1. Init => WQ!WQInit
  <2> SUFFICES ASSUME Init PROVE WQ!WQInit  OBVIOUS
  <2>1. ~ \E t \in Threads : pc[t] = "assign"  BY DEF Init
  <2>2. Remaining = <<>>  BY EmptySeq, SubSeqEmpty DEF Init, Remaining
  <2>3. Waiting = <<>>
    BY <2>1, <2>2, ConcatEmptySeq, EmptySeq DEF Waiting, Ready, Init
  <2> QED  BY <2>3 DEF WQ!WQInit, Init
<1>2. IInv /\ [Next]_vars => [WQ!WQNext]_(WQ!wqVars)
  BY DataStep DEF IInv
<1> QED  BY <1>1, <1>2, Inductive, PTL DEF Spec, SafeSpec, WQ!WQSafeSpec
=============================================================================
