--------------------------- MODULE SyncQueryProofs ---------------------------
(* Proofs about SyncQuery for any number of components, executors and threads *)
(* and calls of any depth, whoever may call whom. The lock of a component     *)
(* counts the frames that entered with it, so two threads in such frames of   *)
(* one component cannot be. LockCountsQueries becomes inductive with FreeLock: *)
(* a lock nobody owns was released as often as it was taken. Threads do not   *)
(* wait in a circle if the locks are taken in one order (LocksInOrder):       *)
(* OrderInv follows what every frame of a stack holds.                        *)
EXTENDS SyncQuery, FiniteSetTheorems, SequenceTheorems, TLAPS

AnyFrame == [in : Components, locked : BOOLEAN]

\* the frames of a stack that are f
Entered(s, f) == {i \in 1..Len(s) : s[i] = f}

\* how many there are
Number(s, f) == Cardinality(Entered(s, f))

\* the stack after a call
Plus(g, s) == <<g>> \o s

FreeLock == \A c \in Components : owner[c] = None <=> count[c] = 0

IInv == TypeOK /\ FreeLock /\ LockCountsQueries
-----------------------------------------------------------------------------
\* A stack has finitely many frames of a kind.
LEMMA EnteredFinite ==
  ASSUME NEW s \in Seq(AnyFrame), NEW f
  PROVE  IsFiniteSet(Entered(s, f)) /\ Cardinality(Entered(s, f)) \in Nat
<1>1. Len(s) \in Nat  BY LenProperties
<1>2. IsFiniteSet(1..Len(s))  BY <1>1, FS_Interval
<1>3. Entered(s, f) \in SUBSET (1..Len(s))  BY DEF Entered
<1>4. IsFiniteSet(Entered(s, f))  BY <1>2, <1>3, FS_Subset
<1> QED  BY <1>4, FS_CardinalityType

\* A stack r that is s with one frame more has as many frames f, or one more.
LEMMA OneMore ==
  ASSUME NEW s \in Seq(AnyFrame), NEW r \in Seq(AnyFrame), NEW f,
         Len(r) = Len(s) + 1, \A i \in 1..Len(s) : r[i + 1] = s[i]
  PROVE  /\ r[1] = f => Number(r, f) = Number(s, f) + 1
         /\ r[1] # f => Number(r, f) = Number(s, f)
<1> DEFINE E == Entered(s, f)
           T == Entered(r, f) \ {1}
           g == [i \in E |-> i + 1]
<1>1. Len(s) \in Nat /\ Len(r) \in Nat  BY LenProperties
<1>2. g \in Bijection(E, T)
  <2>1. \A i \in E : i \in 1..Len(s) /\ s[i] = f  BY DEF Entered
  <2>2. \A i \in E : g[i] \in T
    <3> SUFFICES ASSUME NEW i \in E PROVE i + 1 \in T  OBVIOUS
    <3>1. i \in 1..Len(s) /\ r[i + 1] = f  BY <2>1
    <3>2. i + 1 \in 1..Len(r) /\ i + 1 # 1  BY <1>1, <3>1
    <3> QED  BY <3>1, <3>2 DEF Entered
  <2>3. \A i, j \in E : g[i] = g[j] => i = j
    BY <1>1, <2>1
  <2>4. \A j \in T : \E i \in E : g[i] = j
    <3> SUFFICES ASSUME NEW j \in T PROVE \E i \in E : g[i] = j  OBVIOUS
    <3>1. j \in 1..Len(r) /\ r[j] = f /\ j # 1  BY DEF Entered
    <3>2. j - 1 \in 1..Len(s) /\ (j - 1) + 1 = j  BY <1>1, <3>1
    <3>3. s[j - 1] = f  BY <3>1, <3>2
    <3>4. j - 1 \in E  BY <3>2, <3>3 DEF Entered
    <3> QED  BY <3>2, <3>4
  <2>5. g \in [E -> T]  BY <2>2
  <2> HIDE DEF g, E, T
  <2> QED  BY <2>3, <2>4, <2>5 DEF Bijection, Injection, Surjection, IsInjective
<1>3. IsFiniteSet(E) /\ Cardinality(E) \in Nat  BY EnteredFinite
<1>4. Cardinality(T) = Cardinality(E)
  <2>1. ExistsBijection(E, T)  BY <1>2 DEF ExistsBijection
  <2> HIDE DEF E, T
  <2> QED  BY <1>3, <2>1, FS_Bijection
<1>5. /\ IsFiniteSet(Entered(r, f)) /\ Cardinality(Entered(r, f)) \in Nat
  BY EnteredFinite
<1>6. 1 \in Entered(r, f) <=> r[1] = f
  BY <1>1 DEF Entered
<1>7. Cardinality(T) = IF 1 \in Entered(r, f) THEN Cardinality(Entered(r, f)) - 1
                                             ELSE Cardinality(Entered(r, f))
  BY <1>5, FS_RemoveElement
<1> HIDE DEF E, T
<1> QED  BY <1>3, <1>4, <1>5, <1>6, <1>7 DEF E, Number

\* A stack with another frame on it.
LEMMA PlusIs ==
  ASSUME NEW s \in Seq(AnyFrame), NEW g \in AnyFrame
  PROVE  /\ Plus(g, s) \in Seq(AnyFrame) /\ Len(Plus(g, s)) = Len(s) + 1 /\ Plus(g, s)[1] = g
         /\ \A i \in 1..Len(s) : Plus(g, s)[i + 1] = s[i]
<1> DEFINE r == <<g>> \o s
<1>1. <<g>> \in Seq(AnyFrame) /\ Len(<<g>>) = 1 /\ <<g>>[1] = g  OBVIOUS
<1>2. /\ r \in Seq(AnyFrame) /\ Len(r) = 1 + Len(s)
      /\ \A i \in 1..(1 + Len(s)) : r[i] = IF i <= 1 THEN <<g>>[i] ELSE s[i - 1]
  BY <1>1, ConcatProperties
<1>3. Len(s) \in Nat  BY LenProperties
<1> HIDE DEF r
<1>4. Len(r) = Len(s) + 1 /\ r[1] = g  BY <1>1, <1>2, <1>3
<1>5. \A i \in 1..Len(s) : r[i + 1] = s[i]
  <2> SUFFICES ASSUME NEW i \in 1..Len(s) PROVE r[i + 1] = s[i]  OBVIOUS
  <2>1. i + 1 \in 1..(1 + Len(s)) /\ ~(i + 1 <= 1) /\ (i + 1) - 1 = i  BY <1>3
  <2> QED  BY <1>2, <2>1
<1> QED  BY <1>2, <1>4, <1>5 DEF r, Plus

\* A frame is pushed.
LEMMA Pushed ==
  ASSUME NEW s \in Seq(AnyFrame), NEW g \in AnyFrame, NEW f
  PROVE  /\ Plus(g, s) \in Seq(AnyFrame)
         /\ g = f => Number(Plus(g, s), f) = Number(s, f) + 1
         /\ g # f => Number(Plus(g, s), f) = Number(s, f)
<1>1. PICK r \in Seq(AnyFrame) : /\ r = Plus(g, s) /\ Len(r) = Len(s) + 1 /\ r[1] = g
                                 /\ \A i \in 1..Len(s) : r[i + 1] = s[i]
  BY PlusIs
<1> QED  BY <1>1, OneMore

\* A frame is popped.
LEMMA Popped ==
  ASSUME NEW s \in Seq(AnyFrame), s # << >>, NEW f
  PROVE  /\ Tail(s) \in Seq(AnyFrame) /\ Head(s) \in AnyFrame
         /\ Head(s) = f => Number(s, f) = Number(Tail(s), f) + 1
         /\ Head(s) # f => Number(s, f) = Number(Tail(s), f)
<1> DEFINE r == Tail(s)
           g == Head(s)
<1>1. /\ g \in AnyFrame /\ r \in Seq(AnyFrame) /\ Len(r) = Len(s) - 1
      /\ \A i \in 1..Len(r) : r[i] = s[i + 1]
  BY HeadTailProperties
<1>2. Len(s) \in Nat /\ g = s[1]  BY LenProperties
<1> HIDE DEF r, g
<1>3. Len(s) = Len(r) + 1  BY <1>1, <1>2
<1>4. /\ g = f => Number(s, f) = Number(r, f) + 1
      /\ g # f => Number(s, f) = Number(r, f)
  BY <1>1, <1>2, <1>3, OneMore
<1> QED  BY <1>1, <1>4 DEF r, g
-----------------------------------------------------------------------------
\* LockCountsQueries, of one component and one thread.
Counts(c, t) == Number(stack[t], Frame(c, TRUE)) =
                   IF owner[c] = t THEN count[c] ELSE 0

\* LockCountsQueries says Counts of each component and thread.
LEMMA CountsQueries == LockCountsQueries <=> \A c \in Components, t \in Threads : Counts(c, t)
BY DEF LockCountsQueries, Counts, Number, Entered

\* A frame that was not entered with a lock counts for nothing.
LEMMA PushUnlocked ==
  ASSUME IInv, NEW t \in Threads, NEW c \in Components, Push(t, Frame(c, FALSE)),
         UNCHANGED <<owner, count, want, looking>>
  PROVE  IInv'
<1>1. /\ stack \in [Threads -> Seq(AnyFrame)] /\ Frame(c, FALSE) \in AnyFrame
      /\ stack' = [stack EXCEPT ![t] = Plus(Frame(c, FALSE), stack[t])]
  BY DEF IInv, TypeOK, AnyFrame, Frame, Push, Plus
<1>2. stack' \in [Threads -> Seq(AnyFrame)]
  BY <1>1, Pushed
<1>3. TypeOK' /\ FreeLock'
  BY <1>2 DEF IInv, TypeOK, FreeLock, AnyFrame
<1>4. ASSUME NEW d \in Components, NEW u \in Threads PROVE Counts(d, u)'
  <2>1. Counts(d, u)  BY CountsQueries DEF IInv
  <2>2. CASE u # t  BY <1>1, <2>1, <2>2 DEF Counts
  <2>3. CASE u = t
    <3>1. Frame(c, FALSE) # Frame(d, TRUE)  BY DEF Frame
    <3>2. /\ stack[t] \in Seq(AnyFrame) /\ stack'[t] = Plus(Frame(c, FALSE), stack[t])
      BY <1>1
    <3>3. Number(stack[t], Frame(d, TRUE)) \in Nat  BY <3>2, EnteredFinite DEF Number
    <3>4. /\ Frame(c, FALSE) = Frame(d, TRUE) => Number(stack'[t], Frame(d, TRUE)) =
                                                 Number(stack[t], Frame(d, TRUE)) + 1
          /\ Frame(c, FALSE) # Frame(d, TRUE) => Number(stack'[t], Frame(d, TRUE)) =
                                                 Number(stack[t], Frame(d, TRUE))
      <4> DEFINE g == Frame(c, FALSE)
                 f == Frame(d, TRUE)
      <4>1. g \in AnyFrame /\ stack'[t] = Plus(g, stack[t])  BY <1>1, <3>2
      <4> HIDE DEF g, f
      <4>2. /\ g = f => Number(Plus(g, stack[t]), f) = Number(stack[t], f) + 1
            /\ g # f => Number(Plus(g, stack[t]), f) = Number(stack[t], f)
        BY <3>2, <4>1, Pushed
      <4> QED  BY <4>1, <4>2 DEF g, f
    <3>5. Number(stack'[t], Frame(d, TRUE)) = Number(stack[t], Frame(d, TRUE))
      BY <3>1, <3>2, <3>3, <3>4
    <3> QED  BY <2>1, <2>3, <3>5 DEF Counts
  <2> QED  BY <2>2, <2>3
<1>5. LockCountsQueries'
  BY <1>4 DEF LockCountsQueries, Counts, Number, Entered
<1> QED  BY <1>3, <1>5 DEF IInv

\* A thread gets the lock it has waited for.
LEMMA EnterStep ==
  ASSUME IInv, NEW t \in Threads, Enter(t)
  PROVE  IInv'
<1> DEFINE c == want[t]
<1> USE SyncQueryAssumption
<1>0. TypeOK /\ FreeLock  BY DEF IInv
<1>1. c \in Components /\ owner[c] \in {None, t}  BY <1>0 DEF Enter, TypeOK
<1>2. /\ owner' = [owner EXCEPT ![c] = t] /\ count' = [count EXCEPT ![c] = count[c] + 1]
      /\ want' = [want EXCEPT ![t] = None] /\ UNCHANGED looking
      /\ stack' = [stack EXCEPT ![t] = Plus(Frame(c, TRUE), stack[t])]
  BY DEF Enter, Push, Plus
<1> HIDE DEF c
<1>3. stack \in [Threads -> Seq(AnyFrame)] /\ Frame(c, TRUE) \in AnyFrame
  BY <1>0, <1>1 DEF TypeOK, AnyFrame, Frame
<1>4. stack' \in [Threads -> Seq(AnyFrame)]  BY <1>2, <1>3, Pushed
<1>5. /\ owner' \in [Components -> Threads \cup {None}] /\ count' \in [Components -> Nat]
      /\ owner'[c] = t /\ count'[c] = count[c] + 1 /\ count[c] \in Nat
      /\ \A d \in Components : d # c => owner'[d] = owner[d] /\ count'[d] = count[d]
  BY <1>0, <1>1, <1>2 DEF TypeOK
<1>6. TypeOK'  BY <1>0, <1>2, <1>4, <1>5 DEF TypeOK, AnyFrame
<1>7. FreeLock'  BY <1>0, <1>1, <1>5 DEF FreeLock
<1>8. ASSUME NEW d \in Components, NEW u \in Threads PROVE Counts(d, u)'
  <2>1. Counts(d, u)  BY CountsQueries DEF IInv
  <2>2. CASE u # t
    <3>1. stack'[u] = stack[u]  BY <1>2, <1>3, <2>2
    <3>2. CASE d # c  BY <1>5, <2>1, <3>1, <3>2 DEF Counts
    <3>3. CASE d = c
      <4>1. owner[c] # u /\ owner'[c] # u  BY <1>1, <1>5, <2>2
      <4> QED  BY <2>1, <3>1, <3>3, <4>1 DEF Counts
    <3> QED  BY <3>2, <3>3
  <2>3. CASE u = t
    <3>1. Frame(c, TRUE) = Frame(d, TRUE) <=> c = d  BY DEF Frame
    <3>2. /\ stack[t] \in Seq(AnyFrame) /\ stack'[t] = Plus(Frame(c, TRUE), stack[t])
      BY <1>2, <1>3
    <3>3. Number(stack[t], Frame(d, TRUE)) \in Nat  BY <3>2, EnteredFinite DEF Number
    <3>4. /\ Frame(c, TRUE) = Frame(d, TRUE) => Number(stack'[t], Frame(d, TRUE)) =
                                                 Number(stack[t], Frame(d, TRUE)) + 1
          /\ Frame(c, TRUE) # Frame(d, TRUE) => Number(stack'[t], Frame(d, TRUE)) =
                                                 Number(stack[t], Frame(d, TRUE))
      <4> DEFINE g == Frame(c, TRUE)
                 f == Frame(d, TRUE)
      <4>1. g \in AnyFrame /\ stack'[t] = Plus(g, stack[t])  BY <1>3, <3>2
      <4> HIDE DEF g, f
      <4>2. /\ g = f => Number(Plus(g, stack[t]), f) = Number(stack[t], f) + 1
            /\ g # f => Number(Plus(g, stack[t]), f) = Number(stack[t], f)
        BY <3>2, <4>1, Pushed
      <4> QED  BY <4>1, <4>2 DEF g, f
    <3>5. CASE d # c  BY <1>5, <2>1, <2>3, <3>1, <3>2, <3>3, <3>4, <3>5 DEF Counts
    <3>6. CASE d = c
      <4>1. Number(stack[t], Frame(c, TRUE)) = count[c]
        BY <1>0, <1>1, <2>1, <2>3, <3>6 DEF Counts, FreeLock
      <4> QED  BY <1>5, <2>3, <3>1, <3>2, <3>4, <3>6, <4>1 DEF Counts
    <3> QED  BY <3>5, <3>6
  <2> QED  BY <2>2, <2>3
<1>9. LockCountsQueries'  BY <1>8 DEF LockCountsQueries, Counts, Number, Entered
<1> QED  BY <1>6, <1>7, <1>9 DEF IInv

\* The frames that were entered with a lock are told apart by their component.
LEMMA FrameIs ==
  ASSUME NEW f \in AnyFrame
  PROVE  \A d \in Components : f = Frame(d, TRUE) <=> f.locked /\ f.in = d
<1> SUFFICES ASSUME NEW d \in Components PROVE f = Frame(d, TRUE) <=> f.locked /\ f.in = d
  OBVIOUS
<1>1. f = [in |-> f.in, locked |-> f.locked] /\ f.locked \in BOOLEAN  BY DEF AnyFrame
<1>2. Frame(d, TRUE).in = d /\ Frame(d, TRUE).locked = TRUE  BY DEF Frame
<1>3. f = Frame(d, TRUE) => f.locked /\ f.in = d  BY <1>2
<1>4. ASSUME f.locked, f.in = d PROVE f = Frame(d, TRUE)
  <2>1. f.locked = TRUE  BY <1>1, <1>4
  <2> QED  BY <1>1, <1>4, <2>1 DEF Frame
<1> QED  BY <1>3, <1>4

\* A call returns, and gives the lock back if it was the outermost with it.
LEMMA ReturnStep ==
  ASSUME IInv, NEW t \in Threads, Return(t)
  PROVE  IInv'
<1> DEFINE f == Head(stack[t])
           c == f.in
<1> USE SyncQueryAssumption
<1>0. TypeOK /\ FreeLock  BY DEF IInv
<1>1. /\ stack[t] # << >> /\ stack' = [stack EXCEPT ![t] = Tail(stack[t])] /\ UNCHANGED <<want, looking>>
      /\ f.locked => /\ count' = [count EXCEPT ![c] = count[c] - 1]
                     /\ owner' = [owner EXCEPT ![c] = IF count[c] = 1 THEN None ELSE owner[c]]
      /\ ~f.locked => UNCHANGED <<owner, count>>
  BY DEF Return, Top
<1>2. stack \in [Threads -> Seq(AnyFrame)] /\ stack[t] \in Seq(AnyFrame)
  BY <1>0 DEF TypeOK, AnyFrame
<1>3. f \in AnyFrame /\ Tail(stack[t]) \in Seq(AnyFrame)  BY <1>1, <1>2, Popped
<1>4. stack' \in [Threads -> Seq(AnyFrame)] /\ stack'[t] = Tail(stack[t])
  BY <1>1, <1>2, <1>3
<1>5. ASSUME NEW d \in Components
      PROVE  /\ Number(stack'[t], Frame(d, TRUE)) \in Nat
             /\ f = Frame(d, TRUE) => Number(stack[t], Frame(d, TRUE)) =
                                         Number(stack'[t], Frame(d, TRUE)) + 1
             /\ f # Frame(d, TRUE) => Number(stack[t], Frame(d, TRUE)) =
                                         Number(stack'[t], Frame(d, TRUE))
  BY <1>1, <1>2, <1>3, <1>4, EnteredFinite, Popped DEF Number
<1>6. /\ c \in Components /\ f.locked \in BOOLEAN
      /\ \A d \in Components : f = Frame(d, TRUE) <=> f.locked /\ d = c
  BY <1>3, FrameIs DEF AnyFrame
<1> HIDE DEF f, c
<1>7. CASE f.locked
  <2>1. Counts(c, t)  BY <1>6, CountsQueries DEF IInv
  <2>2. /\ f = Frame(c, TRUE) /\ count[c] \in Nat
    BY <1>0, <1>6, <1>7 DEF TypeOK
  <2> DEFINE m == Number(stack[t], Frame(c, TRUE))
             n == Number(stack'[t], Frame(c, TRUE))
  <2>3. owner[c] = t /\ count[c] = n + 1 /\ n \in Nat
    <3>1. m = n + 1 /\ n \in Nat  BY <1>5, <1>6, <2>2
    <3>2. m = IF owner[c] = t THEN count[c] ELSE 0  BY <2>1 DEF Counts
    <3> HIDE DEF m, n
    <3> QED  BY <3>1, <3>2
  <2> HIDE DEF n
  <2>4. /\ owner' \in [Components -> Threads \cup {None}] /\ count' \in [Components -> Nat]
        /\ owner'[c] = (IF count[c] = 1 THEN None ELSE t) /\ count'[c] = count[c] - 1
        /\ \A d \in Components : d # c => owner'[d] = owner[d] /\ count'[d] = count[d]
    <3>1. count[c] - 1 \in Nat  BY <2>3
    <3>2. /\ count' = [count EXCEPT ![c] = count[c] - 1]
          /\ owner' = [owner EXCEPT ![c] = IF count[c] = 1 THEN None ELSE owner[c]]
      BY <1>1, <1>7
    <3> QED  BY <1>0, <1>6, <2>3, <3>1, <3>2 DEF TypeOK
  <2>5. TypeOK'  BY <1>0, <1>1, <1>4, <2>4 DEF TypeOK, AnyFrame
  <2>6. FreeLock'  BY <1>0, <1>6, <2>2, <2>4 DEF FreeLock
  <2>7. ASSUME NEW d \in Components, NEW u \in Threads PROVE Counts(d, u)'
    <3>1. Counts(d, u)  BY CountsQueries DEF IInv
    <3>2. CASE u # t
      <4>1. stack'[u] = stack[u]  BY <1>1, <1>2, <3>2
      <4>2. owner[c] # u /\ owner'[c] # u  BY <2>3, <2>4, <3>2
      <4>3. CASE d # c  BY <2>4, <3>1, <4>1, <4>3 DEF Counts
      <4>4. CASE d = c  BY <3>1, <4>1, <4>2, <4>4 DEF Counts
      <4> QED  BY <4>3, <4>4
    <3>3. CASE u = t /\ d # c
      <4>1. Number(stack'[t], Frame(d, TRUE)) = Number(stack[t], Frame(d, TRUE))
        BY <1>5, <1>6, <3>3
      <4> QED  BY <2>4, <3>1, <3>3, <4>1 DEF Counts
    <3>4. CASE u = t /\ d = c
      <4>1. n = count'[c]  BY <2>3, <2>4
      <4>2. owner'[c] # t => count'[c] = 0  BY <2>2, <2>4
      <4> QED  BY <3>4, <4>1, <4>2 DEF Counts, n
    <3> QED  BY <3>2, <3>3, <3>4
  <2>8. LockCountsQueries'  BY <2>7 DEF LockCountsQueries, Counts, Number, Entered
  <2> QED  BY <2>5, <2>6, <2>8 DEF IInv
<1>8. CASE ~f.locked
  <2>1. UNCHANGED <<owner, count, want, looking>>  BY <1>1, <1>8
  <2>2. TypeOK' /\ FreeLock'  BY <1>0, <1>4, <2>1 DEF TypeOK, FreeLock, AnyFrame
  <2>3. ASSUME NEW d \in Components, NEW u \in Threads PROVE Counts(d, u)'
    <3>1. Counts(d, u)  BY CountsQueries DEF IInv
    <3>2. Number(stack'[u], Frame(d, TRUE)) = Number(stack[u], Frame(d, TRUE))
      <4>1. CASE u # t  BY <1>1, <1>2, <4>1
      <4>2. CASE u = t  BY <1>5, <1>6, <1>8, <4>2
      <4> QED  BY <4>1, <4>2
    <3> QED  BY <2>1, <3>1, <3>2 DEF Counts
  <2>4. LockCountsQueries'  BY <2>3 DEF LockCountsQueries, Counts, Number, Entered
  <2> QED  BY <2>2, <2>4 DEF IInv
<1> QED  BY <1>7, <1>8

\* Nothing happens to frames and locks.
LEMMA Unchanged ==
  ASSUME FreeLock, LockCountsQueries, UNCHANGED <<stack, owner, count>>
  PROVE  FreeLock' /\ LockCountsQueries'
<1>1. \A c \in Components, t \in Threads : Counts(c, t)'
  BY CountsQueries DEF Counts
<1>2. LockCountsQueries'  BY <1>1 DEF LockCountsQueries, Counts, Number, Entered
<1> QED  BY <1>2 DEF FreeLock

\* A query or a lookup begins to wait for the lock, or a lookup is done.
LEMMA WantStep ==
  ASSUME IInv, NEW t \in Threads, NEW to \in Components \cup {None},
         want' = [want EXCEPT ![t] = to], looking' \subseteq Threads,
         UNCHANGED <<stack, owner, count>>
  PROVE  IInv'
<1>1. UNCHANGED <<stack, owner, count>> /\ want' = [want EXCEPT ![t] = to]
  OBVIOUS
<1>2. TypeOK'  BY <1>1 DEF IInv, TypeOK
<1>3. FreeLock' /\ LockCountsQueries'  BY <1>1, Unchanged DEF IInv
<1> QED  BY <1>2, <1>3 DEF IInv

\* Nothing has begun.
LEMMA InitInv == Init => IInv
<1> SUFFICES ASSUME Init PROVE IInv  OBVIOUS
<1>1. \A t \in Threads : stack[t] = << >>  BY DEF Init
<1>2. TypeOK  BY DEF Init, TypeOK
<1>3. FreeLock  BY DEF Init, FreeLock
<1>4. LockCountsQueries
  <2> SUFFICES ASSUME NEW c \in Components, NEW t \in Threads
               PROVE  Cardinality({i \in 1..Len(stack[t]) : stack[t][i] = Frame(c, TRUE)}) =
                         IF owner[c] = t THEN count[c] ELSE 0
    BY DEF LockCountsQueries
  <2>1. {i \in 1..Len(stack[t]) : stack[t][i] = Frame(c, TRUE)} = {}
    <3>1. 1..Len(stack[t]) = {}  BY <1>1
    <3> QED  BY <3>1
  <2>2. count[c] = 0  BY DEF Init
  <2> QED  BY <2>1, <2>2, FS_EmptySet
<1> QED  BY <1>2, <1>3, <1>4 DEF IInv

\* IInv holds in every state.
THEOREM Inductive == Spec => []IInv
<1>1. ASSUME IInv, [Next]_vars PROVE IInv'
  <2>1. ASSUME NEW t \in Threads, NEW comp \in Components, Update(t, comp) PROVE IInv'
    BY <1>1, <2>1, PushUnlocked DEF Update
  <2>2. ASSUME NEW t \in Threads, NEW from \in Components, NEW to \in Components,
               CallDirect(t, from, to)
        PROVE  IInv'
    BY <1>1, <2>2, PushUnlocked DEF CallDirect
  <2>3. CASE UNCHANGED vars
    <3>1. TypeOK'  BY <1>1, <2>3 DEF vars, IInv, TypeOK
    <3>2. FreeLock' /\ LockCountsQueries'  BY <1>1, <2>3, Unchanged DEF vars, IInv
    <3> QED  BY <3>1, <3>2 DEF IInv
  <2>4. ASSUME NEW t \in Threads, NEW from \in Components, NEW to \in Components,
               Lookup(t, from, to) \/ CallLocking(t, from, to)
        PROVE  IInv'
    <3>1. looking' \subseteq Threads  BY <1>1, <2>4 DEF Lookup, CallLocking, IInv, TypeOK
    <3> QED  BY <1>1, <2>4, <3>1, WantStep DEF Lookup, CallLocking
  <2>5. ASSUME NEW t \in Threads, LookedUp(t) PROVE IInv'
    <3>1. looking' \subseteq Threads  BY <1>1, <2>5 DEF LookedUp, IInv, TypeOK
    <3> QED  BY <1>1, <2>5, <3>1, WantStep DEF LookedUp
  <2> QED  BY <1>1, <2>1, <2>2, <2>3, <2>4, <2>5, EnterStep, ReturnStep DEF Next
<1> QED  BY <1>1, InitInv, PTL DEF Spec

\* Types of the fields.
THEOREM TypeCorrect == Spec => []TypeOK
<1>1. IInv => TypeOK  BY DEF IInv
<1> QED  BY <1>1, Inductive, PTL

\* sync_query.h:74: the lock_guards of nested calls and the recursive lock agree, so
\* that an inner return does not release the lock of an outer call.
THEOREM LockCountsQueriesHolds == Spec => []LockCountsQueries
<1>1. IInv => LockCountsQueries  BY DEF IInv
<1> QED  BY <1>1, Inductive, PTL

\* README: "Sync queries are direct invocation and lock the target component": no two
\* threads are in queries of a component that entered with its lock.
THEOREM LockedQueriesExcludeHolds == Spec => []LockedQueriesExclude
<1>1. IInv => LockedQueriesExclude
  <2> SUFFICES ASSUME IInv, NEW c \in Components, NEW t \in Threads, NEW u \in Threads,
                      Frame(c, TRUE) \in Frames(t), Frame(c, TRUE) \in Frames(u)
               PROVE  t = u
    BY DEF LockedQueriesExclude
  <2>1. ASSUME NEW v \in Threads, Frame(c, TRUE) \in Frames(v) PROVE owner[c] = v
    <3>1. stack[v] \in Seq(AnyFrame)  BY DEF IInv, TypeOK, AnyFrame
    <3>2. Entered(stack[v], Frame(c, TRUE)) # {}  BY <2>1 DEF Entered, Frames
    <3>3. Number(stack[v], Frame(c, TRUE)) # 0
      BY <3>1, <3>2, EnteredFinite, FS_EmptySet DEF Number
    <3>4. Counts(c, v)  BY CountsQueries DEF IInv
    <3> QED  BY <3>3, <3>4 DEF Counts
  <2> QED  BY <2>1
<1> QED  BY <1>1, Inductive, PTL
-----------------------------------------------------------------------------
\* NoWaitCycle: the locks a thread has are those its frames entered with.

\* the locks that the frames of a stack from the i-th on have entered with
LocksFrom(s, i) == {c \in Components : \E j \in i..Len(s) : s[j] = Frame(c, TRUE)}

\* Each frame of a stack runs with the locks it may run with.
HoldsAsPlanned(Holding, s) == \A i \in 1..Len(s) : <<s[i].in, LocksFrom(s, i)>> \in Holding

\* Who waits for a lock is inside the code that wants it.
WantsToCall(t) == want[t] # None =>
    /\ stack[t] # << >>
    /\ <<Top(t).in, want[t]>> \in References
    /\ t \notin looking =>
          <<Top(t).in, want[t]>> \in Queries /\ ~mutual_executor(Top(t).in, want[t])

OrderInv(Holding) ==
    /\ \A t \in Threads : HoldsAsPlanned(Holding, stack[t]) /\ WantsToCall(t)
    /\ \A t \in looking : want[t] # None

\* The locks of a stack r that is s with one frame more.
LEMMA LocksOfMore ==
  ASSUME NEW s \in Seq(AnyFrame), NEW r \in Seq(AnyFrame),
         Len(r) = Len(s) + 1, \A i \in 1..Len(s) : r[i + 1] = s[i]
  PROVE  /\ \A i \in 1..Len(s) : LocksFrom(r, i + 1) = LocksFrom(s, i)
         /\ LocksFrom(r, 1) = LocksFrom(s, 1) \cup {c \in Components : r[1] = Frame(c, TRUE)}
<1>1. Len(s) \in Nat /\ Len(r) \in Nat  BY LenProperties
<1>2. ASSUME NEW i \in Nat \ {0}, NEW c \in Components
      PROVE  (\E j \in (i + 1)..Len(r) : r[j] = Frame(c, TRUE))
                <=> \E j \in i..Len(s) : s[j] = Frame(c, TRUE)
  <2>1. ASSUME NEW j \in (i + 1)..Len(r) PROVE j - 1 \in i..Len(s) /\ r[j] = s[j - 1]
    <3>1. j - 1 \in i..Len(s) /\ j - 1 \in 1..Len(s) /\ (j - 1) + 1 = j  BY <1>1
    <3> QED  BY <3>1
  <2>2. ASSUME NEW j \in i..Len(s) PROVE j + 1 \in (i + 1)..Len(r) /\ r[j + 1] = s[j]
    BY <1>1
  <2> QED  BY <2>1, <2>2
<1>3. \A i \in 1..Len(s) : LocksFrom(r, i + 1) = LocksFrom(s, i)
  <2> SUFFICES ASSUME NEW i \in 1..Len(s) PROVE LocksFrom(r, i + 1) = LocksFrom(s, i)
    OBVIOUS
  <2>1. i \in Nat \ {0}  BY <1>1
  <2>2. \A c \in Components : (\E j \in (i + 1)..Len(r) : r[j] = Frame(c, TRUE))
                                 <=> \E j \in i..Len(s) : s[j] = Frame(c, TRUE)
    BY <1>2, <2>1
  <2> QED  BY <2>2 DEF LocksFrom
<1>4. ASSUME NEW c \in Components
      PROVE  (\E j \in 1..Len(r) : r[j] = Frame(c, TRUE))
                <=> (\E j \in 1..Len(s) : s[j] = Frame(c, TRUE)) \/ r[1] = Frame(c, TRUE)
  <2>1. 1..Len(r) = {1} \cup 2..Len(r)  BY <1>1
  <2>2. 1 \in Nat \ {0} /\ 1 + 1 = 2  OBVIOUS
  <2>3. (\E j \in 2..Len(r) : r[j] = Frame(c, TRUE))
           <=> \E j \in 1..Len(s) : s[j] = Frame(c, TRUE)
    BY <1>2, <2>2
  <2> QED  BY <2>1, <2>3
<1> QED  BY <1>3, <1>4 DEF LocksFrom

\* A frame is pushed that may run with the locks there are then.
LEMMA PushPlanned ==
  ASSUME NEW Holding, NEW s \in Seq(AnyFrame), NEW g \in AnyFrame,
         HoldsAsPlanned(Holding, s),
         <<g.in, LocksFrom(s, 1) \cup {c \in Components : g = Frame(c, TRUE)}>> \in Holding
  PROVE  HoldsAsPlanned(Holding, Plus(g, s))
<1> DEFINE r == Plus(g, s)
<1>1. /\ r \in Seq(AnyFrame) /\ Len(r) = Len(s) + 1 /\ r[1] = g
      /\ \A i \in 1..Len(s) : r[i + 1] = s[i]
  BY PlusIs
<1>2. Len(s) \in Nat  BY LenProperties
<1> HIDE DEF r
<1>3. /\ \A i \in 1..Len(s) : LocksFrom(r, i + 1) = LocksFrom(s, i)
      /\ LocksFrom(r, 1) = LocksFrom(s, 1) \cup {c \in Components : r[1] = Frame(c, TRUE)}
  BY <1>1, LocksOfMore
<1>4. ASSUME NEW k \in 1..Len(r) PROVE <<r[k].in, LocksFrom(r, k)>> \in Holding
  <2>1. CASE k = 1  BY <1>1, <1>3, <2>1
  <2>2. CASE k # 1
    <3>1. k - 1 \in 1..Len(s) /\ (k - 1) + 1 = k  BY <1>1, <1>2, <2>2
    <3>2. r[k] = s[k - 1] /\ LocksFrom(r, k) = LocksFrom(s, k - 1)  BY <1>1, <1>3, <3>1
    <3> QED  BY <3>1, <3>2 DEF HoldsAsPlanned
  <2> QED  BY <2>1, <2>2
<1>5. HoldsAsPlanned(Holding, r)  BY <1>4 DEF HoldsAsPlanned
<1> QED  BY <1>5 DEF r

\* A frame is popped.
LEMMA PopPlanned ==
  ASSUME NEW Holding, NEW s \in Seq(AnyFrame), s # << >>, HoldsAsPlanned(Holding, s)
  PROVE  HoldsAsPlanned(Holding, Tail(s))
<1> DEFINE r == Tail(s)
<1>1. /\ r \in Seq(AnyFrame) /\ Len(r) = Len(s) - 1
      /\ \A i \in 1..Len(r) : r[i] = s[i + 1]
  BY HeadTailProperties
<1>2. Len(s) \in Nat /\ Len(r) \in Nat  BY <1>1, LenProperties
<1> HIDE DEF r
<1>3. Len(s) = Len(r) + 1 /\ \A i \in 1..Len(r) : s[i + 1] = r[i]  BY <1>1, <1>2
<1>4. \A i \in 1..Len(r) : LocksFrom(s, i + 1) = LocksFrom(r, i)
  BY <1>1, <1>3, LocksOfMore
<1>5. \A i \in 1..Len(r) : i + 1 \in 1..Len(s)  BY <1>2, <1>3
<1>6. HoldsAsPlanned(Holding, r)  BY <1>3, <1>4, <1>5 DEF HoldsAsPlanned
<1> QED  BY <1>6 DEF r

\* Nobody runs at first.
LEMMA OrderInit == ASSUME NEW Holding, Init PROVE OrderInv(Holding)
<1>1. ASSUME NEW t \in Threads PROVE HoldsAsPlanned(Holding, stack[t])
  <2>1. stack[t] = << >>  BY DEF Init
  <2>2. 1..Len(stack[t]) = {}  BY <2>1
  <2> QED  BY <2>2 DEF HoldsAsPlanned
<1> QED  BY <1>1 DEF Init, OrderInv, WantsToCall

\* A call puts a frame on a stack whose thread waits for nothing any more.
LEMMA CallInOrder ==
  ASSUME TypeOK, NEW Holding, OrderInv(Holding), NEW t \in Threads, NEW g \in AnyFrame,
         Push(t, g), want'[t] = None, \A u \in Threads : u # t => want'[u] = want[u],
         looking' = looking, t \notin looking,
         <<g.in, LocksFrom(stack[t], 1) \cup {c \in Components : g = Frame(c, TRUE)}>> \in Holding
  PROVE  OrderInv(Holding)'
<1>1. stack \in [Threads -> Seq(AnyFrame)]  BY DEF TypeOK, AnyFrame
<1>2. stack'[t] = Plus(g, stack[t]) /\ \A u \in Threads : u # t => stack'[u] = stack[u]
  BY <1>1 DEF Push, Plus
<1>3. HoldsAsPlanned(Holding, stack'[t])  BY <1>1, <1>2, PushPlanned DEF OrderInv
<1>4. ASSUME NEW u \in Threads PROVE HoldsAsPlanned(Holding, stack'[u]) /\ WantsToCall(u)'
  <2>1. CASE u = t  BY <1>3, <2>1 DEF WantsToCall
  <2>2. CASE u # t  BY <1>2, <2>2 DEF OrderInv, WantsToCall, Top
  <2> QED  BY <2>1, <2>2
<1>5. \A u \in looking' : want'[u] # None  BY DEF OrderInv, TypeOK
<1> QED  BY <1>4, <1>5 DEF OrderInv

\* What runs on a thread runs with the locks the thread has.
LEMMA TopPlanned ==
  ASSUME TypeOK, NEW Holding, OrderInv(Holding), NEW t \in Threads, stack[t] # << >>
  PROVE  Top(t).in \in Components /\ <<Top(t).in, LocksFrom(stack[t], 1)>> \in Holding
<1>1. stack[t] \in Seq(AnyFrame)  BY DEF TypeOK, AnyFrame
<1>2. Top(t) = stack[t][1] /\ Top(t) \in AnyFrame /\ 1 \in 1..Len(stack[t])
  BY <1>1, HeadTailProperties, LenProperties, EmptySeq DEF Top
<1> QED  BY <1>2 DEF OrderInv, HoldsAsPlanned, AnyFrame

\* What LocksInOrder says of a lookup ...
LEMMA LocksPlanned ==
  ASSUME NEW Before, NEW Holding, LocksInOrder(Before, Holding),
         NEW from \in Components, NEW to \in Components, NEW locks \in SUBSET Components,
         <<from, to>> \in References, <<from, locks>> \in Holding
  PROVE  to \in locks \/ \A c \in locks : <<c, to>> \in Before
BY DEF LocksInOrder

\* ... and of a query.
LEMMA CallsPlanned ==
  ASSUME NEW Before, NEW Holding, LocksInOrder(Before, Holding),
         NEW from \in Components, NEW to \in Components, NEW locks \in SUBSET Components,
         <<from, to>> \in Queries, <<from, locks>> \in Holding
  PROVE  <<to, IF mutual_executor(from, to) THEN locks ELSE locks \cup {to}>> \in Holding
BY SyncQueryAssumption DEF LocksInOrder

\* Every step keeps the frames among those of the plan.
LEMMA OrderNext ==
  ASSUME NEW Before, NEW Holding, LocksInOrder(Before, Holding), TypeOK, OrderInv(Holding),
         [Next]_vars
  PROVE  OrderInv(Holding)'
<1> USE SyncQueryAssumption
<1>1. \A c \in Components, b \in BOOLEAN :
         Frame(c, b) \in AnyFrame /\ Frame(c, b).in = c
         /\ {d \in Components : Frame(c, b) = Frame(d, TRUE)} = IF b THEN {c} ELSE {}
  BY DEF Frame, AnyFrame
<1>2. \A t \in Threads : LocksFrom(stack[t], 1) \in SUBSET Components  BY DEF LocksFrom
<1>3. ASSUME NEW t \in Threads, NEW comp \in Components, Update(t, comp)
      PROVE  OrderInv(Holding)'
  <2>1. stack[t] = << >> /\ comp \in Active /\ Push(t, Frame(comp, FALSE))
        /\ UNCHANGED <<want, looking>>
    BY <1>3 DEF Update
  <2>2. want[t] = None /\ t \notin looking  BY <2>1 DEF OrderInv, WantsToCall
  <2>3. LocksFrom(stack[t], 1) = {}
    <3>1. 1..Len(stack[t]) = {}  BY <2>1
    <3> QED  BY <3>1 DEF LocksFrom
  <2>4. <<comp, {}>> \in Holding  BY <2>1 DEF LocksInOrder
  <2>5. /\ Frame(comp, FALSE) \in AnyFrame /\ Frame(comp, FALSE).in = comp
        /\ {d \in Components : Frame(comp, FALSE) = Frame(d, TRUE)} = {}
    BY <1>1
  <2>6. <<Frame(comp, FALSE).in, LocksFrom(stack[t], 1)
             \cup {d \in Components : Frame(comp, FALSE) = Frame(d, TRUE)}>> \in Holding
    BY <2>3, <2>4, <2>5
  <2> QED  BY <2>1, <2>2, <2>5, <2>6, CallInOrder
<1>4. ASSUME NEW t \in Threads, NEW from \in Components, NEW to \in Components,
             CallDirect(t, from, to)
      PROVE  OrderInv(Holding)'
  <2>1. /\ <<from, to>> \in Queries /\ mutual_executor(from, to) /\ stack[t] # << >>
        /\ want[t] = None /\ Top(t).in = from /\ Push(t, Frame(to, FALSE))
        /\ UNCHANGED <<want, looking>>
    BY <1>4 DEF CallDirect, Called, Runs
  <2>2. <<from, LocksFrom(stack[t], 1)>> \in Holding  BY <2>1, TopPlanned
  <2>3. <<to, LocksFrom(stack[t], 1)>> \in Holding  BY <1>2, <2>1, <2>2, CallsPlanned
  <2>6. t \notin looking  BY <2>1 DEF OrderInv
  <2>4. /\ Frame(to, FALSE) \in AnyFrame /\ Frame(to, FALSE).in = to
        /\ {d \in Components : Frame(to, FALSE) = Frame(d, TRUE)} = {}
    BY <1>1
  <2>5. <<Frame(to, FALSE).in, LocksFrom(stack[t], 1)
             \cup {d \in Components : Frame(to, FALSE) = Frame(d, TRUE)}>> \in Holding
    BY <2>3, <2>4
  <2> QED  BY <2>1, <2>4, <2>5, <2>6, CallInOrder
<1>5. ASSUME NEW t \in Threads, NEW from \in Components, NEW to \in Components,
             Lookup(t, from, to) \/ CallLocking(t, from, to)
      PROVE  OrderInv(Holding)'
  <2>1. /\ <<from, to>> \in References /\ stack[t] # << >> /\ want[t] = None
        /\ Top(t).in = from /\ want' = [want EXCEPT ![t] = to] /\ UNCHANGED stack
        /\ \/ looking' = looking \cup {t}
           \/ looking' = looking /\ <<from, to>> \in Queries /\ ~mutual_executor(from, to)
    BY <1>5 DEF Lookup, CallLocking, Called, Runs
  <2>2. \A u \in Threads : WantsToCall(u)'
    BY <2>1 DEF OrderInv, WantsToCall, Top, TypeOK
  <2>3. \A u \in looking' : want'[u] # None
    BY <2>1 DEF OrderInv, TypeOK
  <2> QED  BY <2>1, <2>2, <2>3 DEF OrderInv
<1>9. ASSUME NEW t \in Threads, LookedUp(t) PROVE OrderInv(Holding)'
  <2>1. /\ want' = [want EXCEPT ![t] = None] /\ looking' = looking \ {t} /\ UNCHANGED stack
    BY <1>9 DEF LookedUp
  <2>2. \A u \in Threads : WantsToCall(u)'
    BY <2>1 DEF OrderInv, WantsToCall, Top, TypeOK
  <2>3. \A u \in looking' : want'[u] # None
    BY <2>1 DEF OrderInv, TypeOK
  <2> QED  BY <2>1, <2>2, <2>3 DEF OrderInv
<1>6. ASSUME NEW t \in Threads, Enter(t) PROVE OrderInv(Holding)'
  <2>1. PICK to \in Components : to = want[t] /\ to # None  BY <1>6 DEF Enter, TypeOK
  <2>2. /\ Push(t, Frame(to, TRUE)) /\ want' = [want EXCEPT ![t] = None]
        /\ t \notin looking /\ looking' = looking
    BY <1>6, <2>1 DEF Enter
  <2>3. /\ stack[t] # << >>
        /\ <<Top(t).in, to>> \in Queries /\ ~mutual_executor(Top(t).in, to)
    BY <2>1, <2>2 DEF OrderInv, WantsToCall
  <2>4. Top(t).in \in Components /\ <<Top(t).in, LocksFrom(stack[t], 1)>> \in Holding
    BY <2>3, TopPlanned
  <2>5. <<to, LocksFrom(stack[t], 1) \cup {to}>> \in Holding
    <3>1. PICK from \in Components, locks \in SUBSET Components :
             from = Top(t).in /\ locks = LocksFrom(stack[t], 1)
      BY <1>2, <2>4
    <3>2. <<from, to>> \in Queries /\ <<from, locks>> \in Holding /\ ~mutual_executor(from, to)
      BY <2>3, <2>4, <3>1
    <3>3. <<to, locks \cup {to}>> \in Holding  BY <3>2, CallsPlanned
    <3> QED  BY <3>1, <3>3
  <2>6. /\ Frame(to, TRUE) \in AnyFrame /\ Frame(to, TRUE).in = to
        /\ {d \in Components : Frame(to, TRUE) = Frame(d, TRUE)} = {to}
    BY <1>1
  <2>7. <<Frame(to, TRUE).in, LocksFrom(stack[t], 1)
             \cup {d \in Components : Frame(to, TRUE) = Frame(d, TRUE)}>> \in Holding
    BY <2>5, <2>6
  <2>8. want'[t] = None /\ \A u \in Threads : u # t => want'[u] = want[u]
    BY <2>2 DEF TypeOK
  <2> QED  BY <2>2, <2>6, <2>7, <2>8, CallInOrder
<1>7. ASSUME NEW t \in Threads, Return(t) PROVE OrderInv(Holding)'
  <2>1. stack \in [Threads -> Seq(AnyFrame)]  BY DEF TypeOK, AnyFrame
  <2>2. /\ stack[t] # << >> /\ want[t] = None /\ UNCHANGED <<want, looking>>
        /\ stack' = [stack EXCEPT ![t] = Tail(stack[t])]
    BY <1>7 DEF Return
  <2>3. HoldsAsPlanned(Holding, Tail(stack[t]))  BY <2>1, <2>2, PopPlanned DEF OrderInv
  <2>4. ASSUME NEW u \in Threads PROVE HoldsAsPlanned(Holding, stack'[u]) /\ WantsToCall(u)'
    <3>1. CASE u = t  BY <2>1, <2>2, <2>3, <3>1 DEF WantsToCall
    <3>2. CASE u # t  BY <2>1, <2>2, <3>2 DEF OrderInv, WantsToCall, Top
    <3> QED  BY <3>1, <3>2
  <2> QED  BY <2>2, <2>4 DEF OrderInv
<1>8. CASE UNCHANGED vars  BY <1>8 DEF vars, OrderInv, WantsToCall, Top
<1> QED  BY <1>3, <1>4, <1>5, <1>6, <1>7, <1>8, <1>9 DEF Next

\* A thread has the locks of its frames, and no others.
LEMMA OwnsWhatItEntered ==
  ASSUME IInv, NEW t \in Threads, NEW c \in Components
  PROVE  owner[c] = t <=> c \in LocksFrom(stack[t], 1)
<1>1. stack[t] \in Seq(AnyFrame) /\ count[c] \in Nat  BY DEF IInv, TypeOK, AnyFrame
<1>2. Entered(stack[t], Frame(c, TRUE)) = {} <=> Number(stack[t], Frame(c, TRUE)) = 0
  BY <1>1, EnteredFinite, FS_EmptySet DEF Number
<1>3. Entered(stack[t], Frame(c, TRUE)) # {} <=> c \in LocksFrom(stack[t], 1)
  BY DEF Entered, LocksFrom
<1>4. Number(stack[t], Frame(c, TRUE)) = IF owner[c] = t THEN count[c] ELSE 0
  BY CountsQueries DEF IInv, Counts
<1>5. owner[c] = t => count[c] # 0  BY SyncQueryAssumption DEF IInv, FreeLock
<1> QED  BY <1>2, <1>3, <1>4, <1>5

\* Synchronous queries and the lookups before them do not deadlock, however deep the
\* calls are and whatever threads there are, when the locks are taken in one order --
\* those the thread has already excepted, as they are recursive.
THEOREM NoWaitCycleHolds ==
  ASSUME NEW CONSTANT Before, NEW CONSTANT Holding, LocksInOrder(Before, Holding)
  PROVE  Spec => []NoWaitCycle
<1>1. ASSUME IInv, OrderInv(Holding) PROVE NoWaitCycle
  <2> SUFFICES ASSUME NEW W \in SUBSET Waiting, W # {}, \A t \in W : owner[want[t]] \in W
               PROVE  FALSE
    BY DEF NoWaitCycle
  <2>1. ASSUME NEW t \in W
        PROVE  /\ t \in Threads /\ want[t] \in Components
               /\ owner[want[t]] # t /\ owner[want[t]] \in W
    BY <1>1 DEF Waiting, IInv, TypeOK
  <2>2. PICK t \in W : \A u \in W : <<want[t], want[u]>> \notin Before
    <3> DEFINE S == {want[t] : t \in W}
    <3>1. S \in SUBSET Components /\ S # {}  BY <2>1
    <3>2. PICK c \in S : \A d \in S : <<c, d>> \notin Before  BY <3>1 DEF LocksInOrder
    <3> QED  BY <3>2
  <2>3. PICK u \in W : u = owner[want[t]]  BY <2>1
  <2>4. want[t] \in LocksFrom(stack[u], 1) /\ want[u] \notin LocksFrom(stack[u], 1)
    BY <1>1, <2>1, <2>3, OwnsWhatItEntered
  <2>5. /\ stack[u] # << >> /\ want[u] # None
        /\ <<Top(u).in, want[u]>> \in References
    BY <1>1, <2>1 DEF OrderInv, WantsToCall, Waiting
  <2>6. Top(u).in \in Components /\ <<Top(u).in, LocksFrom(stack[u], 1)>> \in Holding
    BY <1>1, <2>1, <2>5, TopPlanned DEF IInv
  <2>7. \A c \in LocksFrom(stack[u], 1) : <<c, want[u]>> \in Before
    <3>1. LocksFrom(stack[u], 1) \in SUBSET Components  BY DEF LocksFrom
    <3>2. PICK from \in Components, to \in Components, locks \in SUBSET Components :
             from = Top(u).in /\ to = want[u] /\ locks = LocksFrom(stack[u], 1)
      BY <2>1, <2>6, <3>1
    <3>3. <<from, to>> \in References /\ <<from, locks>> \in Holding
      BY <2>5, <2>6, <3>2
    <3>4. to \in locks \/ \A c \in locks : <<c, to>> \in Before  BY <3>3, LocksPlanned
    <3> QED  BY <2>4, <3>2, <3>4
  <2> QED  BY <2>2, <2>4, <2>7
<1>2. Init => OrderInv(Holding)  BY OrderInit
<1>3. IInv /\ OrderInv(Holding) /\ [Next]_vars => OrderInv(Holding)'
  BY OrderNext DEF IInv
<1> QED  BY <1>1, <1>2, <1>3, Inductive, PTL DEF Spec
=============================================================================
