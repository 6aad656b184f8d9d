--------------------------- MODULE AsyncQueryProofs ---------------------------
(* Proofs about AsyncQuery for any number of components, executors, threads   *)
(* and calls, whoever calls whom, however deep the calls are.                 *)
(*                                                                            *)
(* IInv says where the right to invoke the callback of a call is: a call that *)
(* goes through queues is at one stage only -- its request is queued, its     *)
(* callback_result is live, a work item has captured it, its frame is on the  *)
(* stack, it was used -- and the steps take it from one stage to the next. Of *)
(* a direct call, the frames that have the right are counted.                 *)
(*                                                                            *)
(* KInv says that nothing gets lost: calls and answers are on their way, have  *)
(* arrived, or have nobody to arrive at.                                      *)
(*                                                                            *)
(* OInv says where frames are, and needs that the queries of a component are  *)
(* published on executors of the component's own thread (OwnThread). Without  *)
(* it a component runs on two threads, and the one may reset a lifetime       *)
(* between the check and the invocation the other makes.                      *)
EXTENDS AsyncQuery, FiniteSetTheorems, SequenceTheorems, TLAPS

\* the code of components, and the steps of callback_result that still may invoke
CodeAt == {"update", "handler", "callback"}
WaitAt == {"response", "checked"}

Frames == [at: {"update"}, of: Components]
          \cup [at: {"handler", "callback", "response", "checked", "enqueued"}, of: Sent]
Items == [task: {"request", "response"}, call: Sent, live: BOOLEAN]

CodeOf(F) == {f \in F : f.at \in CodeAt}

\* A stack of frames of F: below the running frame there is only code of components.
Layered(F) == {s \in Seq(F) : s # << >> => Tail(s) \in Seq(CodeOf(F))}
Stacked(st, F) == \A t \in Threads : st[t] \in Layered(F[t])

\* thread -> the frames it may have: a request or an answer that was queued comes out
\* of the queue on the thread of the executor
FramesOf == [t \in Threads |-> {f \in Frames :
    /\ f.at = "handler" /\ ~mutual_executor(f.of) => t = Thread[receiver_executor(f.of)]
    /\ f.at \in WaitAt \cup {"callback"} /\ ~mutual_executor(f.of) => t = Home(Sender[f.of])}]

\* executor -> the items it may have: only calls between executors are queued
ItemsOf == [e \in Executors |-> {x \in Items :
    /\ ~mutual_executor(x.call)
    /\ x.task = "request" => x.live /\ e = receiver_executor(x.call)
    /\ x.task = "response" => e = DefaultExecutor[Sender[x.call]]}]

\* x is in the sequence s; it is there once at most
Has(s, x) == \E i \in 1..Len(s) : s[i] = x
Once(s, x) == \A i, j \in 1..Len(s) : s[i] = x /\ s[j] = x => i = j

\* the threads that are about to invoke the callback of c
Waits(s, c) == s # << >> /\ Head(s).at \in WaitAt /\ Head(s).of = c
Waiting(c) == {t \in Threads : Waits(stack[t], c)}

\* the stages of a call that goes through queues
Requests(c) == queue[receiver_executor(c)]
Responses(c) == queue[DefaultExecutor[Sender[c]]]
Queued(c) == Has(Requests(c), Request(c))
Live(c) == result[c] = "live"
Answered(c) == Has(Responses(c), Response(c, TRUE))
Arrived(c) == Waits(stack[Home(Sender[c])], c)
Delivered(c) == delivered[c] # 0

OneStage(c) ==
    /\ Queued(c) => ~Live(c) /\ ~Answered(c) /\ ~Arrived(c) /\ ~Delivered(c)
    /\ Live(c) => ~Answered(c) /\ ~Arrived(c) /\ ~Delivered(c)
    /\ Answered(c) => ~Arrived(c) /\ ~Delivered(c)
    /\ Arrived(c) => ~Delivered(c)

Staged(c) ==
    /\ OneStage(c)
    /\ Once(Requests(c), Request(c)) /\ Once(Responses(c), Response(c, TRUE))
    /\ delivered[c] <= 1
    /\ Answered(c) \/ Arrived(c) \/ Delivered(c) => replies[c] # 0

\* of a direct call: every use of the callback_result invokes the callback once
Counted(c) == /\ IsFiniteSet(Waiting(c))
              /\ delivered[c] + Cardinality(Waiting(c)) <= replies[c]

\* nothing is known of a call that was not made
Fresh(c) == c \notin Sent => result[c] = "none" /\ replies[c] = 0 /\ delivered[c] = 0

CallInv(c) == /\ Fresh(c)
              /\ replies[c] <= MaxReplies[c]
              /\ IF mutual_executor(c) THEN Counted(c) ELSE Staged(c)

Fields == /\ queue = [e \in Executors |-> queue[e]]
          /\ stack = [t \in Threads |-> stack[t]]
          /\ alive \subseteq Components
          /\ ptr_ \in [Lifetimes -> Nat]
          /\ lifetime \in [Calls -> Nat \cup {None}]
          /\ result \in [Calls -> {"none", "live", "spent"}]
          /\ replies \in [Calls -> Nat] /\ delivered \in [Calls -> Nat]
          /\ crashed \in BOOLEAN

IInv == /\ Fields
        /\ \A e \in Executors : queue[e] \in Seq(ItemsOf[e])
        /\ Stacked(stack, FramesOf)
        /\ \A c \in Calls : CallInv(c)

\* Frames are on the thread they belong to, code is code of a component that lives,
\* and a lifetime that was looked at has not expired.
OwnFramesOf == [t \in Threads |-> {f \in Frames :
    /\ f.at = "handler" => t = Thread[receiver_executor(f.of)]
    /\ f.at \in WaitAt \cup {"callback"} => t = Home(Sender[f.of])
    /\ component(f) # None => t = Home(component(f)) /\ component(f) \in alive
    /\ f.at = "checked" => ~expired(f.of)}]

\* Lifetimes expire for good, at the latest with the component that has them.
Expires(c) == c \in Sent =>
    /\ lifetime[c] <= ptr_[Lifetime[c]]
    /\ Sender[c] \notin alive => expired(c)

OInv == /\ Stacked(stack, OwnFramesOf)
        /\ \A c \in Calls : Expires(c)
-----------------------------------------------------------------------------
\* Stacks, as sequences: what pushing, popping and replacing the running frame give.
Plus(f, s) == <<f>> \o s

\* A frame pushed onto a sequence is its head, and the rest is the sequence.
LEMMA PlusIs ==
  ASSUME NEW S, NEW f \in S, NEW s \in Seq(S)
  PROVE  /\ Plus(f, s) \in Seq(S) /\ Plus(f, s) # << >>
         /\ Head(Plus(f, s)) = f /\ Tail(Plus(f, s)) = s
<1> DEFINE r == <<f>> \o s
<1>1. <<f>> \in Seq(S) /\ Len(<<f>>) = 1 /\ <<f>>[1] = f  OBVIOUS
<1>2. /\ r \in Seq(S) /\ Len(r) = 1 + Len(s)
      /\ \A i \in 1..(1 + Len(s)) : r[i] = IF i <= 1 THEN <<f>>[i] ELSE s[i - 1]
  BY <1>1, ConcatProperties
<1>3. Len(s) \in Nat  BY LenProperties
<1> HIDE DEF r
<1>4. r # << >> /\ Len(r) = Len(s) + 1 /\ r[1] = f  BY <1>1, <1>2, <1>3
<1>5. /\ Tail(r) \in Seq(S) /\ Len(Tail(r)) = Len(s)
      /\ \A i \in 1..Len(Tail(r)) : Tail(r)[i] = r[i + 1]
  BY <1>2, <1>3, <1>4, HeadTailProperties
<1>6. \A i \in 1..Len(s) : Tail(r)[i] = s[i]
  <2> SUFFICES ASSUME NEW i \in 1..Len(s) PROVE Tail(r)[i] = s[i]  OBVIOUS
  <2>1. i + 1 \in 1..(1 + Len(s)) /\ ~(i + 1 <= 1) /\ (i + 1) - 1 = i  BY <1>3
  <2> QED  BY <1>2, <1>5, <2>1
<1>7. Tail(r) = s  BY <1>5, <1>6, SeqEqual
<1>8. Head(r) = f  BY <1>2, <1>4
<1> QED  BY <1>2, <1>4, <1>7, <1>8 DEF r, Plus

\* A sequence of elements of S, all in T, is a sequence of elements of T.
LEMMA SeqOfAll ==
  ASSUME NEW S, NEW T, NEW s \in Seq(S), \A i \in 1..Len(s) : s[i] \in T
  PROVE  s \in Seq(T)
<1>1. Len(s) \in Nat /\ s \in [1..Len(s) -> S]  BY LenProperties
<1>2. s \in [1..Len(s) -> T]  BY <1>1
<1> QED  BY <1>1, <1>2, SeqDef

\* A stack whose parts are of F is.
LEMMA LayeredIs ==
  ASSUME NEW S, NEW F, NEW s \in Seq(S),
         s # << >> => Head(s) \in F /\ Tail(s) \in Seq(CodeOf(F))
  PROVE  s \in Layered(F)
<1>1. CASE s = << >>
  BY <1>1, EmptySeq DEF Layered
<1>2. CASE s # << >>
  <2>1. /\ Len(s) \in Nat \ {0} /\ Len(Tail(s)) = Len(s) - 1 /\ Head(s) = s[1]
        /\ \A i \in 1..Len(Tail(s)) : Tail(s)[i] = s[i + 1]
    BY <1>2, HeadTailProperties, EmptySeq
  <2>2. ASSUME NEW i \in 1..Len(s) PROVE s[i] \in F
    <3>1. CASE i = 1  BY <1>2, <2>1, <3>1
    <3>2. CASE i # 1
      <4>1. i - 1 \in 1..Len(Tail(s)) /\ (i - 1) + 1 = i  BY <2>1, <3>2
      <4>2. Tail(s)[i - 1] \in CodeOf(F)  BY <1>2, <4>1, ElementOfSeq
      <4> QED  BY <2>1, <4>1, <4>2 DEF CodeOf
    <3> QED  BY <3>1, <3>2
  <2>3. s \in Seq(F)  BY <2>2, SeqOfAll
  <2> QED  BY <1>2, <2>3 DEF Layered
<1> QED  BY <1>1, <1>2

\* The parts of a stack of F.
LEMMA LayeredParts ==
  ASSUME NEW F, NEW s \in Layered(F), s # << >>
  PROVE  /\ s \in Seq(F) /\ Head(s) \in F /\ Tail(s) \in Seq(CodeOf(F))
         /\ Tail(s) \in Layered(F)
         /\ Tail(s) # << >> => Head(Tail(s)) \in CodeOf(F)
<1>1. s \in Seq(F) /\ Tail(s) \in Seq(CodeOf(F))  BY DEF Layered
<1>2. Head(s) \in F  BY <1>1, HeadTailProperties
<1>3. Tail(s) # << >> => Head(Tail(s)) \in CodeOf(F) /\ Tail(Tail(s)) \in Seq(CodeOf(F))
  BY <1>1, HeadTailProperties
<1>4. CodeOf(F) \subseteq F  BY DEF CodeOf
<1>5. Tail(s) \in Layered(F)
  BY <1>1, <1>3, <1>4, LayeredIs
<1> QED  BY <1>1, <1>2, <1>3, <1>5

\* Pushing a frame of F onto running code, or onto nothing.
LEMMA PushLayered ==
  ASSUME NEW F, NEW s \in Layered(F), NEW f \in F,
         s # << >> => Head(s) \in CodeOf(F)
  PROVE  /\ Plus(f, s) \in Layered(F) /\ Plus(f, s) # << >> /\ Head(Plus(f, s)) = f
<1>1. s \in Seq(CodeOf(F))
  <2>1. CASE s = << >>  BY <2>1, EmptySeq
  <2>2. CASE s # << >>
    <3>1. s \in Seq(F) /\ Tail(s) \in Seq(CodeOf(F))  BY <2>2, LayeredParts
    <3>2. CodeOf(CodeOf(F)) = CodeOf(F)  BY DEF CodeOf
    <3>3. s \in Layered(CodeOf(F))  BY <2>2, <3>1, <3>2, LayeredIs
    <3> QED  BY <3>3 DEF Layered
  <2> QED  BY <2>1, <2>2
<1>2. s \in Seq(F)  BY DEF Layered
<1>3. /\ Plus(f, s) \in Seq(F) /\ Plus(f, s) # << >>
      /\ Head(Plus(f, s)) = f /\ Tail(Plus(f, s)) = s
  BY <1>2, PlusIs
<1> QED  BY <1>1, <1>3 DEF Layered

\* Replacing the running frame by one of F.
LEMMA BecomeLayered ==
  ASSUME NEW F, NEW s \in Layered(F), NEW f \in F, s # << >>
  PROVE  LET r == Plus(f, Tail(s)) IN r \in Layered(F) /\ r # << >> /\ Head(r) = f
BY LayeredParts, PushLayered

\* More frames may be on a larger stack.
LEMMA LayeredWiden ==
  ASSUME NEW F, NEW G, F \subseteq G
  PROVE  Layered(F) \subseteq Layered(G)
<1>1. CodeOf(F) \subseteq CodeOf(G)  BY DEF CodeOf
<1> SUFFICES ASSUME NEW s \in Layered(F) PROVE s \in Layered(G)  OBVIOUS
<1>2. s \in Seq(F) /\ (s # << >> => Head(s) \in F /\ Tail(s) \in Seq(CodeOf(F)))
  BY LayeredParts DEF Layered
<1>3. s # << >> => Tail(s) \in Seq(CodeOf(G))  BY <1>1, <1>2, SeqMonotonic
<1> QED  BY <1>2, <1>3, LayeredIs
-----------------------------------------------------------------------------
\* Queues, as sequences: what an item appended or taken means for another.

\* x is in the queue after y is appended, if it was or is y.
LEMMA AppendHas ==
  ASSUME NEW S, NEW s \in Seq(S), NEW y \in S, NEW x
  PROVE  /\ Append(s, y) \in Seq(S)
         /\ Has(Append(s, y), x) <=> Has(s, x) \/ y = x
         /\ Once(s, x) /\ (y = x => ~Has(s, x)) => Once(Append(s, y), x)
<1> DEFINE r == Append(s, y)
<1>1. Len(s) \in Nat  BY LenProperties
<1>2. /\ r \in Seq(S) /\ Len(r) = Len(s) + 1 /\ r[Len(s) + 1] = y
      /\ \A i \in 1..Len(s) : r[i] = s[i]
  BY AppendProperties
<1> HIDE DEF r
<1>3. Has(r, x) <=> Has(s, x) \/ y = x
  <2>1. ASSUME Has(r, x) PROVE Has(s, x) \/ y = x
    <3>1. PICK i \in 1..Len(r) : r[i] = x  BY <2>1 DEF Has
    <3>2. i \in 1..Len(s) \/ i = Len(s) + 1  BY <1>1, <1>2
    <3> QED  BY <1>2, <3>1, <3>2 DEF Has
  <2>2. ASSUME Has(s, x) PROVE Has(r, x)
    <3>1. PICK i \in 1..Len(s) : s[i] = x  BY <2>2 DEF Has
    <3>2. i \in 1..Len(r)  BY <1>1, <1>2
    <3> QED  BY <1>2, <3>1, <3>2 DEF Has
  <2>3. Len(s) + 1 \in 1..Len(r)  BY <1>1, <1>2
  <2> QED  BY <1>2, <2>1, <2>2, <2>3 DEF Has
<1>4. ASSUME Once(s, x), y = x => ~Has(s, x) PROVE Once(r, x)
  <2> SUFFICES ASSUME NEW i \in 1..Len(r), NEW j \in 1..Len(r), r[i] = x, r[j] = x
               PROVE  i = j
    BY DEF Once
  <2>1. /\ i \in 1..Len(s) \/ i = Len(s) + 1
        /\ j \in 1..Len(s) \/ j = Len(s) + 1
    BY <1>1, <1>2
  <2> QED  BY <1>2, <1>4, <2>1 DEF Once, Has
<1> QED  BY <1>2, <1>3, <1>4 DEF r

\* x is in a queue if it is the first item or in the rest; if it is there once and
\* is the first item, it is not in the rest.
LEMMA TailHas ==
  ASSUME NEW S, NEW s \in Seq(S), s # << >>, NEW x
  PROVE  /\ Head(s) \in S /\ Tail(s) \in Seq(S)
         /\ Has(s, x) <=> Has(Tail(s), x) \/ Head(s) = x
         /\ Once(s, x) => Once(Tail(s), x)
         /\ Once(s, x) /\ Head(s) = x => ~Has(Tail(s), x)
<1> DEFINE r == Tail(s)
<1>1. Len(s) \in Nat \ {0}  BY EmptySeq
<1>2. /\ Head(s) \in S /\ r \in Seq(S) /\ Len(r) = Len(s) - 1 /\ Head(s) = s[1]
      /\ \A i \in 1..Len(r) : r[i] = s[i + 1]
  BY HeadTailProperties
<1> HIDE DEF r
<1>3. \A i \in 1..Len(r) : i + 1 \in 1..Len(s) /\ i + 1 # 1 /\ r[i] = s[i + 1]
  BY <1>1, <1>2
<1>4. 1 \in 1..Len(s)  BY <1>1
<1>5. ASSUME Has(s, x) PROVE Has(r, x) \/ s[1] = x
  <2>1. PICK i \in 1..Len(s) : s[i] = x  BY <1>5 DEF Has
  <2>2. CASE i # 1
    <3>1. i - 1 \in 1..Len(r) /\ (i - 1) + 1 = i  BY <1>1, <1>2, <2>2
    <3> QED  BY <1>2, <2>1, <3>1 DEF Has
  <2> QED  BY <2>1, <2>2
<1>6. Has(r, x) \/ s[1] = x => Has(s, x)  BY <1>3, <1>4 DEF Has
<1>7. ASSUME Once(s, x) PROVE Once(r, x)
  <2> SUFFICES ASSUME NEW i \in 1..Len(r), NEW j \in 1..Len(r), r[i] = x, r[j] = x
               PROVE  i = j
    BY DEF Once
  <2>1. i + 1 = j + 1  BY <1>3, <1>7 DEF Once
  <2> QED  BY <2>1
<1>8. ASSUME Once(s, x), s[1] = x PROVE ~Has(r, x)
  BY <1>3, <1>4, <1>8 DEF Once, Has
<1> QED  BY <1>2, <1>5, <1>6, <1>7, <1>8 DEF r
-----------------------------------------------------------------------------
\* The steps of a stack. Functional: st is a function of the threads.
Functional(st) == st = [u \in Threads |-> st[u]]

\* the waiting frames are the same on the other threads, and on t as f says
Instead(st, r, t, f) == \A u \in Threads, c \in Calls :
    Waits(r[u], c) <=> IF u = t THEN f.at \in WaitAt /\ f.of = c ELSE Waits(st[u], c)

\* no frame of the thread waits to invoke
Quiet(st, t) == st[t] # << >> => Head(st[t]).at \notin WaitAt

\* The stack of thread t is s.
Put(st, t, s) == [st EXCEPT ![t] = s]

\* The stack of one thread is replaced by one of the same frames.
LEMMA ReplaceStack ==
  ASSUME NEW F, NEW st, Functional(st), Stacked(st, F), NEW t \in Threads,
         NEW s \in Layered(F[t]), NEW r, r = Put(st, t, s)
  PROVE  /\ Functional(r) /\ Stacked(r, F) /\ r[t] = s
         /\ \A u \in Threads : u # t => r[u] = st[u]
<1>1. r = [u \in Threads |-> IF u = t THEN s ELSE st[u]]
  BY DEF Functional, Put
<1> QED  BY <1>1 DEF Functional, Stacked

\* A frame is pushed onto running code, or onto nothing.
LEMMA PushStack ==
  ASSUME NEW F, NEW st, Functional(st), Stacked(st, F), NEW t \in Threads,
         NEW f \in F[t], st[t] # << >> => Head(st[t]).at \in CodeAt,
         NEW r, r = Put(st, t, Plus(f, st[t]))
  PROVE  /\ Functional(r) /\ Stacked(r, F) /\ Quiet(st, t)
         /\ Instead(st, r, t, f)
<1>1. st[t] \in Layered(F[t])  BY DEF Stacked
<1>2. st[t] # << >> => Head(st[t]) \in CodeOf(F[t])
  BY <1>1, LayeredParts DEF CodeOf
<1>3. /\ Plus(f, st[t]) \in Layered(F[t]) /\ Plus(f, st[t]) # << >>
      /\ Head(Plus(f, st[t])) = f
  BY <1>1, <1>2, PushLayered
<1>5. /\ Functional(r) /\ Stacked(r, F) /\ r[t] = Plus(f, st[t])
      /\ \A u \in Threads : u # t => r[u] = st[u]
  BY <1>3, ReplaceStack
<1>6. Instead(st, r, t, f)  BY <1>3, <1>5 DEF Instead, Waits
<1>7. Quiet(st, t)  BY DEF Quiet, CodeAt, WaitAt
<1> QED  BY <1>5, <1>6, <1>7

\* The running frame is replaced.
LEMMA BecomeStack ==
  ASSUME NEW F, NEW st, Functional(st), Stacked(st, F), NEW t \in Threads,
         NEW f \in F[t], st[t] # << >>,
         NEW r, r = Put(st, t, Plus(f, Tail(st[t])))
  PROVE  Functional(r) /\ Stacked(r, F) /\ Instead(st, r, t, f)
<1>1. st[t] \in Layered(F[t])  BY DEF Stacked
<1>2. /\ Plus(f, Tail(st[t])) \in Layered(F[t]) /\ Plus(f, Tail(st[t])) # << >>
      /\ Head(Plus(f, Tail(st[t]))) = f
  BY <1>1, BecomeLayered
<1>4. /\ Functional(r) /\ Stacked(r, F) /\ r[t] = Plus(f, Tail(st[t]))
      /\ \A u \in Threads : u # t => r[u] = st[u]
  BY <1>2, ReplaceStack
<1> QED  BY <1>2, <1>4 DEF Instead, Waits

\* The running frame is popped: what is below is code.
LEMMA PopStack ==
  ASSUME NEW F, NEW st, Functional(st), Stacked(st, F), NEW t \in Threads,
         st[t] # << >>, NEW r, r = Put(st, t, Tail(st[t])), NEW f, f.at \notin WaitAt
  PROVE  Functional(r) /\ Stacked(r, F) /\ Instead(st, r, t, f)
<1>1. st[t] \in Layered(F[t])  BY DEF Stacked
<1>2. /\ Tail(st[t]) \in Layered(F[t])
      /\ Tail(st[t]) # << >> => Head(Tail(st[t])) \in CodeOf(F[t])
  BY <1>1, LayeredParts
<1>3. /\ Functional(r) /\ Stacked(r, F) /\ r[t] = Tail(st[t])
      /\ \A u \in Threads : u # t => r[u] = st[u]
  BY <1>2, ReplaceStack
<1>4. \A c \in Calls : ~Waits(r[t], c)
  BY <1>2, <1>3 DEF Waits, CodeOf, CodeAt, WaitAt
<1> QED  BY <1>3, <1>4 DEF Instead

\* The frames of the threads may be more.
LEMMA WidenStacks ==
  ASSUME NEW F, NEW G, NEW st, Stacked(st, F), \A u \in Threads : F[u] \subseteq G[u]
  PROVE  Stacked(st, G)
BY LayeredWiden DEF Stacked
-----------------------------------------------------------------------------
\* The executors and threads a call goes through.
LEMMA Places ==
  ASSUME NEW c \in Calls
  PROVE  /\ receiver_executor(c) \in Executors /\ DefaultExecutor[Sender[c]] \in Executors
         /\ Sender[c] \in Components /\ Receiver[c] \in Components
         /\ Home(Sender[c]) \in Threads /\ Thread[receiver_executor(c)] \in Threads
         /\ Lifetime[c] \in Lifetimes
BY AsyncQueryAssumption DEF receiver_executor, Home

\* A component runs in a frame of code.
LEMMA RunsCode ==
  ASSUME NEW t \in Threads, NEW comp \in Components, Runs(t, comp)
  PROVE  stack[t] # << >> /\ Top(t) = Head(stack[t]) /\ Head(stack[t]).at \in CodeAt
BY AsyncQueryAssumption DEF Runs, Top, component, CodeAt

\* A step that calls nothing leaves what frames and items may be.
LEMMA SameSent ==
  ASSUME UNCHANGED lifetime
  PROVE  /\ Sent' = Sent /\ Frames' = Frames /\ Items' = Items
         /\ FramesOf' = FramesOf /\ ItemsOf' = ItemsOf
BY DEF Sent, Frames, Items, FramesOf, ItemsOf

\* The frames and items are of calls that were made.
LEMMA OfSent ==
  ASSUME IInv, NEW c \in Calls, c \notin Sent
  PROVE  ~Queued(c) /\ ~Answered(c) /\ ~Arrived(c) /\ \A u \in Threads : ~Waits(stack[u], c)
<1>1. /\ receiver_executor(c) \in Executors /\ DefaultExecutor[Sender[c]] \in Executors
      /\ Home(Sender[c]) \in Threads
  BY Places
<1>2. ASSUME NEW e \in Executors, NEW i \in 1..Len(queue[e]) PROVE queue[e][i].call # c
  <2>1. queue[e] \in Seq(ItemsOf[e])  BY DEF IInv
  <2>2. queue[e][i] \in ItemsOf[e]  BY <2>1, ElementOfSeq
  <2> QED  BY <2>2 DEF ItemsOf, Items
<1>3. ~Queued(c) /\ ~Answered(c)
  BY <1>1, <1>2 DEF Queued, Answered, Requests, Responses, Has, Request, Response
<1>4. ASSUME NEW u \in Threads PROVE ~Waits(stack[u], c)
  <2>1. stack[u] \in Layered(FramesOf[u])  BY DEF IInv, Stacked
  <2>2. stack[u] # << >> => Head(stack[u]) \in FramesOf[u]  BY <2>1, LayeredParts
  <2> QED  BY <2>2 DEF Waits, FramesOf, Frames, WaitAt
<1> QED  BY <1>1, <1>3, <1>4 DEF Arrived

\* Of a call through queues, only the thread of the sender waits to invoke.
LEMMA WaitsAtHome ==
  ASSUME IInv, NEW c \in Calls, ~mutual_executor(c), NEW u \in Threads, Waits(stack[u], c)
  PROVE  u = Home(Sender[c])
<1>1. stack[u] \in Layered(FramesOf[u])  BY DEF IInv, Stacked
<1>2. Head(stack[u]) \in FramesOf[u]  BY <1>1, LayeredParts DEF Waits
<1> QED  BY <1>2 DEF Waits, FramesOf, Frames
-----------------------------------------------------------------------------
\* What a step leaves of the stages of a call.
SameItems(c) == /\ Queued(c)' <=> Queued(c)
                /\ Answered(c)' <=> Answered(c)
                /\ Once(Requests(c), Request(c)) => Once(Requests(c), Request(c))'
                /\ Once(Responses(c), Response(c, TRUE)) => Once(Responses(c), Response(c, TRUE))'
FewerWaits(c) == \A u \in Threads : Waits(stack[u], c)' => Waits(stack[u], c)
SameUse(c) == /\ result'[c] \in {result[c], "none"} /\ replies'[c] = replies[c]
              /\ delivered'[c] = delivered[c] /\ (c \in Sent => c \in Sent')

\* The frames that wait are not more.
LEMMA WaitingFewer ==
  ASSUME NEW c \in Calls, FewerWaits(c)
  PROVE  Waiting(c)' \subseteq Waiting(c) /\ (Arrived(c)' => Arrived(c))
BY Places DEF FewerWaits, Waiting, Arrived

\* A direct call is counted as before by a step that neither answers nor invokes it.
LEMMA CountedKept ==
  ASSUME Fields, NEW c \in Calls, Counted(c), FewerWaits(c),
         replies'[c] = replies[c], delivered'[c] = delivered[c]
  PROVE  Counted(c)'
<1>1. Waiting(c)' \subseteq Waiting(c)  BY WaitingFewer
<1>2. /\ IsFiniteSet(Waiting(c)') /\ Cardinality(Waiting(c)') <= Cardinality(Waiting(c))
      /\ Cardinality(Waiting(c)') \in Nat /\ Cardinality(Waiting(c)) \in Nat
  BY <1>1, FS_Subset, FS_CardinalityType DEF Counted
<1>3. delivered[c] \in Nat /\ replies[c] \in Nat  BY DEF Fields
<1> QED  BY <1>2, <1>3 DEF Counted

\* A call that no step is about stays at its stage.
LEMMA CallKept ==
  ASSUME Fields, NEW c \in Calls, CallInv(c), SameItems(c), FewerWaits(c), SameUse(c)
  PROVE  CallInv(c)'
<1>1. Fresh(c)' /\ replies'[c] <= MaxReplies[c]
  BY DEF CallInv, Fresh, SameUse
<1>2. Arrived(c)' => Arrived(c)  BY WaitingFewer
<1>3. CASE mutual_executor(c)
  BY <1>1, <1>3, CountedKept DEF CallInv, SameUse
<1>4. CASE ~mutual_executor(c)
  <2>1. Staged(c)  BY <1>4 DEF CallInv
  <2>2. (Live(c)' => Live(c)) /\ (Delivered(c)' <=> Delivered(c))
    BY DEF SameUse, Live, Delivered
  <2>3. OneStage(c)'  BY <1>2, <2>1, <2>2 DEF OneStage, Staged, SameItems
  <2>4. Staged(c)'
    BY <1>2, <2>1, <2>2, <2>3 DEF Staged, SameItems, SameUse
  <2> QED  BY <1>1, <1>4, <2>4 DEF CallInv
<1> QED  BY <1>3, <1>4

\* The queues stay.
LEMMA SameQueue ==
  ASSUME UNCHANGED queue, NEW c \in Calls
  PROVE  SameItems(c)
BY DEF SameItems, Queued, Answered, Requests, Responses, Request, Response

\* An item is appended, of another call or one that invokes nothing.
LEMMA Enqueued ==
  ASSUME IInv, NEW e \in Executors, NEW F, NEW x \in F[e], Enqueue(e, x),
         \A d \in Executors : ItemsOf[d] \subseteq F[d]
  PROVE  /\ queue' = [d \in Executors |-> queue'[d]]
         /\ \A d \in Executors : queue'[d] \in Seq(F[d])
         /\ \A c \in Calls : x # Request(c) /\ x # Response(c, TRUE) => SameItems(c)
         /\ \A d \in Executors : \A y : Has(queue'[d], y) <=> Has(queue[d], y) \/ (d = e /\ y = x)
         /\ \A d \in Executors : \A y : Once(queue[d], y) /\ (d = e /\ y = x => ~Has(queue[d], y))
                                       => Once(queue'[d], y)
<1>1. /\ queue = [d \in Executors |-> queue[d]]
      /\ \A d \in Executors : queue[d] \in Seq(ItemsOf[d])
  BY DEF IInv, Fields
<1>2. queue' = [d \in Executors |-> IF d = e THEN Append(queue[e], x) ELSE queue[d]]
  BY <1>1 DEF Enqueue
<1>3. /\ queue' = [d \in Executors |-> queue'[d]] /\ queue'[e] = Append(queue[e], x)
      /\ \A d \in Executors : d # e => queue'[d] = queue[d]
  BY <1>2
<1>4. \A d \in Executors : queue[d] \in Seq(F[d])
  BY <1>1, SeqMonotonic
<1>5. \A y : /\ queue'[e] \in Seq(F[e])
             /\ Has(queue'[e], y) <=> Has(queue[e], y) \/ x = y
             /\ Once(queue[e], y) /\ (x = y => ~Has(queue[e], y)) => Once(queue'[e], y)
  <2> SUFFICES ASSUME NEW y
               PROVE  LET s == queue[e]
                          r == Append(s, x)
                      IN /\ r \in Seq(F[e])
                         /\ Has(r, y) <=> Has(s, y) \/ x = y
                         /\ Once(s, y) /\ (x = y => ~Has(s, y)) => Once(r, y)
    BY <1>3
  <2>1. queue[e] \in Seq(F[e])  BY <1>4
  <2> QED  BY <2>1, AppendHas
<1>6. \A d \in Executors : queue'[d] \in Seq(F[d])
  BY <1>3, <1>4, <1>5
<1>7. \A d \in Executors : \A y : Has(queue'[d], y) <=> Has(queue[d], y) \/ (d = e /\ y = x)
  BY <1>3, <1>5
<1>8. \A d \in Executors : \A y : Once(queue[d], y) /\ (d = e /\ y = x => ~Has(queue[d], y))
                                => Once(queue'[d], y)
  BY <1>3, <1>5
<1>9. ASSUME NEW c \in Calls, x # Request(c), x # Response(c, TRUE) PROVE SameItems(c)
  <2>1. receiver_executor(c) \in Executors /\ DefaultExecutor[Sender[c]] \in Executors
    BY Places
  <2> QED
    BY <1>7, <1>8, <1>9, <2>1
    DEF SameItems, Queued, Answered, Requests, Responses, Request, Response
<1> QED  BY <1>3, <1>6, <1>7, <1>8, <1>9

\* The first item of a queue is taken, of another call or one that invokes nothing.
LEMMA Dequeued ==
  ASSUME IInv, NEW e \in Executors, queue[e] # << >>,
         queue' = [queue EXCEPT ![e] = Tail(queue[e])]
  PROVE  /\ queue' = [d \in Executors |-> queue'[d]]
         /\ Head(queue[e]) \in ItemsOf[e]
         /\ \A d \in Executors : queue'[d] \in Seq(ItemsOf[d])
         /\ \A c \in Calls : Head(queue[e]) # Request(c) /\ Head(queue[e]) # Response(c, TRUE)
                                => SameItems(c)
         /\ \A d \in Executors : \A y : Once(queue[d], y) => Once(queue'[d], y)
         /\ \A d \in Executors : \A y : d # e \/ y # Head(queue[e])
                                       => (Has(queue'[d], y) <=> Has(queue[d], y))
         /\ \A y : y = Head(queue[e]) /\ Once(queue[e], y) => Has(queue[e], y) /\ ~Has(queue'[e], y)
<1> DEFINE x == Head(queue[e])
<1>1. /\ queue = [d \in Executors |-> queue[d]]
      /\ \A d \in Executors : queue[d] \in Seq(ItemsOf[d])
  BY DEF IInv, Fields
<1>2. queue' = [d \in Executors |-> IF d = e THEN Tail(queue[e]) ELSE queue[d]]
  BY <1>1
<1>3. /\ queue' = [d \in Executors |-> queue'[d]] /\ queue'[e] = Tail(queue[e])
      /\ \A d \in Executors : d # e => queue'[d] = queue[d]
  BY <1>2
<1>4. \A y : /\ x \in ItemsOf[e] /\ queue'[e] \in Seq(ItemsOf[e])
             /\ Has(queue[e], y) <=> Has(queue'[e], y) \/ x = y
             /\ Once(queue[e], y) => Once(queue'[e], y)
             /\ Once(queue[e], y) /\ x = y => ~Has(queue'[e], y)
  BY <1>1, <1>3, TailHas
<1> HIDE DEF x
<1>5. \A d \in Executors : queue'[d] \in Seq(ItemsOf[d])
  BY <1>1, <1>3, <1>4
<1>6. \A d \in Executors : \A y : Once(queue[d], y) => Once(queue'[d], y)
  BY <1>3, <1>4
<1>7. \A d \in Executors : \A y : d # e \/ y # x => (Has(queue'[d], y) <=> Has(queue[d], y))
  BY <1>3, <1>4
<1>8. \A y : y = x /\ Once(queue[e], y) => Has(queue[e], y) /\ ~Has(queue'[e], y)
  BY <1>4
<1>9. ASSUME NEW c \in Calls, x # Request(c), x # Response(c, TRUE) PROVE SameItems(c)
  <2>1. receiver_executor(c) \in Executors /\ DefaultExecutor[Sender[c]] \in Executors
    BY Places
  <2> QED
    BY <1>6, <1>7, <1>9, <2>1
    DEF SameItems, Queued, Answered, Requests, Responses, Request, Response
<1> QED  BY <1>3, <1>4, <1>5, <1>6, <1>7, <1>8, <1>9 DEF x
-----------------------------------------------------------------------------
\* IInv, step by step.

\* A step whose new frame, if it waits, waits for the call the old one waited for.
LEMMA InsteadFewer ==
  ASSUME NEW t \in Threads, NEW f, Instead(stack, stack', t, f), NEW c \in Calls,
         f.at \in WaitAt /\ f.of = c => Waits(stack[t], c)
  PROVE  FewerWaits(c)
BY DEF Instead, FewerWaits

\* A step that neither queues nor answers nor invokes.
LEMMA QuietStep ==
  ASSUME IInv, UNCHANGED <<queue, lifetime, replies, delivered>>,
         result' \in [Calls -> {"none", "live", "spent"}],
         \A c \in Calls : result'[c] \in {result[c], "none"},
         Functional(stack'), Stacked(stack', FramesOf), \A c \in Calls : FewerWaits(c),
         alive' \subseteq Components, ptr_' \in [Lifetimes -> Nat], crashed' \in BOOLEAN
  PROVE  IInv'
<1>1. Fields'  BY DEF IInv, Fields, Functional
<1>2. /\ Sent' = Sent /\ FramesOf' = FramesOf /\ ItemsOf' = ItemsOf  BY SameSent
<1>3. \A c \in Calls : CallInv(c)'
  <2> SUFFICES ASSUME NEW c \in Calls PROVE CallInv(c)'  OBVIOUS
  <2>1. SameUse(c)  BY <1>2 DEF SameUse
  <2>2. SameItems(c)  BY SameQueue
  <2>3. Fields /\ CallInv(c)  BY DEF IInv
  <2> QED  BY <2>1, <2>2, <2>3, CallKept
<1>4. \A e \in Executors : queue'[e] \in Seq(ItemsOf'[e])
  BY <1>2 DEF IInv
<1>5. Stacked(stack', FramesOf')  BY <1>2
<1> QED  BY <1>1, <1>3, <1>4, <1>5 DEF IInv

\* The fields the lemmas about stacks start from.
LEMMA StackFields ==
  ASSUME IInv
  PROVE  /\ Functional(stack) /\ Stacked(stack, FramesOf)
         /\ alive \subseteq Components /\ ptr_ \in [Lifetimes -> Nat] /\ crashed \in BOOLEAN
         /\ result \in [Calls -> {"none", "live", "spent"}]
         /\ \A t \in Threads : stack[t] # << >> => Top(t) = Head(stack[t]) /\ Top(t) \in FramesOf[t]
<1>1. \A t \in Threads : stack[t] # << >> => Head(stack[t]) \in FramesOf[t]
  BY LayeredParts DEF IInv, Stacked
<1> QED  BY <1>1 DEF IInv, Fields, Functional, Top

\* A component acts on its own, in a frame of its own.
LEMMA UpdateStep ==
  ASSUME IInv, NEW t \in Threads, NEW comp \in Components, Update(t, comp)
  PROVE  IInv'
<1> DEFINE f == Frame("update", comp)
<1>1. /\ Functional(stack) /\ Stacked(stack, FramesOf)
      /\ alive \subseteq Components /\ ptr_ \in [Lifetimes -> Nat] /\ crashed \in BOOLEAN
      /\ result \in [Calls -> {"none", "live", "spent"}]
  BY StackFields
<1>2. f \in FramesOf[t] /\ f.at \notin WaitAt
  BY DEF FramesOf, Frames, Frame, WaitAt
<1>3. stack' = Put(stack, t, Plus(f, stack[t])) /\ stack[t] = << >>
  BY DEF Update, Idle, Push, Put, Plus
<1> HIDE DEF f
<1>4. /\ Functional(stack') /\ Stacked(stack', FramesOf) /\ Quiet(stack, t)
      /\ Instead(stack, stack', t, f)
  BY <1>1, <1>2, <1>3, PushStack
<1>5. \A c \in Calls : FewerWaits(c)
  BY <1>2, <1>4, InsteadFewer
<1> QED  BY <1>1, <1>4, <1>5, QuietStep DEF Update

\* A frame is popped.
LEMMA PopStep ==
  ASSUME IInv, NEW t \in Threads, stack[t] # << >>, Pop(t),
         UNCHANGED <<queue, alive, ptr_, lifetime, result, replies, delivered, crashed>>
  PROVE  IInv'
<1> DEFINE f == Frame("update", None)
<1>1. /\ Functional(stack) /\ Stacked(stack, FramesOf)
      /\ alive \subseteq Components /\ ptr_ \in [Lifetimes -> Nat] /\ crashed \in BOOLEAN
      /\ result \in [Calls -> {"none", "live", "spent"}]
  BY StackFields
<1>2. stack' = Put(stack, t, Tail(stack[t]))  BY DEF Pop, Put
<1>3. f.at \notin WaitAt  BY DEF Frame, WaitAt
<1> HIDE DEF f
<1>4. Functional(stack') /\ Stacked(stack', FramesOf) /\ Instead(stack, stack', t, f)
  BY <1>1, <1>2, <1>3, PopStack
<1>5. \A c \in Calls : FewerWaits(c)
  BY <1>3, <1>4, InsteadFewer
<1> QED  BY <1>1, <1>4, <1>5, QuietStep

\* Code of a component returns.
LEMMA ReturnStep ==
  ASSUME IInv, NEW t \in Threads, Return(t)
  PROVE  IInv'
BY PopStep DEF Return

\* The end of the program leaves all else.
LEMMA CrashStep ==
  ASSUME IInv, Crash
  PROVE  IInv'
<1>1. /\ Functional(stack) /\ Stacked(stack, FramesOf)
      /\ alive \subseteq Components /\ ptr_ \in [Lifetimes -> Nat] /\ crashed' \in BOOLEAN
      /\ result \in [Calls -> {"none", "live", "spent"}]
  BY StackFields DEF Crash
<1>2. stack' = stack  BY DEF Crash
<1>3. \A c \in Calls : FewerWaits(c)  BY <1>2 DEF FewerWaits
<1> QED  BY <1>1, <1>2, <1>3, QuietStep DEF Crash

\* The listener is looked for, and the frame of the answer is left.
LEMMA ListenerStep ==
  ASSUME IInv, NEW t \in Threads, Listener(t)
  PROVE  IInv'
BY PopStep, CrashStep DEF Listener, In

\* A reset touches no frame, no item and no count.
LEMMA ResetStep ==
  ASSUME IInv, NEW t \in Threads, NEW l \in Lifetimes, Reset(t, l)
  PROVE  IInv'
<1>1. /\ Functional(stack) /\ Stacked(stack, FramesOf)
      /\ alive \subseteq Components /\ ptr_ \in [Lifetimes -> Nat] /\ crashed \in BOOLEAN
      /\ result \in [Calls -> {"none", "live", "spent"}]
  BY StackFields
<1>2. stack' = stack  BY DEF Reset
<1>3. \A c \in Calls : FewerWaits(c)  BY <1>2 DEF FewerWaits
<1>4. ptr_' \in [Lifetimes -> Nat]  BY <1>1 DEF Reset
<1> QED  BY <1>1, <1>2, <1>3, <1>4, QuietStep DEF Reset

\* The callback_results of a component go with it: fewer calls are live.
LEMMA DestroyStep ==
  ASSUME IInv, NEW comp \in Components, Destroy(comp)
  PROVE  IInv'
<1>1. /\ Functional(stack) /\ Stacked(stack, FramesOf)
      /\ alive \subseteq Components /\ ptr_ \in [Lifetimes -> Nat] /\ crashed \in BOOLEAN
      /\ result \in [Calls -> {"none", "live", "spent"}]
  BY StackFields
<1>2. stack' = stack  BY DEF Destroy
<1>3. \A c \in Calls : FewerWaits(c)  BY <1>2 DEF FewerWaits
<1>4. ptr_' \in [Lifetimes -> Nat]  BY <1>1 DEF Destroy
<1>5. alive' \subseteq Components  BY <1>1 DEF Destroy
<1>6. /\ result' \in [Calls -> {"none", "live", "spent"}]
      /\ \A c \in Calls : result'[c] \in {result[c], "none"}
  BY <1>1 DEF Destroy
<1> QED  BY <1>1, <1>2, <1>3, <1>4, <1>5, <1>6, QuietStep DEF Destroy

\* A waiting frame goes on waiting, or is dropped.
LEMMA CheckLifetimeStep ==
  ASSUME IInv, NEW t \in Threads, CheckLifetime(t)
  PROVE  IInv'
<1> DEFINE f == Frame("checked", Top(t).of)
<1>0. stack[t] # << >> /\ Head(stack[t]).at = "response" /\ Top(t) = Head(stack[t])
  BY DEF CheckLifetime, In, Top
<1>1. /\ Functional(stack) /\ Stacked(stack, FramesOf)
      /\ alive \subseteq Components /\ ptr_ \in [Lifetimes -> Nat] /\ crashed \in BOOLEAN
      /\ result \in [Calls -> {"none", "live", "spent"}]
      /\ Top(t) \in FramesOf[t]
  BY <1>0, StackFields
<1>2. CASE Pop(t)
  BY <1>0, <1>2, PopStep DEF CheckLifetime
<1>3. CASE Become(t, f)
  <2>1. f \in FramesOf[t] /\ f.at = "checked" /\ f.of = Head(stack[t]).of
    BY <1>0, <1>1 DEF FramesOf, Frames, Frame, WaitAt
  <2>2. stack' = Put(stack, t, Plus(f, Tail(stack[t])))
    BY <1>3 DEF Become, Put, Plus
  <2> HIDE DEF f
  <2>3. Functional(stack') /\ Stacked(stack', FramesOf) /\ Instead(stack, stack', t, f)
    BY <1>0, <1>1, <2>1, <2>2, BecomeStack
  <2>4. \A c \in Calls : f.of = c => Waits(stack[t], c)
    BY <1>0, <2>1 DEF Waits, WaitAt
  <2>5. \A c \in Calls : FewerWaits(c)
    BY <2>3, <2>4, InsteadFewer
  <2> QED  BY <1>1, <2>3, <2>5, QuietStep DEF CheckLifetime
<1> QED  BY <1>2, <1>3 DEF CheckLifetime

\* More calls made, more frames and items there may be.
LEMMA GrowSent ==
  ASSUME Sent \subseteq Sent'
  PROVE  /\ \A u \in Threads : FramesOf[u] \subseteq FramesOf'[u]
         /\ \A e \in Executors : ItemsOf[e] \subseteq ItemsOf'[e]
<1>1. Frames \subseteq Frames' /\ Items \subseteq Items'  BY DEF Frames, Items
<1> QED  BY <1>1 DEF FramesOf, ItemsOf

\* What a call writes besides the stack and the queue.
LEMMA CallFields ==
  ASSUME IInv, NEW t \in Threads, NEW c \in Calls, Call(t, c)
  PROVE  /\ lifetime' \in [Calls -> Nat \cup {None}]
         /\ \A d \in Calls : d \in Sent' <=> d \in Sent \/ d = c
         /\ stack[t] # << >> /\ Head(stack[t]).at \in CodeAt
         /\ result[c] = "none" /\ replies[c] = 0 /\ delivered[c] = 0
<1>1. /\ lifetime \in [Calls -> Nat \cup {None}] /\ ptr_[Lifetime[c]] \in Nat
      /\ None \notin Nat
  BY Places, AsyncQueryAssumption DEF IInv, Fields
<1>2. /\ lifetime' \in [Calls -> Nat \cup {None}] /\ lifetime'[c] # None
      /\ \A d \in Calls : d # c => lifetime'[d] = lifetime[d]
  BY <1>1 DEF Call
<1>3. \A d \in Calls : d \in Sent' <=> d \in Sent \/ d = c
  BY <1>2 DEF Sent
<1>4. stack[t] # << >> /\ Head(stack[t]).at \in CodeAt
  BY Places, RunsCode DEF Call
<1>5. result[c] = "none" /\ replies[c] = 0 /\ delivered[c] = 0
  BY DEF Call, IInv, CallInv, Fresh
<1> QED  BY <1>2, <1>3, <1>4, <1>5

\* A call on the same executor: the callback_result is live, and nothing else is.
LEMMA DirectCallStep ==
  ASSUME IInv, NEW t \in Threads, NEW c \in Calls, Call(t, c), mutual_executor(c)
  PROVE  IInv'
<1> DEFINE f == Frame("handler", c)
<1>1. /\ lifetime' \in [Calls -> Nat \cup {None}]
      /\ \A d \in Calls : d \in Sent' <=> d \in Sent \/ d = c
      /\ stack[t] # << >> /\ Head(stack[t]).at \in CodeAt
  BY CallFields
<1>2. /\ UNCHANGED <<queue, alive, ptr_, replies, delivered, crashed>>
      /\ result' = [result EXCEPT ![c] = "live"]
      /\ stack' = Put(stack, t, Plus(f, stack[t]))
  BY DEF Call, Push, Put, Plus
<1>3. Functional(stack) /\ Stacked(stack, FramesOf)  BY StackFields
<1>4. Sent \subseteq Sent'  BY <1>1 DEF Sent
<1>5. Stacked(stack, FramesOf')  BY <1>3, <1>4, GrowSent, WidenStacks
<1>6. f \in FramesOf'[t] /\ f.at \notin WaitAt
  BY <1>1 DEF FramesOf, Frames, Frame, WaitAt
<1> HIDE DEF f
<1>7. Functional(stack') /\ Stacked(stack', FramesOf') /\ Instead(stack, stack', t, f)
  BY <1>1, <1>2, <1>3, <1>5, <1>6, PushStack
<1>8. \A d \in Calls : FewerWaits(d)  BY <1>6, <1>7, InsteadFewer
<1>9. /\ result' \in [Calls -> {"none", "live", "spent"}]
      /\ \A d \in Calls : d # c => result'[d] = result[d]
  BY <1>2 DEF IInv, Fields
<1>10. Fields'  BY <1>1, <1>2, <1>7, <1>9 DEF IInv, Fields, Functional
<1>11. ASSUME NEW d \in Calls PROVE CallInv(d)'
  <2>1. Fields /\ CallInv(d)  BY DEF IInv
  <2>2. CASE d # c
    <3>1. SameUse(d)  BY <1>1, <1>2, <1>9, <2>2 DEF SameUse
    <3>2. SameItems(d)  BY <1>2, SameQueue
    <3> QED  BY <1>8, <2>1, <3>1, <3>2, CallKept
  <2>3. CASE d = c
    <3>1. Counted(c)'  BY <1>2, <1>8, <2>1, <2>3, CountedKept DEF CallInv
    <3>2. Fresh(c)' /\ replies'[c] <= MaxReplies[c]
      BY <1>1, <1>2, <2>1, <2>3 DEF Fresh, CallInv
    <3> QED  BY <2>3, <3>1, <3>2 DEF CallInv
  <2> QED  BY <2>2, <2>3
<1>12. \A e \in Executors : queue'[e] \in Seq(ItemsOf'[e])
  BY <1>2, <1>4, GrowSent, SeqMonotonic DEF IInv
<1> QED  BY <1>7, <1>10, <1>11, <1>12 DEF IInv

\* A call of another executor: the request is queued, and nothing else is.
LEMMA QueuedCallStep ==
  ASSUME IInv, NEW t \in Threads, NEW c \in Calls, Call(t, c), ~mutual_executor(c)
  PROVE  IInv'
<1> DEFINE e == receiver_executor(c)
           x == Request(c)
<1>1. /\ lifetime' \in [Calls -> Nat \cup {None}]
      /\ \A d \in Calls : d \in Sent' <=> d \in Sent \/ d = c
      /\ result[c] = "none" /\ replies[c] = 0 /\ delivered[c] = 0
  BY CallFields
<1>2. /\ UNCHANGED <<stack, alive, ptr_, result, replies, delivered, crashed>>
      /\ Enqueue(e, x) /\ c \notin Sent
  BY DEF Call
<1>3. Functional(stack) /\ Stacked(stack, FramesOf)  BY StackFields
<1>4. Sent \subseteq Sent'  BY <1>1 DEF Sent
<1>5. Stacked(stack', FramesOf')  BY <1>2, <1>3, <1>4, GrowSent, WidenStacks
<1>6. e \in Executors /\ DefaultExecutor[Sender[c]] \in Executors  BY Places
<1>7. x \in ItemsOf'[e]
  BY <1>1, <1>6 DEF ItemsOf, Items, Request
<1>8. \A d \in Executors : ItemsOf[d] \subseteq ItemsOf'[d]  BY <1>4, GrowSent
<1>9. x.task = "request" /\ x.call = c  BY DEF Request
<1>10. x = Request(c)  OBVIOUS
<1> HIDE DEF x
<1>11. /\ queue' = [d \in Executors |-> queue'[d]]
       /\ \A d \in Executors : queue'[d] \in Seq(ItemsOf'[d])
       /\ \A d \in Calls : x # Request(d) /\ x # Response(d, TRUE) => SameItems(d)
       /\ \A d \in Executors : \A y : Has(queue'[d], y) <=> Has(queue[d], y) \/ (d = e /\ y = x)
       /\ \A d \in Executors : \A y : Once(queue[d], y) /\ (d = e /\ y = x => ~Has(queue[d], y))
                                       => Once(queue'[d], y)
  BY <1>2, <1>6, <1>7, <1>8, Enqueued
<1>12. \A d \in Calls : FewerWaits(d)  BY <1>2 DEF FewerWaits
<1>13. Fields'  BY <1>1, <1>2, <1>11 DEF IInv, Fields, Functional
<1>14. ASSUME NEW d \in Calls PROVE CallInv(d)'
  <2>1. Fields /\ CallInv(d)  BY DEF IInv
  <2>2. CASE d # c
    <3>1. SameUse(d)  BY <1>1, <1>2, <2>2 DEF SameUse
    <3>2. SameItems(d)  BY <1>9, <1>11, <2>2 DEF Request, Response
    <3> QED  BY <1>12, <2>1, <3>1, <3>2, CallKept
  <2>3. CASE d = c
    <3>1. ~Queued(c) /\ ~Answered(c) /\ ~Arrived(c)  BY <1>2, OfSent
    <3>2. Staged(c)  BY <2>1, <2>3 DEF CallInv
    <3>3. x # Response(c, TRUE)  BY <1>9 DEF Response
    <3>4. ~Answered(c)' /\ Once(Responses(c), Response(c, TRUE))'
      BY <1>6, <1>11, <3>1, <3>2, <3>3 DEF Answered, Staged, Responses, Response
    <3>5. Once(Requests(c), Request(c))'
      BY <1>6, <1>10, <1>11, <3>1, <3>2 DEF Queued, Staged, Requests, Request
    <3>6. ~Arrived(c)'  BY <1>12, <3>1, WaitingFewer
    <3>7. ~Live(c)' /\ ~Delivered(c)'  BY <1>1, <1>2 DEF Live, Delivered
    <3>8. OneStage(c)'  BY <3>4, <3>6, <3>7 DEF OneStage
    <3>9. delivered'[c] <= 1  BY <1>1, <1>2
    <3>10. Staged(c)'  BY <3>4, <3>5, <3>6, <3>7, <3>8, <3>9 DEF Staged
    <3>11. Fresh(c)' /\ replies'[c] <= MaxReplies[c]
      BY <1>1, <1>2, <2>1, <2>3 DEF Fresh, CallInv
    <3> QED  BY <2>3, <3>10, <3>11 DEF CallInv
  <2> QED  BY <2>2, <2>3
<1> QED  BY <1>5, <1>11, <1>13, <1>14 DEF IInv

\* A call, of either kind.
LEMMA CallStep ==
  ASSUME IInv, NEW t \in Threads, NEW c \in Calls, Call(t, c)
  PROVE  IInv'
BY DirectCallStep, QueuedCallStep

\* The item a step takes, and the call it is of.
LEMMA HeadItem ==
  ASSUME IInv, NEW e \in Executors, queue[e] # << >>, NEW x, x = Head(queue[e])
  PROVE  /\ x.call \in Calls /\ x.call \in Sent /\ ~mutual_executor(x.call)
         /\ x.task = "request" => x = Request(x.call) /\ e = receiver_executor(x.call)
         /\ x.task = "response" => /\ x = Response(x.call, x.live) /\ x.live \in BOOLEAN
                                   /\ e = DefaultExecutor[Sender[x.call]]
<1>1. queue[e] \in Seq(ItemsOf[e])  BY DEF IInv
<1>2. x \in ItemsOf[e]  BY <1>1, HeadTailProperties
<1>3. /\ x \in Items /\ ~mutual_executor(x.call)
      /\ x.task = "request" => x.live /\ e = receiver_executor(x.call)
      /\ x.task = "response" => e = DefaultExecutor[Sender[x.call]]
  BY <1>2 DEF ItemsOf
<1>4. /\ x = [task |-> x.task, call |-> x.call, live |-> x.live] /\ x.call \in Sent
      /\ x.live \in BOOLEAN
  BY <1>3 DEF Items
<1>5. x.task = "request" => x = Request(x.call)
  BY <1>3, <1>4 DEF Request
<1>6. x.task = "response" => x = Response(x.call, x.live)
  BY <1>4 DEF Response
<1> QED  BY <1>3, <1>4, <1>5, <1>6 DEF Sent

\* A request leaves the queue, and the callback_result is live.
LEMMA RunRequestStep ==
  ASSUME IInv, NEW t \in Threads, NEW e \in Executors, RunRequest(t, e)
  PROVE  IInv'
<1> DEFINE x == Head(queue[e])
<1> SUFFICES ASSUME Receiver[x.call] \in alive PROVE IInv'  BY CrashStep DEF RunRequest
<1>1. /\ queue[e] # << >> /\ x.task = "request" /\ stack[t] = << >> /\ Thread[e] = t
      /\ queue' = [queue EXCEPT ![e] = Tail(queue[e])]
      /\ stack' = Put(stack, t, Plus(Frame("handler", x.call), stack[t]))
      /\ result' = [result EXCEPT ![x.call] = "live"]
      /\ UNCHANGED <<alive, ptr_, lifetime, replies, delivered, crashed>>
  BY DEF RunRequest, Idle, Push, Put, Plus
<1>2. PICK c \in Calls : /\ c = x.call /\ c \in Sent /\ ~mutual_executor(c)
                         /\ x = Request(c) /\ e = receiver_executor(c)
  BY <1>1, HeadItem
<1> DEFINE f == Frame("handler", c)
<1>3. Functional(stack) /\ Stacked(stack, FramesOf)  BY StackFields
<1>4. f \in FramesOf[t] /\ f.at \notin WaitAt
  BY <1>1, <1>2 DEF FramesOf, Frames, Frame, WaitAt
<1> HIDE DEF f, x
<1>5. Functional(stack') /\ Stacked(stack', FramesOf) /\ Instead(stack, stack', t, f)
  BY <1>1, <1>2, <1>3, <1>4, PushStack DEF f
<1>6. \A d \in Calls : FewerWaits(d)  BY <1>4, <1>5, InsteadFewer
<1>7. /\ Sent' = Sent /\ FramesOf' = FramesOf /\ ItemsOf' = ItemsOf  BY <1>1, SameSent
<1>8. /\ queue' = [d \in Executors |-> queue'[d]]
      /\ \A d \in Executors : queue'[d] \in Seq(ItemsOf[d])
      /\ \A d \in Calls : x # Request(d) /\ x # Response(d, TRUE) => SameItems(d)
      /\ \A d \in Executors : \A y : Once(queue[d], y) => Once(queue'[d], y)
      /\ \A d \in Executors : \A y : d # e \/ y # x => (Has(queue'[d], y) <=> Has(queue[d], y))
      /\ \A y : y = x /\ Once(queue[e], y) => Has(queue[e], y) /\ ~Has(queue'[e], y)
  BY <1>1, Dequeued DEF x
<1>9. /\ result' \in [Calls -> {"none", "live", "spent"}] /\ result'[c] = "live"
      /\ \A d \in Calls : d # c => result'[d] = result[d]
  BY <1>1, <1>2 DEF IInv, Fields
<1>10. Fields'  BY <1>1, <1>5, <1>8, <1>9 DEF IInv, Fields, Functional
<1>11. ASSUME NEW d \in Calls PROVE CallInv(d)'
  <2>1. Fields /\ CallInv(d)  BY DEF IInv
  <2>2. CASE d # c
    <3>1. SameUse(d)  BY <1>1, <1>7, <1>9, <2>2 DEF SameUse
    <3>2. x # Request(d) /\ x # Response(d, TRUE)
      BY <1>2, <2>2 DEF Request, Response
    <3>3. SameItems(d)  BY <1>8, <3>2
    <3> QED  BY <1>6, <2>1, <3>1, <3>3, CallKept
  <2>3. CASE d = c
    <3>1. Staged(c)  BY <1>2, <2>1, <2>3 DEF CallInv
    <3>2. DefaultExecutor[Sender[c]] \in Executors  BY <1>2, Places
    <3>3. Queued(c) /\ ~Queued(c)' /\ Once(Requests(c), Request(c))'
      BY <1>2, <1>8, <3>1 DEF Staged, Queued, Requests, Request
    <3>4. x # Response(c, TRUE)  BY <1>2 DEF Request, Response
    <3>5. (Answered(c)' <=> Answered(c)) /\ Once(Responses(c), Response(c, TRUE))'
      BY <1>8, <3>1, <3>2, <3>4 DEF Staged, Answered, Responses, Response
    <3>6. Arrived(c)' => Arrived(c)  BY <1>2, <1>6, WaitingFewer
    <3>7. delivered'[c] = delivered[c] /\ replies'[c] = replies[c]  BY <1>1
    <3>8. Delivered(c)' <=> Delivered(c)  BY <3>7 DEF Delivered
    <3>9. ~Answered(c)' /\ ~Arrived(c)' /\ ~Delivered(c)'
      BY <3>1, <3>3, <3>5, <3>6, <3>8 DEF Staged, OneStage
    <3>10. OneStage(c)'  BY <3>3, <3>9 DEF OneStage
    <3>11. Staged(c)'  BY <3>1, <3>3, <3>5, <3>7, <3>9, <3>10 DEF Staged
    <3>12. Fresh(c)' /\ replies'[c] <= MaxReplies[c]
      BY <1>2, <1>7, <2>1, <2>3, <3>7 DEF Fresh, CallInv
    <3> QED  BY <1>2, <2>3, <3>11, <3>12 DEF CallInv
  <2> QED  BY <2>2, <2>3
<1> QED  BY <1>5, <1>7, <1>8, <1>10, <1>11 DEF IInv

\* A response that was enqueued with a spent callback_result invokes nothing.
LEMMA RunSpentStep ==
  ASSUME IInv, NEW t \in Threads, NEW e \in Executors, RunResponse(t, e), ~Head(queue[e]).live
  PROVE  IInv'
<1> DEFINE x == Head(queue[e])
<1>1. /\ queue[e] # << >> /\ x.task = "response"
      /\ queue' = [queue EXCEPT ![e] = Tail(queue[e])]
      /\ UNCHANGED <<stack, alive, ptr_, lifetime, result, replies, delivered, crashed>>
  BY DEF RunResponse
<1>2. \A d \in Calls : x # Request(d) /\ x # Response(d, TRUE)
  BY <1>1 DEF Request, Response
<1> HIDE DEF x
<1>3. /\ queue' = [d \in Executors |-> queue'[d]]
      /\ \A d \in Executors : queue'[d] \in Seq(ItemsOf[d])
      /\ \A d \in Calls : x # Request(d) /\ x # Response(d, TRUE) => SameItems(d)
  BY <1>1, Dequeued DEF x
<1>4. /\ Sent' = Sent /\ FramesOf' = FramesOf /\ ItemsOf' = ItemsOf  BY <1>1, SameSent
<1>5. Fields'  BY <1>1, <1>3 DEF IInv, Fields
<1>6. ASSUME NEW d \in Calls PROVE CallInv(d)'
  <2>1. Fields /\ CallInv(d)  BY DEF IInv
  <2>2. SameUse(d) /\ FewerWaits(d)  BY <1>1, <1>4 DEF SameUse, FewerWaits
  <2>3. SameItems(d)  BY <1>2, <1>3
  <2> QED  BY <2>1, <2>2, <2>3, CallKept
<1>7. Stacked(stack', FramesOf)  BY <1>1, StackFields
<1> QED  BY <1>3, <1>4, <1>5, <1>6, <1>7 DEF IInv

\* The first answer leaves the queue, and its frame waits to invoke.
LEMMA RunLiveStep ==
  ASSUME IInv, NEW t \in Threads, NEW e \in Executors, RunResponse(t, e), Head(queue[e]).live
  PROVE  IInv'
<1> DEFINE x == Head(queue[e])
<1>1. /\ queue[e] # << >> /\ x.task = "response" /\ stack[t] = << >> /\ Thread[e] = t
      /\ queue' = [queue EXCEPT ![e] = Tail(queue[e])]
      /\ stack' = Put(stack, t, Plus(Frame("response", x.call), stack[t]))
      /\ UNCHANGED <<alive, ptr_, lifetime, result, replies, delivered, crashed>>
  BY DEF RunResponse, Idle, Push, Put, Plus
<1>2. PICK c \in Calls : /\ c = x.call /\ c \in Sent /\ ~mutual_executor(c)
                         /\ x = Response(c, TRUE) /\ e = DefaultExecutor[Sender[c]]
  BY <1>1, HeadItem
<1> DEFINE f == Frame("response", c)
<1>3. Functional(stack) /\ Stacked(stack, FramesOf)  BY StackFields
<1>4. f \in FramesOf[t] /\ f.of = c /\ t = Home(Sender[c])
  BY <1>1, <1>2 DEF FramesOf, Frames, Frame, WaitAt, Home
<1> HIDE DEF f, x
<1>5. Functional(stack') /\ Stacked(stack', FramesOf) /\ Instead(stack, stack', t, f)
  BY <1>1, <1>2, <1>3, <1>4, PushStack DEF f
<1>6. \A d \in Calls : d # c => FewerWaits(d)  BY <1>4, <1>5, InsteadFewer
<1>7. /\ Sent' = Sent /\ FramesOf' = FramesOf /\ ItemsOf' = ItemsOf  BY <1>1, SameSent
<1>8. /\ queue' = [d \in Executors |-> queue'[d]]
      /\ \A d \in Executors : queue'[d] \in Seq(ItemsOf[d])
      /\ \A d \in Calls : x # Request(d) /\ x # Response(d, TRUE) => SameItems(d)
      /\ \A d \in Executors : \A y : Once(queue[d], y) => Once(queue'[d], y)
      /\ \A d \in Executors : \A y : d # e \/ y # x => (Has(queue'[d], y) <=> Has(queue[d], y))
      /\ \A y : y = x /\ Once(queue[e], y) => Has(queue[e], y) /\ ~Has(queue'[e], y)
  BY <1>1, Dequeued DEF x
<1>9. Fields'  BY <1>1, <1>5, <1>8 DEF IInv, Fields, Functional
<1>10. ASSUME NEW d \in Calls PROVE CallInv(d)'
  <2>1. Fields /\ CallInv(d)  BY DEF IInv
  <2>2. CASE d # c
    <3>1. SameUse(d)  BY <1>1, <1>7 DEF SameUse
    <3>2. x # Request(d) /\ x # Response(d, TRUE)
      BY <1>2, <2>2 DEF Request, Response
    <3>3. SameItems(d)  BY <1>8, <3>2
    <3> QED  BY <1>6, <2>1, <2>2, <3>1, <3>3, CallKept
  <2>3. CASE d = c
    <3>1. Staged(c)  BY <1>2, <2>1, <2>3 DEF CallInv
    <3>2. receiver_executor(c) \in Executors  BY <1>2, Places
    <3>3. Answered(c) /\ ~Answered(c)' /\ Once(Responses(c), Response(c, TRUE))'
      BY <1>2, <1>8, <3>1 DEF Staged, Answered, Responses, Response
    <3>4. x # Request(c)  BY <1>2 DEF Request, Response
    <3>5. (Queued(c)' <=> Queued(c)) /\ Once(Requests(c), Request(c))'
      BY <1>8, <3>1, <3>2, <3>4 DEF Staged, Queued, Requests, Request
    <3>6. /\ delivered'[c] = delivered[c] /\ replies'[c] = replies[c]
          /\ result'[c] = result[c]
      BY <1>1
    <3>7. (Delivered(c)' <=> Delivered(c)) /\ (Live(c)' <=> Live(c))
      BY <3>6 DEF Delivered, Live
    <3>8. ~Queued(c)' /\ ~Live(c)' /\ ~Delivered(c)' /\ replies'[c] # 0
      BY <3>1, <3>3, <3>5, <3>6, <3>7 DEF Staged, OneStage
    <3>9. OneStage(c)'  BY <3>3, <3>8 DEF OneStage
    <3>10. Staged(c)'  BY <3>1, <3>3, <3>5, <3>6, <3>8, <3>9 DEF Staged
    <3>11. Fresh(c)' /\ replies'[c] <= MaxReplies[c]
      BY <1>2, <1>7, <2>1, <2>3, <3>6 DEF Fresh, CallInv
    <3> QED  BY <1>2, <2>3, <3>10, <3>11 DEF CallInv
  <2> QED  BY <2>2, <2>3
<1> QED  BY <1>5, <1>7, <1>8, <1>9, <1>10 DEF IInv

\* An answer leaves the queue, of either kind.
LEMMA RunResponseStep ==
  ASSUME IInv, NEW t \in Threads, NEW e \in Executors, RunResponse(t, e)
  PROVE  IInv'
BY RunSpentStep, RunLiveStep

\* A use of a callback_result: what both kinds of answers write.
LEMMA ReplyFields ==
  ASSUME IInv, NEW t \in Threads, NEW c \in Calls, Reply(t, c)
  PROVE  /\ stack[t] # << >> /\ Head(stack[t]).at \in CodeAt /\ c \in Sent
         /\ replies' \in [Calls -> Nat] /\ replies'[c] = replies[c] + 1
         /\ replies'[c] <= MaxReplies[c] /\ replies[c] \in Nat /\ delivered[c] \in Nat
         /\ \A d \in Calls : d # c => replies'[d] = replies[d]
         /\ UNCHANGED <<alive, ptr_, lifetime, delivered, crashed>>
<1>1. stack[t] # << >> /\ Head(stack[t]).at \in CodeAt
  BY Places, RunsCode DEF Reply
<1>2. c \in Sent  BY DEF Reply, IInv, CallInv, Fresh
<1>3. replies \in [Calls -> Nat] /\ delivered \in [Calls -> Nat] /\ MaxReplies[c] \in Nat
  BY AsyncQueryAssumption DEF IInv, Fields
<1> QED  BY <1>1, <1>2, <1>3 DEF Reply

\* A direct answer: one use more, and one frame more that waits to invoke.
LEMMA DirectReplyStep ==
  ASSUME IInv, NEW t \in Threads, NEW c \in Calls, Reply(t, c), mutual_executor(c)
  PROVE  IInv'
<1> DEFINE f == Frame("response", c)
<1>1. /\ stack[t] # << >> /\ Head(stack[t]).at \in CodeAt /\ c \in Sent
      /\ replies' \in [Calls -> Nat] /\ replies'[c] = replies[c] + 1
      /\ replies'[c] <= MaxReplies[c] /\ replies[c] \in Nat /\ delivered[c] \in Nat
      /\ \A d \in Calls : d # c => replies'[d] = replies[d]
      /\ UNCHANGED <<alive, ptr_, lifetime, delivered, crashed>>
  BY ReplyFields
<1>2. /\ UNCHANGED <<queue, result>>
      /\ stack' = Put(stack, t, Plus(f, stack[t]))
  BY DEF Reply, Push, Put, Plus
<1>3. Functional(stack) /\ Stacked(stack, FramesOf)  BY StackFields
<1>4. f \in FramesOf[t] /\ f.at \in WaitAt /\ f.of = c
  BY <1>1 DEF FramesOf, Frames, Frame, WaitAt
<1> HIDE DEF f
<1>5. /\ Functional(stack') /\ Stacked(stack', FramesOf) /\ Quiet(stack, t)
      /\ Instead(stack, stack', t, f)
  BY <1>1, <1>2, <1>3, <1>4, PushStack
<1>6. \A d \in Calls : d # c => FewerWaits(d)  BY <1>4, <1>5, InsteadFewer
<1>7. /\ Sent' = Sent /\ FramesOf' = FramesOf /\ ItemsOf' = ItemsOf  BY <1>1, SameSent
<1>8. Fields'  BY <1>1, <1>2, <1>5 DEF IInv, Fields, Functional
<1>9. ASSUME NEW d \in Calls PROVE CallInv(d)'
  <2>1. Fields /\ CallInv(d)  BY DEF IInv
  <2>2. CASE d # c
    <3>1. SameUse(d)  BY <1>1, <1>2, <1>7, <2>2 DEF SameUse
    <3>2. SameItems(d)  BY <1>2, SameQueue
    <3> QED  BY <1>6, <2>1, <2>2, <3>1, <3>2, CallKept
  <2>3. CASE d = c
    <3>1. Counted(c)  BY <2>1, <2>3 DEF CallInv
    <3>2. t \notin Waiting(c)  BY <1>5 DEF Waiting, Waits, Quiet
    <3>3. Waiting(c)' = Waiting(c) \cup {t}
      BY <1>4, <1>5 DEF Instead, Waiting
    <3>4. /\ IsFiniteSet(Waiting(c)') /\ Cardinality(Waiting(c)') = Cardinality(Waiting(c)) + 1
          /\ Cardinality(Waiting(c)) \in Nat
      BY <3>1, <3>2, <3>3, FS_AddElement, FS_CardinalityType DEF Counted
    <3>5. Counted(c)'  BY <1>1, <3>1, <3>4 DEF Counted
    <3>6. Fresh(c)'  BY <1>1, <1>7 DEF Fresh
    <3> QED  BY <1>1, <2>3, <3>5, <3>6 DEF CallInv
  <2> QED  BY <2>2, <2>3
<1>10. \A e \in Executors : queue'[e] \in Seq(ItemsOf'[e])
  BY <1>2, <1>7 DEF IInv
<1> QED  BY <1>5, <1>7, <1>8, <1>9, <1>10 DEF IInv

\* An answer that is queued takes what the callback_result held.
LEMMA QueuedReplyStep ==
  ASSUME IInv, NEW t \in Threads, NEW c \in Calls, Reply(t, c), ~mutual_executor(c)
  PROVE  IInv'
<1> DEFINE e == DefaultExecutor[Sender[c]]
           x == Response(c, Live(c))
           f == Frame("enqueued", c)
<1>1. /\ stack[t] # << >> /\ Head(stack[t]).at \in CodeAt /\ c \in Sent
      /\ replies' \in [Calls -> Nat] /\ replies'[c] = replies[c] + 1
      /\ replies'[c] <= MaxReplies[c] /\ replies[c] \in Nat /\ delivered[c] \in Nat
      /\ \A d \in Calls : d # c => replies'[d] = replies[d]
      /\ UNCHANGED <<alive, ptr_, lifetime, delivered, crashed>>
  BY ReplyFields
<1>2. /\ Enqueue(e, x) /\ result' = [result EXCEPT ![c] = "spent"]
      /\ stack' = Put(stack, t, Plus(f, stack[t]))
  BY DEF Reply, Push, Put, Plus, Live
<1>3. Functional(stack) /\ Stacked(stack, FramesOf)  BY StackFields
<1>4. f \in FramesOf[t] /\ f.at \notin WaitAt
  BY <1>1 DEF FramesOf, Frames, Frame, WaitAt
<1>5. /\ e \in Executors /\ receiver_executor(c) \in Executors
      /\ Sent' = Sent /\ FramesOf' = FramesOf /\ ItemsOf' = ItemsOf
  BY <1>1, Places, SameSent
<1>6. x \in ItemsOf[e]
  BY <1>1, <1>5 DEF ItemsOf, Items, Response, Live
<1>7. /\ \A d \in Calls : x # Request(d)
      /\ \A d \in Calls : d # c => x # Response(d, TRUE)
      /\ x = Response(c, TRUE) <=> Live(c)
  BY DEF Request, Response, Live
<1> HIDE DEF f, x
<1>8. Functional(stack') /\ Stacked(stack', FramesOf) /\ Instead(stack, stack', t, f)
  BY <1>1, <1>2, <1>3, <1>4, PushStack
<1>9. \A d \in Calls : FewerWaits(d)  BY <1>4, <1>8, InsteadFewer
<1>10. /\ queue' = [d \in Executors |-> queue'[d]]
       /\ \A d \in Executors : queue'[d] \in Seq(ItemsOf[d])
       /\ \A d \in Calls : x # Request(d) /\ x # Response(d, TRUE) => SameItems(d)
       /\ \A d \in Executors : \A y : Has(queue'[d], y) <=> Has(queue[d], y) \/ (d = e /\ y = x)
       /\ \A d \in Executors : \A y : Once(queue[d], y) /\ (d = e /\ y = x => ~Has(queue[d], y))
                                       => Once(queue'[d], y)
  BY <1>2, <1>5, <1>6, Enqueued
<1>11. /\ result' \in [Calls -> {"none", "live", "spent"}] /\ result'[c] = "spent"
       /\ \A d \in Calls : d # c => result'[d] = result[d]
  BY <1>2 DEF IInv, Fields
<1>12. Fields'  BY <1>1, <1>8, <1>10, <1>11 DEF IInv, Fields, Functional
<1>13. ASSUME NEW d \in Calls PROVE CallInv(d)'
  <2>1. Fields /\ CallInv(d)  BY DEF IInv
  <2>2. CASE d # c
    <3>1. SameUse(d)  BY <1>1, <1>5, <1>11, <2>2 DEF SameUse
    <3>2. SameItems(d)  BY <1>7, <1>10, <2>2
    <3> QED  BY <1>9, <2>1, <3>1, <3>2, CallKept
  <2>3. CASE d = c
    <3>1. Staged(c)  BY <2>1, <2>3 DEF CallInv
    <3>2. (Answered(c)' <=> Answered(c) \/ Live(c)) /\ Once(Responses(c), Response(c, TRUE))'
      <4>1. PICK y : y = Response(c, TRUE)  OBVIOUS
      <4>2. Once(queue[e], y) /\ (Live(c) => ~Has(queue[e], y))
        BY <3>1, <4>1 DEF Staged, OneStage, Answered, Responses
      <4>3. x = y <=> Live(c)  BY <1>7, <4>1
      <4>4. Has(queue'[e], y) <=> Has(queue[e], y) \/ Live(c)
        BY <1>5, <1>10, <4>3
      <4>5. Once(queue'[e], y)  BY <1>5, <1>10, <4>2, <4>3
      <4>6. Answered(c) <=> Has(queue[e], y)  BY <4>1 DEF Answered, Responses
      <4>7. Answered(c)' <=> Has(queue'[e], y)
        BY <4>1 DEF Answered, Responses, Response
      <4>8. Once(Responses(c), Response(c, TRUE))'
        BY <4>1, <4>5 DEF Responses, Response
      <4> QED  BY <4>4, <4>6, <4>7, <4>8
    <3>3. (Queued(c)' <=> Queued(c)) /\ Once(Requests(c), Request(c))'
      BY <1>5, <1>7, <1>10, <3>1 DEF Staged, Queued, Requests, Request
    <3>4. Arrived(c)' => Arrived(c)  BY <1>9, WaitingFewer
    <3>5. (Delivered(c)' <=> Delivered(c)) /\ ~Live(c)'
      BY <1>1, <1>11 DEF Delivered, Live
    <3>6. OneStage(c)'
      BY <3>1, <3>2, <3>3, <3>4, <3>5 DEF Staged, OneStage
    <3>7. delivered'[c] <= 1 /\ replies'[c] # 0
      BY <1>1, <3>1 DEF Staged
    <3>8. Staged(c)'  BY <3>2, <3>3, <3>6, <3>7 DEF Staged
    <3>9. Fresh(c)'  BY <1>1, <1>5 DEF Fresh
    <3> QED  BY <1>1, <2>3, <3>8, <3>9 DEF CallInv
  <2> QED  BY <2>2, <2>3
<1> QED  BY <1>5, <1>8, <1>10, <1>12, <1>13 DEF IInv

\* An answer, of either kind.
LEMMA ReplyStep ==
  ASSUME IInv, NEW t \in Threads, NEW c \in Calls, Reply(t, c)
  PROVE  IInv'
BY DirectReplyStep, QueuedReplyStep

\* The frame that waited invokes the callback: it is used, and counted.
LEMMA InvokeStep ==
  ASSUME IInv, NEW t \in Threads, Invoke(t)
  PROVE  IInv'
<1>1. /\ stack[t] # << >> /\ Top(t) = Head(stack[t]) /\ Top(t).at = "checked"
      /\ Top(t) \in FramesOf[t]
  BY StackFields DEF Invoke, In, Top
<1>2. PICK c \in Calls : c = Top(t).of /\ c \in Sent /\ (~mutual_executor(c) => t = Home(Sender[c]))
  BY <1>1 DEF FramesOf, Frames, WaitAt, Sent
<1> DEFINE f == Frame("callback", c)
<1>3. /\ stack' = Put(stack, t, Plus(f, Tail(stack[t])))
      /\ delivered' = [delivered EXCEPT ![c] = delivered[c] + 1]
      /\ UNCHANGED <<queue, alive, ptr_, lifetime, result, replies, crashed>>
  BY <1>2 DEF Invoke, Become, Put, Plus
<1>4. Functional(stack) /\ Stacked(stack, FramesOf)  BY StackFields
<1>5. f \in FramesOf[t] /\ f.at \notin WaitAt
  BY <1>2 DEF FramesOf, Frames, Frame, WaitAt
<1> HIDE DEF f
<1>6. Functional(stack') /\ Stacked(stack', FramesOf) /\ Instead(stack, stack', t, f)
  BY <1>1, <1>3, <1>4, <1>5, BecomeStack
<1>7. \A d \in Calls : FewerWaits(d)  BY <1>5, <1>6, InsteadFewer
<1>8. /\ Sent' = Sent /\ FramesOf' = FramesOf /\ ItemsOf' = ItemsOf  BY <1>3, SameSent
<1>9. /\ delivered' \in [Calls -> Nat] /\ delivered'[c] = delivered[c] + 1
      /\ \A d \in Calls : d # c => delivered'[d] = delivered[d]
      /\ delivered[c] \in Nat /\ replies[c] \in Nat
  BY <1>3 DEF IInv, Fields
<1>10. Fields'  BY <1>3, <1>6, <1>9 DEF IInv, Fields, Functional
<1>11. Waits(stack[t], c) /\ ~Waits(stack'[t], c)
  BY <1>1, <1>2, <1>5, <1>6 DEF Waits, WaitAt, Instead
<1>12. ASSUME NEW d \in Calls PROVE CallInv(d)'
  <2>1. Fields /\ CallInv(d)  BY DEF IInv
  <2>2. SameItems(d)  BY <1>3, SameQueue
  <2>3. CASE d # c
    <3>1. SameUse(d)  BY <1>3, <1>8, <1>9, <2>3 DEF SameUse
    <3> QED  BY <1>7, <2>1, <2>2, <3>1, CallKept
  <2>4. CASE d = c
    <3>1. Fresh(c)' /\ replies'[c] <= MaxReplies[c]
      BY <1>2, <1>3, <1>8, <2>1, <2>4 DEF Fresh, CallInv
    <3>2. CASE mutual_executor(c)
      <4>1. Counted(c)  BY <2>1, <2>4, <3>2 DEF CallInv
      <4>2. t \in Waiting(c) /\ Waiting(c)' = Waiting(c) \ {t}
        BY <1>5, <1>6, <1>11 DEF Waiting, Instead
      <4>3. /\ IsFiniteSet(Waiting(c)') /\ Cardinality(Waiting(c)') = Cardinality(Waiting(c)) - 1
            /\ Cardinality(Waiting(c)) \in Nat
        BY <4>1, <4>2, FS_RemoveElement, FS_CardinalityType DEF Counted
      <4>4. Counted(c)'  BY <1>3, <1>9, <4>1, <4>3 DEF Counted
      <4> QED  BY <2>4, <3>1, <3>2, <4>4 DEF CallInv
    <3>3. CASE ~mutual_executor(c)
      <4>1. Staged(c)  BY <2>1, <2>4, <3>3 DEF CallInv
      <4>2. Arrived(c) /\ ~Arrived(c)'  BY <1>2, <1>11, <3>3 DEF Arrived
      <4>3. ~Queued(c) /\ ~Live(c) /\ ~Answered(c) /\ ~Delivered(c) /\ replies[c] # 0
        BY <4>1, <4>2 DEF Staged, OneStage
      <4>4. ~Queued(c)' /\ ~Live(c)' /\ ~Answered(c)'
        BY <1>3, <2>2, <2>4, <4>3 DEF SameItems, Live
      <4>5. /\ OneStage(c)'
            /\ Once(Requests(c), Request(c))' /\ Once(Responses(c), Response(c, TRUE))'
        BY <2>2, <2>4, <4>1, <4>2, <4>4 DEF OneStage, Staged, SameItems
      <4>6. delivered[c] = 0  BY <4>3 DEF Delivered
      <4>7. delivered'[c] <= 1 /\ replies'[c] # 0  BY <1>3, <1>9, <4>3, <4>6
      <4>8. Staged(c)'  BY <4>5, <4>7 DEF Staged
      <4> QED  BY <2>4, <3>1, <3>3, <4>8 DEF CallInv
    <3> QED  BY <3>2, <3>3
  <2> QED  BY <2>3, <2>4
<1>13. \A e \in Executors : queue'[e] \in Seq(ItemsOf'[e])
  BY <1>3, <1>8 DEF IInv
<1> QED  BY <1>6, <1>8, <1>10, <1>12, <1>13 DEF IInv
-----------------------------------------------------------------------------
\* At first nothing is called, queued or running.
LEMMA InitInv == Init => IInv
<1> SUFFICES ASSUME Init PROVE IInv  OBVIOUS
<1>1. \A t \in Threads : stack[t] = << >>  BY DEF Init
<1>2. \A e \in Executors : queue[e] = << >>  BY DEF Init
<1>3. Fields  BY DEF Init, Fields
<1>4. \A e \in Executors : queue[e] \in Seq(ItemsOf[e])  BY <1>2, EmptySeq
<1>5. Stacked(stack, FramesOf)
  <2>1. \A F : << >> \in Layered(F)  BY EmptySeq DEF Layered
  <2> QED  BY <1>1, <2>1 DEF Stacked
<1>6. ASSUME NEW c \in Calls PROVE CallInv(c)
  <2>1. /\ result[c] = "none" /\ replies[c] = 0 /\ delivered[c] = 0 /\ MaxReplies[c] \in Nat
        /\ receiver_executor(c) \in Executors /\ DefaultExecutor[Sender[c]] \in Executors
        /\ Home(Sender[c]) \in Threads
    BY Places, AsyncQueryAssumption DEF Init
  <2>2. Fresh(c) /\ replies[c] <= MaxReplies[c]  BY <2>1 DEF Fresh
  <2>3. \A u \in Threads : ~Waits(stack[u], c)  BY <1>1 DEF Waits
  <2>4. Waiting(c) = {} /\ ~Arrived(c)  BY <2>1, <2>3 DEF Waiting, Arrived
  <2>5. Counted(c)  BY <2>1, <2>4, FS_EmptySet DEF Counted
  <2>6. /\ ~Queued(c) /\ ~Answered(c)
        /\ Once(Requests(c), Request(c)) /\ Once(Responses(c), Response(c, TRUE))
    <3>1. \A y : ~Has(<< >>, y) /\ Once(<< >>, y)  BY EmptySeq DEF Has, Once
    <3> QED  BY <1>2, <2>1, <3>1 DEF Queued, Answered, Requests, Responses
  <2>7. ~Live(c) /\ ~Delivered(c)  BY <2>1 DEF Live, Delivered
  <2>8. OneStage(c)  BY <2>4, <2>6, <2>7 DEF OneStage
  <2>9. delivered[c] <= 1  BY <2>1
  <2>10. Staged(c)  BY <2>4, <2>6, <2>7, <2>8, <2>9 DEF Staged
  <2> QED  BY <2>2, <2>5, <2>10 DEF CallInv
<1> QED  BY <1>3, <1>4, <1>5, <1>6 DEF IInv

\* Every step keeps it.
LEMMA NextInv == IInv /\ [Next]_vars => IInv'
<1> SUFFICES ASSUME IInv, [Next]_vars PROVE IInv'  OBVIOUS
<1>1. CASE UNCHANGED vars
  <2>1. /\ Functional(stack) /\ Stacked(stack, FramesOf)
        /\ alive \subseteq Components /\ ptr_ \in [Lifetimes -> Nat] /\ crashed \in BOOLEAN
        /\ result \in [Calls -> {"none", "live", "spent"}]
    BY StackFields
  <2>2. \A c \in Calls : FewerWaits(c)  BY <1>1 DEF FewerWaits, vars
  <2> QED  BY <1>1, <2>1, <2>2, QuietStep DEF vars
<1>2. ASSUME NEW t \in Threads, Internal(t) PROVE IInv'
  BY <1>2, ListenerStep, CheckLifetimeStep, InvokeStep, ReturnStep DEF Internal
<1>3. ASSUME NEW t \in Threads, NEW comp \in Components, Update(t, comp) PROVE IInv'
  BY <1>3, UpdateStep
<1>4. ASSUME NEW t \in Threads, NEW c \in Calls, Call(t, c) \/ Reply(t, c) PROVE IInv'
  BY <1>4, CallStep, ReplyStep
<1>5. ASSUME NEW t \in Threads, NEW e \in Executors, Run(t, e) PROVE IInv'
  BY <1>5, RunRequestStep, RunResponseStep DEF Run
<1>6. ASSUME NEW t \in Threads, NEW l \in Lifetimes, Reset(t, l) PROVE IInv'
  BY <1>6, ResetStep
<1>7. ASSUME NEW comp \in Components, Destroy(comp) PROVE IInv'
  BY <1>7, DestroyStep
<1> QED  BY <1>1, <1>2, <1>3, <1>4, <1>5, <1>6, <1>7 DEF Next

\* IInv holds in every state.
LEMMA Inductive == SafeSpec => []IInv
BY InitInv, NextInv, PTL DEF SafeSpec

\* The types of TypeOK, with its bound: a callback is not invoked more often than
\* its callback_result was used.
LEMMA Typed == IInv => TypeOK
<1> SUFFICES ASSUME IInv PROVE TypeOK  OBVIOUS
<1>1. queue \in [Executors -> Seq(Items)]
  <2>1. \A e \in Executors : queue[e] \in Seq(ItemsOf[e]) /\ ItemsOf[e] \subseteq Items
    BY DEF IInv, ItemsOf
  <2>2. \A e \in Executors : queue[e] \in Seq(Items)  BY <2>1, SeqMonotonic
  <2> QED  BY <2>2 DEF IInv, Fields
<1>2. stack \in [Threads -> Seq(Frames)]
  <2>1. \A t \in Threads : stack[t] \in Seq(FramesOf[t]) /\ FramesOf[t] \subseteq Frames
    BY DEF IInv, Stacked, Layered, FramesOf
  <2>2. \A t \in Threads : stack[t] \in Seq(Frames)  BY <2>1, SeqMonotonic
  <2> QED  BY <2>2 DEF IInv, Fields
<1>3. ASSUME NEW c \in Calls
      PROVE  replies[c] \in 0..MaxReplies[c] /\ delivered[c] \in 0..replies[c]
  <2>1. replies[c] \in Nat /\ delivered[c] \in Nat /\ MaxReplies[c] \in Nat
    BY AsyncQueryAssumption DEF IInv, Fields
  <2>2. CallInv(c)  BY DEF IInv
  <2>3. delivered[c] <= replies[c]
    <3>1. CASE mutual_executor(c)
      <4>1. Counted(c)  BY <2>2, <3>1 DEF CallInv
      <4>2. Cardinality(Waiting(c)) \in Nat  BY <4>1, FS_CardinalityType DEF Counted
      <4> QED  BY <2>1, <4>1, <4>2 DEF Counted
    <3>2. CASE ~mutual_executor(c)
      <4>1. delivered[c] <= 1 /\ (delivered[c] # 0 => replies[c] # 0)
        BY <2>2, <3>2 DEF CallInv, Staged, Delivered
      <4> QED  BY <2>1, <4>1
    <3> QED  BY <3>1, <3>2
  <2> QED  BY <2>1, <2>2, <2>3 DEF CallInv
<1> QED  BY <1>1, <1>2, <1>3 DEF IInv, Fields, TypeOK, Frames, Items

\* The fields have their types; frames and work items are of calls that were made,
\* and no callback is invoked more often than its callback_result was used.
THEOREM TypeCorrect == SafeSpec => []TypeOK
BY Inductive, Typed, PTL

\* However often a callback_result is used (callback.h), a callback that goes through
\* the queue of the sender is invoked once at most.
THEOREM CallbackAtMostOnce == SafeSpec => []AtMostOnce
<1>1. IInv => AtMostOnce
  BY DEF IInv, CallInv, Staged, AtMostOnce
<1> QED  BY <1>1, Inductive, PTL

\* What CallbackOnSenderThread says, of the calls that go through queues: those need
\* nothing of the threads that run the components.
QueuedOnThreads == \A t \in Threads : \A i \in 1..Len(stack[t]) :
    LET f == stack[t][i] IN
    /\ f.at = "callback" /\ ~mutual_executor(f.of) => t = Home(Sender[f.of])
    /\ f.at = "handler" /\ ~mutual_executor(f.of) => t = Thread[receiver_executor(f.of)]

\* A queued request is handled on the thread of the receiver's executor, and its
\* callback invoked on the thread of the sender's, on whatever threads the
\* components run otherwise.
THEOREM QueuedCallsOnThreads == SafeSpec => []QueuedOnThreads
<1>1. ASSUME IInv PROVE QueuedOnThreads
  <2> SUFFICES ASSUME NEW t \in Threads, NEW i \in 1..Len(stack[t])
               PROVE  LET f == stack[t][i] IN
                      /\ f.at = "callback" /\ ~mutual_executor(f.of) => t = Home(Sender[f.of])
                      /\ f.at = "handler" /\ ~mutual_executor(f.of)
                           => t = Thread[receiver_executor(f.of)]
    BY DEF QueuedOnThreads
  <2>1. stack[t] \in Seq(FramesOf[t])  BY <1>1 DEF IInv, Stacked, Layered
  <2>2. stack[t][i] \in FramesOf[t]  BY <2>1, ElementOfSeq
  <2> QED  BY <2>2 DEF FramesOf
<1> QED  BY <1>1, Inductive, PTL
-----------------------------------------------------------------------------
\* Nothing is lost. A call that was made is in the queue, at its handler, or its
\* receiver is gone; an answer that was given is in the queue, on a stack, with the
\* callback, or expired. A callback_result is spent by a use only, and a lifetime
\* that has expired does not come back.
Kept(c) ==
    /\ c \in Sent => lifetime[c] <= ptr_[Lifetime[c]]
    /\ c \in Sent => Queued(c) \/ result[c] # "none" \/ Receiver[c] \notin alive
    /\ result[c] = "spent" => replies[c] # 0
    /\ replies[c] # 0 =>
         \/ Answered(c) \/ Delivered(c) \/ expired(c)
         \/ \E u \in Threads : Waits(stack[u], c)

KInv == \A c \in Calls : Kept(c)

\* The frames that wait for c go on waiting.
MoreWaits(c) == \A u \in Threads : Waits(stack[u], c) => Waits(stack'[u], c)

\* A step that is not about the call c, but may reset its lifetime and destroy its
\* receiver.
Undisturbed(c) ==
    /\ lifetime'[c] = lifetime[c] /\ replies'[c] = replies[c] /\ delivered'[c] = delivered[c]
    /\ ptr_'[Lifetime[c]] \in Nat /\ ptr_[Lifetime[c]] <= ptr_'[Lifetime[c]]
    /\ alive' \subseteq alive
    /\ result'[c] = result[c] \/ (result'[c] = "none" /\ Receiver[c] \notin alive')
    /\ SameItems(c)
    /\ MoreWaits(c) \/ expired(c)

\* What a lifetime of a call that was made is.
LEMMA SentLifetime ==
  ASSUME IInv, NEW c \in Calls
  PROVE  /\ ptr_[Lifetime[c]] \in Nat
         /\ c \in Sent => lifetime[c] \in Nat
         /\ replies[c] # 0 => c \in Sent
<1>1. lifetime[c] \in Nat \cup {None} /\ ptr_[Lifetime[c]] \in Nat
  BY Places DEF IInv, Fields
<1>2. replies[c] # 0 => c \in Sent  BY DEF IInv, CallInv, Fresh
<1> QED  BY <1>1, <1>2 DEF Sent

\* The frames that wait are still there after a step of a stack whose old frame did
\* not wait for c, or whose new one does.
LEMMA InsteadMore ==
  ASSUME NEW t \in Threads, NEW f, Instead(stack, stack', t, f), NEW c \in Calls,
         Waits(stack[t], c) => f.at \in WaitAt /\ f.of = c
  PROVE  MoreWaits(c)
BY DEF Instead, MoreWaits

\* Nothing of a call is lost by a step that is not about it.
LEMMA KeptStays ==
  ASSUME IInv, NEW c \in Calls, Kept(c), Undisturbed(c)
  PROVE  Kept(c)'
<1>1. /\ ptr_[Lifetime[c]] \in Nat /\ (c \in Sent => lifetime[c] \in Nat)
      /\ (replies[c] # 0 => c \in Sent)
  BY SentLifetime
<1>2. c \in Sent' <=> c \in Sent  BY DEF Undisturbed, Sent
<1>3. c \in Sent => lifetime'[c] <= ptr_'[Lifetime[c]]
  BY <1>1 DEF Kept, Undisturbed
<1>4. c \in Sent => Queued(c)' \/ result'[c] # "none" \/ Receiver[c] \notin alive'
  BY DEF Kept, Undisturbed, SameItems
<1>5. result'[c] = "spent" => replies'[c] # 0
  BY DEF Kept, Undisturbed
<1>6. c \in Sent /\ expired(c) => expired(c)'
  BY <1>1 DEF Kept, Undisturbed, expired
<1>7. ASSUME replies'[c] # 0
      PROVE  \/ Answered(c)' \/ Delivered(c)' \/ expired(c)'
             \/ \E u \in Threads : Waits(stack'[u], c)
  <2>1. c \in Sent /\ replies[c] # 0  BY <1>1, <1>7 DEF Undisturbed
  <2>2. (Answered(c) => Answered(c)') /\ (Delivered(c) => Delivered(c)')
    BY DEF Undisturbed, SameItems, Delivered
  <2>3. (\E u \in Threads : Waits(stack[u], c))
           => expired(c) \/ \E u \in Threads : Waits(stack'[u], c)
    BY DEF Undisturbed, MoreWaits
  <2> QED  BY <1>6, <2>1, <2>2, <2>3 DEF Kept
<1>8. (\E u \in Threads : Waits(stack[u], c))' <=> \E u \in Threads : Waits(stack'[u], c)
  BY DEF Waits
<1> QED  BY <1>2, <1>3, <1>4, <1>5, <1>7, <1>8 DEF Kept

\* A step of the stacks alone.
LEMMA KeptOnStacks ==
  ASSUME IInv, KInv, UNCHANGED <<queue, alive, ptr_, lifetime, result, replies, delivered>>,
         \A c \in Calls : MoreWaits(c) \/ expired(c)
  PROVE  KInv'
<1> SUFFICES ASSUME NEW c \in Calls PROVE Kept(c)'  BY DEF KInv
<1>1. ptr_[Lifetime[c]] \in Nat  BY SentLifetime
<1>2. SameItems(c)  BY SameQueue
<1>3. Undisturbed(c)  BY <1>1, <1>2 DEF Undisturbed
<1> QED  BY <1>3, KeptStays DEF KInv

\* The stacks stay.
LEMMA SameWaits ==
  ASSUME UNCHANGED stack, NEW c \in Calls
  PROVE  MoreWaits(c)
BY DEF MoreWaits

\* A component acts on its own: on a stack where nothing waits.
LEMMA KeptUpdate ==
  ASSUME IInv, KInv, NEW t \in Threads, NEW comp \in Components, Update(t, comp)
  PROVE  KInv'
<1> DEFINE f == Frame("update", comp)
<1>1. Functional(stack) /\ Stacked(stack, FramesOf)  BY StackFields
<1>2. f \in FramesOf[t]  BY DEF FramesOf, Frames, Frame, WaitAt
<1>3. stack' = Put(stack, t, Plus(f, stack[t])) /\ stack[t] = << >>
  BY DEF Update, Idle, Push, Put, Plus
<1> HIDE DEF f
<1>4. Instead(stack, stack', t, f)  BY <1>1, <1>2, <1>3, PushStack
<1>5. \A c \in Calls : MoreWaits(c)
  BY <1>3, <1>4, InsteadMore DEF Waits
<1> QED  BY <1>5, KeptOnStacks DEF Update

\* A frame that does not wait, or waits for an answer that has expired, is popped.
LEMMA KeptPop ==
  ASSUME IInv, KInv, NEW t \in Threads, stack[t] # << >>, Pop(t),
         Head(stack[t]).at \notin WaitAt \/ expired(Head(stack[t]).of),
         UNCHANGED <<queue, alive, ptr_, lifetime, result, replies, delivered, crashed>>
  PROVE  KInv'
<1> DEFINE f == Frame("update", None)
<1>1. Functional(stack) /\ Stacked(stack, FramesOf)  BY StackFields
<1>2. stack' = Put(stack, t, Tail(stack[t]))  BY DEF Pop, Put
<1>3. f.at \notin WaitAt  BY DEF Frame, WaitAt
<1> HIDE DEF f
<1>4. Instead(stack, stack', t, f)  BY <1>1, <1>2, <1>3, PopStack
<1>5. ASSUME NEW c \in Calls PROVE MoreWaits(c) \/ expired(c)
  <2>1. CASE Waits(stack[t], c)  BY <2>1 DEF Waits
  <2>2. CASE ~Waits(stack[t], c)  BY <1>4, <2>2, InsteadMore
  <2> QED  BY <2>1, <2>2
<1> QED  BY <1>5, KeptOnStacks

\* Code of a component returns: it does not wait.
LEMMA KeptReturn ==
  ASSUME IInv, KInv, NEW t \in Threads, Return(t)
  PROVE  KInv'
<1>1. /\ stack[t] # << >> /\ Head(stack[t]).at \notin WaitAt /\ Pop(t)
      /\ UNCHANGED <<queue, alive, ptr_, lifetime, result, replies, delivered, crashed>>
  BY DEF Return, Top, component, WaitAt
<1> QED  BY <1>1, KeptPop

\* The end of the program leaves what there is.
LEMMA KeptCrash ==
  ASSUME IInv, KInv, Crash
  PROVE  KInv'
BY SameWaits, KeptOnStacks DEF Crash

\* The listener is looked for, and the frame of an answer that was queued is left.
LEMMA KeptListener ==
  ASSUME IInv, KInv, NEW t \in Threads, Listener(t)
  PROVE  KInv'
<1>1. stack[t] # << >> /\ Head(stack[t]).at \notin WaitAt
  BY DEF Listener, In, Top, WaitAt
<1>2. CASE Pop(t) /\ UNCHANGED <<queue, alive, ptr_, lifetime, result, replies, delivered, crashed>>
  BY <1>1, <1>2, KeptPop
<1>3. CASE Crash  BY <1>3, KeptCrash
<1> QED  BY <1>2, <1>3 DEF Listener

\* A frame that waits goes on waiting, unless its lifetime has expired.
LEMMA KeptCheckLifetime ==
  ASSUME IInv, KInv, NEW t \in Threads, CheckLifetime(t)
  PROVE  KInv'
<1> DEFINE f == Frame("checked", Top(t).of)
<1>1. /\ stack[t] # << >> /\ Head(stack[t]).at = "response" /\ Top(t) = Head(stack[t])
      /\ UNCHANGED <<queue, alive, ptr_, lifetime, result, replies, delivered, crashed>>
  BY DEF CheckLifetime, In, Top
<1>2. CASE expired(Top(t).of) /\ Pop(t)
  BY <1>1, <1>2, KeptPop
<1>3. CASE Become(t, f)
  <2>1. Functional(stack) /\ Stacked(stack, FramesOf) /\ Top(t) \in FramesOf[t]
    BY <1>1, StackFields
  <2>2. f \in FramesOf[t] /\ f.at \in WaitAt /\ f.of = Head(stack[t]).of
    BY <1>1, <2>1 DEF FramesOf, Frames, Frame, WaitAt
  <2>3. stack' = Put(stack, t, Plus(f, Tail(stack[t])))
    BY <1>3 DEF Become, Put, Plus
  <2> HIDE DEF f
  <2>4. Instead(stack, stack', t, f)  BY <1>1, <2>1, <2>2, <2>3, BecomeStack
  <2>5. \A c \in Calls : MoreWaits(c)
    BY <2>2, <2>4, InsteadMore DEF Waits
  <2> QED  BY <1>1, <2>5, KeptOnStacks
<1> QED  BY <1>2, <1>3 DEF CheckLifetime

\* A reset is for good.
LEMMA KeptReset ==
  ASSUME IInv, KInv, NEW t \in Threads, NEW l \in Lifetimes, Reset(t, l)
  PROVE  KInv'
<1> SUFFICES ASSUME NEW c \in Calls PROVE Kept(c)'  BY DEF KInv
<1>1. /\ ptr_ \in [Lifetimes -> Nat] /\ ptr_' = [ptr_ EXCEPT ![l] = ptr_[l] + 1]
      /\ UNCHANGED <<queue, stack, alive, lifetime, result, replies, delivered, crashed>>
      /\ Lifetime[c] \in Lifetimes
  BY StackFields, Places DEF Reset
<1>2. ptr_'[Lifetime[c]] \in Nat /\ ptr_[Lifetime[c]] <= ptr_'[Lifetime[c]]
  BY <1>1
<1>3. SameItems(c) /\ MoreWaits(c)  BY <1>1, SameQueue, SameWaits
<1>4. Undisturbed(c)  BY <1>1, <1>2, <1>3 DEF Undisturbed
<1> QED  BY <1>4, KeptStays DEF KInv

\* What a component held goes with it, and it is gone.
LEMMA KeptDestroy ==
  ASSUME IInv, KInv, NEW comp \in Components, Destroy(comp)
  PROVE  KInv'
<1> SUFFICES ASSUME NEW c \in Calls PROVE Kept(c)'  BY DEF KInv
<1>1. /\ ptr_ \in [Lifetimes -> Nat]
      /\ ptr_' = [l \in Lifetimes |-> ptr_[l] + IF Holder[l] = comp THEN 1 ELSE 0]
      /\ result' = [d \in Calls |-> IF Receiver[d] = comp THEN "none" ELSE result[d]]
      /\ alive' = alive \ {comp}
      /\ UNCHANGED <<queue, stack, lifetime, replies, delivered, crashed>>
      /\ Lifetime[c] \in Lifetimes
  BY StackFields, Places DEF Destroy
<1>2. ptr_'[Lifetime[c]] \in Nat /\ ptr_[Lifetime[c]] <= ptr_'[Lifetime[c]]
  BY <1>1
<1>3. SameItems(c) /\ MoreWaits(c)  BY <1>1, SameQueue, SameWaits
<1>4. result'[c] = result[c] \/ (result'[c] = "none" /\ Receiver[c] \notin alive')
  BY <1>1
<1>5. Undisturbed(c)  BY <1>1, <1>2, <1>3, <1>4 DEF Undisturbed
<1> QED  BY <1>5, KeptStays DEF KInv

\* A call is made: directly, and its callback_result is there; or into the queue.
LEMMA KeptCall ==
  ASSUME IInv, KInv, NEW t \in Threads, NEW c \in Calls, Call(t, c)
  PROVE  KInv'
<1>1. /\ stack[t] # << >> /\ Head(stack[t]).at \in CodeAt
      /\ result[c] = "none" /\ replies[c] = 0
  BY CallFields
<1>2. /\ UNCHANGED <<alive, ptr_, replies, delivered, crashed>>
      /\ lifetime' = [lifetime EXCEPT ![c] = ptr_[Lifetime[c]]]
  BY DEF Call
<1>3. /\ lifetime \in [Calls -> Nat \cup {None}] /\ result \in [Calls -> {"none", "live", "spent"}]
      /\ ptr_[Lifetime[c]] \in Nat
  BY SentLifetime DEF IInv, Fields
<1>4. /\ lifetime'[c] <= ptr_'[Lifetime[c]]
      /\ \A d \in Calls : d # c => lifetime'[d] = lifetime[d]
  BY <1>2, <1>3
\* of the call itself
<1>5. ASSUME Queued(c)' \/ result'[c] = "live", result'[c] # "spent" PROVE Kept(c)'
  BY <1>1, <1>2, <1>4, <1>5 DEF Kept
\* of another
<1>6. ASSUME NEW d \in Calls, d # c, result'[d] = result[d], SameItems(d), MoreWaits(d)
      PROVE  Kept(d)'
  <2>1. ptr_[Lifetime[d]] \in Nat  BY SentLifetime
  <2>2. Undisturbed(d)  BY <1>2, <1>4, <1>6, <2>1 DEF Undisturbed
  <2> QED  BY <2>2, KeptStays DEF KInv
<1>7. CASE mutual_executor(c)
  <2> DEFINE f == Frame("handler", c)
  <2>1. /\ UNCHANGED queue /\ result' = [result EXCEPT ![c] = "live"]
        /\ stack' = Put(stack, t, Plus(f, stack[t]))
    BY <1>7 DEF Call, Push, Put, Plus
  <2>2. result'[c] = "live" /\ \A d \in Calls : d # c => result'[d] = result[d]
    BY <1>3, <2>1
  <2>3. Sent \subseteq Sent' /\ c \in Sent'
    <3>1. \A d \in Calls : d \in Sent' <=> d \in Sent \/ d = c  BY CallFields
    <3> QED  BY <3>1 DEF Sent
  <2>4. Functional(stack) /\ Stacked(stack, FramesOf')
    BY <2>3, StackFields, GrowSent, WidenStacks
  <2>5. f \in FramesOf'[t]
    BY <1>7, <2>3 DEF FramesOf, Frames, Frame, WaitAt
  <2> HIDE DEF f
  <2>6. Quiet(stack, t) /\ Instead(stack, stack', t, f)
    BY <1>1, <2>1, <2>4, <2>5, PushStack
  <2>7. \A d \in Calls : MoreWaits(d)
    BY <2>6, InsteadMore DEF Quiet, Waits
  <2>8. \A d \in Calls : SameItems(d)  BY <2>1, SameQueue
  <2> QED  BY <1>5, <1>6, <2>2, <2>7, <2>8 DEF KInv
<1>8. CASE ~mutual_executor(c)
  <2> DEFINE e == receiver_executor(c)
             x == Request(c)
  <2>1. UNCHANGED <<stack, result>> /\ Enqueue(e, x)
    BY <1>8 DEF Call
  <2>2. e \in Executors  BY Places
  <2>3. Sent \subseteq Sent' /\ c \in Sent'
    <3>1. \A d \in Calls : d \in Sent' <=> d \in Sent \/ d = c  BY CallFields
    <3> QED  BY <3>1 DEF Sent
  <2>4. x \in ItemsOf'[e]
    BY <1>8, <2>2, <2>3 DEF ItemsOf, Items, Request
  <2>5. \A d \in Executors : ItemsOf[d] \subseteq ItemsOf'[d]  BY <2>3, GrowSent
  <2>6. x = Request(c) /\ \A d \in Calls : d # c => x # Request(d) /\ x # Response(d, TRUE)
    BY DEF Request, Response
  <2> HIDE DEF x
  <2>7. /\ queue' = [d \in Executors |-> queue'[d]]
        /\ \A d \in Executors : queue'[d] \in Seq(ItemsOf'[d])
        /\ \A d \in Calls : x # Request(d) /\ x # Response(d, TRUE) => SameItems(d)
        /\ \A d \in Executors : \A y : Has(queue'[d], y) <=> Has(queue[d], y) \/ (d = e /\ y = x)
        /\ \A d \in Executors : \A y : Once(queue[d], y) /\ (d = e /\ y = x => ~Has(queue[d], y))
                                        => Once(queue'[d], y)
    BY <2>1, <2>2, <2>4, <2>5, Enqueued
  <2>8. Queued(c)'  BY <2>2, <2>6, <2>7 DEF Queued, Requests, Request
  <2>9. Kept(c)'  BY <1>1, <1>5, <2>1, <2>8
  <2>10. \A d \in Calls : MoreWaits(d)  BY <2>1, SameWaits
  <2> QED  BY <1>6, <2>1, <2>6, <2>7, <2>9, <2>10 DEF KInv
<1> QED  BY <1>7, <1>8

\* A request leaves the queue, and its callback_result is there.
LEMMA KeptRunRequest ==
  ASSUME IInv, KInv, NEW t \in Threads, NEW e \in Executors, RunRequest(t, e)
  PROVE  KInv'
<1> DEFINE x == Head(queue[e])
<1> SUFFICES ASSUME Receiver[x.call] \in alive PROVE KInv'  BY KeptCrash DEF RunRequest
<1>1. /\ queue[e] # << >> /\ x.task = "request" /\ stack[t] = << >> /\ Thread[e] = t
      /\ queue' = [queue EXCEPT ![e] = Tail(queue[e])]
      /\ stack' = Put(stack, t, Plus(Frame("handler", x.call), stack[t]))
      /\ result' = [result EXCEPT ![x.call] = "live"]
      /\ UNCHANGED <<alive, ptr_, lifetime, replies, delivered, crashed>>
  BY DEF RunRequest, Idle, Push, Put, Plus
<1>2. PICK c \in Calls : /\ c = x.call /\ c \in Sent /\ ~mutual_executor(c)
                         /\ x = Request(c) /\ e = receiver_executor(c)
  BY <1>1, HeadItem
<1> DEFINE f == Frame("handler", c)
<1>3. Functional(stack) /\ Stacked(stack, FramesOf)  BY StackFields
<1>4. f \in FramesOf[t]
  BY <1>1, <1>2 DEF FramesOf, Frames, Frame, WaitAt
<1>5. stack' = Put(stack, t, Plus(f, stack[t]))  BY <1>1, <1>2
<1> HIDE DEF f, x
<1>6. Instead(stack, stack', t, f)  BY <1>1, <1>3, <1>4, <1>5, PushStack
<1>7. \A d \in Calls : MoreWaits(d)  BY <1>1, <1>6, InsteadMore DEF Waits
<1>8. /\ \A d \in Calls : x # Request(d) /\ x # Response(d, TRUE) => SameItems(d)
      /\ \A d \in Executors : \A y : d # e \/ y # x => (Has(queue'[d], y) <=> Has(queue[d], y))
  BY <1>1, Dequeued DEF x
<1>9. result'[c] = "live" /\ \A d \in Calls : d # c => result'[d] = result[d]
  BY <1>1, <1>2 DEF IInv, Fields
<1> SUFFICES ASSUME NEW d \in Calls PROVE Kept(d)'  BY DEF KInv
<1>10. ptr_[Lifetime[d]] \in Nat /\ Kept(d)  BY SentLifetime DEF KInv
<1>11. CASE d # c
  <2>1. x # Request(d) /\ x # Response(d, TRUE)
    BY <1>2, <1>11 DEF Request, Response
  <2>2. SameItems(d)  BY <1>8, <2>1
  <2>3. Undisturbed(d)  BY <1>1, <1>7, <1>9, <1>10, <1>11, <2>2 DEF Undisturbed
  <2> QED  BY <1>10, <2>3, KeptStays
<1>12. CASE d = c
  <2>1. x # Response(c, TRUE) /\ DefaultExecutor[Sender[c]] \in Executors
    BY <1>2, Places DEF Request, Response
  <2>2. Answered(c)' <=> Answered(c)
    BY <1>8, <2>1 DEF Answered, Responses, Response
  <2>3. /\ (Delivered(c)' <=> Delivered(c)) /\ (expired(c)' <=> expired(c))
        /\ replies'[c] = replies[c] /\ lifetime'[c] = lifetime[c]
        /\ ptr_' = ptr_
    BY <1>1 DEF Delivered, expired
  <2>4. (\E u \in Threads : Waits(stack[u], c)) => (\E u \in Threads : Waits(stack[u], c))'
    BY <1>7 DEF MoreWaits
  <2>5. Kept(c)  BY <1>10, <1>12
  <2> QED  BY <1>2, <1>9, <1>12, <2>2, <2>3, <2>4, <2>5 DEF Kept
<1> QED  BY <1>11, <1>12

\* An answer that invokes nothing leaves the queue.
LEMMA KeptRunSpent ==
  ASSUME IInv, KInv, NEW t \in Threads, NEW e \in Executors, RunResponse(t, e),
         ~Head(queue[e]).live
  PROVE  KInv'
<1> DEFINE x == Head(queue[e])
<1>1. /\ queue[e] # << >>
      /\ queue' = [queue EXCEPT ![e] = Tail(queue[e])]
      /\ UNCHANGED <<stack, alive, ptr_, lifetime, result, replies, delivered, crashed>>
  BY DEF RunResponse
<1> SUFFICES ASSUME NEW d \in Calls PROVE Kept(d)'  BY DEF KInv
<1>2. x # Request(d) /\ x # Response(d, TRUE)
  BY DEF Request, Response
<1> HIDE DEF x
<1>3. \A c \in Calls : x # Request(c) /\ x # Response(c, TRUE) => SameItems(c)
  BY <1>1, Dequeued DEF x
<1>4. ptr_[Lifetime[d]] \in Nat /\ SameItems(d) /\ MoreWaits(d)
  BY <1>1, <1>2, <1>3, SentLifetime, SameWaits
<1>5. Undisturbed(d)  BY <1>1, <1>4 DEF Undisturbed
<1> QED  BY <1>5, KeptStays DEF KInv

\* The first answer leaves the queue, and its frame waits to invoke.
LEMMA KeptRunLive ==
  ASSUME IInv, KInv, NEW t \in Threads, NEW e \in Executors, RunResponse(t, e),
         Head(queue[e]).live
  PROVE  KInv'
<1> DEFINE x == Head(queue[e])
<1>1. /\ queue[e] # << >> /\ x.task = "response" /\ stack[t] = << >> /\ Thread[e] = t
      /\ queue' = [queue EXCEPT ![e] = Tail(queue[e])]
      /\ stack' = Put(stack, t, Plus(Frame("response", x.call), stack[t]))
      /\ UNCHANGED <<alive, ptr_, lifetime, result, replies, delivered, crashed>>
  BY DEF RunResponse, Idle, Push, Put, Plus
<1>2. PICK c \in Calls : /\ c = x.call /\ c \in Sent /\ ~mutual_executor(c)
                         /\ x = Response(c, TRUE) /\ e = DefaultExecutor[Sender[c]]
  BY <1>1, HeadItem
<1> DEFINE f == Frame("response", c)
<1>3. Functional(stack) /\ Stacked(stack, FramesOf)  BY StackFields
<1>4. f \in FramesOf[t] /\ f.at \in WaitAt /\ f.of = c
  BY <1>1, <1>2 DEF FramesOf, Frames, Frame, WaitAt, Home
<1>5. stack' = Put(stack, t, Plus(f, stack[t]))  BY <1>1, <1>2
<1> HIDE DEF f, x
<1>6. Instead(stack, stack', t, f)  BY <1>1, <1>3, <1>4, <1>5, PushStack
<1>7. \A d \in Calls : MoreWaits(d)  BY <1>1, <1>6, InsteadMore DEF Waits
<1>8. /\ \A d \in Calls : x # Request(d) /\ x # Response(d, TRUE) => SameItems(d)
      /\ \A d \in Executors : \A y : d # e \/ y # x => (Has(queue'[d], y) <=> Has(queue[d], y))
  BY <1>1, Dequeued DEF x
<1> SUFFICES ASSUME NEW d \in Calls PROVE Kept(d)'  BY DEF KInv
<1>9. ptr_[Lifetime[d]] \in Nat /\ Kept(d)  BY SentLifetime DEF KInv
<1>10. CASE d # c
  <2>1. x # Request(d) /\ x # Response(d, TRUE)
    BY <1>2, <1>10 DEF Request, Response
  <2>2. SameItems(d)  BY <1>8, <2>1
  <2>3. Undisturbed(d)  BY <1>1, <1>7, <1>9, <2>2 DEF Undisturbed
  <2> QED  BY <1>9, <2>3, KeptStays
<1>11. CASE d = c
  <2>1. x # Request(c) /\ receiver_executor(c) \in Executors
    BY <1>2, Places DEF Request, Response
  <2>2. Queued(c)' <=> Queued(c)
    BY <1>8, <2>1 DEF Queued, Requests, Request
  <2>3. (\E u \in Threads : Waits(stack[u], c))'
    BY <1>4, <1>6 DEF Instead
  <2>4. Kept(c)  BY <1>9, <1>11
  <2>5. c \in Sent' /\ UNCHANGED <<lifetime, ptr_, result, replies, alive>>
    BY <1>1, <1>2, SameSent
  <2> QED  BY <1>2, <1>11, <2>2, <2>3, <2>4, <2>5 DEF Kept
<1> QED  BY <1>10, <1>11

\* A direct answer waits to invoke.
LEMMA KeptDirectReply ==
  ASSUME IInv, KInv, NEW t \in Threads, NEW c \in Calls, Reply(t, c), mutual_executor(c)
  PROVE  KInv'
<1> DEFINE f == Frame("response", c)
<1>1. /\ stack[t] # << >> /\ Head(stack[t]).at \in CodeAt /\ c \in Sent
      /\ replies'[c] = replies[c] + 1 /\ replies[c] \in Nat
      /\ \A d \in Calls : d # c => replies'[d] = replies[d]
      /\ UNCHANGED <<alive, ptr_, lifetime, delivered, crashed>>
  BY ReplyFields
<1>2. /\ UNCHANGED <<queue, result>>
      /\ stack' = Put(stack, t, Plus(f, stack[t]))
  BY DEF Reply, Push, Put, Plus
<1>3. Functional(stack) /\ Stacked(stack, FramesOf)  BY StackFields
<1>4. f \in FramesOf[t] /\ f.at \in WaitAt /\ f.of = c
  BY <1>1 DEF FramesOf, Frames, Frame, WaitAt
<1> HIDE DEF f
<1>5. Quiet(stack, t) /\ Instead(stack, stack', t, f)
  BY <1>1, <1>2, <1>3, <1>4, PushStack
<1>6. \A d \in Calls : MoreWaits(d)  BY <1>5, InsteadMore DEF Quiet, Waits
<1> SUFFICES ASSUME NEW d \in Calls PROVE Kept(d)'  BY DEF KInv
<1>7. ptr_[Lifetime[d]] \in Nat /\ Kept(d) /\ SameItems(d)
  BY <1>2, SentLifetime, SameQueue DEF KInv
<1>8. CASE d # c
  <2>1. Undisturbed(d)  BY <1>1, <1>2, <1>6, <1>7, <1>8 DEF Undisturbed
  <2> QED  BY <1>7, <2>1, KeptStays
<1>9. CASE d = c
  <2>1. (\E u \in Threads : Waits(stack[u], c))'  BY <1>4, <1>5 DEF Instead
  <2>2. replies'[c] # 0  BY <1>1
  <2>3. c \in Sent' /\ UNCHANGED <<lifetime, ptr_, result, alive>>
    BY <1>1, <1>2, SameSent
  <2>4. Kept(c) /\ (Queued(c)' <=> Queued(c))  BY <1>7, <1>9 DEF SameItems
  <2> QED  BY <1>1, <1>9, <2>1, <2>2, <2>3, <2>4 DEF Kept
<1> QED  BY <1>8, <1>9

\* An answer is queued with what the callback_result held: if that was spent, the
\* answer it was spent on is still on its way, or has arrived.
LEMMA KeptQueuedReply ==
  ASSUME IInv, KInv, NEW t \in Threads, NEW c \in Calls, Reply(t, c), ~mutual_executor(c)
  PROVE  KInv'
<1> DEFINE e == DefaultExecutor[Sender[c]]
           x == Response(c, Live(c))
           f == Frame("enqueued", c)
<1>1. /\ stack[t] # << >> /\ Head(stack[t]).at \in CodeAt /\ c \in Sent
      /\ replies'[c] = replies[c] + 1 /\ replies[c] \in Nat
      /\ \A d \in Calls : d # c => replies'[d] = replies[d]
      /\ UNCHANGED <<alive, ptr_, lifetime, delivered, crashed>>
  BY ReplyFields
<1>2. /\ Enqueue(e, x) /\ result' = [result EXCEPT ![c] = "spent"]
      /\ stack' = Put(stack, t, Plus(f, stack[t])) /\ result[c] # "none"
  BY DEF Reply, Push, Put, Plus, Live
<1>3. Functional(stack) /\ Stacked(stack, FramesOf)  BY StackFields
<1>4. f \in FramesOf[t]
  BY <1>1 DEF FramesOf, Frames, Frame, WaitAt
<1>5. e \in Executors /\ receiver_executor(c) \in Executors  BY Places
<1>6. x \in ItemsOf[e]
  BY <1>1, <1>5 DEF ItemsOf, Items, Response, Live
<1>7. /\ \A d \in Calls : x # Request(d)
      /\ \A d \in Calls : d # c => x # Response(d, TRUE)
      /\ Live(c) => x = Response(c, TRUE)
  BY DEF Request, Response, Live
<1> HIDE DEF f, x
<1>8. Quiet(stack, t) /\ Instead(stack, stack', t, f)
  BY <1>1, <1>2, <1>3, <1>4, PushStack
<1>9. \A d \in Calls : MoreWaits(d)  BY <1>8, InsteadMore DEF Quiet, Waits
<1>10. /\ \A d \in Calls : x # Request(d) /\ x # Response(d, TRUE) => SameItems(d)
       /\ \A d \in Executors : \A y : Has(queue'[d], y) <=> Has(queue[d], y) \/ (d = e /\ y = x)
  BY <1>2, <1>5, <1>6, Enqueued
<1>11. /\ result'[c] = "spent" /\ result[c] \in {"live", "spent"}
       /\ \A d \in Calls : d # c => result'[d] = result[d]
  BY <1>2 DEF IInv, Fields
<1> SUFFICES ASSUME NEW d \in Calls PROVE Kept(d)'  BY DEF KInv
<1>12. ptr_[Lifetime[d]] \in Nat /\ Kept(d)  BY SentLifetime DEF KInv
<1>13. CASE d # c
  <2>1. SameItems(d)  BY <1>7, <1>10, <1>13
  <2>2. Undisturbed(d)  BY <1>1, <1>9, <1>11, <1>12, <1>13, <2>1 DEF Undisturbed
  <2> QED  BY <1>12, <2>2, KeptStays
<1>14. CASE d = c
  <2>1. Kept(c)  BY <1>12, <1>14
  <2>2. replies'[c] # 0  BY <1>1
  <2>3. PICK y : y = Response(c, TRUE)  OBVIOUS
  <2>4. (Answered(c) <=> Has(queue[e], y)) /\ (Answered(c)' <=> Has(queue'[e], y))
    BY <2>3 DEF Answered, Responses, Response
  <2>5. Answered(c) \/ Live(c) => Answered(c)'
    BY <1>5, <1>7, <1>10, <2>3, <2>4
  <2>6. /\ Delivered(c)' <=> Delivered(c)
        /\ expired(c)' <=> expired(c)
        /\ (\E u \in Threads : Waits(stack[u], c)) => (\E u \in Threads : Waits(stack[u], c))'
    BY <1>1, <1>9 DEF Delivered, expired, MoreWaits
  <2>7. Answered(c)' \/ Delivered(c)' \/ expired(c)' \/ (\E u \in Threads : Waits(stack[u], c))'
    <3>1. CASE result[c] = "live"  BY <2>5, <3>1 DEF Live
    <3>2. CASE result[c] = "spent"  BY <2>1, <2>5, <2>6, <3>2 DEF Kept
    <3> QED  BY <1>11, <3>1, <3>2
  <2>8. lifetime'[c] <= ptr_'[Lifetime[c]]  BY <1>1, <2>1 DEF Kept
  <2> QED  BY <1>11, <1>14, <2>2, <2>7, <2>8 DEF Kept
<1> QED  BY <1>13, <1>14

\* The frame that waited invokes the callback.
LEMMA KeptInvoke ==
  ASSUME IInv, KInv, NEW t \in Threads, Invoke(t)
  PROVE  KInv'
<1>1. /\ stack[t] # << >> /\ Top(t) = Head(stack[t]) /\ Top(t).at = "checked"
      /\ Top(t) \in FramesOf[t]
  BY StackFields DEF Invoke, In, Top
<1>2. PICK c \in Calls : c = Top(t).of /\ c \in Sent /\ (~mutual_executor(c) => t = Home(Sender[c]))
  BY <1>1 DEF FramesOf, Frames, WaitAt, Sent
<1> DEFINE f == Frame("callback", c)
<1>3. /\ stack' = Put(stack, t, Plus(f, Tail(stack[t])))
      /\ delivered' = [delivered EXCEPT ![c] = delivered[c] + 1]
      /\ UNCHANGED <<queue, alive, ptr_, lifetime, result, replies, crashed>>
  BY <1>2 DEF Invoke, Become, Put, Plus
<1>4. Functional(stack) /\ Stacked(stack, FramesOf)  BY StackFields
<1>5. f \in FramesOf[t]
  BY <1>2 DEF FramesOf, Frames, Frame, WaitAt
<1> HIDE DEF f
<1>6. Instead(stack, stack', t, f)  BY <1>1, <1>3, <1>4, <1>5, BecomeStack
<1>7. /\ delivered'[c] = delivered[c] + 1 /\ delivered[c] \in Nat
      /\ \A d \in Calls : d # c => delivered'[d] = delivered[d]
  BY <1>3 DEF IInv, Fields
<1>8. \A d \in Calls : d # c => MoreWaits(d)
  BY <1>1, <1>2, <1>6, InsteadMore DEF Waits
<1> SUFFICES ASSUME NEW d \in Calls PROVE Kept(d)'  BY DEF KInv
<1>9. ptr_[Lifetime[d]] \in Nat /\ Kept(d) /\ SameItems(d)
  BY <1>3, SentLifetime, SameQueue DEF KInv
<1>10. CASE d # c
  <2>1. Undisturbed(d)  BY <1>3, <1>7, <1>8, <1>9, <1>10 DEF Undisturbed
  <2> QED  BY <1>9, <2>1, KeptStays
<1>11. CASE d = c
  <2>1. delivered'[c] # 0  BY <1>7
  <2>2. Delivered(c)'  BY <2>1 DEF Delivered
  <2>3. c \in Sent'  BY <1>2, <1>3, SameSent
  <2>4. Kept(c) /\ (Queued(c)' <=> Queued(c))  BY <1>9, <1>11 DEF SameItems
  <2> QED  BY <1>2, <1>3, <1>11, <2>2, <2>3, <2>4 DEF Kept
<1> QED  BY <1>10, <1>11

\* At first there is nothing to lose.
LEMMA KeptInit == Init => KInv
<1> SUFFICES ASSUME Init, NEW c \in Calls PROVE Kept(c)  BY DEF KInv
<1>1. c \notin Sent /\ result[c] = "none" /\ replies[c] = 0
  BY DEF Init, Sent
<1> QED  BY <1>1 DEF Kept

\* No step loses anything.
LEMMA KeptNext == IInv /\ KInv /\ [Next]_vars => KInv'
<1> SUFFICES ASSUME IInv, KInv, [Next]_vars PROVE KInv'  OBVIOUS
<1>1. CASE UNCHANGED vars
  BY <1>1, SameWaits, KeptOnStacks DEF vars
<1>2. ASSUME NEW t \in Threads, Internal(t) PROVE KInv'
  BY <1>2, KeptListener, KeptCheckLifetime, KeptInvoke, KeptReturn DEF Internal
<1>3. ASSUME NEW t \in Threads, NEW comp \in Components, Update(t, comp) PROVE KInv'
  BY <1>3, KeptUpdate
<1>4. ASSUME NEW t \in Threads, NEW c \in Calls, Call(t, c) \/ Reply(t, c) PROVE KInv'
  BY <1>4, KeptCall, KeptDirectReply, KeptQueuedReply
<1>5. ASSUME NEW t \in Threads, NEW e \in Executors, Run(t, e) PROVE KInv'
  BY <1>5, KeptRunRequest, KeptRunSpent, KeptRunLive DEF Run
<1>6. ASSUME NEW t \in Threads, NEW l \in Lifetimes, Reset(t, l) PROVE KInv'
  BY <1>6, KeptReset
<1>7. ASSUME NEW comp \in Components, Destroy(comp) PROVE KInv'
  BY <1>7, KeptDestroy
<1> QED  BY <1>1, <1>2, <1>3, <1>4, <1>5, <1>6, <1>7 DEF Next

\* KInv holds in every state.
LEMMA KeptInductive == SafeSpec => []KInv
<1>1. IInv /\ KInv /\ [Next]_vars => KInv'  BY KeptNext
<1> QED  BY <1>1, KeptInit, Inductive, PTL DEF SafeSpec

\* A query that was called has reached its handler, or is in the queue of an executor,
\* or its receiver was destroyed.
QueriesKept == \A c \in Sent : Queued(c) \/ result[c] # "none" \/ Receiver[c] \notin alive

\* An answer that was given has reached the callback, or is in the queue of the
\* sender's executor or about to invoke the callback, or the lifetime has expired.
AnswersKept == \A c \in Calls : replies[c] # 0 =>
    \/ Delivered(c) \/ expired(c)
    \/ Answered(c)
    \/ \E t \in Threads : Waits(stack[t], c)

\* No query is lost, on whatever threads the components run: what QueryIsHandled
\* needs besides fairness.
THEOREM NoQueryLost == SafeSpec => []QueriesKept
<1>1. KInv => QueriesKept
  BY DEF KInv, Kept, QueriesKept, Sent
<1> QED  BY <1>1, KeptInductive, PTL

\* No answer is lost, not the first of a callback_result that is used twice either,
\* and an expired lifetime stays expired: what AnswerIsDelivered needs besides
\* fairness.
THEOREM NoAnswerLost == SafeSpec => []AnswersKept
<1>1. KInv => AnswersKept
  BY DEF KInv, Kept, AnswersKept
<1> QED  BY <1>1, KeptInductive, PTL
-----------------------------------------------------------------------------
\* OInv, step by step.

\* A component runs on its thread, and lives.
LEMMA RunsAtHome ==
  ASSUME OInv, NEW t \in Threads, NEW comp \in Components, Runs(t, comp)
  PROVE  t = Home(comp) /\ comp \in alive
<1>1. stack[t] # << >> /\ component(Head(stack[t])) = comp /\ comp # None
  BY AsyncQueryAssumption DEF Runs, Top
<1>2. Head(stack[t]) \in OwnFramesOf[t]
  BY <1>1, LayeredParts DEF OInv, Stacked
<1> QED  BY <1>1, <1>2 DEF OwnFramesOf

\* A step that destroys, resets and calls nothing.
LEMMA OwnSame ==
  ASSUME UNCHANGED <<alive, ptr_, lifetime>>
  PROVE  OwnFramesOf' = OwnFramesOf /\ \A c \in Calls : Expires(c)' <=> Expires(c)
BY DEF OwnFramesOf, Frames, Sent, expired, Expires

\* ... and pushes a frame where it belongs.
LEMMA OwnPush ==
  ASSUME IInv, OInv, UNCHANGED <<alive, ptr_, lifetime>>, NEW t \in Threads,
         NEW f \in OwnFramesOf[t], stack[t] # << >> => Head(stack[t]).at \in CodeAt, Push(t, f)
  PROVE  OInv'
<1>1. stack' = Put(stack, t, Plus(f, stack[t]))  BY DEF Push, Put, Plus
<1>2. Functional(stack) /\ Stacked(stack, OwnFramesOf)  BY StackFields DEF OInv
<1>3. Stacked(stack', OwnFramesOf)  BY <1>1, <1>2, PushStack
<1> QED  BY <1>3, OwnSame DEF OInv

\* ... or goes on to one.
LEMMA OwnBecome ==
  ASSUME IInv, OInv, UNCHANGED <<alive, ptr_, lifetime>>, NEW t \in Threads,
         NEW f \in OwnFramesOf[t], stack[t] # << >>, Become(t, f)
  PROVE  OInv'
<1>1. stack' = Put(stack, t, Plus(f, Tail(stack[t])))  BY DEF Become, Put, Plus
<1>2. Functional(stack) /\ Stacked(stack, OwnFramesOf)  BY StackFields DEF OInv
<1>3. Stacked(stack', OwnFramesOf)  BY <1>1, <1>2, BecomeStack
<1> QED  BY <1>3, OwnSame DEF OInv

\* ... or returns.
LEMMA OwnPop ==
  ASSUME IInv, OInv, UNCHANGED <<alive, ptr_, lifetime>>, NEW t \in Threads,
         stack[t] # << >>, Pop(t)
  PROVE  OInv'
<1> DEFINE f == Frame("update", None)
<1>1. stack' = Put(stack, t, Tail(stack[t])) /\ f.at \notin WaitAt
  BY DEF Pop, Put, Frame, WaitAt
<1> HIDE DEF f
<1>2. Functional(stack) /\ Stacked(stack, OwnFramesOf)  BY StackFields DEF OInv
<1>3. Stacked(stack', OwnFramesOf)  BY <1>1, <1>2, PopStack
<1> QED  BY <1>3, OwnSame DEF OInv

\* ... or leaves the stacks alone.
LEMMA OwnStay ==
  ASSUME OInv, UNCHANGED <<alive, ptr_, lifetime, stack>>
  PROVE  OInv'
BY OwnSame DEF OInv

\* A component acts on its own thread, while it lives.
LEMMA OwnUpdate ==
  ASSUME IInv, OInv, NEW t \in Threads, NEW comp \in Components, Update(t, comp)
  PROVE  OInv'
<1>1. Frame("update", comp) \in OwnFramesOf[t]
  BY AsyncQueryAssumption DEF Update, OwnFramesOf, Frames, Frame, component, WaitAt
<1> QED  BY <1>1, OwnPush DEF Update, Idle

\* A handler that is called directly runs on the thread of the sender, which is its own.
LEMMA OwnCall ==
  ASSUME OwnThread, IInv, OInv, NEW t \in Threads, NEW c \in Calls, Call(t, c)
  PROVE  OInv'
<1> DEFINE f == Frame("handler", c)
<1>1. /\ \A d \in Calls : d \in Sent' <=> d \in Sent \/ d = c
      /\ stack[t] # << >> /\ Head(stack[t]).at \in CodeAt
  BY CallFields
<1>2. /\ c \notin Sent /\ lifetime' = [lifetime EXCEPT ![c] = ptr_[Lifetime[c]]]
      /\ UNCHANGED <<alive, ptr_>> /\ Receiver[c] \in alive
      /\ ~mutual_executor(c) => UNCHANGED stack
      /\ mutual_executor(c) => stack' = Put(stack, t, Plus(f, stack[t]))
  BY DEF Call, Push, Put, Plus
<1>3. t = Home(Sender[c]) /\ Sender[c] \in alive
  BY Places, RunsAtHome DEF Call
<1>4. /\ lifetime'[c] = ptr_[Lifetime[c]] /\ ptr_[Lifetime[c]] \in Nat
      /\ \A d \in Calls : d # c => lifetime'[d] = lifetime[d]
  BY <1>2, Places DEF IInv, Fields
<1>5. \A d \in Calls : Expires(d)'
  <2> SUFFICES ASSUME NEW d \in Calls PROVE Expires(d)'  OBVIOUS
  <2>1. CASE d = c  BY <1>2, <1>3, <1>4, <2>1 DEF Expires
  <2>2. CASE d # c  BY <1>1, <1>2, <1>4, <2>2 DEF Expires, expired, OInv
  <2> QED  BY <2>1, <2>2
<1>6. Sent \subseteq Calls /\ Sent \subseteq Sent' /\ \A d \in Sent : expired(d)' <=> expired(d)
  BY <1>1, <1>2, <1>4 DEF Sent, expired
<1>7. \A u \in Threads : OwnFramesOf[u] \subseteq OwnFramesOf'[u]
  <2> SUFFICES ASSUME NEW u \in Threads, NEW g \in OwnFramesOf[u] PROVE g \in OwnFramesOf'[u]
    OBVIOUS
  <2>1. g \in Frames' /\ (g.at = "checked" => g.of \in Sent)
    BY <1>6 DEF OwnFramesOf, Frames
  <2> QED  BY <1>2, <1>6, <2>1 DEF OwnFramesOf
<1>8. Functional(stack) /\ Stacked(stack, OwnFramesOf')
  BY <1>7, StackFields, WidenStacks DEF OInv
<1>9. CASE ~mutual_executor(c)
  BY <1>2, <1>5, <1>8, <1>9 DEF OInv
<1>10. CASE mutual_executor(c)
  <2>1. t = Thread[receiver_executor(c)] /\ t = Home(Receiver[c])
    BY <1>3, <1>10 DEF OwnThread, mutual_executor, Home
  <2>2. f \in OwnFramesOf'[t]
    BY <1>1, <1>2, <2>1 DEF OwnFramesOf, Frames, Frame, component, WaitAt
  <2> HIDE DEF f
  <2>3. Stacked(stack', OwnFramesOf')
    BY <1>1, <1>2, <1>8, <1>10, <2>2, PushStack
  <2> QED  BY <1>5, <2>3 DEF OInv
<1> QED  BY <1>9, <1>10

\* A request is run where the component lives, or ends the program.
LEMMA OwnRunRequest ==
  ASSUME OwnThread, IInv, OInv, NEW t \in Threads, NEW e \in Executors, RunRequest(t, e)
  PROVE  OInv'
<1> DEFINE x == Head(queue[e])
<1>1. queue[e] # << >> /\ x.task = "request" /\ Thread[e] = t /\ stack[t] = << >>
  BY DEF RunRequest, Idle
<1>2. x.call \in Calls /\ x.call \in Sent /\ e = receiver_executor(x.call)
  BY <1>1, HeadItem
<1>3. CASE Receiver[x.call] \in alive
  <2>1. t = Thread[receiver_executor(x.call)] /\ t = Home(Receiver[x.call])
    BY <1>1, <1>2 DEF OwnThread
  <2>2. Frame("handler", x.call) \in OwnFramesOf[t]
    BY <1>2, <1>3, <2>1 DEF OwnFramesOf, Frames, Frame, component, WaitAt
  <2>3. Push(t, Frame("handler", x.call)) /\ UNCHANGED <<alive, ptr_, lifetime>>
    BY <1>3 DEF RunRequest
  <2> QED  BY <1>1, <2>2, <2>3, OwnPush
<1>4. CASE Receiver[x.call] \notin alive
  BY <1>4, OwnStay DEF RunRequest, Crash
<1> QED  BY <1>3, <1>4

\* An answer that comes out of the queue is on the thread of the sender.
LEMMA OwnRunResponse ==
  ASSUME IInv, OInv, NEW t \in Threads, NEW e \in Executors, RunResponse(t, e)
  PROVE  OInv'
<1> DEFINE x == Head(queue[e])
<1>1. queue[e] # << >> /\ x.task = "response" /\ Thread[e] = t /\ stack[t] = << >>
  BY DEF RunResponse, Idle
<1>2. x.call \in Calls /\ x.call \in Sent /\ e = DefaultExecutor[Sender[x.call]]
  BY <1>1, HeadItem
<1>3. Frame("response", x.call) \in OwnFramesOf[t]
  BY <1>1, <1>2 DEF OwnFramesOf, Frames, Frame, component, WaitAt, Home
<1>4. CASE x.live  BY <1>1, <1>3, <1>4, OwnPush DEF RunResponse
<1>5. CASE ~x.live  BY <1>5, OwnStay DEF RunResponse
<1> QED  BY <1>4, <1>5

\* A direct answer runs on the thread of the receiver, which is the one of the sender.
LEMMA OwnReply ==
  ASSUME OwnThread, IInv, OInv, NEW t \in Threads, NEW c \in Calls, Reply(t, c)
  PROVE  OInv'
<1>1. stack[t] # << >> /\ Head(stack[t]).at \in CodeAt /\ c \in Sent
  BY ReplyFields
<1>2. t = Home(Receiver[c])  BY Places, RunsAtHome DEF Reply
<1>3. UNCHANGED <<alive, ptr_, lifetime>>  BY DEF Reply
<1>4. CASE mutual_executor(c)
  <2>1. t = Home(Sender[c])  BY <1>2, <1>4 DEF OwnThread, mutual_executor, Home
  <2>2. Frame("response", c) \in OwnFramesOf[t]
    BY <1>1, <2>1 DEF OwnFramesOf, Frames, Frame, component, WaitAt
  <2> QED  BY <1>1, <1>3, <1>4, <2>2, OwnPush DEF Reply
<1>5. CASE ~mutual_executor(c)
  <2>1. Frame("enqueued", c) \in OwnFramesOf[t]
    BY <1>1 DEF OwnFramesOf, Frames, Frame, component, WaitAt
  <2> QED  BY <1>1, <1>3, <1>5, <2>1, OwnPush DEF Reply
<1> QED  BY <1>4, <1>5

\* The frames on top.
LEMMA OwnTop ==
  ASSUME OInv, NEW t \in Threads, stack[t] # << >>
  PROVE  Top(t) = Head(stack[t]) /\ Top(t) \in OwnFramesOf[t]
BY LayeredParts DEF OInv, Stacked, Top

\* A frame passes the check only while the lifetime lasts.
LEMMA OwnCheckLifetime ==
  ASSUME IInv, OInv, NEW t \in Threads, CheckLifetime(t)
  PROVE  OInv'
<1>1. stack[t] # << >> /\ Top(t).at = "response" /\ UNCHANGED <<alive, ptr_, lifetime>>
  BY DEF CheckLifetime, In
<1>2. Top(t) \in OwnFramesOf[t]  BY <1>1, OwnTop
<1>3. CASE expired(Top(t).of)
  BY <1>1, <1>3, OwnPop DEF CheckLifetime
<1>4. CASE ~expired(Top(t).of)
  <2>1. Frame("checked", Top(t).of) \in OwnFramesOf[t]
    BY <1>1, <1>2, <1>4 DEF OwnFramesOf, Frames, Frame, component, WaitAt
  <2> QED  BY <1>1, <1>4, <2>1, OwnBecome DEF CheckLifetime
<1> QED  BY <1>3, <1>4

\* What was looked at is still true when the callback is invoked.
LEMMA CheckedHolds ==
  ASSUME OInv, NEW t \in Threads, Invoke(t)
  PROVE  LET c == Top(t).of IN
         /\ stack[t] # << >> /\ c \in Sent /\ c \in Calls /\ t = Home(Sender[c])
         /\ ~expired(c) /\ Sender[c] \in alive
<1>1. stack[t] # << >> /\ Top(t).at = "checked"  BY DEF Invoke, In
<1>2. Top(t) \in OwnFramesOf[t]  BY <1>1, OwnTop
<1>3. /\ Top(t).of \in Sent /\ Top(t).of \in Calls /\ ~expired(Top(t).of)
      /\ t = Home(Sender[Top(t).of])
  BY <1>1, <1>2 DEF OwnFramesOf, Frames, Sent, WaitAt
<1>4. Sender[Top(t).of] \in alive  BY <1>3 DEF OInv, Expires
<1> QED  BY <1>1, <1>3, <1>4

\* The callback is code of a sender that lives, on its thread.
LEMMA OwnInvoke ==
  ASSUME IInv, OInv, NEW t \in Threads, Invoke(t)
  PROVE  OInv'
<1> DEFINE c == Top(t).of
<1>1. /\ stack[t] # << >> /\ c \in Sent /\ t = Home(Sender[c]) /\ Sender[c] \in alive
  BY CheckedHolds
<1>2. Frame("callback", c) \in OwnFramesOf[t]
  BY <1>1 DEF OwnFramesOf, Frames, Frame, component, WaitAt
<1>3. Become(t, Frame("callback", c)) /\ UNCHANGED <<alive, ptr_, lifetime>>
  BY DEF Invoke
<1> QED  BY <1>1, <1>2, <1>3, OwnBecome

\* A lifetime is reset on the thread of the calls that use it, which is not between
\* a check and an invocation then.
LEMMA OwnReset ==
  ASSUME IInv, OInv, NEW t \in Threads, NEW l \in Lifetimes, Reset(t, l)
  PROVE  OInv'
<1>1. /\ Holder[l] \in Components /\ Runs(t, Holder[l])
      /\ UNCHANGED <<stack, alive, lifetime>> /\ ptr_' = [ptr_ EXCEPT ![l] = ptr_[l] + 1]
  BY AsyncQueryAssumption DEF Reset
<1>2. t = Home(Holder[l]) /\ stack[t] # << >> /\ Head(stack[t]).at \in CodeAt
  BY <1>1, RunsAtHome, RunsCode
<1>3. /\ ptr_ \in [Lifetimes -> Nat] /\ lifetime \in [Calls -> Nat \cup {None}] /\ None \notin Nat
  BY AsyncQueryAssumption DEF IInv, Fields
<1>4. /\ ptr_'[l] = ptr_[l] + 1
      /\ \A m \in Lifetimes : m # l => ptr_'[m] = ptr_[m]
  BY <1>1, <1>3
<1>5. Sent' = Sent /\ Frames' = Frames  BY <1>1, SameSent
<1>6. ASSUME NEW c \in Calls PROVE Expires(c)'
  <2> SUFFICES ASSUME c \in Sent PROVE Expires(c)'  BY <1>5 DEF Expires
  <2>1. /\ lifetime[c] \in Nat /\ lifetime[c] <= ptr_[Lifetime[c]] /\ Lifetime[c] \in Lifetimes
        /\ Sender[c] \notin alive => lifetime[c] # ptr_[Lifetime[c]]
    BY <1>3, Places DEF OInv, Expires, Sent, expired
  <2>2. ptr_'[Lifetime[c]] \in {ptr_[Lifetime[c]], ptr_[Lifetime[c]] + 1} /\ ptr_[Lifetime[c]] \in Nat
    BY <1>3, <1>4, <2>1
  <2> QED  BY <1>1, <1>5, <2>1, <2>2 DEF Expires, expired
<1>7. ASSUME NEW u \in Threads PROVE stack'[u] \in Layered(OwnFramesOf'[u])
  <2>1. \A g \in OwnFramesOf[u] : (g.at = "checked" => ~expired(g.of)') => g \in OwnFramesOf'[u]
    BY <1>1, <1>5 DEF OwnFramesOf
  <2>2. CodeOf(OwnFramesOf[u]) \subseteq CodeOf(OwnFramesOf'[u])
    BY <2>1 DEF CodeOf, CodeAt
  <2> SUFFICES ASSUME stack[u] # << >> PROVE stack[u] \in Layered(OwnFramesOf'[u])
    BY <1>1, EmptySeq DEF Layered
  <2>3. /\ stack[u] \in Seq(OwnFramesOf[u]) /\ Head(stack[u]) \in OwnFramesOf[u]
        /\ Tail(stack[u]) \in Seq(CodeOf(OwnFramesOf[u]))
    BY LayeredParts DEF OInv, Stacked
  <2>4. Tail(stack[u]) \in Seq(CodeOf(OwnFramesOf'[u]))  BY <2>2, <2>3, SeqMonotonic
  <2>5. ASSUME Head(stack[u]).at = "checked" PROVE ~expired(Head(stack[u]).of)'
    <3> DEFINE g == Head(stack[u])
    <3>1. /\ g.of \in Calls /\ ~expired(g.of) /\ u = Home(Sender[g.of])
          /\ Lifetime[g.of] \in Lifetimes /\ Holder[Lifetime[g.of]] = Sender[g.of]
      BY <2>3, <2>5, Places, AsyncQueryAssumption DEF OwnFramesOf, Frames, Sent, WaitAt
    <3>2. Lifetime[g.of] # l
      <4> SUFFICES ASSUME Lifetime[g.of] = l PROVE FALSE  OBVIOUS
      <4>1. u = t  BY <1>2, <3>1
      <4> QED  BY <1>2, <2>5, <4>1 DEF CodeAt
    <3>3. g' = g  BY <1>1
    <3> HIDE DEF g
    <3> QED  BY <1>1, <1>4, <3>1, <3>2, <3>3 DEF expired, g
  <2>6. Head(stack[u]) \in OwnFramesOf'[u]  BY <1>1, <2>1, <2>3, <2>5
  <2> QED  BY <2>3, <2>4, <2>6, LayeredIs
<1>8. Stacked(stack', OwnFramesOf')  BY <1>7 DEF Stacked
<1> QED  BY <1>6, <1>8 DEF OInv

\* A component is destroyed on its thread, where no call it has made is between a
\* check and an invocation, and its lifetimes with it.
LEMMA OwnDestroy ==
  ASSUME IInv, OInv, NEW comp \in Components, Destroy(comp)
  PROVE  OInv'
<1>1. /\ UNCHANGED <<stack, lifetime>> /\ alive' = alive \ {comp} /\ stack[Home(comp)] = << >>
      /\ ptr_' = [l \in Lifetimes |-> ptr_[l] + IF Holder[l] = comp THEN 1 ELSE 0]
      /\ \A t \in Threads : \A i \in 1..Len(stack[t]) : component(stack[t][i]) # comp
  BY DEF Destroy, Idle
<1>2. /\ ptr_ \in [Lifetimes -> Nat] /\ lifetime \in [Calls -> Nat \cup {None}] /\ None \notin Nat
  BY AsyncQueryAssumption DEF IInv, Fields
<1>3. /\ \A l \in Lifetimes : Holder[l] = comp => ptr_'[l] = ptr_[l] + 1
      /\ \A l \in Lifetimes : Holder[l] # comp => ptr_'[l] = ptr_[l]
  BY <1>1, <1>2
<1>4. Sent' = Sent /\ Frames' = Frames  BY <1>1, SameSent
<1>5. ASSUME NEW c \in Calls PROVE Expires(c)'
  <2> SUFFICES ASSUME c \in Sent PROVE Expires(c)'  BY <1>4 DEF Expires
  <2>1. /\ lifetime[c] \in Nat /\ lifetime[c] <= ptr_[Lifetime[c]] /\ Lifetime[c] \in Lifetimes
        /\ Sender[c] \notin alive => lifetime[c] # ptr_[Lifetime[c]]
        /\ Holder[Lifetime[c]] = Sender[c] /\ ptr_[Lifetime[c]] \in Nat
    BY <1>2, Places, AsyncQueryAssumption DEF OInv, Expires, Sent, expired
  <2>2. CASE Sender[c] = comp
    <3>1. ptr_'[Lifetime[c]] = ptr_[Lifetime[c]] + 1  BY <1>3, <2>1, <2>2
    <3> QED  BY <1>1, <1>4, <2>1, <3>1 DEF Expires, expired
  <2>3. CASE Sender[c] # comp
    <3>1. ptr_'[Lifetime[c]] = ptr_[Lifetime[c]]  BY <1>3, <2>1, <2>3
    <3>2. Sender[c] \notin alive' => Sender[c] \notin alive  BY <1>1, <2>3
    <3> QED  BY <1>1, <1>4, <2>1, <3>1, <3>2 DEF Expires, expired
  <2> QED  BY <2>2, <2>3
<1>6. ASSUME NEW u \in Threads PROVE stack'[u] \in Layered(OwnFramesOf'[u])
  <2> SUFFICES ASSUME stack[u] # << >> PROVE stack[u] \in Layered(OwnFramesOf'[u])
    BY <1>1, EmptySeq DEF Layered
  <2>1. /\ stack[u] \in Seq(OwnFramesOf[u]) /\ Tail(stack[u]) \in Seq(CodeOf(OwnFramesOf[u]))
        /\ u # Home(comp)
    BY <1>1, LayeredParts DEF OInv, Stacked
  <2>2. ASSUME NEW i \in 1..Len(stack[u]) PROVE stack[u][i] \in OwnFramesOf'[u]
    <3>1. PICK g : g = stack[u][i]  OBVIOUS
    <3>2. /\ g \in OwnFramesOf[u] /\ component(g) # comp
      BY <1>1, <2>1, <3>1, ElementOfSeq
    <3>3. g.at = "checked" => ~expired(g.of)'
      <4> SUFFICES ASSUME g.at = "checked" PROVE ~expired(g.of)'  OBVIOUS
      <4>1. /\ g.of \in Calls /\ ~expired(g.of) /\ u = Home(Sender[g.of])
            /\ Lifetime[g.of] \in Lifetimes /\ Holder[Lifetime[g.of]] = Sender[g.of]
        BY <3>2, Places, AsyncQueryAssumption DEF OwnFramesOf, Frames, Sent, WaitAt
      <4>2. Holder[Lifetime[g.of]] # comp  BY <2>1, <4>1
      <4> QED  BY <1>1, <1>3, <4>1, <4>2 DEF expired
    <3>4. g \in OwnFramesOf'[u]
      BY <1>1, <1>4, <3>2, <3>3 DEF OwnFramesOf
    <3> QED  BY <3>1, <3>4
  <2>3. stack[u] \in Seq(OwnFramesOf'[u])  BY <2>1, <2>2, SeqOfAll
  <2>4. /\ Head(stack[u]) \in OwnFramesOf'[u] /\ Tail(stack[u]) \in Seq(OwnFramesOf'[u])
    BY <2>3, HeadTailProperties
  <2>5. Tail(stack[u]) \in Seq(CodeOf(OwnFramesOf'[u]))
    <3>1. \A j \in 1..Len(Tail(stack[u])) : /\ Tail(stack[u])[j] \in CodeOf(OwnFramesOf[u])
                                             /\ Tail(stack[u])[j] \in OwnFramesOf'[u]
      BY <2>1, <2>4, ElementOfSeq
    <3>2. \A j \in 1..Len(Tail(stack[u])) : Tail(stack[u])[j] \in CodeOf(OwnFramesOf'[u])
      BY <3>1 DEF CodeOf
    <3> QED  BY <2>1, <3>2, SeqOfAll
  <2> QED  BY <2>3, <2>4, <2>5, LayeredIs
<1>7. Stacked(stack', OwnFramesOf')  BY <1>6 DEF Stacked
<1> QED  BY <1>5, <1>7 DEF OInv
-----------------------------------------------------------------------------
\* At first there is no frame and no lifetime.
LEMMA OwnInit == Init => OInv
<1> SUFFICES ASSUME Init PROVE OInv  OBVIOUS
<1>1. \A t \in Threads : stack[t] = << >>  BY DEF Init
<1>2. \A F : << >> \in Layered(F)  BY EmptySeq DEF Layered
<1>3. Stacked(stack, OwnFramesOf)  BY <1>1, <1>2 DEF Stacked
<1>4. \A c \in Calls : Expires(c)  BY DEF Init, Expires, Sent
<1> QED  BY <1>3, <1>4 DEF OInv

\* Every step keeps it.
LEMMA OwnNext ==
  ASSUME OwnThread
  PROVE  IInv /\ OInv /\ [Next]_vars => OInv'
<1> SUFFICES ASSUME IInv, OInv, [Next]_vars PROVE OInv'  OBVIOUS
<1>1. CASE UNCHANGED vars  BY <1>1, OwnStay DEF vars
<1>2. ASSUME NEW t \in Threads, Listener(t) PROVE OInv'
  BY <1>2, OwnPop, OwnStay DEF Listener, In, Crash
<1>3. ASSUME NEW t \in Threads, Return(t) PROVE OInv'
  BY <1>3, OwnPop DEF Return
<1>4. ASSUME NEW t \in Threads, Internal(t) PROVE OInv'
  BY <1>2, <1>3, <1>4, OwnCheckLifetime, OwnInvoke DEF Internal
<1>5. ASSUME NEW t \in Threads, NEW comp \in Components, Update(t, comp) PROVE OInv'
  BY <1>5, OwnUpdate
<1>6. ASSUME NEW t \in Threads, NEW c \in Calls, Call(t, c) \/ Reply(t, c) PROVE OInv'
  BY <1>6, OwnCall, OwnReply
<1>7. ASSUME NEW t \in Threads, NEW e \in Executors, Run(t, e) PROVE OInv'
  BY <1>7, OwnRunRequest, OwnRunResponse DEF Run
<1>8. ASSUME NEW t \in Threads, NEW l \in Lifetimes, Reset(t, l) PROVE OInv'
  BY <1>8, OwnReset
<1>9. ASSUME NEW comp \in Components, Destroy(comp) PROVE OInv'
  BY <1>9, OwnDestroy
<1> QED  BY <1>1, <1>4, <1>5, <1>6, <1>7, <1>8, <1>9 DEF Next

\* Both invariants hold in every state.
LEMMA OwnInductive ==
  ASSUME OwnThread
  PROVE  SafeSpec => [](IInv /\ OInv)
<1>1. IInv /\ OInv /\ [Next]_vars => OInv'  BY OwnNext
<1> QED  BY <1>1, InitInv, NextInv, OwnInit, PTL DEF SafeSpec

\* If the queries of a component are published on executors of its thread, handlers
\* run on the thread of their executor and callbacks on the thread of the sender,
\* whoever answers: the direct ones, too.
THEOREM CallbacksOnSenderThread ==
  ASSUME OwnThread
  PROVE  SafeSpec => []CallbackOnSenderThread
<1>1. ASSUME OInv PROVE CallbackOnSenderThread
  <2> SUFFICES ASSUME NEW t \in Threads, NEW i \in 1..Len(stack[t])
               PROVE  LET f == stack[t][i] IN
                      /\ f.at = "callback" => t = Home(Sender[f.of])
                      /\ f.at = "handler" => t = Thread[receiver_executor(f.of)]
    BY DEF CallbackOnSenderThread
  <2>1. stack[t] \in Seq(OwnFramesOf[t])  BY <1>1 DEF OInv, Stacked, Layered
  <2>2. stack[t][i] \in OwnFramesOf[t]  BY <2>1, ElementOfSeq
  <2> QED  BY <2>2 DEF OwnFramesOf
<1> QED  BY <1>1, OwnInductive, PTL

\* The only step that delivers is the invocation of a callback.
LEMMA OnlyInvokeDelivers ==
  ASSUME [Next]_vars, NEW c \in Calls, delivered \in [Calls -> Nat], delivered'[c] > delivered[c]
  PROVE  \E t \in Threads : Invoke(t) /\ Top(t).of = c
<1>1. CASE UNCHANGED delivered
  BY <1>1
<1>2. ASSUME NEW t \in Threads, Invoke(t) PROVE Top(t).of = c
  BY <1>2 DEF Invoke
<1>3. UNCHANGED delivered \/ \E t \in Threads : Invoke(t)
  BY DEF Next, vars, Internal, Listener, CheckLifetime, Return, Update, Call, Reply, Run,
         RunRequest, RunResponse, Reset, Destroy, Crash
<1> QED  BY <1>1, <1>2, <1>3

\* "This callback won't get invoked if operation_lifetime has expired": not by a
\* reset, or the end of the sender, between the check of the lifetime and the
\* invocation either, if the queries of a component are published on executors of
\* its thread.
THEOREM NoneAfterReset ==
  ASSUME OwnThread
  PROVE  SafeSpec => NoCallbackAfterReset
<1>1. ASSUME IInv, OInv, [Next]_vars
      PROVE  \A c \in Calls : delivered'[c] > delivered[c] => ~expired(c) /\ Sender[c] \in alive
  <2> SUFFICES ASSUME NEW c \in Calls, delivered'[c] > delivered[c]
               PROVE  ~expired(c) /\ Sender[c] \in alive
    OBVIOUS
  <2>1. PICK t \in Threads : Invoke(t) /\ Top(t).of = c
    BY <1>1, OnlyInvokeDelivers DEF IInv, Fields
  <2> QED  BY <1>1, <2>1, CheckedHolds
<1> QED  BY <1>1, OwnInductive, PTL DEF SafeSpec, NoCallbackAfterReset
-----------------------------------------------------------------------------
\* The variables of QueryPromise.
PhaseOf(c) == CASE delivered[c] > 0 -> "delivered"
                [] delivered[c] = 0 /\ replies[c] > 0 -> "answered"
                [] replies[c] = 0 /\ c \in Sent -> "sent"
                [] OTHER -> "unsent"
Canceled == {c \in Sent : expired(c)}

SamePhase(c) == PhaseOf(c)' = PhaseOf(c)

\* The phase of a call, by what was counted of it.
LEMMA PhaseIs ==
  ASSUME NEW c \in Calls, delivered[c] \in Nat, replies[c] \in Nat, delivered[c] <= replies[c]
  PROVE  /\ delivered[c] # 0 => PhaseOf(c) = "delivered"
         /\ delivered[c] = 0 /\ replies[c] # 0 => PhaseOf(c) = "answered"
         /\ delivered[c] = 0 /\ replies[c] = 0 /\ c \in Sent => PhaseOf(c) = "sent"
         /\ delivered[c] = 0 /\ replies[c] = 0 /\ c \notin Sent => PhaseOf(c) = "unsent"
<1>1. CASE delivered[c] # 0
  <2>1. delivered[c] > 0 /\ replies[c] # 0  BY <1>1
  <2> QED  BY <1>1, <2>1 DEF PhaseOf
<1>2. CASE delivered[c] = 0 /\ replies[c] # 0
  <2>1. ~(delivered[c] > 0) /\ replies[c] > 0  BY <1>2
  <2> QED  BY <1>2, <2>1 DEF PhaseOf
<1>3. CASE delivered[c] = 0 /\ replies[c] = 0
  <2>1. ~(delivered[c] > 0) /\ ~(replies[c] > 0)  BY <1>3
  <2> QED  BY <1>3, <2>1 DEF PhaseOf
<1> QED  BY <1>1, <1>2, <1>3

\* The counts of a call, and what they mean of its phase.
LEMMA Counts ==
  ASSUME IInv, NEW c \in Calls
  PROVE  /\ delivered[c] \in Nat /\ replies[c] \in Nat /\ delivered[c] <= replies[c]
         /\ replies[c] # 0 => c \in Sent
<1>1. TypeOK /\ Fresh(c)  BY Typed DEF IInv, CallInv
<1>2. /\ delivered[c] \in Nat /\ replies[c] \in Nat /\ MaxReplies[c] \in Nat
      /\ delivered[c] \in 0..replies[c]
  BY <1>1, AsyncQueryAssumption DEF TypeOK
<1> QED  BY <1>1, <1>2 DEF Fresh

\* A step that moves one call from a phase to the next is that step of QueryPromise.
LEMMA Advances ==
  ASSUME NEW c \in Calls, NEW from, NEW to, PhaseOf(c) = from, PhaseOf(c)' = to,
         \A d \in Calls : d # c => SamePhase(d), Canceled' = Canceled
  PROVE  QP!Advance(c, from, to)
<1> DEFINE phase == [d \in Calls |-> PhaseOf(d)]
<1>1. phase[c] = from  OBVIOUS
<1>2. phase' = [phase EXCEPT ![c] = to]
  BY DEF SamePhase
<1> QED  BY <1>1, <1>2 DEF QP!Advance, PhaseOf, Canceled

\* A step that moves no call is a stutter, or cancels calls.
LEMMA Stutters ==
  ASSUME \A d \in Calls : SamePhase(d), Canceled' = Canceled
  PROVE  [QP!QPNext]_(QP!qpVars)
<1> DEFINE phase == [d \in Calls |-> PhaseOf(d)]
<1>1. phase' = phase  BY DEF SamePhase
<1> QED  BY <1>1 DEF QP!qpVars, PhaseOf, Canceled

\* A step that neither calls, answers, invokes nor ends a lifetime moves no call.
LEMMA QuietRefines ==
  ASSUME UNCHANGED <<lifetime, ptr_, replies, delivered>>
  PROVE  [QP!QPNext]_(QP!qpVars)
<1>1. Sent' = Sent  BY SameSent
<1>2. \A d \in Calls : SamePhase(d)  BY <1>1 DEF SamePhase, PhaseOf
<1>3. Canceled' = Canceled  BY <1>1 DEF Canceled, expired
<1> QED  BY <1>2, <1>3, Stutters

\* A call is sent, and its lifetime lasts: it is the one of that moment.
LEMMA CallRefines ==
  ASSUME IInv, NEW t \in Threads, NEW c \in Calls, Call(t, c)
  PROVE  QP!QPNext
<1>1. /\ c \notin Sent /\ lifetime' = [lifetime EXCEPT ![c] = ptr_[Lifetime[c]]]
      /\ UNCHANGED <<ptr_, replies, delivered>>
  BY DEF Call
<1>2. /\ lifetime \in [Calls -> Nat \cup {None}]
      /\ \A d \in Calls : d \in Sent' <=> d \in Sent \/ d = c
      /\ replies[c] = 0 /\ delivered[c] = 0
  BY CallFields DEF IInv, Fields
<1>3. PhaseOf(c) = "unsent"  BY <1>1, <1>2, PhaseIs
<1>4. PhaseOf(c)' = "sent"
  <2>1. replies'[c] = 0 /\ delivered'[c] = 0 /\ c \in Sent'  BY <1>1, <1>2
  <2> QED  BY <2>1 DEF PhaseOf
<1>5. ASSUME NEW d \in Calls, d # c PROVE SamePhase(d)
  <2>1. (d \in Sent' <=> d \in Sent) /\ replies'[d] = replies[d] /\ delivered'[d] = delivered[d]
    BY <1>1, <1>2, <1>5
  <2> QED  BY <2>1 DEF SamePhase, PhaseOf
<1>6. Canceled' = Canceled
  <2>1. lifetime'[c] = ptr_'[Lifetime[c]] /\ \A d \in Calls : d # c => lifetime'[d] = lifetime[d]
    BY <1>1, <1>2
  <2>2. \A d \in Calls : d \in Canceled' <=> d \in Canceled
    BY <1>1, <1>2, <2>1 DEF Canceled, expired
  <2> QED  BY <2>2 DEF Canceled, Sent
<1>7. QP!QPSend(c)  BY <1>3, <1>4, <1>5, <1>6, Advances DEF QP!QPSend
<1> QED  BY <1>7 DEF QP!QPNext

\* The first use of a callback_result answers the call, the others do nothing more.
LEMMA ReplyRefines ==
  ASSUME IInv, NEW t \in Threads, NEW c \in Calls, Reply(t, c)
  PROVE  [QP!QPNext]_(QP!qpVars)
<1>1. /\ replies'[c] = replies[c] + 1 /\ c \in Sent /\ UNCHANGED <<ptr_, lifetime, delivered>>
      /\ \A d \in Calls : d # c => replies'[d] = replies[d]
      /\ delivered[c] \in Nat /\ replies[c] \in Nat /\ delivered[c] <= replies[c]
  BY ReplyFields, Counts
<1>2. Sent' = Sent  BY <1>1, SameSent
<1>3. Canceled' = Canceled  BY <1>1, <1>2 DEF Canceled, expired
<1>4. ASSUME NEW d \in Calls, d # c PROVE SamePhase(d)
  <2>1. replies'[d] = replies[d] /\ delivered'[d] = delivered[d]  BY <1>1, <1>4
  <2> QED  BY <1>2, <2>1 DEF SamePhase, PhaseOf
<1>5. /\ delivered'[c] = delivered[c] /\ replies'[c] \in Nat /\ replies'[c] # 0 /\ replies'[c] > 0
  BY <1>1
<1>6. CASE replies[c] = 0
  <2>1. delivered[c] = 0  BY <1>1, <1>6
  <2>2. PhaseOf(c) = "sent"  BY <1>1, <1>6, <2>1, PhaseIs
  <2>3. PhaseOf(c)' = "answered"
    <3>1. delivered'[c] = 0 /\ ~(delivered'[c] > 0)  BY <1>5, <2>1
    <3> QED  BY <1>5, <3>1 DEF PhaseOf
  <2>4. QP!QPAnswer(c)  BY <1>3, <1>4, <2>2, <2>3, Advances DEF QP!QPAnswer
  <2> QED  BY <2>4 DEF QP!QPNext
<1>7. CASE replies[c] # 0
  <2>1. SamePhase(c)
    <3>1. replies[c] > 0  BY <1>1, <1>7
    <3> QED  BY <1>5, <1>7, <3>1 DEF SamePhase, PhaseOf
  <2> QED  BY <1>3, <1>4, <2>1, Stutters
<1> QED  BY <1>6, <1>7

\* The types, after a step.
LEMMA TypedNext == IInv' => TypeOK'
BY Typed, PTL

\* The first invocation of a callback delivers the answer, which was given and is not
\* canceled; the others do nothing more.
LEMMA InvokeRefines ==
  ASSUME IInv, OInv, NEW t \in Threads, Invoke(t)
  PROVE  [QP!QPNext]_(QP!qpVars)
<1>1. PICK c \in Calls : c = Top(t).of /\ c \in Sent /\ ~expired(c)
  BY CheckedHolds
<1>2. /\ delivered \in [Calls -> Nat] /\ replies[c] \in Nat /\ delivered[c] <= replies[c]
      /\ delivered' = [delivered EXCEPT ![c] = delivered[c] + 1]
      /\ UNCHANGED <<ptr_, lifetime, replies>>
  BY <1>1, Counts DEF Invoke, IInv, Fields
<1>3. Sent' = Sent  BY <1>2, SameSent
<1>4. Canceled' = Canceled /\ c \notin Canceled  BY <1>1, <1>2, <1>3 DEF Canceled, expired
<1>5. /\ delivered'[c] = delivered[c] + 1 /\ replies'[c] = replies[c]
      /\ \A d \in Calls : d # c => delivered'[d] = delivered[d]
  BY <1>2
<1>6. ASSUME NEW d \in Calls, d # c PROVE SamePhase(d)
  <2>1. replies'[d] = replies[d] /\ delivered'[d] = delivered[d]  BY <1>2, <1>5, <1>6
  <2> QED  BY <1>3, <2>1 DEF SamePhase, PhaseOf
<1>7. /\ delivered'[c] \in Nat /\ replies'[c] \in Nat /\ delivered'[c] <= replies'[c]
  <2>1. IInv'  BY InvokeStep
  <2>2. TypeOK'  BY <2>1, TypedNext
  <2>3. MaxReplies[c] \in Nat /\ delivered'[c] \in 0..replies'[c] /\ replies'[c] \in Nat
    BY <2>2, AsyncQueryAssumption DEF TypeOK
  <2> QED  BY <2>3
<1>8. delivered'[c] > 0 /\ replies'[c] # 0 /\ replies[c] # 0  BY <1>2, <1>5, <1>7
<1>9. PhaseOf(c)' = "delivered"
  <2>1. delivered'[c] > 0 /\ delivered'[c] # 0 /\ replies'[c] # 0  BY <1>7, <1>8
  <2> QED  BY <2>1 DEF PhaseOf
<1>10. CASE delivered[c] = 0
  <2>1. PhaseOf(c) = "answered"  BY <1>2, <1>8, <1>10, PhaseIs
  <2>2. QP!Advance(c, "answered", "delivered")  BY <1>4, <1>6, <1>9, <2>1, Advances
  <2>3. QP!QPDeliver(c)  BY <1>4, <2>2 DEF QP!QPDeliver, Canceled
  <2> QED  BY <2>3 DEF QP!QPNext
<1>11. CASE delivered[c] # 0
  <2>1. PhaseOf(c) = "delivered"  BY <1>2, <1>11, PhaseIs
  <2>2. SamePhase(c)  BY <1>9, <2>1 DEF SamePhase
  <2> QED  BY <1>4, <1>6, <2>2, Stutters
<1> QED  BY <1>10, <1>11

\* The end of lifetimes cancels calls, and revives none.
LEMMA CancelRefines ==
  ASSUME IInv, OInv, UNCHANGED <<lifetime, replies, delivered>>,
         \A l \in Lifetimes : ptr_'[l] \in Nat /\ ptr_[l] <= ptr_'[l]
  PROVE  QP!QPNext
<1>1. Sent' = Sent  BY SameSent
<1>2. \A d \in Calls : SamePhase(d)  BY <1>1 DEF SamePhase, PhaseOf
<1>3. Canceled \subseteq Canceled'
  <2> SUFFICES ASSUME NEW c \in Canceled PROVE c \in Canceled'  OBVIOUS
  <2>1. /\ c \in Calls /\ c \in Sent /\ Lifetime[c] \in Lifetimes
        /\ lifetime[c] # ptr_[Lifetime[c]]
    BY Places DEF Canceled, Sent, expired
  <2>2. /\ lifetime[c] <= ptr_[Lifetime[c]] /\ lifetime[c] \in Nat /\ ptr_[Lifetime[c]] \in Nat
    BY <2>1 DEF OInv, Expires, IInv, Fields, Sent
  <2>3. lifetime'[c] # ptr_'[Lifetime[c]]
    <3>1. ptr_'[Lifetime[c]] \in Nat /\ ptr_[Lifetime[c]] <= ptr_'[Lifetime[c]]  BY <2>1
    <3> QED  BY <2>1, <2>2, <3>1
  <2> QED  BY <1>1, <2>1, <2>3 DEF Canceled, expired
<1>4. ASSUME NEW c \in Canceled' PROVE c \in Calls /\ PhaseOf(c) # "unsent"
  <2>1. c \in Calls /\ c \in Sent  BY <1>1 DEF Canceled, Sent
  <2>2. delivered[c] \in Nat /\ replies[c] \in Nat /\ delivered[c] <= replies[c]  BY <2>1, Counts
  <2> QED  BY <2>1, <2>2, PhaseIs
<1> DEFINE phase == [d \in Calls |-> PhaseOf(d)]
<1>5. phase' = phase  BY <1>2 DEF SamePhase
<1>6. \A c \in Canceled' : phase[c] # "unsent"  BY <1>4
<1>7. Canceled' \in SUBSET Calls  BY <1>4
<1>8. QP!QPCancel  BY <1>3, <1>5, <1>6, <1>7 DEF QP!QPCancel, PhaseOf, Canceled
<1> QED  BY <1>8 DEF QP!QPNext

\* Every step is one of QueryPromise, or moves no call.
LEMMA NextRefines ==
  ASSUME IInv, OInv, [Next]_vars
  PROVE  [QP!QPNext]_(QP!qpVars)
<1>1. CASE UNCHANGED <<lifetime, ptr_, replies, delivered>>
  BY <1>1, QuietRefines
<1>2. ASSUME NEW t \in Threads, NEW c \in Calls, Call(t, c) \/ Reply(t, c)
      PROVE  [QP!QPNext]_(QP!qpVars)
  BY <1>2, CallRefines, ReplyRefines
<1>3. ASSUME NEW t \in Threads, Invoke(t) PROVE [QP!QPNext]_(QP!qpVars)
  BY <1>3, InvokeRefines
<1>4. /\ ptr_ \in [Lifetimes -> Nat] /\ \A l \in Lifetimes : ptr_[l] <= ptr_[l]
  BY DEF IInv, Fields
<1>5. ASSUME NEW t \in Threads, NEW l \in Lifetimes, Reset(t, l) PROVE [QP!QPNext]_(QP!qpVars)
  <2>1. \A m \in Lifetimes : ptr_'[m] \in Nat /\ ptr_[m] <= ptr_'[m]
    BY <1>4, <1>5 DEF Reset
  <2> QED  BY <1>5, <2>1, CancelRefines DEF Reset
<1>6. ASSUME NEW comp \in Components, Destroy(comp) PROVE [QP!QPNext]_(QP!qpVars)
  <2>1. \A m \in Lifetimes : ptr_'[m] \in Nat /\ ptr_[m] <= ptr_'[m]
    BY <1>4, <1>6 DEF Destroy
  <2> QED  BY <1>6, <2>1, CancelRefines DEF Destroy
<1>7. CASE \E t \in Threads : Internal(t)
  BY <1>1, <1>3, <1>7 DEF Internal, Listener, CheckLifetime, Return, Crash
<1>8. CASE \E t \in Threads : \/ \E comp \in Components : Update(t, comp)
                              \/ \E e \in Executors : Run(t, e)
  BY <1>1, <1>8 DEF Update, Run, RunRequest, RunResponse, Crash
<1>9. CASE UNCHANGED vars
  BY <1>1, <1>9 DEF vars
<1> QED  BY <1>2, <1>5, <1>6, <1>7, <1>8, <1>9 DEF Next

\* An asynchronous query keeps the promise of QueryPromise: an answer is delivered
\* after it was given, once as the promise sees it, and not when the call is canceled
\* -- if the queries of a component are published on executors of its thread.
THEOREM PromiseKept ==
  ASSUME OwnThread
  PROVE  SafeSpec => ImplementsQueryPromise
<1>1. Init => QP!QPInit
  <2> SUFFICES ASSUME Init PROVE QP!QPInit  OBVIOUS
  <2>1. Sent = {}  BY DEF Init, Sent
  <2>2. ASSUME NEW c \in Calls PROVE PhaseOf(c) = "unsent"
    <3>1. delivered[c] = 0 /\ replies[c] = 0 /\ c \notin Sent  BY <2>1 DEF Init
    <3> QED  BY <3>1, PhaseIs
  <2>3. [c \in Calls |-> PhaseOf(c)] = [c \in Calls |-> "unsent"]  BY <2>2
  <2>4. Canceled = {}  BY <2>1 DEF Canceled
  <2> QED  BY <2>3, <2>4 DEF QP!QPInit, PhaseOf, Canceled
<1>2. IInv /\ OInv /\ [Next]_vars => [QP!QPNext]_(QP!qpVars)
  BY NextRefines
<1> QED  BY <1>1, <1>2, OwnInductive, PTL DEF SafeSpec, ImplementsQueryPromise, QP!QPSpec
=============================================================================
