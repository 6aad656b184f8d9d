------------------------------ MODULE AsyncQuery ------------------------------
(* Asynchronous queries between components: mc::async_query                   *)
(* (include/minicomps/async_query.h), mc::callback_result (callback.h) and    *)
(* mc::lifetime (lifetime.h), over executors that are run by threads.         *)
(*                                                                            *)
(* Components run on threads: a thread runs the work items of its executors,  *)
(* and the components on their own account (Update). What runs on a thread is *)
(* a stack of frames, because a query between components on the same executor *)
(* is a function call: the handler runs on top of the caller, the callback on *)
(* top of whoever answers. In a frame of its own a component may send its     *)
(* queries, answer the ones it holds a callback_result of (at once, later, or *)
(* from the callback of another query) and reset its lifetimes.               *)
(*                                                                            *)
(* An executor is the FIFO queue that Executor implements (WorkQueue). The    *)
(* lookup of the receiver is MonoRef's; here a call finds its receiver, which *)
(* the sender keeps alive from then on.                                       *)
EXTENDS Naturals, Sequences

CONSTANTS Components, Threads, Executors, None,
          Calls,             \* the calls of the run: <sender, query, lifetime>
          Sender, Receiver,  \* call -> component
          Lifetime,          \* call -> with_lifetime(...), or the query's
          Lifetimes, Holder, \* lifetime -> the component it is a member of
          DefaultExecutor,   \* component -> executor
          Override,          \* call -> executor_override of the query, or None
          Thread,            \* executor -> the thread that execute()s it
          Destroyable,       \* the components the application may destroy
          MaxReplies,        \* call -> bound: uses of its callback_result
          MaxResets          \* lifetime -> bound: its resets

ASSUME AsyncQueryAssumption ==
    /\ None \notin Executors \cup Components \cup Nat
    /\ Sender \in [Calls -> Components] /\ Receiver \in [Calls -> Components]
    /\ Lifetime \in [Calls -> Lifetimes] /\ Holder \in [Lifetimes -> Components]
    /\ \A c \in Calls : Holder[Lifetime[c]] = Sender[c]
    /\ DefaultExecutor \in [Components -> Executors]
    /\ Override \in [Calls -> Executors \cup {None}]
    /\ Thread \in [Executors -> Threads]
    /\ Destroyable \subseteq Components
    /\ MaxReplies \in [Calls -> Nat] /\ MaxResets \in [Lifetimes -> Nat]

VARIABLES
    queue,      \* executor -> its work items
    stack,      \* thread -> its frames, the running one first
    alive,      \* the components that are not destroyed
    ptr_,       \* lifetime -> the identity of its shared_ptr
    lifetime,   \* call -> the identity its weak_ptr was created from, or None
    result,     \* call -> its callback_result: "none", "live" or "spent" (moved from)
    replies,    \* call -> how often its callback_result was used
    delivered,  \* call -> how often its callback was invoked
    crashed     \* undefined behaviour has ended the program

vars == <<queue, stack, alive, ptr_, lifetime, result, replies, delivered, crashed>>

Init == /\ queue = [e \in Executors |-> <<>>]
        /\ stack = [t \in Threads |-> <<>>]
        /\ alive = Components
        /\ ptr_ = [l \in Lifetimes |-> 0]
        /\ lifetime = [c \in Calls |-> None]
        /\ result = [c \in Calls |-> "none"]
        /\ replies = [c \in Calls |-> 0]
        /\ delivered = [c \in Calls |-> 0]
        /\ crashed = FALSE

\* mono_ref_base::lookup: the executor of the receiver of a call
receiver_executor(c) == IF Override[c] # None THEN Override[c]
                                              ELSE DefaultExecutor[Receiver[c]]
\* same_executor_: it is also the sender's
mutual_executor(c) == DefaultExecutor[Sender[c]] = receiver_executor(c)

Home(comp) == Thread[DefaultExecutor[comp]]

Sent == {c \in Calls : lifetime[c] # None}
expired(c) == lifetime[c] # ptr_[Lifetime[c]]

\* work items: request_task, and response_task with what it has captured
Request(c) == [task |-> "request", call |-> c, live |-> TRUE]
Response(c, live) == [task |-> "response", call |-> c, live |-> live]

Enqueue(e, item) == queue' = [queue EXCEPT ![e] = Append(@, item)]

\* Frames. "update", "handler" and "callback" are code of a component, which is
\* named by component; the others are code of callback_result::operator().
Frame(at, of) == [at |-> at, of |-> of]
component(f) == CASE f.at = "update" -> f.of
                  [] f.at = "handler" -> Receiver[f.of]
                  [] f.at = "callback" -> Sender[f.of]
                  [] OTHER -> None

Top(t) == Head(stack[t])
Push(t, f) == stack' = [stack EXCEPT ![t] = <<f>> \o @]
Become(t, f) == stack' = [stack EXCEPT ![t] = <<f>> \o Tail(@)]
Pop(t) == stack' = [stack EXCEPT ![t] = Tail(@)]

In(t, at) == ~crashed /\ stack[t] # <<>> /\ Top(t).at = at
Runs(t, comp) == ~crashed /\ stack[t] # <<>> /\ component(Top(t)) = comp
Idle(t) == ~crashed /\ stack[t] = <<>>

Crash == /\ crashed' = TRUE
         /\ UNCHANGED <<queue, stack, alive, ptr_, lifetime, result, replies, delivered>>
-----------------------------------------------------------------------------

\* a component acts on its own: update(), an event of its environment
Update(t, comp) == /\ Idle(t) /\ comp \in alive /\ Home(comp) = t
                   /\ Push(t, Frame("update", comp))
                   /\ UNCHANGED <<queue, alive, ptr_, lifetime, result, replies, delivered, crashed>>

\* mutant: the lifetime of the call is not passed on
CallNoLifetime(t, c) ==
    /\ Runs(t, Sender[c]) /\ c \notin Sent /\ Receiver[c] \in alive
    /\ IF mutual_executor(c)
       THEN /\ Push(t, Frame("handler", c))
            /\ result' = [result EXCEPT ![c] = "live"]
            /\ UNCHANGED queue
       ELSE /\ Enqueue(receiver_executor(c), Request(c))
            /\ UNCHANGED <<stack, result>>
    /\ UNCHANGED <<alive, ptr_, lifetime, replies, delivered, crashed>>

\* query.call(...).with_callback(...): ~query_invoker, async_query::execute
Call(t, c) ==
    /\ Runs(t, Sender[c]) /\ c \notin Sent /\ Receiver[c] \in alive
    /\ lifetime' = [lifetime EXCEPT ![c] = ptr_[Lifetime[c]]]
    /\ IF mutual_executor(c)
       THEN /\ Push(t, Frame("handler", c))
            /\ result' = [result EXCEPT ![c] = "live"]
            /\ UNCHANGED queue
       ELSE /\ Enqueue(receiver_executor(c), Request(c))
            /\ UNCHANGED <<stack, result>>
    /\ UNCHANGED <<alive, ptr_, replies, delivered, crashed>>

\* mutant: a request whose lifetime has expired is not handled
RunUnlessExpired(t, e) ==
    /\ Idle(t) /\ Thread[e] = t /\ queue[e] # <<>>
    /\ LET item == Head(queue[e]) IN
       /\ item.task = "request"
       /\ queue' = [queue EXCEPT ![e] = Tail(@)]
       /\ IF expired(item.call)
          THEN UNCHANGED <<stack, result>>
          ELSE /\ Push(t, Frame("handler", item.call))
               /\ result' = [result EXCEPT ![item.call] = "live"]
       /\ UNCHANGED <<alive, ptr_, lifetime, replies, delivered, crashed>>

\* executor::execute runs request_task: through a handler pointer that was taken
\* when the query was called
RunRequest(t, e) ==
    /\ Idle(t) /\ Thread[e] = t /\ queue[e] # <<>>
    /\ LET item == Head(queue[e]) IN
       /\ item.task = "request"
       /\ IF Receiver[item.call] \in alive
          THEN /\ queue' = [queue EXCEPT ![e] = Tail(@)]
               /\ Push(t, Frame("handler", item.call))
               /\ result' = [result EXCEPT ![item.call] = "live"]
               /\ UNCHANGED <<alive, ptr_, lifetime, replies, delivered, crashed>>
          ELSE Crash

\* ... and response_task, whose lifetime is empty if it came from a spent
\* callback_result
RunResponse(t, e) ==
    /\ Idle(t) /\ Thread[e] = t /\ queue[e] # <<>>
    /\ LET item == Head(queue[e]) IN
       /\ item.task = "response"
       /\ queue' = [queue EXCEPT ![e] = Tail(@)]
       /\ IF item.live THEN Push(t, Frame("response", item.call)) ELSE UNCHANGED stack
    /\ UNCHANGED <<alive, ptr_, lifetime, result, replies, delivered, crashed>>

\* mutants of Reply: what the work item captures, where it is enqueued, what is left
ReplyVia(t, c, e, live, rest) ==
    /\ Runs(t, Receiver[c]) /\ result[c] # "none" /\ replies[c] < MaxReplies[c]
    /\ replies' = [replies EXCEPT ![c] = @ + 1]
    /\ IF mutual_executor(c)
       THEN /\ Push(t, Frame("response", c))
            /\ UNCHANGED <<queue, result>>
       ELSE /\ Enqueue(e, Response(c, live))
            /\ result' = [result EXCEPT ![c] = rest]
            /\ Push(t, Frame("enqueued", c))
    /\ UNCHANGED <<alive, ptr_, lifetime, delivered, crashed>>
\* the callback and the lifetime are copied, not moved
ReplyCopies(t, c) == ReplyVia(t, c, DefaultExecutor[Sender[c]], result[c] = "live", "live")
\* the lifetime is moved before it is captured
ReplyMovedFirst(t, c) == ReplyVia(t, c, DefaultExecutor[Sender[c]], FALSE, "spent")
\* the answer goes to the executor that ran the handler
ReplyOnReceiver(t, c) == ReplyVia(t, c, receiver_executor(c), result[c] = "live", "spent")

\* callback_result::operator(): by the executor of the sender, with all that the
\* callback_result holds moved into the work item, or directly
Reply(t, c) ==
    /\ Runs(t, Receiver[c]) /\ result[c] # "none" /\ replies[c] < MaxReplies[c]
    /\ replies' = [replies EXCEPT ![c] = @ + 1]
    /\ IF mutual_executor(c)
       THEN /\ Push(t, Frame("response", c))
            /\ UNCHANGED <<queue, result>>
       ELSE /\ Enqueue(DefaultExecutor[Sender[c]], Response(c, result[c] = "live"))
            /\ result' = [result EXCEPT ![c] = "spent"]
            /\ Push(t, Frame("enqueued", c))
    /\ UNCHANGED <<alive, ptr_, lifetime, delivered, crashed>>

\* if (target_component_->listener) after a response was enqueued: a read through
\* a plain pointer to the sender
Listener(t) ==
    /\ In(t, "enqueued")
    /\ \/ Pop(t) /\ UNCHANGED <<queue, alive, ptr_, lifetime, result, replies, delivered, crashed>>
       \/ Sender[Top(t).of] \notin alive /\ Crash

\* mutant: the lifetime is not looked at
CheckNothing(t) ==
    /\ In(t, "response")
    /\ Become(t, Frame("checked", Top(t).of))
    /\ UNCHANGED <<queue, alive, ptr_, lifetime, result, replies, delivered, crashed>>

\* if (lifetime.expired()) return;
CheckLifetime(t) ==
    /\ In(t, "response")
    /\ IF expired(Top(t).of) THEN Pop(t) ELSE Become(t, Frame("checked", Top(t).of))
    /\ UNCHANGED <<queue, alive, ptr_, lifetime, result, replies, delivered, crashed>>

\* callback(std::move(result))
Invoke(t) ==
    /\ In(t, "checked")
    /\ LET c == Top(t).of IN
       /\ Become(t, Frame("callback", c))
       /\ delivered' = [delivered EXCEPT ![c] = @ + 1]
    /\ UNCHANGED <<queue, alive, ptr_, lifetime, result, replies, crashed>>

\* the component's code returns
Return(t) ==
    /\ ~crashed /\ stack[t] # <<>> /\ component(Top(t)) # None
    /\ Pop(t)
    /\ UNCHANGED <<queue, alive, ptr_, lifetime, result, replies, delivered, crashed>>

\* lifetime::reset, by the component it belongs to
Reset(t, l) ==
    /\ Runs(t, Holder[l]) /\ ptr_[l] < MaxResets[l]
    /\ ptr_' = [ptr_ EXCEPT ![l] = @ + 1]
    /\ UNCHANGED <<queue, stack, alive, lifetime, result, replies, delivered, crashed>>

\* mutant: the lifetimes of a component survive it
DestroyKeepsLifetimes(comp) ==
    /\ comp \in alive \cap Destroyable /\ Idle(Home(comp))
    /\ \A t \in Threads : \A i \in 1..Len(stack[t]) : component(stack[t][i]) # comp
    /\ \A c \in Sent : Receiver[c] = comp => Sender[c] \notin alive \ {comp}
    /\ alive' = alive \ {comp}
    /\ result' = [c \in Calls |-> IF Receiver[c] = comp THEN "none" ELSE result[c]]
    /\ UNCHANGED <<queue, stack, ptr_, lifetime, replies, delivered, crashed>>

\* The application destroys a component on its thread, when none of its code is
\* running and nobody who is alive has called it (mono_ref keeps its receiver).
\* The lifetimes and the callback_results it has go with it.
Destroy(comp) ==
    /\ comp \in alive \cap Destroyable /\ Idle(Home(comp))
    /\ \A t \in Threads : \A i \in 1..Len(stack[t]) : component(stack[t][i]) # comp
    /\ \A c \in Sent : Receiver[c] = comp => Sender[c] \notin alive \ {comp}
    /\ alive' = alive \ {comp}
    /\ ptr_' = [l \in Lifetimes |-> ptr_[l] + IF Holder[l] = comp THEN 1 ELSE 0]
    /\ result' = [c \in Calls |-> IF Receiver[c] = comp THEN "none" ELSE result[c]]
    /\ UNCHANGED <<queue, stack, lifetime, replies, delivered, crashed>>

Internal(t) == Listener(t) \/ CheckLifetime(t) \/ Invoke(t) \/ Return(t)
Run(t, e) == RunRequest(t, e) \/ RunResponse(t, e)

Next == \/ \E t \in Threads : \/ Internal(t)
                              \/ \E comp \in Components : Update(t, comp)
                              \/ \E c \in Calls : Call(t, c) \/ Reply(t, c)
                              \/ \E e \in Executors : Run(t, e)
                              \/ \E l \in Lifetimes : Reset(t, l)
        \/ \E comp \in Components : Destroy(comp)

\* A thread goes on with what it has begun, the code of the components returns,
\* and between two updates a thread execute()s its executors.
Fairness == /\ \A t \in Threads : WF_vars(Internal(t))
            /\ \A t \in Threads, e \in Executors : SF_vars(Run(t, e))

SafeSpec == Init /\ [][Next]_vars
Spec == SafeSpec /\ Fairness
-----------------------------------------------------------------------------

\* Types of the fields; what a frame or a work item is about was really called.
TypeOK ==
    LET frames == [at: {"update"}, of: Components]
                  \cup [at: {"handler", "callback", "response", "checked", "enqueued"}, of: Sent]
        items == [task: {"request", "response"}, call: Sent, live: BOOLEAN]
    IN /\ queue \in [Executors -> Seq(items)]
       /\ stack \in [Threads -> Seq(frames)]
       /\ alive \subseteq Components
       /\ ptr_ \in [Lifetimes -> Nat]
       /\ lifetime \in [Calls -> Nat \cup {None}]
       /\ result \in [Calls -> {"none", "live", "spent"}]
       /\ replies \in [Calls -> Nat] /\ delivered \in [Calls -> Nat]
       /\ \A c \in Calls : replies[c] \in 0..MaxReplies[c] /\ delivered[c] \in 0..replies[c]
       /\ crashed \in BOOLEAN

\* The queries of a component are published on executors of its thread: what the code
\* does not ask for, and CallbackOnSenderThread and NoCallbackAfterReset need.
OwnThread == \A c \in Calls : Thread[receiver_executor(c)] = Home(Receiver[c])

\* async_query.h, class comment: "the promise resolving is enqueued on the sending
\* component's executor": wherever the answer comes from, the callback runs on the
\* thread of the sender, and the handler on the one of the receiver's executor.
CallbackOnSenderThread == \A t \in Threads : \A i \in 1..Len(stack[t]) :
    LET f == stack[t][i] IN
    /\ f.at = "callback" => t = Home(Sender[f.of])
    /\ f.at = "handler" => t = Thread[receiver_executor(f.of)]

\* README, "Cancellation": "This callback won't get invoked if operation_lifetime has
\* expired" -- not even when the reset comes between the answer and the callback,
\* or when the sender was destroyed.
NoCallbackAfterReset ==
    [][\A c \in Calls : delivered'[c] > delivered[c] => ~expired(c) /\ Sender[c] \in alive]_vars

\* An answer that is sent twice through the queue is delivered once: the second
\* one finds the lifetime moved away, and never calls the callback that was moved.
AtMostOnce == \A c \in Calls : mutual_executor(c) \/ delivered[c] <= 1

\* An asynchronous query is the promise of QueryPromise.
QP == INSTANCE QueryPromise WITH
    phase <- [c \in Calls |-> CASE delivered[c] > 0 -> "delivered"
                                 [] delivered[c] = 0 /\ replies[c] > 0 -> "answered"
                                 [] replies[c] = 0 /\ c \in Sent -> "sent"
                                 [] OTHER -> "unsent"],
    canceled <- {c \in Sent : expired(c)}
ImplementsQueryPromise == QP!QPSpec

\* An answer reaches the callback, if the lifetime of the call lasts.
AnswerIsDelivered == \A c \in Calls :
    replies[c] > 0 ~> delivered[c] > 0 \/ expired(c) \/ crashed

\* A query that was called reaches its handler.
QueryIsHandled == \A c \in Calls :
    c \in Sent ~> result[c] # "none" \/ Receiver[c] \notin alive \/ crashed

(* What the documentation says and the code does not do: each is refuted by a *)
(* run of its own.                                                            *)

\* README, "Cancellation", in the handler of a query whose sender "went out of scope
\* or explicitly canceled the request": "We can still return a result. It'll be
\* ignored though." The answer does not touch a sender that was destroyed.
AnswerTouchesNoDeadSender == \A t \in Threads :
    In(t, "enqueued") => Sender[Top(t).of] \in alive
=============================================================================
