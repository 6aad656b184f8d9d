-------------------------------- MODULE Event --------------------------------
(* mc::event and mc::poly_ref_base (include/minicomps/event.h, poly_ref.h): a *)
(* component emits an event to whoever has subscribed to it, over the list of *)
(* receivers it has cached; with the part of mc::component_base and of the    *)
(* broker that subscribes, unpublishes and destroys the receivers.            *)
(*                                                                            *)
(* The broker is modelled for one message and finer than in module Broker:    *)
(* disassociate() goes over the list receiver by receiver and holds each for  *)
(* a moment, so the last reference to a component may be let go of by a       *)
(* thread inside the broker, where the destructor then runs, too.             *)
(*                                                                            *)
(* Other components emit the event, too, each with a reference of its own. Of *)
(* those only this is modelled: while one looks the receivers up, it keeps the*)
(* list it has locked, which then does not expire when it is replaced. What   *)
(* they cache of receivers counts as the application's.                       *)
(*                                                                            *)
(* A thread is a stack of the calls it is in; its executor is one of them.    *)
(* Only the call on top goes on. The handler of a receiver is code of the     *)
(* application: it may emit again, subscribe or unpublish components of its   *)
(* thread, before it returns.                                                 *)
EXTENDS Naturals, SequencesExt

CONSTANTS Receivers, Threads,
          Thread,          \* receiver -> the thread of its default_executor
          Main,            \* the thread of the component that emits
          Others,          \* the references other components have to the event
          None,
          MaxEvents        \* bound: emissions, nested ones included

ASSUME EventAssumption ==
    /\ Thread \in [Receivers -> Threads] /\ Main \in Threads
    /\ None \notin Nat \cup Receivers
    /\ MaxEvents \in Nat

VARIABLES
    list, version,       \* the broker's list of the event, and how many it has had
    pinned, pinnedList,  \* other reference -> the version its lookup() has locked, that list
    life,                \* receiver -> the stage of its life
    owned,               \* the receivers the application holds a shared_ptr to
    emitting,            \* the emitting component is not destroyed
    sent,                \* events that were emitted
    receivers_,          \* poly_ref: the version of the list that is cached
    receiver_handlers_,  \* poly_ref: the receivers, each with a shared_ptr
    queue,               \* thread -> events enqueued on its executor
    stack,               \* thread -> the calls it is in
    crashed,             \* the behaviour is undefined from here on
    handed,              \* history: what was given to which receiver, in order
    overlooked           \* history: receivers the cached list was gathered without

vars == <<list, version, pinned, pinnedList, life, owned, emitting, sent, receivers_, receiver_handlers_,
          queue, stack, crashed, handed, overlooked>>
otherVars == <<pinned, pinnedList>>
brokerVars == <<list, version, otherVars>>
refVars == <<receivers_, receiver_handlers_, overlooked>>
eventVars == <<sent, queue, handed>>
compVars == <<life, owned, emitting>>

Init == /\ list = << >> /\ version = 0
        /\ pinned = [o \in Others |-> None] /\ pinnedList = [o \in Others |-> << >>]
        /\ life = [c \in Receivers |-> "new"]
        /\ owned = Receivers
        /\ emitting = TRUE /\ sent = 0
        /\ receivers_ = None /\ receiver_handlers_ = << >>
        /\ queue = [t \in Threads |-> << >>]
        /\ stack = [t \in Threads |-> << >>]
        /\ crashed = FALSE
        /\ handed = << >> /\ overlooked = {}

(* --------------------------------- calls ---------------------------------- *)

\* the lookups that keep version v of the list
Keeping(v) == {o \in Others : v # None /\ pinned[o] = v}

\* lost: the list was replaced before it was locked; stale: the cached vector has changed
\* under the loop; old: the vector found is of a list only other lookups keep.
Emission(at, ev) == [call |-> "emit", at |-> at, snap |-> << >>, i |-> 1, event |-> ev, to |-> None,
                     lost |-> FALSE, stale |-> FALSE, begun |-> life,
                     old |-> at = "dispatch" /\ receivers_ # version /\ Keeping(receivers_) # {}]
Walk(c) == [call |-> "walk", of |-> c, rest |-> list, kept |-> << >>, held |-> None]
Call(name, c) == [call |-> name, of |-> c]

Calling(t, call) == stack[t] # << >> /\ Last(stack[t]).call = call
Top(t) == Last(stack[t])
Emitting(at) == Calling(Main, "emit") /\ Top(Main).at = at

Push(t, f) == [stack EXCEPT ![t] = Append(@, f)]
Pop(t) == [stack EXCEPT ![t] = Front(@)]
SetTop(t, f) == [stack EXCEPT ![t] = Append(Front(@), f)]

\* where code of the application runs: outside of all calls or in a handler
RunsCode(t) == stack[t] = << >> \/ Calling(t, "task") \/ (t = Main /\ Emitting("calling"))

\* the handler of c is being executed
Inside(c) == \E t \in Threads : \E f \in Range(stack[t]) :
                \/ f.call = "task" /\ f.of = c
                \/ f.call = "emit" /\ f.at = "calling" /\ f.to = c

\* t is in disassociate(), where it has locked lookup_mutex_
Walking(t) == \E f \in Range(stack[t]) : f.call = "walk"

\* mutant: the mutex is not recursive
MutexFreeOnce(t) == ~ \E u \in Threads : Walking(u)

\* lookup_mutex_ is not held by another thread
MutexFree(t) == ~ \E u \in Threads \ {t} : Walking(u)

(* -------------------------- ownership of receivers ------------------------ *)

\* mutant: a receiver_handler does not keep its component
HeldElsewhere(o, handlers, stk, c) ==
    \/ c \in o
    \/ \E t \in Threads : \E f \in Range(stk[t]) : f.call = "walk" /\ f.held = c

\* A shared_ptr to the component exists: of the application, in a
\* receiver_handler, or the recv_sp of a broker call.
HeldBy(o, handlers, stk, c) ==
    \/ c \in o
    \/ c \in Range(handlers)
    \/ \E t \in Threads : \E f \in Range(stk[t]) : f.call = "walk" /\ f.held = c
Held(c) == HeldBy(owned, receiver_handlers_, stack, c)

\* mutant: nobody is left to destroy the component
ReleaseLeaks(t, c, o, handlers, stk) == stack' = stk

\* Thread t lets go of a shared_ptr, and destroys the component if it was the last
\* one. o, handlers, stk: the values of the variables without the shared_ptr.
Release(t, c, o, handlers, stk) ==
    stack' = IF HeldBy(o, handlers, stk, c) THEN stk
             ELSE [stk EXCEPT ![t] = Append(@, Call("destroy", c))]

(* ------------------------ event() and poly_ref_base::lookup --------------- *)

\* mutant: receivers_.expired() is not asked
HitAny == receiver_handlers_ # << >>

\* "Check if we already have valid state for this handler": receivers_ is not expired
\* while the broker or another lookup has a shared_ptr to that list.
Hit == receiver_handlers_ # << >> /\ (receivers_ = version \/ Keeping(receivers_) # {})

\* what lock() finds of version v
Locked(v) == IF v = version THEN {list}
             ELSE IF Keeping(v) = {} THEN {<< >>} ELSE {pinnedList[o] : o \in Keeping(v)}

\* the cached vector is about to change under the loops that iterate over it
Spoiled(s) == [k \in DOMAIN s |-> IF s[k].call = "emit" THEN [s[k] EXCEPT !.stale = TRUE] ELSE s[k]]

MayEmit == emitting /\ RunsCode(Main) /\ sent < MaxEvents

EmitCached ==
    /\ MayEmit /\ Hit
    /\ sent' = sent + 1
    /\ stack' = Push(Main, Emission("dispatch", sent + 1))
    /\ UNCHANGED <<brokerVars, compVars, refVars, queue, handed, crashed>>

\* receivers_ = broker_.lookup(msgId)
EmitFetch ==
    /\ MayEmit /\ ~Hit /\ MutexFree(Main)
    /\ sent' = sent + 1
    /\ receivers_' = version
    /\ stack' = [stack EXCEPT ![Main] = Append(Spoiled(@), Emission("fetched", sent + 1))]
    /\ UNCHANGED <<brokerVars, compVars, receiver_handlers_, overlooked, queue, handed, crashed>>

\* auto receivers = receivers_.lock()
LockReceivers ==
    /\ Emitting("fetched")
    /\ \E receivers \in Locked(receivers_) : stack' = SetTop(Main,
           [Top(Main) EXCEPT !.at = "clear", !.lost = receivers_ # version, !.snap = receivers])
    /\ UNCHANGED <<brokerVars, compVars, refVars, eventVars, crashed>>

\* receiver_handlers_.clear(), element by element
Clear ==
    /\ Emitting("clear")
    /\ IF receiver_handlers_ = << >>
       THEN /\ stack' = SetTop(Main, [Top(Main) EXCEPT !.at = "gather"])
            /\ overlooked' = {} /\ UNCHANGED receiver_handlers_
       ELSE /\ receiver_handlers_' = Tail(receiver_handlers_)
            /\ Release(Main, Head(receiver_handlers_), owned, Tail(receiver_handlers_), stack)
            /\ UNCHANGED overlooked
    /\ UNCHANGED <<brokerVars, compVars, receivers_, eventVars, crashed>>

\* lookup_async_handler(): the handler stays when the component is unpublished
HasHandler(c) == life[c] \in {"subscribed", "published", "unpublished"}

\* mutant: the loop ends at a receiver that is gone
GatherStops ==
    /\ Emitting("gather")
    /\ IF Top(Main).snap = << >> \/ ~Held(Head(Top(Main).snap))
       THEN /\ stack' = SetTop(Main, [Top(Main) EXCEPT !.at = "dispatch"])
            /\ UNCHANGED <<receiver_handlers_, overlooked>>
       ELSE LET c == Head(Top(Main).snap) IN
            /\ receiver_handlers_' = IF HasHandler(c)
                                     THEN Append(receiver_handlers_, c) ELSE receiver_handlers_
            /\ overlooked' = IF HasHandler(c) THEN overlooked ELSE overlooked \cup {c}
            /\ stack' = SetTop(Main, [Top(Main) EXCEPT !.snap = Tail(@)])
    /\ UNCHANGED <<brokerVars, compVars, receivers_, eventVars, crashed>>

\* One turn of the loop over *receivers: r.lock(), the receiver's handler, and
\* emplace_back(); a receiver without either is passed over.
Gather ==
    /\ Emitting("gather")
    /\ IF Top(Main).snap = << >>
       THEN /\ stack' = SetTop(Main, [Top(Main) EXCEPT !.at = "dispatch"])
            /\ UNCHANGED <<receiver_handlers_, overlooked>>
       ELSE LET c == Head(Top(Main).snap) IN
            /\ receiver_handlers_' = IF Held(c) /\ HasHandler(c)
                                     THEN Append(receiver_handlers_, c) ELSE receiver_handlers_
            /\ overlooked' = IF Held(c) /\ ~HasHandler(c) THEN overlooked \cup {c} ELSE overlooked
            /\ stack' = SetTop(Main, [Top(Main) EXCEPT !.snap = Tail(@)])
    /\ UNCHANGED <<brokerVars, compVars, receivers_, eventVars, crashed>>

Dispatching == Emitting("dispatch") /\ Top(Main).i <= Len(receiver_handlers_)
Receiver == receiver_handlers_[Top(Main).i]
mutual_executor(c) == Thread[c] = Main
Handed(c) == Append(handed, [event |-> Top(Main).event, to |-> c])

\* receiver_handler.invoke(event)
Invoke ==
    /\ Dispatching /\ mutual_executor(Receiver)
    /\ handed' = Handed(Receiver)
    /\ stack' = SetTop(Main, [Top(Main) EXCEPT !.at = "calling", !.to = Receiver])
    /\ UNCHANGED <<brokerVars, compVars, refVars, sent, queue, crashed>>

\* default_executor->enqueue_work(std::move(task), event); what is in the event, which
\* this moves into the task ("TODO: make sure we copy"), is left out
Enqueue ==
    /\ Dispatching /\ ~mutual_executor(Receiver)
    /\ handed' = Handed(Receiver)
    /\ queue' = [queue EXCEPT ![Thread[Receiver]] = Append(@, Receiver)]
    /\ stack' = SetTop(Main, [Top(Main) EXCEPT !.i = @ + 1])
    /\ UNCHANGED <<brokerVars, compVars, refVars, sent, crashed>>

\* The handler returns, and the loop goes on; if it emitted again and that filled
\* the vector anew, the loop's iterators are invalid.
InvokeReturns ==
    /\ Emitting("calling")
    /\ IF Top(Main).stale
       THEN crashed' = TRUE /\ UNCHANGED stack
       ELSE /\ stack' = SetTop(Main, [Top(Main) EXCEPT !.at = "dispatch", !.i = @ + 1, !.to = None])
            /\ UNCHANGED crashed
    /\ UNCHANGED <<brokerVars, compVars, refVars, eventVars>>

EmitReturns ==
    /\ Emitting("dispatch") /\ Top(Main).i > Len(receiver_handlers_)
    /\ stack' = Pop(Main)
    /\ UNCHANGED <<brokerVars, compVars, refVars, eventVars, crashed>>

\* the executor of t runs a task; the handler in it is a plain pointer
RunTask(t) ==
    /\ stack[t] = << >> /\ queue[t] # << >>
    /\ IF life[Head(queue[t])] = "freed"
       THEN crashed' = TRUE /\ UNCHANGED stack
       ELSE stack' = Push(t, Call("task", Head(queue[t]))) /\ UNCHANGED crashed
    /\ queue' = [queue EXCEPT ![t] = Tail(@)]
    /\ UNCHANGED <<brokerVars, compVars, refVars, sent, handed>>

TaskReturns(t) ==
    /\ Calling(t, "task")
    /\ stack' = Pop(t)
    /\ UNCHANGED <<brokerVars, compVars, refVars, eventVars, crashed>>

(* ------------------------- component_base and broker ---------------------- *)

\* mutant: associate() does not take lookup_mutex_
AssociateUnlocked(c) ==
    LET t == Thread[c] IN
    /\ c \in owned /\ life[c] = "new" /\ RunsCode(t)
    /\ list' = Append(list, c) /\ version' = version + 1
    /\ life' = [life EXCEPT ![c] = "associated"]
    /\ stack' = Push(t, Call("publish", c))
    /\ UNCHANGED <<owned, emitting, otherVars, refVars, eventVars, crashed>>

\* publish() calls subscribe_event: broker_.associate(msg_id, shared_from_this())
Associate(c) ==
    LET t == Thread[c] IN
    /\ c \in owned /\ life[c] = "new" /\ RunsCode(t) /\ MutexFree(t)
    /\ list' = Append(list, c) /\ version' = version + 1
    /\ life' = [life EXCEPT ![c] = "associated"]
    /\ stack' = Push(t, Call("publish", c))
    /\ UNCHANGED <<owned, emitting, otherVars, refVars, eventVars, crashed>>

\* async_handlers_[msg_id] = ...
StoreHandler(t) ==
    /\ Calling(t, "publish") /\ life[Top(t).of] = "associated"
    /\ life' = [life EXCEPT ![Top(t).of] = "subscribed"]
    /\ UNCHANGED <<brokerVars, owned, emitting, refVars, eventVars, stack, crashed>>

\* published_ = true
Published(t) ==
    /\ Calling(t, "publish") /\ life[Top(t).of] = "subscribed"
    /\ life' = [life EXCEPT ![Top(t).of] = "published"]
    /\ stack' = Pop(t)
    /\ UNCHANGED <<brokerVars, owned, emitting, refVars, eventVars, crashed>>

\* unpublish_dependencies(): broker_.disassociate_everything(this)
Unpublish(c) ==
    LET t == Thread[c] IN
    /\ c \in owned /\ life[c] = "published" /\ RunsCode(t) /\ MutexFree(t)
    /\ stack' = Push(t, Walk(c))
    /\ UNCHANGED <<brokerVars, compVars, refVars, eventVars, crashed>>

\* disassociate(): auto recv_sp = receiver.lock(); an entry that is expired goes
WalkLock(t) ==
    /\ Calling(t, "walk") /\ Top(t).held = None /\ Top(t).rest # << >>
    /\ LET c == Head(Top(t).rest) IN
       stack' = SetTop(t, IF Held(c) THEN [Top(t) EXCEPT !.held = c]
                                     ELSE [Top(t) EXCEPT !.rest = Tail(@)])
    /\ UNCHANGED <<brokerVars, compVars, refVars, eventVars, crashed>>

\* The entry is kept unless it is comp's, and the end of the turn destroys recv_sp.
\* If the receiver is destroyed with it, its entry stays in this copy of the list.
WalkRelease(t) ==
    /\ Calling(t, "walk") /\ Top(t).held # None
    /\ LET f == Top(t)
           kept == IF f.held = f.of THEN f.kept ELSE Append(f.kept, f.held)
       IN Release(t, f.held, owned, receiver_handlers_,
                  SetTop(t, [f EXCEPT !.kept = kept, !.rest = Tail(@), !.held = None]))
    /\ UNCHANGED <<brokerVars, compVars, refVars, eventVars, crashed>>

\* the copy becomes the list, the mutex is unlocked, and published_ = false
WalkEnd(t) ==
    /\ Calling(t, "walk") /\ Top(t).held = None /\ Top(t).rest = << >>
    /\ list' = Top(t).kept /\ version' = version + 1
    /\ life' = [life EXCEPT ![Top(t).of] = "unpublished"]
    /\ stack' = Pop(t)
    /\ UNCHANGED <<owned, emitting, otherVars, refVars, eventVars, crashed>>

\* ~component_base: if (published_) unpublish_dependencies()
DestructorUnpublish(t) ==
    /\ Calling(t, "destroy") /\ life[Top(t).of] = "published" /\ MutexFree(t)
    /\ stack' = Push(t, Walk(Top(t).of))
    /\ UNCHANGED <<brokerVars, compVars, refVars, eventVars, crashed>>

\* the handlers are destroyed with the component, one that is running as well
Free(t) ==
    /\ Calling(t, "destroy") /\ life[Top(t).of] = "unpublished"
    /\ life' = [life EXCEPT ![Top(t).of] = "freed"]
    /\ crashed' = Inside(Top(t).of)
    /\ stack' = Pop(t)
    /\ UNCHANGED <<brokerVars, owned, emitting, refVars, eventVars>>

\* the application drops a receiver, when the receiver's thread is in no call
DropOwner(c) ==
    LET t == Thread[c] IN
    /\ c \in owned /\ life[c] \in {"published", "unpublished"} /\ stack[t] = << >>
    /\ owned' = owned \ {c}
    /\ Release(t, c, owned \ {c}, receiver_handlers_, stack)
    /\ UNCHANGED <<life, emitting, brokerVars, refVars, eventVars, crashed>>

\* the emitting component, which is not published itself, is destroyed
DropEmitter ==
    /\ emitting /\ stack[Main] = << >>
    /\ emitting' = FALSE
    /\ stack' = Push(Main, Call("forget", None))
    /\ UNCHANGED <<brokerVars, life, owned, refVars, eventVars, crashed>>

\* ~poly_ref_base: the receiver_handlers_ and then receivers_
Forget ==
    /\ Calling(Main, "forget")
    /\ IF receiver_handlers_ = << >>
       THEN /\ stack' = Pop(Main)
            /\ receivers_' = None /\ UNCHANGED receiver_handlers_
       ELSE /\ receiver_handlers_' = Tail(receiver_handlers_)
            /\ Release(Main, Head(receiver_handlers_), owned, Tail(receiver_handlers_), stack)
            /\ UNCHANGED receivers_
    /\ UNCHANGED <<brokerVars, compVars, overlooked, eventVars, crashed>>

(* ---------------------- lookups of the other references ------------------- *)

\* receivers_ = broker_.lookup(msgId), for which no disassociation may be under way, and
\* receivers_.lock(); a lookup that locks an older list, which another one keeps,
\* might have locked it when it was the broker's
Pin(o) ==
    /\ pinned[o] = None /\ \A t \in Threads : ~Walking(t)
    /\ pinned' = [pinned EXCEPT ![o] = version] /\ pinnedList' = [pinnedList EXCEPT ![o] = list]
    /\ UNCHANGED <<list, version, compVars, refVars, eventVars, stack, crashed>>

\* lookup() returns
Unpin(o) ==
    /\ pinned[o] # None
    /\ pinned' = [pinned EXCEPT ![o] = None] /\ pinnedList' = [pinnedList EXCEPT ![o] = << >>]
    /\ UNCHANGED <<list, version, compVars, refVars, eventVars, stack, crashed>>

(* -------------------------------- the program ----------------------------- *)

\* what the application may do, and need not
Choice == \/ EmitCached \/ EmitFetch \/ DropEmitter
          \/ \E c \in Receivers : Associate(c) \/ Unpublish(c) \/ DropOwner(c)
          \/ \E o \in Others : Pin(o) \/ Unpin(o)

\* how the calls of a thread go on
Goes(t) == \/ StoreHandler(t) \/ Published(t)
           \/ WalkLock(t) \/ WalkRelease(t) \/ WalkEnd(t)
           \/ DestructorUnpublish(t) \/ Free(t)
           \/ RunTask(t) \/ TaskReturns(t)
           \/ /\ t = Main
              /\ \/ LockReceivers \/ Clear \/ Gather \/ Invoke \/ Enqueue
                 \/ InvokeReturns \/ EmitReturns \/ Forget

Step(t) == ~crashed /\ Goes(t)
Next == (~crashed /\ Choice) \/ \E t \in Threads : Step(t)

\* A thread goes on with the call it is in, runs what is on its executor, and a
\* handler returns.
Fairness == \A t \in Threads : WF_vars(Step(t))

SafeSpec == Init /\ [][Next]_vars
Spec == SafeSpec /\ Fairness
-----------------------------------------------------------------------------

Lives == {"new", "associated", "subscribed", "published", "unpublished", "freed"}
Listed == {"associated", "subscribed", "published"}

\* Types of the fields of poly_ref_base, the broker and component_base; a receiver
\* somebody holds is not destroyed, so the raw pointers beside the shared_ptrs of the
\* vector are good, and an emission whose vector was not filled anew under it is in
\* the handler of the receiver it has got to.
TypeOK ==
    /\ list \in Seq(Receivers) /\ version \in Nat
    /\ pinned \in [Others -> Nat \cup {None}] /\ pinnedList \in [Others -> Seq(Receivers)]
    /\ life \in [Receivers -> Lives]
    /\ owned \subseteq Receivers /\ emitting \in BOOLEAN /\ sent \in 0..MaxEvents
    /\ receivers_ \in Nat \cup {None} /\ receiver_handlers_ \in Seq(Receivers)
    /\ queue \in [Threads -> Seq(Receivers)]
    /\ crashed \in BOOLEAN
    /\ \A k \in DOMAIN handed : handed[k].event \in 1..sent /\ handed[k].to \in Receivers
    /\ overlooked \subseteq Receivers
    /\ \A c \in owned \cup Range(receiver_handlers_) : life[c] # "freed"
    /\ \A f \in Range(stack[Main]) : f.call = "emit" /\ f.at = "calling" /\ ~f.stale =>
           f.i \in DOMAIN receiver_handlers_ /\ f.to = receiver_handlers_[f.i]

\* No list update is lost, though every update copies the list: while no thread is
\* inside disassociate(), a receiver somebody holds is on the list from its
\* association to the end of unpublish_dependencies(), and then no more.
ListMatchesLife == \A c \in Receivers :
    Held(c) /\ (~ \E t \in Threads : Walking(t)) => (c \in Range(list) <=> life[c] \in Listed)

\* "sent to 0..* recipients": an emission that ends has reached every receiver that
\* was subscribed all the time, and once, whatever the handlers did -- unless the list
\* was replaced between broker_.lookup() and lock(), the cached list was gathered
\* between the receiver's association and its handler ("possibly out of sync with the
\* broker"), or the vector found is of a replaced list that another lookup still keeps.
ReachesSubscribers == [][
    EmitReturns /\ ~Top(Main).lost /\ ~Top(Main).old =>
        \A c \in Receivers \ overlooked :
            Held(c) /\ {Top(Main).begun[c], life[c]} \subseteq {"subscribed", "published"} =>
                \E k \in DOMAIN handed : \A l \in DOMAIN handed :
                    handed[l].event = Top(Main).event /\ handed[l].to = c <=> l = k]_vars

\* "events are unpublished here": what is emitted after unpublish_dependencies() has
\* returned is not given to the receiver any more, from whatever list it was looked up
\* -- unless the vector found is of a replaced list that another lookup still keeps.
NotAfterUnpublish == \A f \in Range(stack[Main]) : f.call = "emit" /\ ~f.old =>
    \A k \in DOMAIN handed : handed[k].event = f.event =>
        f.begun[handed[k].to] \notin {"unpublished", "freed"}

\* Emissions, handlers, disassociations and destructors come to an end: the
\* broker's mutex, which a thread takes again when the last reference to a
\* receiver dies inside the broker, and the loops do not block a thread.
CallsReturn == \A t \in Threads : stack[t] # << >> ~> crashed \/ stack[t] = << >>

\* When the application has dropped everything, whichever thread let go of a
\* receiver last has destroyed it.
AllDropped == owned = {} /\ ~emitting
DroppedAreDestroyed == AllDropped ~> crashed \/ \A c \in Receivers : life[c] = "freed"
=============================================================================
