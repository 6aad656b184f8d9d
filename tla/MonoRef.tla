------------------------------- MODULE MonoRef -------------------------------
(* mc::mono_ref_base (include/minicomps/mono_ref.h) over the broker: the      *)
(* cached path from a component to the handler of a message of which exactly  *)
(* one receiver is expected; with the part of mc::component_base that fills   *)
(* and changes what the cache holds: publishing, filters, unpublishing and    *)
(* the destructor.                                                            *)
(*                                                                            *)
(* A reference is looked up by the thread of the component that owns it; the  *)
(* components publish, filter and unpublish on theirs. lookup() is therefore  *)
(* one step per access to what threads share: the broker (under its mutex),   *)
(* the list (weak_ptr::lock), the receiver (weak_ptr::lock), its handler map  *)
(* and its override map (each under the component's lock).                    *)
(*                                                                            *)
(* A handler is named by the component and the number of filters that were    *)
(* put on top of it: a filter makes a new handler object, and keeps the old   *)
(* one alive inside it.                                                       *)
EXTENDS Broker

CONSTANTS Refs,             \* the mono_refs
          Owner,            \* reference -> the component it belongs to
          Msg,              \* reference -> the message it looks up
          Provides,         \* component -> the messages it publishes
          Executors,
          DefaultExecutor,  \* component -> its default_executor
          Override,         \* component -> message -> executor_override or None
          Filtered,         \* bound: the components whose handlers get filters
          MaxFilters        \* bound: filters per handler

ASSUME MonoRefAssumption ==
    /\ None \notin Components \cup Executors \cup Nat \cup (Components \X Nat)
    /\ Owner \in [Refs -> Components]
    /\ Msg \in [Refs -> Messages]
    /\ Provides \in [Components -> SUBSET Messages]
    /\ DefaultExecutor \in [Components -> Executors]
    /\ Override \in [Components -> [Messages -> Executors \cup {None}]]
    /\ Filtered \subseteq Components
    /\ MaxFilters \in Nat

VARIABLES
    \* component_base
    life,        \* component -> "new", "published", "unpublished" or "freed"
    owned,       \* the components the application holds a shared_ptr to
    stage,       \* component -> message -> how far its publication is
    filters,     \* component -> message -> filters on the handler in async_handlers_
    filtering,   \* <<component, message>>: filter in place, broker not told yet
    \* mono_ref_base
    handler_, receivers_, receiver_, receiver_executor_,
    pc,          \* where the lookup of each reference is
    snap,        \* the list the local shared_ptr `receivers` of a lookup holds
    steady       \* history, see History

compVars == <<life, owned, stage, filters, filtering>>
refVars  == <<handler_, receivers_, receiver_, receiver_executor_, pc, snap>>
vars     == <<brokerVars, compVars, refVars, steady>>

HandlerIds == Components \X (0..MaxFilters)

Init == /\ BrokerInit
        /\ life = [c \in Components |-> "new"]
        /\ owned = Components
        /\ stage = [c \in Components |-> [m \in Messages |-> "none"]]
        /\ filters = [c \in Components |-> [m \in Messages |-> 0]]
        /\ filtering = {}
        /\ handler_ = [r \in Refs |-> None]
        /\ receivers_ = [r \in Refs |-> None]
        /\ receiver_ = [r \in Refs |-> None]
        /\ receiver_executor_ = [r \in Refs |-> None]
        /\ pc = [r \in Refs |-> "idle"]
        /\ snap = [r \in Refs |-> {}]
        /\ steady = {}

\* A component is kept by the application or by the receiver_ of a reference
\* of a component that is not destroyed yet: weak_ptr::lock() succeeds on it.
Held(c) == \/ c \in owned
           \/ \E r \in Refs : receiver_[r] = c

\* the locals of a lookup that keep a list: `auto receivers = receivers_.lock()`
Holds(r) == pc[r] \in {"listed", "located", "resolved"}

\* receivers_.expired(): the broker has replaced the list and no lookup that is
\* under way on another thread still holds it
Pins(r2, r) == Msg[r2] = Msg[r] /\ Holds(r2) /\ receivers_[r2] = receivers_[r]
Expired(r) == /\ receivers_[r] # version[Msg[r]]
              /\ ~ \E r2 \in Refs : Pins(r2, r)

\* the immutable list receivers_ points to
Receivers(r) == IF receivers_[r] = version[Msg[r]]
                THEN active_lookups_[Msg[r]]
                ELSE snap[CHOOSE r2 \in Refs : Pins(r2, r)]

\* the first line of lookup(): the cached handler is returned as it is
Hit(r) == pc[r] = "idle" /\ handler_[r] # None /\ ~Expired(r)

(* ---------------------------- mono_ref_base::lookup ----------------------- *)

Busy(c) == \E r \in Refs : Owner[r] = c /\ pc[r] # "idle"

Return(r) == /\ pc' = [pc EXCEPT ![r] = "idle"]
             /\ snap' = [snap EXCEPT ![r] = {}]
Goto(r, l) == pc' = [pc EXCEPT ![r] = l]

\* receivers_ = broker_.lookup(msg_id), on a miss. The thread of the owner runs
\* one lookup at a time, while the application holds the component.
Fetch(r) == /\ Owner[r] \in owned /\ ~Busy(Owner[r])
            /\ ~Hit(r) /\ MutexFree
            /\ receivers_' = [receivers_ EXCEPT ![r] = lookup(Msg[r])]
            /\ Goto(r, "fetched")
            /\ UNCHANGED <<brokerVars, compVars, handler_, receiver_, receiver_executor_, snap>>

\* auto receivers = receivers_.lock();
LockReceivers(r) ==
    /\ pc[r] = "fetched"
    /\ IF Expired(r) THEN Return(r)
       ELSE /\ snap' = [snap EXCEPT ![r] = Receivers(r)]
            /\ Goto(r, "listed")
    /\ UNCHANGED <<brokerVars, compVars, handler_, receivers_, receiver_, receiver_executor_>>

\* mutant: the result of lock() is not checked
TakeUnchecked(r, c) ==
    /\ receiver_' = [receiver_ EXCEPT ![r] = IF Held(c) THEN c ELSE None]
    /\ Goto(r, "located") /\ UNCHANGED snap

\* receiver_ = c.lock(); without success the lookup ends
TakeReceiver(r, c) ==
    IF Held(c) THEN /\ receiver_' = [receiver_ EXCEPT ![r] = c]
                    /\ Goto(r, "located") /\ UNCHANGED snap
               ELSE /\ receiver_' = [receiver_ EXCEPT ![r] = None]
                    /\ Return(r)

\* mutant: a list with one receiver counts as one with too many
LockNoReceiver(r) ==
    /\ pc[r] = "listed"
    /\ Return(r)
    /\ UNCHANGED <<brokerVars, compVars, handler_, receivers_, receiver_, receiver_executor_>>

\* if (receivers->size() != 1) return nullptr; receiver_ = (*receivers)[0].lock();
LockReceiver(r) ==
    /\ pc[r] = "listed"
    /\ \/ (~ \E c \in snap[r] : snap[r] = {c}) /\ Return(r) /\ UNCHANGED receiver_
       \/ \E c \in snap[r] : snap[r] = {c} /\ TakeReceiver(r, c)
    /\ UNCHANGED <<brokerVars, compVars, handler_, receivers_, receiver_executor_>>

\* mutant: a receiver without a handler leaves the old one in the cache
KeepHandler(r) ==
    LET c == receiver_[r] IN
    /\ pc[r] = "located"
    /\ IF stage[c][Msg[r]] \in {"handled", "done"}
       THEN /\ handler_' = [handler_ EXCEPT ![r] = <<c, filters[c][Msg[r]]>>]
            /\ Goto(r, "resolved") /\ UNCHANGED snap
       ELSE /\ UNCHANGED handler_
            /\ Return(r)
    /\ UNCHANGED <<brokerVars, compVars, receivers_, receiver_, receiver_executor_>>

\* handler_ = subclass.lookup_handler(*receiver_.get(), msg_id)
LookupHandler(r) ==
    LET c == receiver_[r] IN
    /\ pc[r] = "located"
    /\ IF stage[c][Msg[r]] \in {"handled", "done"}
       THEN /\ handler_' = [handler_ EXCEPT ![r] = <<c, filters[c][Msg[r]]>>]
            /\ Goto(r, "resolved") /\ UNCHANGED snap
       ELSE /\ handler_' = [handler_ EXCEPT ![r] = None]
            /\ Return(r)
    /\ UNCHANGED <<brokerVars, compVars, receivers_, receiver_, receiver_executor_>>

\* receiver_executor_ = lookup_executor_override(msg_id), or default_executor
LookupOverride(r) ==
    LET c == receiver_[r]
        o == Override[c][Msg[r]]
    IN /\ pc[r] = "resolved"
       /\ receiver_executor_' = [receiver_executor_ EXCEPT ![r] =
              IF stage[c][Msg[r]] = "done" /\ o # None THEN o ELSE DefaultExecutor[c]]
       /\ Return(r)
       /\ UNCHANGED <<brokerVars, compVars, handler_, receivers_, receiver_>>

Lookup(r) == \/ Fetch(r) \/ LockReceivers(r) \/ LockReceiver(r)
             \/ LookupHandler(r) \/ LookupOverride(r)

(* ----------------------------- component_base ----------------------------- *)

\* unpublish_dependencies is under way, or the destructor's call of it
Unpublishing(c) == walk # None /\ walk.of = c

\* the component's thread is inside publish_async_query, a filter's prepending or
\* unpublish_dependencies
Changing(c) == \/ \E m \in Messages : stage[c][m] \in {"associated", "handled"}
               \/ \E m \in Messages : <<c, m>> \in filtering
               \/ Unpublishing(c)

\* broker_.associate(msg_id, shared_from_this())
PublishAssociate(c, m) ==
    /\ c \in owned /\ life[c] = "new" /\ ~Changing(c)
    /\ m \in Provides[c] /\ stage[c][m] = "none"
    /\ associate(m, c)
    /\ stage' = [stage EXCEPT ![c][m] = "associated"]
    /\ UNCHANGED <<life, owned, filters, filtering, refVars>>

\* async_handlers_[msg_id] = ...
PublishHandler(c, m) ==
    /\ stage[c][m] = "associated"
    /\ stage' = [stage EXCEPT ![c][m] = "handled"]
    /\ UNCHANGED <<brokerVars, life, owned, filters, filtering, refVars>>

\* async_executor_overrides_[msg_id] = executor_override
PublishOverride(c, m) ==
    /\ stage[c][m] = "handled"
    /\ stage' = [stage EXCEPT ![c][m] = "done"]
    /\ UNCHANGED <<brokerVars, life, owned, filters, filtering, refVars>>

\* the end of publish_dependencies: published_ = true
Published(c) ==
    /\ c \in owned /\ life[c] = "new" /\ ~Changing(c)
    /\ \A m \in Provides[c] : stage[c][m] = "done"
    /\ life' = [life EXCEPT ![c] = "published"]
    /\ UNCHANGED <<brokerVars, owned, stage, filters, filtering, refVars>>

\* prepend_async_query_filter: the handler in async_handlers_ is replaced ...
FilterReplace(c, m) ==
    /\ c \in owned /\ ~Changing(c)
    /\ stage[c][m] = "done" /\ c \in Filtered /\ filters[c][m] < MaxFilters
    /\ filters' = [filters EXCEPT ![c][m] = @ + 1]
    /\ filtering' = filtering \cup {<<c, m>>}
    /\ UNCHANGED <<brokerVars, life, owned, stage, refVars>>

\* mutant: prepending a filter forgets broker_.invalidate(msg_id)
FilterNoInvalidate(c, m) ==
    /\ <<c, m>> \in filtering
    /\ filtering' = filtering \ {<<c, m>>}
    /\ UNCHANGED <<brokerVars, life, owned, stage, filters, refVars>>

\* ... and then the broker makes the references look it up again
FilterInvalidate(c, m) ==
    /\ <<c, m>> \in filtering
    /\ invalidate(m)
    /\ filtering' = filtering \ {<<c, m>>}
    /\ UNCHANGED <<life, owned, stage, filters, refVars>>

\* what broker::disassociate finds alive
Live == {c \in Components : Held(c)}

\* unpublish_dependencies, called by the application, takes the broker's mutex ...
Unpublish(c) ==
    /\ c \in owned /\ life[c] = "published" /\ ~Changing(c)
    /\ disassociate_everything(c, Live)
    /\ UNCHANGED <<compVars, refVars>>

\* ... and goes from message to message; in the end published_ = false
Disassociate(m) ==
    /\ disassociate(m, Live)
    /\ life' = IF LastMessage(m) THEN [life EXCEPT ![walk.of] = "unpublished"] ELSE life
    /\ UNCHANGED <<owned, stage, filters, filtering, refVars>>

\* The application drops its shared_ptr. It does so when the component's thread
\* is not in the middle of one of the component's operations, and not between
\* two of its publications.
DropOwner(c) ==
    /\ c \in owned /\ life[c] \in {"published", "unpublished"}
    /\ ~Changing(c) /\ ~Busy(c)
    /\ owned' = owned \ {c}
    /\ UNCHANGED <<brokerVars, life, stage, filters, filtering, refVars>>

\* ~component_base: if (published_) unpublish_dependencies();
DestructorUnpublish(c) ==
    /\ ~Held(c) /\ life[c] = "published"
    /\ disassociate_everything(c, Live)
    /\ UNCHANGED <<compVars, refVars>>

\* the same, by the thread that is inside the broker and let go of c there
NestedUnpublish(c) ==
    /\ ~Held(c) /\ life[c] = "published"
    /\ disassociate_nested(c, Live)
    /\ life' = [life EXCEPT ![c] = "unpublished"]
    /\ UNCHANGED <<owned, stage, filters, filtering, refVars>>

\* the references of a component are destroyed with it
DropRefs(c) ==
    LET drop(f) == [r \in Refs |-> IF Owner[r] = c THEN None ELSE f[r]] IN
    /\ handler_' = drop(handler_)
    /\ receivers_' = drop(receivers_)
    /\ receiver_' = drop(receiver_)
    /\ receiver_executor_' = drop(receiver_executor_)
    /\ UNCHANGED <<pc, snap>>

\* The members are destroyed: the handlers and the references, which let go of
\* their receivers.
Free(c) ==
    /\ ~Held(c) /\ life[c] = "unpublished"
    /\ life' = [life EXCEPT ![c] = "freed"]
    /\ DropRefs(c)
    /\ UNCHANGED <<brokerVars, owned, stage, filters, filtering>>

Destructor(c) == DestructorUnpublish(c) \/ NestedUnpublish(c) \/ Free(c)

PublishStep(c, m) == \/ PublishAssociate(c, m) \/ PublishHandler(c, m) \/ PublishOverride(c, m)
                     \/ FilterReplace(c, m) \/ FilterInvalidate(c, m)
Step == \/ \E r \in Refs : Lookup(r)
        \/ \E c \in Components, m \in Messages : PublishStep(c, m)
        \/ \E c \in Components : \/ Published(c) \/ Unpublish(c) \/ DropOwner(c)
                                 \/ Destructor(c)
        \/ \E m \in Messages : Disassociate(m)

\* The message of r has one receiver, which is published and in use.
Served(r) == \E c \in owned : /\ active_lookups_[Msg[r]] = {c}
                              /\ life[c] = "published"

\* History: the lookups under way whose message has been Served all the time.
History == steady' = {r \in Refs : /\ pc'[r] # "idle"
                                   /\ pc[r] = "idle" \/ r \in steady
                                   /\ Served(r)' }

Next == Step /\ History

\* A lookup that has begun is finished, so is a walk of the broker, and a component
\* nobody holds any more is destroyed by the thread that let go of it last. Nothing
\* else has to happen.
Fairness == /\ \A r \in Refs : WF_vars((LockReceivers(r) \/ LockReceiver(r) \/ LookupHandler(r)
                                          \/ LookupOverride(r)) /\ History)
            /\ WF_vars((\E m \in Messages : Disassociate(m)) /\ History)
            /\ \A c \in Components : WF_vars(Destructor(c) /\ History)

SafeSpec == Init /\ [][Next]_vars
Spec == SafeSpec /\ Fairness
-----------------------------------------------------------------------------

\* Types of the fields of broker, component_base and mono_ref_base; lookup() does
\* not dereference a receiver it has not got.
TypeOK ==
    /\ active_lookups_ \in [Messages -> SUBSET Components]
    /\ version \in [Messages -> Nat]
    /\ walk \in Walks \cup {None}
    /\ life \in [Components -> {"new", "published", "unpublished", "freed"}]
    /\ owned \subseteq Components
    /\ stage \in [Components -> [Messages -> {"none", "associated", "handled", "done"}]]
    /\ filters \in [Components -> [Messages -> 0..MaxFilters]]
    /\ filtering \subseteq Components \X Messages
    /\ handler_ \in [Refs -> HandlerIds \cup {None}]
    /\ receivers_ \in [Refs -> Nat \cup {None}]
    /\ receiver_ \in [Refs -> Components \cup {None}]
    /\ receiver_executor_ \in [Refs -> Executors \cup {None}]
    /\ pc \in [Refs -> {"idle", "fetched", "listed", "located", "resolved"}]
    /\ snap \in [Refs -> SUBSET Components]
    /\ steady \subseteq Refs
    /\ \A r \in Refs : /\ pc[r] \in {"located", "resolved"} => receiver_[r] # None
                       /\ pc[r] = "resolved" => handler_[r] # None

\* The cache against the broker (mono_ref.h's class comment: the broker expires
\* receivers_ when a handler has changed): a cached handler that the next call
\* uses, of a message with one receiver that is alive and not in the middle of
\* prepending a filter, is that receiver's handler with all its filters, and the
\* receiver that is kept alive and locked is the handler's.
CacheIsCurrent == \A r \in Refs : \A c \in Components :
    /\ Hit(r) /\ receivers_[r] = version[Msg[r]]
    /\ active_lookups_[Msg[r]] = {c} /\ Held(c) /\ <<c, Msg[r]>> \notin filtering
    => handler_[r] = <<c, filters[c][Msg[r]]>> /\ receiver_[r] = c

\* "we cannot increment/decrement any ref counts on function invocation": what
\* makes the raw pointer handler_ safe is receiver_. While the cache has both, they
\* belong together and neither is destroyed -- also when the component was
\* unpublished and dropped.
HandlerKeptAlive == \A r \in Refs : Hit(r) /\ receiver_[r] # None =>
    /\ handler_[r][1] = receiver_[r]
    /\ life[receiver_[r]] # "freed"

\* No association is lost and none outlasts unpublish_dependencies(), though every
\* update copies a list and destructors write the lists in the middle of it: a
\* component somebody holds is on the list of a message from broker_.associate()
\* until its own disassociate() has come to that message, and then no more. (The
\* entry of a component that was destroyed inside the broker may come back.)
ListedWhilePublished == \A c \in Components : \A m \in Messages : Held(c) =>
    (c \in active_lookups_[m] <=> /\ stage[c][m] # "none" /\ life[c] \in {"new", "published"}
                                  /\ Unpublishing(c) => m \in walk.left)

\* lookup() of a message that has one published receiver from its begin to its
\* end finds it, unless the broker replaced the list between broker_.lookup() and
\* receivers_.lock(): it does not meet a list of another size, a receiver it
\* cannot lock or one without a handler.
FailsOnlyOnReplacedList ==
    [][\A r \in steady : pc'[r] = "idle" /\ pc[r] # "resolved" =>
           pc[r] = "fetched" /\ receivers_[r] # version[Msg[r]]]_vars

\* When the application has dropped every component, all of them are destroyed.
\* (Of references that form no cycle.)
AllDropped == owned = {}
DroppedAreDestroyed == AllDropped ~> \A c \in Components : life[c] = "freed"

(* What the documentation says and the code does not do: each is refuted by a *)
(* run of its own.                                                            *)

\* sync_query.h, reachable(): the message can be called only while the broker has
\* a receiver for it.
ReachableHasReceiver == \A r \in Refs :
    Hit(r) /\ receivers_[r] = version[Msg[r]] => active_lookups_[Msg[r]] # {}

\* mono_ref.h, "No receivers": a lookup fails only when there is no receiver.
LookupFindsReceiver == [][\A r \in steady : pc'[r] = "idle" => pc[r] = "resolved"]_vars
=============================================================================
