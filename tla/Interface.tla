------------------------------ MODULE Interface ------------------------------
(* Interfaces: mc::interface_ref_base (include/minicomps/interface_ref.h),    *)
(* which caches a proxy of the interface another component publishes, and the *)
(* queries of an interface, if_async_query, if_sync_query and                 *)
(* if_volatile_sync_query, with the part of mc::component_base that publishes *)
(* and filters them.                                                          *)
(*                                                                            *)
(* A query of the proxy is linked to the provider's query by plain pointers;  *)
(* the handler is read there, at each call. The interface is looked up as a   *)
(* message is (module MonoRef). The answer to an asynchronous query takes the *)
(* way of module AsyncQuery and is left out here.                             *)
(*                                                                            *)
(* A thread runs one executor and does one thing at a time: a lookup with the *)
(* call that follows, a prepended filter, a publication, or a request from    *)
(* its queue. Each step accesses one thing that threads share.                *)
EXTENDS Broker, FiniteSets, Sequences

CONSTANTS Threads,
          HomeThread,       \* provider -> the thread of its default_executor
          Refs,
          RefThread,        \* interface_ref -> the thread of its component
          Queries,          \* the queries of the interface
          Kind,             \* query -> "async", "sync" or "volatile"
          Override,         \* provider -> query -> the thread of its executor_override, or None
          allow_direct_call_async,   \* provider -> BOOLEAN
          Interface,        \* the message id of the interface
          MaxFilters,       \* query -> bound: filters prepended to it
          MaxRequests       \* bound: asynchronous calls that are made or enqueued

ASSUME InterfaceAssumption ==
    /\ Interface \in Messages
    /\ HomeThread \in [Components -> Threads] /\ RefThread \in [Refs -> Threads]
    /\ Kind \in [Queries -> {"async", "sync", "volatile"}]
    /\ Override \in [Components -> [Queries -> Threads \cup {None}]]
    /\ allow_direct_call_async \in [Components -> BOOLEAN]
    /\ MaxFilters \in [Queries -> Nat] /\ MaxRequests \in Nat
    /\ None \notin Components \cup Threads \cup Refs \cup Queries \cup Nat

VARIABLES
    \* the providers
    life,          \* "new", "associated", "publishing", "published", "unpublished" or "freed"
    owned,         \* the providers the application holds a shared_ptr to
    handler_,      \* provider -> query -> layers: 0 is empty, 1 the handler, 2 a filter on it
    lock,          \* provider -> the thread that has its component lock, or None
    handling_component_,   \* provider -> the queries that have it (and handling_executor_)
    prepended,     \* history: provider -> query -> filters that were prepended
    \* the references
    refs,          \* those that are not destroyed with their components
    resolved_receivers_, local_interface_proxy_, receiver_,
    failed,        \* history: references whose last lookup failed
    \* the program
    act,           \* thread -> what it is doing
    queue,         \* thread -> requests enqueued on its executor
    crashed        \* why the program has ended, or "no"

provVars == <<life, owned, handling_component_, prepended>>
refVars == <<refs, resolved_receivers_, local_interface_proxy_, receiver_, failed>>
vars == <<brokerVars, provVars, handler_, lock, refVars, act, queue, crashed>>

\* at: the step it is at; ref, query: of whom and what; do: what the lookup is
\* for; of: the provider; layers: the handler that is run or filtered
Idle == [at |-> "idle", ref |-> None, do |-> None, query |-> None, of |-> None, layers |-> 0]

Init == /\ BrokerInit
        /\ life = [c \in Components |-> "new"]
        /\ owned = Components
        /\ handler_ = [c \in Components |-> [q \in Queries |-> 0]]
        /\ lock = [c \in Components |-> None]
        /\ handling_component_ = [c \in Components |-> {}]
        /\ prepended = [c \in Components |-> [q \in Queries |-> 0]]
        /\ refs = Refs
        /\ resolved_receivers_ = [r \in Refs |-> None]
        /\ local_interface_proxy_ = [r \in Refs |-> None]
        /\ receiver_ = [r \in Refs |-> None] /\ failed = {}
        /\ act = [t \in Threads |-> Idle]
        /\ queue = [t \in Threads |-> << >>]
        /\ crashed = "no"

Goto(t, at) == act' = [act EXCEPT ![t].at = at]
Done(t) == act' = [act EXCEPT ![t] = Idle]
Crash(why) == crashed' = why /\ UNCHANGED act

\* mutant: a proxy alone does not keep its provider
HeldByOwner(c) == c \in owned \/ \E t \in Threads : act[t].at = "filtering" /\ act[t].of = c

\* weak_ptr::lock() succeeds: the application, a reference, or prepend_filter
\* (this_component) has a shared_ptr
Held(c) == \/ c \in owned
           \/ \E r \in Refs : receiver_[r] = c
           \/ \E t \in Threads : act[t].at = "filtering" /\ act[t].of = c

Acting(t, at) == act[t].at = at

\* what broker::disassociate finds alive
Live == {c \in Components : Held(c)}

\* The thread can begin something: it does nothing, nor is it in the broker with
\* unpublish_dependencies of a provider the application holds.
Unpublishing(t) == walk # None /\ walk.of \in owned /\ HomeThread[walk.of] = t
AtRest(t) == act[t] = Idle /\ ~Unpublishing(t)

(* ------------------------- interface_ref_base::lookup --------------------- *)

\* a lookup that is under way keeps the list it has locked
Pins(t, r) == /\ act[t].at \in {"listed", "located", "linking"}
              /\ resolved_receivers_[act[t].ref] = resolved_receivers_[r]
Expired(r) == /\ resolved_receivers_[r] # version[Interface]
              /\ ~ \E t \in Threads : Pins(t, r)
Receivers(r) == IF resolved_receivers_[r] = version[Interface]
                THEN active_lookups_[Interface]
                ELSE {act[t].of : t \in {u \in Threads : Pins(u, r)}}

Hit(r) == local_interface_proxy_[r] # None /\ ~Expired(r)

\* what a lookup can be for: force_resolve() of describe_dependencies(), a call
\* or prepend_filter()
Uses == {"resolve", "filter", "call", "call_same_thread"}
Possible(do, q) == CASE do = "resolve" -> q = None
                     [] do = "filter"  -> q \in Queries
                     [] do = "call"    -> q \in Queries
                     [] OTHER          -> q \in Queries /\ Kind[q] = "volatile"

\* the bound on asynchronous calls
Asynchronous(do, q) == do = "call" /\ Kind[q] = "async"
Pending == Cardinality({t \in Threads : Asynchronous(act[t].do, act[t].query)})
           + Cardinality({x \in Threads \X (1..MaxRequests) : x[2] \in DOMAIN queue[x[1]]})

\* the bound on filters
MayFilter(q) == \A c \in Components :
    prepended[c][q] + Cardinality({t \in Threads : act[t].do = "filter" /\ act[t].query = q})
        < MaxFilters[q]

\* operator->, on the thread of the component the reference belongs to
Lookup(r, do, q) ==
    LET t == RefThread[r]
        a == [Idle EXCEPT !.ref = r, !.do = do, !.query = q]
    IN /\ r \in refs /\ AtRest(t) /\ Possible(do, q)
       /\ Asynchronous(do, q) => Pending < MaxRequests
       /\ do = "filter" => MayFilter(q)
       /\ \/ /\ Hit(r) /\ do # "resolve"
             /\ act' = [act EXCEPT ![t] = [a EXCEPT !.at = "ready", !.of = local_interface_proxy_[r]]]
             /\ UNCHANGED resolved_receivers_
          \/ /\ ~Hit(r) /\ MutexFree
             /\ resolved_receivers_' = [resolved_receivers_ EXCEPT ![r] = lookup(Interface)]
             /\ act' = [act EXCEPT ![t] = [a EXCEPT !.at = "fetched"]]
       /\ UNCHANGED <<brokerVars, provVars, handler_, lock, refs, local_interface_proxy_,
                      receiver_, failed, queue, crashed>>

\* return nullptr: describe_dependencies() ignores it, and a call goes through it
\* ("lookup can return null, handle that")
Fail(t) == /\ failed' = failed \cup {act[t].ref}
           /\ IF act[t].do = "resolve" THEN Done(t) /\ UNCHANGED crashed ELSE Crash("null")

\* receivers = resolved_receivers_.lock() and its size
LockReceivers(t) ==
    LET r == act[t].ref IN
    /\ Acting(t, "fetched")
    /\ \/ /\ Expired(r) \/ ~ \E c \in Components : Receivers(r) = {c}
          /\ Fail(t)
       \/ /\ ~Expired(r) /\ UNCHANGED <<failed, crashed>>
          /\ \E c \in Components :
                /\ Receivers(r) = {c}
                /\ act' = [act EXCEPT ![t].at = "listed", ![t].of = c]
    /\ UNCHANGED <<brokerVars, provVars, handler_, lock, refs, resolved_receivers_,
                   local_interface_proxy_, receiver_, queue>>

\* receiver_ = (*receivers)[0].lock()
LockReceiver(t) ==
    LET r == act[t].ref IN
    /\ Acting(t, "listed")
    /\ receiver_' = [receiver_ EXCEPT ![r] = IF Held(act[t].of) THEN act[t].of ELSE None]
    /\ IF Held(act[t].of) THEN Goto(t, "located") /\ UNCHANGED <<failed, crashed>> ELSE Fail(t)
    /\ UNCHANGED <<brokerVars, provVars, handler_, lock, refs, resolved_receivers_,
                   local_interface_proxy_, queue>>

\* receiver_->lookup_interface(msg_id), which locks the component
LookupInterface(t) ==
    LET c == act[t].of IN
    /\ Acting(t, "located") /\ lock[c] = None
    /\ IF life[c] = "associated" THEN Fail(t) ELSE Goto(t, "linking") /\ UNCHANGED <<failed, crashed>>
    /\ UNCHANGED <<brokerVars, provVars, handler_, lock, refs, resolved_receivers_,
                   local_interface_proxy_, receiver_, queue>>

\* what the copy constructor of a query requires of the one it links to
Complete(c) == handling_component_[c] = Queries /\ \A q \in Queries : handler_[c][q] # 0

\* The copy constructors of the queries link the proxy; one that finds its query
\* without a handler aborts: "component hasn't implemented".
Link(t) ==
    LET c == act[t].of IN
    /\ Acting(t, "linking")
    /\ IF ~Complete(c)
       THEN Crash("empty") /\ UNCHANGED <<local_interface_proxy_, failed>>
       ELSE /\ local_interface_proxy_' = [local_interface_proxy_ EXCEPT ![act[t].ref] = c]
            /\ failed' = failed \ {act[t].ref}
            /\ IF act[t].do = "resolve" THEN Done(t) ELSE Goto(t, "ready")
            /\ UNCHANGED crashed
    /\ UNCHANGED <<brokerVars, provVars, handler_, lock, refs, resolved_receivers_, receiver_, queue>>

(* ------------------------------- the queries ------------------------------ *)

\* handling_executor_: the executor_override, or the default_executor
linked_executor_(c, q) == IF Override[c][q] = None THEN HomeThread[c] ELSE Override[c][q]

\* mutant: the executors are not compared
DirectIfAllowed(t, c, q) == allow_direct_call_async[c]
call_directly_(t, c, q) == allow_direct_call_async[c] /\ linked_executor_(c, q) = t

mutual_executor_(t, c) == HomeThread[c] = t

\* the proxy is used for q when its provider is destroyed, or q has no handler
Ready(t) == Acting(t, "ready")
Dangling(t) == life[act[t].of] = "freed"
Broken(t) == Dangling(t) \/ (act[t].do # "filter" /\ handler_[act[t].of][act[t].query] = 0)

UseBroken(t) ==
    /\ Ready(t) /\ Broken(t)
    /\ Crash(IF Dangling(t) THEN "dangling" ELSE "empty")
    /\ UNCHANGED <<brokerVars, provVars, handler_, lock, refVars, queue>>

\* thread t begins to execute the handler of q
Run(t, a, n) == act' = [act EXCEPT ![t] = [a EXCEPT !.at = "running", !.layers = n]]
RunNow(t) == Run(t, act[t], handler_[act[t].of][act[t].query])
Calls(t, kinds) == Ready(t) /\ ~Broken(t) /\ act[t].do # "filter" /\ Kind[act[t].query] \in kinds

\* if_async_query::execute
CallDirectly(t) ==
    /\ Calls(t, {"async"}) /\ call_directly_(t, act[t].of, act[t].query)
    /\ RunNow(t)
    /\ UNCHANGED <<brokerVars, provVars, handler_, lock, refVars, queue, crashed>>

CallEnqueued(t) ==
    LET c == act[t].of
        q == act[t].query
    IN /\ Calls(t, {"async"}) /\ ~call_directly_(t, c, q)
       /\ queue' = [queue EXCEPT ![linked_executor_(c, q)] =
                        Append(@, [of |-> c, query |-> q, layers |-> handler_[c][q]])]
       /\ Done(t)
       /\ UNCHANGED <<brokerVars, provVars, handler_, lock, refVars, crashed>>

\* if_sync_query::operator(), call_locking and call_same_thread of the volatile
\* one: "we can skip the lock since the same executor is never updated from
\* different threads"
CallUnlocked(t) ==
    /\ Calls(t, {"sync", "volatile"}) /\ mutual_executor_(t, act[t].of)
    /\ RunNow(t)
    /\ UNCHANGED <<brokerVars, provVars, handler_, lock, refVars, queue, crashed>>

\* "trying to same-thread call a volatile sync query but it's on a different thread"
CallWrongThread(t) ==
    /\ Calls(t, {"volatile"}) /\ ~mutual_executor_(t, act[t].of) /\ act[t].do = "call_same_thread"
    /\ Crash("thread")
    /\ UNCHANGED <<brokerVars, provVars, handler_, lock, refVars, queue>>

CallLocking(t) ==
    /\ Calls(t, {"sync", "volatile"}) /\ ~mutual_executor_(t, act[t].of) /\ act[t].do = "call"
    /\ Goto(t, "locking")
    /\ UNCHANGED <<brokerVars, provVars, handler_, lock, refVars, queue, crashed>>

\* std::lock_guard lg(linked_handling_component_->lock), and the handler
EnterLocked(t) ==
    LET c == act[t].of IN
    /\ Acting(t, "locking") /\ lock[c] = None
    /\ lock' = [lock EXCEPT ![c] = t]
    /\ RunNow(t)
    /\ UNCHANGED <<brokerVars, provVars, handler_, refVars, queue, crashed>>

\* the handler returns, and the lock_guard of a locked call unlocks
Return(t) ==
    LET c == act[t].of IN
    /\ Acting(t, "running")
    /\ lock' = IF lock[c] = t THEN [lock EXCEPT ![c] = None] ELSE lock
    /\ Done(t)
    /\ UNCHANGED <<brokerVars, provVars, handler_, refVars, queue, crashed>>

\* mutant: the request captures the handler, as one of async_query.h does
RunCaptured(t) ==
    /\ AtRest(t) /\ queue[t] # << >>
    /\ LET r == Head(queue[t]) IN
       IF life[r.of] = "freed" \/ handler_[r.of][r.query] = 0
       THEN Crash(IF life[r.of] = "freed" THEN "dangling" ELSE "empty")
       ELSE /\ Run(t, [Idle EXCEPT !.of = r.of, !.query = r.query], r.layers)
            /\ UNCHANGED crashed
    /\ queue' = [queue EXCEPT ![t] = Tail(@)]
    /\ UNCHANGED <<brokerVars, provVars, handler_, lock, refVars>>

\* mutant: the request does not check that the handler is there
RunUnchecked(t) ==
    /\ AtRest(t) /\ queue[t] # << >>
    /\ LET r == Head(queue[t]) IN
       IF life[r.of] = "freed"
       THEN Crash("dangling")
       ELSE /\ Run(t, [Idle EXCEPT !.of = r.of, !.query = r.query], handler_[r.of][r.query])
            /\ UNCHANGED crashed
    /\ queue' = [queue EXCEPT ![t] = Tail(@)]
    /\ UNCHANGED <<brokerVars, provVars, handler_, lock, refVars>>

\* The executor runs request_task, which has a plain pointer to the query and
\* reads its handler.
RunRequest(t) ==
    /\ AtRest(t) /\ queue[t] # << >>
    /\ LET r == Head(queue[t]) IN
       IF life[r.of] = "freed" \/ handler_[r.of][r.query] = 0
       THEN Crash(IF life[r.of] = "freed" THEN "dangling" ELSE "empty")
       ELSE /\ Run(t, [Idle EXCEPT !.of = r.of, !.query = r.query], handler_[r.of][r.query])
            /\ UNCHANGED crashed
    /\ queue' = [queue EXCEPT ![t] = Tail(@)]
    /\ UNCHANGED <<brokerVars, provVars, handler_, lock, refVars>>

(* --------------------------------- filters -------------------------------- *)

\* prepend_filter locks the component and moves the handler out of the query ...
TakeHandler(t, c, q) ==
    /\ lock[c] = None /\ lock' = [lock EXCEPT ![c] = t]
    /\ handler_' = [handler_ EXCEPT ![c][q] = 0]
    /\ act' = [act EXCEPT ![t].at = "filtering", ![t].do = "filter", ![t].of = c,
                          ![t].query = q, ![t].layers = handler_[c][q]]

\* ... on behalf of the provider: prepend_async_query_filter
OwnerFilter(c, q) ==
    LET t == HomeThread[c] IN
    /\ c \in owned /\ AtRest(t) /\ life[c] \in {"published", "unpublished"}
    /\ Kind[q] = "async" /\ MayFilter(q)
    /\ TakeHandler(t, c, q)
    /\ UNCHANGED <<brokerVars, provVars, refVars, queue, crashed>>

\* ... or of a client, through its proxy. When nobody holds the provider any more,
\* handling_component_.lock() fails and there is no filter; that of an asynchronous
\* query has locked the provider before.
ClientFilter(t) ==
    LET c == act[t].of
        q == act[t].query
    IN /\ Ready(t) /\ act[t].do = "filter" /\ ~Broken(t)
       /\ \/ /\ Held(c)
             /\ TakeHandler(t, c, q)
          \/ /\ ~Held(c) /\ (Kind[q] = "async" => lock[c] = None)
             /\ Done(t)
             /\ UNCHANGED <<handler_, lock>>
       /\ UNCHANGED <<brokerVars, provVars, refVars, queue, crashed>>

\* mutant: the filter is put in place of the handler
StoreAlone(t) ==
    LET c == act[t].of
        q == act[t].query
    IN /\ Acting(t, "filtering")
       /\ handler_' = [handler_ EXCEPT ![c][q] = 1]
       /\ prepended' = [prepended EXCEPT ![c][q] = @ + 1]
       /\ lock' = [lock EXCEPT ![c] = None]
       /\ IF act[t].ref = None THEN Goto(t, "filtered") ELSE Done(t)
       /\ UNCHANGED <<brokerVars, life, owned, handling_component_, refVars, queue, crashed>>

\* mutant: the lock is kept
StoreKeepsLock(t) ==
    LET c == act[t].of
        q == act[t].query
    IN /\ Acting(t, "filtering")
       /\ handler_' = [handler_ EXCEPT ![c][q] = act[t].layers + 1]
       /\ prepended' = [prepended EXCEPT ![c][q] = @ + 1]
       /\ IF act[t].ref = None THEN Goto(t, "filtered") ELSE Done(t)
       /\ UNCHANGED <<brokerVars, life, owned, handling_component_, lock, refVars, queue, crashed>>

\* the new handler, which has the previous one inside, is put there; unlock
StoreFilter(t) ==
    LET c == act[t].of
        q == act[t].query
    IN /\ Acting(t, "filtering")
       /\ handler_' = [handler_ EXCEPT ![c][q] = act[t].layers + 1]
       /\ prepended' = [prepended EXCEPT ![c][q] = @ + 1]
       /\ lock' = [lock EXCEPT ![c] = None]
       /\ IF act[t].ref = None THEN Goto(t, "filtered") ELSE Done(t)
       /\ UNCHANGED <<brokerVars, life, owned, handling_component_, refVars, queue, crashed>>

\* the provider then invalidates its interfaces
FilterInvalidate(t) ==
    /\ Acting(t, "filtered")
    /\ invalidate(Interface)
    /\ Done(t)
    /\ UNCHANGED <<provVars, handler_, lock, refVars, queue, crashed>>

(* ------------------------------ the providers ----------------------------- *)

\* publish() calls publish_interface: broker_.associate(msg_id, ...)
PublishAssociate(c) ==
    LET t == HomeThread[c] IN
    /\ c \in owned /\ life[c] = "new" /\ AtRest(t)
    /\ associate(Interface, c)
    /\ life' = [life EXCEPT ![c] = "associated"]
    /\ act' = [act EXCEPT ![t].at = "publishing", ![t].of = c]
    /\ UNCHANGED <<owned, handling_component_, prepended, handler_, lock, refVars, queue, crashed>>

\* interfaces_[msg_id] = &impl
PublishInterface(t) ==
    LET c == act[t].of IN
    /\ Acting(t, "publishing") /\ life[c] = "associated"
    /\ life' = [life EXCEPT ![c] = "publishing"]
    /\ UNCHANGED <<brokerVars, owned, handling_component_, prepended, handler_, lock, refVars, act, queue, crashed>>

\* publish_async_query, publish_sync_query, publish_volatile_sync_query: the
\* query gets its handler ...
PublishHandler(t, q) ==
    LET c == act[t].of IN
    /\ Acting(t, "publishing") /\ life[c] = "publishing"
    /\ act[t].query = None /\ q \notin handling_component_[c]
    /\ handler_' = [handler_ EXCEPT ![c][q] = 1]
    /\ act' = [act EXCEPT ![t].query = q]
    /\ UNCHANGED <<brokerVars, provVars, lock, refVars, queue, crashed>>

\* ... and then its component and executor
PublishQuery(t) ==
    LET c == act[t].of IN
    /\ Acting(t, "publishing") /\ act[t].query # None
    /\ handling_component_' = [handling_component_ EXCEPT ![c] = @ \cup {act[t].query}]
    /\ act' = [act EXCEPT ![t].query = None]
    /\ UNCHANGED <<brokerVars, life, owned, prepended, handler_, lock, refVars, queue, crashed>>

\* mutant: the interface is not verified to be complete, nor is it awaited
PublishedEarly(t) ==
    LET c == act[t].of IN
    /\ Acting(t, "publishing") /\ life[c] = "publishing" /\ act[t].query = None
    /\ life' = [life EXCEPT ![c] = "published"]
    /\ Done(t)
    /\ UNCHANGED <<brokerVars, owned, handling_component_, prepended, handler_, lock, refVars, queue, crashed>>

\* the end of publish_dependencies: the post_publish_checks_ copy the interface
Published(t) ==
    LET c == act[t].of IN
    /\ Acting(t, "publishing") /\ handling_component_[c] = Queries
    /\ IF Complete(c) THEN /\ life' = [life EXCEPT ![c] = "published"]
                           /\ Done(t) /\ UNCHANGED crashed
                      ELSE Crash("empty") /\ UNCHANGED life
    /\ UNCHANGED <<brokerVars, owned, handling_component_, prepended, handler_, lock, refVars, queue>>

\* unpublish_dependencies, called by the application, takes the broker's mutex ...
Unpublish(c) ==
    /\ c \in owned /\ life[c] = "published" /\ AtRest(HomeThread[c])
    /\ disassociate_everything(c, Live)
    /\ UNCHANGED <<provVars, handler_, lock, refVars, act, queue, crashed>>

\* ... and goes from message to message; in the end published_ = false
Disassociate(m) ==
    /\ disassociate(m, Live)
    /\ life' = IF LastMessage(m) THEN [life EXCEPT ![walk.of] = "unpublished"] ELSE life
    /\ UNCHANGED <<owned, handling_component_, prepended, handler_, lock, refVars, act, queue, crashed>>

\* the application drops a provider, or a component with a reference
DropOwner(c) ==
    /\ c \in owned /\ life[c] \in {"published", "unpublished"} /\ AtRest(HomeThread[c])
    /\ owned' = owned \ {c}
    /\ UNCHANGED <<brokerVars, life, handling_component_, prepended, handler_, lock, refVars, act, queue, crashed>>

DropRef(r) ==
    LET drop(f) == [f EXCEPT ![r] = None] IN
    /\ r \in refs /\ AtRest(RefThread[r])
    /\ refs' = refs \ {r}
    /\ resolved_receivers_' = drop(resolved_receivers_)
    /\ local_interface_proxy_' = drop(local_interface_proxy_)
    /\ receiver_' = drop(receiver_) /\ failed' = failed \ {r}
    /\ UNCHANGED <<brokerVars, provVars, handler_, lock, act, queue, crashed>>

\* ~component_base of a provider nobody holds any more
DestructorUnpublish(c) ==
    /\ ~Held(c) /\ life[c] = "published"
    /\ disassociate_everything(c, Live)
    /\ UNCHANGED <<provVars, handler_, lock, refVars, act, queue, crashed>>

\* the same, by the thread that is inside the broker and let go of c there
NestedUnpublish(c) ==
    /\ ~Held(c) /\ life[c] = "published"
    /\ disassociate_nested(c, Live)
    /\ life' = [life EXCEPT ![c] = "unpublished"]
    /\ UNCHANGED <<owned, handling_component_, prepended, handler_, lock, refVars, act, queue, crashed>>

\* The members are destroyed, among them the interface with its queries, and the
\* lock. A thread that uses one of them is lost.
Free(c) ==
    /\ ~Held(c) /\ life[c] = "unpublished"
    /\ life' = [life EXCEPT ![c] = "freed"]
    /\ IF \E t \in Threads : act[t].of = c /\ act[t].at \in {"locking", "running"}
       THEN Crash("dangling") ELSE UNCHANGED <<act, crashed>>
    /\ UNCHANGED <<brokerVars, owned, handling_component_, prepended, handler_, lock, refVars, queue>>

(* -------------------------------- the program ----------------------------- *)

\* what the application may do, and need not
Choice == \/ \E r \in Refs : \/ DropRef(r)
                             \/ \E do \in Uses, q \in Queries \cup {None} : Lookup(r, do, q)
          \/ \E c \in Components : \/ PublishAssociate(c) \/ Unpublish(c) \/ DropOwner(c)
                                   \/ \E q \in Queries : OwnerFilter(c, q)

\* how a thread goes on
Goes(t) == \/ LockReceivers(t) \/ LockReceiver(t) \/ LookupInterface(t) \/ Link(t)
           \/ UseBroken(t) \/ CallDirectly(t) \/ CallEnqueued(t) \/ CallUnlocked(t)
           \/ CallWrongThread(t) \/ CallLocking(t) \/ EnterLocked(t) \/ Return(t)
           \/ ClientFilter(t) \/ StoreFilter(t) \/ FilterInvalidate(t)
           \/ PublishInterface(t) \/ PublishQuery(t) \/ Published(t)
           \/ \E q \in Queries : PublishHandler(t, q)

Running == crashed = "no"
Next == /\ Running
        /\ \/ Choice
           \/ \E t \in Threads : Goes(t) \/ RunRequest(t)
           \/ \E c \in Components : DestructorUnpublish(c) \/ NestedUnpublish(c) \/ Free(c)
           \/ \E m \in Messages : Disassociate(m)

\* A thread finishes what it does, a walk of the broker too, and gets a lock that is
\* free again and again. Nothing else has to happen.
Fairness == /\ \A t \in Threads : SF_vars(Running /\ Goes(t))
            /\ WF_vars(Running /\ \E m \in Messages : Disassociate(m))

SafeSpec == Init /\ [][Next]_vars
Spec == SafeSpec /\ Fairness
-----------------------------------------------------------------------------

Steps == {"idle", "fetched", "listed", "located", "linking", "ready", "locking", "running",
          "filtering", "filtered", "publishing"}

Activity == [at : Steps, ref : Refs \cup {None}, do : Uses \cup {None},
             query : Queries \cup {None}, of : Components \cup {None}, layers : Nat]
Requests == [of : Components, query : Queries, layers : Nat]

\* Types of the fields; a handler that runs is one.
TypeOK ==
    /\ life \in [Components ->
                   {"new", "associated", "publishing", "published", "unpublished", "freed"}]
    /\ owned \subseteq Components /\ refs \subseteq Refs
    /\ handler_ \in [Components -> [Queries -> Nat]]
    /\ handling_component_ \in [Components -> SUBSET Queries]
    /\ prepended \in [Components -> [Queries -> Nat]]
    /\ lock \in [Components -> Threads \cup {None}]
    /\ resolved_receivers_ \in [Refs -> Nat \cup {None}]
    /\ local_interface_proxy_ \in [Refs -> Components \cup {None}]
    /\ receiver_ \in [Refs -> Components \cup {None}] /\ failed \subseteq Refs
    /\ act \in [Threads -> Activity]
    /\ \A t \in Threads : Acting(t, "running") => act[t].layers > 0
    /\ queue \in [Threads -> Seq(Requests)]
    /\ crashed \in {"no", "null", "empty", "dangling", "thread"}

\* "These can be pointers since the broker will invalidate the receiver set if the
\* target goes out of scope": between its lookups a reference's proxy, which the next
\* call may use, is of the provider it keeps, which is not destroyed -- unless the
\* last lookup failed: it may have let go of receiver_ and kept the proxy.
ProxyKeptAlive == \A r \in refs \ failed :
    act[RefThread[r]].ref # r /\ local_interface_proxy_[r] # None =>
        /\ local_interface_proxy_[r] = receiver_[r]
        /\ life[receiver_[r]] # "freed"

\* Filters are prepended by the provider and by clients on their own threads, each
\* around the handler it has moved out. None is lost, nor is the handler: outside
\* of prepend_filter a query has its handler and every filter.
NoFilterLost == \A c \in Components : \A q \in handling_component_[c] :
    (~ \E t \in Threads : Acting(t, "filtering") /\ act[t].of = c /\ act[t].query = q) =>
        handler_[c][q] = 1 + prepended[c][q]

\* A call goes through all the filters that are there when its handler is run,
\* though the client linked its proxy or enqueued its request before them.
CallsGoThroughFilters == [][\A t \in Threads :
    act'[t].at = "running" /\ act[t].at # "running" =>
        act'[t].layers = 1 + prepended[act'[t].of][act'[t].query]]_vars

\* An asynchronous query is handled on the thread of its executor; a synchronous
\* one on its provider's thread or under the provider's lock, which nobody
\* else has meanwhile and so prepends no filter.
HandledWhereItShould == \A t \in Threads : Acting(t, "running") =>
    LET c == act[t].of
        q == act[t].query
    IN IF Kind[q] = "async" THEN linked_executor_(c, q) = t
       ELSE HomeThread[c] = t \/ lock[c] = t

\* "component hasn't implemented" and the abort on an empty handler happen while
\* the provider is in publish() or another thread is inside prepend_filter, and at
\* no other time.
EmptyOnlyMeanwhile == [][
    crashed' = "empty" => \E t \in Threads : act[t].at \in {"publishing", "filtering"}]_vars

\* Every use of an interface ends: the locks, of which a call and a filter take
\* one each, block no thread for good.
UsesEnd == \A t \in Threads : act[t] # Idle ~> act[t] = Idle \/ ~Running
=============================================================================
