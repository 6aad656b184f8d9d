# minicomps, specified in TLA+

minicomps is a C++17 library for programs made of *components* that talk by messages: synchronous
and asynchronous queries, events and interfaces. This directory models its concurrent core, checks
it with TLC and proves part of it with TLAPS. Line numbers are in `PROJECT.json`, which maps every
definition to the code it stands for.

## The system

| part | state | operations | talks to |
|---|---|---|---|
| executor (`executor.h`) | two vectors of tasks, a mutex | `enqueue_work`, `execute` | run by one thread, filled by all |
| broker (`broker.cpp`) | message → immutable list of `weak_ptr<component>`, shared | `associate`, `disassociate(_everything)`, `invalidate`, `lookup` | called by components and references, under its mutex |
| component_base | handler maps, executor overrides, references, `published_` | publish, filter, unpublish, destructor | broker; other components through references |
| mono_ref | cached handler, list, receiver, executor | `lookup` | broker, then the receiver |
| async_query, callback_result, lifetime | request and response on executors; a `weak_ptr` to the sender's lifetime | call, answer, cancel | executors; mono_ref |
| sync_query, if_sync_query, if_volatile_sync_query | the receiver's recursive lock | call | mono_ref |
| poly_ref, event | cached list of receivers | emit | broker, executors |
| interface_ref, interface, if_async_query | cached proxy of an interface | lookup, call, clone with a lifetime, filter | broker, executors |
| fixed_any | a value in an aligned buffer | assign, move, reset | executor's tasks |
| messaging, testing, tools | compile-time traits, test framework | | |
| sample application | sessions, users | | the library |

What is hard: components of one program run on several threads. A reference is used by the thread
of its owner while other threads publish, filter, unpublish and destroy; the broker's mutex is
released between giving out a list and its use; handlers are called through plain pointers that a
`shared_ptr` elsewhere keeps valid; a query between components on one executor is a plain call,
which skips the queue and the lock; callbacks may outlive whoever asked for them. What makes each
part correct: the executor loses, repeats and reorders nothing; a reference uses the handler that
is there; an answer reaches its callback once, on the right thread, or not at all if it was
canceled; locked queries exclude one another.

## Modules

| module | models | builds on |
|---|---|---|
| `WorkQueue` | what an executor promises: a FIFO queue whose front is run | |
| `Executor` | `mc::executor`, one action per access under and outside the mutex | implements `WorkQueue` |
| `Broker` | the broker's functions as operators over its map | |
| `MonoRef` | `mono_ref_base::lookup` step by step, with publishing, filters, unpublishing and destruction of components | extends `Broker` |
| `QueryPromise` | what an asynchronous query promises its sender | |
| `AsyncQuery` | calls, requests, answers, responses and lifetimes over executors and threads | implements `QueryPromise`; its queues are `WorkQueue`s |
| `SyncQuery` | synchronous queries and the components' recursive locks | |
| `Event` | events: `poly_ref_base::lookup`, the dispatch, subscribers and `disassociate` receiver by receiver | |
| `Interface` | `interface_ref_base::lookup`, the three kinds of interface query, publishing and filtering them | extends `Broker` |
| `Box` | what a `fixed_any` is to its user | |
| `FixedAny` | construction, moves and destruction of objects in the buffers and on the heap | implements `Box` |
| `MC*` | the instances for TLC | |
| `ExecutorProofs`, `MonoRefProofs`, `AsyncQueryProofs`, `SyncQueryProofs`, `EventProofs`, `InterfaceProofs`, `FixedAnyProofs` | theorems about the module in their names | `TLAPS` |

**Executor.** `mutex_`, `work_items_`, `work_items_back_buffer_` are the fields; `pos` is the loop
variable of `execute`; `pc` says where each thread is. A task is emplaced and assigned in two steps,
as in the code. A task that runs may enqueue into the executor that runs it, so the worker is a
producer too. `enqueued` and `executed` are histories.

**Broker and MonoRef.** A list is immutable and its identity is what a cached `weak_ptr` is about;
`version[m]` counts the lists message `m` has had. `receivers_[r]` is the version reference `r` has
cached; it has expired when the broker has another one and no lookup holds the old list in its
local `shared_ptr` (`Pins`). `disassociate_everything` is not one step: it holds the mutex (`walk`)
and goes from message to message, while it holds each receiver for a moment. A component that is let
go of there for the last time is destroyed by the walking thread, whose destructor enters the broker
again (`disassociate_nested`); the walk then writes its own copy of the list over what the destructor
wrote, so entries of components that were alive at one message and not at the next may come back
(`disassociate`). A `lookup` is one action per access to what threads share: fetch from
the broker, lock the list, lock the receiver, read its handler map, read its override map.
`publish_async_query` is three steps (associate, handler, override), a filter is two (replace,
invalidate). A handler is named by its component and the number of filters on it. A component is
*held* by the application or by a `receiver_` of a reference that still exists; when it is not held
any more it is destroyed by the destructor's two steps, of which the first is a walk, too. Assumed of the application: a component's
own operations do not overlap one another; a component is dropped between them and not half
published; a message is published once per component; a component whose `shared_ptr` the
application has dropped makes no more calls.

**AsyncQuery.** What runs on a thread is a stack of frames, since a query between components on one
executor is a call. In a frame of its own, a component may call its queries, answer those it has
kept a `callback_result` of -- in the handler, in a later update, or in the callback of another
query -- and reset its lifetimes. A lifetime is the identity of its `shared_ptr`; a call has caught
one. A `callback_result` that was answered through a queue is *spent*: its callback and its
lifetime were moved away. Using a request whose handler was destroyed, or the listener of a
destroyed sender, may end the program (`crashed`) -- a read of a destroyed sender may also go
unnoticed. The lookup is `MonoRef`'s and finds its receiver, which the sender keeps from then on.
Copies of a `callback_result` and coroutines are left out.

**SyncQuery.** A frame is the code of a component, entered with its lock or without. A query
across executors waits for the receiver's recursive lock, runs and releases it; one on the same
executor just runs. Before, the receiver is looked up; on a miss that takes the receiver's lock for a
moment, whatever executor it is on (`Lookup`, `LookedUp`), as the lookups of asynchronous queries,
events and interfaces do. A component may look up whom it has a reference to (`References`) whenever
it runs, so a miss need not be followed by a call. What a component does of its own accord runs without its lock.

**Event.** A thread is a stack of the calls it is in: an emission, a task of its executor, a
publication, a destructor, `disassociate` (`walk`). An emission is a `lookup` (fetch, lock the list,
clear the vector element by element, gather receiver by receiver) and the loop over
`receiver_handlers_`. A handler may emit again, which the code runs inside the outer emission, over
the same vector: if the inner lookup fills it anew, the outer loop is `stale` and its next turn
undefined. Every `shared_ptr` is accounted for (`HeldBy`), the one `disassociate` takes to each
receiver included. Whoever releases the last one runs the destructor there and then (`Release`
pushes it), inside the broker too, where the recursive mutex lets it in and the outer copy of the
list overwrites what the inner one wrote. What is in an event is left out, and with it that the code
moves it into the first task (`event.h:33`: "make sure we copy"). `handed` and `overlooked` are
histories. There is one message, with other references to it (`Others`) than the emitter's: while one
of those looks its receivers up it keeps the list it has locked (`Pin`, `Unpin`), which does not
expire when it is replaced. The emitter then goes on with its old vector (`Hit`), which the field
`old` of the emission says, or locks the old list (`Locked`). The receivers the other references cache
count as held by the application, and a lookup that locks a list only a third one keeps is one that
locked it earlier.

**Interface.** A thread does one thing at a time (`act`): a lookup and the use it was made for, a
publication, or a request from its queue. A handler is the number of its layers: 0 when the
`std::function` is empty, 1 for the handler, one more for each filter around it. `prepend_filter`
is two steps, moving the handler out and putting it back inside the filter, because calls test and
use it without the lock; the proxies read it through their link at each call. When nobody holds the
provider any more the filter is dropped without a word, as in the code. Calls of the three
kinds differ in where they run (`call_directly_`, a queue, the caller's thread) and in the lock.
The program ends (`crashed`) where the code aborts or dereferences null, and where a plain pointer
is used after its target was destroyed. `describe_dependencies` occurs as the lookup without a use.
`ProxyKeptAlive` leaves out references whose last lookup `failed` (a history): such a lookup may have
let go of `receiver_` and kept the proxy.
Testing the handler of an asynchronous query and calling it directly are one step.
Assumed of the application: a provider's own operations are on its thread, between its requests.

**FixedAny.** Addresses are numbers in a buffer and model values on the heap; an object has a type
and a value, and `functions` stands for the two `std::function`s, which know the type. A move from
a `fixed_any` that was never assigned calls an empty `std::function`, which throws.

## Runs

Passing:

| run | question | bounds |
|---|---|---|
| `executor` | is the executor a FIFO queue that runs everything? | 2 producers and the worker, 2 calls each: every pair of calls meets in `enqueue_work`, a batch of several tasks runs while the next fills, and the buffers are swapped back |
| `mono_ref` | are caches right when receivers come, go and change, and when may a lookup fail? | 2 components that both publish a message and call it (each may find the other, or itself); one of them publishes a second message, so a walk of the broker has two lists with destructors before, between and after, and takes 1 filter |
| `async_query` | is a query handled, answered once on the right thread, and not after a cancellation? | 3 components, 2 threads, 3 executors; a direct call, a remote one from its handler or later, and one on an executor of its own; the remote call is answered up to twice, a lifetime is reset once, the sender and the middle component are destroyed at any time |
| `sync_query` | is a lock held exactly as long as its queries run, and can threads wait for one another in a circle? | 4 components on 3 executors, a query that comes back to the component it has locked, lookups for each of the queries and one for an asynchronous query, 5 calls deep |
| `event` | who gets an event, how often and when no more, and what do broker and destructors do meanwhile? | one receiver on the emitter's executor and one on another, 2 emissions, the second after the first or from inside a handler of it, and one reference of another component that keeps lists |
| `interface` | do filters and handlers stay, and where do calls run? | 2 providers on threads of their own, a client on the thread of one of them; an asynchronous query, which each provider handles on the other's thread, so the client calls one directly and the other through a queue; a volatile query, called as a synchronous one is, too; 2 filters on the first, by a provider or the client; 1 asynchronous call at a time; one interface, so a walk of the broker is its begin and one list |
| `fixed_any` | is an object always in its place, owned once and of the type its functions expect? | 3 elements of a `std::vector<fixed_any<96>>` as they lie in memory (0, 176, 352, so a 32-aligned object fits at different offsets), 4 types: plain, over-aligned, too large with its alignment, exactly fitting |

`mono_ref`, `async_query`, `event`, `interface` and `fixed_any` say `CHECK_DEADLOCK FALSE`: there the components may all have been
destroyed, the application may stop, or the program may have ended. `sync_query` checks deadlock: the queries of the instance
take the locks in one order (`LocksInOrder`), the lookups included, and `NoWaitCycle` fails there as
soon as the queries on one executor take locks too. In general the code promises no such order, and
locks taken in two orders do deadlock. The order has to cover every component that is looked up:
queries x→p, p→y, y→x and q→x, with x and y on one executor and p and q on another, can deadlock at
the lookup y→x although the query y→x takes no lock.

Two actors are enough where a property relates two: one that looks up, calls or answers, and one
that changes what it is looking at. In `mono_ref` the second reference is what pins a replaced list
while the first one asks whether it has expired, the second message what leaves a walk half done, and the second provider makes a list of another
size. One filter gives a handler a successor; versions are bounded by the operations. In
`async_query` two answers to one call are the smallest number that could be delivered twice, and one
reset falls before or after each step of a call. In `sync_query` five frames hold an update, a lock,
a second lock and the re-entry into the first. In `event` the second emission is the one that uses
what the first one cached, after it or nested in it, and one other reference is enough to keep a list
that was replaced; two receivers are what a
list needs for one of them to be destroyed while the other one is looked at, and executors are told
apart as the emitter's own and another. In `interface` the second filter goes around the first while
a request that was enqueued before both waits, and a second provider is what makes a lookup fail
after one that succeeded, or find another provider. Three `fixed_any`s allow a value to be moved on.

Runs that refute what the documentation says (each one property, with a counterexample):

| run | the code | the claim |
|---|---|---|
| `reachable_stale` | a failed lookup leaves the old handler beside the new list, so the second one succeeds | `reachable()` says whether somebody responds |
| `lookup_lost` | a list replaced between two statements of `lookup` looks like no receiver | "No receivers"; all actions are thread safe |
| `reference_cycle` | unpublishing keeps the references | they are reset to avoid leaks |
| `async_gone` | an answer reads the listener of a destroyed sender | an answer to a sender that went away is ignored |
| `sync_skipped` | the lock that is skipped on one executor is the one others hold | an executor's components are never updated from different threads |

Further behaviours of this kind are in the models but have no run of their own; `PROJECT.json` lists
them as hazards: a lookup that fails to lock a new receiver lets go of the old one and keeps the
pointer to its handler; a lookup between the publication of a handler and of its executor override
caches the default executor; a list that was replaced does not expire while another lookup holds
it; a direct call of a query published on the sender's executor by a component of another one is
answered on the thread of whoever answers. A queued event runs a handler by a plain pointer, also
after its receiver was destroyed, and an emission from inside a handler may refill the vector the
outer one iterates over; a subscriber that is gathered between its association and its handler is
passed over until the list changes. While another reference's lookup keeps a replaced list an
emission goes by the vector that was gathered from it, gives its event to a receiver that has
unpublished since and passes over one that has subscribed: `NotAfterUnpublish` and
`ReachesSubscribers` except those emissions (`old`), and fail without the exception. When the last reference to a receiver dies inside
`disassociate`, the entry the destructor has removed is put back (`broker.cpp:45`): `ListMatchesLife`
and `ListedWhilePublished` therefore speak of components somebody holds. For events such an entry is harmless; for a query it
makes the list too long for a lookup until the next `disassociate`. A query of an interface is empty
while a filter is prepended to it, and a client that calls or links it then aborts
(`EmptyOnlyMeanwhile` says at what other time that cannot happen). `async_query` has the override executor run by the
receiver's own thread.

Each property of a passing run has a mutant: a definition replaced by the form a plausible bug
would give it, which violates the property in that run. They stand beside the definitions.

## Fairness

`Executor`: the worker's loop goes on, and a thread inside `enqueue_work` finishes; nothing is
assumed about who gets the mutex. `MonoRef`: a lookup that has begun ends, a walk of the broker goes
on, and a component nobody holds is destroyed by the thread that let go of it. `AsyncQuery`: a thread goes on with what it has
begun and handlers return (weak fairness of `Internal`); a thread calls `execute()` of its executors
again and again between its updates, so a task at the front is run if the thread is idle again and
again (strong fairness of `Run`). No answer, call or reset has to happen. `SyncQuery` is checked for
safety only. `Event`: each thread goes on with the call it is in, runs the tasks of its executor, and
handlers return (weak fairness of `Step`, one per thread). `Interface`: a thread that is in a use of
an interface goes on (strong fairness of `Goes`, one per thread): a lock that is free again and
again is got at last, which mutexes give in practice and C++ does not promise; and a walk of the
broker goes on (weak fairness of `Disassociate`). No emission, call,
filter or publication has to happen in either. `FixedAny` has no fairness.

## Proofs

For every value of the constants, from the named assumptions of the modules alone
(`ExecutorAssumption`, `BrokerAssumption`, `MonoRefAssumption`, `AsyncQueryAssumption`, `SyncQueryAssumption`,
`EventAssumption`, `InterfaceAssumption`, `FixedAnyAssumption`). Three theorems of
`AsyncQueryProofs` have the hypothesis `OwnThread` and one of `SyncQueryProofs` has `LocksInOrder`:
the code does not enforce either, the properties fail without them, and TLC checks, as an `ASSUME`
of `MCAsyncQuery` and of `MCSyncQuery`, that the instances satisfy them.

- `ExecutorProofs`: `TypeCorrect`, `LockDisciplineHolds`, `NoHalfBuiltTaskRuns`,
  `RunsExactlyOnceInOrder`, and `SafetyRefinement` (`Spec` implies the safety part of `WorkQueue`).
  The properties are not inductive: the inductive invariant adds that a blank task is only at the
  end of `work_items_` while its producer is between emplace and assign, and that the back buffer
  is empty whenever the worker swaps -- without it swapping would bring old tasks in front.
- `MonoRefProofs`: `TypeCorrect`, `CacheIsCurrentHolds`, `HandlerKeptAliveHolds`,
  `ListedWhilePublishedHolds`. `CacheIsCurrent` speaks of an idle reference, so the inductive invariant
  follows a lookup: what its local list is, that the receiver it has is the only one of that list,
  that a resolved handler is that receiver's with all its filters unless the filter's invalidation
  is still to come, and that versions only grow, which makes an equal version the same list.
  `ListedWhilePublished` is needed for it, through every list a walk writes: what comes back in a
  copy is nobody's any more, and a nested walk removes no entry of a component that is held.
  `HandlerKeptAlive` needs that a held component is not freed. One lemma per action. The action property
  `FailsOnlyOnReplacedListHolds` follows the lookups whose message has had one published receiver
  all the time (`SteadyOn`): everybody who has read a list with the version such a lookup has
  found that receiver in it and nobody else, also when the broker has replaced the list since and
  only another lookup keeps it; and who is published has its handler (`PublishInv`).
- `AsyncQueryProofs`: `TypeCorrect`, `CallbackAtMostOnce`, `QueuedCallsOnThreads`, `NoQueryLost` and
  `NoAnswerLost`, on whatever executors queries are published; and under `OwnThread` -- a component publishes its queries on
  executors its own thread runs -- `CallbacksOnSenderThread`, `NoneAfterReset` and `PromiseKept`
  (`SafeSpec` implements `QueryPromise`). `AtMostOnce` is not inductive: `CallInv` follows a call
  through its stages (`Staged`: a live `callback_result`, a response in the queue, the response on
  the stack, delivered; no two of them at once, and one request and one answer that counts), and
  counts the uses of a direct call's `callback_result` that are still on a stack against its
  replies (`Counted`). The refinement needs these, too: its mapping has the promise `answered` as
  long as nothing was delivered, so nothing may be delivered more often than replied. `KInv` says
  the converse of `AtMostOnce`, that nothing gets lost, which is what the liveness properties rest
  on: a call that was made is in a queue or at its handler unless the receiver is gone, and an answer
  is in the sender's queue, on a stack or with the callback unless it has expired. A
  `callback_result` is spent by a use only -- a second answer must not be taken for the only one --
  and identities of lifetimes only grow, so what has expired stays expired. `OInv` puts
  every frame on the thread it belongs to and says that a lifetime that was looked at has not
  expired: nothing that resets a lifetime or destroys a sender comes between the look and the
  callback, because the frames above are calls on the same thread. `OwnThread` is needed: when a
  query of another component is published on the sender's executor by a component that runs on
  another thread, whoever answers runs the callback on its own thread, and TLC finds
  `CallbackOnSenderThread` and `NoCallbackAfterReset` violated in that instance (while what is
  proved without the hypothesis holds).
- `EventProofs`: `TypeCorrect`, `ListKept`, `NothingAfterUnpublish` and the action
  property `AllReached`, for any receivers, threads and emissions, calls nested to any depth. The
  inductive invariant has four layers, each proved action by action from the ones before:
  `Shape` (types; `Nest`, what may be on a stack above what; and that nothing somebody holds is
  destroyed or in its destructor, which accounts for every `shared_ptr` on every stack),
  `BrokerInv` (one thread is in the broker at a time; the list has no duplicates; every
  `disassociate` under way has looked at part of the list and kept the rest, with the component
  it removes held by nobody when it is an inner one -- that is why overwriting what the inner one
  wrote loses nothing that `ListMatchesLife` speaks of), `PinInv` (a list another lookup keeps has no
  duplicates, and is the broker's list if it is of the present version), and `EventInv`: what the cached vector
  has if it is of the present version (`CacheInv`), what a lookup has still to gather
  (`FetchInv`), and whom a dispatch has passed, once each (`DispatchInv`) -- unless the vector was
  filled anew under it. `CacheInv` is what makes `AllReached` and `NothingAfterUnpublish`
  independent of how old the cache is. Nothing is claimed of an emission over a vector that only other
  lookups keep from expiring (`old`), and the invariant does not need to.
- `InterfaceProofs`: `TypeCorrect`, `ProxyKeptAliveHolds`, `NoFilterLostHolds`,
  `HandledWhereItShouldHolds`, and the action properties `CallsGoThroughFiltersHolds` and
  `EmptyOnlyMeanwhileHolds`. The inductive invariant says of every place that keeps a plain pointer
  to a query -- a proxy, a request, a thread between two steps -- that it is a query of a provider
  which has published all of them. Whoever filters has the provider's lock and the handler with all
  its filters in hand, so two threads cannot filter at once, and a query that is empty is being
  filtered. `ThreadInv` gathers what a thread knows at each of its steps; `OtherThread` says once
  what the others must leave alone for it to stay true. One lemma per action.
- `SyncQueryProofs`: `TypeCorrect`, `LockCountsQueriesHolds`, `LockedQueriesExcludeHolds`, for calls
  of any depth between any components. The count of a lock is the number of frames on its owner's
  stack that entered with it; the invariant adds that a free lock counts nothing. The lemmas are
  about how many frames of a kind a stack has after a call and after a return. `NoWaitCycleHolds`
  is deadlock freedom for any number of threads under `LocksInOrder(Before, Holding)`: there is an
  order of the locks, without an endless way up, and whatever component comes to run with whatever
  locks its thread has then (`Holding`), whom it looks up -- for a query that takes the lock, for one
  that does not, or for none -- has a lock after all of these, or one of them. `OrderInv` says that every frame of every stack, not the top one alone, is among
  `Holding` with the locks of the frames under it, since a return uncovers it; in a circle the last
  of the wanted locks would have one after it.
- `FixedAnyProofs`: `TypeCorrect`, `OneOwnerHolds`, `InStorageHolds` and `FixedAnyIsABox` (`Spec`
  implements `Box`), wherever the buffers are and whatever sizes and alignments the types have. The
  invariant adds that `aligned_ptr_` is empty when the object is on the heap, and that a value is in
  one object only; a new object is put where its `fixed_any` may have one (`Place`), which no other
  `fixed_any`'s object can occupy.

Only model-checked: the liveness properties, which are out of this prover's reach
(`EveryTaskRuns`, `AnswerIsDelivered`, `QueryIsHandled`, `CallsReturn`, `DroppedAreDestroyed`,
`UsesEnd`), and with them the fairness part of `WorkQueue` in `ImplementsWorkQueue`. Of
`QueryIsHandled` and `AnswerIsDelivered` the half that is a safety property is proved (`NoQueryLost`,
`NoAnswerLost`, which no run states). Every safety property of a passing run is proved.

## Not modelled, and the plan

1. Interfaces: clones with a lifetime of their own, composed with `AsyncQuery`'s answers; today
   `Interface` ends a call when its handler returns.
2. Publishing a message again, and filters on messages that are events.
3. Dependency descriptions (`describe_dependencies`): only their lookups are modelled.

The sample application under `src/test` is a user of the library and is not modelled, nor are
exceptions out of handlers and out of `publish()`, and copies of a `callback_result`. `messaging.h` is compile-time, `tools/` and `testing.h` are the test framework, and minicoros is not
in the repository; listeners are notifications without effect.
