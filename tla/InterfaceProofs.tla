--------------------------- MODULE InterfaceProofs ---------------------------
(* Proofs about Interface for any number of providers, references, queries,   *)
(* threads, filters and requests. An interface that was linked is complete:   *)
(* a proxy, a request and a thread that uses a query all point to a provider  *)
(* whose queries have their handlers, except while the handler is inside      *)
(* prepend_filter, whose thread then has the provider's lock. IInv says so of *)
(* each place where such a pointer is kept. ThreadInv says it of a thread, in *)
(* each of its places; what other threads do leaves it true (OtherThread).    *)
EXTENDS Interface, TLAPS

\* A lookup is made for a use, by the thread of its reference, and knows what
\* it has read so far.
Looking == {"fetched", "listed", "located", "linking"}
LookupInv(t) ==
    /\ act[t].ref # None => act[t].ref \in refs /\ RefThread[act[t].ref] = t
    /\ act[t].at \in Looking =>
          /\ act[t].ref \in Refs /\ act[t].do \in Uses
          /\ act[t].do = "resolve" \/ act[t].query \in Queries
    /\ act[t].at \in {"listed", "located", "linking"} =>
          act[t].of \in Components /\ life[act[t].of] # "new"
    /\ act[t].at \in {"located", "linking"} => receiver_[act[t].ref] = act[t].of
    /\ act[t].at = "linking" => life[act[t].of] # "associated"

\* Who uses a query uses one of a provider that has published them all.
UseInv(t) ==
    /\ act[t].at \in {"ready", "locking", "running", "filtering"} =>
          /\ act[t].of \in Components /\ act[t].query \in Queries
          /\ handling_component_[act[t].of] = Queries
    /\ act[t].at = "ready" => act[t].do \in Uses
    /\ act[t].at = "locking" => Kind[act[t].query] # "async"
    /\ act[t].at = "running" => act[t].layers > 0

\* prepend_filter has the lock, and the handler with all its filters in its hands.
FilterInv(t) == act[t].at = "filtering" =>
    LET c == act[t].of
        q == act[t].query
    IN lock[c] = t /\ handler_[c][q] = 0 /\ act[t].layers = 1 + prepended[c][q]

\* A provider publishes on its thread, one query after the other.
PublishInv(t) == act[t].at = "publishing" =>
    LET c == act[t].of
        q == act[t].query
    IN /\ c \in Components /\ HomeThread[c] = t
       /\ life[c] \in {"associated", "publishing"}
       /\ q # None => q \in Queries \ handling_component_[c] /\ handler_[c][q] = 1

\* HandledWhereItShould, of one thread.
HandledInv(t) == act[t].at = "running" =>
    LET c == act[t].of
        q == act[t].query
    IN IF Kind[q] = "async" THEN linked_executor_(c, q) = t
       ELSE HomeThread[c] = t \/ lock[c] = t

ThreadInv(t) == LookupInv(t) /\ UseInv(t) /\ FilterInv(t) /\ PublishInv(t) /\ HandledInv(t)

\* The broker lists a provider from the moment it is associated, and goes over its
\* lists for one that was published.
BrokerInv ==
    /\ active_lookups_ \in [Messages -> SUBSET Components]
    /\ version \in [Messages -> Nat]
    /\ \A m \in Messages : \A c \in active_lookups_[m] : life[c] # "new"
    /\ walk # None =>
          walk \in Walks /\ life[walk.of] \in {"published", "unpublished", "freed"}

\* A provider is half published only while its thread publishes it, and has no
\* filters on a query before.
ProviderInv == \A c \in Components :
    /\ life[c] \in {"associated", "publishing"} =>
          act[HomeThread[c]].at = "publishing" /\ act[HomeThread[c]].of = c
    /\ life[c] \in {"published", "unpublished", "freed"} => handling_component_[c] = Queries
    /\ \A q \in Queries \ handling_component_[c] : prepended[c][q] = 0

\* A request is for the executor it is enqueued on, of a complete provider.
QueueInv == \A t \in Threads : \A i \in DOMAIN queue[t] :
    /\ Kind[queue[t][i].query] = "async"
    /\ linked_executor_(queue[t][i].of, queue[t][i].query) = t
    /\ handling_component_[queue[t][i].of] = Queries

\* A proxy is complete, and of the receiver, but for a lookup that is under way
\* and one that failed.
ProxyInv == \A r \in Refs :
    /\ local_interface_proxy_[r] # None =>
          handling_component_[local_interface_proxy_[r]] = Queries
    /\ r \notin failed /\ ~ (act[RefThread[r]].ref = r /\ act[RefThread[r]].at \in Looking) =>
          local_interface_proxy_[r] \in {None, receiver_[r]}

\* Nobody holds a provider that was destroyed, so it cannot be held again.
FreedNotHeld == \A c \in Components : life[c] = "freed" => ~Held(c)

IInv == /\ TypeOK /\ BrokerInv /\ ProviderInv /\ QueueInv /\ ProxyInv /\ FreedNotHeld
        /\ NoFilterLost
        /\ \A t \in Threads : ThreadInv(t)
-----------------------------------------------------------------------------
\* What a thread knows stays true when other threads let go of nothing it uses:
\* its lock, the queries behind it, the receiver of its reference, a provider it
\* publishes. Providers only go on in their lives.
LEMMA OtherThread ==
  ASSUME TypeOK, NEW u \in Threads, ThreadInv(u), act'[u] = act[u],
         act[u].ref # None =>
            act[u].ref \in refs' /\ receiver_'[act[u].ref] = receiver_[act[u].ref],
         \A c \in Components :
            /\ life[c] # "new" => life'[c] # "new"
            /\ life[c] \notin {"new", "associated"} => life'[c] # "associated"
            /\ handling_component_[c] = Queries => handling_component_'[c] = Queries
            /\ lock[c] = u => lock'[c] = u
            /\ act[u].at = "filtering" /\ act[u].of = c =>
                  handler_'[c] = handler_[c] /\ prepended'[c] = prepended[c]
            /\ act[u].at = "publishing" /\ act[u].of = c =>
                  /\ life'[c] = life[c]
                  /\ act[u].query # None => /\ handler_'[c] = handler_[c]
                                            /\ handling_component_'[c] = handling_component_[c]
  PROVE  ThreadInv(u)'
<1>1. LookupInv(u)'  BY InterfaceAssumption DEF ThreadInv, LookupInv, Looking
<1>2. UseInv(u)'  BY DEF ThreadInv, UseInv
<1>3. FilterInv(u)'  BY DEF ThreadInv, FilterInv, UseInv
<1>4. PublishInv(u)'  BY DEF ThreadInv, PublishInv
<1>5. HandledInv(u)'  BY DEF ThreadInv, HandledInv, UseInv, linked_executor_
<1> QED  BY <1>1, <1>2, <1>3, <1>4, <1>5 DEF ThreadInv

\* A step of thread t that leaves the providers alone: it has locks, and changes
\* the receivers of its own references.
LEMMA ThreadStep ==
  ASSUME IInv, NEW t \in Threads, ThreadInv(t)',
         \A u \in Threads : u # t => act'[u] = act[u],
         act[t].at \notin {"filtering", "publishing"},
         act'[t].at \notin {"filtering", "publishing"},
         UNCHANGED <<provVars, handler_, refs>>, UNCHANGED brokerVars \/ BrokerInv',
         \A c \in Components : lock'[c] = lock[c] \/ {lock[c], lock'[c]} \subseteq {t, None},
         \A r \in Refs : RefThread[r] # t => receiver_'[r] = receiver_[r],
         \A c \in Components : Held(c)' => Held(c)
  PROVE  /\ BrokerInv' /\ ProviderInv' /\ FreedNotHeld' /\ NoFilterLost'
         /\ \A u \in Threads : ThreadInv(u)'
<1> USE InterfaceAssumption
<1>1. BrokerInv'  BY DEF IInv, BrokerInv, brokerVars, provVars
<1>2. ProviderInv'
  BY DEF IInv, ProviderInv, provVars
<1>3. FreedNotHeld'  BY DEF IInv, FreedNotHeld, provVars
<1>4. NoFilterLost'
  BY DEF IInv, NoFilterLost, Acting, provVars
<1>5. ASSUME NEW u \in Threads, u # t PROVE ThreadInv(u)'
  <2>1. TypeOK /\ ThreadInv(u)  BY DEF IInv
  <2>2. act[u].ref # None => RefThread[act[u].ref] # t /\ act[u].ref \in Refs /\ act[u].ref \in refs
    BY <1>5, <2>1 DEF ThreadInv, LookupInv, TypeOK
  <2> QED  BY <1>5, <2>1, <2>2, OtherThread DEF provVars
<1> QED  BY <1>1, <1>2, <1>3, <1>4, <1>5

\* The same for a step that changes the activity of t and nothing else that is shared.
LEMMA QuietStep ==
  ASSUME IInv, NEW t \in Threads, ThreadInv(t)',
         \A u \in Threads : u # t => act'[u] = act[u],
         act[t].at \notin {"filtering", "publishing"},
         act'[t].at \notin {"filtering", "publishing"},
         UNCHANGED <<brokerVars, provVars, handler_, lock, refs, receiver_>>
  PROVE  /\ BrokerInv' /\ ProviderInv' /\ FreedNotHeld' /\ NoFilterLost'
         /\ \A u \in Threads : ThreadInv(u)'
<1>1. \A c \in Components : Held(c)' => Held(c)
  BY DEF Held, provVars
<1> QED  BY <1>1, ThreadStep

\* QueueInv of the next state, in which a query has the executor it always had.
LEMMA QueueInvNext ==
  ASSUME \A t \in Threads : \A i \in DOMAIN queue'[t] :
           /\ Kind[queue'[t][i].query] = "async"
           /\ linked_executor_(queue'[t][i].of, queue'[t][i].query) = t
           /\ handling_component_'[queue'[t][i].of] = Queries
  PROVE  QueueInv'
BY DEF QueueInv, linked_executor_

\* A proxy stays right while its lookup goes on, or if it fails.
LEMMA ProxyKept ==
  ASSUME ProxyInv, NEW t \in Threads,
         \A u \in Threads : u # t => act'[u] = act[u],
         UNCHANGED <<handling_component_, local_interface_proxy_>>,
         failed \subseteq failed',
         act[t].at \in Looking =>
            \/ act[t].ref \in failed'
            \/ act'[t].at \in Looking /\ act'[t].ref = act[t].ref,
         \A r \in Refs :
            \/ receiver_'[r] = receiver_[r]
            \/ r \in failed'
            \/ RefThread[r] = t /\ act'[t].at \in Looking /\ act'[t].ref = r
  PROVE  ProxyInv'
BY InterfaceAssumption DEF ProxyInv

\* The requests stay right while queues and providers are left alone.
LEMMA QueueKept ==
  ASSUME QueueInv, UNCHANGED <<queue, handling_component_>>
  PROVE  QueueInv'
BY DEF QueueInv, linked_executor_

\* A thread goes to another step.
LEMMA Moved ==
  ASSUME act \in [Threads -> Activity], NEW t \in Threads, NEW at \in Steps,
         act' = [act EXCEPT ![t].at = at]
  PROVE  /\ act' \in [Threads -> Activity] /\ \A u \in Threads : u # t => act'[u] = act[u]
         /\ act'[t].at = at /\ act'[t].of = act[t].of
         /\ act'[t].ref = act[t].ref /\ act'[t].do = act[t].do
         /\ act'[t].query = act[t].query /\ act'[t].layers = act[t].layers
<1>1. /\ act' \in [Threads -> Activity] /\ \A u \in Threads : u # t => act'[u] = act[u]
      /\ act'[t] = [act[t] EXCEPT !.at = at]
  BY DEF Activity
<1> QED  BY <1>1 DEF Activity

\* A thread is done.
LEMMA Ended ==
  ASSUME act \in [Threads -> Activity], NEW t \in Threads, act' = [act EXCEPT ![t] = Idle]
  PROVE  /\ act' \in [Threads -> Activity] /\ \A u \in Threads : u # t => act'[u] = act[u]
         /\ act'[t].at = "idle" /\ act'[t].ref = None /\ act'[t].of = None
         /\ act'[t].query = None /\ act'[t].do = None /\ act'[t].layers = 0
BY DEF Activity, Steps, Idle

\* A call, a filter or describe_dependencies() begins.
LEMMA LookupStep ==
  ASSUME IInv, NEW r \in Refs, NEW do \in Uses, NEW q \in Queries \cup {None}, Lookup(r, do, q)
  PROVE  IInv'
<1> USE InterfaceAssumption
<1> DEFINE t == RefThread[r]
<1>0. TypeOK /\ ProxyInv /\ QueueInv /\ BrokerInv /\ t \in Threads
  BY DEF IInv
<1>1. /\ UNCHANGED <<brokerVars, provVars, handler_, lock, refs, local_interface_proxy_,
                     receiver_, failed, queue, crashed>>
      /\ r \in refs /\ act[t] = Idle /\ Possible(do, q)
  BY DEF Lookup, AtRest
<1>2. \E a \in Activity :
         /\ act' = [act EXCEPT ![t] = a]
         /\ a.ref = r /\ a.do = do /\ a.query = q
         /\ \/ /\ a.at = "ready" /\ a.of = local_interface_proxy_[r] /\ do # "resolve"
               /\ a.of \in Components /\ UNCHANGED resolved_receivers_
            \/ /\ a.at = "fetched"
               /\ resolved_receivers_' = [resolved_receivers_ EXCEPT ![r] = version[Interface]]
  <2> DEFINE look(at, of) ==
        [at |-> at, ref |-> r, do |-> do, query |-> q, of |-> of, layers |-> 0]
  <2>1. CASE /\ Hit(r) /\ do # "resolve" /\ UNCHANGED resolved_receivers_
             /\ act' = [act EXCEPT ![t] = look("ready", local_interface_proxy_[r])]
    <3>1. local_interface_proxy_[r] \in Components  BY <1>0, <2>1 DEF TypeOK, Hit
    <3>2. look("ready", local_interface_proxy_[r]) \in Activity
      BY <3>1 DEF Activity, Steps
    <3> QED  BY <2>1, <3>1, <3>2
  <2>2. CASE /\ resolved_receivers_' = [resolved_receivers_ EXCEPT ![r] = lookup(Interface)]
             /\ act' = [act EXCEPT ![t] = look("fetched", None)]
    <3>1. look("fetched", None) \in Activity  BY DEF Activity, Steps
    <3> QED  BY <2>2, <3>1 DEF lookup
  <2> QED  BY <2>1, <2>2 DEF Lookup, Idle
<1>3. act' \in [Threads -> Activity] /\ \A u \in Threads : u # t => act'[u] = act[u]
  BY <1>0, <1>2 DEF TypeOK
<1>4. /\ act[t].at = "idle" /\ act'[t].ref = r /\ act'[t].do = do /\ act'[t].query = q
      /\ act'[t].at = "ready" \/ act'[t].at = "fetched"
      /\ do = "resolve" \/ q \in Queries
      /\ act'[t].at = "ready" => do # "resolve" /\ act'[t].of = local_interface_proxy_[r]
                                 /\ local_interface_proxy_[r] \in Components
  BY <1>0, <1>1, <1>2 DEF TypeOK, Idle, Possible, Uses
<1>5. TypeOK'
  <2>1. resolved_receivers_' \in [Refs -> Nat \cup {None}]
    <3>1. version[Interface] \in Nat  BY <1>0 DEF BrokerInv
    <3>2. \/ UNCHANGED resolved_receivers_
          \/ resolved_receivers_' = [resolved_receivers_ EXCEPT ![r] = version[Interface]]
      BY <1>2
    <3> QED  BY <1>0, <3>1, <3>2 DEF TypeOK
  <2>2. \A u \in Threads : Acting(u, "running")' => act'[u].layers > 0
    BY <1>0, <1>3, <1>4 DEF TypeOK, Acting
  <2> QED  BY <1>0, <1>1, <1>3, <2>1, <2>2 DEF TypeOK, provVars
<1>6. ThreadInv(t)'
  BY <1>0, <1>1, <1>4 DEF ThreadInv, LookupInv, UseInv, FilterInv, PublishInv, HandledInv, ProxyInv,
     Looking, provVars
<1>7. ProxyInv' /\ QueueInv'
  BY <1>0, <1>1, <1>3, <1>4, ProxyKept, QueueKept DEF Looking, provVars
<1> QED  BY <1>0, <1>1, <1>3, <1>4, <1>5, <1>6, <1>7, QuietStep DEF IInv

\* return nullptr, wherever a lookup does.
LEMMA FailStep ==
  ASSUME IInv, NEW t \in Threads, Fail(t), act[t].at \in {"fetched", "listed", "located"},
         UNCHANGED <<brokerVars, provVars, handler_, lock, refs, resolved_receivers_,
                     local_interface_proxy_, queue>>,
         receiver_' = receiver_ \/ (act[t].at = "listed"
                                    /\ receiver_' = [receiver_ EXCEPT ![act[t].ref] = None])
  PROVE  IInv'
<1> USE InterfaceAssumption
<1>0. TypeOK /\ ProxyInv /\ QueueInv /\ ThreadInv(t)
  BY DEF IInv
<1>1. act[t].ref \in Refs /\ RefThread[act[t].ref] = t
  BY <1>0 DEF ThreadInv, LookupInv, Looking
<1>2. \/ act' = [act EXCEPT ![t] = Idle]
      \/ act' = act
  BY DEF Fail, Done, Crash
<1>3. Idle \in Activity  BY DEF Idle, Activity, Steps
<1>4. /\ act' \in [Threads -> Activity] /\ \A u \in Threads : u # t => act'[u] = act[u]
      /\ act'[t] = Idle \/ act'[t] = act[t]
  <2>1. act \in [Threads -> Activity]  BY <1>0 DEF TypeOK
  <2> QED  BY <1>2, <1>3, <2>1
<1>5. failed' = failed \cup {act[t].ref} /\ crashed' \in {"no", "null", "empty", "dangling", "thread"}
  BY <1>0 DEF Fail, Done, Crash, TypeOK
<1>6. receiver_' \in [Refs -> Components \cup {None}]
      /\ \A r \in Refs : r # act[t].ref => receiver_'[r] = receiver_[r]
  BY <1>0 DEF TypeOK
<1>7. \A c \in Components : Held(c)' => Held(c)
  <2>1. ASSUME NEW c \in Components, NEW u \in Threads, act'[u].at = "filtering", act'[u].of = c
        PROVE  act[u].at = "filtering" /\ act[u].of = c
    BY <1>4, <2>1 DEF Idle
  <2>2. ASSUME NEW c \in Components, NEW r \in Refs, receiver_'[r] = c PROVE receiver_[r] = c
    BY <1>0, <1>1, <2>2 DEF TypeOK
  <2> QED  BY <2>1, <2>2 DEF Held, provVars
<1>8. TypeOK'
  <2>1. ASSUME NEW u \in Threads, Acting(u, "running")' PROVE act'[u].layers > 0
    <3>1. act'[u] = act[u]  BY <1>4, <2>1 DEF Acting, Idle
    <3> QED  BY <1>0, <2>1, <3>1 DEF TypeOK, Acting
  <2> QED  BY <1>0, <1>1, <1>4, <1>5, <1>6, <2>1 DEF TypeOK, provVars
<1>9. ThreadInv(t)'
  <2>1. CASE act'[t] = Idle
    BY <2>1 DEF Idle, ThreadInv, LookupInv, UseInv, FilterInv, PublishInv, HandledInv, Looking
  <2>2. CASE act'[t] = act[t]
    BY <1>0, <2>2 DEF ThreadInv, LookupInv, UseInv, FilterInv, PublishInv, HandledInv, Looking, provVars
  <2> QED  BY <1>4, <2>1, <2>2
<1>10. ProxyInv' /\ QueueInv'
  BY <1>0, <1>1, <1>4, <1>5, <1>6, ProxyKept, QueueKept DEF Looking, provVars
<1>11. act'[t].at \notin {"filtering", "publishing"}
  BY <1>4 DEF Idle
<1> QED  BY <1>1, <1>4, <1>6, <1>7, <1>8, <1>9, <1>10, <1>11, ThreadStep DEF IInv, provVars

\* A lookup has found the only receiver of its list.
LEMMA LockReceiversStep ==
  ASSUME IInv, NEW t \in Threads, LockReceivers(t)
  PROVE  IInv'
<1> USE InterfaceAssumption
<1> DEFINE r == act[t].ref
<1>0. TypeOK /\ BrokerInv /\ ProxyInv /\ QueueInv /\ \A u \in Threads : ThreadInv(u)
  BY DEF IInv
<1>1. /\ UNCHANGED <<brokerVars, provVars, handler_, lock, refs, resolved_receivers_,
                     local_interface_proxy_, receiver_, queue>>
      /\ act[t].at = "fetched"
  BY DEF LockReceivers, Acting
<1>2. CASE Fail(t)
  BY <1>1, <1>2, FailStep
<1>3. ASSUME NEW c \in Components, Receivers(r) = {c}, UNCHANGED <<failed, crashed>>,
             act' = [act EXCEPT ![t].at = "listed", ![t].of = c]
      PROVE  IInv'
  <2>1. life[c] # "new"
    <3>1. CASE c \in active_lookups_[Interface]
      BY <1>0, <3>1 DEF BrokerInv
    <3>2. ASSUME NEW u \in Threads, Pins(u, r), c = act[u].of PROVE life[c] # "new"
      BY <1>0, <3>2 DEF Pins, ThreadInv, LookupInv
    <3> QED  BY <1>3, <3>1, <3>2 DEF Receivers
  <2>2. act \in [Threads -> Activity] /\ "listed" \in Steps  BY <1>0 DEF TypeOK, Steps
  <2>3. /\ act' \in [Threads -> Activity] /\ \A u \in Threads : u # t => act'[u] = act[u]
        /\ act'[t].at = "listed" /\ act'[t].of = c
        /\ act'[t].ref = r /\ act'[t].do = act[t].do /\ act'[t].query = act[t].query
    <3>1. /\ act' \in [Threads -> Activity] /\ \A u \in Threads : u # t => act'[u] = act[u]
          /\ act'[t] = [act[t] EXCEPT !.at = "listed", !.of = c]
      <4>1. act' = [act EXCEPT ![t] = [act[t] EXCEPT !.at = "listed", !.of = c]]
        BY <1>3
      <4>2. [act[t] EXCEPT !.at = "listed", !.of = c] \in Activity
        <5>1. act[t] \in Activity /\ "listed" \in Steps  BY <2>2
        <5> HIDE DEF r
        <5> QED  BY <5>1 DEF Activity
      <4> QED  BY <2>2, <4>1, <4>2
    <3> QED  BY <2>2, <3>1 DEF Activity
  <2>4. TypeOK'
    BY <1>0, <1>1, <1>3, <2>3 DEF TypeOK, Acting, provVars
  <2>5. ThreadInv(t)'
    <3>1. LookupInv(t)'  BY <1>0, <1>1, <2>1, <2>3 DEF ThreadInv, LookupInv, Looking, provVars
    <3>2. UseInv(t)' /\ FilterInv(t)' /\ PublishInv(t)' /\ HandledInv(t)'
      BY <2>3 DEF UseInv, FilterInv, PublishInv, HandledInv
    <3> QED  BY <3>1, <3>2 DEF ThreadInv
  <2>6. ProxyInv' /\ QueueInv'
    BY <1>0, <1>1, <1>3, <2>3, ProxyKept, QueueKept DEF Looking, provVars
  <2> QED  BY <1>1, <2>3, <2>4, <2>5, <2>6, QuietStep DEF IInv
<1> QED  BY <1>2, <1>3 DEF LockReceivers

\* It locks its weak_ptr.
LEMMA LockReceiverStep ==
  ASSUME IInv, NEW t \in Threads, LockReceiver(t)
  PROVE  IInv'
<1> USE InterfaceAssumption
<1> DEFINE r == act[t].ref
           c == act[t].of
<1>0. TypeOK /\ ProxyInv /\ QueueInv /\ ThreadInv(t)
  BY DEF IInv
<1>1. /\ UNCHANGED <<brokerVars, provVars, handler_, lock, refs, resolved_receivers_,
                     local_interface_proxy_, queue>>
      /\ act[t].at = "listed"
  BY DEF LockReceiver, Acting
<1>2. CASE ~Held(c)
  BY <1>1, <1>2, FailStep DEF LockReceiver
<1>3. CASE Held(c)
  <2>1. /\ c \in Components /\ r \in Refs /\ RefThread[r] = t /\ life[c] # "new"
    BY <1>0, <1>1 DEF ThreadInv, LookupInv, Looking
  <2>2. act \in [Threads -> Activity] /\ "located" \in Steps  BY <1>0 DEF TypeOK, Steps
  <2>3. /\ UNCHANGED <<failed, crashed>> /\ act' = [act EXCEPT ![t].at = "located"]
        /\ receiver_' = [receiver_ EXCEPT ![r] = c]
    BY <1>3 DEF LockReceiver, Goto
  <2>4. /\ act' \in [Threads -> Activity] /\ \A u \in Threads : u # t => act'[u] = act[u]
        /\ act'[t].at = "located" /\ act'[t].of = c
        /\ act'[t].ref = r /\ act'[t].do = act[t].do /\ act'[t].query = act[t].query
    BY <2>1, <2>2, <2>3, Moved
  <2>5. /\ receiver_' \in [Refs -> Components \cup {None}] /\ receiver_'[r] = c
        /\ \A s \in Refs : s # r => receiver_'[s] = receiver_[s]
    BY <1>0, <2>1, <2>3 DEF TypeOK
  <2>6. \A d \in Components : Held(d)' => Held(d)
    <3>1. ASSUME NEW d \in Components, NEW u \in Threads, act'[u].at = "filtering", act'[u].of = d
          PROVE  act[u].at = "filtering" /\ act[u].of = d
      BY <2>4, <3>1
    <3>2. ASSUME NEW d \in Components, NEW s \in Refs, receiver_'[s] = d PROVE d = c \/ receiver_[s] = d
      BY <2>5, <3>2
    <3> QED  BY <1>1, <1>3, <3>1, <3>2 DEF Held, provVars
  <2>7. TypeOK'
    BY <1>0, <1>1, <2>3, <2>4, <2>5 DEF TypeOK, Acting, provVars
  <2>8. ThreadInv(t)'
    BY <1>0, <1>1, <2>1, <2>4, <2>5 DEF ThreadInv, LookupInv, UseInv, FilterInv, PublishInv,
       HandledInv, Looking, provVars
  <2>9. ProxyInv' /\ QueueInv'
    BY <1>0, <1>1, <2>1, <2>3, <2>4, <2>5, ProxyKept, QueueKept DEF Looking, provVars
  <2> QED  BY <1>1, <2>1, <2>4, <2>5, <2>6, <2>7, <2>8, <2>9, ThreadStep DEF IInv
<1> QED  BY <1>2, <1>3

\* It asks it for the interface.
LEMMA LookupInterfaceStep ==
  ASSUME IInv, NEW t \in Threads, LookupInterface(t)
  PROVE  IInv'
<1> USE InterfaceAssumption
<1>0. TypeOK /\ ProxyInv /\ QueueInv /\ ThreadInv(t)
  BY DEF IInv
<1>1. /\ UNCHANGED <<brokerVars, provVars, handler_, lock, refs, resolved_receivers_,
                     local_interface_proxy_, receiver_, queue>>
      /\ act[t].at = "located"
  BY DEF LookupInterface, Acting
<1>2. CASE Fail(t)
  BY <1>1, <1>2, FailStep
<1>3. CASE life[act[t].of] # "associated" /\ Goto(t, "linking") /\ UNCHANGED <<failed, crashed>>
  <2>1. act \in [Threads -> Activity] /\ "linking" \in Steps /\ act[t].of \in Components
    BY <1>0, <1>1 DEF TypeOK, Steps, ThreadInv, LookupInv
  <2>2. /\ act' \in [Threads -> Activity] /\ \A u \in Threads : u # t => act'[u] = act[u]
        /\ act'[t].at = "linking" /\ act'[t].of = act[t].of
        /\ act'[t].ref = act[t].ref /\ act'[t].do = act[t].do /\ act'[t].query = act[t].query
    <3>1. act' = [act EXCEPT ![t].at = "linking"]  BY <1>3 DEF Goto
    <3> QED  BY <2>1, <3>1, Moved
  <2>3. TypeOK'
    BY <1>0, <1>1, <1>3, <2>2 DEF TypeOK, Acting, provVars
  <2>4. ThreadInv(t)'
    BY <1>0, <1>1, <1>3, <2>2 DEF ThreadInv, LookupInv, UseInv, FilterInv, PublishInv, HandledInv,
       Looking, provVars
  <2>5. ProxyInv' /\ QueueInv'
    BY <1>0, <1>1, <1>3, <2>2, ProxyKept, QueueKept DEF Looking, provVars
  <2> QED  BY <1>1, <2>2, <2>3, <2>4, <2>5, QuietStep DEF IInv
<1> QED  BY <1>2, <1>3 DEF LookupInterface

\* It links its proxy.
LEMMA LinkStep ==
  ASSUME IInv, NEW t \in Threads, Link(t)
  PROVE  IInv'
<1> USE InterfaceAssumption
<1> DEFINE r == act[t].ref
           c == act[t].of
<1>0. TypeOK /\ ProxyInv /\ QueueInv /\ ThreadInv(t)
  BY DEF IInv
<1>1. /\ UNCHANGED <<brokerVars, provVars, handler_, lock, refs, resolved_receivers_, receiver_,
                     queue>>
      /\ act[t].at = "linking"
  BY DEF Link, Acting
<1>2. CASE ~Complete(c)
  <2>1. UNCHANGED <<act, local_interface_proxy_, failed>> /\ crashed' = "empty"
    BY <1>2 DEF Link, Crash
  <2>2. TypeOK'  BY <1>0, <1>1, <2>1 DEF TypeOK, Acting, provVars
  <2>3. ThreadInv(t)'
    BY <1>0, <1>1, <2>1 DEF ThreadInv, LookupInv, UseInv, FilterInv, PublishInv, HandledInv,
       Looking, provVars
  <2>4. ProxyInv' /\ QueueInv'
    BY <1>0, <1>1, <2>1, ProxyKept, QueueKept DEF Looking, provVars
  <2> QED  BY <1>1, <2>1, <2>2, <2>3, <2>4, QuietStep DEF IInv
<1>3. CASE Complete(c)
  <2>1. /\ c \in Components /\ r \in Refs /\ RefThread[r] = t /\ receiver_[r] = c
        /\ act[t].do \in Uses /\ (act[t].do = "resolve" \/ act[t].query \in Queries)
        /\ handling_component_[c] = Queries
    BY <1>0, <1>1, <1>3 DEF ThreadInv, LookupInv, Looking, Complete
  <2>2. act \in [Threads -> Activity] /\ "ready" \in Steps  BY <1>0 DEF TypeOK, Steps
  <2>3. /\ local_interface_proxy_' = [local_interface_proxy_ EXCEPT ![r] = c]
        /\ failed' = failed \ {r} /\ UNCHANGED crashed
        /\ \/ act' = [act EXCEPT ![t] = Idle]
           \/ act[t].do # "resolve" /\ act' = [act EXCEPT ![t].at = "ready"]
    BY <1>3 DEF Link, Goto, Done
  <2>4. /\ act' \in [Threads -> Activity] /\ \A u \in Threads : u # t => act'[u] = act[u]
        /\ \/ act'[t].at = "idle" /\ act'[t].ref = None
           \/ /\ act'[t].at = "ready" /\ act'[t].of = c /\ act[t].do # "resolve"
              /\ act'[t].ref = r /\ act'[t].do = act[t].do /\ act'[t].query = act[t].query
    BY <2>1, <2>2, <2>3, Moved, Ended
  <2>5. /\ local_interface_proxy_' \in [Refs -> Components \cup {None}]
        /\ local_interface_proxy_'[r] = c
        /\ \A s \in Refs : s # r => local_interface_proxy_'[s] = local_interface_proxy_[s]
    BY <1>0, <2>1, <2>3 DEF TypeOK
  <2>6. TypeOK'
    BY <1>0, <1>1, <2>3, <2>4, <2>5 DEF TypeOK, Acting, provVars
  <2>7. ThreadInv(t)'
    BY <1>0, <1>1, <2>1, <2>4 DEF ThreadInv, LookupInv, UseInv, FilterInv, PublishInv, HandledInv,
       Looking, provVars
  <2>8. ProxyInv'
    <3> SUFFICES ASSUME NEW s \in Refs
                 PROVE  /\ local_interface_proxy_'[s] # None =>
                              handling_component_'[local_interface_proxy_'[s]] = Queries
                        /\ s \notin failed' /\ ~ (act'[RefThread[s]].ref = s
                                                  /\ act'[RefThread[s]].at \in Looking) =>
                              local_interface_proxy_'[s] \in {None, receiver_'[s]}
      BY DEF ProxyInv
    <3>1. CASE s = r
      BY <1>1, <2>1, <2>5, <3>1 DEF provVars
    <3>2. CASE s # r
      BY <1>0, <1>1, <2>1, <2>3, <2>4, <2>5, <3>2 DEF ProxyInv, provVars
    <3> QED  BY <3>1, <3>2
  <2>9. QueueInv'
    BY <1>0, <1>1, QueueKept DEF provVars
  <2> QED  BY <1>1, <2>4, <2>6, <2>7, <2>8, <2>9, QuietStep DEF IInv
<1> QED  BY <1>2, <1>3

\* The program ends.
LEMMA CrashStep ==
  ASSUME IInv, crashed' \in {"no", "null", "empty", "dangling", "thread"},
         UNCHANGED <<brokerVars, provVars, handler_, lock, refVars, act, queue>>
  PROVE  IInv'
<1>0. TypeOK /\ ProxyInv /\ QueueInv /\ BrokerInv /\ ProviderInv /\ FreedNotHeld /\ NoFilterLost
      /\ \A t \in Threads : ThreadInv(t)
  BY DEF IInv
<1>1. TypeOK'  BY <1>0 DEF TypeOK, Acting, provVars, refVars
<1>2. BrokerInv' /\ ProviderInv' /\ ProxyInv' /\ NoFilterLost'
  BY <1>0 DEF BrokerInv, ProviderInv, ProxyInv, NoFilterLost, Acting, brokerVars, provVars, refVars
<1>3. QueueInv'  BY <1>0, QueueKept DEF provVars
<1>4. FreedNotHeld'  BY <1>0 DEF FreedNotHeld, Held, provVars, refVars
<1>5. ASSUME NEW t \in Threads PROVE ThreadInv(t)'
  <2>1. ThreadInv(t)  BY <1>0
  <2>2. LookupInv(t)'  BY <2>1 DEF ThreadInv, LookupInv, Looking, provVars, refVars
  <2>3. UseInv(t)' /\ FilterInv(t)'  BY <2>1 DEF ThreadInv, UseInv, FilterInv, provVars
  <2>4. PublishInv(t)' /\ HandledInv(t)'
    BY <2>1 DEF ThreadInv, PublishInv, HandledInv, linked_executor_, provVars
  <2> QED  BY <2>2, <2>3, <2>4 DEF ThreadInv
<1> QED  BY <1>1, <1>2, <1>3, <1>4, <1>5 DEF IInv

\* A call that ends the program.
LEMMA CrashingCallStep ==
  ASSUME IInv, NEW t \in Threads, UseBroken(t) \/ CallWrongThread(t)
  PROVE  IInv'
<1>1. UNCHANGED <<brokerVars, provVars, handler_, lock, refVars, act, queue>>
  BY DEF UseBroken, CallWrongThread, Crash
<1>2. crashed' \in {"no", "null", "empty", "dangling", "thread"}
  BY DEF UseBroken, CallWrongThread, Crash
<1> QED  BY <1>1, <1>2, CrashStep

\* Thread t begins to run a handler that is there, on the right thread or with
\* the lock: what remains to be shown is QueueInv.
LEMMA RunStep ==
  ASSUME IInv, NEW t \in Threads, NEW a \in Activity, NEW c \in Components, NEW q \in Queries,
         a.of = c, a.query = q, a.ref \in {None, act[t].ref},
         act[t].at \in {"idle", "ready", "locking"},
         Run(t, a, handler_[c][q]), handler_[c][q] # 0, handling_component_[c] = Queries,
         IF Kind[q] = "async" THEN linked_executor_(c, q) = t ELSE HomeThread[c] = t \/ lock'[c] = t,
         UNCHANGED <<brokerVars, provVars, handler_, refVars, crashed>>,
         \/ lock' = lock
         \/ lock[c] = None /\ lock' = [lock EXCEPT ![c] = t],
         queue' \in [Threads -> Seq(Requests)], QueueInv'
  PROVE  IInv'
<1> USE InterfaceAssumption
<1>0. TypeOK /\ ProxyInv /\ ThreadInv(t)
  BY DEF IInv
<1>1. act \in [Threads -> Activity] /\ handler_[c][q] \in Nat /\ handler_[c][q] > 0
  BY <1>0 DEF TypeOK
<1>2. [a EXCEPT !.at = "running", !.layers = handler_[c][q]] \in Activity
  BY <1>1 DEF Activity, Steps
<1>3. /\ act' \in [Threads -> Activity] /\ \A u \in Threads : u # t => act'[u] = act[u]
      /\ act'[t] = [a EXCEPT !.at = "running", !.layers = handler_[c][q]]
  BY <1>1, <1>2 DEF Run
<1>4. /\ act'[t].at = "running" /\ act'[t].ref = a.ref
      /\ act'[t].of = c /\ act'[t].query = q /\ act'[t].layers > 0
  BY <1>1, <1>3 DEF Activity
<1>5. /\ lock' \in [Components -> Threads \cup {None}]
      /\ \A d \in Components : lock'[d] = lock[d] \/ {lock[d], lock'[d]} \subseteq {t, None}
  <2>1. lock \in [Components -> Threads \cup {None}]  BY <1>0 DEF TypeOK
  <2>2. CASE lock' = lock  BY <2>1, <2>2
  <2>3. CASE lock[c] = None /\ lock' = [lock EXCEPT ![c] = t]
    <3>1. lock'[c] = t /\ \A d \in Components : d # c => lock'[d] = lock[d]
      BY <2>1, <2>3
    <3> QED  BY <2>1, <2>3, <3>1
  <2> QED  BY <2>2, <2>3
<1>6. TypeOK'
  BY <1>0, <1>3, <1>4, <1>5 DEF TypeOK, Acting, provVars, refVars
<1>7. ThreadInv(t)'
  BY <1>0, <1>4 DEF ThreadInv, LookupInv, UseInv, FilterInv, PublishInv, HandledInv, Looking,
     linked_executor_, provVars, refVars
<1>8. ProxyInv'
  BY <1>0, <1>3, ProxyKept DEF Looking, provVars, refVars
<1>9. \A d \in Components : Held(d)' => Held(d)
  <2>1. ASSUME NEW d \in Components, NEW u \in Threads, act'[u].at = "filtering", act'[u].of = d
        PROVE  act[u].at = "filtering" /\ act[u].of = d
    BY <1>3, <1>4, <2>1
  <2> QED  BY <2>1 DEF Held, provVars, refVars
<1> QED  BY <1>3, <1>4, <1>5, <1>6, <1>7, <1>8, <1>9, ThreadStep DEF IInv, refVars

\* A direct call, or one of a synchronous query on its provider's thread.
LEMMA CallRunsStep ==
  ASSUME IInv, NEW t \in Threads, CallDirectly(t) \/ CallUnlocked(t)
  PROVE  IInv'
<1> DEFINE c == act[t].of
           q == act[t].query
<1>0. TypeOK /\ ThreadInv(t) /\ QueueInv
  BY DEF IInv
<1>1. /\ act[t].at = "ready" /\ handler_[c][q] # 0
      /\ UNCHANGED <<brokerVars, provVars, handler_, lock, refVars, queue, crashed>>
      /\ Run(t, act[t], handler_[c][q])
  BY DEF CallDirectly, CallUnlocked, Calls, Ready, Broken, Acting, RunNow
<1>2. IF Kind[q] = "async" THEN linked_executor_(c, q) = t ELSE HomeThread[c] = t
  BY DEF CallDirectly, CallUnlocked, Calls, call_directly_, mutual_executor_
<1>3. act[t] \in Activity /\ c \in Components /\ q \in Queries /\ handling_component_[c] = Queries
  BY <1>0, <1>1 DEF TypeOK, ThreadInv, UseInv
<1>4. queue' \in [Threads -> Seq(Requests)] /\ QueueInv'
  BY <1>0, <1>1, QueueKept DEF TypeOK, provVars
<1> QED  BY <1>1, <1>2, <1>3, <1>4, RunStep

\* A call that has waited for the lock. Whoever else had it has put the handler back.
LEMMA EnterLockedStep ==
  ASSUME IInv, NEW t \in Threads, EnterLocked(t)
  PROVE  IInv'
<1> USE InterfaceAssumption
<1> DEFINE c == act[t].of
           q == act[t].query
<1>0. TypeOK /\ ThreadInv(t) /\ QueueInv /\ NoFilterLost /\ \A u \in Threads : ThreadInv(u)
  BY DEF IInv
<1>1. /\ act[t].at = "locking" /\ lock[c] = None /\ lock' = [lock EXCEPT ![c] = t]
      /\ UNCHANGED <<brokerVars, provVars, handler_, refVars, queue, crashed>>
      /\ Run(t, act[t], handler_[c][q])
  BY DEF EnterLocked, Acting, RunNow
<1>2. /\ act[t] \in Activity /\ c \in Components /\ q \in Queries
      /\ handling_component_[c] = Queries /\ Kind[q] # "async"
  BY <1>0, <1>1 DEF TypeOK, ThreadInv, UseInv
<1>3. handler_[c][q] # 0
  <2>1. ASSUME NEW u \in Threads PROVE ~(Acting(u, "filtering") /\ act[u].of = c)
    <3>1. Acting(u, "filtering") /\ act[u].of = c => lock[c] = u
      BY <1>0 DEF ThreadInv, FilterInv, Acting
    <3>2. u # None  BY InterfaceAssumption
    <3> QED  BY <1>1, <3>1, <3>2
  <2>2. handler_[c][q] = 1 + prepended[c][q]
    <3>1. q \in handling_component_[c]  BY <1>2
    <3>2. ~ \E u \in Threads : Acting(u, "filtering") /\ act[u].of = c /\ act[u].query = q
      BY <2>1
    <3> HIDE DEF c, q
    <3> QED  BY <1>0, <1>2, <3>1, <3>2 DEF NoFilterLost
  <2>3. prepended[c][q] \in Nat
    BY <1>0, <1>2 DEF TypeOK
  <2> QED  BY <2>2, <2>3
<1>4. lock'[c] = t
  BY <1>0, <1>1, <1>2 DEF TypeOK
<1>5. queue' \in [Threads -> Seq(Requests)] /\ QueueInv'
  BY <1>0, <1>1, QueueKept DEF TypeOK, provVars
<1> QED  BY <1>1, <1>2, <1>3, <1>4, <1>5, RunStep

\* A call waits for the lock.
LEMMA CallLockingStep ==
  ASSUME IInv, NEW t \in Threads, CallLocking(t)
  PROVE  IInv'
<1> USE InterfaceAssumption
<1>0. TypeOK /\ ProxyInv /\ QueueInv /\ ThreadInv(t)
  BY DEF IInv
<1>1. /\ act[t].at = "ready" /\ Kind[act[t].query] # "async" /\ act' = [act EXCEPT ![t].at = "locking"]
      /\ UNCHANGED <<brokerVars, provVars, handler_, lock, refVars, queue, crashed>>
  BY DEF CallLocking, Calls, Ready, Acting, Goto
<1>2. act \in [Threads -> Activity] /\ "locking" \in Steps  BY <1>0 DEF TypeOK, Steps
<1>3. /\ act' \in [Threads -> Activity] /\ \A u \in Threads : u # t => act'[u] = act[u]
      /\ act'[t].at = "locking" /\ act'[t].of = act[t].of
      /\ act'[t].ref = act[t].ref /\ act'[t].query = act[t].query
  BY <1>1, <1>2, Moved
<1>4. TypeOK'  BY <1>0, <1>1, <1>3 DEF TypeOK, Acting, provVars, refVars
<1>5. ThreadInv(t)'
  BY <1>0, <1>1, <1>3 DEF ThreadInv, LookupInv, UseInv, FilterInv, PublishInv, HandledInv, Looking,
     provVars, refVars
<1>6. ProxyInv' /\ QueueInv'
  BY <1>0, <1>1, <1>3, ProxyKept, QueueKept DEF Looking, provVars, refVars
<1> QED  BY <1>1, <1>3, <1>4, <1>5, <1>6, QuietStep DEF IInv, refVars

\* A request is enqueued on the executor the provider was linked with.
LEMMA CallEnqueuedStep ==
  ASSUME IInv, NEW t \in Threads, CallEnqueued(t)
  PROVE  IInv'
<1> USE InterfaceAssumption
<1> DEFINE c == act[t].of
           q == act[t].query
           e == linked_executor_(c, q)
           r == [of |-> c, query |-> q, layers |-> handler_[c][q]]
<1>0. TypeOK /\ ProxyInv /\ QueueInv /\ ThreadInv(t)
  BY DEF IInv
<1>1. /\ act[t].at = "ready" /\ Kind[q] = "async" /\ act' = [act EXCEPT ![t] = Idle]
      /\ queue' = [queue EXCEPT ![e] = Append(@, r)]
      /\ UNCHANGED <<brokerVars, provVars, handler_, lock, refVars, crashed>>
  BY DEF CallEnqueued, Calls, Ready, Acting, Done
<1>2. /\ c \in Components /\ q \in Queries /\ handling_component_[c] = Queries /\ e \in Threads
      /\ r \in Requests
  <2>1. c \in Components /\ q \in Queries /\ handling_component_[c] = Queries
    BY <1>0, <1>1 DEF ThreadInv, UseInv
  <2>2. handler_[c][q] \in Nat  BY <1>0, <2>1 DEF TypeOK
  <2>3. e \in Threads  BY <2>1 DEF linked_executor_
  <2> QED  BY <2>1, <2>2, <2>3 DEF Requests
<1>3. act \in [Threads -> Activity] /\ queue \in [Threads -> Seq(Requests)]  BY <1>0 DEF TypeOK
<1>4. /\ act' \in [Threads -> Activity] /\ \A u \in Threads : u # t => act'[u] = act[u]
      /\ act'[t].at = "idle" /\ act'[t].ref = None
  BY <1>1, <1>3, Ended
<1>5. /\ queue'[e] = Append(queue[e], r) /\ queue[e] \in Seq(Requests)
      /\ \A u \in Threads : u # e => queue'[u] = queue[u]
      /\ queue' \in [Threads -> Seq(Requests)]
  <2>1. queue' = [queue EXCEPT ![e] = Append(queue[e], r)]  BY <1>1
  <2>2. queue[e] \in Seq(Requests)  BY <1>2, <1>3
  <2> HIDE DEF e, r
  <2>3. Append(queue[e], r) \in Seq(Requests)  BY <1>2, <2>2
  <2> QED  BY <1>2, <1>3, <2>1, <2>2, <2>3
<1>6. TypeOK'  BY <1>0, <1>1, <1>4, <1>5 DEF TypeOK, Acting, provVars, refVars
<1>7. ThreadInv(t)'
  BY <1>4 DEF ThreadInv, LookupInv, UseInv, FilterInv, PublishInv, HandledInv, Looking
<1>8. ProxyInv'
  BY <1>0, <1>1, <1>4, ProxyKept DEF Looking, provVars, refVars
<1>9. QueueInv'
  <2> HIDE DEF e, r
  <2> SUFFICES ASSUME NEW u \in Threads, NEW i \in DOMAIN queue'[u]
               PROVE  /\ Kind[queue'[u][i].query] = "async"
                      /\ linked_executor_(queue'[u][i].of, queue'[u][i].query) = u
                      /\ handling_component_[queue'[u][i].of] = Queries
    <3>1. handling_component_' = handling_component_  BY <1>1 DEF provVars
    <3> QED  BY <3>1, QueueInvNext
  <2>1. CASE u # e
    <3>1. queue'[u] = queue[u]  BY <1>5, <2>1
    <3>2. i \in DOMAIN queue[u] /\ queue'[u][i] = queue[u][i]  BY <3>1
    <3> QED  BY <1>0, <3>2 DEF QueueInv
  <2>2. CASE u = e /\ i \in DOMAIN queue[e]
    <3>1. queue'[u] = Append(queue[u], r)  BY <1>5, <2>2
    <3>2. i \in 1..Len(queue[u]) /\ queue'[u][i] = queue[u][i]  BY <1>2, <1>5, <2>2, <3>1
    <3> QED  BY <1>0, <2>2, <3>2 DEF QueueInv
  <2>3. CASE u = e /\ i \notin DOMAIN queue[e]
    <3>1. queue'[u] = Append(queue[u], r)  BY <1>5, <2>3
    <3>2. queue'[u][i] = r  BY <1>2, <1>5, <2>3, <3>1
    <3>3. r.of = c /\ r.query = q  BY DEF r
    <3>4. linked_executor_(r.of, r.query) = e  BY <3>3 DEF e
    <3> QED  BY <1>1, <1>2, <2>3, <3>2, <3>3, <3>4
  <2> QED  BY <2>1, <2>2, <2>3
<1>10. /\ BrokerInv' /\ ProviderInv' /\ FreedNotHeld' /\ NoFilterLost'
       /\ \A u \in Threads : ThreadInv(u)'
  <2>1. /\ act[t].at \notin {"filtering", "publishing"}
        /\ act'[t].at \notin {"filtering", "publishing"}
        /\ UNCHANGED <<brokerVars, provVars, handler_, lock, refs, receiver_>>
    BY <1>1, <1>4 DEF refVars
  <2> QED  BY <1>4, <1>7, <2>1, QuietStep
<1> QED  BY <1>6, <1>8, <1>9, <1>10 DEF IInv

\* The request is run, with the handler that is there by now.
LEMMA RunRequestStep ==
  ASSUME IInv, NEW t \in Threads, RunRequest(t)
  PROVE  IInv'
<1> USE InterfaceAssumption
<1> DEFINE r == Head(queue[t])
<1>0. TypeOK /\ QueueInv /\ ThreadInv(t) /\ ProxyInv
  BY DEF IInv
<1>1. /\ act[t] = Idle /\ queue[t] # << >> /\ queue' = [queue EXCEPT ![t] = Tail(@)]
      /\ UNCHANGED <<brokerVars, provVars, handler_, lock, refVars>>
  BY DEF RunRequest, AtRest
<1>2. queue \in [Threads -> Seq(Requests)] /\ act \in [Threads -> Activity]  BY <1>0 DEF TypeOK
<1>3. /\ r \in Requests /\ r = queue[t][1] /\ 1 \in DOMAIN queue[t]
      /\ queue'[t] = Tail(queue[t]) /\ queue' \in [Threads -> Seq(Requests)]
      /\ \A u \in Threads : u # t => queue'[u] = queue[u]
  BY <1>1, <1>2
<1>4. /\ r.of \in Components /\ r.query \in Queries
      /\ Kind[r.query] = "async" /\ linked_executor_(r.of, r.query) = t
      /\ handling_component_[r.of] = Queries
  BY <1>0, <1>3 DEF Requests, QueueInv
<1>5. QueueInv'
  <2> SUFFICES ASSUME NEW u \in Threads, NEW i \in DOMAIN queue'[u]
               PROVE  /\ Kind[queue'[u][i].query] = "async"
                      /\ linked_executor_(queue'[u][i].of, queue'[u][i].query) = u
                      /\ handling_component_[queue'[u][i].of] = Queries
    <3>1. handling_component_' = handling_component_  BY <1>1 DEF provVars
    <3> QED  BY <3>1, QueueInvNext
  <2>1. CASE u # t
    <3>1. queue'[u] = queue[u]  BY <1>3, <2>1
    <3>2. i \in DOMAIN queue[u] /\ queue'[u][i] = queue[u][i]  BY <3>1
    <3> QED  BY <1>0, <3>2 DEF QueueInv
  <2>2. CASE u = t
    <3>1. queue'[u][i] = queue[u][i + 1] /\ i + 1 \in DOMAIN queue[u]
      BY <1>1, <1>2, <1>3, <2>2
    <3> QED  BY <1>0, <3>1 DEF QueueInv
  <2> QED  BY <2>1, <2>2
<1>6. CASE life[r.of] = "freed" \/ handler_[r.of][r.query] = 0
  <2>1. UNCHANGED act /\ crashed' \in {"dangling", "empty"}
    BY <1>6 DEF RunRequest, Crash
  <2>2. TypeOK'  BY <1>0, <1>1, <1>3, <2>1 DEF TypeOK, Acting, provVars, refVars
  <2>3. ThreadInv(t)'
    BY <1>0, <1>1, <2>1 DEF Idle, ThreadInv, LookupInv, UseInv, FilterInv, PublishInv, HandledInv, Looking
  <2>4. ProxyInv'
    BY <1>0, <1>1, <2>1, ProxyKept DEF Looking, Idle, provVars, refVars
  <2>5. act[t].at = "idle"  BY <1>1 DEF Idle
  <2> QED  BY <1>1, <1>5, <2>1, <2>2, <2>3, <2>4, <2>5, QuietStep DEF IInv, refVars
<1>7. CASE ~(life[r.of] = "freed" \/ handler_[r.of][r.query] = 0)
  <2> DEFINE a == [Idle EXCEPT !.of = r.of, !.query = r.query]
  <2>1. Run(t, a, handler_[r.of][r.query]) /\ UNCHANGED crashed
    BY <1>7 DEF RunRequest
  <2>2. a \in Activity /\ a.of = r.of /\ a.query = r.query /\ a.ref = None
    BY <1>4 DEF Activity, Steps, Idle
  <2>3. act[t].at \in {"idle", "ready", "locking"}  BY <1>1 DEF Idle
  <2> HIDE DEF a, r
  <2>4. PICK c \in Components, q \in Queries : c = r.of /\ q = r.query  BY <1>4
  <2>5. /\ a \in Activity /\ a.of = c /\ a.query = q /\ a.ref \in {None, act[t].ref}
        /\ Run(t, a, handler_[c][q]) /\ handling_component_[c] = Queries
    BY <1>4, <2>1, <2>2, <2>4
  <2>6. handler_[c][q] # 0  BY <1>7, <2>4
  <2>7. IF Kind[q] = "async" THEN linked_executor_(c, q) = t ELSE HomeThread[c] = t \/ lock'[c] = t
    BY <1>4, <2>4
  <2>8. /\ UNCHANGED <<brokerVars, provVars, handler_, refVars, crashed>> /\ lock' = lock
        /\ queue' \in [Threads -> Seq(Requests)]
    BY <1>1, <1>3, <2>1
  <2> QED  BY <1>5, <2>3, <2>5, <2>6, <2>7, <2>8, RunStep
<1> QED  BY <1>6, <1>7

\* A handler returns; the lock is let go of if it was taken for it.
LEMMA ReturnStep ==
  ASSUME IInv, NEW t \in Threads, Return(t)
  PROVE  IInv'
<1> USE InterfaceAssumption
<1> DEFINE c == act[t].of
<1>0. TypeOK /\ ProxyInv /\ QueueInv /\ ThreadInv(t)
  BY DEF IInv
<1>1. /\ act[t].at = "running" /\ act' = [act EXCEPT ![t] = Idle]
      /\ lock' = IF lock[c] = t THEN [lock EXCEPT ![c] = None] ELSE lock
      /\ UNCHANGED <<brokerVars, provVars, handler_, refVars, queue, crashed>>
  BY DEF Return, Acting, Done
<1>2. act \in [Threads -> Activity] /\ lock \in [Components -> Threads \cup {None}] /\ c \in Components
  BY <1>0, <1>1 DEF TypeOK, ThreadInv, UseInv
<1>3. /\ act' \in [Threads -> Activity] /\ \A u \in Threads : u # t => act'[u] = act[u]
      /\ act'[t].at = "idle" /\ act'[t].ref = None
  BY <1>1, <1>2, Ended
<1>4. /\ lock' \in [Components -> Threads \cup {None}]
      /\ \A d \in Components : lock'[d] = lock[d] \/ {lock[d], lock'[d]} \subseteq {t, None}
  <2>1. CASE lock[c] = t
    <3>1. lock'[c] = None /\ \A d \in Components : d # c => lock'[d] = lock[d]
      BY <1>1, <1>2, <2>1
    <3> QED  BY <1>1, <1>2, <2>1, <3>1
  <2>2. CASE lock[c] # t  BY <1>1, <1>2, <2>2
  <2> QED  BY <2>1, <2>2
<1>5. TypeOK'  BY <1>0, <1>1, <1>3, <1>4 DEF TypeOK, Acting, provVars, refVars
<1>6. ThreadInv(t)'
  BY <1>3 DEF ThreadInv, LookupInv, UseInv, FilterInv, PublishInv, HandledInv, Looking
<1>7. ProxyInv' /\ QueueInv'
  BY <1>0, <1>1, <1>3, ProxyKept, QueueKept DEF Looking, provVars, refVars
<1>8. \A d \in Components : Held(d)' => Held(d)
  <2>1. ASSUME NEW d \in Components, NEW u \in Threads, act'[u].at = "filtering", act'[u].of = d
        PROVE  act[u].at = "filtering" /\ act[u].of = d
    BY <1>3, <2>1
  <2> QED  BY <1>1, <2>1 DEF Held, provVars, refVars
<1> QED  BY <1>1, <1>3, <1>4, <1>5, <1>6, <1>7, <1>8, ThreadStep DEF IInv, refVars

\* A filter takes the handler, under the lock, of a provider that is complete.
LEMMA TakeStep ==
  ASSUME IInv, NEW t \in Threads, NEW c \in Components, NEW q \in Queries, TakeHandler(t, c, q),
         act[t].at \in {"idle", "ready"}, life[c] # "freed", handling_component_[c] = Queries,
         UNCHANGED <<brokerVars, provVars, refVars, queue, crashed>>
  PROVE  IInv'
<1> USE InterfaceAssumption
<1>0. /\ TypeOK /\ BrokerInv /\ ProviderInv /\ QueueInv /\ ProxyInv /\ FreedNotHeld /\ NoFilterLost
      /\ \A u \in Threads : ThreadInv(u)
  BY DEF IInv
<1>1. /\ act \in [Threads -> Activity] /\ lock \in [Components -> Threads \cup {None}]
      /\ handler_ \in [Components -> [Queries -> Nat]]
      /\ prepended \in [Components -> [Queries -> Nat]]
  BY <1>0 DEF TypeOK
<1>2. /\ lock[c] = None /\ lock'[c] = t /\ \A d \in Components : d # c => lock'[d] = lock[d]
      /\ lock' \in [Components -> Threads \cup {None}]
  BY <1>1 DEF TakeHandler
<1>3. /\ handler_' \in [Components -> [Queries -> Nat]] /\ handler_'[c][q] = 0
      /\ \A d \in Components : d # c => handler_'[d] = handler_[d]
      /\ \A p \in Queries : p # q => handler_'[c][p] = handler_[c][p]
  BY <1>1 DEF TakeHandler
<1>4. /\ act' \in [Threads -> Activity] /\ \A u \in Threads : u # t => act'[u] = act[u]
      /\ act'[t].at = "filtering" /\ act'[t].of = c /\ act'[t].query = q
      /\ act'[t].layers = handler_[c][q] /\ act'[t].ref = act[t].ref
  <2> DEFINE a == [act[t] EXCEPT !.at = "filtering", !.do = "filter", !.of = c, !.query = q,
                                 !.layers = handler_[c][q]]
  <2>1. act[t] \in Activity /\ handler_[c][q] \in Nat  BY <1>1
  <2>2. /\ a \in Activity /\ a.at = "filtering" /\ a.of = c /\ a.query = q
        /\ a.layers = handler_[c][q] /\ a.ref = act[t].ref
    BY <2>1 DEF Activity, Steps, Uses
  <2>3. act' = [act EXCEPT ![t] = a]  BY DEF TakeHandler
  <2> HIDE DEF a
  <2> QED  BY <1>1, <2>2, <2>3
<1>5. handler_[c][q] = 1 + prepended[c][q]
  BY <1>0, <1>2 DEF ThreadInv, FilterInv, NoFilterLost, Acting
<1>6. TypeOK'
  <2>1. ASSUME NEW u \in Threads, Acting(u, "running")' PROVE act'[u].layers > 0
    <3>1. act'[u] = act[u]  BY <1>4, <2>1 DEF Acting
    <3> QED  BY <1>0, <2>1, <3>1 DEF TypeOK, Acting
  <2> QED  BY <1>0, <1>2, <1>3, <1>4, <2>1 DEF TypeOK, provVars, refVars
<1>7. BrokerInv' /\ ProviderInv'
  BY <1>0, <1>4 DEF BrokerInv, ProviderInv, brokerVars, provVars
<1>8. QueueInv' /\ ProxyInv'
  BY <1>0, <1>4, QueueKept, ProxyKept DEF Looking, provVars, refVars
<1>9. FreedNotHeld'
  <2>1. ASSUME NEW d \in Components, NEW u \in Threads, act'[u].at = "filtering", act'[u].of = d
        PROVE  d = c \/ (act[u].at = "filtering" /\ act[u].of = d)
    BY <1>4, <2>1
  <2> QED  BY <1>0, <2>1 DEF FreedNotHeld, Held, provVars, refVars
<1>10. NoFilterLost'
  <2> SUFFICES ASSUME NEW d \in Components, NEW p \in handling_component_[d],
                      ~ \E u \in Threads : act'[u].at = "filtering" /\ act'[u].of = d /\ act'[u].query = p
               PROVE  handler_'[d][p] = 1 + prepended[d][p]
    BY DEF NoFilterLost, Acting, provVars
  <2>1. p \in Queries  BY <1>0 DEF TypeOK
  <2>2. ~ (d = c /\ p = q)  BY <1>4
  <2>3. handler_'[d][p] = handler_[d][p]  BY <1>3, <2>1, <2>2
  <2>4. ~ \E u \in Threads : Acting(u, "filtering") /\ act[u].of = d /\ act[u].query = p
    BY <1>4 DEF Acting
  <2> QED  BY <1>0, <2>3, <2>4 DEF NoFilterLost
<1>11. ThreadInv(t)'
  <2>1. LookupInv(t)'  BY <1>0, <1>4 DEF ThreadInv, LookupInv, Looking, provVars, refVars
  <2>2. UseInv(t)'  BY <1>4 DEF UseInv, provVars
  <2>3. FilterInv(t)'  BY <1>2, <1>3, <1>4, <1>5 DEF FilterInv, provVars
  <2>4. PublishInv(t)' /\ HandledInv(t)'  BY <1>4 DEF PublishInv, HandledInv
  <2> QED  BY <2>1, <2>2, <2>3, <2>4 DEF ThreadInv
<1>12. ASSUME NEW u \in Threads, u # t PROVE ThreadInv(u)'
  <2>1. act[u].at = "publishing" /\ act[u].of = c => act[u].query = None
    BY <1>0 DEF ThreadInv, PublishInv
  <2>2. act[u].ref # None => act[u].ref \in refs
    BY <1>0 DEF ThreadInv, LookupInv
  <2>3. ~ (act[u].at = "filtering" /\ act[u].of = c)
    BY <1>0, <1>2 DEF ThreadInv, FilterInv
  <2> QED  BY <1>0, <1>2, <1>3, <1>4, <1>12, <2>1, <2>2, <2>3, OtherThread DEF provVars, refVars
<1> QED  BY <1>6, <1>7, <1>8, <1>9, <1>10, <1>11, <1>12 DEF IInv

\* A client drops a filter for a provider nobody holds.
LEMMA DoneStep ==
  ASSUME IInv, NEW t \in Threads, act[t].at = "ready", Done(t),
         UNCHANGED <<brokerVars, provVars, handler_, lock, refVars, queue, crashed>>
  PROVE  IInv'
<1>0. TypeOK /\ ProxyInv /\ QueueInv
  BY DEF IInv
<1>1. act \in [Threads -> Activity]  BY <1>0 DEF TypeOK
<1>2. /\ act' \in [Threads -> Activity] /\ \A u \in Threads : u # t => act'[u] = act[u]
      /\ act'[t].at = "idle" /\ act'[t].ref = None
  BY <1>1, Ended DEF Done
<1>3. TypeOK'  BY <1>0, <1>2 DEF TypeOK, Acting, provVars, refVars
<1>4. ThreadInv(t)'
  BY <1>2 DEF ThreadInv, LookupInv, UseInv, FilterInv, PublishInv, HandledInv, Looking
<1>5. ProxyInv' /\ QueueInv'
  BY <1>0, <1>2, ProxyKept, QueueKept DEF Looking, provVars, refVars
<1> QED  BY <1>2, <1>3, <1>4, <1>5, QuietStep DEF IInv, refVars

\* prepend_filter begins, for the provider or for a client.
LEMMA FilterStep ==
  ASSUME IInv, \/ \E c \in Components, q \in Queries : OwnerFilter(c, q)
               \/ \E t \in Threads : ClientFilter(t)
  PROVE  IInv'
<1> USE InterfaceAssumption
<1>0. /\ ProviderInv /\ \A u \in Threads : ThreadInv(u)
  BY DEF IInv
<1>1. ASSUME NEW c \in Components, NEW q \in Queries, OwnerFilter(c, q) PROVE IInv'
  <2> DEFINE t == HomeThread[c]
  <2>1. /\ act[t].at = "idle" /\ life[c] # "freed" /\ t \in Threads /\ TakeHandler(t, c, q)
        /\ UNCHANGED <<brokerVars, provVars, refVars, queue, crashed>>
    BY <1>1 DEF OwnerFilter, AtRest, Idle
  <2>2. handling_component_[c] = Queries
    BY <1>0, <1>1 DEF OwnerFilter, ProviderInv
  <2> QED  BY <2>1, <2>2, TakeStep
<1>2. ASSUME NEW t \in Threads, ClientFilter(t) PROVE IInv'
  <2>1. /\ act[t].at = "ready" /\ life[act[t].of] # "freed"
        /\ UNCHANGED <<brokerVars, provVars, refVars, queue, crashed>>
        /\ \/ TakeHandler(t, act[t].of, act[t].query)
           \/ Done(t) /\ UNCHANGED <<handler_, lock>>
    BY <1>2 DEF ClientFilter, Ready, Acting, Broken, Dangling
  <2>2. /\ act[t].of \in Components /\ act[t].query \in Queries
        /\ handling_component_[act[t].of] = Queries
    BY <1>0, <2>1 DEF ThreadInv, UseInv
  <2>3. CASE TakeHandler(t, act[t].of, act[t].query)
    BY <2>1, <2>2, <2>3, TakeStep
  <2>4. CASE Done(t) /\ UNCHANGED <<handler_, lock>>
    BY <2>1, <2>4, DoneStep
  <2> QED  BY <2>1, <2>3, <2>4
<1> QED  BY <1>1, <1>2

\* The handler is put back inside the filter.
LEMMA StoreFilterStep ==
  ASSUME IInv, NEW t \in Threads, StoreFilter(t)
  PROVE  IInv'
<1> USE InterfaceAssumption
<1> DEFINE c == act[t].of
           q == act[t].query
<1>0. /\ TypeOK /\ BrokerInv /\ ProviderInv /\ QueueInv /\ ProxyInv /\ FreedNotHeld /\ NoFilterLost
      /\ \A u \in Threads : ThreadInv(u)
  BY DEF IInv
<1>1. /\ act[t].at = "filtering"
      /\ UNCHANGED <<brokerVars, life, owned, handling_component_, refVars, queue, crashed>>
      /\ \/ act' = [act EXCEPT ![t] = Idle]
         \/ act[t].ref = None /\ act' = [act EXCEPT ![t].at = "filtered"]
  BY DEF StoreFilter, Acting, Goto, Done
<1>2. /\ act \in [Threads -> Activity] /\ lock \in [Components -> Threads \cup {None}]
      /\ handler_ \in [Components -> [Queries -> Nat]]
      /\ prepended \in [Components -> [Queries -> Nat]] /\ "filtered" \in Steps
      /\ act[t].layers \in Nat
  BY <1>0 DEF TypeOK, Steps, Activity
<1>3. /\ c \in Components /\ q \in Queries /\ handling_component_[c] = Queries
      /\ lock[c] = t /\ act[t].layers = 1 + prepended[c][q]
  BY <1>0, <1>1 DEF ThreadInv, UseInv, FilterInv
<1>4. /\ lock'[c] = None /\ \A d \in Components : d # c => lock'[d] = lock[d]
      /\ lock' \in [Components -> Threads \cup {None}]
  BY <1>2, <1>3 DEF StoreFilter
<1>5. /\ handler_' \in [Components -> [Queries -> Nat]] /\ handler_'[c][q] = act[t].layers + 1
      /\ \A d \in Components : d # c => handler_'[d] = handler_[d]
      /\ \A p \in Queries : p # q => handler_'[c][p] = handler_[c][p]
  <2>1. PICK n \in Nat : n = act[t].layers + 1  BY <1>2
  <2>2. handler_' = [handler_ EXCEPT ![c][q] = n]  BY <2>1 DEF StoreFilter
  <2> HIDE DEF c, q
  <2> QED  BY <1>2, <1>3, <2>1, <2>2
<1>6. /\ prepended' \in [Components -> [Queries -> Nat]] /\ prepended'[c][q] = prepended[c][q] + 1
      /\ \A d \in Components : d # c => prepended'[d] = prepended[d]
      /\ \A p \in Queries : p # q => prepended'[c][p] = prepended[c][p]
  <2>1. PICK n \in Nat : n = prepended[c][q] + 1
    <3>1. prepended[c][q] \in Nat  BY <1>2, <1>3
    <3> QED  BY <3>1
  <2>2. prepended' = [prepended EXCEPT ![c][q] = n]  BY <2>1 DEF StoreFilter
  <2> HIDE DEF c, q
  <2> QED  BY <1>2, <1>3, <2>1, <2>2
<1>7. /\ act' \in [Threads -> Activity] /\ \A u \in Threads : u # t => act'[u] = act[u]
      /\ act'[t].at \in {"idle", "filtered"} /\ act'[t].ref = None
  <2>1. CASE act' = [act EXCEPT ![t] = Idle]
    <3>1. /\ act' \in [Threads -> Activity] /\ \A u \in Threads : u # t => act'[u] = act[u]
          /\ act'[t].at = "idle" /\ act'[t].ref = None
      <4>1. act \in [Threads -> Activity]  BY <1>2
      <4> HIDE DEF c, q
      <4> QED  BY <2>1, <4>1, Ended
    <3> QED  BY <3>1
  <2>2. CASE act[t].ref = None /\ act' = [act EXCEPT ![t].at = "filtered"]
    <3>1. /\ act' \in [Threads -> Activity] /\ \A u \in Threads : u # t => act'[u] = act[u]
          /\ act'[t].at = "filtered" /\ act'[t].ref = act[t].ref
      BY <1>2, <2>2, Moved
    <3> QED  BY <2>2, <3>1
  <2> QED  BY <1>1, <2>1, <2>2
<1> HIDE DEF c, q
<1>8. TypeOK'
  BY <1>0, <1>1, <1>4, <1>5, <1>6, <1>7 DEF TypeOK, Acting, refVars
<1>9. BrokerInv'
  BY <1>0, <1>1 DEF BrokerInv, brokerVars
<1>10. ProviderInv'
  <2> SUFFICES ASSUME NEW d \in Components
               PROVE  /\ life[d] \in {"associated", "publishing"} =>
                            act'[HomeThread[d]].at = "publishing" /\ act'[HomeThread[d]].of = d
                      /\ life[d] \in {"published", "unpublished", "freed"} =>
                            handling_component_[d] = Queries
                      /\ \A p \in Queries \ handling_component_[d] : prepended'[d][p] = 0
    BY <1>1 DEF ProviderInv
  <2>1. \A p \in Queries \ handling_component_[d] : prepended'[d][p] = 0
    <3>1. CASE d = c  BY <1>3, <3>1
    <3>2. CASE d # c  BY <1>0, <1>6, <3>2 DEF ProviderInv
    <3> QED  BY <3>1, <3>2
  <2> QED  BY <1>0, <1>1, <1>7, <2>1 DEF ProviderInv
<1>11. QueueInv' /\ ProxyInv'
  BY <1>0, <1>1, <1>7, QueueKept, ProxyKept DEF Looking, refVars
<1>12. FreedNotHeld'
  <2>1. ASSUME NEW d \in Components, NEW u \in Threads, act'[u].at = "filtering", act'[u].of = d
        PROVE  act[u].at = "filtering" /\ act[u].of = d
    BY <1>7, <2>1
  <2> QED  BY <1>0, <1>1, <2>1 DEF FreedNotHeld, Held, refVars
<1>13. NoFilterLost'
  <2> SUFFICES ASSUME NEW d \in Components, NEW p \in handling_component_[d],
                      ~ \E u \in Threads : act'[u].at = "filtering" /\ act'[u].of = d /\ act'[u].query = p
               PROVE  handler_'[d][p] = 1 + prepended'[d][p]
    BY <1>1 DEF NoFilterLost, Acting
  <2>1. p \in Queries  BY <1>0 DEF TypeOK
  <2>2. CASE d = c /\ p = q
    <3>1. prepended[c][q] \in Nat  BY <1>2, <1>3
    <3> QED  BY <1>3, <1>5, <1>6, <2>2, <3>1
  <2>3. CASE ~ (d = c /\ p = q)
    <3>1. handler_'[d][p] = handler_[d][p] /\ prepended'[d][p] = prepended[d][p]
      BY <1>5, <1>6, <2>1, <2>3
    <3>2. ~ \E u \in Threads : Acting(u, "filtering") /\ act[u].of = d /\ act[u].query = p
      BY <1>7, <2>3 DEF Acting, c, q
    <3> QED  BY <1>0, <3>1, <3>2 DEF NoFilterLost
  <2> QED  BY <2>2, <2>3
<1>14. ThreadInv(t)'
  BY <1>7 DEF ThreadInv, LookupInv, UseInv, FilterInv, PublishInv, HandledInv, Looking
<1>15. ASSUME NEW u \in Threads, u # t PROVE ThreadInv(u)'
  <2>1. act[u].at = "publishing" /\ act[u].of = c => act[u].query = None
    BY <1>0, <1>3 DEF ThreadInv, PublishInv
  <2>2. act[u].ref # None => act[u].ref \in refs
    BY <1>0 DEF ThreadInv, LookupInv
  <2>3. ~ (act[u].at = "filtering" /\ act[u].of = c)
    BY <1>0, <1>3, <1>15 DEF ThreadInv, FilterInv
  <2> QED  BY <1>0, <1>1, <1>3, <1>4, <1>5, <1>6, <1>7, <1>15, <2>1, <2>2, <2>3, OtherThread
           DEF refVars
<1> QED  BY <1>8, <1>9, <1>10, <1>11, <1>12, <1>13, <1>14, <1>15 DEF IInv

\* The provider invalidates its interfaces after a filter.
LEMMA FilterInvalidateStep ==
  ASSUME IInv, NEW t \in Threads, FilterInvalidate(t)
  PROVE  IInv'
<1> USE InterfaceAssumption
<1>0. TypeOK /\ BrokerInv /\ ProxyInv /\ QueueInv /\ ThreadInv(t)
  BY DEF IInv
<1>1. /\ act[t].at = "filtered" /\ act' = [act EXCEPT ![t] = Idle]
      /\ UNCHANGED <<provVars, handler_, lock, refVars, queue, crashed>>
  BY DEF FilterInvalidate, Acting, Done
<1>2. act \in [Threads -> Activity]  BY <1>0 DEF TypeOK
<1>3. /\ act' \in [Threads -> Activity] /\ \A u \in Threads : u # t => act'[u] = act[u]
      /\ act'[t].at = "idle" /\ act'[t].ref = None
  BY <1>1, <1>2, Ended
<1>4. TypeOK'  BY <1>0, <1>1, <1>3 DEF TypeOK, Acting, provVars, refVars
<1>5. BrokerInv'
  BY <1>0, <1>1 DEF BrokerInv, FilterInvalidate, invalidate, Replace, provVars
<1>6. ThreadInv(t)'
  BY <1>3 DEF ThreadInv, LookupInv, UseInv, FilterInv, PublishInv, HandledInv, Looking
<1>7. ProxyInv' /\ QueueInv'
  BY <1>0, <1>1, <1>3, ProxyKept, QueueKept DEF Looking, provVars, refVars
<1>8. \A d \in Components : Held(d)' => Held(d)
  <2>1. ASSUME NEW d \in Components, NEW u \in Threads, act'[u].at = "filtering", act'[u].of = d
        PROVE  act[u].at = "filtering" /\ act[u].of = d
    BY <1>3, <2>1
  <2> QED  BY <1>1, <2>1 DEF Held, provVars, refVars
<1> QED  BY <1>1, <1>3, <1>4, <1>5, <1>6, <1>7, <1>8, ThreadStep DEF IInv, refVars

\* A step on the life of provider c, by the thread that may change it: the
\* activity of its own thread, ThreadInv and ProviderInv remain to be shown.
LEMMA LifeStep ==
  ASSUME IInv, NEW t \in Threads, NEW c \in Components, ThreadInv(t)', ProviderInv', BrokerInv',
         \A u \in Threads : u # t => act'[u] = act[u],
         act' \in [Threads -> Activity],
         \/ act'[t] = act[t]
         \/ act[t].at \in {"idle", "publishing"} /\ act'[t].at \in {"idle", "publishing"},
         life' \in [Components ->
                      {"new", "associated", "publishing", "published", "unpublished", "freed"}],
         \A d \in Components : d # c => life'[d] = life[d],
         life'[c] # "new", life'[c] = "associated" => life[c] = "new",
         life'[c] = "freed" => ~Held(c),
         \A u \in Threads : u # t /\ act[u].at = "publishing" => act[u].of # c,
         UNCHANGED <<owned, handling_component_, prepended, handler_, lock, refVars, queue>>,
         crashed' \in {"no", "null", "empty", "dangling", "thread"}
  PROVE  IInv'
<1> USE InterfaceAssumption
<1>0. /\ TypeOK /\ QueueInv /\ ProxyInv /\ FreedNotHeld /\ NoFilterLost
      /\ \A u \in Threads : ThreadInv(u)
  BY DEF IInv
<1>1. /\ life \in [Components -> {"new", "associated", "publishing", "published", "unpublished", "freed"}]
      /\ act \in [Threads -> Activity]
  BY <1>0 DEF TypeOK
<1>3. TypeOK'
  <2>1. ASSUME NEW u \in Threads, Acting(u, "running")' PROVE act'[u].layers > 0
    <3>1. act'[u] = act[u]  BY <2>1 DEF Acting
    <3> QED  BY <1>0, <2>1, <3>1 DEF TypeOK, Acting
  <2> QED  BY <1>0, <2>1 DEF TypeOK, refVars
<1>4. \A u \in Threads, d \in Components :
         act'[u].at = "filtering" /\ act'[u].of = d <=> act[u].at = "filtering" /\ act[u].of = d
  <2> SUFFICES ASSUME NEW u \in Threads
               PROVE  act'[u] = act[u] \/ (act[u].at # "filtering" /\ act'[u].at # "filtering")
    OBVIOUS
  <2> QED  OBVIOUS
<1>5. FreedNotHeld'
  <2>1. \A d \in Components : Held(d)' <=> Held(d)
    BY <1>4 DEF Held, refVars
  <2> QED  BY <1>0, <2>1 DEF FreedNotHeld
<1>6. NoFilterLost'
  <2>1. ASSUME NEW u \in Threads, act[u].at = "filtering" PROVE act'[u] = act[u]
    BY <2>1
  <2> QED  BY <1>0, <2>1 DEF NoFilterLost, Acting
<1>7. QueueInv'  BY <1>0, QueueKept
<1>8. ProxyInv'
  BY <1>0, ProxyKept DEF Looking, refVars
<1>9. ASSUME NEW u \in Threads, u # t PROVE ThreadInv(u)'
  <2>1. act[u].ref # None => act[u].ref \in refs
    BY <1>0 DEF ThreadInv, LookupInv
  <2>2. \A d \in Components : act[u].at = "publishing" /\ act[u].of = d => life'[d] = life[d]
    BY <1>9
  <2>3. \A d \in Components : /\ life[d] # "new" => life'[d] # "new"
                              /\ life[d] \notin {"new", "associated"} => life'[d] # "associated"
    OBVIOUS
  <2> QED  BY <1>0, <1>9, <2>1, <2>2, <2>3, OtherThread DEF refVars
<1> QED  BY <1>3, <1>5, <1>6, <1>7, <1>8, <1>9 DEF IInv

\* publish() begins: the provider is associated.
LEMMA PublishAssociateStep ==
  ASSUME IInv, NEW c \in Components, PublishAssociate(c)
  PROVE  IInv'
<1> USE InterfaceAssumption
<1> DEFINE t == HomeThread[c]
<1>0. /\ TypeOK /\ BrokerInv /\ ProviderInv /\ \A u \in Threads : ThreadInv(u)
  BY DEF IInv
<1>1. /\ life[c] = "new" /\ act[t] = Idle /\ t \in Threads
      /\ associate(Interface, c)
      /\ life' = [life EXCEPT ![c] = "associated"]
      /\ UNCHANGED <<owned, handling_component_, prepended, handler_, lock, refVars, queue, crashed>>
  BY DEF PublishAssociate, AtRest
<1>2. act \in [Threads -> Activity] /\ life \in [Components ->
        {"new", "associated", "publishing", "published", "unpublished", "freed"}]
  BY <1>0 DEF TypeOK
<1>3. /\ act' \in [Threads -> Activity] /\ \A u \in Threads : u # t => act'[u] = act[u]
      /\ act'[t].at = "publishing" /\ act'[t].of = c /\ act'[t].ref = None /\ act'[t].query = None
  <2> DEFINE a == [Idle EXCEPT !.at = "publishing", !.of = c]
  <2>1. /\ a \in Activity /\ a.at = "publishing" /\ a.of = c /\ a.ref = None /\ a.query = None
    BY DEF Idle, Activity, Steps
  <2>2. act' = [act EXCEPT ![t] = a]  BY <1>1, <1>2 DEF PublishAssociate, Idle
  <2> HIDE DEF a
  <2> QED  BY <1>1, <1>2, <2>1, <2>2
<1>4. /\ life'[c] = "associated" /\ \A d \in Components : d # c => life'[d] = life[d]
      /\ life' \in [Components ->
           {"new", "associated", "publishing", "published", "unpublished", "freed"}]
  BY <1>1, <1>2
<1>5. BrokerInv'
  <2>1. /\ active_lookups_' \in [Messages -> SUBSET Components] /\ version' \in [Messages -> Nat]
        /\ \A m \in Messages : active_lookups_'[m] \subseteq active_lookups_[m] \cup {c}
        /\ walk = None /\ walk' = walk
    BY <1>0, <1>1 DEF associate, Replace, BrokerInv, MutexFree
  <2> QED  BY <1>0, <1>4, <2>1 DEF BrokerInv
<1>6. ProviderInv'
  BY <1>0, <1>1, <1>3, <1>4 DEF ProviderInv, Idle
<1>7. ThreadInv(t)'
  BY <1>1, <1>3, <1>4 DEF ThreadInv, LookupInv, UseInv, FilterInv, PublishInv, HandledInv, Looking
<1>8. \A u \in Threads : u # t /\ act[u].at = "publishing" => act[u].of # c
  BY <1>0 DEF ThreadInv, PublishInv
<1>9. act[t].at = "idle" /\ crashed' \in {"no", "null", "empty", "dangling", "thread"}
  BY <1>0, <1>1 DEF TypeOK, Idle
<1>10. /\ act[t].at \in {"idle", "publishing"} /\ act'[t].at \in {"idle", "publishing"}
       /\ life'[c] # "new" /\ (life'[c] = "associated" => life[c] = "new")
       /\ (life'[c] = "freed" => ~Held(c))
       /\ UNCHANGED <<owned, handling_component_, prepended, handler_, lock, refVars, queue>>
       /\ t \in Threads
  BY <1>1, <1>3, <1>4, <1>9
<1> HIDE DEF t
<1> QED  BY <1>3, <1>4, <1>5, <1>6, <1>7, <1>8, <1>9, <1>10, LifeStep

\* The interface is entered.
LEMMA PublishInterfaceStep ==
  ASSUME IInv, NEW t \in Threads, PublishInterface(t)
  PROVE  IInv'
<1> USE InterfaceAssumption
<1> DEFINE c == act[t].of
<1>0. /\ TypeOK /\ BrokerInv /\ ProviderInv /\ \A u \in Threads : ThreadInv(u)
  BY DEF IInv
<1>1. /\ act[t].at = "publishing" /\ life[c] = "associated" /\ life' = [life EXCEPT ![c] = "publishing"]
      /\ UNCHANGED <<brokerVars, owned, handling_component_, prepended, handler_, lock, refVars, act,
                     queue, crashed>>
  BY DEF PublishInterface, Acting
<1>2. c \in Components /\ HomeThread[c] = t  BY <1>0, <1>1 DEF ThreadInv, PublishInv
<1>3. /\ act \in [Threads -> Activity] /\ life \in [Components ->
           {"new", "associated", "publishing", "published", "unpublished", "freed"}]
      /\ crashed \in {"no", "null", "empty", "dangling", "thread"}
  BY <1>0 DEF TypeOK
<1>4. /\ life'[c] = "publishing" /\ \A d \in Components : d # c => life'[d] = life[d]
      /\ life' \in [Components ->
           {"new", "associated", "publishing", "published", "unpublished", "freed"}]
  BY <1>1, <1>2, <1>3
<1>5. BrokerInv' /\ ProviderInv'
  BY <1>0, <1>1, <1>4 DEF BrokerInv, ProviderInv, brokerVars
<1>6. ThreadInv(t)'
  BY <1>0, <1>1, <1>4 DEF ThreadInv, LookupInv, UseInv, FilterInv, PublishInv, HandledInv, Looking, refVars
<1>7. \A u \in Threads : u # t /\ act[u].at = "publishing" => act[u].of # c
  BY <1>0, <1>2 DEF ThreadInv, PublishInv
<1>8. /\ act'[t] = act[t] /\ act' \in [Threads -> Activity]
      /\ \A u \in Threads : act'[u] = act[u]
      /\ life'[c] # "new" /\ (life'[c] = "associated" => life[c] = "new")
      /\ (life'[c] = "freed" => ~Held(c))
      /\ crashed' \in {"no", "null", "empty", "dangling", "thread"}
      /\ UNCHANGED <<owned, handling_component_, prepended, handler_, lock, refVars, queue>>
  BY <1>1, <1>3, <1>4
<1> HIDE DEF c
<1> QED  BY <1>2, <1>4, <1>5, <1>6, <1>7, <1>8, LifeStep

\* The end of publish(), if all queries were given handlers.
LEMMA PublishedStep ==
  ASSUME IInv, NEW t \in Threads, Published(t)
  PROVE  IInv'
<1> USE InterfaceAssumption
<1> DEFINE c == act[t].of
<1>0. /\ TypeOK /\ BrokerInv /\ ProviderInv /\ \A u \in Threads : ThreadInv(u)
  BY DEF IInv
<1>1. /\ act[t].at = "publishing" /\ handling_component_[c] = Queries
      /\ UNCHANGED <<brokerVars, owned, handling_component_, prepended, handler_, lock, refVars, queue>>
  BY DEF Published, Acting
<1>2. CASE ~Complete(c)
  BY <1>1, <1>2, CrashStep DEF Published, Crash, provVars
<1>3. CASE Complete(c)
  <2>1. life' = [life EXCEPT ![c] = "published"] /\ UNCHANGED crashed /\ act' = [act EXCEPT ![t] = Idle]
    BY <1>3 DEF Published, Done
  <2>2. /\ c \in Components /\ HomeThread[c] = t /\ life[c] \in {"associated", "publishing"}
    BY <1>0, <1>1 DEF ThreadInv, PublishInv
  <2>3. /\ act \in [Threads -> Activity] /\ life \in [Components ->
           {"new", "associated", "publishing", "published", "unpublished", "freed"}]
        /\ crashed \in {"no", "null", "empty", "dangling", "thread"}
    BY <1>0 DEF TypeOK
  <2>4. /\ act' \in [Threads -> Activity] /\ \A u \in Threads : u # t => act'[u] = act[u]
        /\ act'[t].at = "idle" /\ act'[t].ref = None
    BY <2>1, <2>3, Ended
  <2>5. /\ life'[c] = "published" /\ \A d \in Components : d # c => life'[d] = life[d]
        /\ life' \in [Components ->
             {"new", "associated", "publishing", "published", "unpublished", "freed"}]
    BY <2>1, <2>2, <2>3
  <2> HIDE DEF c
  <2>6. BrokerInv'
    <3>1. walk # None => walk.of \in Components  BY <1>0 DEF BrokerInv, Walks
    <3>2. walk # None => life'[walk.of] \in {"published", "unpublished", "freed"}
      BY <1>0, <2>5, <3>1 DEF BrokerInv
    <3>3. \A m \in Messages : \A d \in active_lookups_[m] : life'[d] # "new"
      BY <1>0, <2>5 DEF BrokerInv
    <3> QED  BY <1>0, <1>1, <3>2, <3>3 DEF BrokerInv, brokerVars
  <2>7. ProviderInv'
    <3> SUFFICES ASSUME NEW d \in Components
                 PROVE  /\ life'[d] \in {"associated", "publishing"} =>
                              act'[HomeThread[d]].at = "publishing" /\ act'[HomeThread[d]].of = d
                        /\ life'[d] \in {"published", "unpublished", "freed"} =>
                              handling_component_[d] = Queries
                        /\ \A p \in Queries \ handling_component_[d] : prepended[d][p] = 0
      BY <1>1 DEF ProviderInv
    <3>1. CASE d = c  BY <1>0, <1>1, <2>5, <3>1 DEF ProviderInv
    <3>2. CASE d # c
      <4>1. life[d] \in {"associated", "publishing"} => HomeThread[d] # t
        BY <1>0, <3>2 DEF ProviderInv, c
      <4> QED  BY <1>0, <2>4, <2>5, <3>2, <4>1 DEF ProviderInv
    <3> QED  BY <3>1, <3>2
  <2>8. ThreadInv(t)'
    BY <2>4 DEF ThreadInv, LookupInv, UseInv, FilterInv, PublishInv, HandledInv, Looking
  <2>9. \A u \in Threads : u # t /\ act[u].at = "publishing" => act[u].of # c
    BY <1>0, <2>2 DEF ThreadInv, PublishInv
  <2> QED  BY <1>1, <2>1, <2>2, <2>3, <2>4, <2>6, <2>7, <2>8, <2>9, LifeStep
<1> QED  BY <1>2, <1>3

\* What holds of a thread goes on when a provider grows old that it does not publish.
LEMMA AgedThread ==
  ASSUME NEW t \in Threads, NEW c \in Components, ThreadInv(t),
         UNCHANGED <<handling_component_, prepended, handler_, lock, refVars, act>>,
         \A d \in Components : d # c => life'[d] = life[d],
         life'[c] \notin {"new", "associated"},
         act[t].at = "publishing" => act[t].of # c
  PROVE  ThreadInv(t)'
<1>1. LookupInv(t)'  BY DEF ThreadInv, LookupInv, Looking, refVars
<1>2. UseInv(t)' /\ FilterInv(t)'  BY DEF ThreadInv, UseInv, FilterInv
<1>3. PublishInv(t)'  BY DEF ThreadInv, PublishInv
<1>4. HandledInv(t)'  BY DEF ThreadInv, HandledInv, linked_executor_
<1> QED  BY <1>1, <1>2, <1>3, <1>4 DEF ThreadInv

\* A step of the broker alone.
LEMMA BrokerStep ==
  ASSUME IInv, BrokerInv',
         UNCHANGED <<life, owned, handling_component_, prepended, handler_, lock, refVars, act, queue,
                     crashed>>
  PROVE  IInv'
<1> USE InterfaceAssumption
<1>0. /\ TypeOK /\ BrokerInv /\ ProviderInv /\ QueueInv /\ ProxyInv /\ FreedNotHeld /\ NoFilterLost
      /\ \A u \in Threads : ThreadInv(u)
  BY DEF IInv
<1>1. TypeOK'  BY <1>0 DEF TypeOK, Acting, refVars
<1>2. ProviderInv'  BY <1>0 DEF ProviderInv
<1>3. QueueInv' /\ ProxyInv'
  BY <1>0 DEF QueueInv, ProxyInv, linked_executor_, refVars
<1>4. FreedNotHeld' /\ NoFilterLost'
  BY <1>0 DEF FreedNotHeld, Held, NoFilterLost, Acting, refVars
<1>5. ASSUME NEW u \in Threads PROVE ThreadInv(u)'
  <2>1. act[u].ref # None => act[u].ref \in refs
    BY <1>0 DEF ThreadInv, LookupInv
  <2> QED  BY <1>0, <2>1, OtherThread DEF refVars
<1> QED  BY <1>1, <1>2, <1>3, <1>4, <1>5 DEF IInv

\* The application, or the destructor, takes the broker's mutex.
LEMMA UnpublishStep ==
  ASSUME IInv, NEW c \in Components, Unpublish(c) \/ DestructorUnpublish(c)
  PROVE  IInv'
<1>1. /\ life[c] = "published"
      /\ walk' = [of |-> c, left |-> Messages, live |-> Live]
      /\ UNCHANGED <<active_lookups_, version, provVars, handler_, lock, refVars, act, queue, crashed>>
  BY DEF Unpublish, DestructorUnpublish, disassociate_everything
<1>2. BrokerInv'
  <2>1. walk' \in Walks /\ walk'.of = c  BY <1>1 DEF Walks, Live
  <2> QED  BY <1>1, <2>1 DEF IInv, BrokerInv, provVars
<1> QED  BY <1>1, <1>2, BrokerStep DEF provVars

\* A provider ages that was published before; the broker's lists only lose entries.
LEMMA AgeStep ==
  ASSUME IInv, NEW c \in Components, life[c] \in {"published", "unpublished", "freed"},
         life' = [life EXCEPT ![c] = "unpublished"],
         active_lookups_' \in [Messages -> SUBSET Components], version' \in [Messages -> Nat],
         \A m \in Messages : active_lookups_'[m] \subseteq active_lookups_[m],
         walk' # None => walk \in Walks /\ walk' \in Walks /\ walk'.of = walk.of,
         walk' # None => walk # None,
         UNCHANGED <<owned, handling_component_, prepended, handler_, lock, refVars, act, queue, crashed>>
  PROVE  IInv'
<1> USE InterfaceAssumption
<1> DEFINE t == HomeThread[c]
<1>0. /\ TypeOK /\ BrokerInv /\ ProviderInv /\ \A u \in Threads : ThreadInv(u)
  BY DEF IInv
<1>1. t \in Threads  OBVIOUS
<1>2. /\ act \in [Threads -> Activity] /\ life \in [Components ->
           {"new", "associated", "publishing", "published", "unpublished", "freed"}]
      /\ crashed \in {"no", "null", "empty", "dangling", "thread"}
  BY <1>0 DEF TypeOK
<1>3. /\ life'[c] = "unpublished" /\ \A d \in Components : d # c => life'[d] = life[d]
      /\ life' \in [Components ->
           {"new", "associated", "publishing", "published", "unpublished", "freed"}]
  BY <1>2
<1>4. BrokerInv'
  <2>1. \A m \in Messages : \A d \in active_lookups_'[m] : life'[d] # "new"
    BY <1>0, <1>3 DEF BrokerInv
  <2>2. walk' # None => life'[walk'.of] \in {"published", "unpublished", "freed"}
    <3> SUFFICES ASSUME walk' # None PROVE life'[walk.of] \in {"published", "unpublished", "freed"}
      OBVIOUS
    <3>1. walk.of \in Components  BY DEF Walks
    <3>2. life[walk.of] \in {"published", "unpublished", "freed"}  BY <1>0 DEF BrokerInv
    <3> QED  BY <1>3, <3>1, <3>2
  <2> QED  BY <2>1, <2>2 DEF BrokerInv
<1>5. ProviderInv'
  BY <1>0, <1>3 DEF ProviderInv
<1>6. \A u \in Threads : act[u].at = "publishing" => act[u].of # c
  BY <1>0 DEF ThreadInv, PublishInv
<1>7. ThreadInv(t)'  BY <1>0, <1>1, <1>3, <1>6, AgedThread
<1> HIDE DEF t
<1> QED  BY <1>1, <1>2, <1>3, <1>4, <1>5, <1>6, <1>7, LifeStep

\* The broker's walk comes to a message, perhaps the last.
LEMMA DisassociateStep ==
  ASSUME IInv, NEW m \in Messages, Disassociate(m)
  PROVE  IInv'
<1> USE InterfaceAssumption
<1>0. TypeOK /\ BrokerInv
  BY DEF IInv
<1>1. /\ walk # None /\ walk \in Walks
      /\ life[walk.of] \in {"published", "unpublished", "freed"}
      /\ UNCHANGED <<owned, handling_component_, prepended, handler_, lock, refVars, act, queue, crashed>>
  BY <1>0 DEF Disassociate, disassociate, BrokerInv
<1>2. walk.of \in Components  BY <1>1 DEF Walks
<1>3. /\ active_lookups_' \in [Messages -> SUBSET Components] /\ version' \in [Messages -> Nat]
      /\ \A n \in Messages : active_lookups_'[n] \subseteq active_lookups_[n]
  BY <1>0 DEF Disassociate, disassociate, Replace, BrokerInv
<1>4. CASE LastMessage(m)
  <2>1. walk' = None /\ life' = [life EXCEPT ![walk.of] = "unpublished"]
    BY <1>4 DEF Disassociate, disassociate, Turn
  <2> QED  BY <1>1, <1>2, <1>3, <2>1, AgeStep
<1>5. CASE ~LastMessage(m)
  <2>1. /\ life' = life
        /\ walk' = [of |-> walk.of, left |-> walk.left \ {m}, live |-> Live]
    BY <1>1, <1>5 DEF Disassociate, disassociate, Turn, Walks
  <2>2. walk' \in Walks /\ walk'.of = walk.of
    BY <1>1, <2>1 DEF Walks, Live
  <2>3. BrokerInv'
    BY <1>0, <1>1, <1>3, <2>1, <2>2 DEF BrokerInv
  <2> QED  BY <1>1, <2>1, <2>3, BrokerStep
<1> QED  BY <1>4, <1>5

\* A provider nobody holds any more is destroyed inside the broker.
LEMMA NestedUnpublishStep ==
  ASSUME IInv, NEW c \in Components, NestedUnpublish(c)
  PROVE  IInv'
<1>0. TypeOK /\ BrokerInv
  BY DEF IInv
<1>1. /\ life[c] = "published" /\ life' = [life EXCEPT ![c] = "unpublished"]
      /\ walk # None /\ walk' = walk /\ walk \in Walks
      /\ UNCHANGED <<owned, handling_component_, prepended, handler_, lock, refVars, act, queue, crashed>>
  BY <1>0 DEF NestedUnpublish, disassociate_nested, BrokerInv
<1>2. /\ active_lookups_' \in [Messages -> SUBSET Components] /\ version' \in [Messages -> Nat]
      /\ \A n \in Messages : active_lookups_'[n] \subseteq active_lookups_[n]
  BY <1>0 DEF NestedUnpublish, disassociate_nested, Replace, BrokerInv
<1> QED  BY <1>1, <1>2, AgeStep

\* A provider nobody holds is destroyed.
LEMMA FreeStep ==
  ASSUME IInv, NEW c \in Components, Free(c)
  PROVE  IInv'
<1> USE InterfaceAssumption
<1> DEFINE t == HomeThread[c]
<1>0. /\ TypeOK /\ BrokerInv /\ ProviderInv /\ \A u \in Threads : ThreadInv(u)
  BY DEF IInv
<1>1. /\ life[c] = "unpublished" /\ life' = [life EXCEPT ![c] = "freed"] /\ t \in Threads /\ ~Held(c)
      /\ UNCHANGED <<brokerVars, owned, handling_component_, prepended, handler_, lock, refVars, act, queue>>
      /\ crashed' \in {"no", "null", "empty", "dangling", "thread"}
  BY <1>0 DEF Free, Crash, TypeOK
<1>2. /\ act \in [Threads -> Activity] /\ life \in [Components ->
           {"new", "associated", "publishing", "published", "unpublished", "freed"}]
  BY <1>0 DEF TypeOK
<1>3. /\ life'[c] = "freed" /\ \A d \in Components : d # c => life'[d] = life[d]
      /\ life' \in [Components ->
           {"new", "associated", "publishing", "published", "unpublished", "freed"}]
  BY <1>1, <1>2
<1>4. BrokerInv' /\ ProviderInv'
  BY <1>0, <1>1, <1>3 DEF BrokerInv, ProviderInv, brokerVars
<1>5. \A u \in Threads : act[u].at = "publishing" => act[u].of # c
  BY <1>0, <1>1 DEF ThreadInv, PublishInv
<1>6. ThreadInv(t)'  BY <1>0, <1>1, <1>3, <1>5, AgedThread
<1>7. act' \in [Threads -> Activity] /\ act'[t] = act[t] /\ \A u \in Threads : act'[u] = act[u]
  <2>1. CASE UNCHANGED act  BY <1>2, <2>1
  <2>2. CASE Crash("dangling")  BY <1>2, <2>2 DEF Crash
  <2> QED  BY <2>1, <2>2 DEF Free
<1> HIDE DEF t
<1>8. /\ life'[c] # "new" /\ (life'[c] = "associated" => life[c] = "new")
      /\ (life'[c] = "freed" => ~Held(c)) /\ t \in Threads
      /\ UNCHANGED <<owned, handling_component_, prepended, handler_, lock, refVars, queue>>
      /\ crashed' \in {"no", "null", "empty", "dangling", "thread"}
  BY <1>1, <1>3
<1> QED  BY <1>3, <1>4, <1>5, <1>6, <1>7, <1>8, LifeStep

\* publish() goes to a query, or is done with it.
LEMMA Queried ==
  ASSUME act \in [Threads -> Activity], NEW t \in Threads, NEW q \in Queries \cup {None},
         act' = [act EXCEPT ![t].query = q]
  PROVE  /\ act' \in [Threads -> Activity] /\ \A u \in Threads : u # t => act'[u] = act[u]
         /\ act'[t].query = q
         /\ \A u \in Threads : /\ act'[u].at = act[u].at /\ act'[u].of = act[u].of
                               /\ act'[u].ref = act[u].ref
<1>1. /\ act' \in [Threads -> Activity] /\ \A u \in Threads : u # t => act'[u] = act[u]
      /\ act'[t] = [act[t] EXCEPT !.query = q]
  BY DEF Activity
<1> QED  BY <1>1 DEF Activity

\* A query gets its handler, which no thread can use before publish() is done.
LEMMA PublishHandlerStep ==
  ASSUME IInv, NEW t \in Threads, NEW q \in Queries, PublishHandler(t, q)
  PROVE  IInv'
<1> USE InterfaceAssumption
<1> DEFINE c == act[t].of
<1>0. /\ TypeOK /\ BrokerInv /\ ProviderInv /\ QueueInv /\ ProxyInv /\ FreedNotHeld /\ NoFilterLost
      /\ \A u \in Threads : ThreadInv(u)
  BY DEF IInv
<1>1. /\ act[t].at = "publishing" /\ life[c] = "publishing" /\ q \notin handling_component_[c]
      /\ handler_' = [handler_ EXCEPT ![c][q] = 1] /\ act' = [act EXCEPT ![t].query = q]
      /\ UNCHANGED <<brokerVars, provVars, lock, refVars, queue, crashed>>
  BY DEF PublishHandler, Acting
<1>2. c \in Components /\ HomeThread[c] = t  BY <1>0, <1>1 DEF ThreadInv, PublishInv
<1>3. /\ act \in [Threads -> Activity] /\ handler_ \in [Components -> [Queries -> Nat]]
      /\ handling_component_ \in [Components -> SUBSET Queries]
  BY <1>0 DEF TypeOK
<1>4. /\ act' \in [Threads -> Activity] /\ \A u \in Threads : u # t => act'[u] = act[u]
      /\ act'[t].query = q
      /\ \A u \in Threads : /\ act'[u].at = act[u].at /\ act'[u].of = act[u].of
                            /\ act'[u].ref = act[u].ref
  BY <1>1, <1>3, Queried
<1> HIDE DEF c
<1>5. /\ handler_' \in [Components -> [Queries -> Nat]] /\ handler_'[c][q] = 1
      /\ \A d \in Components : d # c => handler_'[d] = handler_[d]
      /\ \A p \in Queries : p # q => handler_'[c][p] = handler_[c][p]
  BY <1>1, <1>2, <1>3
<1>6. TypeOK'
  <2>1. ASSUME NEW u \in Threads, Acting(u, "running")' PROVE act'[u].layers > 0
    <3>1. act'[u] = act[u] /\ act[u].at = "running"  BY <1>1, <1>4, <2>1 DEF Acting
    <3> QED  BY <1>0, <3>1 DEF TypeOK, Acting
  <2> QED  BY <1>0, <1>1, <1>4, <1>5, <2>1 DEF TypeOK, provVars, refVars
<1>7. BrokerInv' /\ ProviderInv'
  BY <1>0, <1>1, <1>4 DEF BrokerInv, ProviderInv, brokerVars, provVars
<1>8. QueueInv' /\ ProxyInv'
  BY <1>0, <1>1, <1>4, ProxyKept, QueueKept DEF Looking, provVars, refVars
<1>9. FreedNotHeld'
  BY <1>0, <1>1, <1>4 DEF FreedNotHeld, Held, provVars, refVars
<1>10. NoFilterLost'
  <2> SUFFICES ASSUME NEW d \in Components, NEW p \in handling_component_[d],
                      ~ \E u \in Threads : act'[u].at = "filtering" /\ act'[u].of = d /\ act'[u].query = p
               PROVE  handler_'[d][p] = 1 + prepended[d][p]
    BY <1>1 DEF NoFilterLost, Acting, provVars
  <2>1. ~ \E u \in Threads : act[u].at = "filtering" /\ act[u].of = d /\ act[u].query = p
    BY <1>1, <1>4
  <2>2. handler_[d][p] = 1 + prepended[d][p]  BY <1>0, <2>1 DEF NoFilterLost, Acting
  <2>3. handler_'[d][p] = handler_[d][p]  BY <1>1, <1>3, <1>5
  <2> QED  BY <2>2, <2>3
<1>11. ThreadInv(t)'
  <2>1. UseInv(t)' /\ FilterInv(t)' /\ HandledInv(t)' /\ LookupInv(t)'
    <3>1. LookupInv(t)'  BY <1>0, <1>1, <1>4 DEF ThreadInv, LookupInv, Looking, refVars
    <3>2. UseInv(t)' /\ FilterInv(t)' /\ HandledInv(t)'
      BY <1>1, <1>4 DEF UseInv, FilterInv, HandledInv
    <3> QED  BY <3>1, <3>2
  <2>2. PublishInv(t)'
    BY <1>1, <1>2, <1>4, <1>5 DEF PublishInv, c, provVars
  <2> QED  BY <2>1, <2>2 DEF ThreadInv
<1>12. ASSUME NEW u \in Threads, u # t PROVE ThreadInv(u)'
  <2>1. /\ act[u].at = "filtering" => act[u].of # c
        /\ act[u].at = "publishing" => act[u].of # c
    BY <1>0, <1>1, <1>2, <1>12 DEF ThreadInv, UseInv, PublishInv
  <2>2. act[u].ref # None => act[u].ref \in refs
    BY <1>0 DEF ThreadInv, LookupInv
  <2> QED  BY <1>0, <1>1, <1>4, <1>5, <1>12, <2>1, <2>2, OtherThread DEF provVars, refVars
<1> QED  BY <1>6, <1>7, <1>8, <1>9, <1>10, <1>11, <1>12 DEF IInv

\* ... and then its component and executor, and is published.
LEMMA PublishQueryStep ==
  ASSUME IInv, NEW t \in Threads, PublishQuery(t)
  PROVE  IInv'
<1> USE InterfaceAssumption
<1> DEFINE c == act[t].of
           q == act[t].query
<1>0. /\ TypeOK /\ BrokerInv /\ ProviderInv /\ QueueInv /\ ProxyInv /\ FreedNotHeld /\ NoFilterLost
      /\ \A u \in Threads : ThreadInv(u)
  BY DEF IInv
<1>1. /\ act[t].at = "publishing" /\ q # None
      /\ handling_component_' = [handling_component_ EXCEPT ![c] = @ \cup {q}]
      /\ act' = [act EXCEPT ![t].query = None]
      /\ UNCHANGED <<brokerVars, life, owned, prepended, handler_, lock, refVars, queue, crashed>>
  BY DEF PublishQuery, Acting
<1>2. /\ c \in Components /\ HomeThread[c] = t /\ life[c] \in {"associated", "publishing"}
      /\ q \in Queries \ handling_component_[c] /\ handler_[c][q] = 1
  BY <1>0, <1>1 DEF ThreadInv, PublishInv
<1>3. /\ act \in [Threads -> Activity] /\ handling_component_ \in [Components -> SUBSET Queries]
  BY <1>0 DEF TypeOK
<1>4. /\ act' \in [Threads -> Activity] /\ \A u \in Threads : u # t => act'[u] = act[u]
      /\ act'[t].query = None
      /\ \A u \in Threads : /\ act'[u].at = act[u].at /\ act'[u].of = act[u].of
                            /\ act'[u].ref = act[u].ref
  BY <1>1, <1>3, Queried
<1>5. prepended[c][q] = 0  BY <1>0, <1>2 DEF ProviderInv
<1> HIDE DEF c, q
<1>6. /\ handling_component_' \in [Components -> SUBSET Queries]
      /\ handling_component_'[c] = handling_component_[c] \cup {q}
      /\ \A d \in Components : d # c => handling_component_'[d] = handling_component_[d]
      /\ \A d \in Components : handling_component_[d] = Queries => handling_component_'[d] = Queries
  BY <1>1, <1>2, <1>3
<1>7. TypeOK'
  <2>1. ASSUME NEW u \in Threads, Acting(u, "running")' PROVE act'[u].layers > 0
    <3>1. act'[u] = act[u] /\ act[u].at = "running"  BY <1>1, <1>4, <2>1 DEF Acting
    <3> QED  BY <1>0, <3>1 DEF TypeOK, Acting
  <2> QED  BY <1>0, <1>1, <1>4, <1>6, <2>1 DEF TypeOK, refVars
<1>8. BrokerInv'
  BY <1>0, <1>1 DEF BrokerInv, brokerVars
<1>9. ProviderInv'
  BY <1>0, <1>1, <1>2, <1>4, <1>6 DEF ProviderInv
<1>10. QueueInv'
  <2> SUFFICES ASSUME NEW u \in Threads, NEW i \in DOMAIN queue[u]
               PROVE  /\ Kind[queue[u][i].query] = "async"
                      /\ linked_executor_(queue[u][i].of, queue[u][i].query) = u
                      /\ handling_component_'[queue[u][i].of] = Queries
    <3>1. queue' = queue  BY <1>1
    <3> QED  BY <3>1, QueueInvNext
  <2>1. queue[u][i] \in Requests
    BY <1>0 DEF TypeOK
  <2>2. queue[u][i].of \in Components  BY <2>1 DEF Requests
  <2> QED  BY <1>0, <1>6, <2>2 DEF QueueInv
<1>11. ProxyInv'
  <2>1. local_interface_proxy_ \in [Refs -> Components \cup {None}]  BY <1>0 DEF TypeOK
  <2>2. UNCHANGED <<local_interface_proxy_, receiver_, failed>>  BY <1>1 DEF refVars
  <2>3. \A r \in Refs : act'[RefThread[r]].ref = act[RefThread[r]].ref
                        /\ act'[RefThread[r]].at = act[RefThread[r]].at
    BY <1>4
  <2> QED  BY <1>0, <1>6, <2>1, <2>2, <2>3 DEF ProxyInv
<1>12. FreedNotHeld'
  BY <1>0, <1>1, <1>4 DEF FreedNotHeld, Held, refVars
<1>13. NoFilterLost'
  <2> SUFFICES ASSUME NEW d \in Components, NEW p \in handling_component_'[d],
                      ~ \E u \in Threads : act'[u].at = "filtering" /\ act'[u].of = d /\ act'[u].query = p
               PROVE  handler_[d][p] = 1 + prepended[d][p]
    BY <1>1 DEF NoFilterLost, Acting
  <2>1. CASE d = c /\ p = q  BY <1>2, <1>5, <2>1 DEF c, q
  <2>2. CASE ~(d = c /\ p = q)
    <3>1. p \in handling_component_[d]  BY <1>6, <2>2
    <3>2. ~ \E u \in Threads : act[u].at = "filtering" /\ act[u].of = d /\ act[u].query = p
      BY <1>1, <1>4
    <3> QED  BY <1>0, <3>1, <3>2 DEF NoFilterLost, Acting
  <2> QED  BY <2>1, <2>2
<1>14. ThreadInv(t)'
  <2>1. ThreadInv(t) /\ act'[t].at = "publishing" /\ act'[t].of = c /\ act'[t].ref = act[t].ref
    BY <1>0, <1>1, <1>4 DEF c
  <2>2. LookupInv(t)'  BY <1>1, <2>1 DEF ThreadInv, LookupInv, Looking, refVars
  <2>3. UseInv(t)' /\ FilterInv(t)' /\ HandledInv(t)'  BY <2>1 DEF UseInv, FilterInv, HandledInv
  <2>4. PublishInv(t)'  BY <1>1, <1>2, <1>4, <2>1 DEF PublishInv
  <2> QED  BY <2>2, <2>3, <2>4 DEF ThreadInv
<1>15. ASSUME NEW u \in Threads, u # t PROVE ThreadInv(u)'
  <2>1. act[u].at = "publishing" => act[u].of # c
    BY <1>0, <1>2, <1>15 DEF ThreadInv, PublishInv
  <2>2. act[u].ref # None => act[u].ref \in refs
    BY <1>0 DEF ThreadInv, LookupInv
  <2> QED  BY <1>0, <1>1, <1>4, <1>6, <1>15, <2>1, <2>2, OtherThread DEF refVars
<1> QED  BY <1>7, <1>8, <1>9, <1>10, <1>11, <1>12, <1>13, <1>14, <1>15 DEF IInv

\* The application drops a provider.
LEMMA DropOwnerStep ==
  ASSUME IInv, NEW c \in Components, DropOwner(c)
  PROVE  IInv'
<1> USE InterfaceAssumption
<1>0. /\ TypeOK /\ BrokerInv /\ ProviderInv /\ QueueInv /\ ProxyInv /\ FreedNotHeld /\ NoFilterLost
      /\ \A u \in Threads : ThreadInv(u)
  BY DEF IInv
<1>1. /\ owned' = owned \ {c}
      /\ UNCHANGED <<brokerVars, life, handling_component_, prepended, handler_, lock, refVars, act,
                     queue, crashed>>
  BY DEF DropOwner
<1>2. TypeOK'  BY <1>0, <1>1 DEF TypeOK, Acting, refVars
<1>3. BrokerInv' /\ ProviderInv'
  BY <1>0, <1>1 DEF BrokerInv, ProviderInv, brokerVars
<1>4. QueueInv' /\ ProxyInv'
  <2>1. UNCHANGED <<queue, handling_component_, local_interface_proxy_, failed, receiver_, act>>
    BY <1>1 DEF refVars
  <2>2. QueueInv'  BY <1>0, <2>1 DEF QueueInv, linked_executor_
  <2>3. ProxyInv'  BY <1>0, <2>1 DEF ProxyInv
  <2> QED  BY <2>2, <2>3
<1>5. FreedNotHeld'
  BY <1>0, <1>1 DEF FreedNotHeld, Held, refVars
<1>6. NoFilterLost'
  BY <1>0, <1>1 DEF NoFilterLost, Acting
<1>7. ASSUME NEW u \in Threads PROVE ThreadInv(u)'
  <2>1. act[u].ref # None => act[u].ref \in refs
    BY <1>0 DEF ThreadInv, LookupInv
  <2> QED  BY <1>0, <1>1, <2>1, OtherThread DEF refVars
<1> QED  BY <1>2, <1>3, <1>4, <1>5, <1>6, <1>7 DEF IInv

\* The application drops a component with a reference, between its uses.
LEMMA DropRefStep ==
  ASSUME IInv, NEW r \in Refs, DropRef(r)
  PROVE  IInv'
<1> USE InterfaceAssumption
<1>0. /\ TypeOK /\ BrokerInv /\ ProviderInv /\ QueueInv /\ ProxyInv /\ FreedNotHeld /\ NoFilterLost
      /\ \A u \in Threads : ThreadInv(u)
  BY DEF IInv
<1>1. /\ act[RefThread[r]] = Idle /\ refs' = refs \ {r}
      /\ resolved_receivers_' = [resolved_receivers_ EXCEPT ![r] = None]
      /\ local_interface_proxy_' = [local_interface_proxy_ EXCEPT ![r] = None]
      /\ receiver_' = [receiver_ EXCEPT ![r] = None] /\ failed' = failed \ {r}
      /\ UNCHANGED <<brokerVars, provVars, handler_, lock, act, queue, crashed>>
  BY DEF DropRef, AtRest
<1>2. /\ resolved_receivers_ \in [Refs -> Nat \cup {None}]
      /\ local_interface_proxy_ \in [Refs -> Components \cup {None}]
      /\ receiver_ \in [Refs -> Components \cup {None}] /\ failed \subseteq Refs
      /\ None \notin Components
  BY <1>0 DEF TypeOK
<1>3. /\ resolved_receivers_' \in [Refs -> Nat \cup {None}]
      /\ local_interface_proxy_' \in [Refs -> Components \cup {None}]
      /\ receiver_' \in [Refs -> Components \cup {None}] /\ failed' \subseteq Refs
      /\ local_interface_proxy_'[r] = None /\ receiver_'[r] = None
      /\ \A s \in Refs : s # r => /\ local_interface_proxy_'[s] = local_interface_proxy_[s]
                                  /\ receiver_'[s] = receiver_[s]
                                  /\ s \in failed' <=> s \in failed
  BY <1>1, <1>2
<1>4. TypeOK'  BY <1>0, <1>1, <1>3 DEF TypeOK, Acting, provVars
<1>5. BrokerInv' /\ ProviderInv'
  BY <1>0, <1>1 DEF BrokerInv, ProviderInv, brokerVars, provVars
<1>6. QueueInv'
  BY <1>0, <1>1, QueueKept DEF provVars
<1>7. ProxyInv'
  <2>1. UNCHANGED <<handling_component_, act>>  BY <1>1 DEF provVars
  <2> QED  BY <1>0, <1>3, <2>1 DEF ProxyInv
<1>8. FreedNotHeld'
  <2>1. \A c \in Components, s \in Refs : receiver_'[s] = c => receiver_[s] = c
    BY <1>2, <1>3
  <2> QED  BY <1>0, <1>1, <2>1 DEF FreedNotHeld, Held, provVars
<1>9. NoFilterLost'
  BY <1>0, <1>1 DEF NoFilterLost, Acting, provVars
<1>10. ASSUME NEW u \in Threads PROVE ThreadInv(u)'
  <2>1. act[u].ref # None => act[u].ref \in refs /\ act[u].ref # r
    BY <1>0, <1>1 DEF ThreadInv, LookupInv, Idle
  <2>2. act[u].ref # None => act[u].ref \in refs' /\ receiver_'[act[u].ref] = receiver_[act[u].ref]
    BY <1>0, <1>1, <1>3, <2>1 DEF TypeOK
  <2> QED  BY <1>0, <1>1, <2>2, OtherThread DEF provVars
<1> QED  BY <1>4, <1>5, <1>6, <1>7, <1>8, <1>9, <1>10 DEF IInv

-----------------------------------------------------------------------------
\* Each action has its step.
LEMMA NextStep ==
  ASSUME IInv, [Next]_vars
  PROVE  IInv'
<1>1. CASE Choice
  <2>1. ASSUME NEW r \in Refs, DropRef(r) PROVE IInv'  BY <2>1, DropRefStep
  <2>2. ASSUME NEW r \in Refs, NEW do \in Uses, NEW q \in Queries \cup {None}, Lookup(r, do, q)
        PROVE  IInv'
    BY <2>2, LookupStep
  <2>3. ASSUME NEW c \in Components, PublishAssociate(c) PROVE IInv'  BY <2>3, PublishAssociateStep
  <2>4. ASSUME NEW c \in Components, Unpublish(c) PROVE IInv'  BY <2>4, UnpublishStep
  <2>5. ASSUME NEW c \in Components, DropOwner(c) PROVE IInv'  BY <2>5, DropOwnerStep
  <2>6. ASSUME NEW c \in Components, NEW q \in Queries, OwnerFilter(c, q) PROVE IInv'
    BY <2>6, FilterStep
  <2> QED  BY <1>1, <2>1, <2>2, <2>3, <2>4, <2>5, <2>6 DEF Choice
<1>2. ASSUME NEW t \in Threads, Goes(t) PROVE IInv'
  <2>1. CASE LockReceivers(t) \/ LockReceiver(t) \/ LookupInterface(t) \/ Link(t)
    BY <2>1, LockReceiversStep, LockReceiverStep, LookupInterfaceStep, LinkStep
  <2>2. CASE UseBroken(t) \/ CallWrongThread(t) \/ CallDirectly(t) \/ CallUnlocked(t)
    BY <2>2, CrashingCallStep, CallRunsStep
  <2>3. CASE CallEnqueued(t) \/ CallLocking(t) \/ EnterLocked(t) \/ Return(t)
    BY <2>3, CallEnqueuedStep, CallLockingStep, EnterLockedStep, ReturnStep
  <2>4. CASE ClientFilter(t) \/ StoreFilter(t) \/ FilterInvalidate(t)
    BY <2>4, FilterStep, StoreFilterStep, FilterInvalidateStep
  <2>5. CASE PublishInterface(t) \/ PublishQuery(t) \/ Published(t)
    BY <2>5, PublishInterfaceStep, PublishQueryStep, PublishedStep
  <2>6. ASSUME NEW q \in Queries, PublishHandler(t, q) PROVE IInv'
    BY <2>6, PublishHandlerStep
  <2> QED  BY <1>2, <2>1, <2>2, <2>3, <2>4, <2>5, <2>6 DEF Goes
<1>3. ASSUME NEW t \in Threads, RunRequest(t) PROVE IInv'
  BY <1>3, RunRequestStep
<1>4. ASSUME NEW c \in Components, DestructorUnpublish(c) \/ NestedUnpublish(c) \/ Free(c)
      PROVE  IInv'
  BY <1>4, UnpublishStep, NestedUnpublishStep, FreeStep
<1>6. ASSUME NEW m \in Messages, Disassociate(m) PROVE IInv'
  BY <1>6, DisassociateStep
<1>5. CASE UNCHANGED vars
  BY <1>5, CrashStep DEF vars, IInv, TypeOK
<1> QED  BY <1>1, <1>2, <1>3, <1>4, <1>5, <1>6 DEF Next

\* The program begins with nothing published.
LEMMA InitInv == Init => IInv
<1> SUFFICES ASSUME Init PROVE IInv  OBVIOUS
<1> USE InterfaceAssumption
<1>1. /\ act = [t \in Threads |-> Idle] /\ Idle \in Activity /\ Idle.at = "idle"
      /\ Idle.ref = None /\ \A t \in Threads : act[t] = Idle
  BY DEF Init, Idle, Activity, Steps
<1>2. TypeOK
  <2>1. << >> \in Seq(Requests)  OBVIOUS
  <2>2. act \in [Threads -> Activity] /\ \A t \in Threads : ~Acting(t, "running")
    BY <1>1 DEF Acting
  <2> QED  BY <2>1, <2>2 DEF Init, TypeOK
<1>3. BrokerInv /\ QueueInv
  BY DEF Init, BrokerInit, BrokerInv, QueueInv
<1>4. ProviderInv /\ FreedNotHeld /\ NoFilterLost
  BY DEF Init, ProviderInv, FreedNotHeld, NoFilterLost
<1>5. ProxyInv
  BY DEF Init, ProxyInv
<1>6. ASSUME NEW t \in Threads PROVE ThreadInv(t)
  BY <1>1 DEF ThreadInv, LookupInv, UseInv, FilterInv, PublishInv, HandledInv, Looking
<1> QED  BY <1>2, <1>3, <1>4, <1>5, <1>6 DEF IInv

\* IInv holds in every state of the program.
THEOREM Inductive == SafeSpec => []IInv
BY InitInv, NextStep, PTL DEF SafeSpec

\* The safety properties need no fairness.
LEMMA SpecIsSafe == Spec => SafeSpec
BY DEF Spec

\* Types of the fields; a handler that runs is one.
THEOREM TypeCorrect == Spec => []TypeOK
<1>1. IInv => TypeOK  BY DEF IInv
<1> QED  BY <1>1, Inductive, SpecIsSafe, PTL

\* interface_ref.h:32, "These can be pointers": between its lookups, a reference
\* whose last lookup did not fail has a proxy of the provider it keeps, which is
\* not destroyed.
THEOREM ProxyKeptAliveHolds == Spec => []ProxyKeptAlive
<1>1. IInv => ProxyKeptAlive
  <2> SUFFICES ASSUME IInv, NEW r \in refs \ failed,
                      act[RefThread[r]].ref # r, local_interface_proxy_[r] # None
               PROVE  local_interface_proxy_[r] = receiver_[r] /\ life[receiver_[r]] # "freed"
    BY DEF ProxyKeptAlive
  <2>1. /\ r \in Refs /\ local_interface_proxy_[r] \in Components
    BY DEF IInv, TypeOK
  <2>2. local_interface_proxy_[r] = receiver_[r]
    BY <2>1 DEF IInv, ProxyInv
  <2>3. Held(receiver_[r])  BY <2>1 DEF Held
  <2> QED  BY <2>1, <2>2, <2>3 DEF IInv, FreedNotHeld
<1> QED  BY <1>1, Inductive, SpecIsSafe, PTL

\* if_async_query::prepend_filter and its siblings: outside of them, a query has
\* its handler and every filter prepended to it.
THEOREM NoFilterLostHolds == Spec => []NoFilterLost
<1>1. IInv => NoFilterLost  BY DEF IInv
<1> QED  BY <1>1, Inductive, SpecIsSafe, PTL

\* An asynchronous query is handled on its executor's thread, a synchronous one on
\* its provider's or under the provider's lock.
THEOREM HandledWhereItShouldHolds == Spec => []HandledWhereItShould
<1>1. IInv => HandledWhereItShould
  BY DEF IInv, ThreadInv, HandledInv, HandledWhereItShould, Acting
<1> QED  BY <1>1, Inductive, SpecIsSafe, PTL
-----------------------------------------------------------------------------
\* A query of a complete provider has a handler with all filters, unless it is
\* inside prepend_filter.
LEMMA HandlerOrFilter ==
  ASSUME IInv, NEW c \in Components, NEW q \in Queries, handling_component_[c] = Queries
  PROVE  \/ handler_[c][q] = 1 + prepended[c][q] /\ handler_[c][q] # 0
         \/ /\ handler_[c][q] = 0 /\ lock[c] \in Threads
            /\ \E u \in Threads : act[u].at = "filtering"
<1>1. prepended[c][q] \in Nat  BY DEF IInv, TypeOK
<1>2. CASE \E u \in Threads : Acting(u, "filtering") /\ act[u].of = c /\ act[u].query = q
  BY <1>2 DEF IInv, ThreadInv, FilterInv, Acting
<1>3. CASE ~ \E u \in Threads : Acting(u, "filtering") /\ act[u].of = c /\ act[u].query = q
  BY <1>1, <1>3 DEF IInv, NoFilterLost
<1> QED  BY <1>2, <1>3

\* A handler begins to run in a call or in a request, and nowhere else.
LEMMA NewlyRunning ==
  ASSUME act \in [Threads -> Activity], Next, NEW t \in Threads,
         act'[t].at = "running", act[t].at # "running"
  PROVE  CallDirectly(t) \/ CallUnlocked(t) \/ EnterLocked(t) \/ RunRequest(t)
<1> DEFINE NoneBegin == \A u \in Threads : act'[u].at = "running" => act[u].at = "running"
<1>1. ASSUME NEW u \in Threads, NEW at \in Steps, at # "running", Goto(u, at) PROVE NoneBegin
  BY <1>1, Moved DEF Goto
<1>2. ASSUME NEW u \in Threads, Done(u) PROVE NoneBegin
  BY <1>2, Ended DEF Done
<1>3. ASSUME NEW u \in Threads, Fail(u) PROVE NoneBegin
  BY <1>2, <1>3 DEF Fail, Crash
<1>4. ASSUME NEW u \in Threads, NEW a \in Activity, a.at # "running", act' = [act EXCEPT ![u] = a]
      PROVE  NoneBegin
  BY <1>4
<1>5. CASE Choice
  <2>1. ASSUME NEW r \in Refs, NEW do \in Uses, NEW q \in Queries \cup {None}, Lookup(r, do, q)
        PROVE  NoneBegin
    <3> DEFINE a == [Idle EXCEPT !.ref = r, !.do = do, !.query = q]
    <3>1. RefThread[r] \in Threads  BY InterfaceAssumption
    <3>2. CASE act' = [act EXCEPT ![RefThread[r]] =
                          [a EXCEPT !.at = "ready", !.of = local_interface_proxy_[r]]]
      <4>1. act'[RefThread[r]].at = "ready"  BY <3>1, <3>2 DEF Idle
      <4> QED  BY <3>1, <3>2, <4>1
    <3>3. CASE act' = [act EXCEPT ![RefThread[r]] = [a EXCEPT !.at = "fetched"]]
      <4>1. act'[RefThread[r]].at = "fetched"  BY <3>1, <3>3 DEF Idle
      <4> QED  BY <3>1, <3>3, <4>1
    <3> QED  BY <2>1, <3>2, <3>3 DEF Lookup
  <2>2. ASSUME NEW c \in Components, PublishAssociate(c) PROVE NoneBegin
    <3>1. HomeThread[c] \in Threads /\ act[HomeThread[c]] \in Activity  BY InterfaceAssumption
    <3>2. act' = [act EXCEPT ![HomeThread[c]] = [Idle EXCEPT !.at = "publishing", !.of = c]]
      BY <2>2, <3>1 DEF PublishAssociate, AtRest, Idle
    <3>3. [Idle EXCEPT !.at = "publishing", !.of = c].at # "running"  BY DEF Idle
    <3> QED  BY <3>1, <3>2, <3>3
  <2>3. ASSUME NEW c \in Components, NEW q \in Queries, OwnerFilter(c, q) PROVE NoneBegin
    <3>1. HomeThread[c] \in Threads  BY InterfaceAssumption
    <3>2. PICK a : act' = [act EXCEPT ![HomeThread[c]] = a] /\ a.at = "filtering"
      <4>1. act[HomeThread[c]] = Idle  BY <2>3 DEF OwnerFilter, AtRest
      <4> QED  BY <2>3, <4>1 DEF OwnerFilter, TakeHandler, Idle
    <3> QED  BY <3>1, <3>2
  <2> QED  BY <1>5, <2>1, <2>2, <2>3 DEF Choice, DropRef, Unpublish, DropOwner
<1>6. ASSUME NEW u \in Threads, Goes(u), ~(CallDirectly(u) \/ CallUnlocked(u) \/ EnterLocked(u))
      PROVE  NoneBegin
  <2>1. CASE LockReceivers(u)
    <3>1. ASSUME NEW c \in Components, act' = [act EXCEPT ![u].at = "listed", ![u].of = c]
          PROVE  NoneBegin
      <4>1. act'[u].at = "listed" /\ \A v \in Threads : v # u => act'[v] = act[v]
        BY <3>1 DEF Activity
      <4> QED  BY <4>1
    <3> QED  BY <1>3, <2>1, <3>1 DEF LockReceivers
  <2>2. CASE LockReceiver(u) \/ LookupInterface(u) \/ Link(u)
    BY <1>1, <1>2, <1>3, <2>2 DEF LockReceiver, LookupInterface, Link, Crash, Steps
  <2>3. CASE UseBroken(u) \/ CallWrongThread(u) \/ CallEnqueued(u) \/ CallLocking(u) \/ Return(u)
    BY <1>1, <1>2, <2>3 DEF UseBroken, CallWrongThread, CallEnqueued, CallLocking, Return, Crash, Steps
  <2>4. CASE ClientFilter(u)
    <3>1. CASE TakeHandler(u, act[u].of, act[u].query)
      <4>1. act'[u].at = "filtering" /\ \A v \in Threads : v # u => act'[v] = act[v]
        BY <3>1 DEF TakeHandler, Activity
      <4> QED  BY <4>1
    <3> QED  BY <1>2, <2>4, <3>1 DEF ClientFilter
  <2>5. CASE StoreFilter(u) \/ FilterInvalidate(u) \/ Published(u) \/ PublishInterface(u)
    BY <1>1, <1>2, <2>5 DEF StoreFilter, FilterInvalidate, Published, PublishInterface, Crash, Steps
  <2>6. ASSUME NEW q, act' = [act EXCEPT ![u].query = q] PROVE NoneBegin
    <3>1. act'[u].at = act[u].at /\ \A v \in Threads : v # u => act'[v] = act[v]
      BY <2>6 DEF Activity
    <3> QED  BY <3>1
  <2>7. CASE PublishQuery(u) \/ \E q \in Queries : PublishHandler(u, q)
    BY <2>6, <2>7 DEF PublishQuery, PublishHandler
  <2> QED  BY <1>6, <2>1, <2>2, <2>3, <2>4, <2>5, <2>7 DEF Goes
<1>7. ASSUME NEW c \in Components, DestructorUnpublish(c) \/ NestedUnpublish(c) \/ Free(c)
      PROVE  NoneBegin
  BY <1>7 DEF DestructorUnpublish, NestedUnpublish, Free, Crash
<1>9. ASSUME NEW m \in Messages, Disassociate(m) PROVE NoneBegin
  BY <1>9 DEF Disassociate
<1>8. ASSUME NEW u \in Threads, u # t,
             CallDirectly(u) \/ CallUnlocked(u) \/ EnterLocked(u) \/ RunRequest(u)
      PROVE  act'[t] = act[t]
  BY <1>8 DEF CallDirectly, CallUnlocked, EnterLocked, RunRequest, RunNow, Run, Crash
<1> QED  BY <1>5, <1>6, <1>7, <1>8, <1>9 DEF Next

\* A handler begins with all the filters that are there.
LEMMA AllFilters ==
  ASSUME IInv, NEW t \in Threads, act'[t].at = "running", act[t].at # "running",
         CallDirectly(t) \/ CallUnlocked(t) \/ EnterLocked(t) \/ RunRequest(t)
  PROVE  act'[t].layers = 1 + prepended[act'[t].of][act'[t].query]
<1>0. act \in [Threads -> Activity] /\ UseInv(t) /\ QueueInv /\ TypeOK
  BY DEF IInv, TypeOK, ThreadInv
<1>1. CASE CallDirectly(t) \/ CallUnlocked(t) \/ EnterLocked(t)
  <2> DEFINE c == act[t].of
             q == act[t].query
  <2>1. /\ act[t].at \in {"ready", "locking"}
        /\ act[t].at = "ready" => handler_[c][q] # 0
        /\ act[t].at = "locking" => lock[c] = None
        /\ act' = [act EXCEPT ![t] = [act[t] EXCEPT !.at = "running", !.layers = handler_[c][q]]]
    BY <1>1 DEF CallDirectly, CallUnlocked, EnterLocked, Calls, Ready, Broken, Acting, RunNow, Run
  <2>2. c \in Components /\ q \in Queries /\ handling_component_[c] = Queries
    BY <1>0, <2>1 DEF UseInv
  <2>3. act'[t].layers = handler_[c][q] /\ act'[t].of = c /\ act'[t].query = q
    BY <1>0, <2>1 DEF Activity
  <2>4. None \notin Threads  BY InterfaceAssumption
  <2> HIDE DEF c, q
  <2> QED  BY <2>1, <2>2, <2>3, <2>4, HandlerOrFilter DEF c, q
<1>2. CASE RunRequest(t)
  <2> DEFINE r == Head(queue[t])
  <2>1. /\ queue[t] # << >> /\ act[t] = Idle
        /\ handler_[r.of][r.query] # 0
        /\ act' = [act EXCEPT ![t] = [Idle EXCEPT !.of = r.of, !.query = r.query, !.at = "running",
                                                  !.layers = handler_[r.of][r.query]]]
    BY <1>2 DEF RunRequest, AtRest, Run, Crash
  <2>2. r \in Requests /\ handling_component_[r.of] = Queries
    BY <1>0, <2>1 DEF TypeOK, QueueInv
  <2>3. r.of \in Components /\ r.query \in Queries  BY <2>2 DEF Requests
  <2> HIDE DEF r
  <2>4. act'[t].layers = handler_[r.of][r.query] /\ act'[t].of = r.of /\ act'[t].query = r.query
    BY <1>0, <2>1 DEF Idle
  <2> QED  BY <2>1, <2>2, <2>3, <2>4, HandlerOrFilter
<1> QED  BY <1>1, <1>2

\* execute() and operator() read the handler at each call: it has all the filters
\* that were prepended, however old the proxy or the request is.
THEOREM CallsGoThroughFiltersHolds == Spec => CallsGoThroughFilters
<1>1. ASSUME IInv, [Next]_vars, NEW t \in Threads, act'[t].at = "running", act[t].at # "running"
      PROVE  act'[t].layers = 1 + prepended[act'[t].of][act'[t].query]
  <2>1. act \in [Threads -> Activity]  BY <1>1 DEF IInv, TypeOK
  <2>2. Next  BY <1>1 DEF vars
  <2>3. CallDirectly(t) \/ CallUnlocked(t) \/ EnterLocked(t) \/ RunRequest(t)
    BY <1>1, <2>1, <2>2, NewlyRunning
  <2> QED  BY <1>1, <2>3, AllFilters
<1>2. ASSUME IInv, [Next]_vars
      PROVE  \A t \in Threads :
                act'[t].at = "running" /\ act[t].at # "running" =>
                   act'[t].layers = 1 + prepended[act'[t].of][act'[t].query]
  BY <1>1, <1>2
<1> QED  BY <1>2, Inductive, SpecIsSafe, PTL DEF SafeSpec, CallsGoThroughFilters

\* An abort on an empty handler is made by a lookup, a use, a request, or by the
\* end of publish().
LEMMA EmptyCrash ==
  ASSUME Next, crashed' = "empty"
  PROVE  \/ \E t \in Threads : \/ Acting(t, "publishing")
                               \/ Link(t) /\ ~Complete(act[t].of)
                               \/ UseBroken(t) /\ ~Dangling(t)
                               \/ /\ RunRequest(t)
                                  /\ LET r == Head(queue[t]) IN handler_[r.of][r.query] = 0
<1>1. crashed # "empty"  BY DEF Next, Running
<1>2. CASE Choice
  BY <1>1, <1>2 DEF Choice, DropRef, Lookup, PublishAssociate, Unpublish, DropOwner, OwnerFilter
<1>3. ASSUME NEW t \in Threads, Goes(t) PROVE \/ Acting(t, "publishing")
                                              \/ Link(t) /\ ~Complete(act[t].of)
                                              \/ UseBroken(t) /\ ~Dangling(t)
  <2>1. CASE LockReceivers(t) \/ LockReceiver(t) \/ LookupInterface(t)
    BY <1>1, <2>1 DEF LockReceivers, LockReceiver, LookupInterface, Fail, Crash
  <2>2. CASE Link(t)  BY <1>1, <2>2 DEF Link
  <2>3. CASE UseBroken(t) \/ CallWrongThread(t)
    BY <1>1, <2>3 DEF UseBroken, CallWrongThread, Crash
  <2>4. CASE CallDirectly(t) \/ CallEnqueued(t) \/ CallUnlocked(t) \/ CallLocking(t)
             \/ EnterLocked(t) \/ Return(t)
    BY <1>1, <2>4 DEF CallDirectly, CallEnqueued, CallUnlocked, CallLocking, EnterLocked, Return
  <2>5. CASE ClientFilter(t) \/ StoreFilter(t) \/ FilterInvalidate(t)
    BY <1>1, <2>5 DEF ClientFilter, StoreFilter, FilterInvalidate
  <2>6. CASE PublishInterface(t) \/ PublishQuery(t) \/ Published(t) \/ \E q \in Queries : PublishHandler(t, q)
    BY <2>6 DEF PublishInterface, PublishQuery, Published, PublishHandler
  <2> QED  BY <1>3, <2>1, <2>2, <2>3, <2>4, <2>5, <2>6 DEF Goes
<1>4. ASSUME NEW t \in Threads, RunRequest(t)
      PROVE  LET r == Head(queue[t]) IN handler_[r.of][r.query] = 0
  BY <1>1, <1>4 DEF RunRequest, Crash
<1>5. ASSUME NEW c \in Components, DestructorUnpublish(c) \/ NestedUnpublish(c) \/ Free(c) PROVE FALSE
  BY <1>1, <1>5 DEF DestructorUnpublish, NestedUnpublish, Free, Crash
<1>6. ASSUME NEW m \in Messages, Disassociate(m) PROVE FALSE
  BY <1>1, <1>6 DEF Disassociate
<1> QED  BY <1>2, <1>3, <1>4, <1>5, <1>6 DEF Next

\* "component hasn't implemented" and the abort on an empty handler happen while a
\* provider is in publish() or a thread is inside prepend_filter.
THEOREM EmptyOnlyMeanwhileHolds == Spec => EmptyOnlyMeanwhile
<1> DEFINE Meanwhile == \E t \in Threads : act[t].at \in {"publishing", "filtering"}
<1>1. ASSUME IInv, Next, crashed' = "empty" PROVE Meanwhile
  <2>0. ASSUME NEW c \in Components, NEW q \in Queries, handling_component_[c] = Queries,
               handler_[c][q] = 0
        PROVE  Meanwhile
    BY <1>1, <2>0, HandlerOrFilter
  <2>1. ASSUME NEW t \in Threads, Link(t), ~Complete(act[t].of) PROVE Meanwhile
    <3> DEFINE c == act[t].of
    <3>1. c \in Components /\ life[c] \notin {"new", "associated"}
      BY <1>1, <2>1 DEF IInv, ThreadInv, LookupInv, Link, Acting
    <3>2. life[c] \in {"publishing", "published", "unpublished", "freed"}
      BY <1>1, <3>1 DEF IInv, TypeOK
    <3>3. CASE life[c] = "publishing"
      BY <1>1, <3>1, <3>3, InterfaceAssumption DEF IInv, ProviderInv
    <3>4. CASE life[c] # "publishing"
      <4>1. handling_component_[c] = Queries  BY <1>1, <3>1, <3>2, <3>4 DEF IInv, ProviderInv
      <4> QED  BY <2>0, <2>1, <3>1, <4>1 DEF Complete
    <3> QED  BY <3>3, <3>4
  <2>2. ASSUME NEW t \in Threads, UseBroken(t), ~Dangling(t) PROVE Meanwhile
    <3>1. act[t].at = "ready" /\ handler_[act[t].of][act[t].query] = 0
      BY <2>2 DEF UseBroken, Ready, Acting, Broken
    <3>2. UseInv(t)  BY <1>1 DEF IInv, ThreadInv
    <3> QED  BY <2>0, <3>1, <3>2 DEF UseInv
  <2>3. ASSUME NEW t \in Threads, RunRequest(t),
               LET r == Head(queue[t]) IN handler_[r.of][r.query] = 0
        PROVE  Meanwhile
    <3> DEFINE r == Head(queue[t])
    <3>1. queue[t] # << >>  BY <2>3 DEF RunRequest
    <3>2. r \in Requests /\ handling_component_[r.of] = Queries
      BY <1>1, <3>1 DEF IInv, TypeOK, QueueInv
    <3> QED  BY <2>0, <2>3, <3>2 DEF Requests
  <2> QED  BY <1>1, <2>1, <2>2, <2>3, EmptyCrash DEF Acting
<1>2. ASSUME IInv, [Next]_vars, ~UNCHANGED vars, crashed' = "empty" PROVE Meanwhile
  BY <1>1, <1>2
<1> QED  BY <1>2, Inductive, SpecIsSafe, PTL DEF SafeSpec, EmptyOnlyMeanwhile
=============================================================================
