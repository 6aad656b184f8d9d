-------------------------------- MODULE Broker --------------------------------
(* mc::broker, src/broker.cpp: for every message the list of the components   *)
(* that are associated with it. A list is immutable and shared: the broker    *)
(* holds it with a shared_ptr, lookup() hands out a weak_ptr, and an          *)
(* association is added or removed by putting a new list in its place. The    *)
(* identity of a list is what a cached weak_ptr is about, so each message has *)
(* a version: the number of lists the broker has had for it.                  *)
(*                                                                            *)
(* Every list is a set here: its order and how often a component is on it play *)
(* no role where one receiver is expected. A message without an entry counts   *)
(* as one with the empty list: lookup() creates it.                            *)
(*                                                                             *)
(* The operators below are the bodies of the broker's functions, which run     *)
(* under lookup_mutex_. Most are one step. disassociate_everything() is not:   *)
(* it holds each receiver for a moment, the receiver may be destroyed by the   *)
(* end of that moment, and its destructor enters the broker again on the same  *)
(* thread. The modules of the caches (MonoRef, Interface) call them. Event has *)
(* its own broker, which shows receiver by receiver how a list is gone over.   *)
EXTENDS Naturals

CONSTANTS Components,   \* the components of the program
          Messages,     \* message ids
          None          \* nullptr, an empty shared_ptr, an empty weak_ptr

VARIABLES active_lookups_,  \* message -> the (weak pointers to) components of its list
          version,          \* message -> number of lists that were replaced
          walk              \* disassociate_everything() of the thread that is in it, or None

Walks == [of : Components, left : SUBSET Messages, live : SUBSET Components]

ASSUME BrokerAssumption == None \notin Walks

brokerVars == <<active_lookups_, version, walk>>

BrokerInit == /\ active_lookups_ = [m \in Messages |-> {}]
              /\ version = [m \in Messages |-> 0]
              /\ walk = None

\* lookup_mutex_ can be locked
MutexFree == walk = None

\* iter->second = std::make_shared<message_receivers>(...) for the messages ms
Replace(ms, list(_)) ==
    /\ active_lookups_' = [m \in Messages |-> IF m \in ms THEN list(m) ELSE active_lookups_[m]]
    /\ version' = [m \in Messages |-> IF m \in ms THEN version[m] + 1 ELSE version[m]]

associate(msg, comp) ==
    /\ MutexFree /\ UNCHANGED walk
    /\ Replace({msg}, LAMBDA m : active_lookups_[m] \cup {comp})

\* disassociate_everything() begins. left: the messages it has not come to; live:
\* the components lock() succeeds on, here and each time it turns to a message.
disassociate_everything(comp, live) ==
    /\ MutexFree
    /\ walk' = [of |-> comp, left |-> Messages, live |-> live]
    /\ UNCHANGED <<active_lookups_, version>>

\* The walk goes on to the next message, or ends with this one.
LastMessage(msg) == walk.left = {msg}
Turn(msg, live) ==
    walk' = IF LastMessage(msg) THEN None ELSE [walk EXCEPT !.left = @ \ {msg}, !.live = live]

\* mutant: only the entries that have expired are erased
disassociate_expired(msg, live) ==
    /\ walk # None /\ msg \in walk.left
    /\ \E back \in SUBSET (walk.live \ live) :
          Replace({msg}, LAMBDA m : {c \in active_lookups_[m] : c \in live \cup back})
    /\ Turn(msg, live)

\* disassociate(): a copy of the list without the component and without the
\* entries that cannot be locked becomes the list. Of a component that was alive
\* when the copy was taken and is not when it is written, the entry may have been
\* passed before: then it comes back, even if a destructor has erased it.
disassociate(msg, live) ==
    /\ walk # None /\ msg \in walk.left
    /\ \E back \in SUBSET (walk.live \ live) :
          Replace({msg}, LAMBDA m : {c \in active_lookups_[m] : c # walk.of /\ c \in live \cup back})
    /\ Turn(msg, live)

\* disassociate_everything() of a component that is destroyed by the thread in a
\* walk, when it lets go of a receiver. Every list is replaced; the walk puts its own
\* in the place of those that are left. In the others no entry but those that
\* cannot be locked is erased, and of these not the ones that a copy on the stack
\* brings back.
disassociate_nested(comp, live) ==
    /\ walk # None /\ comp \in walk.live
    /\ \E gone \in [Messages -> SUBSET (Components \ live)] :
          Replace(Messages, LAMBDA m : active_lookups_[m] \ (IF m \in walk.left THEN {} ELSE gone[m]))
    /\ UNCHANGED walk

invalidate(msg) ==
    /\ MutexFree /\ UNCHANGED walk
    /\ Replace({msg}, LAMBDA m : active_lookups_[m])

\* lookup() returns the current list; the caller stores a weak_ptr to it. It
\* needs MutexFree.
lookup(msg) == version[msg]
=============================================================================
