------------------------------- MODULE SyncQuery -------------------------------
(* Synchronous queries between components: mc::sync_query                     *)
(* (include/minicomps/sync_query.h) and its two twins in interfaces,          *)
(* if_sync_query and if_volatile_sync_query::call_locking. A query is a call  *)
(* on the caller's thread. The receiver's lock is taken for it, unless sender *)
(* and receiver are on the same executor. Before, the receiver is looked up   *)
(* (MonoRef): on a miss lookup() takes and releases its lock to read its      *)
(* handlers, whatever executor it is on and whatever locks the thread has.    *)
(* Lookups for asynchronous queries and events do the same.                   *)
(*                                                                            *)
(* Every executor is run by a thread; what a component does of its own accord *)
(* (Update: a work item, its update function) runs there, without its lock.   *)
EXTENDS Naturals, Sequences, FiniteSets

CONSTANTS Components, Executors, Threads, None,
          DefaultExecutor,   \* component -> executor
          Thread,            \* executor -> the thread that execute()s it
          Active,            \* the components that act of their own accord
          Queries,           \* <<sender, receiver>>: who may call whom
          References,        \* <<sender, receiver>>: who may look up whom
          MaxDepth           \* bound: calls in progress on a thread

ASSUME SyncQueryAssumption ==
    /\ None \notin Threads \cup Components
    /\ DefaultExecutor \in [Components -> Executors]
    /\ Thread \in [Executors -> Threads]
    /\ Active \subseteq Components
    /\ Queries \subseteq References /\ References \subseteq Components \X Components
    /\ MaxDepth \in Nat \ {0}

VARIABLES
    stack,   \* thread -> its frames, the running one first
    owner,   \* component -> the thread that owns its recursive lock, or None
    count,   \* component -> how often it has locked it
    want,    \* thread -> the component whose lock it is waiting for, or None
    looking  \* the threads that want it for lookup(), and not for a query

vars == <<stack, owner, count, want, looking>>

Init == /\ stack = [t \in Threads |-> <<>>]
        /\ owner = [c \in Components |-> None]
        /\ count = [c \in Components |-> 0]
        /\ want = [t \in Threads |-> None]
        /\ looking = {}

\* code of a component, entered with its lock or without
Frame(comp, locked) == [in |-> comp, locked |-> locked]

Top(t) == Head(stack[t])
Push(t, f) == stack' = [stack EXCEPT ![t] = <<f>> \o @]
Runs(t, comp) == stack[t] # <<>> /\ want[t] = None /\ Top(t).in = comp

mutual_executor(from, to) == DefaultExecutor[from] = DefaultExecutor[to]

\* what a component does of its own accord
Update(t, comp) == /\ comp \in Active /\ stack[t] = <<>>
                   /\ Thread[DefaultExecutor[comp]] = t
                   /\ Push(t, Frame(comp, FALSE))
                   /\ UNCHANGED <<owner, count, want, looking>>

\* lookup() on a miss: lookup_sync_handler and lookup_executor_override, each of
\* which locks the receiver ...
Lookup(t, from, to) == /\ <<from, to>> \in References /\ Runs(t, from)
                       /\ want' = [want EXCEPT ![t] = to]
                       /\ looking' = looking \cup {t}
                       /\ UNCHANGED <<stack, owner, count>>

\* ... and unlocks it. The code that looked it up goes on: with a call, or with the
\* fallback handler when there is none.
LookedUp(t) == /\ t \in looking /\ owner[want[t]] \in {None, t}
               /\ want' = [want EXCEPT ![t] = None]
               /\ looking' = looking \ {t}
               /\ UNCHANGED <<stack, owner, count>>

\* a query: lookup() has returned the handler, at once on a hit
Called(t, from, to) == /\ <<from, to>> \in Queries
                       /\ Runs(t, from) /\ Len(stack[t]) < MaxDepth

\* mutant: the lock is never skipped
CallAlwaysLocking(t, from, to) == /\ Called(t, from, to)
                                  /\ want' = [want EXCEPT ![t] = to]
                                  /\ UNCHANGED <<stack, owner, count, looking>>

\* "We can skip the lock since the same executor is never updated from different
\* threads"
CallDirect(t, from, to) == /\ Called(t, from, to) /\ mutual_executor(from, to)
                           /\ Push(t, Frame(to, FALSE))
                           /\ UNCHANGED <<owner, count, want, looking>>

\* std::lock_guard lg(receiver()->lock) begins ...
CallLocking(t, from, to) == /\ Called(t, from, to) /\ ~mutual_executor(from, to)
                            /\ want' = [want EXCEPT ![t] = to]
                            /\ UNCHANGED <<stack, owner, count, looking>>

\* mutant: the lock_guard is a temporary, gone before the handler is called
EnterUnlocked(t) ==
    LET c == want[t] IN
    /\ c # None /\ t \notin looking /\ owner[c] \in {None, t}
    /\ want' = [want EXCEPT ![t] = None]
    /\ Push(t, Frame(c, TRUE))
    /\ UNCHANGED <<owner, count, looking>>

\* ... and has the lock; the handler runs
Enter(t) ==
    LET c == want[t] IN
    /\ c # None /\ t \notin looking /\ owner[c] \in {None, t}
    /\ owner' = [owner EXCEPT ![c] = t]
    /\ count' = [count EXCEPT ![c] = @ + 1]
    /\ want' = [want EXCEPT ![t] = None]
    /\ Push(t, Frame(c, TRUE))
    /\ UNCHANGED looking

\* mutant: the outermost lock and an inner one are released alike
ReturnReleasing(t) ==
    /\ stack[t] # <<>> /\ want[t] = None
    /\ stack' = [stack EXCEPT ![t] = Tail(@)]
    /\ IF Top(t).locked
       THEN LET c == Top(t).in IN
            /\ count' = [count EXCEPT ![c] = @ - 1]
            /\ owner' = [owner EXCEPT ![c] = None]
       ELSE UNCHANGED <<owner, count>>
    /\ UNCHANGED <<want, looking>>

\* the handler returns, and the lock_guard is destroyed
Return(t) ==
    /\ stack[t] # <<>> /\ want[t] = None
    /\ stack' = [stack EXCEPT ![t] = Tail(@)]
    /\ IF Top(t).locked
       THEN LET c == Top(t).in IN
            /\ count' = [count EXCEPT ![c] = @ - 1]
            /\ owner' = [owner EXCEPT ![c] = IF count[c] = 1 THEN None ELSE @]
       ELSE UNCHANGED <<owner, count>>
    /\ UNCHANGED <<want, looking>>

Next == \E t \in Threads :
    \/ \E comp \in Components : Update(t, comp)
    \/ \E from, to \in Components :
          Lookup(t, from, to) \/ CallDirect(t, from, to) \/ CallLocking(t, from, to)
    \/ LookedUp(t) \/ Enter(t) \/ Return(t)

Spec == Init /\ [][Next]_vars
-----------------------------------------------------------------------------

Frames(t) == {stack[t][i] : i \in 1..Len(stack[t])}
\* waiting for a lock another thread has; the locks are recursive
Waiting == {t \in Threads : want[t] # None /\ owner[want[t]] \notin {None, t}}

\* Types of the fields.
TypeOK == /\ stack \in [Threads -> Seq([in: Components, locked: BOOLEAN])]
          /\ owner \in [Components -> Threads \cup {None}]
          /\ count \in [Components -> Nat]
          /\ want \in [Threads -> Components \cup {None}]
          /\ looking \subseteq Threads

\* The lock of a component counts the queries that run in it: it is owned by the
\* thread whose calls entered with it, as often as they did, and by nobody else.
LockCountsQueries == \A c \in Components : \A t \in Threads :
    LET entered == {i \in 1..Len(stack[t]) : stack[t][i] = Frame(c, TRUE)} IN
    Cardinality(entered) = IF owner[c] = t THEN count[c] ELSE 0

\* README: "Sync queries are direct invocation and lock the target component": no two
\* threads are in queries of a component that entered with its lock.
LockedQueriesExclude == \A c \in Components : \A t, u \in Threads :
    Frame(c, TRUE) \in Frames(t) \cap Frames(u) => t = u

\* The locks are taken in the order Before, which has no way around: Holding has every
\* component that can come to run, with the locks its thread has then, and who is
\* looked up from there -- for a query without a lock too -- has a lock that is after
\* all of those, or one of them.
LocksInOrder(Before, Holding) ==
    /\ \A S \in SUBSET Components : S # {} => \E c \in S : \A d \in S : <<c, d>> \notin Before
    /\ \A comp \in Active : <<comp, {}>> \in Holding
    /\ \A from, to \in Components, locks \in SUBSET Components :
          <<from, to>> \in References /\ <<from, locks>> \in Holding =>
              /\ to \in locks \/ \A c \in locks : <<c, to>> \in Before
              /\ <<from, to>> \in Queries =>
                    <<to, IF mutual_executor(from, to) THEN locks ELSE locks \cup {to}>> \in Holding

\* No set of threads waits for one another, for queries or for lookups -- where the
\* locks of the components are taken in one order (LocksInOrder), as in the instance.
\* Components of one executor can query each other in both directions because the
\* queries between them hold no lock; the lookups take one, and must be in order.
NoWaitCycle == \A W \in SUBSET Waiting :
    W # {} => \E t \in W : owner[want[t]] \notin W

(* What the documentation says and the code does not do.                      *)

\* sync_query.h: "We can skip the lock since the same executor is never updated from
\* different threads": while a query runs in a component without its lock, no other
\* thread runs code of that component.
SkippedLockIsHarmless == \A t, u \in Threads : \A i \in 1..Len(stack[t]) :
    \* the last frame is an update
    LET f == stack[t][i] IN
    t # u /\ ~f.locked /\ i < Len(stack[t]) => ~ \E g \in Frames(u) : g.in = f.in
=============================================================================
