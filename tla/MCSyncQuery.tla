------------------------------ MODULE MCSyncQuery ------------------------------
(* TLC instances of SyncQuery. x and y are on one executor, z and w on others *)
(* with threads of their own; w and y act of their own accord.                *)
(*   Guarded  x's lock is only taken by queries that have z's, which x and z  *)
(*            call each other with; x and y call each other without a lock,   *)
(*            but look each other up; x looks up w for an asynchronous query; *)
(*   Skipped  w calls x with its lock, and y calls x without.                 *)
EXTENDS SyncQuery, TLC

CONSTANTS x, y, z, w, e1, e2, e3, t1, t2, t3

Home      == x :> e1 @@ y :> e1 @@ z :> e2 @@ w :> e3
MCThread  == e1 :> t1 @@ e2 :> t2 @@ e3 :> t3

Guarded == {<<w, z>>, <<z, x>>, <<x, z>>, <<y, z>>, <<x, y>>, <<y, x>>}
Skipped == {<<w, x>>, <<y, x>>}
LookedUpGuarded == Guarded \cup {<<x, w>>}

\* Of the Guarded queries: z's lock before x's, and these before y's and w's, which
\* only lookups take; and what the threads of w and y hold.
ASSUME GuardedInOrder == Queries = Guarded =>
    LocksInOrder({<<z, x>>} \cup {z, x} \X {y, w},
                 {w, x, y} \X {{}} \cup {<<z, {z}>>} \cup {x, y, z} \X {{x, z}})
=============================================================================
