----------------------------- MODULE MCAsyncQuery -----------------------------
(* TLC instances of AsyncQuery: s and r share an executor, w is on one with a *)
(* thread of its own, and r has a third one that it runs itself.              *)
(*   c1  s calls r directly;                                                  *)
(*   c2  r asks w on the other thread, before or after it has answered c1;    *)
(*   c3  s calls a query of r that was published on the third executor.       *)
EXTENDS AsyncQuery, TLC

CONSTANTS s, r, w,          \* components
          e1, e2, e3,       \* executors
          t1, t2            \* threads

MCSender   == "c1" :> s @@ "c2" :> r @@ "c3" :> s
MCReceiver == "c1" :> r @@ "c2" :> w @@ "c3" :> r
MCLifetime == "c1" :> "l1" @@ "c2" :> "l2" @@ "c3" :> "l1"
MCHolder   == "l1" :> s @@ "l2" :> r
MCDefault  == s :> e1 @@ r :> e1 @@ w :> e2
MCOverride == "c1" :> None @@ "c2" :> None @@ "c3" :> e3
MCThread   == e1 :> t1 @@ e2 :> t2 @@ e3 :> t1
MCReplies  == "c1" :> 1 @@ "c2" :> 2 @@ "c3" :> 1
MCResets   == "l1" :> 1 @@ "l2" :> 0

\* as the theorems on callbacks need it
ASSUME OwnExecutors == OwnThread
=============================================================================
