----------------------------- MODULE MCInterface -----------------------------
(* TLC instance of Interface: two providers on threads of their own, a client *)
(* on the thread of one of them, and an interface with an asynchronous query, *)
(* which each provider handles on the other's thread, and a volatile one,     *)
(* which is called as a synchronous one is, or on the same thread.            *)
EXTENDS Interface, TLC

CONSTANTS p, o, far, t1, t2, iface

MCHomeThread == p :> t1 @@ o :> t2
MCRefThread  == far :> t2
MCKind       == "get" :> "async" @@ "view" :> "volatile"
MCOverride   == p :> ("get" :> t2 @@ "view" :> None) @@ o :> ("get" :> t1 @@ "view" :> None)
MCDirect     == p :> TRUE @@ o :> TRUE
MCFilters    == "get" :> 2 @@ "view" :> 0
=============================================================================
