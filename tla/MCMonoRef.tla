------------------------------ MODULE MCMonoRef ------------------------------
(* TLC instances of MonoRef. Each scenario gives the constants a value:       *)
(*   Rivals  two components publish a message that both call, on threads of   *)
(*           their own, and one of them publishes a second message;           *)
(*   Shared  one provider, two users on threads of their own;                 *)
(*   Cycle   two providers that call each other.                              *)
EXTENDS MonoRef, TLC

CONSTANTS a, b, u, v,       \* components
          m1, m2,           \* messages
          e1, e2            \* executors

RivalsOwner    == "r1" :> b @@ "r2" :> a
RivalsMsg      == "r1" :> m1 @@ "r2" :> m1
RivalsProvides == a :> {m1, m2} @@ b :> {m1}
RivalsDefault  == a :> e1 @@ b :> e2
RivalsOverride == [c \in {a, b} |-> [m \in {m1, m2} |-> IF c = a THEN e2 ELSE None]]

SharedOwner    == "r1" :> u @@ "r2" :> v
SharedMsg      == "r1" :> m1 @@ "r2" :> m1
SharedProvides == a :> {m1} @@ u :> {} @@ v :> {}
SharedDefault  == a :> e1 @@ u :> e1 @@ v :> e2
SharedOverride == [c \in {a, u, v} |-> [m \in {m1} |-> None]]

CycleOwner     == "r1" :> b @@ "r2" :> a
CycleMsg       == "r1" :> m1 @@ "r2" :> m2
CycleProvides  == a :> {m1} @@ b :> {m2}
CycleDefault   == a :> e1 @@ b :> e2
CycleOverride  == [c \in {a, b} |-> [m \in {m1, m2} |-> None]]
=============================================================================
