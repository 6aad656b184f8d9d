------------------------------- MODULE MCEvent -------------------------------
(* TLC instance of Event: one receiver on the emitter's executor and one on   *)
(* another, and one more reference to the event.                              *)
EXTENDS Event, TLC

CONSTANTS a, b, t1, t2, o

MCThread == a :> t1 @@ b :> t2
=============================================================================
