--------------------------------- MODULE Box ---------------------------------
(* What a fixed_any is to its user: a box that is empty or holds one value.   *)
(* "Like `std::any` but you can customize the SBO storage size"               *)
(* (include/minicomps/fixed_any.h).                                           *)
CONSTANTS Boxes, Values, Empty

VARIABLE holds   \* box -> its value, or Empty

BoxInit == holds = [b \in Boxes |-> Empty]

\* a value is moved into the box, so it is in no other
Put(b, v) == /\ \A c \in Boxes : holds[c] # v
             /\ holds' = [holds EXCEPT ![b] = v]
Clear(b) == holds' = [holds EXCEPT ![b] = Empty]

\* the value leaves the box it was in
Take(b, from) == /\ b # from /\ holds[from] # Empty
                 /\ holds' = [holds EXCEPT ![b] = holds[from], ![from] = Empty]

BoxNext == \E b \in Boxes : \/ Clear(b)
                            \/ \E v \in Values : Put(b, v)
                            \/ \E from \in Boxes : Take(b, from)

BoxSpec == BoxInit /\ [][BoxNext]_holds
=============================================================================
