----------------------------- MODULE QueryPromise -----------------------------
(* What an asynchronous query promises its sender, whatever the executors     *)
(* (README, "Async queries" and "Cancellation"): an answer that was given is  *)
(* delivered to the callback of the call, after it was given and not once the *)
(* lifetime of the call has expired.                                          *)
CONSTANT Calls

VARIABLES phase,     \* call -> "unsent", "sent", "answered", "delivered"
          canceled   \* the calls whose lifetime has expired

qpVars == <<phase, canceled>>

QPInit == /\ phase = [c \in Calls |-> "unsent"]
          /\ canceled = {}

Advance(c, from, to) == /\ phase[c] = from
                        /\ phase' = [phase EXCEPT ![c] = to]
                        /\ UNCHANGED canceled

QPSend(c)    == Advance(c, "unsent", "sent")
QPAnswer(c)  == Advance(c, "sent", "answered")
QPDeliver(c) == Advance(c, "answered", "delivered") /\ c \notin canceled

\* resetting a lifetime, or destroying its owner, cancels all the calls made with it
QPCancel == /\ canceled' \in SUBSET Calls
            /\ canceled \subseteq canceled'
            /\ \A c \in canceled' \ canceled : phase[c] # "unsent"
            /\ UNCHANGED phase

QPNext == (\E c \in Calls : QPSend(c) \/ QPAnswer(c) \/ QPDeliver(c)) \/ QPCancel

QPSpec == QPInit /\ [][QPNext]_qpVars
=============================================================================
