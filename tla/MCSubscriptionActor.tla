------------------------ MODULE MCSubscriptionActor ------------------------
(* Small instances of SubscriptionActor for TLC. *)
EXTENDS SubscriptionActor

\* One change beside a reader, an external refresh, a refused job or a panic;
\* or two changes without them.
MCBound ==
    \/ change <= 1
    \/ external + refused + panics = 0 /\ \A o \in Observer \ {Job} : capture[o] = NoCapture
=============================================================================
