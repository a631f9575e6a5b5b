----------------------------- MODULE MCThrottle -----------------------------
(* A small instance of Throttle for TLC.                                    *)
EXTENDS Throttle

\* A pause with an end, and half the speed for good.
SomeOverrides == {[scale |-> 0, for |-> 1], [scale |-> 50, for |-> 0]}
\* Idle, balanced, saturated, backlogged, overloaded.
Idle == [active |-> 0, waiting |-> 0]
SomeLoads == {Idle, [active |-> 25, waiting |-> 0],
              [active |-> 25, waiting |-> 1], [active |-> 30, waiting |-> 5]}
=============================================================================
