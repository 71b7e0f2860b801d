------------------------- MODULE MCServerSubscription -------------------------
(* Small instances of a subscription. *)
EXTENDS ServerSubscription, TLC

\* The agreed interval is no longer than the floor the peer asks for, so every
\* change is held back; Limit cuts off the window.
MCRequests == {[floor |-> 2, ceiling |-> 2]}
MCConfig == [min |-> 1, max |-> 2, window |-> 1]
==============================================================================
