------------------------------ MODULE SingleProcess ----------------------------
(***************************************************************************)
(* What the go2rtc manager promises to whoever talks to go2rtc: a machine  *)
(* on which one process is started, may stop, and is started again only    *)
(* after the previous one has gone.                                        *)
(***************************************************************************)
EXTENDS Naturals

VARIABLE alive    \* the number of go2rtc processes the system runs

Init == alive = 0

Start == alive = 0 /\ alive' = 1

Exit == alive = 1 /\ alive' = 0

Next == Start \/ Exit

Spec == Init /\ [][Next]_alive

=============================================================================
