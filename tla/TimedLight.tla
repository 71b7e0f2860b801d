------------------------------ MODULE TimedLight ------------------------------
(***************************************************************************)
(* What the interface of the On/Off cluster promises of OnWithTimedOff      *)
(* (package/src/behaviors/on-off/OnOffInterface.ts): a light that is on for *)
(* a time stays so until it goes off, and while its off state is guarded it *)
(* cannot be turned on for a time.  Only a restart forgets.                 *)
(***************************************************************************)
VARIABLES mode, boot

Init == mode \in {"on", "off"} /\ boot = 0

TurnsOn == mode \in {"off", "delayedOff"} /\ mode' = "on" /\ UNCHANGED boot

TurnsOnTimed == mode \in {"off", "on"} /\ mode' = "timedOn" /\ UNCHANGED boot

TurnsOff == mode # "off" /\ mode' = "off" /\ UNCHANGED boot

Guards == mode = "timedOn" /\ mode' = "delayedOff" /\ UNCHANGED boot

Restarts == mode' \in {"on", "off"} /\ boot' # boot

Next == TurnsOn \/ TurnsOnTimed \/ TurnsOff \/ Guards \/ Restarts

Spec == Init /\ [][Next]_<<mode, boot>>
===============================================================================
