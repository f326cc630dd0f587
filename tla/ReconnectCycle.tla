--------------------------- MODULE ReconnectCycle ---------------------------
(***************************************************************************)
(* What ConnectionManager promises about automatic reconnection of one     *)
(* connection id, without timers, flags or connection objects: at any time *)
(* the id is idle, waits for its next retry, has exactly one retry in      *)
(* flight, or cools down after a failure that no retry can repair.         *)
(* ConnectionManager is shown to implement this specification.             *)
(***************************************************************************)

VARIABLE phase

Phases == {"idle", "waiting", "trying", "cooling"}

Init == phase = "idle"

\* A connection is lost: a retry is scheduled.
Lose == phase = "idle" /\ phase' = "waiting"

\* The user connects, disconnects or stops the retries before the next one.
Cancel == phase = "waiting" /\ phase' = "idle"

\* The scheduled retry starts; only a scheduled one may.
Try == phase = "waiting" /\ phase' = "trying"

\* The retry failed for a reason that may go away.
Again == phase = "trying" /\ phase' = "waiting"

\* The retry succeeded, or failed after the user had called it off.
Finish == phase = "trying" /\ phase' = "idle"

\* The retry failed for good; late close events are ignored for a while.
GiveUp == phase = "trying" /\ phase' = "cooling"

CoolDown == phase = "cooling" /\ phase' = "idle"

Next == Lose \/ Cancel \/ Try \/ Again \/ Finish \/ GiveUp \/ CoolDown

Spec == Init /\ [][Next]_phase

=============================================================================
