------------------------------ MODULE Activities ------------------------------
(***************************************************************************)
(* src/services/ActivityService.ts with the callers that give an activity  *)
(* its end: the guarded calls of CommandGuard.ts, a search, which the user *)
(* can cancel through its activity, and the monitor of a watched file.     *)
(***************************************************************************)
EXTENDS Naturals

CONSTANTS
    Ops     \* operations with an activity (bound)

VARIABLES
    kind,     \* what each operation is
    run,      \* the operations
    listed,   \* activities in the service's map
    status,   \* status of each activity
    timers,   \* removal timers of each activity
    pressed   \* activities the user has cancelled (history)

vars == <<kind, run, listed, status, timers, pressed>>

Kinds == {"guarded", "search", "monitor"}

Finished == {"completed", "failed", "cancelled"}

\* aborted: a search whose signal is set, on its way out.  stray: a monitor whose
\* activity's id is kept no longer.
TypeOK ==
    /\ kind \in [Ops -> Kinds]
    /\ run \in [Ops -> {"idle", "running", "aborted", "stray", "ended"}]
    /\ listed \subseteq Ops
    /\ status \in [Ops -> {"none", "running"} \cup Finished]
    /\ timers \in [Ops -> 0 .. 2]
    /\ pressed \subseteq Ops

Init ==
    /\ kind \in [Ops -> Kinds]
    /\ run = [o \in Ops |-> "idle"]
    /\ listed = {} /\ pressed = {}
    /\ status = [o \in Ops |-> "none"] /\ timers = [o \in Ops |-> 0]

------------------------------------------------------------------------------
(* ActivityService *)

\* completeActivity, failActivity: no look at the status, which may be final.
Finish(o, s) ==
    IF o \in listed
    THEN /\ status' = [status EXCEPT ![o] = s]
         /\ timers' = [timers EXCEPT ![o] = @ + 1]
    ELSE UNCHANGED <<status, timers>>

\* cancelActivity of os, those of them that run.
CanCancel(os) == {o \in os \cap listed : status[o] = "running"}

CancelAll(os) ==
    /\ status' = [o \in Ops |-> IF o \in CanCancel(os) THEN "cancelled" ELSE status[o]]
    /\ timers' = [o \in Ops |-> IF o \in CanCancel(os) THEN timers[o] + 1 ELSE timers[o]]

------------------------------------------------------------------------------
(* Operations *)

\* startActivity, then the operation.
Begin(o) ==
    /\ run[o] = "idle"
    /\ run' = [run EXCEPT ![o] = "running"]
    /\ listed' = listed \cup {o}
    /\ status' = [status EXCEPT ![o] = "running"]
    /\ UNCHANGED <<kind, timers, pressed>>

\* Mutant: the catch of a guarded call forgets its activity.
GuardedEndsQuietly(o) ==
    /\ kind[o] = "guarded" /\ run[o] = "running"
    /\ run' = [run EXCEPT ![o] = "ended"]
    /\ Finish(o, "completed") \/ UNCHANGED <<status, timers>>
    /\ UNCHANGED <<kind, listed, pressed>>

\* readFile, writeFile, listFiles, searchFiles and the sudo calls of CommandGuard.
GuardedEnds(o) ==
    /\ kind[o] = "guarded" /\ run[o] = "running"
    /\ run' = [run EXCEPT ![o] = "ended"]
    /\ Finish(o, "completed") \/ Finish(o, "failed")
    /\ UNCHANGED <<kind, listed, pressed>>

\* One search of SearchPanel: an aborted one cancels its activity, unless the
\* abort made its command throw.
SearchEnds(o) ==
    /\ kind[o] = "search" /\ run[o] \in {"running", "aborted"}
    /\ run' = [run EXCEPT ![o] = "ended"]
    /\ \/ run[o] = "aborted" /\ CancelAll({o})
       \/ run[o] = "running" /\ Finish(o, "completed")
       \/ Finish(o, "failed")
    /\ UNCHANGED <<kind, listed, pressed>>

\* stopMonitoring, or the loss of the watch.
MonitorEnds(o) ==
    /\ kind[o] = "monitor" /\ run[o] = "running"
    /\ run' = [run EXCEPT ![o] = "ended"]
    /\ Finish(o, "completed") \/ Finish(o, "failed") \/ CancelAll({o})
    /\ UNCHANGED <<kind, listed, pressed>>

\* startFileWatch over a watch nobody stopped, as at the end of openRemoteFile: its
\* activity takes the place of the former in currentWatchActivityId.
MonitorReplaced(o) ==
    /\ kind[o] = "monitor" /\ run[o] = "running"
    /\ run' = [run EXCEPT ![o] = "stray"]
    /\ UNCHANGED <<kind, listed, status, timers, pressed>>

------------------------------------------------------------------------------
(* The user *)

\* sshLite.cancelActivity, cancelServerActivities, cancelAllActivities: any
\* running activity; onCancel is a search's alone, the others go on.
Cancel(os) ==
    /\ CanCancel(os) = os /\ os # {}
    /\ CancelAll(os)
    /\ run' = [o \in Ops |-> IF o \in os /\ kind[o] = "search" THEN "aborted" ELSE run[o]]
    /\ pressed' = pressed \cup os
    /\ UNCHANGED <<kind, listed>>

\* The panel's own cancel: the signal only.
Abort(o) ==
    /\ kind[o] = "search" /\ run[o] = "running"
    /\ run' = [run EXCEPT ![o] = "aborted"]
    /\ UNCHANGED <<kind, listed, status, timers, pressed>>

Remove(o) ==
    /\ timers[o] > 0
    /\ timers' = [timers EXCEPT ![o] = @ - 1]
    /\ listed' = listed \ {o}
    /\ UNCHANGED <<kind, run, status, pressed>>

ClearAll ==
    /\ listed # {}
    /\ listed' = {}
    /\ UNCHANGED <<kind, run, status, timers, pressed>>

------------------------------------------------------------------------------
Next ==
    \/ \E o \in Ops : Begin(o) \/ GuardedEnds(o) \/ SearchEnds(o)
    \/ \E o \in Ops : MonitorEnds(o) \/ MonitorReplaced(o)
    \/ \E os \in SUBSET Ops : Cancel(os)
    \/ \E o \in Ops : Abort(o) \/ Remove(o)
    \/ ClearAll

Spec == Init /\ [][Next]_vars

------------------------------------------------------------------------------
(* Properties *)

\* The view never shows as running a guarded call or a search that is over, nor a
\* monitor that was stopped, whichever way they ended, and a search cancelled by its
\* activity never counts as finished work. A monitor whose id was overwritten is the
\* exception: nobody ends it.
RunningIsReal ==
    \A o \in listed :
        /\ status[o] = "running" => run[o] \in {"running", "aborted", "stray"}
        /\ kind[o] = "search" /\ o \in pressed => status[o] # "completed"
==============================================================================
