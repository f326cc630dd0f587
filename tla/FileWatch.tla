------------------------------- MODULE FileWatch -------------------------------
(***************************************************************************)
(* The watch on the focused file, in src/services/FileService.ts: native   *)
(* (watchFile of connection/SSHConnection.ts) or polled, its heartbeat,    *)
(* the visibility that pauses a poll and the activity it is shown as.      *)
(* One connection; what a change does to the document is FileSync.tla's.   *)
(***************************************************************************)
EXTENDS Naturals, FiniteSets, FiniteSetsExt

CONSTANTS
    Files,
    NoFile,
    MaxLinks,    \* connection objects of the id (bound)
    MaxStarts    \* watches being started at once (bound)

WatchAssumption ==
    /\ NoFile \notin Files /\ IsFiniteSet(Files)
    /\ MaxLinks \in Nat \ {0} /\ MaxStarts \in Nat

VARIABLES
    up,           \* getConnection finds the connection
    linkNo,       \* number of the connection object
    focus,        \* the file in the active editor
    visible,      \* the watched file is in a visible editor
    mapped,       \* files with an entry in fileMappings
    opening,      \* files mapped whose openRemoteFile has still to start the watch
    watched,      \* currentWatchedFile
    activity,     \* what currentWatchActivityId stands for: a running activity or none
    stray,        \* a running activity no id stands for
    starting,     \* startFileWatch calls waiting for watchFile, by file
    native,       \* usingNativeWatch
    poll, paused, \* the poll timer, pollPaused
    gated,        \* watchVisibilitySubscription
    beat,         \* the heartbeat timer
    probing,      \* stats the heartbeat has sent
    streams,      \* open watcher channels on the server, by file
    entry,        \* files that have an entry in _activeWatchers
    subscribed    \* connection object onFileChange is subscribed to, 0 for none

vars == <<up, linkNo, focus, visible, mapped, opening, watched, activity, stray, starting,
          native, poll, paused, gated, beat, probing, streams, entry, subscribed>>

view    == <<focus, mapped, opening>>
files   == <<mapped, opening>>
remote  == <<streams, entry>>
shownAs == <<watched, visible, activity, stray>>
timers  == <<poll, paused, gated, beat>>

TypeOK ==
    /\ up \in BOOLEAN /\ linkNo \in 1 .. MaxLinks
    /\ focus \in Files \cup {NoFile} /\ visible \in BOOLEAN
    /\ mapped \subseteq Files /\ opening \subseteq Files
    /\ watched \in Files \cup {NoFile}
    /\ activity \in BOOLEAN /\ stray \in BOOLEAN
    /\ starting \in [Files -> 0 .. MaxStarts]
    /\ native \in BOOLEAN /\ poll \in BOOLEAN /\ paused \in BOOLEAN
    /\ gated \in BOOLEAN /\ beat \in BOOLEAN /\ probing \in BOOLEAN
    /\ streams \in [Files -> 0 .. 2] /\ entry \subseteq Files
    /\ subscribed \in 0 .. MaxLinks

Init ==
    /\ up = TRUE /\ linkNo = 1
    /\ focus = NoFile /\ visible = FALSE
    /\ mapped = {} /\ opening = {}
    /\ watched = NoFile /\ activity = FALSE /\ stray = FALSE
    /\ starting = [f \in Files |-> 0]
    /\ native = FALSE /\ poll = FALSE /\ paused = FALSE
    /\ gated = FALSE /\ beat = FALSE /\ probing = FALSE
    /\ streams = [f \in Files |-> 0] /\ entry = {}
    /\ subscribed = 0

------------------------------------------------------------------------------
(* The active editor *)

\* Mutant: a stream is taken for closed that had no entry.
UnwatchedTwice(f) ==
    /\ entry' = entry \ {f}
    /\ streams' = [streams EXCEPT ![f] = @ - 1]

\* unwatchFile: the stream in the map is closed.
Unwatched(f) ==
    /\ entry' = entry \ {f}
    /\ streams' = IF f \in entry THEN [streams EXCEPT ![f] = @ - 1] ELSE streams

MayStart == MapThenSumSet(LAMBDA f : starting[f], Files) < MaxStarts

\* onDidChangeActiveTextEditor to another file or none: stopCurrentFileWatch, then
\* startFileWatch up to its watchFile when the file is mapped.
Switch(f) ==
    /\ focus # f /\ focus' = f
    /\ LET starts == f \in mapped /\ up
       IN  /\ f \in mapped => watched # f /\ MayStart
           /\ watched' = (IF starts THEN f ELSE NoFile)
           /\ starting' = (IF starts THEN [starting EXCEPT ![f] = @ + 1] ELSE starting)
           /\ activity' = starts /\ visible' = starts
    /\ stray' = (stray \/ (activity /\ watched = NoFile))
    /\ poll' = FALSE /\ beat' = FALSE /\ gated' = FALSE /\ paused' = FALSE
    /\ native' = (native /\ watched = NoFile)
    /\ IF watched # NoFile /\ up /\ native THEN Unwatched(watched) ELSE UNCHANGED remote
    /\ UNCHANGED <<up, linkNo, files, probing, subscribed>>

\* Back to the file still watched: nothing to do.
Return ==
    /\ watched \in mapped /\ focus # watched /\ visible
    /\ focus' = watched
    /\ UNCHANGED <<up, linkNo, files, shownAs, starting, native, timers, probing, remote,
                   subscribed>>

------------------------------------------------------------------------------
(* Files that are opened *)

\* A file written to disk first is mapped before its document is shown.
MapBeforeShow(f) ==
    /\ f \notin mapped \cup opening /\ mapped' = mapped \cup {f} /\ opening' = opening \cup {f}
    /\ UNCHANGED <<up, linkNo, focus, shownAs, starting, native, timers, probing,
                   remote, subscribed>>

\* The end of openRemoteFile, of a large file's download and of registerExistingFile:
\* startFileWatch, whatever is focused and watched by then, and without stopping it.
OpenStarts(f) ==
    /\ f \in opening \/ f \notin mapped
    /\ mapped' = (IF f \in opening THEN mapped ELSE mapped \cup {f}) /\ opening' = opening \ {f}
    /\ IF up
       THEN /\ MayStart
            /\ starting' = [starting EXCEPT ![f] = @ + 1]
            /\ poll' = FALSE
            /\ watched' = f /\ visible' \in {TRUE, f = focus}
            /\ activity' = TRUE /\ stray' = (stray \/ activity)
       ELSE UNCHANGED <<starting, poll, shownAs>>
    /\ UNCHANGED <<up, linkNo, focus, native, paused, gated, beat, probing, remote,
                   subscribed>>

-------------------------------------------------------------------------------
(* The rest of startFileWatch *)

\* Whichever file is watched by now.
Native(f) ==
    /\ native' = TRUE
    /\ subscribed' = IF subscribed = 0 THEN linkNo ELSE subscribed
    /\ streams' = [streams EXCEPT ![f] = @ + 1] /\ entry' = entry \cup {f}
    /\ UNCHANGED <<poll, paused, gated>>

Polling ==
    /\ native' = FALSE
    /\ gated' = TRUE
    /\ poll' = (poll \/ visible) /\ paused' = ~visible
    /\ UNCHANGED <<remote, subscribed>>

\* watchFile answers: the channel is open, or there is no native watch, or the
\* exec failed.  The heartbeat is started in any case.
Started(f) ==
    /\ starting[f] > 0
    /\ starting' = [starting EXCEPT ![f] = @ - 1]
    /\ beat' = TRUE
    /\ \/ up /\ streams[f] < 2 /\ Native(f)
       \/ Polling
    /\ UNCHANGED <<up, linkNo, view, shownAs, probing>>

------------------------------------------------------------------------------
(* Visible editors *)

\* handleWatchVisibilityChange; becoming visible also refreshes once.
Show ==
    /\ watched # NoFile /\ ~visible /\ visible' = TRUE
    /\ IF gated /\ ~native /\ paused
       THEN poll' = TRUE /\ paused' = FALSE
       ELSE UNCHANGED <<poll, paused>>
    /\ UNCHANGED <<up, linkNo, view, watched, activity, stray, starting, native, gated, beat,
                   probing, remote, subscribed>>

Hide ==
    /\ watched \notin {focus, NoFile} /\ visible /\ visible' = FALSE
    /\ IF gated /\ ~native /\ ~paused
       THEN poll' = FALSE /\ paused' = TRUE
       ELSE UNCHANGED <<poll, paused>>
    /\ UNCHANGED <<up, linkNo, view, watched, activity, stray, starting, native, gated, beat,
                   probing, remote, subscribed>>

--------------------------------------------------------------------------------
(* The heartbeat *)

Forget ==
    /\ watched' = NoFile /\ visible' = FALSE /\ activity' = FALSE
    /\ native' = FALSE /\ beat' = FALSE
    /\ UNCHANGED stray

\* Mutant: a lost connection only stops the timers.
BeatStopsTimers ==
    /\ beat
    /\ beat' = FALSE /\ (poll' = FALSE)
    /\ UNCHANGED <<up, linkNo, view, shownAs, starting, native, paused, gated, probing, remote,
                   subscribed>>

\* Every fifteen seconds: nothing is watched, or the connection is gone.
Beat ==
    /\ beat
    /\ \/ /\ watched = NoFile
          /\ beat' = FALSE
          /\ UNCHANGED <<shownAs, native, poll, subscribed>>
       \/ /\ watched # NoFile /\ ~up
          /\ Forget
          /\ poll' = FALSE /\ subscribed' = 0
    /\ UNCHANGED <<up, linkNo, view, starting, paused, gated, probing, remote>>

\* A native watch without events for ten seconds: one stat.
Probe ==
    /\ beat /\ watched # NoFile /\ up /\ native /\ ~probing
    /\ probing' = TRUE
    /\ UNCHANGED <<up, linkNo, view, shownAs, starting, native, timers, remote, subscribed>>

ProbeAnswers ==
    /\ probing /\ probing' = FALSE
    /\ \/ up /\ UNCHANGED <<shownAs, native, beat>>
       \/ Forget
    /\ UNCHANGED <<up, linkNo, view, starting, poll, paused, gated, remote, subscribed>>

------------------------------------------------------------------------------
(* The server and the link *)

\* The watcher of f ends by itself (killed, file deleted): its 'close' takes the
\* entry of the path, whichever stream that holds by now.
StreamEnds(f) ==
    /\ streams[f] > 0
    /\ streams' = [streams EXCEPT ![f] = @ - 1]
    /\ entry' = entry \ {f}
    /\ UNCHANGED <<up, linkNo, view, shownAs, starting, native, timers, probing, subscribed>>

\* Every channel goes with the connection.
LinkDown ==
    /\ up /\ up' = FALSE
    /\ streams' = [f \in Files |-> 0] /\ entry' = {}
    /\ UNCHANGED <<linkNo, focus, opening, shownAs, starting, native, timers, probing,
                   subscribed>>

LinkLost == LinkDown /\ UNCHANGED mapped

\* sshLite.disconnect: cleanupConnection removes the mappings.
Disconnect == LinkDown /\ mapped' = {}

\* The reconnect makes a new connection object under the same id.
LinkBack ==
    /\ ~up /\ linkNo < MaxLinks
    /\ up' = TRUE /\ linkNo' = linkNo + 1
    /\ UNCHANGED <<view, shownAs, starting, native, timers, probing, remote, subscribed>>

------------------------------------------------------------------------------
Next ==
    \/ \E f \in Files \cup {NoFile} : Switch(f)
    \/ \E f \in Files : MapBeforeShow(f) \/ OpenStarts(f)
    \/ \E f \in Files : Started(f) \/ StreamEnds(f)
    \/ Show \/ Hide \/ Return \/ Beat \/ Probe \/ ProbeAnswers
    \/ LinkLost \/ Disconnect \/ LinkBack

Spec == Init /\ [][Next]_vars

------------------------------------------------------------------------------
(* Properties *)

\* A file is watched exactly while the id of its monitor activity is kept, and a
\* watched file has a heartbeat, or a start under way that will set one, to notice
\* the connection going.
WatchIsAccounted ==
    /\ activity <=> watched # NoFile
    /\ watched # NoFile => beat \/ \E f \in Files : starting[f] > 0

\* No monitor activity runs whose id was overwritten: nobody ends it.
NoStrayActivity == ~stray

\* "Watching ... (native)": a file shown as watched natively, with its start
\* done and the connection there, has a channel whose events are listened to.
NativeIsWatched ==
    watched # NoFile /\ native /\ up /\ (\A f \in Files : starting[f] = 0) =>
        streams[watched] > 0 /\ subscribed = linkNo

\* Only the file that is watched is watched on the server.
OneWatcher ==
    (\A f \in Files : starting[f] = 0) =>
        \A f \in Files : streams[f] > 0 => f = watched
==============================================================================
