------------------------------- MODULE Terminals -------------------------------
(***************************************************************************)
(* src/services/TerminalService.ts with the commands of extension.ts that  *)
(* use it: a terminal is a shell channel of a connection and a             *)
(* pseudoterminal the editor opens later; either side may end first, and   *)
(* the disconnect command closes the terminals of an id.                   *)
(***************************************************************************)
EXTENDS Naturals

CONSTANTS
    Ids,        \* connection ids
    Shares,     \* pairs <<a, b>> such that the text of id b starts with that of a
    MaxTerm     \* terminals created for an id (bound)

TerminalAssumption ==
    /\ MaxTerm \in Nat
    /\ Shares \subseteq Ids \X Ids /\ \A i \in Ids : <<i, i>> \in Shares

VARIABLES
    linked,    \* ids that are connected
    count,     \* terminalCounters
    opening,   \* openShell calls in flight of an id
    shell,     \* the channel of each terminal
    pty        \* the terminal itself

vars == <<linked, count, opening, shell, pty>>

Terms == Ids \X (1 .. MaxTerm)

\* created: createTerminal has run, the editor has not called open() yet, which
\* attaches the handlers of the channel.  Both are in the `terminals' map.
\* deaf: open() came after the channel had ended, whose events it then misses.
\* closed: the editor disposed of it, or was told to.
TypeOK ==
    /\ linked \subseteq Ids
    /\ count \in [Ids -> 0 .. MaxTerm]
    /\ opening \in [Ids -> 0 .. MaxTerm]
    /\ shell \in [Terms -> {"none", "open", "ended"}]
    /\ pty \in [Terms -> {"none", "created", "open", "deaf", "closed"}]

Init ==
    /\ linked = {}
    /\ count = [i \in Ids |-> 0] /\ opening = [i \in Ids |-> 0]
    /\ shell = [t \in Terms |-> "none"] /\ pty = [t \in Terms |-> "none"]

Listed == {t \in Terms : pty[t] \in {"created", "open", "deaf"}}

------------------------------------------------------------------------------
Link(i) ==
    /\ i \notin linked
    /\ linked' = linked \cup {i}
    /\ UNCHANGED <<count, opening, shell, pty>>

\* sshLite.openTerminal, openTerminalHere: a channel is asked for first.
OpenTerminal(i) ==
    /\ i \in linked /\ count[i] + opening[i] < MaxTerm
    /\ opening' = [opening EXCEPT ![i] = @ + 1]
    /\ UNCHANGED <<linked, count, shell, pty>>

\* openShell fails: the server refused, the wait timed out or the link is gone.
ShellFails(i) ==
    /\ opening[i] > 0
    /\ opening' = [opening EXCEPT ![i] = @ - 1]
    /\ UNCHANGED <<linked, count, shell, pty>>

\* openShell returns, then createTerminal with the channel.
CreateTerminal(i) ==
    LET t == <<i, count[i] + 1>> IN
    /\ opening[i] > 0 /\ i \in linked
    /\ opening' = [opening EXCEPT ![i] = @ - 1]
    /\ count' = [count EXCEPT ![i] = @ + 1]
    /\ shell' = [shell EXCEPT ![t] = "open"]
    /\ pty' = [pty EXCEPT ![t] = "created"]
    /\ UNCHANGED linked

\* The editor shows it: createPseudoTerminal's open().
PtyOpen(t) ==
    /\ pty[t] = "created"
    /\ pty' = [pty EXCEPT ![t] = IF shell[t] = "open" THEN "open" ELSE "deaf"]
    /\ UNCHANGED <<linked, count, opening, shell>>

\* The user closes it: close() ends the channel and cleans up.
PtyClose(t) ==
    /\ t \in Listed
    /\ pty' = [pty EXCEPT ![t] = "closed"]
    /\ shell' = [shell EXCEPT ![t] = "ended"]
    /\ UNCHANGED <<linked, count, opening>>

\* The channels in ts end: those with handlers close their terminals.
Ended(ts) ==
    /\ shell' = [t \in Terms |-> IF t \in ts THEN "ended" ELSE shell[t]]
    /\ pty' = [t \in Terms |-> IF t \in ts /\ pty[t] = "open" THEN "closed" ELSE pty[t]]

\* Mutant: 'error' and 'close' write a message and leave the terminal.
ShellEndsQuietly(t) ==
    /\ shell[t] = "open"
    /\ shell' = [shell EXCEPT ![t] = "ended"]
    /\ UNCHANGED <<linked, count, opening, pty>>

\* 'close' or 'error' of the channel, from the server.
ShellEnds(t) ==
    /\ shell[t] = "open"
    /\ Ended({t})
    /\ UNCHANGED <<linked, count, opening>>

\* The connection is lost: no command closes its terminals, their channels do.
LinkLost(i) ==
    /\ i \in linked
    /\ linked' = linked \ {i}
    /\ Ended({t \in Terms : t[1] = i /\ shell[t] = "open"})
    /\ UNCHANGED <<count, opening>>

\* closeTerminalsForConnection: those whose key starts with the id.
ClosedFor(i) == {t \in Listed : <<i, t[1]>> \in Shares}

\* sshLite.disconnect: disposing of a terminal runs its close().
Disconnect(i) ==
    /\ i \in linked
    /\ linked' = linked \ {i}
    /\ pty' = [t \in Terms |-> IF t \in ClosedFor(i) THEN "closed" ELSE pty[t]]
    /\ shell' = [t \in Terms |->
                    IF t \in ClosedFor(i) \/ (t[1] = i /\ shell[t] = "open")
                    THEN "ended" ELSE shell[t]]
    /\ UNCHANGED <<count, opening>>

------------------------------------------------------------------------------
Next ==
    \/ \E i \in Ids : Link(i) \/ OpenTerminal(i) \/ ShellFails(i) \/ CreateTerminal(i)
    \/ \E i \in Ids : LinkLost(i) \/ Disconnect(i)
    \/ \E t \in Terms : PtyOpen(t) \/ PtyClose(t) \/ ShellEnds(t)

Spec == Init /\ [][Next]_vars

------------------------------------------------------------------------------
(* Properties *)

\* A terminal the editor has opened goes with its channel, and a channel with
\* its terminal: no input line without a shell, no shell, with its slot of the
\* connection, without a window.  Deaf terminals are the exception.
TerminalsAreLive ==
    \A t \in Terms :
        /\ pty[t] = "open" => shell[t] = "open"
        /\ shell[t] = "open" => t \in Listed /\ t[1] \in linked
==============================================================================
