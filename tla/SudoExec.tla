------------------------------- MODULE SudoExec -------------------------------
(***************************************************************************)
(* Writing with sudo: the stderr protocol of _sudoExecRaw in               *)
(* src/connection/SSHConnection.ts, and around it the sudo mode of the     *)
(* connection, the cached password and the dialogs of                      *)
(* src/services/FileService.ts and src/extension.ts.  The server's sudo    *)
(* and shell are modelled from what the protocol expects of them.          *)
(***************************************************************************)
EXTENDS Naturals, Sequences, SequencesExt

CONSTANTS
    Calls,       \* write operations
    Passwords,   \* what a user may type
    Right,       \* the password sudo accepts
    NoPassword   \* no password is known

\* A password is told from the pieces of the content (ShellReads).
SudoAssumption ==
    /\ Right \in Passwords /\ NoPassword \notin Passwords
    /\ Passwords \cap {"part", "content", "end"} = {}

VARIABLES
    sudoMode,    \* _sudoMode with _sudoPassword: the password, or NoPassword when off
    sudoCache,   \* the cached sudo password of the host
    call,        \* the operations: what asked for sudo, and where they are
    client,      \* _sudoExecRaw's state: state, stderrBuf, passwordWritten
    stderr,      \* tokens the server has sent and the client has not read
    stdin,       \* lines the client has sent and the server has not read
    server,      \* sudo and the inner shell
    written      \* what the operation's file holds

vars == <<sudoMode, sudoCache, call, client, stderr, stdin, server, written>>

modeVars == <<sudoMode, sudoCache>>
wires    == <<stderr, stdin, server, written>>

Known == Passwords \cup {NoPassword}
Calling == [why : {"none", "once", "all", "mode", "saveAs"},
            at : {"idle", "dialog", "prompt", "exec", "saved", "auth", "other"},
            password : Known]
Quiet  == [why |-> "none", at |-> "idle", password |-> NoPassword]
Closed == [state |-> "closed", buf |-> <<>>, typed |-> FALSE]

TypeOK ==
    /\ sudoMode \in Known /\ sudoCache \in Known
    /\ call \in [Calls -> Calling]
    /\ \A c \in Calls :
          /\ client[c].state \in {"closed", "WAIT_PROMPT_OR_READY", "WAIT_READY", "STREAMING"}
          /\ client[c].typed \in BOOLEAN
          /\ Len(stderr[c]) + Len(client[c].buf) <= 4
    /\ server \in [Calls -> {"off", "sudo", "asks", "shell", "done"}]
    /\ written \in [Calls -> {"old", "part", "content", "password"}]

Init ==
    /\ sudoMode = NoPassword /\ sudoCache = NoPassword
    /\ call = [c \in Calls |-> Quiet] /\ client = [c \in Calls |-> Closed]
    /\ stderr = [c \in Calls |-> <<>>] /\ stdin = [c \in Calls |-> <<>>]
    /\ server = [c \in Calls |-> "off"] /\ written = [c \in Calls |-> "old"]

At(c, place) == call[c].at = place

------------------------------------------------------------------------------
(* Who asks for sudo *)

\* Mutant: the password is sent with the command, before sudo asks for it.
OpenAndType(c, why, password) ==
    /\ call' = [call EXCEPT ![c] = [why |-> why, at |-> "exec", password |-> password]]
    /\ client' = [client EXCEPT ![c] = [Closed EXCEPT !.state = "WAIT_READY", !.typed = TRUE]]
    /\ server' = [server EXCEPT ![c] = "sudo"] /\ written' = [written EXCEPT ![c] = "old"]
    /\ stdin' = [stdin EXCEPT ![c] = <<password>>] /\ stderr' = [stderr EXCEPT ![c] = <<>>]

\* _sudoExecRaw: a channel of its own, nothing is sent yet.
OpenChannel(c, why, password) ==
    /\ call' = [call EXCEPT ![c] = [why |-> why, at |-> "exec", password |-> password]]
    /\ client' = [client EXCEPT ![c] = [Closed EXCEPT !.state = "WAIT_PROMPT_OR_READY"]]
    /\ server' = [server EXCEPT ![c] = "sudo"] /\ written' = [written EXCEPT ![c] = "old"]
    /\ stdin' = [stdin EXCEPT ![c] = <<>>] /\ stderr' = [stderr EXCEPT ![c] = <<>>]

\* The mode is on: CommandGuard sends every write through sudo.
GuardedWrite(c) ==
    /\ At(c, "idle") /\ sudoMode # NoPassword
    /\ OpenChannel(c, "mode", sudoMode)
    /\ UNCHANGED modeVars

Moves(c, why, place) ==
    /\ call' = [call EXCEPT ![c] = [why |-> why, at |-> place, password |-> NoPassword]]
    /\ UNCHANGED <<client, wires>>

\* The write was refused: handlePermissionDenied asks.
Denied(c) ==
    /\ At(c, "idle") /\ sudoMode = NoPassword
    /\ Moves(c, "once", "dialog")
    /\ UNCHANGED modeVars

\* getSudoPassword for the answer of the dialog, or for saveAsRootCommand: the
\* cached password, or a prompt.  "Sudo All" turns the mode on before it is tried.
Ask(c, why) ==
    /\ \/ At(c, "dialog") /\ why \in {"once", "all"}
       \/ At(c, "idle") /\ why = "saveAs"
    /\ \/ /\ sudoCache = NoPassword
          /\ Moves(c, why, "prompt")
          /\ UNCHANGED modeVars
       \/ /\ sudoCache # NoPassword
          /\ OpenChannel(c, why, sudoCache)
          /\ sudoMode' = IF why = "all" THEN sudoCache ELSE sudoMode
          /\ UNCHANGED sudoCache

\* The setting cacheSudoPassword decides whether the answer is kept.
Enter(c, p) ==
    /\ At(c, "prompt")
    /\ OpenChannel(c, call[c].why, p)
    /\ sudoMode' = IF call[c].why = "all" THEN p ELSE sudoMode
    /\ sudoCache' \in {sudoCache, p}

GiveUp(c) ==
    /\ At(c, "dialog") \/ At(c, "prompt")
    /\ Moves(c, "none", "idle")
    /\ UNCHANGED modeVars

\* The commands enableSudoMode, which takes any password, and disableSudoMode;
\* a disconnect disables the mode as well.
EnableSudoMode(p) ==
    /\ sudoMode' = p /\ sudoCache' \in {sudoCache, p}
    /\ UNCHANGED <<call, client, wires>>

DisableSudoMode ==
    /\ sudoMode # NoPassword /\ sudoMode' = NoPassword /\ sudoCache' = NoPassword
    /\ UNCHANGED <<call, client, wires>>

------------------------------------------------------------------------------
(* The server *)

\* sudo asks for a password, or needs none and runs the shell.
SudoStarts(c) ==
    /\ server[c] = "sudo"
    /\ \/ server' = [server EXCEPT ![c] = "asks"]
          /\ stderr' = [stderr EXCEPT ![c] = Append(@, "PROMPT")]
       \/ server' = [server EXCEPT ![c] = "shell"]
          /\ stderr' = [stderr EXCEPT ![c] = Append(@, "READY")]
    /\ UNCHANGED <<modeVars, call, client, stdin, written>>

SudoReads(c) ==
    /\ server[c] = "asks" /\ stdin[c] # <<>>
    /\ stdin' = [stdin EXCEPT ![c] = Tail(@)]
    /\ IF Head(stdin[c]) = Right
       THEN /\ server' = [server EXCEPT ![c] = "shell"]
            /\ stderr' = [stderr EXCEPT ![c] = Append(@, "READY")]
       ELSE /\ stderr' = [stderr EXCEPT ![c] = @ \o <<"sorry, try again", "PROMPT">>]
            /\ UNCHANGED server
    /\ UNCHANGED <<modeVars, call, client, written>>

\* tee or base64: what arrives goes to the file, until the end of the input.
ShellReads(c) ==
    /\ server[c] = "shell" /\ stdin[c] # <<>>
    /\ stdin' = [stdin EXCEPT ![c] = Tail(@)]
    /\ LET line == Head(stdin[c])
       IN  IF line = "end"
           THEN server' = [server EXCEPT ![c] = "done"] /\ UNCHANGED written
           ELSE /\ written' = [written EXCEPT ![c] =
                                   IF line \in Passwords \/ @ = "password" THEN "password"
                                   ELSE line]
                /\ UNCHANGED server
    /\ UNCHANGED <<modeVars, call, client, stderr>>

------------------------------------------------------------------------------
(* The client's state machine *)

\* What the caller makes of the outcome.
Outcome(c, result) ==
    /\ call' = [call EXCEPT ![c].at = result]
    /\ client' = [client EXCEPT ![c] = Closed]
    /\ UNCHANGED modeVars

\* One chunk of stderr, any number of tokens of it, is added to the buffer.
Buffer(c, n) == client[c].buf \o SubSeq(stderr[c], 1, n)
Sees(c, n, token) == \E k \in DOMAIN Buffer(c, n) : Buffer(c, n)[k] = token
Failure(c, n) == Sees(c, n, "sorry, try again")
Reads(c, n) ==
    /\ client[c].state \in {"WAIT_PROMPT_OR_READY", "WAIT_READY"}
    /\ stderr' = [stderr EXCEPT ![c] = SubSeq(@, n + 1, Len(@))]

\* First, what sudo says of a wrong password; and a second prompt.
Refused(c, n) ==
    /\ Reads(c, n)
    /\ \/ Failure(c, n)
       \/ ~Sees(c, n, "READY") /\ Sees(c, n, "PROMPT") /\ client[c].typed
    /\ Outcome(c, "auth") /\ server' = [server EXCEPT ![c] = "off"]
    /\ UNCHANGED <<stdin, written>>

\* Second, READY: the content is sent, in two pieces here.
Ready(c, n) ==
    /\ Reads(c, n) /\ ~Failure(c, n) /\ Sees(c, n, "READY")
    /\ client' = [client EXCEPT ![c].state = "STREAMING", ![c].buf = <<>>]
    /\ stdin' = [stdin EXCEPT ![c] = @ \o <<"part", "content", "end">>]
    /\ UNCHANGED <<modeVars, call, server, written>>

\* Third, the first PROMPT: the password.
Prompted(c, n) ==
    /\ Reads(c, n) /\ ~Failure(c, n) /\ ~Sees(c, n, "READY")
    /\ Sees(c, n, "PROMPT") /\ ~client[c].typed
    /\ client' = [client EXCEPT ![c].state = "WAIT_READY", ![c].typed = TRUE,
                                ![c].buf = RemoveFirst(Buffer(c, n), "PROMPT")]
    /\ stdin' = [stdin EXCEPT ![c] = Append(@, call[c].password)]
    /\ UNCHANGED <<modeVars, call, server, written>>

\* The channel closes with the exit code of the shell.
CloseDone(c) ==
    /\ At(c, "exec") /\ server[c] = "done"
    /\ \E result \in {"saved", "other"} : Outcome(c, result)
    /\ server' = [server EXCEPT ![c] = "off"]
    /\ UNCHANGED <<stderr, stdin, written>>

\* The connection goes: the channel closes without an exit code, and `code ?? 0`
\* makes it a success.
CloseLost(c) ==
    /\ At(c, "exec") /\ server[c] # "off"
    /\ Outcome(c, "saved")
    /\ server' = [server EXCEPT ![c] = "off"]
    /\ UNCHANGED <<stderr, stdin, written>>

\* Sixty seconds, or a stream error.
Timeout(c) ==
    /\ At(c, "exec") /\ Outcome(c, "other")
    /\ server' = [server EXCEPT ![c] = "off"]
    /\ UNCHANGED <<stderr, stdin, written>>

------------------------------------------------------------------------------
(* After the outcome *)

\* "incorrect password": the cached password goes, and in the dialog's case the
\* mode, with the offer to try again.
AfterAuth(c) ==
    /\ At(c, "auth")
    /\ sudoCache' = (IF call[c].why = "mode" THEN sudoCache ELSE NoPassword)
    /\ sudoMode' = (IF call[c].why \in {"once", "all"} THEN NoPassword ELSE sudoMode)
    /\ \/ Moves(c, "none", "idle")
       \/ call[c].why \in {"once", "all"} /\ Moves(c, "once", "dialog")

\* Another failure: the mode goes if it was asked for with this operation.
AfterOther(c) ==
    /\ At(c, "other")
    /\ sudoMode' = (IF call[c].why = "all" THEN NoPassword ELSE sudoMode)
    /\ \/ Moves(c, "none", "idle")
       \/ call[c].why \in {"once", "all"} /\ Moves(c, "once", "dialog")
    /\ UNCHANGED sudoCache

AfterSaved(c) ==
    /\ At(c, "saved") /\ Moves(c, "none", "idle")
    /\ UNCHANGED modeVars

------------------------------------------------------------------------------
CallNext(c) ==
    \/ GuardedWrite(c) \/ Denied(c) \/ GiveUp(c)
    \/ \E why \in {"once", "all", "saveAs"} : Ask(c, why)
    \/ \E p \in Passwords : Enter(c, p)
    \/ SudoStarts(c) \/ SudoReads(c) \/ ShellReads(c)
    \/ \E n \in 1 .. Len(stderr[c]) : Refused(c, n) \/ Ready(c, n) \/ Prompted(c, n)
    \/ CloseDone(c) \/ CloseLost(c) \/ Timeout(c)
    \/ AfterAuth(c) \/ AfterOther(c) \/ AfterSaved(c)

Next ==
    \/ \E c \in Calls : CallNext(c)
    \/ \E p \in Passwords : EnableSudoMode(p)
    \/ DisableSudoMode

Spec == Init /\ [][Next]_vars

------------------------------------------------------------------------------
(* Properties *)

\* "This prevents the catastrophic bug where a NOPASSWD- or cached-sudo
\* invocation would write the password into the file": whatever sudo asks and
\* however its tokens are cut into chunks, no file ever holds a password.
PasswordStaysOut == \A c \in Calls : written[c] # "password"

\* A write reported as saved has reached the file whole.
SavedIsWritten == \A c \in Calls : At(c, "saved") => written[c] = "content"

\* "enable sudo for all operations on this connection (until disconnect)": a
\* working mode is not turned off by the failure of another operation.
ModeStays ==
    [][\A c \in Calls :
          At(c, "auth") \/ At(c, "other") =>
              (call'[c] # call[c] /\ call[c].why = "once" => sudoMode' = sudoMode)]_vars
==============================================================================
