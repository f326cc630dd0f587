------------------------------ MODULE Credentials ------------------------------
(***************************************************************************)
(* The saved credentials of one host: CredentialService.ts, the commands   *)
(* of extension.ts that add, use, replace and delete them, the reading of  *)
(* a secret in SSHConnection.ts and the purge after a refused login.       *)
(*                                                                         *)
(* The index is a setting: every change reads it, awaits, and writes back  *)
(* a whole new value, which lands later, in the order of the requests.     *)
(* SecretStorage applies requests in order as well, and nothing reads a    *)
(* secret but through it, so a store counts when it is issued.             *)
(***************************************************************************)
EXTENDS Sequences, FiniteSets

CONSTANTS
    Creds,      \* credentials of the host (bound)
    NoCred,     \* no credential
    Tasks       \* calls that may overlap (bound)

NoCredAssumption == NoCred \notin Creds

VARIABLES
    index,      \* sshLite.credentialIndex of the host
    updates,    \* config.update calls in flight: [by, index]
    secret,     \* SecretStorage
    session,    \* sessionCredentials
    minted,     \* credential ids given out
    task        \* the calls

vars == <<index, updates, secret, session, minted, task>>

stores == <<index, updates, secret, session, minted>>

Passwords == {"right", "wrong"}

\* storing: awaits SecretStorage.  indexing: awaits config.update.  dialing:
\* connects.  asking: the error dialog.  erasing: awaits SecretStorage.delete.
PCs == {"idle", "storing", "indexing", "dialing", "asking", "erasing"}

Kinds == {"none", "add", "save", "login", "retry", "delete", "purge", "pin"}

\* seen: the index as the call read it; todo: what deleteAll has left; typed: the
\* password a call keeps while it awaits.
Task == [pc : PCs, kind : Kinds, cred : Creds \cup {NoCred}, seen : SUBSET Creds,
         todo : SUBSET Creds, typed : Passwords \cup {"none"}]

Idle == [pc |-> "idle", kind |-> "none", cred |-> NoCred, seen |-> {}, todo |-> {},
         typed |-> "none"]

TypeOK ==
    /\ index \subseteq Creds /\ minted \subseteq Creds
    /\ updates \in Seq([by : Tasks, index : SUBSET Creds])
    /\ secret \in [Creds -> Passwords \cup {"none"}]
    /\ session \in [Creds -> Passwords \cup {"none"}]
    /\ task \in [Tasks -> Task]

Init ==
    /\ index = {} /\ updates = <<>> /\ minted = {}
    /\ secret = [c \in Creds |-> "none"] /\ session = [c \in Creds |-> "none"]
    /\ task = [t \in Tasks |-> Idle]

Start(kind, pc, c) ==
    [Idle EXCEPT !.pc = pc, !.kind = kind, !.cred = c, !.seen = index]

\* getCredentialSecret.
Secret(c) == IF session[c] # "none" THEN session[c] ELSE secret[c]

Request(t, value) == updates' = Append(updates, [by |-> t, index |-> value])

------------------------------------------------------------------------------
(* addCredential *)

\* savePassword, addCredential or a first connect: the password is stored.
Add(t, c, p) ==
    /\ task[t].pc = "idle" /\ c \notin minted
    /\ minted' = minted \cup {c}
    /\ secret' = [secret EXCEPT ![c] = p]
    /\ task' = [task EXCEPT ![t] = [Start("add", "storing", c) EXCEPT !.typed = p]]
    /\ UNCHANGED <<index, updates, session>>

\* Then it is remembered, and the index read before is written with it.
Added(t) ==
    LET c == task[t].cred IN
    /\ task[t].pc = "storing" /\ task[t].kind = "add"
    /\ session' = [session EXCEPT ![c] = task[t].typed]
    /\ Request(t, task[t].seen \cup {c})
    /\ task' = [task EXCEPT ![t].pc = "indexing"]
    /\ UNCHANGED <<index, secret, minted>>

\* A private key without a passphrase stores nothing; an import none either.
AddKey(t, c) ==
    /\ task[t].pc = "idle" /\ c \notin minted
    /\ minted' = minted \cup {c}
    /\ Request(t, index \cup {c})
    /\ task' = [task EXCEPT ![t] = Start("pin", "indexing", c)]
    /\ UNCHANGED <<index, secret, session>>

\* getOrPrompt, for a connect without a credential, finds the Default one of
\* the host without its secret: save stores it first,
Save(t, c, p) ==
    /\ task[t].pc = "idle" /\ c \in index /\ Secret(c) = "none"
    /\ secret' = [secret EXCEPT ![c] = p]
    /\ task' = [task EXCEPT ![t] = [Start("save", "storing", c) EXCEPT !.typed = p]]
    /\ UNCHANGED <<index, updates, session, minted>>

\* and remembers it afterwards.
Saved(t) ==
    /\ task[t].pc = "storing" /\ task[t].kind = "save"
    /\ session' = [session EXCEPT ![task[t].cred] = task[t].typed]
    /\ task' = [task EXCEPT ![t] = Idle]
    /\ UNCHANGED <<index, updates, secret, minted>>

------------------------------------------------------------------------------
(* connectWithCredential *)

Login(t, c) ==
    /\ task[t].pc = "idle" /\ c \in index
    /\ task' = [task EXCEPT ![t] = Start("login", "dialing", c)]
    /\ UNCHANGED stores

\* buildAuthConfig found no password and the user types one: remembered, or
\* used for the session.
TypePassword(t, p) ==
    LET c == task[t].cred IN
    /\ task[t].pc = "dialing" /\ Secret(c) = "none"
    /\ session' = [session EXCEPT ![c] = p]
    /\ secret' = [secret EXCEPT ![c] = p] \/ UNCHANGED secret
    /\ UNCHANGED <<index, updates, minted, task>>

\* The server takes it, or cannot be reached; or the user gives up.
LoginEnds(t) ==
    /\ task[t].pc = "dialing"
    /\ task' = [task EXCEPT ![t] = Idle]
    /\ UNCHANGED stores

\* deleteCredential of c by task t: the index without it is written if the host
\* has one.
Deleting(t, c, kind, todo) ==
    /\ updates' = IF index = {} THEN updates
                  ELSE Append(updates, [by |-> t, index |-> index \ {c}])
    /\ session' = IF index = {} THEN [session EXCEPT ![c] = "none"] ELSE session
    /\ secret' = IF index = {} THEN [secret EXCEPT ![c] = "none"] ELSE secret
    /\ task' = [task EXCEPT ![t] =
                  [Start(kind, IF index = {} THEN "erasing" ELSE "indexing", c)
                      EXCEPT !.todo = todo]]

\* The login is refused: deleteAll is called and not awaited, by task u, while
\* the error goes to the dialog; after a retry the dialog only tells.
Refused(t, u, c) ==
    LET after == IF task[t].kind = "retry" THEN Idle
                 ELSE [task[t] EXCEPT !.pc = "asking"] IN
    /\ task[t].pc = "dialing" /\ Secret(task[t].cred) = "wrong"
    /\ u # t /\ task[u].pc = "idle"
    /\ c \in index
    /\ Request(u, index \ {c})
    /\ task' = [task EXCEPT ![t] = after,
                            ![u] = [Start("purge", "indexing", c) EXCEPT !.todo = index \ {c}]]
    /\ UNCHANGED <<index, secret, session, minted>>

\* Nothing was listed for deleteAll to delete.
RefusedUnlisted(t) ==
    /\ task[t].pc = "dialing" /\ Secret(task[t].cred) = "wrong" /\ index = {}
    /\ task' = [task EXCEPT ![t] = IF @.kind = "retry" THEN Idle ELSE [@ EXCEPT !.pc = "asking"]]
    /\ UNCHANGED stores

\* "Enter New Password", "Re-enter Passphrase": updateCredentialPassword.
EnterNew(t, p) ==
    LET c == task[t].cred IN
    /\ task[t].pc = "asking"
    /\ session' = [session EXCEPT ![c] = p]
    /\ secret' = [secret EXCEPT ![c] = p]
    /\ task' = [task EXCEPT ![t].pc = "storing", ![t].kind = "retry"]
    /\ UNCHANGED <<index, updates, minted>>

\* Cancelled.
GiveUp(t) ==
    /\ task[t].pc = "asking"
    /\ task' = [task EXCEPT ![t] = Idle]
    /\ UNCHANGED stores

\* Stored: connect again with the same credential.
Retry(t) ==
    /\ task[t].pc = "storing" /\ task[t].kind = "retry"
    /\ task' = [task EXCEPT ![t].pc = "dialing"]
    /\ UNCHANGED stores

------------------------------------------------------------------------------
(* Changes of the index *)

\* sshLite.deleteCredential, or one of deleteAll from clearCredentials.
Delete(t, c) ==
    /\ task[t].pc = "idle" /\ c \in index
    /\ Deleting(t, c, "delete", {})
    /\ UNCHANGED <<index, minted>>

\* addPinnedFolder, deletePinnedFolder, renamePinnedFolder, and an import that
\* merges a credential the host has: the same credentials are written again.
Pin(t) ==
    /\ task[t].pc = "idle" /\ index # {}
    /\ Request(t, index)
    /\ task' = [task EXCEPT ![t] = Start("pin", "indexing", NoCred)]
    /\ UNCHANGED <<index, secret, session, minted>>

\* The oldest config.update lands and its call goes on: one that deletes takes
\* the secret out, one that adds a first password connects with it.
Landed ==
    LET t == Head(updates).by
        c == task[t].cred
    IN
    /\ updates # <<>>
    /\ index' = Head(updates).index
    /\ updates' = Tail(updates)
    /\ CASE task[t].kind \in {"delete", "purge"} ->
              /\ session' = [session EXCEPT ![c] = "none"]
              /\ secret' = [secret EXCEPT ![c] = "none"]
              /\ task' = [task EXCEPT ![t].pc = "erasing"]
         [] task[t].kind = "add" ->
              /\ task' = [task EXCEPT ![t] = Idle] \/ task' = [task EXCEPT ![t].pc = "dialing"]
              /\ UNCHANGED <<session, secret>>
         [] OTHER ->
              /\ task' = [task EXCEPT ![t] = Idle]
              /\ UNCHANGED <<session, secret>>
    /\ UNCHANGED minted

\* SecretStorage.delete returned: the next credential of deleteAll's list, with
\* the index read anew.
Erased(t) ==
    /\ task[t].pc = "erasing"
    /\ \/ /\ task[t].todo = {}
          /\ task' = [task EXCEPT ![t] = Idle]
          /\ UNCHANGED <<updates, session, secret>>
       \/ \E c \in task[t].todo : Deleting(t, c, "purge", task[t].todo \ {c})
    /\ UNCHANGED <<index, minted>>

\* The editor is closed: what was not written is lost, and the session with it.
Restart ==
    /\ \E t \in Tasks : task[t].pc # "idle"
    /\ updates' = <<>>
    /\ session' = [c \in Creds |-> "none"]
    /\ task' = [t \in Tasks |-> Idle]
    /\ UNCHANGED <<index, secret, minted>>

------------------------------------------------------------------------------
Next ==
    \/ \E t \in Tasks, c \in Creds, p \in Passwords : Add(t, c, p) \/ Save(t, c, p)
    \/ \E t \in Tasks, c \in Creds : AddKey(t, c) \/ Login(t, c) \/ Delete(t, c)
    \/ \E t \in Tasks, p \in Passwords : TypePassword(t, p) \/ EnterNew(t, p)
    \/ \E t, u \in Tasks, c \in Creds : Refused(t, u, c)
    \/ \E t \in Tasks : Added(t) \/ Saved(t) \/ LoginEnds(t) \/ RefusedUnlisted(t)
    \/ \E t \in Tasks : GiveUp(t) \/ Retry(t) \/ Pin(t) \/ Erased(t)
    \/ Landed
    \/ Restart

Spec == Init /\ [][Next]_vars

------------------------------------------------------------------------------
(* Properties *)

\* extension.ts, "Update the credential with new password", "Retry connection
\* with updated credential": the credential a new password is saved for is one
\* the host has, which can be used, shown and deleted.
RetriesListed ==
    \A t \in Tasks :
        task[t].pc = "dialing" /\ task[t].kind = "retry" => task[t].cred \in index
==============================================================================
