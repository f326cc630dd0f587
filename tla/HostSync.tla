------------------------------- MODULE HostSync -------------------------------
(***************************************************************************)
(* The host list of a machine and the file on Google Drive it shares with  *)
(* others: HostService.ts, ConnectionPortabilityService.ts,                *)
(* GoogleDriveSyncService.ts and connectionSyncCommands.ts.                *)
(*                                                                         *)
(* A host is its key host:port:username.  One command runs at a time; the  *)
(* other machines push beside it, and a sign-out may overlap a request.    *)
(***************************************************************************)
EXTENDS Integers, Sequences, FiniteSets

CONSTANTS
    Hosts,      \* keys of hosts
    MaxFiles    \* files of the synced name on Drive (bound)

MaxFilesAssumption == MaxFiles \in Nat

VARIABLES
    saved,      \* sshLite.hosts
    sshConfig,  \* hosts of ~/.ssh/config
    entered,    \* hosts the user has added or imported and not removed (history)
    tokens,     \* the bundle in SecretStorage: its access token
    revoked,    \* Google no longer takes the refresh token
    files,      \* content of the files of the synced name on Drive
    cmd         \* the command that runs

vars == <<saved, sshConfig, entered, tokens, revoked, files, cmd>>

hostList == <<saved, sshConfig, entered>>
account  == <<tokens, revoked>>

\* finding: findFileId.  refreshing: a new access token is asked for.  sending,
\* fetching: the file itself.  review: ConnectionImportPanel.  writing:
\* importSavedHosts.  replacing: between promptEditHost's removeHost and saveHost.
PCs == {"idle", "finding", "refreshing", "sending", "fetching", "review", "writing",
        "replacing"}

\* hosts: the payload, or the new entry; target: the file found, 0 for none.
Command == [pc : PCs, kind : {"none", "push", "pull", "import", "edit"},
            hosts : SUBSET Hosts, target : 0 .. MaxFiles]

NoCommand == [pc |-> "idle", kind |-> "none", hosts |-> {}, target |-> 0]

TypeOK ==
    /\ saved \subseteq Hosts /\ sshConfig \subseteq Hosts /\ entered \subseteq Hosts
    /\ tokens \in {"none", "fresh", "stale"} /\ revoked \in BOOLEAN
    /\ files \in Seq(SUBSET Hosts) /\ Len(files) <= MaxFiles
    /\ cmd \in Command

Init ==
    /\ saved = {} /\ entered = {}
    /\ sshConfig \in SUBSET Hosts
    /\ tokens = "none" /\ revoked = FALSE
    /\ files = <<>> /\ cmd = NoCommand

\* getAllHosts, getAllHostsForExport.
AllHosts == saved \cup sshConfig

Idle == cmd.pc = "idle"

------------------------------------------------------------------------------
(* HostService *)

\* promptAddHost, then saveHost.
AddHost(h) ==
    /\ Idle
    /\ saved' = saved \cup {h} /\ entered' = entered \cup {h}
    /\ UNCHANGED <<sshConfig, account, files, cmd>>

\* removeHost; removeHostFromSSHConfig writes the file and forgets its cache.
RemoveHost(h) ==
    /\ Idle
    /\ \/ h \in saved /\ saved' = saved \ {h} /\ entered' = entered \ {h} /\ UNCHANGED sshConfig
       \/ h \in sshConfig /\ sshConfig' = sshConfig \ {h} /\ UNCHANGED <<saved, entered>>
    /\ UNCHANGED <<account, files, cmd>>

\* promptEditHost, answered with key g: the old entry is removed first,
EditHost(h, g) ==
    /\ Idle /\ h \in saved
    /\ saved' = saved \ {h}
    /\ entered' = (entered \ {h}) \cup {g}
    /\ cmd' = [NoCommand EXCEPT !.pc = "replacing", !.kind = "edit", !.hosts = {g}]
    /\ UNCHANGED <<sshConfig, account, files>>

\* and the new one saved once that is written.
Replaced ==
    /\ cmd.pc = "replacing"
    /\ saved' = saved \cup cmd.hosts
    /\ cmd' = NoCommand
    /\ UNCHANGED <<sshConfig, entered, account, files>>

------------------------------------------------------------------------------
(* Tokens *)

\* signIn, from its command or from ensureSignedIn.
SignIn ==
    /\ Idle /\ tokens = "none"
    /\ tokens' = "fresh" /\ revoked' = FALSE
    /\ UNCHANGED <<hostList, files, cmd>>

\* signOut: revoke if the network lets it, then clear.
SignOut ==
    /\ tokens # "none"
    /\ tokens' = "none"
    /\ revoked' \in {TRUE, revoked}
    /\ UNCHANGED <<hostList, files, cmd>>

\* The access token comes within the minute of the skew, or answers 401.
Expire ==
    /\ tokens = "fresh"
    /\ tokens' = "stale"
    /\ UNCHANGED <<hostList, revoked, files, cmd>>

\* refreshAccessToken, sent with the refresh token it read.
Refresh ==
    /\ cmd.pc = "finding" /\ tokens = "stale" /\ ~revoked
    /\ cmd' = [cmd EXCEPT !.pc = "refreshing"]
    /\ UNCHANGED <<hostList, account, files>>

\* It writes the bundle it read with the new access token, signed out or not.
Refreshed ==
    /\ cmd.pc = "refreshing"
    /\ tokens' = "fresh"
    /\ cmd' = [cmd EXCEPT !.pc = "finding"]
    /\ UNCHANGED <<hostList, revoked, files>>

\* Not signed in, or a request failed: the command ends with a message.
Fails ==
    /\ cmd.pc \in {"finding", "refreshing", "sending", "fetching"}
    /\ cmd' = NoCommand
    /\ UNCHANGED <<hostList, account, files>>

------------------------------------------------------------------------------
(* Push *)

\* syncPushToDrive: the payload is built when the sign-in is settled.
Push ==
    /\ Idle /\ tokens # "none" /\ AllHosts # {}
    /\ cmd' = [NoCommand EXCEPT !.pc = "finding", !.kind = "push", !.hosts = AllHosts]
    /\ UNCHANGED <<hostList, account, files>>

\* findFileId: the answer lists the files of the name in no given order.
Lookup == IF files = <<>> THEN {0} ELSE DOMAIN files

Found ==
    /\ cmd.pc = "finding" /\ tokens = "fresh" /\ ~revoked
    /\ \E n \in Lookup :
          cmd' = CASE cmd.kind = "push" -> [cmd EXCEPT !.pc = "sending", !.target = n]
                   [] cmd.kind = "pull" /\ n # 0 -> [cmd EXCEPT !.pc = "fetching", !.target = n]
                   [] OTHER -> NoCommand
    /\ UNCHANGED <<hostList, account, files>>

\* PATCH of the file that was found, or POST of a new one.
Put(n, hosts) ==
    IF n = 0 THEN /\ Len(files) < MaxFiles
                  /\ files' = Append(files, hosts)
    ELSE files' = [files EXCEPT ![n] = hosts]

Send ==
    /\ cmd.pc = "sending"
    /\ Put(cmd.target, cmd.hosts)
    /\ cmd' = NoCommand
    /\ UNCHANGED <<hostList, account>>

\* Another machine pushes; its lookup is as old as ours may be.
OtherPush ==
    /\ \E n \in Lookup, hosts \in SUBSET Hosts \ {{}} : Put(n, hosts)
    /\ UNCHANGED <<hostList, account, cmd>>

------------------------------------------------------------------------------
(* Pull, import *)

\* syncPullFromDrive.
Pull ==
    /\ Idle /\ tokens # "none"
    /\ cmd' = [NoCommand EXCEPT !.pc = "finding", !.kind = "pull"]
    /\ UNCHANGED <<hostList, account, files>>

\* applyImportFlow: a host the machine has brings up the review.
Review(kind, hosts) ==
    cmd' = [NoCommand EXCEPT !.kind = kind, !.hosts = hosts,
              !.pc = IF hosts \cap AllHosts = {} THEN "writing" ELSE "review"]

Fetched ==
    /\ cmd.pc = "fetching"
    /\ Review("pull", files[cmd.target])
    /\ UNCHANGED <<hostList, account, files>>

\* importConnections: a file the user picks.
ImportFile(hosts) ==
    /\ Idle
    /\ Review("import", hosts)
    /\ UNCHANGED <<hostList, account, files>>

\* The user picks some of the hosts, or none.
Reviewed ==
    /\ cmd.pc = "review"
    /\ \E picked \in SUBSET cmd.hosts :
          cmd' = IF picked = {} THEN NoCommand
                 ELSE [cmd EXCEPT !.pc = "writing", !.hosts = picked]
    /\ UNCHANGED <<hostList, account, files>>

\* Mutant: mode 'replace' for the reviewed hosts.
ReplaceAll ==
    /\ cmd.pc = "writing"
    /\ saved' = cmd.hosts
    /\ entered' = entered \cup cmd.hosts
    /\ cmd' = NoCommand
    /\ UNCHANGED <<sshConfig, account, files>>

\* applyImport, importSavedHosts, always in mode 'merge'.
Merge ==
    /\ cmd.pc = "writing"
    /\ saved' = saved \cup cmd.hosts
    /\ entered' = entered \cup cmd.hosts
    /\ cmd' = NoCommand
    /\ UNCHANGED <<sshConfig, account, files>>

------------------------------------------------------------------------------
Next ==
    \/ \E h \in Hosts : AddHost(h) \/ RemoveHost(h)
    \/ \E h, g \in Hosts : EditHost(h, g)
    \/ Replaced
    \/ SignIn \/ SignOut \/ Expire \/ Refresh \/ Refreshed \/ Fails
    \/ Push \/ Found \/ Send \/ OtherPush
    \/ Pull \/ Fetched \/ \E hosts \in SUBSET Hosts \ {{}} : ImportFile(hosts)
    \/ Reviewed \/ Merge

Spec == Init /\ [][Next]_vars

------------------------------------------------------------------------------
(* Properties *)

\* Importing, pulling and editing never take a host from the list: all that the
\* user entered and did not remove is there, or is being written back.
HostsKept == entered = saved \cup (IF cmd.pc = "replacing" THEN cmd.hosts ELSE {})

\* "needed to keep ONE small JSON file": the file a machine pushes to is the one
\* the others pull from.
OneFile == Len(files) <= 1
==============================================================================
