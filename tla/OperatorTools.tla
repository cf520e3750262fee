--------------------------- MODULE OperatorTools ---------------------------
(***************************************************************************)
(* What an operator runs beside the contract: the hot-reloaded runtime     *)
(* configuration (src/config.rs) and the state the CLI keeps in files      *)
(* (src/main.rs): credentials, deployments and network profiles.  A CLI    *)
(* command is a process that reads a file, works on the copy and writes    *)
(* the whole file; commands of several processes may overlap.              *)
(***************************************************************************)
EXTENDS Lists, FiniteSets

CONSTANTS
    Contents,       \* parsed configurations a file may hold
    MaxMtime,
    Reloaders,      \* threads that share a RuntimeConfigManager
    Commands,       \* processes of the CLI
    CredNames, Secrets, Passwords,
    MaxContracts,
    ProfileNames,   \* network names, those of BuiltinNetworks included
    BuiltinNetworks,
    MaxCommands,    \* CLI commands started in a behaviour
    Nothing

ASSUME OperatorConstants ==
    /\ {MaxMtime, MaxContracts, MaxCommands} \subseteq Nat
    /\ IsFiniteSet(Commands) /\ IsFiniteSet(Reloaders)
    /\ "testnet" \in BuiltinNetworks
    /\ Nothing \notin ProfileNames
    /\ Nothing \notin {"add", "remove", "rotate", "deploy", "network", "good", "bad"}

VARIABLES
    file,        \* content and modification time of the configuration
    manager,     \* RuntimeConfigManager: config and last_modified
    reload,      \* per thread: the step of reload, the configuration read; ghost: alone
    raced,       \* ghost: the last reload was not alone, or the clock went back
    keystore,    \* credentials.json: value and password by name, or torn
    serial,      \* ghost: credentials as if each command ran on its own
    contracts,   \* on the network: whether each deployed contract is initialized
    records,     \* deployments.json
    profiles,    \* networks.json: name, valid and default
    asked,       \* ghost: the profile last set as the default
    command,     \* per process: what it does, and the file as it read it
    overlapped,  \* ghost: some command ran beside another, or died
    started      \* number of commands started

configVars == <<file, manager, reload, raced>>
cliVars == <<keystore, serial, contracts, records, profiles, asked, command, overlapped, started>>
operatorVars == <<configVars, cliVars>>

-----------------------------------------------------------------------------
(* RuntimeConfigManager *)

Unique(s) == \A i, j \in DOMAIN s : s[i] = s[j] => i = j

\* validate_runtime_config, after the schema (external) has accepted the file.
ValidConfig(c) ==
    /\ c.registry # <<>> /\ Nothing \notin ToSet(c.registry) /\ Unique(c.registry)
    /\ Unique([i \in DOMAIN c.templates |-> c.templates[i].id])
    /\ \A t \in ToSet(c.templates) : t.attestor \in ToSet(c.registry)
    /\ \A l \in c.limits : l.attestor \in ToSet(c.registry) /\ l.minute > 0 /\ l.hour > 0
    /\ \A m \in c.multisig : m.required > 0 /\ m.signers \subseteq ToSet(c.registry)

Reloaded == [at |-> "idle", config |-> Nothing, alone |-> TRUE]

\* The file is edited, replaced by an older one, or removed (time zero).
EditFile(c, mtime) ==
    /\ file' = [content |-> c, mtime |-> mtime] /\ file' # file
    /\ reload' = [t \in Reloaders |-> [reload[t] EXCEPT !.alone = reload[t] = Reloaded]]
    /\ raced' = (raced \/ mtime \in 1..manager.seen)
    /\ UNCHANGED <<manager, cliVars>>

\* A bug FilesStaySound must catch: times are compared too coarsely.
ChangedLater == file.mtime > manager.seen + 1

HasChanged == file.mtime > 0 /\ (manager.seen = 0 \/ file.mtime > manager.seen)

\* reload, or reload_if_changed; a file that does not load changes nothing.
LoadConfig(t, always) ==
    /\ reload[t] = Reloaded
    /\ always \/ HasChanged
    /\ file.mtime > 0 /\ ValidConfig(file.content)
    /\ reload' = [u \in Reloaders |->
                    IF u = t THEN [at |-> "loaded", config |-> file.content,
                                   alone |-> \A v \in Reloaders : reload[v] = Reloaded]
                    ELSE [reload[u] EXCEPT !.alone = reload[u] = Reloaded]]
    /\ UNCHANGED <<file, manager, raced, cliVars>>

SwapConfig(t) ==
    /\ reload[t].at = "loaded"
    /\ manager' = [manager EXCEPT !.config = reload[t].config]
    /\ reload' = [reload EXCEPT ![t].at = "swapped"]
    /\ UNCHANGED <<file, raced, cliVars>>

\* The time is read last, when the file may have changed since it was loaded.
StampConfig(t) ==
    /\ reload[t].at = "swapped"
    /\ manager' = [manager EXCEPT !.seen = file.mtime]
    /\ reload' = [reload EXCEPT ![t] = Reloaded]
    /\ raced' = ~reload[t].alone
    /\ UNCHANGED <<file, cliVars>>

ConfigNext ==
    \/ \E c \in Contents, mtime \in 0..MaxMtime : EditFile(c, mtime)
    \/ \E t \in Reloaders :
          \/ \E always \in BOOLEAN : LoadConfig(t, always)
          \/ SwapConfig(t) \/ StampConfig(t)

-----------------------------------------------------------------------------
(* Commands: read the file, then write it whole *)

NoCommand == [kind |-> Nothing]

Begin(p, c) ==
    /\ command[p] = NoCommand /\ started < MaxCommands
    /\ command' = [command EXCEPT ![p] = c]
    /\ overlapped' = (overlapped \/ \E q \in Commands : command[q] # NoCommand)
    /\ started' = started + 1

End(p) ==
    /\ command' = [command EXCEPT ![p] = NoCommand]
    /\ UNCHANGED started

\* Killed at a prompt, or between reading and writing.
CommandDies(p) ==
    /\ command[p] # NoCommand
    /\ End(p) /\ overlapped' = TRUE
    /\ UNCHANGED <<configVars, keystore, serial, contracts, records, profiles, asked>>

NoCredentials == [n \in {} |-> Nothing]

\* std::fs::write truncates first, and what does not parse is read as empty.
WriteTorn(p) ==
    /\ command[p] # NoCommand
    /\ \/ /\ command[p].kind \in {"add", "remove", "rotate"}
          /\ keystore' = NoCredentials /\ UNCHANGED <<contracts, records, profiles>>
       \/ /\ command[p].kind = "deploy"
          /\ \E took \in BOOLEAN : contracts' = [contracts EXCEPT ![command[p].id] = took]
          /\ records' = <<>> /\ UNCHANGED <<keystore, profiles>>
       \/ /\ command[p].kind = "network"
          /\ profiles' = <<>> /\ UNCHANGED <<keystore, contracts, records>>
    /\ End(p) /\ overlapped' = TRUE
    /\ UNCHANGED <<configVars, serial, asked>>

-----------------------------------------------------------------------------
(* credentials add, remove and rotate.  An entry decrypts under the password *)
(* it was encrypted with.                                                     *)

WithEntry(store, name, entry) ==
    [n \in DOMAIN store \cup {name} |-> IF n = name THEN entry ELSE store[n]]
WithoutEntry(store, name) == [n \in DOMAIN store \ {name} |-> store[n]]

\* A bug FilesStaySound must catch: what the old password does not open is left out.
RotateWhatOpens(store, old, new) ==
    LET open == {n \in DOMAIN store : store[n].password = old}
    IN  [n \in open |-> [store[n] EXCEPT !.password = new]]

\* rotate_keystore; the store as it was when some entry does not decrypt.
RotateKeystore(store, old, new) ==
    IF \A n \in DOMAIN store : store[n].password = old
    THEN [n \in DOMAIN store |-> [store[n] EXCEPT !.password = new]] ELSE store

AddCredential(p, name, value, password) ==
    /\ Begin(p, [kind |-> "add", copy |-> keystore, name |-> name,
                 entry |-> [value |-> value, password |-> password]])
    /\ UNCHANGED <<configVars, keystore, serial, contracts, records, profiles, asked>>

RemoveCredential(p, name) ==
    /\ name \in DOMAIN keystore
    /\ Begin(p, [kind |-> "remove", copy |-> keystore, name |-> name])
    /\ UNCHANGED <<configVars, keystore, serial, contracts, records, profiles, asked>>

\* The store is read before the three password prompts.
RotateCredentials(p) ==
    /\ keystore # NoCredentials
    /\ Begin(p, [kind |-> "rotate", copy |-> keystore])
    /\ UNCHANGED <<configVars, keystore, serial, contracts, records, profiles, asked>>

SaveCredentials(p) ==
    /\ \/ /\ command[p].kind = "add"
          /\ keystore' = WithEntry(command[p].copy, command[p].name, command[p].entry)
          /\ serial' = WithEntry(serial, command[p].name, command[p].entry)
       \/ /\ command[p].kind = "remove"
          /\ keystore' = WithoutEntry(command[p].copy, command[p].name)
          /\ serial' = WithoutEntry(serial, command[p].name)
       \/ /\ command[p].kind = "rotate"
          /\ \E old, new \in Passwords :
                /\ old # new
                /\ LET copy == command[p].copy
                       opens == \A n \in DOMAIN copy : copy[n].password = old
                       all == \A n \in DOMAIN serial : serial[n].password = old
                   IN  /\ keystore' = IF RotateKeystore(copy, old, new) = copy THEN keystore
                                      ELSE RotateKeystore(copy, old, new)
                       /\ serial' = IF opens /\ all
                                    THEN [n \in DOMAIN serial |-> [serial[n] EXCEPT !.password = new]]
                                    ELSE serial
    /\ End(p)
    /\ UNCHANGED <<configVars, contracts, records, profiles, asked, overlapped>>

CredentialsNext ==
    \E p \in Commands :
        \/ \E name \in CredNames :
              \/ \E value \in Secrets, password \in Passwords : AddCredential(p, name, value, password)
              \/ RemoveCredential(p, name)
        \/ RotateCredentials(p) \/ SaveCredentials(p)

-----------------------------------------------------------------------------
(* deploy *)

\* The contract is on the network before anything is written down.
DeployContract(p) ==
    /\ Len(contracts) < MaxContracts
    /\ contracts' = Append(contracts, FALSE)
    /\ Begin(p, [kind |-> "deploy", copy |-> records, id |-> Len(contracts) + 1])
    /\ UNCHANGED <<configVars, keystore, serial, records, profiles, asked>>

\* A bug FilesStaySound must catch: a failed initialization is recorded as done.
RecordedAsDone(id, ok) == [id |-> id, initialized |-> TRUE]

DeploymentRecord(id, ok) == [id |-> id, initialized |-> ok]

\* initialize may take effect although the CLI sees it fail.
InitializeDeployed(p, took, ok) ==
    /\ command[p].kind = "deploy" /\ (ok => took)
    /\ contracts' = [contracts EXCEPT ![command[p].id] = took]
    /\ records' = Append(command[p].copy, DeploymentRecord(command[p].id, ok))
    /\ End(p)
    /\ UNCHANGED <<configVars, keystore, serial, profiles, asked, overlapped>>

DeployNext ==
    \E p \in Commands :
        DeployContract(p) \/ \E took, ok \in BOOLEAN : InitializeDeployed(p, took, ok)

-----------------------------------------------------------------------------
(* network add, remove and set-default *)

\* load_network_profiles: entries that do not validate are skipped.
LoadedProfiles == Kept(profiles, {r \in ToSet(profiles) : r.valid})
NamesOf(rs) == {r.name : r \in ToSet(rs)}

DefaultNetwork ==
    LET marked == Kept(LoadedProfiles, {r \in ToSet(LoadedProfiles) : r.default})
    IN  IF marked = <<>> THEN "testnet" ELSE marked[1].name

\* rpc_url_for and passphrase_for: a profile, a built-in network, or testnet.
ResolvedNetwork(name) ==
    IF name \in NamesOf(LoadedProfiles) THEN <<"profile", name>>
    ELSE <<"builtin", IF name \in BuiltinNetworks THEN name ELSE "testnet">>

\* validate_network_arg
KnownNetwork(name) == name \in BuiltinNetworks \cup NamesOf(LoadedProfiles)

\* The URL must answer; the other fields are only checked when the file is read.
NetworkAdd(p, name, valid) ==
    /\ name \notin NamesOf(LoadedProfiles)
    /\ Begin(p, [kind |-> "network",
                 save |-> Append(LoadedProfiles, [name |-> name, valid |-> valid, default |-> FALSE]),
                 asked |-> Nothing])
    /\ UNCHANGED <<configVars, keystore, serial, contracts, records, profiles, asked>>

NetworkRemove(p, name) ==
    /\ name \in NamesOf(LoadedProfiles)
    /\ Begin(p, [kind |-> "network", asked |-> Nothing,
                 save |-> Kept(LoadedProfiles, {r \in ToSet(LoadedProfiles) : r.name # name})])
    /\ UNCHANGED <<configVars, keystore, serial, contracts, records, profiles, asked>>

\* A built-in name without a profile only clears the mark.
NetworkSetDefault(p, name) ==
    /\ KnownNetwork(name)
    /\ Begin(p, [kind |-> "network", asked |-> name,
                 save |-> [i \in DOMAIN LoadedProfiles |->
                             [LoadedProfiles[i] EXCEPT !.default = LoadedProfiles[i].name = name]]])
    /\ UNCHANGED <<configVars, keystore, serial, contracts, records, profiles, asked>>

SaveProfiles(p) ==
    /\ command[p].kind = "network"
    /\ profiles' = command[p].save
    /\ LET latest == IF command[p].asked = Nothing THEN asked ELSE command[p].asked
       IN  asked' = IF latest \in NamesOf(command[p].save) THEN latest ELSE Nothing
    /\ End(p)
    /\ UNCHANGED <<configVars, keystore, serial, contracts, records, overlapped>>

NetworkNext ==
    \E p \in Commands :
        \/ \E name \in ProfileNames :
              \/ \E valid \in BOOLEAN : NetworkAdd(p, name, valid)
              \/ NetworkRemove(p, name) \/ NetworkSetDefault(p, name)
        \/ SaveProfiles(p)

CommandFault == \E p \in Commands : CommandDies(p) \/ WriteTorn(p)

-----------------------------------------------------------------------------
(* try_resolve_source: each source is absent, empty, good or bad *)

SignerSource(a) ==
    LET checked(source) == IF a[source] = "good" THEN source ELSE "error" IN
    CASE a.token \in {"good", "bad"} -> checked("token")
      [] a.token \notin {"good", "bad"} /\ a.key # Nothing -> checked("key")
      [] a.token \notin {"good", "bad"} /\ a.key = Nothing /\ a.env # Nothing -> checked("env")
      [] a.token \notin {"good", "bad"} /\ a.key = Nothing /\ a.env = Nothing /\ a.keyfile # Nothing ->
           checked("keyfile")
      [] OTHER -> IF a.keystore # Nothing /\ a.interactive THEN "keystore" ELSE "error"

OperatorInit ==
    /\ file \in [content : {c \in Contents : ValidConfig(c)}, mtime : {1}]
    /\ manager = [config |-> file.content, seen |-> 1]
    /\ reload = [t \in Reloaders |-> Reloaded] /\ raced = FALSE
    /\ keystore = NoCredentials /\ serial = NoCredentials
    /\ contracts = <<>> /\ records = <<>>
    /\ profiles = <<>> /\ asked = Nothing
    /\ command = [p \in Commands |-> NoCommand]
    /\ overlapped = FALSE /\ started = 0

OperatorNext == ConfigNext \/ CredentialsNext \/ DeployNext \/ NetworkNext \/ CommandFault

OperatorSpec == OperatorInit /\ [][OperatorNext]_operatorVars
-----------------------------------------------------------------------------
(* Properties *)

\* The active configuration is always a valid one, and unless a reload met another
\* reload or an edit, or the file's time went back, a manager that sees no change
\* has the configuration of the file.
ConfigFollowsFile ==
    /\ ValidConfig(manager.config)
    /\ (\A t \in Reloaders : reload[t] = Reloaded) /\ ~raced /\ ~HasChanged /\ file.mtime > 0
         => manager.config = file.content

\* Commands that neither overlap nor die leave the credentials as each of them, in
\* turn, should have: none lost, and a rotation changes all entries or none.
CredentialsKept == ~overlapped => keystore = serial

\* Whatever overlaps or dies, a recorded deployment is on the network, and the
\* record claims no initialization that did not happen; alone, none goes unrecorded.
DeploymentsRecorded ==
    /\ \A i \in DOMAIN records : /\ records[i].id \in DOMAIN contracts
                                /\ records[i].initialized => contracts[records[i].id]
                                /\ \A j \in DOMAIN records : records[i].id = records[j].id => i = j
    /\ ~overlapped /\ (\A p \in Commands : command[p] = NoCommand)
         => {r.id : r \in ToSet(records)} = DOMAIN contracts

\* A profile has one entry and at most one is the default; the default resolves to a
\* network of its own, and is the profile last asked for, while it is there.
ProfilesResolve ==
    /\ Unique([i \in DOMAIN profiles |-> profiles[i].name])
    /\ Cardinality({i \in DOMAIN profiles : profiles[i].default}) <= 1
    /\ ResolvedNetwork(DefaultNetwork)[2] = DefaultNetwork
    /\ ~overlapped /\ asked \in NamesOf(LoadedProfiles) => DefaultNetwork = asked

\* A signing source is used only if every source before it is absent; an invalid one
\* is an error and not skipped.
SignerFromFirstSource ==
    LET order == <<"token", "key", "env", "keyfile", "keystore">>
        given == {Nothing, "empty", "good", "bad"}
    IN  \A a \in [token : given, key : given, env : given, keyfile : given,
                  keystore : {Nothing, "good"}, interactive : BOOLEAN] :
          \A i \in DOMAIN order :
              SignerSource(a) = order[i] =>
                a[order[i]] = "good" /\ \A j \in 1..(i - 1) : a[order[j]] \in {Nothing} \cup
                                                            (IF j = 1 THEN {"empty"} ELSE {})

\* The operator's files stay sound.
FilesStaySound ==
    ConfigFollowsFile /\ CredentialsKept /\ DeploymentsRecorded /\ ProfilesResolve
    /\ SignerFromFirstSource
=============================================================================
