------------------------------ MODULE UserFiles -----------------------------
(***************************************************************************)
(* The user's files about repositories (internal/repo: the RepoFile of     *)
(* repo.go, credentials.go; internal/cli: repo_cmd.go, login.go): the list *)
(* of repositories and the credential store, each read, changed and        *)
(* written in place by one command after the other.                        *)
(*                                                                         *)
(* A write that fails leaves the file as it was or cut short (torn), which *)
(* no later command can read.  A repository is its name, its host and      *)
(* whether it was added with credentials.                                  *)
(***************************************************************************)
EXTENDS ClusterTask

AddRepo(name, host, secret, force) == [cmd |-> "add", name |-> name, host |-> host, secret |-> secret, force |-> force]
RemoveRepo(name) == [cmd |-> "remove", name |-> name]
Login(host) == [cmd |-> "login", host |-> host]
Logout(host) == [cmd |-> "logout", host |-> host]

(* repos: repositories.yaml; stored: the hosts of credentials.json, of     *)
(* which saved says whether it exists; legacy: oci-credentials.json.  out  *)
(* is the hosts the user has logged out of.                                *)
UserFilesTask(script, legacy) ==
    [kind |-> "files", pc |-> "run", script |-> script, at |-> "idle", legacy |-> legacy,
     repos |-> <<>>, torn |-> {}, stored |-> {}, saved |-> FALSE, out |-> {}]

Typed(cmd) == task.kind = "files" /\ task.pc = "run" /\ task.script # <<>> /\ Head(task.script).cmd = cmd
Command == Head(task.script)
Done(t) == [t EXCEPT !.script = Tail(@), !.at = "idle"]
FailsNow == task' = Done(task)
Readable(file) == file \notin task.torn

(* LoadCredentialStore: without the file, the credentials of the legacy    *)
(* one, saved at once (migrateOCICredentials).                             *)
Loaded == IF task.saved THEN task.stored ELSE task.legacy

(* CredentialStore.Save of what was loaded and changed.                    *)
StoreSaved(hosts, t) ==
    \/ TNoFault /\ task' = [t EXCEPT !.stored = hosts, !.saved = TRUE]
    \/ TFault /\ task' = Done(task)
    \/ TFault /\ task' = [Done(task) EXCEPT !.torn = @ \cup {"credentials"}, !.saved = TRUE]

(* RepoFile.Save                                                           *)
ReposSaved(repos) ==
    \/ TNoFault /\ task' = [Done(task) EXCEPT !.repos = repos]
    \/ TFault /\ task' = Done(task)
    \/ TFault /\ task' = [Done(task) EXCEPT !.torn = @ \cup {"repositories"}]

Named(name) == {i \in DOMAIN task.repos : task.repos[i].name = name}
(* RepoFile.Remove, of the first of that name; RepoFile.Add with the       *)
(* entry's settings.                                                       *)
Unlisted(name) == IF Named(name) = {} THEN task.repos ELSE RemoveAt(task.repos, Min(Named(name)))
Relisted(op) == Append(Unlisted(op.name), [name |-> op.name, host |-> op.host, secret |-> op.secret])

(* Mutant: the list is written before the credentials.                     *)
ListFirst == task.at = "idle"
(* newRepoAddCommand: the credentials are stored before the list is        *)
(* written.                                                                *)
CredentialsFirst == task.at = "stored" \/ (task.at = "idle" /\ ~Command.secret)

(* newRepoAddCommand: a name that is taken is left alone unless forced.    *)
RepoAdd ==
    /\ Typed("add")
    /\ LET taken == Named(Command.name) # {} /\ ~Command.force
       IN  \/ (~Readable("repositories") \/ taken) /\ TNoFault /\ FailsNow
           \/ /\ Readable("repositories") /\ ~taken /\ task.at = "idle" /\ ~CredentialsFirst
              /\ \/ ~Readable("credentials") /\ TNoFault /\ FailsNow
                 \/ /\ Readable("credentials")
                    /\ StoreSaved(Loaded \cup {Command.host}, [task EXCEPT !.at = "stored", !.out = @ \ {Command.host}])
           \/ Readable("repositories") /\ ~taken /\ CredentialsFirst /\ ReposSaved(Relisted(Command))

(* newRepoRemoveCommand: the credentials stay.                             *)
RepoRemove ==
    /\ Typed("remove")
    /\ \/ (~Readable("repositories") \/ Named(Command.name) = {}) /\ TNoFault /\ FailsNow
       \/ Readable("repositories") /\ Named(Command.name) # {} /\ ReposSaved(Unlisted(Command.name))

(* newLoginCommand, OCIRegistry.Login                                      *)
LogIn ==
    /\ Typed("login")
    /\ \/ ~Readable("credentials") /\ TNoFault /\ FailsNow
       \/ Readable("credentials") /\ StoreSaved(Loaded \cup {Command.host}, Done([task EXCEPT !.out = @ \ {Command.host}]))

(* newLogoutCommand, OCIRegistry.Logout: of a host that is in the store.   *)
LogOut ==
    /\ Typed("logout")
    /\ LET in == Readable("credentials") /\ Command.host \in Loaded
       IN  \/ ~Readable("credentials") /\ TNoFault /\ FailsNow
           \/ /\ Readable("credentials") /\ ~in /\ TNoFault
              /\ task' = [Done(task) EXCEPT !.stored = Loaded, !.saved = @ \/ task.legacy # {}]
           \/ in /\ StoreSaved(Loaded \ {Command.host}, Done([task EXCEPT !.out = @ \cup {Command.host}]))

FilesStop == task.kind = "files" /\ task.pc = "run" /\ task.script = <<>> /\ task' = [task EXCEPT !.pc = "ok"] /\ TNoFault

UserFilesStep == RepoAdd \/ RepoRemove \/ LogIn \/ LogOut \/ FilesStop

(* Any commands, whatever the legacy file holds.                           *)
UserFilesSpec == /\ \E script, legacy : task = UserFilesTask(script, legacy)
                 /\ tfaults = MaxTaskFaults /\ [][UserFilesStep]_taskVars

-----------------------------------------------------------------------------
(* repo add, login, logout: wherever a command stops, a repository that    *)
(* was added with credentials has them, as long as the store can be read   *)
(* and unless the user logged out; a host the user logged out of does not  *)
(* come back; no name is listed twice.                                     *)
FilesAgree ==
    task.kind = "files" =>
        /\ Readable("credentials") =>
              /\ \A i \in DOMAIN task.repos : task.repos[i].secret => task.repos[i].host \in task.stored \cup task.out
              /\ Loaded \cap task.out = {}
        /\ \A i, j \in DOMAIN task.repos : task.repos[i].name = task.repos[j].name => i = j
=============================================================================
