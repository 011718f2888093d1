---------------------------- MODULE MultiInstall ----------------------------
(***************************************************************************)
(* keramos multi-install (internal/cli/multicluster.go): workers take the  *)
(* contexts from a queue and install the release in each; with             *)
(* --atomic-cross-cluster a failure uninstalls it where it was installed.  *)
(* A cluster stands in the place of a release name of ReleaseWorld.        *)
(***************************************************************************)
EXTENDS ReleaseWorld

CONSTANTS Targets,         \* lists of clusters, as --to gives them
          Installed        \* the manifest to install

ASSUME MultiAssumption == Targets \subseteq Seq(ReleaseName) /\ Installed \in Content

(* next: head of the channel; busy: the indices workers hold; out: results; *)
(* lost: clusters whose undo failed, which is only logged.                 *)
MultiJob(targets, parallel, atomic) ==
    [cmd |-> "multi", pc |-> "run", targets |-> targets, atomic |-> atomic,
     parallel |-> IF parallel < 1 THEN 1 ELSE parallel,
     next |-> 1, busy |-> {}, out |-> [i \in DOMAIN targets |-> "none"], lost |-> {}, before |-> hist]

Take ==
    /\ job.pc = "run" /\ job.next <= Len(job.targets)
    /\ Cardinality(job.busy) < job.parallel
    /\ job' = [job EXCEPT !.next = @ + 1, !.busy = @ \cup {job.next}]
    /\ UNCHANGED <<world, others>> /\ NoFault

(* A client that cannot be made is a failing install that changes nothing. *)
InstallAt(i) ==
    /\ job.pc = "run" /\ i \in job.busy /\ UNCHANGED others
    /\ LET n == job.targets[i] IN
       \/ /\ WInstallOk(n, Installed)
          /\ job' = [job EXCEPT !.busy = @ \ {i}, !.out[i] = "ok"]
       \/ /\ WInstallFails(n, Installed)
          /\ job' = [job EXCEPT !.busy = @ \ {i}, !.out[i] = "error"]

AllIn == job.next > Len(job.targets) /\ job.busy = {}
Errors == {i \in DOMAIN job.out : job.out[i] = "error"}

(* Mutant: the clusters with an error are rolled back too.                 *)
EveryTarget == DOMAIN job.out
Successful == {i \in DOMAIN job.out : job.out[i] = "ok"}

Collect ==
    /\ job.pc = "run" /\ AllIn
    /\ job' = IF Errors = {} THEN [job EXCEPT !.pc = "ok"]
              ELSE IF job.atomic THEN [job EXCEPT !.pc = "undo", !.busy = Successful]
              ELSE [job EXCEPT !.pc = "failed"]
    /\ UNCHANGED <<world, others>> /\ NoFault

(* rollbackMulti: one goroutine for each; an error is only logged.         *)
UndoAt(i) ==
    /\ job.pc = "undo" /\ i \in job.busy /\ UNCHANGED others
    /\ LET n == job.targets[i] IN
       \/ WUninstallOk(n) /\ job' = [job EXCEPT !.busy = @ \ {i}]
       \/ WUninstallFails(n) /\ job' = [job EXCEPT !.busy = @ \ {i}, !.lost = @ \cup {n}]

Undone ==
    /\ job.pc = "undo" /\ job.busy = {}
    /\ job' = [job EXCEPT !.pc = "failed"]
    /\ UNCHANGED <<world, others>> /\ NoFault

MultiStep == /\ job.cmd = "multi"
             /\ \/ Take \/ Collect \/ Undone
                \/ \E i \in DOMAIN job.targets : InstallAt(i) \/ UndoAt(i)

MultiSpec == /\ WorldInit
             /\ \E targets \in Targets, parallel \in Nat, atomic \in BOOLEAN :
                   job = MultiJob(targets, parallel, atomic)
             /\ [][MultiStep]_worldVars

-----------------------------------------------------------------------------
(* rollbackMulti and the report: a run that succeeds has installed the     *)
(* release in every cluster; an atomic one that fails leaves it installed  *)
(* in none, but for those whose undo failed; the release a cluster had     *)
(* before is untouched, provided that its first revision is not pruned.    *)
(* Clusters listed twice are no exception.                                 *)
InstalledNow == {n \in ReleaseName : hist[n] # {} /\ job.before[n] = {} /\ live[n] = Installed}
AllClustersOrNone ==
    job.cmd = "multi" =>
        /\ job.pc = "ok" => \A i \in DOMAIN job.targets : live[job.targets[i]] = Installed
        /\ job.pc = "failed" /\ job.atomic => InstalledNow \subseteq job.lost
        /\ \A n \in ReleaseName : 1 \in {r.rev : r \in job.before[n]} => hist[n] = job.before[n]
=============================================================================
