------------------------------- MODULE Purge --------------------------------
(***************************************************************************)
(* keramos purge (internal/cli/purge.go): find the releases and the        *)
(* namespaces that carry keramos's label, uninstall the releases, drop the *)
(* namespaces, and sweep up what is left.                                  *)
(*                                                                         *)
(* A namespace holds releases (their records and objects), pods, what      *)
(* spawns pods (workloads) and what pods mount (config).  On a dead node a *)
(* pod ends only when its deletion is issued a second time, and keeps a    *)
(* namespace that is deleted from ending.  The objects of a release are    *)
(* those an uninstall deletes: CustomResourceDefinitions and what carries  *)
(* the keep policy are not among them, nor is what --delete-crds removes.  *)
(***************************************************************************)
EXTENDS Naturals, FiniteSets

CONSTANTS Namespace,
          Reserved,        \* reservedNamespaces
          Excluded,        \* --exclude-ns
          Prefixed,        \* those --ns-prefix selects
          NsRelease,       \* the names of releases
          PurgeFlags,      \* sets of flags: dry, force, drop, ignore
          MaxPurgeFaults   \* bound: failing calls

ASSUME PurgeAssumption ==
    /\ Reserved \subseteq Namespace /\ Excluded \subseteq Namespace /\ Prefixed \subseteq Namespace
    /\ PurgeFlags \subseteq SUBSET {"dry", "force", "drop", "ignore"} /\ MaxPurgeFaults \in Nat

NsState == [there : BOOLEAN, ending : BOOLEAN, marked : BOOLEAN, records : SUBSET NsRelease,
            objects : SUBSET NsRelease, workloads : BOOLEAN, pods : BOOLEAN, dead : BOOLEAN,
            config : BOOLEAN]

(* What a purge may find: pods, and what spawns them, where what they      *)
(* mount is.                                                               *)
Furnished == {c \in [Namespace -> NsState] :
                \A n \in Namespace : c[n].there /\ (c[n].pods \/ c[n].workloads) => c[n].config}

VARIABLES ns,              \* namespace -> what is in it
          flags,
          scope,           \* namespace -> the releases found in it
          missed,          \* releases an uninstall took for absent
          jobs,            \* the releases no worker has taken
          at,              \* where the command is
          cur,             \* the namespace that is dropped
          dropped,         \* those done
          failures,        \* jobs that failed
          pfaults, status  \* what the command returns

pvars == <<ns, flags, scope, missed, jobs, at, cur, dropped, failures, pfaults, status>>
rest == <<flags, scope, missed>>

Has(f) == f \in flags
PFault == pfaults > 0 /\ pfaults' = pfaults - 1
PNoFault == UNCHANGED pfaults

Emptied(n) == [n EXCEPT !.records = {}, !.objects = {}, !.workloads = FALSE, !.config = FALSE]

PurgeInit(contents) ==
    /\ ns = contents
    /\ flags \in PurgeFlags
    /\ scope = [n \in {} |-> {}] /\ missed = {} /\ jobs = {} /\ at = "scan" /\ dropped = {} /\ failures = 0
    /\ cur \in Namespace /\ pfaults = MaxPurgeFaults /\ status = "none"

-----------------------------------------------------------------------------
(* scanKeramosReleases: the namespaces, excluded and others apart, in which *)
(* records of releases are stored.                                         *)
Found == {n \in Prefixed \ Excluded : ns[n].there /\ ns[n].records # {}}

(* Mutant: --exclude-ns is not looked at here.                             *)
MarkedAnywhere == {n \in Prefixed \ Reserved : ns[n].there /\ ns[n].marked}
(* scanKeramosManagedNamespaces: and those keramos created.                *)
Marked == {n \in Prefixed \ (Excluded \cup Reserved) : ns[n].there /\ ns[n].marked}

Scan ==
    /\ at = "scan" /\ UNCHANGED <<ns, flags, missed, cur, dropped, failures>>
    /\ \/ /\ PNoFault
          /\ scope' = [n \in Found \cup Marked |-> ns[n].records]
          /\ jobs' = UNION {{n} \X ns[n].records : n \in Found}
          /\ at' = IF Found \cup Marked = {} THEN IF Has("force") /\ ~Has("dry") THEN "sweep" ELSE "done"
                   ELSE IF Has("dry") THEN "done" ELSE "releases"
          /\ status' = IF at' = "done" THEN "ok" ELSE "none"
       \/ PFault /\ at' = "done" /\ status' = "error" /\ UNCHANGED <<scope, jobs>>

(* Uninstall without hooks: the objects of the last record, the records.   *)
Uninstalled(n, r) == [ns EXCEPT ![n].objects = @ \ {r}, ![n].records = @ \ {r}]
(* forceDeleteReleaseSecrets alone.                                        *)
Forgotten(n, r) == [ns EXCEPT ![n].records = @ \ {r}]

(* Mutant: the records are deleted even if the uninstall failed.           *)
KeptAnyway(n, r) == Forgotten(n, r)
(* An uninstall that fails after its objects are deleted.                  *)
KeptOnError(n, r) == [ns EXCEPT ![n].objects = @ \ {r}]

(* A call of the job fails and that is a failure of the job: no client     *)
(* (--force or not), or Uninstall returns an error, before it deleted the  *)
(* objects or after.                                                       *)
JobFails(n, r) ==
    /\ failures' = failures + 1 /\ UNCHANGED missed
    /\ ns' \in IF Has("force") THEN {ns} ELSE {ns, KeptOnError(n, r)}

(* Or it is not one.  Any error of storage.Last counts as "not found"      *)
(* (IgnoreNotFound): Uninstall does nothing, and the records are deleted   *)
(* all the same.  A deletion of a record that fails is logged or ignored,  *)
(* the record stays.                                                       *)
JobGoesOn(n, r) ==
    /\ UNCHANGED failures
    /\ \/ Has("force") /\ UNCHANGED <<ns, missed>>
       \/ ~Has("force") /\ missed' = missed \cup {<<n, r>>} /\ ns' \in {ns, Forgotten(n, r)}
       \/ ~Has("force") /\ UNCHANGED missed /\ ns' = KeptOnError(n, r)

(* A worker of purgeReleases: uninstall, then delete the records that are  *)
(* left; with --force only the latter.                                     *)
PurgeRelease(n, r) ==
    /\ at = "releases" /\ <<n, r>> \in jobs
    /\ jobs' = jobs \ {<<n, r>>}
    /\ \/ /\ PNoFault /\ UNCHANGED <<failures, missed>>
          /\ ns' = IF Has("force") THEN Forgotten(n, r) ELSE Uninstalled(n, r)
       \/ PFault /\ (JobFails(n, r) \/ JobGoesOn(n, r))
    /\ UNCHANGED <<flags, scope, at, cur, dropped, status>>

ReleasesDone ==
    /\ at = "releases" /\ jobs = {}
    /\ at' = IF Has("drop") THEN "namespaces" ELSE IF Has("force") THEN "sweep" ELSE "report"
    /\ UNCHANGED <<ns, rest, jobs, cur, dropped, failures, pfaults, status>>

-----------------------------------------------------------------------------
(* dropNamespaces, one namespace after the other in any order (the code's  *)
(* is that of the names).                                                  *)

Droppable == DOMAIN scope \ Reserved

PickNamespace(n) ==
    /\ at = "namespaces" /\ n \in Droppable \ dropped
    /\ cur' = n /\ dropped' = dropped \cup {n}
    /\ at' = IF Has("force") THEN "workloads" ELSE "delete"
    /\ UNCHANGED <<ns, rest, jobs, failures, pfaults, status>>

NamespacesDone ==
    /\ at = "namespaces" /\ Droppable \subseteq dropped
    /\ at' = IF Has("force") THEN "sweep" ELSE "report"
    /\ UNCHANGED <<ns, rest, jobs, cur, dropped, failures, pfaults, status>>

(* forceDrainNamespace, step by step: a list that fails skips its step.    *)
Drain(step, next, after) ==
    /\ at = step
    /\ \/ ns' = after /\ PNoFault /\ at' = next
       \/ PFault /\ UNCHANGED ns /\ at' = (IF step = "pods" THEN "config" ELSE next)
    /\ UNCHANGED <<rest, jobs, cur, dropped, failures, status>>

(* Mutant: what pods mount goes first.                                     *)
AfterWorkloadsConfig == "config"
AfterWorkloads == "pods"

DrainWorkloads == Drain("workloads", AfterWorkloads, [ns EXCEPT ![cur].workloads = FALSE])
(* forceDeletePods: the pods of live nodes end within the five seconds,    *)
(* those of dead ones when the deletion is issued again.                   *)
DrainPods ==
    LET left == [ns EXCEPT ![cur].pods = @ /\ ns[cur].dead] IN
    Drain("pods", IF left[cur].pods THEN "again" ELSE "config", left)
DrainAgain == Drain("again", "config", [ns EXCEPT ![cur].pods = FALSE])
(* Services, claims, config maps and secrets, last.                        *)
DrainConfig == Drain("config", "delete", [ns EXCEPT ![cur].config = FALSE])

(* A workload that is not gone replaces a pod that is.                     *)
Respawn(n) ==
    /\ ns[n].there /\ ~ns[n].ending /\ ns[n].workloads /\ ~ns[n].pods /\ ~ns[n].dead
    /\ ns' = [ns EXCEPT ![n].pods = TRUE]
    /\ UNCHANGED <<rest, jobs, at, cur, dropped, failures, pfaults, status>>

(* A namespace ends with all there is in it, unless a pod stays.           *)
Terminated(n) ==
    LET stays == n.dead /\ n.pods IN
    [Emptied(n) EXCEPT !.ending = TRUE, !.pods = stays, !.there = n.there /\ stays]

DeleteNamespace ==
    /\ at = "delete" /\ UNCHANGED <<rest, jobs, cur, dropped, failures, status>>
    /\ at' = IF Has("force") THEN "finalize" ELSE "namespaces"
    /\ \/ PNoFault /\ ns' = [ns EXCEPT ![cur] = Terminated(@)]
       \/ PFault /\ UNCHANGED ns

(* forceFinalizeNamespace: a namespace that is ending is gone; a pod stays. *)
Finalize ==
    /\ at = "finalize" /\ UNCHANGED <<rest, jobs, cur, dropped, failures, status>>
    /\ at' = "namespaces"
    /\ \/ PNoFault /\ ns' = [ns EXCEPT ![cur].there = @ /\ ~ns[cur].ending]
       \/ PFault /\ UNCHANGED ns

(* sweepOrphanPods: the pods of namespaces that do not exist, in scope or  *)
(* not; a pod whose deletion fails is left.                                *)
Sweep ==
    /\ at = "sweep" /\ at' = "report"
    /\ \/ PNoFault /\ ns' = [n \in Namespace |-> IF ns[n].there THEN ns[n] ELSE [ns[n] EXCEPT !.pods = FALSE]]
       \/ PFault /\ UNCHANGED ns
    /\ UNCHANGED <<rest, jobs, cur, dropped, failures, status>>

(* The command fails only if an uninstall did and failures are not ignored; *)
(* --force ignores them.                                                   *)
Report ==
    /\ at = "report" /\ at' = "done"
    /\ status' = IF failures > 0 /\ ~Has("ignore") /\ ~Has("force") THEN "error" ELSE "ok"
    /\ UNCHANGED <<ns, rest, jobs, cur, dropped, failures, pfaults>>

PurgeStep ==
    \/ Scan \/ ReleasesDone \/ NamespacesDone \/ DrainWorkloads \/ DrainPods \/ DrainAgain
    \/ DrainConfig \/ DeleteNamespace \/ Finalize \/ Sweep \/ Report
    \/ \E n \in Namespace : PickNamespace(n) \/ Respawn(n) \/ \E r \in NsRelease : PurgeRelease(n, r)

PurgeSpec == (\E contents \in Furnished : PurgeInit(contents)) /\ [][PurgeStep]_pvars

-----------------------------------------------------------------------------
InScope(n) == n \in Prefixed \ Excluded

(* scanKeramosReleases and dropNamespaces: nothing that --exclude-ns,      *)
(* --ns-prefix or a dry run protects is touched, in whichever of the two   *)
(* scans it turns up; and of a reserved namespace only releases go, as the *)
(* help of the command says (purge.go:61-62; the documentation says more,  *)
(* see ReservedIsProtected).                                               *)
PurgeStaysInScope ==
    [][\A n \in Namespace :
          LET same(x) == ns'[n] \in {x, [x EXCEPT !.pods = TRUE]} IN
          /\ ns[n].there /\ (~InScope(n) \/ Has("dry")) => same(ns[n])
          /\ ns[n].there /\ n \in Reserved =>
                same([ns[n] EXCEPT !.records = ns'[n].records, !.objects = ns'[n].objects])
      ]_pvars

(* The order of forceDrainNamespace (purge.go:430-438): while no call      *)
(* fails, a pod does not lose what it mounts, and with --force no pod is   *)
(* left in a namespace that does not exist, one from an earlier purge      *)
(* included.                                                               *)
PodsGoFirst ==
    pfaults = MaxPurgeFaults =>
        /\ \A n \in Namespace : ns[n].there /\ ~ns[n].ending /\ ns[n].pods => ns[n].config
        /\ status = "ok" /\ Has("force") /\ ~Has("dry") =>
             \A n \in Namespace : ns[n].pods => ns[n].there

(* docs/cli/purge.md:29-30: kube-system and the others "are always         *)
(* protected".  It is not so: scanKeramosReleases takes the releases in    *)
(* them, and purgeReleases uninstalls them.                                *)
ReservedIsProtected ==
    [][\A n \in Reserved : UNCHANGED <<ns[n].records, ns[n].objects>>]_pvars

(* purgeReleases: unless --force is given, a release whose records are     *)
(* gone has no objects left, whatever fails, if its uninstall read its     *)
(* last record.  A purge that reports success without ignoring failures    *)
(* has left no objects of the releases it found, except of those; and if   *)
(* no call failed it has left no record either.                            *)
ForgottenLeavesNothing ==
    ~Has("force") =>
        /\ \A n \in DOMAIN scope, r \in NsRelease :
              r \in ns[n].objects \cap scope[n] => r \in ns[n].records \/ <<n, r>> \in missed
        /\ status = "ok" /\ ~Has("dry") /\ ~Has("ignore") =>
             \A n \in DOMAIN scope, r \in NsRelease :
                 /\ r \in ns[n].objects \cap scope[n] => <<n, r>> \in missed
                 /\ pfaults = MaxPurgeFaults => r \notin ns[n].records \cap scope[n]

(* docs/cli/purge.md:31-32: with --yes it "uninstalls every in-scope       *)
(* release (deleting its stored history)".  It is not so: a last record    *)
(* that cannot be read counts as a release that is not there               *)
(* (uninstall.go:48-54), and its records are deleted with all its objects  *)
(* left, without an error.                                                 *)
PurgeUninstallsAll ==
    status = "ok" /\ flags = {} =>
        \A n \in DOMAIN scope : scope[n] \cap ns[n].objects \subseteq ns[n].records
=============================================================================
