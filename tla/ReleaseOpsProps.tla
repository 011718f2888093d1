-------------------------- MODULE ReleaseOpsProps ---------------------------
(***************************************************************************)
(* What the operations on a release promise.  The properties of one client *)
(* working alone come first, then those of concurrent clients, then the    *)
(* statements of the documentation that the operations do not keep.        *)
(***************************************************************************)
EXTENDS ReleaseOps

Ended(c, out) == At(c, "idle") /\ run[c].out = out
Kinds(c, ks) == run[c].req.kind \in ks
StoreReliable == storeFaults = MaxStoreFaults

-----------------------------------------------------------------------------
(* One client at a time.                                                   *)

(* supersedeOtherDeployed (upgrade.go:582-585): an upgrade or a rollback   *)
(* that ends without a warning leaves its revision as the only deployed    *)
(* one, whatever crashes and failures came before it.                      *)
SuccessLeavesOneDeployed ==
    \A c \in Client :
        Ended(c, "ok") /\ Kinds(c, {"upgrade", "rollback"}) /\ ~run[c].sec
            => DeployedRevs = {run[c].rel.rev}

(* While the store is reliable, the newest record is never deployed with   *)
(* its manifest not live: the status is written after the cluster calls,   *)
(* the purge of an uninstall goes from the oldest record up (it may crash  *)
(* half way), and an atomic rollback leaves a failed record on top.        *)
DeployedLastIsLive ==
    Quiet /\ StoreReliable =>
        \A r \in Rev :
            IsLast(r) /\ store[r].status = "deployed"
                => \A x \in Manifest[store[r].chart] : cluster[x] = store[r].chart

(* atomicRollbackUpgrade: an atomic upgrade that fails without reporting   *)
(* an incomplete recovery has put the previous manifest back, removed what *)
(* only the failed one declares, and recorded both.                        *)
AtomicFailureRestores ==
    \A c \in Client :
        LET s == run[c] IN
        /\ Ended(c, "error") /\ Kinds(c, {"upgrade"}) /\ s.req.atomic
        /\ s.cause \notin {"none", "crds", "force"}
        => /\ \A x \in Manifest[s.cur.chart] : cluster[x] = s.cur.chart
           /\ \A x \in Orphans(s.rel.chart, s.cur.chart) : cluster[x] = Absent
           /\ store[s.cur.rev].status = "deployed"
           /\ store[s.rel.rev].status = "failed"

(* failInstall: a failed install with --atomic or --cleanup-on-fail that   *)
(* reports a complete recovery leaves nothing of its manifest but what is  *)
(* kept on purpose.                                                        *)
FailedInstallLeavesNothing ==
    \A c \in Client :
        LET s == run[c] IN
        /\ Ended(c, "error") /\ Kinds(c, {"install"}) /\ (s.req.atomic \/ s.req.cleanup)
        /\ s.cause \notin {"none", "pre", "crds"}
        => Deletable(s.rel.chart) \cap Live = {}

(* pruneReleaseHistory (upgrade.go:533-566): an operation with             *)
(* --history-max chooses none but the oldest records for deletion, and     *)
(* when it ends without a warning at most that many records are left, its  *)
(* own among them.  A deletion that failed in an earlier operation may     *)
(* have left a hole in between.                                            *)
PruneKeepsTheNewest ==
    \A c \in Client :
        LET s == run[c]
            chosen == {x.rev : x \in s.copies}
        IN  Kinds(c, {"upgrade", "rollback"}) /\ s.req.max > 0 /\ ~s.sec
            => /\ At(c, "prune") => \A x \in s.copies, r \in Stored \ chosen : x.rev < r
               /\ Ended(c, "ok") => Cardinality(Stored) <= s.req.max /\ s.rel.rev \in Stored

(* Uninstall deletes the objects of the newest revision before the first   *)
(* record, purges from the oldest record up, and stops at a failed         *)
(* deletion: the newest record, the only list of what to delete, outlives  *)
(* the objects it declares, crashes and retries included.                  *)
RecordOutlivesItsObjects ==
    [][\A r \in Stored \ Stored' :
          IsLast(r) => WithoutCRDs(Deletable(store[r].chart)) \cap Live = {}]_vars

-----------------------------------------------------------------------------
(* Concurrent clients.                                                     *)

(* The program counters of an operation that owns a revision it created.   *)
Owning(c) == /\ Kinds(c, {"install", "upgrade", "rollback"})
             /\ ~At(c, "idle") /\ ~At(c, "read") /\ ~At(c, "target") /\ ~At(c, "create")

(* storage.Create is put-if-absent: as long as no record is removed, two   *)
(* operations never work on the same revision.                             *)
RevisionHasOneOwner ==
    \A c, d \in Client :
        Owning(c) /\ Owning(d) /\ run[c].rel.rev = run[d].rel.rev => c = d

(* A record is pending only while its operation is at work, unless a       *)
(* client crashed or a storage call failed.                                *)
PendingIsOwned ==
    StoreReliable /\ crashes = 0 =>
        \A r \in Stored : store[r].status \in Pending =>
            \E c \in Client : Owning(c) /\ run[c].rel.rev = r

(* The history of a release is a log (see RevisionLog).                    *)
Log == INSTANCE RevisionLog WITH log <- store
HistoryIsALog == Log!LogSpec

(* Why it is one: revisions have no holes, and every record a client keeps  *)
(* in memory between two calls carries the manifest stored under its       *)
(* revision, so that writing it back whole (storage.Update) changes the    *)
(* status alone; the number an operation is about to claim is at most one  *)
(* above the newest.                                                       *)
Matches(y) == y.rev \in Stored /\ store[y.rev].chart = y.chart

Removing == {"mark", "prunable", "prune", "delete", "gone", "postdelete",
             "purgeable", "purge", "keep"}

Recorded(s) ==
    /\ s.pc \notin {"idle", "read"} /\ s.req.kind # "install" => Matches(s.cur)
    /\ s.pc \notin {"idle", "read", "target", "create"} => Matches(s.rel)
    /\ s.pc = "create" => /\ s.rel.status \in Pending
                          /\ \A r \in Rev : r < s.rel.rev => r \in Stored
    /\ \A y \in s.copies : Matches(y)

OnlyAdding(s) == /\ s.pc \notin Removing
                 /\ s.pc # "idle" => s.req.kind # "uninstall" /\ s.req.max = 0

NoHoles == \A r \in Stored, s \in Rev : s < r => s \in Stored

LogInv == /\ NoHoles
          /\ \A c \in Client : Recorded(run[c]) /\ OnlyAdding(run[c])
          /\ RevisionHasOneOwner

(* Every operation returns: its walks, its retries and its recovery end,   *)
(* whatever the other clients do to the store and the cluster meanwhile.   *)
EveryOperationReturns ==
    \A c \in Client : ~At(c, "idle") ~> At(c, "idle")

-----------------------------------------------------------------------------
(* Statements of the documentation and the comments.                       *)

(* upgrade.go:582-583: after supersedeOtherDeployed exactly one deployed   *)
(* revision, the newest, exists.                                           *)
SomethingIsDeployed ==
    Quiet /\ (\A c \in Client : Ended(c, "ok") /\ Kinds(c, {"upgrade"})) => DeployedRevs # {}

(* upgrade.go:534-535: pruning always preserves the deployed revision: it  *)
(* removes a deployed record only while a newer deployed one is there.     *)
PruneSparesNewestDeployed ==
    [][\A r \in Stored \ Stored' :
          (\E c \in Client : At(c, "prune")) /\ store[r].status = "deployed"
              => \E n \in Stored' : n > r /\ store'[n].status = "deployed"]_vars

(* uninstall.go:30: uninstalling removes a release and its resources.      *)
UninstallLeavesNothing ==
    \A c \in Client :
        Quiet /\ Ended(c, "ok") /\ Kinds(c, {"uninstall"}) => Live \subseteq CRD \cup Keep

(* docs/cli/upgrade.md:33-34: a failed atomic upgrade has put the previous *)
(* manifest back, or says that it could not.                               *)
AtomicAlwaysRestores ==
    \A c \in Client :
        LET s == run[c] IN
        Ended(c, "error") /\ Kinds(c, {"upgrade"}) /\ s.req.atomic /\ s.cause # "none"
            => \A x \in Manifest[s.cur.chart] : cluster[x] = s.cur.chart
=============================================================================
