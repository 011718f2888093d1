----------------------------- MODULE ReleaseOps -----------------------------
(***************************************************************************)
(* The operations on one release: install, upgrade, rollback and uninstall *)
(* (internal/action), run by any number of clients at once: keramos        *)
(* processes, workspace workers, the controller.  No lock is held; clients *)
(* meet only in the store and in the cluster.                              *)
(*                                                                         *)
(* Each client is a process with a program counter and the records it read *)
(* earlier.  Every storage call and every API call on one resource is a    *)
(* step of its own; what is computed between two calls (values, rendering, *)
(* policy) is part of the step before.  A client may crash between any two *)
(* calls.                                                                  *)
(***************************************************************************)
EXTENDS ReleaseStore, KubeCluster

CONSTANTS Client,          \* the concurrent callers
          Requests,        \* the requests a caller may make
          MaxOps,          \* bound: requests started in a behaviour
          MaxCrashes       \* bound: client crashes in a behaviour

VARIABLES run,             \* Client -> the state of its operation
          started,         \* requests started so far
          crashes          \* crashes so far

vars == <<store, storeFaults, cluster, kubeFaults, run, started, crashes>>
budget == <<started, crashes>>
world == <<store, storeFaults, cluster, kubeFaults>>

-----------------------------------------------------------------------------
(* Requests: the options of InstallOptions, UpgradeOptions, RollbackOptions *)
(* and UninstallOptions that steer the control flow.  target is the        *)
(* revision to roll back to (0: the previous one), max is --history-max.   *)

Kind == {"install", "upgrade", "rollback", "uninstall"}

Plain(kind, ch) ==
    [kind |-> kind, chart |-> ch, target |-> 0, max |-> 0,
     atomic |-> FALSE, cleanup |-> FALSE, force |-> FALSE, wait |-> FALSE,
     jobs |-> FALSE, install |-> FALSE, keep |-> FALSE]

NoRequest == Plain("none", NoChart)

Request == [kind : Kind, chart : Chart, target : Nat, max : Nat,
            atomic : BOOLEAN, cleanup : BOOLEAN, force : BOOLEAN, wait : BOOLEAN,
            jobs : BOOLEAN, install : BOOLEAN, keep : BOOLEAN]

ASSUME RequestsAssumption ==
    /\ Requests \subseteq Request
    /\ \A q \in Requests : q.kind = "rollback" => ~q.atomic /\ ~q.jobs
ASSUME OpsAssumption == MaxOps \in Nat /\ MaxCrashes \in Nat

(* upgrade --install hands only some of its options to Install.            *)
AsInstall(q) == [Plain("install", q.chart) EXCEPT !.atomic = q.atomic, !.wait = q.wait]

-----------------------------------------------------------------------------
(* The state of a client's operation.                                      *)

PC == {"idle", "read", "target", "create", "mark", "pre", "crds", "snapshot",
       "force", "predelete", "apply", "jobs", "wait", "post", "dropped",
       "deploy", "history", "supersede", "prunable", "prune",
       "delete", "gone", "postdelete", "purgeable", "purge", "keep",
       "fail", "reapply", "cleanup", "undodelete", "undoapply", "undofailed",
       "undoprev"}

Cause == {"none", "pre", "crds", "force", "apply", "jobs", "wait", "post",
          "delete", "gone"}

Outcome == {"none", "ok", "error", "incomplete", "crashed"}

(* req: the request; cur: the record Last returned, as held in memory;     *)
(* rel: the record being written (the new revision, or cur itself for      *)
(* uninstall); todo: the resources a walk has left; copies: the records a  *)
(* walk over the history has left; tries: failed attempts of the present   *)
(* write; snap: the cleanup-on-fail snapshot; cause: which step failed;    *)
(* sec: a secondary failure was recorded or logged; out: the last outcome. *)
RunState == [pc : PC, req : Request \cup {NoRequest},
             cur : Release \cup {NoRelease}, rel : Release \cup {NoRelease},
             todo : SUBSET Resource, copies : SUBSET Release, tries : 0 .. 2,
             snap : SUBSET Resource, cause : Cause, sec : BOOLEAN, out : Outcome]

IdleRun(out) == [pc |-> "idle", req |-> NoRequest, cur |-> NoRelease, rel |-> NoRelease,
                 todo |-> {}, copies |-> {}, tries |-> 0, snap |-> {},
                 cause |-> "none", sec |-> FALSE, out |-> out]

(* What a client holds at each point: a request once it works, the record  *)
(* Last returned unless it installs, the record to write once it is chosen.*)
UsesPrevious == {"read", "target", "snapshot", "force", "predelete", "dropped",
                 "reapply", "undodelete", "undoapply", "undofailed", "undoprev"}

Holding(s) ==
    /\ s.pc # "idle" => s.req \in Request
    /\ s.pc \notin {"idle", "read", "target"} => s.rel \in Release
    /\ s.pc \notin {"idle", "read"} /\ s.req.kind # "install" => s.cur \in Release
    /\ s.pc \in UsesPrevious => s.req.kind # "install"

TypeOK == /\ StoreTypeOK
          /\ ClusterTypeOK
          /\ run \in [Client -> RunState]
          /\ \A c \in Client : Holding(run[c])
          /\ started \in 0 .. MaxOps
          /\ crashes \in 0 .. MaxCrashes

Init == /\ StoreInit
        /\ ClusterInit
        /\ run = [c \in Client |-> IdleRun("none")]
        /\ started = 0
        /\ crashes = 0

Become(c, s) == run' = [run EXCEPT ![c] = s] /\ UNCHANGED budget

-----------------------------------------------------------------------------
(* Where an operation goes next, as functions of the client's state.       *)

To(s, pc) == [s EXCEPT !.pc = pc, !.todo = {}, !.copies = {}, !.tries = 0]
Walk(s, pc, todo) == [To(s, pc) EXCEPT !.todo = todo]
Visit(s, pc, copies) == [To(s, pc) EXCEPT !.copies = copies]
Warn(s) == [s EXCEPT !.sec = TRUE]

Finish(s, out) == [To(s, "idle") EXCEPT !.snap = {}, !.out = out]
Succeed(s) == Finish(s, "ok")
(* combineFailure: an incomplete recovery is reported as such.             *)
GiveUp(s) == Finish(s, IF s.sec THEN "incomplete" ELSE "error")
(* Mutant of Fail: return without markFailed.                              *)
FailUnrecorded(s, cause) == GiveUp([s EXCEPT !.cause = cause])
Fail(s, cause) == [To(s, "fail") EXCEPT !.cause = cause]

(* A deletion of todo that first has to parse its manifests.               *)
WalkIfParsed(s, pc, todo, parsed) ==
    IF parsed THEN Walk(s, pc, todo) ELSE Walk(Warn(s), pc, {})

ToApply(s) == Walk(s, "apply", Manifest[s.rel.chart])
AfterSnapshot(s) == IF s.req.force THEN To(s, "force") ELSE ToApply(s)
AfterCRDs(s) == IF s.req.kind = "upgrade" /\ s.req.cleanup THEN To(s, "snapshot")
                ELSE IF s.req.kind = "upgrade" THEN AfterSnapshot(s) ELSE ToApply(s)
AfterJobs(s) == To(s, IF s.req.wait THEN "wait" ELSE "post")
AfterApply(s) == IF s.req.jobs /\ s.req.wait THEN To(s, "jobs") ELSE AfterJobs(s)
AfterSupersede(s) == IF s.req.max > 0 THEN To(s, "prunable") ELSE Succeed(s)
(* Mutant: a rollback supersedes nothing.                                  *)
AfterDeployUpgradeOnly(s) ==
    IF s.req.kind = "upgrade" THEN To(s, "history") ELSE AfterSupersede(s)
AfterDeploy(s) == IF s.req.kind = "install" THEN AfterSupersede(s) ELSE To(s, "history")

(* After a failed upgrade has cleaned up: undo it if it is atomic.  A CRD  *)
(* failure and a failed pre-delete return before the atomic branch.        *)
AfterCleanup(s) ==
    IF s.req.kind = "upgrade" /\ s.req.atomic /\ s.cause \notin {"crds", "force"}
    THEN WalkIfParsed(s, "undodelete", Orphans(s.rel.chart, s.cur.chart),
                      Parses(s.rel.chart) /\ Parses(s.cur.chart))
    ELSE GiveUp(s)

(* What follows markFailed, by operation and failing step.                 *)
AfterMarkFailed(s) ==
    LET q == s.req
        whole == WalkIfParsed(s, "cleanup", Deletable(s.rel.chart), Parses(s.rel.chart))
    IN  CASE q.kind = "install" /\ s.cause \notin {"pre", "crds"} /\ (q.atomic \/ q.cleanup)
               -> whole
          [] q.kind = "rollback" /\ s.cause = "apply" /\ q.cleanup
               -> whole
          [] q.kind = "upgrade" /\ s.cause = "apply" /\ q.cleanup
               -> WalkIfParsed(s, "cleanup", Deletable(s.rel.chart) \ s.snap, Parses(s.rel.chart))
          [] q.kind = "upgrade" /\ s.cause = "wait" /\ q.cleanup
               -> Walk(s, "reapply", Manifest[s.cur.chart])
          [] OTHER -> AfterCleanup(s)

-----------------------------------------------------------------------------
(* Single calls of a client at program counter pc.                         *)

At(c, pc) == run[c].pc = pc

(* A call on the cluster that is not a walk: a hook phase, a wait.         *)
KubeCall(c, pc, done, failed) ==
    /\ At(c, pc)
    /\ \/ KubeOk /\ Become(c, done)
       \/ KubeFails /\ Become(c, failed)
    /\ UNCHANGED <<store, storeFaults>>

(* ApplyManifests (and ApplyCRDs) over what todo holds of ch.              *)
Applying(c, pc, ch, done, failed) ==
    LET s == run[c] IN
    /\ At(c, pc)
    /\ \/ Parses(ch) /\ s.todo = {} /\ KubeOk /\ Become(c, done)
       \/ ~Parses(ch) /\ KubeOk /\ Become(c, failed)
       \/ /\ Parses(ch)
          /\ \E r \in s.todo :
               /\ First(r, s.todo)
               /\ \/ ApplyOk(r, ch) /\ Become(c, [s EXCEPT !.todo = @ \ {r}])
                  \/ ApplyFails(r, ch) /\ Become(c, failed)
    /\ UNCHANGED <<store, storeFaults>>

(* DeleteManifests and DeleteResources over todo.                          *)
Deleting(c, pc, done, failed) ==
    LET s == run[c] IN
    /\ At(c, pc)
    /\ \/ s.todo = {} /\ KubeOk /\ Become(c, done)
       \/ \E r \in s.todo :
            /\ Final(r, s.todo)
            /\ \/ RemoveOk(r) /\ Become(c, [s EXCEPT !.todo = @ \ {r}])
               \/ RemoveFails(r) /\ Become(c, failed)
    /\ UNCHANGED <<store, storeFaults>>

(* storage.Update of record x, tried once.                                 *)
Writing(c, pc, x, done, failed) ==
    /\ At(c, pc)
    /\ \/ UpdateOk(x) /\ Become(c, done)
       \/ UpdateFails(x) /\ Become(c, failed)
    /\ UNCHANGED <<cluster, kubeFaults>>

(* Mutant: retry without a limit.                                          *)
UnlimitedUpdate(c, pc, x, done, failed) == Writing(c, pc, x, done, run[c])

(* updateReleaseWithRetry: three attempts.                                 *)
RetriedUpdate(c, pc, x, done, failed) ==
    LET s == run[c] IN
    Writing(c, pc, x, done, IF s.tries < 2 THEN [s EXCEPT !.tries = @ + 1] ELSE failed)

(* History read at pc: done is entered with the records in sel as copies.  *)
ReadHistory(c, pc, sel, next, failed) ==
    /\ At(c, pc)
    /\ \/ ReadOk /\ Become(c, Visit(run[c], next, sel))
       \/ ReadFails /\ Become(c, failed)
    /\ UNCHANGED <<cluster, kubeFaults>>

(* The oldest of the copies a walk over the history has left.              *)
Oldest(x, copies) == x \in copies /\ \A y \in copies : x.rev <= y.rev

(* storage.Delete of each copy, oldest first; a failure is only logged.    *)
Dropping(c, pc, done) ==
    LET s == run[c] IN
    /\ At(c, pc)
    /\ \/ s.copies = {} /\ ReadOk /\ Become(c, done)
       \/ \E x \in s.copies :
            /\ Oldest(x, s.copies)
            /\ \/ DeleteOk(x.rev) /\ Become(c, [s EXCEPT !.copies = @ \ {x}])
               \/ DeleteFails(x.rev) /\ Become(c, Warn([s EXCEPT !.copies = @ \ {x}]))
    /\ UNCHANGED <<cluster, kubeFaults>>

-----------------------------------------------------------------------------
(* Starting: the request, then the reads that fix the new revision number. *)

(* Mutant: a number is skipped.                                            *)
NewReleaseSkipping(rev, ch, kind) ==
    [rev |-> rev + 1, chart |-> ch, status |-> "pending-upgrade"]

NewRelease(rev, ch, kind) ==
    [rev |-> rev, chart |-> ch,
     status |-> CASE kind = "install" -> "pending-install"
                  [] kind = "upgrade" -> "pending-upgrade"
                  [] OTHER -> "pending-rollback"]

(* Mutant: an install that counts from zero.                               *)
ToInstallAtZero(s, q) ==
    [To(s, "create") EXCEPT !.req = q, !.rel = NewRelease(0, q.chart, "install")]

(* Install reads nothing: it goes straight for revision 1.                 *)
ToInstall(s, q) ==
    [To(s, "create") EXCEPT !.req = q, !.rel = NewRelease(1, q.chart, "install")]

Start(c) ==
    /\ At(c, "idle")
    /\ started < MaxOps
    /\ started' = started + 1
    /\ \E q \in Requests :
         LET s == IdleRun("none") IN
         run' = [run EXCEPT ![c] =
                   IF q.kind = "install" THEN ToInstall(s, q)
                   ELSE [To(s, "read") EXCEPT !.req = q]]
    /\ UNCHANGED <<world, crashes>>

(* storage.Last, then the revision the operation will write.               *)
ReadLast(c) ==
    LET s == run[c]
        Loaded(r) == [s EXCEPT !.cur = CopyOf(r)]
    IN
    /\ At(c, "read")
    /\ \/ /\ Stored = {} /\ ReadOk
          /\ Become(c, IF s.req.kind = "upgrade" /\ s.req.install
                       THEN ToInstall(s, AsInstall(s.req)) ELSE GiveUp(s))
       \/ /\ ReadOk
          /\ \E r \in Rev :
               /\ IsLast(r)
               /\ Become(c,
                    CASE s.req.kind = "upgrade" ->
                           [To(Loaded(r), "create") EXCEPT
                              !.rel = NewRelease(r + 1, s.req.chart, "upgrade")]
                      [] s.req.kind = "rollback" -> To(Loaded(r), "target")
                      [] OTHER -> [To(Loaded(r), "mark") EXCEPT
                                     !.rel = [CopyOf(r) EXCEPT !.status = "uninstalling"]])
               /\ s.req.kind = "upgrade" => r < MaxRev
       \/ ReadFails /\ Become(c, GiveUp(s))
    /\ UNCHANGED <<cluster, kubeFaults>>

(* Rollback: storage.Get of the target, whose manifest the new revision    *)
(* copies.                                                                 *)
ReadTarget(c) ==
    LET s == run[c]
        t == IF s.req.target = 0 THEN s.cur.rev - 1 ELSE s.req.target
    IN
    /\ At(c, "target")
    /\ \/ t \notin Stored /\ ReadOk /\ Become(c, GiveUp(s))
       \/ /\ t \in Stored /\ s.cur.rev < MaxRev /\ ReadOk
          /\ Become(c, [To(s, "create") EXCEPT
                          !.rel = NewRelease(s.cur.rev + 1, store[t].chart, "rollback")])
       \/ t \in Stored /\ ReadFails /\ Become(c, GiveUp(s))
    /\ UNCHANGED <<cluster, kubeFaults>>

(* storage.Create claims the revision; a failure leaves the operation with *)
(* nothing done, even when the record landed.                              *)
CreateRevision(c) ==
    LET s == run[c] IN
    /\ At(c, "create")
    /\ \/ CreateOk(s.rel) /\ Become(c, To(s, "pre"))
       \/ CreateFails(s.rel) /\ Become(c, GiveUp(s))
    /\ UNCHANGED <<cluster, kubeFaults>>

-----------------------------------------------------------------------------
(* Installing, upgrading and rolling back.                                 *)

Creating(c) == run[c].req.kind \in {"install", "upgrade", "rollback"}

(* Hooks of the operation's first phase; CRDs from crds/ come next, except *)
(* in a rollback.                                                          *)
PreHooks(c) ==
    LET s == run[c] IN
    /\ Creating(c)
    /\ KubeCall(c, "pre",
         IF s.req.kind = "rollback" THEN AfterSnapshot(s)
         ELSE Walk(s, "crds", Manifest[s.rel.chart] \cap CRD),
         Fail(s, "pre"))

(* The crds/ directory is parsed apart from the templates, so a manifest   *)
(* that does not parse as a whole may still have its CRDs applied.         *)
ApplyCRDs(c) ==
    LET s == run[c] IN
    /\ At(c, "crds")
    /\ \/ s.todo = {} /\ KubeOk /\ Become(c, AfterCRDs(s))
       \/ \E r \in s.todo :
            /\ First(r, s.todo)
            /\ \/ ApplyOk(r, s.rel.chart) /\ Become(c, [s EXCEPT !.todo = @ \ {r}])
               \/ ApplyFails(r, s.rel.chart) /\ Become(c, Fail(s, "crds"))
    /\ UNCHANGED <<store, storeFaults>>

(* upgrade --cleanup-on-fail: which of the resources exist already.        *)
TakeSnapshot(c) ==
    LET s == run[c]
        ch == s.rel.chart
    IN
    /\ At(c, "snapshot")
    /\ \/ ~Parses(ch) /\ KubeOk /\ Become(c, AfterSnapshot(s))
       \/ /\ Parses(ch)
          /\ \E S \in SUBSET Manifest[ch] :
               Snapshot(ch, S) /\ Become(c, AfterSnapshot([s EXCEPT !.snap = S]))
    /\ UNCHANGED <<store, storeFaults>>

(* --force: choose what to delete before applying.  An upgrade deletes the *)
(* diverging resources that the previous manifest declares, or the whole   *)
(* previous manifest when the new one does not parse; a rollback always    *)
(* deletes the whole of it.                                                *)
ChooseForced(c) ==
    LET s == run[c]
        Deleted(S) == IF Parses(s.cur.chart) THEN Walk(s, "predelete", S)
                      ELSE Fail(s, "force")
        all == Deletable(s.cur.chart)
    IN
    /\ At(c, "force")
    /\ KubeOk
    /\ IF s.req.kind = "rollback" \/ ~Parses(s.rel.chart)
       THEN Become(c, Deleted(all))
       ELSE \E need \in SUBSET Diverging(s.rel.chart) :
              Become(c, IF need = {} THEN ToApply(s) ELSE Deleted(all \cap need))
    /\ UNCHANGED <<store, storeFaults>>

PreDelete(c) ==
    Deleting(c, "predelete", ToApply(run[c]), Fail(run[c], "force"))

(* Mutant: the error of ApplyManifests is dropped.                         *)
ApplyReleaseIgnoringErrors(c) ==
    Applying(c, "apply", run[c].rel.chart, AfterApply(run[c]), AfterApply(run[c]))

ApplyRelease(c) ==
    Applying(c, "apply", run[c].rel.chart, AfterApply(run[c]), Fail(run[c], "apply"))

WaitForJobs(c) == KubeCall(c, "jobs", AfterJobs(run[c]), Fail(run[c], "jobs"))

WaitForReady(c) == KubeCall(c, "wait", To(run[c], "post"), Fail(run[c], "wait"))

(* Post hooks; an upgrade then prunes what its package no longer declares  *)
(* compared with the revision it read (pruneRemovedResources).             *)
PostHooks(c) ==
    LET s == run[c] IN
    KubeCall(c, "post",
        IF s.req.kind = "upgrade"
        THEN WalkIfParsed(s, "dropped", WithoutCRDs(Orphans(s.cur.chart, s.rel.chart)),
                          Parses(s.cur.chart))
        ELSE To(s, "deploy"),
        Fail(s, "post"))

PruneRemoved(c) ==
    Deleting(c, "dropped", To(run[c], "deploy"), To(Warn(run[c]), "deploy"))

(* The final status write.  Its failure is returned; the record stays      *)
(* pending.                                                                *)
MarkDeployed(c) ==
    LET s == [run[c] EXCEPT !.rel.status = "deployed"] IN
    RetriedUpdate(c, "deploy", s.rel, AfterDeploy(s), GiveUp(s))

(* supersedeOtherDeployed.                                                 *)
ReadHistoryToSupersede(c) ==
    LET s == run[c] IN
    ReadHistory(c, "history",
        {x \in History : x.status = "deployed" /\ x.rev # s.rel.rev}, "supersede",
        AfterSupersede(Warn(s)))

Supersede(c) ==
    LET s == run[c] IN
    \/ /\ At(c, "supersede") /\ s.copies = {}
       /\ Become(c, AfterSupersede(s)) /\ UNCHANGED world
    \/ \E x \in s.copies :
         LET rest == Visit(s, "supersede", s.copies \ {x}) IN
         /\ Oldest(x, s.copies)
         /\ RetriedUpdate(c, "supersede", [x EXCEPT !.status = "superseded"],
                          rest, Warn(rest))

(* Mutant: one record too many is kept.                                    *)
PrunableOffByOne(h, max) ==
    {x \in h : Cardinality({y \in h : y.rev > x.rev}) > max}

(* pruneReleaseHistory: what lies beyond the newest max records goes,      *)
(* except the newest deployed one.                                         *)
Prunable(h, max) ==
    {x \in h : /\ Cardinality({y \in h : y.rev >= x.rev}) > max
               /\ ~ /\ x.status = "deployed"
                    /\ \A y \in h : y.status = "deployed" => y.rev <= x.rev}

ReadHistoryToPrune(c) ==
    LET s == run[c] IN
    ReadHistory(c, "prunable", Prunable(History, s.req.max), "prune", Succeed(Warn(s)))

PruneHistory(c) == Dropping(c, "prune", Succeed(run[c]))

-----------------------------------------------------------------------------
(* Failing: markFailed, then the recovery the options ask for.             *)

MarkFailed(c) ==
    LET s == [run[c] EXCEPT !.rel.status = "failed"] IN
    Writing(c, "fail", s.rel, AfterMarkFailed(s), AfterMarkFailed(Warn(s)))

(* upgrade --cleanup-on-fail after a failed wait: the previous manifest    *)
(* again, then the deletion of what only the failed one declares.          *)
ReapplyPrevious(c) ==
    LET s == run[c]
        Next1(t) == WalkIfParsed(t, "cleanup", Orphans(s.rel.chart, s.cur.chart),
                                 Parses(s.rel.chart) /\ Parses(s.cur.chart))
    IN  Applying(c, "reapply", s.cur.chart, Next1(s), Next1(Warn(s)))

(* Mutant: the failed cleanup is not reported.                             *)
CleanUpSilently(c) ==
    Deleting(c, "cleanup", AfterCleanup(run[c]), AfterCleanup(run[c]))

CleanUp(c) ==
    Deleting(c, "cleanup", AfterCleanup(run[c]), AfterCleanup(Warn(run[c])))

(* atomicRollbackUpgrade: every step is taken whatever became of the one   *)
(* before.  The record of the revision the upgrade had read is written     *)
(* back as deployed, whatever its status was.                              *)
UndoDelete(c) ==
    LET s == run[c]
        Next1(t) == Walk(t, "undoapply", Manifest[s.cur.chart])
    IN  Deleting(c, "undodelete", Next1(s), Next1(Warn(s)))

UndoApply(c) ==
    LET s == run[c] IN
    Applying(c, "undoapply", s.cur.chart, To(s, "undofailed"), To(Warn(s), "undofailed"))

UndoMarkFailed(c) ==
    LET s == run[c] IN
    Writing(c, "undofailed", [s.rel EXCEPT !.status = "failed"],
            To(s, "undoprev"), To(Warn(s), "undoprev"))

(* Mutant: the failed release is written under the previous revision.      *)
UndoOverPrevious(c) ==
    LET s == run[c]
        x == [s.rel EXCEPT !.rev = s.cur.rev, !.status = "deployed"]
    IN  Writing(c, "undoprev", x, GiveUp(s), GiveUp(Warn(s)))

UndoRestorePrevious(c) ==
    LET s == [run[c] EXCEPT !.cur.status = "deployed"] IN
    Writing(c, "undoprev", s.cur, GiveUp(s), GiveUp(Warn(s)))

-----------------------------------------------------------------------------
(* Uninstalling: rel is the record read, marked uninstalling.              *)

Uninstalling(c) == run[c].req.kind = "uninstall"

MarkUninstalling(c) ==
    LET s == run[c] IN Writing(c, "mark", s.rel, To(s, "pre"), GiveUp(s))

PreDeleteHooks(c) ==
    LET s == run[c] IN
    /\ Uninstalling(c)
    /\ KubeCall(c, "pre",
         IF Parses(s.rel.chart) THEN Walk(s, "delete", WithoutCRDs(Deletable(s.rel.chart)))
         ELSE Fail(s, "delete"),
         Fail(s, "pre"))

(* Mutant: a failed deletion does not stop the uninstall.                  *)
DeleteReleaseIgnoringErrors(c) ==
    LET next == To(run[c], "postdelete") IN Deleting(c, "delete", next, next)

DeleteRelease(c) ==
    LET s == run[c] IN
    Deleting(c, "delete", To(s, IF s.req.wait THEN "gone" ELSE "postdelete"),
             Fail(s, "delete"))

(* waitForDeletion polls every resource of the manifest that is not kept;  *)
(* a lookup error counts as gone.  It times out on one that stays.         *)
WaitForDeletion(c) ==
    LET s == run[c]
        remaining == Deletable(s.rel.chart) \cap Live
    IN
    /\ At(c, "gone")
    /\ \/ remaining = {} /\ KubeOk /\ Become(c, To(s, "postdelete"))
       \/ remaining # {} /\ KubeOk /\ Become(c, Fail(s, "gone"))
       \/ KubeFails /\ Become(c, To(s, "postdelete"))
       \/ KubeFails /\ Become(c, Fail(s, "gone"))
    /\ UNCHANGED <<store, storeFaults>>

PostDeleteHooks(c) ==
    LET s == run[c] IN
    KubeCall(c, "postdelete", To(s, IF s.req.keep THEN "keep" ELSE "purgeable"),
             Fail(s, "post"))

(* Without --keep-history the records go, oldest first.                    *)
ReadHistoryToPurge(c) ==
    ReadHistory(c, "purgeable", History, "purge", GiveUp(run[c]))

PurgeHistory(c) == Dropping(c, "purge", Succeed(run[c]))

KeepHistory(c) ==
    LET s == [run[c] EXCEPT !.rel.status = "superseded"] IN
    Writing(c, "keep", s.rel, Succeed(s), GiveUp(s))

-----------------------------------------------------------------------------
(* The process dies (Ctrl-C, eviction, lost node): what it held in memory  *)
(* is gone, the store and the cluster stay as they are.                    *)
Crash(c) ==
    /\ run[c].pc # "idle"
    /\ crashes < MaxCrashes
    /\ crashes' = crashes + 1
    /\ run' = [run EXCEPT ![c] = IdleRun("crashed")]
    /\ UNCHANGED <<world, started>>

ReleaseStep(c) ==
    \/ ReadLast(c) \/ ReadTarget(c) \/ CreateRevision(c)
    \/ PreHooks(c) \/ ApplyCRDs(c) \/ TakeSnapshot(c) \/ ChooseForced(c)
    \/ PreDelete(c) \/ ApplyRelease(c) \/ WaitForJobs(c) \/ WaitForReady(c)
    \/ PostHooks(c) \/ PruneRemoved(c) \/ MarkDeployed(c)
    \/ ReadHistoryToSupersede(c) \/ Supersede(c)
    \/ ReadHistoryToPrune(c) \/ PruneHistory(c)

RecoveryStep(c) ==
    \/ MarkFailed(c) \/ ReapplyPrevious(c) \/ CleanUp(c)
    \/ UndoDelete(c) \/ UndoApply(c) \/ UndoMarkFailed(c) \/ UndoRestorePrevious(c)

UninstallStep(c) ==
    \/ MarkUninstalling(c) \/ PreDeleteHooks(c) \/ DeleteRelease(c)
    \/ WaitForDeletion(c) \/ PostDeleteHooks(c)
    \/ ReadHistoryToPurge(c) \/ PurgeHistory(c) \/ KeepHistory(c)

Step(c) == ReleaseStep(c) \/ RecoveryStep(c) \/ UninstallStep(c)

Quiet == \A c \in Client : At(c, "idle")

(* Nothing left to do within the bounds: every other stuck state is a      *)
(* deadlock.                                                               *)
Rest == Quiet /\ started = MaxOps /\ UNCHANGED vars

Next == \/ \E c \in Client : Start(c) \/ Step(c) \/ Crash(c)
        \/ Rest

Spec == Init /\ [][Next]_vars

(* A client that has not crashed goes on: every call it makes returns or   *)
(* times out.  Nobody is obliged to make a request.                        *)
FairSpec == Spec /\ \A c \in Client : WF_vars(Step(c))
=============================================================================
