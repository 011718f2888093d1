# A TLA+ model of keramos

keramos installs packages into Kubernetes. A *release* is a named installation;
every install, upgrade and rollback of it is a *revision*, stored as one durable
record. There is no server and no lock: any number of keramos processes, workspace
workers and controllers act on the same release, and they meet only in the record
store and in the cluster.

The core of this project models exactly that: the store, the cluster and the four
release operations, call by call, with concurrent clients, failing calls, lost replies
and crashes. Around the core stand the commands built on the operations (workspace,
controller, canary, rename, prune, plan and apply, several clusters, purge), the clients
below them (hooks, readiness, ownership, drift, the store drivers), and what comes
before the first call (dependencies, repositories, layers, values, templates, schema,
policy and the pipeline that joins them). TLC checks all of it on small instances; TLAPS
proves the most important part for all instances.

Paths below are relative to `src/internal/` unless they start with `docs/`.

## 1. Inventory

| Component | State | Hard behaviour | Correct when | Modules |
|---|---|---|---|---|
| Release operations `action/{install,upgrade,rollback,uninstall}.go` | records in memory | other clients between any two calls, crashes, recovery that fails itself | one deployed revision, its manifest live; a failure that claims recovery has recovered; nothing live without a record | ReleaseOps |
| Release record, manifests `release/release.go`, `kube/resources.go` | — | which resources an upgrade drops or spares | orphans and order | ReleaseRecord |
| Release store `release/*.go` | one record per (release, revision) | lost replies, stale whole-record writes, records that do not decode, four drivers | a revision has one writer; history is a log; the drivers answer alike | ReleaseStore, Drivers |
| SQL schema `release/sql_storage.go` | two tables | several clients create or migrate at once | no record before its table | Drivers |
| Kubernetes client `kube/*.go` | cache of kinds | a walk that stops half way, ownership read before the write, kinds that come and go, status of an older generation | install order, keep policy, only own objects touched, ready means rolled out | KubeCluster, KubeClient, Ownership, Kinds |
| Hooks `hooks/hooks.go` | — | weights, delete policies, left-over Jobs | each hook once, in order, cleaned up | Hooks |
| Workspace, releases `workspace/`, `cli/{workspace,crossrel}.go` | shared result list | parallel members, health gate, atomic rollback | dependency order; every member once; all or nothing | Workspace, CrossRelease |
| Controller `cli/controller.go` | processed map, lease | own status writes, lost leadership | one leader; every change is reconciled | Controller |
| Canary `cli/canary.go` | baseline revision | stages, other operations between them | a failed canary ends at the baseline | Canary |
| Rename, prune `cli/rename_prune.go` | — | crash between the phases, stale list | no revision lost, the deployed one survives | HistoryCommands |
| Plan, apply `cli/plan_apply.go` | plan file | time between check and use | apply does what the plan showed or refuses | PlanApply |
| Several clusters `cli/multicluster.go` | results | bounded workers, undo | all or nothing | MultiInstall |
| Purge `cli/purge.go` | — | dead nodes, terminating namespaces, two scans | protected namespaces untouched, pods first | Purge |
| Drift, adoption `action/{drift,adopt}.go`, `cli/drift*.go` | — | objects with added fields | live equals recorded afterwards | Drift |
| Resolution of dependencies `repo/{resolver,dependency,lockfile}.go` | lock file, packages/ | replaced versions, torn lock, new content under an old version | lock, constraints, digests agree | Packages |
| Repositories `repo/*.go` | archives, index, caches, user's files | publication between two reads, redirects, retries, torn files | what is installed is what was published; credentials go where the user said | Registry, Transport, UserFiles |
| Tree, layers `deptree/`, `layer/` | one clone per git repository | heads that move, cycles, conditions | order of layers, scoped and forced values | PackageTree |
| Values `values/`, `maputil/` | trace | shapes that do not fit, paths, `--only` | the last source wins, the trace says so | Values |
| Engine `engine/` | — | four passes, nested scopes | renders as written | Templates |
| Schema, policy `action/schema.go`, `policy/` | — | keywords side by side, lists in paths | what passes is allowed | Schema, Policy |
| Install and upgrade pipeline `action/*`, `cli/{install,upgrade,template}.go` | — | restricted values, post-renderers, required packages | nothing unchecked reaches the cluster | Pipeline |
| Tests of a release `cli/test_cmd.go` | — | workers, retries, shared pods | a pass is a pass of this attempt | ReleaseTests |
| Plugins `plugin/`, `cli/plugin.go` | directories | a copy that breaks off, names declared twice | every plugin was accepted | Plugins |
| Migration, Helm compatibility, lint, diff, graph, SBOM, audit, tracing, output, read-only commands | — | — | text to text | — |

`PROJECT.json` lists every component with its status, and the hazards: what is hard
to test in this code, at the line where it bites, with the properties that cover it.

## 2. Modules

```
ReleaseRecord ─┬─ ReleaseStore ──┐
               ├─ KubeCluster ───┴─ ReleaseOps ─┬─ ReleaseOpsProps ── MCRelease
               └─ RevisionLog ── (INSTANCE) ────┘        │
                         ReleaseOps ── ReleaseLogProofs ── ReleaseSoloProofs
Workspace ── CrossRelease ─┬─ WorkspaceProofs
                           └─ MCWorkspace
Controller ── ControllerProofs
ReleaseWorld ── Canary, HistoryCommands, PlanApply, MultiInstall ──┐
Purge ─────────────────────────────────────────────────────────────┤ (and CommandProofs)
ClusterTask ─┬─ Ownership, Kinds, ReleaseTests ─┐                  │
   │         │      (ClientProofs) ─ KubeClient ┤                  │
   │         ├─ Hooks (ClientProofs) ───────────┤                  │
   │         ├─ Drivers (DriverProofs) ─────────┤                  │
   │         └─ Transport, Registry, UserFiles, │                  │
   │            Plugins ─ Packages ─────────────┤                  │
   │                      (PackageProofs)       │                  │
   │         ├─ Drift (ClientProofs) ───────────┤                  │
   └─ Values ─┬─ PackageTree ───────────────────┴─ MCTasks ── MCCommands
              └─ Policy ── Schema ── Templates ── Pipeline (─ MCTasks)
```

### The core

* **ReleaseRecord** — a record (`release/release.go`) is a revision, a manifest and a
  status; a manifest is abstracted to the chart it was rendered from. Resources are numbered in install order
  (`kube/resources.go`); `Orphans` is `computeOrphanedManifest`, `WithoutCRDs` is
  `excludeKinds`, `Deletable` what `DeleteManifests` does not skip. A chart in
  `Broken` has a manifest that does not parse.
* **ReleaseStore** — `release/storage.go` as one release name sees it.
  `store[r]` is the record of revision r. Create is put-if-absent, Update replaces
  the whole record of an existing key, Delete of a missing key succeeds. A faulty
  call fails with or without effect.
* **KubeCluster** — the objects of the release. `cluster[r]` is the chart whose
  version of r is live. Deletion is immediate.
* **ReleaseOps** — the operations. `run[c]` is a client: program counter, request,
  the record `Last` returned (`cur`), the record it writes (`rel`), what a walk over
  resources (`todo`) or records (`copies`) has left, attempts of a write, the
  cleanup snapshot, the failing step, whether a secondary failure was noted. One
  storage call, or one API call on one resource, is one step; another client, a
  fault or a crash may come between any two. Each recovery is modelled to the end:
  markFailed, cleanup-on-fail, `failInstall`, `atomicRollbackUpgrade`.
* **RevisionLog** — the abstract history: append the next entry, born pending; settle
  an entry without touching its manifest.
* **ReleaseOpsProps** — the properties. **MCRelease** — instances for TLC.
* **ReleaseLogProofs** (types and concurrent clients), **ReleaseSoloProofs** (a client
  alone) — the proofs.

How the code maps to actions:

| Code | Actions |
|---|---|
| `Upgrade` start, `Last`, install fallback, new revision | `Start`, `ReadLast`, `ToInstall`, `AsInstall` |
| `Rollback` target | `ReadTarget` |
| `storage.Create` | `CreateRevision` |
| pre hooks, `ApplyCRDs`, snapshot, `--force` | `PreHooks`, `ApplyCRDs`, `TakeSnapshot`, `ChooseForced`, `PreDelete` |
| `ApplyManifests`, waits, post hooks, `pruneRemovedResources` | `ApplyRelease`, `WaitForJobs`, `WaitForReady`, `PostHooks`, `PruneRemoved` |
| final status write, `supersedeOtherDeployed`, `pruneReleaseHistory` | `MarkDeployed`, `ReadHistoryToSupersede`, `Supersede`, `ReadHistoryToPrune`, `PruneHistory` |
| `markFailed`, cleanup-on-fail, `failInstall` | `MarkFailed`, `ReapplyPrevious`, `CleanUp` |
| `atomicRollbackUpgrade` | `UndoDelete`, `UndoApply`, `UndoMarkFailed`, `UndoRestorePrevious` |
| `Uninstall` | `MarkUninstalling`, `PreDeleteHooks`, `DeleteRelease`, `WaitForDeletion`, `PostDeleteHooks`, `ReadHistoryToPurge`, `PurgeHistory`, `KeepHistory` |

Operators whose comment begins with "Mutant" are deliberate mistakes. Each takes the
place of a definition to confirm that the property it is meant for can fail; the
specification does not use them.

### The commands

**Workspace** has the state of one run of `workspace install|upgrade|uninstall`: the
levels being formed (`Peel`: one step per level), the members of the level at work
(`Start` under the semaphore, `Finish`, until `LevelDone`), the health gate (`GatePasses`,
`GateFails`), `Decide` and the rollback (`Undo`). **CrossRelease** has the two sequential
orders, step by step, and what works through them: `topoSortReleases` (`ReadReleases`,
`Dequeue`, `Sorted`) and `runReleasesAction` for `releases install|upgrade|uninstall`,
`TopologicalOrder` (`ReadMembers`; one call of `visit` is a frame of a stack: `Visit`,
`VisitMember`, `VisitDependency`, `VisitReturns`) for `workspace plan`. `MCWorkspace` runs them over every
graph of three names, cyclic and incomplete ones included, against the definition of a
topological order, which is not how either of them is computed.

**Controller** has, for each replica, where it is in `reconcileAll`, its `processed`
map; the lease is the one of client-go with `LeaseDuration` and `RenewDeadline`
(`Acquire`, `Renew`, `Stop`, `Exit`). `Skip`, `Reconcile`, `Upgrade`, `StatusGet` and
`StatusPut` are `reconcileOne` and `setStatus`; `Edit`, `Drift` and `Tick` are the world.

**ReleaseWorld** is the abstraction of ReleaseOps the other commands need: an operation
on a release is one step with the outcomes ReleaseOps has for a client nobody interferes
with (`solo` checks those). **Canary**, **HistoryCommands** (rename and prune),
**PlanApply** and **MultiInstall** are state machines over it, one action per call of the
command, other clients' upgrades between them. **Purge** has namespaces with pods on live
and dead nodes, and the errors its jobs swallow: `JobFails` is a failure of the job,
`JobGoesOn` one that is taken for a release that is not there, or only logged (`missed` has
the releases an uninstall took for absent). Each command has a specification of its own (`CanarySpec`, `RenameSpec`,
`PruneSpec`, `PlanSpec`, `MultiSpec`, `PurgeSpec`) that starts from any releases an operation
leaves (`Sound`) or any namespaces whose pods have what they mount (`Furnished`); TLC
checks that the initial states of `commands` are among them. While canary, rename,
prune or apply run, others may upgrade any release; a multi-cluster install is alone.
**CommandProofs** holds the proofs.

### The tasks

A task is a record with a kind, a program counter and what the code keeps in local
variables or reads from the outside; `ClusterTask` declares it. Each module defines one
kind, its steps and its property:

| Module | Code | Steps | Property |
|---|---|---|---|
| Hooks | `hooks/hooks.go` | parse, sort, before-creation, apply, wait, clean up | `HooksRunOnceInOrder` |
| KubeClient | `kube/client.go` waits | workload controllers against the polls | `ReadyIsRolledOut` |
| Ownership | `kube/client.go` applyResource, RestampOwnership | check, write, delete of two releases | `OwnershipNeedsConsent` |
| Kinds | `kube/client.go` mapper cache | apply, delete, diff, snapshot of custom objects | `ObjectsWhereTheyLive` |
| ReleaseTests | `cli/test_cmd.go` | worker pool, apply, watch, retry, clean | `TestsTellTheTruth` |
| Drift | `action/{drift,adopt}.go` | detect, reconcile, adopt, three-way view | `DriftCloses` |
| Drivers | `release/*.go` | migration by several clients; four drivers in step | `SchemaBeforeRecords`, `StoresAgree` |
| Packages | `repo/{resolver,dependency,lockfile}.go` | the resolver, a stack of calls (`ResolveTransitive`, `CallReturns`); begin a command, install one package, write the lock; publications and edits | `DependenciesFit` |
| Registry | `repo/`, `cli/{package_cmd,repo_cmd,pull,verify}.go` | package, sign, index (`GenerateIndex`, `MergeIndex` entry by entry, `SaveIndex`) against pull, fetch, update, verify | `RepositoryKeepsFaith` |
| Transport | `repo/{httpclient,credentials}.go` | client choice, redirects, attempts | `RequestsBehave` |
| UserFiles | `cli/{repo_cmd,login}.go` | add, remove, login, logout, torn files | `FilesAgree` |
| Plugins | `plugin/` | install, update, remove, run, download | `PluginsComeWhole` |
| Values | `values/`, `maputil/` | sources, `--set` paths, environments, `--only` | `LastSourceWins` |
| PackageTree | `deptree/`, `layer/` | fetch, populate, merge; clone heads that move | `LayersTakeEffect` |
| Policy, Schema | `policy/`, `action/schema.go` | rules and keywords against what they mean | `PoliciesBite`, `SchemaMeansWhatItSays` |
| Templates | `engine/` | four passes against a direct reading of the document | `RenderedAsWritten` |
| Pipeline | `action/`, `cli/` | options, values, checks, render, post-render, policies, record, required packages | `ChecksComeFirst` |

In Drift a list is merged by key or replaced whole (`keyed`): the comparison knows only
positions and lengths, a server-side apply only keys. A resource may be cluster-scoped, and
is then looked up where it is not (`Looked`). In Kinds a lookup reads in the namespace of its
caller, while every other operation resolves the scope of the kind. In ReleaseTests a
resource may carry the keep policy, which its deletion passes over (`Unkept`).

The pure algorithms (Values, Policy, Schema, Templates) are translated
as functions and compared with a reference definition written the other way round: what
the document, the schema or the list of sources *means*. They do use RECURSIVE
operators, and so stay with TLC. The properties of the tasks are
gathered by subject: `ClientKeepsItsWord` (KubeClient), `RecordsAreKept` (Drivers),
`DependenciesHold` (Packages), `ValuesTakeEffect` and `ChecksCatch` (MCTasks).

The tasks that are proved about have a specification of their own (`HookSpec`,
`OwnershipSpec`, `RolloutSpec`, `KindsSpec`, `TestsSpec`, `DriftSpec`, `SqlSpec`, `DriverSpec`,
`PackagesSpec`, `RegistrySpec`, `TransportSpec`, `UserFilesSpec`, `PluginsSpec`) that
starts from anything the code may be given: any hooks directory and left-over objects, any
manifest, any recorded and live objects, any contents of the stores, any catalog and index, any publisher and user, any
settings and redirections. Named assumptions of MCTasks, or the same sets,
confirm that what `commands` starts from is among them. **ClientProofs**,
**DriverProofs** and **PackageProofs** hold the proofs.

### Abstractions

* In ReleaseOps, values, rendering, policy and packaging happen before `Create` and
  only decide which chart a revision carries; Pipeline has the order in which they do.
* In ReleaseOps a hook phase and a readiness wait are one step that succeeds or fails;
  Hooks and KubeClient open them. What a hook changes is not part of the manifest.
* `storage.Update` reads the object for its resource version and writes it back. It is
  one step here; a writer that slips between makes it fail with a conflict, which is
  one of the storage faults.
* Faults are bounded: `MaxStoreFaults`, `MaxKubeFaults`, `MaxCrashes`. A failing walk
  stops where the code stops. `retryTransient` is inside one call.
* Left out of ReleaseOps: `--create-namespace`, `requires` (both in Pipeline),
  `--recreate-pods` (best effort, restarts pods only), dry runs, `--ignore-not-found`,
  ownership conflicts beyond a failing apply (Ownership has them), corrupt or oversized
  records (Drivers has them). `ParseHooks` failing after Create in `Rollback`
  (rollback.go:111-114) needs hook templates that no version of this code stores
  unparsed, and is left out too.
* The combinations of options are those the commands offer: a rollback is never atomic
  and never waits for jobs (`RequestsAssumption`).

## 3. What TLC checks

Six runs pass; together they take every action and every disjunct of their next-state
relations. Six more each refute one statement of the documentation or of a comment.

| Run | Instance | Shows |
|---|---|---|
| `solo` | 1 client, 4 requests, 4 revisions, 1 crash, 1 storage fault, 2 cluster faults; charts a (resources 1, 2, 3), b (1, 2) and bad (does not parse); resource 1 is a CRD, resource 2 carries the keep annotation | a successful upgrade or rollback leaves its revision as the only deployed one (`SuccessLeavesOneDeployed`); a deployed newest record is live (`DeployedLastIsLive`); an atomic failure reported as clean has restored objects and records (`AtomicFailureRestores`); a failed install reported as clean leaves nothing (`FailedInstallLeavesNothing`); pruning chooses none but the oldest records and leaves no more than `--history-max` (`PruneKeepsTheNewest`); the newest record outlives the objects it lists (`RecordOutlivesItsObjects`); `TypeOK` |
| `growing` | 2 clients, 3 requests that install, upgrade and roll back, 1 crash, 1 fault of each kind | the store refines the revision log (`HistoryIsALog`, through `LogInv`); a revision has one owner (`RevisionHasOneOwner`); a pending record has a live owner unless a client crashed or a storage call failed (`PendingIsOwned`) |
| `racing` | 2 clients, pruning against uninstalling, 1 fault of each kind, weak fairness | every operation returns (`EveryOperationReturns`) |
| `workspace` | every graph of a family over 3 and 4 members, eight settings of the flags, 2 failures; every graph over 3 names for the two orders and the `releases` commands | members run after what they depend on (`DependenciesFirst`), each once (`EveryMemberOnce`); an atomic failure takes every success back (`AtomicUndoesTheSuccesses`); `TopologicalOrder`, `topoSortReleases` and `Levels` agree with the definition of an order (`OrdersRespectDependencies`, `ReleasesInOrder`); every command returns (`CommandReturns`) |
| `controller` | 2 replicas, 1 object, 2 edits, 1 drift, 2 failing calls, 1 outage, weak fairness | one replica reconciles at a time (`LeadersExclusive`); an object skipped as processed has the release its spec wants (`ProcessedMeansDeployed`); once the users stop, the release settles (`Settles`) |
| `commands` | one command or task per behaviour: 92 770 initial states | the properties of the tables above, and `CanaryGoesBack`, `RenameLosesNothing`, `AllClustersOrNone`, `PruneSparesDeployed`, `AppliedIsPlanned`, `PodsGoFirst`, `ForgottenLeavesNothing`, `PurgeStaysInScope` |

`solo` installs with `upgrade --install`, never with `install` itself: an explicit
install after revision 1 has been pruned writes revision 1 again, below the newest
record (see the deviations), so `DeployedLastIsLive` does not hold of it. `growing`
has explicit installs, and no pruning.

**Bounds.** `MaxOps` bounds the requests of a behaviour and `MaxRev` is at least the
number of revisions these can create, so the guard `r < MaxRev` never blocks a real
step. Four requests are enough for a deployed revision, a failed or crashed one on
top of it, a recovery, and an operation that has to cope with the result. Three
resources give a CRD, a shared and a dropped resource; two charts that parse give a
growing and a shrinking upgrade. One crash and two faults give a failure and a failure
of its recovery. Two clients suffice for the races found: each is between one writer
and one stale reader. Clients are symmetric in the safety runs.

In `workspace` four members give a chain of three, a diamond, two independent members
in one level and an edge that skips a level; two failures give a failing member and a
failing undo. In `controller` nine versions are more than are ever in use, two edits and
two faults let a write of the status meet an edit twice; the retry budget of `setStatus`
is the real one. In `commands` `MaxWorldFaults` = 2 (a failure and a failure of its
recovery), `MaxOthers` = 2 upgrades by others, `MaxPurgeFaults` = 2, `MaxTaskFaults` = 1:
a task has no recovery that calls again, except the retries, which have the code's own
limits. `MaxTurns` = 3 commands or changes of a package directory (break, repair, look).
Three clients open a SQL database, so that two of them meet a history a third has pruned;
the four drivers are given two revisions (`MaxRevision`) in two namespaces.
`MaxTreeNodes`, `MaxRefDepth` and `MaxDocNesting` stand for the depth limits of the code
(layers, schema references, templates), set small enough to be reached by the inputs.
Two or three keys, names, versions and documents are enough for a value to be set,
replaced by another shape and set again.

**Fairness.** `FairSpec` has weak fairness of every client's `Step`. The code
justifies it: a client waits for nobody, every storage and cluster call carries a
context with a timeout (`newStorageContext`, `newContext`, the `--timeout` of waits
and hooks), so each call returns or times out. `Start` and `Crash` are not fair. The
workspace and releases commands are sequences of such calls and goroutines that the
semaphore lets through, so weak fairness of the whole step is enough. For the controller
`FairControllerSpec` has weak fairness of the clock, and of each replica's own
progress and lease renewal, a ticker each; users and drift are not fair.

**Deadlock** is checked in every run: a model may stutter only where its command has
returned or its bounds are reached.

### Statements that do not hold

The trace of each is a sequence of legal calls of the code.

| Run | Statement | What happens |
|---|---|---|
| `none_deployed` | action/upgrade.go:582 | two overlapping upgrades supersede each other |
| `prune_race` | action/upgrade.go:534 | history is read while a revision is pending; it becomes the deployed one and is deleted |
| `uninstall_leftover` | action/uninstall.go:30 | objects of an older revision survive the purge of the records that list them |
| `atomic_forced` | docs/cli/upgrade.md:33 | a failed pre-delete of `--force` returns before the rollback |
| `dry_atomic` | docs/cli/workspace-upgrade.md:55 | a dry run with `--atomic-workspace` uninstalls live members when one fails to render |
| `controller_loop` | docs/cli/controller-run.md:34 | the controller's own status write changes the version it remembers, so every pass upgrades again |

The modules state eight more promises, which no run checks because TLC refutes them too: each
is violated when it takes the place of the properties in `commands.cfg`.

| Definition | Statement | What happens |
|---|---|---|
| `PurgeUninstallsAll` (Purge) | docs/cli/purge.md:31 | the last record cannot be read, the uninstall takes that for "not found" and succeeds (uninstall.go:48); the records are deleted, the objects stay |
| `ReservedIsProtected` (Purge) | docs/cli/purge.md:29 | `kube-system` and the others are neither drained nor deleted, but a release found in one of them is uninstalled (purge.go:236) |
| `RetriesStartAnew` (ReleaseTests) | docs/cli/test.md:28 | the retry patches a pod that is still terminating and is judged by how that one ended (test_cmd.go:111) |
| `TakenOnlyIfAsked` (Ownership) | kube/client.go:1320 | two releases pass the ownership check before either writes (client.go:661) |
| `ReconcileConverges` (Drift) | docs/cli/reconcile.md:9 | an item added to a list that is merged by key is drift, and no reconciliation takes it back (drift.go:257) |
| `OnlyDriftIsReported` (Drift) | docs/cli/reconcile.md:22 | a cluster-scoped resource is looked up in the namespace of the release, never found, and always reported (drift.go:127) |
| `NumbersCompareByValue` (Schema) | docs/reference/values-schema-json.md:59 | a number inside a list or map never equals that of `const` or `enum` (schema.go:602) |
| `RefIsWhatIsRead` (PackageTree) | docs/reference/keramos-yaml.md:59 | two layers from one repository with different refs are both read at the ref fetched last (source.go:207) |

### Deviations without a run

The same actions also contain the sequences below. They are recorded here, and the
passing properties are worded so as not to claim the opposite.

*Release operations*
- The undo of an atomic upgrade marks the revision it had read deployed, even one that
  had failed; an older deployed revision stays deployed beside it (upgrade.go:673, docs/glossary.md:262).
- An explicit install after pruning takes revision 1 again (install.go:232, docs/glossary.md:261).
- `uninstall --wait` also waits for the CRDs that are spared (uninstall.go:101).
- Dropped resources are computed from the newest record; if that revision failed, what
  it dropped was never removed and nothing removes it later (upgrade.go:516, docs/cli/upgrade.md:28).
- A failed Get in the snapshot counts as "did not exist", and cleanup deletes the object
  (kube/client.go:540, comment upgrade.go:373).
- The record is measured before the hook results are added to it (storage.go:154); a
  record that does not decode is left out of a history (storage.go:242).

*Workspace, releases, controller, canary, plan, several clusters, rename, purge*
- A failed health gate returns without the atomic rollback, and the gate passes over the
  members that are left once its deadline has gone by; nothing refuses two members of one name.
- crossrel.go:218 promises the declared order among independent releases; they come in
  the order of their names. `releases uninstall` reports success over failures.
- A canary of a release that did not exist stays at its first stage (docs/cli/canary.md:34-36);
  its baseline is the last revision even if that failed; when the baseline cannot be
  read it uninstalls.
- A plan for an upgrade is rendered as an install (docs/cli/apply.md:95).
- rename takes a read error of the new name as "free"; an upgrade of the old name that
  runs meanwhile is left behind under it.
- `purge --force` without `--delete-namespaces` forgets releases whose objects stay
  (docs/cli/purge.md:57); with it, objects keramos did not make go too (docs/cli/purge.md:25).
  The deletion of a record that fails is only logged (uninstall.go:124) or ignored
  (purge.go:427), so a purge may succeed and leave records.
- An uninstall in a workspace, its atomic rollback included, also reports success when it could
  not read the last record (uninstall.go:48): the member is still there.
- `uninstall --wait` looks for cluster-scoped objects in the namespace of the release and
  so takes them for gone at once (uninstall.go:159).
- `reconcile --no-wait` waits five minutes; kept resources it did not touch are returned
  as reconverged; the three-way view misses list elements the cluster added; the
  comparison looks at no `data` of ConfigMaps and Secrets.
- As a release with a cluster-scoped resource always has drift (`OnlyDriftIsReported`), the
  controller upgrades it in every pass (controller.go:271).

*Cluster client, hooks, stores*
- An uninstall deletes an object another release has taken with `--take-ownership`; a failed
  read of the owner counts as no owner (client.go:1306).
- A lookup uses the namespace it is given, for cluster-scoped kinds too, and then finds
  nothing of them (client.go:279).
- Without `before-hook-creation` a Job of an earlier phase counts; a failing lookup in the
  wait for a deletion counts as gone. A claim bound at its first consumer counts as ready.
- An uninstall repeated after the CRD went fails for ever on the custom objects; `keep` on
  a custom object does not survive its definition; a server dry run of both fails.
- The list of releases over all namespaces merges by Secret name, so that equal names hide
  one another (storage.go:229); the SQL driver has no size limit and its version table no
  unique constraint (comment sql_storage.go:102); a SQL client that read the history before
  a prune creates the pruned revision again and is told it succeeded; the memory driver is new for each
  command, ignores namespaces and hands out shared maps.
- `keramos test` deletes nothing before the first attempt, so the pod of an earlier run may
  decide; parallel tests that share a resource delete each other's; what carries the keep
  policy stays after a test (client.go:588, docs/cli/test.md:29).

*Dependencies and repositories*
- Constraints of replaced versions stay and cause false conflicts; packages only they
  needed stay; a cycle may be missed or be reported with a misleading path; the merged lock
  of a single update may break another constraint; the check of the lock looks at direct
  dependencies only; an installed version that fits is not compared with the digest; the lock
  is written in place, and one cut short that still parses and has the direct dependencies
  counts as current: what only others ask for is then not installed.
- Two refs of one directory of a git repository are reported as a cycle.
- source.go:319 calls the first match of an index the highest: versions are sorted as strings
  and a merge appends.
- A provenance written by `SignFile` never verifies (its digest lacks `sha256:`); `pull`
  compares no digest without `--verify`; a digest that does not match deletes the archive
  that was kept; `install --verify` without a lock verifies nothing.
- `--ca-file` and `--cert-file` of `pull` hold for the index only, which is fetched without
  the policy of the repository; a redirect chain has no limit and a refused redirect is tried three
  times; a publication is sent again although the first may have arrived.
- A failed `package` leaves a torn archive that stops every later index; the names `@a/b`
  and `@a-b` share a file; the user's lists are read, changed and written in place, so two
  commands lose updates; `repo remove` keeps the credentials, `repo update` stores nothing.
- The delete and update hooks of a plugin are never approved: a plugin with a delete hook
  cannot be removed (docs/cli/plugin-remove.md:30-31). A copy that fails leaves a directory that
  counts as installed. A plugin that was found may be run in another one's directory, when that one has
  the declared name.

*Values, layers, templates, checks, pipeline*
- tree.go:106-110 says only the root receives the user's overrides; they are merged at
  every depth. A value forced by a parent (`!`) wins over everything.
- The trace of an upgrade with `--only` describes the unrestricted values, reset-then-reuse
  attributes old values to the defaults, and a path below a scalar leaves a stale entry.
- `forbid` evaluates fields only; a rule's namespaces are compared with the manifest's own; a
  `List` and a ReplicationController escape the rules on containers. CRDs and hooks are
  never checked.
- Boolean subschemas are ignored, `$ref` hides its siblings, null passes most types, and
  the depth limit inside `not` turns the verdict.
- An escaped expression inside `$each`, `$let` or `$text` is evaluated by the last pass
  (comment in expression.go); two keys that come out equal depend on Go's map order;
  includes are resolved in branches that are not taken; a `$merge` drops the lists among maps.
- Required packages are installed with the client of the primary, so their objects carry
  its name and a later upgrade of the required release is refused (install.go:444); they see
  neither the user's overrides nor `crds/`; any record of that name, a failed one too,
  counts as present; a failed one leaves the primary deployed; an upgrade installs none.
- `upgrade --install` of a missing release drops ten options; `install --env` stores the record
  in the environment's namespace and applies objects in the client's. `template` and dry runs
  render without capabilities and lookups, and `template` without policies.

## 4. What is proved

All theorems hold for any sets of clients, charts, resources, members, replicas, releases
and namespaces, any hooks, manifests, tests and stored records, any catalogs, indexes,
plugins and settings, and any bounds, from the named assumptions of the modules and, where the
table says so, one more:

* `GrowingOnly`: no request uninstalls or prunes history;
* `Solo`: there is one client, at work on request after request, failing and crashing;
* `~BareInstalls`: no request is `install` itself (`upgrade --install` is one), which
  after a pruning takes revision 1 again below the newest record;
* `VersionsNeverRunOut`: replicas and objects are finitely many, resource versions are not.

| Theorem | Statement |
|---|---|
| `TypeCorrect` | `Spec => []TypeOK` |
| `MemoryMatchesHistory` | `GrowingOnly` gives `Spec => []LogInv` |
| `OneOwner` | `GrowingOnly` gives `Spec => []RevisionHasOneOwner` |
| `HistoryImplementsLog` | `GrowingOnly` gives `Spec => HistoryIsALog` |
| `PendingHasOwner` | `GrowingOnly` gives `Spec => []PendingIsOwned` |
| `SoloInvariant` | `Solo` gives `Spec => [](TypeOK /\ SoloInv)` |
| `OneDeployed` | `Solo` gives `Spec => []SuccessLeavesOneDeployed` |
| `LastDeployedIsLive` | `Solo` and `~BareInstalls` give `Spec => []DeployedLastIsLive` |
| `AtomicRestores` | `Solo` gives `Spec => []AtomicFailureRestores` |
| `FailedInstallIsClean` | `Solo` gives `Spec => []FailedInstallLeavesNothing` |
| `PruneIsRight` | `Solo` gives `Spec => []PruneKeepsTheNewest` |
| `RecordOutlives` | `Solo` gives `Spec => RecordOutlivesItsObjects` |
| `WorkspaceTypeCorrect` | `WorkspaceSpec => []WorkspaceTypeOK` |
| `WorkspaceOrdered` | `WorkspaceSpec => []DependenciesFirst` |
| `WorkspaceComplete` | `WorkspaceSpec => []EveryMemberOnce` |
| `WorkspaceUndone` | `WorkspaceSpec => []AtomicUndoesTheSuccesses` |
| `ReleasesOrdered` | `CrossSpec => []ReleasesInOrder` |
| `OrdersAgree` | `WorkspaceSpec` and `CrossSpec` each give `[]OrdersRespectDependencies` |
| `OneLeader` | `ControllerSpec => []LeadersExclusive` |
| `ProcessedIsDeployed` | `VersionsNeverRunOut` gives `ControllerSpec => []ProcessedMeansDeployed` |
| `ControllerTypeCorrect` | `VersionsNeverRunOut` gives `ControllerSpec => []ControllerTypeOK` |
| `CanaryRestores` | `CanarySpec => []CanaryGoesBack` |
| `RenameKeeps` | `RenameSpec => []RenameLosesNothing` |
| `PruneSpares` | `PruneSpec => PruneSparesDeployed` |
| `AppliedAsPlanned` | `PlanSpec => AppliedIsPlanned` |
| `AllOrNone` | `MultiSpec => []AllClustersOrNone` |
| `WorldTypes` | each of these five gives `[]WorldTypeOK` |
| `PurgeInvariant` | `PurgeSpec => []PurgeInv` |
| `DrainInOrder` | `PurgeSpec => []PodsGoFirst` |
| `ForgottenInOrder` | `PurgeSpec => []ForgottenLeavesNothing` |
| `PurgeScope` | `PurgeSpec => PurgeStaysInScope` |
| `HooksKeepOrder` | `HookSpec => []HooksRunOnceInOrder` |
| `Consent` | `OwnershipSpec => []OwnershipNeedsConsent` |
| `RolledOutWhenReady` | `RolloutSpec => []ReadyIsRolledOut` |
| `ObjectsFound` | `KindsSpec => []ObjectsWhereTheyLive` |
| `TruthOfTests` | `TestsSpec => []TestsTellTheTruth` |
| `ClientWord` | `OwnershipSpec`, `RolloutSpec`, `KindsSpec` and `TestsSpec` each give `[]ClientKeepsItsWord` |
| `DriftIsClosed` | `DriftSpec => []DriftCloses` |
| `SchemaFirst` | `SqlSpec => []SchemaBeforeRecords` |
| `DriversKeep` | `DriverSpec => []StoresAgree` |
| `RecordsKept` | each of these two gives `[]RecordsAreKept` |
| `DependenciesKept` | `PackagesSpec => []DependenciesFit` |
| `FaithKept` | `RegistrySpec => []RepositoryKeepsFaith` |
| `RequestsKept` | `TransportSpec(hosts) => []RequestsBehave`, for any hosts |
| `FilesKept` | `UserFilesSpec => []FilesAgree` |
| `PluginsAreKept` | `PluginsSpec => []PluginsComeWhole` |
| `PackagesHold` | each of these five gives `[]DependenciesHold` |

*Types.* `TypeOK` is inductive because of its part `Holding`: at each program counter
the client holds the records that the steps from there use. An install holds no
previous revision, so the points in `UsesPrevious` must be out of its reach. Each
function that says where an operation goes next has a lemma that it yields a
well-typed state (`...Good`); each kind of call has one that it keeps the type when
its continuations do; each action then follows from these.

*The log.* `RevisionHasOneOwner` and `HistoryIsALog` are not inductive: a client might
hold a record whose manifest is not the stored one and write it back. `LogInv` adds
what is missing: revisions have no holes, every record held in memory matches its
stored manifest, and a record about to be created is pending with no hole below it.
The proof shows that each continuation *follows* from the state before (`Follows`: same
request, same revision and manifest of `cur` and `rel`), so an Update changes a status
alone (`Settling`), and that `Create` finds its revision free and the next in line
(`Appending`). The two are the two steps of `RevisionLog`. The assumption is
necessary: once records are removed the log property is lost, as `prune_race` and the
reuse of revision 1 show. `PendingHasOwner` adds `PendingIsOpen` to `LogInv`: as long as
no call of the store failed and nobody crashed, a pending record is one that some client
holds as its own and has still to settle.

*A client alone.* The promises of one operation are about its last state, so the
invariant has to say what is true at every point on the way. `SoloInv` is `LastIsLive`
between operations and, by program counter, `Placed` (which revision the operation has
claimed, and that it is the newest), `ClusterAt` (what its walks over the resources have
applied, deleted or put back so far), `HistoryAt` (what those over the records have
superseded or chosen, and that the walk goes from the oldest up) and `Promised` (what an
operation that has ended says of the store and the cluster, by its kind, its outcome and
the step that failed). There is one lemma for each function that says where an operation
goes next, that the next point is sane if the world is ready for it, and one for each
action, that its step makes the world ready. What an earlier operation or a crash has
left is arbitrary but for the types and `LastIsLive`: the theorems do not assume that an
operation starts from a good state. `Solo` is necessary: `none_deployed` and `prune_race`
are two clients. So is `~BareInstalls` for `LastDeployedIsLive`.

*The workspace.* `WorkspaceInv` is `TypeInv` (the types), `PlanInv` (the levels formed so
far are disjoint, finite sets of members, and all a member of a level depends on is in an
earlier one) and `RunInv` (every member of the levels gone through has exactly one result,
those of the level at work are waiting, at work or have one, nobody else has any). With a
plan that covers every member, order and completeness follow; `LevelsInv` adds that a
plan is refused only if its graph has a cycle or names a stranger. The undo needs an account,
`AccountInv`: the successes still standing are no more than those the walk has not reached
and the failures it met; a step moves one result from one side to the other.

*The sequential orders.* Both have to be complete as well as right: what is refused must
be cyclic or incomplete, for any finite graph. `KahnInv` (`topoSortReleases`): the count of
a release is that of its dependencies not yet dequeued, the queue holds those at zero,
and what was dequeued has its dependencies before it; when the queue runs dry early,
each release that is left waits for another that is left, and among finitely many that
is a cycle. `SearchInv` (`TopologicalOrder`): the open frames are a path of the graph
(`Paths`), what is placed has its dependencies placed before it, and a frame's
dependencies up to its position are placed. A name met again while open closes a cycle.

*The lease.* `LeaseInv`: a leader holds the lease, and its age has not gone past
`RenewDeadline`; a new holder needs an age past `LeaseDuration`. That
`RenewDeadline < LeaseDuration` in the code is exactly what the proof uses.

*The reconcile loop.* `ProcessedMeansDeployed` says nothing of what happens between a List
and the pass that uses it. `MemoryInv` does: a version that was listed, or is at work,
still tells the spec while the object has it; no object is listed twice; and what is
processed at the object's present version is deployed. An upgrade keeps it because
`AloneInv` leaves no other replica with anything to remember, not even beside one on its
way out; an edit and a status write keep it because their version is one nobody remembers
(`VersionIsNew`, for which the versions in use must be finitely many).

*The commands.* `WorldInv` types the releases: finite histories, one record per revision.
One lemma for each operation and each store call says what it leaves of a history, so that
a command's proof looks at its own job only. `CanaryInv` keeps the baseline: the
revision to go back to is in the history, with what was live before the first stage (or
the first stage's content, if nothing was), as long as no other client's upgrade came
between; only then is a rollback a return. `RenameInv` follows each revision
from one name to the other: what is not yet copied is under the old, what is not yet
deleted under both, and the newest is under the name on the objects. `PruneInv` says that
what is still to go is old by count and not deployed *in the present history*: an upgrade by
others only adds above it and deploys only what is new. `PlanInv` says that an operation
runs what the digests agreed on. `MultiInv` splits the clusters into those a worker has not
reached, those installed, which a failure will undo, and those lost (`QueueInv`,
`InstallInv`).

*Purge.* `PurgeInv` has a part for each promise: `ScopeInv` (what the scan found is in
scope, and jobs and drops come from it), `DrainInv` (how far the namespace at work is
drained, and that a pod outlives what it mounts only by a failing call) and `ForgetInv`
(objects without a record are those of a release taken for absent, and what else is left is a
job or a counted failure; records are left only to jobs as long as no call failed). A workload may replace a pod at any time, so `DrainInv` has to say that
the workloads are gone from the first step of the drain on; the pods of dead nodes stay
until they are deleted again, so only the point after that says that no pod is left.

*The hooks.* `HooksInv` says where a phase is: the order it works in is every hook of the
phase, once, by weight (`Parsed`); up to the hook at work all have passed, and no later one
has run anything (`UpToHere`). That a resource left by an earlier phase cannot stand in for a
new one needs `RanEach`: at the apply of a hook that is deleted before its creation, nothing
of it exists, unless a lookup failed. `Cleaned` follows the delete policies from one hook to
the next; objects only leave, for nobody but the hook itself makes its objects.

*The client of the cluster.* `OwnershipInv`: whoever is at its write has consent, found no
owner, or is on record as blind (its read failed) or overtaken (the object changed hands
since); every step that changes the owner puts the others at their write on that record, so the invariant
is inductive for any number of releases. `RolloutInv`: a status is a count of pods as they were
once, so what is up beyond the new pods is at most the old ones (`SoundWorkload`); this
makes `updated >= desired` and `total <= updated` say that every desired pod is new and up.
`KindsInv` splits each promise of an operation into what is done and what is left (`...GoOn`).
A cache that is behind the cluster can hide a definition but never shows a scope that is not
so, hence what the client can map and what exists is found (`FoundWhereItLives`), and a
lookup finds what exists in the scope it was asked for (`Visible`). `TestsInv`:
what an attempt has seen end well (`HasSeen`), and for the tests that are over, that a
resource of theirs is on its way out, kept, or in use by another test, which will remove it
in turn (`CleansUp`); a worker changes its own test and the shared objects only (`Turn`).

*Drift.* A body is a function from paths, and the comparison says what differs at a path
and at no beginning of it; so bodies of every depth are covered without a recursion.
`DifferenceIsSeen`: wherever two bodies differ, the shortest beginning of that path that
differs is reported (positions are well-founded), hence the three-way view tags nothing
that the comparison misses. `AppliedFits`: an object differs in nothing from what was just
applied to it, though it keeps the fields beside, but for lists merged by key that had items
of others (`Lengthened`). `ReconcileInv` says that until
something is applied an object is as it was at first or was deleted after it had been compared
(`UntilApplied`), so the report is what the first look would have said; `Closed` and
`KeptAlone` follow for the end. `AdoptInv` counts the objects fetched, and a record of
another release is never replaced.

*The drivers.* `SqlInv`: the version table is there from the first step after it on, the
releases table with the first version, and a revision somebody was told of is a row or was
deleted; another's retry of the migration takes nothing away. `DriversInv`: what the answers
said is what is stored and decodes (`ToldDecoded`); a row that another client wrote between
the read and the write of an update has a version later than all that were read, so the write
is refused (`OthersNewer`); as long as nothing raced and no record was too large, the stores
of the three shared drivers hold the same records (`Alike`). `LastIsHighest` is the
lemma that `Last` is the record with the highest revision.

*The resolver.* That the tree fits together is a statement about the end, and in between
little of it is true: a version may be replaced while the dependencies of the old one are
still being gone through. `Resolver` says what is: every version that is resolved, and every
one a `find` has picked, is the highest that all constraints *recorded so far* allow
(`ResolvedFit`, `FindsFit`; `ChosenStays` when one more is recorded); every name asked for
is resolved or being found (`AskedMet`); a dependency of a version in use was asked for or is
still to come, in an open `recheck` of just that version (`DepsSeen`, `DepsAsked`); and the
same of the direct dependencies (`RootsAsked`). When no call is open, all that is still to
come is gone, and the promise is left. Consecutive calls are linked by a dependency
(`Linked`), so a name met again while it is being found closes a circle. None of this needs
the catalog to be acyclic, and termination is not claimed.

*The package directory.* `OpInv`, by where a command is. From the lock (`FromLock`): what is
not left to install is there in the version of the lock, and what was installed has its
digest. From a tree (`FromTree`): each direct dependency is still to install in a version
it allows, or installed in one. A tree that is being resolved belongs to the command that
asked for it (`TreeFor`), and a publication may change the index below it: hence `Chosen`
claims the highest version only where nothing is published meanwhile. An edit, a failure or a torn lock end
the command's claim, and nothing is assumed of what they leave.

*The repository.* The publisher's half, `PublisherKept`: an index that is fresh, or being
merged, has one entry per version, of the archive that is there. The user's half, `UserKept`,
follows a command through its reads: the entry it saw was declared, what it downloaded has
the digest of that entry and of the lock, and what it verified was signed, at whichever
moment each was read. It is inductive because the publisher takes nothing back that was
declared or signed (`UserSame`); the served files themselves may change at any time.

*Requests, files, plugins.* `RequestInv`: the policy comes from a repository the address is
under, the header from the entry of its host, and what is carried after a redirect went as
far as that policy allows; `TriesKept` counts the attempts. `FilesInv`: the credentials are
stored before the repository is listed (`StoreKept`), whichever of the files a crash tore.
`PluginInv`: only the directory an install is working on may hold what was not accepted.

*Only model-checked:*
liveness, which is out of the prover's reach (`EveryOperationReturns`, `CommandReturns`,
`Settles`); and the values, schemas, policies and templates, which are recursive functions of data
(`ValuesTakeEffect`, `ChecksCatch`, `RenderedAsWritten`).

## 5. Not modelled, and why

* **Migration from Helm, Helm compatibility, diff, graph, SBOM, lint, output, read-only
  commands**: conversions from text to text without state; what they would need is a
  grammar, not a state machine.
* **Audit, tracing, logging, paths, error types**: no effect on what is installed.
* **OpenPGP, cosign, the OCI exchange, git**: external programs and libraries; Registry and
  PackageTree model what the code relies on.
* **Schema**: the formats of strings and numbers with a fraction (schema.go:313-315, 464-547);
  an integer is a whole number, and a number is one.
* **Rate limiting**: the token bucket and its retry have no caller outside tests.
* **Partly modelled**: the Kubernetes client without printing and logs, the template engine
  without its function library (about a hundred pure functions), the command line without
  parsing and output, the package repositories without ignore patterns and search.
