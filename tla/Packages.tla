------------------------------ MODULE Packages ------------------------------
(***************************************************************************)
(* The dependencies of a package (internal/repo: resolver.go,              *)
(* dependency.go, lockfile.go): the transitive resolution, keramos.lock and *)
(* the packages/ directory, worked on by resolve, update and the update of *)
(* one dependency, while the repository and the package itself change.     *)
(*                                                                         *)
(* A constraint is the set of versions it allows; one that does not parse  *)
(* allows none and fails like it.  A catalog gives, for each package and   *)
(* version, its dependencies in order; index gives the digest of each      *)
(* version that is published.                                              *)
(***************************************************************************)
EXTENDS Transport, Registry, UserFiles, Plugins

Dep(name, allowed) == [name |-> name, allowed |-> allowed]
Pick(version, digest) == [version |-> version, digest |-> digest]

(* A call that goes through dependencies one by one: that of ResolveTree   *)
(* ("tree"), of findAndResolveDep ("find") or of recheckExistingResolution *)
(* ("recheck"), for the version it picked, with those still to come.       *)
Through(how, name, pick, deps) == [how |-> how, name |-> name, pick |-> pick, deps |-> deps]

(* resolverState: what is resolved, what was ever asked, the calls that    *)
(* are open, the last one at work, and the error.                          *)
ResolveTree(roots) ==
    [resolved |-> <<>>, asked |-> {}, err |-> "none", calls |-> <<Through("tree", "root", Pick(0, 0), roots)>>]
NoTree == [resolved |-> <<>>, asked |-> {}, err |-> "none", calls |-> <<>>]

ResolveTask(catalog, roots) ==
    [kind |-> "resolve", pc |-> "run", catalog |-> catalog, roots |-> roots,
     index |-> [e \in UNION {{n} \X DOMAIN catalog[n] : n \in DOMAIN catalog} |-> 1], tree |-> ResolveTree(roots)]

Put(f, n, e) == [m \in DOMAIN f \cup {n} |-> IF m = n THEN e ELSE f[m]]

Published(n) == IF n \in DOMAIN task.catalog THEN {v \in DOMAIN task.catalog[n] : <<n, v>> \in DOMAIN task.index} ELSE {}

(* Mutant: only the constraint that failed is looked at.                   *)
LastAsked(asked, dep) == {v \in Published(dep.name) : v \in dep.allowed}
(* findHighestCompatible, satisfiesAll: the versions of the index that all *)
(* the constraints recorded so far allow, the one of dep included.         *)
Candidates(asked, dep) == {v \in Published(dep.name) : \A q \in asked : q.name = dep.name => v \in q.allowed}

Tree == task.tree
ResolverWorks == task.kind \in {"resolve", "packages"} /\ task.pc = "run" /\ Tree.calls # <<>>
Caller == Last(Tree.calls)
(* The dependency the call at work comes to, and what is left to it then.  *)
Wanted == Head(Caller.deps)
AskedNow == Tree.asked \cup {Wanted}
Taken == Append(Front(Tree.calls), [Caller EXCEPT !.deps = Tail(@)])
Resolving == {c.name : c \in {c \in ToSet(Tree.calls) : c.how = "find"}}

GoesOn(resolved, calls) == task' = [task EXCEPT !.tree.resolved = resolved, !.tree.asked = AskedNow, !.tree.calls = calls]
GivesUp(err) == task' = [task EXCEPT !.tree.err = err, !.tree.calls = <<>>]

(* findHighestCompatible reads the index and picks the highest version;    *)
(* its archive is read for the dependencies.                               *)
Picks(how) ==
    LET found == Candidates(AskedNow, Wanted)
        v == Max(found)
        pick == Pick(v, task.index[<<Wanted.name, v>>])
    IN  \/ found = {} /\ TNoFault /\ GivesUp("conflict")
        \/ /\ found # {} /\ TNoFault
           /\ GoesOn(IF how = "recheck" THEN Put(Tree.resolved, Wanted.name, pick) ELSE Tree.resolved,
                     Append(Taken, Through(how, Wanted.name, pick, task.catalog[Wanted.name][v])))
        \/ TFault /\ GivesUp("unreachable")

(* resolveTransitive: a package that is being resolved closes a cycle; a   *)
(* version that fits stays, one that no longer fits is replaced at once    *)
(* (recheckExistingResolution), and for a package met for the first time   *)
(* one is picked (findAndResolveDep).                                      *)
ResolveTransitive ==
    /\ ResolverWorks /\ Caller.deps # <<>>
    /\ LET n == Wanted.name
           known == n \in DOMAIN Tree.resolved
           fits == known /\ Tree.resolved[n].version \in Wanted.allowed
       IN  \/ n \in Resolving /\ TNoFault /\ GivesUp("cycle")
           \/ n \notin Resolving /\ fits /\ TNoFault /\ GoesOn(Tree.resolved, Taken)
           \/ n \notin Resolving /\ known /\ ~fits /\ Picks("recheck")
           \/ n \notin Resolving /\ ~known /\ Picks("find")

(* A call has gone through its dependencies: only now a package that was   *)
(* picked counts as resolved.                                              *)
CallReturns ==
    /\ ResolverWorks /\ Caller.deps = <<>> /\ TNoFault
    /\ task' = [task EXCEPT !.tree.calls = Front(@),
                            !.tree.resolved = IF Caller.how = "find" THEN Put(@, Caller.name, Caller.pick) ELSE @]

ResolverStops == /\ task.kind = "resolve" /\ task.pc = "run" /\ Tree.calls = <<>> /\ TNoFault
                 /\ task' = [task EXCEPT !.pc = "ok"]

-----------------------------------------------------------------------------
(* The package directory.  lock: version and digest by name; packages:     *)
(* what is in packages/, whole unless an extraction stopped halfway; the   *)
(* command: what it still has to install, from the lock or not, and what   *)
(* it installed.                                                           *)
NoLock == [there |-> FALSE, torn |-> FALSE, deps |-> <<>>]
NoOp == [name |-> "none", at |-> "idle", fromLock |-> FALSE, todo |-> <<>>, did |-> {}]

PackagesTask(catalog, index, roots, turns) ==
    [kind |-> "packages", pc |-> "run", catalog |-> catalog, index |-> index, roots |-> roots, tree |-> NoTree,
     lock |-> NoLock, packages |-> <<>>, op |-> NoOp, turns |-> turns]

RootNames == {task.roots[i].name : i \in DOMAIN task.roots}

(* Mutant: the version that is locked is not compared.                     *)
LockedByName(deps) == task.lock.there /\ \A d \in ToSet(deps) : d.name \in DOMAIN task.lock.deps
(* IsLockFileCurrent: the direct dependencies only.                        *)
IsLockFileCurrent(deps) ==
    /\ task.lock.there
    /\ \A d \in ToSet(deps) : /\ d.name \in DOMAIN task.lock.deps
                              /\ task.lock.deps[d.name].version \in d.allowed

Starts(name, fromLock, todo) ==
    [name |-> name, at |-> "install", fromLock |-> fromLock, todo |-> todo, did |-> {}]
Returns(name, at) == [NoOp EXCEPT !.name = name, !.at = at]

Ready == task.op.at \in {"idle", "done", "failed"} /\ task.turns > 0
Turn == [task EXCEPT !.turns = @ - 1]
Resolves(name, deps) == task' = [Turn EXCEPT !.op = Returns(name, "tree"), !.tree = ResolveTree(deps)]

(* ResolveDependencies                                                     *)
BeginResolve ==
    /\ Ready /\ task.roots # <<>> /\ TNoFault
    /\ \/ task.lock.torn /\ task' = [Turn EXCEPT !.op = Returns("resolve", "failed")]
       \/ /\ ~task.lock.torn /\ IsLockFileCurrent(task.roots)
          /\ task' = [Turn EXCEPT !.op = Starts("resolve", TRUE, task.lock.deps)]
       \/ ~task.lock.torn /\ ~IsLockFileCurrent(task.roots) /\ Resolves("resolve", task.roots)

(* UpdateDependencies, UpdateSingleDependency of one direct dependency.    *)
BeginUpdate == Ready /\ task.roots # <<>> /\ TNoFault /\ Resolves("update", task.roots)
BeginSingle == Ready /\ TNoFault /\ \E i \in DOMAIN task.roots : Resolves("single", <<task.roots[i]>>)

(* The tree is there, or an error: an update then removes packages/, that  *)
(* of one dependency reads the lock.                                       *)
TreeEnds ==
    /\ task.op.at = "tree" /\ Tree.calls = <<>>
    /\ LET name == task.op.name
           stops == Tree.err # "none" \/ (name = "single" /\ task.lock.torn)
       IN  \/ /\ ~stops /\ TNoFault
              /\ task' = [task EXCEPT !.tree = NoTree, !.op = Starts(name, FALSE, Tree.resolved),
                                      !.packages = IF name = "update" THEN <<>> ELSE @]
           \/ /\ (stops /\ TNoFault) \/ TFault
              /\ task' = [task EXCEPT !.tree = NoTree, !.op = Returns(name, "failed")]

IsInstalled(n) == n \in DOMAIN task.packages

(* installFromLockFile, installResolved, downloadAndExtract: any order (the *)
(* resolved packages come from a map).  The lock's packages are skipped    *)
(* when a package of that version is found.  A digest that does not match  *)
(* stops the command; an extraction that fails leaves part of the package. *)
InstallOne ==
    /\ task.op.at = "install"
    /\ \E n \in DOMAIN task.op.todo :
         LET want == task.op.todo[n]
             rest == [m \in DOMAIN task.op.todo \ {n} |-> task.op.todo[m]]
             serves == <<n, want.version>> \in DOMAIN task.index /\ task.index[<<n, want.version>>] = want.digest
             found == IsInstalled(n) /\ task.packages[n].version = want.version
             extracted(whole) == Put(task.packages, n, [version |-> want.version, digest |-> want.digest, whole |-> whole])
         IN
         \/ task.op.fromLock /\ found /\ task' = [task EXCEPT !.op.todo = rest] /\ TNoFault
         \/ /\ ~(task.op.fromLock /\ found) /\ serves /\ TNoFault
            /\ task' = [task EXCEPT !.op.todo = rest, !.op.did = @ \cup {n}, !.packages = extracted(TRUE)]
         \/ /\ ~(task.op.fromLock /\ found) /\ ~serves /\ TNoFault
            /\ task' = [task EXCEPT !.op = Returns(task.op.name, "failed")]
         \/ /\ ~(task.op.fromLock /\ found) /\ TFault
            /\ \E left \in {task.packages} \cup (IF serves THEN {extracted(FALSE), extracted(TRUE)} ELSE {}) :
                 task' = [task EXCEPT !.op = Returns(task.op.name, "failed"), !.packages = left]

InstalledAll == task.op.at = "install" /\ task.op.todo = <<>>

(* The lock to write: what was installed, over what the lock had when one  *)
(* dependency was updated (mergeLockFile).                                 *)
NewLock(resolved) ==
    [NoLock EXCEPT !.there = TRUE,
                   !.deps = IF task.op.name = "single"
                            THEN [n \in DOMAIN task.lock.deps \cup DOMAIN resolved |->
                                    IF n \in DOMAIN resolved THEN resolved[n] ELSE task.lock.deps[n]]
                            ELSE resolved]

(* SaveLockFile, written in place: a crash leaves a file that does not     *)
(* parse, or one that parses although it is cut short: whole entries of    *)
(* some packages, or none.                                                 *)
CutShort(lock) == {[NoLock EXCEPT !.there = TRUE, !.torn = TRUE]}
             \cup {[lock EXCEPT !.deps = [n \in some |-> lock.deps[n]]] : some \in SUBSET DOMAIN lock.deps}
(* What is installed is what was resolved, digests included.               *)
FinishInstall ==
    /\ InstalledAll
    /\ \/ task.op.fromLock /\ task' = [task EXCEPT !.op.at = "done"] /\ TNoFault
       \/ /\ ~task.op.fromLock
          /\ LET resolved == [n \in task.op.did |-> [version |-> task.packages[n].version, digest |-> task.packages[n].digest]]
             IN \/ task' = [task EXCEPT !.lock = NewLock(resolved), !.op.at = "done"] /\ TNoFault
                \/ /\ TFault
                   /\ \E left \in {task.lock} \cup CutShort(NewLock(resolved)) :
                        task' = [task EXCEPT !.lock = left, !.op = Returns(task.op.name, "failed")]

(* The repository publishes a version, or the same version again.          *)
Publish ==
    /\ task.turns > 0 /\ TNoFault
    /\ \E n \in DOMAIN task.catalog : \E v \in DOMAIN task.catalog[n] :
         task' = [Turn EXCEPT !.index = Put(@, <<n, v>>, IF <<n, v>> \in DOMAIN @ THEN 2 ELSE 1)]

(* The author asks for another version of a direct dependency, or removes  *)
(* a package from packages/.                                               *)
Edit ==
    /\ Ready /\ TNoFault
    /\ \/ \E i \in DOMAIN task.roots : \E allowed \in {{1}, {2}} :
            task' = [Turn EXCEPT !.roots[i].allowed = allowed, !.op = NoOp]
       \/ \E n \in DOMAIN task.packages :
            task' = [Turn EXCEPT !.packages = [m \in DOMAIN @ \ {n} |-> @[m]], !.op = NoOp]

PackagesStop == /\ task.turns = 0 /\ task.op.at \in {"idle", "done", "failed"} /\ TNoFault
                /\ task' = [task EXCEPT !.pc = "ok"]

PackagesStep ==
    \/ ResolveTransitive \/ CallReturns \/ ResolverStops
    \/ /\ task.kind = "packages" /\ task.pc = "run"
       /\ \/ BeginResolve \/ BeginUpdate \/ BeginSingle \/ TreeEnds \/ InstallOne \/ FinishInstall
          \/ Publish \/ Edit \/ PackagesStop

(* Any catalog whose versions are numbered and finitely many, any index of *)
(* some of them, any direct dependencies.                                  *)
CatalogInputs(catalog, index, roots) ==
    /\ \A n \in DOMAIN catalog : DOMAIN catalog[n] \subseteq Nat /\ IsFiniteSet(DOMAIN catalog[n])
    /\ \A n \in DOMAIN catalog : \A v \in DOMAIN catalog[n] : catalog[n][v] \in Seq(Range(catalog[n][v]))
    /\ \A e \in DOMAIN index : \E n \in DOMAIN catalog : \E v \in DOMAIN catalog[n] : e = <<n, v>>
    /\ roots \in Seq(Range(roots))
PackagesSpec ==
    /\ \E catalog, index, roots : \E turns \in Nat :
         /\ CatalogInputs(catalog, index, roots)
         /\ task = ResolveTask(catalog, roots) \/ task = PackagesTask(catalog, index, roots, turns)
    /\ tfaults = MaxTaskFaults /\ [][PackagesStep]_taskVars

-----------------------------------------------------------------------------
(* ListDependencies: what it says of each direct dependency                *)
(* (checkDependencyStatus) and each other locked one (checkLockedStatus).  *)
DirectStatus(d) ==
    IF ~IsInstalled(d.name) THEN "missing"
    ELSE IF task.packages[d.name].version \in d.allowed THEN "ok" ELSE "outdated"
LockedStatus(n) ==
    IF ~IsInstalled(n) THEN "missing"
    ELSE IF task.packages[n].version = task.lock.deps[n].version THEN "ok" ELSE "outdated"
ListStatus ==
    [n \in RootNames \cup DOMAIN task.lock.deps |->
        IF n \in RootNames THEN DirectStatus(CHOOSE d \in ToSet(task.roots) : d.name = n) ELSE LockedStatus(n)]

(* ResolveTree: what it returns fits together.  The version of every       *)
(* package is the highest one that every constraint put on it allows; the  *)
(* direct dependencies are among them, and so are the dependencies of the  *)
(* versions that were chosen in the end, also where a package was replaced *)
(* by another version on the way.  An error of a cycle means there is one. *)
FitsTogether ==
    /\ Tree.err = "none" =>
         /\ \A d \in ToSet(task.roots) : d.name \in DOMAIN Tree.resolved
         /\ \A n \in DOMAIN Tree.resolved :
              /\ Tree.resolved[n].version =
                    Max({v \in Published(n) : \A q \in Tree.asked : q.name = n => v \in q.allowed} \cup {0})
              /\ \A d \in ToSet(task.catalog[n][Tree.resolved[n].version]) :
                   d.name \in DOMAIN Tree.resolved /\ Tree.resolved[d.name].version \in d.allowed
    /\ Tree.err = "cycle" =>
         \E circle \in (SUBSET DOMAIN task.catalog) \ {{}} :
            \A n \in circle : \E v \in DOMAIN task.catalog[n] : \E d \in ToSet(task.catalog[n][v]) : d.name \in circle

(* ResolveDependencies, UpdateDependencies, UpdateSingleDependency: a       *)
(* command that succeeds leaves every direct dependency in a version its   *)
(* constraint allows, everything that is locked in the version of the lock, *)
(* and keramos dependency list says ok of each; what it installed has the  *)
(* digest of the lock, so a version published again with other content     *)
(* never gets in under an old lock.  An update leaves nothing else in      *)
(* packages/.  All this across failed commands, lock files torn or cut     *)
(* short, edits and publications before it.  (With a lock cut short, a     *)
(* package that only others ask for may not be there.)                     *)
DependenciesFit ==
    /\ task.kind = "resolve" /\ task.pc = "ok" => FitsTogether
    /\ task.kind = "packages" /\ task.op.at = "done" =>
         /\ task.op.name # "single" =>
              /\ \A n \in DOMAIN ListStatus : ListStatus[n] = "ok"
              /\ \A d \in ToSet(task.roots) : task.lock.deps[d.name].version \in d.allowed
         /\ \A n \in task.op.did :
              /\ task.packages[n].whole /\ task.packages[n].version = task.lock.deps[n].version
              /\ task.packages[n].digest = task.lock.deps[n].digest
         /\ task.op.name = "update" => DOMAIN task.packages = DOMAIN task.lock.deps

(* ResolveDependencies, the downloads, pull, verify, Do: the packages       *)
(* installed fit what asks for them and are those that were published, and *)
(* what goes over the wire for them goes where the user said.              *)
DependenciesHold == DependenciesFit /\ RepositoryKeepsFaith /\ RequestsBehave /\ FilesAgree /\ PluginsComeWhole
=============================================================================
