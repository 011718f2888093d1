----------------------------- MODULE Workspace ------------------------------
(***************************************************************************)
(* keramos workspace install | upgrade | uninstall: the members of a       *)
(* workspace file are grouped into dependency levels (Levels in            *)
(* internal/workspace/workspace.go), the levels run one after the other,   *)
(* and the members of a level run concurrently, at most --parallel at a    *)
(* time (runWorkspaceParallel in internal/cli/workspace.go).               *)
(*                                                                         *)
(* A member is named by a number, which gives the order sort.Strings sorts *)
(* names in.  graph maps the members of the file to what they depend on.   *)
(* The count indeg[m] of Levels is represented by the set it counts.       *)
(* Names are distinct: Load does not check it, every documented file       *)
(* respects it.                                                            *)
(***************************************************************************)
EXTENDS Naturals, Sequences, FiniteSets

CONSTANTS Name,            \* the names members and dependencies may have
          Graphs,          \* the workspace files: functions from names to sets of names
          Options,         \* the flags a run may have
          MaxFaults        \* bound: failures in a run

Flags == [op : {"install", "upgrade", "uninstall"}, atomic : BOOLEAN, goOn : BOOLEAN,
          gate : BOOLEAN, dry : BOOLEAN, parallel : Nat]

ASSUME NameAssumption == Name \subseteq Nat
ASSUME GraphsAssumption ==
    Graphs \subseteq UNION {[M -> SUBSET Name] : M \in SUBSET Name}
ASSUME OptionsAssumption == Options \subseteq Flags
ASSUME FaultsAssumption == MaxFaults \in Nat

VARIABLES graph,           \* the workspace file
          opts,            \* the flags
          pc,
          indeg,           \* member -> the dependencies no level holds yet
          levels,          \* the levels found so far, each a set of members
          level,           \* number of the running level
          todo,            \* its members that have no goroutine yet
          running,         \* the goroutines
          completed,       \* the results in the order they were appended
          gated,           \* the members the health gate has still to wait for
          undo,            \* the results the atomic rollback has still to walk
          rel,             \* member -> its release in the cluster
          faults,
          result           \* what the command returns

wvars == <<graph, opts, pc, indeg, levels, level, todo, running, completed,
           gated, undo, rel, faults, result>>
plan == <<graph, opts, indeg, levels>>

Member == DOMAIN graph
(* A release is absent, as it was before the run, of this run, or torn: a  *)
(* failed operation left something of it behind.                           *)
Content == {"absent", "old", "new", "torn"}

WorkspaceInit ==
    /\ graph \in Graphs /\ opts \in Options
    /\ pc = "load"
    /\ indeg = [m \in Name |-> {}]
    /\ levels = <<>> /\ level = 0 /\ todo = {} /\ running = {} /\ completed = <<>>
    /\ gated = {} /\ undo = <<>>
    /\ rel \in [Name -> {"absent", "old"}]
    /\ \A m \in Name \ Member : rel[m] = "absent"
    /\ faults = MaxFaults
    /\ result = "none"

-----------------------------------------------------------------------------
(* Levels.                                                                 *)

Placed == UNION {levels[i] : i \in DOMAIN levels}
Next0 == {m \in Member \ Placed : indeg[m] = {}}

(* Mutant: the error is lost.                                              *)
RefuseSilently == /\ pc' = "done"
                  /\ UNCHANGED <<graph, opts, indeg, levels, level, todo, running,
                                 completed, gated, undo, rel, faults, result>>

Refuse == /\ pc' = "done" /\ result' = "refused"
          /\ UNCHANGED <<graph, opts, indeg, levels, level, todo, running,
                         completed, gated, undo, rel, faults>>

(* --atomic-workspace and --continue-on-error exclude one another; a       *)
(* dependency on a name the file does not declare is an error.             *)
Acceptable == /\ ~(opts.atomic /\ opts.goOn)
              /\ \A m \in Member : graph[m] \subseteq Member

Load ==
    /\ pc = "load"
    /\ IF ~Acceptable THEN Refuse
       ELSE /\ indeg' = [m \in Name |-> IF m \in Member THEN graph[m] ELSE {}]
            /\ pc' = "levels"
            /\ UNCHANGED <<graph, opts, levels, level, todo, running, completed,
                           gated, undo, rel, faults, result>>

(* One round of the loop: the members without a dependency left are the    *)
(* next level, and are taken off the dependencies of the others.           *)
Peel ==
    /\ pc = "levels" /\ Next0 # {}
    /\ levels' = Append(levels, Next0)
    /\ indeg' = [m \in Name |-> indeg[m] \ Next0]
    /\ UNCHANGED <<graph, opts, pc, level, todo, running, completed, gated,
                   undo, rel, faults, result>>

(* Mutant: uninstall runs the levels forwards.                             *)
NthForwards(n) == n

(* The index in levels of the n-th level to run; uninstall reverses them.  *)
Nth(n) == IF opts.op = "uninstall" THEN Len(levels) + 1 - n ELSE n

(* Mutant: processed is not compared with the number of members.           *)
NeverStuck == FALSE

(* processed # len(w.Members): those left over depend on one another.      *)
Stuck == Placed # Member

Planned ==
    /\ pc = "levels" /\ Next0 = {}
    /\ IF Stuck THEN Refuse
       ELSE /\ pc' = "next"
            /\ UNCHANGED <<graph, opts, indeg, levels, level, todo, running,
                           completed, gated, undo, rel, faults, result>>

-----------------------------------------------------------------------------
(* The run.                                                                *)

(* Mutant: the sense of the error is inverted.                             *)
Failed(r) == ~r.ok
Ok(r) == r.ok
Failures == {i \in DOMAIN completed : ~completed[i].ok}

(* The next level, or the summary after the last one.                      *)
Advance ==
    /\ pc = "next"
    /\ IF level < Len(levels)
       THEN /\ level' = level + 1 /\ todo' = levels[Nth(level + 1)]
            /\ pc' = "run" /\ UNCHANGED result
       ELSE /\ pc' = "done" /\ result' = (IF Failures = {} THEN "ok" ELSE "failed")
            /\ UNCHANGED <<level, todo>>
    /\ UNCHANGED <<plan, running, completed, gated, undo, rel, faults>>

(* Mutant: --parallel is taken as it is.                                   *)
RawSlots == opts.parallel
Slots == IF opts.parallel = 0 THEN 1 ELSE opts.parallel

(* A goroutine takes a slot of the semaphore before it starts; the members *)
(* of a level start in the order of their names.                           *)
Start(m) ==
    /\ pc = "run" /\ m \in todo /\ \A k \in todo : m <= k
    /\ Cardinality(running) < Slots
    /\ todo' = todo \ {m} /\ running' = running \cup {m}
    /\ UNCHANGED <<plan, pc, level, completed, gated, undo, rel, faults, result>>

(* What a member's operation makes of its release: install refuses one     *)
(* that exists, upgrade --install and uninstall --ignore-not-found do not. *)
(* The latter takes one it cannot read for one that is not there, and       *)
(* reports success.                                                        *)
Succeeds(m) ==
    /\ opts.op = "install" => rel[m] = "absent" \/ opts.dry
    /\ \/ /\ UNCHANGED faults
          /\ rel' = IF opts.dry THEN rel
                    ELSE [rel EXCEPT ![m] = IF opts.op = "uninstall" THEN "absent" ELSE "new"]
       \/ /\ opts.op = "uninstall" /\ ~opts.dry /\ UNCHANGED rel
          /\ faults > 0 /\ faults' = faults - 1

Fails(m) ==
    \/ opts.op = "install" /\ rel[m] # "absent" /\ ~opts.dry /\ UNCHANGED <<rel, faults>>
    \/ /\ faults > 0 /\ faults' = faults - 1
       /\ ~(opts.op = "uninstall" /\ opts.dry)
       /\ \/ UNCHANGED rel
          \/ ~opts.dry /\ rel' = [rel EXCEPT ![m] = "torn"]

(* runWorkspaceMember returns; its result is appended under the mutex and  *)
(* the slot is given back.                                                 *)
Finish(m) ==
    /\ pc = "run" /\ m \in running
    /\ \E ok \in BOOLEAN :
         /\ IF ok THEN Succeeds(m) ELSE Fails(m)
         /\ completed' = Append(completed, [member |-> m, ok |-> ok])
    /\ running' = running \ {m}
    /\ UNCHANGED <<plan, pc, level, todo, gated, undo, result>>

(* wg.Wait has returned: wait for the health of the level, or decide.      *)
LevelDone ==
    /\ pc = "run" /\ todo = {} /\ running = {}
    /\ IF opts.gate /\ opts.op # "uninstall"
       THEN pc' = "gate" /\ gated' = levels[Nth(level)]
       ELSE pc' = "decide" /\ UNCHANGED gated
    /\ UNCHANGED <<plan, level, todo, running, completed, undo, rel, faults, result>>

(* waitLevelHealthy, one member: it becomes ready, or is skipped because it *)
(* has no release or because its turn comes after the deadline.            *)
GatePasses(m) ==
    /\ pc = "gate" /\ m \in gated /\ \A k \in gated : m <= k
    /\ gated' = gated \ {m}
    /\ UNCHANGED <<plan, pc, level, todo, running, completed, undo, rel, faults, result>>

(* A member that does not become ready in time, or a client or a store     *)
(* that cannot be made.  The error ends the run at once, before the branch *)
(* that handles failures, unless the run continues on errors.              *)
GateFails(m) ==
    /\ pc = "gate" /\ m \in gated /\ \A k \in gated : m <= k
    /\ faults > 0 /\ faults' = faults - 1
    /\ gated' = {}
    /\ IF opts.goOn THEN pc' = "decide" /\ UNCHANGED result
                    ELSE pc' = "done" /\ result' = "unhealthy"
    /\ UNCHANGED <<plan, level, todo, running, completed, undo, rel>>

GateDone ==
    /\ pc = "gate" /\ gated = {}
    /\ pc' = "decide"
    /\ UNCHANGED <<plan, level, todo, running, completed, gated, undo, rel, faults, result>>

(* Fail fast: a failure ends the run unless it continues on errors, and    *)
(* --atomic-workspace first takes the successes back.                      *)
Decide ==
    /\ pc = "decide"
    /\ IF Failures = {} \/ opts.goOn THEN pc' = "next" /\ UNCHANGED <<undo, result>>
       ELSE IF opts.atomic THEN pc' = "undo" /\ undo' = completed /\ UNCHANGED result
       ELSE pc' = "done" /\ result' = "failed" /\ UNCHANGED undo
    /\ UNCHANGED <<plan, level, todo, running, completed, gated, rel, faults>>

(* rollbackWorkspace walks the results from the last one back and          *)
(* uninstalls the successes, whatever the operation was; an uninstall that *)
(* fails is only logged.                                                   *)
Undo ==
    /\ pc = "undo" /\ undo # <<>>
    /\ LET r == undo[Len(undo)] IN
       \/ ~Ok(r) /\ UNCHANGED <<rel, faults>>
       \/ Ok(r) /\ rel' = [rel EXCEPT ![r.member] = "absent"] /\ UNCHANGED faults
       \/ /\ Ok(r) /\ faults > 0 /\ faults' = faults - 1
          /\ rel' \in {rel, [rel EXCEPT ![r.member] = "torn"]}
    /\ undo' = SubSeq(undo, 1, Len(undo) - 1)
    /\ UNCHANGED <<plan, pc, level, todo, running, completed, gated, result>>

UndoDone ==
    /\ pc = "undo" /\ undo = <<>>
    /\ pc' = "done" /\ result' = "failed"
    /\ UNCHANGED <<plan, level, todo, running, completed, gated, undo, rel, faults>>

WorkspaceStep ==
    \/ Load \/ Peel \/ Planned \/ Advance \/ LevelDone \/ GateDone \/ Decide \/ Undo \/ UndoDone
    \/ \E m \in Name : Start(m) \/ Finish(m) \/ GatePasses(m) \/ GateFails(m)

(* The command has returned.                                               *)
WorkspaceRest == pc = "done" /\ UNCHANGED wvars

WorkspaceNext == WorkspaceStep \/ WorkspaceRest
WorkspaceSpec == WorkspaceInit /\ [][WorkspaceNext]_wvars
FairWorkspaceSpec == WorkspaceSpec /\ WF_wvars(WorkspaceStep)

-----------------------------------------------------------------------------
(* What a run over the members promises.                                   *)
Result == [member : Name, ok : BOOLEAN]

(* The types of the variables (workspaceRunOpts, workspaceResult).         *)
WorkspaceTypeOK ==
    /\ graph \in Graphs /\ opts \in Options
    /\ pc \in {"load", "levels", "next", "run", "gate", "decide", "undo", "done"}
    /\ indeg \in [Name -> SUBSET Name]
    /\ levels \in Seq(SUBSET Name)
    /\ level \in Nat
    /\ todo \subseteq Name /\ running \subseteq Name /\ gated \subseteq Name
    /\ completed \in Seq(Result) /\ undo \in Seq(Result)
    /\ rel \in [Name -> Content]
    /\ faults \in 0 .. MaxFaults
    /\ result \in {"none", "refused", "unhealthy", "failed", "ok"}
    /\ pc = "done" <=> result # "none"

Done(m) == \E i \in DOMAIN completed :
             completed[i].member = m /\ (completed[i].ok \/ opts.goOn)

(* The level barrier and the fail-fast branch of runWorkspaceParallel: no  *)
(* member is at work before everything it depends on has been installed,   *)
(* and none is removed before everything that depends on it; a dependency  *)
(* that failed counts only with --continue-on-error.                       *)
DependenciesFirst ==
    \A m \in running :
        IF opts.op = "uninstall"
        THEN \A n \in Member : m \in graph[n] => Done(n)
        ELSE \A d \in graph[m] : Done(d)

(* rollbackWorkspace: when a failure ends an atomic run, the members that  *)
(* had succeeded are gone, but for those whose own uninstall failed or     *)
(* could not read their record.                                            *)
AtomicUndoesTheSuccesses ==
    pc = "done" /\ result = "failed" /\ opts.atomic /\ ~opts.dry =>
        Cardinality({i \in DOMAIN completed \ Failures : rel[completed[i].member] # "absent"})
          + (IF opts.op = "install" THEN 0 ELSE Cardinality(Failures)) <= MaxFaults - faults

(* Levels and the summary: a run that reports success, or that continued   *)
(* on errors to its end, has worked on every member exactly once, and      *)
(* reports success only if each of them succeeded.                         *)
EveryMemberOnce ==
    pc = "done" /\ (result = "ok" \/ (result = "failed" /\ opts.goOn)) =>
        /\ {completed[i].member : i \in DOMAIN completed} = Member
        /\ Len(completed) = Cardinality(Member)
        /\ result = "ok" <=> Failures = {}

(* Neither the semaphore nor the barrier nor the gate of a level blocks    *)
(* the command for ever, whatever --parallel is.                           *)
RunReturns == <>(pc = "done")

(* docs/cli/workspace-upgrade.md:55 and docs/cli/workspace-install.md:54:  *)
(* --dry-run skips applying anything to the cluster.  It does not hold:    *)
(* with --atomic-workspace a member that fails to render makes             *)
(* rollbackWorkspace uninstall the live releases of the members before it. *)
DryRunTouchesNothing == [][opts.dry => rel' = rel]_wvars
=============================================================================
