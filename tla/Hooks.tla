------------------------------- MODULE Hooks --------------------------------
(***************************************************************************)
(* A hook phase (internal/hooks/hooks.go): the files of the hooks          *)
(* directory are parsed, those of the phase are sorted by weight, and each *)
(* is applied and waited for before the next.                              *)
(*                                                                         *)
(* A hook's manifest is a sequence of resources, waited for ("Job") or not *)
(* ("Other").  A resource is absent, runs, is done or has failed, or is    *)
(* being deleted; what an earlier phase left may be there.                 *)
(***************************************************************************)
EXTENDS ClusterTask, Integers

Phases == {"pre-upgrade", "post-upgrade"}
Policies == {"before-hook-creation", "hook-succeeded", "hook-failed"}

-----------------------------------------------------------------------------
(* ParseHooks.  A file is named by a rank and a stem, the lifecycle event  *)
(* or anything else; bad says what of its directive does not parse.        *)

(* hookTypeFromFilename: the name of the file before the phase it states.  *)
PhaseOf(f) == IF f.stem \in Phases THEN f.stem
              ELSE IF f.says \in Phases THEN f.says ELSE "skipped"

Invalid(f) == f.bad = "directive" \/ (f.bad = "timeout" /\ PhaseOf(f) # "skipped")

(* filterByType.                                                           *)
OfPhase(files, phase) == {f \in files : PhaseOf(f) = phase}

(* Mutant: the hooks of a phase are not sorted.                            *)
AnyOrder(hs) == SetToSeqs(hs)
(* ParseHooks sorts them by file name and by weight, but sort.Slice, after *)
(* filterByType, is not stable: hooks of one weight come in any order.     *)
ByWeight(hs) == {s \in SetToSeqs(hs) : \A i, j \in DOMAIN s : i < j => s[i].weight <= s[j].weight}

(* hasDeletePolicy: before-hook-creation when none is declared.            *)
HasPolicy(f, p) == IF f.policy = {} THEN p = "before-hook-creation" ELSE p \in f.policy

-----------------------------------------------------------------------------
(* ExecuteHooksWithTimeout.                                                *)

HookTask(files, phase, objects) ==
    [kind |-> "hooks", pc |-> "parse", files |-> files, phase |-> phase, order |-> <<>>, at |-> 1,
     res |-> 1, failed |-> FALSE, blind |-> FALSE, objects |-> objects, ran |-> {}, passed |-> {}]

Hook == task.order[task.at]
Obj(f) == task.objects[f.rank]
Where(pc) == [task EXCEPT !.pc = pc]

Deleting(states) == [i \in DOMAIN states |-> IF states[i] = "absent" THEN "absent" ELSE "ending"]
DeleteAll(t, f) == [t EXCEPT !.objects[f.rank] = Deleting(@)]

ParseFiles ==
    /\ task.pc = "parse" /\ TNoFault
    /\ IF \E f \in task.files : Invalid(f) THEN task' = Where("error")
       ELSE \E order \in ByWeight(OfPhase(task.files, task.phase)) :
              task' = [task EXCEPT !.pc = IF order = <<>> THEN "ok" ELSE "before", !.order = order]

(* Delete what is left of the hook, and fail if that fails.                *)
BeforeHook ==
    /\ task.pc = "before"
    /\ \/ /\ ~HasPolicy(Hook, "before-hook-creation")
          /\ task' = Where("apply") /\ TNoFault
       \/ /\ HasPolicy(Hook, "before-hook-creation")
          /\ task' = [DeleteAll(task, Hook) EXCEPT !.pc = "gone"] /\ TNoFault
       \/ /\ HasPolicy(Hook, "before-hook-creation") /\ TFault
          /\ task' \in {Where("error"), [DeleteAll(task, Hook) EXCEPT !.pc = "error"]}

(* waitForHookDeletion: a Lookup that fails counts as gone.                *)
Gone ==
    /\ task.pc = "gone"
    /\ \/ /\ \A i \in DOMAIN Obj(Hook) : Obj(Hook)[i] = "absent"
          /\ task' = Where("apply") /\ TNoFault
       \/ task' = [task EXCEPT !.pc = "apply", !.blind = TRUE] /\ TFault
       \/ task' = Where("error") /\ TFault

(* deleteHookResources after a failure, under hook-failed; its own error   *)
(* is only logged.                                                         *)
CleanedUp(t) == IF HasPolicy(Hook, "hook-failed") THEN DeleteAll(t, Hook) ELSE t

Started(f) == [i \in DOMAIN f.kinds |->
                 IF Obj(f)[i] # "absent" THEN Obj(f)[i]
                 ELSE IF f.kinds[i] = "Job" THEN "running" ELSE "done"]
Fresh(f) == {<<f.rank, i>> : i \in {i \in DOMAIN f.kinds : Obj(f)[i] = "absent"}}

(* A resource that is still there is left as it is by the apply.           *)
ApplyHook ==
    /\ task.pc = "apply"
    /\ LET created == [task EXCEPT !.objects[Hook.rank] = Started(Hook), !.ran = @ \cup Fresh(Hook)] IN
       \/ /\ task' = [created EXCEPT !.pc = "wait", !.res = 1, !.failed = FALSE] /\ TNoFault
       \/ /\ TFault
          /\ \E t \in {task, created} : task' \in {[t EXCEPT !.pc = "error"],
                                                   [CleanedUp(t) EXCEPT !.pc = "error"]}

(* Wait for the resources one by one.  One that fails, or does not end in  *)
(* time, fails the hook; the others are waited for all the same.           *)
WaitFor ==
    /\ task.pc = "wait" /\ task.res <= Len(Hook.kinds)
    /\ LET state == Obj(Hook)[task.res]
           next(failed) == task' = [task EXCEPT !.res = @ + 1, !.failed = @ \/ failed] IN
       \/ (Hook.kinds[task.res] # "Job" \/ state = "done") /\ next(FALSE) /\ TNoFault
       \/ Hook.kinds[task.res] = "Job" /\ state \in {"failed", "absent"} /\ next(TRUE) /\ TNoFault
       \/ Hook.kinds[task.res] = "Job" /\ state # "done" /\ next(TRUE) /\ TFault

Succeeded == LET t == [task EXCEPT !.passed = @ \cup {Hook.rank}, !.at = @ + 1] IN
             [t EXCEPT !.pc = IF task.at = Len(task.order) THEN "ok" ELSE "before"]

(* The hook is over: the policies, and the next hook.  A deletion that     *)
(* fails after a success fails the phase.                                  *)
HookOver ==
    /\ task.pc = "wait" /\ task.res > Len(Hook.kinds)
    /\ \/ task.failed /\ task' = [CleanedUp(task) EXCEPT !.pc = "error"] /\ TNoFault
       \/ task.failed /\ HasPolicy(Hook, "hook-failed") /\ task' = Where("error") /\ TFault
       \/ ~task.failed /\ ~HasPolicy(Hook, "hook-succeeded") /\ task' = Succeeded /\ TNoFault
       \/ ~task.failed /\ HasPolicy(Hook, "hook-succeeded") /\ task' = DeleteAll(Succeeded, Hook) /\ TNoFault
       \/ ~task.failed /\ HasPolicy(Hook, "hook-succeeded") /\ task' = Where("error") /\ TFault

(* The cluster: a Job ends, a deletion completes.                          *)
ClusterMoves ==
    /\ ~TaskEnded /\ TNoFault
    /\ \E f \in task.files : \E i \in DOMAIN Obj(f) :
         \E e \in {"done", "failed", "absent"} :
            /\ Obj(f)[i] = (IF e = "absent" THEN "ending" ELSE "running")
            /\ task' = [task EXCEPT !.objects[f.rank][i] = e]

HookStep == /\ task.kind = "hooks"
            /\ ParseFiles \/ BeforeHook \/ Gone \/ ApplyHook \/ WaitFor \/ HookOver \/ ClusterMoves

(* The files of a hooks directory, and the objects of their manifests.     *)
HookSource == [rank : Nat, stem : STRING, says : STRING, bad : {"no", "directive", "timeout"},
             weight : Int, policy : SUBSET Policies, kinds : Seq({"Job", "Other"})]
ObjectState == {"absent", "running", "done", "failed", "ending"}
HookInputs(files, objects) ==
    /\ IsFiniteSet(files) /\ files \subseteq HookSource
    /\ \A f, g \in files : f.rank = g.rank => f = g
    /\ objects = [r \in {f.rank : f \in files} |-> objects[r]]
    /\ \A f \in files : objects[f.rank] \in [DOMAIN f.kinds -> ObjectState]

HookSpec == /\ \E files, objects : \E phase \in Phases :
                  HookInputs(files, objects) /\ task = HookTask(files, phase, objects)
            /\ tfaults = MaxTaskFaults /\ [][HookStep]_taskVars

-----------------------------------------------------------------------------
PhaseHooks == OfPhase(task.files, task.phase)
RanHook(f) == \E i \in DOMAIN f.kinds : <<f.rank, i>> \in task.ran

(* A hook starts only after every hook of less weight has passed, and none *)
(* starts after a failure; a phase that succeeds has run every resource of *)
(* every hook that is deleted before its creation, not taken the Job of an *)
(* earlier phase for this one's, as long as no lookup failed; and what     *)
(* hook-succeeded and hook-failed are to delete is on its way out unless a *)
(* call failed.                                                            *)
HooksRunOnceInOrder ==
    task.kind = "hooks" =>
        /\ \A f, g \in PhaseHooks : RanHook(f) /\ g.weight < f.weight => g.rank \in task.passed
        /\ task.pc = "error" => \A f \in PhaseHooks : RanHook(f) /\ f.rank \notin task.passed => f = Hook
        /\ task.pc = "ok" /\ ~task.blind =>
             \A f \in PhaseHooks : /\ f.rank \in task.passed
                                   /\ HasPolicy(f, "before-hook-creation") =>
                                        \A i \in DOMAIN f.kinds : <<f.rank, i>> \in task.ran
        /\ tfaults = MaxTaskFaults =>
             \A f \in PhaseHooks :
                IF f.rank \in task.passed THEN HasPolicy(f, "hook-succeeded") =>
                                                 \A i \in DOMAIN f.kinds : Obj(f)[i] \in {"absent", "ending"}
                ELSE task.pc = "error" /\ RanHook(f) /\ HasPolicy(f, "hook-failed") =>
                       \A i \in DOMAIN f.kinds : Obj(f)[i] \in {"absent", "ending"}
=============================================================================
