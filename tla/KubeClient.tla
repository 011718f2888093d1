----------------------------- MODULE KubeClient -----------------------------
(***************************************************************************)
(* The client of the cluster (internal/kube/client.go): WaitForReady, and  *)
(* what the client promises of all it does (Ownership, Kinds and the tests *)
(* of a release on top).                                                   *)
(*                                                                         *)
(* WaitForReady: the resources of a manifest are                           *)
(* waited for one by one, against what their controllers report.  A        *)
(* controller works on a copy of the object: the pods it reports are those *)
(* it saw when it last wrote the status, for the generation it had then.   *)
(*                                                                         *)
(* A workload has pods of the old and of the new template, some of them    *)
(* available; other kinds have a phase.                                    *)
(***************************************************************************)
EXTENDS Ownership, Kinds, ReleaseTests

Workloads == {"Deployment", "StatefulSet", "DaemonSet"}

(* A workload whose template was changed from one of generation 1.         *)
NewWorkload(kind, desired) ==
    [kind |-> kind, generation |-> 2, desired |-> desired, old |-> desired, new |-> 0,
     oldUp |-> desired, newUp |-> 0, observed |-> 1, stalled |-> FALSE,
     seen |-> [total |-> desired, updated |-> desired, up |-> desired, upNew |-> desired]]

Other(kind, phase) == [kind |-> kind, phase |-> phase]

RolloutTask(objects) == [kind |-> "rollout", pc |-> "wait", at |-> 1, objects |-> objects, verdicts |-> <<>>]

Waited == task.objects[task.at]

-----------------------------------------------------------------------------
(* The readiness of one resource: "ready", "failed" (the wait ends at      *)
(* once) or "not yet".                                                     *)
Verdict(failed, ready) == IF failed THEN "failed" ELSE IF ready THEN "ready" ELSE "not yet"

(* Mutant: available replicas are enough.                                  *)
DeploymentByAvailability(o) ==
    Verdict(o.stalled /\ o.observed = o.generation,
            o.observed = o.generation /\ o.seen.up >= o.desired)
(* waitForDeployment: conditions and counts of the current generation.     *)
DeploymentReady(o) ==
    Verdict(o.stalled /\ o.observed = o.generation,
            /\ o.observed = o.generation
            /\ o.seen.updated >= o.desired /\ o.seen.up >= o.desired
            /\ o.seen.total <= o.seen.updated)

(* waitForStatefulSet; the revisions agree when no old pod is left.        *)
StatefulSetReady(o) ==
    Verdict(FALSE, /\ o.observed = o.generation
                   /\ o.seen.updated >= o.desired /\ o.seen.up >= o.desired
                   /\ o.seen.total = o.seen.updated)

(* waitForDaemonSet; no node wants it.                                     *)
DaemonSetReady(o) ==
    Verdict(FALSE, /\ o.observed = o.generation
                   /\ \/ o.desired = 0
                      \/ o.seen.updated >= o.desired /\ o.seen.up >= o.desired)

(* waitForPod, waitForPVC with bindsOnFirstConsumer, waitForService,       *)
(* WaitForJob; nothing is known of other kinds.                            *)
PhaseReady(o) ==
    CASE o.kind = "Pod" -> Verdict(o.phase = "failed", o.phase \in {"succeeded", "running and ready"})
      [] o.kind = "PersistentVolumeClaim" ->
           Verdict(o.phase = "lost", o.phase \in {"bound", "pending for a consumer"})
      [] o.kind = "LoadBalancer" -> Verdict(FALSE, o.phase = "has an address")
      [] o.kind = "Job" -> Verdict(o.phase = "failed", o.phase = "succeeded")
      [] OTHER -> "ready"

Readiness(o) ==
    CASE o.kind = "Deployment" -> DeploymentReady(o)
      [] o.kind = "StatefulSet" -> StatefulSetReady(o)
      [] o.kind = "DaemonSet" -> DaemonSetReady(o)
      [] OTHER -> PhaseReady(o)

(* waitForResource: poll until the deadline; a read that fails is a poll   *)
(* without a verdict.                                                      *)
Poll ==
    /\ task.pc = "wait" /\ task.at <= Len(task.objects)
    /\ \/ /\ Readiness(Waited) = "ready" /\ TNoFault
          /\ task' = [task EXCEPT !.at = @ + 1, !.verdicts = Append(@, Waited)]
       \/ /\ Readiness(Waited) = "failed" /\ TNoFault
          /\ task' = [task EXCEPT !.pc = "error"]
       \/ /\ Readiness(Waited) = "not yet" /\ TNoFault
          /\ task' = [task EXCEPT !.pc = "error"]     \* the deadline
       \/ /\ TFault
          /\ task' = [task EXCEPT !.pc = "error"]

AllReady ==
    /\ task.pc = "wait" /\ task.at > Len(task.objects)
    /\ task' = [task EXCEPT !.pc = "ok"] /\ TNoFault

-----------------------------------------------------------------------------
(* The cluster.                                                            *)
Becomes(i, o) == task' = [task EXCEPT !.objects[i] = o] /\ TNoFault

(* The controller reports what it sees of the generation it works on.      *)
WriteStatus(i) ==
    LET o == task.objects[i] IN
    /\ o.kind \in Workloads
    /\ LET r == [o EXCEPT !.observed = o.generation,
                          !.seen = [total |-> o.old + o.new, updated |-> o.new,
                                    up |-> o.oldUp + o.newUp, upNew |-> o.newUp]] IN
       r # o /\ Becomes(i, r)

(* It starts and stops pods, with one more than desired at a time.         *)
Roll(i) ==
    LET o == task.objects[i] IN
    /\ o.kind \in Workloads
    /\ \/ /\ o.new < o.desired /\ o.old + o.new <= o.desired
          /\ Becomes(i, [o EXCEPT !.new = @ + 1])
       \/ o.newUp < o.new /\ ~o.stalled /\ Becomes(i, [o EXCEPT !.newUp = @ + 1])
       \/ /\ o.old > 0 /\ o.oldUp + o.newUp > o.desired
          /\ Becomes(i, [o EXCEPT !.old = @ - 1, !.oldUp = @ - 1])
       \/ /\ ~o.stalled /\ o.newUp < o.new /\ o.kind = "Deployment"
          /\ Becomes(i, [o EXCEPT !.stalled = TRUE])

(* What becomes of a resource without pods.                                *)
ObjectPhases == {"pending", "pending for a consumer", "failed", "succeeded", "running and ready",
                 "bound", "lost", "has an address"}
Becoming(kind, phase) ==
    \/ kind \in {"Pod", "Job"} /\ phase \in {"failed", "succeeded"}
    \/ kind = "Pod" /\ phase = "running and ready"
    \/ kind = "PersistentVolumeClaim" /\ phase \in {"bound", "lost"}
    \/ kind = "LoadBalancer" /\ phase = "has an address"

Settle(i) ==
    LET o == task.objects[i] IN
    /\ o.kind \notin Workloads /\ o.phase = "pending"
    /\ \E p \in ObjectPhases : Becoming(o.kind, p) /\ Becomes(i, [o EXCEPT !.phase = p])

RolloutStep ==
    /\ task.kind = "rollout"
    /\ \/ Poll \/ AllReady
       \/ ~TaskEnded /\ \E i \in DOMAIN task.objects : WriteStatus(i) \/ Roll(i) \/ Settle(i)

(* What a manifest may hold when the wait begins; an upgrade may scale a   *)
(* workload as well.                                                       *)
Scaled(o, desired) == [o EXCEPT !.desired = desired]
WaitInputs ==
    {Scaled(NewWorkload(w[1], w[2]), w[3]) : w \in Workloads \X Nat \X Nat}
    \cup {Other(kind, "pending") : kind \in {"Pod", "PersistentVolumeClaim", "LoadBalancer", "Job"}}
    \cup {Other("PersistentVolumeClaim", "pending for a consumer"), Other("ConfigMap", "applied")}

RolloutSpec == /\ \E objects \in Seq(WaitInputs) : task = RolloutTask(objects)
               /\ tfaults = MaxTaskFaults /\ [][RolloutStep]_taskVars

-----------------------------------------------------------------------------
(* docs and waitForDeployment: a wait that succeeds has seen, for each     *)
(* workload, a report of the new generation with no pod of the old template *)
(* left and every desired pod of the new one available; the old pods that   *)
(* still serve during a rolling update do not count.                       *)
ReadyIsRolledOut ==
    task.kind = "rollout" /\ task.pc = "ok" =>
        /\ Len(task.verdicts) = Len(task.objects)
        /\ \A i \in DOMAIN task.verdicts :
             LET o == task.verdicts[i] IN
             IF o.kind \in {"Deployment", "StatefulSet"}
             THEN /\ o.observed = o.generation
                  /\ o.seen.total = o.seen.updated /\ o.seen.upNew >= o.desired
             ELSE o.kind \notin Workloads => o.phase \notin {"pending", "failed", "lost"}

-----------------------------------------------------------------------------
(* A task of the client.                                                   *)
ClientSpec == OwnershipSpec \/ RolloutSpec \/ KindsSpec \/ TestsSpec

(* ApplyManifests, WaitForReady, checkOwnership, DeleteManifests: what the *)
(* client reports of the cluster is so, and it takes nobody's objects.     *)
ClientKeepsItsWord == ReadyIsRolledOut /\ OwnershipNeedsConsent /\ ObjectsWhereTheyLive /\ TestsTellTheTruth
=============================================================================
