---------------------------- MODULE KubeCluster -----------------------------
(***************************************************************************)
(* The objects of one release in the Kubernetes cluster, as the calls of   *)
(* internal/kube/client.go change them.  cluster[r] is the chart whose     *)
(* version of resource r is live, or Absent.  A walk over a manifest makes *)
(* one API call per resource and stops at its first failure.               *)
(*                                                                         *)
(* kubeFaults is the number of failing cluster calls still allowed (the    *)
(* bound MaxKubeFaults): a rejected or timed-out call, a failed hook, a    *)
(* workload that never becomes ready.  A failing call may have landed.     *)
(***************************************************************************)
EXTENDS ReleaseRecord

CONSTANTS Absent,          \* the content of a resource that does not exist
          MaxKubeFaults    \* bound: failing cluster calls in a behaviour

ASSUME AbsentAssumption == Absent \notin Chart
ASSUME KubeFaultsAssumption == MaxKubeFaults \in Nat

VARIABLES cluster,         \* Resource -> Chart or Absent
          kubeFaults

ClusterInit == /\ cluster = [r \in Resource |-> Absent]
               /\ kubeFaults = MaxKubeFaults

ClusterTypeOK == /\ cluster \in [Resource -> Chart \cup {Absent}]
                 /\ kubeFaults \in 0 .. MaxKubeFaults

Live == {r \in Resource : cluster[r] # Absent}
-----------------------------------------------------------------------------
KubeFault == kubeFaults > 0 /\ kubeFaults' = kubeFaults - 1

KubeOk == UNCHANGED <<cluster, kubeFaults>>
KubeFails == KubeFault /\ UNCHANGED cluster

ApplyOk(r, ch) == cluster' = [cluster EXCEPT ![r] = ch] /\ UNCHANGED kubeFaults
ApplyFails(r, ch) ==
    KubeFault /\ (UNCHANGED cluster \/ cluster' = [cluster EXCEPT ![r] = ch])

RemoveOk(r) == cluster' = [cluster EXCEPT ![r] = Absent] /\ UNCHANGED kubeFaults
RemoveFails(r) ==
    KubeFault /\ (UNCHANGED cluster \/ cluster' = [cluster EXCEPT ![r] = Absent])

(* SnapshotResources: the declared resources a Get found; a Get that fails *)
(* for any reason counts the resource as missing.                          *)
Snapshot(ch, S) ==
    \/ S = Manifest[ch] \cap Live /\ KubeOk
    \/ \E r \in Manifest[ch] \cap Live : S = (Manifest[ch] \cap Live) \ {r} /\ KubeFails

(* ResourcesNeedingForce: some of the live resources whose content differs *)
(* from the wanted one, those where an immutable field differs.            *)
Diverging(ch) == {r \in Manifest[ch] \cap Live : cluster[r] # ch}
=============================================================================
