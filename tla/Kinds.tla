------------------------------- MODULE Kinds --------------------------------
(***************************************************************************)
(* A manifest with kinds of its own in the hands of one long-lived client  *)
(* (internal/kube/client.go): a CustomResourceDefinition, its custom       *)
(* objects, an object without a namespace.  The client caches which kinds  *)
(* the API server serves and in which scope, and refreshes when a kind is  *)
(* not there; the definition is served some time after it is applied, and  *)
(* its objects go with it when it is deleted.                              *)
(*                                                                         *)
(* The client runs a script of its operations over the manifest.  Objects  *)
(* are identified by their place in the manifest.                          *)
(***************************************************************************)
EXTENDS ClusterTask

BuiltIn == {"CustomResourceDefinition", "StorageClass", "ConfigMap"}
Custom == {"Widget", "Fleet"}
InCluster == {"CustomResourceDefinition", "StorageClass", "Fleet"}
ScopeOf(kind) == IF kind \in InCluster THEN "cluster" ELSE "namespace"

(* staticClusterScoped *)
StaticClusterScoped == {"CustomResourceDefinition"}

Document(kind, keep) == [kind |-> kind, keep |-> keep]

(* objects: the documents that exist; defined: how far the definition is;  *)
(* cache: the kinds of the client's mapper; todo: the documents left of    *)
(* the operation; before: the objects when it began; found: what a reading *)
(* operation has collected.                                                *)
KindsTask(docs, present, script) ==
    [kind |-> "kinds", pc |-> "run", docs |-> docs, objects |-> present, script |-> script, op |-> "none",
     defined |-> IF \E i \in present : docs[i].kind = "CustomResourceDefinition" THEN "served" ELSE "no",
     cache |-> {}, todo |-> <<>>, waiting |-> <<>>, before |-> {}, found |-> {}, skipped |-> FALSE,
     result |-> <<"none", "ok">>]

KindOf(i) == task.docs[i].kind
Served == BuiltIn \cup (IF task.defined = "served" THEN Custom ELSE {})

(* SortByInstallOrder, SortByUninstallOrder: by kindOrder, stable.         *)
KindOrder(kind) == IF kind = "CustomResourceDefinition" THEN 0 ELSE IF kind = "ConfigMap" THEN 7 ELSE 100
InstallOrder == [i \in DOMAIN task.docs |-> KindOrder(KindOf(i))]
UninstallOrder == [i \in DOMAIN task.docs |-> 100 - KindOrder(KindOf(i))]
ManifestOrder == [i \in DOMAIN task.docs |-> 0]
ByRank(docs, rank) ==
    {s \in SetToSeqs(docs) :
       \A p, q \in DOMAIN s : p < q => rank[s[p]] < rank[s[q]] \/ (rank[s[p]] = rank[s[q]] /\ s[p] < s[q])}

(* The documents an operation goes through, and in which order.            *)
Definitions == {i \in DOMAIN task.docs : KindOf(i) = "CustomResourceDefinition"}
Documents(op) ==
    CASE op = "crds" -> Definitions
      [] op = "delete" -> {i \in DOMAIN task.docs : ~task.docs[i].keep}
      [] OTHER -> DOMAIN task.docs
OrderOf(op) ==
    CASE op \in {"apply", "dry", "diff"} -> InstallOrder
      [] op = "delete" -> UninstallOrder
      [] OTHER -> ManifestOrder
BetweenOps == task.pc = "run" /\ task.op = "none"
StartOp ==
    /\ BetweenOps /\ task.script # <<>> /\ TNoFault
    /\ LET op == Head(task.script) IN
       \E todo \in ByRank(Documents(op), OrderOf(op)) :
          task' = [task EXCEPT !.op = op, !.script = Tail(@), !.todo = todo, !.waiting = <<>>, !.before = task.objects,
                               !.found = {}, !.skipped = FALSE]
EndsOp(t, result) == [t EXCEPT !.op = "none", !.result = <<t.op, result>>]
Working == task.pc = "run" /\ task.op # "none" /\ task.todo # <<>>
Doc == Head(task.todo)
OnTo(t) == [t EXCEPT !.todo = Tail(@)]

-----------------------------------------------------------------------------
(* resourceForObj, ensureMapper, refreshMapper: a kind that is cached is   *)
(* taken from the cache; otherwise the kinds are read again.               *)
CanMap(kind) == kind \in task.cache \/ kind \in Served
CacheFor(kind) == IF kind \in task.cache THEN task.cache ELSE Served

(* Mutant: the scope of a kind is looked up in the static list.            *)
StaticScope(kind, cache) == IF kind \in StaticClusterScoped THEN "cluster" ELSE "namespace"
(* resolveNamespace, isNamespacedScoped: the mapper decides, the static    *)
(* list when the mapper does not know the kind.                            *)
ResolveScope(kind, cache) ==
    IF kind \in cache THEN ScopeOf(kind) ELSE IF kind \in StaticClusterScoped THEN "cluster" ELSE "namespace"

(* The object at the address the client builds, in a kind that is served.  *)
Addressed(i) == KindOf(i) \in Served /\ ResolveScope(KindOf(i), CacheFor(KindOf(i))) = ScopeOf(KindOf(i))
There(i) == Addressed(i) /\ i \in task.objects

(* Lookup resolves nothing: it reads at the namespace of its caller, or at *)
(* none, and what lives elsewhere is not found.  (A caller that goes over  *)
(* a manifest gives the namespace of the release for every resource.)      *)
Lookups == {"lookup", "lookup cluster"}
Visible(op) ==
    CASE op = "lookup" -> {i \in DOMAIN task.docs : ScopeOf(KindOf(i)) = "namespace"}
      [] op = "lookup cluster" -> {i \in DOMAIN task.docs : ScopeOf(KindOf(i)) = "cluster"}
      [] OTHER -> DOMAIN task.docs
LookedUp(i) == KindOf(i) \in Served /\ i \in task.objects \cap Visible(task.op)

(* A definition takes its objects along.                                   *)
RemovedWith(i) ==
    {i} \cup (IF KindOf(i) = "CustomResourceDefinition" THEN {j \in DOMAIN task.docs : KindOf(j) \in Custom} ELSE {})

(* The kind is not mapped, or a call fails: the operation ends, but for a  *)
(* snapshot, which goes on without the object.                             *)
CallFails ==
    /\ Working
    /\ \/ ~CanMap(KindOf(Doc)) /\ TNoFault
       \/ TFault
    /\ task' = IF task.op = "snapshot" THEN [OnTo(task) EXCEPT !.skipped = TRUE] ELSE EndsOp(task, "error")

(* applyResource; after a definition ApplyManifests waits at once, and     *)
(* ApplyCRDs when all are applied.                                         *)
Apply1 ==
    /\ Working /\ task.op \in {"apply", "crds"} /\ CanMap(KindOf(Doc)) /\ TNoFault
    /\ LET t == [task EXCEPT !.cache = CacheFor(KindOf(Doc))]
       IN IF ~Addressed(Doc) THEN task' = EndsOp(t, "error")
          ELSE task' = [OnTo(t) EXCEPT !.objects = @ \cup {Doc},
                          !.defined = IF KindOf(Doc) = "CustomResourceDefinition" /\ @ = "no" THEN "applied" ELSE @,
                          !.waiting = IF KindOf(Doc) # "CustomResourceDefinition" THEN @
                                      ELSE IF task.op = "apply" THEN <<Doc>> ELSE Append(@, Doc)]

(* waitForCRDEstablished, and the refresh after it, whose failure is only  *)
(* logged; the wait ends with its deadline.                                *)
Waits == task.pc = "run" /\ task.waiting # <<>> /\ (task.op = "apply" \/ (task.op = "crds" /\ task.todo = <<>>))
Established ==
    /\ Waits /\ task.defined = "served"
    /\ \/ TNoFault /\ task' = [task EXCEPT !.waiting = Tail(@), !.cache = IF task.op = "apply" THEN Served ELSE @]
       \/ task.op = "apply" /\ TFault /\ task' = [task EXCEPT !.waiting = Tail(@)]
NotEstablished ==
    /\ Waits /\ \/ task.defined # "served" /\ TNoFault
                \/ TFault
    /\ task' = EndsOp([task EXCEPT !.waiting = <<>>], "error")
Serve == task.pc = "run" /\ task.defined = "applied" /\ task' = [task EXCEPT !.defined = "served"] /\ TNoFault

(* dryRunApplyResource, serverSideDiffResource: a patch the server does    *)
(* not keep, after a read in a diff.                                       *)
DryRun1 ==
    /\ Working /\ task.op \in {"dry", "diff"} /\ CanMap(KindOf(Doc)) /\ TNoFault
    /\ LET t == [task EXCEPT !.cache = CacheFor(KindOf(Doc))]
       IN task' = IF ~Addressed(Doc) THEN EndsOp(t, "error")
                  ELSE [OnTo(t) EXCEPT !.found = IF Doc \in task.objects THEN @ \cup {Doc} ELSE @]

(* SnapshotResources, and Lookup of an object: what is not found is        *)
(* missing.                                                                *)
Read1 ==
    /\ Working /\ task.op \in {"snapshot"} \cup Lookups /\ CanMap(KindOf(Doc)) /\ TNoFault
    /\ LET finds == IF task.op = "snapshot" THEN There(Doc) ELSE LookedUp(Doc)
       IN task' = [OnTo(task) EXCEPT !.cache = CacheFor(KindOf(Doc)), !.found = IF finds THEN @ \cup {Doc} ELSE @]

(* deleteResource: what is not found is deleted.                           *)
Delete1 ==
    /\ Working /\ task.op = "delete" /\ CanMap(KindOf(Doc)) /\ TNoFault
    /\ task' = [OnTo(task) EXCEPT !.cache = CacheFor(KindOf(Doc)),
                  !.objects = IF There(Doc) THEN @ \ RemovedWith(Doc) ELSE @,
                  !.defined = IF There(Doc) /\ KindOf(Doc) = "CustomResourceDefinition" THEN "no" ELSE @]

OpDone ==
    /\ task.pc = "run" /\ task.op # "none" /\ task.todo = <<>> /\ task.waiting = <<>>
    /\ task' = EndsOp(task, "ok") /\ TNoFault
ScriptDone == BetweenOps /\ task.script = <<>> /\ task' = [task EXCEPT !.pc = "ok"] /\ TNoFault

KindsStep ==
    /\ task.kind = "kinds"
    /\ \/ StartOp \/ OpDone \/ ScriptDone \/ Serve \/ Established \/ NotEstablished
       \/ task.waiting = <<>> /\ (CallFails \/ Apply1 \/ DryRun1 \/ Read1 \/ Delete1)
       \/ task.waiting # <<>> /\ task.op = "crds" /\ (CallFails \/ Apply1)

(* What a client may be given: custom objects exist with their definition. *)
KindOps == {"apply", "crds", "dry", "diff", "snapshot", "delete"} \cup Lookups
KindInputs(docs, present, script) ==
    /\ docs \in Seq([kind : BuiltIn \cup Custom, keep : BOOLEAN]) /\ present \subseteq DOMAIN docs
    /\ script \in Seq(KindOps)
    /\ (\E i \in present : docs[i].kind \in Custom) => \E i \in present : docs[i].kind = "CustomResourceDefinition"

KindsSpec ==
    /\ \E docs, present, script :
         KindInputs(docs, present, script) /\ task = KindsTask(docs, present, script)
    /\ tfaults = MaxTaskFaults /\ [][KindsStep]_taskVars

-----------------------------------------------------------------------------
(* ApplyManifests, DeleteManifests, DryRunApply, ServerSideDiff and        *)
(* SnapshotResources on one client: no custom object before its definition *)
(* is served; what an operation that succeeds promises of every document   *)
(* holds, whatever the client cached before the definition came or went;   *)
(* the operations that only look change nothing, and see all there is, a   *)
(* lookup all there is in the scope it was asked for; and what is to be    *)
(* kept goes only with its definition.                                     *)
ObjectsWhereTheyLive ==
    task.kind = "kinds" =>
        /\ \A i \in task.objects : KindOf(i) \in Custom => task.defined = "served"
        /\ task.op \in {"dry", "diff", "snapshot"} \cup Lookups => task.objects = task.before
        /\ task.op = "none" =>
             /\ task.result = <<"apply", "ok">> => task.objects = DOMAIN task.docs
             /\ task.result = <<"crds", "ok">> /\ Definitions # {} => task.defined = "served"
             /\ task.result = <<"delete", "ok">> => \A i \in task.objects : task.docs[i].keep
             /\ task.result[1] = "delete" =>
                  \A i \in task.before \ task.objects :
                     task.docs[i].keep => \E j \in task.before \ task.objects : i \in RemovedWith(j) /\ ~task.docs[j].keep
             /\ \A op \in {"diff"} \cup Lookups :
                  task.result = <<op, "ok">> => task.found = task.objects \cap Visible(op)
             /\ task.result = <<"snapshot", "ok">> =>
                  task.found \subseteq task.objects /\ (task.found # task.objects => task.skipped)
=============================================================================
