------------------------------- MODULE Drift --------------------------------
(***************************************************************************)
(* Drift and reconciliation (internal/action/drift.go), adoption           *)
(* (internal/action/adopt.go) and the three-way comparison                 *)
(* (internal/cli/drift3.go).                                               *)
(*                                                                         *)
(* A body is flat: what is at each path, a sequence of keys.  A list has   *)
(* the names of its items in their order; below it each is under its name. *)
(* In a list with keys, as the containers of a pod, an item's name is the  *)
(* value of its key (part of the item, not in the body again); in another  *)
(* one it is its position.  The spec and the metadata themselves, which    *)
(* are maps, are not in it.                                                *)
(***************************************************************************)
EXTENDS ClusterTask

Scalar(v) == [t |-> "scalar", v |-> v]
AMap == [t |-> "map"]
AList(names) == [t |-> "list", names |-> names, keyed |-> FALSE]
KeyedList(names) == [t |-> "list", names |-> names, keyed |-> TRUE]
IsKeyed(x) == x.t = "list" /\ x.keyed
ItemNames(x) == IF x.t = "list" THEN x.names ELSE <<>>

Above(p) == {SubSeq(p, 1, i) : i \in 1 .. Len(p) - 1}
IsItem(body, p) == Front(p) \in DOMAIN body /\ body[Front(p)].t = "list"

-----------------------------------------------------------------------------
(* walkCompare and compareLists, of one path: it is not there, nor in a    *)
(* list what is in a map; another scalar; a list of another length, or     *)
(* with another name at a position; an item that is no map or no list.     *)
Differs(want, live, p) ==
    \/ p \notin DOMAIN live \/ IsItem(live, p) # IsItem(want, p)
    \/ want[p].t = "scalar" /\ live[p] # want[p]
    \/ want[p].t = "list" /\ ItemNames(live[p]) # want[p].names
    \/ IsItem(want, p) /\ live[p].t # want[p].t
(* Below a path that differs nothing is compared; fields only the live     *)
(* object has are ignored.                                                 *)
Differences(want, live) ==
    {p \in DOMAIN want : Differs(want, live, p) /\ \A q \in Above(p) : ~Differs(want, live, q)}

(* Mutant: a field of the live object that is not declared is a difference. *)
ExactSpec(want, live) == IF want.spec = live.spec THEN {} ELSE {<<"spec", <<>>>>}
(* compareSpec: the spec and the metadata, and nothing else of the object. *)
CompareSpec(want, live) ==
    ({"spec"} \X Differences(want.spec, live.spec)) \cup ({"meta"} \X Differences(want.meta, live.meta))

Missing == [spec |-> <<>>, meta |-> <<>>, keep |-> FALSE, cluster |-> FALSE, status |-> "missing"]

(* fetchLive, collectLiveManifest: the namespace of the release is set on  *)
(* every resource, so that one of the cluster is never found.              *)
Looked(want, live) == IF want.cluster THEN Missing ELSE live

(* driftAgainstManifestInNamespace: the resources that are not as stored.  *)
DriftOf(manifest, live) ==
    {r \in DOMAIN manifest : LET found == Looked(manifest[r], live[r])
                             IN  found = Missing \/ CompareSpec(manifest[r], found) # {}}

(* stripKeepPolicy.                                                        *)
Kept(manifest) == {r \in DOMAIN manifest : manifest[r].keep}

-----------------------------------------------------------------------------
(* flattenLeaves: the scalars by path, where an item of a list has the     *)
(* number of its place; an empty map or list leaves no trace.              *)
Numbered(body, p) ==
    [i \in 1 .. Len(p) |->
       LET q == SubSeq(p, 1, i)
       IN  IF IsItem(body, q)
           THEN <<"", CHOOSE n \in DOMAIN body[Front(q)].names : body[Front(q)].names[n] = p[i]>>
           ELSE <<p[i], 0>>]
Scalars(body) == {p \in DOMAIN body : body[p].t = "scalar"}
LeavesOf(x, part) == {<<part, Numbered(x[part], p)>> : p \in Scalars(x[part])}
Leaves(x) == LeavesOf(x, "spec") \cup LeavesOf(x, "meta")
At(x, l) == {x[l[1]][p].v : p \in {p \in Scalars(x[l[1]]) : Numbered(x[l[1]], p) = l[2]}}

(* threeWay: the paths of the package or the state at which the three      *)
(* views do not all agree, and those tagged cluster drift.                 *)
ThreeWay(package, state, live) ==
    {l \in Leaves(package) \cup Leaves(state) : ~(At(package, l) = At(state, l) /\ At(state, l) = At(live, l))}
ClusterDrift(package, state, live) ==
    {l \in ThreeWay(package, state, live) : l \in Leaves(state) \cap Leaves(live) /\ At(state, l) # At(live, l)}

-----------------------------------------------------------------------------
(* Server-side apply of what is wanted to a live object: declared fields   *)
(* are set; maps and lists with keys are merged, where items nobody        *)
(* declared stay (here after the others); scalars and other lists are      *)
(* replaced with all below them; and the rest is kept.                     *)
Merges(x, y) == (x = AMap /\ y = AMap) \/ (IsKeyed(x) /\ IsKeyed(y))
Stays(want, live) == {p \in DOMAIN live : \A q \in Above(p) \cap DOMAIN want : Merges(want[q], live[q])}
Others(x, y) == Range(y.names) \ Range(x.names)
WithOthers(x, y) ==
    IF Others(x, y) = {} THEN x
    ELSE KeyedList(x.names \o SelectSeq(y.names, LAMBDA k : k \in Others(x, y)))
Merged(want, live) ==
    [p \in DOMAIN want \cup Stays(want, live) |->
       IF p \notin DOMAIN want THEN live[p]
       ELSE IF p \in Stays(want, live) /\ IsKeyed(want[p]) /\ IsKeyed(live[p]) THEN WithOthers(want[p], live[p])
       ELSE want[p]]
Applied(want, live) ==
    IF live = Missing THEN want
    ELSE [want EXCEPT !.spec = Merged(@, live.spec), !.meta = Merged(@, live.meta)]

-----------------------------------------------------------------------------
(* Reconcile.                                                              *)
ReconcileTask(manifest, live) ==
    [kind |-> "reconcile", pc |-> "compare", manifest |-> manifest, live |-> live, first |-> live,
     todo |-> DOMAIN manifest, drift |-> {}, edited |-> FALSE]

(* One resource of the record is read from the cluster and compared.       *)
Compare ==
    /\ task.kind = "reconcile" /\ task.pc = "compare"
    /\ \E r \in task.todo :
         \/ /\ task' = [task EXCEPT !.todo = @ \ {r},
                                    !.drift = IF r \in DriftOf(task.manifest, task.live) THEN @ \cup {r} ELSE @]
            /\ TNoFault
         \/ task' = [task EXCEPT !.pc = "error"] /\ TFault

(* Nothing has drifted, or the whole manifest is applied again but for     *)
(* what is to be kept.                                                     *)
Converge ==
    /\ task.kind = "reconcile" /\ task.pc = "compare" /\ task.todo = {}
    /\ \/ task.drift = {} /\ task' = [task EXCEPT !.pc = "ok"] /\ TNoFault
       \/ /\ task.drift # {} /\ TNoFault
          /\ task' = [task EXCEPT !.pc = "ok",
                        !.live = [r \in DOMAIN @ |-> IF r \in Kept(task.manifest) THEN @[r]
                                                     ELSE Applied(task.manifest[r], @[r])]]
       \/ /\ task.drift # {} /\ TFault                       \* applied in part, or not ready in time
          /\ \E done \in SUBSET (DOMAIN task.manifest \ Kept(task.manifest)) :
               task' = [task EXCEPT !.pc = "error",
                          !.live = [r \in DOMAIN @ |-> IF r \in done THEN Applied(task.manifest[r], @[r])
                                                       ELSE @[r]]]

(* Somebody else deletes a resource that was compared already.             *)
EditLive ==
    /\ task.kind = "reconcile" /\ task.pc = "compare" /\ ~task.edited /\ TNoFault
    /\ \E r \in DOMAIN task.manifest \ task.todo :
         task' = [task EXCEPT !.edited = TRUE, !.live[r] = Missing]

-----------------------------------------------------------------------------
(* Adopt: a record of revision 1 made of live objects.                     *)
AdoptTask(refs, live, exists) ==
    [kind |-> "adopt", pc |-> "exists", refs |-> refs, live |-> live, at |-> 1, docs |-> <<>>,
     stored |-> IF exists THEN "another" ELSE "none", had |-> exists]

AdoptBegin ==
    /\ task.kind = "adopt" /\ task.pc = "exists"
    /\ \/ task' = [task EXCEPT !.pc = IF task.stored = "none" /\ task.refs # <<>> THEN "fetch" ELSE "error"] /\ TNoFault
       \/ task' = [task EXCEPT !.pc = "error"] /\ TFault

(* Lookup and stripServerFields; a reference to nothing is an error.       *)
AdoptFetch ==
    /\ task.kind = "adopt" /\ task.pc = "fetch" /\ task.at <= Len(task.refs)
    /\ LET o == task.live[task.refs[task.at]] IN
       \/ /\ o # Missing /\ TNoFault
          /\ task' = [task EXCEPT !.at = @ + 1, !.docs = Append(@, [o EXCEPT !.status = "none"])]
       \/ o = Missing /\ task' = [task EXCEPT !.pc = "error"] /\ TNoFault
       \/ task' = [task EXCEPT !.pc = "error"] /\ TFault

AdoptStore ==
    /\ task.kind = "adopt" /\ task.pc = "fetch" /\ task.at > Len(task.refs)
    /\ \/ /\ task.stored = "none" /\ TNoFault
          /\ task' = [task EXCEPT !.pc = "ok", !.stored = "adopted"]
       \/ /\ task.stored # "none" /\ TNoFault
          /\ task' = [task EXCEPT !.pc = "error"]
       \/ /\ TFault
          /\ \E s \in {task.stored, IF task.stored = "none" THEN "adopted" ELSE task.stored} :
               task' = [task EXCEPT !.pc = "error", !.stored = s]

(* Another client installs a release of that name meanwhile.               *)
OtherInstalls ==
    /\ task.kind = "adopt" /\ task.pc = "fetch" /\ task.stored = "none" /\ TNoFault
    /\ task' = [task EXCEPT !.stored = "another", !.had = TRUE]

DriftStep == Compare \/ Converge \/ EditLive \/ AdoptBegin \/ AdoptFetch \/ AdoptStore \/ OtherInstalls

(* Any record of objects with their bodies, any live objects or none; any  *)
(* references to adopt.                                                    *)
BodyIs(body) ==
    \A p \in DOMAIN body : /\ p \in Seq(Range(p)) /\ p # <<>> /\ Above(p) \subseteq DOMAIN body
                           /\ IsItem(body, p) => Last(p) \in Range(body[Front(p)].names)
ObjectIs(x) ==
    /\ x = [spec |-> x.spec, meta |-> x.meta, keep |-> x.keep, cluster |-> x.cluster, status |-> x.status]
    /\ BodyIs(x.spec) /\ BodyIs(x.meta)
ReconcileInputs(manifest, live) ==
    /\ DOMAIN manifest = DOMAIN live
    /\ \A r \in DOMAIN manifest : ObjectIs(manifest[r]) /\ manifest[r].status # Missing.status
    /\ live = [r \in DOMAIN live |-> live[r]] /\ \A r \in DOMAIN live : ObjectIs(live[r])
AdoptInputs(refs, live) == refs \in Seq(DOMAIN live) /\ \A r \in DOMAIN live : ObjectIs(live[r])
DriftSpec ==
    /\ \/ \E manifest, live : ReconcileInputs(manifest, live) /\ task = ReconcileTask(manifest, live)
       \/ \E refs, live : \E exists \in BOOLEAN : AdoptInputs(refs, live) /\ task = AdoptTask(refs, live, exists)
    /\ tfaults = MaxTaskFaults /\ [][DriftStep]_taskVars

-----------------------------------------------------------------------------
(* Reconcile and Adopt: what has drifted among what was compared is        *)
(* reported, and nothing else but what is of the cluster; after a          *)
(* reconciliation that applied, every field of a resource that is not to   *)
(* be kept is as recorded, but for lists with keys that had more items,    *)
(* nothing else still differs, and what the cluster added is there; the    *)
(* kept ones are as before, and without any drift nothing was touched.     *)
(* The three-way view tags a field only in a resource that has drifted.    *)
(* Adoption never replaces the record of another release, stores every     *)
(* object it names, and what it stores has not drifted.                    *)
Restored(want, live) ==
    \A p \in DOMAIN want : p \in DOMAIN live /\ (live[p] = want[p] \/ (IsKeyed(want[p]) /\ IsKeyed(live[p])))
Lengthened(want, live) ==
    {p \in DOMAIN want \cap DOMAIN live : IsKeyed(want[p]) /\ IsKeyed(live[p]) /\ Others(want[p], live[p]) # {}}
Closed(want, first, live) ==
    /\ live # Missing /\ Restored(want.spec, live.spec) /\ Restored(want.meta, live.meta)
    /\ CompareSpec(want, live) \subseteq ({"spec"} \X Lengthened(want.spec, first.spec))
                                   \cup ({"meta"} \X Lengthened(want.meta, first.meta))
DriftCloses ==
    /\ task.kind = "reconcile" =>
         /\ task.drift = DriftOf(task.manifest, task.first) \ task.todo
         /\ \A r \in Kept(task.manifest) : task.live[r] # Missing => task.live[r] = task.first[r]
         /\ task.pc = "ok" /\ task.drift # {} =>
              \A r \in DOMAIN task.manifest \ Kept(task.manifest) :
                 /\ Closed(task.manifest[r], task.first[r], task.live[r])
                 /\ task.first[r] # Missing /\ ~task.edited =>
                      {p \in DOMAIN task.first[r].spec : Len(p) = 1} \subseteq DOMAIN task.live[r].spec
         /\ task.pc = "ok" /\ task.drift = {} /\ ~task.edited => task.live = task.first
         /\ \A r \in DOMAIN task.manifest :
              ClusterDrift(task.manifest[r], task.manifest[r], Looked(task.manifest[r], task.first[r])) # {} =>
                r \in DriftOf(task.manifest, task.first)
    /\ task.kind = "adopt" =>
         /\ task.stored = "adopted" => Len(task.docs) = Len(task.refs)
         /\ task.had => task.stored = "another"
         /\ \A i \in DOMAIN task.docs : CompareSpec(task.docs[i], task.live[task.refs[i]]) = {}

(* "re-applies a release's stored manifest onto the cluster, pulling       *)
(* drifted resources back to the state keramos last recorded"              *)
(* (docs/cli/reconcile.md:8-9): what a successful reconciliation applied   *)
(* has not drifted any more.  It may have: the comparison takes a list     *)
(* with more items for drift, and the apply merges it by key.              *)
ReconcileConverges ==
    task.kind = "reconcile" /\ task.pc = "ok" /\ task.drift # {} =>
      \A r \in DOMAIN task.manifest \ Kept(task.manifest) : CompareSpec(task.manifest[r], task.live[r]) = {}

(* "if nothing has drifted, it prints No drift to reconcile. and stops"    *)
(* (docs/cli/reconcile.md:22-23): what is reported is absent or differs.   *)
(* A resource of the cluster is always reported: it is looked for in the   *)
(* namespace of the release (drift.go:124-130).                            *)
OnlyDriftIsReported ==
    task.kind = "reconcile" =>
      \A r \in task.drift : task.first[r] = Missing \/ CompareSpec(task.manifest[r], task.first[r]) # {}
=============================================================================
