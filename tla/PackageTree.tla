---------------------------- MODULE PackageTree -----------------------------
(***************************************************************************)
(* The layers of a package (internal/deptree, internal/layer, the git      *)
(* sources of internal/repo/source.go): the tree is built by fetching each *)
(* layer and reading its keramos.yaml, then populated with values and      *)
(* templates, then merged.                                                 *)
(*                                                                         *)
(* All layers of one git repository share one clone in the cache: fetching *)
(* one moves the clone's head under the others, and so does another        *)
(* keramos.  Local layers do not move.                                     *)
(***************************************************************************)
EXTENDS Values

CONSTANT MaxTreeNodes     \* maxTreeNodes (10000 in the code)
ASSUME TreeAssumption == MaxTreeNodes \in Nat \ {0}

(* A layer or require: where it is (a package name), in the repository at  *)
(* a ref or local (ref "local"), and when it is enabled.                   *)
Always == [explicit |-> "unset", condition |-> <<>>, tags |-> {}]
Source(kind, name, at, ref, when) == [kind |-> kind, name |-> name, at |-> at, ref |-> ref, when |-> when]
(* A package: its layers before its requires, its values, the names of its *)
(* templates.                                                              *)
Pkg(sources, vals, templates) == [sources |-> sources, values |-> vals, templates |-> templates]

Truthy(x) == x.t # "leaf" \/ x.v \notin {"false", "null", "nowhere", ""}

(* Mutant: a condition on a value that is not there enables the layer.     *)
EnabledByAbsence(s, vals) ==
    IF s.when.explicit # "unset" THEN s.when.explicit = "yes"
    ELSE IF s.when.condition # <<>> THEN Look(vals, s.when.condition) = Nowhere \/ Truthy(Look(vals, s.when.condition))
    ELSE s.when.tags = {} \/ \E t \in s.when.tags : Truthy(Look(vals, <<"tags", t>>))
(* IsEnabled: explicit, then the condition, then any tag.                  *)
IsEnabled(s, vals) ==
    IF s.when.explicit # "unset" THEN s.when.explicit = "yes"
    ELSE IF s.when.condition # <<>> THEN Truthy(Look(vals, s.when.condition))
    ELSE s.when.tags = {} \/ \E t \in s.when.tags : Truthy(Look(vals, <<"tags", t>>))

-----------------------------------------------------------------------------
(* git: tags and commits name a commit for ever, the branch main moves     *)
(* upstream; a clone keeps the main it was made with.  A clone made for a  *)
(* commit is full, any other has only what it was cloned for.              *)
CommitOf(ref, main) == IF ref \in {"v1", "sha1"} THEN 1 ELSE IF ref \in {"v2", "sha2"} THEN 2 ELSE main
IsCommitSHA(ref) == ref \in {"sha1", "sha2"}
NoClone == [there |-> FALSE, full |-> FALSE, for |-> "", main |-> 1, head |-> 0]
Cloned(ref, upstream) ==
    [there |-> TRUE, full |-> IsCommitSHA(ref), for |-> ref, main |-> upstream, head |-> CommitOf(ref, upstream)]
(* What git can check out there after a fetch: what the clone was made for, *)
(* its commit under other names, and where its branch is upstream by now.   *)
Reaches(clone, ref, upstream) ==
    \/ clone.full \/ ref = clone.for
    \/ /\ ref # "main"
       /\ CommitOf(ref, 0) \in {CommitOf(clone.for, clone.main)} \cup (IF clone.for = "main" THEN {upstream} ELSE {})

(* Mutant: a clone that is there is taken as it is.                        *)
AsItIs(clone, ref, upstream) == IF clone.there THEN clone ELSE Cloned(ref, upstream)
(* FetchGitSource: clone, or fetch, and checkout.                          *)
CheckedOut(clone, ref, upstream) ==
    IF clone.there THEN [clone EXCEPT !.head = CommitOf(ref, clone.main)] ELSE Cloned(ref, upstream)

(* The task: what is on disk and in the repository by commit; the clone;   *)
(* the nodes in the order they are built; what is still to build or        *)
(* populate; whether another process moved the clone.                      *)
TreeTask(local, repo, clone, upstream, overrides, profile) ==
    [kind |-> "tree", pc |-> "build", local |-> local, repo |-> repo, clone |-> clone, upstream |-> upstream,
     overrides |-> overrides, profile |-> profile, nodes |-> <<>>, agenda |-> <<[parent |-> 0, src |-> Source("root", "root", "root", "local", Always)]>>,
     queue |-> <<>>, moved |-> FALSE, out |-> <<>>]

PackageAt(node) == IF node.ref = "local" THEN task.local[node.at] ELSE task.repo[task.clone.head][node.at]
Dir(node) == <<node.ref = "local", node.at>>
RECURSIVE Ancestors(_)
Ancestors(i) == IF i = 0 THEN {} ELSE {i} \cup Ancestors(task.nodes[i].parent)

(* loadEffectiveValuesForFilter, propagateTags: the package's own values,  *)
(* under the values of the user.                                           *)
FilterValues(pkg) == DeepMerge(pkg.values, task.overrides)

TreeFails == task' = [task EXCEPT !.pc = "error"]

(* buildNode: fetch, cycle and size checks, metadata, then the children.   *)
BuildNode ==
    /\ task.pc = "build" /\ task.agenda # <<>>
    /\ LET s == Head(task.agenda).src
           parent == Head(task.agenda).parent
           clone == IF s.ref = "local" THEN task.clone ELSE CheckedOut(task.clone, s.ref, task.upstream)
           pkg == IF s.ref = "local" THEN task.local[s.at] ELSE task.repo[clone.head][s.at]
           node == [name |-> s.name, kind |-> s.kind, parent |-> parent, at |-> s.at, ref |-> s.ref,
                    values |-> <<>>, templates |-> {}, read |-> 0]
           below == [j \in DOMAIN pkg.sources |-> [parent |-> Len(task.nodes) + 1, src |-> pkg.sources[j]]]
           refused == \/ s.ref # "local" /\ task.clone.there /\ ~Reaches(task.clone, s.ref, task.upstream)
                      \/ Dir(node) \in {Dir(task.nodes[i]) : i \in Ancestors(parent)}
                      \/ Len(task.nodes) = MaxTreeNodes
       IN \/ refused /\ TreeFails /\ TNoFault
          \/ s.ref # "local" /\ TreeFails /\ TFault
          \/ /\ ~refused /\ TNoFault
             /\ task' = [task EXCEPT !.clone = clone, !.nodes = Append(@, node),
                           !.agenda = SelectSeq(below, LAMBDA c : IsEnabled(c.src, FilterValues(pkg))) \o Tail(@)]

(* Populate: breadth first from the root.                                  *)
BuiltAll == /\ task.pc = "build" /\ task.agenda = <<>> /\ TNoFault
            /\ task' = [task EXCEPT !.pc = "populate", !.queue = <<1>>]
ChildrenOf(i) == SelectSeq([j \in DOMAIN task.nodes |-> j], LAMBDA j : task.nodes[j].parent = i)

LoadNodeContent ==
    /\ task.pc = "populate" /\ task.queue # <<>>
    /\ LET i == Head(task.queue)
           pkg == PackageAt(task.nodes[i])
       IN \/ TreeFails /\ TFault
          \/ /\ TNoFault
             /\ task' = [task EXCEPT !.queue = Tail(@) \o ChildrenOf(i),
                           !.nodes[i] = [@ EXCEPT !.values = pkg.values, !.templates = pkg.templates,
                                           !.read = IF task.nodes[i].ref = "local" THEN 0 ELSE task.clone.head]]

(* Another keramos fetches a layer of the same repository.                 *)
OtherCheckout ==
    /\ task.pc \in {"build", "populate"} /\ task.clone.there /\ TFault
    /\ \E ref \in {"v1", "sha2"} :
         /\ Reaches(task.clone, ref, task.upstream) /\ CommitOf(ref, task.clone.main) # task.clone.head
         /\ task' = [task EXCEPT !.clone = CheckedOut(@, ref, task.upstream), !.moved = TRUE]

-----------------------------------------------------------------------------
(* WalkLayers: the layers below a node, then the node.                     *)
RECURSIVE WalkLayers(_)
WalkLayers(i) ==
    Append(FlattenSeq([j \in DOMAIN ChildrenOf(i) |->
              IF task.nodes[ChildrenOf(i)[j]].kind = "layer" THEN WalkLayers(ChildrenOf(i)[j]) ELSE <<>>]), i)

(* extractForced: the keys marked with "!", at any depth.                  *)
RealKey == [k \in {"!a", "!b"} |-> IF k = "!a" THEN "a" ELSE "b"]
RECURSIVE Forced(_), Clean(_)
Clean(m) == [k \in KeysOf(m) \ DOMAIN RealKey |-> IF m[k].t = "map" THEN MapOf(Clean(m[k].m)) ELSE m[k]]
Forced(m) ==
    LET marked == KeysOf(m) \cap DOMAIN RealKey
        deeper == {k \in KeysOf(m) \ marked : m[k].t = "map" /\ Forced(m[k].m) # <<>>}
    IN [k \in deeper \cup {RealKey[j] : j \in marked} |->
          IF k \in deeper THEN MapOf(Forced(m[k].m)) ELSE m[CHOOSE j \in marked : RealKey[j] = k]]

OwnValues(i) == [k \in KeysOf(task.nodes[i].values) \ {"layers", "requires"} |-> task.nodes[i].values[k]]
(* scopedLayerValues: what the parent's values say of the layer.           *)
Scoped(i) ==
    IF task.nodes[i].parent = 0 THEN <<>>
    ELSE Fields(Look(task.nodes[task.nodes[i].parent].values, <<"layers", task.nodes[i].name>>))
NodeValues(i) == DeepMerge(OwnValues(i), Clean(Scoped(i)))

(* The forced settings of each parent for its layers, merged last, parents *)
(* by name.                                                                *)
Forcing(walk) == {p \in ToSet(walk) : \E i \in ToSet(walk) : task.nodes[i].parent = p /\ Forced(Scoped(i)) # <<>>}
ForcedBy(walk, p) ==
    FoldLeft(LAMBDA m, i : IF task.nodes[i].parent = p THEN DeepMerge(m, Forced(Scoped(i))) ELSE m, <<>>, walk)
Rank == [n \in {"root", "base", "mid", "side"} |->
           IF n = "base" THEN 1 ELSE IF n = "mid" THEN 2 ELSE IF n = "root" THEN 3 ELSE 4]
ByName(parents) == SetToSortSeq(parents, LAMBDA p, q : Rank[task.nodes[p].name] < Rank[task.nodes[q].name])

(* MergeValues                                                             *)
MergeValues(walk) ==
    LET merged == FoldLeft(LAMBDA m, i : DeepMerge(DeepMerge(m, Clean(NodeValues(i))), Forced(NodeValues(i))), <<>>, walk)
    IN FoldLeft(LAMBDA m, p : DeepMerge(m, ForcedBy(walk, p)), merged, ByName(Forcing(walk)))

(* MergeTemplates, MergeHooks, MergeTests: by name, the last one stays.    *)
MergeTemplates(walk) ==
    [t \in UNION {task.nodes[i].templates : i \in ToSet(walk)} |->
        walk[Max({j \in DOMAIN walk : t \in task.nodes[walk[j]].templates})]]

(* applyProfile: profiles/<name>/ or profiles/<name>.yaml over the merge.  *)
NoProfile == Pkg(<<>>, <<>>, {})
LostProfile == [NoProfile EXCEPT !.templates = {"not there"}]
WithProfile(out, profile) ==
    [values |-> DeepMerge(out.values, profile.values),
     templates |-> [t \in DOMAIN out.templates \cup profile.templates |->
                      IF t \in profile.templates THEN 0 ELSE out.templates[t]]]

(* ResolveWithOverrides, loadPackageFiles                                  *)
MergeTree ==
    /\ task.pc = "populate" /\ task.queue = <<>> /\ TNoFault
    /\ IF task.profile = LostProfile THEN TreeFails
       ELSE task' = [task EXCEPT !.pc = "ok",
                       !.out = WithProfile([values |-> MergeValues(WalkLayers(1)),
                                            templates |-> MergeTemplates(WalkLayers(1))], task.profile)]

TreeStep == task.kind = "tree" /\ (BuildNode \/ BuiltAll \/ LoadNodeContent \/ OtherCheckout \/ MergeTree)

-----------------------------------------------------------------------------
(* The layers of the merge, from the tree and not from the walk: those     *)
(* with no require on the way to the root.                                 *)
Layered == {i \in DOMAIN task.nodes : \A j \in Ancestors(i) : task.nodes[j].kind # "require"}

(* FetchGitSource and Populate: a layer contributes what its tag or commit *)
(* holds, whatever the cache was left with, as long as nobody, in this     *)
(* tree or in another process, asks the same repository for another ref.   *)
OneRef == Cardinality({task.nodes[i].ref : i \in DOMAIN task.nodes} \ {"local"}) <= 1 /\ ~task.moved
LayersAreTheirs ==
    OneRef => \A i \in DOMAIN task.nodes :
                 task.nodes[i].ref \in {"v1", "v2", "sha1", "sha2"} => task.nodes[i].read = CommitOf(task.nodes[i].ref, 0)

(* BuildWithOverrides: a layer is in the tree when the user's values, or   *)
(* without them its parent's own, enable it; nothing layers on itself.     *)
OnlyWhatIsEnabled ==
    \A i \in 2..Len(task.nodes) : task.nodes[i].ref = "local" /\ task.nodes[task.nodes[i].parent].ref = "local" =>
        \E s \in ToSet(task.local[task.nodes[task.nodes[i].parent].at].sources) :
           /\ s.name = task.nodes[i].name
           /\ s.when.condition # <<>> /\ s.when.explicit = "unset" =>
                \/ Truthy(Look(task.overrides, s.when.condition))
                \/ /\ Look(task.overrides, s.when.condition) = Nowhere
                   /\ Truthy(Look(task.nodes[task.nodes[i].parent].values, s.when.condition))

(* MergeValues, MergeTemplates: a package overrides its layers and a later *)
(* layer an earlier one, key by key; what is forced at a node goes over    *)
(* the rest of that node, and what a parent forces on a layer over all; a  *)
(* template is never taken from a layer when a package above it has one;   *)
(* a require contributes nothing, and the profile goes over everything.     *)
MergedInOrder ==
    LET walk == WalkLayers(1)
        one(m) == [values |-> m, ends |-> LeafPaths(m)]
        nodes == FlattenSeq([j \in DOMAIN walk |-> <<one(Clean(NodeValues(walk[j]))), one(Forced(NodeValues(walk[j])))>>])
        forced == [j \in DOMAIN ByName(Forcing(walk)) |-> one(ForcedBy(walk, ByName(Forcing(walk))[j]))]
        values == task.out.values
    IN /\ ToSet(walk) = Layered
       /\ {<<p, Look(values, p)>> : p \in LeafPaths(values)} = LastWriters(nodes \o forced \o <<one(task.profile.values)>>)
       /\ \A t \in DOMAIN task.out.templates :
            LET w == task.out.templates[t] IN
            IF t \in task.profile.templates THEN w = 0
            ELSE w \in Layered /\ \A i \in Ancestors(w) \ {w} : t \notin task.nodes[i].templates

(* ResolveWithOverrides: the three together, for every tree that resolves. *)
LayersTakeEffect ==
    task.kind = "tree" /\ task.pc = "ok" => LayersAreTheirs /\ OnlyWhatIsEnabled /\ MergedInOrder

(* docs/reference/keramos-yaml.md:59: `ref` is the "Git ref (branch, tag,  *)
(* or commit)" a layer comes from.  It is not so of two layers from one    *)
(* repository with different refs: they share a clone, and both are read   *)
(* only after the later one has moved its head (source.go:207).            *)
RefIsWhatIsRead ==
    task.kind = "tree" /\ task.pc = "ok" /\ ~task.moved =>
        \A i \in DOMAIN task.nodes :
            task.nodes[i].ref \in {"v1", "v2", "sha1", "sha2"} => task.nodes[i].read = CommitOf(task.nodes[i].ref, 0)
=============================================================================
