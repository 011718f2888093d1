------------------------------ MODULE MCTasks -------------------------------
(***************************************************************************)
(* Small instances of the tasks: of the client of the cluster, of the      *)
(* record stores, and of the commands over packages, values and files.     *)
(***************************************************************************)
EXTENDS Hooks, KubeClient, Drift, Packages, PackageTree, Drivers, Pipeline, TLC

MaxTurns == 3         \* bound: commands and changes of a package directory

IdleTask == [kind |-> "none", pc |-> "ok"]

HookFile(rank, weight, policy, kinds) ==
    [rank |-> rank, stem |-> "pre-upgrade", says |-> "", bad |-> "no", weight |-> weight,
     policy |-> policy, kinds |-> kinds]
HookFiles ==
    { {HookFile(1, 5, {}, <<"Other", "Job">>), HookFile(2, 0, p, <<"Job">>),
       [HookFile(3, 0, {}, <<"Job">>) EXCEPT !.stem = "post-upgrade"]} :
        p \in {{}, {"hook-succeeded"}, {"hook-failed"}, {"hook-succeeded", "hook-failed"}} }
    \cup { {HookFile(1, 0, {}, <<"Job">>), HookFile(2, 0, {"hook-failed"}, <<"Job">>),
            [HookFile(3, 0, {}, <<>>) EXCEPT !.stem = "notes", !.says = s, !.bad = d]} :
             s \in {"", "pre-upgrade"}, d \in {"no", "directive", "timeout"} }
HookLeft == { <<o, <<s>>, <<"absent">>>> : o \in {<<"absent", "absent">>, <<"done", "failed">>},
                                           s \in {"absent", "done", "running"} }
WhatIsLeft(files, left) ==
    [r \in {f.rank : f \in files} |->
       LET f == CHOOSE f \in files : f.rank = r IN [i \in DOMAIN f.kinds |-> left[r][i]]]
ASSUME HookFilesAssumption ==
    \A files \in HookFiles, left \in HookLeft : HookInputs(files, WhatIsLeft(files, left))

WaitedFor ==
    { <<NewWorkload("Deployment", 2)>>, <<NewWorkload("StatefulSet", 2)>>, <<NewWorkload("DaemonSet", 1)>>,
      <<Scaled(NewWorkload("DaemonSet", 1), 0)>>,
      <<Other("Pod", "pending"), Other("Job", "pending")>>,
      <<Other("PersistentVolumeClaim", "pending"), Other("LoadBalancer", "pending"), Other("ConfigMap", "applied")>>,
      <<Other("PersistentVolumeClaim", "pending for a consumer"), NewWorkload("Deployment", 1)>> }

One == Leaf("1")
Two == Leaf("2")
Lab(v) == MapOf([app |-> Leaf(v)])

(* The body of an object: a scalar, a map or a list with what is beneath.  *)
Beneath(k, body) == [p \in {<<k>> \o q : q \in DOMAIN body} |-> body[Tail(p)]]
ScalarAt(k, v) == <<k>> :> Scalar(v)
MapAt(k, body) == (<<k>> :> AMap) @@ Beneath(k, body)
ListAt(k, names, body) == (<<k>> :> AList(names)) @@ Beneath(k, body)
KeyedAt(k, names, body) == (<<k>> :> KeyedList(names)) @@ Beneath(k, body)
AppLabel(v) == MapAt("labels", ScalarAt("app", v))
Obj0(spec, keep, cluster) == [spec |-> spec, meta |-> AppLabel("x"), keep |-> keep, cluster |-> cluster, status |-> "none"]
LiveObject(spec, meta) == [spec |-> spec, meta |-> meta, keep |-> FALSE, cluster |-> FALSE, status |-> "up"]
(* Containers by their names, with ports by theirs: of the package, with   *)
(* one injected before or after, with a port or an image edited.           *)
Web0(image, ports) == MapAt("web", ScalarAt("image", image) @@ KeyedAt("ports", ports, [p \in {<<q>> : q \in Range(ports)} |-> AMap]))
Proxy == MapAt("proxy", ScalarAt("image", "2"))
Specs == { ScalarAt("replicas", "1"), ListAt("args", <<"0">>, ScalarAt("0", "1")) @@ MapAt("pod", ScalarAt("image", "1")),
           ScalarAt("replicas", "1") @@ ListAt("args", <<"0", "1">>, MapAt("0", ScalarAt("port", "1")) @@ ScalarAt("1", "2")),
           KeyedAt("containers", <<"web">>, Web0("1", <<"http">>)) }
LiveSpecs == { ScalarAt("replicas", "1") @@ ScalarAt("policy", "2"), ScalarAt("replicas", "2"), ScalarAt("policy", "1"),
               ListAt("args", <<"0", "1">>, ScalarAt("0", "1") @@ ScalarAt("1", "2")) @@ MapAt("pod", ScalarAt("image", "1") @@ ScalarAt("pull", "2")),
               ListAt("args", <<"0", "1">>, MapAt("0", ScalarAt("port", "2") @@ ScalarAt("node", "1")) @@ ScalarAt("1", "2")) @@ ScalarAt("pod", "1"),
               KeyedAt("containers", <<"proxy", "web">>, Web0("2", <<"http">>) @@ Proxy),
               KeyedAt("containers", <<"web", "proxy">>, Web0("1", <<>>) @@ Proxy),
               KeyedAt("containers", <<"web">>, Web0("1", <<"admin", "http">>)), ScalarAt("containers", "1") }
LiveObjects == {Missing} \cup {LiveObject(s, m) : s \in LiveSpecs \cup Specs, m \in {AppLabel("x"), AppLabel("y")}}
OtherObjects == {Missing, LiveObject(ScalarAt("replicas", "2"), AppLabel("x"))}
ASSUME DriftAssumption ==
    \A s \in Specs, x \in LiveObjects, y \in OtherObjects, cluster \in BOOLEAN :
        /\ ReconcileInputs([r1 |-> Obj0(s, FALSE, cluster), r2 |-> Obj0(s, TRUE, FALSE)], [r1 |-> x, r2 |-> y])
        /\ AdoptInputs(<<"r1", "r2">>, [r1 |-> x, r2 |-> y])

(* Three packages in two versions, each version with at most one           *)
(* dependency: every catalog of a family, and some for the commands.       *)
OneTo(names) == {<<>>} \cup {<<Dep(n, s)>> : n \in names, s \in {{1}, {2}, {1, 2}}}
Catalogs == [x : [1..2 -> OneTo({"y", "z"})], y : [1..2 -> OneTo({"x", "z"})], z : [1..2 -> {<<>>, <<Dep("y", {1})>>}]]
RootLists == {<<Dep("x", {1, 2}), Dep("y", {1})>>, <<Dep("y", {1, 2}), Dep("x", {1})>>,
              <<Dep("x", {1, 2}), Dep("z", {1, 2}), Dep("y", {1, 2})>>}
Shared == [x |-> <<<<>>, <<Dep("y", {1})>>>>, y |-> <<<<>>, <<Dep("z", {2})>>>>, z |-> <<<<>>, <<>>>>]
Indexes == {[e \in {"x", "y", "z"} \X {1} |-> 1], [e \in {"x", "y", "z"} \X {1, 2} |-> 1]}
ASSUME CatalogsAssumption ==
    \A index \in Indexes, roots \in RootLists : /\ \A catalog \in Catalogs : CatalogInputs(catalog, index, roots)
                                                /\ CatalogInputs(Shared, index, roots)

Flat(x) == [a |-> Leaf(x)]
Nested(x) == [a |-> MapOf([b |-> Leaf(x), c |-> Leaf(x)])]
Maps(x) == {<<>>, Flat(x), Nested(x), [a |-> NoFields, d |-> ListOf(<<Leaf(x)>>)]}
Settings == { <<>>, <<Setting("set", <<"a", "b">>, Leaf("s"))>>, <<Setting("set", <<"a">>, Leaf("null"))>>,
              <<Setting("set-json", <<"a">>, MapOf([c |-> Leaf("j")])), Setting("set", <<"a", "b">>, Leaf("s"))>>,
              <<Setting("set-file", <<"a", "c">>, Leaf("f")), Setting("set-string", <<"a", "c">>, Leaf("t"))>>,
              <<Setting("set", <<"d", "1", "b">>, Leaf("s"))>>, <<Setting("set", <<"d", "0", "0">>, Leaf("s"))>>,
              <<Setting("set", <<"d", "-1">>, Leaf("s"))>>, <<Setting("set", <<"d", "65537">>, Leaf("s"))>> }
Env(inherits, v, files) == [inherits |-> inherits, values |-> v, files |-> files]
Envs == [base |-> Env("", Nested("e"), <<Flat("e")>>), prod |-> Env("base", [a |-> MapOf([b |-> Leaf("p")])], <<>>),
         loop |-> Env("loop", <<>>, <<>>), lost |-> Env("gone", <<>>, <<>>)]
Requests ==
    { [mode |-> m, defaults |-> d, current |-> c, files |-> f, sets |-> s, env |-> e, only |-> o] :
        m \in {"default", "reuse", "reset-then-reuse"}, d \in Maps("d"), c \in Maps("c"),
        f \in {<<>>} \cup {<<x>> : x \in Maps("f")}, s \in Settings, e \in {"", "base", "prod", "loop", "lost"},
        o \in {<<>>, <<<<"a", "b">>>>, <<<<"a">>, <<"d", "b">>>>} }

(* Package sets: layers two deep and a require, a diamond, forced keys and *)
(* conditions, a cycle, layers of one repository at one or two refs.       *)
L(name, at, ref) == Source("layer", name, at, ref, Always)
When(name, at, w) == Source("layer", name, at, "local", w)
If(path) == [Always EXCEPT !.condition = path]
Base0 == Pkg(<<>>, [a |-> Leaf("base"), b |-> MapOf([c |-> Leaf("base"), d |-> Leaf("base")])], {"t", "u"})
Locals(sources, vals) ==
    [root |-> Pkg(sources, vals, {"t"}), base |-> Base0,
     mid |-> Pkg(<<L("base", "base", "local")>>, [b |-> MapOf([c |-> Leaf("mid")])] @@ [x \in {"!a"} |-> Leaf("mid")], {"u"}),
     side |-> Pkg(<<>>, [a |-> MapOf([c |-> Leaf("side")])], {"t", "w"}),
     loop |-> Pkg(<<L("mid", "again", "local")>>, <<>>, {}), again |-> Pkg(<<L("mid", "loop", "local")>>, <<>>, {})]
ScopedFor(layer, x) == [layers |-> MapOf([n \in {layer} |-> MapOf([k \in {"!a", "b"} |-> Leaf(x)])])]
RootValues == {<<>>, [a |-> Leaf("root")], [b |-> Leaf("root")] @@ ScopedFor("mid", "over"), ScopedFor("base", "over"),
               [on |-> Leaf("false")], [on |-> Leaf("true")]}
SourceLists == { <<L("mid", "mid", "local"), L("side", "side", "local")>>,
                 <<L("side", "side", "local"), L("mid", "mid", "local"), Source("require", "base", "base", "local", Always)>>,
                 <<When("mid", "mid", If(<<"on">>)), When("side", "side", [Always EXCEPT !.tags = {"x"}])>>,
                 <<L("mid", "loop", "local")>>,
                 <<L("mid", "mid", "local"), L("side", "mid", "local"), L("base", "base", "local")>> }
Repo == [c \in 1..2 |-> [app |-> Pkg(<<>>, [a |-> Leaf(IF c = 1 THEN "one" ELSE "two")], {"t"}),
                         lib |-> Pkg(<<>>, [b |-> Leaf(IF c = 1 THEN "one" ELSE "two")], {"u"})]]
GitLists == {<<L("mid", "app", r), L("side", "lib", q)>> : r \in {"v1", "sha1", "main"}, q \in {"v1", "v2", "sha2", "main"}}
Clones == {NoClone, Cloned("sha2", 2), Cloned("v1", 1), [Cloned("main", 1) EXCEPT !.head = 1]}
Profiles == {Pkg(<<>>, [b |-> MapOf([c |-> Leaf("profile")])], {"u"}), LostProfile}
Overridings == {<<>>, [on |-> Leaf("true"), tags |-> MapOf([x |-> Leaf("true")])], [on |-> Leaf("false")]}

StoredRows == { <<>>, [k \in {Here(1)} |-> Row("deployed", FALSE)], [k \in {Here(1)} |-> Row("torn", FALSE)],
                [k \in {Here(1), Here(2), <<"there", 1>>} |-> Row(IF k[2] = 1 THEN "superseded" ELSE "deployed", FALSE)] }
ASSUME StoredRowsAssumption == StoredRows \subseteq DriverInputs

Documents1 == { <<Document("Widget", FALSE), Document("CustomResourceDefinition", FALSE), Document("Fleet", TRUE)>>,
                <<Document("CustomResourceDefinition", TRUE), Document("Fleet", FALSE), Document("ConfigMap", FALSE)>>,
                <<Document("StorageClass", FALSE), Document("ConfigMap", TRUE)>>, <<Document("Widget", FALSE)>> }
Scripts == { <<"apply", "diff", "delete", "delete">>, <<"dry", "crds", "apply", "snapshot", "delete">>,
             <<"lookup", "delete", "apply", "lookup", "lookup cluster">> }

(* Documents of the kinds with a pod and without, with one or two          *)
(* containers or none, and rules of every kind in one or two files.        *)
Ctr(i, side) == MapOf([image |-> Leaf(i), resources |-> MapOf([s \in side |-> MapOf([cpu |-> One])])])
Pods(l) == MapOf([containers |-> ListOf(l)])
Doc0(k, body) == MapOf([kind |-> Leaf(k), metadata |-> MapOf([name |-> Leaf("n"), labels |-> Lab("x")]), spec |-> body])
CtrLists == {<<>>, <<Ctr("pinned", {"requests"})>>, <<Ctr("pinned", {"requests", "limits"}), Ctr("lookalike", {})>>,
             <<Ctr("latest", {"limits"}), MapOf([name |-> One])>>, <<Ctr("port", {}), Ctr("digest", {})>>}
PolicyDocs == {<<Doc0("Deployment", MapOf([replicas |-> Leaf(n), template |-> MapOf([spec |-> Pods(l)])]))>> : n \in {"0", "3"}, l \in CtrLists}
              \cup {<<Doc0("Pod", Pods(l)), NoFields, Doc0("ConfigMap", MapOf([on |-> Leaf(v)]))>> : l \in CtrLists, v \in {"", "false", "0"}}
              \cup {<<Doc0("CronJob", MapOf([jobTemplate |-> MapOf([spec |-> MapOf([template |-> MapOf([spec |-> Pods(l)])])])]))>> : l \in CtrLists}
OnPods == <<"spec", "template", "spec", "containers", "resources", "limits">>
Demands == {[Nothing0 EXCEPT !.fields = {OnPods}], [Nothing0 EXCEPT !.fields = {<<"spec", "containers", "image">>}], [Nothing0 EXCEPT !.fields = {<<"spec", "on">>}],
            [Nothing0 EXCEPT !.registries = {<<"reg">>}], [Nothing0 EXCEPT !.tagged = TRUE], [Nothing0 EXCEPT !.requests = TRUE],
            [Nothing0 EXCEPT !.limits = TRUE, !.replicas = 1], [Nothing0 EXCEPT !.labels = {"app"}, !.annotations = {"team"}], Nothing0}
RuleFiles == {<<Rule(2, s, AnyDocument, d, Nothing0), Rule(n, "warn", [AnyDocument EXCEPT !.kinds = {"Pod"}], Nothing0, [Nothing0 EXCEPT !.fields = {OnPods}])>> :
                s \in {"", "warn"}, n \in {0, 1}, d \in Demands}
             \cup {<<Rule(1, s, [AnyDocument EXCEPT !.kinds = k, !.names = {"n"}], Nothing0, [Nothing0 EXCEPT !.fields = {OnPods, <<"spec", "on">>}])>> :
                      s \in {"", "deny", "deney"}, k \in {{}, {"ConfigMap"}}}

(* Schemas of one keyword beside another, of combinators of two, of        *)
(* references that end or do not, over values of every shape.              *)
K(k, x) == MapOf([q \in {k} |-> x])
Both(s, t) == MapOf(s.m @@ t.m)
Type(t) == K("type", Leaf(t))
Refer(r) == K("$ref", Leaf(r))
Words == { Type("object"), Type("string"), Type("integer"), K("type", ListOf(<<Leaf("array"), Leaf("number")>>)), K("type", ListOf(<<Leaf("null"), Leaf("object")>>)),
           K("const", One), K("const", ListOf(<<Leaf("0"), Leaf("3")>>)), K("enum", ListOf(<<One, Leaf("xy")>>)), K("required", ListOf(<<Leaf("x")>>)), K("properties", K("x", Type("string"))),
           Both(K("properties", K("x", Type("integer"))), K("additionalProperties", Leaf("false"))),
           Both(K("patternProperties", K("^x", Type("integer"))), K("additionalProperties", Type("string"))),
           Both(K("patternProperties", K("^x", Type("integer"))), K("additionalProperties", Leaf("false"))),
           K("dependentRequired", K("a", ListOf(<<Leaf("x")>>))), K("maxProperties", One), K("items", K("minimum", One)), K("uniqueItems", Leaf("true")), K("minItems", One),
           K("minimum", One), K("exclusiveMaximum", One), K("minLength", One), K("pattern", Leaf("^x")) }
Size == K("$defs", MapOf([size |-> K("minimum", One), node |-> Both(K("properties", K("next", Refer("#node"))), K("required", ListOf(<<Leaf("x")>>)))]))
Loop == K("$defs", MapOf([node |-> K("anyOf", ListOf(<<Refer("#node"), Type("string")>>)), size |-> K("not", Refer("#size"))]))
Schemas == {Both(s, t) : s \in Words, t \in Words} \cup {K(c, ListOf(<<s, t>>)) : c \in {"allOf", "anyOf", "oneOf"}, s \in Words, t \in Words}
           \cup {K("not", s) : s \in Words} \cup {NoSchema, NoFields}
           \cup {Both(r, K("properties", K("x", Refer("#size")))) : r \in {Size, Loop}}
           \cup {Both(r, K("allOf", ListOf(<<Refer("#node"), Refer(q)>>))) : r \in {Size, Loop}, q \in {"#size", "#gone", "#node"}}
(* A schema of a value under a key of the values.                          *)
Rooted(s) == IF ~IsMap(s) THEN s ELSE Both([s EXCEPT !.m = [k \in {"$defs"} \cap DOMAIN @ |-> @[k]]], K("properties", K("v", s)))
Inputs == { MapOf([x |-> One]), MapOf([x |-> Leaf("xy"), a |-> One]), MapOf([xy |-> Leaf("a"), a |-> Leaf("b")]), MapOf([next |-> MapOf([x |-> One]), x |-> Leaf("true")]),
            NoFields, ListOf(<<Leaf("0"), Leaf("3")>>), ListOf(<<One, One>>), ListOf(<<>>), Leaf("0"), Leaf("3"), Leaf("xy"), Leaf(""), Leaf("true"), Leaf("null") }

(* Templates: every directive around every body, twice nested, over values *)
(* of every shape; one in an escape; includes that end and that do not.    *)
At0(p) == Expr(PathTo(p), <<>>)
E(p) == String(<<At0(p)>>)
With0(p, fn, arg) == String(<<Expr(PathTo(p), <<Call(fn, arg)>>)>>)
Map2(k, x, l, y) == MapOf([q \in {k, l} |-> IF q = k THEN x ELSE y])
Each(c, body) == Map2("$each", c, "$yield", body)
EachAs(c, as, body) == Both(Each(c, body), K("$as", Leaf(as)))
IfThen(c, x) == Map2("$if", c, "$then", x)
Item == <<"item">>
Bodies == { E(Item), Map2("x", E(<<"item", "a">>), "y", String(<<Leaf("t"), At0(Item)>>)), IfThen(E(Item), E(<<"values", "item">>)),
            K("x", With0(<<"item", "a">>, "omitempty", Nil)), K("x", With0(<<"n">>, "required", Nil)), E(<<"$key">>), E(<<"$value">>),
            EachAs(E(<<"b">>), "item", E(Item)), EachAs(E(<<"item", "b">>), "n", Map2("x", E(<<"n">>), "y", E(Item))),
            Map2("$let", K("n", E(Item)), "$in", Map2("x", E(<<"n">>), "y", E(<<"$n">>))), Map2("$text", ListOf(<<E(Item), Leaf("t"), IfThen(E(<<"n">>), One)>>), "$indent", One),
            Map2("$switch", E(<<"item", "a">>), "$cases", Map2("1", Leaf("one"), "2", E(<<"n">>))), Map2("$include", Leaf("part"), "x", E(Item)) }
Around(body) ==
    { EachAs(E(<<"a">>), "item", body), Each(E(<<"a">>), body), Map2("$let", Map2("item", E(<<"b">>), "n", E(Item)), "$in", body), body,
      Map2("x", One, "$merge", ListOf(<<IfThen(E(<<"a">>), K("y", body)), K("x", E(<<"b">>))>>)), K("$merge", EachAs(E(<<"a">>), "item", body)),
      ListOf(<<body, K("$merge", E(<<"a">>)), One>>), Map2("$if", E(<<"b">>), "x", body), Both(IfThen(E(<<"n">>), body), K("$else", K("z", One))),
      EachAs(E(<<"b">>), "n", EachAs(E(<<"a">>), "item", body)), K("x", MapOf([q \in {"$include"} |-> Leaf("loop")])),
      EachAs(E(<<"a">>), "item", String(<<Escaped(At0(Item))>>)), String(<<Escaped(At0(<<"n">>))>>) }
TemplateDocs == {K("y", d) : d \in UNION {Around(b) : b \in Bodies}} \cup {K("x", K("x", K("x", K("x", K("x", K("x", K("x", One)))))))}
Partials == [part |-> Map2("y", E(<<"b">>), "x", Two), loop |-> K("x", K("$include", Leaf("loop"))), text |-> E(Item)]
TemplateVals == { MapOf([k \in {"a", "b", "item"} |-> CASE k = "a" -> x [] k = "b" -> y [] OTHER -> Leaf("outer")]) :
                    x \in {ListOf(<<>>), ListOf(<<One, Leaf("")>>), ListOf(<<Map2("a", One, "b", ListOf(<<Two>>)), K("a", Leaf(""))>>), Map2("x", One, "y", Two), Nil, Two},
                    y \in {ListOf(<<One, Two>>), K("a", One), Leaf("0")} }

(* A package with two that must be deployed beside it, which share a       *)
(* third; one of the conditions, schemas, policies and documents varies.   *)
Needs(name, pkg, when) == [name |-> name, pkg |-> pkg, when |-> when]
Plain0(docs, requires, scoped) ==
    [own |-> [x |-> "on", y |-> "off"], schema |-> [x |-> {"on", "off"}], docs |-> docs, hooks |-> <<>>, denied |-> {}, crds |-> <<>>,
     requires |-> requires, scoped |-> scoped, env |-> [settings |-> [x |-> "env"], ns |-> "prod"]]
Docs0 == <<Rendering("m1", "", ""), Rendering("m2", "x", ""), Rendering("m3", "", "v2"), Rendering(NotesDoc, "", "")>>
Web == Plain0(Docs0, <<Needs("db", "db", ""), Needs("cache", "cache", "x")>>, [db |-> [y |-> "web"]])
Webs == { Web, [Web EXCEPT !.schema = [x |-> {"on", "off", "env"}, y |-> {"off", "user"}]], [Web EXCEPT !.denied = {"m2", "added"}],
          [Web EXCEPT !.crds = <<"crd">>, !.denied = {"crd", "m3"}], [Web EXCEPT !.docs = Append(Docs0, Rendering(BrokenDoc, "y", ""))],
          [Web EXCEPT !.hooks = <<<<"blank", "$hook", "$hook", "body">>, <<"comment", "$hook", "body">>>>, !.schema = [x |-> {"on", "off", "env"}]],
          [Web EXCEPT !.hooks = <<<<"$hook", BrokenDoc>>>>], [Web EXCEPT !.requires = <<Needs("db", "db", "y"), Needs("web", "cache", "")>>] }
Beside == { <<Plain0(<<Rendering("d1", "", "")>>, <<Needs("store", "store", "x")>>, [store |-> [y |-> "db"]]), Plain0(<<Rendering("c1", "", "")>>, <<Needs("store", "store", "")>>, <<>>)>>,
            <<[Plain0(<<Rendering("d1", "", "")>>, <<Needs("store", "store", "")>>, <<>>) EXCEPT !.denied = {"d1"}], Plain0(<<>>, <<>>, <<>>)>> }
PackageSets == {[web |-> w, db |-> b[1], cache |-> b[2], store |-> Plain0(<<Rendering("s1", "y", ""), Rendering("s2", "", "")>>, <<>>, <<>>)] : w \in Webs, b \in Beside}
Before0 == { <<>>, [key \in {<<"home", "web">>} |-> <<[status |-> "deployed", pkg |-> "web", vals |-> [x |-> "off", y |-> "old"], docs |-> <<"m1">>, hooks |-> <<>>]>>],
             [key \in {<<"home", "store">>} |-> <<[status |-> "failed", pkg |-> "store", vals |-> <<>>, docs |-> <<>>, hooks |-> <<>>]>>] }
Asked(op) == Request0(op, "web", "web")
Operations == { Asked("install"), [Asked("install") EXCEPT !.env = TRUE, !.create = TRUE, !.atomic = FALSE], [Asked("install") EXCEPT !.dry = "client", !.create = TRUE],
                [Asked("install") EXCEPT !.post = <<"cat", "add">>, !.apis = {"v2"}], [Asked("install") EXCEPT !.post = <<"cut", "no such">>, !.skip = TRUE],
                [Asked("install") EXCEPT !.user = [y |-> "on"], !.skip = TRUE, !.crds = FALSE], [Asked("upgrade") EXCEPT !.install = TRUE, !.post = <<"add">>, !.env = TRUE],
                [Asked("upgrade") EXCEPT !.reuse = "reuse", !.user = [x |-> "on"]], [Asked("upgrade") EXCEPT !.reuse = "both", !.only = {"x"}, !.atomic = FALSE],
                [Asked("upgrade") EXCEPT !.user = [y |-> "user"], !.only = {"x"}, !.dry = "server"], [Asked("upgrade") EXCEPT !.user = [y |-> "user"], !.only = {"x"}],
                [Asked("template") EXCEPT !.post = <<"add", "cut">>, !.user = [x |-> "off"]], [Asked("template") EXCEPT !.env = TRUE] }
Clusters == {[records |-> r, namespaces |-> {"home"}, objects |-> {}, apis |-> apis] : r \in Before0, apis \in {{}, {"v2"}}}

(* Repositories above, below and beside the URL, that pass credentials or  *)
(* not; credentials stored, helped and missing.                            *)
Hub == Url("https", "hub", <<"charts">>)
Beside1 == Url("https", "hub", <<"other">>)
RepoLists == {<<>>, <<RepoConfig(Beside1, TRUE, TRUE), RepoConfig(Hub, TRUE, FALSE)>>, <<RepoConfig(Hub, FALSE, FALSE), RepoConfig(Hub, TRUE, TRUE)>>,
              <<RepoConfig(Url("https", "hub", <<>>), FALSE, TRUE)>>, <<RepoConfig(Beside1, TRUE, TRUE)>>}
RequestSettings == {[repos |-> l, stored |-> s, helped |-> {"hub", "cdn"}, known |-> {"cdn", "hub"} \ DOMAIN s, readable |-> r, plain |-> p] :
                      l \in RepoLists, s \in {<<>>, [h \in {"hub"} |-> "X-API-Key"]}, r \in BOOLEAN, p \in BOOLEAN}
RequestUrls == {[Hub EXCEPT !.path = Append(@, "index.yaml")], Url("http", "hub", <<"charts", "index.yaml">>)}

(* Versions that are replaced while they are fetched, signed again or by   *)
(* somebody else, withdrawn, and indexed after or over the old ones.       *)
PublishPlans == { <<Archive(1, "x", "ours"), Index(FALSE), Archive(1, "y", "theirs"), Index(TRUE)>>,
           <<Archive(1, "x", "ours"), Archive(9, "u", ""), Index(FALSE), Archive(10, "y", "ours"), Archive(9, "v", "ours"), Index(TRUE)>>,
           <<Archive(9, "x", "theirs"), Archive(10, "y", "ours"), Index(FALSE), Withdraw(10), Index(FALSE)>> }
UserScripts == {<<Pull(0, TRUE), Pull(9, FALSE)>>, <<Update({1, 9, 10}), Verify, Update({1}), Verify>>, <<Fetch({1}), Fetch({9, 10}), Fetch({1, 9})>>}

ASSUME RegistryAssumption == \A plan \in PublishPlans, script \in UserScripts : RegistryInputs(plan, script)

FileScripts == { <<AddRepo("main", "hub", TRUE, FALSE), AddRepo("main", "cdn", TRUE, TRUE), Logout("hub"), AddRepo("more", "hub", FALSE, FALSE)>>,
                 <<Logout("cdn"), AddRepo("main", "hub", TRUE, FALSE), RemoveRepo("main"), Logout("hub"), AddRepo("main", "hub", FALSE, FALSE)>>,
                 <<Login("hub"), AddRepo("main", "hub", TRUE, TRUE), AddRepo("main", "cdn", FALSE, FALSE), RemoveRepo("more"), Logout("hub"), Login("hub")>> }

Script1 == <<InstallPlugin("alpha", FALSE, PluginFiles("beta", TRUE, {"install", "delete"}, {"s3"}), TRUE),
             InstallPlugin("beta", TRUE, PluginFiles("gamma", TRUE, {}, {"s3"}), FALSE),
             RunPlugin("alpha"), RemovePlugin("alpha"), Download("s3")>>
Script2 == <<InstallPlugin("alpha", TRUE, PluginFiles("gamma", TRUE, {"install"}, {"s3"}), FALSE), RunPlugin("gamma"),
             InstallPlugin("alpha", TRUE, PluginFiles("gamma", TRUE, {}, {"s3"}), FALSE),
             UpdatePlugin("gamma", PluginFiles("gamma", TRUE, {"update"}, {})), RunPlugin("gamma"),
             RemovePlugin("gamma"), RunPlugin("alpha"), Download("s3")>>
Script3 == <<InstallPlugin("beta", FALSE, PluginFiles("beta", FALSE, {}, {}), FALSE), RemovePlugin("beta"),
             InstallPlugin("beta", FALSE, PluginFiles("beta", TRUE, {}, {"s3"}), FALSE),
             InstallPlugin("gamma", FALSE, PluginFiles("beta", TRUE, {}, {"s3"}), FALSE),
             RunPlugin("gamma"), Download("s3"), UpdatePlugin("beta", NotThere), RemovePlugin("beta"), RunPlugin("beta")>>

ASSUME PluginsAssumption ==
    \A script \in {Script1, Script2, Script3} : PluginInputs(<<"alpha", "beta", "gamma">>, script)

(* Tests of a release that share a pod, one that an earlier run left, and  *)
(* tests that keep some of theirs.                                         *)
Piece(o, kind) == [id |-> o, kind |-> kind, keep |-> FALSE]
Lasting(o, kind) == [Piece(o, kind) EXCEPT !.keep = TRUE]
TestLists == {<<>>, <<<<Piece(1, "Pod"), Piece(2, "Job")>>, <<Piece(3, "Other"), Piece(1, "Pod")>>>>,
              <<<<Piece(1, "Job"), Lasting(2, "Pod")>>, <<Piece(3, "Pod")>>>>}
TestObjects == {[o \in 1 .. 3 |-> IF o = 1 THEN [st |-> s, ending |-> FALSE] ELSE [st |-> "absent", ending |-> FALSE]] :
                  s \in {"absent", "done"}}
ASSUME TestInputsAssumption == \A tests \in TestLists, objects \in TestObjects : TestInputs(tests, objects)

TaskInit ==
    /\ tfaults = MaxTaskFaults
    /\ \/ \E files \in HookFiles, left \in HookLeft : task = HookTask(files, "pre-upgrade", WhatIsLeft(files, left))
       \/ \E objects \in WaitedFor : task = RolloutTask(objects)
       \/ \E object \in Findable, served \in BOOLEAN, take \in [Claimant -> BOOLEAN] :
            task = OwnershipTask(object, served, take)
       \/ \E s \in Specs, keep \in BOOLEAN, cluster \in BOOLEAN, x \in LiveObjects, y \in OtherObjects :
            task = ReconcileTask([r1 |-> Obj0(s, FALSE, cluster), r2 |-> Obj0(s, keep, FALSE)], [r1 |-> x, r2 |-> y])
       \/ \E refs \in {<<>>, <<"r1">>, <<"r1", "r2">>}, x \in LiveObjects, y \in OtherObjects, exists \in BOOLEAN :
            task = AdoptTask(refs, [r1 |-> x, r2 |-> y], exists)
       \/ \E tables \in SqlTables, transactional \in BOOLEAN :
            task = SqlTask(tables, transactional)
       \/ \E catalog \in Catalogs, roots \in RootLists : task = ResolveTask(catalog, roots)
       \/ \E list \in SourceLists, vals \in RootValues, over \in Overridings, profile \in Profiles :
            task = TreeTask(Locals(list, vals), Repo, NoClone, 2, over, IF over = <<>> THEN NoProfile ELSE profile)
       \/ \E list \in GitLists, clone \in Clones : task = TreeTask(Locals(list, <<>>), Repo, clone, 2, <<>>, NoProfile)
       \/ \E rows \in StoredRows, turns \in {MaxTurns} : task = DriverTask(rows, turns)
       \/ \E docs \in Documents1, script \in Scripts :
            \E present \in {{}, {i \in DOMAIN docs : i # 1}, DOMAIN docs} :
              KindInputs(docs, present, script) /\ task = KindsTask(docs, present, script)
       \/ \E docs \in PolicyDocs, files \in RuleFiles : task = PolicyTask(files, docs)
       \/ \E schema \in Schemas, vals \in Inputs : task = SchemaTask(Rooted(schema), K("v", vals))
       \/ \E pkgs \in PackageSets, q \in Operations, cluster \in Clusters : task = PipelineTask(pkgs, q, cluster, "home")
       \/ \E doc \in TemplateDocs, vals \in TemplateVals : task = TemplateTask(doc, Partials, vals.m)
       \/ \E settings \in RequestSettings, url \in RequestUrls, client \in {"url", "default", "flags"}, body \in {"none", "spent"} :
            task = RequestTask(settings, url, client, IF client = "default" THEN "publish" ELSE "fetch", body)
       \/ \E script \in {Script1, Script2, Script3} : task = PluginsTask(<<"alpha", "beta", "gamma">>, script)
       \/ \E tests \in TestLists, objects \in TestObjects, parallel \in {0, 2}, retries \in 0 .. 1, status \in {"deployed", "failed"} :
            /\ status = "failed" => tests = <<>>
            /\ task = TestsTask(status, tests, objects, parallel, retries)
       \/ \E script \in FileScripts, legacy \in {{}, {"cdn"}} : task = UserFilesTask(script, legacy)
       \/ \E plan \in PublishPlans, script \in UserScripts : task = RegistryTask(plan, script, {"ours"})
       \/ \E req \in Requests : task = ValuesTask(Envs, req)
       \/ \E index \in Indexes, turns \in {MaxTurns} :
            task = PackagesTask(Shared, index, <<Dep("x", {1, 2}), Dep("y", {1, 2})>>, turns)

TaskStep == HookStep \/ RolloutStep \/ OwnershipStep \/ DriftStep \/ SqlStep \/ PackagesStep \/ UpgradeValues \/ TreeStep \/ DriverStep \/ KindsStep
            \/ PolicyStep \/ ValidateValues \/ TemplateStep \/ PipelineStep \/ TransportStep({"hub", "cdn"}) \/ RegistryStep \/ UserFilesStep
            \/ PluginStep \/ ReleaseTestStep

-----------------------------------------------------------------------------
(* What the tasks promise, gathered by what they are about; every part is  *)
(* stated beside the task it speaks of.                                    *)

(* applyUserOverrides, propagateValues: the last source of a value wins,   *)
(* within a package and from a package to the layers it includes.          *)
ValuesTakeEffect == LastSourceWins /\ LayersTakeEffect

(* ValidateValuesAgainstSchema, Evaluate of policy, Install, Upgrade: what  *)
(* the checks let through is what their files allow, and nothing reaches   *)
(* the cluster that has not been through all of them.                      *)
ChecksCatch == PoliciesBite /\ SchemaMeansWhatItSays /\ ChecksComeFirst
=============================================================================
