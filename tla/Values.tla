------------------------------- MODULE Values -------------------------------
(***************************************************************************)
(* The values of a release (internal/values, internal/maputil,             *)
(* internal/action/environment.go and upgrade.go): the sources of an       *)
(* install or upgrade, their merge, --set paths, environments, --only, and *)
(* the trace that says where a value comes from.                           *)
(*                                                                         *)
(* A value is a tree: a leaf, a map or a list; a path is a sequence of     *)
(* keys, and some keys are numbers.                                        *)
(***************************************************************************)
EXTENDS ClusterTask

Leaf(v) == [t |-> "leaf", v |-> v]
MapOf(m) == [t |-> "map", m |-> m]
ListOf(l) == [t |-> "list", l |-> l]
NoFields == MapOf(<<>>)

Fields(x) == IF x.t = "map" THEN x.m ELSE <<>>
Items(x) == IF x.t = "list" THEN x.l ELSE <<>>
KeysOf(m) == IF m = <<>> THEN {} ELSE DOMAIN m

(* strconv.Atoi of the keys that are numbers, maxSetIndex.                 *)
IndexOf == [k \in {"0", "1", "-1", "65537"} |->
              IF k = "0" THEN 0 ELSE IF k = "1" THEN 1 ELSE IF k = "-1" THEN 0 - 1 ELSE 65537]
MaxSetIndex == 65536
IsInt(k) == k \in DOMAIN IndexOf

(* Mutant: a map replaces a map.                                           *)
ShallowMerge(d, s) == [k \in KeysOf(d) \cup KeysOf(s) |-> IF k \in KeysOf(s) THEN s[k] ELSE d[k]]
(* DeepMerge (and mergeAny of the environments): maps are merged key by    *)
(* key, everything else is replaced.                                       *)
RECURSIVE DeepMerge(_, _)
DeepMerge(d, s) ==
    [k \in KeysOf(d) \cup KeysOf(s) |->
        IF k \notin KeysOf(s) THEN d[k]
        ELSE IF k \in KeysOf(d) /\ d[k].t = "map" /\ s[k].t = "map" THEN MapOf(DeepMerge(d[k].m, s[k].m))
        ELSE s[k]]

With(m, k, x) == [q \in KeysOf(m) \cup {k} |-> IF q = k THEN x ELSE m[q]]
Under(m, k) == IF k \in KeysOf(m) THEN m[k] ELSE NoFields

(* setNestedValue, setRecursive, setSlice: maps and lists are made on the  *)
(* way, a list grows to the index, and what was there of another shape is  *)
(* dropped.                                                                *)
RECURSIVE SetIn(_, _, _), SetSlice(_, _, _)
SetIn(m, p, x) ==
    With(m, p[1], IF Len(p) = 1 THEN x
                  ELSE IF IsInt(p[2]) THEN ListOf(SetSlice(Items(Under(m, p[1])), Tail(p), x))
                  ELSE MapOf(SetIn(Fields(Under(m, p[1])), Tail(p), x)))
SetSlice(l, p, x) ==
    LET i == IndexOf[p[1]] + 1
        grown == [j \in 1..Max({i, Len(l)}) |-> IF j <= Len(l) THEN l[j] ELSE Leaf("null")]
    IN [grown EXCEPT ![i] = IF Len(p) = 1 THEN x
                            ELSE IF IsInt(p[2]) THEN ListOf(SetSlice(Items(@), Tail(p), x))
                            ELSE MapOf(SetIn(Fields(@), Tail(p), x))]
SetFails(p) == \E i \in 2..Len(p) : IsInt(p[i]) /\ IndexOf[p[i]] \notin 0..MaxSetIndex

(* --set, --set-string, --set-file and --set-json, in this order.          *)
Setting(source, p, x) == [source |-> source, path |-> p, value |-> x]
InOrder(sets) ==
    FlattenSeq([i \in 1..4 |-> SelectSeq(sets, LAMBDA s :
        s.source = <<"set", "set-string", "set-file", "set-json">>[i])])

-----------------------------------------------------------------------------
(* Paths and what is at them.                                              *)
RECURSIVE LeafPaths(_), MapPaths(_), Look(_, _)
LeafPaths(m) == UNION {IF m[k].t = "map" THEN {<<k>> \o q : q \in LeafPaths(m[k].m)} ELSE {<<k>>} : k \in KeysOf(m)}
MapPaths(m) == UNION {{<<k>>} \cup {<<k>> \o q : q \in MapPaths(m[k].m)} : k \in {j \in KeysOf(m) : m[j].t = "map"}}
(* lookupPath: Missing where there is nothing.                             *)
Nowhere == Leaf("nowhere")
Look(m, p) ==
    IF p[1] \notin KeysOf(m) THEN Nowhere
    ELSE IF Len(p) = 1 THEN m[p[1]]
    ELSE Look(Fields(m[p[1]]), Tail(p))
Below(p, q) == IsStrictPrefix(p, q)

(* recordTree and ApplySet: a leaf gets a step, what it replaced loses     *)
(* its steps.  --set prunes what was below the path, the other forms       *)
(* prune nothing.                                                          *)
TreeRecords(trace, m, source) ==
    LET leaves == LeafPaths(m)
        kept == {p \in DOMAIN trace : p \notin MapPaths(m) /\ ~\E l \in leaves : Below(l, p)}
    IN [p \in kept \cup leaves |->
          (IF p \in kept THEN trace[p] ELSE <<>>) \o
          (IF p \in leaves THEN <<[source |-> source, value |-> Look(m, p)]>> ELSE <<>>)]
RecordsSet(trace, s) ==
    LET kept == {p \in DOMAIN trace : ~(s.source = "set" /\ Below(s.path, p))}
    IN [p \in kept \cup {s.path} |->
          (IF p \in kept THEN trace[p] ELSE <<>>) \o
          (IF p = s.path THEN <<[source |-> s.source, value |-> s.value]>> ELSE <<>>)]

(* ResolveAllWithTrace: the defaults, the files, the settings.             *)
ResolveAllWithTrace(defaults, files, sets) ==
    LET filed == FoldLeft(LAMBDA r, f : [values |-> DeepMerge(r.values, f), trace |-> TreeRecords(r.trace, f, "values-file")],
                          [values |-> defaults, trace |-> TreeRecords(<<>>, defaults, "package-default")], files)
    IN FoldLeft(LAMBDA r, s : [values |-> SetIn(r.values, s.path, s.value), trace |-> RecordsSet(r.trace, s)],
                filed, InOrder(sets))

(* RestrictToPaths, applyRestriction: at the listed paths the new values,  *)
(* elsewhere the previous ones; where the previous value on the way was    *)
(* not a map, the whole new subtree is taken over.                         *)
RECURSIVE Restricted(_, _, _)
Restricted(prev, next, p) ==
    IF Len(p) = 1
    THEN IF p[1] \in KeysOf(next) THEN With(prev, p[1], next[p[1]])
         ELSE [k \in KeysOf(prev) \ {p[1]} |-> prev[k]]
    ELSE With(prev, p[1],
              MapOf(Restricted(IF Under(prev, p[1]).t = "map" /\ p[1] \in KeysOf(prev) THEN prev[p[1]].m
                               ELSE Fields(Under(next, p[1])),
                               Fields(Under(next, p[1])), Tail(p))))
RestrictToPaths(prev, next, paths) == FoldLeft(LAMBDA m, p : Restricted(m, next, p), prev, paths)

(* ResolveEnvironment: the chain of an environment, the oldest first; a    *)
(* cycle or an undeclared environment is an error.                         *)
RECURSIVE EnvChain(_, _, _)
EnvChain(envs, name, seen) ==
    IF name = "" THEN [ok |-> TRUE, envs |-> <<>>]
    ELSE IF name \in seen \/ name \notin DOMAIN envs THEN [ok |-> FALSE, envs |-> <<>>]
    ELSE LET c == EnvChain(envs, envs[name].inherits, seen \cup {name})
         IN [c EXCEPT !.envs = Append(@, envs[name])]

(* applyEnvironmentToInstall, applyEnvironmentToUpgrade: the values of the *)
(* environment, then its files, come before the files of the command line. *)
FilesWith(envs, name, files) ==
    IF name = "" THEN files
    ELSE LET chain == EnvChain(envs, name, {}).envs IN
         <<FoldLeft(DeepMerge, <<>>, [i \in DOMAIN chain |-> chain[i].values])>>
            \o FlattenSeq([i \in DOMAIN chain |-> chain[i].files]) \o files

(* The values of an upgrade: what it starts from, what is laid over it,    *)
(* and --only.  An error leaves no values.                                 *)
ValuesTask(envs, req) == [kind |-> "values", pc |-> "run", envs |-> envs, req |-> req,
                          out |-> [values |-> <<>>, trace |-> <<>>]]
BaseValues(req) ==
    IF req.mode = "reset-then-reuse" THEN DeepMerge(req.defaults, req.current)
    ELSE IF req.mode = "reuse" THEN req.current ELSE req.defaults

UpgradeValues ==
    /\ task.kind = "values" /\ task.pc = "run" /\ TNoFault
    /\ LET req == task.req
           files == FilesWith(task.envs, req.env, req.files)
           r == ResolveAllWithTrace(BaseValues(req), files, req.sets)
       IN IF (\E i \in DOMAIN req.sets : SetFails(req.sets[i].path)) \/ ~EnvChain(task.envs, req.env, {}).ok
          THEN task' = [task EXCEPT !.pc = "error"]
          ELSE task' = [task EXCEPT !.pc = "ok", !.out =
                 [r EXCEPT !.values = IF req.only = <<>> THEN @ ELSE RestrictToPaths(req.current, @, req.only)]]

-----------------------------------------------------------------------------
(* The sources of an upgrade in order, as (leaves, what they replace).     *)
Sources(req, envs) ==
    LET chain == EnvChain(envs, req.env, {}).envs
        maps == (IF req.mode = "reset-then-reuse" THEN <<req.defaults, req.current>> ELSE <<BaseValues(req)>>)
                \o [i \in DOMAIN chain |-> chain[i].values]
                \o FlattenSeq([i \in DOMAIN chain |-> chain[i].files]) \o req.files
        sets == InOrder(req.sets)
    IN [i \in DOMAIN maps |-> [values |-> maps[i], ends |-> LeafPaths(maps[i])]] \o
       [i \in DOMAIN sets |-> [values |-> SetIn(<<>>, sets[i].path, sets[i].value), ends |-> {sets[i].path}]]

(* The last writer wins: a leaf is the one of the last source that has it, *)
(* and no later source ends above it or has a map in its place.            *)
LastWriters(s) ==
    {<<p, Look(s[i].values, p)>> : <<i, p>> \in
        {x \in UNION {{i} \X LeafPaths(s[i].values) : i \in DOMAIN s} :
            \A j \in x[1] + 1..Len(s) :
               /\ x[2] \notin s[j].ends \cup MapPaths(s[j].values)
               /\ ~\E e \in s[j].ends : Below(e, x[2])}}
Indexed(req) == \E i \in DOMAIN req.sets : \E j \in DOMAIN req.sets[i].path : IsInt(req.sets[i].path[j])

(* ResolveAllWithTrace, the environments and --only: without --only every  *)
(* value is the one of its last source, in the documented order: what the  *)
(* upgrade starts from, the environment from ancestor to child, the files, *)
(* --set, --set-string, --set-file, --set-json; and the last step of its   *)
(* trace has that value, unless a setting reaches into it or replaced it   *)
(* by a structure.  With --only the listed paths are the new ones and      *)
(* every value that is not on, under or over a listed path stays.          *)
LastSourceWins ==
    task.kind = "values" /\ task.pc = "ok" =>
        LET req == task.req
            values == task.out.values
            fresh == ResolveAllWithTrace(BaseValues(req), FilesWith(task.envs, req.env, req.files), req.sets).values
        IN IF req.only = <<>>
           THEN /\ Indexed(req) \/ {<<p, Look(values, p)>> : p \in LeafPaths(values)} = LastWriters(Sources(req, task.envs))
                /\ \A p \in LeafPaths(values) :
                     \/ \E i \in DOMAIN req.sets : Below(req.sets[i].path, p) \/ Below(p, req.sets[i].path)
                     \/ p \in DOMAIN task.out.trace /\ Last(task.out.trace[p]).value = Look(values, p)
           ELSE /\ \A i \in DOMAIN req.only : Look(values, req.only[i]) = Look(fresh, req.only[i])
                /\ \A q \in LeafPaths(req.current) :
                     (\A i \in DOMAIN req.only : ~IsPrefix(req.only[i], q) /\ ~Below(q, req.only[i]))
                        => Look(values, q) = Look(req.current, q)
=============================================================================
