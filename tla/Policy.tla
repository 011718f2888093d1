------------------------------- MODULE Policy -------------------------------
(***************************************************************************)
(* The policy engine (internal/policy/policy.go): the rules of the         *)
(* policies directory of a package are loaded, ordered and evaluated over  *)
(* the documents of a manifest, and a denied document refuses the          *)
(* operation.                                                              *)
(*                                                                         *)
(* Documents are the trees of Values.  The reference of image is the        *)
(* sequence of its characters as far as a prefix can tell them apart.      *)
(***************************************************************************)
EXTENDS Values

(* Integers and images, by the leaf that holds them.                       *)
NumberOf == [k \in {"0", "1", "3"} |-> IF k = "0" THEN 0 ELSE IF k = "1" THEN 1 ELSE 3]

ImageOf == [i \in {"pinned", "latest", "untagged", "digest", "port", "lookalike", "short"} |->
              CASE i = "pinned" -> <<"reg", "/", "app", ":", "1">>   [] i = "latest" -> <<"reg", "/", "app", ":", "latest">>
                [] i = "untagged" -> <<"reg", "/", "app">>           [] i = "digest" -> <<"reg", "/", "app", "@", "sha">>
                [] i = "port" -> <<"reg", ":", "5000", "/", "app">>  [] i = "lookalike" -> <<"reg", ".evil", "/", "app", ":", "1">>
                [] i = "short" -> <<"app", ":", "1">>]

(* A rule: what it matches, requires and forbids; the defaults match all.  *)
AnyDocument == [kinds |-> {}, namespaces |-> {}, names |-> {}, api |-> ""]
Nothing0 == [fields |-> {}, labels |-> {}, annotations |-> {}, registries |-> {}, tagged |-> FALSE,
             requests |-> FALSE, limits |-> FALSE, replicas |-> 0]
Rule(name, severity, match, require, forbid) ==
    [name |-> name, severity |-> severity, match |-> match, require |-> require, forbid |-> forbid]

Text(x) == IF x.t = "leaf" THEN x.v ELSE ""
Meta(doc) == Fields(Under(Fields(doc), "metadata"))
Spec0(doc) == Fields(Under(Fields(doc), "spec"))
(* fmt.Sprintf of a value that may be missing.                             *)
Shown(m, k) == IF k \in KeysOf(m) THEN Text(m[k]) ELSE "<nil>"

(* matches                                                                 *)
Matches(match, doc) ==
    /\ match.kinds # {} => Shown(Fields(doc), "kind") \in match.kinds
    /\ match.api # "" => Shown(Fields(doc), "apiVersion") = match.api
    /\ match.namespaces # {} => Shown(Meta(doc), "namespace") \in match.namespaces
    /\ match.names # {} => Shown(Meta(doc), "name") \in match.names

-----------------------------------------------------------------------------
(* isZero, requireLeafPresent: a number is never zero, and false is there. *)
IsZero(x) == IF x.t = "leaf" THEN x.v \in {"null", "", "false"} ELSE x \in {NoFields, ListOf(<<>>)}
LeafPresent(x) == IF x.t = "leaf" THEN x.v \notin {"null", ""} ELSE x \notin {NoFields, ListOf(<<>>)}

(* collectDotted: what a path reaches, through every element of the lists  *)
(* it crosses.                                                             *)
RECURSIVE Collected(_, _)
Collected(x, p) ==
    IF p = <<>> THEN {x}
    ELSE IF x.t = "map" THEN IF p[1] \in KeysOf(x.m) THEN Collected(x.m[p[1]], Tail(p)) ELSE {}
    ELSE UNION {Collected(e, p) : e \in ToSet(Items(x))}

(* Mutant: one element is enough.                                          *)
AnySatisfied(x, p) == \E y \in Collected(x, p) : LeafPresent(y)
(* requireFieldSatisfied: every element, and at least one.                 *)
RECURSIVE Satisfied(_, _)
Satisfied(x, p) ==
    IF p = <<>> THEN LeafPresent(x)
    ELSE IF x.t = "map" THEN p[1] \in KeysOf(x.m) /\ Satisfied(x.m[p[1]], Tail(p))
    ELSE Items(x) # <<>> /\ \A e \in ToSet(Items(x)) : Satisfied(e, p)

-----------------------------------------------------------------------------
(* extractContainers: the containers of the kinds that have a pod.         *)
PodPath(kind) ==
    CASE kind = "Pod" -> <<"spec">>
      [] kind \in {"Deployment", "StatefulSet", "DaemonSet", "Job", "ReplicaSet"} -> <<"spec", "template", "spec">>
      [] kind = "CronJob" -> <<"spec", "jobTemplate", "spec", "template", "spec">>
      [] OTHER -> <<"no pod">>
Containers(doc) ==
    LET pod == Look(Fields(doc), PodPath(Shown(Fields(doc), "kind")))
    IN {c \in UNION {ToSet(Items(Under(Fields(pod), k))) : k \in {"containers", "initContainers", "ephemeralContainers"}} :
          c.t = "map"}
ImageIn(c) == LET i == Text(Under(c.m, "image")) IN IF i \in DOMAIN ImageOf THEN ImageOf[i] ELSE <<>>

(* Mutant: a prefix of the characters is enough.                           *)
PrefixOf(image, allowed) == IsPrefix(allowed, image)
(* imageMatchesRegistry: the prefix ends at a component.                   *)
FromRegistry(image, allowed) ==
    image = allowed \/ IsPrefix(Append(allowed, "/"), image) \/ IsPrefix(Append(allowed, ":"), image)

LastAt(image, c) == Max({0} \cup {i \in DOMAIN image : image[i] = c})
(* imageIsUnpinned: the tag follows the last colon after the last slash.   *)
Unpinned(image) ==
    /\ "@" \notin ToSet(image)
    /\ LET name == SubSeq(image, LastAt(image, "/") + 1, Len(image))
           tag == IF LastAt(name, ":") = 0 THEN <<>> ELSE SubSeq(name, LastAt(name, ":") + 1, Len(name))
       IN tag \in {<<>>, <<"latest">>}

Resource(c, side) == Fields(Under(Fields(Under(c.m, "resources")), side))

(* evalRule: what a document breaks.  Of what is forbidden only the fields *)
(* are looked at.                                                          *)
Violations(rule, doc) ==
    LET r == rule.require IN
    {<<"field", p>> : p \in {p \in r.fields : ~Satisfied(doc, p)}}
    \cup {<<"forbidden", p>> : p \in {p \in rule.forbid.fields : \E x \in Collected(doc, p) : ~IsZero(x)}}
    \cup {<<"label", k>> : k \in {k \in r.labels : IsZero(Under(Fields(Under(Meta(doc), "labels")), k))}}
    \cup {<<"annotation", k>> : k \in {k \in r.annotations : IsZero(Under(Fields(Under(Meta(doc), "annotations")), k))}}
    \cup {<<"registry", c>> : c \in {c \in Containers(doc) :
             r.registries # {} /\ \A allowed \in r.registries : ~FromRegistry(ImageIn(c), allowed)}}
    \cup {<<"tag", c>> : c \in {c \in Containers(doc) : r.tagged /\ Unpinned(ImageIn(c))}}
    \cup {<<"requests", c>> : c \in {c \in Containers(doc) : r.requests /\ Resource(c, "requests") = <<>>}}
    \cup {<<"limits", c>> : c \in {c \in Containers(doc) : r.limits /\ Resource(c, "limits") = <<>>}}
    \cup {<<"replicas", r.replicas>> : x \in {x \in {Text(Under(Spec0(doc), "replicas"))} :
             /\ r.replicas > 0 /\ Shown(Fields(doc), "kind") \in {"Deployment", "StatefulSet", "ReplicaSet"}
             /\ x \in DOMAIN NumberOf => NumberOf[x] < r.replicas}}

-----------------------------------------------------------------------------
(* The rules are read in the order of the files, then sorted by name and   *)
(* evaluated one after the other.  A rule's name is a number, 0 when it    *)
(* has none; "" is no severity.                                            *)
PolicyTask(files, docs) ==
    [kind |-> "policy", pc |-> "load", files |-> files, docs |-> docs, rules |-> <<>>, next |-> 1, found |-> {}]

Load1 ==
    /\ task.kind = "policy" /\ task.pc = "load" /\ task.next <= Len(task.files) /\ TNoFault
    /\ LET r == task.files[task.next]
           s == IF r.severity = "" THEN "deny" ELSE r.severity IN
       task' = IF r.name = 0 THEN [task EXCEPT !.next = @ + 1]
               ELSE IF s \notin {"deny", "warn"} THEN [task EXCEPT !.pc = "error"]
               ELSE [task EXCEPT !.next = @ + 1, !.rules = Append(@, [r EXCEPT !.severity = s])]
UnreadableRule == task.kind = "policy" /\ task.pc = "load" /\ task' = [task EXCEPT !.pc = "error"] /\ TFault
SortRules ==
    /\ task.kind = "policy" /\ task.pc = "load" /\ task.next > Len(task.files) /\ TNoFault
    /\ task' = [task EXCEPT !.pc = "evaluate", !.next = 1, !.rules = SortSeq(@, LAMBDA r, s : r.name < s.name)]
(* Evaluate, one rule over all documents; empty ones are not looked at.    *)
Evaluate1 ==
    /\ task.kind = "policy" /\ task.pc = "evaluate" /\ task.next <= Len(task.rules) /\ TNoFault
    /\ LET r == task.rules[task.next]
           docs == {i \in DOMAIN task.docs : task.docs[i] # NoFields /\ Matches(r.match, task.docs[i])}
       IN task' = [task EXCEPT !.next = @ + 1,
                     !.found = @ \cup {[rule |-> r.name, severity |-> r.severity, doc |-> i] :
                                         i \in {i \in docs : Violations(r, task.docs[i]) # {}}}]
(* HasDeny                                                                 *)
Denied == \E v \in task.found : v.severity = "deny"
RulesDecide ==
    /\ task.kind = "policy" /\ task.pc = "evaluate" /\ task.next > Len(task.rules) /\ TNoFault
    /\ task' = [task EXCEPT !.pc = IF Denied THEN "error" ELSE "ok"]

PolicyStep == Load1 \/ UnreadableRule \/ SortRules \/ Evaluate1 \/ RulesDecide

-----------------------------------------------------------------------------
(* The places of a document, as the paths to them, a step to an element of *)
(* a list without a key; a path of a rule names the fields only.           *)
RECURSIVE PlacesIn(_)
PlacesIn(x) ==
    {<<>>} \cup UNION {{<<[key |-> IF x.t = "map" THEN k ELSE ""]>> \o q : q \in PlacesIn(IF x.t = "map" THEN x.m[k] ELSE x.l[k])} :
                         k \in KeysOf(Fields(x)) \cup DOMAIN Items(x)}
RECURSIVE ValuesAt(_, _)
ValuesAt(x, q) ==
    IF q = <<>> THEN {x}
    ELSE IF q[1].key = "" THEN UNION {ValuesAt(e, Tail(q)) : e \in ToSet(Items(x))}
    ELSE IF q[1].key \in KeysOf(Fields(x)) THEN ValuesAt(Fields(x)[q[1].key], Tail(q)) ELSE {}
Names(q) == LET named == SelectSeq(q, LAMBDA s : s.key # "") IN [i \in DOMAIN named |-> named[i].key]
(* A field is filled wherever the document could have it: no place on the  *)
(* way there is without the next field, and what is there is something.    *)
Filled(doc, p) ==
    \A q \in PlacesIn(doc) : IsPrefix(Names(q), p) =>
        \A x \in ValuesAt(doc, q) :
           IF Len(Names(q)) < Len(p)
           THEN \/ x.t = "map" /\ p[Len(Names(q)) + 1] \in KeysOf(x.m)
                \/ x.t = "list" /\ x.l # <<>>
           ELSE q[Len(q)].key = "" \/ LeafPresent(x)

(* The images of a document, wherever they are: a pod has them in the      *)
(* containers of some list.                                                *)
ImagesIn(doc) ==
    UNION {ValuesAt(doc, q) : q \in {q \in PlacesIn(doc) : LET n == Names(q) IN
             n # <<>> /\ Last(n) = "image" /\ (Len(q) > 1 => q[Len(q) - 1].key = "")}}
HostOf(image) == SubSeq(image, 1, Min({i \in DOMAIN image : image[i] \in {"/", ":"}} \cup {Len(image) + 1}) - 1)

(* LoadRules, Evaluate: a manifest that is let through breaks no deny rule *)
(* of any file, whatever the order of files and lists: every required      *)
(* field is filled in every element, no forbidden one anywhere has a       *)
(* value, no image comes from another host than the allowed; and one that  *)
(* is refused was refused by a rule that matches one of its documents, or  *)
(* the rules could not be read.                                            *)
PoliciesBite ==
    task.kind = "policy" =>
        /\ task.pc = "ok" =>
             \A f \in DOMAIN task.files : LET r == task.files[f] IN
               r.name # 0 /\ r.severity \in {"", "deny"} =>
                 \A d \in {d \in DOMAIN task.docs : Matches(r.match, task.docs[d]) /\ task.docs[d] # NoFields} :
                   /\ \A p \in r.require.fields : Filled(task.docs[d], p)
                   /\ \A p \in r.forbid.fields : \A q \in PlacesIn(task.docs[d]) :
                        Names(q) = p /\ (q # <<>> => q[Len(q)].key # "") => \A x \in ValuesAt(task.docs[d], q) : IsZero(x)
                   /\ r.require.registries # {} /\ PodPath(Shown(Fields(task.docs[d]), "kind")) # <<"no pod">> =>
                        \A i \in ImagesIn(task.docs[d]) : HostOf(ImageOf[i.v]) \in r.require.registries
        /\ task.pc = "error" /\ tfaults = MaxTaskFaults =>
             \/ \E f \in DOMAIN task.files : task.files[f].name # 0 /\ task.files[f].severity \notin {"", "deny", "warn"}
             \/ \E f \in DOMAIN task.files : \E d \in DOMAIN task.docs :
                  task.files[f].severity # "warn" /\ Matches(task.files[f].match, task.docs[d])
=============================================================================
