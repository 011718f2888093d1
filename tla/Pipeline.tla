------------------------------ MODULE Pipeline ------------------------------
(***************************************************************************)
(* What install and upgrade do before and after the release operation of   *)
(* ReleaseOps (internal/action: install.go, upgrade.go, notes.go, crds.go, *)
(* postrender.go, capabilities.go, environment.go; internal/cli: install,  *)
(* upgrade and template): the options of the command, the values, the      *)
(* checks, the render, the post-renderers, the policies and the dry run;   *)
(* then the record; then the packages that must be deployed beside it,     *)
(* each an install of its own with its own requirements.                   *)
(*                                                                         *)
(* Settings are functions from a key to a value.  A document of a template *)
(* is there under a setting and an API version.  The release operation     *)
(* itself is one step with its outcomes.                                   *)
(***************************************************************************)
EXTENDS Templates

Keyed(f, keys) == [k \in DOMAIN f \cap keys |-> f[k]]
TurnedOn(settings, key) == key = "" \/ (key \in DOMAIN settings /\ settings[key] = "on")
Rendering(id, when, needs) == [id |-> id, when |-> when, needs |-> needs]
NotesDoc == "notes"
BrokenDoc == "broken"

(* InstallOptions and UpgradeOptions, as far as they steer the operation.  *)
Request0(op, name, pkg) ==
    [op |-> op, name |-> name, pkg |-> pkg, ns |-> "", user |-> <<>>, env |-> FALSE, dry |-> "", install |-> FALSE,
     create |-> FALSE, crds |-> TRUE, post |-> <<>>, skip |-> FALSE, reuse |-> "reset", only |-> {}, apis |-> {}, atomic |-> TRUE]
(* upgrade --install hands over some of its options only.                  *)
FallBack(q) == [q EXCEPT !.op = "install", !.env = FALSE, !.post = <<>>, !.skip = FALSE]
(* installRequires: the options of a required package.                     *)
RequireInstall(node, ns, q) ==
    [Request0("install", node.name, node.pkg) EXCEPT !.ns = ns, !.user = node.scoped, !.crds = FALSE, !.atomic = q.atomic]

NoFrame(q) == [q |-> q, ns |-> q.ns, cur |-> 0, vals |-> <<>>, caps |-> {}, rendered |-> <<>>, docs |-> <<>>, hooks |-> <<>>, todo |-> <<>>]
(* A cluster: revisions by namespace and name, namespaces, objects.        *)
PipelineTask(pkgs, q, cluster, home) ==
    [kind |-> "pipeline", pc |-> IF q.op = "template" THEN "env" ELSE "start", pkgs |-> pkgs, home |-> home,
     stack |-> <<NoFrame(q)>>, now |-> cluster, first |-> cluster, request |-> q]

Top == Last(task.stack)
TopPkg == task.pkgs[Top.q.pkg]
OnTop(pc) == task.kind = "pipeline" /\ task.pc = pc
Go(pc, f) == task' = [task EXCEPT !.pc = pc, !.stack = Append(Front(@), f)]
EndAs(pc) == task' = [task EXCEPT !.pc = pc]
(* The error of a required package is the error of what required it.       *)
Refuse(pc) == OnTop(pc) /\ EndAs("error") /\ TFault

RecordKey(f) == <<f.ns, f.q.name>>
RevisionsOf(c, key) == IF key \in DOMAIN c.records THEN c.records[key] ELSE <<>>
LastOfKey(key) == RevisionsOf(task.now, key)
SetLast(c, key, r) == [c EXCEPT !.records = [k \in DOMAIN @ \cup {key} |-> IF k = key THEN r ELSE @[k]]]

-----------------------------------------------------------------------------
(* The commands: install resolves the dependencies of the package first,   *)
(* unless it is a dry run; Upgrade reads the newest revision.              *)
CommandStarts ==
    /\ OnTop("start") /\ TNoFault
    /\ LET ns == IF Top.q.ns = "" THEN task.home ELSE Top.q.ns
           last == Len(LastOfKey(<<ns, Top.q.name>>)) IN
       CASE Top.q.op = "install" -> Go("env", Top)
         [] Top.q.op = "upgrade" /\ last > 0 -> Go("env", [Top EXCEPT !.ns = ns, !.cur = last])
         [] Top.q.op = "upgrade" /\ last = 0 /\ Top.q.install -> Go("env", [Top EXCEPT !.q = FallBack(@)])
         [] OTHER -> EndAs("error")
StartFails == (Top.q.op = "upgrade" \/ Top.q.dry = "") /\ Refuse("start")

(* applyEnvironmentToInstall, applyEnvironmentToUpgrade,                   *)
(* ResolveEnvironmentOverlay: what the user sets himself wins; only an     *)
(* install moves to the environment's namespace.                           *)
ApplyEnvironment ==
    /\ OnTop("env") /\ TNoFault
    /\ LET f == IF Top.q.env THEN [Top EXCEPT !.q.user = @ @@ TopPkg.env.settings] ELSE Top
           own == IF Top.q.env /\ Top.ns = "" THEN TopPkg.env.ns ELSE Top.ns
       IN Go("values", IF Top.q.op = "install" THEN [f EXCEPT !.ns = IF own = "" THEN task.home ELSE own] ELSE f)

(* ResolveAllWithTrace over the package and, as asked, the last revision.  *)
ResolveValues ==
    /\ OnTop("values") /\ TNoFault
    /\ LET prev == IF Top.cur = 0 THEN <<>> ELSE LastOfKey(RecordKey(Top))[Top.cur].vals
           base == IF Top.q.op # "upgrade" \/ Top.q.reuse = "reset" THEN TopPkg.own
                   ELSE IF Top.q.reuse = "reuse" THEN prev ELSE prev @@ TopPkg.own
       IN Go("schema", [Top EXCEPT !.vals = Top.q.user @@ base])

FitsSchema(pkg, vals) == \A k \in DOMAIN vals \cap DOMAIN pkg.schema : vals[k] \in pkg.schema[k]
(* Mutant: the values are checked before they are restricted only.         *)
CheckedOnce(f) == TRUE
CheckedAgain(f) == FitsSchema(task.pkgs[f.q.pkg], f.vals)
(* --only: the listed keys take their new value, all others stay.          *)
OnlyListed(f) ==
    IF f.q.only = {} THEN f
    ELSE [f EXCEPT !.vals = Keyed(f.vals, f.q.only) @@ LastOfKey(RecordKey(f))[f.cur].vals]
CheckValues ==
    /\ OnTop("schema") /\ TNoFault
    /\ IF FitsSchema(TopPkg, Top.vals) /\ (Top.q.op = "upgrade" => CheckedAgain(OnlyListed(Top)))
       THEN Go("caps", IF Top.q.op = "upgrade" THEN OnlyListed(Top) ELSE Top)
       ELSE EndAs("error")

(* GetCapabilities, overrideCapabilities: without an answer there are none *)
(* but those of the command line.                                          *)
GetCapabilities ==
    /\ OnTop("caps")
    /\ \E asked \in (IF Top.q.dry # "" \/ Top.q.op = "template" THEN {{}} ELSE {{}, task.now.apis}) :
         /\ IF asked = {} /\ Top.q.dry = "" /\ Top.q.op # "template" /\ task.now.apis # {} THEN TFault ELSE TNoFault
         /\ Go("render", [Top EXCEPT !.caps = asked \cup Top.q.apis])

Present(f, docs) ==
    LET there(d) == TurnedOn(f.vals, d.when) /\ (d.needs = "" \/ d.needs \in f.caps)
        kept == SelectSeq(docs, there)
    IN [i \in DOMAIN kept |-> kept[i].id]
RenderTemplates ==
    /\ OnTop("render") /\ TNoFault
    /\ LET docs == Present(Top, TopPkg.docs) IN
       IF BrokenDoc \in ToSet(docs) THEN EndAs("error")
       ELSE Go(IF Top.q.op = "template" THEN "crds" ELSE "hooks", [Top EXCEPT !.rendered = docs, !.docs = docs])

(* splitHookDirective: the directives above the first other line survive   *)
(* the render, in which the engine takes out every key with a dollar.      *)
DirectivesOf(lines) ==
    LET body == Min({i \in DOMAIN lines : lines[i] \notin {"$hook", "blank"}} \cup {Len(lines) + 1})
        head == Min({i \in DOMAIN lines : lines[i] = "$hook"} \cup {body})
        after == Min({i \in DOMAIN lines : i > head /\ lines[i] # "$hook"} \cup {Len(lines) + 1})
    IN IF head = body THEN 0 ELSE after - head
RenderHooks ==
    /\ OnTop("hooks") /\ TNoFault
    /\ IF \E i \in DOMAIN TopPkg.hooks : BrokenDoc \in ToSet(TopPkg.hooks[i]) THEN EndAs("error")
       ELSE Go("notes", [Top EXCEPT !.hooks = [i \in DOMAIN TopPkg.hooks |-> DirectivesOf(TopPkg.hooks[i])]])

(* extractNotes                                                            *)
ExtractNotes ==
    /\ OnTop("notes") /\ TNoFault
    /\ Go("post", [Top EXCEPT !.docs = SelectSeq(@, LAMBDA d : d # NotesDoc)])

(* runPostRenderers: each gets what the one before it has put out.  A name *)
(* that is not on the path or holds characters of a shell is refused.      *)
PostRendered(p, docs) ==
    CASE p = "cat" -> docs [] p = "add" -> Append(docs, "added") [] p = "cut" -> SelectSeq(docs, LAMBDA d : d # "m1")
      [] OTHER -> docs
RunPostRenderer ==
    /\ OnTop("post") /\ TNoFault
    /\ CASE Top.q.post = <<>> -> Go(IF Top.q.op = "template" THEN "dry" ELSE "policy", Top)
         [] Top.q.post # <<>> /\ Head(Top.q.post) = "no such" -> EndAs("error")
         [] OTHER -> Go("post", [Top EXCEPT !.docs = PostRendered(Head(Top.q.post), @), !.q.post = Tail(@)])

(* LoadRules and Evaluate; the rules themselves are those of Policy.       *)
EvaluatePolicies ==
    /\ OnTop("policy") /\ TNoFault
    /\ IF ToSet(Top.docs) \cap TopPkg.denied # {} THEN EndAs("error") ELSE Go("crds", Top)

(* loadCRDs: in front of the manifest, whatever the policies say of them;  *)
(* template puts them there before its post-renderer.                      *)
PrependCRDs ==
    /\ OnTop("crds") /\ TNoFault
    /\ Go(IF Top.q.op = "template" THEN "post" ELSE "dry", IF Top.q.crds THEN [Top EXCEPT !.docs = TopPkg.crds \o @] ELSE Top)

(* A dry run ends here; one on the server asks whether it would apply.     *)
DryRunEnds ==
    /\ OnTop("dry") /\ TNoFault
    /\ IF Top.q.dry # "" \/ Top.q.op = "template" THEN EndAs("ok") ELSE Go("namespace", Top)

(* CreateNamespace, by an install that was asked to.                       *)
EnsureNamespace ==
    /\ OnTop("namespace") /\ TNoFault
    /\ task' = [task EXCEPT !.pc = "record",
                  !.now.namespaces = IF Top.q.op = "install" /\ Top.q.create THEN @ \cup {Top.ns} ELSE @]

(* storage.Create: an install makes revision 1, an upgrade the next one.   *)
NewRevision(f) == [status |-> "pending", pkg |-> f.q.pkg, vals |-> f.vals, docs |-> f.docs, hooks |-> f.hooks]
Recorded(f) == SetLast(task.now, RecordKey(f), Append(LastOfKey(RecordKey(f)), NewRevision(f)))
CreateRevision1 ==
    /\ OnTop("record") /\ Top.ns \in task.now.namespaces
    /\ IF Top.q.op = "install" /\ LastOfKey(RecordKey(Top)) # <<>> THEN EndAs("error") /\ TNoFault
       ELSE \/ task' = [task EXCEPT !.pc = "operate", !.now = Recorded(Top)] /\ TNoFault
            \/ task' = [task EXCEPT !.pc = "error", !.now = Recorded(Top)] /\ TFault      \* the reply is lost
NoSuchNamespace == OnTop("record") /\ Top.ns \notin task.now.namespaces /\ EndAs("error") /\ TNoFault

(* The release operation: objects go to the namespace of the client and    *)
(* carry the name of the release the command was started for.              *)
ObjectsOf(f, docs) == {[ns |-> task.home, id |-> d, of |-> f.q.name, stamp |-> task.request.name] : d \in ToSet(docs)}
WithStatus(c, f, s) ==
    LET revs == RevisionsOf(c, RecordKey(f)) IN SetLast(c, RecordKey(f), [revs EXCEPT ![Len(revs)].status = s])
Operate ==
    /\ OnTop("operate")
    /\ \/ /\ TNoFault
          /\ task' = [task EXCEPT !.pc = IF Top.q.op = "install" /\ ~Top.q.skip THEN "requires" ELSE "return",
                        !.now = [WithStatus(@, Top, "deployed") EXCEPT !.objects = @ \cup ObjectsOf(Top, Top.docs)]]
       \/ /\ TFault
          /\ \E n \in (IF Top.q.atomic THEN {0} ELSE 0..Len(Top.docs)) :
               task' = [task EXCEPT !.pc = "error",
                          !.now = [WithStatus(@, Top, "failed") EXCEPT !.objects = @ \cup ObjectsOf(Top, SubSeq(Top.docs, 1, n))]]

-----------------------------------------------------------------------------
(* WalkRequires over BuildTree: the requirements of a package and theirs,  *)
(* as its own values enable them, with what it sets for each.              *)
RECURSIVE RequiresOf(_, _)
RequiresOf(pkgs, p) ==
    LET enabled == SelectSeq(pkgs[p].requires, LAMBDA r : TurnedOn(pkgs[p].own, r.when))
        node(r) == [name |-> r.name, pkg |-> r.pkg, scoped |-> IF r.name \in DOMAIN pkgs[p].scoped THEN pkgs[p].scoped[r.name] ELSE <<>>]
    IN FlattenSeq([i \in DOMAIN enabled |-> <<node(enabled[i])>> \o RequiresOf(pkgs, enabled[i].pkg)])
ListRequires == OnTop("requires") /\ TNoFault /\ Go("require", [Top EXCEPT !.todo = RequiresOf(task.pkgs, Top.q.pkg)])

(* Mutant: every package is installed, deployed or not.                    *)
NeverThere(key) == FALSE
(* storage.Last finds any revision, a failed one too.                      *)
AlreadyThere(key) == LastOfKey(key) # <<>>
(* installRequires, a package at a time; a read that fails is taken for    *)
(* not found.                                                              *)
RequireNext ==
    /\ OnTop("require") /\ Top.todo # <<>>
    /\ LET node == Head(Top.todo)
           rest == Append(Front(task.stack), [Top EXCEPT !.todo = Tail(@)])
           push == [task EXCEPT !.pc = "env", !.stack = Append(rest, NoFrame(RequireInstall(node, Top.ns, Top.q)))]
       IN \/ task' = (IF AlreadyThere(<<Top.ns, node.name>>) THEN [task EXCEPT !.stack = rest] ELSE push) /\ TNoFault
          \/ task' = push /\ TFault
(* Install returns, to the command or to what required it.                 *)
InstallReturns ==
    /\ OnTop("return") \/ (OnTop("require") /\ Top.todo = <<>>)
    /\ TNoFault
    /\ task' = IF Len(task.stack) = 1 THEN [task EXCEPT !.pc = "ok"] ELSE [task EXCEPT !.pc = "require", !.stack = Front(@)]

(* A file that cannot be read, a call that fails, a program that times out.*)
StepFails ==
    \/ StartFails
    \/ \E pc \in {"env", "values", "schema", "render", "hooks", "policy", "crds", "record", "requires"} : Refuse(pc)
    \/ Top.q.post # <<>> /\ Refuse("post")
    \/ Top.q.dry = "server" /\ Refuse("dry")
    \/ Top.q.create /\ Refuse("namespace")
PipelineStep ==
    \/ CommandStarts \/ ApplyEnvironment \/ ResolveValues \/ CheckValues \/ GetCapabilities \/ RenderTemplates \/ RenderHooks
    \/ ExtractNotes \/ RunPostRenderer \/ EvaluatePolicies \/ PrependCRDs \/ DryRunEnds \/ EnsureNamespace \/ CreateRevision1
    \/ NoSuchNamespace \/ Operate \/ ListRequires \/ RequireNext \/ InstallReturns
    \/ (task.kind = "pipeline" /\ StepFails)

-----------------------------------------------------------------------------
Added(key) == {i \in DOMAIN LastOfKey(key) : i > Len(RevisionsOf(task.first, key))}
AddedKeys == {key \in DOMAIN task.now.records : Added(key) # {}}
(* The packages a package needs beside it, by the shortest way there.      *)
RECURSIVE Needed(_, _)
Needed(pkgs, names) ==
    LET more == names \cup UNION {{[name |-> r.name, pkg |-> r.pkg] : r \in {r \in ToSet(pkgs[n.pkg].requires) : TurnedOn(pkgs[n.pkg].own, r.when)}} : n \in names}
    IN IF more = names THEN names ELSE Needed(pkgs, more)

(* Install, Upgrade, installRequires: whatever is in the cluster went      *)
(* through every check in its last form, with the restricted values and    *)
(* after the last post-renderer; a refused operation, a dry run and a      *)
(* template leave nothing but a namespace; a success has every package the *)
(* installed ones need, each made once and with what its parent sets for   *)
(* it; and a package that fails beside it is tried once and does not take  *)
(* a release down.                                                         *)
ChecksComeFirst ==
    task.kind = "pipeline" =>
        /\ \A key \in AddedKeys : \A i \in Added(key) : LET r == task.now.records[key][i] IN
             /\ FitsSchema(task.pkgs[r.pkg], r.vals) /\ NotesDoc \notin ToSet(r.docs)
             /\ ToSet(r.docs) \cap task.pkgs[r.pkg].denied \subseteq ToSet(task.pkgs[r.pkg].crds)
        /\ \A key \in AddedKeys : Cardinality(Added(key)) = 1
        /\ {o.of : o \in task.now.objects \ task.first.objects} \subseteq {key[2] : key \in AddedKeys}
        /\ AddedKeys = {} => task.now.namespaces \ task.first.namespaces \subseteq (IF task.request.create THEN {Head(task.stack).ns} ELSE {})
        /\ task.request.dry # "" \/ task.request.op = "template" => task.now = task.first
        /\ task.pc = "ok" /\ Head(task.stack).q.op = "install" /\ ~task.request.skip /\ task.request.dry = "" =>
             \A n \in Needed(task.pkgs, {[name |-> task.request.name, pkg |-> task.request.pkg]}) :
               LET key == <<Head(task.stack).ns, n.name>> IN
               /\ LastOfKey(key) # <<>>
               /\ Added(key) # {} /\ n.name # task.request.name =>
                    \E p \in DOMAIN task.pkgs : \E r \in ToSet(task.pkgs[p].requires) :
                      /\ r.name = n.name
                      /\ r.name \in DOMAIN task.pkgs[p].scoped =>
                           \A k \in DOMAIN task.pkgs[p].scoped[r.name] : Last(LastOfKey(key)).vals[k] = task.pkgs[p].scoped[r.name][k]
        /\ Len(task.stack) > 1 => LET root == Head(task.stack) IN
             /\ Last(LastOfKey(RecordKey(root))).status = "deployed"
             /\ ObjectsOf(root, Last(LastOfKey(RecordKey(root))).docs) \subseteq task.now.objects
        /\ task.pc = "error" /\ tfaults = MaxTaskFaults =>
             /\ Len(task.stack) > 1 => Added(RecordKey(Top)) = {}
             /\ \A key \in AddedKeys : \A i \in Added(key) : LastOfKey(key)[i].status = "deployed"
=============================================================================
