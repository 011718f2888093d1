------------------------------ MODULE Plugins -------------------------------
(***************************************************************************)
(* The plugins of a user (internal/plugin, internal/cli/plugin.go): a      *)
(* directory for each, named after its source, found by its own name or by *)
(* the one its plugin.yaml declares.                                       *)
(*                                                                         *)
(* The files of a plugin are a record: the name it declares, whether they  *)
(* pass loadPluginMetadata and validatePluginCommand (valid), its hooks    *)
(* and the protocols it downloads.  parts is less than whole for a copy    *)
(* that stopped: without plugin.yaml (none of it loads) or with it.        *)
(***************************************************************************)
EXTENDS ClusterTask

NoName == ""
NotThere == [name |-> NoName, valid |-> FALSE, hooks |-> {}, protocols |-> {}, git |-> FALSE, parts |-> "none"]
PluginFiles(name, valid, hooks, protocols) ==
    [name |-> name, valid |-> valid, hooks |-> hooks, protocols |-> protocols, git |-> FALSE, parts |-> "whole"]

InstallPlugin(d, git, files, allow) == [cmd |-> "install", dir |-> d, git |-> git, files |-> files, allow |-> allow]
UpdatePlugin(query, upstream) == [cmd |-> "update", query |-> query, files |-> upstream]
RemovePlugin(query) == [cmd |-> "remove", query |-> query]
RunPlugin(query) == [cmd |-> "run", query |-> query]
Download(protocol) == [cmd |-> "download", protocol |-> protocol]

(* order: every name there is, sorted; dirs: the directories of PluginDir; *)
(* ran: where the last command was found and where it was run, and whether *)
(* two directories went by its name; good: the directories whose install   *)
(* returned without an error; lost: those where a copy or removal broke    *)
(* off.                                                                    *)
PluginsTask(names, script) ==
    [kind |-> "plugins", pc |-> "run", at |-> "idle", script |-> script, order |-> names,
     dirs |-> [d \in Range(names) |-> NotThere], good |-> {},
     ran |-> [found |-> NoName, in |-> NoName, shared |-> FALSE], lost |-> {}]

Asks(cmd) == task.kind = "plugins" /\ task.pc = "run" /\ task.script # <<>> /\ Head(task.script).cmd = cmd
PluginAsk == Head(task.script)
Answered(t) == [t EXCEPT !.script = Tail(@), !.at = "idle"]

(* loadPluginMetadata                                                      *)
Loads(t, d) == t.dirs[d].parts \in {"whole", "torn"} /\ t.dirs[d].valid

(* resolvePluginDir: the directory of that name, whatever is in it, or the *)
(* first one that declares it.                                             *)
Resolved(t, query) ==
    LET Declared == {i \in DOMAIN t.order : Loads(t, t.order[i]) /\ t.dirs[t.order[i]].name = query}
    IN  IF query \in DOMAIN t.dirs /\ t.dirs[query].parts # "none" THEN query
        ELSE IF Declared # {} THEN t.order[CHOOSE i \in Declared : \A j \in Declared : i <= j]
        ELSE "none"

(* copyDir leaves what it has copied; git removes its own clone.           *)
Fetched(files) == [files EXCEPT !.git = PluginAsk.git]
TornCopies(files) == IF PluginAsk.git THEN {NotThere}
                     ELSE {NotThere, [files EXCEPT !.parts = "torn"], [files EXCEPT !.parts = "bare"]}

(* Install: stop at a directory that is there; clone or copy.              *)
PluginFetch ==
    /\ Asks("install") /\ task.at = "idle"
    /\ LET d == PluginAsk.dir
       IN  \/ task.dirs[d].parts # "none" /\ task' = Answered(task) /\ TNoFault
           \/ /\ task.dirs[d].parts = "none" /\ TNoFault
              /\ task' = [task EXCEPT !.dirs[d] = Fetched(PluginAsk.files), !.at = "check"]
           \/ /\ task.dirs[d].parts = "none" /\ TFault
              /\ \E left \in TornCopies(PluginAsk.files) :
                   task' = Answered([task EXCEPT !.dirs[d] = left, !.lost = @ \cup {d}])

(* os.RemoveAll, whose error nobody looks at.                              *)
Dropped(d) ==
    \/ task' = Answered([task EXCEPT !.dirs[d] = NotThere]) /\ TNoFault
    \/ TFault /\ task' = Answered([task EXCEPT !.lost = @ \cup {d}])

(* Mutant: a plugin whose hook is refused stays.                           *)
KeepsRefused(d) == task' = Answered(task) /\ TNoFault
(* Install, after the copy: what does not load, has a bad command, or has  *)
(* a hook that is refused or fails, is taken away.                         *)
Refused(d) == Dropped(d)

(* runPluginHook: a hook runs only where --allow-hooks was given, which    *)
(* only install can.                                                       *)
Approved == PluginAsk.cmd = "install" /\ PluginAsk.allow
Hooked(d, event) == event \in task.dirs[d].hooks

PluginAccept ==
    /\ Asks("install") /\ task.at = "check"
    /\ LET d == PluginAsk.dir
           accepted == Answered([task EXCEPT !.good = @ \cup {d}])
       IN  IF ~Loads(task, d) THEN Dropped(d)
           ELSE IF ~Hooked(d, "install") THEN task' = accepted /\ TNoFault
           ELSE \/ ~Approved /\ Refused(d)
                \/ Approved /\ task' = accepted /\ TNoFault
                \/ Approved /\ TFault /\ task' = Answered([task EXCEPT !.dirs[d] = NotThere])

(* Update: pull a git checkout, then check what is there; a hook of its    *)
(* own is always refused, after the pull.                                  *)
PluginUpdate ==
    /\ Asks("update")
    /\ LET d == Resolved(task, PluginAsk.query)
       IN  \/ d = "none" /\ task' = Answered(task) /\ TNoFault
           \/ d # "none" /\ TFault /\ task' = Answered(task)
           \/ /\ d # "none" /\ TNoFault
              /\ task' = Answered([task EXCEPT !.dirs[d] =
                           IF @.git THEN [PluginAsk.files EXCEPT !.git = TRUE] ELSE @])

(* Remove: the delete hook, which is always refused, keeps the plugin.     *)
PluginRemove ==
    /\ Asks("remove")
    /\ LET d == Resolved(task, PluginAsk.query)
       IN  IF d = "none" \/ (Loads(task, d) /\ Hooked(d, "delete")) THEN task' = Answered(task) /\ TNoFault
           ELSE \/ task' = Answered([task EXCEPT !.dirs[d] = NotThere, !.good = @ \ {d}]) /\ TNoFault
                \/ /\ TFault
                   /\ \E p \in {task.dirs[d].parts, "torn", "bare"} :
                        task' = Answered([task EXCEPT !.dirs[d].parts = p, !.lost = @ \cup {d}])

(* The directories that go by a name.                                      *)
GoBy(name) == {d \in DOMAIN task.dirs : /\ task.dirs[d].parts # "none"
                                        /\ d = name \/ (Loads(task, d) /\ task.dirs[d].name = name)}
Ran(d) == LET name == task.dirs[d].name
          IN  Answered([task EXCEPT !.ran = [found |-> d, in |-> Resolved(task, name),
                                             shared |-> GoBy(name) # {d}]])

(* FindPlugin and Run: the plugin is found by what the user typed and its  *)
(* directory by the name it declares.                                      *)
PluginRun ==
    /\ Asks("run") /\ TNoFault
    /\ LET d == Resolved(task, PluginAsk.query)
       IN  task' = IF d = "none" \/ ~Loads(task, d) THEN Answered(task) ELSE Ran(d)

Position(name) == CHOOSE i \in DOMAIN task.order : task.order[i] = name
(* FindDownloader, RunDownloader: the first plugin of the protocol by the  *)
(* names they declare; plugins of one name come in any order.              *)
PluginDownload ==
    /\ Asks("download") /\ TNoFault
    /\ LET able == {d \in DOMAIN task.dirs : Loads(task, d) /\ PluginAsk.protocol \in task.dirs[d].protocols}
           first == {d \in able : \A e \in able : Position(task.dirs[d].name) <= Position(task.dirs[e].name)}
       IN  IF able = {} THEN task' = Answered(task) ELSE \E d \in first : task' = Ran(d)

PluginsStop == /\ task.kind = "plugins" /\ task.pc = "run" /\ task.script = <<>>
               /\ task' = [task EXCEPT !.pc = "ok"] /\ TNoFault

PluginStep == PluginFetch \/ PluginAccept \/ PluginUpdate \/ PluginRemove \/ PluginRun \/ PluginDownload \/ PluginsStop

(* Any commands over the directories of any names.                         *)
PluginInputs(names, script) ==
    /\ names \in Seq(Range(names)) /\ script \in Seq(Range(script))
    /\ \A i \in DOMAIN script : script[i].cmd = "install" => script[i].dir \in Range(names)
PluginsSpec == /\ \E names, script : PluginInputs(names, script) /\ task = PluginsTask(names, script)
               /\ tfaults = MaxTaskFaults /\ [][PluginStep]_taskVars

-----------------------------------------------------------------------------
(* Install, Remove, Run: between commands, a directory that holds anything *)
(* was accepted by an install, unless a copy or a removal broke off there; *)
(* and a command runs in the directory it was found in, unless two go by   *)
(* the name it declares.                                                   *)
PluginsComeWhole ==
    task.kind = "plugins" =>
        /\ task.at = "idle" => \A d \in DOMAIN task.dirs :
              task.dirs[d].parts # "none" => d \in task.good \cup task.lost
        /\ ~task.ran.shared => task.ran.in = task.ran.found
=============================================================================
