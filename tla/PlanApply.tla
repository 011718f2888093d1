----------------------------- MODULE PlanApply ------------------------------
(***************************************************************************)
(* keramos plan and keramos apply (internal/cli/plan_apply.go): plan       *)
(* renders a package and stores the manifest with its digest; apply        *)
(* renders it again, compares the digests, and runs the operation, which   *)
(* renders a third time.  In between the package's files may be edited and *)
(* other clients may upgrade the release.                                  *)
(***************************************************************************)
EXTENDS ReleaseWorld

CONSTANTS Planned,         \* the release
          Package,         \* the states of the package's files
          Rendered,        \* Rendered[f][action]: what the operation renders of f
          Escaping         \* packages whose path leaves the working directory

ASSUME PlanAssumption == /\ Planned \in ReleaseName
                         /\ Rendered \in [Package -> [{"install", "upgrade"} -> Content]]
                         /\ Escaping \subseteq Package

(* files: the package as it is on disk; plan: the manifest of the artifact. *)
PlanJob(action, files) == [cmd |-> "plan", pc |-> "plan", action |-> action, files |-> files,
                           plan |-> Nothing, checked |-> files, dry |-> FALSE, shown |-> <<>>]

(* plan renders with Install's client dry run, whatever the action.        *)
PlanOf(files) == Rendered[files]["install"]

(* The state the preview compares with: the newest record, or nothing when *)
(* there is none or it cannot be read.                                     *)
Base == IF hist[Planned] = {} THEN Nothing ELSE Latest(Planned).content

MakePlan ==
    /\ job.pc = "plan" /\ UNCHANGED <<world, others>>
    /\ IF job.files \in Escaping THEN job' = [job EXCEPT !.pc = "refused"] /\ NoFault
       ELSE \/ /\ job' = [job EXCEPT !.pc = "apply", !.plan = PlanOf(job.files),
                                     !.shown = <<Base, PlanOf(job.files)>>] /\ NoFault
            \/ /\ job' = [job EXCEPT !.pc = "apply", !.plan = PlanOf(job.files),
                                     !.shown = <<Nothing, PlanOf(job.files)>>] /\ WFault

(* Mutant: the digests are not compared.                                   *)
AlwaysIntact == TRUE
Intact == PlanOf(job.files) = job.plan

(* apply up to the comparison of the digests.                              *)
CheckPlan ==
    /\ job.pc = "apply" /\ UNCHANGED <<world, others>> /\ NoFault
    /\ IF job.files \in Escaping \/ ~Intact THEN job' = [job EXCEPT !.pc = "refused"]
       ELSE \E dry \in BOOLEAN :
              job' = [job EXCEPT !.pc = "run", !.checked = job.files, !.dry = dry]

(* The operation, atomic and waiting, from the files as they are then.     *)
RunPlan ==
    /\ job.pc = "run" /\ UNCHANGED others
    /\ LET c == Rendered[job.files][job.action] IN
       \/ /\ IF job.dry THEN UNCHANGED world /\ NoFault
             ELSE IF job.action = "upgrade" THEN WUpgradeOk(Planned, c) ELSE WInstallOk(Planned, c)
          /\ job' = [job EXCEPT !.pc = "ok"]
       \/ /\ IF job.dry THEN UNCHANGED world /\ WFault
             ELSE IF job.action = "upgrade"
                  THEN \/ WUpgradeFails(Planned, c)
                       \/ hist[Planned] = {} /\ UNCHANGED world /\ NoFault
                  ELSE WInstallFails(Planned, c)
          /\ job' = [job EXCEPT !.pc = "failed"]

(* Somebody edits the package.                                             *)
EditFiles(f) ==
    /\ others > 0 /\ others' = others - 1 /\ job.pc \in {"apply", "run"} /\ f # job.files
    /\ job' = [job EXCEPT !.files = f]
    /\ UNCHANGED world /\ NoFault

PlanStep == /\ job.cmd = "plan"
            /\ MakePlan \/ CheckPlan \/ RunPlan \/ \E f \in Package : EditFiles(f)

PlanSpec == /\ WorldInit
            /\ \E action \in {"install", "upgrade"}, f \in Package : job = PlanJob(action, f)
            /\ [][PlanStep \/ OthersStep]_worldVars

-----------------------------------------------------------------------------
(* An apply that reports success has made live what the plan shows, for a  *)
(* package that renders the same for an install and an upgrade and is not  *)
(* edited between the comparison of the digests and the operation; a       *)
(* package edited before is refused, whatever the release has become.      *)
AppliedIsPlanned ==
    [][job.cmd = "plan" /\ job.pc = "run" /\ job'.pc = "ok" /\ job.files = job.checked =>
          /\ PlanOf(job.files) = job.plan
          /\ Rendered[job.files]["upgrade"] = Rendered[job.files]["install"] /\ ~job.dry =>
               live'[Planned] = job.shown[2]
      ]_worldVars

(* docs/cli/apply.md: apply executes the exact change the plan describes.  *)
(* It does not hold for an upgrade of a package that asks whether it is    *)
(* upgraded: the plan is rendered as an install.                           *)
PlanIsExact ==
    [][job.cmd = "plan" /\ job.pc = "run" /\ job'.pc = "ok" /\ ~job.dry /\ job.files = job.checked
          => live'[Planned] = job.plan]_worldVars
=============================================================================
