------------------------------- MODULE Canary -------------------------------
(***************************************************************************)
(* keramos canary (internal/cli/canary.go): upgrade through a list of      *)
(* stages, with a pause after each, and go back when one fails.  Stage i   *)
(* renders the manifest Stages[i].                                         *)
(***************************************************************************)
EXTENDS ReleaseWorld

CONSTANTS Canaried,        \* the release
          Stages           \* the manifests of the stages, in order

ASSUME CanaryAssumption ==
    Canaried \in ReleaseName /\ Stages \in Seq(Content) /\ Len(Stages) > 0

CanaryJob(pc) == [cmd |-> "canary", pc |-> pc, stage |-> 1, base |-> 0, blind |-> FALSE,
                  before |-> live[Canaried], alone |-> others,
                  clean |-> hist[Canaried] = {} \/ Latest(Canaried).status = "deployed"]

(* Read the revision to go back to.  An error counts as no release.        *)
CanaryBegin ==
    /\ job.pc = "begin" /\ UNCHANGED <<world, others>>
    /\ \/ NoFault /\ job' = [job EXCEPT !.pc = "stage", !.base = LastRev(Canaried)]
       \/ WFault /\ job' = [job EXCEPT !.pc = "stage", !.blind = TRUE]

(* Only the first stage installs a release that does not exist.            *)
StageOk(c) == \/ WUpgradeOk(Canaried, c)
              \/ hist[Canaried] = {} /\ job.stage = 1 /\ WInstallOk(Canaried, c)
StageFails(c) == \/ WUpgradeFails(Canaried, c)
                 \/ hist[Canaried] = {} /\ job.stage > 1 /\ UNCHANGED world /\ NoFault
                 \/ hist[Canaried] = {} /\ job.stage = 1 /\ WInstallFails(Canaried, c)

(* Mutant: every stage that succeeds becomes the baseline.                 *)
BaselineMoves == LastRev(Canaried) + 1
(* The first stage of a release that did not exist becomes the baseline.   *)
BaselineAfter == IF job.base = 0 THEN LastRev(Canaried) + 1 ELSE job.base

CanaryStage ==
    /\ job.pc = "stage" /\ UNCHANGED others
    /\ LET c == Stages[job.stage] IN
       \/ /\ StageOk(c)
          /\ job' = [job EXCEPT !.base = BaselineAfter,
                                !.pc = IF job.stage = Len(Stages) THEN "ok" ELSE "bake"]
       \/ StageFails(c) /\ job' = [job EXCEPT !.pc = "recover"]

(* The pause; the deadline of the whole run ends it with an error, and     *)
(* without going back.                                                     *)
CanaryBake ==
    /\ job.pc = "bake" /\ UNCHANGED <<world, others>>
    /\ \/ NoFault /\ job' = [job EXCEPT !.pc = "stage", !.stage = @ + 1]
       \/ WFault /\ job' = [job EXCEPT !.pc = "aborted"]

(* Roll back to the baseline, or uninstall when there is none.             *)
CanaryRecover ==
    /\ job.pc = "recover" /\ UNCHANGED others
    /\ \/ /\ IF job.base > 0 THEN WRollbackOk(Canaried, job.base) ELSE WUninstallOk(Canaried)
          /\ job' = [job EXCEPT !.pc = "restored"]
       \/ /\ IF job.base > 0 THEN WRollbackFails(Canaried, job.base) ELSE WUninstallFails(Canaried)
          /\ job' = [job EXCEPT !.pc = "broken"]

CanaryStep == job.cmd = "canary" /\ (CanaryBegin \/ CanaryStage \/ CanaryBake \/ CanaryRecover)

CanarySpec == WorldInit /\ job = CanaryJob("begin") /\ [][CanaryStep \/ OthersStep]_worldVars

-----------------------------------------------------------------------------
CanaryAlone == job.alone = others

(* A canary that reports a failed stage and nothing else has left the      *)
(* manifest that was live before its first stage, if the release existed   *)
(* and its newest revision was the deployed one; and one deployed revision *)
(* at most.                                                                *)
CanaryGoesBack ==
    job.cmd = "canary" /\ job.pc = "restored" /\ CanaryAlone /\ ~job.blind =>
        /\ Cardinality(DeployedOf(Canaried)) <= 1
        /\ job.clean => live[Canaried] = job.before
                        \/ (job.before = Nothing /\ live[Canaried] = Stages[1])

(* docs/cli/canary.md:34-36: "If any stage fails, it rolls back to the     *)
(* pre-canary baseline revision - or, if the release was created by this   *)
(* canary, uninstalls the partial deployment."  It does not hold for a     *)
(* release the canary created, which is left at the first stage.           *)
CanaryUndoesAll ==
    job.cmd = "canary" /\ job.pc = "restored" /\ CanaryAlone /\ ~job.blind
        => live[Canaried] = job.before
=============================================================================
