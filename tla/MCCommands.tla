----------------------------- MODULE MCCommands -----------------------------
(***************************************************************************)
(* Small instances of the commands built on the release operations, one    *)
(* command per behaviour.                                                  *)
(***************************************************************************)
EXTENDS Canary, HistoryCommands, PlanApply, MultiInstall, Purge, MCTasks, TLC

CONSTANTS a, b, v0, v1, v2

Parts == <<v1, v2>>
Packages == {"plain", "edited", "asking", "outside"}
Manifest == [f \in Packages |->
               IF f = "asking" THEN [install |-> v1, upgrade |-> v2]
               ELSE IF f = "edited" THEN [install |-> v2, upgrade |-> v2]
               ELSE [install |-> v1, upgrade |-> v1]]
Outside == {"outside"}
Lists == {<<a, b>>, <<b, a, b>>}

Space(marked, names) == [there |-> TRUE, ending |-> FALSE, marked |-> marked, records |-> names,
                         objects |-> names, workloads |-> TRUE, pods |-> TRUE, dead |-> FALSE,
                         config |-> TRUE]
OldPurge == [Space(FALSE, {}) EXCEPT !.there = FALSE, !.workloads = FALSE, !.config = FALSE]
(* A namespace with a release on a live or a dead node, one that keramos   *)
(* created, a reserved one, protected ones, and a pod of an earlier purge. *)
Cluster(dead) == [apps |-> [Space(FALSE, {"x", "y"}) EXCEPT !.dead = dead],
                  made |-> [Space(TRUE, {}) EXCEPT !.pods = dead, !.dead = dead],
                  default |-> Space(TRUE, {"x"}), kept |-> Space(TRUE, {"x"}),
                  other |-> Space(TRUE, {}), lost |-> OldPurge]
ASSUME ClusterAssumption == \A dead \in BOOLEAN : Cluster(dead) \in Furnished
Empty == [n \in DOMAIN Cluster(TRUE) |-> OldPurge]
SomeFlags == {{"dry"}, {}, {"ignore", "drop"}, {"drop"}, {"force"}, {"force", "drop"}}

-----------------------------------------------------------------------------
(* The histories a release may have: none, installed, upgraded, upgraded   *)
(* without success (undone or not), with its first revision pruned.        *)
Known ==
    { <<{}, Nothing>>, <<{Rec(1, "deployed", v0)}, v0>>,
      <<{Rec(1, "superseded", v0), Rec(2, "deployed", v1)}, v1>>,
      <<{Rec(1, "deployed", v0), Rec(2, "failed", v1)}, v0>>,
      <<{Rec(1, "deployed", v0), Rec(2, "failed", v1), Rec(3, "failed", v2)}, Torn>>,
      <<{Rec(3, "deployed", v1)}, v1>> }

ASSUME KnownAssumption == \A k \in Known : Sound(k[1], k[2])

Holds(n, k) == hist[n] = k[1] /\ live[n] = k[2]

Idle == [cmd |-> "none", pc |-> "refused"]

CommandInit ==
    /\ hist \in [{a, b} -> {k[1] : k \in Known}]
    /\ live \in [{a, b} -> {k[2] : k \in Known}]
    /\ \A n \in {a, b} : \E k \in Known : Holds(n, k)
    /\ owner = [n \in {a, b} |-> n]
    /\ wfaults = MaxWorldFaults /\ others = MaxOthers
    /\ \/ job = CanaryJob("begin") /\ hist[b] = {}
       \/ \E keepOld \in BOOLEAN : job = RenameJob(keepOld)
       \/ job = PruneJob /\ hist[b] = {}
       \/ \E action \in {"install", "upgrade"}, f \in Packages :
            job = PlanJob(action, f) /\ hist[b] = {}
       \/ \E targets \in Lists, parallel \in {0, 2}, atomic \in BOOLEAN :
            job = MultiJob(targets, parallel, atomic)

NoCommand == /\ job = Idle
             /\ hist = [n \in {a, b} |-> {}] /\ live = [n \in {a, b} |-> Nothing]
             /\ owner = [n \in {a, b} |-> n] /\ wfaults = 0 /\ others = 0
NoPurge == PurgeInit(Empty) /\ flags = {} /\ cur = "apps"
NoTask == task = IdleTask /\ tfaults = 0

MCInit ==
    \/ CommandInit /\ NoPurge /\ NoTask
    \/ /\ \E dead \in BOOLEAN : PurgeInit(Cluster(dead))
       /\ cur = "apps" /\ NoCommand /\ NoTask
    \/ TaskInit /\ NoCommand /\ NoPurge

(* Another client upgrades the release the command works on.               *)
Meddle == job.cmd # "multi" /\ job.pc \notin Ended /\ \E c \in {v0, v2} : OtherUpgrade(a, c)

MCNext ==
    \/ /\ job.cmd # "none" /\ UNCHANGED <<pvars, taskVars>>
       /\ \/ CanaryStep \/ RenameStep \/ PruneStep \/ PlanStep \/ MultiStep \/ Meddle
          \/ job.pc \in Ended /\ UNCHANGED worldVars
    \/ job.cmd = "none" /\ task.kind = "none" /\ PurgeStep /\ UNCHANGED <<worldVars, taskVars>>
    \/ TaskStep /\ UNCHANGED <<worldVars, pvars>>
    \/ (at = "done" \/ (task.kind # "none" /\ TaskEnded)) /\ UNCHANGED <<worldVars, pvars, taskVars>>

MCSpec == MCInit /\ [][MCNext]_<<worldVars, pvars, taskVars>>
=============================================================================
