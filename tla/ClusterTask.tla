---------------------------- MODULE ClusterTask -----------------------------
(***************************************************************************)
(* One task of the client of the cluster or of the record database at a    *)
(* time: Hooks, KubeClient, Ownership, Drift and Drivers each describe one *)
(* kind, or several, as a record with the task's state.                    *)
(***************************************************************************)
EXTENDS Naturals, Sequences, FiniteSets, FiniteSetsExt, SequencesExt, Functions

CONSTANT MaxTaskFaults     \* bound: failing calls of a task
ASSUME TaskFaultsAssumption == MaxTaskFaults \in Nat

VARIABLES task,            \* the task: a record, by kind
          tfaults          \* failing calls it may still meet

taskVars == <<task, tfaults>>

TFault == tfaults > 0 /\ tfaults' = tfaults - 1
TNoFault == UNCHANGED tfaults

(* The task has returned.                                                  *)
TaskEnded == task.pc \in {"ok", "error"}
=============================================================================
