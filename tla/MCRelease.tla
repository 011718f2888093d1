----------------------------- MODULE MCRelease ------------------------------
(***************************************************************************)
(* Small instances of the release operations for TLC.                      *)
(***************************************************************************)
EXTENDS ReleaseOpsProps, TLC

CONSTANTS a, b, bad        \* three charts; the manifest of bad does not parse

Charts == {a, b, bad}
Resources == 1 .. 3
(* Resource 1 is a CRD, 2 and 3 are workloads.  Going from a to b drops    *)
(* resource 3, going from b to a introduces it.                            *)
Manifests3 == [ch \in Charts |-> IF ch = a THEN {1, 2, 3} ELSE {1, 2}]
(* Without the CRD, for the runs with several clients.                     *)
Manifests2 == [ch \in Charts |-> IF ch = a THEN {2, 3} ELSE {2}]

Install(ch) == Plain("install", ch)
Upgrade(ch) == Plain("upgrade", ch)
Rollback(n) == [Plain("rollback", a) EXCEPT !.target = n]
Uninstall == Plain("uninstall", a)
OrInstall(q) == [q EXCEPT !.install = TRUE]
Atomic(q) == [q EXCEPT !.atomic = TRUE]
CleaningUp(q) == [q EXCEPT !.cleanup = TRUE]
Forced(q) == [q EXCEPT !.force = TRUE]
Waiting(q) == [q EXCEPT !.wait = TRUE]
ForJobs(q) == [q EXCEPT !.wait = TRUE, !.jobs = TRUE]
HistoryMax(q, n) == [q EXCEPT !.max = n]
KeepingHistory(q) == [q EXCEPT !.keep = TRUE]

(* One client, every option and every path of the operations.              *)
SoloRequests ==
    { OrInstall(Atomic(Waiting(Upgrade(a)))),
      CleaningUp(Waiting(Upgrade(b))),
      HistoryMax(Atomic(ForJobs(Forced(Upgrade(b)))), 1),
      OrInstall(CleaningUp(Atomic(Forced(Upgrade(bad))))),
      Rollback(0),
      HistoryMax(CleaningUp(Forced(Rollback(1))), 1),
      Waiting(Uninstall),
      KeepingHistory(Uninstall) }

(* Concurrent clients that only add to the history.                        *)
GrowingRequests ==
    { CleaningUp(Install(a)), OrInstall(Upgrade(a)), Atomic(Waiting(Upgrade(b))), Rollback(0) }

(* Clients that take revisions away from one another.                      *)
RacingRequests ==
    { OrInstall(HistoryMax(Atomic(Upgrade(a)), 1)), Uninstall }

(* The smallest sets of requests that refute a statement.                  *)
PlainRequests == { OrInstall(Upgrade(a)), Upgrade(b), Uninstall }
ForcedRequests == { OrInstall(Upgrade(a)), Atomic(Forced(Upgrade(b))) }
KeptRequests == { OrInstall(HistoryMax(Upgrade(a), 1)) }

Clients == Permutations(Client)
=============================================================================
