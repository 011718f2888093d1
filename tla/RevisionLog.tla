---------------------------- MODULE RevisionLog -----------------------------
(***************************************************************************)
(* What the revision history of a release promises as long as nothing is   *)
(* pruned or uninstalled: a log.  Every operation appends one entry, born  *)
(* pending; an entry keeps its manifest for ever and never becomes pending *)
(* again; numbers are handed out one after the other, so a higher revision *)
(* is a later one.                                                         *)
(***************************************************************************)
EXTENDS ReleaseRecord

VARIABLE log

LogInit == log = [r \in Rev |-> NoRecord]

Written == {r \in Rev : log[r] # NoRecord}

Append1 ==
    \E r \in Rev, ch \in Chart, st \in Pending :
        /\ \A s \in Rev : s < r <=> s \in Written
        /\ log' = [log EXCEPT ![r] = [chart |-> ch, status |-> st]]

Settle ==
    \E r \in Written, st \in Status \ Pending :
        log' = [log EXCEPT ![r] = [chart |-> log[r].chart, status |-> st]]

LogSpec == LogInit /\ [][Append1 \/ Settle]_log
=============================================================================
