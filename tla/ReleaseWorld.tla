---------------------------- MODULE ReleaseWorld ----------------------------
(***************************************************************************)
(* Releases as the commands built on top of the operations see them: the   *)
(* history of each release, what is live of it, and the release its        *)
(* objects say they belong to.  An operation is one step with the outcomes *)
(* ReleaseOps has for a client nobody interferes with; the operations of   *)
(* others fall between the steps of a command.                             *)
(***************************************************************************)
EXTENDS Naturals, Sequences, FiniteSets, FiniteSetsExt, SequencesExt

CONSTANTS ReleaseName,     \* the names of releases
          Content,         \* the manifests a release may have
          Nothing, Torn,   \* nothing is live; parts of several manifests are
          MaxWorldFaults,  \* bound: failing calls in a behaviour
          MaxOthers        \* bound: operations of other clients

ASSUME ReleaseWorldAssumption ==
    {Nothing, Torn} \cap Content = {} /\ MaxWorldFaults \in Nat /\ MaxOthers \in Nat

VARIABLES hist,            \* release name -> its records
          live,            \* release name -> the manifest that is live, Nothing or Torn
          owner,           \* release name -> the name its objects carry
          wfaults,         \* failing calls still allowed
          others,          \* operations of other clients still allowed
          job              \* the command that runs: a record, by command

world == <<hist, live, owner>>
worldVars == <<hist, live, owner, wfaults, others, job>>

Rec(rev, status, content) == [rev |-> rev, status |-> status, content |-> content]
WStatus == {"deployed", "superseded", "failed"}

Revs(n) == {r.rev : r \in hist[n]}
(* Mutant: the records are counted.                                        *)
CountRevs(n) == Cardinality(hist[n])
LastRev(n) == IF hist[n] = {} THEN 0 ELSE Max(Revs(n))
RecordOf(h, rev) == CHOOSE r \in h : r.rev = rev
Latest(n) == CHOOSE r \in hist[n] : \A s \in hist[n] : s.rev <= r.rev
DeployedOf(n) == {r \in hist[n] : r.status = "deployed"}

Superseded(h) == {IF r.status = "deployed" THEN [r EXCEPT !.status = "superseded"] ELSE r : r \in h}

(* A command that is in one of these has returned.                         *)
Ended == {"ok", "failed", "refused", "aborted", "restored", "broken"}

NoFault == UNCHANGED wfaults
WFault == wfaults > 0 /\ wfaults' = wfaults - 1

Lives(n, c) == live' = [live EXCEPT ![n] = c] /\ owner' = [owner EXCEPT ![n] = n]
Records(n, h) == hist' = [hist EXCEPT ![n] = h]

-----------------------------------------------------------------------------
(* Upgrade.  On success the new revision is the only deployed one.  An     *)
(* atomic upgrade that fails puts the previous manifest back and records   *)
(* both (atomicRollbackUpgrade).  Objects that carry another release's      *)
(* name are refused (checkOwnership).                                      *)
WUpgradeOk(n, c) ==
    /\ hist[n] # {} /\ owner[n] = n
    /\ Records(n, Superseded(hist[n]) \cup {Rec(LastRev(n) + 1, "deployed", c)})
    /\ Lives(n, c) /\ NoFault

WUpgradeFails(n, c) ==
    /\ WFault
    /\ \/ UNCHANGED world
       \/ /\ hist[n] # {}
          /\ Records(n, (hist[n] \ {Latest(n)}) \cup {[Latest(n) EXCEPT !.status = "deployed"],
                                                       Rec(LastRev(n) + 1, "failed", c)})
          /\ Lives(n, Latest(n).content)

(* Install with --atomic: put if absent, so it needs a free revision 1.    *)
WInstallOk(n, c) ==
    /\ 1 \notin Revs(n)
    /\ Records(n, hist[n] \cup {Rec(1, "deployed", c)})
    /\ Lives(n, c) /\ NoFault

WInstallFails(n, c) ==
    \/ 1 \in Revs(n) /\ UNCHANGED world /\ NoFault
    \/ /\ WFault
       /\ \/ UNCHANGED world
          \/ /\ 1 \notin Revs(n)
             /\ Records(n, hist[n] \cup {Rec(1, "failed", c)}) /\ Lives(n, Nothing)

(* Rollback to a revision, whatever its status; it has no undo.            *)
WRollbackOk(n, rev) ==
    /\ rev \in Revs(n)
    /\ LET c == RecordOf(hist[n], rev).content IN
       /\ Records(n, Superseded(hist[n]) \cup {Rec(LastRev(n) + 1, "deployed", c)})
       /\ Lives(n, c) /\ NoFault

WRollbackFails(n, rev) ==
    \/ rev \notin Revs(n) /\ UNCHANGED world /\ NoFault
    \/ /\ WFault
       /\ \/ UNCHANGED world
          \/ /\ rev \in Revs(n)
             /\ Records(n, hist[n] \cup {Rec(LastRev(n) + 1, "failed", RecordOf(hist[n], rev).content)})
             /\ Lives(n, Torn)

WUninstallOk(n) ==
    hist[n] # {} /\ Records(n, {}) /\ Lives(n, Nothing) /\ NoFault
WUninstallFails(n) ==
    \/ hist[n] = {} /\ UNCHANGED world /\ NoFault
    \/ WFault /\ (UNCHANGED world \/ (live[n] # Nothing /\ Lives(n, Torn) /\ UNCHANGED hist))

-----------------------------------------------------------------------------
(* The calls on the store.                                                 *)

(* Mutant: a Create that overwrites.                                       *)
WCreateOver(n, r) ==
    Records(n, {x \in hist[n] : x.rev # r.rev} \cup {r}) /\ UNCHANGED <<live, owner>> /\ NoFault
WCreateOk(n, r) ==
    r.rev \notin Revs(n) /\ Records(n, hist[n] \cup {r}) /\ UNCHANGED <<live, owner>> /\ NoFault
(* The record exists, or the call fails, or its answer is lost.            *)
WCreateFails(n, r) ==
    \/ r.rev \in Revs(n) /\ UNCHANGED world /\ NoFault
    \/ WFault /\ UNCHANGED world
    \/ WFault /\ r.rev \notin Revs(n) /\ Records(n, hist[n] \cup {r}) /\ UNCHANGED <<live, owner>>

(* Deleting a record that is not there succeeds.                           *)
WDeleteOk(n, rev) ==
    /\ Records(n, {r \in hist[n] : r.rev # rev}) /\ UNCHANGED <<live, owner>> /\ NoFault
WDeleteFails(n, rev) ==
    /\ WFault /\ UNCHANGED <<live, owner>>
    /\ hist' \in {hist, [hist EXCEPT ![n] = {r \in @ : r.rev # rev}]}

-----------------------------------------------------------------------------
(* Another client upgrades a release between two steps of a command.       *)
OtherUpgrade(n, c) ==
    /\ others > 0 /\ others' = others - 1
    /\ WUpgradeOk(n, c)
    /\ UNCHANGED job
OthersStep == job.pc \notin Ended /\ \E n \in ReleaseName, c \in Content : OtherUpgrade(n, c)

-----------------------------------------------------------------------------
(* What the operations leave of a release: its records h, and what is      *)
(* live, l.  No more than one revision is deployed, and when it is the     *)
(* newest it is live; a release without records has nothing live.          *)
Record == [rev : Nat \ {0}, status : WStatus, content : Content]
Sound(h, l) ==
    /\ IsFiniteSet(h) /\ \A r \in h : r \in Record
    /\ \A r, s \in h : r.rev = s.rev \/ (r.status = "deployed" /\ s.status = "deployed") => r = s
    /\ l \in Content \cup {Nothing, Torn}
    /\ h = {} => l = Nothing
    /\ \A r \in h : r.status = "deployed" /\ (\A s \in h : s.rev <= r.rev) => l = r.content

WorldInit ==
    /\ hist \in [ReleaseName -> SUBSET Record]
    /\ live \in [ReleaseName -> Content \cup {Nothing, Torn}]
    /\ \A n \in ReleaseName : Sound(hist[n], live[n])
    /\ owner = [n \in ReleaseName |-> n]
    /\ wfaults = MaxWorldFaults /\ others = MaxOthers

WorldTypeOK ==
    /\ \A n \in ReleaseName :
         /\ \A r \in hist[n] : r.rev \in Nat \ {0} /\ r.status \in WStatus /\ r.content \in Content
         /\ \A r, s \in hist[n] : r.rev = s.rev => r = s
    /\ live \in [ReleaseName -> Content \cup {Nothing, Torn}]
    /\ owner \in [ReleaseName -> ReleaseName]
    /\ wfaults \in 0 .. MaxWorldFaults /\ others \in 0 .. MaxOthers
=============================================================================
