----------------------------- MODULE Controller -----------------------------
(***************************************************************************)
(* keramos controller run (internal/cli/controller.go): replicas that hold *)
(* a lease in turn; the one that leads lists the KeramosRelease objects    *)
(* every interval and upgrades the release of each one whose resource      *)
(* version is not the one it processed last, or whose release drifted.     *)
(*                                                                         *)
(* A resource version is a token: two are equal when nothing was written   *)
(* in between, and one that nobody remembers may come back.  The upgrade   *)
(* is the atomic operation of ReleaseOps, seen from outside: it ends with  *)
(* the release as the spec wants it, or as it was.  The lease is the one   *)
(* of client-go; time counts from its last renewal, in units small enough  *)
(* that RenewDeadline is less than LeaseDuration.                          *)
(***************************************************************************)
EXTENDS Naturals, FiniteSets

CONSTANTS Replica,         \* the controller processes
          CR,              \* the KeramosRelease objects
          Good, Bad,       \* specs whose package is under the root, and not
          Nothing, Torn,   \* no release; what a killed upgrade left
          NoReplica,       \* nobody holds the lease
          Version,         \* the resource versions
          MaxEdits,        \* bound: writes to a spec, deletions
          MaxDrifts,       \* bound: changes of a release's objects by others
          MaxFaults,       \* bound: failing calls
          MaxOutages       \* bound: leases not renewed in time

Wanted == Good \cup Bad

ASSUME ControllerAssumption ==
    /\ NoReplica \notin Replica /\ Good \cap Bad = {}
    /\ {Nothing, Torn} \cap Wanted = {} /\ Version \subseteq Nat \ {0}
    /\ MaxEdits \in Nat /\ MaxDrifts \in Nat /\ MaxFaults \in Nat /\ MaxOutages \in Nat

VARIABLES object,          \* CR -> its version, spec and status; spec Nothing: deleted
          rel,             \* CR -> the spec its release was made from
          drifted,         \* CR -> its objects differ from the release's manifest
          pc,              \* Replica -> where it is
          view,            \* Replica -> the listed objects not yet reconciled
          item,            \* Replica -> the object it reconciles
          phase,           \* Replica -> the status it is about to write
          fresh,           \* Replica -> the version setStatus has read
          tries,           \* Replica -> conflicts of setStatus so far
          processed,       \* Replica -> CR -> version reconciled last
          holder,          \* who the lease names
          age,             \* time since it was renewed
          left             \* what remains of the bounds

cvars == <<object, rel, drifted, pc, view, item, phase, fresh, tries, processed,
           holder, age, left>>
work == <<view, item, phase, fresh, tries>>
clock == <<holder, age>>

NoVersion == 0
Absent == [version |-> NoVersion, spec |-> Nothing, phase |-> "none"]

-----------------------------------------------------------------------------
(* Leader election.                                                        *)

LeaseDuration == 3
(* Mutant: a leader that may be late longer than the lease lasts.          *)
LateDeadline == 4
RenewDeadline == 2

Leads(p) == pc[p] \in {"idle", "items", "upgrade", "get", "put"}
(* A replica that lost the lease while it was at work goes on with the     *)
(* call it is in until its process ends.                                   *)
Dying(p) == pc[p] = "dying"

Spend(what) == left[what] > 0 /\ left' = [left EXCEPT ![what] = @ - 1]

(* A replica that waits looks at the lease every RetryPeriod, two seconds;  *)
(* a process that lost it has ended by then.                               *)
Acquire(p) ==
    /\ pc[p] = "standby" /\ \A q \in Replica : ~Dying(q)
    /\ holder = NoReplica \/ age >= LeaseDuration
    /\ holder' = p /\ age' = 0
    /\ pc' = [pc EXCEPT ![p] = "idle"]
    /\ UNCHANGED <<object, rel, drifted, work, processed, left>>

Renew(p) ==
    /\ Leads(p) /\ holder = p /\ age > 0
    /\ age' = 0
    /\ UNCHANGED <<object, rel, drifted, pc, work, processed, holder, left>>

(* Time passes; a leader has given up by the time RenewDeadline is over.   *)
Tick ==
    /\ holder # NoReplica /\ age < LeaseDuration + 1
    /\ age' = age + 1
    /\ IF Leads(holder)
       THEN age < RenewDeadline /\ IF age' = RenewDeadline THEN Spend("outages") ELSE UNCHANGED left
       ELSE UNCHANGED left
    /\ UNCHANGED <<object, rel, drifted, pc, work, processed, holder>>

(* OnStoppedLeading: the lease is given back if the API server answers.    *)
(* RunOrDie does not wait for the reconcile, which is cut off when the     *)
(* command returns: an upgrade may by then be anywhere.                    *)
Stop(p) ==
    /\ Leads(p) /\ holder = p /\ age >= RenewDeadline
    /\ holder' \in {p, NoReplica} /\ age' = (IF holder' = p THEN age ELSE 0)
    /\ pc' = [pc EXCEPT ![p] = IF pc[p] = "upgrade" THEN "dying" ELSE "standby"]
    /\ processed' = [processed EXCEPT ![p] = [c \in CR |-> NoVersion]]
    /\ view' = [view EXCEPT ![p] = {}]
    /\ item' = [item EXCEPT ![p] = IF pc[p] = "upgrade" THEN @ ELSE Absent]
    /\ phase' = [phase EXCEPT ![p] = "none"]
    /\ fresh' = [fresh EXCEPT ![p] = NoVersion] /\ tries' = [tries EXCEPT ![p] = 0]
    /\ UNCHANGED <<object, rel, drifted, left>>

(* The process is gone and a new one starts.                               *)
Exit(p) ==
    /\ Dying(p)
    /\ LET c == item[p].name IN rel' \in {rel, [rel EXCEPT ![c] = item[p].spec],
                                          [rel EXCEPT ![c] = Torn]}
    /\ pc' = [pc EXCEPT ![p] = "standby"]
    /\ item' = [item EXCEPT ![p] = Absent]
    /\ UNCHANGED <<object, drifted, view, phase, fresh, tries, processed, clock, left>>

-----------------------------------------------------------------------------
(* The reconcile loop.                                                     *)

(* reconcileAll: list the objects and forget those that are not listed; a  *)
(* List that fails ends the pass.  The code forgets them at the end of the *)
(* pass, until when it does not look at them.                              *)
List(p) ==
    /\ pc[p] = "idle"
    /\ \/ /\ view' = [view EXCEPT ![p] =
                {[name |-> c, version |-> object[c].version, spec |-> object[c].spec] :
                   c \in {c \in CR : object[c].spec # Nothing}}]
          /\ processed' = [processed EXCEPT ![p] =
                [c \in CR |-> IF object[c].spec = Nothing THEN NoVersion ELSE @[c]]]
          /\ pc' = [pc EXCEPT ![p] = "items"] /\ UNCHANGED left
       \/ Spend("faults") /\ UNCHANGED <<pc, view, processed>>
    /\ UNCHANGED <<object, rel, drifted, item, phase, fresh, tries, clock>>

(* Mutant: a processed object is not checked for drift.                    *)
SkipsDrift(p, i) == processed[p][i.name] = i.version /\ UNCHANGED left

(* releaseHasDrifted: any error counts as no drift.                        *)
Skips(p, i) ==
    /\ processed[p][i.name] = i.version
    /\ \/ ~drifted[i.name] /\ UNCHANGED left
       \/ drifted[i.name] /\ Spend("faults")

Skip(p, i) ==
    /\ pc[p] = "items" /\ i \in view[p] /\ Skips(p, i)
    /\ view' = [view EXCEPT ![p] = @ \ {i}]
    /\ UNCHANGED <<object, rel, drifted, pc, item, phase, fresh, tries, processed, clock>>

ToStatus(p, ph) == /\ pc' = [pc EXCEPT ![p] = "get"]
                   /\ phase' = [phase EXCEPT ![p] = ph]

(* reconcileOne: a package outside the root fails at once, otherwise the   *)
(* upgrade starts.                                                         *)
Reconcile(p, i) ==
    /\ pc[p] = "items" /\ i \in view[p]
    /\ processed[p][i.name] # i.version \/ drifted[i.name]
    /\ view' = [view EXCEPT ![p] = @ \ {i}]
    /\ item' = [item EXCEPT ![p] = i]
    /\ IF i.spec \in Bad THEN ToStatus(p, "Failed")
       ELSE pc' = [pc EXCEPT ![p] = "upgrade"] /\ UNCHANGED phase
    /\ UNCHANGED <<object, rel, drifted, fresh, tries, processed, clock, left>>

(* Mutant: the failed upgrade is remembered as done.                       *)
RememberAlways(p, ok) == processed' = [processed EXCEPT ![p][item[p].name] = item[p].version]
(* The version remembered is the listed one, from before the status write. *)
Remember(p, ok) ==
    IF ok THEN processed' = [processed EXCEPT ![p][item[p].name] = item[p].version]
    ELSE UNCHANGED processed

(* action.Upgrade with --install --atomic --wait.                          *)
Upgrade(p) ==
    /\ pc[p] = "upgrade"
    /\ \/ /\ rel' = [rel EXCEPT ![item[p].name] = item[p].spec]
          /\ drifted' = [drifted EXCEPT ![item[p].name] = FALSE]
          /\ ToStatus(p, "Deployed") /\ Remember(p, TRUE) /\ UNCHANGED left
       \/ /\ Spend("faults")
          /\ ToStatus(p, "Failed") /\ Remember(p, FALSE) /\ UNCHANGED <<rel, drifted>>
    /\ UNCHANGED <<object, view, item, fresh, tries, clock>>

(* Mutant: the status of the last object is left for the next one.         *)
BackWithPhase(p) == /\ pc' = [pc EXCEPT ![p] = "items"]
                    /\ item' = [item EXCEPT ![p] = Absent]
                    /\ fresh' = [fresh EXCEPT ![p] = NoVersion]
                    /\ tries' = [tries EXCEPT ![p] = 0]
                    /\ UNCHANGED phase
BackToItems(p) == /\ pc' = [pc EXCEPT ![p] = "items"]
                  /\ item' = [item EXCEPT ![p] = Absent]
                  /\ phase' = [phase EXCEPT ![p] = "none"]
                  /\ fresh' = [fresh EXCEPT ![p] = NoVersion]
                  /\ tries' = [tries EXCEPT ![p] = 0]

(* reconcileOne: the file of values or the client of the object's          *)
(* namespace cannot be made; no status is written.                         *)
ClientFails(p) ==
    /\ pc[p] = "upgrade" /\ Spend("faults") /\ BackToItems(p)
    /\ UNCHANGED <<object, rel, drifted, view, processed, clock>>

(* setStatus: read the object again; an error gives up.                    *)
StatusGet(p) ==
    /\ pc[p] = "get"
    /\ LET c == item[p].name IN
       \/ /\ object[c].spec # Nothing
          /\ fresh' = [fresh EXCEPT ![p] = object[c].version]
          /\ pc' = [pc EXCEPT ![p] = "put"] /\ UNCHANGED <<item, phase, tries, left>>
       \/ /\ IF object[c].spec = Nothing THEN UNCHANGED left ELSE Spend("faults")
          /\ BackToItems(p)
    /\ UNCHANGED <<object, rel, drifted, view, processed, clock>>

InUse == {object[c].version : c \in CR} \cup {fresh[p] : p \in Replica}
         \cup {processed[p][c] : p \in Replica, c \in CR}
         \cup {item[p].version : p \in Replica} \cup {i.version : i \in UNION {view[p] : p \in Replica}}
NewVersion == CHOOSE v \in Version \ InUse : \A w \in Version \ InUse : v <= w

Conflict(p) == object[item[p].name].version # fresh[p]

(* UpdateStatus, three attempts when it conflicts, one otherwise.          *)
StatusPut(p) ==
    /\ pc[p] = "put"
    /\ LET c == item[p].name IN
       \/ /\ ~Conflict(p)
          /\ object' = [object EXCEPT ![c].version = NewVersion, ![c].phase = phase[p]]
          /\ BackToItems(p) /\ UNCHANGED left
       \/ /\ Conflict(p) /\ tries[p] < 2
          /\ tries' = [tries EXCEPT ![p] = @ + 1]
          /\ pc' = [pc EXCEPT ![p] = "get"] /\ UNCHANGED <<object, item, phase, fresh, left>>
       \/ /\ IF Conflict(p) /\ tries[p] = 2 THEN UNCHANGED left ELSE Spend("faults")
          /\ BackToItems(p) /\ UNCHANGED object
    /\ UNCHANGED <<rel, drifted, view, processed, clock>>

EndPass(p) ==
    /\ pc[p] = "items" /\ view[p] = {}
    /\ pc' = [pc EXCEPT ![p] = "idle"]
    /\ UNCHANGED <<object, rel, drifted, work, processed, clock, left>>

-----------------------------------------------------------------------------
(* The users of the cluster.                                               *)

(* A user writes the spec of an object, or deletes it; its release stays.  *)
Edit(c, s) ==
    /\ Spend("edits") /\ s # object[c].spec
    /\ object' = [object EXCEPT ![c] =
            IF s = Nothing THEN Absent
            ELSE [@ EXCEPT !.version = NewVersion, !.spec = s]]
    /\ UNCHANGED <<rel, drifted, pc, work, processed, clock>>

(* Somebody changes the objects of a release.                              *)
Drift(c) ==
    /\ rel[c] # Nothing /\ ~drifted[c] /\ Spend("drifts")
    /\ drifted' = [drifted EXCEPT ![c] = TRUE]
    /\ UNCHANGED <<object, rel, pc, work, processed, clock>>

-----------------------------------------------------------------------------
ControllerInit ==
    /\ object = [c \in CR |-> Absent]
    /\ rel = [c \in CR |-> Nothing] /\ drifted = [c \in CR |-> FALSE]
    /\ pc = [p \in Replica |-> "standby"]
    /\ view = [p \in Replica |-> {}] /\ item = [p \in Replica |-> Absent]
    /\ phase = [p \in Replica |-> "none"] /\ fresh = [p \in Replica |-> NoVersion]
    /\ tries = [p \in Replica |-> 0]
    /\ processed = [p \in Replica |-> [c \in CR |-> NoVersion]]
    /\ holder = NoReplica /\ age = 0
    /\ left = [edits |-> MaxEdits, drifts |-> MaxDrifts, faults |-> MaxFaults,
               outages |-> MaxOutages]

(* What a replica does of its own accord, the renewal apart.               *)
Progress(p) ==
    \/ Acquire(p) \/ Stop(p) \/ Exit(p) \/ List(p) \/ Upgrade(p) \/ ClientFails(p)
    \/ StatusGet(p) \/ StatusPut(p) \/ EndPass(p)
    \/ \E i \in view[p] : Skip(p, i) \/ Reconcile(p, i)

Users == \E c \in CR : Drift(c) \/ \E s \in Wanted \cup {Nothing} : Edit(c, s)

ControllerNext == Tick \/ Users \/ \E p \in Replica : Progress(p) \/ Renew(p)
ControllerSpec == ControllerInit /\ [][ControllerNext]_cvars
FairControllerSpec ==
    /\ ControllerSpec /\ WF_cvars(Tick)
    /\ \A p \in Replica : WF_cvars(Progress(p)) /\ WF_cvars(Renew(p))
-----------------------------------------------------------------------------
(* The types, and which part of a reconcile remembers which object.        *)
ControllerTypeOK ==
    /\ object \in [CR -> [version : Version \cup {NoVersion}, spec : Wanted \cup {Nothing},
                          phase : {"none", "Failed", "Deployed"}]]
    /\ rel \in [CR -> Wanted \cup {Nothing, Torn}] /\ drifted \in [CR -> BOOLEAN]
    /\ holder \in Replica \cup {NoReplica} /\ age \in 0 .. LeaseDuration + 1
    /\ \A p \in Replica :
         /\ pc[p] \in {"standby", "idle", "items", "upgrade", "get", "put", "dying"}
         /\ (pc[p] \in {"upgrade", "get", "put", "dying"}) <=> item[p] # Absent
         /\ pc[p] = "upgrade" => item[p].spec \in Good
         /\ pc[p] \in {"get", "put"} <=> phase[p] # "none"
         /\ view[p] # {} => pc[p] \notin {"standby", "idle", "dying"}

(* runWithLeaderElection: no two replicas reconcile at a time, as long as  *)
(* a leader that cannot renew its lease gives up before it runs out.       *)
LeadersExclusive == \A p, q \in Replica : Leads(p) /\ Leads(q) => p = q

(* reconcileOne: an object is left out of a pass as processed only if its  *)
(* release was made from that version of it, through failed upgrades,      *)
(* failed status writes, edits, and leaders that come and go.              *)
ProcessedMeansDeployed ==
    \A p \in Replica : \A i \in view[p] :
        processed[p][i.name] = i.version => rel[i.name] = i.spec

(* Once the users leave an object alone and calls stop failing, its        *)
(* release stays as its spec wants it, drift undone, and a package outside *)
(* the root is reported as Failed.                                         *)
Settles ==
    \A c \in CR :
        /\ <>[](object[c].spec \in Good => rel[c] = object[c].spec /\ ~drifted[c])
        /\ <>[](object[c].spec \in Bad => object[c].phase = "Failed")

(* docs/cli/controller-run.md:34-35: "A CR whose resourceVersion is        *)
(* unchanged since the last pass is skipped."  The object of a release     *)
(* that is deployed and left alone should be skipped for good; it is not,  *)
(* for the version remembered is older than the pass's own status write.   *)
UnchangedIsLeftAlone == <>[](\A p \in Replica : pc[p] # "upgrade")
=============================================================================
