----------------------------- MODULE Ownership ------------------------------
(***************************************************************************)
(* Two releases whose packages declare one object: applyResource,          *)
(* checkOwnership, retryTransient, deleteResource and RestampOwnership of  *)
(* internal/kube/client.go.  The object's kind may be one whose definition *)
(* is registered after the client cached its mapping of kinds.             *)
(***************************************************************************)
EXTENDS ClusterTask

CONSTANTS Claimant,        \* the releases
          Nobody           \* an object without the annotation, or no object

ASSUME OwnershipAssumption == Nobody \notin Claimant

MaxTries == 4              \* retryTransient

(* object: whether it is there and the release its annotation names; for   *)
(* each release, where its client is, whether it read the object blindly,  *)
(* and the object as it was when it was read.                              *)
OwnershipTask(object, served, take) ==
    [kind |-> "ownership", pc |-> "run", object |-> object, served |-> served, take |-> take,
     at |-> [c \in Claimant |-> "start"], tries |-> [c \in Claimant |-> 0],
     mapped |-> [c \in Claimant |-> FALSE], blind |-> {}, raced |-> {}, taken |-> {},
     has |-> {c \in Claimant : object.owner = c}]

Moved(c, at) == [task EXCEPT !.at[c] = at]

(* resourceForObj: the cached mapping, refreshed once.                     *)
MapKind(c) ==
    /\ task.at[c] = "start"
    /\ \/ /\ task.mapped[c] \/ task.served
          /\ task' = [Moved(c, "check") EXCEPT !.mapped[c] = TRUE] /\ TNoFault
       \/ ~task.mapped[c] /\ ~task.served /\ task' = Moved(c, "refused") /\ TNoFault
       \/ ~task.mapped[c] /\ TFault /\ task' = Moved(c, "refused")

(* Mutant: an object of another release is claimed.                        *)
NeverForeign(c) == FALSE
Foreign(c) == task.object.there /\ task.object.owner \notin {c, Nobody}

(* checkOwnership: skipped under --take-ownership; a failing read allows.  *)
CheckOwner(c) ==
    /\ task.at[c] = "check"
    /\ \/ task.take[c] /\ task' = Moved(c, "patch") /\ TNoFault
       \/ ~task.take[c] /\ Foreign(c) /\ task' = Moved(c, "refused") /\ TNoFault
       \/ ~task.take[c] /\ ~Foreign(c) /\ task' = Moved(c, "patch") /\ TNoFault
       \/ ~task.take[c] /\ TFault /\ task' = [Moved(c, "patch") EXCEPT !.blind = @ \cup {c}]

(* A write by c overtakes the checks of the others.                        *)
Overtakes(t, c) == [t EXCEPT !.raced = @ \cup {d \in Claimant \ {c} : t.at[d] = "patch"}]
Written(c) ==
    LET t == [task EXCEPT !.object = [there |-> TRUE, owner |-> c], !.has = @ \cup {c},
                          !.taken = IF task.object.there /\ task.object.owner \notin {c, Nobody}
                                    THEN @ \cup {<<c, task.object.owner>>} ELSE @]
    IN Overtakes(t, c)

(* The server-side apply with the release's stamp: a transient error is    *)
(* tried again, whether or not the write took effect.                      *)
ApplyObject(c) ==
    /\ task.at[c] = "patch"
    /\ \/ task' = [Written(c) EXCEPT !.at[c] = "applied"] /\ TNoFault
       \/ /\ TFault
          /\ \E t \in {task, Written(c)} :
               task' = IF task.tries[c] + 1 < MaxTries
                       THEN [t EXCEPT !.tries[c] = @ + 1]
                       ELSE [t EXCEPT !.at[c] = "refused"]
       \/ TFault /\ task' = Moved(c, "refused")

(* deleteResource, in an uninstall: without a look at the owner; an object *)
(* that is not there is a success.                                         *)
DeleteObject(c) ==
    /\ task.at[c] = "applied" /\ c \in task.has
    /\ \/ /\ task' = Overtakes([Moved(c, "start") EXCEPT !.object = [there |-> FALSE, owner |-> Nobody],
                                                        !.has = {}], c) /\ TNoFault
       \/ TFault /\ task' = task

(* RestampOwnership, in a rename of c to d: the annotation and nothing     *)
(* else; d's record lists the object from then on.                         *)
Restamp(c, d) ==
    /\ task.at[c] = "applied" /\ c # d /\ task.at[d] = "start" /\ c \in task.has /\ d \notin task.has
    /\ \/ /\ task' = Overtakes([task EXCEPT !.object.owner = IF task.object.there THEN d ELSE @,
                                            !.at[c] = "start", !.at[d] = "applied",
                                            !.has = (@ \ {c}) \cup {d}], d) /\ TNoFault
       \/ TFault /\ task' = task

ReleaseEnds ==
    /\ \A c \in Claimant : task.at[c] \in {"applied", "refused"}
    /\ task' = [task EXCEPT !.pc = "ok"] /\ TNoFault

OwnershipStep ==
    /\ task.kind = "ownership" /\ task.pc = "run"
    /\ \/ ReleaseEnds
       \/ \E c \in Claimant : MapKind(c) \/ CheckOwner(c) \/ ApplyObject(c) \/ DeleteObject(c)
                              \/ \E d \in Claimant : Restamp(c, d)

(* What the releases may find.                                             *)
Unclaimed == [there |-> FALSE, owner |-> Nobody]
Findable == {Unclaimed} \cup [there : {TRUE}, owner : Claimant \cup {Nobody}]

OwnershipSpec ==
    /\ \E object \in Findable, served \in BOOLEAN, take \in [Claimant -> BOOLEAN] :
         task = OwnershipTask(object, served, take)
    /\ tfaults = MaxTaskFaults /\ [][OwnershipStep]_taskVars

-----------------------------------------------------------------------------
(* checkOwnership and the stamp: no release writes to an object stamped by *)
(* another one, through retries, renames and uninstalls, unless it was     *)
(* told to take it, its read failed, or the object changed hands after its *)
(* check (the check and the write are two calls); and the annotation names *)
(* a release whose record lists the object.                                *)
OwnershipNeedsConsent ==
    task.kind = "ownership" =>
        /\ \A p \in task.taken : task.take[p[1]] \/ p[1] \in task.blind \cup task.raced
        /\ task.object.there /\ task.object.owner # Nobody => task.object.owner \in task.has

(* "is owned by release ...; pass --take-ownership to claim it"            *)
(* (client.go:1320): an object of another release is taken only with that  *)
(* flag.  It is taken without it though every call succeeds: of two        *)
(* applies whose checks both came before the writes, the later one takes   *)
(* the object, as the field manager of both is "keramos".                  *)
TakenOnlyIfAsked ==
    task.kind = "ownership" /\ tfaults = MaxTaskFaults => \A p \in task.taken : task.take[p[1]]
=============================================================================
