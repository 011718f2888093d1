-------------------------- MODULE HistoryCommands ---------------------------
(***************************************************************************)
(* keramos rename and keramos prune (internal/cli/rename_prune.go).  Both  *)
(* work from a history they read first.                                    *)
(***************************************************************************)
EXTENDS ReleaseWorld

CONSTANTS From, To,        \* the old and the new name
          Pruned, Keep     \* the release to prune, --keep

ASSUME HistoryAssumption ==
    {From, To, Pruned} \subseteq ReleaseName /\ From # To /\ Keep \in Nat \ {0}

(* The record a loop over a history is at: the first one, or the last one, *)
(* of those that are left.                                                 *)
Oldest(h) == {r \in h : \A s \in h : r.rev <= s.rev}
NewestOf(h) == {r \in h : \A s \in h : s.rev <= r.rev}

-----------------------------------------------------------------------------
(* rename.                                                                 *)

(* todo: the records still to copy or to delete; copied: those copied.     *)
RenameJob(keepOld) == [cmd |-> "rename", pc |-> "begin", keepOld |-> keepOld, read |-> {},
                       todo |-> {}, copied |-> {}, had |-> hist[To]]

(* The new name must be free (an error of that read counts as free), the   *)
(* old one must have a history.                                            *)
RenameBegin ==
    /\ job.pc = "begin" /\ UNCHANGED <<world, others>>
    /\ \/ /\ hist[From] # {} /\ IF hist[To] = {} THEN NoFault ELSE WFault
          /\ job' = [job EXCEPT !.pc = "copy", !.read = hist[From], !.todo = hist[From]]
       \/ /\ hist[To] # {} \/ hist[From] = {}
          /\ NoFault /\ job' = [job EXCEPT !.pc = "refused"]
       \/ WFault /\ job' = [job EXCEPT !.pc = "refused"]

RenameCopy ==
    /\ job.pc = "copy" /\ UNCHANGED others
    /\ \/ /\ job.todo = {} /\ job' = [job EXCEPT !.pc = "stamp"]
          /\ UNCHANGED world /\ NoFault
       \/ \E r \in Oldest(job.todo) :
             \/ /\ WCreateOk(To, r)
                /\ job' = [job EXCEPT !.todo = @ \ {r}, !.copied = @ \cup {r}]
             \/ /\ WCreateFails(To, r)
                /\ job' = [job EXCEPT !.pc = "uncopy", !.todo = job.copied]

(* Delete what was copied; an error leaves the copy behind.                *)
RenameUncopy ==
    /\ job.pc = "uncopy" /\ UNCHANGED others
    /\ \/ /\ job.todo = {} /\ job' = [job EXCEPT !.pc = "failed"]
          /\ UNCHANGED world /\ NoFault
       \/ \E r \in Oldest(job.todo) :
             /\ WDeleteOk(To, r.rev) \/ WDeleteFails(To, r.rev)
             /\ job' = [job EXCEPT !.todo = @ \ {r}]

(* RestampOwnership of the newest manifest's objects; a failure ends the   *)
(* command with both names in the store.                                   *)
RenameStamp ==
    /\ job.pc = "stamp" /\ UNCHANGED <<hist, live, others>>
    /\ \/ /\ owner' = [owner EXCEPT ![From] = To] /\ NoFault
          /\ job' = IF job.keepOld THEN [job EXCEPT !.pc = "ok"]
                    ELSE [job EXCEPT !.pc = "delete", !.todo = job.read]
       \/ /\ WFault /\ owner' \in {owner, [owner EXCEPT ![From] = To]}
          /\ job' = [job EXCEPT !.pc = "failed"]

RenameDelete ==
    /\ job.pc = "delete" /\ UNCHANGED others
    /\ \/ /\ job.todo = {} /\ job' = [job EXCEPT !.pc = "ok"]
          /\ UNCHANGED world /\ NoFault
       \/ \E r \in Oldest(job.todo) :
             \/ WDeleteOk(From, r.rev) /\ job' = [job EXCEPT !.todo = @ \ {r}]
             \/ WDeleteFails(From, r.rev) /\ job' = [job EXCEPT !.pc = "failed"]

RenameStep == /\ job.cmd = "rename"
              /\ RenameBegin \/ RenameCopy \/ RenameUncopy \/ RenameStamp \/ RenameDelete

RenameSpec == /\ WorldInit /\ \E keepOld \in BOOLEAN : job = RenameJob(keepOld)
              /\ [][RenameStep \/ OthersStep]_worldVars

-----------------------------------------------------------------------------
(* prune.                                                                  *)

PruneJob == [cmd |-> "prune", pc |-> "begin", todo |-> {}, read |-> {}]

(* Mutant: only the newest records are kept.                               *)
VictimsByAge(h) == {r \in h : Cardinality({s \in h : s.rev > r.rev}) >= Keep}
(* All but the newest Keep and the newest deployed one.                    *)
Victims(h) ==
    LET deployed == {r.rev : r \in {s \in h : s.status = "deployed"}}
        spared == IF deployed = {} THEN 0 ELSE Max(deployed)
    IN {r \in h : r.rev # spared /\ Cardinality({s \in h : s.rev > r.rev}) >= Keep}

PruneBegin ==
    /\ job.pc = "begin" /\ UNCHANGED <<world, others>>
    /\ \/ /\ NoFault
          /\ job' = [job EXCEPT !.pc = "delete", !.read = hist[Pruned],
                                !.todo = Victims(hist[Pruned])]
       \/ WFault /\ job' = [job EXCEPT !.pc = "failed"]

PruneDelete ==
    /\ job.pc = "delete" /\ UNCHANGED others
    /\ \/ /\ job.todo = {} /\ job' = [job EXCEPT !.pc = "ok"]
          /\ UNCHANGED world /\ NoFault
       \/ \E r \in NewestOf(job.todo) :
             \/ WDeleteOk(Pruned, r.rev) /\ job' = [job EXCEPT !.todo = @ \ {r}]
             \/ WDeleteFails(Pruned, r.rev) /\ job' = [job EXCEPT !.pc = "failed"]

PruneStep == job.cmd = "prune" /\ (PruneBegin \/ PruneDelete)

PruneSpec == WorldInit /\ job = PruneJob /\ [][PruneStep \/ OthersStep]_worldVars

-----------------------------------------------------------------------------
Keys(h) == {<<r.rev, r.content>> : r \in h}

(* Wherever a rename fails, or its process ends, every revision it read is *)
(* still stored under one of the two names, and the newest of them under   *)
(* the name the objects carry, so that an upgrade or an uninstall can be   *)
(* run; what the new name had is still there; a rename that succeeds has   *)
(* moved all it read.  Upgrades of the old name by others in between are   *)
(* not lost either.                                                        *)
RenameLosesNothing ==
    job.cmd = "rename" =>
        /\ Keys(job.read) \subseteq Keys(hist[From]) \cup Keys(hist[To])
        /\ Keys(NewestOf(job.read)) \subseteq Keys(hist[owner[From]])
        /\ Keys(job.had) \subseteq Keys(hist[To])
        /\ job.pc = "ok" => Keys(job.read) \subseteq Keys(hist[To])
        /\ job.pc = "ok" /\ ~job.keepOld => Keys(job.read) \cap Keys(hist[From]) = {}

(* Upgrades by others while prune deletes from the list it has read do not *)
(* make it delete a deployed revision, or one of the Keep newest.          *)
PruneSparesDeployed ==
    [][job.cmd = "prune" =>
          \A r \in hist[Pruned] :
             r.rev \notin {s.rev : s \in hist'[Pruned]} =>
                 r.status # "deployed" /\ Cardinality({s \in hist[Pruned] : s.rev > r.rev}) >= Keep
      ]_worldVars
=============================================================================
