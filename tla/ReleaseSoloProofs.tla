------------------------- MODULE ReleaseSoloProofs --------------------------
(***************************************************************************)
(* What an operation promises when it has the release to itself, for every *)
(* sequence of requests, every chart, and whatever calls fail and whenever *)
(* the client crashes.                                                     *)
(*                                                                         *)
(* The invariant SoloInv says of each program counter what the operation   *)
(* has claimed in the store (Placed), how far its walks over the cluster   *)
(* have come (ClusterAt), how far those over the history (HistoryAt), and  *)
(* of a client at rest what its last operation has promised (Promised).    *)
(* The proof has one lemma for each function that says where an operation  *)
(* goes next (Arrivals: the state is sane if the world is ready for it)    *)
(* and one for each action (the step makes the world ready).               *)
(***************************************************************************)
EXTENDS ReleaseOpsProps, ReleaseLogProofs, FiniteSetTheorems, FunctionTheorems,
        NaturalsInduction, WellFoundedInduction

(* One client at a time.                                                   *)
Solo == \A c, d \in Client : c = d

(* A request to install without looking whether there is a release: what   *)
(* an upgrade --install asks for is not one.                               *)
BareInstalls == \E q \in Requests : q.kind = "install"

(* What the newest record says can be relied upon.                         *)
Sound == StoreReliable /\ ~BareInstalls

-----------------------------------------------------------------------------
(* The invariant: what is true of the store and the cluster at each point  *)
(* of an operation.                                                        *)

InPlace(ch) == \A x \in Manifest[ch] : cluster[x] = ch
AllGone(S) == \A x \in S : cluster[x] = Absent

UndoPoints == {"undodelete", "undoapply", "undofailed", "undoprev"}
Forward == PC \ ({"idle", "fail", "reapply", "cleanup"} \cup UndoPoints)
UninstallPoints == {"mark", "delete", "gone", "postdelete", "purgeable", "purge", "keep"}

(* The points at which an operation has its revision, and those at which   *)
(* it has not settled it yet.                                              *)
Claimed == PC \ {"idle", "read", "target", "create", "purge"}
Unsettled == Claimed \ {"mark", "history", "supersede", "prunable", "prune"}

(* The points of each kind of operation.                                   *)
KindAt(s) ==
    /\ s.pc \in UninstallPoints => s.req.kind = "uninstall"
    /\ s.pc \notin UninstallPoints \cup {"idle", "read", "pre", "fail"} => s.req.kind # "uninstall"
    /\ s.pc \in {"dropped", "reapply"} \cup UndoPoints => s.req.kind = "upgrade"
    /\ s.pc \in {"target", "history", "supersede"} => s.req.kind \in {"upgrade", "rollback"}
    /\ s.pc \in {"prunable", "prune"} => s.req.max > 0
    /\ s.pc \in Forward => s.cause = "none"

(* The revision an operation is about to claim is the next one.            *)
AboutToClaim(s) ==
    /\ s.rel.status \in Pending
    /\ s.req.kind = "install" /\ ~BareInstalls => Stored = {}
    /\ s.req.kind # "install" => IsLast(s.cur.rev) /\ s.rel.rev = s.cur.rev + 1

(* The revision it has claimed is the newest, and stays so.                *)
Claims(s) ==
    /\ s.req.kind = "install" /\ ~BareInstalls => IsLast(s.rel.rev)
    /\ s.req.kind # "install" => IsLast(s.rel.rev)
    /\ s.req.kind \in {"upgrade", "rollback"} => s.rel.rev = s.cur.rev + 1
    /\ s.req.kind = "uninstall" => store[s.rel.rev].chart = s.rel.chart

Placed(s) ==
    /\ KindAt(s)
    /\ s.pc = "target" => IsLast(s.cur.rev)
    /\ s.pc = "create" => AboutToClaim(s)
    /\ s.pc = "mark" => s.rel.status = "uninstalling"
    /\ s.pc \in Claimed => Claims(s)
    /\ s.pc \in Unsettled /\ Sound => store[s.rel.rev].status # "deployed"

(* What the walks over the cluster have done so far.                       *)
Doomed(ch) == WithoutCRDs(Deletable(ch))
Undone(s) == s.sec \/ AllGone(Orphans(s.rel.chart, s.cur.chart))

ClusterAt(s) ==
    /\ s.pc = "apply" => \A x \in Manifest[s.rel.chart] \ s.todo : cluster[x] = s.rel.chart
    /\ s.pc \in {"jobs", "wait", "post", "dropped", "deploy"} => InPlace(s.rel.chart)
    /\ s.pc = "dropped" => s.todo \cap Manifest[s.rel.chart] = {}
    /\ s.pc = "delete" => AllGone(Doomed(s.rel.chart) \ s.todo)
    /\ s.pc \in {"gone", "postdelete", "purgeable", "purge", "keep"} => AllGone(Doomed(s.rel.chart))
    /\ s.pc = "cleanup" /\ s.req.kind = "install" =>
          s.sec \/ AllGone(Deletable(s.rel.chart) \ s.todo)
    /\ s.pc = "undodelete" => s.sec \/ AllGone(Orphans(s.rel.chart, s.cur.chart) \ s.todo)
    /\ s.pc = "undoapply" => /\ Undone(s) /\ s.todo \subseteq Manifest[s.cur.chart]
                             /\ \A x \in Manifest[s.cur.chart] \ s.todo : cluster[x] = s.cur.chart
    /\ s.pc \in {"undofailed", "undoprev"} => Undone(s) /\ (s.sec \/ InPlace(s.cur.chart))

(* What the walks over the history have done so far: the records still to  *)
(* visit, and those that are to stay.                                      *)
Revs(copies) == {x.rev : x \in copies}
Standing(s) == Stored \ Revs(s.copies)
Replaces(s) == s.req.kind \in {"upgrade", "rollback"} /\ ~s.sec

Prunes(s) ==
    /\ s.copies # {} => \E r \in Standing(s) : \A x \in s.copies : x.rev < r
    /\ Replaces(s) => /\ s.rel.rev \in Standing(s)
                      /\ Cardinality(Standing(s)) <= s.req.max
                      /\ \A x \in s.copies, r \in Standing(s) : x.rev < r

Purges(s) ==
    /\ \A x, y \in s.copies : x.rev = y.rev => x = y
    /\ \A x \in s.copies : x.rev <= s.rel.rev
    /\ s.copies # {} => /\ s.rel.rev \in Revs(s.copies) /\ IsLast(s.rel.rev)
                        /\ store[s.rel.rev].chart = s.rel.chart
                        /\ (Sound => store[s.rel.rev].status # "deployed")
    /\ Sound => Stored \subseteq Revs(s.copies)

HistoryAt(s) ==
    /\ s.pc = "undoprev" => s.sec \/ store[s.rel.rev].status = "failed"
    /\ s.pc \in {"history", "supersede"} => store[s.rel.rev].status = "deployed"
    /\ s.pc = "supersede" => /\ s.rel.rev \notin Revs(s.copies)
                             /\ s.sec \/ DeployedRevs \subseteq {s.rel.rev} \cup Revs(s.copies)
    /\ s.pc \in {"prunable", "prune"} /\ Replaces(s) => DeployedRevs = {s.rel.rev}
    /\ s.pc = "prune" => Prunes(s)
    /\ s.pc = "purge" => Purges(s)

(* What an operation that has returned has promised.                       *)
Promised(s) ==
    /\ s.out = "ok" /\ Replaces(s) => DeployedRevs = {s.rel.rev}
    /\ s.out = "ok" /\ Replaces(s) /\ s.req.max > 0 => Cardinality(Stored) <= s.req.max
    /\ /\ s.out = "error" /\ s.req.kind = "upgrade" /\ s.req.atomic
       /\ s.cause \notin {"none", "crds", "force"}
       => /\ InPlace(s.cur.chart) /\ AllGone(Orphans(s.rel.chart, s.cur.chart))
          /\ store[s.cur.rev].status = "deployed" /\ store[s.rel.rev].status = "failed"
    /\ /\ s.out = "error" /\ s.req.kind = "install" /\ (s.req.atomic \/ s.req.cleanup)
       /\ s.cause \notin {"none", "pre", "crds"}
       => AllGone(Deletable(s.rel.chart))

Sane(s) == Placed(s) /\ ClusterAt(s) /\ HistoryAt(s) /\ (s.pc = "idle" => Promised(s))

LastIsLive ==
    Sound => \A r \in Rev : IsLast(r) /\ store[r].status = "deployed" => InPlace(store[r].chart)

SoloInv == LastIsLive /\ \A c \in Client : Sane(run[c])

-----------------------------------------------------------------------------
(* What the functions that say where an operation goes next leave alone.   *)

Same(s, t) == /\ t.req = s.req /\ t.cur = s.cur /\ t.rel = s.rel
              /\ t.sec = s.sec /\ t.cause = s.cause

(* A move resets the walks and nothing else.                               *)
LEMMA ToFields ==
  ASSUME NEW s \in RunState, NEW pc \in PC
  PROVE  /\ To(s, pc) \in RunState
         /\ To(s, pc).pc = pc /\ Same(s, To(s, pc))
         /\ To(s, pc).todo = {} /\ To(s, pc).copies = {}
<1> DEFINE s1 == [s EXCEPT !.pc = pc]
           s2 == [s1 EXCEPT !.todo = {}]
           s3 == [s2 EXCEPT !.copies = {}]
           s4 == [s3 EXCEPT !.tries = 0]
<1>1. s1 \in RunState /\ s1.pc = pc /\ Same(s, s1)
  BY DEF RunState, Same
<1> HIDE DEF s1
<1>2. s2 \in RunState /\ s2.pc = pc /\ Same(s1, s2) /\ s2.todo = {}
  BY <1>1 DEF RunState, Same
<1> HIDE DEF s2
<1>3. s3 \in RunState /\ s3.pc = pc /\ Same(s2, s3) /\ s3.todo = {} /\ s3.copies = {}
  BY <1>2 DEF RunState, Same
<1> HIDE DEF s3
<1>4. s4 \in RunState /\ s4.pc = pc /\ Same(s3, s4) /\ s4.todo = {} /\ s4.copies = {}
  BY <1>3 DEF RunState, Same
<1>5. To(s, pc) = s4
  BY Zenon DEF To, s1, s2, s3, s4
<1> HIDE DEF s4
<1>6. Same(s, s4)
  BY <1>1, <1>2, <1>3, <1>4 DEF Same
<1> QED BY <1>4, <1>5, <1>6

(* A walk over resources is a move with something to do.                   *)
LEMMA WalkFields ==
  ASSUME NEW s \in RunState, NEW pc \in PC, NEW todo
  PROVE  /\ Walk(s, pc, todo).pc = pc /\ Same(s, Walk(s, pc, todo))
         /\ Walk(s, pc, todo).todo = todo /\ Walk(s, pc, todo).copies = {}
<1> DEFINE t == To(s, pc)
           w == [t EXCEPT !.todo = todo]
<1>1. t \in RunState /\ t.pc = pc /\ Same(s, t) /\ t.copies = {}
  BY ToFields
<1> HIDE DEF t
<1>2. w.pc = pc /\ Same(t, w) /\ w.todo = todo /\ w.copies = {}
  BY <1>1 DEF RunState, Same
<1> HIDE DEF w
<1>3. Same(s, w)
  BY <1>1, <1>2 DEF Same
<1> QED BY <1>2, <1>3 DEF Walk, w, t

(* A walk over records likewise.                                           *)
LEMMA VisitFields ==
  ASSUME NEW s \in RunState, NEW pc \in PC, NEW copies \in SUBSET Release
  PROVE  /\ Visit(s, pc, copies) \in RunState
         /\ Visit(s, pc, copies).pc = pc /\ Same(s, Visit(s, pc, copies))
         /\ Visit(s, pc, copies).todo = {} /\ Visit(s, pc, copies).copies = copies
<1> DEFINE t == To(s, pc)
           w == [t EXCEPT !.copies = copies]
<1>1. t \in RunState /\ t.pc = pc /\ Same(s, t) /\ t.todo = {}
  BY ToFields
<1> HIDE DEF t
<1>2. w \in RunState /\ w.pc = pc /\ Same(t, w) /\ w.todo = {} /\ w.copies = copies
  BY <1>1 DEF RunState, Same
<1> HIDE DEF w
<1>3. Same(s, w)
  BY <1>1, <1>2 DEF Same
<1> QED BY <1>2, <1>3 DEF Visit, w, t

(* A warning is a warning and nothing else.                                *)
LEMMA WarnFields ==
  ASSUME NEW s \in RunState
  PROVE  /\ Warn(s) \in RunState /\ Warn(s).sec /\ Warn(s).pc = s.pc
         /\ Warn(s).req = s.req /\ Warn(s).cur = s.cur /\ Warn(s).rel = s.rel
         /\ Warn(s).cause = s.cause /\ Warn(s).todo = s.todo /\ Warn(s).copies = s.copies
BY DEF Warn, RunState

(* The end of an operation keeps what it was about.                        *)
LEMMA FinishFields ==
  ASSUME NEW s \in RunState, NEW out \in Outcome
  PROVE  /\ Finish(s, out).pc = "idle" /\ Same(s, Finish(s, out))
         /\ Finish(s, out).out = out
<1> DEFINE t == To(s, "idle")
           u == [t EXCEPT !.snap = {}]
           v == [u EXCEPT !.out = out]
<1>1. t \in RunState /\ t.pc = "idle" /\ Same(s, t)
  BY ToFields DEF PC
<1> HIDE DEF t
<1>2. u \in RunState /\ u.pc = "idle" /\ Same(t, u)
  BY <1>1 DEF RunState, Same
<1> HIDE DEF u
<1>3. v.pc = "idle" /\ Same(u, v) /\ v.out = out
  BY <1>2 DEF RunState, Same
<1>4. Finish(s, out) = v
  BY Zenon DEF Finish, t, u, v
<1> HIDE DEF v
<1>5. Same(s, v)
  BY <1>1, <1>2, <1>3 DEF Same
<1> QED BY <1>3, <1>4, <1>5

(* Success is reported as such, failure as complete or incomplete.         *)
LEMMA EndFields ==
  ASSUME NEW s \in RunState
  PROVE  /\ Succeed(s).pc = "idle" /\ Same(s, Succeed(s)) /\ Succeed(s).out = "ok"
         /\ GiveUp(s).pc = "idle" /\ Same(s, GiveUp(s))
         /\ GiveUp(s).out = IF s.sec THEN "incomplete" ELSE "error"
BY FinishFields DEF Succeed, GiveUp, Outcome

(* Turning to markFailed records the cause.                                *)
LEMMA FailFields ==
  ASSUME NEW s \in RunState, NEW cause \in Cause
  PROVE  /\ Fail(s, cause).pc = "fail" /\ Fail(s, cause).req = s.req
         /\ Fail(s, cause).cur = s.cur /\ Fail(s, cause).rel = s.rel
         /\ Fail(s, cause).sec = s.sec
<1> DEFINE t == To(s, "fail")
           w == [t EXCEPT !.cause = cause]
<1>1. t \in RunState /\ t.pc = "fail" /\ Same(s, t)
  BY ToFields DEF PC
<1> HIDE DEF t
<1>2. w.pc = "fail" /\ w.req = t.req /\ w.cur = t.cur /\ w.rel = t.rel /\ w.sec = t.sec
  BY <1>1 DEF RunState
<1> HIDE DEF w
<1>3. w.req = s.req /\ w.cur = s.cur /\ w.rel = s.rel /\ w.sec = s.sec
  BY <1>1, <1>2 DEF Same
<1> QED BY <1>2, <1>3 DEF Fail, w, t

(* A resource crossed off a walk, an attempt counted, a record crossed off.*)
LEMMA InPlaceFields ==
  ASSUME NEW s \in RunState
  PROVE  /\ \A todo : LET w == [s EXCEPT !.todo = todo] IN
               w.pc = s.pc /\ Same(s, w) /\ w.todo = todo /\ w.copies = s.copies
         /\ \A tries : LET w == [s EXCEPT !.tries = tries] IN
               w.pc = s.pc /\ Same(s, w) /\ w.todo = s.todo /\ w.copies = s.copies
         /\ \A copies \in SUBSET Release : LET w == [s EXCEPT !.copies = copies] IN
               /\ w \in RunState /\ w.pc = s.pc /\ Same(s, w)
               /\ w.todo = s.todo /\ w.copies = copies
BY DEF RunState, Same

(* A status written into the record in memory.                             *)
LEMMA StatusFields ==
  ASSUME NEW s \in Working, NEW status \in Status
  PROVE  LET w == [s EXCEPT !.rel.status = status] IN
         /\ w \in RunState /\ w.pc = s.pc /\ w.req = s.req /\ w.cur = s.cur
         /\ w.sec = s.sec /\ w.cause = s.cause /\ w.todo = s.todo /\ w.copies = s.copies
         /\ w.rel \in Release
         /\ w.rel.rev = s.rel.rev /\ w.rel.chart = s.rel.chart /\ w.rel.status = status
<1> DEFINE rel == [s.rel EXCEPT !.status = status]
           w == [s EXCEPT !.rel = rel]
<1>1. s \in RunState /\ s.rel \in Release
  BY DEF Working, Good, Holding
<1>2. rel \in Release /\ rel.rev = s.rel.rev /\ rel.chart = s.rel.chart /\ rel.status = status
  BY <1>1 DEF Release
<1> HIDE DEF rel
<1>3. /\ w \in RunState /\ w.pc = s.pc /\ w.req = s.req /\ w.cur = s.cur
      /\ w.sec = s.sec /\ w.cause = s.cause /\ w.todo = s.todo /\ w.copies = s.copies
      /\ w.rel = rel
  BY <1>1, <1>2 DEF RunState
<1>4. [s EXCEPT !.rel.status = status] = w
  BY <1>1 DEF rel, RunState
<1> HIDE DEF w
<1> QED BY <1>2, <1>3, <1>4

-----------------------------------------------------------------------------
(* Moves that leave the store and the cluster alone.                       *)

Calm == UNCHANGED <<store, cluster>> /\ (StoreReliable' => StoreReliable)

(* The store once it has failed is never again one that has not.           *)
LEMMA FaultsStay ==
  ASSUME StoreTypeOK
  PROVE  /\ UNCHANGED storeFaults => (StoreReliable' <=> StoreReliable)
         /\ StoreFault => ~StoreReliable'
BY StoreFaultsAssumption DEF StoreTypeOK, StoreFault, StoreReliable

(* What is true of the store and the cluster stays true.                   *)
LEMMA CalmKeeps ==
  ASSUME Calm, NEW s
  PROVE  /\ Sane(s) => Sane(s)'
         /\ LastIsLive => LastIsLive'
<1>1. store' = store /\ cluster' = cluster /\ (Sound' => Sound)
  BY DEF Calm, Sound
<1>2. Stored' = Stored /\ DeployedRevs' = DeployedRevs /\ \A r : IsLast(r)' = IsLast(r)
  BY <1>1 DEF Stored, DeployedRevs, IsLast
<1>3. LastIsLive => LastIsLive'
  BY <1>1, <1>2 DEF LastIsLive, InPlace
<1>4. Placed(s) => Placed(s)'
  BY <1>1, <1>2 DEF Placed, AboutToClaim, Claims
<1>5. ClusterAt(s) => ClusterAt(s)'
  BY <1>1 DEF ClusterAt, InPlace, AllGone, Undone
<1>6. Standing(s)' = Standing(s)
  BY <1>2 DEF Standing
<1>7. HistoryAt(s) => HistoryAt(s)'
  BY <1>1, <1>2, <1>6 DEF HistoryAt, Prunes, Purges
<1>8. Promised(s) => Promised(s)'
  BY <1>1, <1>2 DEF Promised, InPlace, AllGone
<1> QED BY <1>3, <1>4, <1>5, <1>7, <1>8 DEF Sane

(* A lone client that moves to a sane state keeps the invariant.           *)
LEMMA Moved ==
  ASSUME Solo, TypeOK, NEW c \in Client, NEW t, run' = [run EXCEPT ![c] = t],
         Sane(t)', LastIsLive'
  PROVE  SoloInv'
<1>1. run'[c] = t
  BY DEF TypeOK
<1>2. \A d \in Client : d = c
  BY DEF Solo
<1>3. Placed(run[c])'
  BY <1>1 DEF Sane, Placed, KindAt, AboutToClaim, Claims, IsLast
<1>4. ClusterAt(run[c])'
  BY <1>1 DEF Sane, ClusterAt, Undone, InPlace, AllGone, Doomed, WithoutCRDs, Orphans, Deletable
<1>5. HistoryAt(run[c])'
  BY <1>1 DEF Sane, HistoryAt, Replaces, Prunes, Purges, Standing, IsLast, Revs
<1>6. run'[c].pc = "idle" => Promised(run[c])'
  BY <1>1 DEF Sane, Promised, Replaces, InPlace, AllGone, Orphans, Deletable
<1>7. Sane(run[c])'
  BY <1>3, <1>4, <1>5, <1>6 DEF Sane
<1> QED BY <1>2, <1>7 DEF SoloInv

(* A quiet move to a state that is sane where the store and the cluster    *)
(* stand.                                                                  *)
LEMMA QuietMove ==
  ASSUME Solo, TypeOK, SoloInv, Calm, NEW c \in Client, NEW t,
         run' = [run EXCEPT ![c] = t], Sane(t)
  PROVE  SoloInv'
<1>1. Sane(t)' /\ LastIsLive'
  BY CalmKeeps DEF SoloInv
<1> QED BY <1>1, Moved

-----------------------------------------------------------------------------
(* Where an operation may go next, wherever the store and the cluster      *)
(* stand when it gets there.                                               *)

(* The revision is the operation's own, and not settled.                   *)
Owns(s) == Claims(s) /\ (Sound => store[s.rel.rev].status # "deployed")

(* What a state owns depends on its request and its records.               *)
LEMMA OwnsSame ==
  \A s, t : /\ t.req = s.req /\ t.cur = s.cur /\ t.rel.rev = s.rel.rev
            /\ t.rel.chart = s.rel.chart
            => /\ Claims(t) <=> Claims(s)
               /\ Owns(t) <=> Owns(s)
BY DEF Owns, Claims

(* At a point that asks nothing of the cluster and the history.            *)
LEMMA PlainPoint ==
  \A t : /\ t.pc \in {"pre", "crds", "snapshot", "force", "predelete"}
         /\ t.cause = "none" /\ Owns(t)
         /\ t.pc # "pre" => t.req.kind # "uninstall"
         => Sane(t)
BY DEF Sane, Placed, KindAt, Owns, ClusterAt, HistoryAt, Claimed, Unsettled, Forward,
   UninstallPoints, UndoPoints, PC

(* Turning to markFailed is always possible.                               *)
LEMMA FailSane ==
  \A s \in RunState, cause \in Cause : Owns(s) => Sane(Fail(s, cause))
<1> SUFFICES ASSUME NEW s \in RunState, NEW cause \in Cause, Owns(s)
             PROVE  Sane(Fail(s, cause))
  OBVIOUS
<1> DEFINE t == Fail(s, cause)
<1>1. t.pc = "fail" /\ t.req = s.req /\ t.cur = s.cur /\ t.rel = s.rel
  BY FailFields
<1>2. Owns(t)
  BY <1>1, OwnsSame
<1> HIDE DEF t
<1>3. Sane(t)
  BY <1>1, <1>2 DEF Sane, Placed, KindAt, Owns, ClusterAt, HistoryAt, Claimed, Unsettled,
     Forward, UninstallPoints, UndoPoints
<1> QED BY <1>3 DEF t

(* At rest only the promise counts.                                        *)
LEMMA IdleSane ==
  \A t : t.pc = "idle" /\ Promised(t) => Sane(t)
BY DEF Sane, Placed, KindAt, ClusterAt, HistoryAt, Claimed, Unsettled, Forward,
   UninstallPoints, UndoPoints

(* An operation may give up when it has not failed on the way (it got no   *)
(* further than its reads, or could not write the final status), or when   *)
(* it is none that has to put anything back.                               *)
LEMMA GiveUpSane ==
  \A s \in RunState :
     s.cause = "none" \/ s.req.kind \notin {"upgrade", "install"} => Sane(GiveUp(s))
<1> SUFFICES ASSUME NEW s \in RunState, s.cause = "none" \/ s.req.kind \notin {"upgrade", "install"}
             PROVE  Sane(GiveUp(s))
  OBVIOUS
<1> DEFINE t == GiveUp(s)
<1>1. t.pc = "idle" /\ Same(s, t) /\ t.out # "ok"
  BY EndFields
<1> HIDE DEF t
<1>2. Promised(t)
  BY <1>1 DEF Same, Promised
<1> QED BY <1>1, <1>2, IdleSane DEF t

(* It may report success when its revision replaces all others.            *)
LEMMA SucceedSane ==
  \A s \in RunState :
     (Replaces(s) => /\ DeployedRevs = {s.rel.rev}
                     /\ s.req.max > 0 => Cardinality(Stored) <= s.req.max)
     => Sane(Succeed(s))
<1> SUFFICES ASSUME NEW s \in RunState,
                    Replaces(s) => /\ DeployedRevs = {s.rel.rev}
                                   /\ s.req.max > 0 => Cardinality(Stored) <= s.req.max
             PROVE  Sane(Succeed(s))
  OBVIOUS
<1> DEFINE t == Succeed(s)
<1>1. t.pc = "idle" /\ Same(s, t) /\ t.out = "ok"
  BY EndFields
<1> HIDE DEF t
<1>2. Promised(t)
  BY <1>1 DEF Same, Promised, Replaces
<1> QED BY <1>1, <1>2, IdleSane DEF t

(* The history is pruned, if at all, when the revision replaces all others.*)
LEMMA AfterSupersedeSane ==
  \A s \in Working :
     /\ Claims(s) /\ s.cause = "none" /\ s.req.kind # "uninstall"
     /\ Replaces(s) => DeployedRevs = {s.rel.rev}
     => Sane(AfterSupersede(s))
<1> SUFFICES ASSUME NEW s \in Working, Claims(s), s.cause = "none", s.req.kind # "uninstall",
                    Replaces(s) => DeployedRevs = {s.rel.rev}
             PROVE  Sane(AfterSupersede(s))
  OBVIOUS
<1>1. s \in RunState
  BY DEF Working, Good
<1>2. CASE s.req.max > 0
  <2> DEFINE t == To(s, "prunable")
  <2>1. t.pc = "prunable" /\ Same(s, t)
    BY <1>1, ToFields DEF PC
  <2> HIDE DEF t
  <2>2. Claims(t)
    BY <2>1, OwnsSame DEF Same
  <2>3. Replaces(t) => DeployedRevs = {t.rel.rev}
    BY <2>1 DEF Same, Replaces
  <2>4. Sane(t)
    BY <1>2, <2>1, <2>2, <2>3 DEF Same, Sane, Placed, KindAt, ClusterAt, HistoryAt, Claimed,
       Unsettled, Forward, UninstallPoints, UndoPoints, PC
  <2> QED BY <1>2, <2>4 DEF AfterSupersede, t
<1>3. CASE ~(s.req.max > 0)
  BY <1>1, <1>3, SucceedSane DEF AfterSupersede
<1> QED BY <1>2, <1>3

(* Once the final status is written.                                       *)
LEMMA AfterDeploySane ==
  \A s \in Working :
     /\ Claims(s) /\ s.cause = "none" /\ s.req.kind # "uninstall"
     /\ store[s.rel.rev].status = "deployed"
     => Sane(AfterDeploy(s))
<1> SUFFICES ASSUME NEW s \in Working, Claims(s), s.cause = "none", s.req.kind # "uninstall",
                    store[s.rel.rev].status = "deployed"
             PROVE  Sane(AfterDeploy(s))
  OBVIOUS
<1>1. s \in RunState /\ s.req.kind \in Kind
  BY WorkingHolds DEF Working, Good, Request
<1>2. CASE s.req.kind = "install"
  BY <1>2, AfterSupersedeSane DEF AfterDeploy, Replaces
<1>3. CASE s.req.kind # "install"
  <2> DEFINE t == To(s, "history")
  <2>1. t.pc = "history" /\ Same(s, t)
    BY <1>1, ToFields DEF PC
  <2> HIDE DEF t
  <2>2. Claims(t)
    BY <2>1, OwnsSame DEF Same
  <2>3. Sane(t)
    BY <1>1, <1>3, <2>1, <2>2 DEF Same, Sane, Placed, KindAt, ClusterAt, HistoryAt, Claimed,
       Unsettled, Forward, UninstallPoints, UndoPoints, PC, Kind
  <2> QED BY <1>3, <2>3 DEF AfterDeploy, t
<1> QED BY <1>2, <1>3

(* The step into ApplyManifests, with everything still to do.              *)
LEMMA ToApplySane ==
  \A s \in Working :
     Owns(s) /\ s.cause = "none" /\ s.req.kind # "uninstall" => Sane(ToApply(s))
<1> SUFFICES ASSUME NEW s \in Working, Owns(s), s.cause = "none", s.req.kind # "uninstall"
             PROVE  Sane(ToApply(s))
  OBVIOUS
<1> DEFINE t == ToApply(s)
<1>1. t.pc = "apply" /\ Same(s, t) /\ t.todo = Manifest[s.rel.chart]
  BY WalkFields DEF ToApply, PC, Working, Good
<1> HIDE DEF t
<1>2. Owns(t)
  BY <1>1, OwnsSame DEF Same
<1>3. Sane(t)
  BY <1>1, <1>2 DEF Same, Owns, Sane, Placed, KindAt, ClusterAt, HistoryAt, Claimed,
     Unsettled, Forward, UninstallPoints, UndoPoints, PC
<1> QED BY <1>3 DEF t

(* The step after the snapshot.                                            *)
LEMMA AfterSnapshotSane ==
  \A s \in Working :
     Owns(s) /\ s.cause = "none" /\ s.req.kind # "uninstall" => Sane(AfterSnapshot(s))
<1> SUFFICES ASSUME NEW s \in Working, Owns(s), s.cause = "none", s.req.kind # "uninstall"
             PROVE  Sane(AfterSnapshot(s))
  OBVIOUS
<1> DEFINE t == To(s, "force")
<1>1. t.pc = "force" /\ Same(s, t)
  BY ToFields DEF PC, Working, Good
<1> HIDE DEF t
<1>2. Owns(t)
  BY <1>1, OwnsSame DEF Same
<1>3. Sane(t)
  BY <1>1, <1>2, PlainPoint DEF Same
<1> QED BY <1>3, ToApplySane DEF AfterSnapshot, t

(* The step after the CRDs.                                                *)
LEMMA AfterCRDsSane ==
  \A s \in Working :
     Owns(s) /\ s.cause = "none" /\ s.req.kind # "uninstall" => Sane(AfterCRDs(s))
<1> SUFFICES ASSUME NEW s \in Working, Owns(s), s.cause = "none", s.req.kind # "uninstall"
             PROVE  Sane(AfterCRDs(s))
  OBVIOUS
<1> DEFINE t == To(s, "snapshot")
<1>1. t.pc = "snapshot" /\ Same(s, t)
  BY ToFields DEF PC, Working, Good
<1> HIDE DEF t
<1>2. Owns(t)
  BY <1>1, OwnsSame DEF Same
<1>3. Sane(t)
  BY <1>1, <1>2, PlainPoint DEF Same
<1> QED BY <1>3, ToApplySane, AfterSnapshotSane DEF AfterCRDs, t

(* Once the whole manifest is in place, the operation waits for it, runs   *)
(* its last hooks, and writes the final status.                            *)
LEMMA LiveSane ==
  \A s \in RunState : \A pc \in {"jobs", "wait", "post", "deploy"} :
     /\ Owns(s) /\ s.cause = "none" /\ s.req.kind # "uninstall" /\ InPlace(s.rel.chart)
     => Sane(To(s, pc))
<1> SUFFICES ASSUME NEW s \in RunState, NEW pc \in {"jobs", "wait", "post", "deploy"},
                    Owns(s), s.cause = "none", s.req.kind # "uninstall", InPlace(s.rel.chart)
             PROVE  Sane(To(s, pc))
  OBVIOUS
<1> DEFINE t == To(s, pc)
<1>1. t.pc = pc /\ Same(s, t)
  BY ToFields DEF PC
<1> HIDE DEF t
<1>2. Owns(t)
  BY <1>1, OwnsSame DEF Same
<1>3. Sane(t)
  BY <1>1, <1>2 DEF Same, Owns, Sane, Placed, KindAt, ClusterAt, HistoryAt, Claimed,
     Unsettled, Forward, UninstallPoints, UndoPoints, PC
<1> QED BY <1>3 DEF t

(* The step after ApplyManifests.                                          *)
LEMMA AfterApplySane ==
  \A s \in RunState :
     /\ Owns(s) /\ s.cause = "none" /\ s.req.kind # "uninstall" /\ InPlace(s.rel.chart)
     => Sane(AfterApply(s)) /\ Sane(AfterJobs(s))
BY LiveSane DEF AfterApply, AfterJobs

(* The objects of an uninstalled release are gone.                         *)
LEMMA GoneSane ==
  \A s \in RunState : \A pc \in {"gone", "postdelete", "purgeable", "keep"} :
     /\ Owns(s) /\ s.cause = "none" /\ s.req.kind = "uninstall"
     /\ AllGone(Doomed(s.rel.chart))
     => Sane(To(s, pc))
<1> SUFFICES ASSUME NEW s \in RunState, NEW pc \in {"gone", "postdelete", "purgeable", "keep"},
                    Owns(s), s.cause = "none", s.req.kind = "uninstall",
                    AllGone(Doomed(s.rel.chart))
             PROVE  Sane(To(s, pc))
  OBVIOUS
<1> DEFINE t == To(s, pc)
<1>1. t.pc = pc /\ Same(s, t)
  BY ToFields DEF PC
<1> HIDE DEF t
<1>2. Owns(t)
  BY <1>1, OwnsSame DEF Same
<1>3. Sane(t)
  BY <1>1, <1>2 DEF Same, Owns, Sane, Placed, KindAt, ClusterAt, HistoryAt, Claimed,
     Unsettled, Forward, UninstallPoints, UndoPoints, PC
<1> QED BY <1>3 DEF t

-----------------------------------------------------------------------------
(* The recovery of a failed operation.                                     *)

(* A recovery walk of an operation that is not an install.                 *)
LEMMA RecoveryWalk ==
  \A s \in RunState, pc \in {"reapply", "cleanup"} : \A todo :
     /\ Owns(s) /\ s.req.kind \in {"upgrade", "rollback"}
     /\ pc = "reapply" => s.req.kind = "upgrade"
     => Sane(Walk(s, pc, todo))
<1> SUFFICES ASSUME NEW s \in RunState, NEW pc \in {"reapply", "cleanup"}, NEW todo,
                    Owns(s), s.req.kind \in {"upgrade", "rollback"},
                    pc = "reapply" => s.req.kind = "upgrade"
             PROVE  Sane(Walk(s, pc, todo))
  OBVIOUS
<1> DEFINE t == Walk(s, pc, todo)
<1>1. t.pc = pc /\ Same(s, t)
  BY WalkFields DEF PC
<1> HIDE DEF t
<1>2. Owns(t)
  BY <1>1, OwnsSame DEF Same
<1>3. Sane(t)
  BY <1>1, <1>2 DEF Same, Owns, Sane, Placed, KindAt, ClusterAt, HistoryAt, Claimed,
     Unsettled, Forward, UninstallPoints, UndoPoints
<1> QED BY <1>3 DEF t

(* The walk that cleans up after an install: what it has visited is gone,  *)
(* or it was skipped with a warning.                                       *)
LEMMA CleanupWalk ==
  \A s \in RunState : \A todo :
     /\ Owns(s) /\ s.req.kind = "install"
     /\ s.sec \/ AllGone(Deletable(s.rel.chart) \ todo)
     => Sane(Walk(s, "cleanup", todo))
<1> SUFFICES ASSUME NEW s \in RunState, NEW todo, Owns(s), s.req.kind = "install",
                    s.sec \/ AllGone(Deletable(s.rel.chart) \ todo)
             PROVE  Sane(Walk(s, "cleanup", todo))
  OBVIOUS
<1> DEFINE t == Walk(s, "cleanup", todo)
<1>1. t.pc = "cleanup" /\ Same(s, t) /\ t.todo = todo
  BY WalkFields DEF PC
<1> HIDE DEF t
<1>2. Owns(t)
  BY <1>1, OwnsSame DEF Same
<1>3. Sane(t)
  BY <1>1, <1>2 DEF Same, Owns, Sane, Placed, KindAt, ClusterAt, HistoryAt, Claimed,
     Unsettled, Forward, UninstallPoints, UndoPoints
<1> QED BY <1>3 DEF t

(* The first walk of atomicRollbackUpgrade.                                *)
LEMMA UndoWalk ==
  \A s \in RunState : \A todo :
     /\ Owns(s) /\ s.req.kind = "upgrade"
     /\ s.sec \/ AllGone(Orphans(s.rel.chart, s.cur.chart) \ todo)
     => Sane(Walk(s, "undodelete", todo))
<1> SUFFICES ASSUME NEW s \in RunState, NEW todo, Owns(s), s.req.kind = "upgrade",
                    s.sec \/ AllGone(Orphans(s.rel.chart, s.cur.chart) \ todo)
             PROVE  Sane(Walk(s, "undodelete", todo))
  OBVIOUS
<1> DEFINE t == Walk(s, "undodelete", todo)
<1>1. t.pc = "undodelete" /\ Same(s, t) /\ t.todo = todo
  BY WalkFields DEF PC
<1> HIDE DEF t
<1>2. Owns(t)
  BY <1>1, OwnsSame DEF Same
<1>3. Sane(t)
  BY <1>1, <1>2 DEF Same, Owns, Sane, Placed, KindAt, ClusterAt, HistoryAt, Claimed,
     Unsettled, Forward, UninstallPoints, UndoPoints
<1> QED BY <1>3 DEF t

(* What a failed install has to have removed before it reports.            *)
Reportable(s) ==
    /\ s.req.kind = "install" /\ (s.req.atomic \/ s.req.cleanup)
    /\ s.cause \notin {"none", "pre", "crds"}
    => s.sec \/ AllGone(Deletable(s.rel.chart))

(* After the cleanup: an atomic upgrade is undone, everything else ends.   *)
LEMMA AfterCleanupSane ==
  \A s \in RunState : Owns(s) /\ Reportable(s) => Sane(AfterCleanup(s))
<1> SUFFICES ASSUME NEW s \in RunState, Owns(s), Reportable(s)
             PROVE  Sane(AfterCleanup(s))
  OBVIOUS
<1> DEFINE undoes == s.req.kind = "upgrade" /\ s.req.atomic /\ s.cause \notin {"crds", "force"}
<1>1. CASE undoes
  <2> DEFINE all == Orphans(s.rel.chart, s.cur.chart)
  <2>1. Sane(Walk(s, "undodelete", all))
    BY <1>1, UndoWalk DEF AllGone
  <2>2. Warn(s) \in RunState /\ Warn(s).sec /\ Warn(s).req = s.req /\ Owns(Warn(s))
    BY WarnFields, OwnsSame
  <2>3. Sane(Walk(Warn(s), "undodelete", {}))
    BY <1>1, <2>2, UndoWalk
  <2> QED BY <1>1, <2>1, <2>3 DEF AfterCleanup, WalkIfParsed
<1>2. CASE ~undoes
  <2> DEFINE t == GiveUp(s)
  <2>1. t.pc = "idle" /\ Same(s, t) /\ t.out = IF s.sec THEN "incomplete" ELSE "error"
    BY EndFields
  <2> HIDE DEF t
  <2>2. Promised(t)
    BY <1>2, <2>1 DEF Same, Promised, Reportable
  <2> QED BY <1>2, <2>1, <2>2, IdleSane DEF AfterCleanup, t
<1> QED BY <1>1, <1>2

(* After markFailed: the recovery that the request asks for.               *)
LEMMA AfterMarkFailedSane ==
  \A s \in RunState : Owns(s) /\ s.req \in Request => Sane(AfterMarkFailed(s))
<1> SUFFICES ASSUME NEW s \in RunState, Owns(s), s.req \in Request
             PROVE  Sane(AfterMarkFailed(s))
  OBVIOUS
<1> DEFINE q == s.req
           all == Deletable(s.rel.chart)
           parsed == Parses(s.rel.chart)
<1>1. Warn(s) \in RunState /\ Warn(s).sec /\ Warn(s).req = q /\ Warn(s).rel = s.rel
      /\ Owns(Warn(s))
  BY WarnFields, OwnsSame
<1>2. ASSUME q.kind = "install" PROVE Sane(WalkIfParsed(s, "cleanup", all, parsed))
  <2>1. Sane(Walk(s, "cleanup", all))
    BY <1>2, CleanupWalk DEF AllGone
  <2>2. Sane(Walk(Warn(s), "cleanup", {}))
    BY <1>1, <1>2, CleanupWalk
  <2> QED BY <2>1, <2>2 DEF WalkIfParsed
<1>3. ASSUME q.kind \in {"upgrade", "rollback"}, NEW todo
      PROVE  Sane(WalkIfParsed(s, "cleanup", todo, parsed))
  BY <1>1, <1>3, RecoveryWalk DEF WalkIfParsed
<1>4. ASSUME q.kind = "upgrade" PROVE Sane(Walk(s, "reapply", Manifest[s.cur.chart]))
  BY <1>4, RecoveryWalk
<1>5. ASSUME ~(q.kind = "install" /\ s.cause \notin {"pre", "crds"} /\ (q.atomic \/ q.cleanup))
      PROVE  Sane(AfterCleanup(s))
  BY <1>5, AfterCleanupSane DEF Reportable
<1> QED BY Zenon, <1>2, <1>3, <1>4, <1>5 DEF AfterMarkFailed

(* The second walk of atomicRollbackUpgrade.                               *)
LEMMA UndoApplyWalk ==
  \A s \in RunState :
     Owns(s) /\ s.req.kind = "upgrade" /\ Undone(s)
     => Sane(Walk(s, "undoapply", Manifest[s.cur.chart]))
<1> SUFFICES ASSUME NEW s \in RunState, Owns(s), s.req.kind = "upgrade", Undone(s)
             PROVE  Sane(Walk(s, "undoapply", Manifest[s.cur.chart]))
  OBVIOUS
<1> DEFINE t == Walk(s, "undoapply", Manifest[s.cur.chart])
<1>1. t.pc = "undoapply" /\ Same(s, t) /\ t.todo = Manifest[s.cur.chart]
  BY WalkFields DEF PC
<1> HIDE DEF t
<1>2. Owns(t) /\ Undone(t)
  BY <1>1, OwnsSame DEF Same, Undone
<1>3. Sane(t)
  BY <1>1, <1>2 DEF Same, Owns, Sane, Placed, KindAt, ClusterAt, HistoryAt, Claimed,
     Unsettled, Forward, UninstallPoints, UndoPoints
<1> QED BY <1>3 DEF t

(* Its two writes, once both walks are over.                               *)
LEMMA UndoWriteSane ==
  \A s \in RunState, pc \in {"undofailed", "undoprev"} :
     /\ Owns(s) /\ s.req.kind = "upgrade" /\ Undone(s) /\ (s.sec \/ InPlace(s.cur.chart))
     /\ pc = "undoprev" => s.sec \/ store[s.rel.rev].status = "failed"
     => Sane(To(s, pc))
<1> SUFFICES ASSUME NEW s \in RunState, NEW pc \in {"undofailed", "undoprev"},
                    Owns(s), s.req.kind = "upgrade", Undone(s), s.sec \/ InPlace(s.cur.chart),
                    pc = "undoprev" => s.sec \/ store[s.rel.rev].status = "failed"
             PROVE  Sane(To(s, pc))
  OBVIOUS
<1> DEFINE t == To(s, pc)
<1>1. t.pc = pc /\ Same(s, t)
  BY ToFields DEF PC
<1> HIDE DEF t
<1>2. Owns(t) /\ Undone(t)
  BY <1>1, OwnsSame DEF Same, Undone
<1>3. Sane(t)
  BY <1>1, <1>2 DEF Same, Owns, Sane, Placed, KindAt, ClusterAt, HistoryAt, Claimed,
     Unsettled, Forward, UninstallPoints, UndoPoints
<1> QED BY <1>3 DEF t

(* All of them, for a step that changes the world and moves on in it.      *)
Arrivals ==
    /\ \A s, t : /\ t.req = s.req /\ t.cur = s.cur /\ t.rel.rev = s.rel.rev
                 /\ t.rel.chart = s.rel.chart
                 => /\ Claims(t) <=> Claims(s)
                    /\ Owns(t) <=> Owns(s)
    /\ \A t : t.pc = "idle" /\ Promised(t) => Sane(t)
    /\ \A s \in RunState, cause \in Cause : Owns(s) => Sane(Fail(s, cause))
    /\ \A s \in RunState :
          s.cause = "none" \/ s.req.kind \notin {"upgrade", "install"} => Sane(GiveUp(s))
    /\ \A s \in RunState :
          (Replaces(s) => /\ DeployedRevs = {s.rel.rev}
                          /\ s.req.max > 0 => Cardinality(Stored) <= s.req.max)
          => Sane(Succeed(s))
    /\ \A s \in Working :
          /\ Claims(s) /\ s.cause = "none" /\ s.req.kind # "uninstall"
          /\ Replaces(s) => DeployedRevs = {s.rel.rev}
          => Sane(AfterSupersede(s))
    /\ \A s \in Working :
          /\ Claims(s) /\ s.cause = "none" /\ s.req.kind # "uninstall"
          /\ store[s.rel.rev].status = "deployed"
          => Sane(AfterDeploy(s))
    /\ \A s \in RunState : \A pc \in {"jobs", "wait", "post", "deploy"} :
          /\ Owns(s) /\ s.cause = "none" /\ s.req.kind # "uninstall" /\ InPlace(s.rel.chart)
          => Sane(To(s, pc))
    /\ \A s \in RunState, pc \in {"reapply", "cleanup"} : \A todo :
          /\ Owns(s) /\ s.req.kind \in {"upgrade", "rollback"}
          /\ pc = "reapply" => s.req.kind = "upgrade"
          => Sane(Walk(s, pc, todo))
    /\ \A s \in RunState : Owns(s) /\ Reportable(s) => Sane(AfterCleanup(s))
    /\ \A s \in RunState : Owns(s) /\ s.req \in Request => Sane(AfterMarkFailed(s))
    /\ \A s \in RunState :
          Owns(s) /\ s.req.kind = "upgrade" /\ Undone(s)
          => Sane(Walk(s, "undoapply", Manifest[s.cur.chart]))
    /\ \A s \in RunState, pc \in {"undofailed", "undoprev"} :
          /\ Owns(s) /\ s.req.kind = "upgrade" /\ Undone(s) /\ (s.sec \/ InPlace(s.cur.chart))
          /\ pc = "undoprev" => s.sec \/ store[s.rel.rev].status = "failed"
          => Sane(To(s, pc))

(* Every state allows them, the next one too.                              *)
LEMMA ArrivalsHold == Arrivals /\ Arrivals'
<1>1. Arrivals
  BY OwnsSame, IdleSane, FailSane, GiveUpSane, SucceedSane, AfterSupersedeSane,
     AfterDeploySane, LiveSane, RecoveryWalk, AfterCleanupSane, AfterMarkFailedSane,
     UndoApplyWalk, UndoWriteSane DEF Arrivals
<1> QED BY <1>1, PTL

-----------------------------------------------------------------------------
(* The reads that fix the new revision number.                             *)

(* What an operation that starts knows about itself.                       *)
LEMMA ToInstallFields ==
  ASSUME NEW s \in RunState, NEW q \in Request
  PROVE  LET t == ToInstall(s, q) IN
         /\ t.pc = "create" /\ t.req = q /\ t.cause = s.cause
         /\ t.rel.status = "pending-install"
<1> DEFINE t == To(s, "create")
           u == [t EXCEPT !.req = q]
           v == [u EXCEPT !.rel = NewRelease(1, q.chart, "install")]
<1>1. t \in RunState /\ t.pc = "create" /\ t.cause = s.cause
  BY ToFields DEF PC, Same
<1> HIDE DEF t
<1>2. u \in RunState /\ u.pc = "create" /\ u.req = q /\ u.cause = s.cause
  BY <1>1 DEF RunState
<1> HIDE DEF u
<1>3. /\ v.pc = "create" /\ v.req = q /\ v.cause = s.cause
      /\ v.rel = NewRelease(1, q.chart, "install")
  BY <1>2 DEF RunState
<1>4. ToInstall(s, q) = v
  BY Zenon DEF ToInstall, t, u, v
<1> HIDE DEF v
<1> QED BY <1>3, <1>4 DEF NewRelease

(* An install that finds no release may go straight for its revision.      *)
LEMMA ToInstallSane ==
  ASSUME NEW s \in RunState, NEW q \in Request, s.cause = "none", q.kind = "install",
         BareInstalls \/ Stored = {}
  PROVE  Sane(ToInstall(s, q))
<1> DEFINE t == ToInstall(s, q)
<1>1. t.pc = "create" /\ t.req = q /\ t.cause = "none" /\ t.rel.status = "pending-install"
  BY ToInstallFields
<1> HIDE DEF t
<1>2. Sane(t)
  BY <1>1 DEF Sane, Placed, AboutToClaim, Pending, KindAt, ClusterAt, HistoryAt, Claimed,
     Unsettled, Forward, UninstallPoints, UndoPoints
<1> QED BY <1>2 DEF t

(* A request starts an operation.                                          *)
LEMMA StartSane ==
  ASSUME Solo, TypeOK, SoloInv, NEW c \in Client, Start(c)
  PROVE  SoloInv'
<1> DEFINE s == IdleRun("none")
<1>1. PICK q \in Requests :
         run' = [run EXCEPT ![c] =
                   IF q.kind = "install" THEN ToInstall(s, q)
                   ELSE [To(s, "read") EXCEPT !.req = q]]
  BY DEF Start
<1>2. q \in Request /\ s \in RunState /\ s.cause = "none"
  BY RequestsAssumption, IdleRunGood DEF Outcome, Good, IdleRun
<1>3. Calm
  BY FaultsStay, Untouched DEF Start, world, Calm
<1>4. CASE q.kind = "install"
  <2>1. Sane(ToInstall(s, q))
    BY <1>2, <1>4, ToInstallSane DEF BareInstalls
  <2> QED BY <1>1, <1>3, <1>4, <2>1, QuietMove
<1>5. CASE q.kind # "install"
  <2> DEFINE t == To(s, "read")
             u == [t EXCEPT !.req = q]
  <2>1. t \in RunState /\ t.pc = "read" /\ t.cause = "none"
    BY <1>2, ToFields DEF PC, Same
  <2> HIDE DEF t
  <2>2. u.pc = "read" /\ u.req = q /\ u.cause = "none"
    BY <2>1 DEF RunState
  <2> HIDE DEF u
  <2>3. Sane(u)
    BY <2>2 DEF Sane, Placed, KindAt, ClusterAt, HistoryAt, Claimed, Unsettled, Forward,
       UninstallPoints, UndoPoints
  <2>4. run' = [run EXCEPT ![c] = u]
    BY <1>1, <1>5 DEF u, t
  <2> QED BY <1>3, <2>3, <2>4, QuietMove
<1> QED BY <1>4, <1>5

(* A record to write, chosen on the way to the next point.                 *)
LEMMA ChosenFields ==
  ASSUME NEW l \in RunState, NEW pc \in PC, NEW x \in Release
  PROVE  LET u == [To(l, pc) EXCEPT !.rel = x] IN
         u.pc = pc /\ u.req = l.req /\ u.cur = l.cur /\ u.cause = l.cause /\ u.rel = x
<1> DEFINE t == To(l, pc)
           u == [t EXCEPT !.rel = x]
<1>1. t \in RunState /\ t.pc = pc /\ t.req = l.req /\ t.cur = l.cur /\ t.cause = l.cause
  BY ToFields DEF Same
<1> HIDE DEF t
<1>2. u.pc = pc /\ u.req = l.req /\ u.cur = l.cur /\ u.cause = l.cause /\ u.rel = x
  BY <1>1 DEF RunState
<1> HIDE DEF u
<1> QED BY <1>2 DEF u, t

(* ReadLast: the newest revision is the one to replace or to uninstall.    *)
LEMMA ReadLastSane ==
  ASSUME Solo, TypeOK, SoloInv, NEW c \in Client, ReadLast(c)
  PROVE  SoloInv'
<1> DEFINE s == run[c]
           L(r) == [s EXCEPT !.cur = CopyOf(r)]
           N(r) == CASE s.req.kind = "upgrade" ->
                          [To(L(r), "create") EXCEPT
                              !.rel = NewRelease(r + 1, s.req.chart, "upgrade")]
                     [] s.req.kind = "rollback" -> To(L(r), "target")
                     [] OTHER -> [To(L(r), "mark") EXCEPT
                                     !.rel = [CopyOf(r) EXCEPT !.status = "uninstalling"]]
<1>1. s \in Good /\ s \in RunState /\ s.pc = "read" /\ s.req \in Request /\ s.req.chart \in Chart
      /\ s.req.kind \in {"upgrade", "rollback", "uninstall"}
  BY RunGood DEF ReadLast, At, Good, Holding, UsesPrevious, Request, Kind
<1>2. s.cause = "none"
  BY <1>1 DEF SoloInv, Sane, Placed, KindAt, Forward, UndoPoints, PC
<1>3. Sane(GiveUp(s))
  BY <1>1, <1>2, GiveUpSane
<1>4. Become(c, GiveUp(s)) /\ (ReadOk \/ ReadFails) => SoloInv'
  <2>1. ReadOk \/ ReadFails => Calm
    BY FaultsStay, Untouched DEF ReadLast, ReadOk, ReadFails, Calm
  <2> QED BY <1>3, <2>1, QuietMove DEF Become
<1>5. CASE /\ Stored = {} /\ ReadOk
           /\ Become(c, IF s.req.kind = "upgrade" /\ s.req.install
                        THEN ToInstall(s, AsInstall(s.req)) ELSE GiveUp(s))
  <2>1. Calm
    BY <1>5, FaultsStay, Untouched DEF ReadLast, ReadOk, Calm
  <2>2. AsInstall(s.req) \in Request /\ AsInstall(s.req).kind = "install"
    BY <1>1, AsInstallType
  <2>3. Sane(ToInstall(s, AsInstall(s.req)))
    BY <1>1, <1>2, <1>5, <2>2, ToInstallSane
  <2> QED BY <1>3, <1>5, <2>1, <2>3, QuietMove DEF Become
<1>6. CASE ReadOk /\ \E r \in Rev : /\ IsLast(r) /\ Become(c, N(r))
                                    /\ s.req.kind = "upgrade" => r < MaxRev
  <2>1. PICK r \in Rev : /\ IsLast(r) /\ Become(c, N(r))
                         /\ s.req.kind = "upgrade" => r < MaxRev
    BY <1>6
  <2>2. Calm
    BY <1>6, FaultsStay, Untouched DEF ReadLast, ReadOk, Calm
  <2>3. r \in Stored /\ CopyOf(r) \in Release
    BY <2>1, Untouched, HistoryType DEF IsLast
  <2>4. PICK y \in Release : y = CopyOf(r)
    BY <2>3
  <2>5. y.rev = r /\ y.chart = store[r].chart
    BY <2>4 DEF CopyOf
  <2> DEFINE l == L(r)
  <2>9. l \in RunState /\ l.req = s.req /\ l.cur = y /\ l.cause = "none"
    BY <1>1, <1>2, <2>4 DEF RunState
  <2>6. CASE s.req.kind = "upgrade"
    <3> DEFINE x == NewRelease(r + 1, s.req.chart, "upgrade")
               t == [To(l, "create") EXCEPT !.rel = x]
    <3>1. r + 1 \in Rev
      BY <2>1, <2>6, MaxRevAssumption DEF Rev
    <3>2. x \in Release /\ x.rev = r + 1 /\ x.status \in Pending
      BY <1>1, <3>1, NewReleaseType DEF NewRelease, Pending
    <3>3. N(r) = t
      BY <2>6
    <3> HIDE DEF N, x, l
    <3>4. t.pc = "create" /\ t.req = s.req /\ t.cur = y /\ t.cause = "none" /\ t.rel = x
      BY <2>9, <3>2, ChosenFields DEF PC
    <3> HIDE DEF t
    <3>5. Sane(t)
      BY <2>1, <2>5, <2>6, <3>2, <3>4 DEF Sane, Placed, AboutToClaim, KindAt, ClusterAt,
         HistoryAt, Claimed, Unsettled, Forward, UninstallPoints, UndoPoints
    <3> QED BY <2>1, <2>2, <3>3, <3>5, QuietMove DEF Become
  <2>7. CASE s.req.kind = "rollback"
    <3> DEFINE t == To(l, "target")
    <3>1. N(r) = t
      BY <2>7
    <3> HIDE DEF N, l
    <3>2. t.pc = "target" /\ t.req = s.req /\ t.cur = y /\ t.cause = "none"
      BY <2>9, ToFields DEF PC, Same
    <3> HIDE DEF t
    <3>3. Sane(t)
      BY <2>1, <2>5, <2>7, <3>2 DEF Sane, Placed, KindAt, ClusterAt, HistoryAt, Claimed,
         Unsettled, Forward, UninstallPoints, UndoPoints
    <3> QED BY <2>1, <2>2, <3>1, <3>3, QuietMove DEF Become
  <2>8. CASE s.req.kind = "uninstall"
    <3> DEFINE x == [CopyOf(r) EXCEPT !.status = "uninstalling"]
               t == [To(l, "mark") EXCEPT !.rel = x]
    <3>1. x \in Release /\ x.rev = r /\ x.chart = store[r].chart /\ x.status = "uninstalling"
      BY <2>3, <2>4, <2>5 DEF Release, Status
    <3>2. N(r) = t
      BY <2>8
    <3> HIDE DEF N, x, l
    <3>3. t.pc = "mark" /\ t.req = s.req /\ t.cur = y /\ t.cause = "none" /\ t.rel = x
      BY <2>9, <3>1, ChosenFields DEF PC
    <3> HIDE DEF t
    <3>4. Sane(t)
      BY <2>1, <2>8, <3>1, <3>3 DEF Sane, Placed, Claims, KindAt, ClusterAt,
         HistoryAt, Claimed, Unsettled, Forward, UninstallPoints, UndoPoints
    <3> QED BY <2>1, <2>2, <3>2, <3>4, QuietMove DEF Become
  <2> QED BY <1>1, <2>6, <2>7, <2>8
<1>7. CASE ReadFails /\ Become(c, GiveUp(s))
  BY <1>4, <1>7
<1> QED BY <1>5, <1>6, <1>7 DEF ReadLast

(* ReadTarget: the new revision follows the newest.                        *)
LEMMA ReadTargetSane ==
  ASSUME Solo, TypeOK, SoloInv, NEW c \in Client, ReadTarget(c)
  PROVE  SoloInv'
<1> DEFINE s == run[c]
           g == IF s.req.target = 0 THEN s.cur.rev - 1 ELSE s.req.target
           x == NewRelease(s.cur.rev + 1, store[g].chart, "rollback")
           n == [To(s, "create") EXCEPT !.rel = x]
<1>1. s \in Good /\ s \in RunState /\ s.pc = "target" /\ s.req \in Request
      /\ s.req.kind # "install" /\ s.cur \in Release
  BY RunGood DEF ReadTarget, At, Good, Holding, UsesPrevious
<1>2. s.cause = "none" /\ IsLast(s.cur.rev) /\ s.req.kind # "uninstall"
  BY <1>1 DEF SoloInv, Sane, Placed, KindAt, Forward, UninstallPoints, UndoPoints, PC
<1>3. CASE (ReadOk \/ ReadFails) /\ Become(c, GiveUp(s))
  <2>1. Calm
    BY <1>3, FaultsStay, Untouched DEF ReadTarget, ReadOk, ReadFails, Calm
  <2> QED BY <1>1, <1>2, <1>3, <2>1, GiveUpSane, QuietMove DEF Become
<1>4. CASE g \in Stored /\ s.cur.rev < MaxRev /\ ReadOk /\ Become(c, n)
  <2>1. Calm
    BY <1>4, FaultsStay, Untouched DEF ReadTarget, ReadOk, Calm
  <2>2. store[g].chart \in Chart
    BY <1>4, Untouched, HistoryType
  <2>3. s.cur.rev + 1 \in Rev
    BY <1>1, <1>4, MaxRevAssumption DEF Release, Rev
  <2>4. x \in Release /\ x.rev = s.cur.rev + 1 /\ x.status \in Pending
    BY <2>2, <2>3, NewReleaseType DEF NewRelease, Pending
  <2>5. n.pc = "create" /\ n.req = s.req /\ n.cur = s.cur /\ n.cause = "none" /\ n.rel = x
    <3> HIDE DEF x
    <3> QED BY <1>1, <1>2, <2>4, ChosenFields DEF PC
  <2> HIDE DEF n, x
  <2>6. Sane(n)
    BY <1>1, <1>2, <2>4, <2>5 DEF Sane, Placed, AboutToClaim, KindAt, ClusterAt,
       HistoryAt, Claimed, Unsettled, Forward, UninstallPoints, UndoPoints
  <2> QED BY <1>4, <2>1, <2>6, QuietMove DEF Become
<1> QED BY <1>3, <1>4 DEF ReadTarget

(* A crash leaves an idle client behind that promises nothing.             *)
LEMMA CrashSane ==
  ASSUME Solo, TypeOK, SoloInv, NEW c \in Client, Crash(c)
  PROVE  SoloInv'
<1> DEFINE t == IdleRun("crashed")
<1>1. Calm
  BY FaultsStay, Untouched DEF Crash, world, Calm
<1>2. t.pc = "idle" /\ t.out = "crashed"
  BY DEF IdleRun
<1> HIDE DEF t
<1>3. Sane(t)
  BY <1>2, IdleSane DEF Promised
<1> QED BY <1>1, <1>3, QuietMove DEF Crash, t

-----------------------------------------------------------------------------
(* Calls that change neither the records nor the objects.                  *)

(* A client at work is sane, and owns its revision until it settles it.    *)
LEMMA AtPoint ==
  ASSUME TypeOK, SoloInv, NEW c \in Client, run[c].pc \notin {"idle", "read", "target"}
  PROVE  /\ run[c] \in Working /\ run[c] \in RunState
         /\ Sane(run[c])
         /\ run[c].pc \in Unsettled => Owns(run[c])
         /\ run[c].pc \in Forward => run[c].cause = "none"
         /\ run[c].pc \in Claimed => Claims(run[c])
<1>1. run[c] \in Working /\ run[c] \in RunState
  BY AtWork DEF Working, Good
<1>2. Sane(run[c])
  BY DEF SoloInv
<1> QED BY <1>1, <1>2 DEF Sane, Placed, KindAt, Owns, Unsettled

(* The kinds of request at work after Create.                              *)
LEMMA WorkingKind ==
  ASSUME NEW s \in Working
  PROVE  s.req \in Request /\ s.req.kind \in Kind
BY WorkingHolds DEF Request

(* A hook phase or a wait ends in a sane state when both its outcomes are. *)
LEMMA KubeCallSane ==
  ASSUME Solo, TypeOK, SoloInv, NEW c \in Client, NEW pc, NEW done, NEW failed,
         Sane(done), Sane(failed), KubeCall(c, pc, done, failed)
  PROVE  SoloInv'
<1>1. Calm
  BY FaultsStay, Untouched DEF KubeCall, KubeOk, KubeFails, Calm
<1> QED BY <1>1, QuietMove DEF KubeCall, Become

(* The hooks of the first phase.                                           *)
LEMMA PreHooksSane ==
  ASSUME Solo, TypeOK, SoloInv, NEW c \in Client, PreHooks(c)
  PROVE  SoloInv'
<1> DEFINE s == run[c]
           w == Walk(s, "crds", Manifest[s.rel.chart] \cap CRD)
           done == IF s.req.kind = "rollback" THEN AfterSnapshot(s) ELSE w
<1>1. s.pc = "pre" /\ s.req.kind # "uninstall"
  BY DEF PreHooks, KubeCall, At, Creating
<1>2. s \in Working /\ s \in RunState /\ Owns(s) /\ s.cause = "none"
  BY <1>1, AtPoint DEF Unsettled, Claimed, Forward, UndoPoints, PC
<1>3. Sane(w)
  <2>1. w.pc = "crds" /\ Same(s, w)
    BY <1>2, WalkFields DEF PC
  <2> HIDE DEF w
  <2>2. Owns(w)
    BY <1>2, <2>1, OwnsSame DEF Same
  <2> QED BY <1>1, <1>2, <2>1, <2>2, PlainPoint DEF Same
<1>4. Sane(done)
  BY <1>1, <1>2, <1>3, AfterSnapshotSane
<1>5. Sane(Fail(s, "pre"))
  BY <1>2, FailSane DEF Cause
<1>6. KubeCall(c, "pre", done, Fail(s, "pre"))
  BY DEF PreHooks
<1> HIDE DEF done
<1> QED BY <1>4, <1>5, <1>6, KubeCallSane

(* The waits.                                                              *)
LEMMA WaitSane ==
  ASSUME Solo, TypeOK, SoloInv, NEW c \in Client, WaitForJobs(c) \/ WaitForReady(c)
  PROVE  SoloInv'
<1> DEFINE s == run[c]
<1>1. s.pc \in {"jobs", "wait"}
  BY DEF WaitForJobs, WaitForReady, KubeCall, At
<1>2. s \in RunState /\ Owns(s) /\ s.cause = "none" /\ Sane(s)
  BY <1>1, AtPoint DEF Unsettled, Claimed, Forward, UndoPoints, PC
<1>3. s.req.kind # "uninstall" /\ InPlace(s.rel.chart)
  BY <1>1, <1>2 DEF Sane, Placed, KindAt, UninstallPoints, ClusterAt
<1>4. Sane(AfterJobs(s)) /\ Sane(To(s, "post"))
  BY <1>2, <1>3, AfterApplySane, LiveSane
<1>5. Sane(Fail(s, "jobs")) /\ Sane(Fail(s, "wait"))
  BY <1>2, FailSane DEF Cause
<1>6. CASE WaitForJobs(c)
  BY <1>4, <1>5, <1>6, KubeCallSane DEF WaitForJobs
<1>7. CASE WaitForReady(c)
  BY <1>4, <1>5, <1>7, KubeCallSane DEF WaitForReady
<1> QED BY <1>6, <1>7

(* An upgrade that is live prunes what its manifest no longer declares.    *)
LEMMA DroppedWalk ==
  \A s \in RunState : \A todo :
     /\ Owns(s) /\ s.cause = "none" /\ s.req.kind = "upgrade"
     /\ InPlace(s.rel.chart) /\ todo \cap Manifest[s.rel.chart] = {}
     => Sane(Walk(s, "dropped", todo))
<1> SUFFICES ASSUME NEW s \in RunState, NEW todo,
                    Owns(s), s.cause = "none", s.req.kind = "upgrade",
                    InPlace(s.rel.chart), todo \cap Manifest[s.rel.chart] = {}
             PROVE  Sane(Walk(s, "dropped", todo))
  OBVIOUS
<1> DEFINE t == Walk(s, "dropped", todo)
<1>1. t.pc = "dropped" /\ Same(s, t) /\ t.todo = todo
  BY WalkFields DEF PC
<1> HIDE DEF t
<1>2. Owns(t)
  BY <1>1, OwnsSame DEF Same
<1>3. Sane(t)
  BY <1>1, <1>2 DEF Same, Owns, Sane, Placed, KindAt, ClusterAt, HistoryAt, Claimed,
     Unsettled, Forward, UninstallPoints, UndoPoints
<1> QED BY <1>3 DEF t

(* The hooks of the last phase.                                            *)
LEMMA PostHooksSane ==
  ASSUME Solo, TypeOK, SoloInv, NEW c \in Client, PostHooks(c)
  PROVE  SoloInv'
<1> DEFINE s == run[c]
           todo == WithoutCRDs(Orphans(s.cur.chart, s.rel.chart))
           done == IF s.req.kind = "upgrade"
                   THEN WalkIfParsed(s, "dropped", todo, Parses(s.cur.chart))
                   ELSE To(s, "deploy")
<1>1. s.pc = "post"
  BY DEF PostHooks, KubeCall, At
<1>2. s \in RunState /\ Owns(s) /\ s.cause = "none" /\ Sane(s)
  BY <1>1, AtPoint DEF Unsettled, Claimed, Forward, UndoPoints, PC
<1>3. s.req.kind # "uninstall" /\ InPlace(s.rel.chart)
  BY <1>1, <1>2 DEF Sane, Placed, KindAt, UninstallPoints, ClusterAt
<1>4. ASSUME s.req.kind = "upgrade"
      PROVE  Sane(WalkIfParsed(s, "dropped", todo, Parses(s.cur.chart)))
  <2>1. todo \cap Manifest[s.rel.chart] = {}
    BY DEF WithoutCRDs, Orphans
  <2> HIDE DEF todo
  <2>2. Sane(Walk(s, "dropped", todo))
    BY <1>2, <1>3, <1>4, <2>1, DroppedWalk
  <2>3. /\ Warn(s) \in RunState /\ Warn(s).req = s.req /\ Warn(s).rel = s.rel
        /\ Warn(s).cause = "none" /\ Owns(Warn(s))
    BY <1>2, WarnFields, OwnsSame
  <2>4. Sane(Walk(Warn(s), "dropped", {}))
    BY <1>3, <1>4, <2>3, DroppedWalk
  <2> QED BY <2>2, <2>4 DEF WalkIfParsed
<1>5. Sane(To(s, "deploy"))
  BY <1>2, <1>3, LiveSane
<1>6. Sane(done)
  BY <1>4, <1>5
<1>7. Sane(Fail(s, "post"))
  BY <1>2, FailSane DEF Cause
<1>8. KubeCall(c, "post", done, Fail(s, "post"))
  BY DEF PostHooks
<1> HIDE DEF done
<1> QED BY <1>6, <1>7, <1>8, KubeCallSane

(* The snapshot before an upgrade that cleans up.                          *)
LEMMA TakeSnapshotSane ==
  ASSUME Solo, TypeOK, SoloInv, NEW c \in Client, TakeSnapshot(c)
  PROVE  SoloInv'
<1> DEFINE s == run[c]
<1>1. s.pc = "snapshot"
  BY DEF TakeSnapshot, At
<1>2. s \in Working /\ s \in RunState /\ Owns(s) /\ s.cause = "none" /\ Sane(s)
  BY <1>1, AtPoint DEF Unsettled, Claimed, Forward, UndoPoints, PC
<1>3. s.req.kind # "uninstall"
  BY <1>1, <1>2 DEF Sane, Placed, KindAt, UninstallPoints
<1>4. Calm
  BY FaultsStay, Untouched DEF TakeSnapshot, Snapshot, KubeOk, KubeFails, Calm
<1>5. CASE Become(c, AfterSnapshot(s))
  BY <1>2, <1>3, <1>4, <1>5, AfterSnapshotSane, QuietMove DEF Become
<1>6. CASE \E S \in SUBSET Manifest[s.rel.chart] : Become(c, AfterSnapshot([s EXCEPT !.snap = S]))
  <2>1. PICK S \in SUBSET Manifest[s.rel.chart] : Become(c, AfterSnapshot([s EXCEPT !.snap = S]))
    BY <1>6
  <2> DEFINE w == [s EXCEPT !.snap = S]
  <2>2. S \in SUBSET Resource
    BY <1>2, WorkingHolds, ManifestType
  <2>3. w \in Working
    BY <1>2, <2>2, SetSnapGood
  <2>4. Same(s, w)
    BY <1>2 DEF RunState, Same
  <2>5. Become(c, AfterSnapshot(w))
    BY <2>1
  <2> HIDE DEF w
  <2>6. Owns(w)
    BY <1>2, <2>4, OwnsSame DEF Same
  <2>7. Sane(AfterSnapshot(w))
    BY <1>2, <1>3, <2>3, <2>4, <2>6, AfterSnapshotSane DEF Same
  <2> QED BY <1>4, <2>5, <2>7, QuietMove DEF Become
<1> QED BY <1>5, <1>6 DEF TakeSnapshot

(* The choice of what to delete before applying.                           *)
LEMMA ChooseForcedSane ==
  ASSUME Solo, TypeOK, SoloInv, NEW c \in Client, ChooseForced(c)
  PROVE  SoloInv'
<1> DEFINE s == run[c]
           Deleted(S) == IF Parses(s.cur.chart) THEN Walk(s, "predelete", S)
                         ELSE Fail(s, "force")
           all == Deletable(s.cur.chart)
<1>1. s.pc = "force"
  BY DEF ChooseForced, At
<1>2. s \in Working /\ s \in RunState /\ Owns(s) /\ s.cause = "none" /\ Sane(s)
  BY <1>1, AtPoint DEF Unsettled, Claimed, Forward, UndoPoints, PC
<1>3. s.req.kind # "uninstall"
  BY <1>1, <1>2 DEF Sane, Placed, KindAt, UninstallPoints
<1>4. Calm
  BY FaultsStay, Untouched DEF ChooseForced, KubeOk, Calm
<1>5. ASSUME NEW S PROVE Sane(Deleted(S))
  <2> DEFINE w == Walk(s, "predelete", S)
  <2>1. w.pc = "predelete" /\ Same(s, w)
    BY <1>2, WalkFields DEF PC
  <2> HIDE DEF w
  <2>2. Owns(w)
    BY <1>2, <2>1, OwnsSame DEF Same
  <2>3. Sane(w)
    BY <1>2, <1>3, <2>1, <2>2, PlainPoint DEF Same
  <2>4. Sane(Fail(s, "force"))
    BY <1>2, FailSane DEF Cause
  <2> QED BY <2>3, <2>4 DEF w
<1>6. Sane(ToApply(s))
  BY <1>2, <1>3, ToApplySane
<1>7. \/ \E S : Become(c, Deleted(S))
      \/ Become(c, ToApply(s))
  BY Zenon DEF ChooseForced
<1> HIDE DEF Deleted
<1>8. CASE \E S : Become(c, Deleted(S))
  <2>1. PICK S : Become(c, Deleted(S))
    BY <1>8
  <2>2. Sane(Deleted(S))
    BY <1>5
  <2> QED BY <1>4, <2>1, <2>2, QuietMove DEF Become
<1>9. CASE Become(c, ToApply(s))
  BY <1>4, <1>6, <1>9, QuietMove DEF Become
<1> QED BY <1>7, <1>8, <1>9

(* The hooks before the deletion of an uninstall.                          *)
LEMMA PreDeleteHooksSane ==
  ASSUME Solo, TypeOK, SoloInv, NEW c \in Client, PreDeleteHooks(c)
  PROVE  SoloInv'
<1> DEFINE s == run[c]
           w == Walk(s, "delete", WithoutCRDs(Deletable(s.rel.chart)))
           done == IF Parses(s.rel.chart) THEN w ELSE Fail(s, "delete")
<1>1. s.pc = "pre" /\ s.req.kind = "uninstall"
  BY DEF PreDeleteHooks, KubeCall, At, Uninstalling
<1>2. s \in RunState /\ Owns(s) /\ s.cause = "none" /\ Sane(s)
  BY <1>1, AtPoint DEF Unsettled, Claimed, Forward, UndoPoints, PC
<1>3. Sane(w)
  <2>1. w.pc = "delete" /\ Same(s, w) /\ w.todo = Doomed(s.rel.chart)
    BY <1>2, WalkFields DEF PC, Doomed
  <2> HIDE DEF w
  <2>2. Owns(w)
    BY <1>2, <2>1, OwnsSame DEF Same
  <2> QED BY <1>1, <1>2, <2>1, <2>2 DEF Same, Owns, Sane, Placed, KindAt, ClusterAt, AllGone,
          HistoryAt, Claimed, Unsettled, Forward, UninstallPoints, UndoPoints, PC
<1>4. Sane(Fail(s, "delete")) /\ Sane(Fail(s, "pre"))
  BY <1>2, FailSane DEF Cause
<1>5. Sane(done)
  BY <1>3, <1>4
<1>6. KubeCall(c, "pre", done, Fail(s, "pre"))
  BY DEF PreDeleteHooks
<1> HIDE DEF done
<1> QED BY <1>4, <1>5, <1>6, KubeCallSane

(* Waiting for the objects to go, and the hooks after that.                *)
LEMMA GoneCallsSane ==
  ASSUME Solo, TypeOK, SoloInv, NEW c \in Client, WaitForDeletion(c) \/ PostDeleteHooks(c)
  PROVE  SoloInv'
<1> DEFINE s == run[c]
<1>1. s.pc \in {"gone", "postdelete"}
  BY DEF WaitForDeletion, PostDeleteHooks, KubeCall, At
<1>2. s \in RunState /\ Owns(s) /\ s.cause = "none" /\ Sane(s)
  BY <1>1, AtPoint DEF Unsettled, Claimed, Forward, UndoPoints, PC
<1>3. s.req.kind = "uninstall" /\ AllGone(Doomed(s.rel.chart))
  BY <1>1, <1>2 DEF Sane, Placed, KindAt, UninstallPoints, ClusterAt
<1>4. Sane(To(s, "postdelete")) /\ Sane(To(s, IF s.req.keep THEN "keep" ELSE "purgeable"))
  BY <1>2, <1>3, GoneSane
<1>5. Sane(Fail(s, "gone")) /\ Sane(Fail(s, "post"))
  BY <1>2, FailSane DEF Cause
<1>6. CASE WaitForDeletion(c)
  <2>1. Calm
    BY <1>6, FaultsStay, Untouched DEF WaitForDeletion, KubeOk, KubeFails, Calm
  <2> QED BY <1>4, <1>5, <1>6, <2>1, QuietMove DEF WaitForDeletion, Become
<1>7. CASE PostDeleteHooks(c)
  BY <1>4, <1>5, <1>7, KubeCallSane DEF PostDeleteHooks
<1> QED BY <1>6, <1>7

-----------------------------------------------------------------------------
(* Walks over the cluster.                                                 *)

ObjectWalks == {"crds", "predelete", "apply", "dropped", "delete", "reapply", "cleanup",
                "undodelete", "undoapply"}

(* One object changed, nothing stored did.                                 *)
Touched(r, v) == /\ cluster' = [cluster EXCEPT ![r] = v]
                 /\ UNCHANGED <<store, storeFaults>>

(* What an operation owns is a matter of the store.                        *)
LEMMA OwnsKept ==
  ASSUME TypeOK, UNCHANGED <<store, storeFaults>>, NEW s
  PROVE  /\ Owns(s) => Owns(s)'
         /\ Placed(s) => Placed(s)'
<1>1. store' = store /\ (Sound' <=> Sound)
  BY FaultsStay, Untouched DEF Sound
<1>2. Stored' = Stored /\ \A r : IsLast(r)' = IsLast(r)
  BY <1>1 DEF Stored, IsLast
<1> QED BY <1>1, <1>2 DEF Owns, Placed, AboutToClaim, Claims

(* A lone client may touch the cluster while its revision is not settled:  *)
(* the newest record does not say deployed.                                *)
LEMMA ObjectMove ==
  ASSUME Solo, TypeOK, SoloInv, UNCHANGED <<store, storeFaults>>,
         NEW c \in Client, run[c].pc \in ObjectWalks,
         NEW t, run' = [run EXCEPT ![c] = t], Sane(t)'
  PROVE  SoloInv'
<1>1. Owns(run[c])
  BY AtPoint DEF ObjectWalks, Unsettled, Claimed, PC
<1>2. store' = store /\ (Sound' <=> Sound)
  BY FaultsStay, Untouched DEF Sound
<1>3. Stored' = Stored /\ \A r : IsLast(r)' = IsLast(r)
  BY <1>2 DEF Stored, IsLast
<1>4. Sound => IsLast(run[c].rel.rev) /\ store[run[c].rel.rev].status # "deployed"
  BY <1>1 DEF Owns, Claims, Sound
<1>5. \A r, n \in Stored : IsLast(r) /\ IsLast(n) => r = n
  BY DEF IsLast, Stored, Rev
<1>6. Sound => \A r : IsLast(r) => store[r].status # "deployed"
  BY <1>4, <1>5 DEF IsLast
<1>7. LastIsLive'
  BY <1>2, <1>3, <1>6 DEF LastIsLive
<1> QED BY <1>7, Moved

(* A client that crosses a resource off its walk.                          *)
LEMMA Crossed ==
  ASSUME TypeOK, UNCHANGED <<store, storeFaults>>, NEW s \in RunState, s.pc \in ObjectWalks,
         Sane(s), NEW w, w.pc = s.pc, Same(s, w), ClusterAt(w)'
  PROVE  Sane(w)'
<1>1. Placed(w)
  BY OwnsSame DEF Same, Sane, Placed, KindAt, AboutToClaim, Claims
<1>2. Placed(w)'
  BY <1>1, OwnsKept
<1>3. HistoryAt(w)' /\ w.pc # "idle"
  BY DEF HistoryAt, ObjectWalks
<1> QED BY <1>2, <1>3 DEF Sane

(* The outcomes of a call of ApplyManifests.                               *)
LEMMA ApplyingCases ==
  ASSUME TypeOK, NEW c \in Client, NEW pc, NEW ch, NEW done, NEW failed,
         Applying(c, pc, ch, done, failed)
  PROVE  \/ Calm /\ Parses(ch) /\ run[c].todo = {} /\ run' = [run EXCEPT ![c] = done]
         \/ Calm /\ run' = [run EXCEPT ![c] = failed]
         \/ \E r \in run[c].todo : Touched(r, ch) /\ run' = [run EXCEPT ![c] = failed]
         \/ \E r \in run[c].todo :
               /\ Touched(r, ch)
               /\ run' = [run EXCEPT ![c] = [run[c] EXCEPT !.todo = run[c].todo \ {r}]]
<1>1. UNCHANGED <<store, storeFaults>> /\ (UNCHANGED cluster => Calm)
  BY FaultsStay, Untouched DEF Applying, Calm
<1>2. CASE KubeOk /\ Parses(ch) /\ run[c].todo = {} /\ Become(c, done)
  BY <1>1, <1>2 DEF KubeOk, Become
<1>3. CASE KubeOk /\ Become(c, failed)
  BY <1>1, <1>3 DEF KubeOk, Become
<1>4. CASE \E r \in run[c].todo :
              \/ ApplyOk(r, ch) /\ Become(c, [run[c] EXCEPT !.todo = run[c].todo \ {r}])
              \/ ApplyFails(r, ch) /\ Become(c, failed)
  <2>1. PICK r \in run[c].todo :
              \/ ApplyOk(r, ch) /\ Become(c, [run[c] EXCEPT !.todo = run[c].todo \ {r}])
              \/ ApplyFails(r, ch) /\ Become(c, failed)
    BY <1>4
  <2>2. CASE ApplyOk(r, ch) /\ Become(c, [run[c] EXCEPT !.todo = run[c].todo \ {r}])
    BY <1>1, <2>2 DEF ApplyOk, Become, Touched
  <2>3. CASE ApplyFails(r, ch) /\ Become(c, failed)
    BY <1>1, <2>3 DEF ApplyFails, Become, Touched
  <2> QED BY <2>1, <2>2, <2>3
<1> QED BY <1>2, <1>3, <1>4, Zenon DEF Applying

(* The outcomes of a call of DeleteManifests.                              *)
LEMMA DeletingCases ==
  ASSUME TypeOK, NEW c \in Client, NEW pc, NEW done, NEW failed,
         Deleting(c, pc, done, failed)
  PROVE  \/ Calm /\ run[c].todo = {} /\ run' = [run EXCEPT ![c] = done]
         \/ Calm /\ run' = [run EXCEPT ![c] = failed]
         \/ \E r \in run[c].todo : Touched(r, Absent) /\ run' = [run EXCEPT ![c] = failed]
         \/ \E r \in run[c].todo :
               /\ Touched(r, Absent)
               /\ run' = [run EXCEPT ![c] = [run[c] EXCEPT !.todo = run[c].todo \ {r}]]
<1>1. UNCHANGED <<store, storeFaults>> /\ (UNCHANGED cluster => Calm)
  BY FaultsStay, Untouched DEF Deleting, Calm
<1>2. CASE KubeOk /\ run[c].todo = {} /\ Become(c, done)
  BY <1>1, <1>2 DEF KubeOk, Become
<1>4. CASE \E r \in run[c].todo :
              \/ RemoveOk(r) /\ Become(c, [run[c] EXCEPT !.todo = run[c].todo \ {r}])
              \/ RemoveFails(r) /\ Become(c, failed)
  <2>1. PICK r \in run[c].todo :
              \/ RemoveOk(r) /\ Become(c, [run[c] EXCEPT !.todo = run[c].todo \ {r}])
              \/ RemoveFails(r) /\ Become(c, failed)
    BY <1>4
  <2>2. CASE RemoveOk(r) /\ Become(c, [run[c] EXCEPT !.todo = run[c].todo \ {r}])
    BY <1>1, <2>2 DEF RemoveOk, Become, Touched
  <2>3. CASE RemoveFails(r) /\ Become(c, failed)
    BY <1>1, <2>3 DEF RemoveFails, Become, Touched
  <2> QED BY <2>1, <2>2, <2>3
<1> QED BY <1>2, <1>4, Zenon DEF Deleting

(* What changes in the cluster when one object is touched.                 *)
LEMMA TouchedCluster ==
  ASSUME TypeOK, NEW r \in Resource, NEW v, Touched(r, v)
  PROVE  /\ cluster'[r] = v
         /\ \A x \in Resource \ {r} : cluster'[x] = cluster[x]
         /\ UNCHANGED <<store, storeFaults>>
BY DEF TypeOK, ClusterTypeOK, Touched

(* A walk that shrinks: the state with a resource crossed off.             *)
LEMMA CrossedFields ==
  ASSUME NEW s \in RunState, NEW todo
  PROVE  LET w == [s EXCEPT !.todo = todo] IN
         w.pc = s.pc /\ Same(s, w) /\ w.todo = todo
BY InPlaceFields

(* An operation that turns to markFailed from a walk keeps the invariant.  *)
LEMMA FailFromWalk ==
  ASSUME Solo, TypeOK, SoloInv, NEW c \in Client, run[c].pc \in ObjectWalks,
         NEW cause \in Cause, UNCHANGED <<store, storeFaults>>,
         run' = [run EXCEPT ![c] = Fail(run[c], cause)]
  PROVE  SoloInv'
<1>1. PICK s : s = run[c]
  OBVIOUS
<1>2. s \in RunState /\ Owns(s)
  BY <1>1, AtPoint DEF ObjectWalks, Unsettled, Claimed, PC
<1>3. Owns(s)'
  BY <1>2, OwnsKept
<1>4. Sane(Fail(s, cause))'
  BY <1>2, <1>3, ArrivalsHold DEF Arrivals
<1>5. PICK t : t = Fail(s, cause)
  OBVIOUS
<1>6. Sane(t)' /\ run' = [run EXCEPT ![c] = t]
  BY <1>1, <1>4, <1>5
<1> QED BY <1>6, ObjectMove

(* ApplyCRDs: nothing is promised of the cluster yet.                      *)
LEMMA ApplyCRDsSane ==
  ASSUME Solo, TypeOK, SoloInv, NEW c \in Client, ApplyCRDs(c)
  PROVE  SoloInv'
<1>1. PICK s : s = run[c]
  OBVIOUS
<1>2. s.pc = "crds" /\ s.pc \in ObjectWalks /\ UNCHANGED <<store, storeFaults>>
  BY <1>1 DEF ApplyCRDs, At, ObjectWalks
<1>3. s \in Working /\ s \in RunState /\ Owns(s) /\ s.cause = "none" /\ Sane(s)
  BY <1>1, <1>2, AtPoint DEF Unsettled, Claimed, Forward, UndoPoints, PC
<1>4. s.req.kind # "uninstall"
  BY <1>2, <1>3 DEF Sane, Placed, KindAt, UninstallPoints
<1>5. CASE KubeOk /\ Become(c, AfterCRDs(s))
  <2>1. Calm
    BY <1>2, <1>5, FaultsStay, Untouched DEF KubeOk, Calm
  <2> QED BY <1>3, <1>4, <1>5, <2>1, AfterCRDsSane, QuietMove DEF Become
<1>6. CASE \E r \in s.todo : Become(c, [s EXCEPT !.todo = s.todo \ {r}])
  <2>1. PICK r \in s.todo : Become(c, [s EXCEPT !.todo = s.todo \ {r}])
    BY <1>6
  <2>2. PICK w : w = [s EXCEPT !.todo = s.todo \ {r}]
    OBVIOUS
  <2>3. w.pc = s.pc /\ Same(s, w)
    BY <1>3, <2>2, CrossedFields
  <2>4. Sane(w)'
    BY <1>2, <1>3, <2>3, Crossed DEF ClusterAt
  <2> QED BY <1>1, <1>2, <2>1, <2>2, <2>4, ObjectMove DEF Become
<1>7. CASE Become(c, Fail(s, "crds"))
  BY <1>1, <1>2, <1>7, FailFromWalk DEF Become, Cause
<1> QED BY <1>1, <1>5, <1>6, <1>7 DEF ApplyCRDs

(* The deletion that --force asks for: nothing is promised yet either.     *)
LEMMA PreDeleteSane ==
  ASSUME Solo, TypeOK, SoloInv, NEW c \in Client, PreDelete(c)
  PROVE  SoloInv'
<1>1. PICK s : s = run[c]
  OBVIOUS
<1>2. s.pc = "predelete" /\ s.pc \in ObjectWalks /\ UNCHANGED <<store, storeFaults>>
  BY <1>1 DEF PreDelete, Deleting, At, ObjectWalks
<1>3. s \in Working /\ s \in RunState /\ Owns(s) /\ s.cause = "none" /\ Sane(s)
  BY <1>1, <1>2, AtPoint DEF Unsettled, Claimed, Forward, UndoPoints, PC
<1>4. s.req.kind # "uninstall"
  BY <1>2, <1>3 DEF Sane, Placed, KindAt, UninstallPoints
<1>5. Deleting(c, "predelete", ToApply(s), Fail(s, "force"))
  BY <1>1 DEF PreDelete
<1>6. CASE Calm /\ run' = [run EXCEPT ![c] = ToApply(s)]
  BY <1>3, <1>4, <1>6, ToApplySane, QuietMove
<1>7. CASE \E r \in s.todo : run' = [run EXCEPT ![c] = [s EXCEPT !.todo = s.todo \ {r}]]
  <2>1. PICK r \in s.todo : run' = [run EXCEPT ![c] = [s EXCEPT !.todo = s.todo \ {r}]]
    BY <1>7
  <2>2. PICK w : w = [s EXCEPT !.todo = s.todo \ {r}]
    OBVIOUS
  <2>3. w.pc = s.pc /\ Same(s, w)
    BY <1>3, <2>2, CrossedFields
  <2>4. Sane(w)'
    BY <1>2, <1>3, <2>3, Crossed DEF ClusterAt
  <2> QED BY <1>1, <1>2, <2>1, <2>2, <2>4, ObjectMove
<1>8. CASE run' = [run EXCEPT ![c] = Fail(s, "force")]
  BY <1>1, <1>2, <1>8, FailFromWalk DEF Cause
<1> QED BY <1>1, <1>5, <1>6, <1>7, <1>8, DeletingCases

(* ApplyManifests: what is crossed off is live.                            *)
LEMMA ApplyReleaseSane ==
  ASSUME Solo, TypeOK, SoloInv, NEW c \in Client, ApplyRelease(c)
  PROVE  SoloInv'
<1>1. PICK s : s = run[c]
  OBVIOUS
<1>2. s.pc = "apply" /\ s.pc \in ObjectWalks /\ UNCHANGED <<store, storeFaults>>
  BY <1>1 DEF ApplyRelease, Applying, At, ObjectWalks
<1>3. s \in Working /\ s \in RunState /\ Owns(s) /\ s.cause = "none" /\ Sane(s)
  BY <1>1, <1>2, AtPoint DEF Unsettled, Claimed, Forward, UndoPoints, PC
<1>4. /\ s.req.kind # "uninstall"
      /\ \A x \in Manifest[s.rel.chart] \ s.todo : cluster[x] = s.rel.chart
  BY <1>2, <1>3 DEF Sane, Placed, KindAt, UninstallPoints, ClusterAt
<1>5. Applying(c, "apply", s.rel.chart, AfterApply(s), Fail(s, "apply"))
  BY <1>1 DEF ApplyRelease
<1>6. CASE Calm /\ s.todo = {} /\ run' = [run EXCEPT ![c] = AfterApply(s)]
  <2>1. InPlace(s.rel.chart)
    BY <1>4, <1>6 DEF InPlace
  <2> QED BY <1>3, <1>4, <1>6, <2>1, AfterApplySane, QuietMove
<1>7. CASE \E r \in s.todo : /\ Touched(r, s.rel.chart)
                             /\ run' = [run EXCEPT ![c] = [s EXCEPT !.todo = s.todo \ {r}]]
  <2>1. PICK r \in s.todo : /\ Touched(r, s.rel.chart)
                            /\ run' = [run EXCEPT ![c] = [s EXCEPT !.todo = s.todo \ {r}]]
    BY <1>7
  <2>2. PICK w : w = [s EXCEPT !.todo = s.todo \ {r}]
    OBVIOUS
  <2>3. w.pc = s.pc /\ Same(s, w) /\ w.todo = s.todo \ {r}
    BY <1>3, <2>2, CrossedFields
  <2>4. r \in Resource /\ Manifest[s.rel.chart] \subseteq Resource
    BY <1>3, WorkingHolds, ManifestType
  <2>5. \A x \in Manifest[s.rel.chart] \ w.todo : cluster'[x] = s.rel.chart
    BY <1>4, <2>1, <2>3, <2>4, TouchedCluster
  <2>6. ClusterAt(w)'
    BY <1>2, <2>3, <2>5 DEF ClusterAt, Same
  <2>7. Sane(w)'
    BY <1>2, <1>3, <2>3, <2>6, Crossed
  <2> QED BY <1>1, <1>2, <2>1, <2>2, <2>7, ObjectMove
<1>8. CASE run' = [run EXCEPT ![c] = Fail(s, "apply")]
  BY <1>1, <1>2, <1>8, FailFromWalk DEF Cause
<1> QED BY <1>1, <1>5, <1>6, <1>7, <1>8, ApplyingCases

(* What an upgrade drops is none of what it has put in place.              *)
LEMMA PruneRemovedSane ==
  ASSUME Solo, TypeOK, SoloInv, NEW c \in Client, PruneRemoved(c)
  PROVE  SoloInv'
<1>1. PICK s : s = run[c]
  OBVIOUS
<1>2. s.pc = "dropped" /\ s.pc \in ObjectWalks /\ UNCHANGED <<store, storeFaults>>
  BY <1>1 DEF PruneRemoved, Deleting, At, ObjectWalks
<1>3. s \in Working /\ s \in RunState /\ Owns(s) /\ s.cause = "none" /\ Sane(s)
  BY <1>1, <1>2, AtPoint DEF Unsettled, Claimed, Forward, UndoPoints, PC
<1>4. /\ s.req.kind # "uninstall" /\ InPlace(s.rel.chart)
      /\ s.todo \cap Manifest[s.rel.chart] = {}
  BY <1>2, <1>3 DEF Sane, Placed, KindAt, UninstallPoints, ClusterAt
<1>5. Deleting(c, "dropped", To(s, "deploy"), To(Warn(s), "deploy"))
  BY <1>1 DEF PruneRemoved
<1>6. Manifest[s.rel.chart] \subseteq Resource /\ s.todo \subseteq Resource
  BY <1>3, WorkingHolds, ManifestType
<1>7. \A r \in s.todo : Touched(r, Absent) => InPlace(s.rel.chart)'
  BY <1>4, <1>6, TouchedCluster DEF InPlace
<1>8. Warn(s) \in RunState /\ Warn(s).rel = s.rel /\ Warn(s).req = s.req /\ Warn(s).cause = "none"
      /\ Owns(Warn(s))
  BY <1>3, WarnFields, OwnsSame
<1>9. CASE Calm /\ run' = [run EXCEPT ![c] = To(s, "deploy")]
  BY <1>3, <1>4, <1>9, LiveSane, QuietMove
<1>10. CASE Calm /\ run' = [run EXCEPT ![c] = To(Warn(s), "deploy")]
  BY <1>4, <1>8, <1>10, LiveSane, QuietMove
<1>11. CASE \E r \in s.todo : /\ Touched(r, Absent)
                              /\ run' = [run EXCEPT ![c] = To(Warn(s), "deploy")]
  <2>1. PICK u : u = Warn(s)
    OBVIOUS
  <2>2. Owns(u)' /\ InPlace(u.rel.chart)'
    BY <1>2, <1>7, <1>8, <1>11, <2>1, OwnsKept
  <2>3. Sane(To(u, "deploy"))'
    BY <1>4, <1>8, <2>1, <2>2, ArrivalsHold DEF Arrivals
  <2>4. PICK t : t = To(u, "deploy")
    OBVIOUS
  <2>5. Sane(t)' /\ run' = [run EXCEPT ![c] = t]
    BY <1>11, <2>1, <2>3, <2>4
  <2> QED BY <1>1, <1>2, <2>5, ObjectMove
<1>12. CASE \E r \in s.todo : /\ Touched(r, Absent)
                              /\ run' = [run EXCEPT ![c] = [s EXCEPT !.todo = s.todo \ {r}]]
  <2>1. PICK r \in s.todo : /\ Touched(r, Absent)
                            /\ run' = [run EXCEPT ![c] = [s EXCEPT !.todo = s.todo \ {r}]]
    BY <1>12
  <2>2. PICK w : w = [s EXCEPT !.todo = s.todo \ {r}]
    OBVIOUS
  <2>3. w.pc = s.pc /\ Same(s, w) /\ w.todo = s.todo \ {r}
    BY <1>3, <2>2, CrossedFields
  <2>4. InPlace(w.rel.chart)' /\ w.todo \cap Manifest[w.rel.chart] = {}
    BY <1>4, <1>7, <2>1, <2>3 DEF Same
  <2>5. ClusterAt(w)'
    BY <1>2, <2>3, <2>4 DEF ClusterAt
  <2>6. Sane(w)'
    BY <1>2, <1>3, <2>3, <2>5, Crossed
  <2> QED BY <1>1, <1>2, <2>1, <2>2, <2>6, ObjectMove
<1> QED BY <1>1, <1>5, <1>9, <1>10, <1>11, <1>12, DeletingCases

(* The deletion of an uninstall: what is crossed off is gone.              *)
LEMMA DeleteReleaseSane ==
  ASSUME Solo, TypeOK, SoloInv, NEW c \in Client, DeleteRelease(c)
  PROVE  SoloInv'
<1>1. PICK s : s = run[c]
  OBVIOUS
<1>2. s.pc = "delete" /\ s.pc \in ObjectWalks /\ UNCHANGED <<store, storeFaults>>
  BY <1>1 DEF DeleteRelease, Deleting, At, ObjectWalks
<1>3. s \in Working /\ s \in RunState /\ Owns(s) /\ s.cause = "none" /\ Sane(s)
  BY <1>1, <1>2, AtPoint DEF Unsettled, Claimed, Forward, UndoPoints, PC
<1>4. s.req.kind = "uninstall" /\ AllGone(Doomed(s.rel.chart) \ s.todo)
  BY <1>2, <1>3 DEF Sane, Placed, KindAt, UninstallPoints, ClusterAt
<1>5. PICK pc \in {"gone", "postdelete"} :
        Deleting(c, "delete", To(s, pc), Fail(s, "delete"))
  BY <1>1 DEF DeleteRelease
<1>6. CASE Calm /\ s.todo = {} /\ run' = [run EXCEPT ![c] = To(s, pc)]
  <2>1. AllGone(Doomed(s.rel.chart))
    BY <1>4, <1>6
  <2> QED BY <1>3, <1>4, <1>6, <2>1, GoneSane, QuietMove
<1>7. CASE \E r \in s.todo : /\ Touched(r, Absent)
                             /\ run' = [run EXCEPT ![c] = [s EXCEPT !.todo = s.todo \ {r}]]
  <2>1. PICK r \in s.todo : /\ Touched(r, Absent)
                            /\ run' = [run EXCEPT ![c] = [s EXCEPT !.todo = s.todo \ {r}]]
    BY <1>7
  <2>2. PICK w : w = [s EXCEPT !.todo = s.todo \ {r}]
    OBVIOUS
  <2>3. w.pc = s.pc /\ Same(s, w) /\ w.todo = s.todo \ {r}
    BY <1>3, <2>2, CrossedFields
  <2>4. r \in Resource /\ Doomed(s.rel.chart) \subseteq Resource
    BY <1>3, WorkingHolds, ManifestType DEF Doomed, WithoutCRDs
  <2>5. \A x \in Doomed(s.rel.chart) \ w.todo : cluster'[x] = Absent
    BY <1>4, <2>1, <2>3, <2>4, TouchedCluster DEF AllGone
  <2>6. ClusterAt(w)'
    BY <1>2, <2>3, <2>5 DEF ClusterAt, AllGone, Same
  <2>7. Sane(w)'
    BY <1>2, <1>3, <2>3, <2>6, Crossed
  <2> QED BY <1>1, <1>2, <2>1, <2>2, <2>7, ObjectMove
<1>8. CASE run' = [run EXCEPT ![c] = Fail(s, "delete")]
  BY <1>1, <1>2, <1>8, FailFromWalk DEF Cause
<1> QED BY <1>1, <1>5, <1>6, <1>7, <1>8, DeletingCases

(* The previous manifest again, after an upgrade that never became ready.  *)
LEMMA ReapplyPreviousSane ==
  ASSUME Solo, TypeOK, SoloInv, NEW c \in Client, ReapplyPrevious(c)
  PROVE  SoloInv'
<1>1. PICK s : s = run[c]
  OBVIOUS
<1> DEFINE N(u) == WalkIfParsed(u, "cleanup", Orphans(s.rel.chart, s.cur.chart),
                                Parses(s.rel.chart) /\ Parses(s.cur.chart))
<1>2. s.pc = "reapply" /\ s.pc \in ObjectWalks /\ UNCHANGED <<store, storeFaults>>
  BY <1>1 DEF ReapplyPrevious, Applying, At, ObjectWalks
<1>3. s \in Working /\ s \in RunState /\ Owns(s) /\ Sane(s)
  BY <1>1, <1>2, AtPoint DEF Unsettled, Claimed, PC
<1>4. s.req.kind = "upgrade"
  BY <1>2, <1>3 DEF Sane, Placed, KindAt
<1>5. Warn(s) \in RunState /\ Warn(s).req = s.req /\ Owns(Warn(s))
  BY <1>3, WarnFields, OwnsSame
<1>6. Warn(Warn(s)) \in RunState /\ Warn(Warn(s)).req = s.req /\ Owns(Warn(Warn(s)))
  BY <1>5, WarnFields, OwnsSame
<1>7. /\ N(s) = Walk(s, "cleanup", Orphans(s.rel.chart, s.cur.chart))
         \/ N(s) = Walk(Warn(s), "cleanup", {})
      /\ N(Warn(s)) = Walk(Warn(s), "cleanup", Orphans(s.rel.chart, s.cur.chart))
         \/ N(Warn(s)) = Walk(Warn(Warn(s)), "cleanup", {})
  BY DEF WalkIfParsed
<1>8. Applying(c, "reapply", s.cur.chart, N(s), N(Warn(s)))
  BY <1>1 DEF ReapplyPrevious
<1> HIDE DEF N
<1>9. Sane(N(s)) /\ Sane(N(Warn(s)))
  BY <1>3, <1>4, <1>5, <1>6, <1>7, RecoveryWalk
<1>10. CASE Calm /\ (run' = [run EXCEPT ![c] = N(s)] \/ run' = [run EXCEPT ![c] = N(Warn(s))])
  BY <1>9, <1>10, QuietMove
<1>11. CASE \E r \in s.todo : run' = [run EXCEPT ![c] = [s EXCEPT !.todo = s.todo \ {r}]]
  <2>1. PICK r \in s.todo : run' = [run EXCEPT ![c] = [s EXCEPT !.todo = s.todo \ {r}]]
    BY <1>11
  <2>2. PICK w : w = [s EXCEPT !.todo = s.todo \ {r}]
    OBVIOUS
  <2>3. w.pc = s.pc /\ Same(s, w)
    BY <1>3, <2>2, CrossedFields
  <2>4. Sane(w)'
    BY <1>2, <1>3, <2>3, Crossed DEF ClusterAt
  <2> QED BY <1>1, <1>2, <2>1, <2>2, <2>4, ObjectMove
<1>12. CASE run' = [run EXCEPT ![c] = N(Warn(s))]
  <2>1. PICK u : u = Warn(s)
    OBVIOUS
  <2>2. PICK v : v = Warn(u)
    OBVIOUS
  <2>3. Owns(u)' /\ Owns(v)'
    BY <1>2, <1>5, <1>6, <2>1, <2>2, OwnsKept
  <2>4. /\ \A todo : Sane(Walk(u, "cleanup", todo))'
        /\ \A todo : Sane(Walk(v, "cleanup", todo))'
    BY <1>4, <1>5, <1>6, <2>1, <2>2, <2>3, ArrivalsHold DEF Arrivals
  <2>5. PICK t : t = N(u)
    OBVIOUS
  <2>6. \E todo : t = Walk(u, "cleanup", todo) \/ t = Walk(v, "cleanup", todo)
    BY <1>7, <2>1, <2>2, <2>5
  <2>7. Sane(t)' /\ run' = [run EXCEPT ![c] = t]
    BY <1>12, <2>1, <2>4, <2>5, <2>6
  <2> QED BY <1>1, <1>2, <2>7, ObjectMove
<1> QED BY <1>1, <1>8, <1>10, <1>11, <1>12, ApplyingCases

(* The deletion of the cleanup: after it a failed install reports that it  *)
(* left nothing, or that it may have.                                      *)
LEMMA CleanUpSane ==
  ASSUME Solo, TypeOK, SoloInv, NEW c \in Client, CleanUp(c)
  PROVE  SoloInv'
<1>1. PICK s : s = run[c]
  OBVIOUS
<1>2. s.pc = "cleanup" /\ s.pc \in ObjectWalks /\ UNCHANGED <<store, storeFaults>>
  BY <1>1 DEF CleanUp, Deleting, At, ObjectWalks
<1>3. s \in Working /\ s \in RunState /\ Owns(s) /\ Sane(s)
  BY <1>1, <1>2, AtPoint DEF Unsettled, Claimed, PC
<1>4. s.req.kind = "install" => s.sec \/ AllGone(Deletable(s.rel.chart) \ s.todo)
  BY <1>2, <1>3 DEF Sane, ClusterAt
<1>5. Warn(s) \in RunState /\ Warn(s).sec /\ Owns(Warn(s))
  BY <1>3, WarnFields, OwnsSame
<1>6. Reportable(Warn(s))
  BY <1>5 DEF Reportable
<1>7. Deleting(c, "cleanup", AfterCleanup(s), AfterCleanup(Warn(s)))
  BY <1>1 DEF CleanUp
<1>8. CASE Calm /\ s.todo = {} /\ run' = [run EXCEPT ![c] = AfterCleanup(s)]
  <2>1. Reportable(s)
    BY <1>4, <1>8 DEF Reportable
  <2> QED BY <1>3, <1>8, <2>1, AfterCleanupSane, QuietMove
<1>9. CASE run' = [run EXCEPT ![c] = AfterCleanup(Warn(s))]
  <2>1. PICK u : u = Warn(s)
    OBVIOUS
  <2>2. Owns(u)' /\ u.sec
    BY <1>2, <1>5, <2>1, OwnsKept
  <2>3. Reportable(u)'
    BY <2>2 DEF Reportable
  <2>4. Sane(AfterCleanup(u))'
    BY <1>5, <2>1, <2>2, <2>3, ArrivalsHold DEF Arrivals
  <2>5. PICK t : t = AfterCleanup(u)
    OBVIOUS
  <2>6. Sane(t)' /\ run' = [run EXCEPT ![c] = t]
    BY <1>9, <2>1, <2>4, <2>5
  <2> QED BY <1>1, <1>2, <2>6, ObjectMove
<1>10. CASE \E r \in s.todo : /\ Touched(r, Absent)
                              /\ run' = [run EXCEPT ![c] = [s EXCEPT !.todo = s.todo \ {r}]]
  <2>1. PICK r \in s.todo : /\ Touched(r, Absent)
                            /\ run' = [run EXCEPT ![c] = [s EXCEPT !.todo = s.todo \ {r}]]
    BY <1>10
  <2>2. PICK w : w = [s EXCEPT !.todo = s.todo \ {r}]
    OBVIOUS
  <2>3. w.pc = s.pc /\ Same(s, w) /\ w.todo = s.todo \ {r}
    BY <1>3, <2>2, CrossedFields
  <2>4. r \in Resource /\ Deletable(s.rel.chart) \subseteq Resource
    BY <1>3, WorkingHolds, ManifestType
  <2>5. s.req.kind = "install" /\ ~s.sec =>
           \A x \in Deletable(s.rel.chart) \ w.todo : cluster'[x] = Absent
    BY <1>4, <2>1, <2>3, <2>4, TouchedCluster DEF AllGone
  <2>6. ClusterAt(w)'
    BY <1>2, <2>3, <2>5 DEF ClusterAt, AllGone, Same
  <2>7. Sane(w)'
    BY <1>2, <1>3, <2>3, <2>6, Crossed
  <2> QED BY <1>1, <1>2, <2>1, <2>2, <2>7, ObjectMove
<1> QED BY <1>1, <1>7, <1>8, <1>9, <1>10, DeletingCases

(* atomicRollbackUpgrade deletes what only the failed manifest declares.   *)
LEMMA UndoDeleteSane ==
  ASSUME Solo, TypeOK, SoloInv, NEW c \in Client, UndoDelete(c)
  PROVE  SoloInv'
<1>1. PICK s : s = run[c]
  OBVIOUS
<1> DEFINE N(u) == Walk(u, "undoapply", Manifest[s.cur.chart])
<1>2. s.pc = "undodelete" /\ s.pc \in ObjectWalks /\ UNCHANGED <<store, storeFaults>>
  BY <1>1 DEF UndoDelete, Deleting, At, ObjectWalks
<1>3. s \in Working /\ s \in RunState /\ Owns(s) /\ Sane(s)
  BY <1>1, <1>2, AtPoint DEF Unsettled, Claimed, PC
<1>4. /\ s.req.kind = "upgrade"
      /\ s.sec \/ AllGone(Orphans(s.rel.chart, s.cur.chart) \ s.todo)
  BY <1>2, <1>3 DEF Sane, Placed, KindAt, UndoPoints, ClusterAt
<1>5. /\ Warn(s) \in RunState /\ Warn(s).sec /\ Warn(s).req = s.req /\ Warn(s).cur = s.cur
      /\ Owns(Warn(s))
  BY <1>3, WarnFields, OwnsSame
<1>6. Deleting(c, "undodelete", N(s), N(Warn(s)))
  BY <1>1 DEF UndoDelete
<1>7. CASE Calm /\ s.todo = {} /\ run' = [run EXCEPT ![c] = N(s)]
  <2>1. Undone(s)
    BY <1>4, <1>7 DEF Undone
  <2> QED BY <1>3, <1>4, <1>7, <2>1, UndoApplyWalk, QuietMove
<1>8. CASE run' = [run EXCEPT ![c] = N(Warn(s))]
  <2>1. PICK u : u = Warn(s)
    OBVIOUS
  <2>2. Owns(u)' /\ u.sec
    BY <1>2, <1>5, <2>1, OwnsKept
  <2>3. Undone(u)'
    BY <2>2 DEF Undone
  <2>4. Sane(Walk(u, "undoapply", Manifest[u.cur.chart]))'
    BY <1>4, <1>5, <2>1, <2>2, <2>3, ArrivalsHold DEF Arrivals
  <2>5. PICK t : t = Walk(u, "undoapply", Manifest[u.cur.chart])
    OBVIOUS
  <2>6. Sane(t)' /\ run' = [run EXCEPT ![c] = t]
    BY <1>5, <1>8, <2>1, <2>4, <2>5
  <2> QED BY <1>1, <1>2, <2>6, ObjectMove
<1>9. CASE \E r \in s.todo : /\ Touched(r, Absent)
                             /\ run' = [run EXCEPT ![c] = [s EXCEPT !.todo = s.todo \ {r}]]
  <2>1. PICK r \in s.todo : /\ Touched(r, Absent)
                            /\ run' = [run EXCEPT ![c] = [s EXCEPT !.todo = s.todo \ {r}]]
    BY <1>9
  <2>2. PICK w : w = [s EXCEPT !.todo = s.todo \ {r}]
    OBVIOUS
  <2>3. w.pc = s.pc /\ Same(s, w) /\ w.todo = s.todo \ {r}
    BY <1>3, <2>2, CrossedFields
  <2>4. r \in Resource /\ Orphans(s.rel.chart, s.cur.chart) \subseteq Resource
    BY <1>3, <1>4, WorkingHolds, ManifestType
  <2>5. ~s.sec =>
           \A x \in Orphans(s.rel.chart, s.cur.chart) \ w.todo : cluster'[x] = Absent
    BY <1>4, <2>1, <2>3, <2>4, TouchedCluster DEF AllGone
  <2>6. ClusterAt(w)'
    BY <1>2, <2>3, <2>5 DEF ClusterAt, AllGone, Same
  <2>7. Sane(w)'
    BY <1>2, <1>3, <2>3, <2>6, Crossed
  <2> QED BY <1>1, <1>2, <2>1, <2>2, <2>7, ObjectMove
<1> QED BY <1>1, <1>6, <1>7, <1>8, <1>9, DeletingCases

(* It applies the previous manifest, which declares none of what it has    *)
(* just deleted.                                                           *)
LEMMA UndoApplySane ==
  ASSUME Solo, TypeOK, SoloInv, NEW c \in Client, UndoApply(c)
  PROVE  SoloInv'
<1>1. PICK s : s = run[c]
  OBVIOUS
<1>2. s.pc = "undoapply" /\ s.pc \in ObjectWalks /\ UNCHANGED <<store, storeFaults>>
  BY <1>1 DEF UndoApply, Applying, At, ObjectWalks
<1>3. s \in Working /\ s \in RunState /\ Owns(s) /\ Sane(s)
  BY <1>1, <1>2, AtPoint DEF Unsettled, Claimed, PC
<1>4. /\ s.req.kind = "upgrade" /\ Undone(s) /\ s.todo \subseteq Manifest[s.cur.chart]
      /\ \A x \in Manifest[s.cur.chart] \ s.todo : cluster[x] = s.cur.chart
  BY <1>2, <1>3 DEF Sane, Placed, KindAt, UndoPoints, ClusterAt
<1>5. /\ Warn(s) \in RunState /\ Warn(s).sec /\ Warn(s).req = s.req
      /\ Owns(Warn(s)) /\ Undone(Warn(s))
  BY <1>3, WarnFields, OwnsSame DEF Undone
<1>6. Applying(c, "undoapply", s.cur.chart, To(s, "undofailed"), To(Warn(s), "undofailed"))
  BY <1>1 DEF UndoApply
<1>7. CASE Calm /\ s.todo = {} /\ run' = [run EXCEPT ![c] = To(s, "undofailed")]
  <2>1. InPlace(s.cur.chart)
    BY <1>4, <1>7 DEF InPlace
  <2> QED BY <1>3, <1>4, <1>7, <2>1, UndoWriteSane, QuietMove
<1>8. CASE run' = [run EXCEPT ![c] = To(Warn(s), "undofailed")]
  <2>1. PICK u : u = Warn(s)
    OBVIOUS
  <2>2. Owns(u)' /\ u.sec
    BY <1>2, <1>5, <2>1, OwnsKept
  <2>3. Undone(u)'
    BY <2>2 DEF Undone
  <2>4. Sane(To(u, "undofailed"))'
    BY <1>4, <1>5, <2>1, <2>2, <2>3, ArrivalsHold DEF Arrivals
  <2>5. PICK t : t = To(u, "undofailed")
    OBVIOUS
  <2>6. Sane(t)' /\ run' = [run EXCEPT ![c] = t]
    BY <1>8, <2>1, <2>4, <2>5
  <2> QED BY <1>1, <1>2, <2>6, ObjectMove
<1>9. CASE \E r \in s.todo : /\ Touched(r, s.cur.chart)
                             /\ run' = [run EXCEPT ![c] = [s EXCEPT !.todo = s.todo \ {r}]]
  <2>1. PICK r \in s.todo : /\ Touched(r, s.cur.chart)
                            /\ run' = [run EXCEPT ![c] = [s EXCEPT !.todo = s.todo \ {r}]]
    BY <1>9
  <2>2. PICK w : w = [s EXCEPT !.todo = s.todo \ {r}]
    OBVIOUS
  <2>3. w.pc = s.pc /\ Same(s, w) /\ w.todo = s.todo \ {r}
    BY <1>3, <2>2, CrossedFields
  <2>4. /\ r \in Resource /\ Orphans(s.rel.chart, s.cur.chart) \subseteq Resource
        /\ Manifest[s.cur.chart] \subseteq Resource
    BY <1>3, <1>4, WorkingHolds, ManifestType
  <2>5. \A x \in Manifest[s.cur.chart] \ w.todo : cluster'[x] = s.cur.chart
    BY <1>4, <2>1, <2>3, <2>4, TouchedCluster
  <2>6. r \notin Orphans(s.rel.chart, s.cur.chart)
    BY <1>4, <2>1 DEF Orphans
  <2>7. Undone(w)'
    BY <1>4, <2>1, <2>3, <2>4, <2>6, TouchedCluster DEF Undone, AllGone, Same
  <2>8. ClusterAt(w)'
    BY <1>2, <1>4, <2>3, <2>5, <2>7 DEF ClusterAt, Same
  <2>9. Sane(w)'
    BY <1>2, <1>3, <2>3, <2>8, Crossed
  <2> QED BY <1>1, <1>2, <2>1, <2>2, <2>9, ObjectMove
<1> QED BY <1>1, <1>6, <1>7, <1>8, <1>9, ApplyingCases

-----------------------------------------------------------------------------
(* Calls that write a record.                                              *)

(* A record replaced by another of the same revision.                      *)
Overwrites(x) == /\ x.rev \in Stored /\ Put(x) /\ UNCHANGED cluster
                 /\ StoreReliable' => StoreReliable

(* The outcomes of storage.Update: written; not written; written, but the  *)
(* reply was lost.                                                         *)
LEMMA WritingCases ==
  ASSUME TypeOK, NEW c \in Client, NEW pc, NEW x, NEW done, NEW failed,
         Writing(c, pc, x, done, failed)
  PROVE  \/ Overwrites(x) /\ run' = [run EXCEPT ![c] = done]
         \/ Calm /\ run' = [run EXCEPT ![c] = failed]
         \/ Overwrites(x) /\ ~StoreReliable' /\ run' = [run EXCEPT ![c] = failed]
<1>1. UNCHANGED cluster
  BY DEF Writing
<1>2. /\ UNCHANGED storeFaults => (StoreReliable' <=> StoreReliable)
      /\ StoreFault => ~StoreReliable'
  BY FaultsStay, Untouched
<1>3. CASE UpdateOk(x) /\ Become(c, done)
  BY <1>1, <1>2, <1>3 DEF UpdateOk, Overwrites, Become
<1>4. CASE UpdateFails(x) /\ Become(c, failed)
  BY <1>1, <1>2, <1>4 DEF UpdateFails, Overwrites, Become, Calm
<1> QED BY <1>3, <1>4 DEF Writing

(* Those of an update that is tried three times.                           *)
LEMMA RetriedCases ==
  ASSUME TypeOK, NEW c \in Client, NEW pc, NEW x, NEW done, NEW failed,
         RetriedUpdate(c, pc, x, done, failed)
  PROVE  \/ Overwrites(x) /\ run' = [run EXCEPT ![c] = done]
         \/ \E next : /\ next = failed \/ \E tries : next = [run[c] EXCEPT !.tries = tries]
                      /\ Calm \/ (Overwrites(x) /\ ~StoreReliable')
                      /\ run' = [run EXCEPT ![c] = next]
<1>1. PICK next : next = IF run[c].tries < 2 THEN [run[c] EXCEPT !.tries = run[c].tries + 1]
                          ELSE failed
  OBVIOUS
<1>2. Writing(c, pc, x, done, next)
  BY <1>1, Zenon DEF RetriedUpdate
<1>3. next = failed \/ \E tries : next = [run[c] EXCEPT !.tries = tries]
  BY <1>1
<1>4. \/ Overwrites(x) /\ run' = [run EXCEPT ![c] = done]
      \/ Calm /\ run' = [run EXCEPT ![c] = next]
      \/ Overwrites(x) /\ ~StoreReliable' /\ run' = [run EXCEPT ![c] = next]
  BY <1>2, WritingCases, Zenon
<1> QED BY <1>3, <1>4

(* The stored revisions stay, and so does which of them is the newest.     *)
LEMMA Overwritten ==
  ASSUME TypeOK, NEW x \in Release, Overwrites(x)
  PROVE  /\ store'[x.rev] = [chart |-> x.chart, status |-> x.status]
         /\ \A r \in Rev \ {x.rev} : store'[r] = store[r]
         /\ Stored' = Stored /\ \A r : IsLast(r)' = IsLast(r)
         /\ Sound' => Sound
<1>1. x.rev \in Rev /\ x.chart # NoChart
  BY NoChartAssumption DEF Release
<1>2. store' = [store EXCEPT ![x.rev] = [chart |-> x.chart, status |-> x.status]]
  BY DEF Overwrites, Put
<1>3. /\ store'[x.rev] = [chart |-> x.chart, status |-> x.status]
      /\ \A r \in Rev \ {x.rev} : store'[r] = store[r]
  BY <1>1, <1>2 DEF TypeOK, StoreTypeOK
<1>4. [chart |-> x.chart, status |-> x.status] # NoRecord
  BY <1>1 DEF NoRecord
<1>5. Stored' = Stored
  BY <1>1, <1>3, <1>4 DEF Stored, Overwrites
<1> QED BY <1>3, <1>5 DEF IsLast, Overwrites, Sound

(* So an operation keeps its claim when the record is its own.             *)
LEMMA ClaimsKept ==
  ASSUME TypeOK, NEW x \in Release, Overwrites(x), NEW s \in Working, Claims(s),
         s.req.kind # "uninstall" \/ (x.rev = s.rel.rev /\ x.chart = s.rel.chart)
  PROVE  Claims(s)'
<1>1. /\ store'[x.rev] = [chart |-> x.chart, status |-> x.status]
      /\ \A r : IsLast(r)' = IsLast(r)
  BY Overwritten
<1> QED BY <1>1 DEF Claims

(* A record that says deployed is the newest only when it is live.         *)
LEMMA LiveKept ==
  ASSUME TypeOK, SoloInv, NEW x \in Release, Overwrites(x),
         x.status = "deployed" => ~IsLast(x.rev) \/ InPlace(x.chart)
  PROVE  LastIsLive'
<1>1. /\ store'[x.rev] = [chart |-> x.chart, status |-> x.status]
      /\ \A r \in Rev \ {x.rev} : store'[r] = store[r]
      /\ \A r : IsLast(r)' = IsLast(r)
      /\ Sound' => Sound
  BY Overwritten
<1>2. cluster' = cluster
  BY DEF Overwrites
<1>3. SUFFICES ASSUME Sound', NEW r \in Rev, IsLast(r)', store'[r].status = "deployed"
               PROVE  \A y \in Manifest[store'[r].chart] : cluster'[y] = store'[r].chart
  BY DEF LastIsLive, InPlace
<1>4. Sound /\ IsLast(r)
  BY <1>1, <1>3
<1>5. CASE r = x.rev
  BY <1>1, <1>2, <1>3, <1>4, <1>5 DEF InPlace
<1>6. CASE r # x.rev
  <2>1. store'[r] = store[r]
    BY <1>1, <1>6
  <2>2. InPlace(store[r].chart)
    BY <1>3, <1>4, <2>1 DEF SoloInv, LastIsLive
  <2> QED BY <1>2, <2>1, <2>2 DEF InPlace
<1> QED BY <1>5, <1>6

(* storage.Create: the revision is the newest, and pending.                *)
LEMMA CreateRevisionSane ==
  ASSUME Solo, TypeOK, SoloInv, NEW c \in Client, CreateRevision(c)
  PROVE  SoloInv'
<1>1. PICK s : s = run[c]
  OBVIOUS
<1>2. s.pc = "create" /\ UNCHANGED cluster
  BY <1>1 DEF CreateRevision, At
<1>3. s \in Working /\ s \in RunState /\ s.cause = "none" /\ Sane(s)
  BY <1>1, <1>2, AtPoint DEF Forward, UndoPoints, PC
<1>4. /\ s.req.kind # "uninstall" /\ AboutToClaim(s) /\ s.rel \in Release /\ s.rel.rev \in Rev
      /\ s.req.kind # "install" => s.cur \in Release
  BY <1>2, <1>3, WorkingHolds DEF Sane, Placed, KindAt, UninstallPoints
<1>5. CASE Calm /\ Become(c, GiveUp(s))
  BY <1>3, <1>5, GiveUpSane, QuietMove DEF Become
<1>6. CASE ~StoreReliable' /\ Become(c, GiveUp(s))
  <2>1. Sane(GiveUp(s))'
    BY <1>3, ArrivalsHold DEF Arrivals
  <2>2. PICK t : t = GiveUp(s)
    OBVIOUS
  <2>3. Sane(t)' /\ LastIsLive' /\ run' = [run EXCEPT ![c] = t]
    BY <1>6, <2>1, <2>2 DEF LastIsLive, Sound, Become
  <2> QED BY <2>3, Moved
<1>7. CASE CreateOk(s.rel) /\ Become(c, To(s, "pre"))
  <2>1. s.rel.rev \notin Stored /\ (StoreReliable' <=> StoreReliable)
        /\ store' = [store EXCEPT ![s.rel.rev] = [chart |-> s.rel.chart, status |-> s.rel.status]]
    BY <1>7, FaultsStay, Untouched DEF CreateOk, Put
  <2>2. /\ store'[s.rel.rev] = [chart |-> s.rel.chart, status |-> s.rel.status]
        /\ \A r \in Rev \ {s.rel.rev} : store'[r] = store[r]
    BY <1>4, <2>1 DEF TypeOK, StoreTypeOK
  <2>3. s.rel.chart # NoChart
    BY <1>4, NoChartAssumption DEF Release
  <2>4. Stored' = Stored \cup {s.rel.rev}
    BY <1>4, <2>2, <2>3 DEF Stored, NoRecord
  <2>5. s.req.kind # "install" \/ ~BareInstalls => IsLast(s.rel.rev)'
    <3>1. CASE s.req.kind # "install"
      <4>1. \A r \in Stored : r <= s.cur.rev /\ r \in Nat
        BY <1>4, <3>1 DEF AboutToClaim, IsLast, Stored, Rev
      <4>2. s.rel.rev = s.cur.rev + 1 /\ s.cur.rev \in Nat
        BY <1>4, <3>1 DEF AboutToClaim, Release, Rev
      <4> QED BY <2>4, <4>1, <4>2 DEF IsLast
    <3>2. CASE s.req.kind = "install" /\ ~BareInstalls
      BY <1>4, <2>4, <3>2 DEF AboutToClaim, IsLast, Rev
    <3> QED BY <3>1, <3>2
  <2>6. store'[s.rel.rev].status # "deployed"
    BY <1>4, <2>2 DEF AboutToClaim, Pending
  <2>7. Owns(s)'
    BY <1>4, <2>5, <2>6 DEF Owns, Claims, AboutToClaim, IsLast
  <2>8. LastIsLive'
    <3>1. ASSUME Sound' PROVE \A r \in Rev : IsLast(r)' => r = s.rel.rev
      BY <2>4, <2>5, <3>1 DEF Sound, IsLast, Stored, Rev
    <3> QED BY <2>6, <3>1 DEF LastIsLive
  <2>9. PICK t : t = To(s, "pre")
    OBVIOUS
  <2>10. t.pc = "pre" /\ Same(s, t)
    BY <1>3, <2>9, ToFields DEF PC
  <2>11. Owns(t)'
    BY <2>7, <2>10 DEF Owns, Claims, Same, IsLast
  <2>12. Sane(t)'
    BY <1>3, <2>10, <2>11 DEF Same, Owns, Sane, Placed, KindAt, ClusterAt, HistoryAt, Claimed,
       Unsettled, Forward, UninstallPoints, UndoPoints, PC
  <2> QED BY <1>7, <2>8, <2>9, <2>12, Moved DEF Become
<1> QED BY <1>1, <1>2, <1>5, <1>6, <1>7, FaultsStay, Untouched
        DEF CreateRevision, CreateFails, Calm

(* What is true of the cluster stays true.                                 *)
LEMMA ClusterStays ==
  ASSUME UNCHANGED cluster, NEW s
  PROVE  /\ ClusterAt(s) => ClusterAt(s)'
         /\ Undone(s) => Undone(s)'
         /\ \A ch : InPlace(ch) => InPlace(ch)'
BY DEF ClusterAt, Undone, InPlace, AllGone

(* A write ends in a sane state when all its outcomes are.                 *)
LEMMA WritingSane ==
  ASSUME Solo, TypeOK, SoloInv, NEW c \in Client, NEW pc, NEW x, NEW done, NEW failed,
         Writing(c, pc, x, done, failed),
         Overwrites(x) => Sane(done)' /\ LastIsLive',
         Sane(failed),
         Overwrites(x) /\ ~StoreReliable' => Sane(failed)'
  PROVE  SoloInv'
<1>1. CASE Overwrites(x) /\ run' = [run EXCEPT ![c] = done]
  BY <1>1, Moved
<1>2. CASE Calm /\ run' = [run EXCEPT ![c] = failed]
  BY <1>2, QuietMove
<1>3. CASE Overwrites(x) /\ ~StoreReliable' /\ run' = [run EXCEPT ![c] = failed]
  <2>1. LastIsLive'
    BY <1>3 DEF LastIsLive, Sound
  <2> QED BY <1>3, <2>1, Moved
<1>4. \/ Overwrites(x) /\ run' = [run EXCEPT ![c] = done]
      \/ Calm /\ run' = [run EXCEPT ![c] = failed]
      \/ Overwrites(x) /\ ~StoreReliable' /\ run' = [run EXCEPT ![c] = failed]
  BY WritingCases, Zenon
<1> QED BY <1>1, <1>2, <1>3, <1>4

(* So does one that is tried three times; in between only the count of the *)
(* attempts changes.                                                       *)
LEMMA RetriedSane ==
  ASSUME Solo, TypeOK, SoloInv, NEW c \in Client, NEW pc, NEW x, NEW done, NEW failed,
         RetriedUpdate(c, pc, x, done, failed),
         run[c] \in RunState, run[c].pc # "idle",
         Overwrites(x) => Sane(done)' /\ LastIsLive',
         Sane(failed),
         Overwrites(x) /\ ~StoreReliable' =>
            /\ Sane(failed)'
            /\ \A w : /\ w.pc = run[c].pc /\ Same(run[c], w)
                      /\ w.todo = run[c].todo /\ w.copies = run[c].copies
                      => Sane(w)'
  PROVE  SoloInv'
<1>1. CASE Overwrites(x) /\ run' = [run EXCEPT ![c] = done]
  BY <1>1, Moved
<1>2. ASSUME NEW next, next = failed \/ \E tries : next = [run[c] EXCEPT !.tries = tries],
             Calm \/ (Overwrites(x) /\ ~StoreReliable'), run' = [run EXCEPT ![c] = next]
      PROVE  SoloInv'
  <2>1. PICK s : s = run[c]
    OBVIOUS
  <2>2. CASE next = failed
    <3>1. Overwrites(x) /\ ~StoreReliable' => LastIsLive'
      BY DEF LastIsLive, Sound
    <3> QED BY <1>2, <2>2, <3>1, Moved, QuietMove
  <2>3. CASE \E tries : next = [run[c] EXCEPT !.tries = tries]
    <3>1. PICK tries : next = [s EXCEPT !.tries = tries]
      BY <2>1, <2>3, Zenon
    <3>2. /\ next.pc = s.pc /\ Same(s, next)
          /\ next.todo = s.todo /\ next.copies = s.copies
      BY <2>1, <3>1, InPlaceFields
    <3>3. CASE Calm
      <4>1. Sane(s)
        BY <2>1 DEF SoloInv
      <4>2. Sane(next)
        <5>1. Placed(next) /\ (next.pc = "idle" => s.pc = "idle")
          BY <3>2, <4>1 DEF Same, Sane, Placed, KindAt, AboutToClaim, Claims
        <5>2. ClusterAt(next)
          BY <3>2, <4>1 DEF Same, Sane, ClusterAt, Undone
        <5>3. HistoryAt(next)
          BY <3>2, <4>1 DEF Same, Sane, HistoryAt, Replaces, Prunes, Purges, Standing
        <5>4. next.pc # "idle"
          BY <2>1, <3>2
        <5> QED BY <5>1, <5>2, <5>3, <5>4 DEF Sane
      <4> QED BY <1>2, <3>3, <4>2, QuietMove
    <3>4. CASE Overwrites(x) /\ ~StoreReliable'
      <4>1. Sane(next)'
        BY <2>1, <3>2, <3>4
      <4>2. LastIsLive'
        BY <3>4 DEF LastIsLive, Sound
      <4> QED BY <1>2, <4>1, <4>2, Moved
    <3> QED BY <1>2, <3>3, <3>4
  <2> QED BY <1>2, <2>2, <2>3
<1>3. \/ Overwrites(x) /\ run' = [run EXCEPT ![c] = done]
      \/ \E next : /\ next = failed \/ \E tries : next = [run[c] EXCEPT !.tries = tries]
                   /\ Calm \/ (Overwrites(x) /\ ~StoreReliable')
                   /\ run' = [run EXCEPT ![c] = next]
  BY RetriedCases, Zenon
<1> QED BY <1>1, <1>2, <1>3, Zenon

(* The final status write.                                                 *)
LEMMA MarkDeployedSane ==
  ASSUME Solo, TypeOK, SoloInv, NEW c \in Client, MarkDeployed(c)
  PROVE  SoloInv'
<1>1. PICK s : s = run[c]
  OBVIOUS
<1>2. s.pc = "deploy"
  BY <1>1 DEF MarkDeployed, RetriedUpdate, Writing, At
<1>3. s \in Working /\ s \in RunState /\ Owns(s) /\ s.cause = "none" /\ Sane(s)
  BY <1>1, <1>2, AtPoint DEF Unsettled, Claimed, Forward, UndoPoints, PC
<1>4. s.req.kind # "uninstall" /\ InPlace(s.rel.chart)
  BY <1>2, <1>3 DEF Sane, Placed, KindAt, UninstallPoints, ClusterAt
<1>5. PICK t : t = [s EXCEPT !.rel.status = "deployed"]
  OBVIOUS
<1>6. t \in Working /\ t \in RunState /\ t.req = s.req /\ t.cur = s.cur /\ t.cause = "none"
  <2>1. "deployed" \in Status
    BY DEF Status
  <2>2. t \in Working
    BY <1>3, <1>5, <2>1, SetStatusGood
  <2>3. t \in RunState /\ t.req = s.req /\ t.cur = s.cur /\ t.cause = s.cause
    BY <1>3, <1>5, <2>1, StatusFields
  <2> QED BY <1>3, <2>2, <2>3
<1>7. /\ t.rel \in Release /\ t.rel.rev = s.rel.rev
      /\ t.rel.chart = s.rel.chart /\ t.rel.status = "deployed"
  BY <1>3, <1>5, StatusFields DEF Status
<1>8. RetriedUpdate(c, "deploy", t.rel, AfterDeploy(t), GiveUp(t))
  BY <1>1, <1>5, Zenon DEF MarkDeployed
<1>9. PICK x : x = t.rel
  OBVIOUS
<1>10. Claims(t)
  BY <1>3, <1>6, <1>7, OwnsSame DEF Owns
<1>11. ASSUME Overwrites(x) PROVE Sane(AfterDeploy(t))' /\ LastIsLive'
  <2>1. Claims(t)'
    BY <1>6, <1>7, <1>9, <1>10, <1>11, ClaimsKept
  <2>2. store'[t.rel.rev].status = "deployed"
    <3>1. store'[x.rev] = [chart |-> x.chart, status |-> x.status]
      BY <1>7, <1>9, <1>11, Overwritten
    <3> QED BY <1>7, <1>9, <3>1
  <2>3. Sane(AfterDeploy(t))'
    BY <1>4, <1>6, <2>1, <2>2, ArrivalsHold DEF Arrivals
  <2>4. LastIsLive'
    BY <1>4, <1>7, <1>9, <1>11, LiveKept
  <2> QED BY <2>3, <2>4
<1>12. Sane(GiveUp(t)) /\ Sane(GiveUp(t))'
  BY <1>6, ArrivalsHold DEF Arrivals
<1>13. ASSUME Overwrites(x), ~StoreReliable',
              NEW w, w.pc = s.pc, Same(s, w)
       PROVE  Sane(w)'
  <2>1. Claims(s)'
    BY <1>3, <1>4, <1>7, <1>9, <1>13, ClaimsKept DEF Owns
  <2>2. Claims(w)'
    BY <1>13, <2>1, ArrivalsHold DEF Arrivals, Same
  <2>3. InPlace(w.rel.chart)'
    BY <1>4, <1>13, ClusterStays DEF Same, Overwrites
  <2> QED BY <1>2, <1>3, <1>4, <1>13, <2>2, <2>3 DEF Same, Sound, Sane, Placed, KindAt, ClusterAt,
         HistoryAt, Claimed, Unsettled, Forward, UninstallPoints, UndoPoints, PC
<1> QED BY <1>1, <1>2, <1>3, <1>7, <1>8, <1>9, <1>11, <1>12, <1>13, RetriedSane

(* supersedeOtherDeployed: one deployed record fewer, and the operation's  *)
(* own stays.                                                              *)
LEMMA SupersedeSane ==
  ASSUME Solo, TypeOK, SoloInv, NEW c \in Client, Supersede(c)
  PROVE  SoloInv'
<1>1. PICK s : s = run[c]
  OBVIOUS
<1>2. s.pc = "supersede"
  BY <1>1 DEF Supersede, RetriedUpdate, Writing, At
<1>3. s \in Working /\ s \in RunState /\ Claims(s) /\ s.cause = "none" /\ Sane(s)
  BY <1>1, <1>2, AtPoint DEF Claimed, Forward, UndoPoints, PC
<1>4. /\ s.req.kind \in {"upgrade", "rollback"}
      /\ store[s.rel.rev].status = "deployed" /\ s.rel.rev \notin Revs(s.copies)
      /\ s.sec \/ DeployedRevs \subseteq {s.rel.rev} \cup Revs(s.copies)
  BY <1>2, <1>3 DEF Sane, Placed, KindAt, HistoryAt
<1>5. s.rel.rev \in Rev /\ s.copies \in SUBSET Release
  BY <1>3, WorkingHolds DEF RunState
<1>6. CASE s.copies = {} /\ Become(c, AfterSupersede(s)) /\ UNCHANGED world
  <2>1. s.rel.rev \in Stored
    BY <1>4, <1>5 DEF Stored, NoRecord
  <2>2. Replaces(s) => DeployedRevs = {s.rel.rev}
    BY <1>4, <1>6, <2>1 DEF Replaces, Revs, DeployedRevs
  <2>3. Sane(AfterSupersede(s))
    BY <1>3, <1>4, <2>2, AfterSupersedeSane
  <2>4. Calm
    BY <1>6, FaultsStay, Untouched DEF world, Calm
  <2> QED BY <1>6, <2>3, <2>4, QuietMove DEF Become
<1>7. ASSUME NEW y \in s.copies,
             LET rest == Visit(s, "supersede", s.copies \ {y}) IN
             RetriedUpdate(c, "supersede", [y EXCEPT !.status = "superseded"], rest, Warn(rest))
      PROVE  SoloInv'
  <2>1. PICK t : t = Visit(s, "supersede", s.copies \ {y})
    OBVIOUS
  <2>2. /\ t \in RunState /\ t.pc = "supersede" /\ Same(s, t) /\ t.copies = s.copies \ {y}
    BY <1>3, <1>5, <2>1, VisitFields DEF PC
  <2>3. PICK u : u = Warn(t)
    OBVIOUS
  <2>4. /\ u.pc = "supersede" /\ u.req = s.req /\ u.cur = s.cur /\ u.rel = s.rel
        /\ u.sec /\ u.cause = s.cause /\ u.copies = s.copies \ {y}
    BY <2>2, <2>3, WarnFields DEF Same
  <2>5. PICK x : x = [y EXCEPT !.status = "superseded"]
    OBVIOUS
  <2>6. /\ x \in Release /\ x.rev = y.rev /\ x.status = "superseded"
    BY <1>5, <2>5 DEF Release, Status
  <2>7. RetriedUpdate(c, "supersede", x, t, u)
    BY <1>7, <2>1, <2>3, <2>5, Zenon
  <2>8. y.rev \in Revs(s.copies) /\ y.rev # s.rel.rev
        /\ Revs(s.copies \ {y}) \subseteq Revs(s.copies)
        /\ Revs(s.copies) \subseteq Revs(s.copies \ {y}) \cup {y.rev}
    BY <1>4 DEF Revs
  <2>9. Claims(u) /\ Claims(t)
    BY <1>3, <2>2, <2>4, OwnsSame DEF Same
  <2>10. Sane(u)
    BY <1>3, <1>4, <2>4, <2>8, <2>9 DEF Sane, Placed, KindAt, ClusterAt, HistoryAt, Claimed,
       Unsettled, Forward, UninstallPoints, UndoPoints, PC
  <2>11. ASSUME Overwrites(x),
                NEW w, w.pc = "supersede", w.req = s.req, w.cur = s.cur, w.rel = s.rel,
                w.cause = s.cause, Revs(w.copies) \subseteq Revs(s.copies),
                w.sec \/ (~s.sec /\ Revs(s.copies) \subseteq Revs(w.copies) \cup {x.rev})
         PROVE  Sane(w)'
    <3>1. store'[x.rev] = [chart |-> x.chart, status |-> x.status]
          /\ (\A r \in Rev \ {x.rev} : store'[r] = store[r])
          /\ Stored' = Stored
      BY <2>6, <2>11, Overwritten
    <3>2. store'[s.rel.rev].status = "deployed"
      BY <1>4, <1>5, <2>6, <2>8, <3>1
    <3>3. DeployedRevs' \subseteq DeployedRevs \ {x.rev}
      BY <2>6, <3>1 DEF DeployedRevs, Stored
    <3>4. w.sec \/ DeployedRevs' \subseteq {s.rel.rev} \cup Revs(w.copies)
      BY <1>4, <2>11, <3>3
    <3>5. Claims(s)'
      BY <1>3, <1>4, <2>6, <2>11, ClaimsKept
    <3>6. Claims(w)'
      BY <2>11, <3>5, ArrivalsHold DEF Arrivals
    <3> QED BY <1>3, <1>4, <2>11, <3>2, <3>4, <3>6 DEF Sane, Placed, KindAt, ClusterAt,
          HistoryAt, Claimed, Unsettled, Forward, UninstallPoints, UndoPoints, PC, Revs
  <2>12. ASSUME Overwrites(x) PROVE Sane(t)' /\ LastIsLive'
    <3>1. Sane(t)'
      BY <2>2, <2>6, <2>8, <2>11, <2>12 DEF Same
    <3>2. LastIsLive'
      BY <2>6, <2>12, LiveKept
    <3> QED BY <3>1, <3>2
  <2>13. ASSUME Overwrites(x) PROVE Sane(u)'
    BY <2>4, <2>8, <2>11, <2>13
  <2>14. ASSUME Overwrites(x), NEW w, w.pc = s.pc, Same(s, w), w.copies = s.copies
         PROVE  Sane(w)'
    BY <1>2, <2>11, <2>14 DEF Same
  <2> QED BY <1>1, <1>2, <1>3, <2>6, <2>7, <2>10, <2>12, <2>13, <2>14, RetriedSane
<1> QED BY <1>1, <1>6, <1>7, Zenon DEF Supersede

(* markFailed.                                                             *)
LEMMA MarkFailedSane ==
  ASSUME Solo, TypeOK, SoloInv, NEW c \in Client, MarkFailed(c)
  PROVE  SoloInv'
<1>1. PICK s : s = run[c]
  OBVIOUS
<1>2. s.pc = "fail"
  BY <1>1 DEF MarkFailed, Writing, At
<1>3. s \in Working /\ Owns(s) /\ s.req \in Request
  BY <1>1, <1>2, AtPoint, WorkingHolds DEF Unsettled, Claimed, PC
<1>4. PICK t : t = [s EXCEPT !.rel.status = "failed"]
  OBVIOUS
<1>5. t \in Working /\ t \in RunState /\ t.req = s.req /\ t.cur = s.cur
  <2>1. "failed" \in Status
    BY DEF Status
  <2>2. t \in Working
    BY <1>3, <1>4, <2>1, SetStatusGood
  <2>3. t \in RunState /\ t.req = s.req /\ t.cur = s.cur
    BY <1>3, <1>4, <2>1, StatusFields
  <2> QED BY <2>2, <2>3
<1>6. /\ t.rel \in Release /\ t.rel.rev = s.rel.rev
      /\ t.rel.chart = s.rel.chart /\ t.rel.status = "failed"
  BY <1>3, <1>4, StatusFields DEF Status
<1>7. PICK u : u = Warn(t)
  OBVIOUS
<1>8. u \in RunState /\ u.req = t.req /\ u.cur = t.cur /\ u.rel = t.rel
  BY <1>5, <1>7, WarnFields
<1>9. PICK x : x = t.rel
  OBVIOUS
<1>10. Writing(c, "fail", x, AfterMarkFailed(t), AfterMarkFailed(u))
  BY <1>1, <1>4, <1>7, <1>9, Zenon DEF MarkFailed
<1>11. Owns(t) /\ Owns(u)
  BY <1>3, <1>5, <1>6, <1>8, OwnsSame
<1>12. ASSUME Overwrites(x)
       PROVE  Sane(AfterMarkFailed(t))' /\ Sane(AfterMarkFailed(u))' /\ LastIsLive'
  <2>1. Claims(t)'
    BY <1>5, <1>6, <1>9, <1>11, <1>12, ClaimsKept DEF Owns
  <2>2. store'[x.rev] = [chart |-> x.chart, status |-> x.status]
    BY <1>6, <1>9, <1>12, Overwritten
  <2>3. Owns(t)'
    BY <1>6, <1>9, <2>1, <2>2 DEF Owns
  <2>4. Owns(u)'
    BY <1>8, <2>3, ArrivalsHold DEF Arrivals
  <2>5. LastIsLive'
    BY <1>6, <1>9, <1>12, LiveKept
  <2> QED BY <1>3, <1>5, <1>8, <2>3, <2>4, <2>5, ArrivalsHold DEF Arrivals
<1>13. Sane(AfterMarkFailed(u))
  BY <1>3, <1>5, <1>8, <1>11, AfterMarkFailedSane
<1> QED BY <1>10, <1>12, <1>13, WritingSane

(* The first write of atomicRollbackUpgrade.                               *)
LEMMA UndoMarkFailedSane ==
  ASSUME Solo, TypeOK, SoloInv, NEW c \in Client, UndoMarkFailed(c)
  PROVE  SoloInv'
<1>1. PICK s : s = run[c]
  OBVIOUS
<1>2. s.pc = "undofailed"
  BY <1>1 DEF UndoMarkFailed, Writing, At
<1>3. s \in Working /\ s \in RunState /\ Owns(s) /\ Sane(s)
  BY <1>1, <1>2, AtPoint DEF Unsettled, Claimed, PC
<1>4. s.req.kind = "upgrade" /\ Undone(s) /\ (s.sec \/ InPlace(s.cur.chart))
  BY <1>2, <1>3 DEF Sane, Placed, KindAt, UndoPoints, ClusterAt
<1>5. PICK u : u = Warn(s)
  OBVIOUS
<1>6. u \in RunState /\ u.sec /\ u.req = s.req /\ u.cur = s.cur /\ u.rel = s.rel
  BY <1>3, <1>5, WarnFields
<1>7. PICK x : x = [s.rel EXCEPT !.status = "failed"]
  OBVIOUS
<1>8. x \in Release /\ x.rev = s.rel.rev /\ x.chart = s.rel.chart /\ x.status = "failed"
  BY <1>3, <1>7, WorkingHolds DEF Release, Status
<1>9. Writing(c, "undofailed", x, To(s, "undoprev"), To(u, "undoprev"))
  BY <1>1, <1>5, <1>7, Zenon DEF UndoMarkFailed
<1>10. Undone(u) /\ Owns(u)
  BY <1>3, <1>6, OwnsSame DEF Undone
<1>11. ASSUME Overwrites(x)
       PROVE  Sane(To(s, "undoprev"))' /\ Sane(To(u, "undoprev"))' /\ LastIsLive'
  <2>1. Claims(s)'
    BY <1>3, <1>8, <1>11, ClaimsKept DEF Owns
  <2>2. store'[x.rev] = [chart |-> x.chart, status |-> x.status]
    BY <1>8, <1>11, Overwritten
  <2>3. Owns(s)' /\ store'[s.rel.rev].status = "failed"
    BY <1>8, <2>1, <2>2 DEF Owns
  <2>4. Owns(u)'
    BY <1>6, <2>3, ArrivalsHold DEF Arrivals
  <2>5. Undone(s)' /\ Undone(u)' /\ (s.sec \/ InPlace(s.cur.chart)')
    BY <1>4, <1>10, <1>11, ClusterStays DEF Overwrites
  <2>6. LastIsLive'
    BY <1>8, <1>11, LiveKept
  <2> QED BY <1>3, <1>4, <1>6, <2>3, <2>4, <2>5, <2>6, ArrivalsHold DEF Arrivals
<1>12. Sane(To(u, "undoprev"))
  BY <1>4, <1>6, <1>10, UndoWriteSane
<1> QED BY <1>9, <1>11, <1>12, WritingSane

(* A status written into the record of the previous revision in memory.    *)
LEMMA PreviousFields ==
  ASSUME NEW s \in RunState, s.cur \in Release, NEW status \in Status
  PROVE  LET w == [s EXCEPT !.cur.status = status] IN
         /\ w \in RunState /\ w.req = s.req /\ w.rel = s.rel
         /\ w.sec = s.sec /\ w.cause = s.cause
         /\ w.cur \in Release
         /\ w.cur.rev = s.cur.rev /\ w.cur.chart = s.cur.chart /\ w.cur.status = status
<1> DEFINE cur == [s.cur EXCEPT !.status = status]
           w == [s EXCEPT !.cur = cur]
<1>1. cur \in Release /\ cur.rev = s.cur.rev /\ cur.chart = s.cur.chart /\ cur.status = status
  BY DEF Release
<1> HIDE DEF cur
<1>2. /\ w \in RunState /\ w.req = s.req /\ w.rel = s.rel
      /\ w.sec = s.sec /\ w.cause = s.cause /\ w.cur = cur
  BY <1>1 DEF RunState
<1>3. [s EXCEPT !.cur.status = status] = w
  BY DEF cur, RunState
<1> HIDE DEF w
<1> QED BY <1>1, <1>2, <1>3

(* The second write of atomicRollbackUpgrade, the last step of an upgrade  *)
(* that is undone: the previous revision is not the newest any more.       *)
LEMMA UndoRestorePreviousSane ==
  ASSUME Solo, TypeOK, SoloInv, NEW c \in Client, UndoRestorePrevious(c)
  PROVE  SoloInv'
<1>1. PICK s : s = run[c]
  OBVIOUS
<1>2. s.pc = "undoprev"
  BY <1>1 DEF UndoRestorePrevious, Writing, At
<1>3. s \in Working /\ s \in RunState /\ Owns(s) /\ Sane(s)
  BY <1>1, <1>2, AtPoint DEF Unsettled, Claimed, PC
<1>4. /\ s.req.kind = "upgrade" /\ Undone(s) /\ (s.sec \/ InPlace(s.cur.chart))
      /\ s.sec \/ store[s.rel.rev].status = "failed"
  BY <1>2, <1>3 DEF Sane, Placed, KindAt, UndoPoints, ClusterAt, HistoryAt
<1>5. s.cur \in Release /\ s.cur.rev \in Rev /\ s.rel.rev \in Rev
  BY <1>3, <1>4, WorkingHolds DEF Release
<1>6. IsLast(s.rel.rev) /\ s.rel.rev = s.cur.rev + 1
  BY <1>3, <1>4 DEF Owns, Claims
<1>7. ~IsLast(s.cur.rev)
  BY <1>5, <1>6 DEF IsLast, Rev
<1>8. PICK t : t = [s EXCEPT !.cur.status = "deployed"]
  OBVIOUS
<1>9. /\ t \in RunState /\ t.req = s.req /\ t.rel = s.rel /\ t.sec = s.sec /\ t.cause = s.cause
      /\ t.cur \in Release /\ t.cur.rev = s.cur.rev /\ t.cur.chart = s.cur.chart
      /\ t.cur.status = "deployed"
  BY <1>3, <1>5, <1>8, PreviousFields DEF Status
<1>10. PICK u : u = Warn(t)
  OBVIOUS
<1>11. u \in RunState /\ u.sec
  BY <1>9, <1>10, WarnFields
<1>12. PICK x : x = t.cur
  OBVIOUS
<1>13. Writing(c, "undoprev", x, GiveUp(t), GiveUp(u))
  BY <1>1, <1>8, <1>10, <1>12, Zenon DEF UndoRestorePrevious
<1>14. PICK f : f = GiveUp(u)
  OBVIOUS
<1>15. f.pc = "idle" /\ f.out = "incomplete"
  BY <1>11, <1>14, EndFields
<1>16. Sane(f) /\ Sane(f)'
  BY <1>15, ArrivalsHold DEF Arrivals, Promised
<1>17. ASSUME Overwrites(x) PROVE Sane(GiveUp(t))' /\ LastIsLive'
  <2>1. PICK e : e = GiveUp(t)
    OBVIOUS
  <2>2. e.pc = "idle" /\ Same(t, e) /\ e.out = IF t.sec THEN "incomplete" ELSE "error"
    BY <1>9, <2>1, EndFields
  <2>3. /\ store'[x.rev] = [chart |-> x.chart, status |-> x.status]
        /\ (\A r \in Rev \ {x.rev} : store'[r] = store[r])
    BY <1>9, <1>12, <1>17, Overwritten
  <2>4. ASSUME ~s.sec
        PROVE  /\ store'[s.cur.rev].status = "deployed" /\ store'[s.rel.rev].status = "failed"
               /\ InPlace(s.cur.chart)' /\ AllGone(Orphans(s.rel.chart, s.cur.chart))'
    <3>1. store'[s.cur.rev].status = "deployed"
      BY <1>9, <1>12, <2>3
    <3>2. s.rel.rev # x.rev
      BY <1>5, <1>6, <1>9, <1>12 DEF Rev
    <3>3. store'[s.rel.rev].status = "failed"
      BY <1>4, <1>5, <2>3, <2>4, <3>2
    <3>4. InPlace(s.cur.chart)' /\ AllGone(Orphans(s.rel.chart, s.cur.chart))'
      BY <1>4, <1>17, <2>4 DEF Undone, InPlace, AllGone, Overwrites
    <3> QED BY <3>1, <3>3, <3>4
  <2>5. Promised(e)'
    BY <1>4, <1>9, <2>2, <2>4 DEF Same, Promised
  <2>6. Sane(e)'
    BY <2>2, <2>5, ArrivalsHold DEF Arrivals
  <2>7. LastIsLive'
    BY <1>7, <1>9, <1>12, <1>17, LiveKept
  <2> QED BY <2>1, <2>6, <2>7
<1> QED BY <1>13, <1>14, <1>16, <1>17, WritingSane

(* The first write of an uninstall.                                        *)
LEMMA MarkUninstallingSane ==
  ASSUME Solo, TypeOK, SoloInv, NEW c \in Client, MarkUninstalling(c)
  PROVE  SoloInv'
<1>1. PICK s : s = run[c]
  OBVIOUS
<1>2. s.pc = "mark"
  BY <1>1 DEF MarkUninstalling, Writing, At
<1>3. s \in Working /\ s \in RunState /\ Claims(s) /\ s.cause = "none" /\ Sane(s)
  BY <1>1, <1>2, AtPoint DEF Claimed, Forward, UndoPoints, PC
<1>4. s.req.kind = "uninstall" /\ s.rel.status = "uninstalling" /\ s.rel \in Release
  BY <1>2, <1>3, WorkingHolds DEF Sane, Placed, KindAt, UninstallPoints
<1>5. PICK x : x = s.rel
  OBVIOUS
<1>6. Writing(c, "mark", x, To(s, "pre"), GiveUp(s))
  BY <1>1, <1>5, Zenon DEF MarkUninstalling
<1>7. ASSUME Overwrites(x) PROVE Sane(To(s, "pre"))' /\ LastIsLive'
  <2>1. PICK t : t = To(s, "pre")
    OBVIOUS
  <2>2. t.pc = "pre" /\ Same(s, t)
    BY <1>3, <2>1, ToFields DEF PC
  <2>3. Claims(s)'
    BY <1>3, <1>4, <1>5, <1>7, ClaimsKept
  <2>4. Claims(t)'
    BY <2>2, <2>3, ArrivalsHold DEF Arrivals, Same
  <2>5. store'[x.rev] = [chart |-> x.chart, status |-> x.status]
    BY <1>4, <1>5, <1>7, Overwritten
  <2>6. store'[t.rel.rev].status # "deployed"
    BY <1>4, <1>5, <2>2, <2>5 DEF Same
  <2>7. Sane(t)'
    BY <1>3, <1>4, <2>2, <2>4, <2>6 DEF Same, Sane, Placed, KindAt, ClusterAt,
       HistoryAt, Claimed, Unsettled, Forward, UninstallPoints, UndoPoints, PC
  <2>8. LastIsLive'
    BY <1>4, <1>5, <1>7, LiveKept
  <2> QED BY <2>1, <2>7, <2>8
<1>8. Sane(GiveUp(s)) /\ Sane(GiveUp(s))'
  BY <1>3, ArrivalsHold DEF Arrivals
<1> QED BY <1>6, <1>7, <1>8, WritingSane

(* The last write of an uninstall that keeps the history.                  *)
LEMMA KeepHistorySane ==
  ASSUME Solo, TypeOK, SoloInv, NEW c \in Client, KeepHistory(c)
  PROVE  SoloInv'
<1>1. PICK s : s = run[c]
  OBVIOUS
<1>2. s.pc = "keep"
  BY <1>1 DEF KeepHistory, Writing, At
<1>3. s \in Working /\ s \in RunState /\ s.cause = "none" /\ Sane(s)
  BY <1>1, <1>2, AtPoint DEF Forward, UndoPoints, PC
<1>4. s.req.kind = "uninstall"
  BY <1>2, <1>3 DEF Sane, Placed, KindAt, UninstallPoints
<1>5. PICK t : t = [s EXCEPT !.rel.status = "superseded"]
  OBVIOUS
<1>6. /\ t \in RunState /\ t.req = s.req /\ t.cause = "none"
      /\ t.rel \in Release /\ t.rel.status = "superseded"
  BY <1>3, <1>5, StatusFields DEF Status
<1>7. PICK x : x = t.rel
  OBVIOUS
<1>8. Writing(c, "keep", x, Succeed(t), GiveUp(t))
  BY <1>1, <1>5, <1>7, Zenon DEF KeepHistory
<1>9. Sane(GiveUp(t)) /\ Sane(GiveUp(t))' /\ Sane(Succeed(t))'
  BY <1>4, <1>6, ArrivalsHold DEF Arrivals, Replaces
<1>10. ASSUME Overwrites(x) PROVE LastIsLive'
  BY <1>6, <1>7, <1>10, LiveKept
<1> QED BY <1>8, <1>9, <1>10, WritingSane

-----------------------------------------------------------------------------
(* The walks over the history.                                             *)

(* Reading the history is quiet.                                           *)
LEMMA ReadHistorySane ==
  ASSUME Solo, TypeOK, SoloInv, NEW c \in Client, NEW pc, NEW sel, NEW next, NEW failed,
         ReadHistory(c, pc, sel, next, failed),
         NEW t, t = Visit(run[c], next, sel), Sane(t), Sane(failed)
  PROVE  SoloInv'
<1>1. Calm
  BY FaultsStay, Untouched DEF ReadHistory, ReadOk, ReadFails, Calm
<1>2. run' = [run EXCEPT ![c] = t] \/ run' = [run EXCEPT ![c] = failed]
  BY Zenon DEF ReadHistory, Become
<1> QED BY <1>1, <1>2, QuietMove

(* supersedeOtherDeployed reads which records say deployed.                *)
LEMMA ReadHistoryToSupersedeSane ==
  ASSUME Solo, TypeOK, SoloInv, NEW c \in Client, ReadHistoryToSupersede(c)
  PROVE  SoloInv'
<1>1. PICK s : s = run[c]
  OBVIOUS
<1>2. s.pc = "history"
  BY <1>1 DEF ReadHistoryToSupersede, ReadHistory, At
<1>3. s \in Working /\ s \in RunState /\ Claims(s) /\ s.cause = "none" /\ Sane(s)
  BY <1>1, <1>2, AtPoint DEF Claimed, Forward, UndoPoints, PC
<1>4. s.req.kind \in {"upgrade", "rollback"} /\ store[s.rel.rev].status = "deployed"
  BY <1>2, <1>3 DEF Sane, Placed, KindAt, HistoryAt
<1>5. PICK sel : sel = {x \in History : x.status = "deployed" /\ x.rev # s.rel.rev}
  OBVIOUS
<1>6. sel \in SUBSET Release
  BY <1>5, Untouched, HistoryType
<1>7. PICK t : t = Visit(s, "supersede", sel)
  OBVIOUS
<1>8. t.pc = "supersede" /\ Same(s, t) /\ t.copies = sel
  BY <1>3, <1>6, <1>7, VisitFields DEF PC
<1>9. Sane(t)
  <2>1. Claims(t)
    BY <1>3, <1>8, OwnsSame DEF Same
  <2>2. s.rel.rev \notin Revs(sel)
    BY <1>5 DEF Revs
  <2>3. ASSUME NEW r \in DeployedRevs PROVE r = s.rel.rev \/ r \in Revs(sel)
    <3>1. /\ CopyOf(r) \in History /\ CopyOf(r).status = "deployed" /\ CopyOf(r).rev = r
      BY DEF DeployedRevs, History, CopyOf
    <3> QED BY <1>5, <3>1 DEF Revs
  <2> QED BY <1>3, <1>4, <1>8, <2>1, <2>2, <2>3 DEF Same, Sane, Placed, KindAt, ClusterAt,
        HistoryAt, Claimed, Unsettled, Forward, UninstallPoints, UndoPoints, PC
<1>10. PICK u : u = Warn(s)
  OBVIOUS
<1>11. u \in Working /\ u.sec /\ u.req = s.req /\ u.cur = s.cur /\ u.rel = s.rel
       /\ u.cause = s.cause
  BY <1>3, <1>10, WarnFields, WarnGood DEF Working
<1>12. Sane(AfterSupersede(u))
  BY <1>3, <1>4, <1>11, OwnsSame, AfterSupersedeSane DEF Replaces
<1>13. ReadHistory(c, "history", sel, "supersede", AfterSupersede(u))
  BY <1>1, <1>5, <1>10, Zenon DEF ReadHistoryToSupersede
<1> QED BY <1>1, <1>7, <1>9, <1>12, <1>13, ReadHistorySane

(* An uninstall reads which records it has to remove: all of them, up to   *)
(* its own.                                                                *)
LEMMA ReadHistoryToPurgeSane ==
  ASSUME Solo, TypeOK, SoloInv, NEW c \in Client, ReadHistoryToPurge(c)
  PROVE  SoloInv'
<1>1. PICK s : s = run[c]
  OBVIOUS
<1>2. s.pc = "purgeable"
  BY <1>1 DEF ReadHistoryToPurge, ReadHistory, At
<1>3. s \in Working /\ s \in RunState /\ Owns(s) /\ s.cause = "none" /\ Sane(s)
  BY <1>1, <1>2, AtPoint DEF Claimed, Unsettled, Forward, UndoPoints, PC
<1>4. s.req.kind = "uninstall" /\ AllGone(Doomed(s.rel.chart))
  BY <1>2, <1>3 DEF Sane, Placed, KindAt, UninstallPoints, ClusterAt
<1>5. IsLast(s.rel.rev) /\ store[s.rel.rev].chart = s.rel.chart
  BY <1>3, <1>4 DEF Owns, Claims
<1>6. PICK h : h = History
  OBVIOUS
<1>7. h \in SUBSET Release
  BY <1>6, Untouched, HistoryType
<1>8. PICK t : t = Visit(s, "purge", h)
  OBVIOUS
<1>9. t.pc = "purge" /\ Same(s, t) /\ t.copies = h
  BY <1>3, <1>7, <1>8, VisitFields DEF PC
<1>10. Sane(t)
  <2>1. \A x \in h : x.rev \in Stored /\ x = CopyOf(x.rev)
    BY <1>6 DEF History, CopyOf
  <2>2. Stored \subseteq Revs(h)
    <3>1. ASSUME NEW r \in Stored PROVE CopyOf(r) \in h /\ CopyOf(r).rev = r
      BY <1>6 DEF History, CopyOf
    <3> QED BY <3>1 DEF Revs
  <2>3. \A x, y \in h : x.rev = y.rev => x = y
    BY <2>1
  <2>4. \A x \in h : x.rev <= s.rel.rev
    BY <1>5, <2>1 DEF IsLast
  <2>5. s.rel.rev \in Revs(h)
    BY <1>5, <2>2 DEF IsLast
  <2>6. Purges(t)
    BY <1>3, <1>5, <1>9, <2>2, <2>3, <2>4, <2>5 DEF Purges, Same, Owns
  <2> QED BY <1>3, <1>4, <1>9, <2>6 DEF Same, Sane, Placed, KindAt, ClusterAt,
        HistoryAt, Claimed, Unsettled, Forward, UninstallPoints, UndoPoints, PC
<1>11. Sane(GiveUp(s))
  BY <1>3, GiveUpSane
<1>12. ReadHistory(c, "purgeable", h, "purge", GiveUp(s))
  BY <1>1, <1>6, Zenon DEF ReadHistoryToPurge
<1> QED BY <1>1, <1>8, <1>10, <1>11, <1>12, ReadHistorySane

(* A set of naturals that is not empty has a least element.                *)
LEMMA SmallestOf ==
  ASSUME NEW S \in SUBSET Nat, S # {}
  PROVE  \E v \in S : \A w \in S : v <= w
<1>1. PICK v \in S : \A w \in S : ~(<<w, v>> \in OpToRel(<, Nat))
  BY NatLessThanWellFounded, WFMin
<1>2. ASSUME NEW w \in S, w < v PROVE FALSE
  <2>1. <<w, v>> \in Nat \X Nat /\ <<w, v>>[1] < <<w, v>>[2]
    BY <1>2
  <2>2. <<w, v>> \in OpToRel(<, Nat)
    BY <2>1, Zenon DEF OpToRel
  <2> QED BY <1>1, <2>2
<1> QED BY <1>2

(* A history that is not empty has a newest revision.                      *)
LEMMA NewestStored == Stored # {} => \E m \in Rev : IsLast(m)
<1> SUFFICES ASSUME Stored # {} PROVE \E m \in Rev : IsLast(m)
  OBVIOUS
<1> DEFINE T == {MaxRev - r : r \in Stored}
<1>1. \A r \in Stored : r \in Nat /\ MaxRev - r \in Nat
  BY MaxRevAssumption DEF Stored, Rev
<1>2. T \in SUBSET Nat /\ T # {}
  BY <1>1
<1>3. PICK v \in T : \A w \in T : v <= w
  <2> HIDE DEF T
  <2> QED BY <1>2, SmallestOf
<1>4. PICK m \in Stored : v = MaxRev - m
  BY <1>3
<1>5. ASSUME NEW r \in Stored PROVE r <= m
  <2>1. v <= MaxRev - r
    BY <1>3
  <2> QED BY <1>1, <1>4, <2>1, MaxRevAssumption
<1> QED BY <1>4, <1>5 DEF IsLast, Stored

(* The records from revision r on.                                         *)
Since(r) == {y \in History : y.rev >= r}

(* A history is finite, and so are its parts.                              *)
LEMMA SinceFinite ==
  /\ IsFiniteSet(Stored) /\ Cardinality(Stored) \in Nat
  /\ IsFiniteSet(History)
  /\ \A r : IsFiniteSet(Since(r)) /\ Cardinality(Since(r)) \in Nat
<1>1. IsFiniteSet(Stored)
  <2>1. IsFiniteSet(Rev)
    BY FS_Interval, MaxRevAssumption DEF Rev
  <2> QED BY <2>1, FS_Subset DEF Stored
<1>2. IsFiniteSet(History)
  <2> DEFINE f == [r \in Stored |-> CopyOf(r)]
  <2>1. f \in Surjection(Stored, History)
    BY DEF Surjection, History
  <2> HIDE DEF f
  <2> QED BY <1>1, <2>1, FS_Surjection
<1>3. ASSUME NEW r PROVE IsFiniteSet(Since(r))
  BY <1>2, FS_Subset DEF Since
<1> QED BY <1>1, <1>2, <1>3, FS_CardinalityType

(* There are fewer from a later one on.                                    *)
LEMMA SinceShrinks ==
  \A r, q \in Nat : r <= q => Cardinality(Since(q)) <= Cardinality(Since(r))
<1> SUFFICES ASSUME NEW r \in Nat, NEW q \in Nat, r <= q
             PROVE  Cardinality(Since(q)) <= Cardinality(Since(r))
  OBVIOUS
<1>1. \A y \in History : y.rev \in Nat
  BY DEF History, CopyOf, Stored, Rev
<1>2. Since(q) \in SUBSET Since(r)
  BY <1>1 DEF Since
<1> QED BY <1>2, SinceFinite, FS_Subset

(* The newest record is alone.                                             *)
LEMMA SinceNewest ==
  ASSUME NEW m \in Rev, IsLast(m)
  PROVE  Cardinality(Since(m)) = 1
<1>1. \A r \in Stored : r >= m <=> r = m
  BY DEF IsLast, Stored, Rev
<1>2. Since(m) = {CopyOf(m)}
  BY <1>1 DEF Since, History, CopyOf, IsLast
<1> QED BY <1>2, FS_Singleton

(* pruneReleaseHistory never chooses the newest record.                    *)
LEMMA NewestNotPrunable ==
  ASSUME NEW m \in Rev, IsLast(m), NEW max \in Nat \ {0}
  PROVE  \A x \in Prunable(History, max) : x.rev \in Stored /\ x.rev < m
<1> SUFFICES ASSUME NEW x \in Prunable(History, max) PROVE x.rev \in Stored /\ x.rev < m
  OBVIOUS
<1>1. x \in History /\ Cardinality(Since(x.rev)) > max
  BY DEF Prunable, Since
<1>2. x.rev \in Stored /\ x.rev <= m /\ x.rev \in Nat
  BY <1>1 DEF History, CopyOf, IsLast, Stored, Rev
<1>3. x.rev # m
  BY <1>1, SinceNewest
<1> QED BY <1>2, <1>3 DEF Rev

(* When no other record is deployed, it chooses all but the newest max.    *)
LEMMA PrunedIsOlder ==
  ASSUME NEW m \in Rev, IsLast(m), DeployedRevs \subseteq {m}, NEW max \in Nat \ {0}
  PROVE  LET P == Prunable(History, max) IN
         /\ \A x \in P, r \in Stored \ Revs(P) : x.rev < r
         /\ Cardinality(Stored \ Revs(P)) <= max
<1> DEFINE P == Prunable(History, max)
           K == Stored \ Revs(P)
<1>1. \A x \in P : x.rev \in Stored /\ Cardinality(Since(x.rev)) > max
  BY NewestNotPrunable DEF Prunable, Since
<1>2. ASSUME NEW r \in K PROVE Cardinality(Since(r)) <= max
  <2>1. r \in Stored /\ CopyOf(r) \in History /\ CopyOf(r).rev = r
    BY DEF History, CopyOf
  <2>2. CASE r = m
    BY <2>2, SinceNewest
  <2>3. CASE r # m
    <3>1. CopyOf(r).status # "deployed"
      BY <2>1, <2>3 DEF DeployedRevs, CopyOf
    <3>2. CopyOf(r) \notin P
      BY <2>1 DEF Revs
    <3>3. ~(Cardinality(Since(r)) > max)
      BY <2>1, <3>1, <3>2 DEF Prunable, Since
    <3> QED BY <3>3, SinceFinite
  <2> QED BY <2>2, <2>3
<1>3. Stored \subseteq Nat
  BY DEF Stored, Rev
<1> HIDE DEF P
<1>4. \A x \in P, r \in K : x.rev < r
  <2> SUFFICES ASSUME NEW x \in P, NEW r \in K, ~(x.rev < r) PROVE FALSE
    OBVIOUS
  <2>1. r \in Stored /\ x.rev \in Stored
    BY <1>1
  <2>2. r \in Nat /\ x.rev \in Nat
    BY <1>3, <2>1
  <2>3. r <= x.rev
    BY <2>2
  <2>4. Cardinality(Since(x.rev)) <= Cardinality(Since(r))
    BY <2>2, <2>3, SinceShrinks
  <2> QED BY <1>1, <1>2, <2>4, SinceFinite
<1>5. Cardinality(K) <= max
  <2>1. m \in K
    <3>1. \A x \in P : x.rev < m
      BY NewestNotPrunable DEF P
    <3> QED BY <1>1, <3>1 DEF Revs, IsLast, Rev
  <2>2. PICK q \in K : \A r \in K : q <= r
    <3>1. K \in SUBSET Nat /\ K # {}
      BY <1>3, <2>1
    <3> HIDE DEF K
    <3> QED BY <3>1, SmallestOf
  <2> DEFINE f == [r \in K |-> CopyOf(r)]
  <2>3. \A r \in K : f[r] \in Since(q) /\ f[r].rev = r
    BY <1>3, <2>2 DEF Since, History, CopyOf
  <2>4. f \in Injection(K, Since(q))
    BY <2>3 DEF Injection, IsInjective
  <2> HIDE DEF f
  <2>5. Cardinality(K) <= Cardinality(Since(q)) /\ IsFiniteSet(K)
    BY <2>4, SinceFinite, FS_Injection
  <2> QED BY <1>2, <2>2, <2>5, SinceFinite, FS_CardinalityType
<1> QED BY <1>4, <1>5 DEF P

(* pruneReleaseHistory reads which records have to go.                     *)
LEMMA ReadHistoryToPruneSane ==
  ASSUME Solo, TypeOK, SoloInv, NEW c \in Client, ReadHistoryToPrune(c)
  PROVE  SoloInv'
<1>1. PICK s : s = run[c]
  OBVIOUS
<1>2. s.pc = "prunable"
  BY <1>1 DEF ReadHistoryToPrune, ReadHistory, At
<1>3. s \in Working /\ s \in RunState /\ Claims(s) /\ s.cause = "none" /\ Sane(s)
  BY <1>1, <1>2, AtPoint DEF Claimed, Forward, UndoPoints, PC
<1>4. /\ s.req.kind # "uninstall" /\ s.req.max \in Nat \ {0}
      /\ Replaces(s) => DeployedRevs = {s.rel.rev}
  BY <1>2, <1>3, WorkingHolds DEF Sane, Placed, KindAt, HistoryAt, UninstallPoints, Request
<1>5. PICK sel : sel = Prunable(History, s.req.max)
  OBVIOUS
<1>6. sel \in SUBSET Release
  BY <1>5, Untouched, HistoryType DEF Prunable
<1>7. PICK t : t = Visit(s, "prune", sel)
  OBVIOUS
<1>8. t.pc = "prune" /\ Same(s, t) /\ t.copies = sel
  BY <1>3, <1>6, <1>7, VisitFields DEF PC
<1>9. Standing(t) = Stored \ Revs(sel)
  BY <1>8 DEF Standing
<1>10. sel # {} => \E r \in Standing(t) : \A x \in sel : x.rev < r
  <2> SUFFICES ASSUME sel # {} PROVE \E r \in Standing(t) : \A x \in sel : x.rev < r
    OBVIOUS
  <2>1. Stored # {}
    BY <1>5 DEF Prunable, History
  <2>2. PICK m \in Rev : IsLast(m)
    BY <2>1, NewestStored
  <2>3. \A x \in sel : x.rev \in Stored /\ x.rev < m
    BY <1>4, <1>5, <2>2, NewestNotPrunable
  <2>4. m \in Standing(t)
    BY <1>9, <2>2, <2>3 DEF Revs, IsLast, Rev
  <2> QED BY <2>3, <2>4
<1>11. ASSUME Replaces(s)
       PROVE  /\ s.rel.rev \in Standing(t)
              /\ Cardinality(Standing(t)) <= s.req.max
              /\ \A x \in sel, r \in Standing(t) : x.rev < r
  <2>1. IsLast(s.rel.rev) /\ s.rel.rev \in Rev /\ DeployedRevs \subseteq {s.rel.rev}
    BY <1>3, <1>4, <1>11, WorkingHolds DEF Claims, Replaces
  <2>2. /\ \A x \in sel, r \in Stored \ Revs(sel) : x.rev < r
        /\ Cardinality(Stored \ Revs(sel)) <= s.req.max
    BY <1>4, <1>5, <2>1, PrunedIsOlder
  <2>3. \A x \in sel : x.rev < s.rel.rev
    BY <1>4, <1>5, <2>1, NewestNotPrunable
  <2>4. s.rel.rev \notin Revs(sel)
    BY <2>1, <2>3 DEF Revs, Rev
  <2> QED BY <1>9, <2>1, <2>2, <2>4 DEF IsLast
<1>12. Sane(t)
  <2>1. Claims(t)
    BY <1>3, <1>8, OwnsSame DEF Same
  <2>2. Prunes(t)
    BY <1>8, <1>10, <1>11 DEF Prunes, Same, Replaces
  <2> QED BY <1>3, <1>4, <1>8, <2>1, <2>2 DEF Same, Replaces, Sane, Placed, KindAt, ClusterAt,
        HistoryAt, Claimed, Unsettled, Forward, UninstallPoints, UndoPoints, PC
<1>13. PICK u : u = Warn(s)
  OBVIOUS
<1>14. u \in RunState /\ u.sec
  BY <1>3, <1>13, WarnFields
<1>15. Sane(Succeed(u))
  BY <1>14, SucceedSane DEF Replaces
<1>16. ReadHistory(c, "prunable", sel, "prune", Succeed(u))
  BY <1>1, <1>5, <1>13, Zenon DEF ReadHistoryToPrune
<1> QED BY <1>1, <1>7, <1>12, <1>15, <1>16, ReadHistorySane

(* A record removed.                                                       *)
Erased(r) == Erase(r) /\ UNCHANGED cluster /\ (StoreReliable' => StoreReliable)

(* The outcomes of one deletion of a walk over the history: the record is  *)
(* gone; or the call failed, and the record may be gone or not.            *)
LEMMA DroppingCases ==
  ASSUME TypeOK, NEW c \in Client, NEW pc, NEW done, Dropping(c, pc, done)
  PROVE  \/ Calm /\ run[c].copies = {} /\ run' = [run EXCEPT ![c] = done]
         \/ \E x \in run[c].copies : \E t :
               /\ \A y \in run[c].copies : x.rev <= y.rev
               /\ t = [run[c] EXCEPT !.copies = run[c].copies \ {x}]
               /\ \/ Erased(x.rev) /\ run' = [run EXCEPT ![c] = t]
                  \/ /\ Erased(x.rev) \/ Calm
                     /\ ~StoreReliable' /\ run' = [run EXCEPT ![c] = Warn(t)]
<1>1. UNCHANGED cluster
  BY DEF Dropping
<1>2. /\ UNCHANGED storeFaults => (StoreReliable' <=> StoreReliable)
      /\ StoreFault => ~StoreReliable'
  BY FaultsStay, Untouched
<1>3. CASE run[c].copies = {} /\ ReadOk /\ Become(c, done)
  BY <1>1, <1>2, <1>3 DEF ReadOk, Become, Calm
<1>4. ASSUME NEW x \in run[c].copies, Oldest(x, run[c].copies),
             NEW t, t = [run[c] EXCEPT !.copies = run[c].copies \ {x}],
             \/ DeleteOk(x.rev) /\ Become(c, t)
             \/ DeleteFails(x.rev) /\ Become(c, Warn(t))
      PROVE  /\ \A y \in run[c].copies : x.rev <= y.rev
             /\ \/ Erased(x.rev) /\ run' = [run EXCEPT ![c] = t]
                \/ /\ Erased(x.rev) \/ Calm
                   /\ ~StoreReliable' /\ run' = [run EXCEPT ![c] = Warn(t)]
  <2>1. CASE DeleteOk(x.rev) /\ Become(c, t)
    BY <1>1, <1>2, <1>4, <2>1 DEF DeleteOk, Erased, Become, Oldest
  <2>2. CASE DeleteFails(x.rev) /\ Become(c, Warn(t))
    BY <1>1, <1>2, <1>4, <2>2 DEF DeleteFails, Erased, Calm, Become, Oldest
  <2> QED BY <1>4, <2>1, <2>2
<1>5. \/ run[c].copies = {} /\ ReadOk /\ Become(c, done)
      \/ \E x \in run[c].copies : \E t :
            /\ Oldest(x, run[c].copies)
            /\ t = [run[c] EXCEPT !.copies = run[c].copies \ {x}]
            /\ \/ DeleteOk(x.rev) /\ Become(c, t)
               \/ DeleteFails(x.rev) /\ Become(c, Warn(t))
  BY Zenon DEF Dropping
<1> QED BY <1>3, <1>4, <1>5, Zenon

(* What is stored once a record has gone.                                  *)
LEMMA ErasedFacts ==
  ASSUME TypeOK, NEW q \in Rev, Erased(q)
  PROVE  /\ Stored' = Stored \ {q} /\ (Sound' => Sound)
         /\ \A r \in Rev \ {q} : store'[r] = store[r]
         /\ DeployedRevs' = DeployedRevs \ {q}
<1>1. store'[q] = NoRecord /\ \A r \in Rev \ {q} : store'[r] = store[r]
  BY DEF Erased, Erase, TypeOK, StoreTypeOK
<1>2. Stored' = Stored \ {q}
  BY <1>1 DEF Stored
<1> QED BY <1>1, <1>2 DEF DeployedRevs, Stored, Erased, Sound

(* A record that is not the newest leaves the newest where it is.          *)
LEMMA NewestStays ==
  ASSUME TypeOK, NEW q \in Rev, Erased(q), NEW m \in Stored, q < m
  PROVE  \A r : IsLast(r)' <=> IsLast(r)
<1>1. Stored' = Stored \ {q} /\ m \in Stored'
  BY ErasedFacts DEF Rev
<1> QED BY <1>1 DEF IsLast, Stored, Rev

(* pruneReleaseHistory removes a record: an older one than any of those it *)
(* is to leave.                                                            *)
LEMMA PruneHistorySane ==
  ASSUME Solo, TypeOK, SoloInv, NEW c \in Client, PruneHistory(c)
  PROVE  SoloInv'
<1>1. PICK s : s = run[c]
  OBVIOUS
<1>2. s.pc = "prune"
  BY <1>1 DEF PruneHistory, Dropping, At
<1>3. s \in Working /\ s \in RunState /\ Claims(s) /\ s.cause = "none" /\ Sane(s)
  BY <1>1, <1>2, AtPoint DEF Claimed, Forward, UndoPoints, PC
<1>4. /\ s.req.kind # "uninstall" /\ s.req.max > 0 /\ Prunes(s)
      /\ Replaces(s) => DeployedRevs = {s.rel.rev}
  BY <1>2, <1>3 DEF Sane, Placed, KindAt, HistoryAt, UninstallPoints
<1>5. s.copies \in SUBSET Release
  BY <1>3 DEF RunState
<1>6. CASE Calm /\ s.copies = {} /\ run' = [run EXCEPT ![c] = Succeed(s)]
  <2>1. Standing(s) = Stored
    BY <1>6 DEF Standing, Revs
  <2>2. Sane(Succeed(s))
    BY <1>3, <1>4, <2>1, SucceedSane DEF Prunes
  <2> QED BY <1>6, <2>2, QuietMove
<1>7. ASSUME NEW x \in s.copies, NEW t, t = [s EXCEPT !.copies = s.copies \ {x}],
             \/ Erased(x.rev) /\ run' = [run EXCEPT ![c] = t]
             \/ /\ Erased(x.rev) \/ Calm
                /\ ~StoreReliable' /\ run' = [run EXCEPT ![c] = Warn(t)]
      PROVE  SoloInv'
  <2>1. t \in RunState /\ t.pc = "prune" /\ Same(s, t) /\ t.copies = s.copies \ {x}
    BY <1>2, <1>3, <1>5, <1>7, InPlaceFields
  <2>2. PICK u : u = Warn(t)
    OBVIOUS
  <2>3. /\ u.pc = "prune" /\ u.sec /\ u.req = s.req /\ u.cur = s.cur /\ u.rel = s.rel
        /\ u.cause = s.cause /\ u.copies = s.copies \ {x}
    BY <2>1, <2>2, WarnFields DEF Same
  <2>4. PICK m \in Standing(s) : \A y \in s.copies : y.rev < m
    BY <1>4, <1>7 DEF Prunes
  <2>5. x.rev \in Rev /\ m \in Stored /\ x.rev < m
    BY <1>5, <1>7, <2>4 DEF Release, Standing
  <2>6. /\ Revs(s.copies) = Revs(s.copies \ {x}) \cup {x.rev}
        /\ Revs(s.copies \ {x}) \subseteq Revs(s.copies)
    BY <1>7 DEF Revs
  <2>7. ASSUME Erased(x.rev)
        PROVE  /\ Stored' \ Revs(s.copies \ {x}) = Standing(s)
               /\ Claims(s)' /\ LastIsLive'
               /\ Replaces(s) => DeployedRevs' = {s.rel.rev}
    <3>1. /\ Stored' = Stored \ {x.rev} /\ (Sound' => Sound)
          /\ \A r \in Rev \ {x.rev} : store'[r] = store[r]
          /\ DeployedRevs' = DeployedRevs \ {x.rev}
      BY <2>5, <2>7, ErasedFacts
    <3>2. \A r : IsLast(r)' <=> IsLast(r)
      BY <2>5, <2>7, NewestStays
    <3>3. Stored' \ Revs(s.copies \ {x}) = Standing(s)
      BY <2>6, <3>1 DEF Standing
    <3>4. Claims(s)'
      BY <1>3, <1>4, <3>2 DEF Claims
    <3>5. LastIsLive'
      <4>1. SUFFICES ASSUME Sound', NEW r \in Rev, IsLast(r)', store'[r].status = "deployed"
                     PROVE  \A y \in Manifest[store'[r].chart] : cluster'[y] = store'[r].chart
        BY DEF LastIsLive, InPlace
      <4>2. Sound /\ IsLast(r) /\ r # x.rev
        BY <2>5, <3>1, <3>2, <4>1 DEF IsLast, Rev, Stored
      <4>3. store'[r] = store[r] /\ cluster' = cluster
        BY <2>7, <3>1, <4>2 DEF Erased
      <4>4. InPlace(store[r].chart)
        BY <4>1, <4>2, <4>3 DEF SoloInv, LastIsLive
      <4> QED BY <4>3, <4>4 DEF InPlace
    <3>6. Replaces(s) => DeployedRevs' = {s.rel.rev}
      <4>1. Replaces(s) => s.rel.rev \in Standing(s) /\ x.rev \notin Standing(s)
        BY <1>4, <2>6 DEF Prunes, Standing
      <4> QED BY <1>4, <3>1, <4>1
    <3> QED BY <3>3, <3>4, <3>5, <3>6
  <2>8. CASE Erased(x.rev) /\ run' = [run EXCEPT ![c] = t]
    <3>1. Standing(t)' = Standing(s)
      BY <2>1, <2>7, <2>8 DEF Standing
    <3>2. Claims(t)'
      BY <2>1, <2>7, <2>8, ArrivalsHold DEF Arrivals, Same
    <3>3. Prunes(t)'
      BY <1>4, <2>1, <2>4, <3>1 DEF Prunes, Same, Replaces
    <3>4. Sane(t)'
      BY <1>3, <1>4, <2>1, <2>7, <2>8, <3>2, <3>3 DEF Same, Replaces, Sane, Placed, KindAt,
         ClusterAt, HistoryAt, Claimed, Unsettled, Forward, UninstallPoints, UndoPoints, PC
    <3> QED BY <2>7, <2>8, <3>4, Moved
  <2>9. CASE (Erased(x.rev) \/ Calm) /\ ~StoreReliable' /\ run' = [run EXCEPT ![c] = Warn(t)]
    <3>1. Standing(s) \subseteq Standing(u)'
      <4>1. CASE Erased(x.rev)
        BY <2>3, <2>7, <4>1 DEF Standing
      <4>2. CASE Calm
        BY <2>3, <2>6, <4>2 DEF Standing, Calm, Stored
      <4> QED BY <2>9, <4>1, <4>2
    <3>2. Claims(s)'
      <4>1. CASE Erased(x.rev)
        BY <2>7, <4>1
      <4>2. CASE Calm
        BY <1>3, <4>2 DEF Claims, IsLast, Calm, Stored
      <4> QED BY <2>9, <4>1, <4>2
    <3>3. Claims(u)'
      BY <2>3, <3>2, ArrivalsHold DEF Arrivals
    <3>4. Prunes(u)'
      BY <2>3, <2>4, <3>1 DEF Prunes, Replaces
    <3>5. Sane(u)'
      BY <1>3, <1>4, <2>3, <3>3, <3>4 DEF Replaces, Sane, Placed, KindAt,
         ClusterAt, HistoryAt, Claimed, Unsettled, Forward, UninstallPoints, UndoPoints, PC
    <3>6. LastIsLive'
      BY <2>9 DEF LastIsLive, Sound
    <3> QED BY <2>2, <2>9, <3>5, <3>6, Moved
  <2> QED BY <1>7, <2>8, <2>9
<1>8. Dropping(c, "prune", Succeed(s))
  BY <1>1, Zenon DEF PruneHistory
<1> QED BY <1>1, <1>6, <1>7, <1>8, DroppingCases

(* An uninstall purges from the oldest record up: its own is the last.     *)
LEMMA PurgeHistorySane ==
  ASSUME Solo, TypeOK, SoloInv, NEW c \in Client, PurgeHistory(c)
  PROVE  SoloInv'
<1>1. PICK s : s = run[c]
  OBVIOUS
<1>2. s.pc = "purge"
  BY <1>1 DEF PurgeHistory, Dropping, At
<1>3. s \in Working /\ s \in RunState /\ s.cause = "none" /\ Sane(s)
  BY <1>1, <1>2, AtPoint DEF Forward, UndoPoints, PC
<1>4. /\ s.req.kind = "uninstall" /\ AllGone(Doomed(s.rel.chart)) /\ Purges(s)
  BY <1>2, <1>3 DEF Sane, Placed, KindAt, ClusterAt, HistoryAt, UninstallPoints
<1>5. s.copies \in SUBSET Release /\ s.rel.rev \in Rev
  BY <1>3, WorkingHolds DEF RunState
<1>6. CASE Calm /\ s.copies = {} /\ run' = [run EXCEPT ![c] = Succeed(s)]
  <2>1. Sane(Succeed(s))
    BY <1>3, <1>4, SucceedSane DEF Replaces
  <2> QED BY <1>6, <2>1, QuietMove
<1>7. ASSUME NEW x \in s.copies, \A y \in s.copies : x.rev <= y.rev,
             NEW t, t = [s EXCEPT !.copies = s.copies \ {x}],
             \/ Erased(x.rev) /\ run' = [run EXCEPT ![c] = t]
             \/ /\ Erased(x.rev) \/ Calm
                /\ ~StoreReliable' /\ run' = [run EXCEPT ![c] = Warn(t)]
      PROVE  SoloInv'
  <2>1. t \in RunState /\ t.pc = "purge" /\ Same(s, t) /\ t.copies = s.copies \ {x}
    BY <1>2, <1>3, <1>5, <1>7, InPlaceFields
  <2>2. PICK u : u = Warn(t)
    OBVIOUS
  <2>3. /\ u.pc = "purge" /\ u.sec /\ u.req = s.req /\ u.cur = s.cur /\ u.rel = s.rel
        /\ u.cause = s.cause /\ u.copies = s.copies \ {x}
    BY <2>1, <2>2, WarnFields DEF Same
  <2>4. x.rev \in Rev /\ \A y \in s.copies : y.rev \in Rev /\ y.rev <= s.rel.rev
    BY <1>4, <1>5, <1>7 DEF Release, Purges
  <2>5. ASSUME s.copies \ {x} # {}
        PROVE  /\ x.rev < s.rel.rev /\ s.rel.rev \in Revs(s.copies \ {x})
               /\ IsLast(s.rel.rev)
    <3>1. PICK z \in s.copies : z.rev = s.rel.rev
      BY <1>4, <1>7 DEF Purges, Revs
    <3>2. x.rev # s.rel.rev
      <4> SUFFICES ASSUME x.rev = s.rel.rev PROVE FALSE
        OBVIOUS
      <4>1. \A y \in s.copies : y.rev = x.rev
        BY <1>5, <1>7, <2>4 DEF Rev
      <4> QED BY <1>4, <2>5, <4>1 DEF Purges
    <3>3. x.rev < s.rel.rev
      BY <1>5, <2>4, <3>2 DEF Rev
    <3>4. z \in s.copies \ {x}
      BY <3>1, <3>2
    <3> QED BY <1>4, <1>7, <3>1, <3>3, <3>4 DEF Purges, Revs
  <2>6. /\ Revs(s.copies) = Revs(s.copies \ {x}) \cup {x.rev}
        /\ Revs(s.copies \ {x}) \subseteq Revs(s.copies)
    BY <1>7 DEF Revs
  <2>7. ASSUME Erased(x.rev) \/ Calm, Erased(x.rev) \/ ~Sound',
               NEW w, w.copies = s.copies \ {x}, w.rel = s.rel
        PROVE  Purges(w)'
    <3>1. Sound' => Sound
      BY <2>4, <2>7, ErasedFacts DEF Calm, Sound
    <3>2. Sound' => Stored' \subseteq Revs(w.copies)
      <4> SUFFICES ASSUME Sound' PROVE Stored' \subseteq Revs(w.copies)
        OBVIOUS
      <4>1. Stored' = Stored \ {x.rev}
        BY <2>4, <2>7, ErasedFacts
      <4> QED BY <1>4, <2>6, <2>7, <3>1, <4>1 DEF Purges
    <3>3. ASSUME w.copies # {}
          PROVE  IsLast(s.rel.rev)' /\ store'[s.rel.rev] = store[s.rel.rev]
      <4>1. CASE Erased(x.rev)
        <5>1. /\ Stored' = Stored \ {x.rev}
              /\ \A r \in Rev \ {x.rev} : store'[r] = store[r]
          BY <2>4, <4>1, ErasedFacts
        <5> QED BY <1>5, <2>4, <2>5, <2>7, <3>3, <5>1 DEF IsLast, Rev
      <4>2. CASE Calm
        BY <2>5, <2>7, <3>3, <4>2 DEF Calm, IsLast, Stored
      <4> QED BY <2>7, <4>1, <4>2
    <3>4. w.copies # {} => /\ s.rel.rev \in Revs(w.copies)
                           /\ store'[s.rel.rev].chart = s.rel.chart
                           /\ (Sound' => store'[s.rel.rev].status # "deployed")
      BY <1>4, <1>7, <2>5, <2>7, <3>1, <3>3 DEF Purges
    <3>5. /\ \A y, z \in w.copies : y.rev = z.rev => y = z
          /\ \A y \in w.copies : y.rev <= s.rel.rev
      BY <1>4, <2>7 DEF Purges
    <3> QED BY <2>7, <3>2, <3>3, <3>4, <3>5 DEF Purges
  <2>8. ASSUME NEW w, w.pc = "purge", w.req = s.req, w.rel = s.rel, w.cause = s.cause,
               Purges(w)', cluster' = cluster
        PROVE  Sane(w)'
    BY <1>3, <1>4, <2>8 DEF AllGone, Sane, Placed, KindAt,
       ClusterAt, HistoryAt, Claimed, Unsettled, Forward, UninstallPoints, UndoPoints, PC
  <2>9. cluster' = cluster
    BY <1>7 DEF Erased, Calm
  <2>10. CASE Erased(x.rev) /\ run' = [run EXCEPT ![c] = t]
    <3>1. Purges(t)'
      BY <2>1, <2>7, <2>10 DEF Same
    <3>2. Sane(t)'
      BY <2>1, <2>8, <2>9, <3>1 DEF Same
    <3>3. LastIsLive'
      <4>1. SUFFICES ASSUME Sound', NEW r \in Rev, IsLast(r)', store'[r].status = "deployed"
                     PROVE  FALSE
        BY DEF LastIsLive
      <4>2. r \in Revs(t.copies)
        BY <3>1, <4>1 DEF Purges, IsLast
      <4>3. IsLast(s.rel.rev)' /\ store'[s.rel.rev].status # "deployed"
        BY <2>1, <3>1, <4>1, <4>2 DEF Purges, Same, Revs
      <4>4. r = s.rel.rev
        BY <1>5, <4>1, <4>3 DEF IsLast, Rev
      <4> QED BY <4>1, <4>3, <4>4
    <3> QED BY <2>10, <3>2, <3>3, Moved
  <2>11. CASE (Erased(x.rev) \/ Calm) /\ ~StoreReliable' /\ run' = [run EXCEPT ![c] = Warn(t)]
    <3>1. Purges(u)'
      BY <2>3, <2>7, <2>11 DEF Sound
    <3>2. Sane(u)'
      BY <2>3, <2>8, <2>9, <3>1
    <3>3. LastIsLive'
      BY <2>11 DEF LastIsLive, Sound
    <3> QED BY <2>2, <2>11, <3>2, <3>3, Moved
  <2> QED BY <1>7, <2>10, <2>11
<1>8. Dropping(c, "purge", Succeed(s))
  BY <1>1, Zenon DEF PurgeHistory
<1> QED BY <1>1, <1>6, <1>7, <1>8, DroppingCases

-----------------------------------------------------------------------------
(* The invariant.                                                          *)

(* At first nothing is stored and nobody has promised anything.            *)
LEMMA InitSolo == Init => SoloInv
<1> SUFFICES ASSUME Init PROVE SoloInv
  OBVIOUS
<1>1. LastIsLive
  BY DEF Init, StoreInit, LastIsLive, IsLast, Stored
<1>2. ASSUME NEW c \in Client PROVE Sane(run[c])
  <2>1. run[c].pc = "idle" /\ run[c].out = "none"
    BY DEF Init, IdleRun
  <2>2. PICK t : t = run[c]
    OBVIOUS
  <2>3. Sane(t)
    BY <2>1, <2>2, IdleSane DEF Promised
  <2> QED BY <2>2, <2>3
<1> QED BY <1>1, <1>2 DEF SoloInv

(* Every step of a lone client keeps it.                                   *)
LEMMA StepSolo ==
  ASSUME Solo, TypeOK, SoloInv, NEW c \in Client, Step(c)
  PROVE  SoloInv'
<1>1. CASE ReleaseStep(c)
  BY <1>1, ReadLastSane, ReadTargetSane, CreateRevisionSane, PreHooksSane, ApplyCRDsSane,
     TakeSnapshotSane, ChooseForcedSane, PreDeleteSane, ApplyReleaseSane, WaitSane,
     PostHooksSane, PruneRemovedSane, MarkDeployedSane, ReadHistoryToSupersedeSane,
     SupersedeSane, ReadHistoryToPruneSane, PruneHistorySane DEF ReleaseStep
<1>2. CASE RecoveryStep(c)
  BY <1>2, MarkFailedSane, ReapplyPreviousSane, CleanUpSane, UndoDeleteSane, UndoApplySane,
     UndoMarkFailedSane, UndoRestorePreviousSane DEF RecoveryStep
<1>3. CASE UninstallStep(c)
  BY <1>3, MarkUninstallingSane, PreDeleteHooksSane, DeleteReleaseSane, GoneCallsSane,
     ReadHistoryToPurgeSane, PurgeHistorySane, KeepHistorySane DEF UninstallStep
<1> QED BY <1>1, <1>2, <1>3 DEF Step

(* So does a step in which nothing happens.                                *)
LEMMA NextSolo == Solo /\ TypeOK /\ SoloInv /\ [Next]_vars => SoloInv'
<1> SUFFICES ASSUME Solo, TypeOK, SoloInv, [Next]_vars PROVE SoloInv'
  OBVIOUS
<1>1. CASE UNCHANGED vars
  <2>1. Calm /\ run' = run
    BY <1>1, FaultsStay, Untouched DEF vars, Calm
  <2>2. CASE Client = {}
    BY <2>1, <2>2, CalmKeeps DEF SoloInv
  <2>3. CASE Client # {}
    <3>1. PICK c \in Client : TRUE
      BY <2>3
    <3>2. PICK t : t = run[c]
      OBVIOUS
    <3>3. Sane(t)
      BY <3>2 DEF SoloInv
    <3>4. run' = [run EXCEPT ![c] = t]
      BY <2>1, <3>2 DEF TypeOK
    <3> QED BY <2>1, <3>3, <3>4, QuietMove
  <2> QED BY <2>2, <2>3
<1>2. ASSUME NEW c \in Client, Start(c) \/ Step(c) \/ Crash(c) PROVE SoloInv'
  BY <1>2, StartSane, StepSolo, CrashSane
<1> QED BY <1>1, <1>2 DEF Next, Rest

(* What is true of the store, the cluster and the memory of a lone client  *)
(* at every point of its operation (LastIsLive, Placed, ClusterAt,         *)
(* HistoryAt, Promised): the theorems below read it at particular points.  *)
THEOREM SoloInvariant ==
  ASSUME Solo
  PROVE  Spec => [](TypeOK /\ SoloInv)
<1>1. Init => TypeOK /\ SoloInv
  BY InitType, InitSolo
<1>2. TypeOK /\ SoloInv /\ [Next]_vars => (TypeOK /\ SoloInv)'
  BY NextType, NextSolo
<1> QED BY <1>1, <1>2, PTL DEF Spec

-----------------------------------------------------------------------------
(* What it means for those who use the commands.                           *)

(* supersedeOtherDeployed (upgrade.go:586): after an upgrade or a rollback *)
(* that ended without a warning exactly its own revision says deployed.    *)
THEOREM OneDeployed ==
  ASSUME Solo
  PROVE  Spec => []SuccessLeavesOneDeployed
<1>1. SoloInv => SuccessLeavesOneDeployed
  BY DEF SoloInv, Sane, Promised, Replaces, SuccessLeavesOneDeployed, Ended, Kinds, At
<1> QED BY <1>1, SoloInvariant, PTL

(* Without a bare install (upgrade.go:92 asks Last first) and without a    *)
(* failed storage call, a newest record that says deployed is live: every  *)
(* operation writes it last, and takes it back first.                      *)
THEOREM LastDeployedIsLive ==
  ASSUME Solo, ~BareInstalls
  PROVE  Spec => []DeployedLastIsLive
<1>1. SoloInv => DeployedLastIsLive
  BY DEF SoloInv, LastIsLive, Sound, InPlace, DeployedLastIsLive
<1> QED BY <1>1, SoloInvariant, PTL

(* atomicRollbackUpgrade (upgrade.go:650): an atomic upgrade that reports  *)
(* a plain failure has restored the previous manifest and both records.    *)
THEOREM AtomicRestores ==
  ASSUME Solo
  PROVE  Spec => []AtomicFailureRestores
<1>1. SoloInv => AtomicFailureRestores
  BY DEF SoloInv, Sane, Promised, InPlace, AllGone, AtomicFailureRestores, Ended, Kinds, At
<1> QED BY <1>1, SoloInvariant, PTL

(* failInstall (install.go:553): a failed install that was to clean up and *)
(* reports a plain failure has left nothing it may delete.                 *)
THEOREM FailedInstallIsClean ==
  ASSUME Solo
  PROVE  Spec => []FailedInstallLeavesNothing
<1>1. SoloInv => FailedInstallLeavesNothing
  BY DEF SoloInv, Sane, Promised, AllGone, Live, FailedInstallLeavesNothing, Ended, Kinds, At
<1> QED BY <1>1, SoloInvariant, PTL

(* pruneReleaseHistory (upgrade.go:533): it counts from the newest record  *)
(* down, so that with one deployed record, the newest, what it chooses is  *)
(* older than all it leaves, and it leaves at most --history-max.          *)
THEOREM PruneIsRight ==
  ASSUME Solo
  PROVE  Spec => []PruneKeepsTheNewest
<1>1. SoloInv => PruneKeepsTheNewest
  <2> SUFFICES ASSUME SoloInv, NEW c \in Client, Replaces(run[c]), run[c].req.max > 0
               PROVE  /\ At(c, "prune") =>
                           \A x \in run[c].copies, r \in Stored \ Revs(run[c].copies) : x.rev < r
                      /\ Ended(c, "ok") => /\ Cardinality(Stored) <= run[c].req.max
                                           /\ run[c].rel.rev \in Stored
    BY DEF PruneKeepsTheNewest, Replaces, Kinds, Revs
  <2>1. Sane(run[c])
    BY DEF SoloInv
  <2>2. ASSUME At(c, "prune"), NEW x \in run[c].copies,
               NEW r \in Stored \ Revs(run[c].copies)
        PROVE  x.rev < r
    BY <2>1, <2>2 DEF Sane, HistoryAt, Prunes, Standing, At
  <2>3. ASSUME Ended(c, "ok")
        PROVE  Cardinality(Stored) <= run[c].req.max /\ run[c].rel.rev \in Stored
    BY <2>1, <2>3 DEF Sane, Promised, Ended, At, DeployedRevs
  <2> QED BY <2>2, <2>3
<1> QED BY <1>1, SoloInvariant, PTL

(* Only the two walks over the history remove records.                     *)
LEMMA WritingKeeps ==
  ASSUME TypeOK, NEW c \in Client, NEW pc, NEW x \in Release, NEW done, NEW failed,
         Writing(c, pc, x, done, failed) \/ RetriedUpdate(c, pc, x, done, failed)
  PROVE  Stored' = Stored
<1>1. Overwrites(x) => Stored' = Stored
  BY Overwritten
<1>2. Calm => Stored' = Stored
  BY DEF Calm, Stored
<1>3. Overwrites(x) \/ Calm
  <2>1. CASE Writing(c, pc, x, done, failed)
    BY <2>1, WritingCases
  <2>2. CASE RetriedUpdate(c, pc, x, done, failed)
    BY <2>2, RetriedCases
  <2> QED BY <2>1, <2>2
<1> QED BY <1>1, <1>2, <1>3

(* A step that removes the newest record is one of an uninstall that has   *)
(* deleted the objects.                                                    *)
LEMMA RemovalIsLate ==
  ASSUME Solo, TypeOK, SoloInv, [Next]_vars,
         NEW r \in Stored \ Stored', IsLast(r)
  PROVE  WithoutCRDs(Deletable(store[r].chart)) \cap Live = {}
<1>1. Stored' # Stored
  OBVIOUS
<1>2. store' # store
  BY <1>1 DEF Stored
<1>3. PICK c \in Client : Start(c) \/ Step(c) \/ Crash(c)
  BY <1>2 DEF Next, Rest, vars
<1>4. PICK s : s = run[c]
  OBVIOUS
<1>5. Sane(s)
  BY <1>4 DEF SoloInv
<1>6. ASSUME NEW x \in s.copies, Stored \ Stored' \subseteq {x.rev} PROVE r = x.rev
  BY <1>6
<1>7. CASE PruneHistory(c)
  <2>1. s.pc = "prune" /\ s \in RunState
    BY <1>4, <1>7, RunGood DEF PruneHistory, Dropping, At, Good
  <2>2. PICK x \in s.copies : Erased(x.rev)
    BY <1>2, <1>4, <1>7, DroppingCases DEF PruneHistory, Calm
  <2>3. x.rev \in Rev
    BY <2>1, <2>2 DEF RunState, Release
  <2>4. r = x.rev
    BY <2>2, <2>3, ErasedFacts
  <2>5. PICK m \in Standing(s) : \A y \in s.copies : y.rev < m
    BY <1>5, <2>1, <2>2 DEF Sane, HistoryAt, Prunes
  <2> QED BY <2>2, <2>4, <2>5 DEF IsLast, Standing, Stored, Rev
<1>8. CASE PurgeHistory(c)
  <2>1. s.pc = "purge" /\ s \in RunState
    BY <1>4, <1>8, RunGood DEF PurgeHistory, Dropping, At, Good
  <2>2. PICK x \in s.copies : Erased(x.rev)
    BY <1>2, <1>4, <1>8, DroppingCases DEF PurgeHistory, Calm
  <2>3. IsLast(s.rel.rev) /\ store[s.rel.rev].chart = s.rel.chart
    BY <1>5, <2>1, <2>2 DEF Sane, HistoryAt, Purges
  <2>4. r = s.rel.rev
    BY <2>3 DEF IsLast, Stored, Rev
  <2>5. AllGone(Doomed(s.rel.chart))
    BY <1>5, <2>1 DEF Sane, ClusterAt
  <2> QED BY <2>3, <2>4, <2>5 DEF AllGone, Doomed, Live
<1>9. CASE \/ ReadLast(c) \/ ReadTarget(c) \/ ReadHistoryToSupersede(c)
           \/ ReadHistoryToPrune(c) \/ ReadHistoryToPurge(c) \/ Start(c) \/ Crash(c)
  BY <1>2, <1>9 DEF ReadLast, ReadTarget, ReadHistoryToSupersede, ReadHistoryToPrune,
     ReadHistoryToPurge, ReadHistory, ReadOk, ReadFails, Start, Crash, world
<1>10. CASE \/ PreHooks(c) \/ ApplyCRDs(c) \/ TakeSnapshot(c) \/ ChooseForced(c)
            \/ PreDelete(c) \/ ApplyRelease(c) \/ WaitForJobs(c) \/ WaitForReady(c)
            \/ PostHooks(c) \/ PruneRemoved(c) \/ ReapplyPrevious(c) \/ CleanUp(c)
            \/ UndoDelete(c) \/ UndoApply(c) \/ PreDeleteHooks(c) \/ DeleteRelease(c)
            \/ WaitForDeletion(c) \/ PostDeleteHooks(c)
  BY <1>2, <1>10 DEF PreHooks, ApplyCRDs, TakeSnapshot, ChooseForced, PreDelete, ApplyRelease,
     WaitForJobs, WaitForReady, PostHooks, PruneRemoved, ReapplyPrevious, CleanUp, UndoDelete,
     UndoApply, PreDeleteHooks, DeleteRelease, WaitForDeletion, PostDeleteHooks,
     KubeCall, Applying, Deleting
<1>11. CASE CreateRevision(c)
  <2>1. s \in Working /\ s.rel \in Release
    BY <1>4, <1>11, AtWork, WorkingHolds DEF CreateRevision, At
  <2>2. store' = store \/ Put(s.rel)
    BY <1>4, <1>11 DEF CreateRevision, CreateOk, CreateFails
  <2>3. [chart |-> s.rel.chart, status |-> s.rel.status] # NoRecord
    BY <2>1, NoChartAssumption DEF Release, NoRecord
  <2>4. Stored \subseteq Stored'
    BY <1>2, <2>1, <2>2, <2>3 DEF Put, Stored, TypeOK, StoreTypeOK
  <2> QED BY <2>4
<1>12. CASE MarkDeployed(c) \/ Supersede(c) \/ MarkFailed(c) \/ UndoMarkFailed(c)
            \/ UndoRestorePrevious(c) \/ MarkUninstalling(c) \/ KeepHistory(c)
  <2>1. s \in Working /\ s \in RunState /\ s.rel \in Release /\ s.pc # "idle"
    BY <1>2, <1>4, <1>12, AtWork, WorkingHolds DEF MarkDeployed, Supersede, MarkFailed,
       UndoMarkFailed, UndoRestorePrevious, MarkUninstalling, KeepHistory, RetriedUpdate,
       Writing, At, world, Working, Good
  <2>2. \A status \in Status : [s EXCEPT !.rel.status = status].rel \in Release
    BY <2>1, StatusFields
  <2>3. \A y \in s.copies, status \in Status : [y EXCEPT !.status = status] \in Release
    BY <2>1 DEF RunState, Release
  <2>4. CASE MarkDeployed(c)
    BY <1>1, <1>4, <2>2, <2>4, WritingKeeps DEF MarkDeployed, Status
  <2>5. CASE Supersede(c)
    BY <1>1, <1>2, <1>4, <2>3, <2>5, WritingKeeps DEF Supersede, Status, world
  <2>6. CASE MarkFailed(c)
    BY <1>1, <1>4, <2>2, <2>6, WritingKeeps DEF MarkFailed, Status
  <2>7. CASE UndoMarkFailed(c)
    <3>1. [s.rel EXCEPT !.status = "failed"] \in Release
      BY <2>1 DEF Release, Status
    <3> QED BY <1>1, <1>4, <2>7, <3>1, WritingKeeps DEF UndoMarkFailed
  <2>8. CASE UndoRestorePrevious(c)
    <3>1. s.cur \in Release
      BY <1>4, <2>1, <2>8, WorkingHolds DEF UndoRestorePrevious, Writing, At, UsesPrevious,
         Working, Good, Holding
    <3>2. [s EXCEPT !.cur.status = "deployed"].cur \in Release
      BY <2>1, <3>1, PreviousFields DEF Status
    <3> QED BY <1>1, <1>4, <2>8, <3>2, WritingKeeps DEF UndoRestorePrevious
  <2>9. CASE MarkUninstalling(c)
    BY <1>1, <1>4, <2>1, <2>9, WritingKeeps DEF MarkUninstalling
  <2>10. CASE KeepHistory(c)
    BY <1>1, <1>4, <2>2, <2>10, WritingKeeps DEF KeepHistory, Status
  <2> QED BY <1>12, <2>4, <2>5, <2>6, <2>7, <2>8, <2>9, <2>10
<1> QED BY <1>3, <1>7, <1>8, <1>9, <1>10, <1>11, <1>12
        DEF Step, ReleaseStep, RecoveryStep, UninstallStep

(* Uninstall (uninstall.go:32) removes the records last, from the oldest   *)
(* up, and pruneReleaseHistory never the newest: the only list of what is  *)
(* to be deleted outlives the objects, whatever fails and whenever the     *)
(* client crashes.                                                         *)
THEOREM RecordOutlives ==
  ASSUME Solo
  PROVE  Spec => RecordOutlivesItsObjects
<1>1. TypeOK /\ SoloInv /\ [Next]_vars
      => [\A r \in Stored \ Stored' :
             IsLast(r) => WithoutCRDs(Deletable(store[r].chart)) \cap Live = {}]_vars
  BY RemovalIsLate
<1>2. Spec => [](TypeOK /\ SoloInv)
  BY SoloInvariant
<1> QED BY <1>1, <1>2, PTL DEF Spec, RecordOutlivesItsObjects
=============================================================================
