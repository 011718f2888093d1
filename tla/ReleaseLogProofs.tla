-------------------------- MODULE ReleaseLogProofs --------------------------
(***************************************************************************)
(* The operations on a release with any number of clients: their types,    *)
(* and the history as a log.                                               *)
(*                                                                         *)
(* Type correctness holds for every set of requests, charts and resources  *)
(* and every bound.  A client state is Good when it is a RunState that     *)
(* holds what its program counter needs; every function that says where an *)
(* operation goes next maps Good states to Good states.                    *)
(*                                                                         *)
(* As long as no request uninstalls or prunes, the revision history is a   *)
(* log and every revision has one owner, for every number of clients,      *)
(* revisions, failures and crashes.  The argument: an operation passes     *)
(* from one point to the next without touching its request and the         *)
(* revision and manifest of the records it holds (Follows); so whatever it *)
(* writes back changes a status only, and the one step that adds a record, *)
(* Create, adds the next one and finds it free.                            *)
(***************************************************************************)
EXTENDS ReleaseOpsProps, TLAPS

Good == {s \in RunState : Holding(s)}

-----------------------------------------------------------------------------
(* The program counters an operation may be sent to with nothing more than *)
(* what it holds already: no earlier revision is needed there.             *)
Onward == PC \ (UsesPrevious \cup {"idle", "read", "target", "create"})

(* An operation at work: past its reads.                                   *)
Working == {s \in Good : s.pc \notin {"idle", "read", "target"}}

(* To moves the program counter, resets what walks and retries use, and    *)
(* leaves what the operation holds alone.                                  *)
LEMMA ToType ==
  ASSUME NEW s \in RunState, NEW pc \in PC
  PROVE  /\ To(s, pc) \in RunState
         /\ To(s, pc).pc = pc
         /\ To(s, pc).req = s.req
         /\ To(s, pc).cur = s.cur
         /\ To(s, pc).rel = s.rel
         /\ To(s, pc).copies = {}
<1> DEFINE s1 == [s EXCEPT !.pc = pc]
           s2 == [s1 EXCEPT !.todo = {}]
           s3 == [s2 EXCEPT !.copies = {}]
           s4 == [s3 EXCEPT !.tries = 0]
<1>1. s1 \in RunState /\ s1.pc = pc /\ s1.req = s.req /\ s1.cur = s.cur /\ s1.rel = s.rel
  BY DEF RunState
<1> HIDE DEF s1
<1>2. s2 \in RunState /\ s2.pc = pc /\ s2.req = s.req /\ s2.cur = s.cur /\ s2.rel = s.rel
  BY <1>1 DEF RunState
<1> HIDE DEF s2
<1>3. s3 \in RunState /\ s3.pc = pc /\ s3.req = s.req /\ s3.cur = s.cur /\ s3.rel = s.rel
      /\ s3.copies = {}
  BY <1>2 DEF RunState
<1> HIDE DEF s3
<1>4. s4 \in RunState /\ s4.pc = pc /\ s4.req = s.req /\ s4.cur = s.cur /\ s4.rel = s.rel
      /\ s4.copies = {}
  BY <1>3 DEF RunState
<1>5. To(s, pc) = s4
  BY Zenon DEF To, s1, s2, s3, s4
<1> QED BY <1>4, <1>5

(* A step without a walk, to a program counter that needs no earlier       *)
(* revision or by an operation that has read one.                          *)
LEMMA ToGood ==
  ASSUME NEW s \in Working, NEW pc \in PC \ {"idle", "read", "target"},
         pc \in UsesPrevious => s.req.kind # "install"
  PROVE  To(s, pc) \in Working
BY ToType DEF Working, Good, Holding

(* A step that starts a walk over resources.                               *)
LEMMA WalkGood ==
  ASSUME NEW s \in Working, NEW pc \in PC \ {"idle", "read", "target"},
         NEW todo \in SUBSET Resource,
         pc \in UsesPrevious => s.req.kind # "install"
  PROVE  Walk(s, pc, todo) \in Working
<1> DEFINE t == To(s, pc)
           w == [t EXCEPT !.todo = todo]
<1>1. t \in Working
  BY ToGood
<1> HIDE DEF t
<1>2. w \in RunState /\ w.pc = t.pc /\ w.req = t.req /\ w.cur = t.cur /\ w.rel = t.rel
  BY <1>1 DEF Working, Good, RunState
<1> HIDE DEF w
<1>3. w \in Working
  BY <1>1, <1>2 DEF Working, Good, Holding
<1> QED BY <1>3 DEF Walk, w, t

(* A step that starts a walk over records.                                 *)
LEMMA VisitGood ==
  ASSUME NEW s \in Working, NEW pc \in Onward, NEW copies \in SUBSET Release
  PROVE  Visit(s, pc, copies) \in Working
<1> DEFINE t == To(s, pc)
           w == [t EXCEPT !.copies = copies]
<1>1. t \in Working
  BY ToGood DEF Onward
<1> HIDE DEF t
<1>2. w \in RunState /\ w.pc = t.pc /\ w.req = t.req /\ w.cur = t.cur /\ w.rel = t.rel
  BY <1>1 DEF Working, Good, RunState
<1> HIDE DEF w
<1>3. w \in Working
  BY <1>1, <1>2 DEF Working, Good, Holding
<1> QED BY <1>3 DEF Visit, w, t

(* Recording a warning changes nothing an operation holds.                 *)
LEMMA WarnGood ==
  ASSUME NEW s \in Good
  PROVE  /\ Warn(s) \in Good
         /\ s \in Working => Warn(s) \in Working
         /\ Warn(s).req = s.req /\ Warn(s).rel = s.rel /\ Warn(s).cur = s.cur
         /\ Warn(s).cause = s.cause /\ Warn(s).pc = s.pc
<1> DEFINE w == Warn(s)
<1>1. w \in RunState /\ w.pc = s.pc /\ w.req = s.req /\ w.cur = s.cur /\ w.rel = s.rel
      /\ w.cause = s.cause
  BY DEF Warn, Good, RunState
<1> HIDE DEF w
<1> QED BY <1>1 DEF Working, Good, Holding, w

(* Going idle is possible from everywhere.                                 *)
LEMMA FinishGood ==
  ASSUME NEW s \in Good, NEW out \in Outcome
  PROVE  Finish(s, out) \in Good
<1> DEFINE t == To(s, "idle")
           u == [t EXCEPT !.snap = {}]
           v == [u EXCEPT !.out = out]
<1>1. t \in RunState /\ t.pc = "idle"
  BY ToType DEF Good, PC
<1> HIDE DEF t
<1>2. u \in RunState /\ u.pc = "idle"
  BY <1>1 DEF RunState
<1> HIDE DEF u
<1>3. v \in RunState /\ v.pc = "idle"
  BY <1>2 DEF RunState
<1>4. Finish(s, out) = v
  BY Zenon DEF Finish, t, u, v
<1> QED BY <1>3, <1>4 DEF Good, Holding, UsesPrevious

(* Every operation can end: well, with an error, or into its recovery.     *)
LEMMA EndGood ==
  ASSUME NEW s \in Good
  PROVE  Succeed(s) \in Good /\ GiveUp(s) \in Good
BY FinishGood DEF Succeed, GiveUp, Outcome

(* Every operation can turn to markFailed.                                 *)
LEMMA FailGood ==
  ASSUME NEW s \in Working, NEW cause \in Cause
  PROVE  Fail(s, cause) \in Working
<1> DEFINE t == To(s, "fail")
           w == [t EXCEPT !.cause = cause]
<1>1. t \in Working
  BY ToGood DEF PC, UsesPrevious
<1> HIDE DEF t
<1>2. w \in RunState /\ w.pc = t.pc /\ w.req = t.req /\ w.cur = t.cur /\ w.rel = t.rel
  BY <1>1 DEF Working, Good, RunState
<1> HIDE DEF w
<1>3. w \in Working
  BY <1>1, <1>2 DEF Working, Good, Holding
<1> QED BY <1>3 DEF Fail, w, t

-----------------------------------------------------------------------------
(* What a working client may change in place.                              *)

(* A walk over resources may shrink.                                       *)
LEMMA SetTodoGood ==
  ASSUME NEW s \in Working, NEW todo \in SUBSET Resource
  PROVE  [s EXCEPT !.todo = todo] \in Working
<1> DEFINE w == [s EXCEPT !.todo = todo]
<1>1. w \in RunState /\ w.pc = s.pc /\ w.req = s.req /\ w.cur = s.cur /\ w.rel = s.rel
  BY DEF Working, Good, RunState
<1> HIDE DEF w
<1>2. w \in Working
  BY <1>1 DEF Working, Good, Holding
<1> QED BY <1>2 DEF w

(* A walk over records may shrink.                                         *)
LEMMA SetCopiesGood ==
  ASSUME NEW s \in Working, NEW copies \in SUBSET Release
  PROVE  [s EXCEPT !.copies = copies] \in Working
<1> DEFINE w == [s EXCEPT !.copies = copies]
<1>1. w \in RunState /\ w.pc = s.pc /\ w.req = s.req /\ w.cur = s.cur /\ w.rel = s.rel
  BY DEF Working, Good, RunState
<1> HIDE DEF w
<1>2. w \in Working
  BY <1>1 DEF Working, Good, Holding
<1> QED BY <1>2 DEF w

(* The cleanup-on-fail snapshot may be taken at any point.                 *)
LEMMA SetSnapGood ==
  ASSUME NEW s \in Working, NEW snap \in SUBSET Resource
  PROVE  /\ [s EXCEPT !.snap = snap] \in Working
         /\ [s EXCEPT !.snap = snap].req = s.req
<1> DEFINE w == [s EXCEPT !.snap = snap]
<1>1. w \in RunState /\ w.pc = s.pc /\ w.req = s.req /\ w.cur = s.cur /\ w.rel = s.rel
  BY DEF Working, Good, RunState
<1> HIDE DEF w
<1>2. w \in Working
  BY <1>1 DEF Working, Good, Holding
<1> QED BY <1>1, <1>2 DEF w

(* A retried write counts its attempts up to three.                        *)
LEMMA SetTriesGood ==
  ASSUME NEW s \in Working, NEW tries \in 0 .. 2
  PROVE  [s EXCEPT !.tries = tries] \in Working
<1> DEFINE w == [s EXCEPT !.tries = tries]
<1>1. w \in RunState /\ w.pc = s.pc /\ w.req = s.req /\ w.cur = s.cur /\ w.rel = s.rel
  BY DEF Working, Good, RunState
<1> HIDE DEF w
<1>2. w \in Working
  BY <1>1 DEF Working, Good, Holding
<1> QED BY <1>2 DEF w

(* A status written into the record in memory.                             *)
LEMMA SetStatusGood ==
  ASSUME NEW s \in Working, NEW status \in Status
  PROVE  /\ [s EXCEPT !.rel.status = status] \in Working
         /\ [s EXCEPT !.rel.status = status].req = s.req
         /\ [s EXCEPT !.rel.status = status].pc = s.pc
         /\ [s EXCEPT !.rel.status = status].rel = [s.rel EXCEPT !.status = status]
         /\ [s EXCEPT !.rel.status = status].rel \in Release
<1> DEFINE w == [s EXCEPT !.rel = [s.rel EXCEPT !.status = status]]
<1>1. s.rel \in Release
  BY DEF Working, Good, Holding
<1>2. [s.rel EXCEPT !.status = status] \in Release
  BY <1>1 DEF Release
<1>3. w \in RunState /\ w.pc = s.pc /\ w.req = s.req /\ w.cur = s.cur
      /\ w.rel = [s.rel EXCEPT !.status = status]
  BY <1>2 DEF Working, Good, RunState
<1>4. [s EXCEPT !.rel.status = status] = w
  BY DEF Working, Good, RunState
<1> HIDE DEF w
<1>5. w \in Working
  BY <1>2, <1>3 DEF Working, Good, Holding
<1> QED BY <1>2, <1>3, <1>4, <1>5

(* The same for the record of the previous revision.                       *)
LEMMA SetPreviousStatusGood ==
  ASSUME NEW s \in Working, NEW status \in Status, s.req.kind # "install"
  PROVE  /\ [s EXCEPT !.cur.status = status] \in Working
         /\ [s EXCEPT !.cur.status = status].cur \in Release
<1> DEFINE w == [s EXCEPT !.cur = [s.cur EXCEPT !.status = status]]
<1>1. s.cur \in Release
  BY DEF Working, Good, Holding
<1>2. [s.cur EXCEPT !.status = status] \in Release
  BY <1>1 DEF Release
<1>3. w \in RunState /\ w.pc = s.pc /\ w.req = s.req /\ w.rel = s.rel
      /\ w.cur = [s.cur EXCEPT !.status = status]
  BY <1>2 DEF Working, Good, RunState
<1>4. [s EXCEPT !.cur.status = status] = w
  BY DEF Working, Good, RunState
<1> HIDE DEF w
<1>5. w \in Working
  BY <1>2, <1>3 DEF Working, Good, Holding
<1> QED BY <1>2, <1>3, <1>4, <1>5

-----------------------------------------------------------------------------
(* Where an operation goes next.                                           *)

(* The walks stay within the resources.                                    *)
LEMMA ManifestType ==
  ASSUME NEW ch \in Chart
  PROVE  /\ Manifest[ch] \in SUBSET Resource
         /\ Deletable(ch) \in SUBSET Resource
         /\ \A base \in Chart : Orphans(ch, base) \in SUBSET Resource
BY ManifestAssumption DEF Deletable, Orphans

(* A client at work holds a chart in each record it may use.               *)
LEMMA WorkingHolds ==
  ASSUME NEW s \in Working
  PROVE  /\ s \in Good /\ s.pc \in PC /\ s.req \in Request /\ s.rel \in Release
         /\ s.rel.chart \in Chart /\ s.rel.rev \in Rev
         /\ s.req.kind # "install" => s.cur \in Release /\ s.cur.chart \in Chart
         /\ s.cause \in Cause /\ s.todo \in SUBSET Resource
         /\ s.copies \in SUBSET Release /\ s.tries \in 0 .. 2
         /\ s.snap \in SUBSET Resource
         /\ s.pc \in UsesPrevious => s.req.kind # "install"
BY DEF Working, Good, Holding, RunState, Release

(* A deletion starts, or is skipped with a warning when its manifests do   *)
(* not parse.                                                              *)
LEMMA WalkIfParsedGood ==
  ASSUME NEW s \in Working, NEW pc \in PC \ {"idle", "read", "target"},
         NEW todo \in SUBSET Resource, NEW parsed \in BOOLEAN,
         pc \in UsesPrevious => s.req.kind # "install"
  PROVE  WalkIfParsed(s, pc, todo, parsed) \in Working
<1>1. Walk(s, pc, todo) \in Working
  BY WalkGood
<1>2. Warn(s) \in Working /\ Warn(s).req = s.req
  BY WarnGood, WorkingHolds
<1>3. Walk(Warn(s), pc, {}) \in Working
  BY <1>2, WalkGood
<1> QED BY <1>1, <1>3 DEF WalkIfParsed

(* The step into ApplyManifests keeps the type.                            *)
LEMMA ToApplyGood ==
  ASSUME NEW s \in Working
  PROVE  ToApply(s) \in Working
BY WalkGood, WorkingHolds, ManifestType DEF ToApply, PC, UsesPrevious

(* The step after the snapshot keeps the type; only an operation with a    *)
(* previous revision forces.                                               *)
LEMMA AfterSnapshotGood ==
  ASSUME NEW s \in Working, s.req.kind # "install"
  PROVE  AfterSnapshot(s) \in Working
BY ToGood, ToApplyGood DEF AfterSnapshot, PC

(* The step after the CRDs keeps the type.                                 *)
LEMMA AfterCRDsGood ==
  ASSUME NEW s \in Working
  PROVE  AfterCRDs(s) \in Working
BY ToGood, ToApplyGood, AfterSnapshotGood DEF AfterCRDs, PC

(* The step after ApplyManifests keeps the type.                           *)
LEMMA AfterApplyGood ==
  ASSUME NEW s \in Working
  PROVE  AfterApply(s) \in Working /\ AfterJobs(s) \in Working
BY ToGood DEF AfterApply, AfterJobs, PC, UsesPrevious

(* The step after supersedeOtherDeployed keeps the type.                   *)
LEMMA AfterSupersedeGood ==
  ASSUME NEW s \in Working
  PROVE  AfterSupersede(s) \in Good
BY ToGood, EndGood, WorkingHolds DEF AfterSupersede, PC, UsesPrevious, Working

(* The step after the final status write keeps the type.                   *)
LEMMA AfterDeployGood ==
  ASSUME NEW s \in Working
  PROVE  AfterDeploy(s) \in Good
BY ToGood, AfterSupersedeGood DEF AfterDeploy, PC, UsesPrevious, Working

(* The step after the cleanup keeps the type; only an upgrade, which has a *)
(* previous revision, is undone.                                           *)
LEMMA AfterCleanupGood ==
  ASSUME NEW s \in Working
  PROVE  AfterCleanup(s) \in Good
<1>1. CASE s.req.kind = "upgrade" /\ s.req.atomic /\ s.cause \notin {"crds", "force"}
  <2>1. s.cur.chart \in Chart /\ s.rel.chart \in Chart
    BY <1>1, WorkingHolds
  <2>2. Orphans(s.rel.chart, s.cur.chart) \in SUBSET Resource
    BY <2>1, ManifestType
  <2>3. WalkIfParsed(s, "undodelete", Orphans(s.rel.chart, s.cur.chart),
                     Parses(s.rel.chart) /\ Parses(s.cur.chart)) \in Working
    BY <1>1, <2>2, WalkIfParsedGood DEF PC
  <2> QED BY <1>1, <2>3 DEF AfterCleanup, Working
<1>2. CASE ~(s.req.kind = "upgrade" /\ s.req.atomic /\ s.cause \notin {"crds", "force"})
  BY <1>2, EndGood, WorkingHolds DEF AfterCleanup
<1> QED BY <1>1, <1>2

(* The step after markFailed keeps the type; only an upgrade applies the   *)
(* previous manifest again.                                                *)
LEMMA AfterMarkFailedGood ==
  ASSUME NEW s \in Working
  PROVE  AfterMarkFailed(s) \in Good
<1> DEFINE whole == WalkIfParsed(s, "cleanup", Deletable(s.rel.chart), Parses(s.rel.chart))
           spared == WalkIfParsed(s, "cleanup", Deletable(s.rel.chart) \ s.snap,
                                  Parses(s.rel.chart))
           again == Walk(s, "reapply", Manifest[s.cur.chart])
<1>1. Deletable(s.rel.chart) \in SUBSET Resource
  BY WorkingHolds, ManifestType
<1>2. whole \in Working /\ spared \in Working
  <2>1. Deletable(s.rel.chart) \ s.snap \in SUBSET Resource
    BY <1>1
  <2>2. Parses(s.rel.chart) \in BOOLEAN
    BY DEF Parses
  <2>3. "cleanup" \in PC \ {"idle", "read", "target"} /\ "cleanup" \notin UsesPrevious
    BY DEF PC, UsesPrevious
  <2> QED BY <1>1, <2>1, <2>2, <2>3, WalkIfParsedGood
<1>3. ASSUME s.req.kind = "upgrade" PROVE again \in Working
  <2>1. Manifest[s.cur.chart] \in SUBSET Resource
    BY <1>3, WorkingHolds, ManifestType
  <2> QED BY <1>3, <2>1, WalkGood DEF PC
<1>4. AfterCleanup(s) \in Good
  BY AfterCleanupGood
<1>5. \/ AfterMarkFailed(s) = whole
      \/ AfterMarkFailed(s) = spared
      \/ s.req.kind = "upgrade" /\ AfterMarkFailed(s) = again
      \/ AfterMarkFailed(s) = AfterCleanup(s)
  BY Zenon DEF AfterMarkFailed
<1> HIDE DEF whole, spared, again
<1> QED BY <1>2, <1>3, <1>4, <1>5 DEF Working

-----------------------------------------------------------------------------
(* What single calls do to the store, the cluster and the client.          *)

(* A typed state gives every client a well-typed operation.                *)
LEMMA RunGood ==
  TypeOK <=> /\ StoreTypeOK /\ ClusterTypeOK
             /\ run \in [Client -> Good]
             /\ started \in 0 .. MaxOps /\ crashes \in 0 .. MaxCrashes
BY DEF TypeOK, Good

(* A client that is not idle is well typed and has a request.              *)
LEMMA AtWork ==
  ASSUME TypeOK, NEW c \in Client, run[c].pc \notin {"idle", "read", "target"}
  PROVE  run[c] \in Working
BY RunGood DEF Working

(* A step of one client to a well-typed state keeps the type of all.       *)
LEMMA BecomeType ==
  ASSUME TypeOK, StoreTypeOK', ClusterTypeOK', NEW c \in Client, NEW t \in Good, Become(c, t)
  PROVE  TypeOK'
<1>1. run' \in [Client -> Good] /\ started' = started /\ crashes' = crashes
  BY RunGood DEF Become, budget
<1> QED BY <1>1, RunGood DEF TypeOK, Good

(* Only records of a revision in range are put.                            *)
LEMMA PutType ==
  ASSUME StoreTypeOK, NEW x \in Release, Put(x)
  PROVE  store' \in [Rev -> Record]
<1>1. [chart |-> x.chart, status |-> x.status] \in Record
  BY DEF Release, Record
<1> QED BY <1>1 DEF Put, StoreTypeOK

(* Erasing a record keeps the store typed.                                 *)
LEMMA EraseType ==
  ASSUME StoreTypeOK, NEW r, Erase(r)
  PROVE  store' \in [Rev -> Record]
BY DEF Erase, StoreTypeOK, Record

(* A failing storage call uses up one of the faults left.                  *)
LEMMA StoreFaultType ==
  ASSUME StoreTypeOK, StoreFault
  PROVE  storeFaults' \in 0 .. MaxStoreFaults
BY StoreFaultsAssumption DEF StoreTypeOK, StoreFault

(* Every outcome of a storage call keeps the store typed.                  *)
LEMMA StoreCallType ==
  ASSUME StoreTypeOK
  PROVE  /\ ReadOk => StoreTypeOK'
         /\ ReadFails => StoreTypeOK'
         /\ \A x \in Release : CreateOk(x) \/ CreateFails(x) => StoreTypeOK'
         /\ \A x \in Release : UpdateOk(x) \/ UpdateFails(x) => StoreTypeOK'
         /\ \A r : DeleteOk(r) \/ DeleteFails(r) => StoreTypeOK'
<1>1. ReadOk => StoreTypeOK'
  BY DEF ReadOk, StoreTypeOK
<1>2. ReadFails => StoreTypeOK'
  BY StoreFaultType DEF ReadFails, StoreTypeOK
<1>3. ASSUME NEW x \in Release, CreateOk(x) \/ CreateFails(x) PROVE StoreTypeOK'
  BY <1>3, PutType, StoreFaultType DEF CreateOk, CreateFails, StoreTypeOK
<1>4. ASSUME NEW x \in Release, UpdateOk(x) \/ UpdateFails(x) PROVE StoreTypeOK'
  BY <1>4, PutType, StoreFaultType DEF UpdateOk, UpdateFails, StoreTypeOK
<1>5. ASSUME NEW r, DeleteOk(r) \/ DeleteFails(r) PROVE StoreTypeOK'
  BY <1>5, EraseType, StoreFaultType DEF DeleteOk, DeleteFails, StoreTypeOK
<1> QED BY <1>1, <1>2, <1>3, <1>4, <1>5

(* A failing cluster call uses up one of the faults left.                  *)
LEMMA KubeFaultType ==
  ASSUME ClusterTypeOK, KubeFault
  PROVE  kubeFaults' \in 0 .. MaxKubeFaults
BY KubeFaultsAssumption DEF ClusterTypeOK, KubeFault

(* Every outcome of a cluster call keeps the cluster typed.                *)
LEMMA ClusterCallType ==
  ASSUME ClusterTypeOK
  PROVE  /\ KubeOk => ClusterTypeOK'
         /\ KubeFails => ClusterTypeOK'
         /\ \A r, ch : ch \in Chart /\ (ApplyOk(r, ch) \/ ApplyFails(r, ch)) => ClusterTypeOK'
         /\ \A r : RemoveOk(r) \/ RemoveFails(r) => ClusterTypeOK'
<1>1. KubeOk => ClusterTypeOK'
  BY DEF KubeOk, ClusterTypeOK
<1>2. KubeFails => ClusterTypeOK'
  BY KubeFaultType DEF KubeFails, ClusterTypeOK
<1>3. ASSUME NEW r, NEW ch \in Chart, ApplyOk(r, ch) \/ ApplyFails(r, ch)
      PROVE  ClusterTypeOK'
  BY <1>3, KubeFaultType DEF ApplyOk, ApplyFails, ClusterTypeOK
<1>4. ASSUME NEW r, RemoveOk(r) \/ RemoveFails(r) PROVE ClusterTypeOK'
  BY <1>4, KubeFaultType DEF RemoveOk, RemoveFails, ClusterTypeOK
<1> QED BY <1>1, <1>2, <1>3, <1>4

(* The records a history read returns.                                     *)
LEMMA HistoryType ==
  ASSUME StoreTypeOK
  PROVE  /\ \A r \in Stored : CopyOf(r) \in Release
         /\ History \in SUBSET Release
         /\ \A r \in Stored : store[r].chart \in Chart
<1>1. ASSUME NEW r \in Stored PROVE CopyOf(r) \in Release /\ store[r].chart \in Chart
  BY <1>1 DEF Stored, StoreTypeOK, Record, CopyOf, Release
<1> QED BY <1>1 DEF History

-----------------------------------------------------------------------------
(* The shapes of a client's step.                                          *)

(* A call on the cluster leaves the store alone and the other way round.   *)
LEMMA Untouched ==
  ASSUME TypeOK
  PROVE  /\ StoreTypeOK /\ ClusterTypeOK
         /\ UNCHANGED <<store, storeFaults>> => StoreTypeOK'
         /\ UNCHANGED <<cluster, kubeFaults>> => ClusterTypeOK'
         /\ UNCHANGED world => StoreTypeOK' /\ ClusterTypeOK'
BY DEF TypeOK, StoreTypeOK, ClusterTypeOK, world

(* A hook phase or a wait keeps the type when both its continuations do.   *)
LEMMA KubeCallType ==
  ASSUME TypeOK, NEW c \in Client, NEW pc, NEW done \in Good, NEW failed \in Good,
         KubeCall(c, pc, done, failed)
  PROVE  TypeOK'
<1>1. StoreTypeOK' /\ (KubeOk \/ KubeFails)
  BY Untouched DEF KubeCall
<1>2. ClusterTypeOK'
  BY <1>1, Untouched, ClusterCallType
<1> QED BY <1>1, <1>2, BecomeType DEF KubeCall

(* ApplyManifests keeps the type when both its continuations do.           *)
LEMMA ApplyingType ==
  ASSUME TypeOK, NEW c \in Client, NEW pc \in PC \ {"idle", "read", "target"},
         NEW ch \in Chart, NEW done \in Good, NEW failed \in Good,
         Applying(c, pc, ch, done, failed)
  PROVE  TypeOK'
<1> DEFINE s == run[c]
<1>1. s \in Working
  BY AtWork DEF Applying, At
<1>2. StoreTypeOK'
  BY Untouched DEF Applying
<1>3. CASE KubeOk /\ (Become(c, done) \/ Become(c, failed))
  BY <1>2, <1>3, BecomeType, ClusterCallType, Untouched
<1>4. CASE \E r \in s.todo :
              \/ ApplyOk(r, ch) /\ Become(c, [s EXCEPT !.todo = @ \ {r}])
              \/ ApplyFails(r, ch) /\ Become(c, failed)
  <2>1. PICK r \in s.todo :
              \/ ApplyOk(r, ch) /\ Become(c, [s EXCEPT !.todo = @ \ {r}])
              \/ ApplyFails(r, ch) /\ Become(c, failed)
    BY <1>4
  <2>2. ClusterTypeOK'
    BY <2>1, ClusterCallType, Untouched
  <2>3. s.todo \ {r} \in SUBSET Resource
    BY <1>1, WorkingHolds
  <2>4. [s EXCEPT !.todo = @ \ {r}] \in Good
    BY <1>1, <2>3, SetTodoGood DEF Working
  <2> QED BY <1>2, <2>1, <2>2, <2>4, BecomeType
<1> QED BY <1>3, <1>4 DEF Applying

(* DeleteManifests keeps the type when both its continuations do.          *)
LEMMA DeletingType ==
  ASSUME TypeOK, NEW c \in Client, NEW pc \in PC \ {"idle", "read", "target"},
         NEW done \in Good, NEW failed \in Good,
         Deleting(c, pc, done, failed)
  PROVE  TypeOK'
<1> DEFINE s == run[c]
<1>1. s \in Working
  BY AtWork DEF Deleting, At
<1>2. StoreTypeOK'
  BY Untouched DEF Deleting
<1>3. CASE KubeOk /\ Become(c, done)
  BY <1>2, <1>3, BecomeType, ClusterCallType, Untouched
<1>4. CASE \E r \in s.todo :
              \/ RemoveOk(r) /\ Become(c, [s EXCEPT !.todo = @ \ {r}])
              \/ RemoveFails(r) /\ Become(c, failed)
  <2>1. PICK r \in s.todo :
              \/ RemoveOk(r) /\ Become(c, [s EXCEPT !.todo = @ \ {r}])
              \/ RemoveFails(r) /\ Become(c, failed)
    BY <1>4
  <2>2. ClusterTypeOK'
    BY <2>1, ClusterCallType, Untouched
  <2>3. s.todo \ {r} \in SUBSET Resource
    BY <1>1, WorkingHolds
  <2>4. [s EXCEPT !.todo = @ \ {r}] \in Good
    BY <1>1, <2>3, SetTodoGood DEF Working
  <2> QED BY <1>2, <2>1, <2>2, <2>4, BecomeType
<1> QED BY <1>3, <1>4 DEF Deleting

(* storage.Update keeps the type when both its continuations do.           *)
LEMMA WritingType ==
  ASSUME TypeOK, NEW c \in Client, NEW pc, NEW x \in Release,
         NEW done \in Good, NEW failed \in Good,
         Writing(c, pc, x, done, failed)
  PROVE  TypeOK'
<1>1. ClusterTypeOK' /\ (UpdateOk(x) \/ UpdateFails(x))
  BY Untouched DEF Writing
<1>2. StoreTypeOK'
  BY <1>1, Untouched, StoreCallType
<1> QED BY <1>1, <1>2, BecomeType DEF Writing

(* updateReleaseWithRetry keeps the type and never counts beyond two       *)
(* retries.                                                                *)
LEMMA RetriedUpdateType ==
  ASSUME TypeOK, NEW c \in Client, NEW pc \in PC \ {"idle", "read", "target"},
         NEW x \in Release, NEW done \in Good, NEW failed \in Good,
         RetriedUpdate(c, pc, x, done, failed)
  PROVE  TypeOK'
<1> DEFINE s == run[c]
           again == IF s.tries < 2 THEN [s EXCEPT !.tries = @ + 1] ELSE failed
<1>1. s \in Working
  BY AtWork DEF RetriedUpdate, Writing, At
<1>2. s.tries \in 0 .. 2
  BY <1>1, WorkingHolds
<1>3. ASSUME s.tries < 2 PROVE [s EXCEPT !.tries = @ + 1] \in Good
  <2>1. s.tries + 1 \in 0 .. 2
    BY <1>2, <1>3
  <2> QED BY <1>1, <2>1, SetTriesGood DEF Working
<1>4. again \in Good
  BY <1>3
<1>5. Writing(c, pc, x, done, again)
  BY DEF RetriedUpdate
<1> HIDE DEF again
<1> QED BY <1>4, <1>5, WritingType

(* storage.History keeps the type whatever the caller selects from it.     *)
LEMMA ReadHistoryType ==
  ASSUME TypeOK, NEW c \in Client, NEW pc \in PC \ {"idle", "read", "target"},
         NEW sel \in SUBSET Release, NEW next \in Onward, NEW failed \in Good,
         ReadHistory(c, pc, sel, next, failed)
  PROVE  TypeOK'
<1>1. run[c] \in Working
  BY AtWork DEF ReadHistory, At
<1>2. Visit(run[c], next, sel) \in Good
  BY <1>1, VisitGood DEF Working
<1>3. ClusterTypeOK' /\ (ReadOk \/ ReadFails)
  BY Untouched DEF ReadHistory
<1>4. StoreTypeOK'
  BY <1>3, Untouched, StoreCallType
<1> QED BY <1>2, <1>3, <1>4, BecomeType DEF ReadHistory

(* A loop of storage.Delete keeps the type.                                *)
LEMMA DroppingType ==
  ASSUME TypeOK, NEW c \in Client, NEW pc \in PC \ {"idle", "read", "target"},
         NEW done \in Good, Dropping(c, pc, done)
  PROVE  TypeOK'
<1> DEFINE s == run[c]
<1>1. s \in Working
  BY AtWork DEF Dropping, At
<1>2. ClusterTypeOK'
  BY Untouched DEF Dropping
<1>3. CASE ReadOk /\ Become(c, done)
  BY <1>2, <1>3, BecomeType, StoreCallType, Untouched
<1>4. CASE \E y \in s.copies :
              \/ DeleteOk(y.rev) /\ Become(c, [s EXCEPT !.copies = @ \ {y}])
              \/ DeleteFails(y.rev) /\ Become(c, Warn([s EXCEPT !.copies = @ \ {y}]))
  <2>1. PICK y \in s.copies :
              \/ DeleteOk(y.rev) /\ Become(c, [s EXCEPT !.copies = @ \ {y}])
              \/ DeleteFails(y.rev) /\ Become(c, Warn([s EXCEPT !.copies = @ \ {y}]))
    BY <1>4
  <2>2. StoreTypeOK'
    BY <2>1, StoreCallType, Untouched
  <2>3. s.copies \ {y} \in SUBSET Release
    BY <1>1, WorkingHolds
  <2>4. [s EXCEPT !.copies = @ \ {y}] \in Good
    BY <1>1, <2>3, SetCopiesGood DEF Working
  <2>5. Warn([s EXCEPT !.copies = @ \ {y}]) \in Good
    BY <2>4, WarnGood
  <2> QED BY <1>2, <2>1, <2>2, <2>4, <2>5, BecomeType
<1> QED BY <1>3, <1>4 DEF Dropping

-----------------------------------------------------------------------------
(* One lemma per phase of the operations, one step per action.             *)

(* A record for a revision in range is a release.                          *)
LEMMA NewReleaseType ==
  ASSUME NEW rev \in Rev, NEW ch \in Chart, NEW kind
  PROVE  NewRelease(rev, ch, kind) \in Release
BY DEF NewRelease, Release, Status, Pending

(* upgrade --install hands a well-formed request to Install.               *)
LEMMA AsInstallType ==
  ASSUME NEW q \in Request
  PROVE  AsInstall(q) \in Request /\ AsInstall(q).kind = "install"
<1> DEFINE p == Plain("install", q.chart)
           p1 == [p EXCEPT !.atomic = q.atomic]
           p2 == [p1 EXCEPT !.wait = q.wait]
<1>1. p \in Request /\ p.kind = "install"
  BY DEF Plain, Request, Kind
<1> HIDE DEF p
<1>2. p1 \in Request /\ p1.kind = "install"
  BY <1>1 DEF Request
<1> HIDE DEF p1
<1>3. p2 \in Request /\ p2.kind = "install"
  BY <1>2 DEF Request
<1>4. AsInstall(q) = p2
  BY Zenon DEF AsInstall, p, p1, p2
<1> QED BY <1>3, <1>4

(* An idle client is well typed.                                           *)
LEMMA IdleRunGood ==
  ASSUME NEW out \in Outcome
  PROVE  IdleRun(out) \in Good /\ IdleRun(out).pc = "idle"
BY DEF IdleRun, Good, Holding, RunState, PC, Cause, UsesPrevious

(* An operation that has not read its previous revision yet.               *)
LEMMA ToInstallGood ==
  ASSUME NEW s \in Good, NEW q \in Request, q.kind = "install"
  PROVE  ToInstall(s, q) \in Good
<1> DEFINE t == To(s, "create")
           u == [t EXCEPT !.req = q]
           v == [u EXCEPT !.rel = NewRelease(1, q.chart, "install")]
<1>1. t \in RunState /\ t.pc = "create"
  BY ToType DEF Good, PC
<1> HIDE DEF t
<1>2. u \in RunState /\ u.pc = "create" /\ u.req = q
  BY <1>1 DEF RunState
<1> HIDE DEF u
<1>3. NewRelease(1, q.chart, "install") \in Release
  <2>1. 1 \in Rev /\ q.chart \in Chart
    BY MaxRevAssumption DEF Rev, Request
  <2> QED BY <2>1, NewReleaseType
<1>4. v \in RunState /\ v.pc = "create" /\ v.req = q /\ v.rel \in Release
  BY <1>2, <1>3 DEF RunState
<1>5. ToInstall(s, q) = v
  BY Zenon DEF ToInstall, t, u, v
<1> QED BY <1>4, <1>5 DEF Good, Holding, UsesPrevious

(* A request starts an operation in a typed state.                         *)
LEMMA StartType ==
  ASSUME TypeOK, NEW c \in Client, Start(c)
  PROVE  TypeOK'
<1> DEFINE s == IdleRun("none")
<1>1. PICK q \in Requests :
         run' = [run EXCEPT ![c] =
                   IF q.kind = "install" THEN ToInstall(s, q)
                   ELSE [To(s, "read") EXCEPT !.req = q]]
  BY DEF Start
<1>2. q \in Request /\ s \in Good
  BY RequestsAssumption, IdleRunGood DEF Outcome
<1>3. q.kind = "install" => ToInstall(s, q) \in Good
  BY <1>2, ToInstallGood
<1>4. ASSUME q.kind # "install" PROVE [To(s, "read") EXCEPT !.req = q] \in Good
  <2> DEFINE t == To(s, "read")
             u == [t EXCEPT !.req = q]
  <2>1. t \in RunState /\ t.pc = "read"
    BY <1>2, ToType DEF Good, PC
  <2> HIDE DEF t
  <2>2. u \in RunState /\ u.pc = "read" /\ u.req = q
    BY <1>2, <2>1 DEF RunState
  <2>3. u \in Good
    BY <1>2, <1>4, <2>2 DEF Good, Holding, UsesPrevious
  <2> QED BY <2>3 DEF t
<1>5. run' \in [Client -> Good]
  BY <1>1, <1>3, <1>4, RunGood
<1>6. started' \in 0 .. MaxOps /\ crashes' \in 0 .. MaxCrashes
  BY OpsAssumption, RunGood DEF Start
<1>7. StoreTypeOK' /\ ClusterTypeOK'
  BY Untouched DEF Start
<1> QED BY <1>5, <1>6, <1>7 DEF TypeOK, Good

(* An operation that has read its previous revision: the record to write   *)
(* comes next.                                                             *)
LEMMA LoadedGood ==
  ASSUME NEW s \in Good, s.pc = "read", NEW y \in Release,
         NEW pc \in {"target", "create", "mark"}, NEW x \in Release,
         s.req.kind # "install"
  PROVE  /\ To([s EXCEPT !.cur = y], "target") \in Good
         /\ [To([s EXCEPT !.cur = y], pc) EXCEPT !.rel = x] \in Good
<1> DEFINE l == [s EXCEPT !.cur = y]
           t == To(l, pc)
           u == [t EXCEPT !.rel = x]
<1>1. l \in RunState /\ l.req = s.req /\ l.cur = y
  BY DEF Good, RunState
<1>2. s.req \in Request
  BY DEF Good, Holding
<1> HIDE DEF l
<1>3. To(l, "target") \in Good
  BY <1>1, <1>2, ToType DEF Good, Holding, PC
<1>4. t \in RunState /\ t.pc = pc /\ t.req = s.req /\ t.cur = y
  BY <1>1, ToType DEF PC
<1> HIDE DEF t
<1>5. u \in RunState /\ u.pc = pc /\ u.req = s.req /\ u.cur = y /\ u.rel = x
  BY <1>4 DEF RunState
<1> HIDE DEF u
<1>6. u \in Good
  BY <1>2, <1>5 DEF Good, Holding
<1> QED BY <1>3, <1>6 DEF l, t, u

(* ReadLast: what Last returned fixes the revision to write.               *)
LEMMA ReadLastType ==
  ASSUME TypeOK, NEW c \in Client, ReadLast(c)
  PROVE  TypeOK'
<1> DEFINE s == run[c]
           L(r) == [s EXCEPT !.cur = CopyOf(r)]
           N(r) == CASE s.req.kind = "upgrade" ->
                          [To(L(r), "create") EXCEPT
                              !.rel = NewRelease(r + 1, s.req.chart, "upgrade")]
                     [] s.req.kind = "rollback" -> To(L(r), "target")
                     [] OTHER -> [To(L(r), "mark") EXCEPT
                                     !.rel = [CopyOf(r) EXCEPT !.status = "uninstalling"]]
<1>1. s \in Good /\ s.pc = "read" /\ s.req \in Request /\ s.req.chart \in Chart
  BY RunGood DEF ReadLast, At, Good, Holding, Request
<1>0. s.req.kind # "install"
  BY <1>1 DEF Good, Holding, UsesPrevious
<1>2. GiveUp(s) \in Good
  BY <1>1, EndGood
<1>3. ToInstall(s, AsInstall(s.req)) \in Good
  BY <1>1, AsInstallType, ToInstallGood
<1>4. ClusterTypeOK'
  BY Untouched DEF ReadLast
<1>5. CASE /\ Stored = {} /\ ReadOk
           /\ Become(c, IF s.req.kind = "upgrade" /\ s.req.install
                        THEN ToInstall(s, AsInstall(s.req)) ELSE GiveUp(s))
  <2>1. StoreTypeOK'
    BY <1>5, Untouched, StoreCallType
  <2>2. (IF s.req.kind = "upgrade" /\ s.req.install
         THEN ToInstall(s, AsInstall(s.req)) ELSE GiveUp(s)) \in Good
    BY <1>2, <1>3
  <2> QED BY <1>4, <1>5, <2>1, <2>2, BecomeType
<1>6. CASE /\ ReadOk
           /\ \E r \in Rev : /\ IsLast(r) /\ Become(c, N(r))
                             /\ s.req.kind = "upgrade" => r < MaxRev
  <2>1. PICK r \in Rev : /\ IsLast(r) /\ Become(c, N(r))
                         /\ s.req.kind = "upgrade" => r < MaxRev
    BY <1>6
  <2>2. StoreTypeOK'
    BY <1>6, Untouched, StoreCallType
  <2>3. r \in Stored /\ CopyOf(r) \in Release
    BY <2>1, Untouched, HistoryType DEF IsLast
  <2>4. [CopyOf(r) EXCEPT !.status = "uninstalling"] \in Release
    BY <2>3 DEF Release, Status
  <2>5. s.req.kind = "upgrade" => NewRelease(r + 1, s.req.chart, "upgrade") \in Release
    <3>1. s.req.kind = "upgrade" => r + 1 \in Rev
      BY <2>1, MaxRevAssumption DEF Rev
    <3> QED BY <1>1, <3>1, NewReleaseType
  <2>6. /\ s.req.kind = "upgrade" =>
             [To(L(r), "create") EXCEPT
                 !.rel = NewRelease(r + 1, s.req.chart, "upgrade")] \in Good
        /\ To(L(r), "target") \in Good
        /\ [To(L(r), "mark") EXCEPT
                 !.rel = [CopyOf(r) EXCEPT !.status = "uninstalling"]] \in Good
    BY <1>0, <1>1, <2>3, <2>4, <2>5, LoadedGood
  <2>7. N(r) \in Good
    BY <2>6
  <2> HIDE DEF N
  <2> QED BY <1>4, <2>1, <2>2, <2>7, BecomeType
<1>7. CASE ReadFails /\ Become(c, GiveUp(s))
  <2>1. StoreTypeOK'
    BY <1>7, Untouched, StoreCallType
  <2> QED BY <1>2, <1>4, <1>7, <2>1, BecomeType
<1> QED BY <1>5, <1>6, <1>7 DEF ReadLast

(* ReadTarget: the record to write is the next revision with the manifest  *)
(* of the target.                                                          *)
LEMMA ReadTargetType ==
  ASSUME TypeOK, NEW c \in Client, ReadTarget(c)
  PROVE  TypeOK'
<1> DEFINE s == run[c]
           t == IF s.req.target = 0 THEN s.cur.rev - 1 ELSE s.req.target
           n == [To(s, "create") EXCEPT
                    !.rel = NewRelease(s.cur.rev + 1, store[t].chart, "rollback")]
<1>1. s \in Good /\ s.pc = "target"
  BY RunGood DEF ReadTarget, At
<1>2. s.req \in Request /\ s.cur \in Release /\ s.req.kind # "install"
  BY <1>1 DEF Good, Holding, UsesPrevious
<1>3. ClusterTypeOK'
  BY Untouched DEF ReadTarget
<1>4. CASE (ReadOk \/ ReadFails) /\ Become(c, GiveUp(s))
  <2>1. StoreTypeOK' /\ GiveUp(s) \in Good
    BY <1>1, <1>4, Untouched, StoreCallType, EndGood
  <2> QED BY <1>3, <1>4, <2>1, BecomeType
<1>5. CASE t \in Stored /\ s.cur.rev < MaxRev /\ ReadOk /\ Become(c, n)
  <2>1. StoreTypeOK'
    BY <1>5, Untouched, StoreCallType
  <2>2. store[t].chart \in Chart /\ s.cur.rev + 1 \in Rev
    BY <1>2, <1>5, Untouched, HistoryType, MaxRevAssumption DEF Rev, Release
  <2>3. NewRelease(s.cur.rev + 1, store[t].chart, "rollback") \in Release
    BY <2>2, NewReleaseType
  <2>4. n \in Good
    <3> DEFINE x == NewRelease(s.cur.rev + 1, store[t].chart, "rollback")
               u == To(s, "create")
               v == [u EXCEPT !.rel = x]
    <3>1. u \in RunState /\ u.pc = "create" /\ u.req = s.req /\ u.cur = s.cur
      BY <1>1, ToType DEF Good, PC
    <3> HIDE DEF u
    <3>2. v \in RunState /\ v.pc = "create" /\ v.req = s.req /\ v.cur = s.cur /\ v.rel = x
      BY <2>3, <3>1 DEF RunState
    <3> HIDE DEF v, x
    <3>3. v \in Good
      BY <1>2, <2>3, <3>2 DEF Good, Holding, x
    <3> QED BY <3>3 DEF v, u, x
  <2> HIDE DEF n
  <2> QED BY <1>3, <1>5, <2>1, <2>4, BecomeType
<1> QED BY <1>4, <1>5 DEF ReadTarget

(* storage.Create puts a well-typed record.                                *)
LEMMA CreateRevisionType ==
  ASSUME TypeOK, NEW c \in Client, CreateRevision(c)
  PROVE  TypeOK'
<1> DEFINE s == run[c]
<1>1. s \in Working /\ s.pc = "create"
  BY AtWork DEF CreateRevision, At
<1>2. To(s, "pre") \in Good /\ GiveUp(s) \in Good /\ s.rel \in Release
  BY <1>1, ToGood, EndGood, WorkingHolds DEF PC, UsesPrevious, Working
<1>3. StoreTypeOK' /\ ClusterTypeOK'
  BY <1>2, Untouched, StoreCallType DEF CreateRevision
<1> QED BY <1>2, <1>3, BecomeType DEF CreateRevision

(* The steps that bring the cluster to the new manifest.                   *)
LEMMA DeployingType ==
  ASSUME TypeOK, NEW c \in Client,
         \/ PreHooks(c) \/ ApplyCRDs(c) \/ TakeSnapshot(c) \/ ChooseForced(c)
         \/ PreDelete(c) \/ ApplyRelease(c) \/ WaitForJobs(c) \/ WaitForReady(c)
  PROVE  TypeOK'
<1> DEFINE s == run[c]
           ch == s.rel.chart
<1>1. s \in Working /\ s \in Good
  BY AtWork, WorkingHolds DEF PreHooks, ApplyCRDs, TakeSnapshot, ChooseForced, PreDelete,
     ApplyRelease, WaitForJobs, WaitForReady, KubeCall, Deleting, Applying, At
<1>2. ch \in Chart /\ Manifest[ch] \in SUBSET Resource
  BY <1>1, WorkingHolds, ManifestType
<1>3. \A cause \in Cause : Fail(s, cause) \in Good
  BY <1>1, FailGood DEF Working
<1>4. {"pre", "crds", "force", "apply", "jobs", "wait"} \subseteq Cause
  BY DEF Cause
<1>5. CASE PreHooks(c)
  <2>1. Walk(s, "crds", Manifest[ch] \cap CRD) \in Good
    <3>1. Manifest[ch] \cap CRD \in SUBSET Resource
      BY <1>2
    <3> QED BY <1>1, <3>1, WalkGood DEF PC, UsesPrevious, Working
  <2>2. s.req.kind = "rollback" => AfterSnapshot(s) \in Good
    BY <1>1, AfterSnapshotGood DEF Working
  <2> QED BY <1>3, <1>4, <1>5, <2>1, <2>2, KubeCallType DEF PreHooks
<1>6. CASE ApplyCRDs(c)
  <2>1. AfterCRDs(s) \in Good
    BY <1>1, AfterCRDsGood DEF Working
  <2>2. StoreTypeOK'
    BY <1>6, Untouched DEF ApplyCRDs
  <2>3. CASE KubeOk /\ Become(c, AfterCRDs(s))
    BY <2>1, <2>2, <2>3, BecomeType, ClusterCallType, Untouched
  <2>4. CASE \E r \in s.todo :
                \/ ApplyOk(r, ch) /\ Become(c, [s EXCEPT !.todo = @ \ {r}])
                \/ ApplyFails(r, ch) /\ Become(c, Fail(s, "crds"))
    <3>1. PICK r \in s.todo :
                \/ ApplyOk(r, ch) /\ Become(c, [s EXCEPT !.todo = @ \ {r}])
                \/ ApplyFails(r, ch) /\ Become(c, Fail(s, "crds"))
      BY <2>4
    <3>2. ClusterTypeOK'
      BY <1>2, <3>1, ClusterCallType, Untouched
    <3>3. s.todo \ {r} \in SUBSET Resource
      BY <1>1, WorkingHolds
    <3>4. [s EXCEPT !.todo = @ \ {r}] \in Good
      BY <1>1, <3>3, SetTodoGood DEF Working
    <3> QED BY <1>3, <1>4, <2>2, <3>1, <3>2, <3>4, BecomeType
  <2> QED BY <1>6, <2>3, <2>4 DEF ApplyCRDs
<1>7. CASE TakeSnapshot(c)
  <2>1. s.req.kind # "install"
    BY <1>1, <1>7, WorkingHolds DEF TakeSnapshot, At, UsesPrevious
  <2>2. AfterSnapshot(s) \in Good
    BY <1>1, <2>1, AfterSnapshotGood DEF Working
  <2>3. \A S \in SUBSET Manifest[ch] : AfterSnapshot([s EXCEPT !.snap = S]) \in Good
    <3> TAKE S \in SUBSET Manifest[ch]
    <3>1. [s EXCEPT !.snap = S] \in Working /\ [s EXCEPT !.snap = S].req = s.req
      BY <1>1, <1>2, SetSnapGood
    <3> QED BY <2>1, <3>1, AfterSnapshotGood DEF Working
  <2>4. StoreTypeOK'
    BY <1>7, Untouched DEF TakeSnapshot
  <2>5. ClusterTypeOK'
    BY <1>7, Untouched, ClusterCallType DEF TakeSnapshot, Snapshot
  <2> QED BY <1>7, <2>2, <2>3, <2>4, <2>5, BecomeType DEF TakeSnapshot
<1>8. CASE ChooseForced(c)
  <2> DEFINE all == Deletable(s.cur.chart)
             Deleted(S) == IF Parses(s.cur.chart) THEN Walk(s, "predelete", S)
                           ELSE Fail(s, "force")
  <2>1. s.req.kind # "install"
    BY <1>1, <1>8, WorkingHolds DEF ChooseForced, At, UsesPrevious
  <2>2. all \in SUBSET Resource
    BY <1>1, <2>1, WorkingHolds, ManifestType
  <2>3. \A S \in SUBSET Resource : Deleted(S) \in Good
    <3> TAKE S \in SUBSET Resource
    <3>1. Walk(s, "predelete", S) \in Good
      BY <1>1, <2>1, WalkGood DEF PC, Working
    <3> QED BY <1>3, <1>4, <3>1
  <2>4. ToApply(s) \in Good
    BY <1>1, ToApplyGood DEF Working
  <2>5. StoreTypeOK' /\ ClusterTypeOK'
    BY <1>8, Untouched, ClusterCallType DEF ChooseForced
  <2>6. \/ Become(c, Deleted(all))
        \/ \E need : Become(c, IF need = {} THEN ToApply(s) ELSE Deleted(all \cap need))
    BY <1>8 DEF ChooseForced
  <2>7. \A need : (IF need = {} THEN ToApply(s) ELSE Deleted(all \cap need)) \in Good
    <3> TAKE need
    <3>1. all \cap need \in SUBSET Resource
      BY <2>2
    <3> QED BY <2>3, <2>4, <3>1
  <2>8. Deleted(all) \in Good
    BY <2>2, <2>3
  <2> HIDE DEF Deleted, all
  <2> QED BY <2>5, <2>6, <2>7, <2>8, BecomeType
<1>9. CASE PreDelete(c)
  <2>1. ToApply(s) \in Good
    BY <1>1, ToApplyGood DEF Working
  <2> QED BY <1>3, <1>4, <1>9, <2>1, DeletingType DEF PreDelete, PC
<1>10. CASE ApplyRelease(c)
  <2>1. AfterApply(s) \in Good
    BY <1>1, AfterApplyGood DEF Working
  <2> QED BY <1>2, <1>3, <1>4, <1>10, <2>1, ApplyingType DEF ApplyRelease, PC
<1>11. CASE WaitForJobs(c)
  <2>1. AfterJobs(s) \in Good
    BY <1>1, AfterApplyGood DEF Working
  <2> QED BY <1>3, <1>4, <1>11, <2>1, KubeCallType DEF WaitForJobs
<1>12. CASE WaitForReady(c)
  <2>1. To(s, "post") \in Good
    BY <1>1, ToGood DEF PC, UsesPrevious, Working
  <2> QED BY <1>3, <1>4, <1>12, <2>1, KubeCallType DEF WaitForReady
<1> QED BY <1>5, <1>6, <1>7, <1>8, <1>9, <1>10, <1>11, <1>12

(* The steps that settle a revision which is live.                         *)
LEMMA SettlingType ==
  ASSUME TypeOK, NEW c \in Client,
         \/ PostHooks(c) \/ PruneRemoved(c) \/ MarkDeployed(c)
         \/ ReadHistoryToSupersede(c) \/ Supersede(c)
         \/ ReadHistoryToPrune(c) \/ PruneHistory(c)
  PROVE  TypeOK'
<1> DEFINE s == run[c]
<1>1. s \in Working /\ s \in Good /\ Warn(s) \in Working
  <2>1. s \in Working
    BY AtWork DEF PostHooks, PruneRemoved, MarkDeployed, ReadHistoryToSupersede, Supersede,
       ReadHistoryToPrune, PruneHistory, KubeCall, Deleting, RetriedUpdate, Writing,
       ReadHistory, Dropping, At
  <2> QED BY <2>1, WorkingHolds, WarnGood
<1>2. CASE PostHooks(c)
  <2> DEFINE todo == WithoutCRDs(Orphans(s.cur.chart, s.rel.chart))
             done == IF s.req.kind = "upgrade"
                     THEN WalkIfParsed(s, "dropped", todo, Parses(s.cur.chart))
                     ELSE To(s, "deploy")
  <2>1. ASSUME s.req.kind = "upgrade"
        PROVE  WalkIfParsed(s, "dropped", todo, Parses(s.cur.chart)) \in Good
    <3>1. Orphans(s.cur.chart, s.rel.chart) \in SUBSET Resource
      BY <1>1, <2>1, WorkingHolds, ManifestType
    <3>2. todo \in SUBSET Resource
      BY <3>1 DEF WithoutCRDs
    <3>3. Parses(s.cur.chart) \in BOOLEAN
      BY DEF Parses
    <3> HIDE DEF todo
    <3> QED BY <1>1, <2>1, <3>2, <3>3, WalkIfParsedGood DEF PC, Working
  <2>2. To(s, "deploy") \in Good
    BY <1>1, ToGood DEF PC, UsesPrevious, Working
  <2>3. done \in Good
    BY <2>1, <2>2
  <2>4. Fail(s, "post") \in Good
    BY <1>1, FailGood DEF Cause, Working
  <2>5. KubeCall(c, "post", done, Fail(s, "post"))
    BY <1>2 DEF PostHooks
  <2> HIDE DEF done
  <2> QED BY <2>3, <2>4, <2>5, KubeCallType
<1>3. CASE PruneRemoved(c)
  <2>1. To(s, "deploy") \in Good /\ To(Warn(s), "deploy") \in Good
    BY <1>1, ToGood DEF PC, UsesPrevious, Working
  <2> QED BY <1>3, <2>1, DeletingType DEF PruneRemoved, PC
<1>4. CASE MarkDeployed(c)
  <2> DEFINE t == [s EXCEPT !.rel.status = "deployed"]
  <2>1. t \in Working /\ t.rel \in Release
    BY <1>1, SetStatusGood DEF Status
  <2>2. AfterDeploy(t) \in Good /\ GiveUp(t) \in Good
    BY <2>1, AfterDeployGood, EndGood DEF Working
  <2>3. RetriedUpdate(c, "deploy", t.rel, AfterDeploy(t), GiveUp(t))
    BY <1>4 DEF MarkDeployed
  <2> HIDE DEF t
  <2> QED BY <2>1, <2>2, <2>3, RetriedUpdateType DEF PC
<1>5. CASE ReadHistoryToSupersede(c)
  <2> DEFINE sel == {x \in History : x.status = "deployed" /\ x.rev # s.rel.rev}
  <2>1. sel \in SUBSET Release
    BY Untouched, HistoryType
  <2>2. AfterSupersede(Warn(s)) \in Good
    BY <1>1, AfterSupersedeGood
  <2>3. ReadHistory(c, "history", sel, "supersede", AfterSupersede(Warn(s)))
    BY <1>5 DEF ReadHistoryToSupersede
  <2> HIDE DEF sel
  <2> QED BY <2>1, <2>2, <2>3, ReadHistoryType DEF PC, Onward, UsesPrevious
<1>6. CASE Supersede(c)
  <2>1. CASE Become(c, AfterSupersede(s)) /\ UNCHANGED world
    <3>1. AfterSupersede(s) \in Good
      BY <1>1, AfterSupersedeGood
    <3> QED BY <2>1, <3>1, Untouched, BecomeType
  <2>2. CASE \E x \in s.copies :
               LET rest == Visit(s, "supersede", s.copies \ {x}) IN
               RetriedUpdate(c, "supersede", [x EXCEPT !.status = "superseded"],
                             rest, Warn(rest))
    <3>1. PICK x \in s.copies :
               LET rest == Visit(s, "supersede", s.copies \ {x}) IN
               RetriedUpdate(c, "supersede", [x EXCEPT !.status = "superseded"],
                             rest, Warn(rest))
      BY <2>2
    <3> DEFINE rest == Visit(s, "supersede", s.copies \ {x})
    <3>2. x \in Release /\ s.copies \ {x} \in SUBSET Release
      BY <1>1, WorkingHolds
    <3>3. [x EXCEPT !.status = "superseded"] \in Release
      BY <3>2 DEF Release, Status
    <3>4. rest \in Good
      BY <1>1, <3>2, VisitGood DEF PC, Onward, UsesPrevious, Working
    <3>5. Warn(rest) \in Good
      BY <3>4, WarnGood
    <3>6. RetriedUpdate(c, "supersede", [x EXCEPT !.status = "superseded"], rest, Warn(rest))
      BY <3>1
    <3> HIDE DEF rest
    <3> QED BY <3>3, <3>4, <3>5, <3>6, RetriedUpdateType DEF PC
  <2> QED BY <1>6, <2>1, <2>2 DEF Supersede
<1>7. CASE ReadHistoryToPrune(c)
  <2>1. Prunable(History, s.req.max) \in SUBSET Release
    BY Untouched, HistoryType DEF Prunable
  <2>2. Succeed(Warn(s)) \in Good
    BY <1>1, EndGood DEF Working
  <2> QED BY <1>7, <2>1, <2>2, ReadHistoryType
          DEF ReadHistoryToPrune, PC, Onward, UsesPrevious
<1>8. CASE PruneHistory(c)
  <2>1. Succeed(s) \in Good
    BY <1>1, EndGood
  <2> QED BY <1>8, <2>1, DroppingType DEF PruneHistory, PC
<1> QED BY <1>2, <1>3, <1>4, <1>5, <1>6, <1>7, <1>8

(* The recovery of a failed operation.                                     *)
LEMMA RecoveryType ==
  ASSUME TypeOK, NEW c \in Client, RecoveryStep(c)
  PROVE  TypeOK'
<1> DEFINE s == run[c]
<1>1. s \in Working /\ s \in Good /\ Warn(s) \in Working
  <2>1. s \in Working
    BY AtWork DEF RecoveryStep, MarkFailed, ReapplyPrevious, CleanUp, UndoDelete, UndoApply,
       UndoMarkFailed, UndoRestorePrevious, Writing, Applying, Deleting, At
  <2> QED BY <2>1, WorkingHolds, WarnGood
<1>2. Warn(s).req = s.req /\ Warn(s).rel = s.rel /\ Warn(s).cur = s.cur
  BY <1>1, WarnGood
<1>3. s.pc \in UsesPrevious =>
        /\ s.req.kind # "install" /\ s.cur \in Release /\ s.cur.chart \in Chart
        /\ Manifest[s.cur.chart] \in SUBSET Resource
  BY <1>1, WorkingHolds, ManifestType
<1>4. CASE MarkFailed(c)
  <2> DEFINE t == [s EXCEPT !.rel.status = "failed"]
  <2>1. t \in Working /\ t.rel \in Release
    BY <1>1, SetStatusGood DEF Status
  <2>2. Warn(t) \in Working
    BY <2>1, WarnGood, WorkingHolds
  <2>3. AfterMarkFailed(t) \in Good /\ AfterMarkFailed(Warn(t)) \in Good
    BY <2>1, <2>2, AfterMarkFailedGood
  <2>4. Writing(c, "fail", t.rel, AfterMarkFailed(t), AfterMarkFailed(Warn(t)))
    BY <1>4 DEF MarkFailed
  <2> HIDE DEF t
  <2> QED BY <2>1, <2>3, <2>4, WritingType
<1>5. CASE ReapplyPrevious(c)
  <2> DEFINE N(t) == WalkIfParsed(t, "cleanup", Orphans(s.rel.chart, s.cur.chart),
                                  Parses(s.rel.chart) /\ Parses(s.cur.chart))
  <2>1. s.pc \in UsesPrevious
    BY <1>5 DEF ReapplyPrevious, Applying, At, UsesPrevious
  <2>2. Orphans(s.rel.chart, s.cur.chart) \in SUBSET Resource
    BY <1>1, <1>3, <2>1, WorkingHolds, ManifestType
  <2>3. (Parses(s.rel.chart) /\ Parses(s.cur.chart)) \in BOOLEAN
    BY DEF Parses
  <2>4. "cleanup" \in PC \ {"idle", "read", "target"} /\ "cleanup" \notin UsesPrevious
    BY DEF PC, UsesPrevious
  <2>5. N(s) \in Good /\ N(Warn(s)) \in Good
    BY <1>1, <2>2, <2>3, <2>4, WalkIfParsedGood DEF Working
  <2>6. Applying(c, "reapply", s.cur.chart, N(s), N(Warn(s)))
    BY <1>5 DEF ReapplyPrevious
  <2> HIDE DEF N
  <2> QED BY <1>3, <2>1, <2>5, <2>6, ApplyingType DEF PC
<1>6. CASE CleanUp(c)
  <2>1. AfterCleanup(s) \in Good /\ AfterCleanup(Warn(s)) \in Good
    BY <1>1, AfterCleanupGood
  <2> QED BY <1>6, <2>1, DeletingType DEF CleanUp, PC
<1>7. CASE UndoDelete(c)
  <2> DEFINE N(t) == Walk(t, "undoapply", Manifest[s.cur.chart])
  <2>1. s.pc \in UsesPrevious
    BY <1>7 DEF UndoDelete, Deleting, At, UsesPrevious
  <2>2. N(s) \in Good /\ N(Warn(s)) \in Good
    BY <1>1, <1>2, <1>3, <2>1, WalkGood DEF PC, Working
  <2>3. Deleting(c, "undodelete", N(s), N(Warn(s)))
    BY <1>7 DEF UndoDelete
  <2> HIDE DEF N
  <2> QED BY <2>2, <2>3, DeletingType DEF PC
<1>8. CASE UndoApply(c)
  <2>1. s.pc \in UsesPrevious
    BY <1>8 DEF UndoApply, Applying, At, UsesPrevious
  <2>2. To(s, "undofailed") \in Good /\ To(Warn(s), "undofailed") \in Good
    BY <1>1, <1>2, <1>3, <2>1, ToGood DEF PC, Working
  <2> QED BY <1>3, <1>8, <2>1, <2>2, ApplyingType DEF UndoApply, PC
<1>9. CASE UndoMarkFailed(c)
  <2>1. s.pc \in UsesPrevious
    BY <1>9 DEF UndoMarkFailed, Writing, At, UsesPrevious
  <2>2. To(s, "undoprev") \in Good /\ To(Warn(s), "undoprev") \in Good
    BY <1>1, <1>2, <1>3, <2>1, ToGood DEF PC, Working
  <2>3. [s.rel EXCEPT !.status = "failed"] \in Release
    BY <1>1, WorkingHolds DEF Release, Status
  <2> QED BY <1>9, <2>2, <2>3, WritingType DEF UndoMarkFailed
<1>10. CASE UndoRestorePrevious(c)
  <2> DEFINE t == [s EXCEPT !.cur.status = "deployed"]
  <2>1. s.req.kind # "install"
    BY <1>3, <1>10 DEF UndoRestorePrevious, Writing, At, UsesPrevious
  <2>2. t \in Working /\ t.cur \in Release
    BY <1>1, <2>1, SetPreviousStatusGood DEF Status
  <2>3. Warn(t) \in Good
    BY <2>2, WarnGood, WorkingHolds
  <2>4. GiveUp(t) \in Good /\ GiveUp(Warn(t)) \in Good
    BY <2>2, <2>3, EndGood DEF Working
  <2>5. Writing(c, "undoprev", t.cur, GiveUp(t), GiveUp(Warn(t)))
    BY <1>10 DEF UndoRestorePrevious
  <2> HIDE DEF t
  <2> QED BY <2>2, <2>4, <2>5, WritingType
<1> QED BY <1>4, <1>5, <1>6, <1>7, <1>8, <1>9, <1>10 DEF RecoveryStep

(* Uninstalling.                                                           *)
LEMMA UninstallType ==
  ASSUME TypeOK, NEW c \in Client, UninstallStep(c)
  PROVE  TypeOK'
<1> DEFINE s == run[c]
<1>1. s \in Working /\ s \in Good
  <2>1. s \in Working
    BY AtWork DEF UninstallStep, MarkUninstalling, PreDeleteHooks, DeleteRelease,
       WaitForDeletion, PostDeleteHooks, ReadHistoryToPurge, PurgeHistory, KeepHistory,
       KubeCall, Deleting, Writing, ReadHistory, Dropping, At
  <2> QED BY <2>1, WorkingHolds
<1>2. GiveUp(s) \in Good /\ Succeed(s) \in Good /\ s.rel \in Release
  BY <1>1, EndGood, WorkingHolds
<1>3. Fail(s, "delete") \in Good /\ Fail(s, "pre") \in Good /\ Fail(s, "gone") \in Good
      /\ Fail(s, "post") \in Good
  BY <1>1, FailGood DEF Cause, Working
<1>4. To(s, "pre") \in Good /\ To(s, "gone") \in Good /\ To(s, "postdelete") \in Good
      /\ To(s, "keep") \in Good /\ To(s, "purgeable") \in Good
  BY <1>1, ToGood DEF PC, UsesPrevious, Working
<1>5. CASE MarkUninstalling(c)
  BY <1>2, <1>4, <1>5, WritingType DEF MarkUninstalling
<1>6. CASE PreDeleteHooks(c)
  <2> DEFINE done == IF Parses(s.rel.chart)
                     THEN Walk(s, "delete", WithoutCRDs(Deletable(s.rel.chart)))
                     ELSE Fail(s, "delete")
  <2>1. WithoutCRDs(Deletable(s.rel.chart)) \in SUBSET Resource
    BY <1>1, WorkingHolds, ManifestType DEF WithoutCRDs
  <2>2. Walk(s, "delete", WithoutCRDs(Deletable(s.rel.chart))) \in Good
    BY <1>1, <2>1, WalkGood DEF PC, UsesPrevious, Working
  <2>3. done \in Good
    BY <1>3, <2>2
  <2>4. KubeCall(c, "pre", done, Fail(s, "pre"))
    BY <1>6 DEF PreDeleteHooks
  <2> HIDE DEF done
  <2> QED BY <1>3, <2>3, <2>4, KubeCallType
<1>7. CASE DeleteRelease(c)
  <2>1. To(s, IF s.req.wait THEN "gone" ELSE "postdelete") \in Good
    BY <1>4
  <2> QED BY <1>3, <1>7, <2>1, DeletingType DEF DeleteRelease, PC
<1>8. CASE WaitForDeletion(c)
  <2>1. StoreTypeOK' /\ ClusterTypeOK'
    BY <1>8, Untouched, ClusterCallType DEF WaitForDeletion
  <2> QED BY <1>3, <1>4, <1>8, <2>1, BecomeType DEF WaitForDeletion
<1>9. CASE PostDeleteHooks(c)
  <2>1. To(s, IF s.req.keep THEN "keep" ELSE "purgeable") \in Good
    BY <1>4
  <2> QED BY <1>3, <1>9, <2>1, KubeCallType DEF PostDeleteHooks
<1>10. CASE ReadHistoryToPurge(c)
  <2>1. History \in SUBSET Release
    BY Untouched, HistoryType
  <2> QED BY <1>2, <1>10, <2>1, ReadHistoryType
          DEF ReadHistoryToPurge, PC, Onward, UsesPrevious
<1>11. CASE PurgeHistory(c)
  BY <1>2, <1>11, DroppingType DEF PurgeHistory, PC
<1>12. CASE KeepHistory(c)
  <2> DEFINE t == [s EXCEPT !.rel.status = "superseded"]
  <2>1. t \in Working /\ t.rel \in Release
    BY <1>1, SetStatusGood DEF Status
  <2>2. Succeed(t) \in Good /\ GiveUp(t) \in Good
    BY <2>1, EndGood DEF Working
  <2>3. Writing(c, "keep", t.rel, Succeed(t), GiveUp(t))
    BY <1>12 DEF KeepHistory
  <2> HIDE DEF t
  <2> QED BY <2>1, <2>2, <2>3, WritingType
<1> QED BY <1>5, <1>6, <1>7, <1>8, <1>9, <1>10, <1>11, <1>12 DEF UninstallStep

-----------------------------------------------------------------------------
(* The specification.                                                      *)

(* Initially everything is typed.                                          *)
LEMMA InitType == Init => TypeOK
<1>1. Init => StoreTypeOK
  BY StoreFaultsAssumption DEF Init, StoreInit, StoreTypeOK, Record
<1>2. Init => ClusterTypeOK
  BY KubeFaultsAssumption DEF Init, ClusterInit, ClusterTypeOK
<1>3. Init => run \in [Client -> Good]
  BY IdleRunGood DEF Init, Outcome
<1>4. Init => started \in 0 .. MaxOps /\ crashes \in 0 .. MaxCrashes
  BY OpsAssumption DEF Init
<1> QED BY <1>1, <1>2, <1>3, <1>4, RunGood

(* A crash leaves an idle client behind.                                   *)
LEMMA CrashType ==
  ASSUME TypeOK, NEW c \in Client, Crash(c)
  PROVE  TypeOK'
<1>1. StoreTypeOK' /\ ClusterTypeOK'
  BY Untouched DEF Crash
<1>2. run' \in [Client -> Good]
  BY IdleRunGood, RunGood DEF Crash, Outcome
<1>3. started' \in 0 .. MaxOps /\ crashes' \in 0 .. MaxCrashes
  BY OpsAssumption, RunGood DEF Crash
<1> QED BY <1>1, <1>2, <1>3 DEF TypeOK, Good

(* Every step of the specification keeps the type.                         *)
LEMMA NextType == TypeOK /\ [Next]_vars => TypeOK'
<1> SUFFICES ASSUME TypeOK, [Next]_vars PROVE TypeOK'
  OBVIOUS
<1>1. CASE UNCHANGED vars
  BY <1>1 DEF vars, TypeOK, StoreTypeOK, ClusterTypeOK
<1>2. ASSUME NEW c \in Client, Start(c) PROVE TypeOK'
  BY <1>2, StartType
<1>3. ASSUME NEW c \in Client, ReleaseStep(c) PROVE TypeOK'
  BY <1>3, ReadLastType, ReadTargetType, CreateRevisionType, DeployingType, SettlingType
     DEF ReleaseStep
<1>4. ASSUME NEW c \in Client, RecoveryStep(c) PROVE TypeOK'
  BY <1>4, RecoveryType
<1>5. ASSUME NEW c \in Client, UninstallStep(c) PROVE TypeOK'
  BY <1>5, UninstallType
<1>6. ASSUME NEW c \in Client, Crash(c) PROVE TypeOK'
  BY <1>6, CrashType
<1>7. CASE Rest
  BY <1>1, <1>7 DEF Rest
<1> QED BY <1>1, <1>2, <1>3, <1>4, <1>5, <1>6, <1>7 DEF Next, Step

(* Type correctness: whatever the clients do, and wherever they fail or    *)
(* crash, the store holds well-formed records, the cluster well-formed     *)
(* objects, and an operation holds the records its next call needs.  In    *)
(* particular the code never uses the previous revision of a release that  *)
(* it has not read (upgrade.go:92 and the branches that fall to Install).  *)
THEOREM TypeCorrect == Spec => []TypeOK
<1>1. Init => TypeOK
  BY InitType
<1>2. TypeOK /\ [Next]_vars => TypeOK'
  BY NextType
<1> QED BY <1>1, <1>2, PTL DEF Spec

-----------------------------------------------------------------------------
(* The requests of a client population that only adds to the history.      *)
GrowingOnly == \A q \in Requests : q.kind # "uninstall" /\ q.max = 0

(* The program counters of an operation past its Create, and idle.         *)
Later == PC \ ({"read", "target", "create"} \cup Removing)

Carries(x, y) == y.rev = x.rev /\ y.chart = x.chart

Follows(s, t) ==
    /\ t.pc \in Later /\ t.req = s.req
    /\ Carries(s.cur, t.cur) /\ Carries(s.rel, t.rel)
    /\ t.copies \subseteq s.copies

-----------------------------------------------------------------------------
(* Every function that says where an operation goes next yields a state    *)
(* that follows.                                                           *)

(* The points of an operation past its Create, one by one.                 *)
LEMMA LaterPoints ==
  /\ Later \subseteq PC
  /\ {"idle", "pre", "crds", "snapshot", "force", "predelete", "apply", "jobs", "wait",
      "post", "dropped", "deploy", "history", "supersede", "fail", "reapply", "cleanup",
      "undodelete", "undoapply", "undofailed", "undoprev"} = Later
BY DEF Later, PC, Removing

(* Going on twice is going on.                                             *)
LEMMA FollowsTrans ==
  ASSUME NEW s, NEW t, NEW u, Follows(s, t), Follows(t, u)
  PROVE  Follows(s, u)
BY DEF Follows, Carries

(* A move to another point after Create carries the records on.            *)
LEMMA ToFollows ==
  ASSUME NEW s \in RunState, NEW pc \in Later
  PROVE  Follows(s, To(s, pc))
BY ToType, LaterPoints DEF Follows, Carries

(* So does the start of a walk over resources.                             *)
LEMMA WalkFollows ==
  ASSUME NEW s \in RunState, NEW pc \in Later, NEW todo
  PROVE  Follows(s, Walk(s, pc, todo))
<1> DEFINE t == To(s, pc)
           w == [t EXCEPT !.todo = todo]
<1>1. t \in RunState /\ Follows(s, t)
  BY ToType, ToFollows, LaterPoints
<1> HIDE DEF t
<1>2. w.pc = t.pc /\ w.req = t.req /\ w.cur = t.cur /\ w.rel = t.rel /\ w.copies = t.copies
  BY <1>1 DEF RunState
<1> HIDE DEF w
<1>3. Follows(s, w)
  BY <1>1, <1>2 DEF Follows, Carries
<1> QED BY <1>3 DEF Walk, w, t

(* So does a warning.                                                      *)
LEMMA WarnFollows ==
  ASSUME NEW s \in RunState
  PROVE  /\ Warn(s) \in RunState /\ Warn(s).pc = s.pc /\ Warn(s).req = s.req
         /\ Warn(s).rel = s.rel /\ Warn(s).cur = s.cur /\ Warn(s).copies = s.copies
         /\ \A t : Follows(Warn(s), t) => Follows(s, t)
         /\ \A r : Follows(r, s) => Follows(r, Warn(s))
<1> DEFINE w == Warn(s)
<1>1. w \in RunState /\ w.pc = s.pc /\ w.req = s.req /\ w.cur = s.cur /\ w.rel = s.rel
      /\ w.copies = s.copies
  BY DEF Warn, RunState
<1> HIDE DEF w
<1>2. (\A t : Follows(w, t) => Follows(s, t)) /\ (\A r : Follows(r, s) => Follows(r, w))
  BY <1>1 DEF Follows, Carries
<1> QED BY <1>1, <1>2 DEF w

(* So does the end of the operation.                                       *)
LEMMA FinishFollows ==
  ASSUME NEW s \in RunState, NEW out
  PROVE  Follows(s, Finish(s, out)) /\ Finish(s, out).pc = "idle"
<1> DEFINE t == To(s, "idle")
           u == [t EXCEPT !.snap = {}]
           v == [u EXCEPT !.out = out]
<1>1. t \in RunState /\ t.pc = "idle" /\ Follows(s, t)
  BY ToType, ToFollows, LaterPoints
<1> HIDE DEF t
<1>2. u \in RunState /\ u.pc = t.pc /\ u.req = t.req /\ u.cur = t.cur /\ u.rel = t.rel
      /\ u.copies = t.copies
  BY <1>1 DEF RunState
<1> HIDE DEF u
<1>3. v.pc = t.pc /\ v.req = t.req /\ v.cur = t.cur /\ v.rel = t.rel /\ v.copies = t.copies
  BY <1>2 DEF RunState
<1>4. Finish(s, out) = v
  BY Zenon DEF Finish, t, u, v
<1> HIDE DEF v
<1>5. Follows(s, v)
  BY <1>1, <1>3 DEF Follows, Carries
<1> QED BY <1>1, <1>3, <1>4, <1>5

(* Success and failure both end the operation.                             *)
LEMMA EndFollows ==
  ASSUME NEW s \in RunState
  PROVE  /\ Follows(s, Succeed(s)) /\ Succeed(s).pc = "idle"
         /\ Follows(s, GiveUp(s)) /\ GiveUp(s).pc = "idle"
BY FinishFollows DEF Succeed, GiveUp

(* Turning to markFailed carries the records on.                           *)
LEMMA FailFollows ==
  ASSUME NEW s \in RunState, NEW cause
  PROVE  Follows(s, Fail(s, cause))
<1> DEFINE t == To(s, "fail")
           w == [t EXCEPT !.cause = cause]
<1>1. t \in RunState /\ Follows(s, t)
  BY ToType, ToFollows, LaterPoints
<1> HIDE DEF t
<1>2. w.pc = t.pc /\ w.req = t.req /\ w.cur = t.cur /\ w.rel = t.rel /\ w.copies = t.copies
  BY <1>1 DEF RunState
<1> HIDE DEF w
<1>3. Follows(s, w)
  BY <1>1, <1>2 DEF Follows, Carries
<1> QED BY <1>3 DEF Fail, w, t

(* So does a deletion that may be skipped.                                 *)
LEMMA WalkIfParsedFollows ==
  ASSUME NEW s \in RunState, NEW pc \in Later, NEW todo, NEW parsed
  PROVE  Follows(s, WalkIfParsed(s, pc, todo, parsed))
BY WalkFollows, WarnFollows DEF WalkIfParsed

-----------------------------------------------------------------------------
(* The step into ApplyManifests carries the records on.                    *)
LEMMA ToApplyFollows ==
  ASSUME NEW s \in RunState
  PROVE  Follows(s, ToApply(s))
BY WalkFollows, LaterPoints DEF ToApply

(* So does the step after the snapshot.                                    *)
LEMMA AfterSnapshotFollows ==
  ASSUME NEW s \in RunState
  PROVE  Follows(s, AfterSnapshot(s))
BY ToFollows, ToApplyFollows, LaterPoints DEF AfterSnapshot

(* So does the step after the CRDs.                                        *)
LEMMA AfterCRDsFollows ==
  ASSUME NEW s \in RunState
  PROVE  Follows(s, AfterCRDs(s))
BY ToFollows, ToApplyFollows, AfterSnapshotFollows, LaterPoints DEF AfterCRDs

(* So does the step after ApplyManifests.                                  *)
LEMMA AfterApplyFollows ==
  ASSUME NEW s \in RunState
  PROVE  Follows(s, AfterApply(s)) /\ Follows(s, AfterJobs(s))
BY ToFollows, LaterPoints DEF AfterApply, AfterJobs

(* So does the end of an operation that prunes nothing.                    *)
LEMMA AfterSupersedeFollows ==
  ASSUME NEW s \in RunState, s.req.max = 0
  PROVE  Follows(s, AfterSupersede(s))
BY EndFollows DEF AfterSupersede

(* So does the step after the final status write.                          *)
LEMMA AfterDeployFollows ==
  ASSUME NEW s \in RunState, s.req.max = 0
  PROVE  Follows(s, AfterDeploy(s))
BY ToFollows, AfterSupersedeFollows, LaterPoints DEF AfterDeploy

(* So does the step after the cleanup.                                     *)
LEMMA AfterCleanupFollows ==
  ASSUME NEW s \in RunState
  PROVE  Follows(s, AfterCleanup(s))
BY WalkIfParsedFollows, EndFollows, LaterPoints DEF AfterCleanup

(* So does the step after markFailed.                                      *)
LEMMA AfterMarkFailedFollows ==
  ASSUME NEW s \in RunState
  PROVE  Follows(s, AfterMarkFailed(s))
<1> DEFINE whole == WalkIfParsed(s, "cleanup", Deletable(s.rel.chart), Parses(s.rel.chart))
           spared == WalkIfParsed(s, "cleanup", Deletable(s.rel.chart) \ s.snap,
                                  Parses(s.rel.chart))
           again == Walk(s, "reapply", Manifest[s.cur.chart])
<1>1. Follows(s, whole) /\ Follows(s, spared) /\ Follows(s, again)
      /\ Follows(s, AfterCleanup(s))
  BY WalkIfParsedFollows, WalkFollows, AfterCleanupFollows, LaterPoints
<1>2. \/ AfterMarkFailed(s) = whole
      \/ AfterMarkFailed(s) = spared
      \/ AfterMarkFailed(s) = again
      \/ AfterMarkFailed(s) = AfterCleanup(s)
  BY Zenon DEF AfterMarkFailed
<1> HIDE DEF whole, spared, again
<1> QED BY <1>1, <1>2

-----------------------------------------------------------------------------
(* A step of an operation past its Create: it leaves the store alone or    *)
(* settles a record it holds, and goes where it may go.                    *)

Settling == \E x \in Release : Matches(x) /\ x.status \in Status \ Pending /\ Put(x)

StoreStep == UNCHANGED store \/ Settling

(* Settling changes no manifest and adds no record.                        *)
LEMMA SettlingKeeps ==
  ASSUME StoreTypeOK, StoreStep
  PROVE  /\ Stored' = Stored
         /\ \A r \in Stored : store'[r].chart = store[r].chart
         /\ \A y : Matches(y) => Matches(y)'
<1>1. CASE UNCHANGED store
  BY <1>1 DEF Stored, Matches
<1>2. CASE Settling
  <2>1. PICK x \in Release : Matches(x) /\ Put(x)
    BY <1>2 DEF Settling
  <2>2. x.rev \in Rev /\ x.rev \in Stored /\ store[x.rev].chart = x.chart /\ x.chart # NoChart
    BY <2>1, NoChartAssumption DEF Matches, Release
  <2>3. [chart |-> x.chart, status |-> x.status] # NoRecord
    BY <2>2 DEF NoRecord
  <2>4. store' = [store EXCEPT ![x.rev] = [chart |-> x.chart, status |-> x.status]]
    BY <2>1 DEF Put
  <2>5. \A r \in Rev : r # x.rev => store'[r] = store[r]
    BY <2>2, <2>4 DEF StoreTypeOK
  <2>6. store'[x.rev] = [chart |-> x.chart, status |-> x.status]
    BY <2>2, <2>4 DEF StoreTypeOK
  <2>7. Stored' = Stored
    BY <2>2, <2>3, <2>5, <2>6 DEF Stored
  <2>8. \A r \in Stored : store'[r].chart = store[r].chart
    BY <2>2, <2>5, <2>6 DEF Stored
  <2> QED BY <2>7, <2>8 DEF Matches
<1> QED BY <1>1, <1>2 DEF StoreStep

(* A record that is put back with its manifest and a settled status.       *)
LEMMA UpdateSettles ==
  ASSUME NEW x \in Release, Matches(x), x.status \in Status \ Pending,
         UpdateOk(x) \/ UpdateFails(x)
  PROVE  StoreStep
BY DEF UpdateOk, UpdateFails, StoreStep, Settling

(* An operation that goes where it may go keeps the invariant, and so do   *)
(* all the others.                                                         *)
LEMMA FollowsLog ==
  ASSUME TypeOK, LogInv, StoreStep, NEW c \in Client, NEW t,
         run[c].pc \in Later \ {"idle"}, Follows(run[c], t), Become(c, t)
  PROVE  LogInv'
<1> DEFINE s == run[c]
<1>1. /\ Stored' = Stored /\ \A y : Matches(y) => Matches(y)'
  BY SettlingKeeps DEF TypeOK
<1>2. run'[c] = t /\ \A d \in Client \ {c} : run'[d] = run[d]
  BY DEF Become, TypeOK
<1>3. NoHoles'
  BY <1>1 DEF LogInv, NoHoles
<1>4. Recorded(t)' /\ OnlyAdding(t)
  <2>1. Recorded(s) /\ OnlyAdding(s)
    BY DEF LogInv
  <2>2. s.pc \notin {"idle", "read", "target", "create"} /\ t.pc \notin {"read", "target", "create"}
        /\ t.pc \notin Removing
    BY DEF Later, Follows
  <2>3. s.req.kind # "install" => Matches(t.cur)
    BY <2>1, <2>2 DEF Recorded, Follows, Carries, Matches
  <2>4. Matches(t.rel)
    BY <2>1, <2>2 DEF Recorded, Follows, Carries, Matches
  <2>5. \A y \in t.copies : Matches(y)
    BY <2>1 DEF Recorded, Follows
  <2>6. t.req = s.req
    BY DEF Follows
  <2>7. Recorded(t)'
    BY <1>1, <2>2, <2>3, <2>4, <2>5, <2>6 DEF Recorded
  <2>8. OnlyAdding(t)
    BY <2>1, <2>2, <2>6 DEF OnlyAdding
  <2> QED BY <2>7, <2>8
<1>5. ASSUME NEW d \in Client PROVE Recorded(run[d])' /\ OnlyAdding(run[d])'
  <2>1. CASE d = c
    BY <1>2, <1>4, <2>1 DEF Recorded, Matches, OnlyAdding
  <2>2. CASE d # c
    <3>1. Recorded(run[d]) /\ OnlyAdding(run[d]) /\ run'[d] = run[d]
      BY <1>2, <2>2 DEF LogInv
    <3> QED BY <1>1, <3>1 DEF Recorded, OnlyAdding
  <2> QED BY <2>1, <2>2
<1>6. RevisionHasOneOwner'
  <2>1. \A d \in Client : Owning(d)' => Owning(d) /\ run'[d].rel.rev = run[d].rel.rev
    <3> TAKE d \in Client
    <3>1. CASE d = c
      BY <1>2, <3>1 DEF Owning, Kinds, At, Follows, Carries, Later
    <3>2. CASE d # c
      BY <1>2, <3>2 DEF Owning, Kinds, At
    <3> QED BY <3>1, <3>2
  <2>2. RevisionHasOneOwner
    BY DEF LogInv
  <2> QED BY <2>1, <2>2 DEF RevisionHasOneOwner
<1> QED BY <1>3, <1>5, <1>6 DEF LogInv

-----------------------------------------------------------------------------
(* The shapes of a client's step.                                          *)

Busy == Later \ {"idle"}

(* A hook phase or a wait keeps the log invariant.                         *)
LEMMA KubeCallLog ==
  ASSUME TypeOK, LogInv, NEW c \in Client, NEW pc \in Busy, NEW done, NEW failed,
         Follows(run[c], done), Follows(run[c], failed),
         KubeCall(c, pc, done, failed)
  PROVE  LogInv' /\ StoreStep
<1>1. run[c].pc \in Busy /\ StoreStep
  BY DEF KubeCall, At, StoreStep
<1>2. CASE Become(c, done)
  BY <1>1, <1>2, FollowsLog DEF Busy
<1>3. CASE Become(c, failed)
  BY <1>1, <1>3, FollowsLog DEF Busy
<1> QED BY <1>1, <1>2, <1>3 DEF KubeCall

(* A resource crossed off a walk.                                          *)
LEMMA CrossedOffFollows ==
  ASSUME NEW s \in RunState, s.pc \in Later, NEW todo
  PROVE  Follows(s, [s EXCEPT !.todo = todo])
<1> DEFINE w == [s EXCEPT !.todo = todo]
<1>1. w.pc = s.pc /\ w.req = s.req /\ w.cur = s.cur /\ w.rel = s.rel /\ w.copies = s.copies
  BY DEF RunState
<1> HIDE DEF w
<1>2. Follows(s, w)
  BY <1>1 DEF Follows, Carries
<1> QED BY <1>2 DEF w

(* ApplyManifests keeps the log invariant: it does not touch the store.    *)
LEMMA ApplyingLog ==
  ASSUME TypeOK, LogInv, NEW c \in Client, NEW pc \in Busy, NEW ch, NEW done, NEW failed,
         Follows(run[c], done), Follows(run[c], failed),
         Applying(c, pc, ch, done, failed)
  PROVE  LogInv' /\ StoreStep
<1> DEFINE s == run[c]
<1>1. s.pc \in Busy /\ s.pc \in Later /\ s \in RunState /\ StoreStep
  BY DEF Applying, At, StoreStep, Busy, TypeOK
<1>2. CASE Become(c, done)
  BY <1>1, <1>2, FollowsLog DEF Busy
<1>3. CASE Become(c, failed)
  BY <1>1, <1>3, FollowsLog DEF Busy
<1>4. ASSUME NEW r, Become(c, [s EXCEPT !.todo = @ \ {r}]) PROVE LogInv'
  <2>1. Follows(s, [s EXCEPT !.todo = s.todo \ {r}])
    BY <1>1, CrossedOffFollows
  <2> QED BY <1>1, <1>4, <2>1, FollowsLog DEF Busy
<1> QED BY <1>1, <1>2, <1>3, <1>4 DEF Applying

(* DeleteManifests keeps the log invariant: it does not touch the store.   *)
LEMMA DeletingLog ==
  ASSUME TypeOK, LogInv, NEW c \in Client, NEW pc \in Busy, NEW done, NEW failed,
         Follows(run[c], done), Follows(run[c], failed),
         Deleting(c, pc, done, failed)
  PROVE  LogInv' /\ StoreStep
<1> DEFINE s == run[c]
<1>1. s.pc \in Busy /\ s.pc \in Later /\ s \in RunState /\ StoreStep
  BY DEF Deleting, At, StoreStep, Busy, TypeOK
<1>2. CASE Become(c, done)
  BY <1>1, <1>2, FollowsLog DEF Busy
<1>3. CASE Become(c, failed)
  BY <1>1, <1>3, FollowsLog DEF Busy
<1>4. ASSUME NEW r, Become(c, [s EXCEPT !.todo = @ \ {r}]) PROVE LogInv'
  <2>1. Follows(s, [s EXCEPT !.todo = s.todo \ {r}])
    BY <1>1, CrossedOffFollows
  <2> QED BY <1>1, <1>4, <2>1, FollowsLog DEF Busy
<1> QED BY <1>1, <1>2, <1>3, <1>4 DEF Deleting

(* storage.Update of a record that matches the stored one keeps the log    *)
(* invariant and settles one entry.                                        *)
LEMMA WritingLog ==
  ASSUME TypeOK, LogInv, NEW c \in Client, NEW pc \in Busy, NEW x \in Release,
         Matches(x), x.status \in Status \ Pending, NEW done, NEW failed,
         Follows(run[c], done), Follows(run[c], failed),
         Writing(c, pc, x, done, failed)
  PROVE  LogInv' /\ StoreStep
<1>1. run[c].pc \in Busy /\ StoreStep
  BY UpdateSettles DEF Writing, At
<1>2. CASE Become(c, done)
  BY <1>1, <1>2, FollowsLog DEF Busy
<1>3. CASE Become(c, failed)
  BY <1>1, <1>3, FollowsLog DEF Busy
<1> QED BY <1>1, <1>2, <1>3 DEF Writing

(* So does the update that is tried three times.                           *)
LEMMA RetriedUpdateLog ==
  ASSUME TypeOK, LogInv, NEW c \in Client, NEW pc \in Busy, NEW x \in Release,
         Matches(x), x.status \in Status \ Pending, NEW done, NEW failed,
         Follows(run[c], done), Follows(run[c], failed),
         RetriedUpdate(c, pc, x, done, failed)
  PROVE  LogInv' /\ StoreStep
<1> DEFINE s == run[c]
           again == IF s.tries < 2 THEN [s EXCEPT !.tries = @ + 1] ELSE failed
           w == [s EXCEPT !.tries = s.tries + 1]
<1>1. s.pc \in Later /\ s \in RunState
  BY DEF RetriedUpdate, Writing, At, Busy, TypeOK
<1>2. w.pc = s.pc /\ w.req = s.req /\ w.cur = s.cur /\ w.rel = s.rel /\ w.copies = s.copies
  BY <1>1 DEF RunState
<1>3. Follows(s, w)
  BY <1>1, <1>2 DEF Follows, Carries
<1>4. Follows(s, again)
  BY <1>3
<1>5. Writing(c, pc, x, done, again)
  BY DEF RetriedUpdate
<1> HIDE DEF again
<1> QED BY <1>4, <1>5, WritingLog

(* A history read: the copies it returns match what is stored.             *)
LEMMA VisitKeeps ==
  ASSUME NEW s \in RunState, NEW pc \in PC, NEW copies \in SUBSET Release
  PROVE  LET v == Visit(s, pc, copies) IN
         v.pc = pc /\ v.req = s.req /\ v.cur = s.cur /\ v.rel = s.rel /\ v.copies = copies
<1> DEFINE t == To(s, pc)
           w == [t EXCEPT !.copies = copies]
<1>1. t \in RunState /\ t.pc = pc /\ t.req = s.req /\ t.cur = s.cur /\ t.rel = s.rel
  BY ToType
<1> HIDE DEF t
<1>2. w.pc = pc /\ w.req = s.req /\ w.cur = s.cur /\ w.rel = s.rel /\ w.copies = copies
  BY <1>1 DEF RunState
<1> QED BY <1>2 DEF Visit, w, t

(* A walk over records starts with records that match.                     *)
LEMMA VisitFollows ==
  ASSUME NEW s \in RunState, NEW pc \in Later, NEW copies \in SUBSET Release,
         copies \subseteq s.copies
  PROVE  Follows(s, Visit(s, pc, copies))
BY VisitKeeps, LaterPoints DEF Follows, Carries

(* A new status in memory leaves the manifest of the record alone.         *)
LEMMA SetStatusFollows ==
  ASSUME NEW s \in Working, NEW status \in Status
  PROVE  LET t == [s EXCEPT !.rel.status = status] IN
         /\ t \in RunState /\ t.pc = s.pc /\ t.req = s.req
         /\ t.rel \in Release /\ t.rel.status = status /\ Carries(s.rel, t.rel)
         /\ \A u : Follows(t, u) => Follows(s, u)
<1> DEFINE w == [s EXCEPT !.rel = [s.rel EXCEPT !.status = status]]
<1>1. s.rel \in Release /\ s \in RunState
  BY DEF Working, Good, Holding
<1>2. /\ [s.rel EXCEPT !.status = status] \in Release
      /\ [s.rel EXCEPT !.status = status].status = status
      /\ Carries(s.rel, [s.rel EXCEPT !.status = status])
  BY <1>1 DEF Release, Carries
<1>3. w \in RunState /\ w.pc = s.pc /\ w.req = s.req /\ w.cur = s.cur
      /\ w.rel = [s.rel EXCEPT !.status = status] /\ w.copies = s.copies
  BY <1>1, <1>2 DEF RunState
<1>4. [s EXCEPT !.rel.status = status] = w
  BY <1>1 DEF RunState
<1> HIDE DEF w
<1>5. \A u : Follows(w, u) => Follows(s, u)
  BY <1>2, <1>3 DEF Follows, Carries
<1> QED BY <1>2, <1>3, <1>4, <1>5

(* The same for the record of the previous revision.                       *)
LEMMA SetPreviousStatusFollows ==
  ASSUME NEW s \in Working, NEW status \in Status, s.req.kind # "install"
  PROVE  LET t == [s EXCEPT !.cur.status = status] IN
         /\ t \in RunState /\ t.pc = s.pc /\ t.req = s.req
         /\ t.cur \in Release /\ t.cur.status = status /\ Carries(s.cur, t.cur)
         /\ \A u : Follows(t, u) => Follows(s, u)
<1> DEFINE w == [s EXCEPT !.cur = [s.cur EXCEPT !.status = status]]
<1>1. s.cur \in Release /\ s \in RunState
  BY DEF Working, Good, Holding
<1>2. /\ [s.cur EXCEPT !.status = status] \in Release
      /\ [s.cur EXCEPT !.status = status].status = status
      /\ Carries(s.cur, [s.cur EXCEPT !.status = status])
  BY <1>1 DEF Release, Carries
<1>3. w \in RunState /\ w.pc = s.pc /\ w.req = s.req /\ w.rel = s.rel
      /\ w.cur = [s.cur EXCEPT !.status = status] /\ w.copies = s.copies
  BY <1>1, <1>2 DEF RunState
<1>4. [s EXCEPT !.cur.status = status] = w
  BY <1>1 DEF RunState
<1> HIDE DEF w
<1>5. \A u : Follows(w, u) => Follows(s, u)
  BY <1>2, <1>3 DEF Follows, Carries
<1> QED BY <1>2, <1>3, <1>4, <1>5

-----------------------------------------------------------------------------
(* The steps of an operation past its Create.                              *)

(* What an operation past its Create holds.                                *)
LEMMA BusyHolds ==
  ASSUME TypeOK, LogInv, NEW c \in Client, run[c].pc \in Busy
  PROVE  LET s == run[c] IN
         /\ s \in Working /\ s \in RunState /\ s.req.max = 0
         /\ s.rel \in Release /\ Matches(s.rel)
         /\ s.req.kind # "install" => s.cur \in Release /\ Matches(s.cur)
         /\ s.pc \in UsesPrevious => s.req.kind # "install"
         /\ \A y \in s.copies : y \in Release /\ Matches(y)
         /\ Warn(s) \in RunState /\ Warn(s).req = s.req /\ Warn(s).cur = s.cur
         /\ Warn(s).rel = s.rel
         /\ \A t : Follows(Warn(s), t) => Follows(s, t)
<1> DEFINE s == run[c]
<1>1. s.pc \notin {"idle", "read", "target", "create"}
  BY DEF Busy, Later
<1>2. s \in Working
  BY <1>1, AtWork
<1>3. Recorded(s) /\ OnlyAdding(s)
  BY DEF LogInv
<1>4. s \in RunState
  BY DEF TypeOK
<1> QED BY <1>1, <1>2, <1>3, <1>4, WorkingHolds, WarnFollows DEF Recorded, OnlyAdding

(* Every step that brings the cluster to the new manifest keeps the log    *)
(* invariant.                                                              *)
LEMMA DeployingLog ==
  ASSUME TypeOK, LogInv, NEW c \in Client,
         \/ PreHooks(c) \/ ApplyCRDs(c) \/ TakeSnapshot(c) \/ ChooseForced(c)
         \/ PreDelete(c) \/ ApplyRelease(c) \/ WaitForJobs(c) \/ WaitForReady(c)
  PROVE  LogInv' /\ StoreStep
<1> DEFINE s == run[c]
           ch == s.rel.chart
<1>1. s.pc \in Busy
  BY LaterPoints DEF Busy, PreHooks, ApplyCRDs, TakeSnapshot, ChooseForced, PreDelete,
     ApplyRelease, WaitForJobs, WaitForReady, KubeCall, Deleting, Applying, At
<1>2. s \in RunState /\ s.pc \in Later \ {"idle"}
  BY <1>1, BusyHolds DEF Busy
<1>3. \A cause : Follows(s, Fail(s, cause))
  BY <1>2, FailFollows
<1>4. Busy = Later \ {"idle"}
  BY DEF Busy
<1>5. CASE PreHooks(c)
  <2>1. Follows(s, Walk(s, "crds", Manifest[ch] \cap CRD)) /\ Follows(s, AfterSnapshot(s))
    BY <1>2, WalkFollows, AfterSnapshotFollows, LaterPoints
  <2> QED BY <1>3, <1>4, <1>5, <2>1, KubeCallLog, LaterPoints DEF PreHooks
<1>6. CASE ApplyCRDs(c)
  <2>1. Follows(s, AfterCRDs(s))
    BY <1>2, AfterCRDsFollows
  <2>2. \A r : Follows(s, [s EXCEPT !.todo = s.todo \ {r}])
    BY <1>2, CrossedOffFollows
  <2>3. StoreStep
    BY <1>6 DEF ApplyCRDs, StoreStep
  <2>4. \/ Become(c, AfterCRDs(s))
        \/ Become(c, Fail(s, "crds"))
        \/ \E r : Become(c, [s EXCEPT !.todo = s.todo \ {r}])
    BY <1>6 DEF ApplyCRDs
  <2> QED BY <1>2, <1>3, <2>1, <2>2, <2>3, <2>4, FollowsLog
<1>7. CASE TakeSnapshot(c)
  <2>1. StoreStep
    BY <1>7 DEF TakeSnapshot, StoreStep
  <2>2. ASSUME NEW S PROVE Follows(s, AfterSnapshot([s EXCEPT !.snap = S]))
                           \/ S \notin SUBSET Resource
    <3> SUFFICES ASSUME S \in SUBSET Resource
                 PROVE  Follows(s, AfterSnapshot([s EXCEPT !.snap = S]))
      OBVIOUS
    <3> DEFINE w == [s EXCEPT !.snap = S]
    <3>1. w \in RunState /\ w.req = s.req /\ w.cur = s.cur /\ w.rel = s.rel
          /\ w.copies = s.copies
      BY <1>2 DEF RunState
    <3> HIDE DEF w
    <3>2. Follows(w, AfterSnapshot(w))
      BY <3>1, AfterSnapshotFollows
    <3>3. Follows(s, AfterSnapshot(w))
      BY <3>1, <3>2 DEF Follows, Carries
    <3> QED BY <3>3 DEF w
  <2>3. Follows(s, AfterSnapshot(s))
    BY <1>2, AfterSnapshotFollows
  <2>4. Manifest[ch] \in SUBSET Resource
    BY <1>1, BusyHolds, ManifestType DEF Release
  <2>5. \/ Become(c, AfterSnapshot(s))
        \/ \E S \in SUBSET Resource : Become(c, AfterSnapshot([s EXCEPT !.snap = S]))
    BY <1>7, <2>4 DEF TakeSnapshot
  <2> QED BY <1>2, <2>1, <2>2, <2>3, <2>5, FollowsLog
<1>8. CASE ChooseForced(c)
  <2>1. StoreStep
    BY <1>8 DEF ChooseForced, StoreStep
  <2>2. \A S : Follows(s, Walk(s, "predelete", S))
    BY <1>2, WalkFollows, LaterPoints
  <2>3. Follows(s, ToApply(s))
    BY <1>2, ToApplyFollows
  <2>4. \/ \E S : Become(c, Walk(s, "predelete", S))
        \/ Become(c, Fail(s, "force"))
        \/ Become(c, ToApply(s))
    <3> DEFINE Deleted(S) == IF Parses(s.cur.chart) THEN Walk(s, "predelete", S)
                             ELSE Fail(s, "force")
               all == Deletable(s.cur.chart)
    <3>1. \/ Become(c, Deleted(all))
          \/ \E need : Become(c, IF need = {} THEN ToApply(s) ELSE Deleted(all \cap need))
      BY <1>8 DEF ChooseForced
    <3> HIDE DEF all
    <3> QED BY <3>1
  <2> QED BY <1>2, <1>3, <2>1, <2>2, <2>3, <2>4, FollowsLog
<1>9. CASE PreDelete(c)
  BY <1>2, <1>3, <1>4, <1>9, ToApplyFollows, DeletingLog, LaterPoints DEF PreDelete
<1>10. CASE ApplyRelease(c)
  BY <1>2, <1>3, <1>4, <1>10, AfterApplyFollows, ApplyingLog, LaterPoints DEF ApplyRelease
<1>11. CASE WaitForJobs(c)
  BY <1>2, <1>3, <1>4, <1>11, AfterApplyFollows, KubeCallLog, LaterPoints DEF WaitForJobs
<1>12. CASE WaitForReady(c)
  BY <1>2, <1>3, <1>4, <1>12, ToFollows, KubeCallLog, LaterPoints DEF WaitForReady
<1> QED BY <1>5, <1>6, <1>7, <1>8, <1>9, <1>10, <1>11, <1>12

(* Nothing is pruned here: no client is ever at those points.              *)
LEMMA SettlingLog ==
  ASSUME TypeOK, LogInv, NEW c \in Client,
         \/ PostHooks(c) \/ PruneRemoved(c) \/ MarkDeployed(c)
         \/ ReadHistoryToSupersede(c) \/ Supersede(c)
         \/ ReadHistoryToPrune(c) \/ PruneHistory(c)
  PROVE  LogInv' /\ StoreStep
<1> DEFINE s == run[c]
<1>0. s.pc \notin Removing
  BY DEF LogInv, OnlyAdding
<1>1. s.pc \in Busy
  BY <1>0, LaterPoints DEF Busy, PostHooks, PruneRemoved, MarkDeployed,
     ReadHistoryToSupersede, Supersede, ReadHistoryToPrune, PruneHistory, KubeCall,
     Deleting, RetriedUpdate, Writing, ReadHistory, Dropping, At, Removing
<1>2. /\ s \in RunState /\ s \in Working /\ s.pc \in Later \ {"idle"} /\ s.req.max = 0
      /\ Warn(s) \in RunState /\ Warn(s).req = s.req
      /\ \A t : Follows(Warn(s), t) => Follows(s, t)
  BY <1>1, BusyHolds DEF Busy
<1>3. Busy = Later \ {"idle"} /\ Later \subseteq PC
  BY LaterPoints DEF Busy
<1>4. CASE PostHooks(c)
  <2> DEFINE done == IF s.req.kind = "upgrade"
                     THEN WalkIfParsed(s, "dropped",
                            WithoutCRDs(Orphans(s.cur.chart, s.rel.chart)),
                            Parses(s.cur.chart))
                     ELSE To(s, "deploy")
  <2>1. Follows(s, done)
    BY <1>2, WalkIfParsedFollows, ToFollows, LaterPoints
  <2>2. Follows(s, Fail(s, "post"))
    BY <1>2, FailFollows
  <2>3. KubeCall(c, "post", done, Fail(s, "post"))
    BY <1>4 DEF PostHooks
  <2> HIDE DEF done
  <2> QED BY <1>3, <2>1, <2>2, <2>3, KubeCallLog, LaterPoints
<1>5. CASE PruneRemoved(c)
  <2>1. Follows(s, To(s, "deploy")) /\ Follows(s, To(Warn(s), "deploy"))
    BY <1>2, ToFollows, LaterPoints
  <2> QED BY <1>3, <1>5, <2>1, DeletingLog, LaterPoints DEF PruneRemoved
<1>6. CASE MarkDeployed(c)
  <2> DEFINE t == [s EXCEPT !.rel.status = "deployed"]
  <2>1. /\ t \in RunState /\ t.req = s.req /\ t.rel \in Release /\ t.rel.status = "deployed"
        /\ Carries(s.rel, t.rel) /\ \A u : Follows(t, u) => Follows(s, u)
    BY <1>2, SetStatusFollows DEF Status
  <2>2. RetriedUpdate(c, "deploy", t.rel, AfterDeploy(t), GiveUp(t))
    BY <1>6 DEF MarkDeployed
  <2> HIDE DEF t
  <2>3. Follows(s, AfterDeploy(t)) /\ Follows(s, GiveUp(t))
    BY <1>2, <2>1, AfterDeployFollows, EndFollows
  <2>4. Matches(t.rel)
    BY <1>1, <2>1, BusyHolds DEF Matches, Carries
  <2>5. t.rel.status \in Status \ Pending
    BY <2>1 DEF Status, Pending
  <2> QED BY <1>3, <2>1, <2>2, <2>3, <2>4, <2>5, RetriedUpdateLog, LaterPoints
<1>7. CASE ReadHistoryToSupersede(c)
  <2> DEFINE sel == {x \in History : x.status = "deployed" /\ x.rev # s.rel.rev}
             v == Visit(s, "supersede", sel)
  <2>1. StoreStep /\ s.pc = "history"
    BY <1>7 DEF ReadHistoryToSupersede, ReadHistory, ReadOk, ReadFails, StoreStep, At
  <2>2. CASE Become(c, AfterSupersede(Warn(s)))
    <3>1. Follows(s, AfterSupersede(Warn(s)))
      BY <1>2, AfterSupersedeFollows
    <3> QED BY <1>2, <2>1, <2>2, <3>1, FollowsLog
  <2>3. CASE ReadOk /\ Become(c, v)
    <3>1. sel \in SUBSET Release
      BY Untouched, HistoryType
    <3>2. /\ v.pc = "supersede" /\ v.req = s.req /\ v.cur = s.cur /\ v.rel = s.rel
          /\ v.copies = sel
      BY <1>2, <3>1, VisitKeeps DEF PC
    <3>3. \A y \in sel : Matches(y)
      BY DEF History, CopyOf, Matches
    <3> HIDE DEF sel, v
    <3>4. store' = store /\ Stored' = Stored
      BY <2>3 DEF ReadOk, Stored
    <3>5. run'[c] = v /\ \A d \in Client \ {c} : run'[d] = run[d]
      BY <2>3 DEF Become, TypeOK
    <3>6. Recorded(v) /\ OnlyAdding(v)
      <4>1. Recorded(s) /\ OnlyAdding(s)
        BY DEF LogInv
      <4> QED BY <2>1, <3>2, <3>3, <4>1 DEF Recorded, OnlyAdding, Removing
    <3>7. \A d \in Client : Recorded(run[d])' /\ OnlyAdding(run[d])'
      BY <3>4, <3>5, <3>6 DEF LogInv, Recorded, OnlyAdding, Matches
    <3>8. \A d \in Client : Owning(d)' => Owning(d) /\ run'[d].rel.rev = run[d].rel.rev
      BY <2>1, <3>2, <3>5 DEF Owning, Kinds, At
    <3>9. RevisionHasOneOwner'
      BY <3>8 DEF LogInv, RevisionHasOneOwner
    <3>10. NoHoles'
      BY <3>4 DEF LogInv, NoHoles
    <3> QED BY <2>1, <3>7, <3>9, <3>10 DEF LogInv
  <2> QED BY <1>7, <2>2, <2>3 DEF ReadHistoryToSupersede, ReadHistory
<1>8. CASE Supersede(c)
  <2>1. CASE Become(c, AfterSupersede(s)) /\ UNCHANGED world
    <3>1. Follows(s, AfterSupersede(s)) /\ StoreStep
      BY <1>2, <2>1, AfterSupersedeFollows DEF StoreStep, world
    <3> QED BY <1>2, <2>1, <3>1, FollowsLog
  <2>2. CASE \E x \in s.copies :
               LET rest == Visit(s, "supersede", s.copies \ {x}) IN
               RetriedUpdate(c, "supersede", [x EXCEPT !.status = "superseded"],
                             rest, Warn(rest))
    <3>1. PICK x \in s.copies :
               LET rest == Visit(s, "supersede", s.copies \ {x}) IN
               RetriedUpdate(c, "supersede", [x EXCEPT !.status = "superseded"],
                             rest, Warn(rest))
      BY <2>2
    <3> DEFINE rest == Visit(s, "supersede", s.copies \ {x})
               y == [x EXCEPT !.status = "superseded"]
    <3>2. x \in Release /\ Matches(x) /\ s.copies \ {x} \in SUBSET Release
      BY <1>1, <1>2, BusyHolds, WorkingHolds
    <3>3. y \in Release /\ y.status = "superseded" /\ Carries(x, y)
      BY <3>2 DEF Release, Status, Carries
    <3>4. Matches(y) /\ y.status \in Status \ Pending
      BY <3>2, <3>3 DEF Matches, Carries, Status, Pending
    <3>5. Follows(s, rest)
      BY <1>2, <3>2, VisitFollows, LaterPoints
    <3>6. rest \in RunState
      BY <1>2, <3>2, VisitGood DEF PC, Onward, UsesPrevious, Working, Good
    <3>7. RetriedUpdate(c, "supersede", y, rest, Warn(rest))
      BY <3>1
    <3> HIDE DEF rest, y
    <3>8. Follows(s, Warn(rest))
      BY <3>5, <3>6, WarnFollows
    <3> QED BY <1>3, <3>3, <3>4, <3>5, <3>7, <3>8, RetriedUpdateLog, LaterPoints
  <2> QED BY <1>8, <2>1, <2>2 DEF Supersede
<1>9. ~ReadHistoryToPrune(c) /\ ~PruneHistory(c)
  BY <1>0 DEF ReadHistoryToPrune, PruneHistory, ReadHistory, Dropping, At, Removing
<1> QED BY <1>4, <1>5, <1>6, <1>7, <1>8, <1>9

(* Every step of a recovery keeps the log invariant and settles at most    *)
(* one entry.                                                              *)
LEMMA RecoveryLog ==
  ASSUME TypeOK, LogInv, NEW c \in Client, RecoveryStep(c)
  PROVE  LogInv' /\ StoreStep
<1> DEFINE s == run[c]
<1>1. s.pc \in Busy
  BY LaterPoints DEF Busy, RecoveryStep, MarkFailed, ReapplyPrevious, CleanUp, UndoDelete,
     UndoApply, UndoMarkFailed, UndoRestorePrevious, Writing, Applying, Deleting, At
<1>2. /\ s \in RunState /\ s \in Working /\ s.rel \in Release /\ Matches(s.rel)
      /\ Warn(s) \in RunState /\ \A t : Follows(Warn(s), t) => Follows(s, t)
  BY <1>1, BusyHolds
<1>3. Busy = Later \ {"idle"} /\ Later \subseteq PC
  BY LaterPoints DEF Busy
<1>4. CASE MarkFailed(c)
  <2> DEFINE t == [s EXCEPT !.rel.status = "failed"]
  <2>1. /\ t \in RunState /\ t.rel \in Release /\ t.rel.status = "failed"
        /\ Carries(s.rel, t.rel) /\ \A u : Follows(t, u) => Follows(s, u)
    BY <1>2, SetStatusFollows DEF Status
  <2>2. Writing(c, "fail", t.rel, AfterMarkFailed(t), AfterMarkFailed(Warn(t)))
    BY <1>4 DEF MarkFailed
  <2> HIDE DEF t
  <2>3. Follows(s, AfterMarkFailed(t)) /\ Follows(s, AfterMarkFailed(Warn(t)))
    BY <2>1, WarnFollows, AfterMarkFailedFollows
  <2>4. Matches(t.rel) /\ t.rel.status \in Status \ Pending
    BY <1>2, <2>1 DEF Matches, Carries, Status, Pending
  <2> QED BY <1>3, <2>1, <2>2, <2>3, <2>4, WritingLog, LaterPoints
<1>5. CASE ReapplyPrevious(c)
  <2> DEFINE N(t) == WalkIfParsed(t, "cleanup", Orphans(s.rel.chart, s.cur.chart),
                                  Parses(s.rel.chart) /\ Parses(s.cur.chart))
  <2>1. Follows(s, N(s)) /\ Follows(s, N(Warn(s)))
    BY <1>2, WalkIfParsedFollows, LaterPoints
  <2>2. Applying(c, "reapply", s.cur.chart, N(s), N(Warn(s)))
    BY <1>5 DEF ReapplyPrevious
  <2> HIDE DEF N
  <2> QED BY <1>3, <2>1, <2>2, ApplyingLog, LaterPoints
<1>6. CASE CleanUp(c)
  <2>1. Follows(s, AfterCleanup(s)) /\ Follows(s, AfterCleanup(Warn(s)))
    BY <1>2, AfterCleanupFollows
  <2> QED BY <1>3, <1>6, <2>1, DeletingLog, LaterPoints DEF CleanUp
<1>7. CASE UndoDelete(c)
  <2> DEFINE N(t) == Walk(t, "undoapply", Manifest[s.cur.chart])
  <2>1. Follows(s, N(s)) /\ Follows(s, N(Warn(s)))
    BY <1>2, WalkFollows, LaterPoints
  <2>2. Deleting(c, "undodelete", N(s), N(Warn(s)))
    BY <1>7 DEF UndoDelete
  <2> HIDE DEF N
  <2> QED BY <1>3, <2>1, <2>2, DeletingLog, LaterPoints
<1>8. CASE UndoApply(c)
  <2>1. Follows(s, To(s, "undofailed")) /\ Follows(s, To(Warn(s), "undofailed"))
    BY <1>2, ToFollows, LaterPoints
  <2> QED BY <1>3, <1>8, <2>1, ApplyingLog, LaterPoints DEF UndoApply
<1>9. CASE UndoMarkFailed(c)
  <2> DEFINE x == [s.rel EXCEPT !.status = "failed"]
  <2>1. Follows(s, To(s, "undoprev")) /\ Follows(s, To(Warn(s), "undoprev"))
    BY <1>2, ToFollows, LaterPoints
  <2>2. x \in Release /\ Matches(x) /\ x.status \in Status \ Pending
    BY <1>2 DEF Release, Matches, Status, Pending
  <2>3. Writing(c, "undofailed", x, To(s, "undoprev"), To(Warn(s), "undoprev"))
    BY <1>9 DEF UndoMarkFailed
  <2> HIDE DEF x
  <2> QED BY <1>3, <2>1, <2>2, <2>3, WritingLog, LaterPoints
<1>10. CASE UndoRestorePrevious(c)
  <2> DEFINE t == [s EXCEPT !.cur.status = "deployed"]
  <2>1. s.req.kind # "install"
    BY <1>1, <1>10, BusyHolds DEF UndoRestorePrevious, Writing, At, UsesPrevious
  <2>2. /\ t \in RunState /\ t.cur \in Release /\ t.cur.status = "deployed"
        /\ Carries(s.cur, t.cur) /\ \A u : Follows(t, u) => Follows(s, u)
    BY <1>2, <2>1, SetPreviousStatusFollows DEF Status
  <2>3. Writing(c, "undoprev", t.cur, GiveUp(t), GiveUp(Warn(t)))
    BY <1>10 DEF UndoRestorePrevious
  <2> HIDE DEF t
  <2>4. Follows(s, GiveUp(t)) /\ Follows(s, GiveUp(Warn(t)))
    BY <2>2, WarnFollows, EndFollows
  <2>5. Matches(t.cur) /\ t.cur.status \in Status \ Pending
    BY <1>1, <2>1, <2>2, BusyHolds DEF Matches, Carries, Status, Pending
  <2> QED BY <1>3, <2>2, <2>3, <2>4, <2>5, WritingLog, LaterPoints
<1> QED BY <1>4, <1>5, <1>6, <1>7, <1>8, <1>9, <1>10 DEF RecoveryStep

(* Nobody uninstalls.                                                      *)
LEMMA NoUninstall ==
  ASSUME LogInv, NEW c \in Client
  PROVE  ~UninstallStep(c)
<1>1. OnlyAdding(run[c])
  BY DEF LogInv
<1> QED BY <1>1 DEF UninstallStep, OnlyAdding, Removing, MarkUninstalling, PreDeleteHooks,
           Uninstalling, DeleteRelease, WaitForDeletion, PostDeleteHooks,
           ReadHistoryToPurge, PurgeHistory, KeepHistory, KubeCall, Deleting, Writing,
           ReadHistory, Dropping, At

-----------------------------------------------------------------------------
(* The steps up to Create.                                                 *)

(* A client that does not own a revision before or after its step.         *)
LEMMA AsideLog ==
  ASSUME TypeOK, LogInv, NEW c \in Client, NEW t, UNCHANGED store,
         run' = [run EXCEPT ![c] = t], Recorded(t), OnlyAdding(t),
         t.pc \in {"idle", "read", "target", "create"}
  PROVE  LogInv'
<1>1. run'[c] = t /\ \A d \in Client \ {c} : run'[d] = run[d]
  BY DEF TypeOK
<1>2. store' = store /\ Stored' = Stored
  BY DEF Stored
<1>3. NoHoles'
  BY <1>2 DEF LogInv, NoHoles
<1>4. \A d \in Client : Recorded(run[d])' /\ OnlyAdding(run[d])'
  BY <1>1, <1>2 DEF LogInv, Recorded, OnlyAdding, Matches
<1>5. \A d \in Client : Owning(d)' => Owning(d) /\ run'[d].rel.rev = run[d].rel.rev
  BY <1>1 DEF Owning, Kinds, At
<1>6. RevisionHasOneOwner'
  BY <1>5 DEF LogInv, RevisionHasOneOwner
<1> QED BY <1>3, <1>4, <1>6 DEF LogInv

(* An operation that fails before it owns a revision leaves the log alone. *)
LEMMA GiveUpAside ==
  ASSUME NEW s \in RunState, Recorded(s)
  PROVE  Recorded(GiveUp(s)) /\ OnlyAdding(GiveUp(s)) /\ GiveUp(s).pc = "idle"
<1>1. GiveUp(s).pc = "idle" /\ GiveUp(s).copies \subseteq s.copies
  BY EndFollows DEF Follows
<1> QED BY <1>1 DEF Recorded, OnlyAdding, Removing

(* An install claims revision 1, below which there is none.                *)
LEMMA ToInstallAside ==
  ASSUME NEW s \in RunState, NEW q \in Request, q.kind = "install", q.max = 0
  PROVE  LET t == ToInstall(s, q) IN
         Recorded(t) /\ OnlyAdding(t) /\ t.pc = "create"
<1> DEFINE t == To(s, "create")
           u == [t EXCEPT !.req = q]
           v == [u EXCEPT !.rel = NewRelease(1, q.chart, "install")]
<1>1. t \in RunState /\ t.pc = "create" /\ t.copies = {}
  BY ToType DEF PC
<1> HIDE DEF t
<1>2. u \in RunState /\ u.pc = "create" /\ u.req = q /\ u.copies = {}
  BY <1>1 DEF RunState
<1> HIDE DEF u
<1>3. v.pc = "create" /\ v.req = q /\ v.copies = {}
      /\ v.rel = NewRelease(1, q.chart, "install")
  BY <1>2 DEF RunState
<1>4. ToInstall(s, q) = v
  BY Zenon DEF ToInstall, t, u, v
<1> HIDE DEF v
<1>5. v.rel.status \in Pending /\ v.rel.rev = 1
  BY <1>3 DEF NewRelease, Pending
<1>6. \A r \in Rev : ~(r < 1)
  BY MaxRevAssumption DEF Rev
<1>7. Recorded(v) /\ OnlyAdding(v)
  BY <1>3, <1>5, <1>6 DEF Recorded, OnlyAdding, Removing
<1> QED BY <1>3, <1>4, <1>7

(* The request handed to Install asks for no pruning.                      *)
LEMMA AsInstallAside ==
  ASSUME NEW q \in Request
  PROVE  AsInstall(q) \in Request /\ AsInstall(q).kind = "install" /\ AsInstall(q).max = 0
<1>1. AsInstall(q).max = 0
  BY DEF AsInstall, Plain
<1> QED BY <1>1, AsInstallType

(* A request that starts keeps the log invariant.                          *)
LEMMA StartLog ==
  ASSUME GrowingOnly, TypeOK, LogInv, NEW c \in Client, Start(c)
  PROVE  LogInv' /\ UNCHANGED store
<1> DEFINE s == IdleRun("none")
           read(q) == [To(s, "read") EXCEPT !.req = q]
<1>1. PICK q \in Requests :
         run' = [run EXCEPT ![c] = IF q.kind = "install" THEN ToInstall(s, q) ELSE read(q)]
  BY DEF Start
<1>2. q \in Request /\ q.kind # "uninstall" /\ q.max = 0 /\ s \in RunState
  BY RequestsAssumption, IdleRunGood DEF GrowingOnly, Good, Outcome
<1>3. q.kind = "install" => LET t == ToInstall(s, q) IN
                            Recorded(t) /\ OnlyAdding(t) /\ t.pc = "create"
  BY <1>2, ToInstallAside
<1>4. Recorded(read(q)) /\ OnlyAdding(read(q)) /\ read(q).pc = "read"
  <2> DEFINE t == To(s, "read")
             u == [t EXCEPT !.req = q]
  <2>1. t \in RunState /\ t.pc = "read" /\ t.copies = {}
    BY <1>2, ToType DEF PC
  <2> HIDE DEF t
  <2>2. u.pc = "read" /\ u.req = q /\ u.copies = {}
    BY <2>1 DEF RunState
  <2> HIDE DEF u
  <2>3. Recorded(u) /\ OnlyAdding(u)
    BY <1>2, <2>2 DEF Recorded, OnlyAdding, Removing
  <2> QED BY <2>2, <2>3 DEF u, t
<1>5. UNCHANGED store
  BY DEF Start, world
<1> HIDE DEF read
<1>6. CASE q.kind = "install"
  BY <1>1, <1>3, <1>5, <1>6, AsideLog
<1>7. CASE q.kind # "install"
  BY <1>1, <1>4, <1>5, <1>7, AsideLog
<1> QED BY <1>5, <1>6, <1>7

(* The number after the newest leaves no hole below it.                    *)
LEMMA NextRevision ==
  ASSUME NoHoles, NEW n \in Stored
  PROVE  \A r \in Rev : r < n + 1 => r \in Stored
<1>1. \A r \in Rev : r < n + 1 => r = n \/ r < n
  BY MaxRevAssumption DEF Rev, Stored
<1> QED BY <1>1 DEF NoHoles, Stored

(* storage.Last keeps the log invariant: it returns the newest entry and   *)
(* the next number is free of holes.                                       *)
LEMMA ReadLastLog ==
  ASSUME TypeOK, LogInv, NEW c \in Client, ReadLast(c)
  PROVE  LogInv' /\ UNCHANGED store
<1> DEFINE s == run[c]
           L(r) == [s EXCEPT !.cur = CopyOf(r)]
           up(r) == [To(L(r), "create") EXCEPT
                        !.rel = NewRelease(r + 1, s.req.chart, "upgrade")]
           back(r) == To(L(r), "target")
<1>1. s \in RunState /\ s \in Good /\ s.pc = "read" /\ s.req \in Request
      /\ Recorded(s) /\ s.req.kind # "uninstall" /\ s.req.max = 0 /\ s.req.kind # "install"
  BY DEF TypeOK, Good, Holding, UsesPrevious, LogInv, OnlyAdding, ReadLast, At
<1>2. UNCHANGED store
  BY DEF ReadLast, ReadOk, ReadFails
<1>3. CASE Become(c, GiveUp(s))
  BY <1>1, <1>2, <1>3, GiveUpAside, AsideLog DEF Become
<1>4. CASE Become(c, ToInstall(s, AsInstall(s.req)))
  <2>1. LET t == ToInstall(s, AsInstall(s.req)) IN
        Recorded(t) /\ OnlyAdding(t) /\ t.pc = "create"
    BY <1>1, AsInstallAside, ToInstallAside
  <2> QED BY <1>2, <1>4, <2>1, AsideLog DEF Become
<1>5. ASSUME NEW r \in Stored,
             (s.req.kind = "upgrade" /\ Become(c, up(r))) \/ Become(c, back(r))
      PROVE  LogInv'
  <2> DEFINE l == L(r)
             x == NewRelease(r + 1, s.req.chart, "upgrade")
             t == To(l, "create")
             u == [t EXCEPT !.rel = x]
             b == To(l, "target")
  <2>1. CopyOf(r) \in Release /\ Matches(CopyOf(r))
    BY HistoryType, Untouched DEF CopyOf, Matches
  <2>2. l \in RunState /\ l.req = s.req /\ l.cur = CopyOf(r)
    BY <1>1, <2>1 DEF RunState
  <2> HIDE DEF l
  <2>3. t \in RunState /\ t.pc = "create" /\ t.req = s.req /\ t.cur = CopyOf(r) /\ t.copies = {}
    BY <2>2, ToType DEF PC
  <2>4. b.pc = "target" /\ b.req = s.req /\ b.cur = CopyOf(r) /\ b.copies = {}
    BY <2>2, ToType DEF PC
  <2> HIDE DEF t, b
  <2>5. u.pc = "create" /\ u.req = s.req /\ u.cur = CopyOf(r) /\ u.rel = x /\ u.copies = {}
    BY <2>3 DEF RunState
  <2>6. x.rev = r + 1 /\ x.status \in Pending
    BY DEF NewRelease, Pending
  <2> HIDE DEF u, x
  <2>7. \A n \in Rev : n < r + 1 => n \in Stored
    BY NextRevision DEF LogInv
  <2>8. Recorded(u) /\ OnlyAdding(u)
    BY <1>1, <2>1, <2>5, <2>6, <2>7 DEF Recorded, OnlyAdding, Removing
  <2>9. Recorded(b) /\ OnlyAdding(b)
    BY <1>1, <2>1, <2>4 DEF Recorded, OnlyAdding, Removing
  <2>10. Become(c, u) \/ Become(c, b)
    BY <1>5 DEF u, t, b, l, x
  <2> QED BY <1>2, <2>4, <2>5, <2>8, <2>9, <2>10, AsideLog DEF Become
<1>6. \/ Become(c, GiveUp(s))
      \/ Become(c, ToInstall(s, AsInstall(s.req)))
      \/ \E r \in Stored : (s.req.kind = "upgrade" /\ Become(c, up(r))) \/ Become(c, back(r))
  <2>1. s.req.kind \in {"upgrade", "rollback"}
    BY <1>1 DEF Request, Kind
  <2> QED BY <2>1 DEF ReadLast, IsLast
<1> QED BY <1>2, <1>3, <1>4, <1>5, <1>6

(* Reading the target of a rollback keeps the log invariant.               *)
LEMMA ReadTargetLog ==
  ASSUME TypeOK, LogInv, NEW c \in Client, ReadTarget(c)
  PROVE  LogInv' /\ UNCHANGED store
<1> DEFINE s == run[c]
           t == IF s.req.target = 0 THEN s.cur.rev - 1 ELSE s.req.target
           x == NewRelease(s.cur.rev + 1, store[t].chart, "rollback")
           n == [To(s, "create") EXCEPT !.rel = x]
<1>1. s \in RunState /\ s.pc = "target" /\ Recorded(s) /\ OnlyAdding(s) /\ NoHoles
      /\ s.req.kind # "install"
  BY DEF TypeOK, Holding, UsesPrevious, LogInv, ReadTarget, At
<1>2. UNCHANGED store
  BY DEF ReadTarget, ReadOk, ReadFails
<1>3. Become(c, GiveUp(s)) \/ Become(c, n)
  BY DEF ReadTarget
<1>4. CASE Become(c, GiveUp(s))
  BY <1>1, <1>2, <1>4, GiveUpAside, AsideLog DEF Become
<1>5. CASE Become(c, n)
  <2> DEFINE u == To(s, "create")
             v == [u EXCEPT !.rel = x]
  <2>1. u \in RunState /\ u.pc = "create" /\ u.req = s.req /\ u.cur = s.cur /\ u.copies = {}
    BY <1>1, ToType DEF PC
  <2>2. x.rev = s.cur.rev + 1 /\ x.status \in Pending
    BY DEF NewRelease, Pending
  <2> HIDE DEF u, x
  <2>3. v.pc = "create" /\ v.req = s.req /\ v.cur = s.cur /\ v.rel = x /\ v.copies = {}
    BY <2>1 DEF RunState
  <2>4. Matches(s.cur)
    BY <1>1 DEF Recorded
  <2>5. \A r \in Rev : r < x.rev => r \in Stored
    BY <1>1, <2>2, <2>4, NextRevision DEF Matches
  <2> HIDE DEF v
  <2>6. Recorded(v) /\ OnlyAdding(v)
    BY <1>1, <2>2, <2>3, <2>4, <2>5 DEF Recorded, OnlyAdding, Removing
  <2>7. run' = [run EXCEPT ![c] = v]
    BY <1>5 DEF v, u, Become
  <2> QED BY <1>2, <2>3, <2>6, <2>7, AsideLog
<1> QED BY <1>2, <1>3, <1>4, <1>5

-----------------------------------------------------------------------------
(* Create.                                                                 *)

Appending == \E x \in Release : /\ x.status \in Pending /\ x.rev \notin Stored
                                /\ \A r \in Rev : r < x.rev => r \in Stored
                                /\ Put(x)

(* Appending adds the one record and leaves the others alone.              *)
LEMMA PutAdds ==
  ASSUME StoreTypeOK, NEW x \in Release, Put(x), x.rev \notin Stored
  PROVE  /\ Stored' = Stored \cup {x.rev}
         /\ \A y : Matches(y) => Matches(y)'
         /\ \A y : y.rev = x.rev /\ y.chart = x.chart => Matches(y)'
<1>1. x.rev \in Rev /\ x.chart # NoChart
  BY NoChartAssumption DEF Release
<1>2. [chart |-> x.chart, status |-> x.status] # NoRecord
  BY <1>1 DEF NoRecord
<1>3. store' = [store EXCEPT ![x.rev] = [chart |-> x.chart, status |-> x.status]]
  BY DEF Put
<1>4. \A r \in Rev : r # x.rev => store'[r] = store[r]
  BY <1>1, <1>3 DEF StoreTypeOK
<1>5. store'[x.rev] = [chart |-> x.chart, status |-> x.status]
  BY <1>1, <1>3 DEF StoreTypeOK
<1>6. Stored' = Stored \cup {x.rev}
  BY <1>1, <1>2, <1>4, <1>5 DEF Stored
<1>7. \A y : Matches(y) => Matches(y)'
  BY <1>4, <1>6 DEF Matches, Stored
<1>8. \A y : y.rev = x.rev /\ y.chart = x.chart => Matches(y)'
  BY <1>5, <1>6 DEF Matches
<1> QED BY <1>6, <1>7, <1>8

(* storage.Create appends one pending entry, owned by the caller alone, or *)
(* changes nothing.                                                        *)
LEMMA CreateRevisionLog ==
  ASSUME TypeOK, LogInv, NEW c \in Client, CreateRevision(c)
  PROVE  LogInv' /\ (UNCHANGED store \/ Appending)
<1> DEFINE s == run[c]
<1>1. s \in RunState /\ s \in Working /\ s.pc = "create" /\ s.rel \in Release
      /\ Recorded(s) /\ OnlyAdding(s)
  BY AtWork, WorkingHolds DEF CreateRevision, At, TypeOK, LogInv
<1>2. CASE UNCHANGED store /\ Become(c, GiveUp(s))
  BY <1>1, <1>2, GiveUpAside, AsideLog DEF Become
<1>3. CASE Put(s.rel) /\ s.rel.rev \notin Stored
           /\ (Become(c, GiveUp(s)) \/ Become(c, To(s, "pre")))
  <2> DEFINE n == s.rel.rev
  <2>1. Appending
    BY <1>1, <1>3 DEF Appending, Recorded
  <2>2. /\ Stored' = Stored \cup {n}
        /\ \A y : Matches(y) => Matches(y)'
        /\ \A y : y.rev = s.rel.rev /\ y.chart = s.rel.chart => Matches(y)'
    BY <1>1, <1>3, PutAdds DEF TypeOK
  <2>3. \A r \in Rev : r < n => r \in Stored
    BY <1>1 DEF Recorded
  <2>4. NoHoles'
    BY <2>2, <2>3 DEF LogInv, NoHoles
  <2>5. PICK t : /\ Become(c, t) /\ Follows(s, t) /\ t.pc \in {"idle", "pre"}
    <3>1. Follows(s, To(s, "pre")) /\ To(s, "pre").pc = "pre"
      BY <1>1, ToFollows, ToType, LaterPoints
    <3>2. Follows(s, GiveUp(s)) /\ GiveUp(s).pc = "idle"
      BY <1>1, EndFollows
    <3> QED BY <1>3, <3>1, <3>2
  <2>6. run'[c] = t /\ \A d \in Client \ {c} : run'[d] = run[d]
    BY <2>5 DEF Become, TypeOK
  <2>7. Recorded(t)' /\ OnlyAdding(t)
    <3>1. t.req = s.req /\ t.pc \notin Removing
      BY <2>5 DEF Follows, Removing
    <3>2. Matches(t.rel)'
      BY <2>2, <2>5 DEF Follows, Carries
    <3>3. s.req.kind # "install" => Matches(t.cur)
      BY <1>1, <2>5 DEF Recorded, Follows, Carries, Matches
    <3>4. \A y \in t.copies : Matches(y)
      BY <1>1, <2>5 DEF Recorded, Follows
    <3>5. Recorded(t)'
      BY <2>2, <2>5, <3>1, <3>2, <3>3, <3>4 DEF Recorded
    <3>6. OnlyAdding(t)
      BY <1>1, <3>1 DEF OnlyAdding
    <3> QED BY <3>5, <3>6
  <2>8. \A d \in Client \ {c} : Recorded(run[d])' /\ OnlyAdding(run[d])'
    <3> TAKE d \in Client \ {c}
    <3>1. Recorded(run[d]) /\ OnlyAdding(run[d]) /\ run'[d] = run[d]
      BY <2>6 DEF LogInv
    <3>2. run[d].pc = "create" =>
             \A r \in Rev : r < run[d].rel.rev => r \in Stored'
      BY <2>2, <3>1 DEF Recorded
    <3> QED BY <2>2, <3>1, <3>2 DEF Recorded, OnlyAdding
  <2>9. Recorded(run[c])' /\ OnlyAdding(run[c])'
    BY <2>6, <2>7 DEF Recorded, Matches, OnlyAdding
  <2>10. RevisionHasOneOwner'
    <3>1. \A d \in Client \ {c} : Owning(d)' =>
             Owning(d) /\ run'[d].rel.rev = run[d].rel.rev /\ run[d].rel.rev \in Stored
      BY <2>6 DEF Owning, Kinds, At, LogInv, Recorded, Matches
    <3>2. Owning(c)' => run'[c].rel.rev = n
      BY <2>5, <2>6 DEF Follows, Carries
    <3>3. \A d \in Client \ {c} : Owning(d)' => run'[d].rel.rev # n
      BY <1>3, <3>1
    <3> QED BY <3>1, <3>2, <3>3 DEF LogInv, RevisionHasOneOwner
  <2> QED BY <2>1, <2>4, <2>8, <2>9, <2>10 DEF LogInv
<1> QED BY <1>2, <1>3 DEF CreateRevision, CreateOk, CreateFails

-----------------------------------------------------------------------------
(* The invariant.                                                          *)

(* A crash keeps the log invariant.                                        *)
LEMMA CrashLog ==
  ASSUME TypeOK, LogInv, NEW c \in Client, Crash(c)
  PROVE  LogInv' /\ UNCHANGED store
<1> DEFINE t == IdleRun("crashed")
<1>1. t.pc = "idle" /\ t.copies = {}
  BY DEF IdleRun
<1> HIDE DEF t
<1>2. Recorded(t) /\ OnlyAdding(t)
  BY <1>1 DEF Recorded, OnlyAdding, Removing
<1>3. UNCHANGED store /\ run' = [run EXCEPT ![c] = t]
  BY DEF Crash, world, t
<1> QED BY <1>1, <1>2, <1>3, AsideLog

(* Initially the log is empty.                                             *)
LEMMA InitLog == Init => LogInv
<1> SUFFICES ASSUME Init PROVE LogInv
  OBVIOUS
<1>1. Stored = {}
  BY DEF Init, StoreInit, Stored
<1>2. \A c \in Client : run[c].pc = "idle" /\ run[c].copies = {}
  BY DEF Init, IdleRun
<1>3. NoHoles
  BY <1>1 DEF NoHoles
<1>4. \A c \in Client : Recorded(run[c]) /\ OnlyAdding(run[c])
  BY <1>2 DEF Recorded, OnlyAdding, Removing
<1>5. RevisionHasOneOwner
  BY <1>2 DEF RevisionHasOneOwner, Owning, At
<1> QED BY <1>3, <1>4, <1>5 DEF LogInv

(* Every step of operations that only add keeps the log invariant and      *)
(* appends or settles one entry at most.                                   *)
LEMMA NextLog ==
  ASSUME GrowingOnly, TypeOK, LogInv, [Next]_vars
  PROVE  LogInv' /\ (UNCHANGED store \/ Settling \/ Appending)
<1>1. CASE UNCHANGED vars
  BY <1>1 DEF vars, LogInv, NoHoles, Stored, Recorded, Matches, OnlyAdding,
     RevisionHasOneOwner, Owning, Kinds, At
<1>2. ASSUME NEW c \in Client, Start(c)
      PROVE  LogInv' /\ UNCHANGED store
  BY <1>2, StartLog
<1>3. ASSUME NEW c \in Client, ReleaseStep(c)
      PROVE  LogInv' /\ (UNCHANGED store \/ Settling \/ Appending)
  BY <1>3, ReadLastLog, ReadTargetLog, CreateRevisionLog, DeployingLog, SettlingLog
     DEF ReleaseStep, StoreStep
<1>4. ASSUME NEW c \in Client, RecoveryStep(c)
      PROVE  LogInv' /\ (UNCHANGED store \/ Settling)
  BY <1>4, RecoveryLog DEF StoreStep
<1>5. \A c \in Client : ~UninstallStep(c)
  BY NoUninstall
<1>6. ASSUME NEW c \in Client, Crash(c)
      PROVE  LogInv' /\ UNCHANGED store
  BY <1>6, CrashLog
<1>7. CASE Rest
  BY <1>1, <1>7 DEF Rest
<1> QED BY <1>1, <1>2, <1>3, <1>4, <1>5, <1>6, <1>7 DEF Next, Step

(* As long as nobody uninstalls or prunes, the history has no holes and    *)
(* what every operation holds in memory matches what is stored, however    *)
(* the clients interleave, fail and crash.                                 *)
THEOREM MemoryMatchesHistory ==
  ASSUME GrowingOnly
  PROVE  Spec => []LogInv
<1>1. Init => TypeOK /\ LogInv
  BY InitType, InitLog
<1>2. TypeOK /\ LogInv /\ [Next]_vars => (TypeOK /\ LogInv)'
  BY GrowingOnly, NextType, NextLog
<1>3. TypeOK /\ LogInv => LogInv
  OBVIOUS
<1> QED BY <1>1, <1>2, <1>3, PTL DEF Spec

(* storage.Create (storage.go:109) is the only arbiter between concurrent  *)
(* operations, and it is enough to give every revision one owner.          *)
THEOREM OneOwner ==
  ASSUME GrowingOnly
  PROVE  Spec => []RevisionHasOneOwner
<1>1. LogInv => RevisionHasOneOwner
  BY DEF LogInv
<1> QED BY <1>1, MemoryMatchesHistory, PTL

-----------------------------------------------------------------------------
(* Pending records.  The points of an operation whose record is pending.   *)

Open == {"pre", "crds", "snapshot", "force", "predelete", "apply", "jobs", "wait",
         "post", "dropped", "deploy", "fail"}

Stays(s, t) == t.pc \in Open /\ t.rel.rev = s.rel.rev

PendingAt(r) == r \in Stored /\ store[r].status \in Pending

(* Why PendingIsOwned holds: the owner of a pending record has not come to *)
(* the write that settles it.                                              *)
PendingIsOpen ==
    StoreReliable /\ crashes = 0 =>
        \A r \in Stored : PendingAt(r) =>
            \E c \in Client : run[c].pc \in Open /\ run[c].rel.rev = r

(* A client at such a point stays at one, or its record is settled, or the *)
(* store has failed.                                                       *)
Faithful(c) ==
    \A r : run[c].pc \in Open /\ run[c].rel.rev = r =>
              \/ Stays(run[c], run'[c]) \/ ~PendingAt(r)' \/ ~StoreReliable'

(* The step of one client, as the others and the bounds see it.            *)
Apart(c) ==
    /\ \A d \in Client \ {c} : run'[d] = run[d]
    /\ StoreReliable' => StoreReliable
    /\ crashes' = 0 => crashes = 0

(* A point where the record is pending is one past Create.                 *)
LEMMA OpenIsBusy == Open \subseteq Busy
BY DEF Open, Busy, Later, PC, Removing

(* Such steps keep every pending record owned.                             *)
LEMMA ApartKeeps ==
  ASSUME PendingIsOpen, NEW c \in Client, Apart(c), Faithful(c),
         \A r \in Stored' : PendingAt(r)' => PendingAt(r) \/ Stays([rel |-> [rev |-> r]], run'[c])
  PROVE  PendingIsOpen'
<1> SUFFICES ASSUME StoreReliable', crashes' = 0, NEW r \in Stored', PendingAt(r)'
             PROVE  \E d \in Client : run'[d].pc \in Open /\ run'[d].rel.rev = r
  BY DEF PendingIsOpen
<1>1. CASE Stays([rel |-> [rev |-> r]], run'[c])
  BY <1>1 DEF Stays
<1>2. CASE PendingAt(r)
  <2>1. PICK d \in Client : run[d].pc \in Open /\ run[d].rel.rev = r
    BY <1>2 DEF PendingIsOpen, Apart, PendingAt
  <2>2. CASE d = c
    BY <2>1, <2>2 DEF Faithful, Stays
  <2>3. CASE d # c
    BY <2>1, <2>3 DEF Apart
  <2> QED BY <2>2, <2>3
<1> QED BY <1>1, <1>2

(* No status becomes pending after Create.                                 *)
LEMMA SettlingAddsNone ==
  ASSUME TypeOK, StoreStep
  PROVE  \A r : PendingAt(r)' => PendingAt(r)
<1>1. CASE UNCHANGED store
  BY <1>1 DEF PendingAt, Stored
<1>2. CASE Settling
  <2>1. PICK x \in Release : Matches(x) /\ x.status \in Status \ Pending /\ Put(x)
    BY <1>2 DEF Settling
  <2>2. Stored' = Stored
    BY SettlingKeeps DEF TypeOK
  <2>3. store' = [store EXCEPT ![x.rev] = [chart |-> x.chart, status |-> x.status]]
    BY <2>1 DEF Put
  <2>4. \A r \in Rev : store'[r].status \in Pending => store'[r] = store[r]
    BY <2>1, <2>3 DEF TypeOK, StoreTypeOK
  <2> QED BY <2>2, <2>4 DEF PendingAt, Stored
<1> QED BY <1>1, <1>2 DEF StoreStep

(* An attempted update settles its record, or the store has failed.        *)
LEMMA UpdateTells ==
  ASSUME TypeOK, NEW x \in Release, Matches(x), x.status \in Status \ Pending
  PROVE  /\ UpdateOk(x) => ~PendingAt(x.rev)'
         /\ UpdateFails(x) => ~StoreReliable'
<1>1. ASSUME UpdateOk(x) PROVE ~PendingAt(x.rev)'
  <2>1. store' = [store EXCEPT ![x.rev] = [chart |-> x.chart, status |-> x.status]]
    BY <1>1 DEF UpdateOk, Put
  <2>2. x.rev \in Rev
    BY DEF Release
  <2>3. store'[x.rev].status = x.status
    BY <2>1, <2>2 DEF TypeOK, StoreTypeOK
  <2> QED BY <2>3 DEF PendingAt
<1>2. ASSUME UpdateFails(x) PROVE ~StoreReliable'
  BY <1>2, StoreFaultsAssumption
     DEF UpdateFails, Matches, StoreFault, StoreReliable, TypeOK, StoreTypeOK
<1> QED BY <1>1, <1>2

-----------------------------------------------------------------------------
(* Where the operations go from there.                                     *)

(* The functions that lead on before the status is written.                *)
LEMMA OnStays ==
  ASSUME NEW s \in RunState
  PROVE  /\ \A pc \in Open : Stays(s, To(s, pc))
         /\ \A pc \in Open : \A todo : Stays(s, Walk(s, pc, todo))
         /\ \A cause : Stays(s, Fail(s, cause))
         /\ Stays(s, ToApply(s)) /\ Stays(s, AfterSnapshot(s)) /\ Stays(s, AfterCRDs(s))
         /\ Stays(s, AfterJobs(s)) /\ Stays(s, AfterApply(s))
<1>1. \A pc \in Open : Stays(s, To(s, pc))
  BY ToType, OpenIsBusy, LaterPoints DEF Stays, Busy
<1>2. \A pc \in Open : \A todo : Stays(s, Walk(s, pc, todo))
  <2> TAKE pc \in Open
  <2> TAKE todo
  <2> DEFINE t == To(s, pc)
             w == [t EXCEPT !.todo = todo]
  <2>1. t \in RunState /\ t.pc \in Open /\ t.rel = s.rel
    BY ToType, OpenIsBusy, LaterPoints DEF Busy
  <2> HIDE DEF t
  <2>2. w.pc = t.pc /\ w.rel = t.rel
    BY <2>1 DEF RunState
  <2> HIDE DEF w
  <2>3. Stays(s, w)
    BY <2>1, <2>2 DEF Stays
  <2> QED BY <2>3 DEF Walk, w, t
<1>3. \A cause : Stays(s, Fail(s, cause))
  <2> TAKE cause
  <2> DEFINE t == To(s, "fail")
             w == [t EXCEPT !.cause = cause]
  <2>1. t \in RunState /\ t.pc \in Open /\ t.rel = s.rel
    BY ToType DEF PC, Open
  <2> HIDE DEF t
  <2>2. w.pc = t.pc /\ w.rel = t.rel
    BY <2>1 DEF RunState
  <2> HIDE DEF w
  <2>3. Stays(s, w)
    BY <2>1, <2>2 DEF Stays
  <2> QED BY <2>3 DEF Fail, w, t
<1>4. Stays(s, ToApply(s))
  BY <1>2 DEF ToApply, Open
<1>5. Stays(s, AfterSnapshot(s))
  BY <1>1, <1>4 DEF AfterSnapshot, Open
<1>6. Stays(s, AfterCRDs(s))
  BY <1>1, <1>4, <1>5 DEF AfterCRDs, Open
<1>7. Stays(s, AfterJobs(s))
  BY <1>1 DEF AfterJobs, Open
<1>8. Stays(s, AfterApply(s))
  BY <1>1, <1>7 DEF AfterApply, Open
<1> QED BY <1>1, <1>2, <1>3, <1>4, <1>5, <1>6, <1>7, <1>8

(* A warning, a snapshot, a resource crossed off, another attempt.         *)
LEMMA ChangesStay ==
  ASSUME NEW s \in RunState
  PROVE  /\ \A todo \in SUBSET Resource :
               LET w == [s EXCEPT !.todo = todo] IN w.pc = s.pc /\ w.rel = s.rel
         /\ \A snap \in SUBSET Resource :
               LET w == [s EXCEPT !.snap = snap] IN w \in RunState /\ w.rel = s.rel
         /\ LET w == [s EXCEPT !.tries = s.tries + 1] IN w.pc = s.pc /\ w.rel = s.rel
         /\ Warn(s) \in RunState /\ Warn(s).rel = s.rel
<1>1. \A todo : LET w == [s EXCEPT !.todo = todo] IN w.pc = s.pc /\ w.rel = s.rel
  BY DEF RunState
<1>2. \A snap \in SUBSET Resource :
         LET w == [s EXCEPT !.snap = snap] IN w \in RunState /\ w.rel = s.rel
  BY DEF RunState
<1>3. LET w == [s EXCEPT !.tries = s.tries + 1] IN w.pc = s.pc /\ w.rel = s.rel
  BY DEF RunState
<1> QED BY <1>1, <1>2, <1>3, WarnFollows

(* A step to such a state is faithful.                                     *)
LEMMA StaysFaithful ==
  ASSUME TypeOK, NEW c \in Client, NEW t, Become(c, t), Stays(run[c], t)
  PROVE  Faithful(c)
<1>1. run'[c] = t
  BY DEF Become, TypeOK
<1> QED BY <1>1 DEF Faithful

(* A walk goes on at the same point.                                       *)
LEMMA CrossedOffStays ==
  ASSUME TypeOK, NEW c \in Client, run[c].pc \in Open, NEW r,
         Become(c, [run[c] EXCEPT !.todo = @ \ {r}])
  PROVE  Faithful(c)
<1> DEFINE s == run[c]
           t == [s EXCEPT !.todo = s.todo \ {r}]
<1>1. s \in RunState /\ s.todo \ {r} \in SUBSET Resource
  BY DEF TypeOK, RunState
<1>2. Stays(s, t)
  BY <1>1, ChangesStay DEF Stays
<1> QED BY <1>2, StaysFaithful

(* A hook phase or a wait that leads on is faithful.                       *)
LEMMA KubeCallFaithful ==
  ASSUME TypeOK, NEW c \in Client, NEW pc, NEW done, NEW failed,
         Stays(run[c], done), Stays(run[c], failed), KubeCall(c, pc, done, failed)
  PROVE  Faithful(c)
BY StaysFaithful DEF KubeCall

(* So is ApplyManifests.                                                   *)
LEMMA ApplyingFaithful ==
  ASSUME TypeOK, NEW c \in Client, NEW pc \in Open, NEW ch, NEW done, NEW failed,
         Stays(run[c], done), Stays(run[c], failed), Applying(c, pc, ch, done, failed)
  PROVE  Faithful(c)
<1>1. run[c].pc \in Open
  BY DEF Applying, At
<1>2. \/ Become(c, done) \/ Become(c, failed)
      \/ \E r : Become(c, [run[c] EXCEPT !.todo = @ \ {r}])
  BY DEF Applying
<1> QED BY <1>1, <1>2, StaysFaithful, CrossedOffStays

(* So is DeleteManifests.                                                  *)
LEMMA DeletingFaithful ==
  ASSUME TypeOK, NEW c \in Client, NEW pc \in Open, NEW done, NEW failed,
         Stays(run[c], done), Stays(run[c], failed), Deleting(c, pc, done, failed)
  PROVE  Faithful(c)
<1>1. run[c].pc \in Open
  BY DEF Deleting, At
<1>2. \/ Become(c, done) \/ Become(c, failed)
      \/ \E r : Become(c, [run[c] EXCEPT !.todo = @ \ {r}])
  BY DEF Deleting
<1> QED BY <1>1, <1>2, StaysFaithful, CrossedOffStays

(* A client whose record is settled, or the store failing, is faithful.    *)
LEMMA UpdateFaithful ==
  ASSUME TypeOK, LogInv, NEW c \in Client, NEW x \in Release,
         x.rev = run[c].rel.rev, Matches(x), x.status \in Status \ Pending,
         UpdateOk(x) \/ UpdateFails(x)
  PROVE  Faithful(c)
BY UpdateTells DEF Faithful

(* The record being written, with its new status.                          *)
LEMMA SettledCopy ==
  ASSUME TypeOK, LogInv, NEW c \in Client, run[c].pc \in Open,
         NEW status \in Status \ Pending
  PROVE  LET x == [run[c] EXCEPT !.rel.status = status].rel IN
         /\ x \in Release /\ x.rev = run[c].rel.rev /\ Matches(x)
         /\ x.status \in Status \ Pending
<1> DEFINE t == [run[c] EXCEPT !.rel.status = status]
<1>1. run[c] \in Working /\ Matches(run[c].rel)
  BY OpenIsBusy, BusyHolds
<1>2. t.rel \in Release /\ t.rel.status = status /\ Carries(run[c].rel, t.rel)
  BY <1>1, SetStatusFollows
<1> HIDE DEF t
<1>3. t.rel.rev = run[c].rel.rev /\ Matches(t.rel)
  BY <1>1, <1>2 DEF Carries, Matches
<1> QED BY <1>2, <1>3 DEF t

-----------------------------------------------------------------------------
(* The steps of an operation whose record is pending.                      *)

(* Until the status is written, or markFailed has been tried, an operation *)
(* stays the owner of its pending record.                                  *)
LEMMA OpenFaithful ==
  ASSUME TypeOK, LogInv, NEW c \in Client, run[c].pc \in Open, Step(c)
  PROVE  Faithful(c)
<1> DEFINE s == run[c]
           ch == s.rel.chart
<1>1. s \in RunState /\ s \in Working /\ s.rel \in Release
  BY OpenIsBusy, BusyHolds
<1>2. /\ \A pc \in Open : Stays(s, To(s, pc))
      /\ \A pc \in Open : \A todo : Stays(s, Walk(s, pc, todo))
      /\ \A cause : Stays(s, Fail(s, cause))
      /\ Stays(s, ToApply(s)) /\ Stays(s, AfterSnapshot(s)) /\ Stays(s, AfterCRDs(s))
      /\ Stays(s, AfterJobs(s)) /\ Stays(s, AfterApply(s))
  BY <1>1, OnStays
<1>3. /\ \A pc \in Open : Stays(s, To(Warn(s), pc))
      /\ \A pc \in Open : \A todo : Stays(s, Walk(Warn(s), pc, todo))
  <2>1. Warn(s) \in RunState /\ Warn(s).rel = s.rel
    BY <1>1, ChangesStay
  <2> QED BY <2>1, OnStays DEF Stays
<1>4. CASE PreHooks(c)
  BY <1>2, <1>4, KubeCallFaithful DEF PreHooks, Open
<1>5. CASE ApplyCRDs(c)
  <2>1. \/ Become(c, AfterCRDs(s)) \/ Become(c, Fail(s, "crds"))
        \/ \E r : Become(c, [s EXCEPT !.todo = @ \ {r}])
    BY <1>5 DEF ApplyCRDs
  <2> QED BY <1>2, <2>1, StaysFaithful, CrossedOffStays
<1>6. CASE TakeSnapshot(c)
  <2>1. Manifest[ch] \in SUBSET Resource
    BY <1>1, ManifestType DEF Release
  <2>2. \/ Become(c, AfterSnapshot(s))
        \/ \E S \in SUBSET Resource : Become(c, AfterSnapshot([s EXCEPT !.snap = S]))
    BY <1>6, <2>1 DEF TakeSnapshot
  <2>3. ASSUME NEW S \in SUBSET Resource, Become(c, AfterSnapshot([s EXCEPT !.snap = S]))
        PROVE  Faithful(c)
    <3> DEFINE w == [s EXCEPT !.snap = S]
    <3>1. w \in RunState /\ w.rel = s.rel
      BY <1>1, ChangesStay
    <3>2. Become(c, AfterSnapshot(w))
      BY <2>3
    <3> HIDE DEF w
    <3>3. Stays(s, AfterSnapshot(w))
      BY <3>1, OnStays DEF Stays
    <3> QED BY <3>2, <3>3, StaysFaithful
  <2> QED BY <1>2, <2>2, <2>3, StaysFaithful
<1>7. CASE ChooseForced(c)
  <2> DEFINE Deleted(S) == IF Parses(s.cur.chart) THEN Walk(s, "predelete", S)
                           ELSE Fail(s, "force")
             all == Deletable(s.cur.chart)
  <2>1. \/ Become(c, Deleted(all))
        \/ \E need : Become(c, IF need = {} THEN ToApply(s) ELSE Deleted(all \cap need))
    BY <1>7 DEF ChooseForced
  <2> HIDE DEF all
  <2>2. \/ \E S : Become(c, Walk(s, "predelete", S))
        \/ Become(c, Fail(s, "force"))
        \/ Become(c, ToApply(s))
    BY <2>1
  <2>3. \A S : Stays(s, Walk(s, "predelete", S))
    BY <1>2 DEF Open
  <2> QED BY <1>2, <2>2, <2>3, StaysFaithful
<1>8. CASE PreDelete(c)
  <2>1. "predelete" \in Open
    BY DEF Open
  <2> QED BY <1>2, <1>8, <2>1, DeletingFaithful DEF PreDelete
<1>9. CASE ApplyRelease(c)
  <2>1. "apply" \in Open
    BY DEF Open
  <2> QED BY <1>2, <1>9, <2>1, ApplyingFaithful DEF ApplyRelease
<1>10. CASE WaitForJobs(c)
  BY <1>2, <1>10, KubeCallFaithful DEF WaitForJobs
<1>11. CASE WaitForReady(c)
  <2>1. "post" \in Open
    BY DEF Open
  <2> QED BY <1>2, <1>11, <2>1, KubeCallFaithful DEF WaitForReady
<1>12. CASE PostHooks(c)
  <2> DEFINE done == IF s.req.kind = "upgrade"
                     THEN WalkIfParsed(s, "dropped",
                            WithoutCRDs(Orphans(s.cur.chart, s.rel.chart)),
                            Parses(s.cur.chart))
                     ELSE To(s, "deploy")
  <2>1. Stays(s, done)
    BY <1>2, <1>3 DEF WalkIfParsed, Open
  <2>2. KubeCall(c, "post", done, Fail(s, "post"))
    BY <1>12 DEF PostHooks
  <2> HIDE DEF done
  <2> QED BY <1>2, <2>1, <2>2, KubeCallFaithful
<1>13. CASE PruneRemoved(c)
  <2>1. "dropped" \in Open /\ "deploy" \in Open
    BY DEF Open
  <2> QED BY <1>2, <1>3, <1>13, <2>1, DeletingFaithful DEF PruneRemoved
<1>14. CASE MarkDeployed(c)
  <2> DEFINE x == [s EXCEPT !.rel.status = "deployed"].rel
  <2>1. UpdateOk(x) \/ UpdateFails(x)
    BY <1>14, Zenon DEF MarkDeployed, RetriedUpdate, Writing
  <2>2. x \in Release /\ x.rev = s.rel.rev /\ Matches(x) /\ x.status \in Status \ Pending
    <3>1. "deployed" \in Status \ Pending
      BY DEF Status, Pending
    <3> QED BY <3>1, SettledCopy, Zenon
  <2> HIDE DEF x
  <2> QED BY <2>1, <2>2, UpdateFaithful
<1>15. CASE MarkFailed(c)
  <2> DEFINE x == [s EXCEPT !.rel.status = "failed"].rel
  <2>1. UpdateOk(x) \/ UpdateFails(x)
    BY <1>15, Zenon DEF MarkFailed, Writing
  <2>2. x \in Release /\ x.rev = s.rel.rev /\ Matches(x) /\ x.status \in Status \ Pending
    <3>1. "failed" \in Status \ Pending
      BY DEF Status, Pending
    <3> QED BY <3>1, SettledCopy, Zenon
  <2> HIDE DEF x
  <2> QED BY <2>1, <2>2, UpdateFaithful
<1>16. \/ PreHooks(c) \/ ApplyCRDs(c) \/ TakeSnapshot(c) \/ ChooseForced(c) \/ PreDelete(c)
       \/ ApplyRelease(c) \/ WaitForJobs(c) \/ WaitForReady(c) \/ PostHooks(c)
       \/ PruneRemoved(c) \/ MarkDeployed(c) \/ MarkFailed(c)
  <2>1. ~UninstallStep(c)
    BY NoUninstall
  <2>2. ~(ReadLast(c) \/ ReadTarget(c) \/ CreateRevision(c) \/ ReadHistoryToSupersede(c)
          \/ Supersede(c) \/ ReadHistoryToPrune(c) \/ PruneHistory(c))
    <3>1. Supersede(c) => s.pc = "supersede"
      BY DEF Supersede, RetriedUpdate, Writing, At
    <3> QED BY <3>1 DEF Open, ReadLast, ReadTarget, CreateRevision, ReadHistoryToSupersede,
               ReadHistoryToPrune, PruneHistory, ReadHistory, Dropping, At
  <2>3. ~(ReapplyPrevious(c) \/ CleanUp(c) \/ UndoDelete(c) \/ UndoApply(c)
          \/ UndoMarkFailed(c) \/ UndoRestorePrevious(c))
    BY DEF Open, ReapplyPrevious, CleanUp, UndoDelete, UndoApply, UndoMarkFailed,
       UndoRestorePrevious, Applying, Deleting, Writing, At
  <2> QED BY <2>1, <2>2, <2>3 DEF Step, ReleaseStep, RecoveryStep
<1> QED BY <1>4, <1>5, <1>6, <1>7, <1>8, <1>9, <1>10, <1>11, <1>12, <1>13, <1>14, <1>15,
           <1>16

-----------------------------------------------------------------------------
(* The others and the bounds.                                              *)

(* One client becomes something else and the store, if it fails, counts.   *)
LEMMA BecomeApart ==
  ASSUME TypeOK, NEW c \in Client, NEW t, Become(c, t),
         UNCHANGED storeFaults \/ StoreFault
  PROVE  Apart(c)
<1>1. \A d \in Client \ {c} : run'[d] = run[d]
  BY DEF Become, TypeOK
<1>2. crashes' = crashes
  BY DEF Become, budget
<1>3. StoreReliable' => StoreReliable
  BY StoreFaultsAssumption DEF StoreReliable, StoreFault, TypeOK, StoreTypeOK
<1> QED BY <1>1, <1>2, <1>3 DEF Apart

(* A call on the cluster.                                                  *)
LEMMA KubeApart ==
  ASSUME TypeOK, NEW c \in Client, NEW pc, NEW ch, NEW done, NEW failed,
         \/ KubeCall(c, pc, done, failed)
         \/ Applying(c, pc, ch, done, failed)
         \/ Deleting(c, pc, done, failed)
  PROVE  Apart(c)
<1>1. UNCHANGED storeFaults /\ \E t : Become(c, t)
  BY Zenon DEF KubeCall, Applying, Deleting
<1> QED BY <1>1, BecomeApart

(* A call on the store.                                                    *)
LEMMA StoreApart ==
  ASSUME TypeOK, NEW c \in Client, NEW pc, NEW x, NEW done, NEW failed, NEW next,
         \/ Writing(c, pc, x, done, failed)
         \/ RetriedUpdate(c, pc, x, done, failed)
         \/ ReadHistory(c, pc, x, next, failed)
  PROVE  Apart(c)
<1>1. (UNCHANGED storeFaults \/ StoreFault) /\ \E t : Become(c, t)
  <2>1. CASE \E f : Writing(c, pc, x, done, f)
    BY <2>1, Zenon DEF Writing, UpdateOk, UpdateFails
  <2>2. CASE ReadHistory(c, pc, x, next, failed)
    BY <2>2, Zenon DEF ReadHistory, ReadOk, ReadFails
  <2> QED BY <2>1, <2>2, Zenon DEF RetriedUpdate
<1> QED BY <1>1, BecomeApart

(* Every step of an operation that only adds.                              *)
LEMMA StepApart ==
  ASSUME TypeOK, LogInv, NEW c \in Client, Step(c)
  PROVE  Apart(c)
<1> DEFINE s == run[c]
<1>1. CASE ReadLast(c) \/ ReadTarget(c) \/ CreateRevision(c)
  <2>1. CASE ReadLast(c)
    BY <2>1, BecomeApart DEF ReadLast, ReadOk, ReadFails
  <2>2. CASE ReadTarget(c)
    BY <2>2, BecomeApart DEF ReadTarget, ReadOk, ReadFails
  <2>3. CASE CreateRevision(c)
    BY <2>3, BecomeApart DEF CreateRevision, CreateOk, CreateFails
  <2> QED BY <1>1, <2>1, <2>2, <2>3
<1>2. CASE ApplyCRDs(c) \/ TakeSnapshot(c) \/ ChooseForced(c)
  <2>1. UNCHANGED storeFaults /\ \E t : Become(c, t)
    <3>1. CASE ApplyCRDs(c)
      BY <3>1, Zenon DEF ApplyCRDs
    <3>2. CASE TakeSnapshot(c)
      BY <3>2, Zenon DEF TakeSnapshot
    <3>3. CASE ChooseForced(c)
      BY <3>3, Zenon DEF ChooseForced
    <3> QED BY <1>2, <3>1, <3>2, <3>3
  <2> QED BY <2>1, BecomeApart
<1>3. CASE PreHooks(c) \/ WaitForJobs(c) \/ WaitForReady(c) \/ PostHooks(c)
  <2>1. \E pc, done, failed : KubeCall(c, pc, done, failed)
    BY <1>3, Zenon DEF PreHooks, WaitForJobs, WaitForReady, PostHooks
  <2> QED BY <2>1, KubeApart
<1>4. CASE PreDelete(c) \/ PruneRemoved(c) \/ CleanUp(c) \/ UndoDelete(c)
  <2>1. \E pc, done, failed : Deleting(c, pc, done, failed)
    BY <1>4, Zenon DEF PreDelete, PruneRemoved, CleanUp, UndoDelete
  <2> QED BY <2>1, KubeApart
<1>5. CASE ApplyRelease(c) \/ ReapplyPrevious(c) \/ UndoApply(c)
  <2>1. \E pc, ch, done, failed : Applying(c, pc, ch, done, failed)
    BY <1>5, Zenon DEF ApplyRelease, ReapplyPrevious, UndoApply
  <2> QED BY <2>1, KubeApart
<1>6. CASE MarkFailed(c) \/ UndoMarkFailed(c) \/ UndoRestorePrevious(c)
  <2>1. \E pc, x, done, failed : Writing(c, pc, x, done, failed)
    BY <1>6, Zenon DEF MarkFailed, UndoMarkFailed, UndoRestorePrevious
  <2> QED BY <2>1, StoreApart
<1>7. CASE MarkDeployed(c)
  <2>1. \E pc, x, done, failed : RetriedUpdate(c, pc, x, done, failed)
    BY <1>7, Zenon DEF MarkDeployed
  <2> QED BY <2>1, StoreApart
<1>8. CASE ReadHistoryToSupersede(c)
  <2>1. \E pc, x, next, failed : ReadHistory(c, pc, x, next, failed)
    BY <1>8, Zenon DEF ReadHistoryToSupersede
  <2> QED BY <2>1, StoreApart
<1>9. CASE Supersede(c)
  <2>1. CASE Become(c, AfterSupersede(s)) /\ UNCHANGED world
    BY <2>1, BecomeApart DEF world
  <2>2. CASE \E pc, x, done, failed : RetriedUpdate(c, pc, x, done, failed)
    BY <2>2, StoreApart
  <2> QED BY <1>9, <2>1, <2>2, Zenon DEF Supersede
<1>10. ~UninstallStep(c) /\ ~ReadHistoryToPrune(c) /\ ~PruneHistory(c)
  <2>1. s.pc \notin Removing
    BY DEF LogInv, OnlyAdding
  <2> QED BY <2>1, NoUninstall
          DEF ReadHistoryToPrune, PruneHistory, ReadHistory, Dropping, At, Removing
<1> QED BY <1>1, <1>2, <1>3, <1>4, <1>5, <1>6, <1>7, <1>8, <1>9, <1>10
        DEF Step, ReleaseStep, RecoveryStep

-----------------------------------------------------------------------------
(* Create is where a pending record comes from; its author goes on to work *)
(* on it, unless the store failed.                                         *)
LEMMA CreateOwns ==
  ASSUME TypeOK, LogInv, NEW c \in Client, CreateRevision(c)
  PROVE  \/ UNCHANGED store
         \/ ~StoreReliable'
         \/ \A r : PendingAt(r)' => PendingAt(r) \/ Stays([rel |-> [rev |-> r]], run'[c])
<1> DEFINE s == run[c]
<1>1. s \in RunState /\ s.rel \in Release /\ s.rel.rev \in Rev
  BY AtWork, WorkingHolds DEF CreateRevision, At, TypeOK
<1>2. CASE CreateOk(s.rel) /\ Become(c, To(s, "pre"))
  <2>1. run'[c] = To(s, "pre")
    BY <1>2 DEF Become, TypeOK
  <2>2. To(s, "pre").pc = "pre" /\ To(s, "pre").rel = s.rel
    BY <1>1, ToType DEF PC
  <2>3. Stored' = Stored \cup {s.rel.rev}
    BY <1>1, <1>2, PutAdds DEF CreateOk, TypeOK
  <2>4. \A r \in Rev : r # s.rel.rev => store'[r] = store[r]
    BY <1>1, <1>2 DEF CreateOk, Put, TypeOK, StoreTypeOK
  <2>5. \A r : PendingAt(r)' => PendingAt(r) \/ r = s.rel.rev
    BY <2>3, <2>4 DEF PendingAt, Stored
  <2> QED BY <2>1, <2>2, <2>5 DEF Stays, Open
<1>3. CASE CreateFails(s.rel)
  BY <1>3, StoreFaultsAssumption
     DEF CreateFails, StoreFault, StoreReliable, TypeOK, StoreTypeOK
<1> QED BY <1>2, <1>3 DEF CreateRevision

(* Every step of operations that only add keeps every pending record open. *)
LEMMA NextPending ==
  ASSUME GrowingOnly, TypeOK, LogInv, PendingIsOpen, [Next]_vars
  PROVE  PendingIsOpen'
<1>1. CASE UNCHANGED vars
  BY <1>1 DEF vars, PendingIsOpen, PendingAt, StoreReliable, Stored
<1>2. ASSUME NEW c \in Client, Start(c) PROVE PendingIsOpen'
  <2>1. UNCHANGED store /\ UNCHANGED storeFaults /\ UNCHANGED crashes /\ run[c].pc = "idle"
    BY <1>2 DEF Start, world, At
  <2>2. \A d \in Client \ {c} : run'[d] = run[d]
    BY <1>2 DEF Start, TypeOK
  <2>3. Apart(c) /\ Faithful(c)
    BY <2>1, <2>2 DEF Apart, Faithful, StoreReliable, Open
  <2> QED BY <2>1, <2>3, ApartKeeps DEF PendingAt, Stored
<1>3. ASSUME NEW c \in Client, Step(c) PROVE PendingIsOpen'
  <2>1. Apart(c)
    BY <1>3, StepApart
  <2>2. Faithful(c)
    BY <1>3, OpenFaithful DEF Faithful
  <2>3. CASE UNCHANGED store \/ StoreStep
    <3>1. \A r : PendingAt(r)' => PendingAt(r)
      BY <2>3, SettlingAddsNone DEF StoreStep
    <3> QED BY <2>1, <2>2, <3>1, ApartKeeps
  <2>4. CASE CreateRevision(c)
    <3>1. CASE UNCHANGED store
      BY <2>3, <3>1
    <3>2. CASE ~StoreReliable'
      BY <3>2 DEF PendingIsOpen
    <3> QED BY <2>1, <2>2, <2>4, <3>1, <3>2, CreateOwns, ApartKeeps
  <2> QED BY <1>3, <2>3, <2>4, NoUninstall, ReadLastLog, ReadTargetLog, DeployingLog,
             SettlingLog, RecoveryLog DEF Step, ReleaseStep
<1>4. ASSUME NEW c \in Client, Crash(c) PROVE PendingIsOpen'
  <2>1. crashes' # 0
    BY <1>4, OpsAssumption DEF Crash, TypeOK
  <2> QED BY <2>1 DEF PendingIsOpen
<1> QED BY <1>1, <1>2, <1>3, <1>4 DEF Next, Rest

(* Every failing path of an operation ends in markFailed, and every path   *)
(* that does not in the final status write: as long as the store answers   *)
(* and nobody crashes, a pending record is one an operation works on.      *)
THEOREM PendingHasOwner ==
  ASSUME GrowingOnly
  PROVE  Spec => []PendingIsOwned
<1>1. Init => TypeOK /\ LogInv /\ PendingIsOpen
  <2>1. Init => PendingIsOpen
    BY DEF Init, StoreInit, PendingIsOpen, Stored
  <2> QED BY <2>1, InitType, InitLog
<1>2. TypeOK /\ LogInv /\ PendingIsOpen /\ [Next]_vars => (TypeOK /\ LogInv /\ PendingIsOpen)'
  BY GrowingOnly, NextType, NextLog, NextPending
<1>3. TypeOK /\ LogInv /\ PendingIsOpen => PendingIsOwned
  <2> SUFFICES ASSUME TypeOK, LogInv, PendingIsOpen, StoreReliable, crashes = 0,
                      NEW r \in Stored, store[r].status \in Pending
               PROVE  \E c \in Client : Owning(c) /\ run[c].rel.rev = r
    BY DEF PendingIsOwned
  <2>1. PICK c \in Client : run[c].pc \in Open /\ run[c].rel.rev = r
    BY DEF PendingIsOpen, PendingAt
  <2>2. run[c].req.kind \in {"install", "upgrade", "rollback"}
    <3>1. run[c].req \in Request
      BY <2>1, OpenIsBusy, BusyHolds, WorkingHolds
    <3>2. run[c].req.kind # "uninstall"
      BY <2>1 DEF LogInv, OnlyAdding, Open
    <3> QED BY <3>1, <3>2 DEF Request, Kind
  <2> QED BY <2>1, <2>2 DEF Owning, Kinds, At, Open
<1> QED BY <1>1, <1>2, <1>3, PTL DEF Spec

-----------------------------------------------------------------------------
(* The refinement.                                                         *)

(* The initial store is the empty log.                                     *)
LEMMA InitIsEmptyLog == Init => Log!LogInit
BY DEF Init, StoreInit, Log!LogInit, Log!Rev, Log!NoRecord, Rev, NoRecord

(* A settled entry is a step of the log.                                   *)
LEMMA SettlingIsSettle == Settling => Log!Settle
<1> SUFFICES ASSUME Settling PROVE Log!Settle
  OBVIOUS
<1>1. PICK x \in Release : Matches(x) /\ x.status \in Status \ Pending /\ Put(x)
  BY DEF Settling
<1>2. x.rev \in Log!Written
  BY <1>1 DEF Matches, Stored, Log!Written, Log!Rev, Log!NoRecord, Rev, NoRecord
<1>3. x.status \in Log!Status \ Log!Pending
  BY <1>1 DEF Status, Pending, Log!Status, Log!Pending
<1>4. store' = [store EXCEPT ![x.rev] = [chart |-> store[x.rev].chart, status |-> x.status]]
  BY <1>1 DEF Put, Matches
<1> QED BY <1>2, <1>3, <1>4 DEF Log!Settle

(* A claimed revision is an append to the log.                             *)
LEMMA AppendingIsAppend ==
  ASSUME NoHoles, Appending
  PROVE  Log!Append1
<1>1. PICK x \in Release : /\ x.status \in Pending /\ x.rev \notin Stored
                           /\ \A r \in Rev : r < x.rev => r \in Stored
                           /\ Put(x)
  BY DEF Appending
<1>2. x.rev \in Rev /\ x.chart \in Chart
  BY <1>1 DEF Release
<1>3. \A r \in Rev : r < x.rev <=> r \in Stored
  <2> TAKE r \in Rev
  <2>1. r \in Stored => ~(x.rev < r)
    BY <1>1, <1>2 DEF NoHoles
  <2>2. r \in Stored => r # x.rev
    BY <1>1
  <2>3. r \in Nat /\ x.rev \in Nat
    BY <1>2, MaxRevAssumption DEF Rev
  <2> QED BY <1>1, <2>1, <2>2, <2>3
<1>4. Log!Written = Stored
  BY DEF Stored, Log!Written, Log!Rev, Log!NoRecord, Rev, NoRecord
<1>5. x.rev \in Log!Rev /\ x.status \in Log!Pending
      /\ \A r \in Log!Rev : r < x.rev <=> r \in Log!Written
  BY <1>1, <1>2, <1>3, <1>4 DEF Log!Rev, Rev, Log!Pending, Pending
<1>6. store' = [store EXCEPT ![x.rev] = [chart |-> x.chart, status |-> x.status]]
  BY <1>1 DEF Put
<1> QED BY <1>2, <1>5, <1>6 DEF Log!Append1

(* The store of the operations implements an append-only log: a new        *)
(* revision is the next number and is born pending (storage.Create), every *)
(* other write settles one that exists and keeps its manifest              *)
(* (storage.Update), whichever client makes it and from whatever stale     *)
(* copy.                                                                   *)
THEOREM HistoryImplementsLog ==
  ASSUME GrowingOnly
  PROVE  Spec => HistoryIsALog
<1>1. Init => Log!LogInit
  BY InitIsEmptyLog
<1>2. TypeOK /\ LogInv /\ [Next]_vars => [Log!Append1 \/ Log!Settle]_store
  <2> SUFFICES ASSUME TypeOK, LogInv, [Next]_vars
               PROVE  [Log!Append1 \/ Log!Settle]_store
    OBVIOUS
  <2>1. UNCHANGED store \/ Settling \/ Appending
    BY GrowingOnly, NextLog
  <2> QED BY <2>1, SettlingIsSettle, AppendingIsAppend DEF LogInv
<1>3. Spec => []TypeOK
  BY TypeCorrect
<1>4. Spec => []LogInv
  BY MemoryMatchesHistory
<1> QED BY <1>1, <1>2, <1>3, <1>4, PTL DEF Spec, HistoryIsALog, Log!LogSpec
=============================================================================
