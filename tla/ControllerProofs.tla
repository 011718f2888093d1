-------------------------- MODULE ControllerProofs --------------------------
(***************************************************************************)
(* At most one replica of the controller leads, and what the leader takes  *)
(* for processed is deployed, for every number of replicas and objects,    *)
(* and without a bound on edits, drifts, failures and outages.             *)
(*                                                                         *)
(* A leader is named by the lease and has not been late for longer than    *)
(* RenewDeadline; whoever takes the lease over waits until it has been     *)
(* given back or LeaseDuration has passed, which is longer.  So one        *)
(* replica at most remembers anything, and a version it remembers is not   *)
(* written again: a version tells the spec.                                *)
(***************************************************************************)
EXTENDS Controller, TLAPS, FiniteSetTheorems, FunctionTheorems, NaturalsInduction, WellFoundedInduction

Points == {"standby", "idle", "items", "upgrade", "get", "put", "dying"}

LeaseInv ==
    /\ pc \in [Replica -> Points] /\ age \in Nat
    /\ \A p \in Replica : Leads(p) => holder = p /\ age <= RenewDeadline

USE ControllerAssumption

(* Nobody leads before the first replica has taken the lease.              *)
LEMMA InitLease == ControllerInit => LeaseInv
BY DEF ControllerInit, LeaseInv, Points, Leads

(* A step within the reconcile loop leaves the lease alone, and a replica  *)
(* that did not lead before does not lead after it.                        *)
LEMMA LoopLease ==
  ASSUME LeaseInv, NEW p \in Replica, UNCHANGED clock, pc' \in [Replica -> Points],
         \A q \in Replica : q # p => pc'[q] = pc[q], Leads(p)' => Leads(p)
  PROVE  LeaseInv'
BY DEF LeaseInv, Leads, clock

(* Every step keeps the leader and the lease together.                     *)
LEMMA StepLease == LeaseInv /\ [ControllerNext]_cvars => LeaseInv'
<1>. SUFFICES ASSUME LeaseInv, [ControllerNext]_cvars
              PROVE  LeaseInv'
  OBVIOUS
<1>1. ASSUME NEW p \in Replica, Acquire(p)
      PROVE  LeaseInv'
  <2>1. /\ holder = NoReplica \/ age >= LeaseDuration
        /\ holder' = p /\ age' = 0 /\ pc' = [pc EXCEPT ![p] = "idle"]
    BY <1>1 DEF Acquire
  <2>2. \A q \in Replica : ~Leads(q)
    BY <2>1 DEF LeaseInv, LeaseDuration, RenewDeadline
  <2>3. \A q \in Replica : q # p => ~Leads(q)'
    BY <2>1, <2>2 DEF LeaseInv, Leads
  <2>. QED
    BY <2>1, <2>3 DEF LeaseInv, Points, RenewDeadline
<1>2. ASSUME NEW p \in Replica, Renew(p)
      PROVE  LeaseInv'
  BY <1>2 DEF Renew, LeaseInv, Leads, RenewDeadline
<1>3. CASE Tick
  <2>1. /\ UNCHANGED <<pc, holder>> /\ age' = age + 1
        /\ Leads(holder) => age < RenewDeadline
    BY <1>3 DEF Tick
  <2>. QED
    BY <2>1 DEF LeaseInv, Leads, RenewDeadline
<1>4. ASSUME NEW p \in Replica, Stop(p)
      PROVE  LeaseInv'
  <2>1. /\ Leads(p) /\ holder = p /\ age' \in {age, 0}
        /\ \E s \in {"dying", "standby"} : pc' = [pc EXCEPT ![p] = s]
    BY <1>4 DEF Stop
  <2>2. \A q \in Replica : q # p => ~Leads(q)
    BY <2>1 DEF LeaseInv
  <2>3. pc' \in [Replica -> Points] /\ \A q \in Replica : ~Leads(q)'
    BY <2>1, <2>2 DEF LeaseInv, Leads, Points
  <2>. QED
    BY <2>1, <2>3 DEF LeaseInv
<1>5. ASSUME NEW p \in Replica, Exit(p) \/ EndPass(p)
      PROVE  LeaseInv'
  <2>1. /\ UNCHANGED clock
        /\ \/ pc[p] = "items" /\ pc' = [pc EXCEPT ![p] = "idle"]
           \/ pc' = [pc EXCEPT ![p] = "standby"]
    BY <1>5 DEF Exit, EndPass
  <2>. QED
    BY <2>1, LoopLease DEF LeaseInv, Leads, Points
<1>6. ASSUME NEW p \in Replica, List(p)
      PROVE  LeaseInv'
  <2>1. /\ UNCHANGED clock /\ pc[p] = "idle"
        /\ pc' = [pc EXCEPT ![p] = "items"] \/ UNCHANGED pc
    BY <1>6 DEF List
  <2>. QED
    BY <2>1, LoopLease DEF LeaseInv, Leads, Points
<1>7. ASSUME NEW p \in Replica, NEW i \in view[p], Skip(p, i) \/ Reconcile(p, i)
      PROVE  LeaseInv'
  <2>1. /\ UNCHANGED clock /\ pc[p] = "items"
        /\ UNCHANGED pc \/ \E s \in {"get", "upgrade"} : pc' = [pc EXCEPT ![p] = s]
    BY <1>7 DEF Skip, Reconcile, ToStatus
  <2>. QED
    BY <2>1, LoopLease DEF LeaseInv, Leads, Points
<1>8. ASSUME NEW p \in Replica, Upgrade(p) \/ ClientFails(p)
      PROVE  LeaseInv'
  <2>1. /\ UNCHANGED clock /\ pc[p] = "upgrade"
        /\ \E s \in {"get", "items"} : pc' = [pc EXCEPT ![p] = s]
    BY <1>8 DEF Upgrade, ClientFails, ToStatus, BackToItems
  <2>. QED
    BY <2>1, LoopLease DEF LeaseInv, Leads, Points
<1>9. ASSUME NEW p \in Replica, StatusGet(p) \/ StatusPut(p)
      PROVE  LeaseInv'
  <2>1. /\ UNCHANGED clock /\ pc[p] \in {"get", "put"}
        /\ \E s \in {"get", "put", "items"} : pc' = [pc EXCEPT ![p] = s]
    BY <1>9 DEF StatusGet, StatusPut, BackToItems
  <2>. QED
    BY <2>1, LoopLease DEF LeaseInv, Leads, Points
<1>10. CASE Users \/ UNCHANGED cvars
  <2>1. UNCHANGED <<pc, holder, age>>
    BY <1>10 DEF Users, Edit, Drift, cvars, clock
  <2>. QED
    BY <2>1 DEF LeaseInv, Leads
<1>. QED
  BY <1>1, <1>2, <1>3, <1>4, <1>5, <1>6, <1>7, <1>8, <1>9, <1>10
     DEF ControllerNext, Progress

(* runWithLeaderElection: whatever the replicas do and however long calls  *)
(* take, two of them never reconcile at a time.                            *)
THEOREM OneLeader == ControllerSpec => []LeadersExclusive
<1>1. LeaseInv => LeadersExclusive
  BY DEF LeaseInv, LeadersExclusive
<1>. QED
  BY InitLease, StepLease, <1>1, PTL DEF ControllerSpec

-----------------------------------------------------------------------------
(* What a replica remembers of the objects, and that it may trust it.  The *)
(* API server never runs out of resource versions.                         *)
VersionsNeverRunOut ==
    /\ IsFiniteSet(Replica) /\ IsFiniteSet(CR)
    /\ \A S \in SUBSET Version : IsFiniteSet(S) => Version \ S # {}

Listed == [name : CR, version : Version, spec : Wanted]
Phases == {"none", "Failed", "Deployed"}
Known == Version \cup {NoVersion}

ValueInv ==
    /\ object \in [CR -> [version : Known, spec : Wanted \cup {Nothing}, phase : Phases]]
    /\ rel \in [CR -> Wanted \cup {Nothing, Torn}] /\ drifted \in [CR -> BOOLEAN]
    /\ pc \in [Replica -> Points] /\ phase \in [Replica -> Phases]
    /\ view \in [Replica -> SUBSET Listed] /\ item \in [Replica -> Listed \cup {Absent}]
    /\ fresh \in [Replica -> Known] /\ processed \in [Replica -> [CR -> Known]]
    /\ holder \in Replica \cup {NoReplica} /\ age \in 0 .. LeaseDuration + 1
    /\ \A c \in CR : object[c].spec # Nothing => object[c].version # NoVersion
    /\ \A p \in Replica : IsFiniteSet(view[p])

(* What a replica has in hand fits where it is.                            *)
InHand(p) ==
    /\ pc[p] \in {"upgrade", "get", "put", "dying"} <=> item[p] # Absent
    /\ pc[p] \in {"upgrade", "dying"} => item[p].spec \in Good
    /\ pc[p] \in {"get", "put"} <=> phase[p] # "none"
    /\ view[p] # {} => pc[p] \in {"items", "upgrade", "get", "put"}

(* Nobody leads, and nobody starts to, while a replica is on its way out;  *)
(* who does not lead remembers nothing.                                    *)
Works(p) == Leads(p) \/ Dying(p)
AloneInv ==
    /\ \A p, q \in Replica : Works(p) /\ Works(q) => p = q
    /\ \A p \in Replica : ~Leads(p) => \A c \in CR : processed[p][c] = NoVersion

(* A version tells the spec: of what was listed, of what is at work, and   *)
(* of what was processed.                                                  *)
Agrees(i) == object[i.name].version = i.version => object[i.name].spec = i.spec
MemoryInv ==
    \A p \in Replica :
        /\ item[p] # Absent => Agrees(item[p])
        /\ \A i \in view[p] :
             /\ Agrees(i)
             /\ item[p] # Absent => item[p].name # i.name
             /\ \A j \in view[p] : i.name = j.name => i = j
             /\ processed[p][i.name] = i.version => rel[i.name] = i.spec
        /\ \A c \in CR :
             object[c].spec # Nothing /\ processed[p][c] = object[c].version => rel[c] = object[c].spec

ReconcileInv == LeaseInv /\ ValueInv /\ (\A p \in Replica : InHand(p)) /\ AloneInv /\ MemoryInv

LEMMA ListedIsThere ==
  ASSUME NEW i \in Listed
  PROVE  /\ i.name \in CR /\ i.version \in Version /\ i.spec \in Wanted
         /\ i # Absent /\ i.version # NoVersion
<1>1. i.name \in CR /\ i.version \in Version /\ i.spec \in Wanted
  BY DEF Listed
<1>2. i.version # Absent.version
  BY <1>1 DEF Absent, NoVersion
<1>. QED
  BY <1>1, <1>2 DEF Absent, NoVersion

(* What a function of finite domain takes values in is finite.             *)
LEMMA ValuesFinite ==
  ASSUME NEW S, IsFiniteSet(S), NEW f, NEW T, \A t \in T : \E x \in S : t = f[x]
  PROVE  IsFiniteSet(T)
<1>. DEFINE W == {f[x] : x \in S}
            g == [x \in S |-> f[x]]
<1>1. g \in Surjection(S, W)
  BY DEF Surjection
<1>2. IsFiniteSet(W)
  BY <1>1, FS_Surjection
<1>. QED
  BY <1>2, FS_Subset

(* A set of naturals that is not empty has a least element.                *)
LEMMA LeastNatural ==
  ASSUME NEW S, S \subseteq Nat, S # {}
  PROVE  \E v \in S : \A w \in S : v <= w
<1>1. IsWellFoundedOn(OpToRel(<, Nat), Nat)
  BY NatLessThanWellFounded
<1>2. PICK v \in S : \A w \in S : ~(<<w, v>> \in OpToRel(<, Nat))
  BY <1>1, WFMin
<1>3. ASSUME NEW w \in S, w < v
      PROVE  FALSE
  <2>1. <<w, v>> \in Nat \X Nat /\ <<w, v>>[1] < <<w, v>>[2]
    BY <1>3
  <2>2. <<w, v>> \in OpToRel(<, Nat)
    BY <2>1, Zenon DEF OpToRel
  <2>. QED
    BY <1>2, <2>2
<1>. QED
  BY <1>3

(* setStatus and the users write versions nobody remembers.                *)
LEMMA VersionIsNew ==
  ASSUME VersionsNeverRunOut, ValueInv
  PROVE  NewVersion \in Version /\ NewVersion \notin InUse
<1>. DEFINE Objects == {object[c].version : c \in CR}
            Fresh == {fresh[p] : p \in Replica}
            Processed == {processed[p][c] : p \in Replica, c \in CR}
            Items == {item[p].version : p \in Replica}
            Views == {view[p] : p \in Replica}
            InViews == {i.version : i \in UNION Views}
<1>1. IsFiniteSet(Objects)
  <2>. DEFINE f == [c \in CR |-> object[c].version]
  <2>1. \A t \in Objects : \E c \in CR : t = f[c]
    OBVIOUS
  <2>. HIDE DEF f, Objects
  <2>. QED
    BY <2>1, ValuesFinite DEF VersionsNeverRunOut
<1>2. IsFiniteSet(Fresh)
  <2>1. \A t \in Fresh : \E p \in Replica : t = fresh[p]
    OBVIOUS
  <2>. HIDE DEF Fresh
  <2>. QED
    BY <2>1, ValuesFinite DEF VersionsNeverRunOut
<1>3. IsFiniteSet(Processed)
  <2>. DEFINE Row(p) == {processed[p][c] : c \in CR}
              Rows == {Row(p) : p \in Replica}
  <2>1. ASSUME NEW p \in Replica
        PROVE  IsFiniteSet(Row(p))
    <3>. DEFINE f == [c \in CR |-> processed[p][c]]
    <3>1. \A t \in Row(p) : \E c \in CR : t = f[c]
      OBVIOUS
    <3>. HIDE DEF f, Row
    <3>. QED
      BY <3>1, ValuesFinite DEF VersionsNeverRunOut
  <2>2. IsFiniteSet(Rows)
    <3>. DEFINE g == [p \in Replica |-> Row(p)]
    <3>. HIDE DEF Row
    <3>1. \A t \in Rows : \E p \in Replica : t = g[p]
      OBVIOUS
    <3>. HIDE DEF g, Rows
    <3>. QED
      BY <3>1, ValuesFinite DEF VersionsNeverRunOut
  <2>3. IsFiniteSet(UNION Rows)
    <3>1. \A r \in Rows : IsFiniteSet(r)
      BY <2>1
    <3>. HIDE DEF Rows
    <3>. QED
      BY <2>2, <3>1, FS_UNION
  <2>4. Processed \subseteq UNION Rows
    <3>1. ASSUME NEW t \in Processed
          PROVE  t \in UNION Rows
      <4>1. PICK p \in Replica, c \in CR : t = processed[p][c]
        OBVIOUS
      <4>2. t \in Row(p)
        BY <4>1
      <4>. HIDE DEF Row
      <4>. QED
        BY <4>2
    <3>. HIDE DEF Processed, Rows
    <3>. QED
      BY <3>1
  <2>. HIDE DEF Rows, Processed
  <2>. QED
    BY <2>3, <2>4, FS_Subset
<1>4. IsFiniteSet(Items)
  <2>. DEFINE f == [p \in Replica |-> item[p].version]
  <2>1. \A t \in Items : \E p \in Replica : t = f[p]
    OBVIOUS
  <2>. HIDE DEF f, Items
  <2>. QED
    BY <2>1, ValuesFinite DEF VersionsNeverRunOut
<1>5. IsFiniteSet(InViews)
  <2>1. IsFiniteSet(Views)
    <3>1. \A t \in Views : \E p \in Replica : t = view[p]
      OBVIOUS
    <3>. HIDE DEF Views
    <3>. QED
      BY <3>1, ValuesFinite DEF VersionsNeverRunOut
  <2>2. IsFiniteSet(UNION Views)
    <3>1. \A V \in Views : IsFiniteSet(V)
      BY DEF ValueInv
    <3>. HIDE DEF Views
    <3>. QED
      BY <2>1, <3>1, FS_UNION
  <2>. DEFINE f == [i \in UNION Views |-> i.version]
  <2>3. \A t \in InViews : \E i \in UNION Views : t = f[i]
    OBVIOUS
  <2>. HIDE DEF f, InViews, Views
  <2>. QED
    BY <2>2, <2>3, ValuesFinite
<1>6. IsFiniteSet(InUse)
  <2>1. InUse = Objects \cup Fresh \cup Processed \cup Items \cup InViews
    BY DEF InUse
  <2>. HIDE DEF Objects, Fresh, Processed, Items, InViews
  <2>. QED
    BY <1>1, <1>2, <1>3, <1>4, <1>5, <2>1, FS_Union
<1>7. Version \ InUse # {}
  <2>1. IsFiniteSet(InUse \cap Version)
    BY <1>6, FS_Subset
  <2>. QED
    BY <2>1 DEF VersionsNeverRunOut
<1>8. \E v \in Version \ InUse : \A w \in Version \ InUse : v <= w
  BY <1>7, LeastNatural
<1>. QED
  BY <1>8 DEF NewVersion

(* At first nobody remembers anything.                                     *)
LEMMA InitReconcile == VersionsNeverRunOut /\ ControllerInit => ReconcileInv
<1>. SUFFICES ASSUME ControllerInit
              PROVE  ReconcileInv
  OBVIOUS
<1>1. LeaseInv
  BY InitLease
<1>2. ValueInv
  BY FS_EmptySet DEF ControllerInit, ValueInv, Points, Phases, Known, Absent, NoVersion, LeaseDuration
<1>3. \A p \in Replica : InHand(p)
  BY DEF ControllerInit, InHand
<1>4. AloneInv
  BY DEF ControllerInit, AloneInv, Works, Leads, Dying
<1>5. MemoryInv
  BY DEF ControllerInit, MemoryInv, Agrees, Absent
<1>. QED
  BY <1>1, <1>2, <1>3, <1>4, <1>5 DEF ReconcileInv

(* Every value stays of its type.                                          *)
LEMMA StepValues ==
  ASSUME VersionsNeverRunOut, ReconcileInv, [ControllerNext]_cvars
  PROVE  ValueInv'
<1>. USE DEF ReconcileInv, ValueInv, Points, Phases, Known
<1>1. ASSUME NEW p \in Replica, Acquire(p) \/ Renew(p)
      PROVE  ValueInv'
  BY <1>1 DEF Acquire, Renew, LeaseDuration, work
<1>2. CASE Tick
  BY <1>2 DEF Tick, LeaseDuration, work
<1>3. ASSUME NEW p \in Replica, Stop(p)
      PROVE  ValueInv'
  BY <1>3, FS_EmptySet DEF Stop, LeaseDuration
<1>4. ASSUME NEW p \in Replica, Exit(p)
      PROVE  ValueInv'
  <2>1. item[p] \in Listed /\ item[p].name \in CR /\ item[p].spec \in Wanted
    BY <1>4, ListedIsThere DEF Exit, Dying, InHand
  <2>2. rel' \in [CR -> Wanted \cup {Nothing, Torn}]
    BY <1>4, <2>1 DEF Exit
  <2>. QED
    BY <1>4, <2>2 DEF Exit, clock
<1>5. ASSUME NEW p \in Replica, List(p)
      PROVE  ValueInv'
  <2>. DEFINE There == {c \in CR : object[c].spec # Nothing}
              Seen == {[name |-> c, version |-> object[c].version, spec |-> object[c].spec] : c \in There}
  <2>1. Seen \in SUBSET Listed
    BY DEF Listed
  <2>2. IsFiniteSet(Seen)
    <3>. DEFINE f == [c \in There |-> [name |-> c, version |-> object[c].version, spec |-> object[c].spec]]
    <3>1. IsFiniteSet(There)
      BY FS_Subset DEF VersionsNeverRunOut
    <3>2. \A t \in Seen : \E c \in There : t = f[c]
      OBVIOUS
    <3>. HIDE DEF There, f, Seen
    <3>. QED
      BY <3>1, <3>2, ValuesFinite
  <2>3. view' = [view EXCEPT ![p] = Seen] \/ UNCHANGED view
    BY <1>5 DEF List
  <2>4. processed' \in [Replica -> [CR -> Known]]
    <3>1. [c \in CR |-> IF object[c].spec = Nothing THEN NoVersion ELSE processed[p][c]] \in [CR -> Known]
      OBVIOUS
    <3>. QED
      BY <1>5, <3>1 DEF List
  <2>5. pc' \in [Replica -> Points] /\ UNCHANGED <<object, rel, drifted, item, phase, fresh, tries, clock>>
    BY <1>5 DEF List
  <2>. HIDE DEF Seen
  <2>. QED
    BY <2>1, <2>2, <2>3, <2>4, <2>5 DEF clock
<1>6. ASSUME NEW p \in Replica, NEW i \in view[p], Skip(p, i) \/ Reconcile(p, i)
      PROVE  ValueInv'
  <2>1. IsFiniteSet(view[p] \ {i}) /\ i \in Listed
    BY FS_RemoveElement
  <2>2. /\ view' = [view EXCEPT ![p] = @ \ {i}]
        /\ item' = [item EXCEPT ![p] = i] \/ UNCHANGED item
        /\ pc' \in [Replica -> Points] /\ phase' \in [Replica -> Phases]
        /\ UNCHANGED <<object, rel, drifted, fresh, tries, processed, clock>>
    <3>1. CASE Skip(p, i)
      BY <3>1 DEF Skip
    <3>2. CASE Reconcile(p, i)
      <4>1. /\ view' = [view EXCEPT ![p] = @ \ {i}] /\ item' = [item EXCEPT ![p] = i]
            /\ UNCHANGED <<object, rel, drifted, fresh, tries, processed, clock>>
        BY <3>2 DEF Reconcile
      <4>2. \/ pc' = [pc EXCEPT ![p] = "get"] /\ phase' = [phase EXCEPT ![p] = "Failed"]
            \/ pc' = [pc EXCEPT ![p] = "upgrade"] /\ UNCHANGED phase
        BY <3>2 DEF Reconcile, ToStatus
      <4>3. pc' \in [Replica -> Points] /\ phase' \in [Replica -> Phases]
        BY <4>2
      <4>. QED
        BY <4>1, <4>3
    <3>. QED
      BY <1>6, <3>1, <3>2
  <2>. QED
    BY <2>1, <2>2 DEF clock
<1>7. ASSUME NEW p \in Replica, Upgrade(p)
      PROVE  ValueInv'
  <2>1. item[p].name \in CR /\ item[p].spec \in Wanted /\ item[p].version \in Version
    BY <1>7, ListedIsThere DEF Upgrade, InHand
  <2>2. rel' \in [CR -> Wanted \cup {Nothing, Torn}] /\ drifted' \in [CR -> BOOLEAN]
    BY <1>7, <2>1 DEF Upgrade
  <2>3. processed' \in [Replica -> [CR -> Known]]
    <3>1. [processed[p] EXCEPT ![item[p].name] = item[p].version] \in [CR -> Known]
      BY <2>1
    <3>2. processed' = [processed EXCEPT ![p] = [processed[p] EXCEPT ![item[p].name] = item[p].version]]
          \/ UNCHANGED processed
      BY <1>7 DEF Upgrade, Remember
    <3>. QED
      BY <3>1, <3>2
  <2>4. pc' \in [Replica -> Points] /\ phase' \in [Replica -> Phases]
    BY <1>7 DEF Upgrade, ToStatus
  <2>. QED
    BY <1>7, <2>2, <2>3, <2>4 DEF Upgrade, clock
<1>8. ASSUME NEW p \in Replica, ClientFails(p)
      PROVE  ValueInv'
  BY <1>8 DEF ClientFails, BackToItems, clock
<1>9. ASSUME NEW p \in Replica, StatusGet(p) \/ EndPass(p)
      PROVE  ValueInv'
  <2>1. item[p] \in Listed => item[p].name \in CR
    BY ListedIsThere
  <2>2. pc[p] = "get" => item[p] \in Listed
    BY DEF InHand
  <2>. QED
    BY <1>9, <2>1, <2>2 DEF StatusGet, EndPass, BackToItems, work, clock
<1>10. ASSUME NEW p \in Replica, StatusPut(p)
       PROVE  ValueInv'
  <2>1. item[p].name \in CR
    BY <1>10, ListedIsThere DEF StatusPut, InHand
  <2>2. NewVersion \in Version
    BY VersionIsNew
  <2>3. /\ object' \in [CR -> [version : Known, spec : Wanted \cup {Nothing}, phase : Phases]]
        /\ \A c \in CR : object'[c].spec # Nothing => object'[c].version # NoVersion
    <3>. DEFINE old == object[item[p].name]
                new == [old EXCEPT !.version = NewVersion, !.phase = phase[p]]
    <3>1. object' = [object EXCEPT ![item[p].name] = new] \/ UNCHANGED object
      <4>1. \/ object' = [object EXCEPT ![item[p].name].version = NewVersion, ![item[p].name].phase = phase[p]]
            \/ UNCHANGED object
        BY <1>10, Zenon DEF StatusPut
      <4>. QED
        BY <2>1, <4>1
    <3>2. old \in [version : Known, spec : Wanted \cup {Nothing}, phase : Phases]
      BY <2>1
    <3>3. new \in [version : Known, spec : Wanted \cup {Nothing}, phase : Phases] /\ new.version = NewVersion
      BY <2>2, <3>2
    <3>. HIDE DEF new
    <3>4. new.version # NoVersion
      BY <2>2, <3>3 DEF NoVersion
    <3>5. object' \in [CR -> [version : Known, spec : Wanted \cup {Nothing}, phase : Phases]]
      BY <2>1, <3>1, <3>3
    <3>6. ASSUME NEW c \in CR, object'[c].spec # Nothing
          PROVE  object'[c].version # NoVersion
      BY <2>1, <3>1, <3>4, <3>6, Zenon
    <3>. QED
      BY <3>5, <3>6
  <2>4. /\ pc' \in [Replica -> Points] /\ item' \in [Replica -> Listed \cup {Absent}]
        /\ phase' \in [Replica -> Phases] /\ fresh' \in [Replica -> Known]
    BY <1>10 DEF StatusPut, BackToItems
  <2>. QED
    BY <1>10, <2>3, <2>4 DEF StatusPut, clock
<1>11. ASSUME NEW c \in CR, NEW s \in Wanted \cup {Nothing}, Edit(c, s)
       PROVE  ValueInv'
  <2>1. NewVersion \in Version
    BY VersionIsNew
  <2>2. Absent \in [version : Known, spec : Wanted \cup {Nothing}, phase : Phases]
    BY DEF Absent
  <2>3. /\ object' \in [CR -> [version : Known, spec : Wanted \cup {Nothing}, phase : Phases]]
        /\ \A d \in CR : object'[d].spec # Nothing => object'[d].version # NoVersion
    BY <1>11, <2>1, <2>2 DEF Edit, NoVersion, Absent
  <2>. QED
    BY <1>11, <2>3 DEF Edit, work, clock
<1>12. ASSUME NEW c \in CR, Drift(c)
       PROVE  ValueInv'
  BY <1>12 DEF Drift, work, clock
<1>13. CASE UNCHANGED cvars
  BY <1>13 DEF cvars
<1>. QED
  BY <1>1, <1>2, <1>3, <1>4, <1>5, <1>6, <1>7, <1>8, <1>9, <1>10, <1>11, <1>12, <1>13
     DEF ControllerNext, Progress, Users

(* What a replica has in hand goes with where it is.                       *)
LEMMA StepInHand ==
  ASSUME ReconcileInv, [ControllerNext]_cvars, NEW q \in Replica
  PROVE  InHand(q)'
<1>. USE DEF InHand
<1>0. InHand(q) /\ ValueInv
  BY DEF ReconcileInv
<1>1. ASSUME NEW p \in Replica, Acquire(p) \/ Renew(p)
      PROVE  InHand(q)'
  BY <1>0, <1>1 DEF Acquire, Renew, work, ValueInv
<1>2. CASE Tick
  BY <1>0, <1>2 DEF Tick, work
<1>3. ASSUME NEW p \in Replica, Stop(p)
      PROVE  InHand(q)'
  BY <1>0, <1>3 DEF Stop, ValueInv
<1>4. ASSUME NEW p \in Replica, Exit(p)
      PROVE  InHand(q)'
  BY <1>0, <1>4 DEF Exit, Dying, ValueInv
<1>5. ASSUME NEW p \in Replica, List(p)
      PROVE  InHand(q)'
  <2>1. /\ pc[p] = "idle" /\ UNCHANGED <<item, phase>>
        /\ \/ pc' = [pc EXCEPT ![p] = "items"] /\ \E V : view' = [view EXCEPT ![p] = V]
           \/ UNCHANGED <<pc, view>>
    BY <1>5 DEF List
  <2>. QED
    BY <1>0, <2>1 DEF ValueInv
<1>6. ASSUME NEW p \in Replica, NEW i \in view[p], Skip(p, i)
      PROVE  InHand(q)'
  BY <1>0, <1>6 DEF Skip, ValueInv
<1>7. ASSUME NEW p \in Replica, NEW i \in view[p], Reconcile(p, i)
      PROVE  InHand(q)'
  <2>1. i \in Listed /\ i # Absent /\ i.spec \in Wanted
    BY ListedIsThere, <1>0 DEF ValueInv
  <2>. QED
    BY <1>0, <1>7, <2>1 DEF Reconcile, ToStatus, ValueInv, Wanted
<1>8. ASSUME NEW p \in Replica, Upgrade(p)
      PROVE  InHand(q)'
  BY <1>0, <1>8 DEF Upgrade, ToStatus, ValueInv
<1>9. ASSUME NEW p \in Replica, ClientFails(p)
      PROVE  InHand(q)'
  BY <1>0, <1>9 DEF ClientFails, BackToItems, ValueInv
<1>10. ASSUME NEW p \in Replica, StatusGet(p) \/ StatusPut(p)
       PROVE  InHand(q)'
  <2>1. /\ pc[p] \in {"get", "put"} /\ UNCHANGED view
        /\ \/ BackToItems(p)
           \/ UNCHANGED <<item, phase>> /\ \E s \in {"get", "put"} : pc' = [pc EXCEPT ![p] = s]
    BY <1>10 DEF StatusGet, StatusPut
  <2>. QED
    BY <1>0, <2>1 DEF BackToItems, ValueInv
<1>11. ASSUME NEW p \in Replica, EndPass(p)
       PROVE  InHand(q)'
  BY <1>0, <1>11 DEF EndPass, work, ValueInv
<1>12. CASE Users \/ UNCHANGED cvars
  <2>1. UNCHANGED <<pc, item, phase, view>>
    BY <1>12 DEF Users, Edit, Drift, cvars, work
  <2>. QED
    BY <1>0, <2>1
<1>. QED
  BY <1>1, <1>2, <1>3, <1>4, <1>5, <1>6, <1>7, <1>8, <1>9, <1>10, <1>11, <1>12
     DEF ControllerNext, Progress

(* Nobody leads beside a replica on its way out, and who does not lead has *)
(* nothing remembered.                                                     *)
LEMMA StepAlone ==
  ASSUME ReconcileInv, [ControllerNext]_cvars, LeaseInv'
  PROVE  AloneInv'
<1>. USE DEF AloneInv, Works, Leads, Dying
<1>0. AloneInv /\ ValueInv /\ LeaseInv
  BY DEF ReconcileInv
<1>1. ASSUME NEW p \in Replica, Acquire(p)
      PROVE  AloneInv'
  <2>1. /\ \A q \in Replica : ~Dying(q)
        /\ pc' = [pc EXCEPT ![p] = "idle"] /\ UNCHANGED processed
    BY <1>1 DEF Acquire
  <2>2. \A q \in Replica : ~Dying(q)'
    BY <1>0, <2>1 DEF ValueInv
  <2>3. \A q, r \in Replica : Works(q)' /\ Works(r)' => q = r
    BY <2>2 DEF LeaseInv
  <2>4. \A q \in Replica : ~Leads(q)' => ~Leads(q)
    BY <1>0, <2>1 DEF ValueInv
  <2>. QED
    BY <1>0, <2>1, <2>3, <2>4
<1>2. ASSUME NEW p \in Replica, Stop(p)
      PROVE  AloneInv'
  <2>1. /\ Leads(p) /\ processed' = [processed EXCEPT ![p] = [c \in CR |-> NoVersion]]
        /\ \E s \in {"dying", "standby"} : pc' = [pc EXCEPT ![p] = s]
    BY <1>2 DEF Stop
  <2>2. \A q \in Replica : q # p => ~Works(q) /\ ~Works(q)'
    BY <1>0, <2>1 DEF ValueInv
  <2>. QED
    BY <1>0, <2>1, <2>2 DEF ValueInv
<1>3. ASSUME NEW p \in Replica, Exit(p)
      PROVE  AloneInv'
  BY <1>0, <1>3 DEF Exit, ValueInv
<1>4. ASSUME NEW p \in Replica, Leads(p), Leads(p)',
             \A q \in Replica : q # p => pc'[q] = pc[q] /\ processed'[q] = processed[q]
      PROVE  AloneInv'
  BY <1>0, <1>4
<1>5. ASSUME NEW p \in Replica, List(p)
      PROVE  AloneInv'
  <2>1. pc[p] = "idle" /\ (pc' = [pc EXCEPT ![p] = "items"] \/ UNCHANGED pc)
    BY <1>5 DEF List
  <2>2. \A q \in Replica : q # p => processed'[q] = processed[q]
    BY <1>0, <1>5 DEF List, ValueInv
  <2>. QED
    BY <1>0, <1>4, <2>1, <2>2 DEF ValueInv
<1>6. ASSUME NEW p \in Replica, NEW i \in view[p], Skip(p, i) \/ Reconcile(p, i)
      PROVE  AloneInv'
  <2>1. /\ pc[p] = "items" /\ UNCHANGED processed
        /\ UNCHANGED pc \/ \E s \in {"get", "upgrade"} : pc' = [pc EXCEPT ![p] = s]
    BY <1>6 DEF Skip, Reconcile, ToStatus
  <2>. QED
    BY <1>0, <1>4, <2>1 DEF ValueInv
<1>7. ASSUME NEW p \in Replica, Upgrade(p)
      PROVE  AloneInv'
  <2>1. /\ pc[p] = "upgrade" /\ pc' = [pc EXCEPT ![p] = "get"]
        /\ UNCHANGED processed
           \/ \E f : processed' = [processed EXCEPT ![p] = f]
    BY <1>7 DEF Upgrade, Remember, ToStatus
  <2>. QED
    BY <1>0, <1>4, <2>1 DEF ValueInv
<1>8. ASSUME NEW p \in Replica, ClientFails(p) \/ StatusGet(p) \/ StatusPut(p) \/ EndPass(p)
      PROVE  AloneInv'
  <2>1. /\ pc[p] \in {"upgrade", "get", "put", "items"} /\ UNCHANGED processed
        /\ \E s \in {"get", "put", "items", "idle"} : pc' = [pc EXCEPT ![p] = s]
    BY <1>8 DEF ClientFails, StatusGet, StatusPut, EndPass, BackToItems
  <2>. QED
    BY <1>0, <1>4, <2>1 DEF ValueInv
<1>9. ASSUME UNCHANGED <<pc, processed>>
      PROVE  AloneInv'
  BY <1>0, <1>9
<1>10. CASE Tick \/ Users \/ UNCHANGED cvars \/ \E p \in Replica : Renew(p)
  BY <1>9, <1>10 DEF Tick, Users, Edit, Drift, cvars, Renew
<1>. QED
  BY <1>1, <1>2, <1>3, <1>5, <1>6, <1>7, <1>8, <1>10 DEF ControllerNext, Progress

(* A pass remembers what it listed as it was listed: the memory of the one *)
(* replica that leads stays right.                                         *)
LEMMA StepMemory ==
  ASSUME VersionsNeverRunOut, ReconcileInv, [ControllerNext]_cvars
  PROVE  MemoryInv'
<1>0. /\ ValueInv /\ AloneInv /\ MemoryInv /\ \A q \in Replica : InHand(q)
      /\ \A q \in Replica : \A i \in view[q] : i \in Listed /\ i.name \in CR /\ i.version # NoVersion
      /\ \A q \in Replica : item[q] # Absent => item[q] \in Listed /\ item[q].name \in CR
                                                /\ item[q].version \in Version
  BY ListedIsThere DEF ReconcileInv, ValueInv
<1>1. ASSUME UNCHANGED <<object, rel>>,
             \A q \in Replica : item'[q] \in {item[q], Absent} /\ view'[q] \subseteq view[q],
             \A q \in Replica : \A c \in CR : processed'[q][c] \in {processed[q][c], NoVersion}
      PROVE  MemoryInv'
  <2>. SUFFICES ASSUME NEW q \in Replica
                PROVE  /\ item'[q] # Absent => Agrees(item[q])'
                       /\ \A i \in view'[q] :
                            /\ Agrees(i)'
                            /\ item'[q] # Absent => item'[q].name # i.name
                            /\ \A j \in view'[q] : i.name = j.name => i = j
                            /\ processed'[q][i.name] = i.version => rel'[i.name] = i.spec
                       /\ \A c \in CR : object'[c].spec # Nothing /\ processed'[q][c] = object'[c].version
                                        => rel'[c] = object'[c].spec
    BY DEF MemoryInv
  <2>1. item'[q] # Absent => item'[q] = item[q]
    BY <1>1
  <2>2. /\ item[q] # Absent => Agrees(item[q])
        /\ \A i \in view[q] :
             /\ Agrees(i)
             /\ item[q] # Absent => item[q].name # i.name
             /\ \A j \in view[q] : i.name = j.name => i = j
             /\ processed[q][i.name] = i.version => rel[i.name] = i.spec
    BY <1>0 DEF MemoryInv
  <2>3. item'[q] # Absent => Agrees(item[q])'
    BY <1>1, <2>1, <2>2 DEF Agrees
  <2>4. ASSUME NEW i \in view'[q]
        PROVE  /\ Agrees(i)'
               /\ item'[q] # Absent => item'[q].name # i.name
               /\ \A j \in view'[q] : i.name = j.name => i = j
               /\ processed'[q][i.name] = i.version => rel'[i.name] = i.spec
    <3>1. i \in view[q] /\ i.name \in CR /\ i.version # NoVersion
      BY <1>0, <1>1
    <3>2. processed'[q][i.name] \in {processed[q][i.name], NoVersion}
      BY <1>1, <3>1
    <3>. QED
      BY <1>1, <2>1, <2>2, <3>1, <3>2 DEF Agrees
  <2>5. ASSUME NEW c \in CR, object'[c].spec # Nothing, processed'[q][c] = object'[c].version
        PROVE  rel'[c] = object'[c].spec
    <3>1. processed'[q][c] \in {processed[q][c], NoVersion}
      BY <1>1
    <3>2. object[c].version # NoVersion /\ processed[q][c] = object[c].version
      BY <1>0, <1>1, <2>5, <3>1 DEF ValueInv
    <3>. QED
      BY <1>0, <1>1, <2>5, <3>2 DEF MemoryInv
  <2>. QED
    BY <2>3, <2>4, <2>5
<1>2. ASSUME UNCHANGED <<object, rel, processed, view, item>>
      PROVE  MemoryInv'
  BY <1>0, <1>2 DEF MemoryInv, Agrees
<1>3. ASSUME NEW p \in Replica, Stop(p)
      PROVE  MemoryInv'
  BY <1>0, <1>1, <1>3 DEF Stop, ValueInv
<1>4. ASSUME NEW p \in Replica, Exit(p)
      PROVE  MemoryInv'
  <2>1. UNCHANGED <<object, view, processed>> /\ item' = [item EXCEPT ![p] = Absent]
    BY <1>4 DEF Exit
  <2>2. \A q \in Replica : ~Leads(q)
    BY <1>0, <1>4 DEF Exit, AloneInv, Works, Leads, Dying
  <2>3. \A q \in Replica : view[q] = {} /\ \A c \in CR : processed[q][c] = NoVersion
    BY <1>0, <2>2 DEF AloneInv, InHand, Leads
  <2>. QED
    BY <1>0, <2>1, <2>3 DEF MemoryInv, Agrees, ValueInv
<1>5. ASSUME NEW p \in Replica, List(p)
      PROVE  MemoryInv'
  <2>. DEFINE Seen == {[name |-> c, version |-> object[c].version, spec |-> object[c].spec] :
                         c \in {c \in CR : object[c].spec # Nothing}}
              Kept == [c \in CR |-> IF object[c].spec = Nothing THEN NoVersion ELSE processed[p][c]]
  <2>1. UNCHANGED <<object, rel, item>> /\ item[p] = Absent
    BY <1>0, <1>5 DEF List, InHand
  <2>2. CASE UNCHANGED <<view, processed>>
    BY <1>2, <2>1, <2>2
  <2>3. CASE view' = [view EXCEPT ![p] = Seen] /\ processed' = [processed EXCEPT ![p] = Kept]
    <3>1. \A i \in Seen : /\ i.name \in CR /\ i.version = object[i.name].version
                          /\ i.spec = object[i.name].spec /\ i.spec # Nothing
                          /\ \A j \in Seen : i.name = j.name => i = j
      OBVIOUS
    <3>2. \A c \in CR : Kept[c] \in {processed[p][c], NoVersion}
      OBVIOUS
    <3>. HIDE DEF Seen, Kept
    <3>3. \A c \in CR : object[c].spec # Nothing /\ Kept[c] = object[c].version => rel[c] = object[c].spec
      BY <1>0, <3>2 DEF MemoryInv, ValueInv
    <3>4. /\ view'[p] = Seen /\ processed'[p] = Kept
          /\ \A q \in Replica : q # p => view'[q] = view[q] /\ processed'[q] = processed[q]
      BY <1>0, <2>3 DEF ValueInv
    <3>5. \A i \in Seen : Agrees(i)' /\ (Kept[i.name] = i.version => rel'[i.name] = i.spec)
      BY <2>1, <3>1, <3>3 DEF Agrees
    <3>. QED
      BY <1>0, <2>1, <3>1, <3>3, <3>4, <3>5 DEF MemoryInv, Agrees
  <2>. QED
    BY <1>5, <2>2, <2>3 DEF List
<1>6. ASSUME NEW p \in Replica, NEW i \in view[p], Skip(p, i)
      PROVE  MemoryInv'
  BY <1>0, <1>1, <1>6 DEF Skip, ValueInv
<1>7. ASSUME NEW p \in Replica, NEW i \in view[p], Reconcile(p, i)
      PROVE  MemoryInv'
  <2>1. /\ UNCHANGED <<object, rel, processed>>
        /\ view' = [view EXCEPT ![p] = @ \ {i}] /\ item' = [item EXCEPT ![p] = i]
    BY <1>7 DEF Reconcile
  <2>2. /\ item'[p] = i /\ view'[p] = view[p] \ {i}
        /\ \A q \in Replica : q # p => item'[q] = item[q] /\ view'[q] = view[q]
    BY <1>0, <2>1 DEF ValueInv
  <2>. QED
    BY <1>0, <2>1, <2>2 DEF MemoryInv, Agrees
<1>8. ASSUME NEW p \in Replica, Upgrade(p)
      PROVE  MemoryInv'
  <2>1. /\ UNCHANGED <<object, view, item>> /\ pc[p] = "upgrade" /\ item[p] # Absent
        /\ \/ UNCHANGED <<rel, processed>>
           \/ /\ rel' = [rel EXCEPT ![item[p].name] = item[p].spec]
              /\ processed' = [processed EXCEPT ![p][item[p].name] = item[p].version]
    BY <1>0, <1>8 DEF Upgrade, Remember, InHand
  <2>2. CASE UNCHANGED <<rel, processed>>
    BY <1>2, <2>1, <2>2
  <2>3. CASE /\ rel' = [rel EXCEPT ![item[p].name] = item[p].spec]
             /\ processed' = [processed EXCEPT ![p][item[p].name] = item[p].version]
    <3>. DEFINE n == item[p].name
    <3>1. /\ n \in CR /\ rel'[n] = item[p].spec /\ processed'[p][n] = item[p].version
          /\ \A c \in CR : c # n => rel'[c] = rel[c] /\ processed'[p][c] = processed[p][c]
          /\ \A q \in Replica : q # p => processed'[q] = processed[q]
      BY <1>0, <2>1, <2>3 DEF ValueInv
    <3>2. \A q \in Replica : q # p => view[q] = {} /\ \A c \in CR : processed[q][c] = NoVersion
      BY <1>0, <2>1 DEF AloneInv, InHand, Works, Leads, Dying
    <3>3. Agrees(item[p]) /\ \A i \in view[p] : n # i.name
      BY <1>0, <2>1 DEF MemoryInv
    <3>4. \A i \in view[p] : processed'[p][i.name] = i.version => rel'[i.name] = i.spec
      BY <1>0, <3>1, <3>3 DEF MemoryInv
    <3>5. \A c \in CR : object[c].spec # Nothing /\ processed'[p][c] = object[c].version
                        => rel'[c] = object[c].spec
      BY <1>0, <3>1, <3>3 DEF MemoryInv, Agrees
    <3>. HIDE DEF n
    <3>6. ASSUME NEW q \in Replica, q # p
          PROVE  /\ view'[q] = {}
                 /\ \A c \in CR : object[c].spec # Nothing => processed'[q][c] # object[c].version
      BY <1>0, <2>1, <3>1, <3>2, <3>6 DEF ValueInv
    <3>. QED
      BY <1>0, <2>1, <3>4, <3>5, <3>6 DEF MemoryInv, Agrees
  <2>. QED
    BY <2>1, <2>2, <2>3
<1>9. ASSUME NEW p \in Replica, ClientFails(p) \/ StatusGet(p)
      PROVE  MemoryInv'
  BY <1>0, <1>1, <1>9 DEF ClientFails, StatusGet, BackToItems, ValueInv
<1>10. ASSUME UNCHANGED <<rel, view, processed>>, \A q \in Replica : item'[q] \in {item[q], Absent},
              \A c \in CR : \/ object'[c] = object[c]
                            \/ object'[c].spec = Nothing /\ object'[c].version = NoVersion
                            \/ object'[c].version = NewVersion
       PROVE  MemoryInv'
  <2>1. NewVersion \notin InUse
    BY <1>0, VersionIsNew
  <2>2. ASSUME NEW q \in Replica
        PROVE  /\ item[q].version # NewVersion /\ \A i \in view[q] : i.version # NewVersion
               /\ \A c \in CR : processed[q][c] # NewVersion
    BY <2>1 DEF InUse
  <2>3. \A i : i.name \in CR /\ Agrees(i) /\ i.version # NewVersion /\ i.version # NoVersion => Agrees(i)'
    BY <1>10 DEF Agrees
  <2>4. ASSUME NEW q \in Replica, item'[q] # Absent
        PROVE  item'[q] = item[q] /\ Agrees(item[q])'
    <3>1. item'[q] = item[q] /\ item[q] # Absent
      BY <1>10, <2>4
    <3>2. Agrees(item[q]) /\ item[q].name \in CR /\ item[q].version \in Version
      BY <1>0, <3>1 DEF MemoryInv
    <3>3. item[q].version # NewVersion /\ item[q].version # NoVersion
      BY <2>2, <3>2 DEF NoVersion
    <3>. QED
      BY <1>10, <3>1, <3>2, <3>3 DEF Agrees
  <2>5. ASSUME NEW q \in Replica, NEW i \in view[q]
        PROVE  Agrees(i)'
    BY <1>0, <2>2, <2>3 DEF MemoryInv
  <2>6. ASSUME NEW q \in Replica, NEW c \in CR,
               object'[c].spec # Nothing, processed[q][c] = object'[c].version
        PROVE  rel[c] = object'[c].spec
    <3>1. object'[c] = object[c]
      BY <1>10, <2>2, <2>6
    <3>. QED
      BY <1>0, <2>6, <3>1 DEF MemoryInv
  <2>7. \A q \in Replica : \A i \in view[q] :
          /\ item[q] # Absent => item[q].name # i.name
          /\ \A j \in view[q] : i.name = j.name => i = j
          /\ processed[q][i.name] = i.version => rel[i.name] = i.spec
    BY <1>0 DEF MemoryInv
  <2>. QED
    BY <1>10, <2>4, <2>5, <2>6, <2>7 DEF MemoryInv
<1>11. ASSUME NEW p \in Replica, StatusPut(p)
       PROVE  MemoryInv'
  <2>1. /\ UNCHANGED <<rel, view, processed>> /\ \A q \in Replica : item'[q] \in {item[q], Absent}
        /\ UNCHANGED object \/ object' = [object EXCEPT ![item[p].name].version = NewVersion,
                                                        ![item[p].name].phase = phase[p]]
    BY <1>0, <1>11 DEF StatusPut, BackToItems, ValueInv
  <2>2. ASSUME NEW c \in CR
        PROVE  \/ object'[c] = object[c]
               \/ object'[c].spec = Nothing /\ object'[c].version = NoVersion
               \/ object'[c].version = NewVersion
    BY <1>0, <2>1, <2>2 DEF ValueInv
  <2>. QED
    BY <1>10, <2>1, <2>2
<1>12. ASSUME NEW c \in CR, NEW s \in Wanted \cup {Nothing}, Edit(c, s)
       PROVE  MemoryInv'
  <2>1. /\ UNCHANGED <<rel, view, processed, item>>
        /\ \/ s = Nothing /\ object' = [object EXCEPT ![c] = Absent]
           \/ object' = [object EXCEPT ![c] = [@ EXCEPT !.version = NewVersion, !.spec = s]]
    BY <1>12 DEF Edit, work
  <2>2. ASSUME NEW d \in CR
        PROVE  \/ object'[d] = object[d]
               \/ object'[d].spec = Nothing /\ object'[d].version = NoVersion
               \/ object'[d].version = NewVersion
    <3>1. CASE object' = [object EXCEPT ![c] = Absent]
      BY <1>0, <3>1 DEF ValueInv, Absent
    <3>2. CASE object' = [object EXCEPT ![c] = [@ EXCEPT !.version = NewVersion, !.spec = s]]
      BY <1>0, <3>2 DEF ValueInv
    <3>. QED
      BY <2>1, <3>1, <3>2
  <2>. QED
    BY <1>10, <2>1, <2>2
<1>13. CASE \E p \in Replica : Acquire(p) \/ Renew(p) \/ EndPass(p)
  BY <1>2, <1>13 DEF Acquire, Renew, EndPass, work
<1>14. CASE Tick \/ UNCHANGED cvars \/ \E c \in CR : Drift(c)
  BY <1>2, <1>14 DEF Tick, cvars, Drift, work
<1>. QED
  BY <1>3, <1>4, <1>5, <1>6, <1>7, <1>8, <1>9, <1>11, <1>12, <1>13, <1>14
     DEF ControllerNext, Progress, Users

(* Every step keeps the whole.                                             *)
LEMMA StepReconcile ==
  ASSUME VersionsNeverRunOut, ReconcileInv, [ControllerNext]_cvars
  PROVE  ReconcileInv'
<1>1. LeaseInv'
  BY StepLease DEF ReconcileInv
<1>. QED
  BY <1>1, StepValues, StepInHand, StepAlone, StepMemory DEF ReconcileInv

(* reconcileOne: an object is left out of a pass as processed only if its  *)
(* release was made from that version of it, through failed upgrades,      *)
(* failed status writes, edits, and leaders that come and go.              *)
THEOREM ProcessedIsDeployed ==
  ASSUME VersionsNeverRunOut
  PROVE  ControllerSpec => []ProcessedMeansDeployed
<1>1. ReconcileInv => ProcessedMeansDeployed
  BY DEF ReconcileInv, MemoryInv, ProcessedMeansDeployed
<1>2. ControllerInit => ReconcileInv
  BY InitReconcile
<1>3. ReconcileInv /\ [ControllerNext]_cvars => ReconcileInv'
  BY StepReconcile
<1>. QED
  BY <1>1, <1>2, <1>3, PTL DEF ControllerSpec

(* The state of the controller stays of its types, and what a replica has  *)
(* in hand fits where it is in the reconcile loop.                         *)
THEOREM ControllerTypeCorrect ==
  ASSUME VersionsNeverRunOut
  PROVE  ControllerSpec => []ControllerTypeOK
<1>1. ReconcileInv => ControllerTypeOK
  BY DEF ReconcileInv, ValueInv, InHand, ControllerTypeOK, Points, Phases, Known
<1>2. ControllerInit => ReconcileInv
  BY InitReconcile
<1>3. ReconcileInv /\ [ControllerNext]_cvars => ReconcileInv'
  BY StepReconcile
<1>. QED
  BY <1>1, <1>2, <1>3, PTL DEF ControllerSpec
=============================================================================
