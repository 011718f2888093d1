---------------------------- MODULE ReleaseStore ----------------------------
(***************************************************************************)
(* The release store: one durable record per (release, revision), kept in  *)
(* Secrets, ConfigMaps, memory or SQL behind the interface                 *)
(* internal/release/storage.go: Storage.  This module is the store as one  *)
(* release name sees it.  The revision number is the key, Create is the    *)
(* only put-if-absent call, and Update writes back the WHOLE record the    *)
(* caller holds in memory, whatever happened to the stored one meanwhile.  *)
(*                                                                         *)
(* A call may fail.  storeFaults is the number of failing calls still      *)
(* allowed (the bound MaxStoreFaults); a failing write may have landed     *)
(* (the reply was lost) or not.                                            *)
(***************************************************************************)
EXTENDS ReleaseRecord, FiniteSets

CONSTANT MaxStoreFaults    \* bound: failing storage calls in a behaviour

ASSUME StoreFaultsAssumption == MaxStoreFaults \in Nat

VARIABLES store,           \* Rev -> Record, NoRecord where nothing is stored
          storeFaults

StoreInit == /\ store = [r \in Rev |-> NoRecord]
             /\ storeFaults = MaxStoreFaults

StoreTypeOK == /\ store \in [Rev -> Record]
               /\ storeFaults \in 0 .. MaxStoreFaults

Stored == {r \in Rev : store[r] # NoRecord}
DeployedRevs == {r \in Stored : store[r].status = "deployed"}

(* What Get, Last and History return: copies, stale from now on.           *)
CopyOf(r) == [rev |-> r, chart |-> store[r].chart, status |-> store[r].status]
History == {CopyOf(r) : r \in Stored}

(* Last returns the highest stored revision, whatever its status.          *)
IsLast(r) == r \in Stored /\ \A s \in Stored : s <= r

-----------------------------------------------------------------------------
StoreFault == storeFaults > 0 /\ storeFaults' = storeFaults - 1

ReadOk == UNCHANGED <<store, storeFaults>>
ReadFails == StoreFault /\ UNCHANGED store

Put(x) == store' = [store EXCEPT ![x.rev] = [chart |-> x.chart, status |-> x.status]]

(* Mutant: a Create that overwrites.                                       *)
CreateOverwriting(x) == Put(x) /\ UNCHANGED storeFaults

(* Create: put if absent.  It fails on an existing key at no cost.         *)
CreateOk(x) == x.rev \notin Stored /\ Put(x) /\ UNCHANGED storeFaults
CreateFails(x) ==
    \/ x.rev \in Stored /\ UNCHANGED <<store, storeFaults>>
    \/ StoreFault /\ UNCHANGED store
    \/ StoreFault /\ x.rev \notin Stored /\ Put(x)

(* Update: read the stored object for its resource version, then replace   *)
(* the record.  It fails on a missing key, and a writer that slips between *)
(* its two calls makes it fail with a conflict (one of the faults).        *)
UpdateOk(x) == x.rev \in Stored /\ Put(x) /\ UNCHANGED storeFaults
UpdateFails(x) ==
    \/ x.rev \notin Stored /\ UNCHANGED <<store, storeFaults>>
    \/ StoreFault /\ UNCHANGED store
    \/ StoreFault /\ x.rev \in Stored /\ Put(x)

(* Delete: a missing key counts as deleted.                                *)
Erase(r) == store' = [store EXCEPT ![r] = NoRecord]
DeleteOk(r) == Erase(r) /\ UNCHANGED storeFaults
DeleteFails(r) == StoreFault /\ (UNCHANGED store \/ Erase(r))
=============================================================================
