---------------------------- MODULE ReleaseRecord ---------------------------
(***************************************************************************)
(* Rendered manifests, and the records of releases.                        *)
(*                                                                         *)
(* A manifest is abstracted to the chart it was rendered from: two release *)
(* records carry the same manifest exactly when they carry the same chart, *)
(* and a live object was written by the chart it carries.  Resources are   *)
(* numbered in install order (the kinds table of kube/resources.go), so    *)
(* ApplyManifests walks a manifest upwards and DeleteManifests downwards.  *)
(*                                                                         *)
(* Of a record (internal/release/release.go) the operations tell apart its *)
(* revision (the key), its manifest and its status.                        *)
(***************************************************************************)
EXTENDS Naturals

CONSTANTS Chart,           \* the manifests that can be rendered
          Resource,        \* resource numbers, in install order
          Manifest,        \* Manifest[ch]: the resources ch declares
          Broken,          \* charts whose manifest text does not parse
          CRD,             \* resources that are CustomResourceDefinitions
          Keep             \* resources annotated resource-policy: keep

ASSUME ResourceAssumption == Resource \subseteq Nat
ASSUME ManifestAssumption == Manifest \in [Chart -> SUBSET Resource]
ASSUME KindAssumption == Broken \subseteq Chart /\ CRD \subseteq Resource /\ Keep \subseteq Resource

Parses(ch) == ch \notin Broken

(* The order of a walk over the resources still to do.                     *)
First(r, todo) == r \in todo /\ \A x \in todo : r <= x
Final(r, todo) == r \in todo /\ \A x \in todo : x <= r

(* What DeleteManifests deletes of a chart: resource-policy keep survives. *)
Deletable(ch) == Manifest[ch] \ Keep

(* excludeKinds(manifest, "CustomResourceDefinition").                     *)
WithoutCRDs(S) == S \ CRD

(* Mutant: the two manifests swapped.                                      *)
OrphansSwapped(ch, base) == Deletable(base) \ Manifest[ch]

(* computeOrphanedManifest: what ch declares and base does not, less what  *)
(* the deletion that follows skips.                                        *)
Orphans(ch, base) == Deletable(ch) \ Manifest[base]

-----------------------------------------------------------------------------
(* Release records.                                                        *)

CONSTANTS MaxRev,          \* bound: revisions are 1..MaxRev
          NoChart          \* the manifest of "no record"

ASSUME MaxRevAssumption == MaxRev \in Nat \ {0}
ASSUME NoChartAssumption == NoChart \notin Chart

Rev == 1 .. MaxRev

Pending == {"pending-install", "pending-upgrade", "pending-rollback"}
Status == Pending \cup {"deployed", "superseded", "failed", "uninstalling"}

NoRecord == [chart |-> NoChart, status |-> "none"]
Record == [chart : Chart, status : Status] \cup {NoRecord}

(* A *release.Release in a caller's memory: a record with its key.         *)
Release == [rev : Rev, chart : Chart, status : Status]
NoRelease == [rev |-> 0, chart |-> NoChart, status |-> "none"]
=============================================================================
