SPECIFICATION Spec
CONSTANTS
  a = a
  b = b
  bad = bad
  Absent = Absent
  NoChart = NoChart
  Client = {c1, c2}
  Chart <- Charts
  Resource <- Resources
  Manifest <- Manifests2
  Broken = {bad}
  CRD = {}
  Keep = {}
  Requests <- GrowingRequests
  MaxRev = 3
  MaxOps = 3
  MaxCrashes = 1
  MaxStoreFaults = 1
  MaxKubeFaults = 1
INVARIANTS RevisionHasOneOwner LogInv PendingIsOwned
PROPERTIES HistoryIsALog
SYMMETRY Clients
