SPECIFICATION Spec
CONSTANTS
  a = a
  b = b
  bad = bad
  Absent = Absent
  NoChart = NoChart
  Client = {c1}
  Chart <- Charts
  Resource <- Resources
  Manifest <- Manifests2
  Broken = {bad}
  CRD = {}
  Keep = {}
  Requests <- ForcedRequests
  MaxRev = 2
  MaxOps = 2
  MaxCrashes = 0
  MaxStoreFaults = 0
  MaxKubeFaults = 1
INVARIANTS AtomicAlwaysRestores
