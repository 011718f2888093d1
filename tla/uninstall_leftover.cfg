SPECIFICATION Spec
CONSTANTS
  a = a
  b = b
  bad = bad
  Absent = Absent
  NoChart = NoChart
  Client = {c1}
  Chart <- Charts
  Resource <- Resources
  Manifest <- Manifests2
  Broken = {bad}
  CRD = {}
  Keep = {}
  Requests <- PlainRequests
  MaxRev = 3
  MaxOps = 3
  MaxCrashes = 0
  MaxStoreFaults = 0
  MaxKubeFaults = 1
INVARIANTS UninstallLeavesNothing
