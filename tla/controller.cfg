SPECIFICATION FairControllerSpec
CONSTANTS
  Replica = {p1, p2}
  CR = {c1}
  Good = {s1, s2}
  Bad = {bad}
  Nothing = Nothing
  Torn = Torn
  NoReplica = NoReplica
  Version = {1, 2, 3, 4, 5, 6, 7, 8, 9}
  MaxEdits = 2
  MaxDrifts = 1
  MaxFaults = 2
  MaxOutages = 1
INVARIANTS ControllerTypeOK LeadersExclusive ProcessedMeansDeployed
PROPERTIES Settles
