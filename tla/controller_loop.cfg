SPECIFICATION FairControllerSpec
CONSTANTS
  Replica = {p1}
  CR = {c1}
  Good = {s1, s2}
  Bad = {bad}
  Nothing = Nothing
  Torn = Torn
  NoReplica = NoReplica
  Version = {1, 2, 3, 4, 5, 6, 7, 8, 9}
  MaxEdits = 1
  MaxDrifts = 0
  MaxFaults = 0
  MaxOutages = 0
PROPERTIES UnchangedIsLeftAlone
