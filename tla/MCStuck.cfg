SPECIFICATION Spec
CONSTANTS
  east = east
  west = west
  s1 = s1
  s2 = s2
  NoSeed = NoSeed
  Replicas = {east, west}
  Last = 3
  Seeds = {s1, s2}
  MaxFaults = 3
PROPERTY FailsFast
