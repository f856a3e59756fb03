SPECIFICATION StreamSpec
CONSTANTS
  ViewRadius = 2
  HighLodRadius = 0
  ScatterRadius = 1
  CacheSize = 3
  BuildBudget = 4
  MaxChunk = 2
  Roam <- MCRoam
INVARIANTS ChunksAccountedFor DetailIsVegetated
PROPERTY ViewSettles
