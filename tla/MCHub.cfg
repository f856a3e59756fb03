SPECIFICATION Spec
CONSTANTS
  east = east
  c1 = c1
  c2 = c2
  Replicas = {east}
  Conns = {c1, c2}
  ReplicaOf <- MCReplicaOf
  QueueSize = 1
  MaxEvents = 4
  Stuck = {c1}
INVARIANTS TypeOK NoSendOnClosed GapsHaveReasons
PROPERTIES ImplementsFeed NobodyStalls
