SPECIFICATION FairSpec
CONSTANTS
  a1 = a1
  p1 = p1
  p2 = p2
  Applications = {a1}
  Relays = {r1, r2}
  Partitions = {p1}
  PartitionOf <- OnePartition
  BatchSize = 2
  MaxVersion = 3
  MaxFaults = 1
INVARIANTS
  TypeOK
  PublishedIsOnTopic
  OffsetsFollowEffects
PROPERTIES
  ImplementsStatusFeed
  ProjectionCatchesUp
CHECK_DEADLOCK FALSE
