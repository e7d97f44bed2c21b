SPECIFICATION Spec
CONSTANTS
  a1 = a1
  p1 = p1
  p2 = p2
  Applications = {a1, a2}
  Relays = {r1}
  Partitions = {p1, p2}
  PartitionOf <- TwoPartitions
  BatchSize = 2
  MaxVersion = 1
  MaxFaults = 1
INVARIANTS
  OffsetsFollowEffects
CHECK_DEADLOCK FALSE
