SPECIFICATION FairSpec
CONSTANTS
  ClientKeys = {k1}
  Documents = {d1}
  Reviewers = {r1}
  MaxAttempts = 2
  MaxFaults = 0
PROPERTIES
  EveryPathReachesReview
CHECK_DEADLOCK FALSE
