SPECIFICATION FairSpec
CONSTANTS
  MaxFaults = 3
INVARIANTS
  TypeOK
  ContainerOutlivesTasks
PROPERTIES
  LoopsServeAgain
  StopEndsProcess
CHECK_DEADLOCK FALSE
