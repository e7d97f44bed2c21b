SPECIFICATION FairSpec
CONSTANTS
  MaxFaults = 1
PROPERTIES
  TemporalServesAgain
CHECK_DEADLOCK FALSE
