SPECIFICATION FairSpec
CONSTANTS
  Configurations <- MCConfigurations
  Fragile = {"postgres", "object_store", "temporal"}
  MaxFaults = 1
  ColumnLimit = 10000
  DecimalLimit = 100000
  Requests <- MCRequests
  Slots <- MCSlots
  Catalog <- MCCatalog
INVARIANTS
  TypeOK
  AnswersTellTruth
  AmountsWithinCatalog
PROPERTIES
  ReadinessTellsTruth
  ClientSettles
CHECK_DEADLOCK FALSE
