SPECIFICATION FairSpec
CONSTANTS
  Files <- SampleFiles
  UploadKeys = {k1, k2}
  Sessions = {s1, s2}
  Workflows = {w1}
  MaxSizeBytes = 2
  MaxPages = 2
  MaxAttempts = 3
  Times = {1, 2}
  MaxDocuments = 3
  MaxFaults = 2
INVARIANTS
  TypeOK
  RowsHaveObjects
  OneDocumentPerKey
  FactsHaveProvenance
PROPERTIES
  ListedIsConcluded
CHECK_DEADLOCK FALSE
