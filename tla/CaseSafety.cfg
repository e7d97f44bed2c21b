SPECIFICATION FairSpec
CONSTANTS
  ClientKeys = {k1}
  Documents = {d1}
  Reviewers = {r1}
  MaxAttempts = 3
  MaxFaults = 2
INVARIANTS
  TypeOK
  ReviewQueueAgrees
  HumanDecidesOutcome
  SingleDriver
  NoIllegalTransitionRaised
  CompletedIsDetached
  EffectsOnce
  ReviewHasEvidence
PROPERTIES
  FreshWorkflowIds
  OutcomeIsFinal
  SubmittedIsDecided
CHECK_DEADLOCK FALSE
