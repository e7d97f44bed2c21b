SPECIFICATION Spec
CONSTANTS
  idCard = idCard
  bareCard = bareCard
  payStub = payStub
  tinyStub = tinyStub
  Documents = {idCard, bareCard, payStub, tinyStub}
  FactsOf <- SampleFacts
  KycAnswers <- SampleKyc
  EmployerAnswers <- SampleEmployer
  MaxExecutions = 2
  MaxFaults = 1
INVARIANTS
  TypeOK
  VerdictsHaveEvidence
  NoContradictionHidden
CHECK_DEADLOCK FALSE
