SPECIFICATION Spec
CONSTANTS
  Applications = {a1}
  Sessions = {s1, s2}
  Keys = {k1, k2}
  Operations = {"create_application", "submit_application", "advance_intake_validation", "upload_document"}
INVARIANTS
  TypeOK
  NoLostUpdate
  OutboxMatchesVersions
  KeyTakesEffectOnce
  AuditParentsRecorded
CHECK_DEADLOCK FALSE
