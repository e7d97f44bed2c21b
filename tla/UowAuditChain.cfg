SPECIFICATION Spec
CONSTANTS
  Applications = {a1}
  Sessions = {s1, s2}
  Keys = {k1, k2}
  Operations = {"create_application", "submit_application", "upload_document"}
INVARIANTS
  AuditIsAChain
CHECK_DEADLOCK FALSE
