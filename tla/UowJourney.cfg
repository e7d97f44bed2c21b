SPECIFICATION FairSpec
CONSTANTS
  Applications = {a1}
  Sessions = {s1, s2}
  Keys = {k1}
  Operations = {"create_application", "submit_application", "advance_intake_validation", "advance_document_processing", "enter_human_review", "apply_review_decision", "resubmit_application"}
PROPERTIES
  ImplementsCaseHistory
  TransactionsEnd
CHECK_DEADLOCK FALSE
