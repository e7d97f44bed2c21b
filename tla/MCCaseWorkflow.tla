--------------------------- MODULE MCCaseWorkflow ----------------------------
EXTENDS CaseWorkflow
==============================================================================
