-------------------------- MODULE ApplicationStatus --------------------------
(***************************************************************************)
(* The status machine of a loan application                                *)
(* (src/finassist/domain/applications/status.py).  A module of constants:  *)
(* every component that moves an application consults this one table.      *)
(***************************************************************************)

\* The order the automated stages would be visited in.
Pipeline == {"INTAKE_VALIDATION", "DOCUMENT_PROCESSING", "VERIFICATION",
             "POLICY_EVALUATION", "AFFORDABILITY_EVALUATION",
             "FRAUD_ANALYSIS", "RISK_SYNTHESIS"}

TERMINAL_STATUSES == {"APPROVED", "DECLINED", "CANCELLED"}

ApplicationStatus ==
  {"DRAFT", "SUBMITTED"} \cup Pipeline \cup TERMINAL_STATUSES
  \cup {"AWAITING_HUMAN_REVIEW", "NEEDS_MORE_INFORMATION", "ESCALATED"}

_CANCELLABLE_FROM == ApplicationStatus \ TERMINAL_STATUSES

\* The successor of each stage of the linear path from DRAFT to review.
_FORWARD_PIPELINE ==
  { <<"DRAFT", "SUBMITTED">>,
    <<"SUBMITTED", "INTAKE_VALIDATION">>,
    <<"INTAKE_VALIDATION", "DOCUMENT_PROCESSING">>,
    <<"DOCUMENT_PROCESSING", "VERIFICATION">>,
    <<"VERIFICATION", "POLICY_EVALUATION">>,
    <<"POLICY_EVALUATION", "AFFORDABILITY_EVALUATION">>,
    <<"AFFORDABILITY_EVALUATION", "FRAUD_ANALYSIS">>,
    <<"FRAUD_ANALYSIS", "RISK_SYNTHESIS">>,
    <<"RISK_SYNTHESIS", "AWAITING_HUMAN_REVIEW">> }

\* Any automated stage may hand the case to a human.
_CAN_ESCALATE_TO_HUMAN_REVIEW == Pipeline

\* What a reviewer can do with a case that awaits review or was escalated, and
\* the way back from a request for more information.
HumanOutcomes ==
  { <<"AWAITING_HUMAN_REVIEW", "APPROVED">>,
    <<"AWAITING_HUMAN_REVIEW", "DECLINED">>,
    <<"AWAITING_HUMAN_REVIEW", "NEEDS_MORE_INFORMATION">>,
    <<"AWAITING_HUMAN_REVIEW", "ESCALATED">>,
    <<"ESCALATED", "APPROVED">>,
    <<"ESCALATED", "DECLINED">>,
    <<"ESCALATED", "AWAITING_HUMAN_REVIEW">>,
    <<"NEEDS_MORE_INFORMATION", "DOCUMENT_PROCESSING">> }

ALLOWED_TRANSITIONS ==
  _FORWARD_PIPELINE
  \cup (_CAN_ESCALATE_TO_HUMAN_REVIEW \X {"AWAITING_HUMAN_REVIEW"})
  \cup HumanOutcomes
  \cup (_CANCELLABLE_FROM \X {"CANCELLED"})

\* Mutant: transition_to without the table.
AnyTransition(current, target) == target \in ApplicationStatus

is_legal_transition(current, target) ==
  <<current, target>> \in ALLOWED_TRANSITIONS

is_terminal(status) == status \in TERMINAL_STATUSES
==============================================================================
