---------------------------- MODULE MCApiRequests ----------------------------
(* An applicant creates an application and a web client submits it, two      *)
(* requests at a time; a third client submits it too, or creates its own.    *)
EXTENDS ApiRequests

Local ==
  [environment |-> "local", secret_provider |-> "env", log_format |-> "console",
   otel_console_fallback |-> TRUE, local_credentials |-> TRUE,
   temporal_tls_enabled |-> FALSE, kafka_security_protocol |-> "PLAINTEXT",
   request_body_max_bytes |-> 1024]

Hardened ==
  [environment |-> "production", secret_provider |-> "openbao",
   log_format |-> "json", otel_console_fallback |-> FALSE,
   local_credentials |-> FALSE, temporal_tls_enabled |-> TRUE,
   kafka_security_protocol |-> "SSL", request_body_max_bytes |-> 1024]

MCConfigurations ==
  {Local, Hardened, [Local EXCEPT !.environment = "production"],
   [Local EXCEPT !.environment = "staging", !.secret_provider = "openbao"]}

\* Between 0.01 and 1.00.
Loan ==
  [currency |-> "USD", min_amount |-> 1, max_amount |-> 100,
   min_term_months |-> 6, max_term_months |-> 12, is_active |-> TRUE]

MCCatalog == {Loan, [Loan EXCEPT !.is_active = FALSE]}

Create(mills) ==
  [operation |-> "create_application", content_length |-> 300,
   complete |-> TRUE, product_id |-> "listed", requested_amount |-> mills,
   currency |-> "USD", requested_term_months |-> 6, applicant |-> "acceptable"]

\* Amounts on either side of a half at both ends of the product's range.
Amounts == {5, 1005, 1006}

CreateRequests ==
  { Create(x) : x \in Amounts } \cup
  {[Create(15) EXCEPT !.content_length = 1025],
   [Create(15) EXCEPT !.content_length = 0, !.requested_amount = 0],
   [Create(15) EXCEPT !.currency = "EUR"],
   [Create(15) EXCEPT !.currency = "GBP"],
   [Create(15) EXCEPT !.requested_amount = 1000000],
   [Create(15) EXCEPT !.requested_term_months = 13],
   [Create(15) EXCEPT !.applicant = "nameless"],
   [Create(15) EXCEPT !.product_id = "unlisted"],
   [Create(15) EXCEPT !.product_id = "malformed"]}

Submit(id) ==
  [operation |-> "submit_application", content_length |-> 0, complete |-> TRUE,
   application_id |-> id]

MCRequests ==
  [applicant |-> CreateRequests,
   web       |-> {Submit("applicant")},
   mobile    |-> {Submit("applicant"), Submit("unlisted"), Create(1005)}]

MCSlots == [applicant |-> {1}, web |-> {1, 2}, mobile |-> {1}]
==============================================================================
