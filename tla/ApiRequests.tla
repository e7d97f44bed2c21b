----------------------------- MODULE ApiRequests -----------------------------
(***************************************************************************)
(* Clients create and submit applications over HTTP (api/routes,           *)
(* api/middleware, api/error_handling) against an API process that is      *)
(* started, stopped and may crash (ApiProcess) and a database that comes   *)
(* and goes.  A client has one request and one idempotency key for it; it  *)
(* sends the request again when it hears nothing or hears a 500, also      *)
(* while an earlier attempt is still under way.                            *)
(*                                                                         *)
(* A transaction is two steps here, what it reads and what it writes;      *)
(* UnitOfWork has the steps between them.                                  *)
(***************************************************************************)
EXTENDS ApiProcess, LoanTerms

CONSTANTS
  Requests,  \* for each client the requests it may have
  Slots,     \* for each client the attempts it may have under way at once
  Catalog    \* the rows the listed product may have

Clients == DOMAIN Requests

ASSUME CatalogAssumption == \A p \in Catalog : IsProduct(p)
ASSUME RequestsAssumption ==
  \A c \in Clients : \A r \in Requests[c] :
    /\ r.operation \in {"create_application", "submit_application"}
    /\ r.operation = "create_application" =>
         r.requested_amount \in Int /\ r.requested_term_months \in Int
    /\ r.operation = "submit_application" =>
         r.application_id \in Clients \cup {"unlisted", "malformed"}

VARIABLES
  request,   \* the request of each client
  product,   \* applications.products: the listed product, which nothing updates
  rows,      \* applications.applications: the one each client has created
  keys,      \* integration.idempotency_keys: the clients whose key is there
  started,   \* the applications Temporal has started a workflow for
  attempt    \* the attempts of each client

requestVars == <<request, product, rows, keys, started, attempt>>
vars == <<processVars, requestVars>>

Attempts == UNION { {c} \X Slots[c] : c \in Clients }

NoRow == [status |-> "ABSENT", submitted_by |-> "none"]
NoAnswer == [status |-> 0, code |-> "none"]

\* An attempt: where it is, what it has read of the application and of the
\* tenant's audit chain, whether its transaction committed, its answer.
Unsent ==
  [pc |-> "unsent", status |-> "none", genesis |-> FALSE, committed |-> FALSE,
   answer |-> NoAnswer]

Init ==
  /\ ProcessInit
  /\ request \in { f \in [Clients -> UNION { Requests[c] : c \in Clients }] :
                     \A c \in Clients : f[c] \in Requests[c] }
  /\ product \in Catalog
  /\ rows = [c \in Clients |-> NoRow]
  /\ keys = {}
  /\ started = {}
  /\ attempt = [a \in Attempts |-> Unsent]

-----------------------------------------------------------------------------
(* problem_details.py                                                      *)

Problem(status, code) == [status |-> status, code |-> code]

_DOMAIN_EXCEPTION_STATUS ==
  [ApplicationNotFoundError    |-> Problem(404, "application_not_found"),
   ProductNotFoundError        |-> Problem(404, "product_not_found"),
   DuplicateRequestError       |-> Problem(409, "duplicate_request"),
   ConcurrencyConflictError    |-> Problem(409, "concurrency_conflict"),
   IllegalStateTransitionError |-> Problem(409, "illegal_state_transition"),
   NoActiveWorkflowError       |-> Problem(409, "no_active_workflow"),
   ProductRejectedRequestError |-> Problem(422, "product_rejected_request"),
   InvalidApplicationDataError |-> Problem(422, "invalid_application_data")]

\* The answer an exception becomes; one that is not in the table is a 500.
_problem_response(exc) ==
  IF exc = "RequestValidationError"
  THEN Problem(422, "request_validation_failed")
  ELSE IF exc \in DOMAIN _DOMAIN_EXCEPTION_STATUS
       THEN _DOMAIN_EXCEPTION_STATUS[exc]
       ELSE Problem(500, "internal_server_error")

-----------------------------------------------------------------------------

Client(a) == a[1]
Req(a) == request[Client(a)]

Goto(a, pc) == attempt' = [attempt EXCEPT ![a].pc = pc]

\* The attempt has an answer, which has yet to reach the client.
Respond(a, answer) ==
  attempt' = [attempt EXCEPT ![a] = [@ EXCEPT !.pc = "answer", !.status = "none",
                                              !.genesis = FALSE, !.answer = answer]]

\* An exception leaves the unit of work, which rolls back.
Raise(a, exc) == Respond(a, _problem_response(exc))

Success(a) ==
  Respond(a, [status |-> IF Req(a).operation = "create_application" THEN 201
                                                                    ELSE 200,
              code |-> "none"])

InServer == { a \in Attempts :
                attempt[a].pc \in {"reserve", "body", "commit", "start", "answer"} }

Database == "postgres" \in up

\* The client knows how its request ended.
Settled(c) ==
  \E i \in Slots[c] : /\ attempt[<<c, i>>].pc = "answered"
                      /\ attempt[<<c, i>>].answer.status # 500

\* The id of an application is known from the answer to its creation.
KnowsTarget(c) ==
  LET id == request[c].application_id
  IN id \in Clients =>
       \E i \in Slots[id] : /\ attempt[<<id, i>>].pc = "answered"
                            /\ attempt[<<id, i>>].answer.status = 201

\* A first attempt, one more while others are under way, or a retry.
Send(a) ==
  /\ \/ attempt[a].pc \in {"unsent", "lost"}
     \/ attempt[a].pc = "answered" /\ attempt[a].answer.status = 500
  /\ ~Settled(Client(a))
  /\ Req(a).operation = "submit_application" => KnowsTarget(Client(a))
  /\ attempt' = [attempt EXCEPT ![a] = [Unsent EXCEPT !.pc = "network"]]
  /\ UNCHANGED <<processVars, request, product, rows, keys, started>>

Lost == [Unsent EXCEPT !.pc = "lost"]

\* Nobody listens, or no longer accepts.
ConnectionRefused(a) ==
  /\ attempt[a].pc = "network"
  /\ process # "serving"
  /\ attempt' = [attempt EXCEPT ![a] = Lost]
  /\ UNCHANGED <<processVars, request, product, rows, keys, started>>

-----------------------------------------------------------------------------
(* Before the handler                                                      *)

\* RequestSizeLimitMiddleware looks at the declared length only; 0 stands for a
\* header that is missing or no number.
TooLarge(r) == r.content_length > settings.request_body_max_bytes

\* The models of api/schemas and the required headers.
Valid(r) ==
  /\ r.complete
  /\ r.operation = "create_application" =>
       /\ r.requested_amount > 0
       /\ r.requested_term_months >= 1

\* The route builds the command without an error: ids are UUIDs, and Money.of
\* takes the amount.
Wellformed(r) ==
  IF r.operation = "create_application"
  THEN /\ r.product_id # "malformed"
       /\ Representable(r.requested_amount, r.currency)
  ELSE r.application_id # "malformed"

Receive(a) ==
  /\ attempt[a].pc = "network"
  /\ process = "serving"
  /\ CASE TooLarge(Req(a)) -> Respond(a, Problem(413, "request_body_too_large"))
       [] ~TooLarge(Req(a)) /\ ~Valid(Req(a)) -> Raise(a, "RequestValidationError")
       [] ~TooLarge(Req(a)) /\ Valid(Req(a)) /\ ~Wellformed(Req(a)) ->
            Raise(a, "ValueError")
       [] OTHER -> Goto(a, "reserve")
  /\ UNCHANGED <<processVars, request, product, rows, keys, started>>

-----------------------------------------------------------------------------
(* CreateApplicationHandler.handle and SubmitApplicationHandler.handle     *)

\* Mutant: a reservation is not given back when its transaction fails.
KeyHeldForever(a, b) ==
  /\ b # a
  /\ Client(b) = Client(a)
  /\ attempt[b].pc \in {"body", "commit", "lost"} \/ attempt[b].answer.status = 500

\* Attempt b has an uncommitted row for the key of attempt a.
KeyHeld(a, b) ==
  /\ b # a
  /\ Client(b) = Client(a)
  /\ attempt[b].pc \in {"body", "commit"}

\* Mutant: the key is committed at once, in a transaction of its own.
ReserveAtOnce(a) ==
  /\ attempt[a].pc = "reserve"
  /\ Database
  /\ IF Client(a) \in keys
     THEN Raise(a, "DuplicateRequestError")
     ELSE Goto(a, "body")
  /\ keys' = keys \cup {Client(a)}
  /\ UNCHANGED <<processVars, request, product, rows, started>>

\* reserve_idempotency_key waits for another transaction with the key.
Reserve(a) ==
  /\ attempt[a].pc = "reserve"
  /\ Database
  /\ \A b \in Attempts : ~KeyHeld(a, b)
  /\ IF Client(a) \in keys
     THEN Raise(a, "DuplicateRequestError")
     ELSE Goto(a, "body")
  /\ UNCHANGED <<processVars, request, product, rows, keys, started>>

\* The wait outlasts database_statement_timeout_seconds.
StatementTimeout(a) ==
  /\ attempt[a].pc = "reserve"
  /\ Database
  /\ \E b \in Attempts : KeyHeld(a, b)
  /\ Raise(a, "DBAPIError")
  /\ UNCHANGED <<processVars, request, product, rows, keys, started>>

\* What the transaction goes on with: the status it loaded, and whether it may
\* find the tenant's audit chain empty.
Loaded(a, status) ==
  attempt' = [attempt EXCEPT ![a] = [@ EXCEPT !.pc = "commit", !.status = status,
                                              !.genesis = (keys = {})]]

\* Neither Applicant nor Application.create raises.  The schema lets through an
\* applicant with a blank name or an address without an @.
Creatable(r, m) ==
  /\ r.applicant = "acceptable"
  /\ 0 < m.amount
  /\ 1 <= r.requested_term_months

LoadProduct(a) ==
  LET r == Req(a)
      m == Money(r.requested_amount, r.currency)
      accepted == accepts(product, m, r.requested_term_months)
  IN /\ attempt[a].pc = "body"
     /\ r.operation = "create_application"
     /\ Database
     /\ \/ r.product_id = "unlisted" /\ Raise(a, "ProductNotFoundError")
        \/ /\ r.product_id # "unlisted"
           /\ \/ ~accepted /\ Raise(a, "ProductRejectedRequestError")
              \/ accepted /\ ~Creatable(r, m) /\ Raise(a, "ValueError")
              \/ accepted /\ Creatable(r, m) /\ Loaded(a, "ABSENT")
     /\ UNCHANGED <<processVars, request, product, rows, keys, started>>

LoadApplication(a) ==
  /\ attempt[a].pc = "body"
  /\ Req(a).operation = "submit_application"
  /\ Database
  /\ IF Req(a).application_id = "unlisted"
     THEN Raise(a, "ApplicationNotFoundError")
     ELSE IF rows[Req(a).application_id].status # "DRAFT"
          THEN Raise(a, "IllegalStateTransitionError")
          ELSE Loaded(a, "DRAFT")
  /\ UNCHANGED <<processVars, request, product, rows, keys, started>>

\* The rows after the commit of the attempt.
Written(a) ==
  IF Req(a).operation = "create_application"
  THEN [rows EXCEPT ![Client(a)] =
          [status |-> "DRAFT", submitted_by |-> "none",
           requested |-> Money(Req(a).requested_amount, Req(a).currency),
           term_months |-> Req(a).requested_term_months]]
  ELSE [rows EXCEPT ![Req(a).application_id].status = "SUBMITTED",
                    ![Req(a).application_id].submitted_by = Client(a)]

\* Another transaction has saved the application since this one loaded it.
Overtaken(a) ==
  /\ Req(a).operation = "submit_application"
  /\ rows[Req(a).application_id].status # attempt[a].status

\* The writes, and the commit.  The connection may break before the server's
\* word that it committed arrives: that is an error to the handler.
Commit(a) ==
  /\ attempt[a].pc = "commit"
  /\ Database
  /\ ~Overtaken(a)
  /\ rows' = Written(a)
  /\ keys' = keys \cup {Client(a)}
  /\ \/ /\ attempt' = [attempt EXCEPT ![a] =
                         [@ EXCEPT !.pc = "start", !.status = "none",
                                   !.genesis = FALSE, !.committed = TRUE]]
        /\ UNCHANGED processVars
     \/ /\ Fault
        /\ attempt' = [attempt EXCEPT ![a] =
                         [@ EXCEPT !.pc = "answer", !.status = "none",
                                   !.genesis = FALSE, !.committed = TRUE,
                                   !.answer = _problem_response("DBAPIError")]]
        /\ UNCHANGED <<process, settings, up, bucket, client, readiness>>
  /\ UNCHANGED <<request, product, started>>

\* repository.save reads the row again and sees the other version; or it read
\* before the other committed, and its write meets the version that is taken.
\* The first event of a tenant can be recorded by one transaction only.
CommitConflicts(a) ==
  /\ attempt[a].pc = "commit"
  /\ Database
  /\ \/ Overtaken(a) /\ Raise(a, "ConcurrencyConflictError")
     \/ Overtaken(a) /\ Raise(a, "IntegrityError")
     \/ attempt[a].genesis /\ keys # {} /\ Raise(a, "IntegrityError")
  /\ UNCHANGED <<processVars, request, product, rows, keys, started>>

\* A statement on a connection that is gone.
DatabaseFails(a) ==
  /\ attempt[a].pc \in {"reserve", "body", "commit"}
  /\ ~Database
  /\ Raise(a, "DBAPIError")
  /\ UNCHANGED <<processVars, request, product, rows, keys, started>>

\* After the commit of a submission start_application_workflow is tried once;
\* whatever it raises is logged, and the answer is the same.
StartWorkflow(a) ==
  /\ attempt[a].pc = "start"
  /\ started' = IF Req(a).operation = "submit_application" /\ client
                   /\ "temporal" \in up
                THEN started \cup {Req(a).application_id} ELSE started
  /\ Success(a)
  /\ UNCHANGED <<processVars, request, product, rows, keys>>

Deliver(a) ==
  /\ attempt[a].pc = "answer"
  /\ Goto(a, "answered")
  /\ UNCHANGED <<processVars, request, product, rows, keys, started>>

\* The client gives up, or its connection breaks.
LoseAnswer(a) ==
  /\ attempt[a].pc = "answer"
  /\ Fault
  /\ attempt' = [attempt EXCEPT ![a] = Lost]
  /\ UNCHANGED <<process, settings, up, bucket, client, readiness>>
  /\ UNCHANGED <<request, product, rows, keys, started>>

-----------------------------------------------------------------------------
(* The process and the world around it                                     *)

\* Every request in the server ends with it; PostgreSQL rolls back.
Crash ==
  /\ CrashProcess
  /\ attempt' = [a \in Attempts |-> IF a \in InServer THEN Lost ELSE attempt[a]]
  /\ UNCHANGED <<request, product, rows, keys, started>>

\* uvicorn lets the requests it accepted finish before the lifespan goes on.
Shutdown ==
  /\ InServer = {}
  /\ ShutdownContainer
  /\ UNCHANGED requestVars

Starting ==
  /\ \/ \E s \in Configurations : StartProcess(s)
     \/ EnsureObjectStore
     \/ EnsureWorkflowRunner
  /\ UNCHANGED requestVars

Recovery ==
  /\ \E d \in Fragile : DependencyRecovers(d)
  /\ UNCHANGED requestVars

Environment ==
  /\ StopProcess \/ \E d \in Fragile : DependencyFails(d)
  /\ UNCHANGED requestVars

ProbeReadiness == Probe /\ UNCHANGED requestVars

Serve(a) ==
  \/ ConnectionRefused(a)
  \/ Receive(a)
  \/ Reserve(a)
  \/ StatementTimeout(a)
  \/ LoadProduct(a)
  \/ LoadApplication(a)
  \/ Commit(a)
  \/ CommitConflicts(a)
  \/ DatabaseFails(a)
  \/ StartWorkflow(a)
  \/ Deliver(a)

Next ==
  \/ \E a \in Attempts : Send(a) \/ Serve(a) \/ LoseAnswer(a)
  \/ Starting
  \/ ProbeReadiness
  \/ Shutdown
  \/ Crash
  \/ Recovery
  \/ Environment

\* An attempt that can go on does so, a client without an answer tries again,
\* the supervisor starts the process and probes it, outages end.
FairSpec ==
  /\ Init /\ [][Next]_vars
  /\ \A a \in Attempts : WF_vars(Serve(a))
  /\ \A c \in Clients : WF_vars(\E i \in Slots[c] : Send(<<c, i>>))
  /\ WF_vars(Starting) /\ WF_vars(ProbeReadiness) /\ WF_vars(Shutdown)
  /\ WF_vars(Recovery)
-----------------------------------------------------------------------------
(* Properties                                                              *)

\* The state is of its type; and a process that is up has an adapter for every
\* provider its settings name, none of them a stub under production settings.
TypeOK ==
  /\ process \in {"down", "ensure_object_store", "ensure_workflow_runner",
                  "serving", "draining"}
  /\ process # "down" => /\ settings \in Configurations
                         /\ settings.secret_provider = "env"
                         /\ settings.environment # "production"
  /\ up \subseteq Dependencies
  /\ bucket \in BOOLEAN /\ client \in BOOLEAN
  /\ readiness \in {"none", "ready", "not_ready"}
  /\ faults \in 0 .. MaxFaults
  /\ product \in Catalog
  /\ keys \subseteq Clients /\ started \subseteq Clients
  /\ \A c \in Clients : rows[c].status \in {"ABSENT", "DRAFT", "SUBMITTED"}
  /\ \A a \in Attempts :
       attempt[a].pc \in {"unsent", "network", "reserve", "body", "commit",
                         "start", "answer", "answered", "lost"}

\* The request of the client is in the database.
TookEffect(c) ==
  IF request[c].operation = "create_application"
  THEN rows[c] # NoRow
  ELSE \E id \in Clients : /\ id = request[c].application_id
                           /\ rows[id].submitted_by = c

\* An answer tells the client what became of its request, whatever was lost,
\* retried, cut off or overtaken before: a 2xx means that this attempt took
\* effect, duplicate_request that another one with the key did, a conflict over
\* the status that another client has submitted the application, and any other
\* 4xx that this attempt left nothing behind.  A workflow is started only for
\* an application that is SUBMITTED.
AnswersTellTruth ==
  /\ \A a \in Attempts :
       LET c == Client(a)
           answer == attempt[a].answer
       IN /\ answer.status \in {200, 201} => attempt[a].committed
          /\ attempt[a].committed => TookEffect(c)
          /\ answer.status \in 400 .. 499 => ~attempt[a].committed
          /\ answer.code = "duplicate_request" => TookEffect(c)
          /\ answer.code \in {"concurrency_conflict", "illegal_state_transition"} =>
               /\ rows[request[c].application_id].status = "SUBMITTED"
               /\ ~TookEffect(c)
  /\ \A id \in started : rows[id].status = "SUBMITTED"

\* The amount on file is the requested one rounded half to even, its product
\* accepts it, and the columns and constraints of the table take it: rounding
\* neither carries a request over a bound of its product nor stores a loan of
\* nothing.
AmountsWithinCatalog ==
  \A c \in Clients : rows[c] # NoRow =>
    LET m == rows[c].requested
    IN /\ IsNearestEven(request[c].requested_amount, MinorUnit(m.currency), m.amount)
       /\ accepts(product, m, rows[c].term_months)
       /\ Storable(m, rows[c].term_months)

\* A process that missed the bucket or Temporal when it started never claims to
\* be ready; one that has both is found ready once outages are over.
ReadinessTellsTruth ==
  /\ [](readiness = "ready" => client /\ bucket)
  /\ process = "serving" /\ client /\ bucket
       ~> readiness = "ready" \/ process # "serving"

\* The request itself causes no error that the table does not know.
Answerable(r) ==
  Valid(r) => /\ Wellformed(r)
              /\ r.operation = "create_application" => r.applicant = "acceptable"

\* A client that goes on trying learns how its request ended: a key is given
\* back whenever the attempt that held it fails, and neither a lost answer nor
\* a crash nor an outage leaves it waiting for ever.
ClientSettles ==
  \A c \in Clients :
    (Answerable(request[c]) /\ \E i \in Slots[c] : attempt[<<c, i>>].pc # "unsent")
      ~> Settled(c)
==============================================================================
