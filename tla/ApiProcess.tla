------------------------------ MODULE ApiProcess -----------------------------
(***************************************************************************)
(* The life of an API process: settings and container (bootstrap/), the    *)
(* lifespan of the application (api/app.py) and the readiness probe        *)
(* (api/routes/health.py).  The dependencies come and go.  Start-up        *)
(* prepares the bucket and connects to Temporal, each once; a failure of   *)
(* either is logged and the process serves all the same.                   *)
(***************************************************************************)
EXTENDS Naturals, Sequences

CONSTANTS
  Configurations,  \* the settings an operator may start the process with
  Fragile,         \* the dependencies that may become unreachable
  MaxFaults        \* bound: failures injected into one behaviour

ASSUME MaxFaultsAssumption == MaxFaults \in Nat

VARIABLES
  process,    \* where the lifespan is
  settings,   \* the settings of the process
  up,         \* the dependencies that can be reached
  bucket,     \* whether the bucket exists in the object store
  client,     \* whether TemporalWorkflowRunner holds a client
  readiness,  \* what the process last answered to a probe
  faults      \* failures injected so far

processVars == <<process, settings, up, bucket, client, readiness, faults>>

Dependencies ==
  {"postgres", "object_store", "temporal", "mock_kyc", "mock_bureau",
   "mock_employer", "mock_core_banking"}

ASSUME FragileAssumption == Fragile \subseteq Dependencies

NoSettings == [environment |-> "none"]

ProcessInit ==
  /\ process = "down"
  /\ settings = NoSettings
  /\ up = Dependencies
  /\ bucket = FALSE
  /\ client = FALSE
  /\ readiness = "none"
  /\ faults = 0

Fault ==
  /\ faults < MaxFaults
  /\ faults' = faults + 1

-----------------------------------------------------------------------------
(* Settings and build_container                                            *)

_validate_production_constraints(s) ==
  s.environment = "production" =>
    /\ s.secret_provider = "openbao"
    /\ s.log_format = "json"
    /\ ~s.otel_console_fallback
    /\ ~s.local_credentials
    /\ s.temporal_tls_enabled
    /\ s.kafka_security_protocol # "PLAINTEXT"

\* Mutant: the development adapter stands in for a missing one.
AnySecretProvider(s) == TRUE

\* Whether _build_secret_provider has an adapter for the settings.
_build_secret_provider(s) == s.secret_provider = "env"

_build_authorization_provider(s) == s.environment # "production"

\* build_container: the first of these that raises ends the process.
build_container(s) ==
  /\ _validate_production_constraints(s)
  /\ _build_secret_provider(s)
  /\ _build_authorization_provider(s)

-----------------------------------------------------------------------------
(* lifespan                                                                *)

StartProcess(s) ==
  /\ process = "down"
  /\ build_container(s)
  /\ process' = "ensure_object_store"
  /\ settings' = s
  /\ UNCHANGED <<up, bucket, client, readiness, faults>>

\* S3ObjectStore.ensure_ready, which creates the bucket if there is none.
EnsureObjectStore ==
  /\ process = "ensure_object_store"
  /\ bucket' = (bucket \/ "object_store" \in up)
  /\ process' = "ensure_workflow_runner"
  /\ UNCHANGED <<settings, up, client, readiness, faults>>

\* TemporalWorkflowRunner.ensure_ready.  The routers are bound to the container
\* and requests are taken whether or not it connected.
EnsureWorkflowRunner ==
  /\ process = "ensure_workflow_runner"
  /\ client' = ("temporal" \in up)
  /\ process' = "serving"
  /\ UNCHANGED <<settings, up, bucket, readiness, faults>>

\* SIGTERM: nothing more is accepted.
StopProcess ==
  /\ process = "serving"
  /\ Fault
  /\ process' = "draining"
  /\ UNCHANGED <<settings, up, bucket, client, readiness>>

\* Nothing in memory survives the process.
ProcessEnds ==
  /\ process' = "down"
  /\ settings' = NoSettings
  /\ client' = FALSE
  /\ readiness' = "none"

\* The lifespan's `finally`, after the requests that were accepted.
ShutdownContainer ==
  /\ process = "draining"
  /\ ProcessEnds
  /\ UNCHANGED <<up, bucket, faults>>

CrashProcess ==
  /\ process # "down"
  /\ Fault
  /\ ProcessEnds
  /\ UNCHANGED <<up, bucket>>

DependencyFails(d) ==
  /\ d \in Fragile \cap up
  /\ Fault
  /\ up' = up \ {d}
  /\ UNCHANGED <<process, settings, bucket, client, readiness>>

DependencyRecovers(d) ==
  /\ d \in Fragile \ up
  /\ up' = up \cup {d}
  /\ UNCHANGED <<process, settings, bucket, client, readiness, faults>>

-----------------------------------------------------------------------------
(* GET /health/ready                                                       *)

\* Mutant: the check added with Temporal is missing from the registry.
WithoutWorkflowRunner ==
  <<"secret_provider", "postgres", "object_store", "mock_kyc", "mock_bureau",
    "mock_employer", "mock_core_banking">>

READINESS_CHECKS ==
  <<"secret_provider", "postgres", "object_store", "workflow_runner",
    "mock_kyc", "mock_bureau", "mock_employer", "mock_core_banking">>

\* The check does not raise.  Without a client _require_client raises, whether
\* or not Temporal can be reached.
Healthy(name) ==
  CASE name = "secret_provider" -> TRUE
    [] name = "object_store"    -> "object_store" \in up /\ bucket
    [] name = "workflow_runner" -> client /\ "temporal" \in up
    [] OTHER                    -> name \in up

\* Every check is made, also after one has failed.
Probe ==
  /\ process = "serving"
  /\ readiness' = IF \A i \in DOMAIN READINESS_CHECKS :
                          Healthy(READINESS_CHECKS[i])
                  THEN "ready" ELSE "not_ready"
  /\ UNCHANGED <<process, settings, up, bucket, client, faults>>
==============================================================================
