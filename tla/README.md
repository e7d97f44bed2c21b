# A formal model of finassist, a loan application backend

finassist takes a loan application from draft to a human credit decision. An HTTP
API writes cases to PostgreSQL; a Temporal workflow drives each submitted case
through intake validation, document extraction and fact verification to a review
queue; a reviewer's decision is signalled to the workflow and applied by it. Every
change is recorded in an outbox, relayed to Kafka and projected into a status read
model. The code is in `src/finassist`, `apps/worker` and `migrations`; paths below
are relative to the repository root.

## 1. Inventory

| Component | State | Operations | Correct when |
|---|---|---|---|
| Application aggregate, `domain/applications` | status, version, active workflow id, pending events | `create`, `transition_to`, `attach_workflow`, `detach_workflow` | only legal transitions; outcomes are final |
| Command handlers, `application/commands` | none (one transaction each) | create, submit, resubmit, upload, advance intake, advance documents, process document, verify facts, enter review, apply decision | an idempotency key takes effect once; the review queue agrees with the status |
| Workflow and activities, `infrastructure/temporal` | per execution: stage, signalled decision, SLA timer; per activity: attempt | start, signal, six activities, retry | one execution drives a case; late attempts do no harm; only a person decides |
| Unit of work and repositories, `infrastructure/postgres` | tables, open transactions | begin, reserve key, load, save, record events, commit, rollback | no lost update; events match versions; audit trail is a chain |
| Outbox relay and projection consumer, `infrastructure/kafka` | outbox, topic, positions, inbox, projection | sweep, publish, getmany, apply, commit offsets | nothing lost; projection never regresses and catches up |
| Worker process, `apps/worker/main.py` | three retried tasks, liveness server, stop event | start, fail, back off, serve, stop | loops come back; shutdown ends; the container outlives its users |
| Document intake, `infrastructure/documents`, `object_store` | objects, document rows, extraction runs, facts | scan, put, add row, parse, classify, extract | rows have objects; facts have provenance; a listed document is concluded unless a text breaks the parser |
| Fact verification | runs, checks, snapshots, contradictions | KYC, employer, bureau, core banking, store | verdicts rest on evidence; contradictions reach the reviewer |
| Review API, `api/routes/applications.py` | none | query, then signal | decisions only for cases in review |
| Money and products, `domain/shared/money.py`, `product.py` | the product row | round, compare, `accepts` | the amount on file is the requested one, within its product's bounds |
| HTTP layer, `api` | requests under way | limit, validate, handle, map errors to problems, answer | an answer is true, also after a lost one; a client that retries settles |
| API process, `bootstrap`, `api/app.py`, `health.py` | settings, adapters, Temporal client, bucket | validate settings, build container, start, probe, stop | no stand-in adapter in production; ready only when every dependency was found |
| Logging, telemetry, security stubs, mock services, synthetic data, AI placeholders | | | see section 8 |

The parts interact through PostgreSQL rows (all of them), Temporal (the API starts
and signals executions, the worker runs activities), the object store (upload writes,
extraction reads) and Kafka (relay to consumer). Two things are never atomic: a
database commit and a call to another system. Most of what is hard follows from that:

* activity attempts that are timed out but still running, or that committed and lost
  their answer;
* a submission that commits and whose workflow start fails;
* a signal sent to a workflow that was read from the database some time before;
* concurrent transactions under READ COMMITTED without row locks;
* an event published but not marked, an effect applied but its offset not committed;
* an object stored and its row rolled back;
* a commit whose acknowledgement, or a response, is lost, and the retry with its key;
* a process that started during an outage and serves without what it missed.

`PROJECT.json` lists each of these hazards at its line, with the properties that
would catch it going wrong.

## 2. Modules

| Module | Models |
|---|---|
| `ApplicationStatus` | the status machine of `status.py` |
| `CaseHistory` | abstract specification: one append-only, legal status history per application |
| `CaseWorkflow` | one case: API commands, Temporal executions, activity attempts, review queue |
| `UnitOfWork` | the command handlers as interleaved transactions; implements `CaseHistory` |
| `StatusFeed` | abstract specification of the read side: committed versions arrive once each, in any order, and the newest is shown |
| `EventPipeline` | outbox relay, Kafka topic, projection consumer; implements `StatusFeed` |
| `WorkerProcess` | tasks, failures and shutdown of the worker process |
| `DocumentIntake` | upload, scanner, object store, extraction |
| `FactVerification` | the four checks, their records and the answer to the workflow |
| `LoanTerms` | operators for amounts of money, products and the columns that store them |
| `ApiProcess` | settings, start-up, shutdown and readiness of the API process |
| `ApiRequests` | create and submit requests of several clients; composes `ApiProcess` and `LoanTerms` |
| `CaseWorkflowProofs`, `CaseDriverProofs` | theorems about `CaseWorkflow` |
| `UnitOfWorkProofs` | theorems about `UnitOfWork`, with the refinement of `CaseHistory` |
| `EventPipelineProofs` | theorems about `EventPipeline`, with the refinement of `StatusFeed` |
| `WorkerProcessProofs`, `DocumentIntakeProofs`, `FactVerificationProofs` | theorems about the module of that name |
| `ApiRequestsProofs` | theorems about `LoanTerms`, `ApiProcess` and `ApiRequests` |
| `MC...` | one per component: instances for TLC |

An operator whose comment begins with "Mutant" is a wrong version of the definition
that follows it. It is used nowhere; replacing the definition by it must break the
property named in `PROJECT.json`, which shows that the property looks at that code.

### CaseWorkflow

A handler is one database transaction and one action. The columns of the case
(`status`, `version`, `active`), its review queue row, documents, the three kinds of
idempotency keys and the extraction and verification runs are variables. `exec` maps
workflow ids to executions: the stage `run` is suspended at, the number of the
attempt the server waits for, the signalled decision and the decision taken.
`attempts` are the attempts some worker is running, whether or not the server still
waits for them: `TimeoutRunning` starts a second attempt next to the first,
`LoseAnswer` commits without the server hearing of it, `CrashWorker` drops an
attempt, `TransientFailure` makes one fail. A workflow id stands for the version in
its name (`application:{tenant}:{id}:v{version}`), so ids are numbers and 0 is NULL.

A submission and its start call are separate (`SubmitApplication`, then
`StartWorkflow` or `MissStart`), as are the status query and the signal of the review
route (`BeginReview`, then `SignalReviewDecision` or `SignalRefused`). An activity
whose key is reserved answers with the status it reads (`DuplicateAttempt`). An
error from the status machine or from the queue row's key is an action of its own
(`HandlerRaises`).

### UnitOfWork

A session steps through `reserve_idempotency_key`, `get`, the version check of
`save`, the flush, the checkpoint read and the writes of `record_domain_events`, and
`commit`, and may be cut off between any two. What it wrote is its own until it
commits. Inserting a key, updating a row or inserting a checkpoint that another open
transaction has written waits. The audit chain is a relation between events: a hash
is represented by the event it is the hash of.

### EventPipeline

Rows enter the outbox at any position, because `created_at` is taken before the
commit, and by different processes. A relay locks a batch, publishes row by row and
commits; a failure before the commit leaves rows published and unmarked. The consumer
applies one record at a time and commits offsets after each partition's records, as
the loop does; `OffsetsToCommit` is what `commit()` without arguments commits.
`StatusFeed` is what is left of all this for a reader of the projection: the inbox is
its set of arrivals, the projection what it shows.

### WorkerProcess

A task is created, starting, serving, in backoff, stopping or returned. A Kafka loop
holds a client from its start to its `finally`; closing it may fail too. The Temporal
task awaits the stop event while `run_task` runs beside it.

### DocumentIntake and FactVerification

A file is a record of what the scanner and the extractor look at: size, extension,
leading bytes, whether pypdf opens it, encryption, pages, what pypdf meets when it
extracts the text of the pages, and the markers and fields the text shows. The scanner
opens a PDF and counts its pages and goes no further; the parser extracts every page's
text and maps one error, `PdfReadError`. An activity is between two attempts
(`scheduled`), in one (`running`, with the documents its loop has left in `todo`) or
`failed`: `LoseAttempt` is an attempt lost to the environment, `RaiseFromDocument` one
that an exception ended after its transaction was rolled back, and `AttemptFails` what
the retry policy makes of both. The loop takes documents by `uploaded_at`, which the
upload handlers read off their own clocks (`Times`), in any relation to the order in
which they commit. A fact is a type and a value; the answers of the KYC and employer systems are
chosen from a set with both sides of every threshold. Amounts are whole cents, and
`declared_annual_income` rounds as the code does: twelve times a number of cents is
never exactly half a unit, so the rounding mode for ties does not matter. The deviation of
the incomes is compared by multiplication instead of division; the sample values are
ones for which floating point division gives the same answer.

### LoanTerms, ApiProcess and ApiRequests

A requested amount is counted in thousandths of the currency, one digit more than a
cent, so that halves can be said; `quantize` rounds it to cents as
`Money.__post_init__` does, and `IsNearestEven` says what that should mean without an
algorithm. `ColumnLimit` and `DecimalLimit` stand for the first amount too large for
`NUMERIC(18, 2)` and for Python's 28 digits.

`ApiProcess` follows `lifespan`: settings are validated and adapters chosen
(`StartProcess`), the bucket is made sure of and Temporal is connected to, each once
and each allowed to fail (`EnsureObjectStore`, `EnsureWorkflowRunner`). Nothing tries
again later: `client` changes only there. `Healthy` is what each readiness check needs.

In `ApiRequests` a client has one request, one idempotency key and a few slots for
attempts. An attempt passes the size limit, the schemas and the ids and currency
(`Receive`), reserves its key (`Reserve`, which waits for an open transaction with the
same key until `StatementTimeout`), reads (`LoadProduct`, `LoadApplication`), commits
(`Commit`, whose acknowledgement may be lost, or `CommitConflicts`), starts the
workflow once and answers. Exceptions become answers by the table of
`problem_details.py`; one that is not in it is a 500. Any attempt may be lost with its
answer or with the process, and is sent again while the client knows nothing better.
`ApiRequests` and `CaseWorkflow` overlap in submission: the first has the client's
side of it and one process, the second what the workflow makes of it.

## 3. Runs

Passing:

| Run | Shows | Bounds |
|---|---|---|
| `CaseSafety` | the invariants of section 5, with retries, abandoned attempts, lost answers, lost starts and resubmissions; no document is extracted twice by an execution; no case goes from verification to review without an extracted document; a submitted, started case is decided unless an activity used up its attempts | 1 key, 1 document, 1 reviewer, 3 attempts, 2 faults |
| `UowSafety` | no lost update, complete outbox, keys effective once, audit parents recorded | 2 sessions, 2 keys, 1 application, 4 handlers |
| `UowJourney` | `CaseHistory` implemented along the whole life of a case, and no transaction waits for ever | 2 sessions, 1 key, the 7 handlers that change the status |
| `PipelineSafety` | published is on the topic, `StatusFeed` is implemented, offsets follow effects, the projection catches up | 2 relays, 3 versions, batch of 2, 1 fault, 1 partition |
| `WorkerLifecycle` | loops serve again, a stop ends the process, the container outlives the tasks | 3 faults |
| `DocIntake` | rows have objects, one document per key, provenance, listed documents concluded unless a text breaks the parser | 12 files, 2 sessions, 2 keys, 3 documents, 2 clock readings, 3 attempts, 2 faults |
| `VerifyFacts` | verdicts, snapshots, contradictions and the summary agree | 4 documents, 2 executions, 1 fault |
| `ApiService` | answers tell what became of the request; amounts on file are within the catalogue; readiness is honest; retrying clients settle | 3 clients, one with two attempts at once, 12 kinds of create request, 4 settings, 2 catalogues, 1 fault |

Ending in a counterexample, each against a sentence of the repository (quoted in
`PROJECT.json`):

| Run | What happens |
|---|---|
| `CaseSecondReview` | a case is sent back, resubmitted and cannot enter review again: the row of its first review has the same primary key, every attempt fails, the case stays in verification |
| `UowAuditChain` | two transactions read one checkpoint; the audit chain forks |
| `PipelinePartitions` | with two partitions in one `getmany`, the first commit covers records of the second that are not applied yet |
| `WorkerTemporal` | `worker.run()` fails after it started; nobody awaits it and it is not started again |

Two more things the models show, of which no run is kept: the review route accepts a
decision as soon as a workflow is attached (`applications.py:281`), so one sent during
intake is held by the execution and applied when the case enters review; and the
version check of `save` reads without a lock (`repository.py:102`), so the loser of a
race is stopped by the unique key of `application_versions` and ends in an integrity
error instead of `ConcurrencyConflictError`. Neither breaks a property above.

Why the bounds are enough. Two transactions are what a conflict takes, and a third
can only queue behind them. Two faults let an attempt lose its answer and its
successor time out while running, which is the longest chain in which one attempt
can mistake the work of another; with three attempts the last one still finds
whatever both left behind, so that the case must be decided in every behaviour.
One client key reserves once per operation, so a case can be submitted and
resubmitted; the proofs of section 5 remove these bounds for the properties they
cover. Two relays with three versions and a batch of two publish out of order and
twice. In `DocIntake` two documents are what it takes to fail between them, or for one to take
the other along, and three attempts outlast two faults; in
`CaseSafety` one is enough, because `EffectsOnce` and `ReviewHasEvidence` are proved
for any number. `ApiService` has one fault, and with it every single loss, crash,
outage or stop at every point of three requests, two of which compete for one
application and two for one key; the amounts lie on both sides of a half at both ends
of the product's range. Deadlock checking is
off: a decided case, a stopped worker and an exhausted set of keys are ends.

## 4. Fairness

* `CaseWorkflow`: a start call that was made and not lost, running attempts, and
  timers go on (Temporal persists tasks and timers and dispatches them again; workers
  poll). Faults, clients and reviewers owe nothing: the SLA timer alone decides a case
  nobody looks at. `SubmittedIsDecided` excepts behaviours with as many faults as an
  activity has attempts: there an execution fails and the case is stranded, as the
  retry policy says. A text that breaks the parser fails every attempt of an
  extraction and counts as that many faults.
* `UnitOfWork`: strong fairness of each session's step, because PostgreSQL grants a
  lock in the order of waiting.
* `EventPipeline`: each relay and the consumer keep polling (`_run_with_retry`
  restarts them).
* `WorkerProcess`: the event loop runs every task that can go on, and the Temporal
  library's `shutdown` returns. No signal and no failure is owed.
* `DocumentIntake`: an accepted request and a retried activity go on.
  `ListedIsConcluded` speaks of executions whose remaining attempts outlast the
  failures still to come (`AttemptsSuffice`), and excepts one case, which section 8
  describes: a text at or before the document that breaks the parser.
* `ApiRequests`: the event loop serves what it accepted, a client that has no answer
  (or a 500) sends again, the supervisor starts and probes the process, uvicorn ends
  its drain, outages end. No fault and no stop is owed. `ClientSettles` leaves out
  requests that raise an exception outside the table: they get a 500 for ever.

## 5. Proofs

Every safety property that a passing run checks, the type invariants included, is also
a theorem: TLAPS checks it for every value of the constants. The proofs assume what
the modules' ASSUMEs say, which TLC evaluates on every run:

* `CaseWorkflow`: `MaxAttempts` is a positive number, `MaxFaults` a number, and
  "nobody" is no reviewer's id;
* `UnitOfWork`: the operations are handlers of the code;
* `EventPipeline`: every application has a partition, and a batch has room for a row;
* `DocumentIntake`, `WorkerProcess`: limits and bounds are numbers;
* `FactVerification`: a gross pay that was extracted is a number of cents (the pattern
  matches digits only), and the employer service answers with an integer;
* `LoanTerms`, `ApiProcess`, `ApiRequests`: the limits are natural numbers, every
  product is one the table and `Product` accept, a create request has an integral
  amount and term, a submission names an application of some client, an unlisted id or
  no id at all, and only dependencies fail.

All these proofs have one shape. The invariant of the run is seldom inductive; an
invariant of the proofs module strengthens it, and one lemma for each action, or for
each group of similar actions, shows that it is kept.

`CaseWorkflowProofs`:

* `TypeCorrect`: the type invariant. One lemma each for the API, the worker and
  Temporal, and lemmas for the operators they share (`Answer`, `Retry`, `Raise`).
* `QueueAgrees` and `HumanDecides`: the queue row agrees with the status, and only a
  named reviewer's decision approves, declines or sends back. Their step lemma needs
  that all other actions leave the row alone (`OnlyMoversMove`) and that the decision
  an attempt applies is a human's or the timeout's (`ChoiceIsDecision`).
* `OutcomeFinal`: no step changes a terminal case, from the shape of the transition
  table (`TerminalStays`).

`CaseDriverProofs`:

* `DriverInvariant`: `DriverInv` is an invariant. `SingleDriver` is not inductive: to
  see that a late attempt does nothing one must know what its key says about the
  stage of its execution, and what that stage says about the case. `DriverInv` says
  it: workflow ids are versions the case has had (`IdsInv`); which statuses occur and
  when no workflow is attached (`StatusInv`); an outstanding start call belongs to the
  attached, not yet existing execution (`StartingInv`); keys and attempts belong to
  activities their execution has reached (`KeysInv`, `AttemptsInv`); an attempt that
  has not reserved its key finds the case in the status it expects (`AttemptsInv`);
  and each stage, with or without its key reserved, fixes the status and whether the
  execution is attached (`StagesInv`).
* `SingleDriverHolds`, `NoIllegalTransition`, `CompletedDetached`, `FreshIds` follow
  from it.
* `EffectsHappenOnce`: its invariant `EffectsInv` adds that an extraction or
  verification run exists only under a reserved key, so a second attempt finds the key.
* `ReviewIsInformed`: `EvidenceInv` adds that a case in verification has a document, and
  that an extraction attempt with nothing left to do has run for one: its list came from
  documents that are there and never vanish.
* `CasesAreDriven`: what safety can say of `SubmittedIsDecided`. A case in process has a
  start call outstanding or an open execution, with three exceptions: its start call
  was missed, at least `MaxAttempts` faults happened, or it had been decided before (then
  the queue row is in the way, which is the finding of `CaseSecondReview`). `PaidInv` is
  the accounting behind it: attempt n of an activity was paid for with n - 1 faults, and
  with one more when no answer to it will come; `StartedInv` says how a case in process
  can be without an execution.

`UnitOfWorkProofs`:

* `SessionsInvariant`: `Inv`. A transaction works on what it read some steps ago, so the
  invariant relates each open session to the tables. `SessionShape` says which fields a
  session has set at each step; `SessionSeesRow`, that from the moment it has flushed its
  row nobody else can have moved the application; `SessionIsLegal`, that what it is going
  to write is a path of the status machine from the version it read; `SessionReads`,
  that the checkpoint it read was recorded; and `Apart`, that two sessions never hold one
  key or one flushed row. `HistoryInv` adds that successive snapshots are legal
  transitions.
* `UpdatesAreNotLost`, `OutboxIsFaithful`, `KeysTakeEffectOnce`, `AuditTrailIsRecorded`
  and `TypeCorrect` are conjuncts of it.
* `TransactionsImplementHistory`: the refinement. The history of an application is read
  off its snapshots, one for each version by `NoLostUpdate`. The initial tables map to
  the empty history; a commit maps to the extension of one history by the legal path the
  session has written; every other step leaves the snapshots alone and is a stutter.
* `TransactionsDoNotDeadlock` and `TransactionsGoForward`: what safety can say of
  `TransactionsEnd`, for any number of sessions. Key, application row and checkpoint row
  are locked in this order (`LocksAreOrdered`: whom a session waits for has come further
  than the session itself), so the session that has come furthest waits for nobody; and
  no step takes an open session back (`Place`).

`EventPipelineProofs`:

* `PublishedEventsAreOnTopic`: `RelaysInv` says of every row a relay has locked, sent or
  not, that no other relay has it, and of every row sent that the topic has it. The topic
  only grows (`TopicGrows`), so this survives the steps of all others.
* `ProjectionShowsNewest` is inductive with the types, and gives the action property
  `ProjectionNeverGoesBack`, because no step removes an event from the inbox.
* `OffsetsAreSafeOnOnePartition`: `FetchedInv` says that the records fetched end where
  the position stands, `AppliedInv` that those before them are applied. Offsets are
  positions, so a commit is safe when nothing fetched is left, which is the case exactly
  when the topic has one partition. This is the one hypothesis of the theorem, and
  `PipelinePartitions` shows that it is needed.
* `PipelineImplementsFeed`: the refinement, for any number of partitions. A commit maps
  to `Commit`, the first application of an event to `Arrive`, everything else stutters.
  That what arrives was committed needs `RealInv`: no row a relay works on, no record
  of the topic and no event of the inbox announces a version that was not committed.
* `NoEventIsLost`: on one partition, a committed version was applied, or is on the topic
  at or after the committed offset, or its row is unpublished. `OutboxInv` (every
  committed version has its row) and the two theorems about published rows and offsets
  give it. It is what safety can say of `ProjectionCatchesUp`.

`WorkerProcessProofs`: `ContainerIsClosedLast` needs to know who owns what (`Ownership`:
a loop has a client exactly while it serves, a running Temporal worker belongs to a task
that serves it) and that a closed container means returned tasks (`Closing`).
`RetriesUntilStopped` is what safety can say of `LoopsServeAgain`, and
`ShutdownGoesForward` of `StopEndsProcess`: after the stop event every step of a task
raises its rank, so that it takes at most three more.

`DocumentIntakeProofs`: `RowsAreBacked`, `KeysAreUnique` and `FactsAreTraceable` rest on
what an upload under way owns (`OwnsUpload`): an id and a key nobody else uses, and the
object before it may commit. An id names one object (`StoreInv`), so extraction reads the
file the row was written for (`ReadsItsFile`); runs and facts exist only under a key
(`ExtractionInv`), so a fact and a run of one document come from one transaction.

`FactVerificationProofs`: `VerdictsAreEvident` and `ContradictionsAreReported` rest on
what the uncommitted run holds at each step of the handler (`OpenInv`: exactly the checks
made so far, each with its evidence), on tables that hold rows of committed executions
only (`TablesInv`), and on evidence being local to one run and system
(`EvidenceIsLocal`). That the retry after a lost answer reports enough is a fact about
cardinalities: the checks of one run are a subset of all checks.

`ApiRequestsProofs`:

* `RoundsHalfEven`: `quantize` meets `IsNearestEven` for every integer and every unit.
* `BoundsSurviveRounding`: bounds of whole units hold after rounding if they held before.
* `AcceptedIsStorable`: what `accepts` lets through meets the table's constraints, so
  that `Application.create` and the CHECKs never refuse it.
* `AmountsStayWithinCatalog`: `AmountsWithinCatalog` for any clients, requests, slots
  and catalogue. It is not inductive: `AmountsInv` adds what an attempt was found to ask
  for by the time it reaches a step (`Admitted`: a supported currency before the
  reservation, an accepted amount before the commit, a DRAFT to submit) and the shape of
  rows and attempts.
* `AnswersAreTrue`: `AnswersTellTruth`. `TruthInv` says for each place of an attempt what
  must be true for the answer it may still give: which key it holds and that no other
  attempt holds it (`Holds`), what it has committed (`Truthful`), which row it aims at
  (`Aimed`), and how keys, rows and workflows on file go together (`TablesInv`).
* `TypeCorrect`, and `NeverFalselyReady`: the safety half of `ReadinessTellsTruth`; a
  process that missed the bucket or Temporal at its start never answers ready.

Only model-checked, because the prover cannot do it: liveness under fairness and
`ENABLED`, that is `SubmittedIsDecided`, `TransactionsEnd`, `ProjectionCatchesUp`,
`LoopsServeAgain`, `StopEndsProcess`, `ListedIsConcluded`, `ClientSettles`, and of
`ReadinessTellsTruth` that a process that has both is found ready once outages are
over. For five of them a theorem gives the part that needs no fairness: what keeps
the case, the transaction, the event, the loop or the shutdown from getting stuck.
`NextBatch` describes the
rows a sweep takes instead of computing them with `SelectSeq`, whose result only an
induction over sequences could characterise.

## 6. Assumptions about other systems

* PostgreSQL: READ COMMITTED, unique keys, row locks, `SKIP LOCKED`.
* Temporal: durable executions, at least one attempt at a time, retries up to the
  policy's maximum, answers of abandoned attempts ignored, one execution per id.
* Kafka: records of a partition in order, at least once; positions are lost with the
  consumer, committed offsets are not.
* Object store: a put is visible to later gets. Objects whose upload rolled back stay
  (`upload_document.py` accepts this).
* SHA-256: no collisions.
* uvicorn: stops accepting at SIGTERM and lets accepted requests finish.

## 7. Abstractions

One tenant, one case in `CaseWorkflow` (rows of different cases are disjoint). Intake
validation's rules are a choice of its outcomes. Outside `ApiRequests`, requests that
are refused without writing change nothing and have no action. In `ApiRequests` a
transaction is two steps, and products do not change, since nothing in the code
updates them, and the statement timeout is modelled where a request waits for its key
and not where its last statement waits for a row or the checkpoint: the answer would be
the same 500, which claims nothing. `UnitOfWork` has three locks, the key, the
application row and the checkpoint row, and `TransactionsDoNotDeadlock` is about these.
The row of the review queue is a fourth: `apply_review_decision.py` flushes it before
the application row and `enter_human_review.py` after. It is left out because one
execution drives a case (`SingleDriver`) and has entered review when it applies a
decision; a late attempt to enter review finds its key used. Times are left out: a timer may fire
whenever it is set, which covers every duration. Cancellation has transitions in the
status machine and no handler, so no case is ever cancelled.

## 8. Not modelled

The answers of the routes other than create and submit (their effects are in
`CaseWorkflow` and `DocumentIntake`), metrics, logging and telemetry, the HTTP calls of
the external clients, security stand-ins, the mock services and synthetic data (test
doubles), row level security and grants, and the AI packages, which are empty.

Reading the HTTP layer showed four things of which no run is kept. An unsupported
currency, an id that is no UUID, a blank applicant name and an amount of too many
digits end in a 500 although the client is at fault, because the exceptions are plain
`ValueError` or `decimal.InvalidOperation`. `domain/documents/exceptions.py` says its
exceptions are mapped in `problem_details.py`; the table has none of them, so they
end in a 500 as well. A duplicate is answered with 409 and without the result of the
first attempt. The health router is a module global, so a second application in one
process probes the container of the first.

Modelling the extraction showed a disagreement that no run of its own is kept for;
`ListedIsConcluded` carries it as its exception. `process_document.py:5-9` says that an
unparseable document "is not a hard failure here". That is so for a file without a
parser and for a `PdfReadError`. Any other exception from `page.extract_text()` is
mapped neither by `pdf_parser.py:37` nor caught at `process_document.py:105`: the
transaction rolls back, every attempt of the activity meets it again, the documents
uploaded after it are never read, and after the last attempt the execution fails.
Without the exception TLC finds that behaviour, and needs no fault for it.

Two limits of the system are documented by the repository
(`docs/architecture/phase-3-completion.md`) and are therefore no findings: a
submission whose workflow start failed is not taken up again, and an escalated case
has no way back.

## 9. Plan

1. Done: status machine, case workflow, transactions, event pipeline, worker, document
   intake, fact verification, money and products, API process and requests; every safety
   property of the runs proved, the refinements of `CaseHistory` by `UnitOfWork` and of
   `StatusFeed` by `EventPipeline`, and the safety part of five liveness properties.
2. Modelling left: a composition in which the case workflow's extraction and
   verification steps are the ones of `DocumentIntake` and `FactVerification`; the
   answers of the remaining routes.
3. Proofs to come: which records a restart may skip on several partitions
   (`OffsetsFollowEffects` without its hypothesis), and the safety part of
   `ListedIsConcluded` and `ClientSettles`.
