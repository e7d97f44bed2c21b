---------------------------- MODULE CaseWorkflow -----------------------------
(***************************************************************************)
(* One loan application and everything that acts on it: the API commands   *)
(* of src/finassist/application/commands and api/routes/applications.py,   *)
(* the Temporal executions of ApplicationWorkflow, and the activity        *)
(* attempts a worker runs for them, any of which may fail, be timed out    *)
(* while it is still running, or commit and lose its answer.               *)
(*                                                                         *)
(* Every command handler is one database transaction; it is one step here. *)
(* That its interleaving with other transactions looks like one step is    *)
(* what module UnitOfWork checks.  Rows of different applications are      *)
(* disjoint, so one application is enough.  Calls that are refused without *)
(* writing anything (a duplicate key, an illegal transition, a decision    *)
(* without an active workflow) change no state and have no action, except  *)
(* inside an activity, where the workflow sees the answer.                 *)
(***************************************************************************)
EXTENDS Naturals, Sequences, ApplicationStatus

CONSTANTS
  ClientKeys,    \* the Idempotency-Key values the applicant's client may send
  Documents,     \* the documents that may be uploaded
  Reviewers,     \* the reviewer ids of the review API
  MaxAttempts,   \* maximum_attempts of the activity retry policy
  MaxFaults      \* bound on the faults injected into one behaviour

ASSUME MaxAttemptsAssumption == MaxAttempts \in Nat \ {0}
ASSUME MaxFaultsAssumption == MaxFaults \in Nat
ASSUME ReviewersAssumption == "nobody" \notin Reviewers

VARIABLES
  status,        \* applications.status
  version,       \* applications.version
  active,        \* applications.active_workflow_id, None when NULL
  queue,         \* the application's review_queue_entries row
  docs,          \* documents of the application
  clientKeys,    \* idempotency keys reserved by API commands
  activityKeys,  \* idempotency keys reserved by activities
  documentKeys,  \* idempotency keys reserved per extracted document
  extractions,   \* document extraction runs
  verifications, \* verification runs
  starting,      \* committed (re)submissions whose start call is outstanding
  exec,          \* the Temporal executions, by workflow id
  attempts,      \* activity attempts running in some worker
  reviewing,     \* review API calls between the status query and the signal
  faults         \* faults injected so far

dbVars == <<status, version, active, queue, docs, clientKeys, activityKeys,
            documentKeys, extractions, verifications>>
vars == <<dbVars, starting, exec, attempts, reviewing, faults>>

-----------------------------------------------------------------------------
(* Workflow ids, activities and decisions                                  *)

\* A workflow id is determined by the version the application had when the
\* workflow was attached (application_workflow_id); versions start at 1, so 0
\* is free to stand for NULL.
None == 0

Activities == {"validate_intake", "check_required_documents",
               "extract_document_facts", "verify_facts",
               "enter_human_review", "apply_review_decision"}

Closed == {"completed", "failed"}
Stages == Activities \cup {"wait"} \cup Closed

\* What the review API, and the handler that applies a decision, accept.
REVIEW_DECISIONS == {"APPROVED", "DECLINED", "NEEDS_MORE_INFORMATION",
                     "ESCALATED"}

\* A ReviewDecisionSignal; the workflow's own timeout decision names nobody.
Nobody == "nobody"
NoDecision == [decision |-> "none", reviewer |-> Nobody]

\* Mutant: the review SLA declines the case.
TimeoutDeclines == [decision |-> "DECLINED", reviewer |-> Nobody]

TimeoutDecision == [decision |-> "ESCALATED", reviewer |-> Nobody]
HumanDecisions == [decision : REVIEW_DECISIONS, reviewer : Reviewers]

\* The review queue row: one per application, keyed by its id.
NoEntry == [state |-> "absent", decision |-> "none", reviewer |-> Nobody]

-----------------------------------------------------------------------------
(* Temporal: scheduling, answering and retrying activities                 *)

FirstAttempt(w, act) ==
  [wf |-> w, act |-> act, n |-> 1, listed |-> FALSE, todo |-> {}]

\* What `run` does after an activity answered with an application status: on to
\* the next activity, or straight to waiting when the case is in review already.
Successor ==
  [validate_intake          |-> "check_required_documents",
   check_required_documents |-> "extract_document_facts",
   extract_document_facts   |-> "verify_facts",
   verify_facts             |-> "enter_human_review",
   enter_human_review       |-> "wait",
   apply_review_decision    |-> "completed"]

\* Mutants: the workflow ignores the status an activity answers with; the
\* workflow ends once its case is in review.
NextStageIgnoresAnswer(act, answer) == Successor[act]
NextStageEndsInReview(act, answer) ==
  IF answer = "AWAITING_HUMAN_REVIEW" THEN "completed" ELSE Successor[act]

NextStage(act, answer) ==
  IF /\ act \in {"validate_intake", "check_required_documents"}
     /\ answer = "AWAITING_HUMAN_REVIEW"
  THEN "wait"
  ELSE Successor[act]

\* Temporal only listens to the attempt it is currently waiting for.
Current(a) ==
  /\ exec[a.wf].stage = a.act
  /\ exec[a.wf].attempt = a.n

\* The attempt answers: the workflow moves on and its next activity, if it has
\* one, is dispatched.  The answer of an attempt that was given up is dropped.
Answer(a, answer) ==
  LET next == NextStage(a.act, answer)
      rest == attempts \ {a}
  IN IF Current(a)
     THEN /\ exec' = [exec EXCEPT ![a.wf].stage = next, ![a.wf].attempt = 1]
          /\ attempts' = IF next \in Activities
                         THEN rest \cup {FirstAttempt(a.wf, next)}
                         ELSE rest
     ELSE attempts' = rest /\ UNCHANGED exec

\* The activity of workflow w is tried again, or, once its attempts are used
\* up, fails the execution.  `rest` are the attempts still running elsewhere.
\* `limit` is where it gives up.
RetryUpTo(w, rest, limit) ==
  IF exec[w].attempt < limit
  THEN /\ exec' = [exec EXCEPT ![w].attempt = @ + 1]
       /\ attempts' = rest \cup {[FirstAttempt(w, exec[w].stage)
                                    EXCEPT !.n = exec[w].attempt + 1]}
  ELSE /\ exec' = [exec EXCEPT ![w].stage = "failed"]
       /\ attempts' = rest

\* Mutants: maximum_attempts counts the retries; no retry.
RetryOnceMore(w, rest) == RetryUpTo(w, rest, MaxAttempts + 1)
RetryNever(w, rest) == RetryUpTo(w, rest, 0)

Retry(w, rest) == RetryUpTo(w, rest, MaxAttempts)

\* The attempt raised: the error is reported, and retried when it may be.
Raise(a) ==
  IF Current(a) THEN Retry(a.wf, attempts \ {a})
                ELSE attempts' = attempts \ {a} /\ UNCHANGED exec

\* The attempt committed, but its worker died or its answer was lost.
LoseAnswer(a) ==
  /\ faults < MaxFaults
  /\ faults' = faults + 1
  /\ attempts' = attempts \ {a}
  /\ UNCHANGED exec

AnswerOrLose(a, answer) ==
  \/ Answer(a, answer) /\ UNCHANGED faults
  \/ LoseAnswer(a)

-----------------------------------------------------------------------------
(* API commands                                                            *)

\* Mutant: one workflow id for all submissions of an application.
AttachUnversioned(w, from) ==
  /\ active' = 1
  /\ starting' = starting \cup {[wf |-> 1, from |-> from]}

AttachWorkflow(w, from) ==
  /\ active' = w
  /\ starting' = starting \cup {[wf |-> w, from |-> from]}

\* Submit the draft, attach the workflow named after the new version, commit;
\* the start call follows outside the transaction.
SubmitApplication(k) ==
  /\ <<"submit_application", k>> \notin clientKeys
  /\ is_legal_transition(status, "SUBMITTED")
  /\ clientKeys' = clientKeys \cup {<<"submit_application", k>>}
  /\ status' = "SUBMITTED"
  /\ version' = version + 1
  /\ AttachWorkflow(version + 1, "SUBMITTED")
  /\ UNCHANGED <<queue, docs, activityKeys, documentKeys, extractions,
                 verifications, exec, attempts, reviewing, faults>>

\* The applicant answers a request for more information.  The transition table
\* also lets INTAKE_VALIDATION move to DOCUMENT_PROCESSING, but no committed
\* state has that status.
ResubmitApplication(k) ==
  /\ <<"resubmit_application", k>> \notin clientKeys
  /\ is_legal_transition(status, "DOCUMENT_PROCESSING")
  /\ clientKeys' = clientKeys \cup {<<"resubmit_application", k>>}
  /\ status' = "DOCUMENT_PROCESSING"
  /\ version' = version + 1
  /\ AttachWorkflow(version + 1, "DOCUMENT_PROCESSING")
  /\ UNCHANGED <<queue, docs, activityKeys, documentKeys, extractions,
                 verifications, exec, attempts, reviewing, faults>>

\* Documents are accepted whatever the status of the application.
UploadDocument(d) ==
  /\ d \notin docs
  /\ docs' = docs \cup {d}
  /\ UNCHANGED <<status, version, active, queue, clientKeys, activityKeys,
                 documentKeys, extractions, verifications, starting, exec,
                 attempts, reviewing, faults>>

\* The workflow starts from SUBMITTED with intake validation, and from
\* DOCUMENT_PROCESSING with the document check.
FirstActivity(from) ==
  IF from = "SUBMITTED" THEN "validate_intake"
                        ELSE "check_required_documents"

\* The start call reaches Temporal.  An id that was used is rejected, which the
\* client treats as success.
StartWorkflow(call) ==
  LET first == FirstActivity(call.from)
  IN /\ call \in starting
     /\ starting' = starting \ {call}
     /\ IF call.wf \in DOMAIN exec
        THEN UNCHANGED <<exec, attempts>>
        ELSE /\ exec' = [w \in DOMAIN exec \cup {call.wf} |->
                           IF w = call.wf
                           THEN [stage   |-> first,      attempt |-> 1,
                                 signal  |-> NoDecision, choice  |-> NoDecision]
                           ELSE exec[w]]
             /\ attempts' = attempts \cup {FirstAttempt(call.wf, first)}
     /\ UNCHANGED <<dbVars, reviewing, faults>>

\* The start call raises, or the API process dies before making it: the failure
\* is logged and nothing makes the call again.
MissStart(call) ==
  /\ call \in starting
  /\ faults < MaxFaults
  /\ faults' = faults + 1
  /\ starting' = starting \ {call}
  /\ UNCHANGED <<dbVars, exec, attempts, reviewing>>

Idle == [wf |-> None, decision |-> "none"]

\* The review endpoint looks up the active workflow ...
BeginReview(r, d) ==
  /\ reviewing[r] = Idle
  /\ active # None
  /\ reviewing' = [reviewing EXCEPT ![r] = [wf |-> active, decision |-> d]]
  /\ UNCHANGED <<dbVars, starting, exec, attempts, faults>>

Open(w) == w \in DOMAIN exec /\ exec[w].stage \notin Closed

\* ... and signals it.  The newest signal replaces one not yet acted on.
SignalReviewDecision(r) ==
  LET call == reviewing[r]
  IN /\ call # Idle
     /\ Open(call.wf)
     /\ exec' = [exec EXCEPT ![call.wf].signal =
                   [decision |-> call.decision, reviewer |-> r]]
     /\ reviewing' = [reviewing EXCEPT ![r] = Idle]
     /\ UNCHANGED <<dbVars, starting, attempts, faults>>

\* Temporal refuses a signal to an execution that is closed or never started.
SignalRefused(r) ==
  /\ reviewing[r] # Idle
  /\ ~Open(reviewing[r].wf)
  /\ reviewing' = [reviewing EXCEPT ![r] = Idle]
  /\ UNCHANGED <<dbVars, starting, exec, attempts, faults>>

-----------------------------------------------------------------------------
(* Activity attempts                                                       *)

\* Mutant: an idempotency key that differs from attempt to attempt.
KeyPerAttempt(a) == FALSE

Reserved(a) == <<a.wf, a.act>> \in activityKeys
Reserve(a) == activityKeys' = activityKeys \cup {<<a.wf, a.act>>}

\* The attempt found its own key reserved by an earlier attempt: it answers
\* with what it can read now.
DuplicateAttempt(a) ==
  /\ a.act # "extract_document_facts"
  /\ Reserved(a)
  /\ AnswerOrLose(a, status)
  /\ UNCHANGED <<dbVars, starting, reviewing>>

\* The transition to AWAITING_HUMAN_REVIEW together with the INSERT of the
\* queue row; the row's key is the application id.
enter_human_review ==
  /\ queue.state = "absent"
  /\ status' = "AWAITING_HUMAN_REVIEW"
  /\ queue' = [NoEntry EXCEPT !.state = "pending"]

\* Two transitions in one transaction: through INTAKE_VALIDATION to
\* DOCUMENT_PROCESSING when the catalog still covers the request, else to
\* review.  The catalog is reference data that may change at any time.
ValidateIntake(a) ==
  /\ a.act = "validate_intake"
  /\ ~Reserved(a)
  /\ is_legal_transition(status, "INTAKE_VALIDATION")
  /\ \/ status' = "DOCUMENT_PROCESSING" /\ UNCHANGED queue
     \/ enter_human_review
  /\ version' = version + 2
  /\ Reserve(a)
  /\ AnswerOrLose(a, status')
  /\ UNCHANGED <<active, docs, clientKeys, documentKeys, extractions,
                 verifications, starting, reviewing>>

\* Mutant: the document check passes without a document.
NoDocumentCheck == "VERIFICATION"

\* What the document check moves the application to.
DocumentOutcome ==
  IF docs # {} THEN "VERIFICATION" ELSE "AWAITING_HUMAN_REVIEW"

CheckRequiredDocuments(a) ==
  /\ a.act = "check_required_documents"
  /\ ~Reserved(a)
  /\ is_legal_transition(status, DocumentOutcome)
  /\ \/ /\ DocumentOutcome = "VERIFICATION"
        /\ status' = "VERIFICATION"
        /\ UNCHANGED queue
     \/ /\ DocumentOutcome = "AWAITING_HUMAN_REVIEW"
        /\ enter_human_review
  /\ version' = version + 1
  /\ Reserve(a)
  /\ AnswerOrLose(a, status')
  /\ UNCHANGED <<active, docs, clientKeys, documentKeys, extractions,
                 verifications, starting, reviewing>>

\* Extraction lists the documents once, then runs one transaction for each.
ListDocuments(a) ==
  /\ a.act = "extract_document_facts"
  /\ ~a.listed
  /\ attempts' = (attempts \ {a})
                 \cup {[a EXCEPT !.listed = TRUE, !.todo = docs]}
  /\ UNCHANGED <<dbVars, starting, exec, reviewing, faults>>

\* Mutant: an extraction key that differs from attempt to attempt.
DocumentKeyPerAttempt(a, d) == FALSE

DocumentReserved(a, d) == <<a.wf, d>> \in documentKeys

ProcessDocument(a, d) ==
  /\ d \in a.todo
  /\ attempts' = (attempts \ {a}) \cup {[a EXCEPT !.todo = @ \ {d}]}
  /\ IF DocumentReserved(a, d)
     THEN UNCHANGED <<documentKeys, extractions>>
     ELSE /\ documentKeys' = documentKeys \cup {<<a.wf, d>>}
          /\ extractions' = Append(extractions, <<a.wf, d>>)
  /\ UNCHANGED <<status, version, active, queue, docs, clientKeys,
                 activityKeys, verifications, starting, exec, reviewing,
                 faults>>

FinishExtraction(a) ==
  /\ a.act = "extract_document_facts"
  /\ a.listed
  /\ a.todo = {}
  /\ AnswerOrLose(a, status)
  /\ UNCHANGED <<dbVars, starting, reviewing>>

VerifyFacts(a) ==
  /\ a.act = "verify_facts"
  /\ ~Reserved(a)
  /\ verifications' = Append(verifications, a.wf)
  /\ Reserve(a)
  /\ AnswerOrLose(a, status)
  /\ UNCHANGED <<status, version, active, queue, docs, clientKeys,
                 documentKeys, extractions, starting, reviewing>>

EnterHumanReview(a) ==
  /\ a.act = "enter_human_review"
  /\ ~Reserved(a)
  /\ is_legal_transition(status, "AWAITING_HUMAN_REVIEW")
  /\ enter_human_review
  /\ version' = version + 1
  /\ Reserve(a)
  /\ AnswerOrLose(a, status')
  /\ UNCHANGED <<active, docs, clientKeys, documentKeys, extractions,
                 verifications, starting, reviewing>>

\* Mutant: the decision is stored but the entry is not closed.
DecidedStillPending(choice) ==
  [state |-> "pending", decision |-> choice.decision,
   reviewer |-> choice.reviewer]

\* mark_decided on the queue row.
Decided(choice) ==
  [state |-> "decided", decision |-> choice.decision,
   reviewer |-> choice.reviewer]

\* The decision moves the application, detaches the workflow and closes the
\* queue entry.
ApplyReviewDecision(a) ==
  LET choice == exec[a.wf].choice
  IN /\ a.act = "apply_review_decision"
     /\ ~Reserved(a)
     /\ is_legal_transition(status, choice.decision)
     /\ queue.state # "absent"
     /\ status' = choice.decision
     /\ version' = version + 1
     /\ active' = None
     /\ queue' = Decided(choice)
     /\ Reserve(a)
     /\ AnswerOrLose(a, status')
     /\ UNCHANGED <<docs, clientKeys, documentKeys, extractions,
                    verifications, starting, reviewing>>

-----------------------------------------------------------------------------
(* Handlers that raise, faults and timers                                  *)

\* The handler asks for a transition the table forbids.
Illegal(a) ==
  /\ ~Reserved(a)
  /\ \/ /\ a.act = "validate_intake"
        /\ ~is_legal_transition(status, "INTAKE_VALIDATION")
     \/ /\ a.act = "check_required_documents"
        /\ ~is_legal_transition(status, DocumentOutcome)
     \/ /\ a.act = "enter_human_review"
        /\ ~is_legal_transition(status, "AWAITING_HUMAN_REVIEW")
     \/ /\ a.act = "apply_review_decision"
        /\ ~is_legal_transition(status, exec[a.wf].choice.decision)

\* The handler inserts a queue row that exists, or closes one that does not.
QueueRowError(a) ==
  /\ ~Reserved(a)
  /\ \/ /\ \/ a.act = "enter_human_review"
           \/ /\ a.act = "check_required_documents"
              /\ DocumentOutcome = "AWAITING_HUMAN_REVIEW"
        /\ queue.state # "absent"
     \/ /\ a.act = "apply_review_decision"
        /\ queue.state = "absent"

\* IllegalStateTransitionError is not retried, a database error is.
HandlerRaises(a) ==
  /\ Illegal(a) \/ QueueRowError(a)
  /\ IF Illegal(a)
     THEN /\ attempts' = attempts \ {a}
          /\ exec' = IF Current(a)
                     THEN [exec EXCEPT ![a.wf].stage = "failed"]
                     ELSE exec
     ELSE Raise(a)
  /\ UNCHANGED <<dbVars, starting, reviewing, faults>>

\* A dependency is down, or the transaction lost a race: nothing (more) is
\* committed and the error is reported.
TransientFailure(a) ==
  /\ faults < MaxFaults
  /\ faults' = faults + 1
  /\ Raise(a)
  /\ UNCHANGED <<dbVars, starting, reviewing>>

\* The worker dies with the attempt.
CrashWorker(a) ==
  /\ faults < MaxFaults
  /\ faults' = faults + 1
  /\ attempts' = attempts \ {a}
  /\ UNCHANGED <<dbVars, starting, exec, reviewing>>

Running(w) == \E a \in attempts : a.wf = w /\ Current(a)

\* start_to_close passes although the attempt still runs: it becomes a zombie
\* that may yet commit.
TimeoutRunning(w) ==
  /\ exec[w].stage \in Activities
  /\ Running(w)
  /\ faults < MaxFaults
  /\ faults' = faults + 1
  /\ Retry(w, attempts)
  /\ UNCHANGED <<dbVars, starting, reviewing>>

\* start_to_close passes and no answer will come.
TimeoutLost(w) ==
  /\ exec[w].stage \in Activities
  /\ ~Running(w)
  /\ Retry(w, attempts)
  /\ UNCHANGED <<dbVars, starting, reviewing, faults>>

Decide(w, d) ==
  /\ exec' = [exec EXCEPT ![w].stage = "apply_review_decision",
                          ![w].attempt = 1, ![w].choice = d]
  /\ attempts' = attempts \cup {FirstAttempt(w, "apply_review_decision")}
  /\ UNCHANGED <<dbVars, starting, reviewing, faults>>

\* wait_condition returns because a decision was signalled, now or earlier ...
TakeDecision(w) ==
  /\ exec[w].stage = "wait"
  /\ exec[w].signal # NoDecision
  /\ Decide(w, exec[w].signal)

\* ... or the review SLA passes with none.
SlaTimeout(w) ==
  /\ exec[w].stage = "wait"
  /\ exec[w].signal = NoDecision
  /\ Decide(w, TimeoutDecision)

-----------------------------------------------------------------------------
(* The specification                                                       *)

\* A freshly created application.
Init ==
  /\ status = "DRAFT"
  /\ version = 1
  /\ active = None
  /\ queue = NoEntry
  /\ docs = {}
  /\ clientKeys = {}
  /\ activityKeys = {}
  /\ documentKeys = {}
  /\ extractions = <<>>
  /\ verifications = <<>>
  /\ starting = {}
  /\ exec = [w \in {} |-> NoDecision]
  /\ attempts = {}
  /\ reviewing = [r \in Reviewers |-> Idle]
  /\ faults = 0

Api ==
  \/ \E k \in ClientKeys : SubmitApplication(k) \/ ResubmitApplication(k)
  \/ \E d \in Documents : UploadDocument(d)
  \/ \E call \in starting : StartWorkflow(call) \/ MissStart(call)
  \/ \E r \in Reviewers, d \in REVIEW_DECISIONS : BeginReview(r, d)
  \/ \E r \in Reviewers : SignalReviewDecision(r) \/ SignalRefused(r)

\* The steps of a running attempt that its own code takes.
RunAttempt(a) ==
  \/ DuplicateAttempt(a)
  \/ ValidateIntake(a)
  \/ CheckRequiredDocuments(a)
  \/ ListDocuments(a)
  \/ \E d \in a.todo : ProcessDocument(a, d)
  \/ FinishExtraction(a)
  \/ VerifyFacts(a)
  \/ EnterHumanReview(a)
  \/ ApplyReviewDecision(a)
  \/ HandlerRaises(a)

Worker ==
  \E a \in attempts : RunAttempt(a) \/ TransientFailure(a) \/ CrashWorker(a)

Timer(w) == TimeoutLost(w) \/ TakeDecision(w) \/ SlaTimeout(w)

Temporal == \E w \in DOMAIN exec : TimeoutRunning(w) \/ Timer(w)

Next == Api \/ Worker \/ Temporal

Spec == Init /\ [][Next]_vars

\* Temporal dispatches what is scheduled, workers finish or fail what they run,
\* timers fire.  Clients and reviewers owe nothing, and no fault is owed.
Fairness ==
  /\ WF_vars(\E call \in starting : StartWorkflow(call))
  /\ WF_vars(\E a \in attempts : RunAttempt(a))
  /\ WF_vars(\E w \in DOMAIN exec : Timer(w))

FairSpec == Spec /\ Fairness

-----------------------------------------------------------------------------
(* Properties                                                              *)

Attempts == [wf : Nat, act : Activities, n : 1 .. MaxAttempts,
             listed : BOOLEAN, todo : SUBSET Documents]

Executions == [stage : Stages, attempt : 1 .. MaxAttempts,
               signal : HumanDecisions \cup {NoDecision},
               choice : HumanDecisions \cup {NoDecision, TimeoutDecision}]

\* Every table and every execution holds values of its type; in particular no
\* activity is ever tried more than maximum_attempts times.
TypeOK ==
  /\ status \in ApplicationStatus
  /\ version \in Nat
  /\ active \in Nat
  /\ queue \in [state    : {"absent", "pending", "decided"},
                decision : REVIEW_DECISIONS \cup {"none"},
                reviewer : Reviewers \cup {Nobody}]
  /\ docs \subseteq Documents
  /\ clientKeys \subseteq
       {"submit_application", "resubmit_application"} \X ClientKeys
  /\ activityKeys \subseteq Nat \X Activities
  /\ documentKeys \subseteq Nat \X Documents
  /\ extractions \in Seq(Nat \X Documents)
  /\ verifications \in Seq(Nat)
  /\ starting \subseteq [wf : Nat, from : {"SUBMITTED", "DOCUMENT_PROCESSING"}]
  /\ DOMAIN exec \subseteq Nat
  /\ exec \in [DOMAIN exec -> Executions]
  /\ attempts \subseteq Attempts
  /\ \A a \in attempts : a.wf \in DOMAIN exec
  /\ reviewing \in
       [Reviewers -> [wf : Nat, decision : REVIEW_DECISIONS] \cup {Idle}]
  /\ faults \in 0 .. MaxFaults

\* The review queue never disagrees with the application: an entry is pending
\* exactly while the case awaits review, and a case that left review by a
\* decision has an entry that records that decision.
ReviewQueueAgrees ==
  /\ queue.state = "pending" <=> status = "AWAITING_HUMAN_REVIEW"
  /\ status \in REVIEW_DECISIONS =>
       queue.state = "decided" /\ queue.decision = status

\* No credit outcome, and no request to the applicant, without a person: the
\* entry of such a case names the reviewer whose signal was applied.
HumanDecidesOutcome ==
  status \in {"APPROVED", "DECLINED", "NEEDS_MORE_INFORMATION"} =>
    queue.reviewer \in Reviewers

\* The activities that move the application.
Movers == {"validate_intake", "check_required_documents",
           "enter_human_review", "apply_review_decision"}

\* Whatever was retried, timed out or resubmitted, only the attached workflow
\* can still move the application: any attempt that would take effect belongs
\* to it.
SingleDriver ==
  \A a \in attempts : a.act \in Movers /\ ~Reserved(a) => a.wf = active

\* No attempt, however late it runs, asks for a transition the status machine
\* forbids.
NoIllegalTransitionRaised == \A a \in attempts : ~Illegal(a)

\* A document is extracted at most once, and the facts are verified at most
\* once, for each execution, however often the activity is retried.
EffectsOnce ==
  /\ \A i, j \in DOMAIN extractions :
       extractions[i] = extractions[j] => i = j
  /\ \A i, j \in DOMAIN verifications :
       verifications[i] = verifications[j] => i = j

\* An execution that completed had its decision recorded and is no longer the
\* one the review endpoint would signal.
CompletedIsDetached ==
  \A w \in DOMAIN exec :
    exec[w].stage = "completed" =>
      /\ <<w, "apply_review_decision">> \in activityKeys
      /\ active # w

\* A case that goes from verification to review was looked at: some document
\* of it was extracted by the execution that sends it.
ReviewHasEvidence ==
  \A w \in DOMAIN exec :
    exec[w].stage \in {"verify_facts", "enter_human_review"} =>
      \E d \in docs : <<w, d>> \in documentKeys

\* A workflow id attached to the application was never used for an execution.
FreshWorkflowIds ==
  [][active' \notin {active, None} => active' \notin DOMAIN exec]_vars

\* Approved, declined and cancelled cases stay as they are: leftover attempts
\* of their workflows change nothing of them.
OutcomeIsFinal ==
  [][is_terminal(status) => UNCHANGED <<status, version, active, queue>>]_vars

\* A submitted case whose workflow started gets a decision, by a reviewer or by
\* the review SLA, unless as many attempts fail as an activity has.
SubmittedIsDecided ==
  (status = "SUBMITTED" /\ active \in DOMAIN exec)
    ~> (status \in REVIEW_DECISIONS \/ faults >= MaxAttempts)

\* "Every path still converges on waiting for a human decision": a running
\* workflow brings its case to review.
EveryPathReachesReview ==
  (active # None /\ active \in DOMAIN exec)
    ~> (status \in REVIEW_DECISIONS \cup {"AWAITING_HUMAN_REVIEW"})

-----------------------------------------------------------------------------
(* The inductive invariant behind SingleDriver                             *)

\* The activities an execution may have dispatched by the time it is at a
\* stage, and the status each mover finds when it takes effect.
Dispatched ==
  [validate_intake          |-> {"validate_intake"},
   check_required_documents |-> {"validate_intake", "check_required_documents"},
   extract_document_facts   |-> {"validate_intake", "check_required_documents",
                                 "extract_document_facts"},
   verify_facts             |-> {"validate_intake", "check_required_documents",
                                 "extract_document_facts", "verify_facts"},
   enter_human_review       |-> Activities \ {"apply_review_decision"},
   wait                     |-> Activities \ {"apply_review_decision"},
   apply_review_decision    |-> Activities,
   completed                |-> Activities,
   failed                   |-> Activities]

StatusBefore ==
  [validate_intake          |-> "SUBMITTED",
   check_required_documents |-> "DOCUMENT_PROCESSING",
   enter_human_review       |-> "VERIFICATION",
   apply_review_decision    |-> "AWAITING_HUMAN_REVIEW"]

\* The application is where a mover of the attached workflow w expects it.
Ready(w, act) == active = w /\ status = StatusBefore[act]

\* What the stage of execution w says about the application.
StageAgrees(w) ==
  LET st == exec[w].stage
      done == <<w, st>> \in activityKeys
  IN /\ st \in Movers /\ ~done => Ready(w, st)
     /\ st = "validate_intake" /\ done =>
          active = w /\ status \in {"DOCUMENT_PROCESSING",
                                    "AWAITING_HUMAN_REVIEW"}
     /\ st = "check_required_documents" /\ done =>
          active = w /\ status \in {"VERIFICATION", "AWAITING_HUMAN_REVIEW"}
     /\ st \in {"extract_document_facts", "verify_facts"} =>
          active = w /\ status = "VERIFICATION"
     /\ st = "enter_human_review" /\ done =>
          active = w /\ status = "AWAITING_HUMAN_REVIEW"
     /\ st = "wait" => active = w /\ status = "AWAITING_HUMAN_REVIEW"
     /\ st = "apply_review_decision" /\ done => active # w
     /\ st = "completed" =>
          active # w /\ <<w, "apply_review_decision">> \in activityKeys
     /\ st = "apply_review_decision" => exec[w].choice # NoDecision

\* Workflow ids are versions the application has had.
IdsInv ==
  /\ version >= 1
  /\ active <= version
  /\ \A w \in DOMAIN exec : 1 <= w /\ w <= version

\* Between review and (re)submission no workflow is attached, and the statuses
\* in the middle of a transaction or of later pipeline stages never show.
StatusInv ==
  /\ status \in {"DRAFT"} \cup REVIEW_DECISIONS => active = None
  /\ status \in {"DRAFT", "SUBMITTED", "DOCUMENT_PROCESSING", "VERIFICATION",
                 "AWAITING_HUMAN_REVIEW"} \cup REVIEW_DECISIONS

StartingInv ==
  \A c \in starting : /\ c.wf = active /\ c.wf # None
                      /\ c.from = status
                      /\ c.wf \notin DOMAIN exec

KeysInv ==
  \A k \in activityKeys :
    k[1] \in DOMAIN exec /\ k[2] \in Dispatched[exec[k[1]].stage]

AttemptsInv ==
  \A a \in attempts :
    /\ a.wf \in DOMAIN exec
    /\ a.act \in Dispatched[exec[a.wf].stage]
    /\ a.act \in Movers /\ ~Reserved(a) => Ready(a.wf, a.act)
    /\ a.act = "apply_review_decision" => exec[a.wf].choice # NoDecision

StagesInv == \A w \in DOMAIN exec : StageAgrees(w)

\* Inductive: it implies SingleDriver and NoIllegalTransitionRaised.
DriverInv ==
  /\ IdsInv
  /\ StatusInv
  /\ StartingInv
  /\ KeysInv
  /\ AttemptsInv
  /\ StagesInv

=============================================================================
