------------------------- MODULE CaseWorkflowProofs --------------------------
(***************************************************************************)
(* Proofs about CaseWorkflow, for any sets of keys, documents and          *)
(* reviewers and any bounds.                                               *)
(***************************************************************************)
EXTENDS CaseWorkflow, TLAPS

-----------------------------------------------------------------------------
(* Facts about the operators of the model                                  *)

\* Every transition of the table ends in a status.
LEMMA LegalTarget ==
  ASSUME NEW s, NEW t, is_legal_transition(s, t)
  PROVE  s \in ApplicationStatus /\ t \in ApplicationStatus
  BY DEF is_legal_transition, ALLOWED_TRANSITIONS, _FORWARD_PIPELINE,
         _CAN_ESCALATE_TO_HUMAN_REVIEW, HumanOutcomes, _CANCELLABLE_FROM,
         ApplicationStatus, Pipeline, TERMINAL_STATUSES

\* Read backwards: where the table lets each status be entered from.
LEMMA LegalSource ==
  ASSUME NEW s
  PROVE  /\ is_legal_transition(s, "SUBMITTED") => s = "DRAFT"
         /\ is_legal_transition(s, "INTAKE_VALIDATION") => s = "SUBMITTED"
         /\ is_legal_transition(s, "DOCUMENT_PROCESSING") =>
              s \in {"INTAKE_VALIDATION", "NEEDS_MORE_INFORMATION"}
         /\ is_legal_transition(s, "VERIFICATION") => s = "DOCUMENT_PROCESSING"
         /\ ~is_legal_transition(s, "none")
  BY DEF is_legal_transition, ALLOWED_TRANSITIONS, _FORWARD_PIPELINE,
         _CAN_ESCALATE_TO_HUMAN_REVIEW, HumanOutcomes, _CANCELLABLE_FROM,
         ApplicationStatus, Pipeline, TERMINAL_STATUSES

\* Nothing leaves a terminal status.
LEMMA TerminalStays ==
  ASSUME NEW s, NEW t, is_terminal(s)
  PROVE  ~is_legal_transition(s, t)
  BY DEF is_terminal, is_legal_transition, ALLOWED_TRANSITIONS,
         _FORWARD_PIPELINE, _CAN_ESCALATE_TO_HUMAN_REVIEW, HumanOutcomes,
         _CANCELLABLE_FROM, ApplicationStatus, Pipeline, TERMINAL_STATUSES

\* A first attempt is an attempt.
LEMMA FirstAttemptType ==
  ASSUME NEW w \in Nat, NEW act \in Activities
  PROVE  FirstAttempt(w, act) \in Attempts
  BY MaxAttemptsAssumption DEF FirstAttempt, Attempts

\* The workflow code goes from an activity to one of its stages.
LEMMA NextStageType ==
  ASSUME NEW act \in Activities, NEW answer
  PROVE  NextStage(act, answer) \in Stages
  BY DEF NextStage, Successor, Stages, Activities, Closed

\* Appending a run to the log of runs keeps it a sequence of them.
LEMMA AppendType ==
  ASSUME NEW S, NEW s \in Seq(S), NEW e \in S
  PROVE  Append(s, e) \in Seq(S)
  OBVIOUS

\* The type of the two variables that Temporal's bookkeeping changes.
TemporalOK ==
  /\ DOMAIN exec \subseteq Nat
  /\ exec \in [DOMAIN exec -> Executions]
  /\ attempts \subseteq Attempts
  /\ \A a \in attempts : a.wf \in DOMAIN exec

\* Moving an execution to another stage or attempt keeps it an execution.
LEMMA MoveType ==
  ASSUME TemporalOK, NEW w, NEW st \in Stages, NEW n \in 1 .. MaxAttempts,
         exec' = [exec EXCEPT ![w].stage = st, ![w].attempt = n]
  PROVE  DOMAIN exec' = DOMAIN exec /\ exec' \in [DOMAIN exec' -> Executions]
<1> DEFINE moved(e) == [e EXCEPT !.stage = st, !.attempt = n]
<1>1. \A e \in Executions : moved(e) \in Executions
  BY DEF Executions
<1>2. exec' = [v \in DOMAIN exec |-> IF v = w THEN moved(exec[v]) ELSE exec[v]]
  BY Zenon
<1> HIDE DEF moved
<1>3. DOMAIN exec' = DOMAIN exec
  BY <1>2
<1>4. \A v \in DOMAIN exec : exec'[v] \in Executions
  BY <1>1, <1>2 DEF TemporalOK
<1> QED BY <1>2, <1>3, <1>4

\* So does a signal, and a choice of what to apply.
LEMMA SignalType ==
  ASSUME TemporalOK, NEW w, NEW d \in HumanDecisions \cup {NoDecision},
         exec' = [exec EXCEPT ![w].signal = d]
  PROVE  DOMAIN exec' = DOMAIN exec /\ exec' \in [DOMAIN exec' -> Executions]
  BY DEF TemporalOK, Executions

\* So does the choice of the decision the execution will apply.
LEMMA ChoiceType ==
  ASSUME TemporalOK, NEW w,
         NEW d \in HumanDecisions \cup {NoDecision, TimeoutDecision},
         exec' = [exec EXCEPT ![w].stage = "apply_review_decision",
                              ![w].attempt = 1, ![w].choice = d]
  PROVE  DOMAIN exec' = DOMAIN exec /\ exec' \in [DOMAIN exec' -> Executions]
<1> DEFINE moved(e) == [e EXCEPT !.stage = "apply_review_decision",
                                 !.attempt = 1, !.choice = d]
<1>1. "apply_review_decision" \in Stages /\ 1 \in 1 .. MaxAttempts
  BY MaxAttemptsAssumption DEF Stages, Activities
<1>2. \A e \in Executions : moved(e) \in Executions
  BY <1>1 DEF Executions
<1>3. exec' = [v \in DOMAIN exec |-> IF v = w THEN moved(exec[v]) ELSE exec[v]]
  BY Zenon
<1> HIDE DEF moved
<1>4. DOMAIN exec' = DOMAIN exec
  BY <1>3
<1>5. \A v \in DOMAIN exec : exec'[v] \in Executions
  BY <1>2, <1>3 DEF TemporalOK
<1> QED BY <1>3, <1>4, <1>5

\* An answer keeps executions and attempts well typed.
LEMMA AnswerType ==
  ASSUME TemporalOK, NEW a \in attempts, NEW answer, Answer(a, answer)
  PROVE  TemporalOK'
<1> DEFINE next == NextStage(a.act, answer)
<1>a. a \in Attempts
  BY DEF TemporalOK
<1>t. a.wf \in Nat /\ a.act \in Activities
  BY <1>a DEF Attempts
<1>n. next \in Stages
  BY <1>t, NextStageType
<1>1. CASE Current(a)
  <2>1. exec' = [exec EXCEPT ![a.wf].stage = next, ![a.wf].attempt = 1]
    BY <1>1 DEF Answer
  <2>2. DOMAIN exec' = DOMAIN exec /\ exec' \in [DOMAIN exec' -> Executions]
    <3>1. 1 \in 1 .. MaxAttempts
      BY MaxAttemptsAssumption
    <3> QED BY <2>1, <3>1, <1>n, MoveType
  <2>3. attempts' \subseteq attempts \cup {FirstAttempt(a.wf, next)}
        /\ (next \notin Activities => attempts' \subseteq attempts)
    BY <1>1 DEF Answer
  <2>4. attempts' \subseteq Attempts
    BY <2>3, <1>t, FirstAttemptType DEF TemporalOK
  <2>5. \A b \in attempts' : b.wf \in DOMAIN exec
    BY <2>3 DEF TemporalOK, FirstAttempt
  <2> QED BY <2>2, <2>4, <2>5 DEF TemporalOK
<1>2. CASE ~Current(a)
  BY <1>2 DEF Answer, TemporalOK
<1> QED BY <1>1, <1>2

\* So does a retry, of an activity whose last attempt had a legal number.
LEMMA RetryType ==
  ASSUME TemporalOK, NEW w \in DOMAIN exec, NEW rest \in SUBSET attempts,
         exec[w].stage \in Activities, exec[w].attempt \in 1 .. MaxAttempts,
         Retry(w, rest)
  PROVE  TemporalOK'
<1> DEFINE n == exec[w].attempt
<1>1. CASE n < MaxAttempts
  <2>1. n + 1 \in 1 .. MaxAttempts
    BY <1>1, MaxAttemptsAssumption
  <2>2. exec' = [exec EXCEPT ![w].attempt = n + 1]
    BY <1>1 DEF Retry, RetryUpTo, TemporalOK
  <2>3. DOMAIN exec' = DOMAIN exec /\ exec' \in [DOMAIN exec' -> Executions]
    BY <2>1, <2>2 DEF TemporalOK, Executions
  <2>4. [FirstAttempt(w, exec[w].stage) EXCEPT !.n = n + 1] \in Attempts
    BY <2>1 DEF FirstAttempt, Attempts, TemporalOK
  <2>5. attempts' \subseteq Attempts
    BY <1>1, <2>4 DEF Retry, RetryUpTo, TemporalOK
  <2>6. \A b \in attempts' : b.wf \in DOMAIN exec
    BY <1>1 DEF Retry, RetryUpTo, TemporalOK, FirstAttempt
  <2> QED BY <2>3, <2>5, <2>6 DEF TemporalOK
<1>2. CASE ~(n < MaxAttempts)
  <2>1. exec' = [exec EXCEPT ![w].stage = "failed"] /\ attempts' = rest
    BY <1>2 DEF Retry, RetryUpTo
  <2>2. DOMAIN exec' = DOMAIN exec /\ exec' \in [DOMAIN exec' -> Executions]
    <3>1. "failed" \in Stages
      BY DEF Stages, Closed
    <3> QED BY <2>1, <3>1 DEF TemporalOK, Executions
  <2> QED BY <2>1, <2>2 DEF TemporalOK
<1> QED BY <1>1, <1>2

\* And an attempt that raises.
LEMMA RaiseType ==
  ASSUME TemporalOK, NEW a \in attempts, Raise(a)
  PROVE  TemporalOK'
<1>a. a \in Attempts
  BY DEF TemporalOK
<1>1. CASE Current(a)
  <2>1. exec[a.wf].stage \in Activities /\ exec[a.wf].attempt \in 1 .. MaxAttempts
    BY <1>a, <1>1 DEF Current, Attempts
  <2>2. attempts \ {a} \in SUBSET attempts /\ a.wf \in DOMAIN exec
    BY DEF TemporalOK
  <2> QED BY <1>1, <2>1, <2>2, RetryType DEF Raise
<1>2. CASE ~Current(a)
  BY <1>2 DEF Raise, TemporalOK
<1> QED BY <1>1, <1>2

\* And an answer that may be lost, which is the only fault it can count.
LEMMA AnswerOrLoseType ==
  ASSUME TemporalOK, faults \in 0 .. MaxFaults, NEW a \in attempts, NEW answer,
         AnswerOrLose(a, answer)
  PROVE  TemporalOK' /\ faults' \in 0 .. MaxFaults
<1>1. CASE Answer(a, answer) /\ UNCHANGED faults
  BY <1>1, AnswerType
<1>2. CASE LoseAnswer(a)
  BY <1>2, MaxFaultsAssumption DEF LoseAnswer, TemporalOK
<1> QED BY <1>1, <1>2 DEF AnswerOrLose

\* The last part of TypeOK is TemporalOK.
LEMMA TypeOKTemporal == TypeOK => TemporalOK
  BY DEF TypeOK, TemporalOK

-----------------------------------------------------------------------------
(* Type correctness                                                        *)

\* A freshly created application is well typed.
LEMMA TypeInit == Init => TypeOK
<1> SUFFICES ASSUME Init PROVE TypeOK
  OBVIOUS
<1>1. DOMAIN exec \subseteq Nat /\ exec \in [DOMAIN exec -> Executions]
  BY DEF Init
<1>2. status \in ApplicationStatus
  BY DEF Init, ApplicationStatus
<1>3. reviewing \in
        [Reviewers -> [wf : Nat, decision : REVIEW_DECISIONS] \cup {Idle}]
  BY DEF Init
<1>4. queue \in [state    : {"absent", "pending", "decided"},
                 decision : REVIEW_DECISIONS \cup {"none"},
                 reviewer : Reviewers \cup {Nobody}]
  BY DEF Init, NoEntry
<1>5. extractions \in Seq(Nat \X Documents) /\ verifications \in Seq(Nat)
  BY DEF Init
<1>6. faults \in 0 .. MaxFaults
  BY MaxFaultsAssumption DEF Init
<1>7. attempts \subseteq Attempts /\ active \in Nat /\ version \in Nat
  BY DEF Init, None
<1> QED BY <1>1, <1>2, <1>3, <1>4, <1>5, <1>6, <1>7 DEF Init, TypeOK

\* The API commands and the calls that follow them keep every variable in its
\* type.
LEMMA TypeApi == TypeOK /\ Api => TypeOK'
<1> SUFFICES ASSUME TypeOK, Api PROVE TypeOK'
  OBVIOUS
<1>1. ASSUME NEW k \in ClientKeys, SubmitApplication(k) PROVE TypeOK'
  <2>1. status' \in ApplicationStatus
    BY <1>1 DEF SubmitApplication, ApplicationStatus
  <2>2. version' \in Nat /\ active' \in Nat
    BY <1>1 DEF SubmitApplication, AttachWorkflow, TypeOK
  <2>3. clientKeys' \subseteq
          {"submit_application", "resubmit_application"} \X ClientKeys
    BY <1>1 DEF SubmitApplication, TypeOK
  <2>4. starting' \subseteq [wf : Nat, from : {"SUBMITTED", "DOCUMENT_PROCESSING"}]
    BY <1>1 DEF SubmitApplication, AttachWorkflow, TypeOK
  <2> QED BY <1>1, <2>1, <2>2, <2>3, <2>4 DEF SubmitApplication, TypeOK
<1>2. ASSUME NEW k \in ClientKeys, ResubmitApplication(k) PROVE TypeOK'
  <2>1. status' \in ApplicationStatus
    BY <1>2 DEF ResubmitApplication, ApplicationStatus, Pipeline
  <2>2. version' \in Nat /\ active' \in Nat
    BY <1>2 DEF ResubmitApplication, AttachWorkflow, TypeOK
  <2>3. clientKeys' \subseteq
          {"submit_application", "resubmit_application"} \X ClientKeys
    BY <1>2 DEF ResubmitApplication, TypeOK
  <2>4. starting' \subseteq [wf : Nat, from : {"SUBMITTED", "DOCUMENT_PROCESSING"}]
    BY <1>2 DEF ResubmitApplication, AttachWorkflow, TypeOK
  <2> QED BY <1>2, <2>1, <2>2, <2>3, <2>4 DEF ResubmitApplication, TypeOK
<1>3. ASSUME NEW d \in Documents, UploadDocument(d) PROVE TypeOK'
  BY <1>3 DEF UploadDocument, TypeOK
<1>4. ASSUME NEW call \in starting, StartWorkflow(call) PROVE TypeOK'
  <2> DEFINE first == FirstActivity(call.from)
             fresh == [stage   |-> first,      attempt |-> 1,
                       signal  |-> NoDecision, choice  |-> NoDecision]
  <2>1. call.wf \in Nat /\ starting' \subseteq starting
    BY <1>4 DEF StartWorkflow, TypeOK
  <2>2. first \in Activities /\ first \in Stages
    BY DEF FirstActivity, Activities, Stages
  <2>3. CASE call.wf \in DOMAIN exec
    BY <1>4, <2>1, <2>3 DEF StartWorkflow, TypeOK, dbVars
  <2>4. CASE call.wf \notin DOMAIN exec
    <3>1. exec' = [w \in DOMAIN exec \cup {call.wf} |->
                     IF w = call.wf THEN fresh ELSE exec[w]]
          /\ attempts' = attempts \cup {FirstAttempt(call.wf, first)}
      BY <1>4, <2>4 DEF StartWorkflow
    <3>2. fresh \in Executions
      BY <2>2, MaxAttemptsAssumption DEF Executions
    <3>3. DOMAIN exec' \subseteq Nat /\ exec' \in [DOMAIN exec' -> Executions]
      BY <3>1, <3>2, <2>1 DEF TypeOK
    <3>4. attempts' \subseteq Attempts
      BY <3>1, <2>1, <2>2, FirstAttemptType DEF TypeOK
    <3>5. \A a \in attempts' : a.wf \in DOMAIN exec'
      BY <3>1 DEF TypeOK, FirstAttempt
    <3> QED BY <1>4, <2>1, <3>3, <3>4, <3>5 DEF StartWorkflow, TypeOK, dbVars
  <2> QED BY <2>3, <2>4
<1>5. ASSUME NEW call \in starting, MissStart(call) PROVE TypeOK'
  BY <1>5, MaxFaultsAssumption DEF MissStart, TypeOK, dbVars
<1>6. ASSUME NEW r \in Reviewers, NEW d \in REVIEW_DECISIONS, BeginReview(r, d)
      PROVE TypeOK'
  BY <1>6 DEF BeginReview, TypeOK, dbVars
<1>7. ASSUME NEW r \in Reviewers, SignalReviewDecision(r) PROVE TypeOK'
  <2> DEFINE call == reviewing[r]
             new == [decision |-> call.decision, reviewer |-> r]
  <2>1. new \in HumanDecisions \cup {NoDecision}
    BY <1>7 DEF SignalReviewDecision, TypeOK, HumanDecisions
  <2>2. exec' = [exec EXCEPT ![call.wf].signal = new]
    BY <1>7 DEF SignalReviewDecision
  <2>3. DOMAIN exec' = DOMAIN exec /\ exec' \in [DOMAIN exec' -> Executions]
    BY <2>1, <2>2, TypeOKTemporal, SignalType
  <2>4. reviewing' \in
          [Reviewers -> [wf : Nat, decision : REVIEW_DECISIONS] \cup {Idle}]
    BY <1>7 DEF SignalReviewDecision, TypeOK
  <2> QED BY <1>7, <2>3, <2>4 DEF SignalReviewDecision, TypeOK, dbVars
<1>8. ASSUME NEW r \in Reviewers, SignalRefused(r) PROVE TypeOK'
  BY <1>8 DEF SignalRefused, TypeOK, dbVars
<1> QED BY <1>1, <1>2, <1>3, <1>4, <1>5, <1>6, <1>7, <1>8 DEF Api

\* So does every step of an activity attempt, whether it commits, answers, raises
\* or dies.
LEMMA TypeWorker ==
  ASSUME TypeOK, Worker
  PROVE  TypeOK'
<1>0. TemporalOK /\ faults \in 0 .. MaxFaults
  BY TypeOKTemporal DEF TypeOK
<1> PICK a \in attempts :
      RunAttempt(a) \/ TransientFailure(a) \/ CrashWorker(a)
  BY DEF Worker
<1>a. a \in Attempts
  BY DEF TypeOK
<1>k. Reserve(a) => activityKeys' \subseteq Nat \X Activities
  BY <1>a DEF Reserve, TypeOK, Attempts
<1>r. enter_human_review =>
        /\ status' \in ApplicationStatus
        /\ queue' \in [state    : {"absent", "pending", "decided"},
                       decision : REVIEW_DECISIONS \cup {"none"},
                       reviewer : Reviewers \cup {Nobody}]
  BY DEF enter_human_review, NoEntry, ApplicationStatus
<1>1. CASE DuplicateAttempt(a)
  <2>1. TemporalOK' /\ faults' \in 0 .. MaxFaults
    BY <1>0, <1>1, AnswerOrLoseType DEF DuplicateAttempt
  <2> QED BY <1>1, <2>1 DEF DuplicateAttempt, TypeOK, TemporalOK, dbVars
<1>2. CASE ValidateIntake(a)
  <2>1. TemporalOK' /\ faults' \in 0 .. MaxFaults
    BY <1>0, <1>2, AnswerOrLoseType DEF ValidateIntake
  <2>2. /\ status' \in ApplicationStatus
        /\ queue' \in [state    : {"absent", "pending", "decided"},
                       decision : REVIEW_DECISIONS \cup {"none"},
                       reviewer : Reviewers \cup {Nobody}]
    <3>1. CASE status' = "DOCUMENT_PROCESSING" /\ UNCHANGED queue
      BY <3>1 DEF TypeOK, ApplicationStatus, Pipeline
    <3> QED BY <1>2, <1>r, <3>1 DEF ValidateIntake
  <2>3. version' \in Nat
    BY <1>2 DEF ValidateIntake, TypeOK
  <2> QED BY <1>2, <1>k, <2>1, <2>2, <2>3 DEF ValidateIntake, TypeOK, TemporalOK
<1>3. CASE CheckRequiredDocuments(a)
  <2>1. TemporalOK' /\ faults' \in 0 .. MaxFaults
    BY <1>0, <1>3, AnswerOrLoseType DEF CheckRequiredDocuments
  <2>2. /\ status' \in ApplicationStatus
        /\ queue' \in [state    : {"absent", "pending", "decided"},
                       decision : REVIEW_DECISIONS \cup {"none"},
                       reviewer : Reviewers \cup {Nobody}]
    <3>1. CASE status' = "VERIFICATION" /\ UNCHANGED queue
      BY <3>1 DEF TypeOK, ApplicationStatus, Pipeline
    <3> QED BY <1>3, <1>r, <3>1 DEF CheckRequiredDocuments
  <2>3. version' \in Nat
    BY <1>3 DEF CheckRequiredDocuments, TypeOK
  <2> QED BY <1>3, <1>k, <2>1, <2>2, <2>3
          DEF CheckRequiredDocuments, TypeOK, TemporalOK
<1>4. CASE ListDocuments(a)
  <2>1. [a EXCEPT !.listed = TRUE, !.todo = docs] \in Attempts
    BY <1>a DEF Attempts, TypeOK
  <2>2. attempts' \subseteq Attempts
    BY <1>4, <2>1 DEF ListDocuments, TypeOK
  <2>3. \A b \in attempts' : b.wf \in DOMAIN exec
    BY <1>4, <1>a DEF ListDocuments, TypeOK, Attempts
  <2> QED BY <1>4, <2>2, <2>3 DEF ListDocuments, TypeOK, dbVars
<1>5. ASSUME NEW d \in a.todo, ProcessDocument(a, d) PROVE TypeOK'
  <2>1. d \in Documents /\ a.wf \in Nat
    BY <1>a DEF Attempts
  <2>2. [a EXCEPT !.todo = a.todo \ {d}] \in Attempts
    BY <1>a DEF Attempts
  <2>3. attempts' \subseteq Attempts
    BY <1>5, <1>a, <2>2 DEF ProcessDocument, TypeOK, Attempts
  <2>4. documentKeys' \subseteq Nat \X Documents
    BY <1>5, <2>1 DEF ProcessDocument, TypeOK
  <2>5. extractions' \in Seq(Nat \X Documents)
    <3>1. <<a.wf, d>> \in Nat \X Documents
      BY <2>1
    <3>2. extractions \in Seq(Nat \X Documents)
      BY DEF TypeOK
    <3>3. Append(extractions, <<a.wf, d>>) \in Seq(Nat \X Documents)
      BY <3>1, <3>2, AppendType, Zenon
    <3>4. extractions' \in {extractions, Append(extractions, <<a.wf, d>>)}
      BY <1>5 DEF ProcessDocument
    <3> QED BY <3>2, <3>3, <3>4, Zenon
  <2>6. \A b \in attempts' : b.wf \in DOMAIN exec
    BY <1>5, <1>a DEF ProcessDocument, TypeOK, Attempts
  <2> QED BY <1>5, <2>3, <2>4, <2>5, <2>6 DEF ProcessDocument, TypeOK
<1>6. CASE FinishExtraction(a)
  <2>1. TemporalOK' /\ faults' \in 0 .. MaxFaults
    BY <1>0, <1>6, AnswerOrLoseType DEF FinishExtraction
  <2> QED BY <1>6, <2>1 DEF FinishExtraction, TypeOK, TemporalOK, dbVars
<1>7. CASE VerifyFacts(a)
  <2>1. TemporalOK' /\ faults' \in 0 .. MaxFaults
    BY <1>0, <1>7, AnswerOrLoseType DEF VerifyFacts
  <2>2. verifications' \in Seq(Nat)
    BY <1>7, <1>a DEF VerifyFacts, TypeOK, Attempts
  <2> QED BY <1>7, <1>k, <2>1, <2>2 DEF VerifyFacts, TypeOK, TemporalOK
<1>8. CASE EnterHumanReview(a)
  <2>1. TemporalOK' /\ faults' \in 0 .. MaxFaults
    BY <1>0, <1>8, AnswerOrLoseType DEF EnterHumanReview
  <2>2. version' \in Nat
    BY <1>8 DEF EnterHumanReview, TypeOK
  <2> QED BY <1>8, <1>k, <1>r, <2>1, <2>2 DEF EnterHumanReview, TypeOK, TemporalOK
<1>9. CASE ApplyReviewDecision(a)
  <2> DEFINE choice == exec[a.wf].choice
  <2>1. TemporalOK' /\ faults' \in 0 .. MaxFaults
    BY <1>0, <1>9, AnswerOrLoseType DEF ApplyReviewDecision
  <2>2. status' \in ApplicationStatus
    BY <1>9, LegalTarget DEF ApplyReviewDecision
  <2>3. queue' \in [state    : {"absent", "pending", "decided"},
                    decision : REVIEW_DECISIONS \cup {"none"},
                    reviewer : Reviewers \cup {Nobody}]
    <3>1. choice \in HumanDecisions \cup {NoDecision, TimeoutDecision}
      BY <1>0 DEF TemporalOK, Executions
    <3>2. /\ choice.decision \in REVIEW_DECISIONS \cup {"none"}
          /\ choice.reviewer \in Reviewers \cup {Nobody}
      BY <3>1 DEF HumanDecisions, NoDecision, TimeoutDecision, REVIEW_DECISIONS
    <3> QED BY <1>9, <3>2 DEF ApplyReviewDecision, Decided
  <2> QED BY <1>9, <1>k, <2>1, <2>2, <2>3
          DEF ApplyReviewDecision, TypeOK, TemporalOK, None
<1>10. CASE HandlerRaises(a)
  <2>1. TemporalOK'
    <3>1. CASE Illegal(a)
      <4>1. "failed" \in Stages
        BY DEF Stages, Closed
      <4> QED BY <1>0, <1>10, <3>1, <4>1 DEF HandlerRaises, TemporalOK, Executions
    <3>2. CASE ~Illegal(a)
      BY <1>0, <1>10, <3>2, RaiseType DEF HandlerRaises
    <3> QED BY <3>1, <3>2
  <2> QED BY <1>10, <2>1 DEF HandlerRaises, TypeOK, TemporalOK, dbVars
<1>11. CASE TransientFailure(a)
  <2>1. TemporalOK' /\ faults' \in 0 .. MaxFaults
    BY <1>0, <1>11, RaiseType, MaxFaultsAssumption DEF TransientFailure
  <2> QED BY <1>11, <2>1 DEF TransientFailure, TypeOK, TemporalOK, dbVars
<1>12. CASE CrashWorker(a)
  BY <1>12, MaxFaultsAssumption DEF CrashWorker, TypeOK, dbVars
<1> QED BY <1>1, <1>2, <1>3, <1>4, <1>5, <1>6, <1>7, <1>8, <1>9, <1>10, <1>11,
           <1>12 DEF RunAttempt

\* So do the activity timeouts and the two ways in which waiting ends.
LEMMA TypeTemporal ==
  ASSUME TypeOK, Temporal
  PROVE  TypeOK'
<1>0. TemporalOK /\ faults \in 0 .. MaxFaults
  BY TypeOKTemporal DEF TypeOK
<1> PICK w \in DOMAIN exec : TimeoutRunning(w) \/ Timer(w)
  BY DEF Temporal
<1>w. w \in Nat /\ exec[w].attempt \in 1 .. MaxAttempts
  BY <1>0 DEF TemporalOK, Executions
<1>d. ASSUME NEW d \in HumanDecisions \cup {NoDecision, TimeoutDecision},
             Decide(w, d)
      PROVE  TypeOK'
  <2>1. DOMAIN exec' = DOMAIN exec /\ exec' \in [DOMAIN exec' -> Executions]
    BY <1>0, <1>d, ChoiceType DEF Decide
  <2>2. "apply_review_decision" \in Activities
    BY DEF Activities
  <2>3. /\ attempts' \subseteq Attempts
        /\ \A b \in attempts' : b.wf \in DOMAIN exec
    BY <1>0, <1>d, <1>w, <2>2, FirstAttemptType DEF Decide, TemporalOK, FirstAttempt
  <2> QED BY <1>d, <2>1, <2>3 DEF Decide, TypeOK, dbVars
<1>1. CASE TimeoutRunning(w)
  <2>1. TemporalOK'
    BY <1>0, <1>1, <1>w, RetryType DEF TimeoutRunning
  <2>2. faults' \in 0 .. MaxFaults
    BY <1>0, <1>1, MaxFaultsAssumption DEF TimeoutRunning
  <2> QED BY <1>1, <2>1, <2>2 DEF TimeoutRunning, TypeOK, TemporalOK, dbVars
<1>2. CASE TimeoutLost(w)
  <2>1. TemporalOK'
    BY <1>0, <1>2, <1>w, RetryType DEF TimeoutLost
  <2> QED BY <1>2, <2>1 DEF TimeoutLost, TypeOK, TemporalOK, dbVars
<1>3. CASE TakeDecision(w)
  <2>1. exec[w].signal \in HumanDecisions \cup {NoDecision, TimeoutDecision}
    BY <1>0 DEF TemporalOK, Executions
  <2> QED BY <1>3, <1>d, <2>1 DEF TakeDecision
<1>4. CASE SlaTimeout(w)
  BY <1>4, <1>d DEF SlaTimeout
<1> QED BY <1>1, <1>2, <1>3, <1>4 DEF Timer

\* Every table and every execution always holds values of its type.
THEOREM TypeCorrect == Spec => []TypeOK
<1>1. TypeOK /\ [Next]_vars => TypeOK'
  <2> SUFFICES ASSUME TypeOK, [Next]_vars PROVE TypeOK'
    OBVIOUS
  <2>1. CASE UNCHANGED vars
    BY <2>1 DEF TypeOK, vars, dbVars
  <2> QED BY <2>1, TypeApi, TypeWorker, TypeTemporal DEF Next
<1> QED BY <1>1, TypeInit, PTL DEF Spec

-----------------------------------------------------------------------------
(* The status row and the review queue                                     *)

\* The steps that write the columns status, version, active and queue: a
\* (re)submission, or a mover that found its key free.  Every other step of the
\* system leaves them alone.
MoverStep(a) ==
  \/ ValidateIntake(a) \/ CheckRequiredDocuments(a)
  \/ EnterHumanReview(a) \/ ApplyReviewDecision(a)

\* Status, version, attached workflow and queue row change only when a case is
\* (re)submitted or a moving activity takes effect.
LEMMA OnlyMoversMove ==
  ASSUME [Next]_vars,
         ~ \E k \in ClientKeys : SubmitApplication(k) \/ ResubmitApplication(k),
         ~ \E a \in attempts : MoverStep(a)
  PROVE  UNCHANGED <<status, version, active, queue>>
<1>1. CASE UNCHANGED vars
  BY <1>1 DEF vars, dbVars
<1>2. CASE Api
  BY <1>2 DEF Api, UploadDocument, StartWorkflow, MissStart, BeginReview,
              SignalReviewDecision, SignalRefused, dbVars
<1>3. CASE Worker
  <2> PICK a \in attempts :
        RunAttempt(a) \/ TransientFailure(a) \/ CrashWorker(a)
    BY <1>3 DEF Worker
  <2>1. ~MoverStep(a)
    OBVIOUS
  <2> QED BY <2>1 DEF RunAttempt, MoverStep, DuplicateAttempt, ListDocuments,
                      ProcessDocument, FinishExtraction, VerifyFacts,
                      HandlerRaises, TransientFailure, CrashWorker, dbVars
<1>4. CASE Temporal
  BY <1>4 DEF Temporal, Timer, TimeoutRunning, TimeoutLost, TakeDecision,
              SlaTimeout, Decide, dbVars
<1> QED BY <1>1, <1>2, <1>3, <1>4 DEF Next

\* The decision an attempt applies: a reviewer's, or the timeout's.
LEMMA ChoiceIsDecision ==
  ASSUME TypeOK, NEW a \in attempts, ApplyReviewDecision(a)
  PROVE  /\ status' \in REVIEW_DECISIONS
         /\ queue' = Decided(exec[a.wf].choice)
         /\ exec[a.wf].choice.decision = status'
         /\ exec[a.wf].choice \in HumanDecisions \cup {TimeoutDecision}
<1> DEFINE choice == exec[a.wf].choice
<1>1. choice \in HumanDecisions \cup {NoDecision, TimeoutDecision}
  BY DEF TypeOK, Executions
<1>2. status' = choice.decision /\ queue' = Decided(choice)
      /\ is_legal_transition(status, choice.decision)
  BY DEF ApplyReviewDecision
<1>3. choice # NoDecision
  BY <1>2, LegalSource DEF NoDecision
<1>4. choice.decision \in REVIEW_DECISIONS
  BY <1>1, <1>3 DEF HumanDecisions, TimeoutDecision, REVIEW_DECISIONS
<1> QED BY <1>1, <1>2, <1>3, <1>4

\* The two invariants about the queue row, together.
QueueInv == ReviewQueueAgrees /\ HumanDecidesOutcome

\* Every step keeps the queue row in agreement with the status: the transition
\* into review and the row are written together, and so are the decision and the
\* status it leads to.
LEMMA QueueStep ==
  ASSUME TypeOK, QueueInv, [Next]_vars
  PROVE  QueueInv'
<1> USE DEF QueueInv, ReviewQueueAgrees, HumanDecidesOutcome, REVIEW_DECISIONS
<1>1. ASSUME NEW k \in ClientKeys, SubmitApplication(k) PROVE QueueInv'
  BY <1>1, LegalSource DEF SubmitApplication
<1>2. ASSUME NEW k \in ClientKeys, ResubmitApplication(k) PROVE QueueInv'
  BY <1>2, LegalSource DEF ResubmitApplication
<1>r. enter_human_review => QueueInv'
  BY DEF enter_human_review, NoEntry
<1>3. ASSUME NEW a \in attempts, ValidateIntake(a) PROVE QueueInv'
  BY <1>3, <1>r, LegalSource DEF ValidateIntake
<1>4. ASSUME NEW a \in attempts, CheckRequiredDocuments(a) PROVE QueueInv'
  BY <1>4, <1>r, LegalSource DEF CheckRequiredDocuments, DocumentOutcome
<1>5. ASSUME NEW a \in attempts, EnterHumanReview(a) PROVE QueueInv'
  BY <1>5, <1>r DEF EnterHumanReview
<1>6. ASSUME NEW a \in attempts, ApplyReviewDecision(a) PROVE QueueInv'
  <2> DEFINE choice == exec[a.wf].choice
  <2>1. /\ status' \in REVIEW_DECISIONS
        /\ queue' = Decided(choice)
        /\ choice.decision = status'
        /\ choice \in HumanDecisions \cup {TimeoutDecision}
    BY <1>6, ChoiceIsDecision
  <2>2. status' # "ESCALATED" => choice.reviewer \in Reviewers
    BY <2>1 DEF HumanDecisions, TimeoutDecision
  <2> QED BY <2>1, <2>2 DEF Decided
<1>7. CASE UNCHANGED <<status, version, active, queue>>
  BY <1>7
<1> QED BY <1>1, <1>2, <1>3, <1>4, <1>5, <1>6, <1>7, OnlyMoversMove DEF MoverStep

\* A queue entry is pending exactly while the case awaits review, and records
\* the decision by which it left.
THEOREM QueueAgrees == Spec => []ReviewQueueAgrees
<1>1. Init => QueueInv
  BY DEF Init, QueueInv, ReviewQueueAgrees, HumanDecidesOutcome, NoEntry,
         REVIEW_DECISIONS
<1>2. QueueInv => ReviewQueueAgrees
  BY DEF QueueInv
<1> QED BY <1>1, <1>2, QueueStep, TypeCorrect, PTL DEF Spec

\* No case is approved, declined or sent back except by a reviewer.
THEOREM HumanDecides == Spec => []HumanDecidesOutcome
<1>1. Init => QueueInv
  BY DEF Init, QueueInv, ReviewQueueAgrees, HumanDecidesOutcome, NoEntry,
         REVIEW_DECISIONS
<1>2. QueueInv => HumanDecidesOutcome
  BY DEF QueueInv
<1> QED BY <1>1, <1>2, QueueStep, TypeCorrect, PTL DEF Spec

\* No step of any leftover attempt changes a case that has its outcome.
THEOREM OutcomeFinal == Spec => OutcomeIsFinal
<1>1. [Next]_vars =>
        [is_terminal(status) => UNCHANGED <<status, version, active, queue>>]_vars
  <2> SUFFICES ASSUME [Next]_vars, is_terminal(status)
               PROVE  UNCHANGED <<status, version, active, queue>>
    OBVIOUS
  <2>1. ~ \E k \in ClientKeys : SubmitApplication(k) \/ ResubmitApplication(k)
    BY TerminalStays DEF SubmitApplication, ResubmitApplication
  <2>2. ~ \E a \in attempts : MoverStep(a)
    BY TerminalStays DEF MoverStep, ValidateIntake, CheckRequiredDocuments,
                         EnterHumanReview, ApplyReviewDecision
  <2> QED BY <2>1, <2>2, OnlyMoversMove
<1> QED BY <1>1, PTL DEF Spec, OutcomeIsFinal

=============================================================================
