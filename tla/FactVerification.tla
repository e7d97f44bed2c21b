--------------------------- MODULE FactVerification --------------------------
(***************************************************************************)
(* Cross-source verification of one application                            *)
(* (application/commands/verify_application_facts.py, verify_facts_activity *)
(* and infrastructure/postgres/verification_repository.py): the facts its  *)
(* documents yielded are compared with what four external systems answer,  *)
(* in one database transaction that any of the calls may abort, by an      *)
(* activity whose answer may be lost after the commit.  A case that is     *)
(* resubmitted is verified again by its next execution, over the facts of  *)
(* all executions.                                                         *)
(*                                                                         *)
(* Scores are hundredths, monthly incomes cents, annual incomes whole      *)
(* dollars, as in the code after rounding.                                 *)
(***************************************************************************)
EXTENDS Integers, FiniteSets

CONSTANTS
  Documents,        \* the documents of the application
  FactsOf,          \* what extraction finds in each: fact type to value
  KycAnswers,       \* what the KYC service may answer
  EmployerAnswers,  \* what the employer service may answer
  MaxExecutions,    \* bound: workflow executions of the application
  MaxFaults         \* bound: failures injected into one behaviour

ASSUME BoundsAssumption == MaxExecutions \in Nat /\ MaxFaults \in Nat

\* The pattern for the gross pay matches digits only, and the employer service
\* answers with a whole number.
ASSUME IncomeAssumption ==
  \A d \in Documents :
    "GROSS_MONTHLY_INCOME" \in DOMAIN FactsOf[d] =>
      FactsOf[d]["GROSS_MONTHLY_INCOME"] \in Nat
ASSUME AnswersAssumption ==
  \A a \in EmployerAnswers : a.verified_annual_income \in Int

Executions == 1 .. MaxExecutions

VARIABLES
  phase,           \* where the extraction and verification of each execution is
  facts,           \* extracted_facts: execution, document, type, value
  read,            \* facts_by_type of the attempt under way
  open,            \* checks and snapshots of its uncommitted run
  runs,            \* verification_runs
  checks,          \* verification_checks
  snapshots,       \* external_response_snapshots
  contradictions,  \* contradictions
  answer,          \* the summary each execution passes on to human review
  faults           \* failures injected so far

tables == <<runs, checks, snapshots, contradictions>>
vars == <<phase, facts, read, open, tables, answer, faults>>

Nothing == [checks |-> {}, snapshots |-> {}]
NoFacts == [t \in {} |-> 0]

\* How many checks ended in each verdict, the content of
\* build_verification_summary.
Summary(cs) ==
  [matched      |-> Cardinality({ c \in cs : c.verdict = "MATCHED" }),
   contradicted |-> Cardinality({ c \in cs : c.verdict = "CONTRADICTED" }),
   insufficient |->
     Cardinality({ c \in cs : c.verdict = "INSUFFICIENT_EVIDENCE" })]

Init ==
  /\ phase = [w \in Executions |-> "waiting"]
  /\ facts = {}
  /\ read = [w \in Executions |-> NoFacts]
  /\ open = [w \in Executions |-> Nothing]
  /\ runs = {}
  /\ checks = {}
  /\ snapshots = {}
  /\ contradictions = {}
  /\ answer = [w \in Executions |-> Summary({})]
  /\ faults = 0

Goto(w, where) == phase' = [phase EXCEPT ![w] = where]

-----------------------------------------------------------------------------
(* Executions and their facts                                              *)

\* The first submission, or a resubmission after the last execution ended.
StartExecution(w) ==
  /\ phase[w] = "waiting"
  /\ \A v \in Executions : v < w => phase[v] = "done"
  /\ Goto(w, "extract")
  /\ UNCHANGED <<facts, read, open, tables, answer, faults>>

\* Each execution extracts every document it lists, the ones an earlier
\* execution extracted included.
ExtractDocument(w, d) ==
  /\ phase[w] \in {"extract", "extracted"}
  /\ \A x \in facts : ~(x.wf = w /\ x.doc = d)
  /\ facts' = facts \cup
       { [wf |-> w, doc |-> d, type |-> t, value |-> FactsOf[d][t]]
         : t \in DOMAIN FactsOf[d] }
  /\ Goto(w, "extracted")
  /\ UNCHANGED <<read, open, tables, answer, faults>>

-----------------------------------------------------------------------------
(* VerifyApplicationFactsHandler.handle                                    *)

\* The types that have been extracted, and the values one of them has.
Types == { x.type : x \in facts }
ValuesOf(t) == { x.value : x \in { y \in facts : y.type = t } }

\* The facts are read without an order, and of several of one type the last
\* one read stays.
BeginVerify(w) ==
  /\ phase[w] = "extracted"
  /\ \E byType \in [Types -> UNION { ValuesOf(t) : t \in Types }] :
       /\ \A t \in Types : byType[t] \in ValuesOf(t)
       /\ read' = [read EXCEPT ![w] = byType]
  /\ Goto(w, "kyc")
  /\ UNCHANGED <<facts, open, tables, answer, faults>>

Known(w, types) == types \subseteq DOMAIN read[w]

_MATCH_SCORE_THRESHOLD == 80
_INCOME_DEVIATION_THRESHOLD == 20

\* round(monthly * 12): twelve times a number of cents is never half a dollar.
declared_annual_income(w) == (12 * read[w]["GROSS_MONTHLY_INCOME"] + 50) \div 100

\* There is an income, and it is not zero, which the code's truth test treats
\* like none.
HasIncome(w) ==
  /\ Known(w, {"GROSS_MONTHLY_INCOME"})
  /\ declared_annual_income(w) # 0

KycMatches(a) ==
  /\ a.status = "PASS"
  /\ a.date_of_birth_match
  /\ a.name_match_score >= _MATCH_SCORE_THRESHOLD
  /\ a.address_match_score >= _MATCH_SCORE_THRESHOLD

Distance(x, y) == IF x < y THEN y - x ELSE x - y

\* Mutant: the deviation is taken with its sign.
EmployerMatchesAbove(w, a) ==
  /\ a.is_employment_confirmed
  /\ 100 * (declared_annual_income(w) - a.verified_annual_income)
       <= _INCOME_DEVIATION_THRESHOLD * declared_annual_income(w)

EmployerMatches(w, a) ==
  /\ a.is_employment_confirmed
  /\ 100 * Distance(a.verified_annual_income, declared_annual_income(w))
       <= _INCOME_DEVIATION_THRESHOLD * declared_annual_income(w)

Check(w, system, verdict) ==
  [wf |-> w, system |-> system, verdict |-> verdict]

\* The check of one system: a verdict on its answer, which is kept.
Resolved(w, system, matched, payload) ==
  open' = [open EXCEPT
    ![w].checks = @ \cup
      {Check(w, system, IF matched THEN "MATCHED" ELSE "CONTRADICTED")},
    ![w].snapshots = @ \cup
      {[wf |-> w, system |-> system, payload |-> payload]}]

\* Mutant: a check that cannot be made is left out.
InsufficientSkipped(w, system) == UNCHANGED open

\* A check whose facts were not extracted is recorded all the same.
Insufficient(w, system) ==
  open' = [open EXCEPT ![w].checks =
             @ \cup {Check(w, system, "INSUFFICIENT_EVIDENCE")}]

KycStep(w) ==
  /\ phase[w] = "kyc"
  /\ IF Known(w, {"SYNTHETIC_ID", "STREET_ADDRESS", "CITY"})
     THEN \E a \in KycAnswers : Resolved(w, "MOCK_KYC", KycMatches(a), a)
     ELSE Insufficient(w, "MOCK_KYC")
  /\ Goto(w, "employer")
  /\ UNCHANGED <<facts, read, tables, answer, faults>>

EmployerStep(w) ==
  /\ phase[w] = "employer"
  /\ IF Known(w, {"SYNTHETIC_ID", "EMPLOYER_NAME"}) /\ HasIncome(w)
     THEN \E a \in EmployerAnswers :
            Resolved(w, "MOCK_EMPLOYER", EmployerMatches(w, a),
                     [declared |-> declared_annual_income(w), answer |-> a])
     ELSE Insufficient(w, "MOCK_EMPLOYER")
  /\ Goto(w, "bureau")
  /\ UNCHANGED <<facts, read, tables, answer, faults>>

BureauCalled(w) == Known(w, {"SYNTHETIC_ID"})

BankingCalled(w) == Known(w, {"SYNTHETIC_ID"}) /\ HasIncome(w)

\* What these two answer is kept and not compared with anything.
Report == [kind |-> "report"]

CallForSnapshot(w, called, system) ==
  open' = IF called
          THEN [open EXCEPT ![w].snapshots = @ \cup
                  {[wf |-> w, system |-> system, payload |-> Report]}]
          ELSE open

BureauStep(w) ==
  /\ phase[w] = "bureau"
  /\ CallForSnapshot(w, BureauCalled(w), "MOCK_BUREAU")
  /\ Goto(w, "banking")
  /\ UNCHANGED <<facts, read, tables, answer, faults>>

BankingStep(w) ==
  /\ phase[w] = "banking"
  /\ CallForSnapshot(w, BankingCalled(w), "MOCK_CORE_BANKING")
  /\ Goto(w, "commit")
  /\ UNCHANGED <<facts, read, tables, answer, faults>>

Contradicted(cs) == { c \in cs : c.verdict = "CONTRADICTED" }

\* add_run and the commit.  The activity answers with the summary of its own
\* checks, or its answer is lost.
CommitRun(w) ==
  LET new == open[w].checks
  IN /\ phase[w] = "commit"
     /\ runs' = runs \cup
          {[wf |-> w, check_count |-> Cardinality(new),
            contradiction_count |-> Cardinality(Contradicted(new))]}
     /\ checks' = checks \cup new
     /\ snapshots' = snapshots \cup open[w].snapshots
     /\ contradictions' = contradictions \cup
          { [wf |-> w, system |-> c.system] : c \in Contradicted(new) }
     /\ open' = [open EXCEPT ![w] = Nothing]
     /\ read' = [read EXCEPT ![w] = NoFacts]
     /\ \/ /\ Goto(w, "done")
           /\ answer' = [answer EXCEPT ![w] = Summary(new)]
           /\ UNCHANGED faults
        \/ /\ faults < MaxFaults
           /\ faults' = faults + 1
           /\ Goto(w, "lost")
           /\ UNCHANGED answer
     /\ UNCHANGED facts

\* An external system cannot be reached or the worker dies: everything is
\* rolled back and the next attempt begins again.
FailVerify(w) ==
  /\ phase[w] \in {"kyc", "employer", "bureau", "banking", "commit"}
  /\ faults < MaxFaults
  /\ faults' = faults + 1
  /\ Goto(w, "extracted")
  /\ open' = [open EXCEPT ![w] = Nothing]
  /\ read' = [read EXCEPT ![w] = NoFacts]
  /\ UNCHANGED <<facts, tables, answer>>

\* Mutant: a duplicate attempt answers without looking.
AnswerBlank == Summary({})

\* What get_checks_for_application finds, whichever run recorded it.
StoredSummary == Summary(checks)

\* The retry after a lost answer finds its key taken.
DuplicateAttempt(w) ==
  /\ phase[w] = "lost"
  /\ Goto(w, "done")
  /\ answer' = [answer EXCEPT ![w] = StoredSummary]
  /\ UNCHANGED <<facts, read, open, tables, faults>>

-----------------------------------------------------------------------------

Next ==
  \E w \in Executions :
    \/ StartExecution(w)
    \/ \E d \in Documents : ExtractDocument(w, d)
    \/ BeginVerify(w)
    \/ KycStep(w)
    \/ EmployerStep(w)
    \/ BureauStep(w)
    \/ BankingStep(w)
    \/ CommitRun(w)
    \/ FailVerify(w)
    \/ DuplicateAttempt(w)

Spec == Init /\ [][Next]_vars

-----------------------------------------------------------------------------
(* Properties                                                              *)

Systems == {"MOCK_KYC", "MOCK_EMPLOYER", "MOCK_BUREAU", "MOCK_CORE_BANKING"}
Verdicts == {"MATCHED", "CONTRADICTED", "INSUFFICIENT_EVIDENCE"}

\* Every table holds values of its type, and every run has the two checks the
\* handler makes.
TypeOK ==
  /\ phase \in [Executions ->
       {"waiting", "extract", "extracted", "kyc", "employer", "bureau",
        "banking", "commit", "lost", "done"}]
  /\ runs \subseteq [wf : Executions, check_count : {2},
                     contradiction_count : 0 .. 2]
  /\ checks \subseteq [wf : Executions, system : {"MOCK_KYC", "MOCK_EMPLOYER"},
                       verdict : Verdicts]
  /\ \A s \in snapshots : s.wf \in Executions /\ s.system \in Systems
  /\ contradictions \subseteq
       [wf : Executions, system : {"MOCK_KYC", "MOCK_EMPLOYER"}]
  /\ answer \in [Executions -> [matched : Nat, contradicted : Nat,
                                insufficient : Nat]]
  /\ faults \in 0 .. MaxFaults

SnapshotOf(w, system) == { s \in snapshots : s.wf = w /\ s.system = system }

\* No verdict without evidence and no evidence without a verdict: a check is
\* resolved exactly when its run keeps the answer of the system, however often
\* the run was begun, and then says what the answer says.  An income the answer
\* was compared with is not zero, which the code would have divided by.
VerdictsHaveEvidence ==
  \A c \in checks :
    /\ c.verdict = "INSUFFICIENT_EVIDENCE" <=> SnapshotOf(c.wf, c.system) = {}
    /\ c.system = "MOCK_KYC" =>
         \A s \in SnapshotOf(c.wf, c.system) :
           c.verdict = "MATCHED" <=> KycMatches(s.payload)
    /\ c.system = "MOCK_EMPLOYER" =>
         \A s \in SnapshotOf(c.wf, c.system) :
           LET declared == s.payload.declared
               verified == s.payload.answer.verified_annual_income
           IN /\ declared > 0
              /\ c.verdict = "MATCHED" =>
                   /\ s.payload.answer.is_employment_confirmed
                   /\ 5 * verified <= 6 * declared
                   /\ 4 * declared <= 5 * verified

\* The reviewer is told of every contradiction the execution found, also when
\* the answer of the attempt that found it was lost; and the three places that
\* say how many there are agree: the contradiction rows, the count of the run
\* and the verdicts of its checks.
NoContradictionHidden ==
  /\ \A r \in runs :
       LET rows == { x \in contradictions : x.wf = r.wf }
           found == { c \in checks : c.wf = r.wf /\ c.verdict = "CONTRADICTED" }
       IN /\ r.contradiction_count = Cardinality(found)
          /\ { x.system : x \in rows } = { c.system : c \in found }
          /\ phase[r.wf] = "done" =>
               answer[r.wf].contradicted >= r.contradiction_count
  /\ \A w \in Executions : phase[w] = "done" => \E r \in runs : r.wf = w
==============================================================================
