------------------------ MODULE FactVerificationProofs -----------------------
(***************************************************************************)
(* For any documents, answers, number of executions and failures: every    *)
(* verdict rests on the answer that is kept with it, and no contradiction  *)
(* is lost on the way to the reviewer.                                     *)
(***************************************************************************)
EXTENDS FactVerification, FiniteSetTheorems, TLAPS

Income == "GROSS_MONTHLY_INCOME"

\* A number of cents, wherever an income has got to.
IncomeInv ==
  /\ \A x \in facts : x.type = Income => x.value \in Nat
  /\ DOMAIN read = Executions
  /\ \A w \in Executions :
       Income \in DOMAIN read[w] => read[w][Income] \in Nat

CheckType ==
  [wf : Executions, system : {"MOCK_KYC", "MOCK_EMPLOYER"}, verdict : Verdicts]

SnapshotType ==
  [wf : Executions, system : Systems,
   payload : KycAnswers \cup [declared : Nat, answer : EmployerAnswers]
             \cup {Report}]

\* Snapshot s is the answer check c is about.
IsAbout(c, s) == s.wf = c.wf /\ s.system = c.system

\* VerdictsHaveEvidence for one check and the snapshots of its run.
Evident(c, ss) ==
  /\ c.verdict = "INSUFFICIENT_EVIDENCE" <=> \A s \in ss : ~IsAbout(c, s)
  /\ \A s \in ss : IsAbout(c, s) =>
       /\ c.system = "MOCK_KYC" =>
            (c.verdict = "MATCHED" <=> KycMatches(s.payload))
       /\ c.system = "MOCK_EMPLOYER" =>
            /\ s.payload.declared > 0
            /\ c.verdict = "MATCHED" =>
                 /\ s.payload.answer.is_employment_confirmed
                 /\ 5 * s.payload.answer.verified_annual_income
                      <= 6 * s.payload.declared
                 /\ 4 * s.payload.declared
                      <= 5 * s.payload.answer.verified_annual_income

\* What the uncommitted run of an execution holds at each step of the handler.
OpenInv(w) ==
  /\ phase[w] \notin {"employer", "bureau", "banking", "commit"} =>
       open[w] = Nothing
  /\ phase[w] = "employer" =>
       /\ \E v \in Verdicts : open[w].checks = {Check(w, "MOCK_KYC", v)}
       /\ \A s \in open[w].snapshots : s.system = "MOCK_KYC"
  /\ phase[w] \in {"bureau", "banking", "commit"} =>
       \E v, u \in Verdicts :
         open[w].checks = {Check(w, "MOCK_KYC", v), Check(w, "MOCK_EMPLOYER", u)}
  /\ \A s \in open[w].snapshots : s.wf = w
  /\ \A c \in open[w].checks : Evident(c, open[w].snapshots)

OpenType == [checks : SUBSET CheckType, snapshots : SUBSET SnapshotType]

OpensInv ==
  /\ open \in [Executions -> OpenType]
  /\ \A w \in Executions : OpenInv(w)

Ended(w) == phase[w] \in {"lost", "done"}

\* Rows are those of executions that have committed their run.
TablesInv ==
  /\ \A c \in checks : Ended(c.wf)
  /\ \A s \in snapshots : Ended(s.wf)
  /\ \A x \in contradictions : Ended(x.wf)
  /\ \A r \in runs : Ended(r.wf)
  /\ snapshots \subseteq SnapshotType
  /\ IsFiniteSet(checks)
  /\ \A c \in checks : Evident(c, snapshots)

CountsInv ==
  /\ NoContradictionHidden
  /\ \A w \in Executions : Ended(w) => \E r \in runs : r.wf = w

Inv == TypeOK /\ IncomeInv /\ OpensInv /\ TablesInv /\ CountsInv

-----------------------------------------------------------------------------
(* Evidence                                                                *)

\* Only the snapshots a check is about count.
LEMMA EvidenceIsLocal ==
  ASSUME NEW c, NEW ss, NEW tt, Evident(c, ss),
         \A s \in tt : IsAbout(c, s) => s \in ss,
         \A s \in ss : IsAbout(c, s) => s \in tt
  PROVE  Evident(c, tt)
BY DEF Evident

LEMMA CheckFields ==
  ASSUME NEW w, NEW system, NEW v
  PROVE  /\ Check(w, system, v).wf = w
         /\ Check(w, system, v).system = system
         /\ Check(w, system, v).verdict = v
BY DEF Check

LEMMA CheckTyped ==
  ASSUME NEW w \in Executions, NEW system \in {"MOCK_KYC", "MOCK_EMPLOYER"},
         NEW v \in Verdicts
  PROVE  Check(w, system, v) \in CheckType
BY DEF Check, CheckType

LEMMA NothingTyped == Nothing \in OpenType /\ Nothing.checks = {} /\ Nothing.snapshots = {}
BY DEF Nothing, OpenType

LEMMA InsufficientEvident ==
  ASSUME NEW w, NEW system
  PROVE  Evident(Check(w, system, "INSUFFICIENT_EVIDENCE"), {})
BY CheckFields DEF Evident

LEMMA KycEvident ==
  ASSUME NEW w, NEW a
  PROVE  Evident(Check(w, "MOCK_KYC",
                       IF KycMatches(a) THEN "MATCHED" ELSE "CONTRADICTED"),
                 {[wf |-> w, system |-> "MOCK_KYC", payload |-> a]})
<1> DEFINE v == IF KycMatches(a) THEN "MATCHED" ELSE "CONTRADICTED"
           c == Check(w, "MOCK_KYC", v)
           s == [wf |-> w, system |-> "MOCK_KYC", payload |-> a]
<1>1. c.wf = w /\ c.system = "MOCK_KYC" /\ c.verdict = v
  BY CheckFields
<1>2. s.wf = w /\ s.system = "MOCK_KYC" /\ s.payload = a
  OBVIOUS
<1>3. v # "INSUFFICIENT_EVIDENCE" /\ (v = "MATCHED" <=> KycMatches(a))
  OBVIOUS
<1> HIDE DEF v, c, s
<1>4. Evident(c, {s})
  BY <1>1, <1>2, <1>3 DEF Evident, IsAbout
<1> QED BY <1>4 DEF v, c, s

\* The tolerated deviation, without the division: a fifth of what is declared,
\* on either side.
LEMMA Tolerated ==
  ASSUME NEW x \in Int, NEW y \in Int,
         100 * Distance(x, y) <= _INCOME_DEVIATION_THRESHOLD * y
  PROVE  5 * x <= 6 * y /\ 4 * y <= 5 * x
BY DEF Distance, _INCOME_DEVIATION_THRESHOLD

LEMMA DeclaredIsNatural ==
  ASSUME Inv, NEW w \in Executions, HasIncome(w)
  PROVE  declared_annual_income(w) \in Nat /\ declared_annual_income(w) > 0
<1>1. read[w][Income] \in Nat
  BY DEF HasIncome, Known, Inv, IncomeInv, Income
<1>2. ASSUME NEW m \in Nat PROVE (12 * m + 50) \div 100 \in Nat
  OBVIOUS
<1>3. declared_annual_income(w) \in Nat
  BY <1>1, <1>2 DEF declared_annual_income, Income
<1> QED BY <1>3 DEF HasIncome

LEMMA EmployerEvident ==
  ASSUME Inv, NEW w \in Executions, HasIncome(w), NEW a \in EmployerAnswers
  PROVE  Evident(Check(w, "MOCK_EMPLOYER",
                       IF EmployerMatches(w, a) THEN "MATCHED"
                                                ELSE "CONTRADICTED"),
                 {[wf |-> w, system |-> "MOCK_EMPLOYER",
                   payload |-> [declared |-> declared_annual_income(w),
                                answer |-> a]]})
<1> DEFINE d == declared_annual_income(w)
           x == a.verified_annual_income
           v == IF EmployerMatches(w, a) THEN "MATCHED" ELSE "CONTRADICTED"
           c == Check(w, "MOCK_EMPLOYER", v)
           s == [wf |-> w, system |-> "MOCK_EMPLOYER",
                 payload |-> [declared |-> d, answer |-> a]]
<1>1. d \in Nat /\ d > 0 /\ x \in Int
  BY DeclaredIsNatural, AnswersAssumption
<1>2. ASSUME v = "MATCHED"
      PROVE  a.is_employment_confirmed /\ 5 * x <= 6 * d /\ 4 * d <= 5 * x
  <2>1. EmployerMatches(w, a)
    BY <1>2
  <2>2. a.is_employment_confirmed
        /\ 100 * Distance(x, d) <= _INCOME_DEVIATION_THRESHOLD * d
    BY <2>1 DEF EmployerMatches
  <2> HIDE DEF x, d
  <2> QED BY <2>2, <1>1, Tolerated
<1>3. c.wf = w /\ c.system = "MOCK_EMPLOYER" /\ c.verdict = v
  BY CheckFields
<1>4. /\ s.wf = w /\ s.system = "MOCK_EMPLOYER"
      /\ s.payload.declared = d /\ s.payload.answer = a
      /\ s.payload.answer.verified_annual_income = x
  OBVIOUS
<1>5. v # "INSUFFICIENT_EVIDENCE"
  OBVIOUS
<1> HIDE DEF v, c, s, d, x
<1>6. Evident(c, {s})
  BY <1>1, <1>2, <1>3, <1>4, <1>5 DEF Evident, IsAbout
<1> QED BY <1>6 DEF v, c, s, d

-----------------------------------------------------------------------------
(* The steps of the handler                                                *)

LEMMA OpenKept ==
  ASSUME NEW v \in Executions, OpenInv(v), phase'[v] = phase[v], open'[v] = open[v]
  PROVE  OpenInv(v)'
BY DEF OpenInv

LEMMA InitInv ==
  ASSUME Init
  PROVE  Inv
<1>1. IsFiniteSet({}) /\ Cardinality({}) = 0
  BY FS_EmptySet
<1>2. Summary({}) \in [matched : Nat, contradicted : Nat, insufficient : Nat]
  BY <1>1 DEF Summary
<1>3. faults \in 0 .. MaxFaults
  BY BoundsAssumption DEF Init
<1>4. TypeOK
  BY <1>2, <1>3 DEF Init, TypeOK
<1>5. \A w \in Executions : read[w] = NoFacts /\ open[w] = Nothing /\ phase[w] = "waiting"
  BY DEF Init
<1>6. IncomeInv
  BY <1>5 DEF Init, IncomeInv, NoFacts
<1>7. OpensInv
  BY <1>5, NothingTyped DEF Init, OpensInv, OpenInv
<1>8. TablesInv
  BY <1>1 DEF Init, TablesInv
<1>9. CountsInv
  BY <1>5 DEF Init, CountsInv, NoContradictionHidden, Ended
<1> QED BY <1>4, <1>6, <1>7, <1>8, <1>9 DEF Inv

Working == {"extract", "extracted", "kyc", "employer", "bureau", "banking", "commit"}

\* A step of an execution that has not committed touches no row and no answer.
LEMMA WorkingStep ==
  ASSUME Inv, NEW w \in Executions, NEW where \in Working, ~Ended(w),
         Goto(w, where), UNCHANGED <<tables, answer>>,
         open' \in [Executions -> OpenType],
         \A v \in Executions \ {w} : open'[v] = open[v],
         OpenInv(w)', IncomeInv', faults' \in 0 .. MaxFaults
  PROVE  Inv'
<1>1. phase'[w] = where /\ \A v \in Executions \ {w} : phase'[v] = phase[v]
  BY DEF Inv, TypeOK, Goto
<1>2. UNCHANGED <<runs, checks, snapshots, contradictions, answer>>
  BY DEF tables
<1>3. TypeOK'
  BY <1>2 DEF Inv, TypeOK, Goto, Working
<1>4. \A v \in Executions : OpenInv(v)'
  BY <1>1, OpenKept DEF Inv, OpensInv
<1>5. OpensInv'
  BY <1>4 DEF OpensInv
<1>6. \A v \in Executions : Ended(v)' <=> Ended(v)
  BY <1>1 DEF Ended, Working
<1>7. \A v \in Executions : Ended(v) => phase'[v] = phase[v]
  BY <1>1
<1>8. TablesInv'
  <2>1. /\ \A c \in checks : c.wf \in Executions
        /\ \A s \in snapshots : s.wf \in Executions
        /\ \A x \in contradictions : x.wf \in Executions
        /\ \A r \in runs : r.wf \in Executions
    BY DEF Inv, TypeOK
  <2> QED BY <2>1, <1>2, <1>6 DEF Inv, TablesInv
<1>9. NoContradictionHidden'
  <2>1. \A r \in runs : r.wf \in Executions /\ Ended(r.wf)
    BY DEF Inv, TypeOK, TablesInv
  <2>2. \A r \in runs : phase'[r.wf] = phase[r.wf]
    BY <2>1, <1>7
  <2>3. \A v \in Executions : phase'[v] = "done" => phase[v] = "done"
    BY <1>6, <1>7 DEF Ended
  <2> QED BY <1>2, <2>2, <2>3 DEF Inv, CountsInv, NoContradictionHidden
<1>10. CountsInv'
  BY <1>2, <1>6, <1>9 DEF Inv, CountsInv
<1> QED BY <1>3, <1>5, <1>8, <1>10 DEF Inv

LEMMA FaultCounted ==
  ASSUME Inv, faults < MaxFaults, faults' = faults + 1
  PROVE  faults' \in 0 .. MaxFaults
BY BoundsAssumption DEF Inv, TypeOK

LEMMA StartInv ==
  ASSUME Inv, NEW w \in Executions, StartExecution(w)
  PROVE  Inv'
<1>1. /\ phase[w] = "waiting" /\ Goto(w, "extract") /\ phase'[w] = "extract"
      /\ UNCHANGED <<facts, read, open, tables, answer, faults>>
  BY DEF StartExecution, Inv, TypeOK, Goto
<1>2. OpenInv(w)'
  BY <1>1 DEF Inv, OpensInv, OpenInv
<1>3. IncomeInv' /\ faults' \in 0 .. MaxFaults /\ ~Ended(w)
  BY <1>1 DEF Inv, IncomeInv, TypeOK, Ended
<1> QED BY <1>1, <1>2, <1>3, WorkingStep DEF Inv, OpensInv, Working

LEMMA ExtractInv ==
  ASSUME Inv, NEW w \in Executions, NEW d \in Documents, ExtractDocument(w, d)
  PROVE  Inv'
<1>1. /\ phase[w] \in {"extract", "extracted"} /\ Goto(w, "extracted")
      /\ phase'[w] = "extracted"
      /\ UNCHANGED <<read, open, tables, answer, faults>>
      /\ facts' = facts \cup
           { [wf |-> w, doc |-> d, type |-> t, value |-> FactsOf[d][t]]
             : t \in DOMAIN FactsOf[d] }
  BY DEF ExtractDocument, Inv, TypeOK, Goto
<1>2. OpenInv(w)'
  BY <1>1 DEF Inv, OpensInv, OpenInv
<1>3. ASSUME NEW x \in facts', x.type = Income PROVE x.value \in Nat
  <2>1. CASE x \in facts
    BY <2>1, <1>3 DEF Inv, IncomeInv
  <2>2. CASE x \notin facts
    <3>1. PICK t \in DOMAIN FactsOf[d] :
            x = [wf |-> w, doc |-> d, type |-> t, value |-> FactsOf[d][t]]
      BY <2>2, <1>1
    <3>2. t = Income /\ x.value = FactsOf[d][Income]
      BY <3>1, <1>3
    <3> QED BY <3>1, <3>2, IncomeAssumption DEF Income
  <2> QED BY <2>1, <2>2
<1>4. IncomeInv' /\ faults' \in 0 .. MaxFaults /\ ~Ended(w)
  BY <1>1, <1>3 DEF Inv, IncomeInv, TypeOK, Ended
<1> QED BY <1>1, <1>2, <1>4, WorkingStep DEF Inv, OpensInv, Working

LEMMA BeginInv ==
  ASSUME Inv, NEW w \in Executions, BeginVerify(w)
  PROVE  Inv'
<1>1. /\ phase[w] = "extracted" /\ Goto(w, "kyc") /\ phase'[w] = "kyc"
      /\ UNCHANGED <<facts, open, tables, answer, faults>>
  BY DEF BeginVerify, Inv, TypeOK, Goto
<1>2. PICK byType \in [Types -> UNION { ValuesOf(t) : t \in Types }] :
        /\ \A t \in Types : byType[t] \in ValuesOf(t)
        /\ read' = [read EXCEPT ![w] = byType]
  BY DEF BeginVerify
<1>3. Income \in DOMAIN byType => byType[Income] \in Nat
  <2> SUFFICES ASSUME Income \in Types PROVE byType[Income] \in Nat
    BY <1>2
  <2>1. byType[Income] \in ValuesOf(Income)
    BY <1>2
  <2>2. \A z \in ValuesOf(Income) : z \in Nat
    BY DEF ValuesOf, Inv, IncomeInv
  <2> QED BY <2>1, <2>2
<1>4. DOMAIN read' = Executions /\ read'[w] = byType
      /\ \A v \in Executions \ {w} : read'[v] = read[v]
  BY <1>2 DEF Inv, IncomeInv
<1>5. IncomeInv'
  BY <1>1, <1>3, <1>4 DEF Inv, IncomeInv
<1>6. OpenInv(w)'
  BY <1>1 DEF Inv, OpensInv, OpenInv
<1>7. faults' \in 0 .. MaxFaults /\ ~Ended(w)
  BY <1>1 DEF Inv, TypeOK, Ended
<1> QED BY <1>1, <1>5, <1>6, <1>7, WorkingStep DEF Inv, OpensInv, Working

\* What recording a check does to the uncommitted run, whether it was resolved
\* or not.
LEMMA RecordedCheck ==
  ASSUME Inv, NEW w \in Executions, NEW c \in CheckType,
         NEW ss \in SUBSET SnapshotType,
         \/ open' = [open EXCEPT ![w].checks = @ \cup {c},
                                 ![w].snapshots = @ \cup ss]
         \/ ss = {} /\ open' = [open EXCEPT ![w].checks = @ \cup {c}]
  PROVE  /\ open' \in [Executions -> OpenType]
         /\ \A v \in Executions \ {w} : open'[v] = open[v]
         /\ open'[w].checks = open[w].checks \cup {c}
         /\ open'[w].snapshots = open[w].snapshots \cup ss
<1>1. open \in [Executions -> OpenType] /\ open[w] \in OpenType
  BY DEF Inv, OpensInv
<1> DEFINE new == [open[w] EXCEPT !.checks = @ \cup {c}, !.snapshots = @ \cup ss]
<1>2. /\ new \in OpenType
      /\ new.checks = open[w].checks \cup {c}
      /\ new.snapshots = open[w].snapshots \cup ss
  BY <1>1 DEF OpenType
<1>3. [open[w] EXCEPT !.checks = @ \cup {c}, !.snapshots = @ \cup {}]
        = [open[w] EXCEPT !.checks = @ \cup {c}]
  BY <1>1 DEF OpenType
<1>4. open' = [open EXCEPT ![w] = new]
  BY <1>1, <1>3
<1> HIDE DEF new
<1> QED BY <1>1, <1>2, <1>4

\* Each check leaves a check with its evidence, or with none and no snapshot.
CheckMade(w, system) ==
  \E v \in Verdicts : \E ss \in SUBSET SnapshotType :
    /\ Evident(Check(w, system, v), ss)
    /\ \A s \in ss : s.wf = w /\ s.system = system
    /\ open' \in [Executions -> OpenType]
    /\ \A x \in Executions \ {w} : open'[x] = open[x]
    /\ open'[w].checks = open[w].checks \cup {Check(w, system, v)}
    /\ open'[w].snapshots = open[w].snapshots \cup ss

LEMMA InsufficientMade ==
  ASSUME Inv, NEW w \in Executions, NEW system \in {"MOCK_KYC", "MOCK_EMPLOYER"},
         Insufficient(w, system)
  PROVE  CheckMade(w, system)
<1> DEFINE c == Check(w, system, "INSUFFICIENT_EVIDENCE")
<1>1. c \in CheckType
  BY CheckTyped DEF Verdicts
<1>2. open' = [open EXCEPT ![w].checks = @ \cup {c}]
  BY DEF Insufficient
<1>3. Evident(c, {})
  BY InsufficientEvident
<1>4. {} \in SUBSET SnapshotType
  OBVIOUS
<1> HIDE DEF c
<1>5. /\ open' \in [Executions -> OpenType]
      /\ \A x \in Executions \ {w} : open'[x] = open[x]
      /\ open'[w].checks = open[w].checks \cup {c}
      /\ open'[w].snapshots = open[w].snapshots \cup {}
  BY <1>1, <1>2, <1>4, RecordedCheck
<1>6. "INSUFFICIENT_EVIDENCE" \in Verdicts
  BY DEF Verdicts
<1> QED BY <1>3, <1>4, <1>5, <1>6 DEF CheckMade, c

LEMMA ResolvedMade ==
  ASSUME Inv, NEW w \in Executions, NEW system \in {"MOCK_KYC", "MOCK_EMPLOYER"},
         NEW matched, NEW payload,
         payload \in KycAnswers \cup [declared : Nat, answer : EmployerAnswers]
                     \cup {Report},
         Resolved(w, system, matched, payload),
         Evident(Check(w, system, IF matched THEN "MATCHED" ELSE "CONTRADICTED"),
                 {[wf |-> w, system |-> system, payload |-> payload]})
  PROVE  CheckMade(w, system)
<1> DEFINE v == IF matched THEN "MATCHED" ELSE "CONTRADICTED"
           c == Check(w, system, v)
           s == [wf |-> w, system |-> system, payload |-> payload]
<1>1. v \in Verdicts /\ c \in CheckType
  BY CheckTyped DEF Verdicts
<1>2. s \in SnapshotType /\ s.wf = w /\ s.system = system
  BY DEF SnapshotType, Systems
<1>3. open' = [open EXCEPT ![w].checks = @ \cup {c}, ![w].snapshots = @ \cup {s}]
  BY DEF Resolved
<1>4. Evident(c, {s})
  OBVIOUS
<1>5. {s} \in SUBSET SnapshotType
  BY <1>2
<1> HIDE DEF c, s
<1>6. /\ open' \in [Executions -> OpenType]
      /\ \A x \in Executions \ {w} : open'[x] = open[x]
      /\ open'[w].checks = open[w].checks \cup {c}
      /\ open'[w].snapshots = open[w].snapshots \cup {s}
  BY <1>1, <1>3, <1>5, RecordedCheck
<1> HIDE DEF v
<1> QED BY <1>1, <1>2, <1>4, <1>5, <1>6 DEF CheckMade, c

LEMMA KycInv ==
  ASSUME Inv, NEW w \in Executions, KycStep(w)
  PROVE  Inv'
<1>1. /\ phase[w] = "kyc" /\ Goto(w, "employer") /\ phase'[w] = "employer"
      /\ UNCHANGED <<facts, read, tables, answer, faults>>
  BY DEF KycStep, Inv, TypeOK, Goto
<1>2. CheckMade(w, "MOCK_KYC")
  <2>1. ASSUME NEW a \in KycAnswers, Resolved(w, "MOCK_KYC", KycMatches(a), a)
        PROVE  CheckMade(w, "MOCK_KYC")
    BY <2>1, KycEvident, ResolvedMade
  <2> QED BY <2>1, InsufficientMade DEF KycStep
<1>3. PICK v \in Verdicts, ss \in SUBSET SnapshotType :
        /\ Evident(Check(w, "MOCK_KYC", v), ss)
        /\ \A s \in ss : s.wf = w /\ s.system = "MOCK_KYC"
        /\ open' \in [Executions -> OpenType]
        /\ \A x \in Executions \ {w} : open'[x] = open[x]
        /\ open'[w].checks = open[w].checks \cup {Check(w, "MOCK_KYC", v)}
        /\ open'[w].snapshots = open[w].snapshots \cup ss
  BY <1>2 DEF CheckMade
<1>4. open[w].checks = {} /\ open[w].snapshots = {}
  BY <1>1, NothingTyped DEF Inv, OpensInv, OpenInv
<1>5. open'[w].checks = {Check(w, "MOCK_KYC", v)} /\ open'[w].snapshots = ss
  BY <1>3, <1>4
<1>6. OpenInv(w)'
  BY <1>1, <1>3, <1>5 DEF OpenInv
<1>7. IncomeInv' /\ faults' \in 0 .. MaxFaults /\ ~Ended(w)
  BY <1>1 DEF Inv, IncomeInv, TypeOK, Ended
<1> QED BY <1>1, <1>3, <1>6, <1>7, WorkingStep DEF Working

LEMMA EmployerInv ==
  ASSUME Inv, NEW w \in Executions, EmployerStep(w)
  PROVE  Inv'
<1>1. /\ phase[w] = "employer" /\ Goto(w, "bureau") /\ phase'[w] = "bureau"
      /\ UNCHANGED <<facts, read, tables, answer, faults>>
  BY DEF EmployerStep, Inv, TypeOK, Goto
<1>2. CheckMade(w, "MOCK_EMPLOYER")
  <2>1. ASSUME HasIncome(w), NEW a \in EmployerAnswers,
               Resolved(w, "MOCK_EMPLOYER", EmployerMatches(w, a),
                        [declared |-> declared_annual_income(w), answer |-> a])
        PROVE  CheckMade(w, "MOCK_EMPLOYER")
    <3>1. [declared |-> declared_annual_income(w), answer |-> a]
            \in [declared : Nat, answer : EmployerAnswers]
      BY <2>1, DeclaredIsNatural
    <3> QED BY <2>1, <3>1, EmployerEvident, ResolvedMade
  <2> QED BY <2>1, InsufficientMade DEF EmployerStep
<1>3. PICK u \in Verdicts, ss \in SUBSET SnapshotType :
        /\ Evident(Check(w, "MOCK_EMPLOYER", u), ss)
        /\ \A s \in ss : s.wf = w /\ s.system = "MOCK_EMPLOYER"
        /\ open' \in [Executions -> OpenType]
        /\ \A x \in Executions \ {w} : open'[x] = open[x]
        /\ open'[w].checks = open[w].checks \cup {Check(w, "MOCK_EMPLOYER", u)}
        /\ open'[w].snapshots = open[w].snapshots \cup ss
  BY <1>2 DEF CheckMade
<1>4. PICK v \in Verdicts : open[w].checks = {Check(w, "MOCK_KYC", v)}
  BY <1>1 DEF Inv, OpensInv, OpenInv
<1>5. /\ \A s \in open[w].snapshots : s.system = "MOCK_KYC" /\ s.wf = w
      /\ Evident(Check(w, "MOCK_KYC", v), open[w].snapshots)
  BY <1>1, <1>4 DEF Inv, OpensInv, OpenInv
<1>6. Evident(Check(w, "MOCK_KYC", v), open'[w].snapshots)
  BY <1>3, <1>5, CheckFields, EvidenceIsLocal DEF IsAbout
<1>7. Evident(Check(w, "MOCK_EMPLOYER", u), open'[w].snapshots)
  BY <1>3, <1>5, CheckFields, EvidenceIsLocal DEF IsAbout
<1>8. open'[w].checks = {Check(w, "MOCK_KYC", v), Check(w, "MOCK_EMPLOYER", u)}
  BY <1>3, <1>4
<1>9. OpenInv(w)'
  BY <1>1, <1>3, <1>5, <1>6, <1>7, <1>8 DEF OpenInv
<1>10. IncomeInv' /\ faults' \in 0 .. MaxFaults /\ ~Ended(w)
  BY <1>1 DEF Inv, IncomeInv, TypeOK, Ended
<1> QED BY <1>1, <1>3, <1>9, <1>10, WorkingStep DEF Working

\* The answers of the last two systems are kept, and are about no check.
LEMMA SnapshotKept ==
  ASSUME Inv, NEW w \in Executions, NEW called, NEW where \in {"banking", "commit"},
         NEW system \in {"MOCK_BUREAU", "MOCK_CORE_BANKING"},
         phase[w] \in {"bureau", "banking"}, Goto(w, where),
         CallForSnapshot(w, called, system),
         UNCHANGED <<facts, read, tables, answer, faults>>
  PROVE  Inv'
<1>1. phase'[w] = where
  BY DEF Goto, Inv, TypeOK
<1>2. PICK v \in Verdicts, u \in Verdicts :
        open[w].checks = {Check(w, "MOCK_KYC", v), Check(w, "MOCK_EMPLOYER", u)}
  BY DEF Inv, OpensInv, OpenInv
<1>3. PICK ss \in SUBSET SnapshotType :
        /\ \A s \in ss : s.wf = w /\ s.system = system
        /\ open' \in [Executions -> OpenType]
        /\ \A x \in Executions \ {w} : open'[x] = open[x]
        /\ open'[w].checks = open[w].checks
        /\ open'[w].snapshots = open[w].snapshots \cup ss
  <2> DEFINE s == [wf |-> w, system |-> system, payload |-> Report]
             new == [open[w] EXCEPT !.snapshots = @ \cup {s}]
  <2>1. s \in SnapshotType /\ s.wf = w /\ s.system = system
    BY DEF SnapshotType, Systems
  <2>2. open \in [Executions -> OpenType] /\ open[w] \in OpenType
    BY DEF Inv, OpensInv
  <2>3. CASE called
    <3>1. open' = [open EXCEPT ![w] = new]
      BY <2>2, <2>3 DEF CallForSnapshot
    <3>2. /\ new \in OpenType /\ new.checks = open[w].checks
          /\ new.snapshots = open[w].snapshots \cup {s}
      BY <2>1, <2>2 DEF OpenType
    <3> HIDE DEF new, s
    <3>3. /\ open' \in [Executions -> OpenType]
          /\ \A x \in Executions \ {w} : open'[x] = open[x]
          /\ open'[w] = new
      BY <2>2, <3>1, <3>2
    <3>4. {s} \in SUBSET SnapshotType
      BY <2>1
    <3> QED BY <2>1, <3>2, <3>3, <3>4
  <2>4. CASE ~called
    <3>1. open' = open
      BY <2>4 DEF CallForSnapshot
    <3> WITNESS {} \in SUBSET SnapshotType
    <3> QED BY <2>2, <3>1
  <2> QED BY <2>3, <2>4
<1>4. ASSUME NEW c \in open[w].checks PROVE Evident(c, open'[w].snapshots)
  <2>1. Evident(c, open[w].snapshots)
    BY DEF Inv, OpensInv, OpenInv
  <2>2. c.system \in {"MOCK_KYC", "MOCK_EMPLOYER"}
    BY <1>2, <1>4, CheckFields
  <2> QED BY <2>1, <2>2, <1>3, EvidenceIsLocal DEF IsAbout
<1>5. \A s \in open[w].snapshots : s.wf = w
  BY DEF Inv, OpensInv, OpenInv
<1>6. OpenInv(w)'
  BY <1>1, <1>2, <1>3, <1>4, <1>5 DEF OpenInv
<1>7. IncomeInv' /\ faults' \in 0 .. MaxFaults /\ ~Ended(w)
  BY DEF Inv, IncomeInv, TypeOK, Ended
<1> QED BY <1>3, <1>6, <1>7, WorkingStep DEF Working

LEMMA FailInv ==
  ASSUME Inv, NEW w \in Executions, FailVerify(w)
  PROVE  Inv'
<1>1. /\ phase[w] \in {"kyc", "employer", "bureau", "banking", "commit"}
      /\ Goto(w, "extracted") /\ phase'[w] = "extracted"
      /\ open' = [open EXCEPT ![w] = Nothing]
      /\ read' = [read EXCEPT ![w] = NoFacts]
      /\ UNCHANGED <<facts, tables, answer>>
  BY DEF FailVerify, Inv, TypeOK, Goto
<1>2. /\ open' \in [Executions -> OpenType]
      /\ \A v \in Executions \ {w} : open'[v] = open[v]
      /\ open'[w] = Nothing
  BY <1>1, NothingTyped DEF Inv, OpensInv
<1>3. OpenInv(w)'
  BY <1>1, <1>2, NothingTyped DEF OpenInv
<1>4. /\ DOMAIN read' = Executions /\ read'[w] = NoFacts
      /\ \A v \in Executions \ {w} : read'[v] = read[v]
  BY <1>1 DEF Inv, IncomeInv
<1>5. IncomeInv'
  BY <1>1, <1>4 DEF Inv, IncomeInv, NoFacts
<1>6. faults' \in 0 .. MaxFaults /\ ~Ended(w)
  BY <1>1, FaultCounted DEF FailVerify, Ended
<1> QED BY <1>1, <1>2, <1>3, <1>5, <1>6, WorkingStep DEF Working

-----------------------------------------------------------------------------
(* The commit                                                              *)

LEMMA SummaryCounts ==
  ASSUME NEW cs, IsFiniteSet(cs)
  PROVE  /\ Summary(cs) \in [matched : Nat, contradicted : Nat, insufficient : Nat]
         /\ Summary(cs).contradicted = Cardinality(Contradicted(cs))
         /\ IsFiniteSet(Contradicted(cs)) /\ Cardinality(Contradicted(cs)) \in Nat
<1>1. \A v : /\ IsFiniteSet({ c \in cs : c.verdict = v })
              /\ Cardinality({ c \in cs : c.verdict = v }) \in Nat
  <2> TAKE v
  <2>1. { c \in cs : c.verdict = v } \in SUBSET cs
    OBVIOUS
  <2>2. IsFiniteSet({ c \in cs : c.verdict = v })
    BY <2>1, FS_Subset
  <2> QED BY <2>2, FS_CardinalityType
<1> QED BY <1>1 DEF Summary, Contradicted

\* The run that is committed has its two checks.
LEMMA TwoChecks ==
  ASSUME NEW w, NEW v, NEW u, NEW cs,
         cs = {Check(w, "MOCK_KYC", v), Check(w, "MOCK_EMPLOYER", u)}
  PROVE  /\ IsFiniteSet(cs) /\ Cardinality(cs) = 2
         /\ Cardinality(Contradicted(cs)) \in 0 .. 2
<1> DEFINE k == Check(w, "MOCK_KYC", v)
           e == Check(w, "MOCK_EMPLOYER", u)
<1>1. k # e
  BY CheckFields
<1> HIDE DEF k, e
<1>2. IsFiniteSet({k}) /\ Cardinality({k}) = 1
  BY FS_Singleton
<1>3. IsFiniteSet({k} \cup {e}) /\ Cardinality({k} \cup {e}) = 1 + 1
  BY <1>1, <1>2, FS_AddElement
<1>4. cs = {k} \cup {e}
  BY DEF k, e
<1>5. IsFiniteSet(cs) /\ Cardinality(cs) = 2
  BY <1>3, <1>4
<1>6. Contradicted(cs) \in SUBSET cs
  BY DEF Contradicted
<1>7. IsFiniteSet(Contradicted(cs)) /\ Cardinality(Contradicted(cs)) <= 2
  BY <1>5, <1>6, FS_Subset
<1>8. Cardinality(Contradicted(cs)) \in Nat
  BY <1>7, FS_CardinalityType
<1> QED BY <1>5, <1>7, <1>8

LEMMA CommitInv ==
  ASSUME Inv, NEW w \in Executions, CommitRun(w)
  PROVE  Inv'
<1> DEFINE new == open[w].checks
           run == [wf |-> w, check_count |-> Cardinality(new),
                   contradiction_count |-> Cardinality(Contradicted(new))]
           rows == { [wf |-> w, system |-> c.system] : c \in Contradicted(new) }
<1>1. /\ phase[w] = "commit"
      /\ runs' = runs \cup {run}
      /\ checks' = checks \cup new
      /\ snapshots' = snapshots \cup open[w].snapshots
      /\ contradictions' = contradictions \cup rows
      /\ open' = [open EXCEPT ![w] = Nothing]
      /\ read' = [read EXCEPT ![w] = NoFacts]
      /\ facts' = facts
  BY DEF CommitRun
<1>2. \/ /\ phase' = [phase EXCEPT ![w] = "done"]
         /\ answer' = [answer EXCEPT ![w] = Summary(new)]
         /\ faults' = faults
      \/ /\ faults < MaxFaults /\ faults' = faults + 1
         /\ phase' = [phase EXCEPT ![w] = "lost"]
         /\ answer' = answer
  BY DEF CommitRun, Goto
<1>3. PICK v \in Verdicts, u \in Verdicts :
        new = {Check(w, "MOCK_KYC", v), Check(w, "MOCK_EMPLOYER", u)}
  BY <1>1 DEF Inv, OpensInv, OpenInv
<1>4. /\ IsFiniteSet(new) /\ Cardinality(new) = 2
      /\ Cardinality(Contradicted(new)) \in 0 .. 2
  BY <1>3, TwoChecks
<1>5. /\ new \subseteq CheckType /\ open[w].snapshots \subseteq SnapshotType
      /\ \A c \in new : c.wf = w /\ Evident(c, open[w].snapshots)
      /\ \A s \in open[w].snapshots : s.wf = w
  <2>1. open[w] \in OpenType
    BY DEF Inv, OpensInv
  <2>2. new \subseteq CheckType /\ open[w].snapshots \subseteq SnapshotType
    BY <2>1 DEF OpenType
  <2>3. \A c \in new : c.wf = w
    BY <1>3, CheckFields
  <2> QED BY <2>2, <2>3 DEF Inv, OpensInv, OpenInv
<1>6. /\ Summary(new) \in [matched : Nat, contradicted : Nat, insufficient : Nat]
      /\ Summary(new).contradicted = Cardinality(Contradicted(new))
  BY <1>4, SummaryCounts
<1>7. /\ run.wf = w /\ run.contradiction_count = Cardinality(Contradicted(new))
      /\ run \in [wf : Executions, check_count : {2}, contradiction_count : 0 .. 2]
  BY <1>4
<1>8. /\ \A x \in rows : x.wf = w
      /\ rows \subseteq [wf : Executions, system : {"MOCK_KYC", "MOCK_EMPLOYER"}]
      /\ { x.system : x \in rows } = { c.system : c \in Contradicted(new) }
  <2>1. \A c \in Contradicted(new) : c.system \in {"MOCK_KYC", "MOCK_EMPLOYER"}
    BY <1>5 DEF Contradicted, CheckType
  <2>2. \A c \in Contradicted(new) :
          /\ [wf |-> w, system |-> c.system] \in rows
          /\ [wf |-> w, system |-> c.system].system = c.system
    OBVIOUS
  <2>3. \A x \in rows : \E c \in Contradicted(new) :
          x = [wf |-> w, system |-> c.system] /\ x.system = c.system /\ x.wf = w
    OBVIOUS
  <2>4. rows \subseteq [wf : Executions, system : {"MOCK_KYC", "MOCK_EMPLOYER"}]
    BY <2>1
  <2> HIDE DEF rows, new
  <2>5. ASSUME NEW y \in { x.system : x \in rows }
        PROVE  y \in { c.system : c \in Contradicted(new) }
    BY <2>3
  <2>6. ASSUME NEW y \in { c.system : c \in Contradicted(new) }
        PROVE  y \in { x.system : x \in rows }
    <3>1. PICK c \in Contradicted(new) : y = c.system
      OBVIOUS
    <3> QED BY <2>2, <3>1
  <2>7. { x.system : x \in rows } = { c.system : c \in Contradicted(new) }
    BY <2>5, <2>6
  <2>8. \A x \in rows : x.wf = w
    BY <2>3
  <2> QED BY <2>4, <2>7, <2>8
<1> HIDE DEF run, rows, new
<1>9. /\ phase'[w] \in {"lost", "done"}
      /\ \A x \in Executions \ {w} : phase'[x] = phase[x] /\ answer'[x] = answer[x]
      /\ phase'[w] = "done" => answer'[w] = Summary(new)
  BY <1>2 DEF Inv, TypeOK
<1>10. TypeOK'
  <2>1. phase' \in [Executions ->
          {"waiting", "extract", "extracted", "kyc", "employer", "bureau",
           "banking", "commit", "lost", "done"}]
    BY <1>2 DEF Inv, TypeOK
  <2>2. runs' \subseteq [wf : Executions, check_count : {2},
                         contradiction_count : 0 .. 2]
    BY <1>1, <1>7 DEF Inv, TypeOK
  <2>3. checks' \subseteq CheckType
    BY <1>1, <1>5 DEF Inv, TypeOK, CheckType
  <2>4. \A s \in snapshots' : s.wf \in Executions /\ s.system \in Systems
    BY <1>1, <1>5 DEF Inv, TypeOK, SnapshotType
  <2>5. contradictions' \subseteq
          [wf : Executions, system : {"MOCK_KYC", "MOCK_EMPLOYER"}]
    BY <1>1, <1>8 DEF Inv, TypeOK
  <2>6. answer' \in [Executions -> [matched : Nat, contradicted : Nat,
                                    insufficient : Nat]]
    BY <1>2, <1>6 DEF Inv, TypeOK
  <2>7. faults' \in 0 .. MaxFaults
    BY <1>2, FaultCounted DEF Inv, TypeOK
  <2> QED BY <2>1, <2>2, <2>3, <2>4, <2>5, <2>6, <2>7 DEF TypeOK, CheckType
<1>11. IncomeInv'
  <2>1. /\ DOMAIN read' = Executions /\ read'[w] = NoFacts
        /\ \A x \in Executions \ {w} : read'[x] = read[x]
    BY <1>1 DEF Inv, IncomeInv
  <2> QED BY <2>1, <1>1 DEF Inv, IncomeInv, NoFacts
<1>12. OpensInv'
  <2>1. /\ open' \in [Executions -> OpenType]
        /\ \A x \in Executions \ {w} : open'[x] = open[x]
        /\ open'[w] = Nothing
    BY <1>1, NothingTyped DEF Inv, OpensInv
  <2>2. OpenInv(w)'
    BY <1>9, <2>1, NothingTyped DEF OpenInv
  <2>3. \A x \in Executions \ {w} : OpenInv(x)'
    BY <1>9, <2>1, OpenKept DEF Inv, OpensInv
  <2> QED BY <2>1, <2>2, <2>3 DEF OpensInv
\* The tables hold nothing of this execution yet.
<1>13. /\ \A c \in checks : c.wf # w
       /\ \A s \in snapshots : s.wf # w
       /\ \A x \in contradictions : x.wf # w
       /\ \A r \in runs : r.wf # w
  BY <1>1 DEF Inv, TablesInv, Ended
<1>14. \A x \in Executions : Ended(x)' <=> (x = w \/ Ended(x))
  BY <1>9 DEF Ended
<1>15. TablesInv'
  <2>1. /\ \A c \in checks : c.wf \in Executions
        /\ \A s \in snapshots : s.wf \in Executions
        /\ \A x \in contradictions : x.wf \in Executions
        /\ \A r \in runs : r.wf \in Executions
    BY DEF Inv, TypeOK
  <2>2. /\ \A c \in checks' : Ended(c.wf)'
        /\ \A s \in snapshots' : Ended(s.wf)'
        /\ \A x \in contradictions' : Ended(x.wf)'
        /\ \A r \in runs' : Ended(r.wf)'
    BY <2>1, <1>1, <1>5, <1>7, <1>8, <1>14 DEF Inv, TablesInv
  <2>3. IsFiniteSet(checks')
    BY <1>1, <1>4, FS_Union DEF Inv, TablesInv
  <2>4. snapshots' \subseteq SnapshotType
    BY <1>1, <1>5 DEF Inv, TablesInv
  <2>5. ASSUME NEW c \in checks PROVE Evident(c, snapshots')
    <3>1. Evident(c, snapshots) /\ c.wf # w
      BY <1>13 DEF Inv, TablesInv
    <3> QED BY <3>1, <1>1, <1>5, EvidenceIsLocal DEF IsAbout
  <2>6. ASSUME NEW c \in new PROVE Evident(c, snapshots')
    <3>1. Evident(c, open[w].snapshots) /\ c.wf = w
      BY <1>5
    <3> QED BY <3>1, <1>1, <1>13, EvidenceIsLocal DEF IsAbout
  <2>7. \A c \in checks' : Evident(c, snapshots')
    BY <1>1, <2>5, <2>6
  <2> QED BY <2>2, <2>3, <2>4, <2>7 DEF TablesInv
<1>16. \A x \in Executions : Ended(x)' => \E r \in runs' : r.wf = x
  BY <1>1, <1>7, <1>14 DEF Inv, CountsInv
<1>17. ASSUME NEW r \in runs'
       PROVE  LET shown == { x \in contradictions' : x.wf = r.wf }
                  found == { c \in checks' : c.wf = r.wf
                                             /\ c.verdict = "CONTRADICTED" }
              IN /\ r.contradiction_count = Cardinality(found)
                 /\ { x.system : x \in shown } = { c.system : c \in found }
                 /\ phase'[r.wf] = "done" =>
                      answer'[r.wf].contradicted >= r.contradiction_count
  <2>1. CASE r \in runs
    <3>1. r.wf # w /\ r.wf \in Executions
      BY <2>1, <1>13 DEF Inv, TypeOK
    <3>2. { x \in contradictions' : x.wf = r.wf }
            = { x \in contradictions : x.wf = r.wf }
      BY <3>1, <1>1, <1>8
    <3>3. { c \in checks' : c.wf = r.wf /\ c.verdict = "CONTRADICTED" }
            = { c \in checks : c.wf = r.wf /\ c.verdict = "CONTRADICTED" }
      BY <3>1, <1>1, <1>5
    <3>4. phase'[r.wf] = phase[r.wf] /\ answer'[r.wf] = answer[r.wf]
      BY <3>1, <1>9
    <3> QED BY <2>1, <3>2, <3>3, <3>4 DEF Inv, CountsInv, NoContradictionHidden
  <2>2. CASE r = run
    <3>1. { x \in contradictions' : x.wf = w } = rows
      BY <1>1, <1>8, <1>13
    <3>2. { c \in checks' : c.wf = w /\ c.verdict = "CONTRADICTED" }
            = Contradicted(new)
      BY <1>1, <1>5, <1>13 DEF Contradicted
    <3>3. Cardinality(Contradicted(new)) >= Cardinality(Contradicted(new))
      BY <1>4
    <3>4. phase'[w] = "done" =>
            answer'[w].contradicted = Cardinality(Contradicted(new))
      BY <1>6, <1>9
    <3> QED BY <2>2, <3>1, <3>2, <3>3, <3>4, <1>7, <1>8
  <2> QED BY <2>1, <2>2, <1>1
<1>18. \A x \in Executions : phase'[x] = "done" => \E r \in runs' : r.wf = x
  BY <1>16 DEF Ended
<1>19. NoContradictionHidden'
  BY <1>17, <1>18 DEF NoContradictionHidden
<1>20. CountsInv'
  BY <1>16, <1>19 DEF CountsInv
<1> QED BY <1>10, <1>11, <1>12, <1>15, <1>20 DEF Inv

\* The retry of a run that was committed: what it finds in the tables includes
\* what the lost attempt recorded.
LEMMA DuplicateInv ==
  ASSUME Inv, NEW w \in Executions, DuplicateAttempt(w)
  PROVE  Inv'
<1>1. /\ phase[w] = "lost" /\ phase' = [phase EXCEPT ![w] = "done"]
      /\ answer' = [answer EXCEPT ![w] = Summary(checks)]
      /\ UNCHANGED <<facts, read, open, tables, faults>>
  BY DEF DuplicateAttempt, Goto, StoredSummary
<1>2. UNCHANGED <<runs, checks, snapshots, contradictions>>
  BY <1>1 DEF tables
<1>3. /\ Summary(checks) \in [matched : Nat, contradicted : Nat, insufficient : Nat]
      /\ Summary(checks).contradicted = Cardinality(Contradicted(checks))
      /\ IsFiniteSet(Contradicted(checks))
      /\ Cardinality(Contradicted(checks)) \in Nat
  BY SummaryCounts DEF Inv, TablesInv
<1>4. /\ phase'[w] = "done" /\ answer'[w] = Summary(checks)
      /\ \A x \in Executions \ {w} : phase'[x] = phase[x] /\ answer'[x] = answer[x]
  BY <1>1 DEF Inv, TypeOK
<1>5. TypeOK'
  BY <1>1, <1>2, <1>3 DEF Inv, TypeOK
<1>6. IncomeInv'
  BY <1>1 DEF Inv, IncomeInv
<1>7. OpensInv'
  <2>1. OpenInv(w)'
    BY <1>1, <1>4 DEF Inv, OpensInv, OpenInv
  <2>2. \A x \in Executions \ {w} : OpenInv(x)'
    BY <1>1, <1>4, OpenKept DEF Inv, OpensInv
  <2> QED BY <1>1, <2>1, <2>2 DEF Inv, OpensInv
<1>8. \A x \in Executions : Ended(x)' <=> Ended(x)
  BY <1>1, <1>4 DEF Ended
<1>9. TablesInv'
  <2>1. /\ \A c \in checks : c.wf \in Executions
        /\ \A s \in snapshots : s.wf \in Executions
        /\ \A x \in contradictions : x.wf \in Executions
        /\ \A r \in runs : r.wf \in Executions
    BY DEF Inv, TypeOK
  <2> QED BY <2>1, <1>2, <1>8 DEF Inv, TablesInv
<1>10. ASSUME NEW r \in runs, phase'[r.wf] = "done"
       PROVE  answer'[r.wf].contradicted >= r.contradiction_count
  <2>1. CASE r.wf # w
    <3>1. r.wf \in Executions
      BY DEF Inv, TypeOK
    <3> QED BY <2>1, <3>1, <1>4, <1>10 DEF Inv, CountsInv, NoContradictionHidden
  <2>2. CASE r.wf = w
    <3> DEFINE found == { c \in checks : c.wf = r.wf /\ c.verdict = "CONTRADICTED" }
    <3>1. r.contradiction_count = Cardinality(found)
      BY DEF Inv, CountsInv, NoContradictionHidden
    <3>2. found \in SUBSET Contradicted(checks)
      BY DEF Contradicted
    <3> HIDE DEF found
    <3>3. IsFiniteSet(found) /\ Cardinality(found) <= Cardinality(Contradicted(checks))
      BY <1>3, <3>2, FS_Subset
    <3>4. Cardinality(found) \in Nat
      BY <3>3, FS_CardinalityType
    <3> QED BY <2>2, <3>1, <3>3, <3>4, <1>3, <1>4
  <2> QED BY <2>1, <2>2
<1>11. \A x \in Executions : phase'[x] = "done" => \E r \in runs : r.wf = x
  BY <1>8 DEF Inv, CountsInv, Ended
<1>12. NoContradictionHidden'
  BY <1>2, <1>10, <1>11 DEF Inv, CountsInv, NoContradictionHidden
<1>13. CountsInv'
  BY <1>2, <1>8, <1>12 DEF Inv, CountsInv
<1> QED BY <1>5, <1>6, <1>7, <1>9, <1>13 DEF Inv

-----------------------------------------------------------------------------
(* Theorems                                                                *)

LEMMA StepInv ==
  ASSUME Inv, [Next]_vars
  PROVE  Inv'
<1>1. CASE UNCHANGED vars
  <2>1. UNCHANGED <<phase, facts, read, open, runs, checks, snapshots,
                    contradictions, answer, faults>>
    BY <1>1 DEF vars, tables
  <2>2. TypeOK' /\ IncomeInv'
    BY <2>1 DEF Inv, TypeOK, IncomeInv
  <2>3. OpensInv'
    BY <2>1, OpenKept DEF Inv, OpensInv
  <2>4. TablesInv' /\ CountsInv'
    BY <2>1 DEF Inv, TablesInv, CountsInv, Ended, NoContradictionHidden
  <2> QED BY <2>2, <2>3, <2>4 DEF Inv
<1>2. ASSUME NEW w \in Executions, BureauStep(w) PROVE Inv'
  BY <1>2, SnapshotKept DEF BureauStep
<1>3. ASSUME NEW w \in Executions, BankingStep(w) PROVE Inv'
  BY <1>3, SnapshotKept DEF BankingStep
<1> QED BY <1>1, <1>2, <1>3, StartInv, ExtractInv, BeginInv, KycInv, EmployerInv,
           CommitInv, FailInv, DuplicateInv DEF Next

LEMMA Invariant == Spec => []Inv
<1>1. Init => Inv
  BY InitInv
<1>2. Inv /\ [Next]_vars => Inv'
  BY StepInv
<1> QED BY <1>1, <1>2, PTL DEF Spec

\* Every table keeps its type, and a run that is recorded has both of its
\* checks (VerifyApplicationFactsHandler).
THEOREM TypeCorrect == Spec => []TypeOK
<1>1. Inv => TypeOK
  BY DEF Inv
<1> QED BY <1>1, Invariant, PTL

\* Whatever the documents yield and the systems answer, a check is resolved
\* exactly when the answer it rests on is kept, and says what that answer says
\* (VerifyApplicationFactsHandler).
THEOREM VerdictsAreEvident == Spec => []VerdictsHaveEvidence
<1>1. Inv => VerdictsHaveEvidence
  BY DEF Inv, TablesInv, VerdictsHaveEvidence, SnapshotOf, Evident, IsAbout
<1> QED BY <1>1, Invariant, PTL

\* The rows, the count and the verdicts of a run agree, and the summary that
\* goes to review reports at least its contradictions, a lost answer and its
\* retry included (verify_facts_activity, build_verification_summary).
THEOREM ContradictionsAreReported == Spec => []NoContradictionHidden
<1>1. Inv => NoContradictionHidden
  BY DEF Inv, CountsInv
<1> QED BY <1>1, Invariant, PTL
==============================================================================
