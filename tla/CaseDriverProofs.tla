-------------------------- MODULE CaseDriverProofs ---------------------------
(***************************************************************************)
(* DriverInv is an inductive invariant of CaseWorkflow: whatever is        *)
(* retried, given up, answered late or resubmitted, an attempt that can    *)
(* still take effect belongs to the attached workflow and finds the        *)
(* application in the status it expects.  From it: each document is        *)
(* extracted and the facts verified at most once for an execution, and no  *)
(* case goes from verification to review unread.                           *)
(***************************************************************************)
EXTENDS CaseWorkflowProofs

-----------------------------------------------------------------------------
(* The stage tables                                                        *)

\* What has been dispatched stays dispatched as the workflow moves on, and an
\* activity is dispatched for the first time when its stage is reached.
LEMMA DispatchedFacts ==
  /\ \A st \in Activities : st \in Dispatched[st]
  /\ \A act \in Activities : \A ans :
       /\ Dispatched[act] \subseteq Dispatched[NextStage(act, ans)]
       /\ NextStage(act, ans) \notin Dispatched[act]
  /\ \A st \in Stages : Dispatched[st] \subseteq Dispatched["failed"]
  /\ Dispatched["wait"] \subseteq Dispatched["apply_review_decision"]
  /\ "apply_review_decision" \notin Dispatched["wait"]
<1> USE DEF Dispatched, Activities, NextStage, Successor
<1>1. \A st \in Activities : st \in Dispatched[st]
  OBVIOUS
<1>2. ASSUME NEW act \in Activities, NEW ans
      PROVE  Dispatched[act] \subseteq Dispatched[NextStage(act, ans)]
  OBVIOUS
<1>3. ASSUME NEW act \in Activities, NEW ans
      PROVE  NextStage(act, ans) \notin Dispatched[act]
  OBVIOUS
<1>4. \A st \in Stages : Dispatched[st] \subseteq Dispatched["failed"]
  BY DEF Stages, Closed
<1>5. Dispatched["wait"] \subseteq Dispatched["apply_review_decision"]
      /\ "apply_review_decision" \notin Dispatched["wait"]
  OBVIOUS
<1> QED BY <1>1, <1>2, <1>3, <1>4, <1>5

\* No two movers expect the same status.
LEMMA StatusBeforeInjective ==
  ASSUME NEW f \in Movers, NEW g \in Movers, StatusBefore[f] = StatusBefore[g]
  PROVE  f = g
  BY DEF Movers, StatusBefore

\* An attempt that can still take effect belongs to the current stage of its
\* execution, or the execution has failed.
LEMMA EffectiveStage ==
  ASSUME TypeOK, DriverInv, NEW a \in attempts, a.act \in Movers, ~Reserved(a)
  PROVE  /\ a.wf \in DOMAIN exec
         /\ active = a.wf /\ status = StatusBefore[a.act]
         /\ exec[a.wf].stage \in {a.act, "failed"}
<1> DEFINE st == exec[a.wf].stage
<1>1. /\ a.wf \in DOMAIN exec
      /\ a.act \in Dispatched[st]
      /\ active = a.wf /\ status = StatusBefore[a.act]
  BY DEF DriverInv, AttemptsInv, Ready
<1>2. st \in Stages
  BY <1>1 DEF TypeOK, Executions
<1>3. StageAgrees(a.wf)
  BY <1>1 DEF DriverInv, StagesInv
<1>4. CASE a.act = "validate_intake"
  BY <1>1, <1>2, <1>3, <1>4 DEF StageAgrees, Stages, Activities, Closed, Movers,
     Ready, StatusBefore
<1>5. CASE a.act = "check_required_documents"
  BY <1>1, <1>2, <1>3, <1>5 DEF StageAgrees, Stages, Activities, Closed, Movers,
     Ready, StatusBefore, Dispatched
<1>6. CASE a.act = "enter_human_review"
  BY <1>1, <1>2, <1>3, <1>6 DEF StageAgrees, Stages, Activities, Closed, Movers,
     Ready, StatusBefore, Dispatched
<1>7. CASE a.act = "apply_review_decision"
  BY <1>1, <1>2, <1>3, <1>7 DEF StageAgrees, Stages, Activities, Closed, Movers,
     Ready, StatusBefore, Dispatched
<1> QED BY <1>1, <1>4, <1>5, <1>6, <1>7 DEF Movers

\* An execution that is not attached has failed, completed, or applied its
\* decision.
LEMMA DetachedStage ==
  ASSUME TypeOK, DriverInv, NEW w \in DOMAIN exec, active # w
  PROVE  \/ exec[w].stage = "failed"
         \/ /\ exec[w].stage = "completed"
            /\ <<w, "apply_review_decision">> \in activityKeys
         \/ /\ exec[w].stage = "apply_review_decision"
            /\ <<w, "apply_review_decision">> \in activityKeys
            /\ exec[w].choice # NoDecision
<1>1. exec[w].stage \in Stages
  BY DEF TypeOK, Executions
<1>2. StageAgrees(w)
  BY DEF DriverInv, StagesInv
<1> QED BY <1>1, <1>2 DEF StageAgrees, Stages, Activities, Closed, Movers, Ready

\* And stays in agreement while it is not attached, whatever is reserved.
LEMMA DetachedAgrees ==
  ASSUME TypeOK, DriverInv, NEW w \in DOMAIN exec, active # w,
         active' # w, activityKeys \subseteq activityKeys',
         exec'[w].stage = exec[w].stage,
         exec'[w].choice # NoDecision \/ exec'[w].choice = exec[w].choice
  PROVE  StageAgrees(w)'
  BY DetachedStage DEF StageAgrees, Movers

\* An execution that keeps its stage stays in agreement with an unchanged row,
\* and so does one that fails.
LEMMA SameAgrees ==
  ASSUME NEW w, StageAgrees(w), status' = status, active' = active,
         activityKeys' = activityKeys, exec'[w].stage = exec[w].stage,
         exec'[w].choice # NoDecision \/ exec'[w].choice = exec[w].choice
  PROVE  StageAgrees(w)'
  BY DEF StageAgrees, Ready

\* A failed execution says nothing about the application.
LEMMA FailedAgrees ==
  ASSUME NEW w, exec'[w].stage = "failed"
  PROVE  StageAgrees(w)'
  BY DEF StageAgrees, Movers

-----------------------------------------------------------------------------
(* What a step of Temporal does to executions and attempts                 *)

\* Execution w is at stage st afterwards, and every attempt that is running
\* then is of an activity that was running before, or of the new stage of w.
ExecMove(w, st) ==
  /\ w \in DOMAIN exec
  /\ DOMAIN exec' = DOMAIN exec
  /\ exec'[w].stage = st
  /\ \A v \in DOMAIN exec : v # w => exec'[v].stage = exec[v].stage
  /\ \A v \in DOMAIN exec : \/ exec'[v].choice = exec[v].choice
                            \/ exec'[v].choice # NoDecision
  /\ \A b \in attempts' :
       \/ \E c \in attempts : c.wf = b.wf /\ c.act = b.act
       \/ b.wf = w /\ b.act = st /\ st \in Activities

\* An answer moves a current execution on, or changes nothing.
LEMMA AnswerMoves ==
  ASSUME TypeOK, NEW a \in attempts, NEW answer, AnswerOrLose(a, answer)
  PROVE  \/ ExecMove(a.wf, exec[a.wf].stage) /\ UNCHANGED exec
         \/ /\ exec[a.wf].stage = a.act
            /\ ExecMove(a.wf, NextStage(a.act, answer))
            /\ UNCHANGED faults
<1>0. a.wf \in DOMAIN exec /\ exec[a.wf] \in Executions
  BY DEF TypeOK
<1>1. CASE Answer(a, answer) /\ UNCHANGED faults /\ Current(a)
  <2> DEFINE next == NextStage(a.act, answer)
  <2>1. exec' = [exec EXCEPT ![a.wf].stage = next, ![a.wf].attempt = 1]
        /\ attempts' \subseteq attempts \cup {FirstAttempt(a.wf, next)}
        /\ (next \notin Activities => attempts' \subseteq attempts)
    BY <1>1 DEF Answer
  <2>2. \A v \in DOMAIN exec : exec'[v].choice = exec[v].choice
    BY <2>1, <1>0 DEF TypeOK, Executions
  <2>3. exec'[a.wf].stage = next
    BY <2>1, <1>0 DEF Executions
  <2>4. ExecMove(a.wf, next)
    <3>1. /\ DOMAIN exec' = DOMAIN exec
          /\ \A v \in DOMAIN exec : v # a.wf => exec'[v].stage = exec[v].stage
      BY <2>1
    <3>2. \A b \in attempts' :
            \/ b \in attempts
            \/ b.wf = a.wf /\ b.act = next /\ next \in Activities
      BY <2>1 DEF FirstAttempt
    <3> HIDE DEF next
    <3> QED BY <1>0, <2>2, <2>3, <3>1, <3>2 DEF ExecMove
  <2> QED BY <1>1, <2>4 DEF Current
<1>2. CASE UNCHANGED exec /\ attempts' \subseteq attempts
  BY <1>0, <1>2 DEF ExecMove
<1> QED BY <1>1, <1>2 DEF AnswerOrLose, Answer, LoseAnswer

\* A retry keeps the execution at its stage, or fails it.
LEMMA RetryMoves ==
  ASSUME TypeOK, NEW w \in DOMAIN exec, NEW rest \in SUBSET attempts,
         exec[w].stage \in Activities, Retry(w, rest)
  PROVE  ExecMove(w, exec[w].stage) \/ ExecMove(w, "failed")
<1>0. exec[w] \in Executions
  BY DEF TypeOK
<1>1. CASE exec[w].attempt < MaxAttempts
  <2>1. exec' = [exec EXCEPT ![w].attempt = @ + 1]
        /\ attempts' = rest \cup {[FirstAttempt(w, exec[w].stage)
                                     EXCEPT !.n = exec[w].attempt + 1]}
    BY <1>1 DEF Retry, RetryUpTo
  <2>2. \A v \in DOMAIN exec : /\ exec'[v].choice = exec[v].choice
                               /\ exec'[v].stage = exec[v].stage
    BY <2>1, <1>0 DEF TypeOK, Executions
  <2>3. \A b \in attempts' : \/ b \in attempts
                             \/ b.wf = w /\ b.act = exec[w].stage
    BY <2>1 DEF FirstAttempt
  <2> QED BY <2>1, <2>2, <2>3 DEF ExecMove
<1>2. CASE ~(exec[w].attempt < MaxAttempts)
  <2>1. exec' = [exec EXCEPT ![w].stage = "failed"] /\ attempts' = rest
    BY <1>2 DEF Retry, RetryUpTo
  <2>2. \A v \in DOMAIN exec : exec'[v].choice = exec[v].choice
    BY <2>1, <1>0 DEF TypeOK, Executions
  <2>3. exec'[w].stage = "failed"
    BY <2>1, <1>0 DEF Executions
  <2> QED BY <2>1, <2>2, <2>3 DEF ExecMove
<1> QED BY <1>1, <1>2

\* So does an attempt that raises.
LEMMA RaiseMoves ==
  ASSUME TypeOK, NEW a \in attempts, Raise(a)
  PROVE  ExecMove(a.wf, exec[a.wf].stage) \/ ExecMove(a.wf, "failed")
<1>0. a.wf \in DOMAIN exec /\ a.act \in Activities
  BY DEF TypeOK, Attempts
<1>1. CASE Current(a)
  <2>1. exec[a.wf].stage \in Activities /\ attempts \ {a} \in SUBSET attempts
    BY <1>0, <1>1 DEF Current
  <2> QED BY <1>0, <1>1, <2>1, RetryMoves DEF Raise
<1>2. CASE ~Current(a)
  BY <1>0, <1>2 DEF Raise, ExecMove
<1> QED BY <1>1, <1>2

-----------------------------------------------------------------------------
(* Preservation                                                            *)

\* A step that leaves the application row alone keeps the invariant, provided
\* it keeps the execution it moves in agreement.
LEMMA ExecStep ==
  ASSUME TypeOK, DriverInv, NEW w, NEW st, ExecMove(w, st),
         UNCHANGED <<status, version, active, starting>>,
         activityKeys \subseteq activityKeys',
         \A k \in activityKeys' \ activityKeys : k[1] = w /\ k[2] \in Dispatched[st],
         Dispatched[exec[w].stage] \subseteq Dispatched[st],
         StageAgrees(w)'
  PROVE  DriverInv'
<1>1. IdsInv'
  BY DEF DriverInv, IdsInv, ExecMove
<1>2. StatusInv'
  BY DEF DriverInv, StatusInv
<1>3. StartingInv'
  BY DEF DriverInv, StartingInv, ExecMove
<1>4. KeysInv'
  BY DEF DriverInv, KeysInv, ExecMove
<1>5. AttemptsInv'
  <2> SUFFICES ASSUME NEW b \in attempts'
               PROVE  /\ b.wf \in DOMAIN exec'
                      /\ b.act \in Dispatched[exec'[b.wf].stage]
                      /\ b.act \in Movers /\ ~Reserved(b)' => Ready(b.wf, b.act)'
                      /\ b.act = "apply_review_decision" =>
                           exec'[b.wf].choice # NoDecision
    BY DEF AttemptsInv
  <2>1. ASSUME NEW c \in attempts, c.wf = b.wf, c.act = b.act
        PROVE  /\ b.wf \in DOMAIN exec'
               /\ b.act \in Dispatched[exec'[b.wf].stage]
               /\ b.act \in Movers /\ ~Reserved(b)' => Ready(b.wf, b.act)'
               /\ b.act = "apply_review_decision" =>
                    exec'[b.wf].choice # NoDecision
    BY <2>1 DEF DriverInv, AttemptsInv, ExecMove, Ready, Reserved
  <2>2. CASE b.wf = w /\ b.act = st /\ st \in Activities
    BY <2>2, DispatchedFacts DEF ExecMove, StageAgrees, Ready, Reserved
  <2> QED BY <2>1, <2>2 DEF ExecMove
<1>6. StagesInv'
  <2> SUFFICES ASSUME NEW v \in DOMAIN exec, v # w PROVE StageAgrees(v)'
    BY DEF StagesInv, ExecMove
  <2>1. StageAgrees(v)
    BY DEF DriverInv, StagesInv
  <2>2. \A act : <<v, act>> \in activityKeys' <=> <<v, act>> \in activityKeys
    OBVIOUS
  <2> QED BY <2>1, <2>2 DEF StageAgrees, ExecMove, Ready
<1> QED BY <1>1, <1>2, <1>3, <1>4, <1>5, <1>6 DEF DriverInv

\* A mover that found its key free keeps the invariant: it was the only attempt
\* that could take effect.
LEMMA MoverStepKeeps ==
  ASSUME TypeOK, DriverInv, NEW a \in attempts, a.act \in Movers, ~Reserved(a),
         NEW st, ExecMove(a.wf, st), Reserve(a),
         version' \in Nat, version' >= version, active' \in {active, None},
         UNCHANGED starting,
         StatusInv', Dispatched[exec[a.wf].stage] \subseteq Dispatched[st],
         StageAgrees(a.wf)'
  PROVE  DriverInv'
<1>0. /\ a.wf \in DOMAIN exec /\ active = a.wf
      /\ status = StatusBefore[a.act]
      /\ a.act \in Dispatched[exec[a.wf].stage]
  BY EffectiveStage DEF DriverInv, AttemptsInv
<1>1. IdsInv'
  BY DEF DriverInv, IdsInv, ExecMove, None, TypeOK
<1>3. StartingInv'
  BY <1>0 DEF DriverInv, StartingInv, ExecMove
<1>4. KeysInv'
  BY <1>0 DEF DriverInv, KeysInv, ExecMove, Reserve
<1>5. AttemptsInv'
  <2> SUFFICES ASSUME NEW b \in attempts'
               PROVE  /\ b.wf \in DOMAIN exec'
                      /\ b.act \in Dispatched[exec'[b.wf].stage]
                      /\ b.act \in Movers /\ ~Reserved(b)' => Ready(b.wf, b.act)'
                      /\ b.act = "apply_review_decision" =>
                           exec'[b.wf].choice # NoDecision
    BY DEF AttemptsInv
  <2>1. ASSUME NEW c \in attempts, c.wf = b.wf, c.act = b.act
        PROVE  /\ b.wf \in DOMAIN exec'
               /\ b.act \in Dispatched[exec'[b.wf].stage]
               /\ b.act \in Movers => Reserved(b)'
               /\ b.act = "apply_review_decision" =>
                    exec'[b.wf].choice # NoDecision
    <3>1. /\ b.wf \in DOMAIN exec'
          /\ b.act \in Dispatched[exec'[b.wf].stage]
          /\ b.act = "apply_review_decision" => exec'[b.wf].choice # NoDecision
      BY <2>1 DEF DriverInv, AttemptsInv, ExecMove
    <3>2. ASSUME c.act \in Movers, ~Reserved(c) PROVE c.wf = a.wf /\ c.act = a.act
      BY <1>0, <3>2, EffectiveStage, StatusBeforeInjective
    <3>3. b.act \in Movers => Reserved(b)'
      BY <2>1, <3>2 DEF Reserved, Reserve
    <3> QED BY <3>1, <3>3
  <2>2. CASE b.wf = a.wf /\ b.act = st /\ st \in Activities
    BY <2>2, DispatchedFacts DEF ExecMove, StageAgrees, Ready, Reserved
  <2> QED BY <2>1, <2>2 DEF ExecMove
<1>6. StagesInv'
  <2> SUFFICES ASSUME NEW v \in DOMAIN exec, v # a.wf PROVE StageAgrees(v)'
    BY DEF StagesInv, ExecMove
  <2>1. active # v /\ active' # v
    BY <1>0 DEF DriverInv, IdsInv, None
  <2>2. activityKeys \subseteq activityKeys'
    BY DEF Reserve
  <2> QED BY <2>1, <2>2, DetachedAgrees DEF ExecMove
<1> QED BY <1>1, <1>3, <1>4, <1>5, <1>6 DEF DriverInv

\* The invariant holds for a freshly created application.
LEMMA DriverInit == Init => DriverInv
<1> SUFFICES ASSUME Init PROVE DriverInv
  OBVIOUS
<1>1. IdsInv
  BY DEF Init, IdsInv, None
<1>2. StatusInv
  BY DEF Init, StatusInv
<1>3. StartingInv /\ KeysInv /\ AttemptsInv /\ StagesInv
  BY DEF Init, StartingInv, KeysInv, AttemptsInv, StagesInv
<1> QED BY <1>1, <1>2, <1>3 DEF DriverInv

\* While no workflow is attached no attempt can take effect; the id that a
\* (re)submission attaches is new.
LEMMA AttachKeeps ==
  ASSUME TypeOK, DriverInv, NEW from \in {"SUBMITTED", "DOCUMENT_PROCESSING"},
         active = None, AttachWorkflow(version + 1, from),
         version' = version + 1, status' = from,
         UNCHANGED <<activityKeys, exec, attempts>>
  PROVE  DriverInv'
<1>0. /\ version \in Nat /\ DOMAIN exec \subseteq Nat
      /\ active' = version + 1
      /\ starting' = starting \cup {[wf |-> version + 1, from |-> from]}
      /\ \A w \in DOMAIN exec : 1 <= w /\ w <= version
  BY DEF TypeOK, AttachWorkflow, DriverInv, IdsInv
<1>1. IdsInv'
  BY <1>0 DEF IdsInv
<1>2. StatusInv'
  BY DEF StatusInv, REVIEW_DECISIONS
<1>3. StartingInv'
  <2>1. starting = {}
    BY DEF DriverInv, StartingInv
  <2>2. version + 1 \notin DOMAIN exec /\ version + 1 # None
    BY <1>0 DEF None
  <2> QED BY <1>0, <2>1, <2>2 DEF StartingInv
<1>4. KeysInv'
  BY DEF DriverInv, KeysInv
<1>5. AttemptsInv'
  <2>1. ASSUME NEW a \in attempts, a.act \in Movers PROVE Reserved(a)
    BY <2>1, <1>0, EffectiveStage DEF None
  <2> QED BY <2>1 DEF DriverInv, AttemptsInv, Reserved
<1>6. StagesInv'
  <2> SUFFICES ASSUME NEW v \in DOMAIN exec PROVE StageAgrees(v)'
    BY DEF StagesInv
  <2>1. active # v /\ active' # v
    BY <1>0 DEF None
  <2> QED BY <2>1, DetachedAgrees
<1> QED BY <1>1, <1>2, <1>3, <1>4, <1>5, <1>6 DEF DriverInv

\* A started execution finds the application as the submission left it.
LEMMA StartKeeps ==
  ASSUME TypeOK, DriverInv, NEW call \in starting, StartWorkflow(call)
  PROVE  DriverInv'
<1> DEFINE first == FirstActivity(call.from)
           w0 == call.wf
<1>0. /\ w0 = active /\ w0 # None /\ w0 \in Nat
      /\ call.from = status
      /\ w0 \notin DOMAIN exec
      /\ status \in {"SUBMITTED", "DOCUMENT_PROCESSING"}
  BY DEF DriverInv, StartingInv, TypeOK
<1>1. /\ exec' = [w \in DOMAIN exec \cup {w0} |->
                    IF w = w0
                    THEN [stage   |-> first,      attempt |-> 1,
                          signal  |-> NoDecision, choice  |-> NoDecision]
                    ELSE exec[w]]
      /\ attempts' = attempts \cup {FirstAttempt(w0, first)}
      /\ starting' = starting \ {call}
      /\ UNCHANGED <<status, version, active, activityKeys>>
  BY <1>0 DEF StartWorkflow, dbVars
<1>2. /\ first \in Movers /\ first \in Activities
      /\ first # "apply_review_decision"
      /\ StatusBefore[first] = status
  BY <1>0 DEF FirstActivity, Movers, Activities, StatusBefore
<1>3. IdsInv'
  BY <1>0, <1>1 DEF DriverInv, IdsInv, None
<1>4. StatusInv'
  BY <1>1 DEF DriverInv, StatusInv
<1>5. StartingInv'
  <2>1. ASSUME NEW c \in starting PROVE c = call
    <3>1. c.wf = call.wf /\ c.from = call.from
      BY <1>0 DEF DriverInv, StartingInv
    <3>2. /\ c \in [wf : Nat, from : {"SUBMITTED", "DOCUMENT_PROCESSING"}]
          /\ call \in [wf : Nat, from : {"SUBMITTED", "DOCUMENT_PROCESSING"}]
      BY DEF TypeOK
    <3> QED BY <3>1, <3>2
  <2> QED BY <1>1, <2>1 DEF StartingInv
<1>6. KeysInv'
  BY <1>0, <1>1 DEF DriverInv, KeysInv
<1>n. <<w0, first>> \notin activityKeys
  BY <1>0 DEF DriverInv, KeysInv
<1>7. AttemptsInv'
  <2> SUFFICES ASSUME NEW b \in attempts'
               PROVE  /\ b.wf \in DOMAIN exec'
                      /\ b.act \in Dispatched[exec'[b.wf].stage]
                      /\ b.act \in Movers /\ ~Reserved(b)' => Ready(b.wf, b.act)'
                      /\ b.act = "apply_review_decision" =>
                           exec'[b.wf].choice # NoDecision
    BY DEF AttemptsInv
  <2>1. CASE b \in attempts
    BY <1>0, <1>1, <2>1 DEF DriverInv, AttemptsInv, Reserved, Ready
  <2>2. CASE b = FirstAttempt(w0, first)
    BY <1>0, <1>1, <1>2, <2>2, DispatchedFacts DEF FirstAttempt, Ready
  <2> QED BY <1>1, <2>1, <2>2
<1>8. StagesInv'
  <2> SUFFICES ASSUME NEW v \in DOMAIN exec' PROVE StageAgrees(v)'
    BY DEF StagesInv
  <2>1. CASE v \in DOMAIN exec
    <3>1. StageAgrees(v) /\ exec'[v] = exec[v]
      BY <1>0, <1>1, <2>1 DEF DriverInv, StagesInv
    <3> QED BY <1>1, <3>1 DEF StageAgrees, Ready
  <2>2. CASE v = w0
    <3>1. exec'[v].stage = first
      BY <1>1, <2>2
    <3> QED BY <1>0, <1>1, <1>2, <1>n, <2>2, <3>1 DEF StageAgrees, Ready, Movers
  <2> QED BY <1>1, <2>1, <2>2
<1> QED BY <1>3, <1>4, <1>5, <1>6, <1>7, <1>8 DEF DriverInv

\* (Re)submitting attaches a fresh workflow only when none is attached, and
\* starting or signalling one disturbs no other.
LEMMA DriverApi ==
  ASSUME TypeOK, DriverInv, Api
  PROVE  DriverInv'
<1>1. ASSUME NEW k \in ClientKeys, SubmitApplication(k) PROVE DriverInv'
  <2>1. active = None
    BY <1>1, LegalSource DEF SubmitApplication, DriverInv, StatusInv
  <2> QED BY <1>1, <2>1, AttachKeeps DEF SubmitApplication
<1>2. ASSUME NEW k \in ClientKeys, ResubmitApplication(k) PROVE DriverInv'
  <2>1. status = "NEEDS_MORE_INFORMATION"
    BY <1>2, LegalSource
       DEF ResubmitApplication, DriverInv, StatusInv, REVIEW_DECISIONS
  <2>2. active = None
    BY <2>1 DEF DriverInv, StatusInv, REVIEW_DECISIONS
  <2> QED BY <1>2, <2>2, AttachKeeps DEF ResubmitApplication
<1>3. ASSUME NEW call \in starting, StartWorkflow(call) PROVE DriverInv'
  BY <1>3, StartKeeps
<1>4. ASSUME NEW r \in Reviewers, SignalReviewDecision(r) PROVE DriverInv'
  <2> PICK w, d : /\ w = reviewing[r].wf
                  /\ d = [decision |-> reviewing[r].decision, reviewer |-> r]
    OBVIOUS
  <2>1. /\ w \in DOMAIN exec
        /\ exec' = [exec EXCEPT ![w].signal = d]
        /\ UNCHANGED <<status, version, active, activityKeys, starting, attempts>>
    BY <1>4 DEF SignalReviewDecision, Open, dbVars
  <2>2. /\ DOMAIN exec' = DOMAIN exec
        /\ \A v \in DOMAIN exec : /\ exec'[v].stage = exec[v].stage
                                  /\ exec'[v].choice = exec[v].choice
    BY <2>1 DEF TypeOK, Executions
  <2>3. ExecMove(w, exec[w].stage)
    BY <2>1, <2>2 DEF ExecMove
  <2>4. StageAgrees(w)
    BY <2>1 DEF DriverInv, StagesInv
  <2>5. StageAgrees(w)'
    BY <2>1, <2>2, <2>4, SameAgrees
  <2> QED BY <2>1, <2>3, <2>5, ExecStep
<1>5. CASE UNCHANGED <<status, version, active, activityKeys, exec, attempts>>
           /\ starting' \subseteq starting
  BY <1>5 DEF DriverInv, IdsInv, StatusInv, StartingInv, KeysInv, AttemptsInv,
              StagesInv, StageAgrees, Ready, Reserved
<1>6. ASSUME NEW d \in Documents, UploadDocument(d) PROVE DriverInv'
  BY <1>5, <1>6 DEF UploadDocument
<1>7. ASSUME NEW call \in starting, MissStart(call) PROVE DriverInv'
  BY <1>5, <1>7 DEF MissStart, dbVars
<1>8. ASSUME NEW r \in Reviewers, NEW d \in REVIEW_DECISIONS, BeginReview(r, d)
      PROVE DriverInv'
  BY <1>5, <1>8 DEF BeginReview, dbVars
<1>9. ASSUME NEW r \in Reviewers, SignalRefused(r) PROVE DriverInv'
  BY <1>5, <1>9 DEF SignalRefused, dbVars
<1> QED BY <1>1, <1>2, <1>3, <1>4, <1>6, <1>7, <1>8, <1>9 DEF Api

\* A retry, a failure or another step inside an attempt.
LEMMA StayOrFailKeeps ==
  ASSUME TypeOK, DriverInv, NEW w,
         ExecMove(w, exec[w].stage) \/ ExecMove(w, "failed"),
         UNCHANGED <<status, version, active, starting, activityKeys>>
  PROVE  DriverInv'
<1>0. w \in DOMAIN exec /\ exec[w].stage \in Stages /\ StageAgrees(w)
  BY DEF ExecMove, TypeOK, Executions, DriverInv, StagesInv
<1>1. CASE ExecMove(w, exec[w].stage)
  <2>1. StageAgrees(w)'
    BY <1>0, <1>1, SameAgrees DEF ExecMove
  <2> QED BY <1>1, <2>1, ExecStep
<1>2. CASE ExecMove(w, "failed")
  <2>1. StageAgrees(w)'
    BY <1>2, FailedAgrees DEF ExecMove
  <2>2. Dispatched[exec[w].stage] \subseteq Dispatched["failed"]
    BY <1>0, DispatchedFacts
  <2> QED BY <1>2, <2>1, <2>2, ExecStep
<1> QED BY <1>1, <1>2

\* The activity an execution goes on to has left no key behind.
LEMMA NextIsFresh ==
  ASSUME TypeOK, DriverInv, NEW a \in attempts, exec[a.wf].stage = a.act,
         NEW answer, activityKeys' \subseteq activityKeys \cup {<<a.wf, a.act>>}
  PROVE  <<a.wf, NextStage(a.act, answer)>> \notin activityKeys'
<1>1. a.act \in Activities
  BY DEF TypeOK, Attempts
<1>2. NextStage(a.act, answer) \notin Dispatched[a.act]
      /\ a.act \in Dispatched[a.act]
  BY <1>1, DispatchedFacts
<1>3. <<a.wf, NextStage(a.act, answer)>> \notin activityKeys
  BY <1>2 DEF DriverInv, KeysInv
<1> QED BY <1>2, <1>3

\* The answer of an attempt that does not move the application: of a duplicate,
\* of extraction or of verification.
LEMMA AnswerKeeps ==
  ASSUME TypeOK, DriverInv, NEW a \in attempts, AnswerOrLose(a, status),
         UNCHANGED <<status, version, active, starting>>,
         \/ activityKeys' = activityKeys
         \/ activityKeys' = activityKeys \cup {<<a.wf, a.act>>},
         a.act \in Movers => Reserved(a)
  PROVE  DriverInv'
<1> DEFINE next == NextStage(a.act, status)
<1>0. /\ a.wf \in DOMAIN exec /\ a.act \in Activities
      /\ a.act \in Dispatched[exec[a.wf].stage]
      /\ StageAgrees(a.wf)
  BY DEF TypeOK, Attempts, DriverInv, AttemptsInv, StagesInv
<1>k. /\ activityKeys \subseteq activityKeys'
      /\ \A k \in activityKeys' \ activityKeys : k = <<a.wf, a.act>>
      /\ \A act \in Movers :
           <<a.wf, act>> \in activityKeys' <=> <<a.wf, act>> \in activityKeys
  BY DEF Reserved
<1>1. CASE ExecMove(a.wf, exec[a.wf].stage) /\ UNCHANGED exec
  <2>1. StageAgrees(a.wf)'
    BY <1>0, <1>1, <1>k DEF StageAgrees, Ready, Movers
  <2>2. \A k \in activityKeys' \ activityKeys :
          k[1] = a.wf /\ k[2] \in Dispatched[exec[a.wf].stage]
    BY <1>0, <1>k
  <2> QED BY <1>1, <1>k, <2>1, <2>2, ExecStep
<1>2. CASE exec[a.wf].stage = a.act /\ ExecMove(a.wf, next)
  <2>1. <<a.wf, next>> \notin activityKeys'
    BY <1>2, <1>k, NextIsFresh
  <2>2. exec'[a.wf].stage = next
    BY <1>2 DEF ExecMove
  <2>3. StageAgrees(a.wf)'
    <3>1. CASE a.act = "validate_intake"
      BY <1>0, <1>2, <2>1, <2>2, <3>1
         DEF StageAgrees, NextStage, Successor, Movers, Reserved, Ready, StatusBefore
    <3>2. CASE a.act = "check_required_documents"
      BY <1>0, <1>2, <2>1, <2>2, <3>2
         DEF StageAgrees, NextStage, Successor, Movers, Reserved, Ready, StatusBefore
    <3>3. CASE a.act = "extract_document_facts"
      BY <1>0, <1>2, <2>1, <2>2, <3>3
         DEF StageAgrees, NextStage, Successor, Movers, Ready, StatusBefore
    <3>4. CASE a.act = "verify_facts"
      BY <1>0, <1>2, <2>1, <2>2, <3>4
         DEF StageAgrees, NextStage, Successor, Movers, Ready, StatusBefore
    <3>5. CASE a.act = "enter_human_review"
      BY <1>0, <1>2, <2>1, <2>2, <3>5
         DEF StageAgrees, NextStage, Successor, Movers, Reserved, Ready, StatusBefore
    <3>6. CASE a.act = "apply_review_decision"
      BY <1>0, <1>2, <1>k, <2>1, <2>2, <3>6
         DEF StageAgrees, NextStage, Successor, Movers, Reserved, Ready, StatusBefore
    <3> QED BY <1>0, <3>1, <3>2, <3>3, <3>4, <3>5, <3>6 DEF Activities
  <2>4. Dispatched[exec[a.wf].stage] \subseteq Dispatched[next]
    BY <1>0, <1>2, DispatchedFacts
  <2>5. \A k \in activityKeys' \ activityKeys :
          k[1] = a.wf /\ k[2] \in Dispatched[next]
    BY <1>0, <1>k, <2>4
  <2> QED BY <1>2, <1>k, <2>3, <2>4, <2>5, ExecStep
<1> QED BY <1>1, <1>2, AnswerMoves

\* The answer of a mover that took effect.  It keeps the invariant when the row
\* it leaves is what its key, and the stage after it, promise.
LEMMA MoverAnswerKeeps ==
  ASSUME TypeOK, DriverInv, NEW a \in attempts, a.act \in Movers, ~Reserved(a),
         AnswerOrLose(a, status'), Reserve(a),
         version' \in Nat, version' >= version, active' \in {active, None},
         UNCHANGED starting, StatusInv',
         \* the promise of the key
         exec'[a.wf].stage = a.act => StageAgrees(a.wf)',
         \* the promise of the next stage
         /\ exec'[a.wf].stage = NextStage(a.act, status')
         /\ <<a.wf, NextStage(a.act, status')>> \notin activityKeys'
         => StageAgrees(a.wf)'
  PROVE  DriverInv'
<1> DEFINE next == NextStage(a.act, status')
<1>0. /\ a.wf \in DOMAIN exec /\ a.act \in Activities
      /\ exec[a.wf].stage \in {a.act, "failed"}
  BY EffectiveStage DEF TypeOK, Attempts
<1>1. CASE ExecMove(a.wf, exec[a.wf].stage) /\ UNCHANGED exec
  <2>1. StageAgrees(a.wf)'
    BY <1>0, <1>1, FailedAgrees
  <2> QED BY <1>1, <2>1, MoverStepKeeps
<1>2. CASE exec[a.wf].stage = a.act /\ ExecMove(a.wf, next)
  <2>1. <<a.wf, next>> \notin activityKeys'
    BY <1>2, NextIsFresh DEF Reserve
  <2>2. StageAgrees(a.wf)'
    BY <1>2, <2>1 DEF ExecMove
  <2>3. Dispatched[exec[a.wf].stage] \subseteq Dispatched[next]
    BY <1>0, <1>2, DispatchedFacts
  <2> QED BY <1>2, <2>2, <2>3, MoverStepKeeps
<1> QED BY <1>1, <1>2, AnswerMoves

\* Every step of an attempt keeps the invariant: a mover that takes effect is the
\* one mover the attached workflow has left, and it takes its key with it.
LEMMA DriverWorker ==
  ASSUME TypeOK, DriverInv, Worker
  PROVE  DriverInv'
<1> PICK a \in attempts :
      RunAttempt(a) \/ TransientFailure(a) \/ CrashWorker(a)
  BY DEF Worker
<1>0. a.wf \in DOMAIN exec /\ a \in Attempts /\ version \in Nat
  BY DEF TypeOK
<1>1. CASE DuplicateAttempt(a)
  BY <1>1, AnswerKeeps DEF DuplicateAttempt, dbVars
<1>2. CASE ValidateIntake(a)
  <2>1. /\ a.act = "validate_intake" /\ a.act \in Movers /\ ~Reserved(a)
        /\ AnswerOrLose(a, status') /\ Reserve(a)
        /\ version' = version + 2 /\ active' = active /\ starting' = starting
        /\ status' \in {"DOCUMENT_PROCESSING", "AWAITING_HUMAN_REVIEW"}
    BY <1>2 DEF ValidateIntake, enter_human_review, Movers
  <2>2. active' = a.wf /\ <<a.wf, a.act>> \in activityKeys'
    BY <2>1, EffectiveStage DEF Reserve
  <2>3. StatusInv'
    BY <2>1 DEF StatusInv, REVIEW_DECISIONS
  <2>4. exec'[a.wf].stage = a.act => StageAgrees(a.wf)'
    BY <2>1, <2>2 DEF StageAgrees, Movers
  <2>5. /\ exec'[a.wf].stage = NextStage(a.act, status')
        /\ <<a.wf, NextStage(a.act, status')>> \notin activityKeys'
        => StageAgrees(a.wf)'
    BY <2>1, <2>2 DEF StageAgrees, NextStage, Successor, Movers, Ready, StatusBefore
  <2> QED BY <1>0, <2>1, <2>3, <2>4, <2>5, MoverAnswerKeeps
<1>3. CASE CheckRequiredDocuments(a)
  <2>1. /\ a.act = "check_required_documents" /\ a.act \in Movers /\ ~Reserved(a)
        /\ AnswerOrLose(a, status') /\ Reserve(a)
        /\ version' = version + 1 /\ active' = active /\ starting' = starting
        /\ status' \in {"VERIFICATION", "AWAITING_HUMAN_REVIEW"}
    BY <1>3 DEF CheckRequiredDocuments, enter_human_review, Movers
  <2>2. active' = a.wf /\ <<a.wf, a.act>> \in activityKeys'
    BY <2>1, EffectiveStage DEF Reserve
  <2>3. StatusInv'
    BY <2>1 DEF StatusInv, REVIEW_DECISIONS
  <2>4. exec'[a.wf].stage = a.act => StageAgrees(a.wf)'
    BY <2>1, <2>2 DEF StageAgrees, Movers
  <2>5. /\ exec'[a.wf].stage = NextStage(a.act, status')
        /\ <<a.wf, NextStage(a.act, status')>> \notin activityKeys'
        => StageAgrees(a.wf)'
    BY <2>1, <2>2 DEF StageAgrees, NextStage, Successor, Movers
  <2> QED BY <1>0, <2>1, <2>3, <2>4, <2>5, MoverAnswerKeeps
<1>4. CASE ListDocuments(a) \/ \E d \in a.todo : ProcessDocument(a, d)
  <2>1. /\ UNCHANGED <<status, version, active, starting, activityKeys, exec>>
        /\ \A b \in attempts' : b \in attempts \/ (b.wf = a.wf /\ b.act = a.act)
    BY <1>0, <1>4 DEF ListDocuments, ProcessDocument, dbVars, Attempts
  <2>2. ExecMove(a.wf, exec[a.wf].stage)
    BY <1>0, <2>1 DEF ExecMove
  <2> QED BY <2>1, <2>2, StayOrFailKeeps
<1>5. CASE FinishExtraction(a)
  BY <1>5, AnswerKeeps DEF FinishExtraction, dbVars, Movers
<1>6. CASE VerifyFacts(a)
  BY <1>6, AnswerKeeps DEF VerifyFacts, Reserve, Movers
<1>7. CASE EnterHumanReview(a)
  <2>1. /\ a.act = "enter_human_review" /\ a.act \in Movers /\ ~Reserved(a)
        /\ AnswerOrLose(a, status') /\ Reserve(a)
        /\ version' = version + 1 /\ active' = active /\ starting' = starting
        /\ status' = "AWAITING_HUMAN_REVIEW"
    BY <1>7 DEF EnterHumanReview, enter_human_review, Movers
  <2>2. active' = a.wf /\ <<a.wf, a.act>> \in activityKeys'
    BY <2>1, EffectiveStage DEF Reserve
  <2>3. StatusInv'
    BY <2>1 DEF StatusInv, REVIEW_DECISIONS
  <2>4. exec'[a.wf].stage = a.act => StageAgrees(a.wf)'
    BY <2>1, <2>2 DEF StageAgrees, Movers
  <2>5. /\ exec'[a.wf].stage = NextStage(a.act, status')
        /\ <<a.wf, NextStage(a.act, status')>> \notin activityKeys'
        => StageAgrees(a.wf)'
    BY <2>1, <2>2 DEF StageAgrees, NextStage, Successor, Movers
  <2> QED BY <1>0, <2>1, <2>3, <2>4, <2>5, MoverAnswerKeeps
<1>8. CASE ApplyReviewDecision(a)
  <2>1. /\ a.act = "apply_review_decision" /\ a.act \in Movers /\ ~Reserved(a)
        /\ AnswerOrLose(a, status') /\ Reserve(a)
        /\ version' = version + 1 /\ active' = None /\ starting' = starting
    BY <1>8 DEF ApplyReviewDecision, Movers
  <2>2. active' # a.wf /\ <<a.wf, a.act>> \in activityKeys'
    BY <1>0, <2>1 DEF Reserve, DriverInv, IdsInv, None
  <2>3. StatusInv'
    BY <1>8, <2>1, ChoiceIsDecision DEF StatusInv
  <2>c. exec[a.wf].choice # NoDecision
    BY <2>1 DEF DriverInv, AttemptsInv
  <2>d. exec'[a.wf].choice # NoDecision
    BY <1>0, <2>1, <2>c, AnswerMoves DEF ExecMove
  <2>4. exec'[a.wf].stage = a.act => StageAgrees(a.wf)'
    BY <2>1, <2>2, <2>d DEF StageAgrees, Movers
  <2>5. /\ exec'[a.wf].stage = NextStage(a.act, status')
        /\ <<a.wf, NextStage(a.act, status')>> \notin activityKeys'
        => StageAgrees(a.wf)'
    BY <2>1, <2>2 DEF StageAgrees, NextStage, Successor, Movers
  <2> QED BY <1>0, <2>1, <2>3, <2>4, <2>5, MoverAnswerKeeps
<1>9. CASE HandlerRaises(a)
  <2>1. ExecMove(a.wf, exec[a.wf].stage) \/ ExecMove(a.wf, "failed")
    <3>1. CASE Illegal(a) /\ Current(a)
      <4>1. exec' = [exec EXCEPT ![a.wf].stage = "failed"]
            /\ attempts' = attempts \ {a}
        BY <1>9, <3>1 DEF HandlerRaises
      <4>2. \A v \in DOMAIN exec : exec'[v].choice = exec[v].choice
        BY <4>1 DEF TypeOK, Executions
      <4>3. exec'[a.wf].stage = "failed"
        BY <1>0, <4>1 DEF TypeOK, Executions
      <4> QED BY <1>0, <4>1, <4>2, <4>3 DEF ExecMove
    <3>2. CASE Illegal(a) /\ ~Current(a)
      BY <1>0, <1>9, <3>2 DEF HandlerRaises, ExecMove
    <3>3. CASE ~Illegal(a)
      BY <1>9, <3>3, RaiseMoves DEF HandlerRaises
    <3> QED BY <3>1, <3>2, <3>3
  <2> QED BY <1>9, <2>1, StayOrFailKeeps DEF HandlerRaises, dbVars
<1>10. CASE TransientFailure(a)
  BY <1>10, RaiseMoves, StayOrFailKeeps DEF TransientFailure, dbVars
<1>11. CASE CrashWorker(a)
  <2>1. ExecMove(a.wf, exec[a.wf].stage)
    BY <1>0, <1>11 DEF CrashWorker, ExecMove
  <2> QED BY <1>11, <2>1, StayOrFailKeeps DEF CrashWorker, dbVars
<1> QED BY <1>1, <1>2, <1>3, <1>4, <1>5, <1>6, <1>7, <1>8, <1>9, <1>10, <1>11
        DEF RunAttempt

\* Timeouts and decisions keep the invariant: a retried activity is the one its
\* execution is at.
LEMMA DriverTemporal ==
  ASSUME TypeOK, DriverInv, Temporal
  PROVE  DriverInv'
<1> PICK w \in DOMAIN exec : TimeoutRunning(w) \/ Timer(w)
  BY DEF Temporal
<1>1. CASE TimeoutRunning(w) \/ TimeoutLost(w)
  BY <1>1, RetryMoves, StayOrFailKeeps DEF TimeoutRunning, TimeoutLost, dbVars
<1>2. CASE TakeDecision(w) \/ SlaTimeout(w)
  <2> DEFINE apply == "apply_review_decision"
  <2>1. PICK d : Decide(w, d) /\ d # NoDecision /\ exec[w].stage = "wait"
    BY <1>2 DEF TakeDecision, SlaTimeout, TimeoutDecision, NoDecision
  <2>2. /\ exec' = [exec EXCEPT ![w].stage = apply, ![w].attempt = 1,
                                ![w].choice = d]
        /\ attempts' = attempts \cup {FirstAttempt(w, apply)}
        /\ UNCHANGED <<status, version, active, starting, activityKeys>>
    BY <2>1 DEF Decide, dbVars
  <2>3. /\ DOMAIN exec' = DOMAIN exec
        /\ exec'[w].stage = apply /\ exec'[w].choice = d
        /\ \A v \in DOMAIN exec : v # w => exec'[v] = exec[v]
    BY <2>2 DEF TypeOK, Executions
  <2>4. ExecMove(w, apply)
    BY <2>1, <2>2, <2>3 DEF ExecMove, FirstAttempt, Activities
  <2>5. active = w /\ status = "AWAITING_HUMAN_REVIEW"
    BY <2>1 DEF DriverInv, StagesInv, StageAgrees
  <2>6. <<w, apply>> \notin activityKeys
    BY <2>1, DispatchedFacts DEF DriverInv, KeysInv
  <2>7. StageAgrees(w)'
    BY <2>1, <2>2, <2>3, <2>5, <2>6 DEF StageAgrees, Ready, StatusBefore
  <2>8. Dispatched[exec[w].stage] \subseteq Dispatched[apply]
    BY <2>1, DispatchedFacts
  <2> QED BY <2>2, <2>4, <2>7, <2>8, ExecStep
<1> QED BY <1>1, <1>2 DEF Timer

\* The inductive invariant holds in every reachable state.
THEOREM DriverInvariant == Spec => []DriverInv
<1>1. TypeOK /\ DriverInv /\ [Next]_vars => DriverInv'
  <2> SUFFICES ASSUME TypeOK, DriverInv, [Next]_vars PROVE DriverInv'
    OBVIOUS
  <2>1. CASE UNCHANGED vars
    BY <2>1 DEF vars, dbVars, DriverInv, IdsInv, StatusInv, StartingInv, KeysInv,
                AttemptsInv, StagesInv, StageAgrees, Ready, Reserved
  <2> QED BY <2>1, DriverApi, DriverWorker, DriverTemporal DEF Next
<1> QED BY <1>1, DriverInit, TypeCorrect, PTL DEF Spec

-----------------------------------------------------------------------------
(* What it implies                                                         *)

\* Only attempts of the attached workflow can still move the application.
THEOREM SingleDriverHolds == Spec => []SingleDriver
<1>1. DriverInv => SingleDriver
  BY DEF DriverInv, AttemptsInv, SingleDriver, Ready
<1> QED BY <1>1, DriverInvariant, PTL

\* No attempt asks for a transition that the status machine forbids.
THEOREM NoIllegalTransition == Spec => []NoIllegalTransitionRaised
<1>1. TypeOK /\ DriverInv => NoIllegalTransitionRaised
  <2> SUFFICES ASSUME TypeOK, DriverInv, NEW a \in attempts PROVE ~Illegal(a)
    BY DEF NoIllegalTransitionRaised
  <2> SUFFICES ASSUME a.act \in Movers, ~Reserved(a) PROVE ~Illegal(a)
    BY DEF Illegal, Movers
  <2>1. status = StatusBefore[a.act]
    BY EffectiveStage
  <2>2. ASSUME a.act = "apply_review_decision"
        PROVE  exec[a.wf].choice.decision \in REVIEW_DECISIONS
    <3>1. /\ exec[a.wf].choice # NoDecision
          /\ exec[a.wf].choice \in
               HumanDecisions \cup {NoDecision, TimeoutDecision}
      BY <2>2 DEF DriverInv, AttemptsInv, TypeOK, Executions
    <3> QED BY <3>1 DEF HumanDecisions, TimeoutDecision, REVIEW_DECISIONS
  <2>3. /\ is_legal_transition("SUBMITTED", "INTAKE_VALIDATION")
        /\ is_legal_transition("DOCUMENT_PROCESSING", DocumentOutcome)
        /\ is_legal_transition("VERIFICATION", "AWAITING_HUMAN_REVIEW")
        /\ \A d \in REVIEW_DECISIONS :
             is_legal_transition("AWAITING_HUMAN_REVIEW", d)
    BY DEF is_legal_transition, ALLOWED_TRANSITIONS, _FORWARD_PIPELINE,
           _CAN_ESCALATE_TO_HUMAN_REVIEW, HumanOutcomes, Pipeline,
           DocumentOutcome, REVIEW_DECISIONS
  <2> QED BY <2>1, <2>2, <2>3 DEF Illegal, StatusBefore
<1> QED BY <1>1, DriverInvariant, TypeCorrect, PTL

\* A completed execution recorded its decision and is not attached any more.
THEOREM CompletedDetached == Spec => []CompletedIsDetached
<1>1. DriverInv => CompletedIsDetached
  BY DEF DriverInv, StagesInv, StageAgrees, CompletedIsDetached
<1> QED BY <1>1, DriverInvariant, PTL

\* The id a (re)submission attaches was never used for an execution.
THEOREM FreshIds == Spec => FreshWorkflowIds
<1>1. TypeOK /\ DriverInv /\ [Next]_vars =>
        [active' \notin {active, None} => active' \notin DOMAIN exec]_vars
  <2> SUFFICES ASSUME TypeOK, DriverInv, [Next]_vars,
                      active' \notin {active, None}
               PROVE  active' \notin DOMAIN exec
    OBVIOUS
  <2>1. ASSUME NEW k \in ClientKeys, SubmitApplication(k) \/ ResubmitApplication(k)
        PROVE  active' \notin DOMAIN exec
    BY <2>1 DEF SubmitApplication, ResubmitApplication, AttachWorkflow,
                DriverInv, IdsInv, TypeOK
  <2>2. ASSUME NEW a \in attempts, MoverStep(a) PROVE FALSE
    BY <2>2 DEF MoverStep, ValidateIntake, CheckRequiredDocuments,
                EnterHumanReview, ApplyReviewDecision
  <2> QED BY <2>1, <2>2, OnlyMoversMove
<1> QED BY <1>1, DriverInvariant, TypeCorrect, PTL DEF Spec, FreshWorkflowIds

-----------------------------------------------------------------------------
(* EffectsOnce                                                             *)

\* Inductive: an effect is recorded together with its idempotency key.
EffectsInv ==
  /\ EffectsOnce
  /\ \A i \in DOMAIN extractions : extractions[i] \in documentKeys
  /\ \A i \in DOMAIN verifications :
       <<verifications[i], "verify_facts">> \in activityKeys

\* A sequence without repetitions stays one when a new element is appended.
LEMMA AppendNew ==
  ASSUME NEW S, NEW s \in Seq(S), NEW e \in S, NEW t, t = Append(s, e),
         \A i \in DOMAIN s : s[i] # e,
         \A i, j \in DOMAIN s : s[i] = s[j] => i = j
  PROVE  /\ \A i, j \in DOMAIN t : t[i] = t[j] => i = j
         /\ \A i \in DOMAIN t :
              \/ t[i] = e
              \/ i \in DOMAIN s /\ t[i] = s[i]
<1>1. /\ DOMAIN t = 1 .. Len(s) + 1
      /\ DOMAIN s = 1 .. Len(s)
      /\ Len(s) \in Nat
      /\ t[Len(s) + 1] = e
      /\ \A i \in 1 .. Len(s) : t[i] = s[i]
  OBVIOUS
<1>2. \A i \in DOMAIN t : i = Len(s) + 1 \/ i \in DOMAIN s
  BY <1>1
<1> QED BY <1>1, <1>2

\* Every step keeps it: ProcessDocument and VerifyFacts append only what has no
\* key yet, and no other step appends or gives a key back.
LEMMA EffectsStep ==
  ASSUME TypeOK, EffectsInv, [Next]_vars
  PROVE  EffectsInv'
<1>1. ASSUME UNCHANGED <<extractions, verifications>>,
             documentKeys \subseteq documentKeys',
             activityKeys \subseteq activityKeys'
      PROVE  EffectsInv'
  BY <1>1 DEF EffectsInv, EffectsOnce
<1>2. CASE UNCHANGED vars
  BY <1>1, <1>2 DEF vars, dbVars
<1>3. CASE Api
  BY <1>1, <1>3 DEF Api, SubmitApplication, ResubmitApplication, UploadDocument,
     StartWorkflow, MissStart, BeginReview, SignalReviewDecision, SignalRefused,
     dbVars
<1>4. CASE Temporal
  BY <1>1, <1>4 DEF Temporal, Timer, TimeoutRunning, TimeoutLost, TakeDecision,
     SlaTimeout, Decide, dbVars
<1>5. CASE Worker
  <2> PICK a \in attempts :
        RunAttempt(a) \/ TransientFailure(a) \/ CrashWorker(a)
    BY <1>5 DEF Worker
  <2>1. ASSUME NEW d \in a.todo, ProcessDocument(a, d) PROVE EffectsInv'
    <3>0. /\ a.wf \in Nat /\ d \in Documents
          /\ extractions \in Seq(Nat \X Documents)
      BY DEF TypeOK, Attempts
    <3>1. CASE DocumentReserved(a, d)
      BY <1>1, <2>1, <3>1 DEF ProcessDocument
    <3>2. CASE ~DocumentReserved(a, d)
      <4>1. /\ extractions' = Append(extractions, <<a.wf, d>>)
            /\ documentKeys' = documentKeys \cup {<<a.wf, d>>}
            /\ UNCHANGED <<verifications, activityKeys>>
        BY <2>1, <3>2 DEF ProcessDocument
      <4>2. \A i \in DOMAIN extractions : extractions[i] # <<a.wf, d>>
        BY <3>2 DEF EffectsInv, DocumentReserved
      <4>3. <<a.wf, d>> \in Nat \X Documents
        BY <3>0
      <4>4. /\ \A i, j \in DOMAIN extractions' :
                 extractions'[i] = extractions'[j] => i = j
            /\ \A i \in DOMAIN extractions' :
                 \/ extractions'[i] = <<a.wf, d>>
                 \/ i \in DOMAIN extractions /\ extractions'[i] = extractions[i]
        BY <3>0, <4>1, <4>2, <4>3, AppendNew DEF EffectsInv, EffectsOnce
      <4> QED BY <4>1, <4>4 DEF EffectsInv, EffectsOnce
    <3> QED BY <3>1, <3>2
  <2>2. CASE VerifyFacts(a)
    <3>0. a.wf \in Nat /\ verifications \in Seq(Nat)
      BY DEF TypeOK, Attempts
    <3>1. /\ verifications' = Append(verifications, a.wf)
          /\ activityKeys' = activityKeys \cup {<<a.wf, "verify_facts">>}
          /\ <<a.wf, "verify_facts">> \notin activityKeys
          /\ UNCHANGED <<extractions, documentKeys>>
      BY <2>2 DEF VerifyFacts, Reserve, Reserved
    <3>2. \A i \in DOMAIN verifications : verifications[i] # a.wf
      BY <3>1 DEF EffectsInv
    <3>3. /\ \A i, j \in DOMAIN verifications' :
               verifications'[i] = verifications'[j] => i = j
          /\ \A i \in DOMAIN verifications' :
               \/ verifications'[i] = a.wf
               \/ /\ i \in DOMAIN verifications
                  /\ verifications'[i] = verifications[i]
      BY <3>0, <3>1, <3>2, AppendNew DEF EffectsInv, EffectsOnce
    <3> QED BY <3>1, <3>3 DEF EffectsInv, EffectsOnce
  <2>3. CASE \/ DuplicateAttempt(a) \/ ListDocuments(a) \/ FinishExtraction(a)
             \/ HandlerRaises(a) \/ TransientFailure(a) \/ CrashWorker(a)
    BY <1>1, <2>3 DEF DuplicateAttempt, ListDocuments, FinishExtraction,
       HandlerRaises, TransientFailure, CrashWorker, dbVars
  <2>4. CASE \/ ValidateIntake(a) \/ CheckRequiredDocuments(a)
             \/ EnterHumanReview(a) \/ ApplyReviewDecision(a)
    BY <1>1, <2>4 DEF ValidateIntake, CheckRequiredDocuments, EnterHumanReview,
       ApplyReviewDecision, Reserve
  <2> QED BY <2>1, <2>2, <2>3, <2>4 DEF RunAttempt
<1> QED BY <1>2, <1>3, <1>4, <1>5 DEF Next

\* A document is extracted once and the facts are verified once for an
\* execution, however many attempts its activities take.
THEOREM EffectsHappenOnce == Spec => []EffectsOnce
<1>1. Init => EffectsInv
  BY DEF Init, EffectsInv, EffectsOnce
<1>2. TypeOK /\ EffectsInv /\ [Next]_vars => EffectsInv'
  BY EffectsStep
<1>3. EffectsInv => EffectsOnce
  BY DEF EffectsInv
<1> QED BY <1>1, <1>2, <1>3, TypeCorrect, PTL DEF Spec

-----------------------------------------------------------------------------
(* ReviewHasEvidence                                                       *)

Evidence(w) == \E d \in docs : <<w, d>> \in documentKeys

\* Inductive, together with DriverInv: a case under verification has a document,
\* so an extraction has one to list; and what an extraction has listed it has
\* still to do, or it has something to show.
EvidenceInv ==
  /\ ReviewHasEvidence
  /\ status = "VERIFICATION" => docs # {}
  /\ \A a \in attempts : a.act = "extract_document_facts" =>
       /\ docs # {}
       /\ a.todo \subseteq docs
       /\ a.listed /\ a.todo = {} => Evidence(a.wf)

\* Attempts that are new after a step are fresh ones of their execution's stage.
Dispatches ==
  \A b \in attempts' :
    \/ b \in attempts
    \/ /\ ~b.listed /\ b.todo = {}
       /\ b.wf \in DOMAIN exec'
       /\ b.act = exec'[b.wf].stage

\* No execution comes to be past its extraction but by one that finished.
Unmoved(w) ==
  exec'[w].stage \in {"verify_facts", "enter_human_review"} =>
    \/ w \in DOMAIN exec /\ exec[w].stage \in {"verify_facts", "enter_human_review"}
    \/ \E a \in attempts : a.wf = w /\ FinishExtraction(a)

\* An answer dispatches the next activity and no other.
LEMMA AnswerDispatches ==
  ASSUME TypeOK, NEW a \in attempts, NEW answer, AnswerOrLose(a, answer)
  PROVE  Dispatches
<1>0. a.wf \in DOMAIN exec /\ exec[a.wf] \in Executions
  BY DEF TypeOK
<1>1. CASE Answer(a, answer) /\ Current(a)
  <2> DEFINE next == NextStage(a.act, answer)
  <2>1. exec' = [exec EXCEPT ![a.wf].stage = next, ![a.wf].attempt = 1]
        /\ attempts' \subseteq attempts \cup {FirstAttempt(a.wf, next)}
    BY <1>1 DEF Answer
  <2>2. a.wf \in DOMAIN exec' /\ exec'[a.wf].stage = next
    BY <1>0, <2>1 DEF Executions
  <2> HIDE DEF next
  <2>3. LET b == FirstAttempt(a.wf, next)
        IN ~b.listed /\ b.todo = {} /\ b.wf = a.wf /\ b.act = next
    BY DEF FirstAttempt
  <2> QED BY <2>1, <2>2, <2>3 DEF Dispatches
<1>2. CASE attempts' \subseteq attempts
  BY <1>2 DEF Dispatches
<1> QED BY <1>1, <1>2 DEF AnswerOrLose, Answer, LoseAnswer

\* A retry dispatches the activity its execution is at.
LEMMA RetryDispatches ==
  ASSUME TypeOK, NEW w \in DOMAIN exec, NEW rest \in SUBSET attempts,
         Retry(w, rest)
  PROVE  Dispatches
<1>0. exec[w] \in Executions
  BY DEF TypeOK
<1>1. CASE exec[w].attempt < MaxAttempts
  <2> DEFINE b == [FirstAttempt(w, exec[w].stage) EXCEPT !.n = exec[w].attempt + 1]
  <2>1. exec' = [exec EXCEPT ![w].attempt = @ + 1] /\ attempts' = rest \cup {b}
    BY <1>1 DEF Retry, RetryUpTo
  <2>2. w \in DOMAIN exec' /\ exec'[w].stage = exec[w].stage
    BY <1>0, <2>1 DEF Executions
  <2>3. ~b.listed /\ b.todo = {} /\ b.wf = w /\ b.act = exec[w].stage
    BY DEF FirstAttempt
  <2> HIDE DEF b
  <2> QED BY <2>1, <2>2, <2>3 DEF Dispatches
<1>2. CASE ~(exec[w].attempt < MaxAttempts)
  BY <1>2 DEF Retry, RetryUpTo, Dispatches
<1> QED BY <1>1, <1>2

\* So does an attempt that raises.
LEMMA RaiseDispatches ==
  ASSUME TypeOK, NEW a \in attempts, Raise(a)
  PROVE  Dispatches
<1>1. CASE Current(a)
  BY <1>1, RetryDispatches DEF Raise, TypeOK
<1>2. CASE ~Current(a)
  BY <1>2 DEF Raise, Dispatches
<1> QED BY <1>1, <1>2

\* A step that dispatches, moves no execution past its extraction unless it
\* finished, and loses no document and no key keeps the invariant.
LEMMA EvidenceKept ==
  ASSUME TypeOK, EvidenceInv, DriverInv', Dispatches,
         \A w \in DOMAIN exec' : Unmoved(w),
         docs \subseteq docs', documentKeys \subseteq documentKeys',
         status' = "VERIFICATION" => docs # {}
  PROVE  EvidenceInv'
<1>1. \A w : Evidence(w) => Evidence(w)'
  BY DEF Evidence
<1>2. ReviewHasEvidence'
  <2> SUFFICES ASSUME NEW w \in DOMAIN exec',
                      exec'[w].stage \in {"verify_facts", "enter_human_review"}
               PROVE  Evidence(w)'
    BY DEF ReviewHasEvidence, Evidence
  <2>1. CASE w \in DOMAIN exec
             /\ exec[w].stage \in {"verify_facts", "enter_human_review"}
    BY <1>1, <2>1 DEF EvidenceInv, ReviewHasEvidence, Evidence
  <2>2. ASSUME NEW a \in attempts, a.wf = w, FinishExtraction(a)
        PROVE  Evidence(w)'
    BY <1>1, <2>2 DEF EvidenceInv, FinishExtraction
  <2> QED BY <2>1, <2>2 DEF Unmoved
<1>3. ASSUME NEW b \in attempts', b.act = "extract_document_facts"
      PROVE  /\ docs' # {}
             /\ b.todo \subseteq docs'
             /\ b.listed /\ b.todo = {} => Evidence(b.wf)'
  <2>1. CASE b \in attempts
    BY <1>1, <1>3, <2>1 DEF EvidenceInv
  <2>2. CASE /\ ~b.listed /\ b.todo = {}
             /\ b.wf \in DOMAIN exec'
             /\ b.act = exec'[b.wf].stage
    <3>1. StageAgrees(b.wf)'
      BY <2>2 DEF DriverInv, StagesInv
    <3>2. status' = "VERIFICATION"
      BY <1>3, <2>2, <3>1 DEF StageAgrees
    <3> QED BY <2>2, <3>2
  <2> QED BY <2>1, <2>2 DEF Dispatches
<1> QED BY <1>2, <1>3 DEF EvidenceInv

\* Executions past their extraction after an answer were so before it, or the
\* answer is that of their extraction.
LEMMA AnswerUnmoved ==
  ASSUME TypeOK, NEW a \in attempts, NEW answer, AnswerOrLose(a, answer),
         a.act = "extract_document_facts" => FinishExtraction(a)
  PROVE  \A w \in DOMAIN exec' : Unmoved(w)
<1>1. CASE UNCHANGED exec
  BY <1>1 DEF Unmoved
<1>2. CASE exec[a.wf].stage = a.act /\ ExecMove(a.wf, NextStage(a.act, answer))
  <2>0. a.act \in Activities
    BY DEF TypeOK, Attempts
  <2>1. NextStage(a.act, answer) \in {"verify_facts", "enter_human_review"} =>
          a.act \in {"extract_document_facts", "verify_facts"}
    BY <2>0 DEF NextStage, Successor, Activities
  <2> QED BY <1>2, <2>1 DEF Unmoved, ExecMove
<1> QED BY <1>1, <1>2, AnswerMoves

\* The same for a step that leaves stages as they are or fails an execution.
LEMMA StayOrFailUnmoved ==
  ASSUME NEW w, ExecMove(w, exec[w].stage) \/ ExecMove(w, "failed")
  PROVE  \A v \in DOMAIN exec' : Unmoved(v)
BY DEF ExecMove, Unmoved

\* Uploads, (re)submissions, starts and signals.
LEMMA EvidenceApi ==
  ASSUME TypeOK, DriverInv', EvidenceInv, Api
  PROVE  EvidenceInv'
<1>1. CASE \E k \in ClientKeys : SubmitApplication(k) \/ ResubmitApplication(k)
  <2>1. /\ status' # "VERIFICATION"
        /\ UNCHANGED <<docs, documentKeys, exec, attempts>>
    BY <1>1 DEF SubmitApplication, ResubmitApplication
  <2> QED BY <2>1, EvidenceKept DEF Dispatches, Unmoved
<1>2. CASE \E d \in Documents : UploadDocument(d)
  <2>1. /\ docs \subseteq docs'
        /\ UNCHANGED <<status, documentKeys, exec, attempts>>
    BY <1>2 DEF UploadDocument
  <2> QED BY <2>1, EvidenceKept DEF Dispatches, Unmoved, EvidenceInv
<1>3. ASSUME NEW call \in starting, StartWorkflow(call)
      PROVE  EvidenceInv'
  <2>1. UNCHANGED <<status, docs, documentKeys>>
    BY <1>3 DEF StartWorkflow, dbVars
  <2>2. CASE call.wf \in DOMAIN exec
    BY <1>3, <2>1, <2>2, EvidenceKept
       DEF StartWorkflow, Dispatches, Unmoved, EvidenceInv
  <2>3. CASE call.wf \notin DOMAIN exec
    <3> DEFINE first == FirstActivity(call.from)
    <3>1. /\ DOMAIN exec' = DOMAIN exec \cup {call.wf}
          /\ exec'[call.wf].stage = first
          /\ \A w \in DOMAIN exec : exec'[w] = exec[w]
          /\ attempts' = attempts \cup {FirstAttempt(call.wf, first)}
      BY <1>3, <2>3 DEF StartWorkflow
    <3>2. first \notin {"verify_facts", "enter_human_review"}
      BY DEF FirstActivity
    <3> HIDE DEF first
    <3>3. LET b == FirstAttempt(call.wf, first)
          IN ~b.listed /\ b.todo = {} /\ b.wf = call.wf /\ b.act = first
      BY DEF FirstAttempt
    <3>4. Dispatches
      BY <3>1, <3>3 DEF Dispatches
    <3>5. \A w \in DOMAIN exec' : Unmoved(w)
      BY <3>1, <3>2 DEF Unmoved
    <3> QED BY <2>1, <3>4, <3>5, EvidenceKept DEF EvidenceInv
  <2> QED BY <2>2, <2>3
<1>4. CASE \/ \E call \in starting : MissStart(call)
           \/ \E r \in Reviewers, d \in REVIEW_DECISIONS : BeginReview(r, d)
           \/ \E r \in Reviewers : SignalRefused(r)
  <2>1. UNCHANGED <<status, docs, documentKeys, exec, attempts>>
    BY <1>4 DEF MissStart, BeginReview, SignalRefused, dbVars
  <2> QED BY <2>1, EvidenceKept DEF Dispatches, Unmoved, EvidenceInv
<1>5. ASSUME NEW r \in Reviewers, SignalReviewDecision(r)
      PROVE  EvidenceInv'
  <2>1. UNCHANGED <<status, docs, documentKeys, attempts>>
    BY <1>5 DEF SignalReviewDecision, dbVars
  <2>2. /\ DOMAIN exec' = DOMAIN exec
        /\ \A w \in DOMAIN exec : exec'[w].stage = exec[w].stage
    BY <1>5 DEF SignalReviewDecision, TypeOK, Executions
  <2> QED BY <2>1, <2>2, EvidenceKept DEF Dispatches, Unmoved, EvidenceInv
<1> QED BY <1>1, <1>2, <1>3, <1>4, <1>5 DEF Api

\* The attempts: only FinishExtraction takes an execution past its extraction,
\* and it has worked through what it listed.
LEMMA EvidenceWorker ==
  ASSUME TypeOK, DriverInv', EvidenceInv, Worker
  PROVE  EvidenceInv'
<1> PICK a \in attempts :
      RunAttempt(a) \/ TransientFailure(a) \/ CrashWorker(a)
  BY DEF Worker
<1>0. a.wf \in DOMAIN exec /\ a \in Attempts
  BY DEF TypeOK
<1>1. CASE DuplicateAttempt(a) \/ FinishExtraction(a)
  <2>1. /\ AnswerOrLose(a, status)
        /\ UNCHANGED <<status, docs, documentKeys>>
        /\ a.act = "extract_document_facts" => FinishExtraction(a)
    BY <1>1 DEF DuplicateAttempt, FinishExtraction, dbVars
  <2> QED BY <2>1, AnswerDispatches, AnswerUnmoved, EvidenceKept DEF EvidenceInv
<1>2. CASE \/ ValidateIntake(a) \/ CheckRequiredDocuments(a)
           \/ EnterHumanReview(a) \/ ApplyReviewDecision(a)
  <2>1. /\ AnswerOrLose(a, status')
        /\ UNCHANGED <<docs, documentKeys>>
        /\ a.act # "extract_document_facts"
    BY <1>2 DEF ValidateIntake, CheckRequiredDocuments, EnterHumanReview,
                ApplyReviewDecision
  <2>2. status' = "VERIFICATION" => docs # {}
    <3>1. CASE CheckRequiredDocuments(a)
      BY <3>1 DEF CheckRequiredDocuments, DocumentOutcome, enter_human_review
    <3>2. CASE ValidateIntake(a) \/ EnterHumanReview(a)
      BY <3>2 DEF ValidateIntake, EnterHumanReview, enter_human_review
    <3>3. CASE ApplyReviewDecision(a)
      BY <1>0, <3>3, ChoiceIsDecision DEF ApplyReviewDecision, REVIEW_DECISIONS
    <3> QED BY <1>2, <3>1, <3>2, <3>3
  <2> QED BY <2>1, <2>2, AnswerDispatches, AnswerUnmoved, EvidenceKept
<1>3. CASE VerifyFacts(a)
  <2>1. /\ AnswerOrLose(a, status)
        /\ UNCHANGED <<status, docs, documentKeys>>
        /\ a.act # "extract_document_facts"
    BY <1>3 DEF VerifyFacts
  <2> QED BY <2>1, AnswerDispatches, AnswerUnmoved, EvidenceKept DEF EvidenceInv
<1>4. CASE ListDocuments(a)
  <2> DEFINE b == [a EXCEPT !.listed = TRUE, !.todo = docs]
  <2>1. /\ attempts' = (attempts \ {a}) \cup {b}
        /\ UNCHANGED <<status, docs, documentKeys, exec>>
        /\ a.act = "extract_document_facts"
    BY <1>4 DEF ListDocuments, dbVars
  <2>2. b.act = a.act /\ b.wf = a.wf /\ b.todo = docs
    BY <1>0 DEF Attempts
  <2>3. docs # {}
    BY <2>1 DEF EvidenceInv
  <2> HIDE DEF b
  <2> QED BY <2>1, <2>2, <2>3 DEF EvidenceInv, ReviewHasEvidence, Evidence
<1>5. ASSUME NEW d \in a.todo, ProcessDocument(a, d)
      PROVE  EvidenceInv'
  <2> DEFINE b == [a EXCEPT !.todo = @ \ {d}]
  <2>1. /\ attempts' = (attempts \ {a}) \cup {b}
        /\ UNCHANGED <<status, docs, exec>>
        /\ documentKeys \subseteq documentKeys'
        /\ <<a.wf, d>> \in documentKeys'
    BY <1>5 DEF ProcessDocument, DocumentReserved
  <2>2. b.act = a.act /\ b.wf = a.wf /\ b.todo = a.todo \ {d}
    BY <1>0 DEF Attempts
  <2> HIDE DEF b
  <2>3. ReviewHasEvidence'
    BY <2>1 DEF EvidenceInv, ReviewHasEvidence
  <2>4. ASSUME NEW c \in attempts', c.act = "extract_document_facts"
        PROVE  /\ docs' # {}
               /\ c.todo \subseteq docs'
               /\ c.listed /\ c.todo = {} => Evidence(c.wf)'
    BY <2>1, <2>2, <2>4 DEF EvidenceInv, Evidence
  <2> QED BY <2>1, <2>3, <2>4 DEF EvidenceInv
<1>6. CASE HandlerRaises(a) /\ Illegal(a)
  <2>1. /\ attempts' \subseteq attempts
        /\ UNCHANGED <<status, docs, documentKeys>>
    BY <1>6 DEF HandlerRaises, dbVars
  <2>2. /\ DOMAIN exec' = DOMAIN exec
        /\ \A w \in DOMAIN exec : \/ exec'[w].stage = exec[w].stage
                                  \/ exec'[w].stage = "failed"
    <3>1. \/ exec' = exec
          \/ exec' = [exec EXCEPT ![a.wf].stage = "failed"]
      BY <1>6 DEF HandlerRaises
    <3>2. exec \in [DOMAIN exec -> Executions]
      BY <1>0 DEF TypeOK
    <3>3. CASE exec' = exec
      BY <3>3
    <3>4. CASE exec' = [exec EXCEPT ![a.wf].stage = "failed"]
      BY <3>2, <3>4 DEF Executions
    <3> QED BY <3>1, <3>3, <3>4
  <2> QED BY <2>1, <2>2, EvidenceKept DEF Dispatches, Unmoved, EvidenceInv
<1>7. CASE (HandlerRaises(a) /\ ~Illegal(a)) \/ TransientFailure(a)
  <2>1. Raise(a) /\ UNCHANGED <<status, docs, documentKeys>>
    BY <1>7 DEF HandlerRaises, TransientFailure, dbVars
  <2> QED BY <2>1, RaiseDispatches, RaiseMoves, StayOrFailUnmoved, EvidenceKept
          DEF EvidenceInv
<1>8. CASE CrashWorker(a)
  <2>1. /\ attempts' \subseteq attempts
        /\ UNCHANGED <<status, docs, documentKeys, exec>>
    BY <1>8 DEF CrashWorker, dbVars
  <2> QED BY <2>1, EvidenceKept DEF Dispatches, Unmoved, EvidenceInv
<1> QED BY <1>1, <1>2, <1>3, <1>4, <1>5, <1>6, <1>7, <1>8 DEF RunAttempt

\* Timeouts retry the activity an execution is at; a decision takes it from
\* waiting to applying the decision.
LEMMA EvidenceTemporal ==
  ASSUME TypeOK, DriverInv', EvidenceInv, Temporal
  PROVE  EvidenceInv'
<1> PICK w \in DOMAIN exec : TimeoutRunning(w) \/ Timer(w)
  BY DEF Temporal
<1>1. CASE TimeoutRunning(w) \/ TimeoutLost(w)
  <2>1. /\ Retry(w, attempts) /\ exec[w].stage \in Activities
        /\ UNCHANGED <<status, docs, documentKeys>>
    BY <1>1 DEF TimeoutRunning, TimeoutLost, dbVars
  <2> QED BY <2>1, RetryDispatches, RetryMoves, StayOrFailUnmoved, EvidenceKept
          DEF EvidenceInv
<1>2. CASE TakeDecision(w) \/ SlaTimeout(w)
  <2> DEFINE apply == "apply_review_decision"
  <2>1. PICK d : Decide(w, d)
    BY <1>2 DEF TakeDecision, SlaTimeout
  <2>2. /\ exec' = [exec EXCEPT ![w].stage = apply, ![w].attempt = 1,
                                ![w].choice = d]
        /\ attempts' = attempts \cup {FirstAttempt(w, apply)}
        /\ UNCHANGED <<status, docs, documentKeys>>
    BY <2>1 DEF Decide, dbVars
  <2>3. /\ DOMAIN exec' = DOMAIN exec
        /\ exec'[w].stage = apply
        /\ \A v \in DOMAIN exec : v # w => exec'[v] = exec[v]
    BY <2>2 DEF TypeOK, Executions
  <2>4. Dispatches
    BY <2>2, <2>3 DEF Dispatches, FirstAttempt
  <2>5. \A v \in DOMAIN exec' : Unmoved(v)
    BY <2>3 DEF Unmoved
  <2> QED BY <2>2, <2>4, <2>5, EvidenceKept DEF EvidenceInv
<1> QED BY <1>1, <1>2 DEF Timer

\* A case that goes from verification to review has a document that the
\* execution sending it has extracted, also after retries and late attempts.
THEOREM ReviewIsInformed == Spec => []ReviewHasEvidence
<1>1. Init => EvidenceInv
  BY DEF Init, EvidenceInv, ReviewHasEvidence
<1>2. TypeOK /\ DriverInv' /\ EvidenceInv /\ [Next]_vars => EvidenceInv'
  <2> SUFFICES ASSUME TypeOK, DriverInv', EvidenceInv, [Next]_vars
               PROVE  EvidenceInv'
    OBVIOUS
  <2>1. CASE UNCHANGED vars
    BY <2>1 DEF vars, dbVars, EvidenceInv, ReviewHasEvidence, Evidence
  <2> QED BY <2>1, EvidenceApi, EvidenceWorker, EvidenceTemporal DEF Next
<1>3. EvidenceInv => ReviewHasEvidence
  BY DEF EvidenceInv
<1> QED BY <1>1, <1>2, <1>3, TypeCorrect, DriverInvariant, PTL DEF Spec

-----------------------------------------------------------------------------
(* What it takes to fail an execution, or to leave a case without one      *)

\* Every attempt but the first was paid for with a fault, and so is the next one
\* when no answer to this one will come; a failed execution has used up its
\* attempts.
Paid(w) ==
  /\ exec[w].stage \in Activities =>
       /\ exec[w].attempt <= faults + 1
       /\ Running(w) \/ exec[w].attempt <= faults
  /\ exec[w].stage = "failed" => MaxAttempts <= faults

\* Until the first decision, that is; afterwards the queue row is in the way.
PaidInv == queue.state # "decided" => \A w \in DOMAIN exec : Paid(w)

\* The case is with a workflow.
InProcess ==
  {"SUBMITTED", "DOCUMENT_PROCESSING", "VERIFICATION", "AWAITING_HUMAN_REVIEW"}

\* Only a start call that was missed leaves a case in process without an execution.
StartedInv ==
  status \in InProcess =>
    /\ active # None
    /\ \/ \E c \in starting : c.wf = active
       \/ active \in DOMAIN exec
       \/ faults > 0

\* Some attempt of w that Temporal listens to is running afterwards.
LEMMA StillRunning ==
  ASSUME NEW w,
         exec'[w].stage = exec[w].stage, exec'[w].attempt = exec[w].attempt,
         \A a \in attempts : a.wf = w /\ Current(a) =>
           \E b \in attempts' : b.wf = a.wf /\ b.act = a.act /\ b.n = a.n
  PROVE  Running(w) => Running(w)'
<1> SUFFICES ASSUME NEW a \in attempts, a.wf = w, Current(a) PROVE Running(w)'
  BY DEF Running
<1>1. PICK b \in attempts' : b.wf = a.wf /\ b.act = a.act /\ b.n = a.n
  OBVIOUS
<1>2. exec'[b.wf].stage = b.act /\ exec'[b.wf].attempt = b.n
  BY <1>1 DEF Current
<1>3. Current(b)'
  BY <1>2 DEF Current
<1> QED BY <1>1, <1>3 DEF Running

\* An execution that a step does not move keeps what it paid.
LEMMA PaidKept ==
  ASSUME NEW w, Paid(w), exec[w].attempt \in Nat, faults \in Nat, faults' \in Nat,
         faults <= faults', MaxAttempts \in Nat,
         exec'[w].stage = exec[w].stage, exec'[w].attempt = exec[w].attempt,
         Running(w) => Running(w)'
  PROVE  Paid(w)'
<1>1. ASSUME exec[w].stage \in Activities
      PROVE  /\ exec'[w].attempt <= faults' + 1
             /\ Running(w)' \/ exec'[w].attempt <= faults'
  BY <1>1 DEF Paid
<1>2. ASSUME exec[w].stage = "failed" PROVE MaxAttempts <= faults'
  BY <1>2 DEF Paid
<1> QED BY <1>1, <1>2 DEF Paid

\* A fault that takes an attempt away pays for the next one.
LEMMA FaultPays ==
  ASSUME NEW w, Paid(w), exec[w].attempt \in Nat, faults \in Nat,
         faults' = faults + 1, MaxAttempts \in Nat, UNCHANGED exec
  PROVE  Paid(w)'
<1>1. ASSUME exec[w].stage \in Activities
      PROVE  exec[w].attempt <= faults' + 1 /\ exec[w].attempt <= faults'
  BY <1>1 DEF Paid
<1>2. ASSUME exec[w].stage = "failed" PROVE MaxAttempts <= faults'
  BY <1>2 DEF Paid
<1> QED BY <1>1, <1>2 DEF Paid

LEMMA OneMore ==
  /\ \A n \in Nat : 1 <= n + 1
  /\ \A m, n \in Nat : m <= n => m + 1 <= n + 1
OBVIOUS

\* The first attempt of an activity is free.
LEMMA FirstIsFree ==
  ASSUME NEW w, NEW st \in Activities, faults' \in Nat,
         exec'[w].stage = st, exec'[w].attempt = 1,
         FirstAttempt(w, st) \in attempts'
  PROVE  Paid(w)'
<1>1. Running(w)'
  BY DEF Running, Current, FirstAttempt
<1>2. st # "failed"
  BY DEF Activities
<1>3. 1 <= faults' + 1
  BY OneMore
<1> QED BY <1>1, <1>2, <1>3 DEF Paid

\* What the lemmas below need of the types.
LEMMA PaidTypes ==
  ASSUME TypeOK
  PROVE  /\ faults \in Nat /\ MaxAttempts \in Nat
         /\ \A w \in DOMAIN exec : /\ exec[w] \in Executions
                                   /\ exec[w].attempt \in 1 .. MaxAttempts
                                   /\ exec[w].attempt \in Nat
BY MaxAttemptsAssumption, MaxFaultsAssumption DEF TypeOK, Executions

\* An answer starts the next activity with a fresh attempt.
LEMMA AnswerPaid ==
  ASSUME TypeOK, NEW a \in attempts, NEW answer, AnswerOrLose(a, answer),
         \A w \in DOMAIN exec : Paid(w)
  PROVE  DOMAIN exec' = DOMAIN exec /\ \A w \in DOMAIN exec : Paid(w)'
<1>0. /\ a.wf \in DOMAIN exec /\ a.act \in Activities /\ exec[a.wf] \in Executions
  BY DEF TypeOK, Attempts
<1>1. CASE LoseAnswer(a)
  <2>1. faults' = faults + 1 /\ UNCHANGED exec
    BY <1>1 DEF LoseAnswer
  <2> QED BY <2>1, PaidTypes, FaultPays
<1>2. CASE Answer(a, answer) /\ UNCHANGED faults /\ Current(a)
  <2>0. PICK next : next = NextStage(a.act, answer)
    OBVIOUS
  <2>1. /\ exec' = [exec EXCEPT ![a.wf].stage = next, ![a.wf].attempt = 1]
        /\ attempts \ {a} \subseteq attempts'
        /\ next \in Activities => FirstAttempt(a.wf, next) \in attempts'
    BY <1>2, <2>0 DEF Answer
  <2>2. next \in Activities \cup {"wait", "completed"}
    BY <1>0, <2>0 DEF NextStage, Successor, Activities
  <2>3. /\ exec'[a.wf].stage = next /\ exec'[a.wf].attempt = 1
        /\ DOMAIN exec' = DOMAIN exec
        /\ \A w \in DOMAIN exec : w # a.wf => exec'[w] = exec[w]
    BY <1>0, <2>1 DEF Executions
  <2>4. faults' \in Nat /\ faults <= faults'
    BY <1>2, PaidTypes
  <2>5. Paid(a.wf)'
    <3>1. CASE next \in Activities
      BY <2>1, <2>3, <2>4, <3>1, FirstIsFree
    <3>2. CASE next \notin Activities
      BY <2>2, <2>3, <3>2 DEF Paid
    <3> QED BY <3>1, <3>2
  <2>6. ASSUME NEW w \in DOMAIN exec, w # a.wf PROVE Paid(w)'
    <3>1. Running(w) => Running(w)'
      BY <2>1, <2>3, <2>6, StillRunning
    <3> QED BY <2>3, <2>4, <2>6, <3>1, PaidTypes, PaidKept
  <2> QED BY <2>3, <2>5, <2>6
<1>3. CASE Answer(a, answer) /\ UNCHANGED faults /\ ~Current(a)
  <2>1. UNCHANGED <<exec, faults>> /\ attempts' = attempts \ {a}
    BY <1>3 DEF Answer
  <2>2. ASSUME NEW w \in DOMAIN exec PROVE Paid(w)'
    <3>1. Running(w) => Running(w)'
      BY <1>3, <2>1, StillRunning
    <3>2. faults' \in Nat /\ faults <= faults'
      BY <2>1, PaidTypes
    <3> QED BY <2>1, <3>1, <3>2, PaidTypes, PaidKept
  <2> QED BY <2>1, <2>2
<1> QED BY <1>1, <1>2, <1>3 DEF AnswerOrLose

\* A retry is paid for by the fault that made it necessary, now or earlier.
LEMMA RetryPaid ==
  ASSUME TypeOK, NEW w \in DOMAIN exec, NEW rest \in SUBSET attempts,
         exec[w].stage \in Activities, Retry(w, rest),
         \A a \in attempts : a.wf # w => a \in rest,
         faults' \in Nat, faults <= faults', exec[w].attempt <= faults',
         \A v \in DOMAIN exec : Paid(v)
  PROVE  DOMAIN exec' = DOMAIN exec /\ \A v \in DOMAIN exec : Paid(v)'
<1>0. PICK n \in 1 .. MaxAttempts : n = exec[w].attempt
  BY PaidTypes
<1>1. MaxAttempts \in Nat /\ n \in Nat /\ n <= faults' /\ exec[w] \in Executions
  BY <1>0, PaidTypes
<1>2. CASE n < MaxAttempts
  <2>0. PICK b : b = [FirstAttempt(w, exec[w].stage) EXCEPT !.n = n + 1]
    OBVIOUS
  <2>1. /\ exec' = [exec EXCEPT ![w].attempt = n + 1]
        /\ attempts' = rest \cup {b}
    BY <1>0, <1>2, <2>0 DEF Retry, RetryUpTo
  <2>2. b.wf = w /\ b.act = exec[w].stage /\ b.n = n + 1
    BY <2>0 DEF FirstAttempt
  <2>3. /\ exec'[w].stage = exec[w].stage /\ exec'[w].attempt = n + 1
        /\ DOMAIN exec' = DOMAIN exec
        /\ \A v \in DOMAIN exec : v # w => exec'[v] = exec[v]
    BY <1>1, <2>1 DEF Executions
  <2>4. Running(w)'
    BY <2>1, <2>2, <2>3 DEF Running, Current
  <2>5. n + 1 <= faults' + 1
    BY <1>1, OneMore
  <2>f. exec[w].stage # "failed"
    BY DEF Activities
  <2>6. Paid(w)'
    BY <2>3, <2>4, <2>5, <2>f DEF Paid
  <2>7. ASSUME NEW v \in DOMAIN exec, v # w PROVE Paid(v)'
    <3>1. Running(v) => Running(v)'
      BY <2>1, <2>3, <2>7, StillRunning
    <3> QED BY <2>3, <2>7, <3>1, PaidTypes, PaidKept
  <2> QED BY <2>3, <2>6, <2>7
<1>3. CASE ~(n < MaxAttempts)
  <2>1. exec' = [exec EXCEPT ![w].stage = "failed"] /\ attempts' = rest
    BY <1>0, <1>3 DEF Retry, RetryUpTo
  <2>2. /\ exec'[w].stage = "failed"
        /\ DOMAIN exec' = DOMAIN exec
        /\ \A v \in DOMAIN exec : v # w => exec'[v] = exec[v]
    BY <1>1, <2>1 DEF Executions
  <2>3. MaxAttempts <= faults'
    BY <1>0, <1>1, <1>3
  <2>4. Paid(w)'
    BY <2>2, <2>3 DEF Paid, Activities
  <2>5. ASSUME NEW v \in DOMAIN exec, v # w PROVE Paid(v)'
    <3>1. Running(v) => Running(v)'
      BY <2>1, <2>2, <2>5, StillRunning
    <3> QED BY <2>2, <2>5, <3>1, PaidTypes, PaidKept
  <2> QED BY <2>2, <2>4, <2>5
<1> QED BY <1>2, <1>3

\* The queue row is in the way of a handler only when it records a decision.
LEMMA RowErrorAfterDecision ==
  ASSUME TypeOK, DriverInv, ReviewQueueAgrees, NEW a \in attempts, QueueRowError(a)
  PROVE  queue.state = "decided"
<1>1. ~Reserved(a) /\ a.act \in Movers
  BY DEF QueueRowError, Movers
<1>2. status = StatusBefore[a.act]
  BY <1>1, EffectiveStage
<1>3. queue.state \in {"absent", "pending", "decided"}
  BY DEF TypeOK
<1>4. CASE a.act = "apply_review_decision"
  BY <1>2, <1>4 DEF QueueRowError, ReviewQueueAgrees, StatusBefore
<1>5. CASE a.act \in {"enter_human_review", "check_required_documents"}
  BY <1>2, <1>3, <1>5 DEF QueueRowError, ReviewQueueAgrees, StatusBefore
<1> QED BY <1>4, <1>5 DEF QueueRowError

\* The decision of a queue row is never undone.
LEMMA DecidedStays ==
  ASSUME [Next]_vars, queue.state = "decided"
  PROVE  queue'.state = "decided"
<1>1. ASSUME NEW k \in ClientKeys, SubmitApplication(k) \/ ResubmitApplication(k)
      PROVE  UNCHANGED queue
  BY <1>1 DEF SubmitApplication, ResubmitApplication
<1>2. ASSUME NEW a \in attempts, ApplyReviewDecision(a) PROVE queue'.state = "decided"
  BY <1>2 DEF ApplyReviewDecision, Decided
<1>3. ~enter_human_review
  BY DEF enter_human_review
<1>4. ASSUME NEW a \in attempts,
             ValidateIntake(a) \/ CheckRequiredDocuments(a) \/ EnterHumanReview(a)
      PROVE  UNCHANGED queue
  BY <1>3, <1>4 DEF ValidateIntake, CheckRequiredDocuments, EnterHumanReview
<1> QED BY <1>1, <1>2, <1>4, OnlyMoversMove DEF MoverStep

\* A step that leaves executions and attempts alone keeps what was paid.
LEMMA PaidUnchanged ==
  ASSUME TypeOK, TypeOK', UNCHANGED <<exec, attempts>>, faults <= faults',
         \A w \in DOMAIN exec : Paid(w)
  PROVE  \A w \in DOMAIN exec' : Paid(w)'
<1>1. faults' \in Nat
  BY MaxFaultsAssumption DEF TypeOK
<1>2. \A w : Running(w) => Running(w)'
  BY StillRunning
<1> QED BY <1>1, <1>2, PaidTypes, PaidKept

LEMMA PaidApi ==
  ASSUME TypeOK, TypeOK', DriverInv, Api, \A w \in DOMAIN exec : Paid(w)
  PROVE  \A w \in DOMAIN exec' : Paid(w)'
<1>0. faults \in Nat /\ faults' \in Nat
  BY MaxFaultsAssumption DEF TypeOK
<1>1. ASSUME NEW k \in ClientKeys, SubmitApplication(k) \/ ResubmitApplication(k)
      PROVE  UNCHANGED <<exec, attempts, faults>>
  BY <1>1 DEF SubmitApplication, ResubmitApplication
<1>2. ASSUME NEW d \in Documents, UploadDocument(d)
      PROVE  UNCHANGED <<exec, attempts, faults>>
  BY <1>2 DEF UploadDocument
<1>3. ASSUME NEW r \in Reviewers, NEW d \in REVIEW_DECISIONS, BeginReview(r, d)
      PROVE  UNCHANGED <<exec, attempts, faults>>
  BY <1>3 DEF BeginReview
<1>4. CASE UNCHANGED <<exec, attempts, faults>>
  BY <1>0, <1>4, PaidUnchanged
<1>5. ASSUME NEW call \in starting, MissStart(call)
      PROVE  \A w \in DOMAIN exec' : Paid(w)'
  <2>1. UNCHANGED <<exec, attempts>> /\ faults' = faults + 1
    BY <1>5 DEF MissStart
  <2>2. faults <= faults'
    BY <1>0, <2>1
  <2> QED BY <2>1, <2>2, PaidUnchanged
<1>6. ASSUME NEW call \in starting, StartWorkflow(call)
      PROVE  \A w \in DOMAIN exec' : Paid(w)'
  <2>0. PICK first : first = FirstActivity(call.from)
    OBVIOUS
  <2>1. call.wf \notin DOMAIN exec
    BY DEF DriverInv, StartingInv
  <2>2. /\ exec' = [w \in DOMAIN exec \cup {call.wf} |->
                      IF w = call.wf
                      THEN [stage   |-> first,      attempt |-> 1,
                            signal  |-> NoDecision, choice  |-> NoDecision]
                      ELSE exec[w]]
        /\ attempts' = attempts \cup {FirstAttempt(call.wf, first)}
        /\ UNCHANGED faults
    BY <1>6, <2>0, <2>1 DEF StartWorkflow
  <2>3. first \in Activities
    BY <2>0 DEF FirstActivity, Activities
  <2>4. /\ DOMAIN exec' = DOMAIN exec \cup {call.wf}
        /\ exec'[call.wf].stage = first /\ exec'[call.wf].attempt = 1
        /\ \A w \in DOMAIN exec : exec'[w] = exec[w]
    BY <2>1, <2>2
  <2>5. Paid(call.wf)'
    BY <1>0, <2>2, <2>3, <2>4, FirstIsFree
  <2>6. ASSUME NEW w \in DOMAIN exec PROVE Paid(w)'
    <3>1. Running(w) => Running(w)'
      BY <2>2, <2>4, StillRunning
    <3>2. faults <= faults'
      BY <1>0, <2>2
    <3> QED BY <1>0, <2>4, <3>1, <3>2, PaidTypes, PaidKept
  <2> QED BY <2>4, <2>5, <2>6
<1>7. ASSUME NEW r \in Reviewers, SignalReviewDecision(r)
      PROVE  \A w \in DOMAIN exec' : Paid(w)'
  <2>0. PICK v \in DOMAIN exec : v = reviewing[r].wf
    BY <1>7 DEF SignalReviewDecision, Open
  <2>1. PICK s : exec' = [exec EXCEPT ![v].signal = s]
    BY <1>7, <2>0 DEF SignalReviewDecision
  <2>2. UNCHANGED <<attempts, faults>>
    BY <1>7 DEF SignalReviewDecision
  <2>3. DOMAIN exec' = DOMAIN exec
        /\ \A w \in DOMAIN exec : /\ exec'[w].stage = exec[w].stage
                                  /\ exec'[w].attempt = exec[w].attempt
    BY <2>1, PaidTypes DEF Executions
  <2>4. ASSUME NEW w \in DOMAIN exec PROVE Paid(w)'
    <3>1. Running(w) => Running(w)'
      BY <2>2, <2>3, StillRunning
    <3>2. faults <= faults'
      BY <1>0, <2>2
    <3> QED BY <1>0, <2>3, <3>1, <3>2, PaidTypes, PaidKept
  <2> QED BY <2>3, <2>4
<1>8. ASSUME NEW r \in Reviewers, SignalRefused(r)
      PROVE  UNCHANGED <<exec, attempts, faults>>
  BY <1>8 DEF SignalRefused
<1> QED BY <1>1, <1>2, <1>3, <1>4, <1>5, <1>6, <1>7, <1>8 DEF Api

LEMMA PaidWorker ==
  ASSUME TypeOK, TypeOK', DriverInv, ReviewQueueAgrees, NoIllegalTransitionRaised,
         queue.state # "decided", Worker, \A w \in DOMAIN exec : Paid(w)
  PROVE  \A w \in DOMAIN exec' : Paid(w)'
<1> PICK a \in attempts : RunAttempt(a) \/ TransientFailure(a) \/ CrashWorker(a)
  BY DEF Worker
<1>0. /\ faults \in Nat /\ faults' \in Nat
      /\ a \in Attempts /\ a.wf \in DOMAIN exec /\ a.act \in Activities
  BY MaxFaultsAssumption DEF TypeOK, Attempts
<1>1. ASSUME NEW answer, AnswerOrLose(a, answer) PROVE \A w \in DOMAIN exec' : Paid(w)'
  BY <1>1, AnswerPaid
<1>2. CASE DuplicateAttempt(a) \/ FinishExtraction(a) \/ VerifyFacts(a)
  BY <1>1, <1>2 DEF DuplicateAttempt, FinishExtraction, VerifyFacts
<1>3. CASE MoverStep(a)
  BY <1>1, <1>3 DEF MoverStep, ValidateIntake, CheckRequiredDocuments,
                    EnterHumanReview, ApplyReviewDecision
<1>4. ASSUME ListDocuments(a) \/ \E d \in a.todo : ProcessDocument(a, d)
      PROVE  \A w \in DOMAIN exec' : Paid(w)'
  <2>1. PICK b : /\ attempts' = (attempts \ {a}) \cup {b}
                 /\ b.wf = a.wf /\ b.act = a.act /\ b.n = a.n
                 /\ UNCHANGED <<exec, faults>>
    <3>1. CASE ListDocuments(a)
      <4>1. PICK b : b = [a EXCEPT !.listed = TRUE, !.todo = docs]
        OBVIOUS
      <4>2. b.wf = a.wf /\ b.act = a.act /\ b.n = a.n
        BY <1>0, <4>1 DEF Attempts
      <4> QED BY <3>1, <4>1, <4>2 DEF ListDocuments
    <3>2. ASSUME NEW d \in a.todo, ProcessDocument(a, d)
          PROVE  \E b : /\ attempts' = (attempts \ {a}) \cup {b}
                        /\ b.wf = a.wf /\ b.act = a.act /\ b.n = a.n
                        /\ UNCHANGED <<exec, faults>>
      <4>1. PICK b : b = [a EXCEPT !.todo = @ \ {d}]
        OBVIOUS
      <4>2. b.wf = a.wf /\ b.act = a.act /\ b.n = a.n
        BY <1>0, <4>1 DEF Attempts
      <4> QED BY <3>2, <4>1, <4>2 DEF ProcessDocument
    <3> QED BY <1>4, <3>1, <3>2
  <2>2. ASSUME NEW w \in DOMAIN exec PROVE Paid(w)'
    <3>1. Running(w) => Running(w)'
      BY <2>1, StillRunning
    <3>2. faults <= faults'
      BY <1>0, <2>1
    <3> QED BY <1>0, <2>1, <3>1, <3>2, PaidTypes, PaidKept
  <2> QED BY <2>1, <2>2
<1>5. CASE HandlerRaises(a)
  BY <1>5, RowErrorAfterDecision DEF HandlerRaises, NoIllegalTransitionRaised
<1>6. CASE TransientFailure(a)
  <2>1. faults' = faults + 1 /\ Raise(a)
    BY <1>6 DEF TransientFailure
  <2>2. CASE Current(a)
    <3>1. exec[a.wf].stage \in Activities
      BY <1>0, <2>2 DEF Current
    <3>2. Retry(a.wf, attempts \ {a}) /\ attempts \ {a} \in SUBSET attempts
      BY <2>1, <2>2 DEF Raise
    <3>3. exec[a.wf].attempt <= faults' /\ faults <= faults'
      BY <1>0, <2>1, <3>1 DEF Paid
    <3>4. \A c \in attempts : c.wf # a.wf => c \in attempts \ {a}
      OBVIOUS
    <3> QED BY <1>0, <3>1, <3>2, <3>3, <3>4, RetryPaid
  <2>3. CASE ~Current(a)
    BY <2>1, <2>3, PaidTypes, FaultPays DEF Raise
  <2> QED BY <2>2, <2>3
<1>7. CASE CrashWorker(a)
  BY <1>7, PaidTypes, FaultPays DEF CrashWorker
<1> QED BY <1>2, <1>3, <1>4, <1>5, <1>6, <1>7 DEF RunAttempt, MoverStep

LEMMA PaidTemporal ==
  ASSUME TypeOK, TypeOK', Temporal, \A w \in DOMAIN exec : Paid(w)
  PROVE  \A w \in DOMAIN exec' : Paid(w)'
<1> PICK w \in DOMAIN exec : TimeoutRunning(w) \/ Timer(w)
  BY DEF Temporal
<1>0. faults \in Nat /\ faults' \in Nat
  BY MaxFaultsAssumption DEF TypeOK
<1>1. CASE TimeoutRunning(w) \/ TimeoutLost(w)
  <2>1. exec[w].stage \in Activities /\ Retry(w, attempts)
    BY <1>1 DEF TimeoutRunning, TimeoutLost
  <2>2. PICK n \in Nat : n = exec[w].attempt /\ n <= faults + 1
                         /\ (Running(w) \/ n <= faults)
    BY <2>1, PaidTypes DEF Paid
  <2>3. faults' = faults + 1 \/ (faults' = faults /\ n <= faults)
    BY <1>1, <2>2 DEF TimeoutRunning, TimeoutLost
  <2>4. n <= faults' /\ faults <= faults'
    BY <1>0, <2>2, <2>3
  <2> QED BY <1>0, <2>1, <2>2, <2>4, RetryPaid
<1>2. CASE TakeDecision(w) \/ SlaTimeout(w)
  <2> DEFINE apply == "apply_review_decision"
  <2>1. PICK d : /\ exec' = [exec EXCEPT ![w].stage = apply, ![w].attempt = 1,
                                         ![w].choice = d]
                 /\ attempts' = attempts \cup {FirstAttempt(w, apply)}
                 /\ UNCHANGED faults
    BY <1>2 DEF TakeDecision, SlaTimeout, Decide
  <2>2. /\ DOMAIN exec' = DOMAIN exec
        /\ exec'[w].stage = apply /\ exec'[w].attempt = 1
        /\ \A v \in DOMAIN exec : v # w => exec'[v] = exec[v]
    BY <2>1, PaidTypes DEF Executions
  <2>3. Paid(w)'
    <3>1. apply \in Activities
      BY DEF Activities
    <3> HIDE DEF apply
    <3> QED BY <1>0, <2>1, <2>2, <3>1, FirstIsFree
  <2>4. ASSUME NEW v \in DOMAIN exec, v # w PROVE Paid(v)'
    <3>1. Running(v) => Running(v)'
      BY <2>1, <2>2, <2>4, StillRunning
    <3>2. faults <= faults'
      BY <1>0, <2>1
    <3> QED BY <1>0, <2>2, <2>4, <3>1, <3>2, PaidTypes, PaidKept
  <2> QED BY <2>2, <2>3, <2>4
<1> QED BY <1>1, <1>2 DEF Timer

LEMMA PaidStep ==
  ASSUME TypeOK, TypeOK', DriverInv, ReviewQueueAgrees, NoIllegalTransitionRaised,
         PaidInv, [Next]_vars
  PROVE  PaidInv'
<1> SUFFICES ASSUME queue'.state # "decided" PROVE \A w \in DOMAIN exec' : Paid(w)'
  BY DEF PaidInv
<1>1. queue.state # "decided"
  BY DecidedStays
<1>2. \A w \in DOMAIN exec : Paid(w)
  BY <1>1 DEF PaidInv
<1>3. CASE UNCHANGED vars
  <2>1. UNCHANGED <<exec, attempts, faults>> /\ faults <= faults'
    BY <1>3, PaidTypes DEF vars
  <2> QED BY <1>2, <2>1, PaidUnchanged
<1> QED BY <1>1, <1>2, <1>3, PaidApi, PaidWorker, PaidTemporal DEF Next

\* Execution ids are never forgotten, and faults never.
LEMMA HistoryGrows ==
  ASSUME TypeOK, TypeOK', DriverInv, [Next]_vars
  PROVE  DOMAIN exec \subseteq DOMAIN exec' /\ faults <= faults'
<1>0. faults \in Nat /\ faults' \in Nat
  BY MaxFaultsAssumption DEF TypeOK
<1>1. faults' \in {faults, faults + 1}
  <2>1. CASE Api
    BY <2>1 DEF Api, SubmitApplication, ResubmitApplication, UploadDocument,
                StartWorkflow, MissStart, BeginReview, SignalReviewDecision, SignalRefused
  <2>2. CASE Worker
    BY <2>2 DEF Worker, RunAttempt, DuplicateAttempt, ValidateIntake,
                CheckRequiredDocuments, ListDocuments, ProcessDocument,
                FinishExtraction, VerifyFacts, EnterHumanReview, ApplyReviewDecision,
                HandlerRaises, TransientFailure, CrashWorker, AnswerOrLose, LoseAnswer
  <2>3. CASE Temporal
    BY <2>3 DEF Temporal, Timer, TimeoutRunning, TimeoutLost, TakeDecision,
                SlaTimeout, Decide
  <2> QED BY <2>1, <2>2, <2>3 DEF Next, vars
<1>2. faults <= faults'
  BY <1>0, <1>1
<1>3. DOMAIN exec \subseteq DOMAIN exec'
  <2>1. CASE Api
    BY <2>1 DEF Api, SubmitApplication, ResubmitApplication, UploadDocument,
                StartWorkflow, MissStart, BeginReview, SignalReviewDecision, SignalRefused
  <2>2. CASE Worker
    <3> PICK a \in attempts : RunAttempt(a) \/ TransientFailure(a) \/ CrashWorker(a)
      BY <2>2 DEF Worker
    <3>1. ASSUME NEW answer, AnswerOrLose(a, answer) PROVE DOMAIN exec' = DOMAIN exec
      BY <3>1, AnswerMoves DEF ExecMove
    <3>2. CASE DuplicateAttempt(a) \/ FinishExtraction(a) \/ VerifyFacts(a)
      BY <3>1, <3>2 DEF DuplicateAttempt, FinishExtraction, VerifyFacts
    <3>3. CASE MoverStep(a)
      BY <3>1, <3>3 DEF MoverStep, ValidateIntake, CheckRequiredDocuments,
                        EnterHumanReview, ApplyReviewDecision
    <3>4. CASE ListDocuments(a) \/ (\E d \in a.todo : ProcessDocument(a, d)) \/ CrashWorker(a)
      BY <3>4 DEF ListDocuments, ProcessDocument, CrashWorker
    <3>5. Raise(a) => DOMAIN exec' = DOMAIN exec
      BY RaiseMoves DEF ExecMove
    <3>6. CASE HandlerRaises(a) \/ TransientFailure(a)
      BY <3>5, <3>6 DEF HandlerRaises, TransientFailure
    <3> QED BY <3>2, <3>3, <3>4, <3>6 DEF RunAttempt, MoverStep
  <2>3. CASE Temporal
    BY <2>3 DEF Temporal, Timer, TimeoutRunning, TimeoutLost, TakeDecision,
                SlaTimeout, Decide, Retry, RetryUpTo
  <2> QED BY <2>1, <2>2, <2>3 DEF Next, vars
<1> QED BY <1>2, <1>3

\* A start call is outstanding until it is made, which starts its execution, or missed,
\* which is a fault.
LEMMA StartCalls ==
  ASSUME TypeOK, TypeOK', DriverInv, [Next]_vars, NEW c \in starting
  PROVE  c \in starting' \/ c.wf \in DOMAIN exec' \/ faults' > 0
<1>0. faults \in Nat
  BY MaxFaultsAssumption DEF TypeOK
<1>1. ASSUME NEW k \in ClientKeys, SubmitApplication(k) \/ ResubmitApplication(k)
      PROVE  starting \subseteq starting'
  BY <1>1 DEF SubmitApplication, ResubmitApplication, AttachWorkflow
<1>2. ASSUME NEW call \in starting, StartWorkflow(call)
      PROVE  call.wf \in DOMAIN exec' /\ starting' = starting \ {call}
  BY <1>2 DEF StartWorkflow
<1>3. ASSUME NEW call \in starting, MissStart(call) PROVE faults' > 0
  <2>1. faults' = faults + 1
    BY <1>3 DEF MissStart
  <2> QED BY <1>0, <2>1
<1>4. ASSUME Api,
             ~ \E k \in ClientKeys : SubmitApplication(k) \/ ResubmitApplication(k),
             ~ \E call \in starting : StartWorkflow(call) \/ MissStart(call)
      PROVE  UNCHANGED starting
  BY <1>4 DEF Api, UploadDocument, BeginReview, SignalReviewDecision, SignalRefused
<1>5. Worker => UNCHANGED starting
  BY DEF Worker, RunAttempt, DuplicateAttempt, ValidateIntake, CheckRequiredDocuments,
         ListDocuments, ProcessDocument, FinishExtraction, VerifyFacts,
         EnterHumanReview, ApplyReviewDecision, HandlerRaises, TransientFailure,
         CrashWorker
<1>6. Temporal => UNCHANGED starting
  BY DEF Temporal, Timer, TimeoutRunning, TimeoutLost, TakeDecision, SlaTimeout, Decide
<1>7. UNCHANGED vars => UNCHANGED starting
  BY DEF vars
<1>8. CASE UNCHANGED starting
  BY <1>8
<1>9. ASSUME NEW call \in starting, StartWorkflow(call)
      PROVE  c \in starting' \/ c.wf \in DOMAIN exec'
  <2>1. CASE c = call
    BY <1>2, <1>9, <2>1
  <2>2. CASE c # call
    BY <1>2, <1>9, <2>2
  <2> QED BY <2>1, <2>2
<1> QED BY <1>1, <1>3, <1>4, <1>5, <1>6, <1>7, <1>8, <1>9 DEF Next

LEMMA StartedStep ==
  ASSUME TypeOK, TypeOK', DriverInv, StartedInv, [Next]_vars
  PROVE  StartedInv'
<1> DEFINE Goal == /\ active' # None
                   /\ \/ \E c \in starting' : c.wf = active'
                      \/ active' \in DOMAIN exec'
                      \/ faults' > 0
<1> SUFFICES ASSUME status' \in InProcess PROVE Goal
  BY DEF StartedInv, InProcess
<1>0. version \in Nat /\ faults \in Nat /\ faults' \in Nat
  BY MaxFaultsAssumption DEF TypeOK
<1>1. ASSUME NEW k \in ClientKeys, SubmitApplication(k) \/ ResubmitApplication(k)
      PROVE  Goal
  <2>1. PICK from : /\ active' = version + 1
                    /\ starting' = starting \cup {[wf |-> version + 1, from |-> from]}
    BY <1>1 DEF SubmitApplication, ResubmitApplication, AttachWorkflow
  <2>2. active' # None
    BY <1>0, <2>1 DEF None
  <2>3. [wf |-> version + 1, from |-> from].wf = active'
    BY <2>1
  <2> QED BY <2>1, <2>2, <2>3
<1>2. ASSUME NEW a \in attempts, MoverStep(a) PROVE Goal
  <2>1. ~ApplyReviewDecision(a)
    BY ChoiceIsDecision DEF InProcess, REVIEW_DECISIONS
  <2>2. UNCHANGED active /\ a.act \in Movers /\ ~Reserved(a)
    BY <1>2, <2>1 DEF MoverStep, ValidateIntake, CheckRequiredDocuments,
                      EnterHumanReview, Movers
  <2>3. active \in DOMAIN exec
    BY <2>2, EffectiveStage
  <2>4. active # None
    BY <2>3 DEF DriverInv, IdsInv, None
  <2> QED BY <2>2, <2>3, <2>4, HistoryGrows
<1>3. CASE UNCHANGED <<status, version, active, queue>>
  <2>1. /\ active # None
        /\ \/ \E c \in starting : c.wf = active
           \/ active \in DOMAIN exec
           \/ faults > 0
    BY <1>3 DEF StartedInv
  <2>2. CASE \E c \in starting : c.wf = active
    BY <1>3, <2>1, <2>2, StartCalls
  <2>3. CASE active \in DOMAIN exec
    BY <1>3, <2>1, <2>3, HistoryGrows
  <2>4. CASE faults > 0
    <3>1. faults' > 0
      BY <1>0, <2>4, HistoryGrows
    <3> QED BY <1>3, <2>1, <3>1
  <2> QED BY <2>1, <2>2, <2>3, <2>4
<1> QED BY <1>1, <1>2, <1>3, OnlyMoversMove

\* Who drives a case in process: a start call is outstanding, or its execution is open;
\* or the start call was missed; or the execution failed, before the first decision only
\* after as many faults as an activity has attempts.
CaseIsDriven ==
  status \in InProcess =>
    \/ \E c \in starting : c.wf = active
    \/ Open(active)
    \/ active \notin DOMAIN exec /\ faults > 0
    \/ faults >= MaxAttempts
    \/ queue.state = "decided"

\* The part of SubmittedIsDecided that needs no fairness: no interleaving of retries,
\* timeouts, late attempts and lost answers leaves a case in process with nobody to
\* move it, unless its start call failed (submit_application logs that and goes on),
\* every attempt of an activity was spent on a fault, or the case was decided before
\* (ApplicationWorkflow, the activities' retry policy).
THEOREM CasesAreDriven == Spec => []CaseIsDriven
<1>1. Init => PaidInv /\ StartedInv
  BY DEF Init, PaidInv, StartedInv, InProcess
<1>2. /\ TypeOK /\ TypeOK' /\ DriverInv /\ ReviewQueueAgrees /\ NoIllegalTransitionRaised
      /\ PaidInv /\ StartedInv /\ [Next]_vars
      => (PaidInv /\ StartedInv)'
  BY PaidStep, StartedStep
<1>3. TypeOK /\ DriverInv /\ PaidInv /\ StartedInv => CaseIsDriven
  <2> SUFFICES ASSUME TypeOK, DriverInv, PaidInv, StartedInv,
                      status \in InProcess, queue.state # "decided",
                      active \in DOMAIN exec, ~Open(active)
               PROVE  faults >= MaxAttempts
    BY DEF CaseIsDriven, StartedInv
  <2>1. exec[active].stage \in Closed
    BY DEF Open
  <2>2. exec[active].stage # "completed"
    BY DEF DriverInv, StagesInv, StageAgrees
  <2>3. MaxAttempts <= faults
    BY <2>1, <2>2 DEF Closed, PaidInv, Paid
  <2> QED BY <2>3, PaidTypes
<1> QED BY <1>1, <1>2, <1>3, TypeCorrect, DriverInvariant, QueueAgrees,
        NoIllegalTransition, PTL DEF Spec
==============================================================================
