-------------------------- MODULE WorkerProcessProofs -------------------------
(***************************************************************************)
(* The worker never closes its container under a task that still runs,     *)
(* however many failures there were.                                       *)
(***************************************************************************)
EXTENDS WorkerProcess, TLAPS

\* A Kafka loop has a client exactly while it serves (the `finally` stops it on
\* every way out), the Temporal task never has one, and the run of the Temporal
\* worker belongs to a task that serves it.
Ownership ==
  /\ \A t \in Loops : clients[t] = IF task[t] = "serving" THEN 1 ELSE 0
  /\ clients["temporal_worker"] = 0
  /\ runTask = "running" => task["temporal_worker"] = "serving"

\* Only main's gather lets the container go, and a task that has returned does
\* not start again.
Closing ==
  main = "closed" => \A t \in Tasks : task[t] = "returned"

\* The loop of _run_with_retry has no way out but stop_event.
NoTaskGivesUp ==
  \A t \in Tasks : task[t] \in {"stopping", "returned"} => stop

Inv == TypeOK /\ Ownership /\ Closing /\ NoTaskGivesUp

LEMMA FaultCounted ==
  ASSUME faults \in 0 .. MaxFaults, Fault
  PROVE  faults' \in 0 .. MaxFaults
BY MaxFaultsAssumption DEF Fault

LEMMA TaskNames ==
  /\ Loops \subseteq Tasks
  /\ "temporal_worker" \in Tasks
  /\ "temporal_worker" \notin Loops
  /\ \A t \in Tasks : t \in Loops \/ t = "temporal_worker"
BY DEF Tasks, Loops

LEMMA InitInv ==
  ASSUME Init
  PROVE  Inv
<1>1. faults \in 0 .. MaxFaults /\ \A t \in Tasks : clients[t] \in 0 .. 1
  BY MaxFaultsAssumption DEF Init
<1>2. stop \in BOOLEAN
  BY DEF Init
<1>3. TypeOK
  BY <1>1, <1>2 DEF Init, TypeOK
<1>4. Ownership /\ Closing /\ NoTaskGivesUp
  BY TaskNames DEF Init, Ownership, Closing, NoTaskGivesUp
<1> QED BY <1>3, <1>4 DEF Inv

LEMMA StepInv ==
  ASSUME Inv, [Next]_vars
  PROVE  Inv'
<1> USE TaskNames DEF Inv, TypeOK, Ownership, Closing, NoTaskGivesUp
<1>1. ASSUME NEW t \in Tasks, LoopAgain(t) PROVE Inv'
  BY <1>1 DEF LoopAgain, Goto
<1>2. ASSUME NEW t \in Tasks, FailToStart(t) PROVE Inv'
  BY <1>2, FaultCounted DEF FailToStart, Retry, Goto
<1>3. ASSUME NEW t \in Tasks, StartLoop(t) PROVE Inv'
  BY <1>3 DEF StartLoop, Goto
<1>4. ASSUME NEW t \in Tasks, FailLoop(t) PROVE Inv'
  BY <1>4, FaultCounted DEF FailLoop, StopClient, Retry, Goto
<1>5. ASSUME NEW t \in Tasks, LeaveLoop(t) PROVE Inv'
  BY <1>5 DEF LeaveLoop, StopClient, Goto
<1>6. CASE StartTemporal
  BY <1>6 DEF StartTemporal, Goto
<1>7. CASE ShutdownTemporal
  BY <1>7 DEF ShutdownTemporal, Goto
<1>8. CASE JoinRunTask
  BY <1>8 DEF JoinRunTask, Goto
<1>9. CASE RunTaskFails
  BY <1>9, FaultCounted DEF RunTaskFails
<1>10. CASE Signal
  BY <1>10 DEF Signal
<1>11. CASE BeginShutdown
  BY <1>11 DEF BeginShutdown
<1>12. CASE ServerExits
  BY <1>12 DEF ServerExits
<1>13. CASE ShutdownContainer
  BY <1>13 DEF ShutdownContainer, Gathered
<1>14. CASE UNCHANGED vars
  BY <1>14 DEF vars
<1> QED BY <1>1, <1>2, <1>3, <1>4, <1>5, <1>6, <1>7, <1>8, <1>9, <1>10, <1>11,
           <1>12, <1>13, <1>14 DEF Next, Progress, Temporal, Main

\* What the theorems below share.
LEMMA Invariant == Spec => []Inv
<1>1. Init => Inv
  BY InitInv
<1>2. Inv /\ [Next]_vars => Inv'
  BY StepInv
<1> QED BY <1>1, <1>2, PTL DEF Spec

\* Every part of the process stays in its states, and no task ever has more than
\* one Kafka client started (_run_outbox_relay, _run_projection_consumer).
THEOREM TypeCorrect == Spec => []TypeOK
<1>1. Inv => TypeOK
  BY DEF Inv
<1> QED BY <1>1, Invariant, PTL

\* container.shutdown() runs only when every task has returned, no client is
\* left and no Temporal worker runs (main).
THEOREM ContainerIsClosedLast == Spec => []ContainerOutlivesTasks
<1>1. Inv => ContainerOutlivesTasks
  BY TaskNames DEF Inv, TypeOK, Ownership, Closing, ContainerOutlivesTasks
<1> QED BY <1>1, Invariant, PTL

\* The safety half of LoopsServeAgain: until stop_event is set, no failure,
\* however often it happens, ends the retry loop of a task (_run_with_retry).
THEOREM RetriesUntilStopped ==
  Spec => [](stop \/ \A t \in Tasks : task[t] # "returned")
<1>1. Inv => (stop \/ \A t \in Tasks : task[t] # "returned")
  BY DEF Inv, NoTaskGivesUp
<1> QED BY <1>1, Invariant, PTL

-----------------------------------------------------------------------------
(* Shutdown                                                                *)

\* How far a task, the server and main() are from their end.
TaskRank ==
  [created |-> 0, backoff |-> 0, starting |-> 1, serving |-> 2, stopping |-> 3,
   returned |-> 4]

MainRank == [waiting |-> 0, gathering |-> 1, closed |-> 2]

LEMMA Ranks ==
  /\ TaskRank["returned"] > TaskRank["created"]
  /\ TaskRank["returned"] > TaskRank["backoff"]
  /\ TaskRank["returned"] > TaskRank["starting"]
  /\ TaskRank["serving"] > TaskRank["starting"]
  /\ TaskRank["returned"] > TaskRank["serving"]
  /\ TaskRank["stopping"] > TaskRank["serving"]
  /\ TaskRank["returned"] > TaskRank["stopping"]
  /\ MainRank["gathering"] > MainRank["waiting"]
  /\ MainRank["closed"] > MainRank["gathering"]
BY DEF TaskRank, MainRank

\* Once the process is told to stop, nothing goes back: a task that moves gets closer
\* to its return, main() to its end, and a server that has exited stays so.
OnlyForward ==
  /\ stop'
  /\ \A t \in Tasks : task'[t] = task[t] \/ TaskRank[task'[t]] > TaskRank[task[t]]
  /\ main' = main \/ MainRank[main'] > MainRank[main]
  /\ server = "exited" => server' = "exited"

\* The part of StopEndsProcess that needs no fairness: after stop_event is set no
\* failure starts a retry loop again, so that each task takes at most three more
\* steps before it returns (_run_with_retry, main).
THEOREM ShutdownGoesForward == Spec => [][stop => OnlyForward]_vars
<1>1. ASSUME Inv, [Next]_vars PROVE [stop => OnlyForward]_vars
  <2> SUFFICES ASSUME stop, Next PROVE OnlyForward
    BY <1>1
  <2>1. ASSUME NEW t \in Tasks, NEW where, Goto(t, where),
               TaskRank[where] > TaskRank[task[t]], UNCHANGED <<server, main, stop>>
        PROVE  OnlyForward
    BY <1>1, <2>1 DEF Goto, Inv, TypeOK, OnlyForward
  <2>2. ASSUME NEW t \in Tasks, LoopAgain(t) \/ FailToStart(t) PROVE OnlyForward
    <3>1. /\ task[t] \in {"created", "backoff", "starting"}
          /\ Goto(t, "returned") /\ UNCHANGED <<server, main, stop>>
      BY <2>2 DEF LoopAgain, FailToStart, Retry
    <3> QED BY <2>1, <3>1, Ranks
  <2>3. ASSUME NEW t \in Tasks, StartLoop(t) PROVE OnlyForward
    BY <2>1, <2>3, Ranks DEF StartLoop
  <2>4. ASSUME NEW t \in Tasks, FailLoop(t) \/ LeaveLoop(t) PROVE OnlyForward
    <3>1. /\ task[t] = "serving"
          /\ Goto(t, "returned") /\ UNCHANGED <<server, main, stop>>
      BY <2>4 DEF FailLoop, LeaveLoop, Retry
    <3> QED BY <2>1, <3>1, Ranks
  <2>5. CASE StartTemporal \/ ShutdownTemporal \/ JoinRunTask
    <3>1. PICK where :
            /\ \/ task["temporal_worker"] = "starting" /\ where = "serving"
               \/ task["temporal_worker"] = "serving" /\ where = "stopping"
               \/ task["temporal_worker"] = "stopping" /\ where = "returned"
            /\ Goto("temporal_worker", where) /\ UNCHANGED <<server, main, stop>>
      BY <2>5 DEF StartTemporal, ShutdownTemporal, JoinRunTask
    <3> QED BY <2>1, <3>1, Ranks, TaskNames
  <2>6. CASE RunTaskFails \/ Signal
    BY <2>6 DEF RunTaskFails, Signal, OnlyForward
  <2>7. CASE BeginShutdown \/ ServerExits \/ ShutdownContainer
    BY <2>7, Ranks DEF BeginShutdown, ServerExits, ShutdownContainer, OnlyForward
  <2> QED BY <2>2, <2>3, <2>4, <2>5, <2>6, <2>7
          DEF Next, Progress, Temporal, Main
<1> QED BY <1>1, Invariant, PTL DEF Spec
==============================================================================
