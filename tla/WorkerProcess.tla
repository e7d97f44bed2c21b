---------------------------- MODULE WorkerProcess ----------------------------
(***************************************************************************)
(* The life of the worker process (apps/worker/main.py): three background  *)
(* tasks, each inside a retry loop, a liveness server, and a shutdown that *)
(* waits for all of them before it releases what they share.               *)
(***************************************************************************)
EXTENDS Naturals

CONSTANT MaxFaults   \* bound: failures injected into one behaviour

ASSUME MaxFaultsAssumption == MaxFaults \in Nat

\* The tasks that poll Kafka, and the one that hosts the Temporal worker.
Loops == {"outbox_relay", "projection_consumer"}
Tasks == Loops \cup {"temporal_worker"}

VARIABLES
  task,     \* where the retry loop of each task is
  clients,  \* the Kafka clients each task has started and not stopped
  runTask,  \* the asyncio task that runs worker.run()
  server,   \* the liveness server
  main,     \* where main() is
  stop,     \* stop_event
  faults    \* failures injected so far

vars == <<task, clients, runTask, server, main, stop, faults>>

Init ==
  /\ task = [t \in Tasks |-> "created"]
  /\ clients = [t \in Tasks |-> 0]
  /\ runTask = "none"
  /\ server = "serving"
  /\ main = "waiting"
  /\ stop = FALSE
  /\ faults = 0

-----------------------------------------------------------------------------
(* _run_with_retry                                                         *)

Goto(t, where) == task' = [task EXCEPT ![t] = where]

\* Mutant: an exception ends the task.
GiveUp(t) == Goto(t, "returned")

\* run_once raised: back off and try again, or return when the process stops.
Retry(t) == Goto(t, IF stop THEN "returned" ELSE "backoff")

\* The condition of the loop, before the first run and after each backoff, which
\* ends because its time is over or because the process stops.
LoopAgain(t) ==
  /\ task[t] \in {"created", "backoff"}
  /\ Goto(t, IF stop THEN "returned" ELSE "starting")
  /\ UNCHANGED <<clients, runTask, server, main, stop, faults>>

Fault ==
  /\ faults < MaxFaults
  /\ faults' = faults + 1

\* Kafka or Temporal is not reachable: nothing was started.
FailToStart(t) ==
  /\ task[t] = "starting"
  /\ Fault
  /\ Retry(t)
  /\ UNCHANGED <<clients, runTask, server, main, stop>>

-----------------------------------------------------------------------------
(* _run_outbox_relay and _run_projection_consumer                          *)

StartLoop(t) ==
  /\ t \in Loops
  /\ task[t] = "starting"
  /\ clients' = [clients EXCEPT ![t] = @ + 1]
  /\ Goto(t, "serving")
  /\ UNCHANGED <<runTask, server, main, stop, faults>>

\* Mutant: no `finally`.
KeepClient(t) == UNCHANGED clients

\* The `finally` around each loop.
StopClient(t) == clients' = [clients EXCEPT ![t] = @ - 1]

\* A sweep, a poll, an event or an offset commit raises.
FailLoop(t) ==
  /\ t \in Loops
  /\ task[t] = "serving"
  /\ Fault
  /\ StopClient(t)
  /\ Retry(t)
  /\ UNCHANGED <<runTask, server, main, stop>>

\* The loop looks at stop_event between two sweeps or polls.
LeaveLoop(t) ==
  /\ t \in Loops
  /\ task[t] = "serving"
  /\ stop
  /\ StopClient(t)
  /\ Goto(t, "returned")
  /\ UNCHANGED <<runTask, server, main, stop, faults>>

-----------------------------------------------------------------------------
(* _run_temporal_worker                                                    *)

StartTemporal ==
  /\ task["temporal_worker"] = "starting"
  /\ runTask' = "running"
  /\ Goto("temporal_worker", "serving")
  /\ UNCHANGED <<clients, server, main, stop, faults>>

\* worker.run() raises inside its own task.  Nobody awaits that task before
\* stop_event is set.
RunTaskFails ==
  /\ runTask = "running"
  /\ Fault
  /\ runTask' = "failed"
  /\ UNCHANGED <<task, clients, server, main, stop>>

\* worker.shutdown() ends a running worker.
ShutdownTemporal ==
  /\ task["temporal_worker"] = "serving"
  /\ stop
  /\ Goto("temporal_worker", "stopping")
  /\ runTask' = IF runTask = "running" THEN "finished" ELSE runTask
  /\ UNCHANGED <<clients, server, main, stop, faults>>

\* `await run_task` returns, or raises what the run raised; the retry loop
\* returns in both cases because the process stops.
JoinRunTask ==
  /\ task["temporal_worker"] = "stopping"
  /\ Goto("temporal_worker", "returned")
  /\ UNCHANGED <<clients, runTask, server, main, stop, faults>>

-----------------------------------------------------------------------------
(* main                                                                    *)

\* SIGINT or SIGTERM.
Signal ==
  /\ ~stop
  /\ stop' = TRUE
  /\ UNCHANGED <<task, clients, runTask, server, main, faults>>

BeginShutdown ==
  /\ main = "waiting"
  /\ stop
  /\ main' = "gathering"
  /\ UNCHANGED <<task, clients, runTask, server, stop, faults>>

\* Mutant: should_exit is set after the gather.
ServerExitsLast ==
  /\ main = "closed"
  /\ server = "serving"
  /\ server' = "exited"
  /\ UNCHANGED <<task, clients, runTask, main, stop, faults>>

\* should_exit is set before the gather.
ServerExits ==
  /\ main = "gathering"
  /\ server = "serving"
  /\ server' = "exited"
  /\ UNCHANGED <<task, clients, runTask, main, stop, faults>>

\* Mutant: the gather returns when one task has.
SomeReturned == \E t \in Tasks : task[t] = "returned"

\* asyncio.gather over the tasks and the server, whatever they raised.
Gathered ==
  /\ \A t \in Tasks : task[t] = "returned"
  /\ server = "exited"

ShutdownContainer ==
  /\ main = "gathering"
  /\ Gathered
  /\ main' = "closed"
  /\ UNCHANGED <<task, clients, runTask, server, stop, faults>>

-----------------------------------------------------------------------------

Progress(t) == LoopAgain(t) \/ StartLoop(t) \/ LeaveLoop(t)

Temporal == StartTemporal \/ ShutdownTemporal \/ JoinRunTask

Main == BeginShutdown \/ ServerExits \/ ShutdownContainer

Next ==
  \/ \E t \in Tasks : Progress(t) \/ FailToStart(t) \/ FailLoop(t)
  \/ Temporal
  \/ RunTaskFails
  \/ Signal
  \/ Main

Spec == Init /\ [][Next]_vars

\* The event loop runs every task that can go on.  No signal and no failure is
\* owed.
Fairness ==
  /\ \A t \in Tasks : WF_vars(Progress(t))
  /\ WF_vars(Temporal)
  /\ WF_vars(Main)

FairSpec == Spec /\ Fairness

-----------------------------------------------------------------------------
(* Properties                                                              *)

\* Every part of the process is in one of its states, and no task ever holds
\* more than one Kafka client.
TypeOK ==
  /\ task \in [Tasks -> {"created", "starting", "serving", "backoff",
                         "stopping", "returned"}]
  /\ clients \in [Tasks -> 0 .. 1]
  /\ runTask \in {"none", "running", "failed", "finished"}
  /\ server \in {"serving", "exited"}
  /\ main \in {"waiting", "gathering", "closed"}
  /\ stop \in BOOLEAN
  /\ faults \in 0 .. MaxFaults

\* The database engine is disposed of only when nothing of the process can use
\* it any more: no sweep, no poll, no activity, no client.
ContainerOutlivesTasks ==
  main = "closed" =>
    /\ runTask # "running"
    /\ \A t \in Tasks : task[t] = "returned" /\ clients[t] = 0

\* A task that runs a Kafka loop is never gone while the process is not told to
\* stop: it serves, or it is on its way to serve again.
LoopsServeAgain ==
  \A t \in Loops :
    (task[t] # "serving") ~> (task[t] = "serving" \/ stop)

\* A signal ends the process, in whatever state its tasks are.
StopEndsProcess == stop ~> (main = "closed")

\* _run_with_retry: "An exception [...] is logged and retried after a fixed
\* backoff": a Temporal worker that failed is run again.
TemporalServesAgain ==
  (runTask = "failed") ~> (runTask = "running" \/ stop)
==============================================================================
