------------------------------ MODULE StatusFeed -----------------------------
(***************************************************************************)
(* What the read side promises, with no outbox, no broker and no offsets   *)
(* in sight: the status shown of an application is that of a version that  *)
(* was committed, it is the newest of those that have arrived, in whatever *)
(* order they arrive, and each of them arrives once.                       *)
(***************************************************************************)
EXTENDS Naturals

CONSTANT Applications

VARIABLES
  version,  \* the committed version of each application
  arrived,  \* the events that have taken effect
  shown     \* the version shown, 0 when there is none

feedVars == <<version, arrived, shown>>

Init ==
  /\ version = [a \in Applications |-> 0]
  /\ arrived = {}
  /\ shown = [a \in Applications |-> 0]

Commit(a) ==
  /\ version' = [version EXCEPT ![a] = @ + 1]
  /\ UNCHANGED <<arrived, shown>>

Arrive(a, v) ==
  /\ v \in 1 .. version[a]
  /\ [app |-> a, version |-> v] \notin arrived
  /\ arrived' = arrived \cup {[app |-> a, version |-> v]}
  /\ shown' = [shown EXCEPT ![a] = IF v > @ THEN v ELSE @]
  /\ UNCHANGED version

Next ==
  \E a \in Applications : Commit(a) \/ \E v \in 1 .. version[a] : Arrive(a, v)

Spec == Init /\ [][Next]_feedVars
==============================================================================
