----------------------------- MODULE CaseHistory -----------------------------
(***************************************************************************)
(* What the command side promises about an application, with no database,  *)
(* no session and no lock in sight: each application has one history of    *)
(* statuses, which begins with DRAFT, only ever grows at its end, and in   *)
(* which every status may legally follow the one before.  One commit adds  *)
(* one status, or two when intake validation passes through.               *)
(***************************************************************************)
EXTENDS Naturals, Sequences, ApplicationStatus

CONSTANT Applications

VARIABLE history

\* A status sequence the status machine allows.
LegalHistory(h) ==
  /\ h # <<>> => h[1] = "DRAFT"
  /\ \A i \in 1 .. Len(h) - 1 : is_legal_transition(h[i], h[i + 1])

Init == history = [a \in Applications |-> <<>>]

\* A commit appends one or two statuses to one history.
Extend(a) ==
  LET old == history[a]
      new == history'[a]
  IN /\ Len(new) \in {Len(old) + 1, Len(old) + 2}
     /\ SubSeq(new, 1, Len(old)) = old
     /\ LegalHistory(new)
     /\ history' = [history EXCEPT ![a] = new]

Next == \E a \in Applications : Extend(a)

Spec == Init /\ [][Next]_history
==============================================================================
