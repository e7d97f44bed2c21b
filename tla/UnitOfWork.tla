------------------------------ MODULE UnitOfWork -----------------------------
(***************************************************************************)
(* The command handlers as concurrent PostgreSQL transactions under READ   *)
(* COMMITTED (src/finassist/infrastructure/postgres/unit_of_work.py and    *)
(* repository.py).  A session reserves an idempotency key, loads the       *)
(* aggregate, checks and writes it, links its events into the tenant's     *)
(* audit hash chain and commits; it may fail or be cut off anywhere.       *)
(*                                                                         *)
(* Uncommitted writes are visible to their own session only.  A write to a *)
(* row, or an insert of a key, that another open transaction has written   *)
(* waits for that transaction to end.                                      *)
(***************************************************************************)
EXTENDS Naturals, Sequences, ApplicationStatus

CONSTANTS
  Applications,  \* the applications of one tenant
  Sessions,      \* the transactions that can be open at a time
  Keys,          \* the idempotency keys in use
  Operations     \* the command handlers that run, a subset of DOMAIN Handlers

VARIABLES
  row,        \* applications.applications: status and version
  snapshots,  \* applications.application_versions
  keys,       \* integration.idempotency_keys: (operation, key)
  outbox,     \* integration.outbox_events
  audit,      \* audit.audit_events: event and the event its prev_hash names
  checkpoint, \* audit.audit_hashes: the event latest_hash names
  txn         \* the sessions

vars == <<row, snapshots, keys, outbox, audit, checkpoint, txn>>
db == <<row, snapshots, keys, outbox, audit, checkpoint>>

\* Mutant: intake validation asks for a status the machine does not have.
IntakeOutcomesUnknown == {<<"INTAKE_VALIDATION", "MANUAL_REVIEW">>}

\* Intake validation passes through its own status in one transaction.
IntakeOutcomes ==
  {<<"INTAKE_VALIDATION", "DOCUMENT_PROCESSING">>,
   <<"INTAKE_VALIDATION", "AWAITING_HUMAN_REVIEW">>}

\* The status sequences each handler may take the aggregate through.
Handlers ==
  [create_application          |-> {<<"DRAFT">>},
   submit_application          |-> {<<"SUBMITTED">>},
   advance_intake_validation   |-> IntakeOutcomes,
   advance_document_processing |->
     {<<"VERIFICATION">>, <<"AWAITING_HUMAN_REVIEW">>},
   enter_human_review          |-> {<<"AWAITING_HUMAN_REVIEW">>},
   apply_review_decision       |->
     {<<"APPROVED">>, <<"DECLINED">>, <<"NEEDS_MORE_INFORMATION">>,
      <<"ESCALATED">>},
   resubmit_application        |-> {<<"DOCUMENT_PROCESSING">>},
   upload_document             |-> {<<>>}]

ASSUME OperationsAssumption == Operations \subseteq DOMAIN Handlers

Absent == [status |-> "ABSENT", version |-> 0]

\* The previous hash of a tenant's first event.
Genesis == [app |-> "genesis", version |-> 0, op |-> "genesis", key |-> "genesis"]

\* A session with no open transaction.
Closed ==
  [pc |-> "idle", op |-> "none", app |-> "none", key |-> "none",
   base |-> 0, status |-> "ABSENT", version |-> 0, todo |-> <<>>,
   written |-> <<>>, read |-> Genesis]

Init ==
  /\ row = [a \in Applications |-> Absent]
  /\ snapshots = {}
  /\ keys = {}
  /\ outbox = {}
  /\ audit = {}
  /\ checkpoint = Genesis
  /\ txn = [s \in Sessions |-> Closed]

-----------------------------------------------------------------------------

\* The transaction ends without commit: everything it wrote is rolled back,
\* its key reservation included.
Rollback(s) ==
  /\ txn' = [txn EXCEPT ![s] = Closed]
  /\ UNCHANGED db

Goto(s, pc) ==
  /\ txn' = [txn EXCEPT ![s].pc = pc]
  /\ UNCHANGED db

\* A request or activity attempt opens a unit of work.  A new application gets
\* a fresh id.
Begin(s, op, a, k) ==
  /\ txn[s].pc = "idle"
  /\ op = "create_application" =>
       /\ row[a] = Absent
       /\ \A o \in Sessions : txn[o].app # a
  /\ \E targets \in Handlers[op] :
       txn' = [txn EXCEPT ![s] = [Closed EXCEPT
                 !.pc = "reserve", !.op = op, !.app = a, !.key = k,
                 !.todo = targets]]
  /\ UNCHANGED db

\* Mutant: the key is looked up but not inserted before the commit.
KeyNotHeld(o, op, k) == FALSE

\* The session holds an uncommitted row of idempotency_keys.
HoldsKey(o, op, k) ==
  /\ txn[o].pc \notin {"idle", "reserve"}
  /\ txn[o].op = op
  /\ txn[o].key = k

\* INSERT of the key: waits for an uncommitted one, conflicts with a committed.
ReserveIdempotencyKey(s) ==
  LET t == txn[s]
  IN /\ t.pc = "reserve"
     /\ \A o \in Sessions : ~HoldsKey(o, t.op, t.key)
     /\ IF <<t.op, t.key>> \in keys
        THEN Rollback(s)            \* DuplicateRequestError
        ELSE Goto(s, IF t.op = "create_application" THEN "flush" ELSE "load")

\* repository.get
Load(s) ==
  LET t == txn[s]
  IN /\ t.pc = "load"
     /\ IF row[t.app] = Absent
        THEN Rollback(s)            \* ApplicationNotFoundError
        ELSE /\ txn' = [txn EXCEPT ![s].pc = IF t.todo = <<>> THEN "read"
                                                              ELSE "save",
                                   ![s].base = row[t.app].version,
                                   ![s].version = row[t.app].version,
                                   ![s].status = row[t.app].status]
             /\ UNCHANGED db

\* The version repository.save reads back: its own write if it made one, else
\* the committed one (the session keeps only weak references to the row object
\* that `get` loaded, so the second SELECT reads the row again).
SeenVersion(t) == IF t.written = <<>> THEN row[t.app].version ELSE t.version

\* Mutant: save without a transition check.
SaveUnchecked(s) ==
  /\ txn[s].pc = "save"
  /\ IF SeenVersion(txn[s]) # txn[s].version
     THEN Rollback(s)
     ELSE Goto(s, "flush")

\* transition_to, then the version check of repository.save.
CheckedSave(s) ==
  LET t == txn[s]
  IN /\ t.pc = "save"
     /\ IF ~is_legal_transition(t.status, Head(t.todo))
        THEN Rollback(s)            \* IllegalStateTransitionError
        ELSE IF SeenVersion(t) # t.version
             THEN Rollback(s)       \* ConcurrencyConflictError
             ELSE Goto(s, "flush")

\* Mutant: a transaction that waits for its own lock.
RowLocked(s, a) ==
  \E o \in Sessions : txn[o].app = a /\ txn[o].written # <<>>

\* The application row is locked by whoever wrote it and has not ended.
RowLockedByOther(s, a) ==
  \E o \in Sessions \ {s} : txn[o].app = a /\ txn[o].written # <<>>

\* Mutant: the version is not unique.
VersionNotUnique(a, v) == FALSE

\* UNIQUE (application_id, version) of application_versions.
VersionTaken(a, v) == \E n \in snapshots : n.app = a /\ n.version = v

\* The flush of repository.add and save: UPDATE of the row and INSERT of the
\* snapshot.
FlushSave(s) ==
  LET t == txn[s]
  IN /\ t.pc = "flush"
     /\ ~RowLockedByOther(s, t.app)
     /\ IF VersionTaken(t.app, t.version + 1)
        THEN Rollback(s)            \* IntegrityError
        ELSE /\ txn' = [txn EXCEPT
                  ![s].pc = IF Len(t.todo) > 1 THEN "save" ELSE "read",
                  ![s].status = Head(t.todo),
                  ![s].version = t.version + 1,
                  ![s].todo = Tail(t.todo),
                  ![s].written = Append(t.written, Head(t.todo))]
             /\ UNCHANGED db

\* The i-th event of a transaction; an upload records one, about no version.
Event(t, i) ==
  [app |-> t.app, version |-> IF t.written = <<>> THEN 0 ELSE t.base + i,
   op |-> t.op, key |-> t.key]

\* Mutant: only the first event of a transaction is recorded.
OneEvent(t) == 1

EventCount(t) == IF t.written = <<>> THEN 1 ELSE Len(t.written)

\* Mutant: the checkpoint of a transaction that has not committed is visible.
DirtyReadCheckpoint(s) ==
  /\ txn[s].pc = "read"
  /\ \E h \in {checkpoint} \cup
            { Event(txn[o], EventCount(txn[o])) :
                o \in { q \in Sessions : txn[q].pc = "commit" } } :
       txn' = [txn EXCEPT ![s].pc = "record", ![s].read = h]
  /\ UNCHANGED db

\* record_domain_events reads the tenant's checkpoint, without a lock.
ReadCheckpoint(s) ==
  /\ txn[s].pc = "read"
  /\ txn' = [txn EXCEPT ![s].pc = "record", ![s].read = checkpoint]
  /\ UNCHANGED db

\* The UPDATE or INSERT of the checkpoint row waits for another open one.  A
\* session that saw no checkpoint inserts one, which fails if there is one now.
RecordDomainEvents(s) ==
  /\ txn[s].pc = "record"
  /\ \A o \in Sessions : txn[o].pc # "commit"
  /\ IF txn[s].read = Genesis /\ checkpoint # Genesis
     THEN Rollback(s)               \* IntegrityError
     ELSE Goto(s, "commit")

Commit(s) ==
  LET t == txn[s]
      n == EventCount(t)
      written == 1 .. Len(t.written)
  IN /\ t.pc = "commit"
     /\ row' = IF t.written = <<>> THEN row
               ELSE [row EXCEPT ![t.app] = [status  |-> t.status,
                                            version |-> t.version]]
     /\ snapshots' = snapshots \cup
          { [app |-> t.app, version |-> t.base + i, status |-> t.written[i],
             op |-> t.op, key |-> t.key] : i \in written }
     /\ keys' = keys \cup {<<t.op, t.key>>}
     /\ outbox' = outbox \cup {Event(t, i) : i \in 1 .. n}
     /\ audit' = audit \cup
          { [event |-> Event(t, i),
             prev |-> IF i = 1 THEN t.read ELSE Event(t, i - 1)]
            : i \in 1 .. n }
     /\ checkpoint' = Event(t, n)
     /\ txn' = [txn EXCEPT ![s] = Closed]

\* The handler raises, or its process or connection dies, before the commit.
CutOff(s) ==
  /\ txn[s].pc # "idle"
  /\ Rollback(s)

-----------------------------------------------------------------------------

Step(s) ==
  \/ ReserveIdempotencyKey(s)
  \/ Load(s)
  \/ CheckedSave(s)
  \/ FlushSave(s)
  \/ ReadCheckpoint(s)
  \/ RecordDomainEvents(s)
  \/ Commit(s)

Next ==
  \E s \in Sessions :
    \/ \E op \in Operations, a \in Applications, k \in Keys : Begin(s, op, a, k)
    \/ Step(s)
    \/ CutOff(s)

Spec == Init /\ [][Next]_vars

\* An open transaction goes on.  Strong fairness, because PostgreSQL grants a
\* lock in the order in which it was waited for: a waiter is not overtaken for
\* ever by sessions that come later.
FairSpec == Spec /\ \A s \in Sessions : SF_vars(Step(s))

-----------------------------------------------------------------------------
(* Properties                                                              *)

Versions(a) == { n.version : n \in { m \in snapshots : m.app = a } }

\* Every table and every session holds values of its type.
TypeOK ==
  /\ row \in [Applications -> [status  : ApplicationStatus \cup {"ABSENT"},
                               version : Nat]]
  /\ snapshots \subseteq [app : Applications, version : Nat,
                          status : ApplicationStatus,
                          op : Operations, key : Keys]
  /\ keys \subseteq Operations \X Keys
  /\ LET Events == [app : Applications, version : Nat,
                    op : Operations, key : Keys]
     IN /\ outbox \subseteq Events
        /\ audit \subseteq [event : Events, prev : Events \cup {Genesis}]
        /\ checkpoint \in Events \cup {Genesis}
        /\ txn \in [Sessions ->
             [pc : {"idle", "reserve", "load", "save", "flush", "read",
                    "record", "commit"},
              op : Operations \cup {"none"}, app : Applications \cup {"none"},
              key : Keys \cup {"none"}, base : Nat,
              status : ApplicationStatus \cup {"ABSENT"}, version : Nat,
              todo : Seq(ApplicationStatus), written : Seq(ApplicationStatus),
              read : Events \cup {Genesis}]]

\* No update of an application is lost although saves are not locked: there is
\* exactly one snapshot for each version from 1 up to the row's, and the row
\* shows the last of them.
NoLostUpdate ==
  \A a \in Applications :
    /\ Versions(a) = 1 .. row[a].version
    /\ \A m, n \in snapshots :
         m.app = a /\ n.app = a /\ m.version = n.version => m = n
    /\ row[a] # Absent =>
         \E n \in snapshots : /\ n.app = a
                              /\ n.version = row[a].version
                              /\ n.status = row[a].status

\* The outbox tells the whole story and nothing else: one event for every
\* version of every application.
OutboxMatchesVersions ==
  \A a \in Applications :
    LET told == { e \in outbox : e.app = a /\ e.version > 0 }
    IN /\ { e.version : e \in told } = 1 .. row[a].version
       /\ \A e, f \in told : e.version = f.version => e = f

\* An idempotency key takes effect once: two transactions never work under the
\* same key, none works under a key that has committed, and all events that
\* carry a key come from one application and one commit.
KeyTakesEffectOnce ==
  /\ \A s, o \in { q \in Sessions : txn[q].pc \notin {"idle", "reserve"} } :
       /\ <<txn[s].op, txn[s].key>> \notin keys
       /\ txn[s].op = txn[o].op /\ txn[s].key = txn[o].key => s = o
  /\ \A e, f \in outbox :
       e.op = f.op /\ e.key = f.key =>
         /\ e.app = f.app
         /\ e.version <= f.version + 1
         /\ e.version = f.version + 1 => e.op = "advance_intake_validation"

\* The audit trail names no event that was rolled back: each entry follows a
\* recorded one, and the checkpoint is recorded.
AuditParentsRecorded ==
  LET recorded == { n.event : n \in audit } \cup {Genesis}
  IN /\ checkpoint \in recorded
     /\ \A n \in audit : n.prev \in recorded
     /\ { n.event : n \in audit } = outbox

\* The committed history of each application, read off the snapshots.
history ==
  [a \in Applications |->
     [v \in 1 .. row[a].version |->
        (CHOOSE n \in snapshots : n.app = a /\ n.version = v).status]]

CH == INSTANCE CaseHistory WITH history <- history

\* The concurrent transactions implement one append-only, legal history per
\* application.
ImplementsCaseHistory == CH!Spec

\* No lock is waited for forever: a transaction that began ends.
TransactionsEnd ==
  \A s \in Sessions : (txn[s].pc # "idle") ~> (txn[s].pc = "idle")

\* ADR-0009: each audit event carries the hash of the previous event of its
\* tenant, so no two events have the same predecessor.
AuditIsAChain ==
  \A m, n \in audit : m.prev = n.prev => m = n
==============================================================================
