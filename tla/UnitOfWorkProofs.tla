-------------------------- MODULE UnitOfWorkProofs ---------------------------
(***************************************************************************)
(* Proofs about the concurrent transactions of UnitOfWork, for any number  *)
(* of applications, sessions and keys: the tables are typed, no update is  *)
(* lost, the outbox matches the versions, an idempotency key takes effect  *)
(* once, the audit trail names no event that was rolled back, and the      *)
(* whole implements one legal, append-only history per application.        *)
(*                                                                         *)
(* A session is judged by what it has loaded and written so far against    *)
(* the committed row.  Three facts carry the argument: the unique version  *)
(* makes the first write of a session start from the row as it is, the row *)
(* lock keeps the row so until the session ends, and a session that only   *)
(* loaded can fall behind the row but never be ahead of it.                *)
(***************************************************************************)
EXTENDS UnitOfWork, TLAPS

\* The session has loaded or created its application.
Loaded(t) == t.pc \in {"save", "flush", "read", "record", "commit"}

\* The session has reserved its idempotency key.
Reserved(t) == t.pc \notin {"idle", "reserve"}

Creates(t) == t.op = "create_application"

\* How many statuses the handler of the session may pass through.
MaxWrites(t) == IF t.op = "advance_intake_validation" THEN 2 ELSE 1

\* What a session has in hand at each of its steps.
SessionShape(t) ==
  /\ t.pc # "idle" => t.op \in Operations /\ t.app \in Applications /\ t.key \in Keys
  /\ ~Loaded(t) => t.written = <<>>
  /\ t.version = t.base + Len(t.written)
  /\ Len(t.written) + Len(t.todo) <= MaxWrites(t)
  /\ t.pc \in {"save", "flush"} => t.todo # <<>>
  /\ t.pc # "idle" /\ Creates(t) =>
       /\ t.base = 0
       /\ t.pc \notin {"load", "save"}
       /\ t.written = <<>> => t.pc \in {"reserve", "flush"} /\ t.todo = <<"DRAFT">>

\* How the session relates to the committed row of its application.
SessionSeesRow(t) ==
  /\ t.pc # "idle" /\ Creates(t) => row[t.app] = Absent
  /\ Loaded(t) /\ ~Creates(t) => t.base >= 1
  /\ Loaded(t) => t.base <= row[t.app].version
  /\ Loaded(t) /\ ~Creates(t) /\ t.written = <<>> /\ t.base = row[t.app].version =>
       t.status = row[t.app].status
  /\ t.written # <<>> => t.base = row[t.app].version

\* Each status the session wrote, or is about to write, is a legal one.
SessionIsLegal(t) ==
  /\ t.pc = "flush" /\ ~Creates(t) => is_legal_transition(t.status, Head(t.todo))
  /\ t.written # <<>> =>
       /\ t.status = t.written[Len(t.written)]
       /\ IF Creates(t) THEN t.written[1] = "DRAFT"
                        ELSE is_legal_transition(row[t.app].status, t.written[1])
       /\ Len(t.written) = 2 => is_legal_transition(t.written[1], t.written[2])

\* What the session has read of the chain is recorded, and the key it reserved
\* is not committed.
SessionReads(t) ==
  /\ t.read \in outbox \cup {Genesis}
  /\ Reserved(t) => <<t.op, t.key>> \notin keys

SessionOK(t) ==
  SessionShape(t) /\ SessionSeesRow(t) /\ SessionIsLegal(t) /\ SessionReads(t)

\* What keeps two different sessions apart: the key, the row lock and the
\* fresh id of a new application.
Apart(t, u) ==
  /\ Reserved(t) /\ Reserved(u) => ~(t.op = u.op /\ t.key = u.key)
  /\ t.written # <<>> /\ u.written # <<>> => t.app # u.app
  /\ t.pc # "idle" /\ u.pc # "idle" /\ Creates(t) /\ Creates(u) => t.app # u.app

SessionsInv ==
  /\ \A s \in Sessions : SessionOK(txn[s])
  /\ \A s, o \in Sessions : s # o => Apart(txn[s], txn[o])

\* The committed statuses of an application follow each other legally.
LegalSnapshots ==
  /\ \A a \in Applications : row[a].version = 0 <=> row[a] = Absent
  /\ \A n \in snapshots : n.version = 1 => n.status = "DRAFT"
  /\ \A m, n \in snapshots :
       m.app = n.app /\ n.version = m.version + 1 =>
         is_legal_transition(m.status, n.status)

HistoryInv == NoLostUpdate /\ LegalSnapshots

\* The events of one key come from one commit, and the key is committed.
KeysInv ==
  /\ \A e \in outbox : <<e.op, e.key>> \in keys
  /\ \A e, f \in outbox :
       e.op = f.op /\ e.key = f.key =>
         /\ e.app = f.app
         /\ e.version <= f.version + 1
         /\ e.version = f.version + 1 => e.op = "advance_intake_validation"

\* The inductive invariant.
Inv ==
  /\ TypeOK
  /\ SessionsInv
  /\ HistoryInv
  /\ OutboxMatchesVersions
  /\ KeysInv
  /\ AuditParentsRecorded

-----------------------------------------------------------------------------
(* The sessions                                                            *)

Events == [app : Applications, version : Nat, op : Operations, key : Keys]

Transactions ==
  [pc : {"idle", "reserve", "load", "save", "flush", "read", "record",
         "commit"},
   op : Operations \cup {"none"}, app : Applications \cup {"none"},
   key : Keys \cup {"none"}, base : Nat,
   status : ApplicationStatus \cup {"ABSENT"}, version : Nat,
   todo : Seq(ApplicationStatus), written : Seq(ApplicationStatus),
   read : Events \cup {Genesis}]

LEMMA TxnType ==
  ASSUME TypeOK
  PROVE  txn \in [Sessions -> Transactions]
BY DEF TypeOK, Transactions, Events

\* A closed session satisfies everything asked of a session.
LEMMA ClosedOK ==
  /\ Closed \in Transactions
  /\ SessionOK(Closed)
  /\ Closed.pc = "idle" /\ Closed.written = <<>>
  /\ \A u : Apart(Closed, u)
<1>1. Closed \in Transactions
  BY DEF Closed, Transactions
<1>2. /\ Closed.pc = "idle" /\ Closed.written = <<>> /\ Closed.todo = <<>>
      /\ Closed.op = "none" /\ Closed.version = 0 /\ Closed.base = 0
      /\ Closed.read = Genesis
  BY DEF Closed
<1>3. SessionOK(Closed)
  BY <1>2 DEF SessionOK, SessionShape, SessionSeesRow, SessionIsLegal,
     SessionReads, Loaded, Reserved, MaxWrites
<1>4. \A u : Apart(Closed, u)
  BY <1>2 DEF Apart, Reserved
<1> QED BY <1>1, <1>2, <1>3, <1>4

\* The status sequences of the handlers: typed, at most one status long but for
\* intake validation, and a new application starts as a draft.
LEMMA HandlerTargets ==
  ASSUME NEW op \in Operations, NEW h \in Handlers[op]
  PROVE  /\ h \in Seq(ApplicationStatus)
         /\ Len(h) <= IF op = "advance_intake_validation" THEN 2 ELSE 1
         /\ op = "create_application" => h = <<"DRAFT">>
<1>1. op \in DOMAIN Handlers
  BY OperationsAssumption
<1>2. CASE op = "upload_document"
  <2>1. h = <<>>
    BY <1>2 DEF Handlers
  <2> QED BY <1>2, <2>1
<1>3. CASE op = "advance_intake_validation"
  <2>1. \E x \in {"DOCUMENT_PROCESSING", "AWAITING_HUMAN_REVIEW"} :
          h = <<"INTAKE_VALIDATION", x>>
    BY <1>3 DEF Handlers, IntakeOutcomes
  <2>2. {"INTAKE_VALIDATION", "DOCUMENT_PROCESSING", "AWAITING_HUMAN_REVIEW"}
          \subseteq ApplicationStatus
    BY DEF ApplicationStatus, Pipeline
  <2> QED BY <1>3, <2>1, <2>2
<1>4. CASE op \notin {"upload_document", "advance_intake_validation"}
  <2>1. \E x \in ApplicationStatus : h = <<x>>
    BY <1>1, <1>4 DEF Handlers, ApplicationStatus, Pipeline, TERMINAL_STATUSES
  <2>2. op = "create_application" => h = <<"DRAFT">>
    BY DEF Handlers
  <2> QED BY <1>4, <2>1, <2>2
<1> QED BY <1>2, <1>3, <1>4

\* A step that only moves one session to a good place keeps the invariant.
LEMMA MoveSession ==
  ASSUME Inv, NEW s \in Sessions, NEW new \in Transactions,
         txn' = [txn EXCEPT ![s] = new], UNCHANGED db,
         SessionOK(new),
         \A o \in Sessions \ {s} : Apart(new, txn[o])
  PROVE  Inv'
<1> USE DEF Inv
<1>1. txn \in [Sessions -> Transactions]
  BY TxnType
<1>2. txn' \in [Sessions -> Transactions]
  BY <1>1
<1>3. TypeOK'
  BY <1>2 DEF TypeOK, Transactions, Events, db
<1>4. \A q \in Sessions : txn'[q] = IF q = s THEN new ELSE txn[q]
  BY <1>1
<1>6. ASSUME NEW q \in Sessions PROVE SessionOK(txn[q])'
  <2> DEFINE t == txn'[q]
  <2>1. SessionOK(t)
    BY <1>4 DEF SessionsInv
  <2> QED BY <2>1 DEF SessionOK, SessionShape, SessionSeesRow,
     SessionIsLegal, SessionReads, Loaded, Reserved, Creates, MaxWrites, db
<1>7. ASSUME NEW q \in Sessions, NEW o \in Sessions, q # o
      PROVE  Apart(txn[q], txn[o])'
  <2>1. Apart(txn'[q], txn'[o])
    <3>1. CASE q = s
      BY <3>1, <1>4, <1>7
    <3>2. CASE o = s
      BY <3>2, <1>4, <1>7 DEF Apart
    <3>3. CASE q # s /\ o # s
      BY <3>3, <1>4, <1>7 DEF SessionsInv
    <3> QED BY <3>1, <3>2, <3>3
  <2> QED BY <2>1 DEF Apart, Reserved, Creates
<1>8. SessionsInv'
  BY <1>6, <1>7 DEF SessionsInv
<1>9. HistoryInv' /\ OutboxMatchesVersions' /\ KeysInv' /\ AuditParentsRecorded'
  BY DEF HistoryInv, NoLostUpdate, Versions, LegalSnapshots,
     OutboxMatchesVersions, KeysInv, AuditParentsRecorded, db
<1> QED BY <1>3, <1>8, <1>9

LEMMA RollbackKeeps ==
  ASSUME Inv, NEW s \in Sessions, Rollback(s)
  PROVE  Inv'
BY MoveSession, ClosedOK DEF Rollback

LEMMA BeginKeeps ==
  ASSUME Inv, NEW s \in Sessions, NEW op \in Operations, NEW a \in Applications,
         NEW k \in Keys, Begin(s, op, a, k)
  PROVE  Inv'
<1>1. PICK targets \in Handlers[op] :
        txn' = [txn EXCEPT ![s] = [Closed EXCEPT
                 !.pc = "reserve", !.op = op, !.app = a, !.key = k,
                 !.todo = targets]]
  BY DEF Begin
<1> DEFINE new == [Closed EXCEPT !.pc = "reserve", !.op = op, !.app = a,
                                 !.key = k, !.todo = targets]
<1>2. /\ targets \in Seq(ApplicationStatus)
      /\ Len(targets) <= IF op = "advance_intake_validation" THEN 2 ELSE 1
      /\ op = "create_application" => targets = <<"DRAFT">>
  BY HandlerTargets
<1>3. /\ new \in Transactions
      /\ new.pc = "reserve" /\ new.op = op /\ new.app = a /\ new.key = k
      /\ new.todo = targets /\ new.written = <<>> /\ new.base = 0
      /\ new.version = 0 /\ new.read = Genesis
  BY <1>2, ClosedOK DEF Closed, Transactions
<1>4. txn' = [txn EXCEPT ![s] = new] /\ UNCHANGED db
  BY <1>1 DEF Begin
<1>5. op = "create_application" =>
        row[a] = Absent /\ \A o \in Sessions : txn[o].app # a
  BY DEF Begin
<1> HIDE DEF new
<1>6. SessionOK(new)
  BY <1>2, <1>3, <1>5 DEF SessionOK, SessionShape, SessionSeesRow,
     SessionIsLegal, SessionReads, Loaded, Reserved, Creates, MaxWrites
<1>7. \A o \in Sessions \ {s} : Apart(new, txn[o])
  BY <1>3, <1>5 DEF Apart, Reserved, Creates
<1> QED BY <1>3, <1>4, <1>6, <1>7, MoveSession

\* The steps of an open session that change only where it stands.
LEMMA GotoKeeps ==
  ASSUME Inv, NEW s \in Sessions,
         NEW pc \in {"load", "flush", "commit"},
         txn[s].pc # "idle",
         txn[s].pc = "reserve" =>
           /\ pc = IF Creates(txn[s]) THEN "flush" ELSE "load"
           /\ \A o \in Sessions : ~HoldsKey(o, txn[s].op, txn[s].key)
           /\ <<txn[s].op, txn[s].key>> \notin keys,
         txn[s].pc = "save" =>
           /\ pc = "flush"
           /\ is_legal_transition(txn[s].status, Head(txn[s].todo)),
         txn[s].pc \notin {"reserve", "save"} =>
           txn[s].pc = "record" /\ pc = "commit",
         Goto(s, pc)
  PROVE  Inv'
<1> DEFINE t == txn[s]
           new == [t EXCEPT !.pc = pc]
<1>1. t \in Transactions /\ SessionOK(t)
  BY TxnType DEF Inv, SessionsInv
<1>2. /\ new \in Transactions
      /\ new.pc = pc /\ new.op = t.op /\ new.app = t.app /\ new.key = t.key
      /\ new.todo = t.todo /\ new.written = t.written /\ new.base = t.base
      /\ new.version = t.version /\ new.read = t.read /\ new.status = t.status
  BY <1>1 DEF Transactions
<1>3. txn' = [txn EXCEPT ![s] = new] /\ UNCHANGED db
  BY DEF Goto
<1>4. \A o \in Sessions \ {s} : Apart(t, txn[o])
  BY DEF Inv, SessionsInv
<1> HIDE DEF new
<1>5. /\ t.pc \in {"reserve", "save", "record"}
      /\ t.pc = "reserve" => pc \in {"flush", "load"}
      /\ t.pc = "reserve" => (pc = "flush" <=> Creates(t))
      /\ t.pc = "save" => pc = "flush"
      /\ t.pc = "record" => pc = "commit"
  BY <1>1 DEF Transactions
<1>6. SessionReads(new)
  BY <1>1, <1>2, <1>5 DEF SessionOK, SessionReads, Reserved
<1>7. SessionShape(new)
  <2>1. CASE t.pc = "reserve"
    <3>1. <<"DRAFT">> # <<>>
      OBVIOUS
    <3> QED BY <1>1, <1>2, <1>5, <2>1, <3>1 DEF SessionOK, SessionShape, Loaded, Creates, MaxWrites
  <2>2. CASE t.pc = "save"
    BY <1>1, <1>2, <1>5, <2>2 DEF SessionOK, SessionShape, Loaded, Creates, MaxWrites
  <2>3. CASE t.pc = "record"
    BY <1>1, <1>2, <1>5, <2>3 DEF SessionOK, SessionShape, Loaded, Creates, MaxWrites
  <2> QED BY <1>5, <2>1, <2>2, <2>3
<1>8. SessionSeesRow(new) /\ SessionIsLegal(new)
  BY <1>1, <1>2, <1>5 DEF SessionOK, SessionShape, SessionSeesRow, SessionIsLegal,
     Loaded, Creates, Absent
<1>9. \A o \in Sessions \ {s} : Apart(new, txn[o])
  BY <1>1, <1>2, <1>4 DEF Apart, Reserved, HoldsKey, Creates
<1> QED BY <1>2, <1>3, <1>6, <1>7, <1>8, <1>9, MoveSession DEF SessionOK

LEMMA ReserveKeeps ==
  ASSUME Inv, NEW s \in Sessions, ReserveIdempotencyKey(s)
  PROVE  Inv'
<1> DEFINE t == txn[s]
           pc == IF t.op = "create_application" THEN "flush" ELSE "load"
<1>1. CASE <<t.op, t.key>> \in keys
  BY <1>1, RollbackKeeps DEF ReserveIdempotencyKey
<1>2. CASE <<t.op, t.key>> \notin keys
  <2>1. Goto(s, pc) /\ t.pc = "reserve"
    BY <1>2 DEF ReserveIdempotencyKey
  <2>2. pc \in {"load", "flush", "commit"} /\ pc = IF Creates(t) THEN "flush" ELSE "load"
    BY DEF Creates
  <2>3. \A o \in Sessions : ~HoldsKey(o, t.op, t.key)
    BY DEF ReserveIdempotencyKey
  <2> HIDE DEF pc
  <2> QED BY <1>2, <2>1, <2>2, <2>3, GotoKeeps
<1> QED BY <1>1, <1>2

LEMMA CheckedSaveKeeps ==
  ASSUME Inv, NEW s \in Sessions, CheckedSave(s)
  PROVE  Inv'
<1>1. \/ Rollback(s)
      \/ /\ txn[s].pc = "save"
         /\ is_legal_transition(txn[s].status, Head(txn[s].todo))
         /\ Goto(s, "flush")
  BY DEF CheckedSave
<1> QED BY <1>1, RollbackKeeps, GotoKeeps

LEMMA RecordKeeps ==
  ASSUME Inv, NEW s \in Sessions, RecordDomainEvents(s)
  PROVE  Inv'
<1>1. Rollback(s) \/ (txn[s].pc = "record" /\ Goto(s, "commit"))
  BY DEF RecordDomainEvents
<1> QED BY <1>1, RollbackKeeps, GotoKeeps

LEMMA ReadCheckpointKeeps ==
  ASSUME Inv, NEW s \in Sessions, ReadCheckpoint(s)
  PROVE  Inv'
<1> DEFINE t == txn[s]
           new == [t EXCEPT !.pc = "record", !.read = checkpoint]
<1>1. t \in Transactions /\ SessionOK(t) /\ t.pc = "read"
  BY TxnType DEF Inv, SessionsInv, ReadCheckpoint
<1>2. checkpoint \in Events \cup {Genesis} /\ checkpoint \in outbox \cup {Genesis}
  BY DEF Inv, TypeOK, AuditParentsRecorded, Events
<1>3. /\ new \in Transactions
      /\ new.pc = "record" /\ new.op = t.op /\ new.app = t.app /\ new.key = t.key
      /\ new.todo = t.todo /\ new.written = t.written /\ new.base = t.base
      /\ new.version = t.version /\ new.read = checkpoint /\ new.status = t.status
  BY <1>1, <1>2 DEF Transactions
<1>4. txn' = [txn EXCEPT ![s] = new] /\ UNCHANGED db
  BY DEF ReadCheckpoint
<1>5. \A o \in Sessions \ {s} : Apart(t, txn[o])
  BY DEF Inv, SessionsInv
<1> HIDE DEF new
<1>6. SessionShape(new) /\ SessionReads(new)
  BY <1>1, <1>2, <1>3 DEF SessionOK, SessionShape, SessionReads, Loaded, Reserved,
     Creates, MaxWrites
<1>7. SessionSeesRow(new) /\ SessionIsLegal(new)
  BY <1>1, <1>3 DEF SessionOK, SessionSeesRow, SessionIsLegal, Loaded, Creates
<1>8. \A o \in Sessions \ {s} : Apart(new, txn[o])
  BY <1>1, <1>3, <1>5 DEF Apart, Reserved, Creates
<1> QED BY <1>3, <1>4, <1>6, <1>7, <1>8, MoveSession DEF SessionOK

LEMMA LoadKeeps ==
  ASSUME Inv, NEW s \in Sessions, Load(s)
  PROVE  Inv'
<1> DEFINE t == txn[s]
           pc == IF t.todo = <<>> THEN "read" ELSE "save"
           new == [t EXCEPT !.pc = pc, !.base = row[t.app].version,
                            !.version = row[t.app].version,
                            !.status = row[t.app].status]
<1>1. CASE row[t.app] = Absent
  BY <1>1, RollbackKeeps DEF Load
<1>2. CASE row[t.app] # Absent
  <2>1. t \in Transactions /\ SessionOK(t) /\ t.pc = "load" /\ t.app \in Applications
    BY TxnType DEF Inv, SessionsInv, Load, SessionOK, SessionShape
  <2>2. /\ row[t.app].version \in Nat \ {0}
        /\ row[t.app].status \in ApplicationStatus \cup {"ABSENT"}
    BY <1>2, <2>1 DEF Inv, TypeOK, HistoryInv, LegalSnapshots
  <2>3. /\ new \in Transactions
        /\ new.pc = pc /\ new.op = t.op /\ new.app = t.app /\ new.key = t.key
        /\ new.todo = t.todo /\ new.written = t.written
        /\ new.base = row[t.app].version /\ new.version = row[t.app].version
        /\ new.read = t.read /\ new.status = row[t.app].status
    BY <2>1, <2>2 DEF Transactions
  <2>4. txn' = [txn EXCEPT ![s] = new] /\ UNCHANGED db
    BY <1>2 DEF Load
  <2>5. pc \in {"read", "save"} /\ (pc = "save" => t.todo # <<>>)
    OBVIOUS
  <2>6. \A o \in Sessions \ {s} : Apart(t, txn[o])
    BY DEF Inv, SessionsInv
  <2> HIDE DEF new, pc
  <2>7. ~Creates(t) /\ t.written = <<>>
    BY <2>1 DEF SessionOK, SessionShape, Loaded
  <2>8. SessionShape(new) /\ SessionReads(new)
    BY <2>1, <2>2, <2>3, <2>5, <2>7 DEF SessionOK, SessionShape, SessionReads,
       Loaded, Reserved, Creates, MaxWrites
  <2>9. SessionSeesRow(new) /\ SessionIsLegal(new)
    BY <2>1, <2>2, <2>3, <2>5, <2>7 DEF SessionOK, SessionSeesRow, SessionIsLegal,
       Loaded, Creates
  <2>10. \A o \in Sessions \ {s} : Apart(new, txn[o])
    BY <2>1, <2>3, <2>5, <2>6, <2>7 DEF Apart, Reserved, Creates
  <2> QED BY <2>3, <2>4, <2>8, <2>9, <2>10, MoveSession DEF SessionOK
<1> QED BY <1>1, <1>2

\* The first write of a session finds the row as the session loaded it: the
\* next version is free, and the session never is ahead of the row.
LEMMA FreeVersion ==
  ASSUME Inv, NEW s \in Sessions, txn[s].pc = "flush",
         ~VersionTaken(txn[s].app, txn[s].version + 1)
  PROVE  txn[s].base = row[txn[s].app].version
<1> DEFINE t == txn[s]
           a == t.app
<1>1. t \in Transactions /\ SessionOK(t) /\ a \in Applications
  BY TxnType DEF Inv, SessionsInv, SessionOK, SessionShape
<1>2. CASE t.written # <<>>
  BY <1>1, <1>2 DEF SessionOK, SessionSeesRow
<1>3. CASE t.written = <<>>
  <2>1. t.version = t.base /\ t.base \in Nat
    BY <1>1, <1>3 DEF SessionOK, SessionShape, Transactions
  <2>2. t.base <= row[a].version /\ row[a].version \in Nat
    BY <1>1 DEF SessionOK, SessionSeesRow, Loaded, Inv, TypeOK
  <2>3. t.version + 1 \notin Versions(a)
    BY DEF VersionTaken, Versions
  <2>4. Versions(a) = 1 .. row[a].version
    BY <1>1 DEF Inv, HistoryInv, NoLostUpdate
  <2> QED BY <2>1, <2>2, <2>3, <2>4
<1> QED BY <1>2, <1>3

\* Moving the head of one sequence to the end of another.
LEMMA MoveHead ==
  ASSUME NEW S, NEW w \in Seq(S), NEW d \in Seq(S), d # <<>>
  PROVE  /\ Head(d) \in S /\ Tail(d) \in Seq(S)
         /\ Append(w, Head(d)) \in Seq(S) /\ Append(w, Head(d)) # <<>>
         /\ Len(w) \in Nat /\ Len(d) \in Nat /\ Len(d) >= 1
         /\ Len(Append(w, Head(d))) = Len(w) + 1
         /\ Len(Tail(d)) = Len(d) - 1
         /\ Len(d) > 1 => Tail(d) # <<>>
         /\ w = <<>> <=> Len(w) = 0
         /\ \A i \in 1 .. Len(w) : Append(w, Head(d))[i] = w[i]
         /\ Append(w, Head(d))[Len(w) + 1] = Head(d)
<1>1. Len(w) \in Nat /\ Len(d) \in Nat /\ Len(d) >= 1
  OBVIOUS
<1>2. Head(d) \in S /\ Tail(d) \in Seq(S) /\ Len(Tail(d)) = Len(d) - 1
  BY <1>1
<1>3. Len(d) > 1 => Tail(d) # <<>>
  BY <1>1, <1>2
<1>4. w = <<>> <=> Len(w) = 0
  OBVIOUS
<1> DEFINE h == Head(d)
<1> HIDE DEF h
<1>5. /\ Append(w, h) \in Seq(S) /\ Len(Append(w, h)) = Len(w) + 1
      /\ \A i \in 1 .. Len(w) : Append(w, h)[i] = w[i]
      /\ Append(w, h)[Len(w) + 1] = h
      /\ Append(w, h) # <<>>
  BY <1>1, <1>2 DEF h
<1> QED BY <1>1, <1>2, <1>3, <1>4, <1>5 DEF h

\* What a flush makes of a session whose version is free.
Flushed(t) ==
  [t EXCEPT !.pc = IF Len(t.todo) > 1 THEN "save" ELSE "read",
            !.status = Head(t.todo),
            !.version = t.version + 1,
            !.todo = Tail(t.todo),
            !.written = Append(t.written, Head(t.todo))]

\* It goes on from the row's status with one more legal one.
LEMMA FlushedSession ==
  ASSUME NEW t \in Transactions, SessionOK(t), t.pc = "flush",
         t.base = row[t.app].version, row[t.app].version \in Nat,
         NEW new, new = Flushed(t)
  PROVE  /\ new \in Transactions
         /\ SessionOK(new)
         /\ new.op = t.op /\ new.app = t.app /\ new.key = t.key
         /\ new.pc \in {"save", "read"}
<1> DEFINE m == Len(t.written)
           d == Len(t.todo)
           h == Head(t.todo)
           w == Append(t.written, h)
           r == Tail(t.todo)
<1>1. /\ t.todo \in Seq(ApplicationStatus) /\ t.todo # <<>>
      /\ t.written \in Seq(ApplicationStatus) /\ t.version \in Nat
      /\ t.base \in Nat /\ t.version = t.base + m
      /\ m + d <= MaxWrites(t)
  BY DEF SessionOK, SessionShape, Transactions
<1>2. /\ h \in ApplicationStatus /\ r \in Seq(ApplicationStatus)
      /\ w \in Seq(ApplicationStatus) /\ w # <<>>
      /\ m \in Nat /\ d \in Nat /\ d >= 1
      /\ d > 1 => r # <<>>
      /\ t.written = <<>> <=> m = 0
  BY <1>1, MoveHead
<1>11. Len(w) = m + 1 /\ Len(r) = d - 1
  BY <1>1, MoveHead
<1>10. /\ \A i \in 1 .. m : w[i] = t.written[i]
       /\ w[m + 1] = h
  BY <1>1, MoveHead
<1> HIDE DEF w, m, r, h
<1>3. /\ new \in Transactions
      /\ new.pc = IF d > 1 THEN "save" ELSE "read"
      /\ new.op = t.op /\ new.app = t.app /\ new.key = t.key
      /\ new.todo = r /\ new.written = w
      /\ new.base = t.base /\ new.version = t.version + 1
      /\ new.read = t.read /\ new.status = h
  <2> DEFINE pc == IF d > 1 THEN "save" ELSE "read"
  <2>1. pc \in {"save", "read"}
    OBVIOUS
  <2>2. new = [t EXCEPT !.pc = pc, !.status = h, !.version = t.version + 1,
                        !.todo = r, !.written = w]
    BY DEF Flushed, w, r, h
  <2>3. t.version + 1 \in Nat
    BY <1>1
  <2> HIDE DEF pc, d
  <2>4. new \in Transactions
    BY <1>2, <2>1, <2>2, <2>3 DEF Transactions
  <2>5. /\ new.pc = pc
        /\ new.op = t.op /\ new.app = t.app /\ new.key = t.key
        /\ new.todo = r /\ new.written = w
        /\ new.base = t.base /\ new.version = t.version + 1
        /\ new.read = t.read /\ new.status = h
    BY <2>2 DEF Transactions
  <2> QED BY <2>4, <2>5 DEF pc
<1> HIDE DEF d
<1>4. new.pc \in {"save", "read"} /\ (new.pc = "save" <=> d > 1)
  BY <1>3
<1>5. Creates(t) => new.pc = "read" /\ t.written = <<>> /\ h = "DRAFT"
  <2>1. Creates(t) => m + d <= 1
    BY <1>1 DEF Creates, MaxWrites
  <2>2. Creates(t) => m = 0 /\ d = 1
    BY <1>2, <2>1
  <2>3. Creates(t) => t.written = <<>> /\ new.pc = "read"
    BY <1>2, <1>4, <2>2
  <2> QED BY <2>3 DEF SessionOK, SessionShape, h
<1>6. SessionShape(new)
  <2>1. new.version = new.base + Len(new.written)
    <3>1. new.version = (t.base + m) + 1 /\ new.base = t.base
      BY <1>1, <1>3
    <3>2. Len(new.written) = m + 1
      BY <1>3, <1>11
    <3>3. t.base \in Nat /\ m \in Nat
      BY <1>1, <1>2
    <3> QED BY <3>1, <3>2, <3>3
  <2>2. Len(new.written) + Len(new.todo) <= MaxWrites(new)
    BY <1>1, <1>2, <1>3, <1>11 DEF MaxWrites
  <2>3. new.pc = "save" => new.todo # <<>>
    BY <1>2, <1>3, <1>4
  <2> QED BY <1>2, <1>3, <1>4, <1>5, <2>1, <2>2, <2>3
       DEF SessionOK, SessionShape, Loaded, Creates
<1>7. SessionReads(new)
  BY <1>3 DEF SessionOK, SessionReads, Reserved
<1>8. SessionSeesRow(new)
  BY <1>2, <1>3, <1>4 DEF SessionOK, SessionSeesRow, Loaded, Creates
<1>9. SessionIsLegal(new)
  <2>1. new.pc # "flush" /\ new.status = new.written[Len(new.written)]
    BY <1>3, <1>4, <1>10, <1>11
  <2>2. CASE m = 0
    <3>1. new.written[1] = h /\ Len(new.written) = 1 /\ t.written = <<>>
      BY <1>2, <1>3, <1>10, <1>11, <2>2
    <3>2. ~Creates(t) => is_legal_transition(row[t.app].status, h)
      BY <3>1 DEF SessionOK, SessionSeesRow, SessionIsLegal, Loaded, h
    <3>3. Creates(t) => new.written[1] = "DRAFT"
      BY <1>5, <3>1
    <3>4. ~Creates(t) => is_legal_transition(row[new.app].status, new.written[1])
      BY <1>3, <3>1, <3>2
    <3>5. Creates(new) <=> Creates(t)
      BY <1>3 DEF Creates
    <3> QED BY <2>1, <3>1, <3>3, <3>4, <3>5 DEF SessionIsLegal
  <2>3. CASE m > 0
    <3>1. t.written # <<>> /\ ~Creates(t)
      BY <1>2, <1>5, <2>3
    <3>2. /\ is_legal_transition(t.status, h)
          /\ t.status = t.written[m]
          /\ is_legal_transition(row[t.app].status, t.written[1])
      BY <3>1 DEF SessionOK, SessionIsLegal, m, h
    <3>3. new.written[1] = t.written[1]
      BY <1>2, <1>3, <1>10, <2>3
    <3>4. ASSUME Len(new.written) = 2
          PROVE  is_legal_transition(new.written[1], new.written[2])
      <4>1. m = 1
        <5>1. m + 1 = 2
          BY <1>3, <1>11, <3>4
        <5> QED BY <1>2, <5>1
      <4> QED BY <1>2, <1>3, <1>10, <3>2, <3>3, <4>1
    <3> QED BY <1>3, <2>1, <3>1, <3>2, <3>3, <3>4 DEF SessionIsLegal, Creates
  <2> QED BY <1>2, <2>2, <2>3
<1> QED BY <1>3, <1>4, <1>6, <1>7, <1>8, <1>9 DEF SessionOK

LEMMA FlushKeeps ==
  ASSUME Inv, NEW s \in Sessions, FlushSave(s)
  PROVE  Inv'
<1> DEFINE t == txn[s]
           new == Flushed(t)
<1>1. CASE VersionTaken(t.app, t.version + 1)
  BY <1>1, RollbackKeeps DEF FlushSave
<1>2. CASE ~VersionTaken(t.app, t.version + 1)
  <2>1. t \in Transactions /\ SessionOK(t) /\ t.pc = "flush" /\ t.app \in Applications
    BY TxnType DEF Inv, SessionsInv, FlushSave, SessionOK, SessionShape
  <2>2. txn' = [txn EXCEPT ![s] = new] /\ UNCHANGED db
    BY <1>2 DEF FlushSave, Flushed
  <2>3. /\ \A o \in Sessions \ {s} : Apart(t, txn[o])
        /\ \A o \in Sessions \ {s} : txn[o].app = t.app => txn[o].written = <<>>
    BY DEF Inv, SessionsInv, FlushSave, RowLockedByOther
  <2>4. t.base = row[t.app].version /\ row[t.app].version \in Nat
    BY <1>2, <2>1, FreeVersion DEF Inv, TypeOK
  <2> HIDE DEF new
  <2>5. /\ new \in Transactions /\ SessionOK(new)
        /\ new.op = t.op /\ new.app = t.app /\ new.key = t.key
        /\ new.pc \in {"save", "read"}
    BY <2>1, <2>4, FlushedSession DEF new
  <2>6. \A o \in Sessions \ {s} : Apart(new, txn[o])
    BY <2>1, <2>3, <2>5 DEF Apart, Reserved, Creates
  <2> QED BY <2>2, <2>5, <2>6, MoveSession
<1> QED BY <1>1, <1>2

-----------------------------------------------------------------------------
(* The commit                                                              *)

\* The i-th snapshot a commit inserts.
Snapshot(t, i) ==
  [app |-> t.app, version |-> t.base + i, status |-> t.written[i],
   op |-> t.op, key |-> t.key]

\* The i-th entry it adds to the audit trail.
Entry(t, i) ==
  [event |-> Event(t, i), prev |-> IF i = 1 THEN t.read ELSE Event(t, i - 1)]

NewSnapshots(t) == { Snapshot(t, i) : i \in 1 .. Len(t.written) }
NewEvents(t) == { Event(t, i) : i \in 1 .. EventCount(t) }
NewEntries(t) == { Entry(t, i) : i \in 1 .. EventCount(t) }

LEMMA SmallSum ==
  ASSUME NEW x \in Nat, NEW y \in Nat, NEW z \in {1, 2}, x + y <= z
  PROVE  x \in 0 .. 2 /\ (x = 2 => z = 2)
OBVIOUS

LEMMA AtLeastOne ==
  ASSUME NEW x \in 0 .. 2
  PROVE  LET n == IF x = 0 THEN 1 ELSE x
         IN  n \in {1, 2} /\ (n = 2 <=> x = 2) /\ (x > 0 => n = x)
OBVIOUS

\* What a session that commits brings with it.
LEMMA CommittingSession ==
  ASSUME Inv, NEW s \in Sessions, txn[s].pc = "commit",
         NEW t, t = txn[s], NEW m, m = Len(t.written)
  PROVE  /\ t \in Transactions /\ t.app \in Applications /\ t.op \in Operations
         /\ t.key \in Keys /\ t.base \in Nat /\ t.version = t.base + m
         /\ m \in 0 .. 2
         /\ m = 2 => t.op = "advance_intake_validation"
         /\ t.written = <<>> <=> m = 0
         /\ \A i \in 1 .. m : t.written[i] \in ApplicationStatus
         /\ m > 0 => /\ t.base = row[t.app].version
                     /\ t.status = t.written[m]
                     /\ t.base = 0 => t.written[1] = "DRAFT"
                     /\ t.base > 0 => is_legal_transition(row[t.app].status,
                                                          t.written[1])
         /\ m = 2 => is_legal_transition(t.written[1], t.written[2])
         /\ <<t.op, t.key>> \notin keys
         /\ t.read \in outbox \cup {Genesis}
<1>1. t \in Transactions /\ SessionOK(t) /\ t.pc = "commit"
  BY TxnType DEF Inv, SessionsInv
<1>2. /\ t.app \in Applications /\ t.op \in Operations /\ t.key \in Keys
      /\ t.version = t.base + m /\ m + Len(t.todo) <= MaxWrites(t)
      /\ Creates(t) => t.base = 0
  BY <1>1 DEF SessionOK, SessionShape
<1>3. /\ t.written \in Seq(ApplicationStatus) /\ t.todo \in Seq(ApplicationStatus)
      /\ t.base \in Nat
  BY <1>1 DEF Transactions
<1>4. m \in Nat /\ Len(t.todo) \in Nat /\ (t.written = <<>> <=> m = 0)
  BY <1>3
<1>5. m \in 0 .. 2 /\ (m = 2 => t.op = "advance_intake_validation")
  <2>1. MaxWrites(t) \in {1, 2} /\ (MaxWrites(t) = 2 => t.op = "advance_intake_validation")
    BY DEF MaxWrites
  <2> QED BY <1>2, <1>4, <2>1, SmallSum
<1>6. \A i \in 1 .. m : t.written[i] \in ApplicationStatus
  BY <1>3
<1>7. ASSUME m > 0
      PROVE  /\ t.base = row[t.app].version /\ t.status = t.written[m]
             /\ t.base = 0 => t.written[1] = "DRAFT"
             /\ t.base > 0 => is_legal_transition(row[t.app].status, t.written[1])
  <2>1. t.written # <<>>
    BY <1>4, <1>7
  <2>2. Creates(t) <=> t.base = 0
    BY <1>1, <1>2, <1>3 DEF SessionOK, SessionSeesRow, Loaded
  <2> QED BY <1>1, <1>3, <2>1, <2>2 DEF SessionOK, SessionSeesRow, SessionIsLegal
<1>8. ASSUME m = 2 PROVE is_legal_transition(t.written[1], t.written[2])
  <2>1. t.written # <<>>
    BY <1>4, <1>8
  <2> QED BY <1>1, <1>8, <2>1 DEF SessionOK, SessionIsLegal
<1>9. <<t.op, t.key>> \notin keys /\ t.read \in outbox \cup {Genesis}
  BY <1>1 DEF SessionOK, SessionReads, Reserved
<1> QED BY <1>1, <1>2, <1>3, <1>4, <1>5, <1>6, <1>7, <1>8, <1>9

LEMMA CommitStage ==
  ASSUME NEW s \in Sessions, Commit(s)
  PROVE  txn[s].pc = "commit"
  BY DEF Commit

\* What the commit does to the tables.
LEMMA CommitTables ==
  ASSUME Inv, NEW s \in Sessions, Commit(s),
         NEW t, t = txn[s], NEW m, m = Len(t.written)
  PROVE  /\ \A b \in Applications \ {t.app} : row'[b] = row[b]
         /\ m = 0 => row' = row
         /\ m > 0 => row'[t.app] = [status |-> t.status, version |-> t.version]
         /\ row' \in [Applications -> [status : ApplicationStatus \cup {"ABSENT"},
                                       version : Nat]]
         /\ snapshots' = snapshots \cup NewSnapshots(t)
         /\ keys' = keys \cup {<<t.op, t.key>>}
         /\ outbox' = outbox \cup NewEvents(t)
         /\ audit' = audit \cup NewEntries(t)
         /\ checkpoint' = Event(t, EventCount(t))
         /\ txn' = [txn EXCEPT ![s] = Closed]
<1>1. /\ t \in Transactions /\ t.app \in Applications
      /\ t.written = <<>> <=> m = 0
      /\ m \in 0 .. 2
  BY CommitStage, CommittingSession
<1>2. row \in [Applications -> [status : ApplicationStatus \cup {"ABSENT"},
                                version : Nat]]
  BY DEF Inv, TypeOK
<1>3. [status |-> t.status, version |-> t.version] \in
        [status : ApplicationStatus \cup {"ABSENT"}, version : Nat]
  BY <1>1 DEF Transactions
<1>4. row' = IF m = 0 THEN row
             ELSE [row EXCEPT ![t.app] = [status  |-> t.status,
                                          version |-> t.version]]
  BY <1>1 DEF Commit
<1>5. /\ \A b \in Applications \ {t.app} : row'[b] = row[b]
      /\ m = 0 => row' = row
      /\ m > 0 => row'[t.app] = [status |-> t.status, version |-> t.version]
      /\ row' \in [Applications -> [status : ApplicationStatus \cup {"ABSENT"},
                                    version : Nat]]
  BY <1>1, <1>2, <1>3, <1>4
<1>6. /\ snapshots' = snapshots \cup NewSnapshots(t)
      /\ keys' = keys \cup {<<t.op, t.key>>}
      /\ outbox' = outbox \cup NewEvents(t)
      /\ checkpoint' = Event(t, EventCount(t))
      /\ txn' = [txn EXCEPT ![s] = Closed]
  BY DEF Commit, NewSnapshots, Snapshot, NewEvents
<1>7. audit' = audit \cup NewEntries(t)
  BY DEF Commit, NewEntries, Entry
<1> QED BY <1>5, <1>6, <1>7

\* The events of a committing session.
LEMMA CommitEvents ==
  ASSUME Inv, NEW s \in Sessions, txn[s].pc = "commit",
         NEW t, t = txn[s], NEW m, m = Len(t.written),
         NEW n, n = EventCount(t)
  PROVE  /\ n \in {1, 2} /\ (n = 2 <=> m = 2) /\ (m > 0 => n = m)
         /\ \A i \in 1 .. n : /\ Event(t, i) \in Events
                              /\ Event(t, i).app = t.app
                              /\ Event(t, i).op = t.op
                              /\ Event(t, i).key = t.key
                              /\ Event(t, i).version = IF m = 0 THEN 0 ELSE t.base + i
<1>1. /\ t.app \in Applications /\ t.op \in Operations
      /\ t.key \in Keys /\ t.base \in Nat /\ m \in 0 .. 2
      /\ t.written = <<>> <=> m = 0
  BY CommittingSession
<1>2. n = IF m = 0 THEN 1 ELSE m
  BY <1>1 DEF EventCount
<1>3. n \in {1, 2} /\ (n = 2 <=> m = 2) /\ (m > 0 => n = m)
  BY <1>1, <1>2, AtLeastOne
<1>4. ASSUME NEW i \in 1 .. n
      PROVE  /\ Event(t, i) \in Events
             /\ Event(t, i).app = t.app /\ Event(t, i).op = t.op
             /\ Event(t, i).key = t.key
             /\ Event(t, i).version = IF m = 0 THEN 0 ELSE t.base + i
  BY <1>1, <1>3 DEF Event, Events
<1> QED BY <1>3, <1>4

LEMMA CommitTypeOK ==
  ASSUME Inv, NEW s \in Sessions, Commit(s)
  PROVE  TypeOK'
<1> DEFINE t == txn[s]
           m == Len(t.written)
           n == EventCount(t)
<1>0. t = txn[s] /\ m = Len(t.written) /\ n = EventCount(t)
  OBVIOUS
<1> HIDE DEF t, m, n
<1>1. /\ t.app \in Applications /\ t.op \in Operations
      /\ t.key \in Keys /\ t.base \in Nat /\ m \in 0 .. 2
      /\ \A i \in 1 .. m : t.written[i] \in ApplicationStatus
      /\ t.read \in Events \cup {Genesis}
  BY <1>0, CommittingSession DEF Commit, Transactions
<1>2. /\ row' \in [Applications -> [status : ApplicationStatus \cup {"ABSENT"},
                                    version : Nat]]
      /\ snapshots' = snapshots \cup NewSnapshots(t)
      /\ keys' = keys \cup {<<t.op, t.key>>}
      /\ outbox' = outbox \cup NewEvents(t)
      /\ audit' = audit \cup NewEntries(t)
      /\ checkpoint' = Event(t, n)
      /\ txn' = [txn EXCEPT ![s] = Closed]
  BY <1>0, CommitTables
<1>3. n \in {1, 2} /\ \A i \in 1 .. n : Event(t, i) \in Events
  BY <1>0, CommitStage, CommitEvents
<1>4. /\ snapshots \subseteq [app : Applications, version : Nat,
                              status : ApplicationStatus,
                              op : Operations, key : Keys]
      /\ keys \subseteq Operations \X Keys
      /\ outbox \subseteq Events
      /\ audit \subseteq [event : Events, prev : Events \cup {Genesis}]
      /\ txn \in [Sessions -> Transactions]
  BY TxnType DEF Inv, TypeOK, Events
<1>5. snapshots' \subseteq [app : Applications, version : Nat,
                            status : ApplicationStatus,
                            op : Operations, key : Keys]
  <2>1. ASSUME NEW i \in 1 .. m
        PROVE  Snapshot(t, i) \in [app : Applications, version : Nat,
                                   status : ApplicationStatus,
                                   op : Operations, key : Keys]
    BY <1>1 DEF Snapshot
  <2> QED BY <1>0, <1>2, <1>4, <2>1 DEF NewSnapshots
<1>6. keys' \subseteq Operations \X Keys
  BY <1>1, <1>2, <1>4
<1>7. outbox' \subseteq Events
  BY <1>0, <1>2, <1>3, <1>4 DEF NewEvents
<1>8. audit' \subseteq [event : Events, prev : Events \cup {Genesis}]
  <2>1. ASSUME NEW i \in 1 .. n
        PROVE  Entry(t, i) \in [event : Events, prev : Events \cup {Genesis}]
    <3>1. i # 1 => i - 1 \in 1 .. n
      BY <1>3
    <3> QED BY <1>1, <1>3, <3>1 DEF Entry
  <2> QED BY <1>0, <1>2, <1>4, <2>1 DEF NewEntries
<1>9. checkpoint' \in Events \cup {Genesis}
  BY <1>2, <1>3
<1>10. txn' \in [Sessions -> Transactions]
  BY <1>2, <1>4, ClosedOK
<1> QED BY <1>2, <1>5, <1>6, <1>7, <1>8, <1>9, <1>10 DEF TypeOK, Events, Transactions

\* The others are not disturbed: a session that has written the same row cannot
\* be there, one that has only loaded it falls behind, and one that creates it
\* cannot have a rival.
LEMMA CommitSessions ==
  ASSUME Inv, NEW s \in Sessions, Commit(s)
  PROVE  SessionsInv'
<1> DEFINE t == txn[s]
           m == Len(t.written)
<1>0. t = txn[s] /\ m = Len(t.written)
  OBVIOUS
<1> HIDE DEF t, m
<1>1. /\ t.app \in Applications /\ m \in 0 .. 2 /\ t.base \in Nat
      /\ t.version = t.base + m
      /\ t.written = <<>> <=> m = 0
      /\ m > 0 => t.base = row[t.app].version
      /\ t.pc = "commit"
  BY <1>0, CommitStage, CommittingSession
<1>2. /\ \A b \in Applications \ {t.app} : row'[b] = row[b]
      /\ m = 0 => row' = row
      /\ m > 0 => row'[t.app] = [status |-> t.status, version |-> t.version]
      /\ keys' = keys \cup {<<t.op, t.key>>}
      /\ outbox \subseteq outbox'
      /\ txn' = [txn EXCEPT ![s] = Closed]
  BY <1>0, CommitTables
<1>3. txn \in [Sessions -> Transactions]
  BY TxnType DEF Inv
<1>4. \A q \in Sessions : txn'[q] = IF q = s THEN Closed ELSE txn[q]
  BY <1>2, <1>3
<1>5. \A b \in Applications : row[b].version \in Nat /\ (row[b].version = 0 <=> row[b] = Absent)
  BY DEF Inv, TypeOK, HistoryInv, LegalSnapshots
<1>6. SessionOK(t) /\ \A o \in Sessions \ {s} : Apart(t, txn[o]) /\ SessionOK(txn[o])
  BY <1>0 DEF Inv, SessionsInv
<1>7. Creates(t) => t.base = 0 
  BY <1>1, <1>6 DEF SessionOK, SessionShape
<1>8. ~Creates(t) => t.base >= 1
  BY <1>1, <1>6 DEF SessionOK, SessionSeesRow, Loaded
<1>9. ASSUME NEW q \in Sessions PROVE SessionOK(txn[q])'
  <2>1. CASE q = s
    <3>1. txn'[q] = Closed
      BY <1>4, <2>1
    <3>2. /\ txn'[q].pc = "idle" /\ txn'[q].written = <<>> /\ txn'[q].todo = <<>>
          /\ txn'[q].op = "none" /\ txn'[q].version = 0 /\ txn'[q].base = 0
          /\ txn'[q].read = Genesis
      BY <3>1 DEF Closed
    <3> QED BY <3>2 DEF SessionOK, SessionShape, SessionSeesRow,
         SessionIsLegal, SessionReads, Loaded, Reserved, MaxWrites
  <2>2. CASE q # s
    <3> DEFINE u == txn[q]
    <3>1. txn'[q] = u /\ SessionOK(u) /\ Apart(t, u) /\ u \in Transactions
      BY <1>3, <1>4, <1>6, <2>2
    <3>2. u.pc # "idle" => u.app \in Applications
      BY <3>1 DEF SessionOK, SessionShape
    <3>3. u.written # <<>> => u.pc # "idle"
      BY <3>1 DEF SessionOK, SessionShape, Loaded
    <3> HIDE DEF u
    <3>4. u.pc # "idle" /\ Creates(u) => row'[u.app] = row[u.app]
      <4> SUFFICES ASSUME u.pc # "idle", Creates(u), m > 0, u.app = t.app PROVE FALSE
        BY <1>1, <1>2, <3>2
      <4>1. Creates(t) => FALSE
        BY <1>1, <3>1 DEF Apart
      <4>2. row[t.app] = Absent
        BY <3>1 DEF SessionOK, SessionSeesRow
      <4> QED BY <1>1, <1>5, <1>8, <4>1, <4>2
    <3>5. u.written # <<>> => row'[u.app] = row[u.app]
      BY <1>1, <1>2, <3>1, <3>2, <3>3 DEF Apart
    <3>6. u.pc # "idle" =>
            \/ row'[u.app] = row[u.app]
            \/ row'[u.app].version \in Nat /\ row'[u.app].version > row[u.app].version
      <4> SUFFICES ASSUME u.pc # "idle", m > 0, u.app = t.app
                   PROVE  /\ row'[u.app].version \in Nat
                          /\ row'[u.app].version > row[u.app].version
        BY <1>1, <1>2, <3>2
      <4>1. row'[u.app].version = row[u.app].version + m
        BY <1>1, <1>2
      <4> QED BY <1>1, <1>5, <4>1
    <3>7. SessionShape(txn[q])'
      BY <3>1 DEF SessionOK, SessionShape, Loaded, Creates, MaxWrites
    <3>8. SessionReads(txn[q])'
      <4>1. Reserved(u) => <<u.op, u.key>> # <<t.op, t.key>>
        BY <1>1, <3>1 DEF Apart, Reserved
      <4> QED BY <1>2, <3>1, <4>1 DEF SessionOK, SessionReads, Reserved
    <3>9. SessionIsLegal(txn[q])'
      BY <3>1, <3>5 DEF SessionOK, SessionIsLegal, Creates
    <3>10. SessionSeesRow(txn[q])'
      <4>1. Loaded(u) => u.pc # "idle" /\ row[u.app].version \in Nat /\ u.base \in Nat
        BY <1>5, <3>1, <3>2 DEF Loaded, Transactions
      <4> QED BY <3>1, <3>4, <3>5, <3>6, <4>1 DEF SessionOK, SessionSeesRow,
           Loaded, Creates
    <3> QED BY <3>7, <3>8, <3>9, <3>10 DEF SessionOK
  <2> QED BY <2>1, <2>2
<1>10. ASSUME NEW q \in Sessions, NEW o \in Sessions, q # o
      PROVE  Apart(txn[q], txn[o])'
  <2>1. Apart(txn'[q], txn'[o])
    <3>1. CASE q = s
      BY <3>1, <1>4, ClosedOK
    <3>2. CASE o = s
      BY <3>2, <1>4, <1>10, ClosedOK DEF Apart, Reserved
    <3>3. CASE q # s /\ o # s
      BY <3>3, <1>4, <1>10 DEF Inv, SessionsInv
    <3> QED BY <3>1, <3>2, <3>3
  <2> QED BY <2>1 DEF Apart, Reserved, Creates
<1> QED BY <1>9, <1>10 DEF SessionsInv

\* The snapshots of an application, before a commit and after it.
LEMMA CommitSnapshots ==
  ASSUME Inv, NEW s \in Sessions, Commit(s),
         NEW t, t = txn[s], NEW m, m = Len(t.written)
  PROVE  /\ \A x \in snapshots : x.version \in 1 .. row[x.app].version /\ x.app \in Applications
         /\ \A x \in snapshots' :
              \/ x \in snapshots
              \/ m > 0 /\ \E i \in 1 .. m : x = Snapshot(t, i)
         /\ snapshots \subseteq snapshots'
         /\ \A i \in 1 .. m : /\ Snapshot(t, i) \in snapshots'
                              /\ Snapshot(t, i).app = t.app
                              /\ Snapshot(t, i).version = t.base + i
                              /\ Snapshot(t, i).status = t.written[i]
<1>1. snapshots' = snapshots \cup NewSnapshots(t)
  BY CommitTables
<1>2. m \in 0 .. 2
  BY CommitStage, CommittingSession
<1>3. ASSUME NEW x \in snapshots
      PROVE  x.version \in 1 .. row[x.app].version /\ x.app \in Applications
  <2>1. x.app \in Applications
    BY DEF Inv, TypeOK
  <2>2. x.version \in Versions(x.app)
    BY DEF Versions
  <2> QED BY <2>1, <2>2 DEF Inv, HistoryInv, NoLostUpdate
<1>4. \A i \in 1 .. m : /\ Snapshot(t, i).app = t.app
                        /\ Snapshot(t, i).version = t.base + i
                        /\ Snapshot(t, i).status = t.written[i]
  BY DEF Snapshot
<1>5. \A x : x \in NewSnapshots(t) <=> \E i \in 1 .. m : x = Snapshot(t, i)
  BY DEF NewSnapshots
<1>6. \A i \in 1 .. m : m > 0
  BY <1>2
<1> QED BY <1>1, <1>3, <1>4, <1>5, <1>6

LEMMA CommitNoLostUpdate ==
  ASSUME Inv, NEW s \in Sessions, Commit(s)
  PROVE  NoLostUpdate'
<1> DEFINE t == txn[s]
           m == Len(t.written)
<1>0. t = txn[s] /\ m = Len(t.written)
  OBVIOUS
<1> HIDE DEF t, m
<1>1. /\ t.app \in Applications /\ t.base \in Nat /\ m \in 0 .. 2
      /\ t.version = t.base + m
      /\ m > 0 => t.base = row[t.app].version /\ t.status = t.written[m]
  BY <1>0, CommitStage, CommittingSession
<1>2. /\ \A b \in Applications \ {t.app} : row'[b] = row[b]
      /\ m = 0 => row' = row
      /\ m > 0 => row'[t.app] = [status |-> t.status, version |-> t.version]
  BY <1>0, CommitTables
<1>3. /\ \A x \in snapshots : x.version \in 1 .. row[x.app].version /\ x.app \in Applications
      /\ \A x \in snapshots' :
           \/ x \in snapshots
           \/ m > 0 /\ \E i \in 1 .. m : x = Snapshot(t, i)
      /\ snapshots \subseteq snapshots'
      /\ \A i \in 1 .. m : /\ Snapshot(t, i) \in snapshots'
                           /\ Snapshot(t, i).app = t.app
                           /\ Snapshot(t, i).version = t.base + i
                           /\ Snapshot(t, i).status = t.written[i]
  BY <1>0, CommitSnapshots
<1>4. \A b \in Applications : row[b].version \in Nat
  BY DEF Inv, TypeOK
<1> SUFFICES ASSUME NEW a \in Applications
             PROVE  /\ Versions(a)' = 1 .. row'[a].version
                    /\ \A x, y \in snapshots' :
                         x.app = a /\ y.app = a /\ x.version = y.version => x = y
                    /\ row'[a] # Absent =>
                         \E x \in snapshots' : /\ x.app = a
                                               /\ x.version = row'[a].version
                                               /\ x.status = row'[a].status
  BY DEF NoLostUpdate
<1>5. /\ Versions(a) = 1 .. row[a].version
      /\ \A x, y \in snapshots :
           x.app = a /\ y.app = a /\ x.version = y.version => x = y
      /\ row[a] # Absent =>
           \E x \in snapshots : /\ x.app = a
                                /\ x.version = row[a].version
                                /\ x.status = row[a].status
  BY DEF Inv, HistoryInv, NoLostUpdate
<1>6. CASE a # t.app \/ m = 0
  <2>1. row'[a] = row[a]
    BY <1>2, <1>6
  <2>2. \A x \in snapshots' : x.app = a => x \in snapshots
    BY <1>3, <1>6
  <2>3. Versions(a)' = Versions(a)
    BY <1>3, <2>2 DEF Versions
  <2>4. \A x, y \in snapshots' :
          x.app = a /\ y.app = a /\ x.version = y.version => x = y
    BY <1>5, <2>2
  <2> QED BY <1>3, <1>5, <2>1, <2>3, <2>4
<1>7. CASE a = t.app /\ m > 0
  <2>1. row'[a].version = row[a].version + m /\ row'[a].status = t.written[m]
    BY <1>1, <1>2, <1>7
  <2>2. \A x \in snapshots' : x.app = a =>
          \/ x \in snapshots /\ x.version \in 1 .. row[a].version
          \/ \E i \in 1 .. m : x = Snapshot(t, i) /\ x.version = row[a].version + i
    BY <1>1, <1>3, <1>7
  <2>3. ASSUME NEW v \in Versions(a)' PROVE v \in 1 .. row'[a].version
    <3>1. PICK x \in snapshots' : x.app = a /\ x.version = v
      BY <2>3 DEF Versions
    <3> QED BY <1>1, <1>4, <2>1, <2>2, <3>1
  <2>4. ASSUME NEW v \in 1 .. row'[a].version PROVE v \in Versions(a)'
    <3>1. CASE v <= row[a].version
      <4>1. v \in Versions(a)
        BY <1>4, <1>5, <3>1
      <4> QED BY <1>3, <4>1 DEF Versions
    <3>2. CASE v > row[a].version
      <4>1. v - row[a].version \in 1 .. m
        BY <1>1, <1>4, <2>1, <3>2
      <4>2. PICK i \in 1 .. m : v = row[a].version + i
        BY <1>4, <4>1
      <4>3. Snapshot(t, i) \in snapshots' /\ Snapshot(t, i).app = a
            /\ Snapshot(t, i).version = v
        BY <1>1, <1>3, <1>7, <4>2
      <4> QED BY <4>3 DEF Versions
    <3> QED BY <1>4, <3>1, <3>2
  <2>5. ASSUME NEW x \in snapshots', NEW y \in snapshots',
               x.app = a, y.app = a, x.version = y.version
        PROVE  x = y
    BY <1>1, <1>4, <1>5, <2>2, <2>5
  <2>6. \E x \in snapshots' : /\ x.app = a
                              /\ x.version = row'[a].version
                              /\ x.status = row'[a].status
    <3>1. m \in 1 .. m
      BY <1>1, <1>7
    <3> QED BY <1>1, <1>3, <1>7, <2>1, <3>1
  <2> QED BY <2>3, <2>4, <2>5, <2>6
<1> QED BY <1>1, <1>6, <1>7

LEMMA CommitLegalSnapshots ==
  ASSUME Inv, NEW s \in Sessions, Commit(s)
  PROVE  LegalSnapshots'
<1> DEFINE t == txn[s]
           m == Len(t.written)
<1>0. t = txn[s] /\ m = Len(t.written)
  OBVIOUS
<1> HIDE DEF t, m
<1>1. /\ t.app \in Applications /\ t.base \in Nat /\ m \in 0 .. 2
      /\ t.version = t.base + m
      /\ m > 0 => t.base = row[t.app].version
  BY <1>0, CommitStage, CommittingSession
<1>2. /\ m > 0 /\ t.base = 0 => t.written[1] = "DRAFT"
      /\ m > 0 /\ t.base > 0 => is_legal_transition(row[t.app].status, t.written[1])
      /\ m = 2 => is_legal_transition(t.written[1], t.written[2])
  BY <1>0, CommitStage, CommittingSession
<1>3. /\ \A b \in Applications \ {t.app} : row'[b] = row[b]
      /\ m = 0 => row' = row
      /\ m > 0 => row'[t.app] = [status |-> t.status, version |-> t.version]
  BY <1>0, CommitTables
<1>4. /\ \A x \in snapshots : x.version \in 1 .. row[x.app].version /\ x.app \in Applications
      /\ \A x \in snapshots' :
           \/ x \in snapshots
           \/ m > 0 /\ \E i \in 1 .. m : x = Snapshot(t, i)
      /\ \A i \in 1 .. m : /\ Snapshot(t, i).app = t.app
                           /\ Snapshot(t, i).version = t.base + i
                           /\ Snapshot(t, i).status = t.written[i]
  BY <1>0, CommitSnapshots
<1>5. \A b \in Applications : row[b].version \in Nat /\ (row[b].version = 0 <=> row[b] = Absent)
  BY DEF Inv, TypeOK, HistoryInv, LegalSnapshots
<1>6. \A a \in Applications : row'[a].version = 0 <=> row'[a] = Absent
  <2> TAKE a \in Applications
  <2>1. CASE a # t.app \/ m = 0
    BY <1>3, <1>5, <2>1
  <2>2. CASE a = t.app /\ m > 0
    <3>1. row'[a].version = t.base + m
      BY <1>1, <1>3, <2>2
    <3>2. t.base + m # 0
      BY <1>1, <2>2
    <3> QED BY <3>1, <3>2 DEF Absent
  <2> QED BY <1>1, <2>1, <2>2
<1>7. ASSUME NEW x \in snapshots', x.version = 1 PROVE x.status = "DRAFT"
  <2>1. CASE x \in snapshots
    BY <1>7, <2>1 DEF Inv, HistoryInv, LegalSnapshots
  <2>2. CASE m > 0 /\ \E i \in 1 .. m : x = Snapshot(t, i)
    <3>1. PICK i \in 1 .. m : x = Snapshot(t, i)
      BY <2>2
    <3>2. t.base + i = 1 /\ x.status = t.written[i]
      BY <1>4, <1>7, <3>1
    <3>3. t.base = 0 /\ i = 1
      BY <1>1, <3>2
    <3> QED BY <1>2, <2>2, <3>2, <3>3
  <2> QED BY <1>4, <2>1, <2>2
<1>8. ASSUME NEW x \in snapshots', NEW y \in snapshots', x.app = y.app,
             y.version = x.version + 1
      PROVE  is_legal_transition(x.status, y.status)
  <2>1. CASE x \in snapshots /\ y \in snapshots
    BY <1>8, <2>1 DEF Inv, HistoryInv, LegalSnapshots
  <2>2. CASE x \in snapshots /\ y \notin snapshots
    <3>1. PICK i \in 1 .. m : y = Snapshot(t, i)
      BY <1>4, <2>2
    <3>2. /\ m > 0 /\ y.app = t.app /\ y.version = t.base + i
          /\ y.status = t.written[i]
      BY <1>1, <1>4, <3>1
    <3>3. x.version \in 1 .. t.base
      BY <1>1, <1>4, <1>8, <2>2, <3>2
    <3>4. i = 1 /\ x.version = t.base /\ t.base > 0
      BY <1>1, <1>8, <3>2, <3>3
    <3>5. x.status = row[t.app].status
      <4>1. row[t.app] # Absent
        BY <1>1, <1>5, <3>2, <3>4
      <4>2. PICK z \in snapshots : /\ z.app = t.app
                                   /\ z.version = row[t.app].version
                                   /\ z.status = row[t.app].status
        BY <1>1, <4>1 DEF Inv, HistoryInv, NoLostUpdate
      <4>3. z = x
        BY <1>1, <1>8, <2>2, <3>2, <3>4, <4>2 DEF Inv, HistoryInv, NoLostUpdate
      <4> QED BY <4>2, <4>3
    <3> QED BY <1>2, <3>2, <3>4, <3>5
  <2>3. CASE x \notin snapshots
    <3>1. PICK i \in 1 .. m : x = Snapshot(t, i)
      BY <1>4, <2>3
    <3>2. /\ m > 0 /\ x.app = t.app /\ x.version = t.base + i
          /\ x.status = t.written[i]
      BY <1>1, <1>4, <3>1
    <3>3. y.version > row[t.app].version
      BY <1>1, <1>8, <3>2
    <3>4. y \notin snapshots
      <4> SUFFICES ASSUME y \in snapshots PROVE FALSE
        OBVIOUS
      <4>1. y.version \in 1 .. row[t.app].version
        BY <1>4, <1>8, <3>2
      <4>2. row[t.app].version \in Nat
        BY <1>1, <1>5
      <4> QED BY <3>3, <4>1, <4>2
    <3>5. PICK j \in 1 .. m : y = Snapshot(t, j)
      BY <1>4, <3>4
    <3>6. y.version = t.base + j /\ y.status = t.written[j]
      BY <1>4, <3>5
    <3>7. t.base + j = (t.base + i) + 1
      BY <1>8, <3>2, <3>6
    <3>8. i = 1 /\ j = 2 /\ m = 2
      BY <1>1, <3>7
    <3> QED BY <1>2, <3>2, <3>6, <3>8
  <2> QED BY <2>1, <2>2, <2>3
<1> QED BY <1>6, <1>7, <1>8 DEF LegalSnapshots

\* The events a commit adds to the outbox.
LEMMA CommitOutbox ==
  ASSUME Inv, NEW s \in Sessions, Commit(s),
         NEW t, t = txn[s], NEW m, m = Len(t.written)
  PROVE  /\ outbox \subseteq outbox'
         /\ \A e \in outbox' :
              \/ e \in outbox
              \/ /\ e.app = t.app /\ e.op = t.op /\ e.key = t.key
                 /\ \/ m = 0 /\ e = Event(t, 1) /\ e.version = 0
                    \/ m > 0 /\ \E i \in 1 .. m : e = Event(t, i) /\ e.version = t.base + i
         /\ m > 0 => \A i \in 1 .. m : Event(t, i) \in outbox' /\ Event(t, i).app = t.app
                                       /\ Event(t, i).version = t.base + i
<1>0. PICK n : n = EventCount(t)
  OBVIOUS
<1>1. outbox' = outbox \cup NewEvents(t)
  BY CommitTables
<1>a. txn[s].pc = "commit"
  BY CommitStage
<1>2. n \in {1, 2} /\ (n = 2 <=> m = 2) /\ (m > 0 => n = m)
  <2>1. m \in 0 .. 2 /\ (t.written = <<>> <=> m = 0)
    BY <1>a, CommittingSession
  <2>2. n = IF m = 0 THEN 1 ELSE m
    BY <1>0, <2>1 DEF EventCount
  <2> QED BY <2>1, <2>2, AtLeastOne
<1>3. \A i \in 1 .. n : /\ Event(t, i).app = t.app
                        /\ Event(t, i).op = t.op
                        /\ Event(t, i).key = t.key
                        /\ Event(t, i).version = IF m = 0 THEN 0 ELSE t.base + i
  BY <1>0, <1>a, CommitEvents
<1>4. \A e : e \in NewEvents(t) <=> \E i \in 1 .. n : e = Event(t, i)
  BY <1>0 DEF NewEvents
<1>5. m \in 0 .. 2
  BY CommitStage, CommittingSession
<1>6. CASE m = 0
  <2>1. n = 1
    BY <1>2, <1>6
  <2> QED BY <1>1, <1>3, <1>4, <1>6, <2>1
<1>7. CASE m > 0
  <2>1. n = m /\ m # 0
    BY <1>2, <1>5, <1>7
  <2> QED BY <1>1, <1>3, <1>4, <1>7, <2>1
<1> QED BY <1>5, <1>6, <1>7

LEMMA CommitOutboxMatches ==
  ASSUME Inv, NEW s \in Sessions, Commit(s)
  PROVE  OutboxMatchesVersions'
<1> DEFINE t == txn[s]
           m == Len(t.written)
           Told(a) == { e \in outbox : e.app = a /\ e.version > 0 }
<1>0. t = txn[s] /\ m = Len(t.written)
  OBVIOUS
<1> HIDE DEF t, m
<1>1. /\ t.app \in Applications /\ t.base \in Nat /\ m \in 0 .. 2
      /\ t.version = t.base + m
      /\ m > 0 => t.base = row[t.app].version
  BY <1>0, CommitStage, CommittingSession
<1>2. /\ \A b \in Applications \ {t.app} : row'[b] = row[b]
      /\ m = 0 => row' = row
      /\ m > 0 => row'[t.app] = [status |-> t.status, version |-> t.version]
  BY <1>0, CommitTables
<1>3. /\ outbox \subseteq outbox'
      /\ \A e \in outbox' :
           \/ e \in outbox
           \/ /\ e.app = t.app /\ e.op = t.op /\ e.key = t.key
              /\ \/ m = 0 /\ e = Event(t, 1) /\ e.version = 0
                 \/ m > 0 /\ \E i \in 1 .. m : e = Event(t, i) /\ e.version = t.base + i
      /\ m > 0 => \A i \in 1 .. m : Event(t, i) \in outbox' /\ Event(t, i).app = t.app
                                    /\ Event(t, i).version = t.base + i
  BY <1>0, CommitOutbox
<1>4. \A b \in Applications : row[b].version \in Nat
  BY DEF Inv, TypeOK
<1> SUFFICES ASSUME NEW a \in Applications
             PROVE  /\ { e.version : e \in Told(a)' } = 1 .. row'[a].version
                    /\ \A e, f \in Told(a)' : e.version = f.version => e = f
  BY DEF OutboxMatchesVersions
<1>5. /\ { e.version : e \in Told(a) } = 1 .. row[a].version
      /\ \A e, f \in Told(a) : e.version = f.version => e = f
  BY DEF Inv, OutboxMatchesVersions
<1>6. CASE a # t.app \/ m = 0
  <2>1. row'[a] = row[a]
    BY <1>2, <1>6
  <2>2. Told(a)' = Told(a)
    BY <1>3, <1>6
  <2> QED BY <1>5, <2>1, <2>2
<1>7. CASE a = t.app /\ m > 0
  <2>1. row'[a].version = row[a].version + m
    BY <1>1, <1>2, <1>7
  <2>2. \A e \in Told(a)' :
          \/ e \in Told(a) /\ e.version \in 1 .. row[a].version
          \/ \E i \in 1 .. m : e = Event(t, i) /\ e.version = row[a].version + i
    BY <1>1, <1>3, <1>5, <1>7
  <2>3. ASSUME NEW e \in Told(a)' PROVE e.version \in 1 .. row'[a].version
    BY <1>1, <1>4, <2>1, <2>2
  <2>4. ASSUME NEW v \in 1 .. row'[a].version PROVE \E e \in Told(a)' : e.version = v
    <3>1. CASE v <= row[a].version
      <4>1. PICK e \in Told(a) : e.version = v
        BY <1>4, <1>5, <3>1
      <4> QED BY <1>3, <4>1
    <3>2. CASE v > row[a].version
      <4>1. v - row[a].version \in 1 .. m
        BY <1>1, <1>4, <2>1, <3>2
      <4>2. PICK i \in 1 .. m : v = row[a].version + i
        BY <1>4, <4>1
      <4>3. Event(t, i) \in outbox' /\ Event(t, i).app = a /\ Event(t, i).version = v
        BY <1>1, <1>3, <1>7, <4>2
      <4> QED BY <4>3
    <3> QED BY <1>4, <3>1, <3>2
  <2>5. ASSUME NEW e \in Told(a)', NEW f \in Told(a)', e.version = f.version
        PROVE  e = f
    BY <1>1, <1>4, <1>5, <2>2, <2>5
  <2> QED BY <2>3, <2>4, <2>5
<1> QED BY <1>1, <1>6, <1>7

LEMMA CommitKeys ==
  ASSUME Inv, NEW s \in Sessions, Commit(s)
  PROVE  KeysInv'
<1> DEFINE t == txn[s]
           m == Len(t.written)
<1>0. t = txn[s] /\ m = Len(t.written)
  OBVIOUS
<1> HIDE DEF t, m
<1>1. /\ t.base \in Nat /\ m \in 0 .. 2
      /\ m = 2 => t.op = "advance_intake_validation"
      /\ <<t.op, t.key>> \notin keys
  BY <1>0, CommitStage, CommittingSession
<1>2. keys' = keys \cup {<<t.op, t.key>>}
  BY <1>0, CommitTables
<1>3. \A e \in outbox' :
        \/ e \in outbox
        \/ /\ e.app = t.app /\ e.op = t.op /\ e.key = t.key
           /\ \/ m = 0 /\ e = Event(t, 1) /\ e.version = 0
              \/ m > 0 /\ \E i \in 1 .. m : e = Event(t, i) /\ e.version = t.base + i
  BY <1>0, CommitOutbox
<1>4. /\ \A e \in outbox : <<e.op, e.key>> \in keys
      /\ \A e, f \in outbox :
           e.op = f.op /\ e.key = f.key =>
             /\ e.app = f.app
             /\ e.version <= f.version + 1
             /\ e.version = f.version + 1 => e.op = "advance_intake_validation"
  BY DEF Inv, KeysInv
<1>5. \A e \in outbox' : <<e.op, e.key>> \in keys'
  BY <1>2, <1>3, <1>4
<1>6. ASSUME NEW e \in outbox', NEW f \in outbox', e.op = f.op, e.key = f.key
      PROVE  /\ e.app = f.app
             /\ e.version <= f.version + 1
             /\ e.version = f.version + 1 => e.op = "advance_intake_validation"
  <2>1. CASE e \in outbox
    <3>1. f \in outbox
      BY <1>1, <1>3, <1>4, <1>6, <2>1
    <3> QED BY <1>4, <1>6, <2>1, <3>1
  <2>2. CASE e \notin outbox
    <3>1. f \notin outbox
      BY <1>1, <1>3, <1>4, <1>6, <2>2
    <3>2. e.app = f.app /\ e.op = t.op
      BY <1>3, <2>2, <3>1
    <3>3. CASE m = 0
      <4>1. e.version = 0 /\ f.version = 0
        BY <1>3, <2>2, <3>1, <3>3
      <4> QED BY <3>2, <4>1
    <3>4. CASE m > 0
      <4>1. PICK i \in 1 .. m : e.version = t.base + i
        BY <1>3, <2>2, <3>4
      <4>2. PICK j \in 1 .. m : f.version = t.base + j
        BY <1>3, <3>1, <3>4
      <4>3. /\ t.base + i <= (t.base + j) + 1
            /\ t.base + i = (t.base + j) + 1 => m = 2
        BY <1>1
      <4> QED BY <1>1, <3>2, <4>1, <4>2, <4>3
    <3> QED BY <1>1, <3>3, <3>4
  <2> QED BY <2>1, <2>2
<1> QED BY <1>5, <1>6 DEF KeysInv

LEMMA CommitAudit ==
  ASSUME Inv, NEW s \in Sessions, Commit(s)
  PROVE  AuditParentsRecorded'
<1> DEFINE t == txn[s]
           m == Len(t.written)
           n == EventCount(t)
<1>0. t = txn[s] /\ m = Len(t.written) /\ n = EventCount(t)
  OBVIOUS
<1> HIDE DEF t, m, n
<1>1. /\ outbox' = outbox \cup NewEvents(t)
      /\ audit' = audit \cup NewEntries(t)
      /\ checkpoint' = Event(t, n)
  BY <1>0, CommitTables
<1>2. n \in {1, 2}
  BY <1>0, CommitStage, CommitEvents
<1>3. t.read \in outbox \cup {Genesis}
  BY <1>0, CommitStage, CommittingSession
<1>4. \A e : e \in NewEvents(t) <=> \E i \in 1 .. n : e = Event(t, i)
  BY <1>0 DEF NewEvents
<1>5. \A e : e \in NewEntries(t) <=> \E i \in 1 .. n : e = Entry(t, i)
  BY <1>0 DEF NewEntries
<1>6. /\ \A x \in audit : x.event \in outbox /\ x.prev \in outbox \cup {Genesis}
      /\ \A e \in outbox : \E x \in audit : x.event = e
  BY DEF Inv, AuditParentsRecorded
<1>7. \A i \in 1 .. n :
        /\ Entry(t, i).event = Event(t, i)
        /\ Entry(t, i).event \in outbox'
        /\ Entry(t, i).prev \in outbox' \cup {Genesis}
  <2> TAKE i \in 1 .. n
  <2>1. Entry(t, i).event = Event(t, i)
        /\ Entry(t, i).prev = IF i = 1 THEN t.read ELSE Event(t, i - 1)
    BY DEF Entry
  <2>2. i # 1 => i - 1 \in 1 .. n
    BY <1>2
  <2> QED BY <1>1, <1>3, <1>4, <2>1, <2>2
<1>8. \A x \in audit' : x.event \in outbox' /\ x.prev \in outbox' \cup {Genesis}
  BY <1>1, <1>5, <1>6, <1>7
<1>9. \A e \in outbox' : \E x \in audit' : x.event = e
  <2> TAKE e \in outbox'
  <2>1. CASE e \in outbox
    BY <1>1, <1>6, <2>1
  <2>2. CASE e \in NewEvents(t)
    BY <1>1, <1>4, <1>5, <1>7, <2>2
  <2> QED BY <1>1, <2>1, <2>2
<1>10. checkpoint' \in outbox'
  BY <1>1, <1>2, <1>4
<1>11. { x.event : x \in audit' } = outbox'
  BY <1>8, <1>9
<1> QED BY <1>8, <1>10, <1>11 DEF AuditParentsRecorded

-----------------------------------------------------------------------------
(* Invariance                                                              *)

LEMMA InitInv ==
  ASSUME Init
  PROVE  Inv
<1>1. \A s \in Sessions : txn[s] = Closed
  BY DEF Init
<1>2. TypeOK
  BY ClosedOK DEF Init, TypeOK, Transactions, Events, Absent
<1>3. SessionsInv
  BY <1>1, ClosedOK DEF SessionsInv
<1>4. \A a \in Applications : row[a] = Absent /\ row[a].version = 0
  BY DEF Init, Absent
<1>5. NoLostUpdate
  BY <1>4 DEF NoLostUpdate, Versions, Init
<1>6. LegalSnapshots
  BY <1>4 DEF LegalSnapshots, Init
<1>7. OutboxMatchesVersions
  BY <1>4 DEF OutboxMatchesVersions, Init
<1>8. KeysInv /\ AuditParentsRecorded
  BY DEF KeysInv, AuditParentsRecorded, Init
<1> QED BY <1>2, <1>3, <1>5, <1>6, <1>7, <1>8 DEF Inv, HistoryInv

LEMMA CommitKeeps ==
  ASSUME Inv, NEW s \in Sessions, Commit(s)
  PROVE  Inv'
BY CommitTypeOK, CommitSessions, CommitNoLostUpdate, CommitLegalSnapshots,
   CommitOutboxMatches, CommitKeys, CommitAudit DEF Inv, HistoryInv

LEMMA StutterKeeps ==
  ASSUME Inv, UNCHANGED vars
  PROVE  Inv'
<1> USE DEF Inv, vars
<1>1. TypeOK'
  BY DEF TypeOK
<1>2. ASSUME NEW q \in Sessions PROVE SessionOK(txn[q])'
  BY DEF SessionsInv, SessionOK, SessionShape, SessionSeesRow, SessionIsLegal,
     SessionReads, Loaded, Reserved, Creates, MaxWrites
<1>3. ASSUME NEW q \in Sessions, NEW o \in Sessions, q # o
      PROVE  Apart(txn[q], txn[o])'
  BY <1>3 DEF SessionsInv, Apart, Reserved, Creates
<1>4. HistoryInv'
  BY DEF HistoryInv, NoLostUpdate, Versions, LegalSnapshots
<1>5. OutboxMatchesVersions' /\ KeysInv' /\ AuditParentsRecorded'
  BY DEF OutboxMatchesVersions, KeysInv, AuditParentsRecorded
<1> QED BY <1>1, <1>2, <1>3, <1>4, <1>5 DEF SessionsInv

LEMMA StepInv ==
  ASSUME Inv, [Next]_vars
  PROVE  Inv'
<1>1. CASE UNCHANGED vars
  BY <1>1, StutterKeeps
<1>2. ASSUME NEW s \in Sessions, NEW op \in Operations, NEW a \in Applications,
             NEW k \in Keys, Begin(s, op, a, k)
      PROVE  Inv'
  BY <1>2, BeginKeeps
<1>3. ASSUME NEW s \in Sessions, Step(s) PROVE Inv'
  BY <1>3, ReserveKeeps, LoadKeeps, CheckedSaveKeeps, FlushKeeps,
     ReadCheckpointKeeps, RecordKeeps, CommitKeeps DEF Step
<1>4. ASSUME NEW s \in Sessions, CutOff(s) PROVE Inv'
  BY <1>4, RollbackKeeps DEF CutOff
<1> QED BY <1>1, <1>2, <1>3, <1>4 DEF Next

\* The inductive invariant holds of every behaviour of the transactions.
THEOREM SessionsInvariant == Spec => []Inv
<1>1. Init => Inv
  BY InitInv
<1>2. Inv /\ [Next]_vars => Inv'
  BY StepInv
<1> QED BY <1>1, <1>2, PTL DEF Spec

\* Every table and every session holds values of its type, whatever the
\* interleaving of the handlers' transactions, their failures and rollbacks.
THEOREM TypeCorrect == Spec => []TypeOK
<1>1. Inv => TypeOK
  BY DEF Inv
<1> QED BY <1>1, SessionsInvariant, PTL

\* repository.save loses no update although it takes no lock before it reads:
\* the unique version and the row lock of the flush are enough, for any number
\* of sessions.
THEOREM UpdatesAreNotLost == Spec => []NoLostUpdate
<1>1. Inv => NoLostUpdate
  BY DEF Inv, HistoryInv
<1> QED BY <1>1, SessionsInvariant, PTL

\* The outbox written with the rows tells each version once and no other.
THEOREM OutboxIsFaithful == Spec => []OutboxMatchesVersions
<1>1. Inv => OutboxMatchesVersions
  BY DEF Inv
<1> QED BY <1>1, SessionsInvariant, PTL

\* A reserved idempotency key is worked under by one session and committed with
\* the events of one handler.
THEOREM KeysTakeEffectOnce == Spec => []KeyTakesEffectOnce
<1>1. Inv => KeyTakesEffectOnce
  BY DEF Inv, SessionsInv, SessionOK, SessionReads, Apart, Reserved, KeysInv,
     KeyTakesEffectOnce
<1> QED BY <1>1, SessionsInvariant, PTL

\* record_domain_events reads the checkpoint without a lock, and still links
\* only to events that were committed.
THEOREM AuditTrailIsRecorded == Spec => []AuditParentsRecorded
<1>1. Inv => AuditParentsRecorded
  BY DEF Inv
<1> QED BY <1>1, SessionsInvariant, PTL

-----------------------------------------------------------------------------
(* The transactions implement CaseHistory                                  *)

\* The history that the tables r and sn tell, and the tables that tell one.
HistoryOf(r, sn) ==
  [a \in Applications |->
     [v \in 1 .. r[a].version |->
        (CHOOSE n \in sn : n.app = a /\ n.version = v).status]]

TellsHistory(r, sn) ==
  /\ \A a \in Applications : r[a].version \in Nat
  /\ \A n \in sn : n.status \in ApplicationStatus
  /\ \A a \in Applications :
       /\ \A v \in 1 .. r[a].version : \E n \in sn : n.app = a /\ n.version = v
       /\ \A m, n \in sn :
            m.app = a /\ n.app = a /\ m.version = n.version => m = n

LEMMA HistoryEntries ==
  ASSUME NEW r, NEW sn, TellsHistory(r, sn), NEW a \in Applications
  PROVE  /\ HistoryOf(r, sn)[a] \in Seq(ApplicationStatus)
         /\ Len(HistoryOf(r, sn)[a]) = r[a].version
         /\ \A n \in sn : n.app = a /\ n.version \in 1 .. r[a].version =>
              HistoryOf(r, sn)[a][n.version] = n.status
<1> DEFINE h == HistoryOf(r, sn)[a]
           N == r[a].version
           pick(v) == CHOOSE n \in sn : n.app = a /\ n.version = v
<1>1. h = [v \in 1 .. N |-> pick(v).status] /\ N \in Nat
  BY DEF HistoryOf, TellsHistory
<1>2. \A v \in 1 .. N : pick(v) \in sn /\ pick(v).app = a /\ pick(v).version = v
  BY DEF TellsHistory
<1>3. \A v \in 1 .. N : pick(v).status \in ApplicationStatus
  BY <1>2 DEF TellsHistory
<1>4. \A n \in sn : n.app = a /\ n.version \in 1 .. N => n = pick(n.version)
  BY <1>2 DEF TellsHistory
<1> HIDE DEF h, N, pick
<1>5. h \in Seq(ApplicationStatus) /\ Len(h) = N
  BY <1>1, <1>3
<1>6. \A n \in sn : n.app = a /\ n.version \in 1 .. N => h[n.version] = n.status
  BY <1>1, <1>4
<1> QED BY <1>5, <1>6 DEF h, N

LEMMA TablesTellHistory ==
  ASSUME NEW r, NEW sn,
         \A a \in Applications : r[a].version \in Nat,
         \A n \in sn : n.status \in ApplicationStatus,
         \A a \in Applications :
           /\ { n.version : n \in { m \in sn : m.app = a } } = 1 .. r[a].version
           /\ \A m, n \in sn :
                m.app = a /\ n.app = a /\ m.version = n.version => m = n
  PROVE  TellsHistory(r, sn)
<1>1. ASSUME NEW a \in Applications, NEW v \in 1 .. r[a].version
      PROVE  \E n \in sn : n.app = a /\ n.version = v
  OBVIOUS
<1> QED BY <1>1 DEF TellsHistory

LEMMA InvTellsHistory ==
  ASSUME Inv
  PROVE  TellsHistory(row, snapshots)
BY TablesTellHistory DEF Inv, TypeOK, HistoryInv, NoLostUpdate, Versions

LEMMA InvTellsHistoryNext ==
  ASSUME Inv'
  PROVE  TellsHistory(row', snapshots')
BY TablesTellHistory DEF Inv, TypeOK, HistoryInv, NoLostUpdate, Versions

\* The instance of the status machine in CaseHistory is the status machine.
LEMMA SameMachine ==
  \A x, y : CH!is_legal_transition(x, y) <=> is_legal_transition(x, y)
BY DEF CH!is_legal_transition, is_legal_transition, CH!ALLOWED_TRANSITIONS,
   ALLOWED_TRANSITIONS, CH!_FORWARD_PIPELINE, _FORWARD_PIPELINE,
   CH!_CAN_ESCALATE_TO_HUMAN_REVIEW, _CAN_ESCALATE_TO_HUMAN_REVIEW,
   CH!HumanOutcomes, HumanOutcomes, CH!_CANCELLABLE_FROM, _CANCELLABLE_FROM,
   CH!ApplicationStatus, ApplicationStatus, CH!Pipeline, Pipeline,
   CH!TERMINAL_STATUSES, TERMINAL_STATUSES

\* A longer sequence that agrees with a shorter one begins with it.
LEMMA BeginsWith ==
  ASSUME NEW S, NEW old \in Seq(S), NEW new \in Seq(S), Len(old) <= Len(new),
         \A i \in 1 .. Len(old) : new[i] = old[i]
  PROVE  SubSeq(new, 1, Len(old)) = old
<1>1. Len(old) \in Nat /\ Len(new) \in Nat
  OBVIOUS
<1>2. SubSeq(new, 1, Len(old)) \in Seq(S) /\ Len(SubSeq(new, 1, Len(old))) = Len(old)
  BY <1>1
<1>3. \A i \in 1 .. Len(old) : SubSeq(new, 1, Len(old))[i] = old[i]
  BY <1>1
<1> QED BY <1>2, <1>3

\* A commit that wrote adds what it wrote to the history of its application.
LEMMA CommitExtends ==
  ASSUME Inv, NEW s \in Sessions, Commit(s), txn[s].written # <<>>
  PROVE  CH!Next
<1> DEFINE t == txn[s]
           m == Len(t.written)
           a == t.app
           old == history[a]
           new == history'[a]
<1>0. t = txn[s] /\ m = Len(t.written)
  OBVIOUS
<1> HIDE DEF t, m
<1>1. /\ a \in Applications /\ t.base \in Nat /\ m \in 0 .. 2 /\ m # 0
      /\ t.version = t.base + m
      /\ m > 0 => t.base = row[a].version
  BY <1>0, CommitStage, CommittingSession
<1>2. m \in {1, 2} /\ m > 0 /\ t.base = row[a].version
  BY <1>1
<1>3. /\ \A b \in Applications \ {a} : row'[b] = row[b]
      /\ m > 0 => row'[a] = [status |-> t.status, version |-> t.version]
  BY <1>0, CommitTables
<1>4. row'[a].version = t.base + m
  BY <1>1, <1>2, <1>3
<1>5. /\ \A x \in snapshots' :
           \/ x \in snapshots
           \/ m > 0 /\ \E i \in 1 .. m : x = Snapshot(t, i)
      /\ snapshots \subseteq snapshots'
      /\ \A i \in 1 .. m : Snapshot(t, i).app = a
  BY <1>0, CommitSnapshots
<1>6. Inv'
  BY CommitKeeps
<1>7. TellsHistory(row, snapshots) /\ TellsHistory(row', snapshots')
  BY <1>6, InvTellsHistory, InvTellsHistoryNext
<1>8. history = HistoryOf(row, snapshots) /\ history' = HistoryOf(row', snapshots')
  BY DEF history, HistoryOf
<1>9. history = [b \in Applications |-> history[b]]
      /\ history' = [b \in Applications |-> history'[b]]
  BY <1>8 DEF HistoryOf
<1>10. \A b \in Applications :
         /\ history[b] \in Seq(ApplicationStatus)
         /\ Len(history[b]) = row[b].version
         /\ \A n \in snapshots : n.app = b /\ n.version \in 1 .. row[b].version =>
              history[b][n.version] = n.status
  BY <1>7, <1>8, HistoryEntries
<1>11. \A b \in Applications :
         /\ history'[b] \in Seq(ApplicationStatus)
         /\ Len(history'[b]) = row'[b].version
         /\ \A n \in snapshots' : n.app = b /\ n.version \in 1 .. row'[b].version =>
              history'[b][n.version] = n.status
  BY <1>7, <1>8, HistoryEntries
<1>12. ASSUME NEW b \in Applications, NEW v \in 1 .. row[b].version
       PROVE  history'[b][v] = history[b][v] /\ v \in 1 .. row'[b].version
  <2>1. PICK n \in snapshots : n.app = b /\ n.version = v
    BY <1>7 DEF TellsHistory
  <2>2. row[b].version \in Nat /\ (row'[b] = row[b] \/ row'[b].version = row[b].version + m)
    BY <1>2, <1>3, <1>4, <1>7 DEF TellsHistory
  <2>3. v \in 1 .. row'[b].version
    BY <1>2, <2>2
  <2>4. n \in snapshots'
    BY <1>5
  <2> QED BY <1>10, <1>11, <2>1, <2>3, <2>4
<1>13. ASSUME NEW b \in Applications, b # a PROVE history'[b] = history[b]
  <2>1. row'[b] = row[b]
    BY <1>3, <1>13
  <2>2. Len(history[b]) = Len(history'[b])
    BY <1>10, <1>11, <2>1
  <2>3. \A v \in 1 .. Len(history[b]) : history'[b][v] = history[b][v]
    BY <1>10, <1>12
  <2> QED BY <1>10, <1>11, <2>2, <2>3
<1>14. history' = [history EXCEPT ![a] = history'[a]]
  BY <1>9, <1>13
<1>15. /\ old \in Seq(ApplicationStatus) /\ new \in Seq(ApplicationStatus)
       /\ Len(old) = t.base /\ Len(new) = t.base + m
       /\ \A i \in 1 .. Len(old) : new[i] = old[i]
  BY <1>1, <1>2, <1>4, <1>10, <1>11, <1>12
<1>16. \A v \in 1 .. Len(new) : \E n \in snapshots' :
          n.app = a /\ n.version = v /\ new[v] = n.status
  BY <1>1, <1>7, <1>11 DEF TellsHistory
<1> HIDE DEF old, new, a
<1>17. Len(new) \in {Len(old) + 1, Len(old) + 2}
  BY <1>2, <1>15
<1>18. SubSeq(new, 1, Len(old)) = old
  <2>1. Len(old) <= Len(new)
    BY <1>1, <1>2, <1>15
  <2> QED BY <1>15, <2>1, BeginsWith
<1>19. CH!LegalHistory(new)
  <2>1. LegalSnapshots'
    BY <1>6 DEF Inv, HistoryInv
  <2>2. Len(new) \in Nat /\ Len(new) >= 1
    BY <1>1, <1>2, <1>15
  <2>3. new[1] = "DRAFT"
    <3>1. PICK n \in snapshots' : n.app = a /\ n.version = 1 /\ new[1] = n.status
      BY <1>16, <2>2
    <3> QED BY <2>1, <3>1 DEF LegalSnapshots
  <2>4. ASSUME NEW i \in 1 .. Len(new) - 1
        PROVE  is_legal_transition(new[i], new[i + 1])
    <3>1. i \in 1 .. Len(new) /\ i + 1 \in 1 .. Len(new)
      BY <2>2
    <3>2. PICK x \in snapshots' : x.app = a /\ x.version = i /\ new[i] = x.status
      BY <1>16, <3>1
    <3>3. PICK y \in snapshots' : y.app = a /\ y.version = i + 1 /\ new[i + 1] = y.status
      BY <1>16, <3>1
    <3> QED BY <2>1, <3>2, <3>3 DEF LegalSnapshots
  <2> QED BY <2>3, <2>4, SameMachine DEF CH!LegalHistory
<1>20. CH!Extend(a)
  BY <1>14, <1>17, <1>18, <1>19 DEF CH!Extend, old, new
<1> QED BY <1>1, <1>20 DEF CH!Next

\* Every other step leaves the history alone.
LEMMA HistoryStep ==
  ASSUME Inv, [Next]_vars
  PROVE  CH!Next \/ UNCHANGED history
<1>1. CASE UNCHANGED <<row, snapshots>>
  BY <1>1 DEF history
<1>2. CASE UNCHANGED vars
  BY <1>1, <1>2 DEF vars
<1>3. ASSUME NEW s \in Sessions,
             \/ \E op \in Operations, a \in Applications, k \in Keys : Begin(s, op, a, k)
             \/ CutOff(s)
             \/ ReserveIdempotencyKey(s) \/ Load(s) \/ CheckedSave(s)
             \/ FlushSave(s) \/ ReadCheckpoint(s) \/ RecordDomainEvents(s)
      PROVE  UNCHANGED db
  BY <1>3 DEF Begin, CutOff, ReserveIdempotencyKey, Load, CheckedSave, FlushSave,
     ReadCheckpoint, RecordDomainEvents, Rollback, Goto
<1>4. ASSUME NEW s \in Sessions, Commit(s), txn[s].written = <<>>
      PROVE  UNCHANGED <<row, snapshots>>
  <2> DEFINE t == txn[s]
             m == Len(t.written)
  <2>1. t = txn[s] /\ m = Len(t.written) /\ m = 0
    BY <1>4
  <2> HIDE DEF t, m
  <2>2. row' = row /\ snapshots' = snapshots \cup NewSnapshots(t)
    BY <1>4, <2>1, CommitTables
  <2>3. NewSnapshots(t) = {}
    BY <2>1 DEF NewSnapshots
  <2> QED BY <2>2, <2>3
<1> QED BY <1>1, <1>2, <1>3, <1>4, CommitExtends DEF Next, Step, db

\* The handlers' transactions, interleaved in any way, implement one history
\* per application that starts as a draft, only grows at its end and takes only
\* legal steps.
THEOREM TransactionsImplementHistory == Spec => ImplementsCaseHistory
<1>1. Init => CH!Init
  <2> SUFFICES ASSUME Init PROVE CH!Init
    OBVIOUS
  <2>1. Inv
    BY InitInv
  <2>2. history = HistoryOf(row, snapshots) /\ TellsHistory(row, snapshots)
    BY <2>1, InvTellsHistory DEF history, HistoryOf
  <2>3. \A a \in Applications : history[a] \in Seq(ApplicationStatus) /\ Len(history[a]) = 0
    BY <2>2, HistoryEntries DEF Init, Absent
  <2>4. \A a \in Applications : history[a] = <<>>
    BY <2>3
  <2>5. history = [a \in Applications |-> history[a]]
    BY DEF history
  <2> QED BY <2>4, <2>5 DEF CH!Init
<1>2. Inv /\ [Next]_vars => [CH!Next]_history
  BY HistoryStep
<1> QED BY <1>1, <1>2, SessionsInvariant, PTL DEF Spec, ImplementsCaseHistory, CH!Spec

-----------------------------------------------------------------------------
(* Waiting.  TransactionsEnd rests on two facts that need no fairness: some *)
(* open transaction never waits, and every step brings its transaction      *)
(* nearer to its end.                                                       *)

\* Session s cannot go on before session o ends: o holds the key that s wants to
\* reserve, the application row that it wants to write, or the checkpoint row.
WaitsFor(s, o) ==
  \/ txn[s].pc = "reserve" /\ HoldsKey(o, txn[s].op, txn[s].key)
  \/ txn[s].pc = "flush" /\ o # s /\ txn[o].app = txn[s].app /\ txn[o].written # <<>>
  \/ txn[s].pc = "record" /\ txn[o].pc = "commit"

\* Which locks a session may hold: none, its key, an application row, the
\* checkpoint row.
LockLevel(t) ==
  IF ~Reserved(t) THEN 0
  ELSE IF t.pc = "commit" THEN 3
       ELSE IF t.written # <<>> \/ t.pc \in {"read", "record"} THEN 2 ELSE 1

\* Locks are taken in one order: whoever waits holds less than the one it waits
\* for.
LocksAreOrdered ==
  \A s, o \in Sessions : WaitsFor(s, o) => LockLevel(txn[s]) < LockLevel(txn[o])

Open(s) == txn[s].pc # "idle"

\* Of the open transactions one waits for nobody.
SomeoneProceeds ==
  (\E s \in Sessions : Open(s)) =>
    \E s \in Sessions : Open(s) /\ \A o \in Sessions : ~WaitsFor(s, o)

\* WaitsFor is what holds the steps back: a session that takes a step waits for
\* nobody.
LEMMA StepDoesNotWait ==
  ASSUME NEW s \in Sessions, Step(s), NEW o \in Sessions
  PROVE  ~WaitsFor(s, o)
<1>1. CASE txn[s].pc = "reserve"
  BY <1>1 DEF Step, WaitsFor, ReserveIdempotencyKey, Load, CheckedSave, FlushSave,
     ReadCheckpoint, RecordDomainEvents, Commit
<1>2. CASE txn[s].pc = "flush"
  BY <1>2 DEF Step, WaitsFor, ReserveIdempotencyKey, Load, CheckedSave, FlushSave,
     ReadCheckpoint, RecordDomainEvents, Commit, RowLockedByOther
<1>3. CASE txn[s].pc = "record"
  BY <1>3 DEF Step, WaitsFor, ReserveIdempotencyKey, Load, CheckedSave, FlushSave,
     ReadCheckpoint, RecordDomainEvents, Commit
<1> QED BY <1>1, <1>2, <1>3 DEF WaitsFor

LEMMA WaitersHoldLess ==
  ASSUME Inv
  PROVE  LocksAreOrdered
<1> SUFFICES ASSUME NEW s \in Sessions, NEW o \in Sessions, WaitsFor(s, o)
             PROVE  LockLevel(txn[s]) < LockLevel(txn[o])
  BY DEF LocksAreOrdered
<1>1. CASE txn[s].pc = "reserve" /\ HoldsKey(o, txn[s].op, txn[s].key)
  BY <1>1 DEF HoldsKey, LockLevel, Reserved
<1>2. CASE /\ txn[s].pc = "flush" /\ o # s
           /\ txn[o].app = txn[s].app /\ txn[o].written # <<>>
  <2>1. txn[s].written = <<>>
    BY <1>2 DEF Inv, SessionsInv, Apart
  <2>2. Reserved(txn[o])
    BY <1>2 DEF Inv, SessionsInv, SessionOK, SessionShape, Loaded, Reserved
  <2> QED BY <1>2, <2>1, <2>2 DEF LockLevel, Reserved
<1>3. CASE txn[s].pc = "record" /\ txn[o].pc = "commit"
  BY <1>3 DEF LockLevel, Reserved
<1> QED BY <1>1, <1>2, <1>3 DEF WaitsFor

\* A session with the highest lock level among the open ones waits for nobody.
LEMMA HighestProceeds ==
  ASSUME LocksAreOrdered
  PROVE  SomeoneProceeds
<1> SUFFICES ASSUME NEW s \in Sessions, Open(s),
                    \A q \in Sessions : Open(q) => \E o \in Sessions : WaitsFor(q, o)
             PROVE  FALSE
  BY DEF SomeoneProceeds
<1>1. \A q \in Sessions : LockLevel(txn[q]) \in 0 .. 3
  BY DEF LockLevel
<1>2. \A q \in Sessions : LockLevel(txn[q]) > 0 => Open(q)
  BY DEF LockLevel, Reserved, Open
<1>3. ASSUME NEW q \in Sessions, Open(q)
      PROVE  \E o \in Sessions : Open(o) /\ LockLevel(txn[q]) < LockLevel(txn[o])
  <2>1. PICK o \in Sessions : WaitsFor(q, o)
    BY <1>3
  <2>2. LockLevel(txn[q]) < LockLevel(txn[o])
    BY <2>1 DEF LocksAreOrdered
  <2> QED BY <1>1, <1>2, <2>2
<1>4. PICK q1 \in Sessions : Open(q1) /\ LockLevel(txn[q1]) >= 1
  BY <1>1, <1>3
<1>5. PICK q2 \in Sessions : Open(q2) /\ LockLevel(txn[q2]) >= 2
  BY <1>1, <1>3, <1>4
<1>6. PICK q3 \in Sessions : Open(q3) /\ LockLevel(txn[q3]) >= 3
  BY <1>1, <1>3, <1>5
<1> QED BY <1>1, <1>3, <1>6

\* The handlers' transactions never deadlock over the three locks modelled: key,
\* application row and audit checkpoint are taken in this order, whatever the
\* interleaving (SqlAlchemyUnitOfWork), so that one of the open transactions can
\* always go on.  The lock of a review queue row is not among them.
THEOREM TransactionsDoNotDeadlock == Spec => [](LocksAreOrdered /\ SomeoneProceeds)
<1>1. Inv => LocksAreOrdered /\ SomeoneProceeds
  BY WaitersHoldLess, HighestProceeds
<1> QED BY <1>1, SessionsInvariant, PTL

\* How far a session has come.  It passes "save" and "flush" once for each status
\* that it writes.
PlaceOf ==
  [reserve |-> 0, load |-> 1, save |-> 2, flush |-> 3, read |-> 7, record |-> 8,
   commit |-> 9]

Place(t) ==
  PlaceOf[t.pc] + IF t.pc \in {"save", "flush"} THEN Len(t.written) + Len(t.written) ELSE 0

LEMMA AtMostOne ==
  ASSUME NEW x \in Nat, NEW y \in Nat, y > 0, NEW z \in {1, 2}, x + y <= z
  PROVE  x \in 0 .. 1
OBVIOUS

LEMMA PlacesInOrder ==
  ASSUME NEW w \in 0 .. 1
  PROVE  /\ 2 + w + w \in 0 .. 9 /\ 3 + w + w \in 0 .. 9
         /\ 3 + w + w < 2 + (w + 1) + (w + 1)
         /\ 3 + w + w < 7
OBVIOUS

\* A session that has a status left to write has written at most one.
LEMMA RoomToWrite ==
  ASSUME NEW t \in Transactions, SessionShape(t), t.pc \in {"save", "flush"}
  PROVE  Len(t.written) \in 0 .. 1
<1>1. Len(t.written) \in Nat /\ Len(t.todo) \in Nat
  BY DEF Transactions
<1>2. t.todo # <<>>
  BY DEF SessionShape
<1>3. Len(t.todo) > 0
  BY <1>1, <1>2 DEF Transactions
<1>4. MaxWrites(t) \in {1, 2} /\ Len(t.written) + Len(t.todo) <= MaxWrites(t)
  BY DEF MaxWrites, SessionShape
<1> QED BY <1>1, <1>3, <1>4, AtMostOne

\* The places of a session that saves.
LEMMA SavingPlace ==
  ASSUME NEW t, NEW w \in Nat, w = Len(t.written)
  PROVE  /\ t.pc = "save" => Place(t) = 2 + w + w
         /\ t.pc = "flush" => Place(t) = 3 + w + w
<1>1. CASE t.pc = "save"
  BY <1>1 DEF Place, PlaceOf
<1>2. CASE t.pc = "flush"
  BY <1>2 DEF Place, PlaceOf
<1> QED BY <1>1, <1>2

LEMMA PlaceIsBounded ==
  ASSUME Inv, NEW s \in Sessions, Open(s)
  PROVE  Place(txn[s]) \in 0 .. 9
<1>0. PICK t : t = txn[s]
  OBVIOUS
<1>1. t \in Transactions /\ SessionOK(t)
  BY <1>0, TxnType DEF Inv, SessionsInv
<1>2. t.pc \in DOMAIN PlaceOf
  BY <1>0, <1>1 DEF Transactions, Open, PlaceOf
<1>3. CASE t.pc \in {"save", "flush"}
  <2>1. Len(t.written) \in 0 .. 1
    BY <1>1, <1>3, RoomToWrite DEF SessionOK
  <2>2. PICK w \in 0 .. 1 : w = Len(t.written)
    BY <2>1
  <2>3. Place(t) \in {2 + w + w, 3 + w + w}
    BY <1>3, <2>2, SavingPlace
  <2>4. Place(t) \in 0 .. 9
    BY <2>2, <2>3, PlacesInOrder, Zenon
  <2> QED BY <1>0, <2>4
<1>4. CASE t.pc \notin {"save", "flush"}
  BY <1>0, <1>2, <1>4 DEF Place, PlaceOf
<1> QED BY <1>3, <1>4

\* What a step makes of the session that takes it, if that stays open.
LEMMA StepGoesForward ==
  ASSUME Inv, NEW s \in Sessions, Step(s), Open(s)'
  PROVE  Place(txn[s]) < Place(txn[s])'
<1> DEFINE t == txn[s]
           u == txn'[s]
<1>0. txn \in [Sessions -> Transactions] /\ t \in Transactions /\ SessionOK(t)
  BY TxnType DEF Inv, SessionsInv
<1>1. ~Rollback(s)
  BY <1>0, ClosedOK DEF Rollback, Open
<1>2. CASE ReserveIdempotencyKey(s)
  <2>1. t.pc = "reserve" /\ u.pc \in {"load", "flush"} /\ u.written = t.written
    BY <1>0, <1>1, <1>2 DEF ReserveIdempotencyKey, Goto, Transactions
  <2>2. u.written = <<>>
    BY <1>0, <2>1 DEF SessionOK, SessionShape, Loaded
  <2> QED BY <2>1, <2>2 DEF Place, PlaceOf
<1>3. CASE Load(s)
  <2>1. t.pc = "load" /\ u.pc \in {"read", "save"} /\ u.written = t.written
    BY <1>0, <1>1, <1>3 DEF Load, Transactions
  <2>2. u.written = <<>>
    BY <1>0, <2>1 DEF SessionOK, SessionShape, Loaded
  <2> QED BY <2>1, <2>2 DEF Place, PlaceOf
<1>4. CASE CheckedSave(s)
  <2>1. t.pc = "save" /\ u.pc = "flush" /\ u.written = t.written
    BY <1>0, <1>1, <1>4 DEF CheckedSave, Goto, Transactions
  <2>2. Len(t.written) \in Nat
    BY <1>0 DEF Transactions
  <2> QED BY <2>1, <2>2 DEF Place, PlaceOf
<1>5. CASE FlushSave(s)
  <2>1. /\ t.pc = "flush" /\ u.pc \in {"save", "read"}
        /\ u.written = Append(t.written, Head(t.todo))
    BY <1>0, <1>1, <1>5 DEF FlushSave, Transactions
  <2>2. Len(t.written) \in 0 .. 1 /\ t.written \in Seq(ApplicationStatus)
    BY <1>0, <2>1, RoomToWrite DEF SessionOK, Transactions
  <2>3. PICK w \in 0 .. 1 : w = Len(t.written)
    BY <2>2
  <2> HIDE DEF t, u
  <2>4. Len(u.written) = w + 1
    BY <2>1, <2>2, <2>3
  <2>5. Place(t) = 3 + w + w
    BY <2>1, <2>3, SavingPlace
  <2>6. u.pc = "save" => Place(u) = 2 + (w + 1) + (w + 1)
    BY <2>3, <2>4, SavingPlace
  <2>7. u.pc = "read" => Place(u) = 7
    BY DEF Place, PlaceOf
  <2>8. Place(t) < Place(u)
    <3>1. 3 + w + w < 2 + (w + 1) + (w + 1) /\ 3 + w + w < 7
      BY <2>3, PlacesInOrder, Zenon
    <3>2. Place(u) \in {2 + (w + 1) + (w + 1), 7}
      BY <2>1, <2>6, <2>7
    <3> QED BY <2>5, <3>1, <3>2
  <2> QED BY <2>8 DEF Place, t, u
<1>6. CASE ReadCheckpoint(s)
  <2>1. t.pc = "read" /\ u.pc = "record"
    BY <1>0, <1>6 DEF ReadCheckpoint, Transactions
  <2> QED BY <2>1 DEF Place, PlaceOf
<1>7. CASE RecordDomainEvents(s)
  <2>1. t.pc = "record" /\ u.pc = "commit"
    BY <1>0, <1>1, <1>7 DEF RecordDomainEvents, Goto, Transactions
  <2> QED BY <2>1 DEF Place, PlaceOf
<1>8. CASE Commit(s)
  BY <1>0, <1>8, ClosedOK DEF Commit, Open
<1> QED BY <1>2, <1>3, <1>4, <1>5, <1>6, <1>7, <1>8 DEF Step

\* A session keeps its place, goes forward, or ends; nothing takes it back.
GoesForward(s) ==
  Open(s) /\ Open(s)' =>
    txn'[s] = txn[s] \/ Place(txn[s]) < Place(txn[s])'

\* A transaction takes a bounded number of steps: each one that does not end it
\* takes it to a later place, of which there are ten.
THEOREM TransactionsGoForward ==
  Spec => /\ [](\A s \in Sessions : Open(s) => Place(txn[s]) \in 0 .. 9)
          /\ [][\A s \in Sessions : GoesForward(s)]_vars
<1>1. Inv => \A s \in Sessions : Open(s) => Place(txn[s]) \in 0 .. 9
  BY PlaceIsBounded
<1>2. ASSUME Inv, [Next]_vars PROVE [\A s \in Sessions : GoesForward(s)]_vars
  <2>1. ASSUME NEW q \in Sessions, NEW s \in Sessions,
               \/ \E op \in Operations, a \in Applications, k \in Keys :
                    Begin(q, op, a, k)
               \/ Step(q)
               \/ CutOff(q)
        PROVE  GoesForward(s)
    <3>1. txn \in [Sessions -> Transactions]
      BY <1>2, TxnType DEF Inv
    <3>2. PICK new : txn' = [txn EXCEPT ![q] = new]
      BY <2>1, Zenon DEF Begin, Step, CutOff, ReserveIdempotencyKey, Load, CheckedSave,
         FlushSave, ReadCheckpoint, RecordDomainEvents, Commit, Rollback, Goto
    <3>3. CASE s # q
      BY <3>1, <3>2, <3>3 DEF GoesForward
    <3>4. CASE s = q /\ Step(q)
      BY <1>2, <3>4, StepGoesForward DEF GoesForward
    <3>5. CASE s = q /\ CutOff(q)
      BY <3>1, <3>5, ClosedOK DEF CutOff, Rollback, GoesForward, Open
    <3>6. CASE s = q /\ ~Open(s)
      BY <3>6 DEF GoesForward
    <3>7. ASSUME NEW op, NEW a, NEW k, Begin(q, op, a, k) PROVE ~Open(q)
      BY <3>7 DEF Begin, Open
    <3> QED BY <2>1, <3>3, <3>4, <3>5, <3>6, <3>7
  <2> QED BY <1>2, <2>1 DEF Next
<1> QED BY <1>1, <1>2, SessionsInvariant, PTL DEF Spec
==============================================================================
