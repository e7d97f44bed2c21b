---------------------------- MODULE EventPipeline ----------------------------
(***************************************************************************)
(* From a committed status change to the status projection: the outbox     *)
(* relay (src/finassist/infrastructure/kafka/outbox_relay.py), the Kafka   *)
(* topic, and the projection consumer (projection_consumer.py) with its    *)
(* inbox.  Relays and the consumer may fail at any step; the worker's      *)
(* retry loop (apps/worker/main.py) starts them again.                     *)
(*                                                                         *)
(* An event is named by its application and the version it announces,      *)
(* which UnitOfWork shows to be unique; the status a version stands for is *)
(* fixed, so the projection is represented by its version.                 *)
(***************************************************************************)
EXTENDS Naturals, Sequences

CONSTANTS
  Applications,  \* the applications of one tenant
  Relays,        \* the relay instances
  Partitions,    \* the partitions of the applications topic
  PartitionOf,   \* the partition each application id hashes to
  BatchSize,     \* limit of one relay sweep
  MaxVersion,    \* bound: versions per application
  MaxFaults      \* bound: failures injected into one behaviour

ASSUME PartitionOfAssumption == PartitionOf \in [Applications -> Partitions]
ASSUME BatchSizeAssumption == BatchSize \in Nat \ {0}
ASSUME BoundsAssumption == MaxVersion \in Nat /\ MaxFaults \in Nat

VARIABLES
  version,     \* committed version of each application
  outbox,      \* outbox rows, in created_at order
  published,   \* the rows whose published_at is set
  batch,       \* the rows each relay has locked and not yet published
  sent,        \* the rows each relay has locked and published
  topic,       \* the records of each partition
  position,    \* the consumer's fetch position in each partition
  committed,   \* the committed offset of each partition
  fetched,     \* the records returned by getmany and not yet applied
  current,     \* the partition whose records are being applied
  inbox,       \* inbox_messages: the events applied
  projection,  \* status_projection: the version shown, 0 when there is no row
  faults       \* failures injected so far

relayVars == <<published, batch, sent>>
consumerVars == <<position, committed, fetched, current, inbox, projection>>
vars == <<version, outbox, relayVars, topic, consumerVars, faults>>

NoPartition == "none"

Events == [app : Applications, version : 1 .. MaxVersion]

InSeq(x, seq) == \E i \in DOMAIN seq : seq[i] = x

Init ==
  /\ version = [a \in Applications |-> 0]
  /\ outbox = <<>>
  /\ published = {}
  /\ batch = [r \in Relays |-> <<>>]
  /\ sent = [r \in Relays |-> {}]
  /\ topic = [p \in Partitions |-> <<>>]
  /\ position = [p \in Partitions |-> 0]
  /\ committed = [p \in Partitions |-> 0]
  /\ fetched = [p \in Partitions |-> <<>>]
  /\ current = NoPartition
  /\ inbox = {}
  /\ projection = [a \in Applications |-> 0]
  /\ faults = 0

-----------------------------------------------------------------------------
(* The outbox                                                              *)

\* A command commits a new version and its event.  created_at is read from the
\* clock of whichever process ran the command before its transaction commits,
\* so the row may sort before rows that are already there.
CommitVersion(a) ==
  LET e == [app |-> a, version |-> version[a] + 1]
  IN /\ version[a] < MaxVersion
     /\ version' = [version EXCEPT ![a] = @ + 1]
     /\ \E i \in 0 .. Len(outbox) :
          outbox' = SubSeq(outbox, 1, i) \o <<e>>
                    \o SubSeq(outbox, i + 1, Len(outbox))
     /\ UNCHANGED <<relayVars, topic, consumerVars, faults>>

\* Mutant: a sweep that reads without locking.
NotLocked(e) == FALSE

\* FOR UPDATE SKIP LOCKED: rows in another relay's sweep are passed over.
Locked(e) == \E r \in Relays : InSeq(e, batch[r]) \/ e \in sent[r]

Sweeping(r) == batch[r] # <<>> \/ sent[r] # {}

\* The places of the rows a sweep may take.
OpenRows ==
  { i \in DOMAIN outbox : outbox[i] \notin published /\ ~Locked(outbox[i]) }

\* ORDER BY created_at LIMIT: a sweep takes the oldest open rows in their order,
\* and leaves one out only when it has reached the limit.
NextBatch(rows) ==
  /\ \A i, j \in DOMAIN rows : i < j => rows[i] < rows[j]
  /\ \A k \in OpenRows :
       \/ InSeq(k, rows)
       \/ Len(rows) = BatchSize /\ \A i \in DOMAIN rows : rows[i] < k

BeginSweep(r) ==
  /\ ~Sweeping(r)
  /\ \E n \in 1 .. BatchSize : \E rows \in [1 .. n -> OpenRows] :
       /\ NextBatch(rows)
       /\ batch' = [batch EXCEPT ![r] = [i \in 1 .. n |-> outbox[rows[i]]]]
  /\ UNCHANGED <<version, outbox, published, sent, topic, consumerVars, faults>>

Deliver(e) ==
  topic' = [topic EXCEPT ![PartitionOf[e.app]] = Append(@, e)]

\* One send_and_wait, in the order of the sweep.
Publish(r) ==
  /\ batch[r] # <<>>
  /\ Deliver(Head(batch[r]))
  /\ batch' = [batch EXCEPT ![r] = Tail(@)]
  /\ sent' = [sent EXCEPT ![r] = @ \cup {Head(batch[r])}]
  /\ UNCHANGED <<version, outbox, published, consumerVars, faults>>

\* Only when every row was acknowledged is published_at committed.
CommitSweep(r) ==
  /\ batch[r] = <<>>
  /\ sent[r] # {}
  /\ published' = published \cup sent[r]
  /\ sent' = [sent EXCEPT ![r] = {}]
  /\ UNCHANGED <<version, outbox, batch, topic, consumerVars, faults>>

\* A publish fails, with or without the broker having stored the record, or the
\* relay dies: the transaction rolls back and every row of the sweep is open
\* again.
FailSweep(r) ==
  /\ Sweeping(r)
  /\ faults < MaxFaults
  /\ faults' = faults + 1
  /\ \/ UNCHANGED topic
     \/ batch[r] # <<>> /\ Deliver(Head(batch[r]))
  /\ batch' = [batch EXCEPT ![r] = <<>>]
  /\ sent' = [sent EXCEPT ![r] = {}]
  /\ UNCHANGED <<version, outbox, published, consumerVars>>

-----------------------------------------------------------------------------
(* The projection consumer                                                 *)

Processing == current # NoPartition \/ \E p \in Partitions : fetched[p] # <<>>

\* getmany returns some of the records not yet fetched, from one or several
\* partitions, and moves the position of each of those partitions past them.
GetMany ==
  /\ ~Processing
  /\ \E upto \in [Partitions -> UNION { 0 .. Len(topic[p]) : p \in Partitions }] :
       /\ \A p \in Partitions : upto[p] \in position[p] .. Len(topic[p])
       /\ upto # position
       /\ fetched' = [p \in Partitions |->
                        SubSeq(topic[p], position[p] + 1, upto[p])]
       /\ position' = upto
  /\ UNCHANGED <<version, outbox, relayVars, topic, committed, current, inbox,
                 projection, faults>>

\* Mutant: the event applied last wins.
LastWins(e, shown) == e.version

\* The version the projection shows after event e: a later one only.
Projected(e, shown) == IF e.version >= shown THEN e.version ELSE shown

\* _apply_event, in one transaction: the inbox insert, and unless that finds the
\* event already there, the upsert of the projection.
ApplyEvent(p) ==
  LET e == Head(fetched[p])
  IN /\ current \in {NoPartition, p}
     /\ fetched[p] # <<>>
     /\ current' = p
     /\ fetched' = [fetched EXCEPT ![p] = Tail(@)]
     /\ IF e \in inbox
        THEN UNCHANGED <<inbox, projection>>
        ELSE /\ inbox' = inbox \cup {e}
             /\ projection' = [projection EXCEPT
                                 ![e.app] = Projected(e, @)]
     /\ UNCHANGED <<version, outbox, relayVars, topic, position, committed,
                    faults>>

\* Mutants: everything on the topic is acknowledged; one record too many is.
EndOfTopic == [p \in Partitions |-> Len(topic[p])]
PastPosition == [p \in Partitions |-> position[p] + 1]

\* The offsets consumer.commit() sends: the positions of all partitions.
OffsetsToCommit == position

\* After the last record of a partition's list.
CommitOffsets ==
  /\ current # NoPartition
  /\ fetched[current] = <<>>
  /\ committed' = OffsetsToCommit
  /\ current' = NoPartition
  /\ UNCHANGED <<version, outbox, relayVars, topic, position, fetched, inbox,
                 projection, faults>>

\* The consumer dies or an event raises: it starts again from the committed
\* offsets.
RestartConsumer ==
  /\ Processing
  /\ faults < MaxFaults
  /\ faults' = faults + 1
  /\ position' = committed
  /\ fetched' = [p \in Partitions |-> <<>>]
  /\ current' = NoPartition
  /\ UNCHANGED <<version, outbox, relayVars, topic, committed, inbox,
                 projection>>

-----------------------------------------------------------------------------

Relay(r) == BeginSweep(r) \/ Publish(r) \/ CommitSweep(r)

Consumer == GetMany \/ (\E p \in Partitions : ApplyEvent(p)) \/ CommitOffsets

Next ==
  \/ \E a \in Applications : CommitVersion(a)
  \/ \E r \in Relays : Relay(r) \/ FailSweep(r)
  \/ Consumer
  \/ RestartConsumer

Spec == Init /\ [][Next]_vars

\* The worker keeps polling: relays and the consumer take their next step.
Fairness == WF_vars(Consumer) /\ \A r \in Relays : WF_vars(Relay(r))

FairSpec == Spec /\ Fairness

-----------------------------------------------------------------------------
(* Properties                                                              *)

\* Every table, record and offset holds values of its type, and no offset lies
\* beyond what the consumer has fetched or the topic holds.
TypeOK ==
  /\ version \in [Applications -> 0 .. MaxVersion]
  /\ outbox \in Seq(Events)
  /\ published \subseteq Events
  /\ batch \in [Relays -> Seq(Events)]
  /\ sent \in [Relays -> SUBSET Events]
  /\ topic \in [Partitions -> Seq(Events)]
  /\ position \in [Partitions -> Nat]
  /\ committed \in [Partitions -> Nat]
  /\ \A p \in Partitions : /\ committed[p] <= position[p]
                            /\ position[p] <= Len(topic[p])
  /\ fetched \in [Partitions -> Seq(Events)]
  /\ current \in Partitions \cup {NoPartition}
  /\ inbox \subseteq Events
  /\ projection \in [Applications -> 0 .. MaxVersion]
  /\ faults \in 0 .. MaxFaults

\* An event is marked published only when the topic holds it, and two relays
\* never work on the same row.
PublishedIsOnTopic ==
  /\ \A e \in published : InSeq(e, topic[PartitionOf[e.app]])
  /\ \A r, s \in Relays :
       r # s => \A e \in sent[r] : e \notin sent[s] /\ ~InSeq(e, batch[s])

\* The projection shows the newest version among the events applied, in
\* whatever order they arrived; the inbox only grows, so it never goes back.
ProjectionIsNewest ==
  \A a \in Applications :
    /\ \A e \in inbox : e.app = a => e.version <= projection[a]
    /\ projection[a] # 0 => [app |-> a, version |-> projection[a]] \in inbox

Feed == INSTANCE StatusFeed WITH arrived <- inbox, shown <- projection

\* Relay, broker and consumer implement the feed: whatever is published twice,
\* reordered or delivered again, a version takes effect once, was committed, and
\* never makes the projection go back.
ImplementsStatusFeed == Feed!Spec

\* projection_consumer.py: offsets are committed "only after the DB transaction
\* that applied (or deduped) the message has committed": every record below a
\* committed offset was applied.
OffsetsFollowEffects ==
  \A p \in Partitions : \A i \in 1 .. committed[p] : topic[p][i] \in inbox

\* Every committed version reaches the projection.
ProjectionCatchesUp ==
  \A a \in Applications : \A v \in 1 .. MaxVersion :
    (version[a] >= v) ~> (projection[a] >= v)
==============================================================================
