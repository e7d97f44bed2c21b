-------------------------- MODULE EventPipelineProofs -------------------------
(***************************************************************************)
(* The outbox relay and the projection consumer, for any number of         *)
(* applications, versions, relays, partitions and failures.                *)
(***************************************************************************)
EXTENDS EventPipeline, SequenceTheorems, TLAPS

OnTopic(e) == InSeq(e, topic[PartitionOf[e.app]])

\* The rows relay r has locked.
Holds(r, e) == InSeq(e, batch[r]) \/ e \in sent[r]

\* SKIP LOCKED keeps relays apart, and what a relay counts as sent, or has
\* marked, the broker has acknowledged.
RelaysInv ==
  /\ \A r, s \in Relays : r # s => \A e \in Events : ~(Holds(r, e) /\ Holds(s, e))
  /\ \A r \in Relays : \A e \in sent[r] : OnTopic(e)
  /\ \A e \in published : OnTopic(e)

\* The first place of the records the consumer has fetched and not applied.
Done(p) == position[p] - Len(fetched[p])

\* What is fetched ends where the position stands.
FetchedInv ==
  \A p \in Partitions :
    /\ Len(fetched[p]) <= position[p]
    /\ \A i \in 1 .. Len(fetched[p]) : fetched[p][i] = topic[p][Done(p) + i]

Inv == TypeOK /\ RelaysInv /\ FetchedInv /\ ProjectionIsNewest

\* With one partition: everything before the fetched records, and everything
\* that a restart would not fetch again, is applied.
AppliedInv ==
  /\ \A p \in Partitions : \A i \in 1 .. Done(p) : topic[p][i] \in inbox
  /\ OffsetsFollowEffects

-----------------------------------------------------------------------------
(* The topic only grows                                                    *)

TopicGrows ==
  \A p \in Partitions :
    /\ Len(topic[p]) <= Len(topic'[p])
    /\ \A i \in 1 .. Len(topic[p]) : topic'[p][i] = topic[p][i]

LEMMA DomainOfSeq ==
  ASSUME NEW S, NEW seq \in Seq(S)
  PROVE  /\ DOMAIN seq = 1 .. Len(seq) /\ Len(seq) \in Nat
         /\ \A i \in 1 .. Len(seq) : seq[i] \in S
OBVIOUS

LEMMA EventPartition ==
  ASSUME NEW e \in Events
  PROVE  /\ e.app \in Applications /\ e.version \in 1 .. MaxVersion
         /\ PartitionOf[e.app] \in Partitions
BY PartitionOfAssumption DEF Events

LEMMA DeliverGrows ==
  ASSUME TypeOK, NEW e \in Events, Deliver(e)
  PROVE  /\ topic' \in [Partitions -> Seq(Events)]
         /\ TopicGrows
         /\ InSeq(e, topic'[PartitionOf[e.app]])
<1> DEFINE q == PartitionOf[e.app]
           longer == Append(topic[q], e)
<1>1. q \in Partitions /\ topic[q] \in Seq(Events)
  BY EventPartition DEF TypeOK
<1>2. /\ longer \in Seq(Events)
      /\ Len(longer) = Len(topic[q]) + 1
      /\ \A i \in 1 .. Len(topic[q]) : longer[i] = topic[q][i]
      /\ longer[Len(topic[q]) + 1] = e
  BY <1>1, AppendProperties
<1>3. topic' = [topic EXCEPT ![q] = longer]
  BY DEF Deliver
<1> HIDE DEF q, longer
<1>4. topic'[q] = longer /\ \A p \in Partitions \ {q} : topic'[p] = topic[p]
  BY <1>1, <1>3 DEF TypeOK
<1>5. topic' \in [Partitions -> Seq(Events)]
  BY <1>1, <1>2, <1>3 DEF TypeOK
<1>6. \A p \in Partitions : Len(topic[p]) \in Nat
  BY DomainOfSeq DEF TypeOK
<1>7. TopicGrows
  BY <1>1, <1>2, <1>4, <1>6 DEF TopicGrows
<1>8. Len(topic[q]) + 1 \in DOMAIN longer
  BY <1>1, <1>2, <1>6, DomainOfSeq
<1>9. InSeq(e, longer)
  BY <1>2, <1>8 DEF InSeq
<1> QED BY <1>4, <1>5, <1>7, <1>9 DEF q

LEMMA SameTopicGrows ==
  ASSUME TypeOK, topic' = topic
  PROVE  topic' \in [Partitions -> Seq(Events)] /\ TopicGrows
<1>1. \A p \in Partitions : Len(topic[p]) \in Nat
  BY DomainOfSeq DEF TypeOK
<1> QED BY <1>1 DEF TypeOK, TopicGrows

LEMMA OnTopicKept ==
  ASSUME TypeOK, topic' \in [Partitions -> Seq(Events)], TopicGrows,
         NEW e \in Events, OnTopic(e)
  PROVE  InSeq(e, topic'[PartitionOf[e.app]])
<1> DEFINE q == PartitionOf[e.app]
<1>1. q \in Partitions /\ topic[q] \in Seq(Events) /\ topic'[q] \in Seq(Events)
  BY EventPartition DEF TypeOK
<1>2. PICK i \in DOMAIN topic[q] : topic[q][i] = e
  BY DEF OnTopic, InSeq
<1> HIDE DEF q
<1>3. i \in 1 .. Len(topic[q]) /\ Len(topic[q]) \in Nat /\ Len(topic'[q]) \in Nat
      /\ DOMAIN topic'[q] = 1 .. Len(topic'[q])
  BY <1>1, <1>2, DomainOfSeq
<1>4. i \in DOMAIN topic'[q] /\ topic'[q][i] = e
  BY <1>1, <1>2, <1>3 DEF TopicGrows
<1>5. InSeq(e, topic'[q])
  BY <1>4 DEF InSeq
<1> QED BY <1>5 DEF q

\* The consumer does not notice that the topic grows.
LEMMA ConsumerKept ==
  ASSUME TypeOK, FetchedInv, ProjectionIsNewest, TopicGrows,
         topic' \in [Partitions -> Seq(Events)], UNCHANGED consumerVars
  PROVE  /\ FetchedInv' /\ ProjectionIsNewest'
         /\ \A p \in Partitions : /\ committed'[p] <= position'[p]
                                   /\ position'[p] <= Len(topic'[p])
         /\ AppliedInv => AppliedInv'
<1>1. \A p \in Partitions :
        /\ Len(topic[p]) \in Nat /\ Len(topic'[p]) \in Nat
        /\ Len(fetched[p]) \in Nat /\ position[p] \in Nat /\ committed[p] \in Nat
  BY DomainOfSeq DEF TypeOK
<1>2. UNCHANGED <<position, committed, fetched, inbox, projection>>
  BY DEF consumerVars
<1>3. \A p \in Partitions : Done(p)' = Done(p)
  BY <1>2 DEF Done
<1>4. ASSUME NEW p \in Partitions, NEW i \in 1 .. position[p]
      PROVE  topic'[p][i] = topic[p][i]
  <2>1. position[p] <= Len(topic[p])
    BY DEF TypeOK
  <2> QED BY <2>1, <1>1, <1>4 DEF TopicGrows
<1>5. \A p \in Partitions : /\ committed'[p] <= position'[p]
                             /\ position'[p] <= Len(topic'[p])
  BY <1>1, <1>2 DEF TypeOK, TopicGrows
<1>6. FetchedInv'
  <2> SUFFICES ASSUME NEW p \in Partitions
               PROVE  /\ Len(fetched[p]) <= position[p]
                      /\ \A i \in 1 .. Len(fetched[p]) :
                           fetched[p][i] = topic'[p][Done(p) + i]
    BY <1>2, <1>3 DEF FetchedInv
  <2>1. ASSUME NEW i \in 1 .. Len(fetched[p])
        PROVE  Done(p) + i \in 1 .. position[p]
    BY <1>1 DEF FetchedInv, Done
  <2> QED BY <2>1, <1>4 DEF FetchedInv
<1>7. ProjectionIsNewest'
  BY <1>2 DEF ProjectionIsNewest
<1>8. ASSUME AppliedInv PROVE AppliedInv'
  <2>1. ASSUME NEW p \in Partitions, NEW i \in 1 .. Done(p)
        PROVE  topic'[p][i] \in inbox
    <3>1. i \in 1 .. position[p]
      BY <1>1 DEF Done, FetchedInv
    <3> QED BY <3>1, <1>4, <1>8 DEF AppliedInv
  <2>2. ASSUME NEW p \in Partitions, NEW i \in 1 .. committed[p]
        PROVE  topic'[p][i] \in inbox
    <3>1. i \in 1 .. position[p]
      BY <1>1 DEF TypeOK
    <3> QED BY <3>1, <1>4, <1>8 DEF AppliedInv, OffsetsFollowEffects
  <2> QED BY <2>1, <2>2, <1>2, <1>3 DEF AppliedInv, OffsetsFollowEffects
<1> QED BY <1>5, <1>6, <1>7, <1>8

-----------------------------------------------------------------------------
(* The relays                                                              *)

LEMMA EmptyHasNothing == \A e : ~InSeq(e, <<>>)
BY DEF InSeq

LEMMA FaultCounted ==
  ASSUME TypeOK, faults < MaxFaults, faults' = faults + 1
  PROVE  faults' \in 0 .. MaxFaults
BY BoundsAssumption DEF TypeOK

LEMMA CommitVersionInv ==
  ASSUME Inv, NEW a \in Applications, CommitVersion(a)
  PROVE  Inv' /\ (AppliedInv => AppliedInv')
<1> DEFINE e == [app |-> a, version |-> version[a] + 1]
<1>1. version[a] \in 0 .. MaxVersion /\ version[a] < MaxVersion
  BY DEF Inv, TypeOK, CommitVersion
<1>2. version[a] + 1 \in 1 .. MaxVersion /\ version[a] + 1 \in 0 .. MaxVersion
  BY <1>1, BoundsAssumption
<1>3. e \in Events
  BY <1>2 DEF Events
<1>4. version' \in [Applications -> 0 .. MaxVersion]
  BY <1>2 DEF Inv, TypeOK, CommitVersion
<1>5. outbox' \in Seq(Events)
  <2>1. PICK i \in 0 .. Len(outbox) :
          outbox' = SubSeq(outbox, 1, i) \o <<e>> \o SubSeq(outbox, i + 1, Len(outbox))
    BY DEF CommitVersion
  <2>2. outbox \in Seq(Events) /\ Len(outbox) \in Nat
        /\ \A j \in 1 .. Len(outbox) : outbox[j] \in Events
    BY DomainOfSeq DEF Inv, TypeOK
  <2>3. SubSeq(outbox, 1, i) \in Seq(Events)
    BY <2>2, SubSeqProperties
  <2>4. SubSeq(outbox, i + 1, Len(outbox)) \in Seq(Events)
    BY <2>2, SubSeqProperties
  <2>5. <<e>> \in Seq(Events)
    BY <1>3
  <2> HIDE DEF e
  <2>6. SubSeq(outbox, 1, i) \o <<e>> \in Seq(Events)
    BY <2>3, <2>5, ConcatProperties
  <2>7. SubSeq(outbox, 1, i) \o <<e>> \o SubSeq(outbox, i + 1, Len(outbox))
          \in Seq(Events)
    BY <2>4, <2>6, ConcatProperties
  <2> QED BY <2>1, <2>7
<1>6. UNCHANGED <<relayVars, topic, consumerVars, faults>>
  BY DEF CommitVersion
<1>7. topic' \in [Partitions -> Seq(Events)] /\ TopicGrows
  BY <1>6, SameTopicGrows DEF Inv
<1>8. TypeOK'
  BY <1>4, <1>5, <1>6 DEF Inv, TypeOK, relayVars, consumerVars
<1>9. RelaysInv'
  BY <1>6 DEF Inv, RelaysInv, Holds, OnTopic, relayVars
<1> QED BY <1>6, <1>7, <1>8, <1>9, ConsumerKept DEF Inv

\* A sweep only takes rows that no relay holds.
LEMMA BeginSweepInv ==
  ASSUME Inv, NEW r \in Relays, BeginSweep(r)
  PROVE  Inv' /\ (AppliedInv => AppliedInv')
<1>1. PICK n \in 1 .. BatchSize : \E rows \in [1 .. n -> OpenRows] :
        batch' = [batch EXCEPT ![r] = [i \in 1 .. n |-> outbox[rows[i]]]]
  BY DEF BeginSweep
<1>2. PICK rows \in [1 .. n -> OpenRows] :
        batch' = [batch EXCEPT ![r] = [i \in 1 .. n |-> outbox[rows[i]]]]
  BY <1>1
<1> DEFINE taken == [i \in 1 .. n |-> outbox[rows[i]]]
<1>3. n \in Nat
  BY BatchSizeAssumption
<1>4. ASSUME NEW i \in 1 .. n PROVE outbox[rows[i]] \in Events /\ ~Locked(outbox[rows[i]])
  <2>1. rows[i] \in OpenRows
    BY <1>2
  <2> QED BY <2>1 DEF OpenRows, Inv, TypeOK
<1>5. taken \in Seq(Events)
  BY <1>3, <1>4
<1>6. \A e : InSeq(e, taken) => ~Locked(e)
  BY <1>4 DEF InSeq
<1> HIDE DEF taken
<1>7. /\ batch' = [batch EXCEPT ![r] = taken]
      /\ UNCHANGED <<version, outbox, published, sent, topic, consumerVars, faults>>
  BY <1>2 DEF BeginSweep, taken
<1>8. /\ batch'[r] = taken
      /\ \A s \in Relays \ {r} : batch'[s] = batch[s]
      /\ batch' \in [Relays -> Seq(Events)]
  BY <1>5, <1>7 DEF Inv, TypeOK
<1>9. topic' \in [Partitions -> Seq(Events)] /\ TopicGrows
  BY <1>7, SameTopicGrows DEF Inv
<1>10. TypeOK'
  BY <1>7, <1>8 DEF Inv, TypeOK, consumerVars
<1>11. sent[r] = {}
  BY DEF BeginSweep, Sweeping
<1>12. RelaysInv'
  <2>1. ASSUME NEW q \in Relays, NEW s \in Relays, q # s, NEW e \in Events,
               Holds(q, e)', Holds(s, e)'
        PROVE  FALSE
    <3>1. \A x \in Relays \ {r} : Holds(x, e)' => Holds(x, e) /\ Locked(e)
      BY <1>7, <1>8 DEF Holds, Locked
    <3>2. Holds(r, e)' => ~Locked(e)
      BY <1>6, <1>7, <1>8, <1>11 DEF Holds
    <3>3. CASE q = r \/ s = r
      BY <3>1, <3>2, <3>3, <2>1
    <3>4. CASE q # r /\ s # r
      BY <3>1, <3>4, <2>1 DEF Inv, RelaysInv
    <3> QED BY <3>3, <3>4
  <2> QED BY <2>1, <1>7 DEF Inv, RelaysInv, OnTopic
<1> QED BY <1>7, <1>9, <1>10, <1>12, ConsumerKept DEF Inv

LEMMA PublishInv ==
  ASSUME Inv, NEW r \in Relays, Publish(r)
  PROVE  Inv' /\ (AppliedInv => AppliedInv')
<1> DEFINE e == Head(batch[r])
           rest == Tail(batch[r])
<1>1. batch[r] \in Seq(Events) /\ batch[r] # <<>>
  BY DEF Inv, TypeOK, Publish
<1>2. /\ e \in Events /\ rest \in Seq(Events)
      /\ Len(rest) = Len(batch[r]) - 1
      /\ \A i \in 1 .. Len(rest) : rest[i] = batch[r][i + 1]
  BY <1>1, HeadTailProperties
<1>3. /\ InSeq(e, batch[r])
      /\ \A x : InSeq(x, rest) => InSeq(x, batch[r])
  <2>1. 1 \in DOMAIN batch[r] /\ batch[r][1] = e
    BY <1>1
  <2>2. DOMAIN rest = 1 .. Len(rest) /\ DOMAIN batch[r] = 1 .. Len(batch[r])
        /\ Len(batch[r]) \in Nat
    BY <1>1, <1>2, DomainOfSeq
  <2>3. \A i \in DOMAIN rest : i + 1 \in DOMAIN batch[r] /\ rest[i] = batch[r][i + 1]
    BY <1>2, <2>2
  <2> QED BY <2>1, <2>3 DEF InSeq
<1>4. /\ Deliver(e)
      /\ batch' = [batch EXCEPT ![r] = rest]
      /\ sent' = [sent EXCEPT ![r] = sent[r] \cup {e}]
      /\ UNCHANGED <<version, outbox, published, consumerVars, faults>>
  BY DEF Publish
<1> HIDE DEF e, rest
<1>5. /\ batch'[r] = rest /\ sent'[r] = sent[r] \cup {e}
      /\ \A s \in Relays \ {r} : batch'[s] = batch[s] /\ sent'[s] = sent[s]
      /\ batch' \in [Relays -> Seq(Events)]
      /\ sent' \in [Relays -> SUBSET Events]
  BY <1>2, <1>4 DEF Inv, TypeOK
<1>6. /\ topic' \in [Partitions -> Seq(Events)] /\ TopicGrows
      /\ InSeq(e, topic'[PartitionOf[e.app]])
  BY <1>2, <1>4, DeliverGrows DEF Inv
<1>7. /\ FetchedInv' /\ ProjectionIsNewest'
      /\ \A p \in Partitions : /\ committed'[p] <= position'[p]
                                /\ position'[p] <= Len(topic'[p])
      /\ AppliedInv => AppliedInv'
  BY <1>4, <1>6, ConsumerKept DEF Inv
<1>8. TypeOK'
  BY <1>4, <1>5, <1>6, <1>7 DEF Inv, TypeOK, consumerVars
<1>9. \A s \in Relays : \A x \in Events : Holds(s, x)' => Holds(s, x)
  BY <1>3, <1>5 DEF Holds
<1>10. \A s \in Relays : \A x \in sent'[s] : InSeq(x, topic'[PartitionOf[x.app]])
  <2> SUFFICES ASSUME NEW s \in Relays, NEW x \in sent'[s]
               PROVE  InSeq(x, topic'[PartitionOf[x.app]])
    OBVIOUS
  <2>1. CASE x = e
    BY <2>1, <1>6
  <2>2. CASE x # e
    <3>1. x \in sent[s] /\ x \in Events
      BY <2>2, <1>5 DEF Inv, TypeOK
    <3>2. OnTopic(x)
      BY <3>1 DEF Inv, RelaysInv
    <3> QED BY <3>1, <3>2, <1>6, OnTopicKept DEF Inv
  <2> QED BY <2>1, <2>2
<1>11. \A x \in published' : InSeq(x, topic'[PartitionOf[x.app]])
  BY <1>4, <1>6, OnTopicKept DEF Inv, RelaysInv, TypeOK
<1>12. RelaysInv'
  BY <1>9, <1>10, <1>11 DEF Inv, RelaysInv, OnTopic
<1> QED BY <1>7, <1>8, <1>12 DEF Inv

LEMMA CommitSweepInv ==
  ASSUME Inv, NEW r \in Relays, CommitSweep(r)
  PROVE  Inv' /\ (AppliedInv => AppliedInv')
<1>1. /\ published' = published \cup sent[r]
      /\ sent' = [sent EXCEPT ![r] = {}]
      /\ UNCHANGED <<version, outbox, batch, topic, consumerVars, faults>>
  BY DEF CommitSweep
<1>2. /\ sent'[r] = {} /\ \A s \in Relays \ {r} : sent'[s] = sent[s]
      /\ sent' \in [Relays -> SUBSET Events]
      /\ published' \subseteq Events
  BY <1>1 DEF Inv, TypeOK
<1>3. topic' \in [Partitions -> Seq(Events)] /\ TopicGrows
  BY <1>1, SameTopicGrows DEF Inv
<1>4. TypeOK'
  BY <1>1, <1>2 DEF Inv, TypeOK, consumerVars
<1>5. \A s \in Relays : \A x \in Events : Holds(s, x)' => Holds(s, x)
  BY <1>1, <1>2 DEF Holds
<1>6. RelaysInv'
  BY <1>1, <1>2, <1>5 DEF Inv, RelaysInv, OnTopic
<1> QED BY <1>1, <1>3, <1>4, <1>6, ConsumerKept DEF Inv

LEMMA FailSweepInv ==
  ASSUME Inv, NEW r \in Relays, FailSweep(r)
  PROVE  Inv' /\ (AppliedInv => AppliedInv')
<1>1. /\ batch' = [batch EXCEPT ![r] = <<>>]
      /\ sent' = [sent EXCEPT ![r] = {}]
      /\ UNCHANGED <<version, outbox, published, consumerVars>>
  BY DEF FailSweep
<1>2. /\ batch'[r] = <<>> /\ sent'[r] = {}
      /\ \A s \in Relays \ {r} : batch'[s] = batch[s] /\ sent'[s] = sent[s]
      /\ batch' \in [Relays -> Seq(Events)]
      /\ sent' \in [Relays -> SUBSET Events]
  BY <1>1 DEF Inv, TypeOK
<1>3. topic' \in [Partitions -> Seq(Events)] /\ TopicGrows
  <2>1. CASE topic' = topic
    BY <2>1, SameTopicGrows DEF Inv
  <2>2. CASE batch[r] # <<>> /\ Deliver(Head(batch[r]))
    <3>1. Head(batch[r]) \in Events
      BY <2>2, HeadTailProperties DEF Inv, TypeOK
    <3> QED BY <2>2, <3>1, DeliverGrows DEF Inv
  <2> QED BY <2>1, <2>2 DEF FailSweep
<1>4. faults' \in 0 .. MaxFaults
  BY FaultCounted DEF Inv, FailSweep
<1>5. /\ FetchedInv' /\ ProjectionIsNewest'
      /\ \A p \in Partitions : /\ committed'[p] <= position'[p]
                                /\ position'[p] <= Len(topic'[p])
      /\ AppliedInv => AppliedInv'
  BY <1>1, <1>3, ConsumerKept DEF Inv
<1>6. TypeOK'
  BY <1>1, <1>2, <1>3, <1>4, <1>5 DEF Inv, TypeOK, consumerVars
<1>7. \A s \in Relays : \A x \in Events : Holds(s, x)' => Holds(s, x)
  BY <1>2, EmptyHasNothing DEF Holds
<1>8. \A s \in Relays : \A x \in sent'[s] : InSeq(x, topic'[PartitionOf[x.app]])
  BY <1>2, <1>3, OnTopicKept DEF Inv, RelaysInv, TypeOK
<1>9. \A x \in published' : InSeq(x, topic'[PartitionOf[x.app]])
  BY <1>1, <1>3, OnTopicKept DEF Inv, RelaysInv, TypeOK
<1>10. RelaysInv'
  BY <1>7, <1>8, <1>9 DEF Inv, RelaysInv, OnTopic
<1> QED BY <1>5, <1>6, <1>10 DEF Inv

-----------------------------------------------------------------------------
(* The consumer                                                            *)

LEMMA RelaysKept ==
  ASSUME Inv, UNCHANGED <<relayVars, topic>>
  PROVE  RelaysInv'
BY DEF Inv, RelaysInv, Holds, OnTopic, relayVars

\* The records one fetch returns are those from the old to the new position.
LEMMA FetchOne ==
  ASSUME NEW records \in Seq(Events), NEW from \in Nat,
         NEW to \in from .. Len(records)
  PROVE  /\ SubSeq(records, from + 1, to) \in Seq(Events)
         /\ Len(SubSeq(records, from + 1, to)) = to - from
         /\ \A i \in 1 .. to - from :
              SubSeq(records, from + 1, to)[i] = records[from + i]
<1>1. \A i \in from + 1 .. to : records[i] \in Events
  OBVIOUS
<1>2. /\ SubSeq(records, from + 1, to) \in Seq(Events)
      /\ Len(SubSeq(records, from + 1, to)) =
           IF from + 1 <= to THEN to - (from + 1) + 1 ELSE 0
      /\ \A i \in 1 .. to - (from + 1) + 1 :
           SubSeq(records, from + 1, to)[i] = records[from + 1 + i - 1]
  BY <1>1, SubSeqProperties
<1>3. to - (from + 1) + 1 = to - from /\ to \in Nat
  OBVIOUS
<1>4. \A i \in 1 .. to - from : from + 1 + i - 1 = from + i
  OBVIOUS
<1> QED BY <1>2, <1>3, <1>4

LEMMA GetManyInv ==
  ASSUME Inv, GetMany
  PROVE  Inv' /\ (AppliedInv => AppliedInv')
<1>1. PICK upto \in [Partitions -> UNION { 0 .. Len(topic[p]) : p \in Partitions }] :
        /\ \A p \in Partitions : upto[p] \in position[p] .. Len(topic[p])
        /\ fetched' = [p \in Partitions |->
                         SubSeq(topic[p], position[p] + 1, upto[p])]
        /\ position' = upto
  BY DEF GetMany
<1>2. UNCHANGED <<version, outbox, relayVars, topic, committed, current, inbox,
                  projection, faults>>
  BY DEF GetMany
<1>3. \A p \in Partitions : /\ topic[p] \in Seq(Events) /\ Len(topic[p]) \in Nat
                             /\ position[p] \in Nat /\ committed[p] \in Nat
                             /\ committed[p] <= position[p]
                             /\ fetched[p] = <<>>
  BY DomainOfSeq DEF Inv, TypeOK, GetMany, Processing
<1>4. ASSUME NEW p \in Partitions
      PROVE  /\ fetched'[p] \in Seq(Events)
             /\ Len(fetched'[p]) = position'[p] - position[p]
             /\ \A i \in 1 .. Len(fetched'[p]) :
                  fetched'[p][i] = topic[p][position[p] + i]
  <2>1. upto[p] \in position[p] .. Len(topic[p])
    BY <1>1
  <2>2. fetched'[p] = SubSeq(topic[p], position[p] + 1, upto[p])
        /\ position'[p] = upto[p]
    BY <1>1
  <2>3. topic[p] \in Seq(Events) /\ position[p] \in Nat
    BY <1>3
  <2>4. /\ SubSeq(topic[p], position[p] + 1, upto[p]) \in Seq(Events)
        /\ Len(SubSeq(topic[p], position[p] + 1, upto[p])) = upto[p] - position[p]
        /\ \A i \in 1 .. upto[p] - position[p] :
             SubSeq(topic[p], position[p] + 1, upto[p])[i]
               = topic[p][position[p] + i]
    BY <2>1, <2>3, FetchOne
  <2> QED BY <2>2, <2>4
<1>5. \A p \in Partitions : /\ position'[p] \in Nat
                             /\ position[p] <= position'[p]
                             /\ position'[p] <= Len(topic[p])
  BY <1>1, <1>3
<1>6. position' \in [Partitions -> Nat]
  BY <1>1, <1>5
<1>7. fetched' \in [Partitions -> Seq(Events)]
  BY <1>1, <1>4
<1>8. \A p \in Partitions : committed[p] <= position'[p]
  <2> TAKE p \in Partitions
  <2>1. /\ committed[p] \in Nat /\ position[p] \in Nat /\ position'[p] \in Nat
        /\ committed[p] <= position[p] /\ position[p] <= position'[p]
    BY <1>3, <1>5
  <2> QED BY <2>1
<1>9. TypeOK'
  BY <1>2, <1>5, <1>6, <1>7, <1>8 DEF Inv, TypeOK, relayVars
<1>10. \A p \in Partitions : Done(p)' = position[p] /\ Done(p) = position[p]
  <2> TAKE p \in Partitions
  <2>1. Done(p)' = position'[p] - (position'[p] - position[p])
    BY <1>4 DEF Done
  <2>2. Done(p) = position[p] - 0
    BY <1>3 DEF Done
  <2> QED BY <2>1, <2>2, <1>3, <1>5
<1>11. \A p \in Partitions : Len(fetched'[p]) <= position'[p]
  BY <1>3, <1>4, <1>5
<1>12. FetchedInv'
  BY <1>2, <1>4, <1>10, <1>11 DEF FetchedInv
<1>13. ProjectionIsNewest'
  BY <1>2 DEF Inv, ProjectionIsNewest
<1>14. AppliedInv => AppliedInv'
  BY <1>2, <1>10 DEF AppliedInv, OffsetsFollowEffects
<1> QED BY <1>2, <1>9, <1>12, <1>13, <1>14, RelaysKept DEF Inv

\* One version of the upsert: what is shown stays the newest one applied.
LEMMA ProjectedIsNewer ==
  ASSUME NEW e \in Events, NEW shown \in 0 .. MaxVersion
  PROVE  /\ Projected(e, shown) \in {e.version, shown}
         /\ Projected(e, shown) \in 0 .. MaxVersion
         /\ e.version <= Projected(e, shown) /\ shown <= Projected(e, shown)
<1>1. e.version \in 1 .. MaxVersion
  BY EventPartition
<1> QED BY <1>1, BoundsAssumption DEF Projected

LEMMA UpsertNewest ==
  ASSUME Inv, NEW e \in Events,
         inbox' = inbox \cup {e},
         projection' = [projection EXCEPT ![e.app] = Projected(e, projection[e.app])]
  PROVE  /\ projection' \in [Applications -> 0 .. MaxVersion]
         /\ ProjectionIsNewest'
<1> DEFINE new == Projected(e, projection[e.app])
<1>1. /\ e.app \in Applications /\ e.version \in 1 .. MaxVersion
      /\ e = [app |-> e.app, version |-> e.version]
  BY DEF Events
<1>2. projection[e.app] \in 0 .. MaxVersion
  BY <1>1 DEF Inv, TypeOK
<1>3. /\ new \in {e.version, projection[e.app]} /\ new \in 0 .. MaxVersion
      /\ e.version <= new /\ projection[e.app] <= new
  BY <1>2, ProjectedIsNewer
<1> HIDE DEF new
<1>4. /\ projection'[e.app] = new
      /\ \A a \in Applications \ {e.app} : projection'[a] = projection[a]
      /\ projection' \in [Applications -> 0 .. MaxVersion]
  BY <1>1, <1>3 DEF new, Inv, TypeOK
<1>5. ASSUME NEW a \in Applications
      PROVE  /\ \A x \in inbox' : x.app = a => x.version <= projection'[a]
             /\ projection'[a] # 0 =>
                  [app |-> a, version |-> projection'[a]] \in inbox'
  <2>1. CASE a # e.app
    BY <2>1, <1>4 DEF Inv, ProjectionIsNewest
  <2>2. CASE a = e.app
    <3>1. ASSUME NEW x \in inbox', x.app = a PROVE x.version <= projection'[a]
      <4>1. CASE x = e
        BY <4>1, <2>2, <1>3, <1>4
      <4>2. CASE x # e
        <5>1. x \in inbox /\ x.version <= projection[e.app]
          BY <3>1, <4>2, <2>2 DEF Inv, ProjectionIsNewest
        <5>2. x.version \in Nat /\ projection[e.app] \in Nat /\ new \in Nat
          BY <5>1, <1>2, <1>3, EventPartition DEF Inv, TypeOK
        <5> QED BY <5>1, <5>2, <2>2, <1>3, <1>4
      <4> QED BY <4>1, <4>2
    <3>2. CASE new = e.version
      BY <3>1, <3>2, <2>2, <1>1, <1>4
    <3>3. CASE new = projection[e.app]
      BY <3>1, <3>3, <2>2, <1>4 DEF Inv, ProjectionIsNewest
    <3> QED BY <3>2, <3>3, <1>3
  <2> QED BY <2>1, <2>2
<1> QED BY <1>4, <1>5 DEF ProjectionIsNewest

LEMMA ApplyEventInv ==
  ASSUME Inv, NEW p \in Partitions, ApplyEvent(p)
  PROVE  Inv' /\ (AppliedInv => AppliedInv')
<1> DEFINE e == Head(fetched[p])
           rest == Tail(fetched[p])
<1>1. fetched[p] \in Seq(Events) /\ fetched[p] # <<>>
  BY DEF Inv, TypeOK, ApplyEvent
<1>2. /\ e \in Events /\ rest \in Seq(Events)
      /\ Len(rest) = Len(fetched[p]) - 1
      /\ \A i \in 1 .. Len(rest) : rest[i] = fetched[p][i + 1]
      /\ Len(fetched[p]) \in Nat \ {0} /\ e = fetched[p][1]
  BY <1>1, HeadTailProperties, EmptySeq
<1>3. /\ current' = p
      /\ fetched' = [fetched EXCEPT ![p] = rest]
      /\ \/ e \in inbox /\ UNCHANGED <<inbox, projection>>
         \/ /\ inbox' = inbox \cup {e}
            /\ projection' = [projection EXCEPT
                                ![e.app] = Projected(e, projection[e.app])]
      /\ UNCHANGED <<version, outbox, relayVars, topic, position, committed, faults>>
  BY DEF ApplyEvent
<1> HIDE DEF e, rest
<1>4. /\ fetched'[p] = rest
      /\ \A q \in Partitions \ {p} : fetched'[q] = fetched[q]
      /\ fetched' \in [Partitions -> Seq(Events)]
  BY <1>2, <1>3 DEF Inv, TypeOK
<1>5. /\ inbox' = inbox \cup {e}
      /\ projection' \in [Applications -> 0 .. MaxVersion]
      /\ ProjectionIsNewest'
  <2>1. CASE e \in inbox /\ UNCHANGED <<inbox, projection>>
    BY <2>1 DEF Inv, TypeOK, ProjectionIsNewest
  <2>2. CASE /\ inbox' = inbox \cup {e}
             /\ projection' = [projection EXCEPT
                                 ![e.app] = Projected(e, projection[e.app])]
    BY <2>2, <1>2, UpsertNewest
  <2> QED BY <2>1, <2>2, <1>3
<1>6. TypeOK'
  BY <1>2, <1>3, <1>4, <1>5 DEF Inv, TypeOK, relayVars
<1>7. position[p] \in Nat /\ Len(fetched[p]) <= position[p]
  BY DEF Inv, TypeOK, FetchedInv
<1>8. /\ Done(p)' = Done(p) + 1
      /\ \A q \in Partitions \ {p} : Done(q)' = Done(q)
  <2>1. Done(p)' = position[p] - (Len(fetched[p]) - 1)
    BY <1>2, <1>3, <1>4 DEF Done
  <2>2. Done(p) = position[p] - Len(fetched[p])
    BY DEF Done
  <2> QED BY <2>1, <2>2, <1>2, <1>3, <1>4, <1>7 DEF Done
<1>9. Done(p) \in Nat /\ topic[p][Done(p) + 1] = e
  <2>1. Done(p) \in Nat
    BY <1>2, <1>7 DEF Done
  <2> QED BY <2>1, <1>2 DEF Inv, FetchedInv
<1>10. FetchedInv'
  <2> SUFFICES ASSUME NEW q \in Partitions
               PROVE  /\ Len(fetched'[q]) <= position[q]
                      /\ \A i \in 1 .. Len(fetched'[q]) :
                           fetched'[q][i] = topic[q][Done(q)' + i]
    BY <1>3 DEF FetchedInv
  <2>1. CASE q # p
    BY <2>1, <1>4, <1>8 DEF Inv, FetchedInv
  <2>2. CASE q = p
    <3>1. Len(rest) <= position[p]
      BY <1>2, <1>7
    <3>2. ASSUME NEW i \in 1 .. Len(rest)
          PROVE  rest[i] = topic[p][Done(p) + 1 + i]
      <4>1. i + 1 \in 1 .. Len(fetched[p]) /\ rest[i] = fetched[p][i + 1]
        BY <1>2
      <4>2. fetched[p][i + 1] = topic[p][Done(p) + (i + 1)]
        BY <4>1 DEF Inv, FetchedInv
      <4>3. Done(p) + (i + 1) = Done(p) + 1 + i
        BY <1>9
      <4> QED BY <4>1, <4>2, <4>3
    <3> QED BY <3>1, <3>2, <2>2, <1>4, <1>8
  <2> QED BY <2>1, <2>2
<1>11. ASSUME AppliedInv PROVE AppliedInv'
  <2>1. ASSUME NEW q \in Partitions, NEW i \in 1 .. Done(q)'
        PROVE  topic[q][i] \in inbox'
    <3>1. CASE q # p
      BY <3>1, <1>5, <1>8, <1>11, <2>1 DEF AppliedInv
    <3>2. CASE q = p /\ i = Done(p) + 1
      BY <3>2, <1>5, <1>9
    <3>3. CASE q = p /\ i # Done(p) + 1
      <4>1. i \in 1 .. Done(p)
        BY <3>3, <2>1, <1>8, <1>9
      <4> QED BY <4>1, <3>3, <1>5, <1>11 DEF AppliedInv
    <3> QED BY <3>1, <3>2, <3>3
  <2>2. OffsetsFollowEffects'
    BY <1>3, <1>5, <1>11 DEF AppliedInv, OffsetsFollowEffects
  <2> QED BY <2>1, <2>2, <1>3 DEF AppliedInv
<1> QED BY <1>3, <1>5, <1>6, <1>10, <1>11, RelaysKept DEF Inv

LEMMA CommitOffsetsInv ==
  ASSUME Inv, CommitOffsets
  PROVE  /\ Inv'
         /\ (\A p, q \in Partitions : p = q) /\ AppliedInv => AppliedInv'
<1>1. /\ current \in Partitions /\ fetched[current] = <<>>
      /\ committed' = position /\ current' = NoPartition
      /\ UNCHANGED <<version, outbox, relayVars, topic, position, fetched, inbox,
                     projection, faults>>
  BY DEF Inv, TypeOK, CommitOffsets, OffsetsToCommit
<1>2. \A p \in Partitions : position[p] <= position[p]
  BY DEF Inv, TypeOK
<1>3. TypeOK'
  BY <1>1, <1>2 DEF Inv, TypeOK, relayVars
<1>4. FetchedInv' /\ ProjectionIsNewest'
  BY <1>1 DEF Inv, FetchedInv, Done, ProjectionIsNewest
<1>5. ASSUME \A p, q \in Partitions : p = q, AppliedInv PROVE AppliedInv'
  <2>1. \A p \in Partitions : Done(p) = position[p] - 0
    BY <1>1, <1>5 DEF Done
  <2>2. \A p \in Partitions : Done(p) = position[p]
    BY <2>1 DEF Inv, TypeOK
  <2> QED BY <1>1, <1>5, <2>2 DEF AppliedInv, OffsetsFollowEffects, Done
<1> QED BY <1>1, <1>3, <1>4, <1>5, RelaysKept DEF Inv

LEMMA RestartInv ==
  ASSUME Inv, RestartConsumer
  PROVE  Inv' /\ (AppliedInv => AppliedInv')
<1>1. /\ position' = committed /\ current' = NoPartition
      /\ fetched' = [p \in Partitions |-> <<>>]
      /\ UNCHANGED <<version, outbox, relayVars, topic, committed, inbox,
                     projection>>
  BY DEF RestartConsumer
<1>2. \A p \in Partitions : /\ committed[p] \in Nat /\ position[p] \in Nat
                             /\ Len(topic[p]) \in Nat
                             /\ committed[p] <= position[p]
                             /\ position[p] <= Len(topic[p])
  BY DomainOfSeq DEF Inv, TypeOK
<1>3. \A p \in Partitions : committed[p] <= committed[p] /\ committed[p] <= Len(topic[p])
  BY <1>2
<1>4. fetched' \in [Partitions -> Seq(Events)]
  BY <1>1
<1>5. faults' \in 0 .. MaxFaults
  BY FaultCounted DEF Inv, RestartConsumer
<1>6. TypeOK'
  BY <1>1, <1>3, <1>4, <1>5 DEF Inv, TypeOK, relayVars
<1>7. \A p \in Partitions : Done(p)' = committed[p] - 0
  BY <1>1 DEF Done
<1>8. \A p \in Partitions : Done(p)' = committed[p]
  BY <1>2, <1>7
<1>9. FetchedInv'
  BY <1>1, <1>2 DEF FetchedInv
<1>10. ProjectionIsNewest'
  BY <1>1 DEF Inv, ProjectionIsNewest
<1>11. AppliedInv => AppliedInv'
  BY <1>1, <1>8 DEF AppliedInv, OffsetsFollowEffects
<1> QED BY <1>1, <1>6, <1>9, <1>10, <1>11, RelaysKept DEF Inv

-----------------------------------------------------------------------------
(* Theorems                                                                *)

LEMMA InitInv ==
  ASSUME Init
  PROVE  Inv /\ AppliedInv
<1>1. /\ faults \in 0 .. MaxFaults
      /\ version \in [Applications -> 0 .. MaxVersion]
      /\ projection \in [Applications -> 0 .. MaxVersion]
  BY BoundsAssumption DEF Init
<1>2. /\ position \in [Partitions -> Nat] /\ committed \in [Partitions -> Nat]
      /\ topic \in [Partitions -> Seq(Events)]
      /\ \A p \in Partitions : /\ committed[p] <= position[p]
                                /\ position[p] <= Len(topic[p])
      /\ outbox \in Seq(Events)
      /\ batch \in [Relays -> Seq(Events)]
      /\ fetched \in [Partitions -> Seq(Events)]
  BY DEF Init
<1>3. TypeOK
  BY <1>1, <1>2 DEF Init, TypeOK
<1>4. RelaysInv
  BY EmptyHasNothing DEF Init, RelaysInv, Holds
<1>5. \A p \in Partitions : Done(p) = 0 /\ Len(fetched[p]) = 0
  BY DEF Init, Done
<1>6. FetchedInv /\ ProjectionIsNewest /\ AppliedInv
  BY <1>5 DEF Init, FetchedInv, ProjectionIsNewest, AppliedInv, OffsetsFollowEffects
<1> QED BY <1>3, <1>4, <1>6 DEF Inv

LEMMA StepInv ==
  ASSUME Inv, [Next]_vars
  PROVE  /\ Inv'
         /\ (\A p, q \in Partitions : p = q) /\ AppliedInv => AppliedInv'
<1>1. CASE UNCHANGED vars
  <2>1. UNCHANGED <<version, outbox, topic, faults>>
        /\ UNCHANGED relayVars /\ UNCHANGED consumerVars
    BY <1>1 DEF vars
  <2>2. topic' \in [Partitions -> Seq(Events)] /\ TopicGrows
    BY <2>1, SameTopicGrows DEF Inv
  <2>3. TypeOK'
    BY <2>1 DEF Inv, TypeOK, relayVars, consumerVars
  <2> QED BY <2>1, <2>2, <2>3, RelaysKept, ConsumerKept DEF Inv
<1>2. CASE Next
  BY <1>2, CommitVersionInv, BeginSweepInv, PublishInv, CommitSweepInv,
     FailSweepInv, GetManyInv, ApplyEventInv, CommitOffsetsInv, RestartInv
     DEF Next, Relay, Consumer
<1> QED BY <1>1, <1>2

LEMMA Invariant == Spec => []Inv
<1>1. Init => Inv
  BY InitInv
<1>2. Inv /\ [Next]_vars => Inv'
  BY StepInv
<1> QED BY <1>1, <1>2, PTL DEF Spec

\* Every table, record and offset keeps its type, and no offset runs ahead of
\* the position or of the topic (run_projection_consumer).
THEOREM TypeCorrect == Spec => []TypeOK
<1>1. Inv => TypeOK
  BY DEF Inv
<1> QED BY <1>1, Invariant, PTL

\* published_at is set only for events the broker holds, and SKIP LOCKED keeps
\* any number of relays apart, however they fail (_relay_tenant_batch).
THEOREM PublishedEventsAreOnTopic == Spec => []PublishedIsOnTopic
<1>1. Inv => PublishedIsOnTopic
  BY DEF Inv, TypeOK, RelaysInv, Holds, OnTopic, PublishedIsOnTopic
<1> QED BY <1>1, Invariant, PTL

\* The projection shows the newest version applied, in whatever order and
\* however often the events arrive (_apply_event).
THEOREM ProjectionShowsNewest == Spec => []ProjectionIsNewest
<1>1. Inv => ProjectionIsNewest
  BY DEF Inv
<1> QED BY <1>1, Invariant, PTL

\* No step takes an application's row in the projection back to an older
\* version (the WHERE clause of the upsert in _apply_event).
THEOREM ProjectionNeverGoesBack ==
  Spec => [][\A a \in Applications : projection[a] <= projection'[a]]_vars
<1>1. ASSUME Inv, [Next]_vars
      PROVE  [\A a \in Applications : projection[a] <= projection'[a]]_vars
  <2>1. Inv'
    BY <1>1, StepInv
  <2>2. ASSUME NEW a \in Applications PROVE projection[a] <= projection'[a]
    <3>1. projection[a] \in Nat /\ projection'[a] \in Nat
      BY <1>1, <2>1 DEF Inv, TypeOK
    <3>2. CASE projection[a] = 0
      BY <3>1, <3>2
    <3>3. CASE projection[a] # 0
      <4>1. [app |-> a, version |-> projection[a]] \in inbox
        BY <1>1, <3>3 DEF Inv, ProjectionIsNewest
      <4>2. inbox \subseteq inbox'
        BY <1>1 DEF Next, vars, consumerVars, CommitVersion, Relay, BeginSweep,
           Publish, CommitSweep, FailSweep, Consumer, GetMany, ApplyEvent,
           CommitOffsets, RestartConsumer
      <4>3. [app |-> a, version |-> projection[a]] \in inbox'
        BY <4>1, <4>2
      <4> QED BY <4>3, <2>1 DEF Inv, ProjectionIsNewest
    <3> QED BY <3>2, <3>3
  <2> QED BY <2>2
<1> QED BY <1>1, Invariant, PTL DEF Spec

\* On a topic of one partition, an offset is committed only after the effects of
\* every record below it (run_projection_consumer); with more than one it is
\* not so, as the run PipelinePartitions shows.
THEOREM OffsetsAreSafeOnOnePartition ==
  ASSUME \A p, q \in Partitions : p = q
  PROVE  Spec => []OffsetsFollowEffects
<1>1. Init => Inv /\ AppliedInv
  BY InitInv
<1>2. Inv /\ AppliedInv /\ [Next]_vars => (Inv /\ AppliedInv)'
  BY StepInv
<1>3. AppliedInv => OffsetsFollowEffects
  BY DEF AppliedInv
<1> QED BY <1>1, <1>2, <1>3, PTL DEF Spec

-----------------------------------------------------------------------------
(* Where events come from and where they are                               *)

\* The event announces a version that was committed.
Real(e) == e \in Events /\ e.version <= version[e.app]

\* No event is invented: the rows relays work on are rows of the outbox, and
\* whatever is on the topic or was applied announces a committed version.
RealInv ==
  /\ \A e : InSeq(e, outbox) => Real(e)
  /\ \A r \in Relays : \A e : Holds(r, e) => Real(e)
  /\ \A p \in Partitions : \A e : InSeq(e, topic[p]) => Real(e)
  /\ \A e \in inbox : Real(e)

\* Every committed version has its row in the outbox.
OutboxInv ==
  \A a \in Applications : \A v \in 1 .. version[a] :
    InSeq([app |-> a, version |-> v], outbox)

\* What is on one of two lists is on their concatenation, and nothing else.
LEMMA ConcatMembers ==
  ASSUME NEW S, NEW s \in Seq(S), NEW t \in Seq(S), NEW x
  PROVE  InSeq(x, s \o t) <=> InSeq(x, s) \/ InSeq(x, t)
<1>1. PICK m \in Nat : m = Len(s) /\ DOMAIN s = 1 .. m
  BY DomainOfSeq
<1>2. PICK n \in Nat : n = Len(t) /\ DOMAIN t = 1 .. n
  BY DomainOfSeq
<1>3. PICK u : u = s \o t
  OBVIOUS
<1>4. u \in Seq(S) /\ Len(u) = m + n
      /\ \A i \in 1 .. m + n : u[i] = IF i <= m THEN s[i] ELSE t[i - m]
  BY <1>1, <1>2, <1>3, ConcatProperties
<1>5. DOMAIN u = 1 .. m + n
  BY <1>4, DomainOfSeq
<1>6. ASSUME NEW i \in 1 .. m + n, u[i] = x PROVE InSeq(x, s) \/ InSeq(x, t)
  <2>1. CASE i <= m
    <3>1. i \in 1 .. m
      BY <1>1, <1>2, <2>1
    <3> QED BY <1>1, <1>4, <1>6, <2>1, <3>1 DEF InSeq
  <2>2. CASE ~(i <= m)
    <3>1. i - m \in 1 .. n
      BY <1>1, <1>2, <2>2
    <3> QED BY <1>2, <1>4, <1>6, <2>2, <3>1 DEF InSeq
  <2> QED BY <2>1, <2>2
<1>7. ASSUME NEW i \in 1 .. m, s[i] = x PROVE InSeq(x, u)
  <2>1. i \in 1 .. m + n /\ i <= m
    BY <1>1, <1>2
  <2> QED BY <1>4, <1>5, <1>7, <2>1 DEF InSeq
<1>8. ASSUME NEW i \in 1 .. n, t[i] = x PROVE InSeq(x, u)
  <2>1. i + m \in 1 .. m + n /\ ~(i + m <= m) /\ (i + m) - m = i
    BY <1>1, <1>2
  <2>2. u[i + m] = x
    BY <1>4, <1>8, <2>1
  <2> QED BY <1>5, <2>1, <2>2 DEF InSeq
<1> QED BY <1>1, <1>2, <1>3, <1>5, <1>6, <1>7, <1>8 DEF InSeq

\* A list cut in two loses nothing.
LEMMA CutMembers ==
  ASSUME NEW seq \in Seq(Events), NEW i \in 0 .. Len(seq), NEW x
  PROVE  InSeq(x, seq) <=> \/ InSeq(x, SubSeq(seq, 1, i))
                           \/ InSeq(x, SubSeq(seq, i + 1, Len(seq)))
<1>1. PICK n \in Nat : n = Len(seq) /\ DOMAIN seq = 1 .. n
  BY DomainOfSeq
<1>2. i \in Nat /\ i <= n /\ 0 + 1 = 1 /\ i - 0 = i /\ i \in 0 .. n /\ n \in i .. n
  BY <1>1
<1>3. PICK s : s = SubSeq(seq, 1, i)
  OBVIOUS
<1>4. PICK t : t = SubSeq(seq, i + 1, n)
  OBVIOUS
<1>5. s \in Seq(Events) /\ Len(s) = i /\ \A j \in 1 .. i : s[j] = seq[0 + j]
  <2>1. /\ SubSeq(seq, 0 + 1, i) \in Seq(Events)
        /\ Len(SubSeq(seq, 0 + 1, i)) = i - 0
        /\ \A j \in 1 .. i - 0 : SubSeq(seq, 0 + 1, i)[j] = seq[0 + j]
    BY <1>1, <1>2, FetchOne
  <2> QED BY <1>2, <1>3, <2>1
<1>6. t \in Seq(Events) /\ Len(t) = n - i /\ \A j \in 1 .. n - i : t[j] = seq[i + j]
  BY <1>1, <1>2, <1>4, FetchOne
<1>7. DOMAIN s = 1 .. i /\ DOMAIN t = 1 .. n - i
  BY <1>5, <1>6, DomainOfSeq
<1>8. ASSUME NEW k \in 1 .. n, seq[k] = x PROVE InSeq(x, s) \/ InSeq(x, t)
  <2>1. CASE k <= i
    <3>1. k \in 1 .. i /\ 0 + k = k
      BY <1>2, <2>1
    <3> QED BY <1>5, <1>7, <1>8, <3>1 DEF InSeq
  <2>2. CASE ~(k <= i)
    <3>1. k - i \in 1 .. n - i /\ i + (k - i) = k
      BY <1>2, <2>2
    <3> QED BY <1>6, <1>7, <1>8, <3>1 DEF InSeq
  <2> QED BY <2>1, <2>2
<1>9. ASSUME NEW k \in 1 .. i, s[k] = x PROVE InSeq(x, seq)
  <2>1. k \in 1 .. n /\ 0 + k = k
    BY <1>2
  <2> QED BY <1>1, <1>5, <1>9, <2>1 DEF InSeq
<1>10. ASSUME NEW k \in 1 .. n - i, t[k] = x PROVE InSeq(x, seq)
  <2>1. i + k \in 1 .. n
    BY <1>2
  <2> QED BY <1>1, <1>6, <1>10, <2>1 DEF InSeq
<1>11. InSeq(x, seq) <=> InSeq(x, s) \/ InSeq(x, t)
  BY <1>1, <1>7, <1>8, <1>9, <1>10 DEF InSeq
<1> QED BY <1>1, <1>3, <1>4, <1>11

\* A row inserted anywhere joins the rows that are there.
LEMMA InsertMembers ==
  ASSUME NEW seq \in Seq(Events), NEW e \in Events, NEW i \in 0 .. Len(seq), NEW x
  PROVE  InSeq(x, SubSeq(seq, 1, i) \o <<e>> \o SubSeq(seq, i + 1, Len(seq)))
           <=> x = e \/ InSeq(x, seq)
<1>1. PICK s : s = SubSeq(seq, 1, i)
  OBVIOUS
<1>2. PICK t : t = SubSeq(seq, i + 1, Len(seq))
  OBVIOUS
<1>3. PICK one : one = <<e>>
  OBVIOUS
<1>4. \A j \in 1 .. Len(seq) : seq[j] \in Events
  BY DomainOfSeq
<1>5. Len(seq) \in Nat /\ i \in Nat /\ i <= Len(seq)
  BY DomainOfSeq
<1>6. s \in Seq(Events)
  BY <1>1, <1>4, <1>5, SubSeqProperties
<1>7. t \in Seq(Events)
  BY <1>2, <1>4, <1>5, SubSeqProperties
<1>8. one \in Seq(Events) /\ (InSeq(x, one) <=> x = e)
  BY <1>3 DEF InSeq
<1>9. s \o one \in Seq(Events)
  BY <1>6, <1>8, ConcatProperties
<1>10. InSeq(x, s \o one) <=> InSeq(x, s) \/ InSeq(x, one)
  BY <1>6, <1>8, ConcatMembers
<1>11. InSeq(x, (s \o one) \o t) <=> InSeq(x, s \o one) \/ InSeq(x, t)
  BY <1>7, <1>9, ConcatMembers
<1>12. InSeq(x, seq) <=> InSeq(x, s) \/ InSeq(x, t)
  BY <1>1, <1>2, CutMembers
<1> QED BY <1>1, <1>2, <1>3, <1>8, <1>10, <1>11, <1>12

\* Delivery adds one record to the topic.
LEMMA DeliverMembers ==
  ASSUME TypeOK, NEW e \in Events, Deliver(e), NEW p \in Partitions, NEW x,
         InSeq(x, topic'[p])
  PROVE  x = e \/ InSeq(x, topic[p])
<1> DEFINE old == topic[p]
<1>1. old \in Seq(Events) /\ topic'[p] \in {old, Append(old, e)}
  BY EventPartition DEF TypeOK, Deliver
<1>2. CASE topic'[p] = old
  BY <1>2
<1>3. CASE topic'[p] = Append(old, e)
  <2>1. PICK k \in DOMAIN Append(old, e) : Append(old, e)[k] = x
    BY <1>3 DEF InSeq
  <2> HIDE DEF old
  <2>2. /\ DOMAIN old = 1 .. Len(old) /\ Len(old) \in Nat
        /\ DOMAIN Append(old, e) = 1 .. Len(old) + 1
        /\ Append(old, e)[Len(old) + 1] = e
        /\ \A j \in 1 .. Len(old) : Append(old, e)[j] = old[j]
    BY <1>1
  <2>3. x = e \/ \E j \in DOMAIN old : old[j] = x
    BY <2>1, <2>2
  <2> QED BY <2>3 DEF InSeq, old
<1> QED BY <1>1, <1>2, <1>3

\* The head and the rest of a list are on the list.
LEMMA TailMembers ==
  ASSUME NEW S, NEW seq \in Seq(S), seq # <<>>
  PROVE  /\ Head(seq) \in S /\ InSeq(Head(seq), seq)
         /\ \A x : InSeq(x, Tail(seq)) => InSeq(x, seq)
<1>1. /\ DOMAIN seq = 1 .. Len(seq) /\ Len(seq) \in Nat \ {0}
      /\ Head(seq) = seq[1] /\ Head(seq) \in S
  BY DomainOfSeq, EmptySeq
<1>2. /\ Tail(seq) \in Seq(S) /\ Len(Tail(seq)) = Len(seq) - 1
      /\ \A i \in 1 .. Len(Tail(seq)) : Tail(seq)[i] = seq[i + 1]
  BY HeadTailProperties
<1>3. DOMAIN Tail(seq) = 1 .. Len(seq) - 1
  BY <1>2, DomainOfSeq
<1>4. \A i \in 1 .. Len(seq) - 1 : i + 1 \in 1 .. Len(seq) /\ Tail(seq)[i] = seq[i + 1]
  BY <1>1, <1>2
<1> QED BY <1>1, <1>3, <1>4 DEF InSeq

\* The next record the consumer applies is one of the topic.
LEMMA FetchedIsOnTopic ==
  ASSUME Inv, NEW p \in Partitions, fetched[p] # <<>>
  PROVE  Head(fetched[p]) \in Events /\ InSeq(Head(fetched[p]), topic[p])
<1>1. /\ fetched[p] \in Seq(Events) /\ topic[p] \in Seq(Events)
      /\ position[p] \in Nat /\ position[p] <= Len(topic[p])
  BY DEF Inv, TypeOK
<1>2. /\ Len(fetched[p]) \in Nat \ {0} /\ Head(fetched[p]) = fetched[p][1]
      /\ Head(fetched[p]) \in Events
  BY <1>1, DomainOfSeq, EmptySeq
<1>3. Len(fetched[p]) <= position[p] /\ fetched[p][1] = topic[p][Done(p) + 1]
  BY <1>2 DEF Inv, FetchedInv
<1>4. DOMAIN topic[p] = 1 .. Len(topic[p]) /\ Len(topic[p]) \in Nat
  BY <1>1, DomainOfSeq
<1>5. Done(p) + 1 \in 1 .. Len(topic[p])
  BY <1>1, <1>2, <1>3, <1>4 DEF Done
<1> QED BY <1>2, <1>3, <1>4, <1>5 DEF InSeq

\* A step that commits no version keeps both when what the relays hold, what is on
\* the topic and what was applied was real before.
LEMMA RealKept ==
  ASSUME RealInv, OutboxInv, UNCHANGED <<version, outbox>>,
         \A r \in Relays : \A e : Holds(r, e)' => Real(e),
         \A p \in Partitions : \A e : InSeq(e, topic'[p]) => Real(e),
         \A e \in inbox' : Real(e)
  PROVE  RealInv' /\ OutboxInv'
<1>1. \A e : Real(e)' <=> Real(e)
  BY DEF Real, Events
<1>2. RealInv'
  BY <1>1 DEF RealInv
<1> QED BY <1>2 DEF OutboxInv

LEMMA CommitVersionReal ==
  ASSUME Inv, RealInv, OutboxInv, NEW a \in Applications, CommitVersion(a)
  PROVE  RealInv' /\ OutboxInv'
<1>0. PICK e : e = [app |-> a, version |-> version[a] + 1]
  OBVIOUS
<1>1. version[a] \in 0 .. MaxVersion /\ version[a] < MaxVersion /\ version[a] \in Nat
  BY DEF Inv, TypeOK, CommitVersion
<1>2. version[a] + 1 \in 1 .. MaxVersion
  BY <1>1, BoundsAssumption
<1>3. e \in Events /\ e.app = a /\ e.version = version[a] + 1
  BY <1>0, <1>2 DEF Events
<1>4. /\ version'[a] = version[a] + 1
      /\ \A b \in Applications \ {a} : version'[b] = version[b]
      /\ UNCHANGED <<batch, sent, topic, inbox>>
  BY DEF Inv, TypeOK, CommitVersion, relayVars, consumerVars
<1>5. \A x : InSeq(x, outbox') <=> x = e \/ InSeq(x, outbox)
  <2>1. PICK i \in 0 .. Len(outbox) :
          outbox' = SubSeq(outbox, 1, i) \o <<e>> \o SubSeq(outbox, i + 1, Len(outbox))
    BY <1>0 DEF CommitVersion
  <2>2. outbox \in Seq(Events)
    BY DEF Inv, TypeOK
  <2> QED BY <1>3, <2>1, <2>2, InsertMembers
<1>6. \A x : Real(x) => Real(x)'
  <2> SUFFICES ASSUME NEW x, Real(x) PROVE Real(x)'
    OBVIOUS
  <2>1. x \in Events /\ x.app \in Applications /\ x.version \in Nat
    BY EventPartition DEF Real
  <2>2. version[x.app] \in Nat /\ x.version <= version[x.app]
    BY <2>1 DEF Real, Inv, TypeOK
  <2>3. version'[x.app] \in {version[x.app], version[x.app] + 1}
    BY <1>4, <2>1
  <2>4. x.version <= version'[x.app]
    BY <2>1, <2>2, <2>3
  <2> QED BY <2>1, <2>4 DEF Real, Events
<1>7. Real(e)'
  <2>1. e.version <= version'[e.app]
    BY <1>1, <1>3, <1>4
  <2>2. Events' = Events
    BY DEF Events
  <2> QED BY <1>3, <2>1, <2>2 DEF Real
<1>8. RealInv'
  <2>1. \A x : InSeq(x, outbox') => Real(x)'
    BY <1>5, <1>6, <1>7 DEF RealInv
  <2>2. \A r \in Relays : \A x : Holds(r, x)' => Real(x)'
    BY <1>4, <1>6 DEF RealInv, Holds
  <2>3. \A p \in Partitions : \A x : InSeq(x, topic'[p]) => Real(x)'
    BY <1>4, <1>6 DEF RealInv
  <2>4. \A x \in inbox' : Real(x)'
    BY <1>4, <1>6 DEF RealInv
  <2> QED BY <2>1, <2>2, <2>3, <2>4 DEF RealInv
<1>9. ASSUME NEW b \in Applications, NEW v \in 1 .. version'[b]
      PROVE  InSeq([app |-> b, version |-> v], outbox')
  <2>1. CASE b = a /\ v = version[a] + 1
    BY <1>0, <1>5, <2>1
  <2>2. CASE ~(b = a /\ v = version[a] + 1)
    <3>1. v \in 1 .. version[b]
      BY <1>1, <1>4, <1>9, <2>2
    <3> QED BY <1>5, <3>1 DEF OutboxInv
  <2> QED BY <2>1, <2>2
<1> QED BY <1>8, <1>9 DEF OutboxInv

LEMMA StepReal ==
  ASSUME Inv, RealInv, OutboxInv, [Next]_vars
  PROVE  RealInv' /\ OutboxInv'
<1>1. CASE UNCHANGED vars
  <2>1. UNCHANGED <<version, outbox, topic, batch, sent, inbox>>
    BY <1>1 DEF vars, relayVars, consumerVars
  <2> QED BY <2>1, RealKept DEF RealInv, Holds
<1>2. ASSUME NEW r \in Relays, BeginSweep(r) PROVE RealInv' /\ OutboxInv'
  <2>0. PICK n \in 1 .. BatchSize : \E rows \in [1 .. n -> OpenRows] :
          batch' = [batch EXCEPT ![r] = [i \in 1 .. n |-> outbox[rows[i]]]]
    BY <1>2 DEF BeginSweep
  <2>1. PICK rows \in [1 .. n -> OpenRows] :
          batch' = [batch EXCEPT ![r] = [i \in 1 .. n |-> outbox[rows[i]]]]
    BY <2>0
  <2>2. UNCHANGED <<version, outbox, sent, topic, inbox>>
    BY <1>2 DEF BeginSweep, consumerVars
  <2>3. /\ batch'[r] = [i \in 1 .. n |-> outbox[rows[i]]]
        /\ \A s \in Relays \ {r} : batch'[s] = batch[s]
    BY <2>1 DEF Inv, TypeOK
  <2>4. \A e : InSeq(e, batch'[r]) => InSeq(e, outbox)
    BY <2>1, <2>3 DEF InSeq, OpenRows
  <2>5. \A s \in Relays : \A e : Holds(s, e)' => Real(e)
    BY <2>2, <2>3, <2>4 DEF RealInv, Holds
  <2> QED BY <2>2, <2>5, RealKept DEF RealInv
<1>3. ASSUME NEW r \in Relays, Publish(r) PROVE RealInv' /\ OutboxInv'
  <2> DEFINE e == Head(batch[r])
  <2>1. batch[r] \in Seq(Events) /\ batch[r] # <<>>
    BY <1>3 DEF Inv, TypeOK, Publish
  <2>2. e \in Events /\ InSeq(e, batch[r])
        /\ \A x : InSeq(x, Tail(batch[r])) => InSeq(x, batch[r])
    BY <2>1, TailMembers
  <2>3. Real(e)
    BY <2>2 DEF RealInv, Holds
  <2>4. Deliver(e) /\ UNCHANGED <<version, outbox, inbox>>
    BY <1>3 DEF Publish, consumerVars
  <2>5. /\ batch'[r] = Tail(batch[r]) /\ sent'[r] = sent[r] \cup {e}
        /\ \A s \in Relays \ {r} : batch'[s] = batch[s] /\ sent'[s] = sent[s]
    BY <1>3 DEF Inv, TypeOK, Publish
  <2> HIDE DEF e
  <2>6. \A s \in Relays : \A x : Holds(s, x)' => Real(x)
    BY <2>2, <2>3, <2>5 DEF RealInv, Holds
  <2>7. \A p \in Partitions : \A x : InSeq(x, topic'[p]) => Real(x)
    BY <2>2, <2>3, <2>4, DeliverMembers DEF RealInv, Inv
  <2> QED BY <2>4, <2>6, <2>7, RealKept DEF RealInv
<1>4. ASSUME NEW r \in Relays, CommitSweep(r) PROVE RealInv' /\ OutboxInv'
  <2>1. /\ UNCHANGED <<version, outbox, batch, topic, inbox>>
        /\ \A s \in Relays : sent'[s] \subseteq sent[s]
    BY <1>4 DEF CommitSweep, Inv, TypeOK, consumerVars
  <2> QED BY <2>1, RealKept DEF RealInv, Holds
<1>5. ASSUME NEW r \in Relays, FailSweep(r) PROVE RealInv' /\ OutboxInv'
  <2>1. /\ UNCHANGED <<version, outbox, inbox>>
        /\ batch'[r] = <<>> /\ sent'[r] = {}
        /\ \A s \in Relays \ {r} : batch'[s] = batch[s] /\ sent'[s] = sent[s]
    BY <1>5 DEF FailSweep, Inv, TypeOK, consumerVars
  <2>2. \A s \in Relays : \A x : Holds(s, x)' => Real(x)
    BY <2>1, EmptyHasNothing DEF RealInv, Holds
  <2>3. \A p \in Partitions : \A x : InSeq(x, topic'[p]) => Real(x)
    <3>1. CASE topic' = topic
      BY <3>1 DEF RealInv
    <3>2. CASE batch[r] # <<>> /\ Deliver(Head(batch[r]))
      <4>1. Head(batch[r]) \in Events /\ InSeq(Head(batch[r]), batch[r])
        BY <3>2, TailMembers DEF Inv, TypeOK
      <4>2. Real(Head(batch[r]))
        BY <4>1 DEF RealInv, Holds
      <4> QED BY <3>2, <4>1, <4>2, DeliverMembers DEF RealInv, Inv
    <3> QED BY <1>5, <3>1, <3>2 DEF FailSweep
  <2> QED BY <2>1, <2>2, <2>3, RealKept DEF RealInv
<1>6. ASSUME NEW p \in Partitions, ApplyEvent(p) PROVE RealInv' /\ OutboxInv'
  <2>1. UNCHANGED <<version, outbox, batch, sent, topic>>
        /\ inbox' \subseteq inbox \cup {Head(fetched[p])}
    BY <1>6 DEF ApplyEvent, relayVars
  <2>2. Real(Head(fetched[p]))
    BY <1>6, FetchedIsOnTopic DEF RealInv, ApplyEvent
  <2> QED BY <2>1, <2>2, RealKept DEF RealInv, Holds
<1>7. ASSUME GetMany \/ CommitOffsets \/ RestartConsumer PROVE RealInv' /\ OutboxInv'
  <2>1. UNCHANGED <<version, outbox, batch, sent, topic, inbox>>
    BY <1>7 DEF GetMany, CommitOffsets, RestartConsumer, relayVars
  <2> QED BY <2>1, RealKept DEF RealInv, Holds
<1> QED BY <1>1, <1>2, <1>3, <1>4, <1>5, <1>6, <1>7, CommitVersionReal
        DEF Next, Relay, Consumer

LEMMA Realness == Spec => [](Inv /\ RealInv /\ OutboxInv)
<1>1. Init => Inv /\ RealInv /\ OutboxInv
  BY InitInv, EmptyHasNothing DEF Init, RealInv, OutboxInv, Holds
<1>2. Inv /\ RealInv /\ OutboxInv /\ [Next]_vars => (Inv /\ RealInv /\ OutboxInv)'
  BY StepInv, StepReal
<1> QED BY <1>1, <1>2, PTL DEF Spec

\* Every version arrives once, is a committed one, and never takes the projection
\* back: the relays, the broker and the consumer (_relay_tenant_batch, _apply_event)
\* do no more than the feed promises.
THEOREM PipelineImplementsFeed == Spec => ImplementsStatusFeed
<1>1. Init => Feed!Init
  BY DEF Init, Feed!Init
<1>2. ASSUME Inv, RealInv, [Next]_vars PROVE [Feed!Next]_(Feed!feedVars)
  <2>1. CASE UNCHANGED vars
    BY <2>1 DEF vars, consumerVars, Feed!feedVars
  <2>2. ASSUME NEW a \in Applications, CommitVersion(a) PROVE Feed!Next
    <3>1. Feed!Commit(a)
      BY <2>2 DEF CommitVersion, consumerVars, Feed!Commit
    <3> QED BY <3>1 DEF Feed!Next
  <2>3. ASSUME NEW r \in Relays, Relay(r) \/ FailSweep(r) PROVE UNCHANGED Feed!feedVars
    BY <2>3 DEF Relay, BeginSweep, Publish, CommitSweep, FailSweep, consumerVars,
                Feed!feedVars
  <2>4. CASE GetMany \/ CommitOffsets \/ RestartConsumer
    BY <2>4 DEF GetMany, CommitOffsets, RestartConsumer, Feed!feedVars
  <2>5. ASSUME NEW p \in Partitions, ApplyEvent(p) PROVE [Feed!Next]_(Feed!feedVars)
    <3>0. PICK e : e = Head(fetched[p])
      OBVIOUS
    <3>1. CASE e \in inbox
      BY <2>5, <3>0, <3>1 DEF ApplyEvent, Feed!feedVars
    <3>2. CASE e \notin inbox
      <4>1. e \in Events /\ InSeq(e, topic[p])
        BY <1>2, <2>5, <3>0, FetchedIsOnTopic DEF ApplyEvent
      <4>2. e.version <= version[e.app]
        BY <1>2, <4>1 DEF RealInv, Real
      <4>3. PICK a \in Applications : a = e.app
        BY <4>1, EventPartition
      <4>4. PICK v \in 1 .. MaxVersion : v = e.version
        BY <4>1, EventPartition
      <4>5. e = [app |-> a, version |-> v]
        BY <4>1, <4>3, <4>4 DEF Events
      <4>6. version[a] \in Nat /\ projection[a] \in Nat /\ v \in Nat /\ v >= 1
        BY <1>2 DEF Inv, TypeOK
      <4>7. v \in 1 .. version[a]
        BY <4>2, <4>3, <4>4, <4>6
      <4>8. /\ inbox' = inbox \cup {e} /\ UNCHANGED version
            /\ projection' = [projection EXCEPT ![a] = Projected(e, projection[a])]
        BY <2>5, <3>0, <3>2, <4>3 DEF ApplyEvent
      <4>9. Projected(e, projection[a]) = IF v > projection[a] THEN v ELSE projection[a]
        BY <4>4, <4>6 DEF Projected
      <4>10. projection' = [projection EXCEPT ![a] =
                              IF v > projection[a] THEN v ELSE projection[a]]
        BY <4>8, <4>9
      <4>11. Feed!Arrive(a, v)
        BY <3>2, <4>5, <4>7, <4>8, <4>10 DEF Feed!Arrive
      <4> QED BY <4>7, <4>11 DEF Feed!Next
    <3> QED BY <3>1, <3>2
  <2> QED BY <1>2, <2>1, <2>2, <2>3, <2>4, <2>5 DEF Next, Consumer
<1> QED BY <1>1, <1>2, Realness, PTL DEF Spec, ImplementsStatusFeed, Feed!Spec

\* A committed version is on its way or has arrived: its event was applied, or is on
\* the topic where a restarted consumer still fetches it, or its row is still open
\* for a sweep.
EventsAreKept ==
  \A a \in Applications : \A v \in 1 .. version[a] :
    LET e == [app |-> a, version |-> v]
        p == PartitionOf[a]
    IN \/ e \in inbox
       \/ \E i \in committed[p] + 1 .. Len(topic[p]) : topic[p][i] = e
       \/ InSeq(e, outbox) /\ e \notin published

\* Whatever fails and whenever, no event is lost on a topic of one partition: this is
\* the part of "every version reaches the projection" that needs no fairness
\* (_relay_tenant_batch commits published_at after the acknowledgements,
\* run_projection_consumer the offsets after the effects).
THEOREM NoEventIsLost ==
  ASSUME \A p, q \in Partitions : p = q
  PROVE  Spec => []EventsAreKept
<1>1. ASSUME Inv, OutboxInv, OffsetsFollowEffects PROVE EventsAreKept
  <2> SUFFICES ASSUME NEW a \in Applications, NEW v \in 1 .. version[a],
                      NEW e, e = [app |-> a, version |-> v],
                      NEW p, p = PartitionOf[a]
               PROVE  \/ e \in inbox
                      \/ \E i \in committed[p] + 1 .. Len(topic[p]) : topic[p][i] = e
                      \/ InSeq(e, outbox) /\ e \notin published
    BY DEF EventsAreKept
  <2>0. InSeq(e, outbox)
    BY <1>1 DEF OutboxInv
  <2> SUFFICES ASSUME e \notin inbox, e \in published
               PROVE  \E i \in committed[p] + 1 .. Len(topic[p]) : topic[p][i] = e
    BY <2>0
  <2>1. p \in Partitions /\ e.app = a
    BY PartitionOfAssumption
  <2>2. InSeq(e, topic[p])
    BY <1>1, <2>1 DEF Inv, RelaysInv, OnTopic
  <2>3. PICK n \in Nat : n = Len(topic[p]) /\ DOMAIN topic[p] = 1 .. n
    BY <1>1, <2>1, DomainOfSeq DEF Inv, TypeOK
  <2>4. PICK i \in 1 .. n : topic[p][i] = e
    BY <2>2, <2>3 DEF InSeq
  <2>5. PICK c \in Nat : c = committed[p]
    BY <1>1, <2>1 DEF Inv, TypeOK
  <2>6. i \notin 1 .. c
    BY <1>1, <2>1, <2>4, <2>5 DEF OffsetsFollowEffects
  <2>7. i \in c + 1 .. n
    BY <2>3, <2>4, <2>5, <2>6
  <2> QED BY <2>3, <2>4, <2>5, <2>7
<1>2. Spec => []OffsetsFollowEffects
  BY OffsetsAreSafeOnOnePartition
<1> QED BY <1>1, <1>2, Realness, PTL
==============================================================================
