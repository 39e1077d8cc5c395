------------------------ MODULE JournalDeliveryProofs -----------------------
(***************************************************************************)
(* Delivery to consumers, for every instance of CollectorJournal: cursors  *)
(* are ordered and fenced by revisions, a consumer's position never passes *)
(* a donation it was neither given nor excused from, payloads wait for     *)
(* every consumer short of a hard limit, and a recovery decision is always *)
(* possible.                                                               *)
(***************************************************************************)
EXTENDS CollectorJournal, CollectorJournalProofs, JournalStoreProofs,
        FiniteSetTheorems, TLAPS

USE DEF vars, envVars, channelVars, grantVars, journalVars, historyVars

\* Everything offered to a consumer was returned to it or excused.
OfferedSeen ==
    \A c \in DOMAIN consumers :
        1..consumers[c].offered \subseteq seen[c] \cup waived[c]

DeliveryInv == CursorsOrdered /\ OfferedSeen /\ ExpiryWaitsForConsumers

\* What the delivery invariant depends on.
deliveryVars == <<consumers, seen, waived, forced, expired>>

\* Loss ranges that ResolveRecovery admits leave no donation between the old
\* position and the new one undeclared.
LEMMA RangesLeaveNoHole ==
    ASSUME NEW old \in Nat, NEW resume \in 0..MaxUint64,
           NEW ranges \in RangeLists, RangesCover(ranges, old, resume)
    PROVE  (old + 1)..resume \subseteq
             UNION {ranges[i].start..ranges[i].end : i \in DOMAIN ranges}
<1> SUFFICES ASSUME NEW n \in (old + 1)..resume
             PROVE  \E i \in DOMAIN ranges :
                      n \in ranges[i].start..ranges[i].end
  OBVIOUS
<1> DEFINE S == {i \in DOMAIN ranges : ranges[i].end >= n}
<1>1. /\ DOMAIN ranges \subseteq Nat \ {0}
      /\ \A i \in DOMAIN ranges : /\ ranges[i].start \in Nat
                                  /\ ranges[i].end \in Nat
                                  /\ 1..(i - 1) \subseteq DOMAIN ranges
  <2>1. PICK k \in 0..MaxRanges : ranges \in [1..k -> LossRange]
    BY DEF RangeLists
  <2>2. /\ k \in Nat /\ DOMAIN ranges = 1..k
        /\ \A i \in 1..k : ranges[i] \in LossRange
    BY <2>1, LimitsAssumption
  <2>3. \A r \in LossRange : r.start \in Nat /\ r.end \in Nat
    BY LimitsAssumption DEF LossRange
  <2>4. \A i \in DOMAIN ranges : 1..(i - 1) \subseteq DOMAIN ranges
    BY <2>2
  <2> QED BY <2>2, <2>3, <2>4
<1>2. S # {} /\ S \in SUBSET Nat
  BY <1>1, LimitsAssumption DEF RangesCover
<1>3. PICK i \in S : \A j \in S : ~(<<j, i>> \in OpToRel(<, Nat))
  BY Zenon, <1>2, NatLessThanWellFounded, WFMin
<1>4. \A j \in 1..(i - 1) : ranges[j].end < n
  <2>1. \A j \in S : ~(j < i)
    BY Zenon, <1>2, <1>3 DEF OpToRel
  <2>2. i \in DOMAIN ranges /\ i \in Nat /\ n \in Nat
    BY <1>1
  <2>3. \A j \in 1..(i - 1) : j \in DOMAIN ranges /\ j < i
    BY <1>1, <2>2
  <2> QED BY <1>1, <2>1, <2>2, <2>3
<1> DEFINE covered == {old} \cup {ranges[j].end : j \in 1..(i - 1)}
<1>5. \A k \in covered : k \in Nat /\ k < n
  BY <1>1, <1>4, LimitsAssumption
<1>6. n <= MaxUint64 /\ n \in Nat
  BY LimitsAssumption
<1>7. IF MaxUint64 \in covered THEN ranges[i].start = 0
      ELSE \E k \in covered : ranges[i].start <= k + 1
  BY DEF RangesCover
<1>8. ranges[i].start <= n
  <2> HIDE DEF covered
  <2> QED BY <1>1, <1>5, <1>6, <1>7, LimitsAssumption
<1> QED BY <1>1, <1>8

\* The first elements of a set of offsets are closed downwards.
LEMMA PageClosed ==
    ASSUME NEW S \in SUBSET Nat, IsFiniteSet(S), NEW limit \in Nat,
           NEW o \in S, NEW q \in Page(S, limit), o <= q
    PROVE  o \in Page(S, limit)
<1> DEFINE below(x) == {p \in S : p < x}
<1>1. IsFiniteSet(below(q)) /\ below(o) \subseteq below(q)
  <2>1. q \in Nat
    BY DEF Page
  <2>2. below(o) \subseteq below(q)
    <3>1. ASSUME NEW p \in Nat, p < o PROVE p < q
      <4>1. o \in Nat
        OBVIOUS
      <4> QED BY <2>1, <3>1, <4>1
    <3> QED BY Zenon, <3>1
  <2>3. IsFiniteSet(below(q))
    BY FS_Subset
  <2> QED BY <2>2, <2>3
<1>2. Cardinality(below(o)) <= Cardinality(below(q))
  BY <1>1, FS_Subset
<1>3. IsFiniteSet(below(o)) /\ Cardinality(below(o)) \in Nat /\ Cardinality(below(q)) \in Nat
  BY <1>1, FS_Subset, FS_CardinalityType
<1>4. Cardinality(below(q)) < limit
  BY DEF Page
<1>5. Cardinality(below(o)) < limit
  <2> HIDE DEF below
  <2> QED BY <1>2, <1>3, <1>4
<1> QED BY <1>5 DEF Page

\* Offsets of the retained rows: what a read or a retention pass may find.
LEMMA ReadableOffsets ==
    ASSUME TypeOK, RetainedContiguous, NEW after \in Int
    PROVE  Readable(generation, after) =
             {o \in (expired + 1)..current : o > after}
BY DEF Readable, RetainedContiguous

\* A page returned by a read ends within what was journaled.
LEMMA PageWithinJournal ==
    ASSUME TypeOK, RetainedContiguous, NEW gen, NEW after \in 0..current,
           NEW limit, gen = generation, NEW next \in Nat,
           Page(Readable(gen, after), limit) = (after + 1)..next
    PROVE  next <= current \/ next <= after
<1>1. current \in Nat /\ expired \in Nat
  BY LimitsAssumption DEF TypeOK, ChannelType
<1>2. (after + 1)..next \subseteq (expired + 1)..current
  <2>1. after \in Int
    BY <1>1
  <2>2. Readable(gen, after) \subseteq (expired + 1)..current
    BY <2>1, ReadableOffsets
  <2> QED BY Zenon, <2>2 DEF Page
<1> QED BY <1>1, <1>2

\* A consumer row that is missing counts as one at the expired end.
LEMMA ProgressFacts ==
    ASSUME TypeOK, CursorsOrdered, RetainedContiguous, NEW c \in Consumers
    PROVE  /\ Progress(c) \in ConsumerRow
           /\ Progress(c).baseline <= Position(Progress(c))
           /\ Position(Progress(c)) <= Progress(c).offered
           /\ Progress(c).offered <= current
<1>1. ChannelType /\ ConsumersType
  BY DEF TypeOK
<1>2. CASE c \in DOMAIN consumers
  BY <1>1, <1>2 DEF ConsumersType, CursorsOrdered, Progress
<1>3. CASE c \notin DOMAIN consumers
  BY <1>1, <1>3, LimitsAssumption
  DEF ChannelType, RetainedContiguous, Progress, NewConsumer, ConsumerRow,
      Position, Null
<1> QED BY <1>2, <1>3

\* A read keeps the delivery invariant.
LEMMA ReadKeepsDelivery ==
    ASSUME TypeOK, RetainedContiguous, DeliveryInv, NEW c \in Consumers,
           NEW gen, NEW after \in 0..current, NEW revision, NEW limit,
           ReadDonations(c, gen, after, revision, limit)
    PROVE  DeliveryInv'
<1> DEFINE page == Page(Readable(gen, after), limit)
           next == after + Cardinality(page)
           p == Progress(c)
           row == [p EXCEPT !.offered = IF next > @ THEN next ELSE @]
<1>1. /\ gen = generation /\ after <= p.offered /\ page = (after + 1)..next
      /\ consumers' = With(consumers, c, row)
      /\ seen' = [seen EXCEPT ![c] = @ \cup page]
      /\ waived' = IF c \in DOMAIN consumers THEN waived
                   ELSE [waived EXCEPT ![c] = @ \cup 1..expired]
      /\ forced' = forced /\ expired' = expired /\ current' = current
  BY DEF ReadDonations, ReadCursor
<1>2. current \in Nat /\ expired \in Nat /\ after \in Nat /\ expired <= current
  BY LimitsAssumption DEF TypeOK, ChannelType, RetainedContiguous
<1>3. next \in Nat
  BY <1>2, PageType DEF TypeOK
<1>4. /\ p \in ConsumerRow /\ p.baseline <= Position(p)
      /\ Position(p) <= p.offered /\ p.offered <= current
  BY ProgressFacts DEF DeliveryInv
<1>5. next <= current \/ next <= after
  <2> HIDE DEF next
  <2> QED BY <1>1, <1>3, PageWithinJournal
<1>6. c \notin DOMAIN consumers => p.offered = expired /\ Position(p) = expired
  BY DEF Progress, NewConsumer, Position, Null
<1>7. c \in DOMAIN consumers => p = consumers[c]
  BY DEF Progress
<1> HIDE DEF page, next, p
<1>8. /\ row.baseline = p.baseline /\ row.ack = p.ack
      /\ row.offered \in Nat /\ row.offered <= current /\ p.offered <= row.offered
      /\ row.offered = next \/ row.offered = p.offered
  BY <1>2, <1>3, <1>4, <1>5 DEF ConsumerRow
<1>9. Position(row) = Position(p) /\ Position(p) \in Nat /\ p.offered \in Nat
  BY <1>4, <1>8 DEF Position, ConsumerRow
<1>10. 1..row.offered \subseteq seen'[c] \cup waived'[c]
  <2>1. 1..p.offered \subseteq seen[c] \cup waived'[c]
    BY <1>1, <1>6, <1>7 DEF DeliveryInv, OfferedSeen, TypeOK, HistoryType
  <2>2. 1..next \subseteq 1..p.offered \cup ((after + 1)..next)
    BY <1>1, <1>2, <1>3, <1>9
  <2>3. seen'[c] = seen[c] \cup page
    BY <1>1 DEF TypeOK, HistoryType
  <2> QED BY <1>1, <1>8, <2>1, <2>2, <2>3
<1> HIDE DEF row
<1>11. /\ DOMAIN consumers' = DOMAIN consumers \cup {c} /\ consumers'[c] = row
       /\ \A d \in DOMAIN consumers : d # c => consumers'[d] = consumers[d]
       /\ \A d \in Consumers : d # c => seen'[d] = seen[d] /\ waived'[d] = waived[d]
       /\ DOMAIN consumers \subseteq Consumers
  BY <1>1 DEF With, TypeOK, HistoryType, ConsumersType
<1>12. CursorsOrdered'
  <2>1. /\ row.baseline <= Position(row) /\ Position(row) <= row.offered
        /\ row.offered <= current
    BY <1>4, <1>8, <1>9 DEF ConsumerRow
  <2> QED BY <1>1, <1>11, <2>1 DEF DeliveryInv, CursorsOrdered
<1>13. OfferedSeen'
  BY <1>10, <1>11 DEF DeliveryInv, OfferedSeen
<1>14. ExpiryWaitsForConsumers'
  <2>1. (Position(row) + 1)..expired \subseteq forced
    <3>1. CASE c \in DOMAIN consumers
      BY <1>7, <1>9, <3>1 DEF DeliveryInv, ExpiryWaitsForConsumers
    <3>2. CASE c \notin DOMAIN consumers
      BY <1>2, <1>6, <1>9, <3>2
    <3> QED BY <3>1, <3>2
  <2> QED BY <1>1, <1>11, <2>1 DEF DeliveryInv, ExpiryWaitsForConsumers
<1> QED BY <1>12, <1>13, <1>14 DEF DeliveryInv

\* An acknowledgement keeps the delivery invariant.
LEMMA AckKeepsDelivery ==
    ASSUME TypeOK, DeliveryInv, NEW c \in Consumers, NEW gen,
           NEW offset \in Nat, NEW revision,
           AckDonations(c, gen, offset, revision)
    PROVE  DeliveryInv'
<1> DEFINE p == consumers[c]
           row == [p EXCEPT !.ack = offset]
<1>1. /\ c \in DOMAIN consumers /\ AckCursor(p, offset)
      /\ consumers' = [consumers EXCEPT ![c] = row]
      /\ UNCHANGED <<seen, waived, forced, expired, current>>
  BY DEF AckDonations
<1>2. p \in ConsumerRow /\ expired \in Nat /\ current \in Nat
  BY <1>1, LimitsAssumption DEF TypeOK, ConsumersType, ChannelType
<1>3. /\ row.baseline = p.baseline /\ row.offered = p.offered /\ row.ack = offset
  BY <1>2 DEF ConsumerRow
<1>4. /\ Position(row) = offset /\ p.baseline <= offset /\ offset <= p.offered
      /\ Position(p) <= offset /\ Position(p) \in Nat
  BY <1>1, <1>2, <1>3 DEF AckCursor, Position, ConsumerRow, Null
<1>5. /\ DOMAIN consumers' = DOMAIN consumers /\ consumers'[c] = row
      /\ \A d \in DOMAIN consumers : d # c => consumers'[d] = consumers[d]
  BY <1>1
<1> HIDE DEF row
<1>6. CursorsOrdered'
  BY <1>1, <1>3, <1>4, <1>5 DEF DeliveryInv, CursorsOrdered
<1>7. OfferedSeen'
  BY <1>1, <1>3, <1>5 DEF DeliveryInv, OfferedSeen
<1>8. ExpiryWaitsForConsumers'
  <2>1. (Position(row) + 1)..expired \subseteq (Position(p) + 1)..expired
    BY <1>2, <1>4
  <2> QED BY <1>1, <1>5, <2>1 DEF DeliveryInv, ExpiryWaitsForConsumers
<1> QED BY <1>6, <1>7, <1>8 DEF DeliveryInv

\* A recovery decision keeps the delivery invariant.
LEMMA RecoveryKeepsDelivery ==
    ASSUME TypeOK, DeliveryInv, NEW c \in Consumers, NEW key, NEW previous,
           NEW next, NEW resume \in 0..current, NEW expected,
           NEW ranges \in RangeLists,
           ResolveRecovery(c, key, previous, next, resume, expected, ranges)
    PROVE  DeliveryInv'
<1> DEFINE row == [generation |-> next, baseline |-> resume, offered |-> resume,
                   ack |-> Null, revision |-> expected + 1]
           lost == UNION {ranges[i].start..ranges[i].end : i \in DOMAIN ranges}
           excused == IF previous = next THEN lost
                      ELSE (OldPosition(c) + 1)..resume
<1>1. /\ RecoveryAllowed(c, previous, next, resume, expected, ranges)
      /\ consumers' = With(consumers, c, row)
      /\ waived' = [waived EXCEPT ![c] = @ \cup excused]
      /\ UNCHANGED <<seen, forced, expired, current>>
  BY DEF ResolveRecovery
<1>2. /\ current \in Nat /\ current <= MaxUint64 /\ expired \in Nat
      /\ expired <= resume /\ resume \in 0..MaxUint64
  BY <1>1, LimitsAssumption DEF TypeOK, ChannelType, RecoveryAllowed
<1>3. /\ row.baseline = resume /\ row.offered = resume
      /\ Position(row) = resume
  BY DEF Position
<1> HIDE DEF row
<1>4. /\ OldPosition(c) \in Nat
      /\ 1..OldPosition(c) \subseteq seen[c] \cup waived[c]
  <2>1. CASE c \in DOMAIN consumers
    <3>1. consumers[c] \in ConsumerRow
      BY <2>1 DEF TypeOK, ConsumersType
    <3>2. /\ Position(consumers[c]) \in Nat
          /\ Position(consumers[c]) <= consumers[c].offered
          /\ consumers[c].offered \in Nat
      BY <2>1, <3>1 DEF DeliveryInv, CursorsOrdered, Position, ConsumerRow
    <3>3. 1..Position(consumers[c]) \subseteq 1..consumers[c].offered
      BY <3>2
    <3> QED BY <2>1, <3>2, <3>3 DEF DeliveryInv, OfferedSeen, OldPosition
  <2>2. CASE c \notin DOMAIN consumers
    BY <2>2 DEF OldPosition
  <2> QED BY <2>1, <2>2
<1>5. 1..resume \subseteq 1..OldPosition(c) \cup excused
  <2>1. CASE previous # next
    BY <1>2, <1>4, <2>1
  <2>2. CASE previous = next
    <3>1. /\ OldPosition(c) <= resume
          /\ OldPosition(c) < resume => RangesCover(ranges, OldPosition(c), resume)
      BY <1>1, <2>2 DEF RecoveryAllowed
    <3>2. OldPosition(c) < resume => (OldPosition(c) + 1)..resume \subseteq lost
      BY <1>2, <1>4, <3>1, RangesLeaveNoHole
    <3> HIDE DEF lost
    <3> QED BY <1>2, <1>4, <2>2, <3>1, <3>2
  <2> QED BY <2>1, <2>2
<1> HIDE DEF excused
<1>6. /\ DOMAIN consumers' = DOMAIN consumers \cup {c} /\ consumers'[c] = row
      /\ \A d \in DOMAIN consumers : d # c => consumers'[d] = consumers[d]
      /\ \A d \in Consumers : d # c => waived'[d] = waived[d]
      /\ waived'[c] = waived[c] \cup excused
      /\ DOMAIN consumers \subseteq Consumers
  BY <1>1 DEF With, TypeOK, HistoryType, ConsumersType
<1>7. CursorsOrdered'
  BY <1>1, <1>2, <1>3, <1>6 DEF DeliveryInv, CursorsOrdered
<1>8. OfferedSeen'
  <2>1. 1..row.offered \subseteq seen[c] \cup waived'[c]
    BY <1>3, <1>4, <1>5, <1>6
  <2> QED BY <1>1, <1>6, <2>1 DEF DeliveryInv, OfferedSeen
<1>9. ExpiryWaitsForConsumers'
  <2>1. (Position(row) + 1)..expired = {}
    BY <1>2, <1>3
  <2> QED BY <1>1, <1>6, <2>1 DEF DeliveryInv, ExpiryWaitsForConsumers
<1> QED BY <1>7, <1>8, <1>9 DEF DeliveryInv

\* A retention pass drops only what every consumer passed or a limit forced.
LEMMA ExpireKeepsDelivery ==
    ASSUME TypeOK, RetainedContiguous, DeliveryInv, NEW host,
           ExpireDonations(host)
    PROVE  DeliveryInv'
<1>1. PICK through \in Expirable(host) :
        /\ expired' = through
        /\ forced' = forced \cup {o \in Expirable(host) : Forced(o, host)}
        /\ UNCHANGED <<consumers, seen, waived, current>>
  BY DEF ExpireDonations
<1>2. /\ current \in Nat /\ expired \in Nat
      /\ Readable(generation, -1) = (expired + 1)..current
  <2>1. current \in Nat /\ expired \in Nat
    BY LimitsAssumption DEF TypeOK, ChannelType
  <2>2. {o \in (expired + 1)..current : o > -1} = (expired + 1)..current
    BY <2>1
  <2>3. -1 \in Int
    OBVIOUS
  <2> QED BY Zenon, <2>1, <2>2, <2>3, ReadableOffsets
<1>3. through \in Candidates /\ through \in (expired + 1)..current
  BY <1>2 DEF Expirable, Candidates, Page
<1>4. ASSUME NEW o \in (expired + 1)..through PROVE o \in Expirable(host)
  <2>1. o \in Candidates
    <3>1. IsFiniteSet((expired + 1)..current)
      BY <1>2, FS_Interval
    <3> QED BY <1>2, <1>3, <3>1, PageClosed, LimitsAssumption DEF Candidates
  <2>2. \A q \in Candidates : q <= o => q <= through
    <3>1. Candidates \subseteq Nat
      BY <1>2 DEF Candidates, Page
    <3> QED BY <1>2, <1>3, <3>1
  <2> QED BY <2>1, <2>2 DEF Expirable
<1>5. ASSUME NEW c \in DOMAIN consumers
      PROVE  (Position(consumers[c]) + 1)..through \subseteq forced'
  <2>1. Position(consumers[c]) \in Nat
    BY DEF TypeOK, ConsumersType, ConsumerRow, Position
  <2>2. SUFFICES ASSUME NEW o \in (Position(consumers[c]) + 1)..through
                 PROVE  o \in forced'
    OBVIOUS
  <2>3. CASE o <= expired
    BY <1>1, <1>2, <2>1, <2>3 DEF DeliveryInv, ExpiryWaitsForConsumers
  <2>4. CASE ~(o <= expired)
    <3>1. o \in Expirable(host) /\ ~(o <= Position(consumers[c])) /\ o <= o
      BY <1>2, <1>3, <1>4, <2>1, <2>4
    <3>2. Droppable(o, host)
      BY <3>1 DEF Expirable
    <3>3. Forced(o, host)
      BY <3>1, <3>2 DEF Droppable, Acked
    <3> QED BY <1>1, <3>1, <3>3
  <2> QED BY <2>3, <2>4
<1>6. CursorsOrdered' /\ OfferedSeen'
  BY <1>1 DEF DeliveryInv, CursorsOrdered, OfferedSeen
<1>7. ExpiryWaitsForConsumers'
  BY <1>1, <1>5 DEF ExpiryWaitsForConsumers
<1> QED BY <1>6, <1>7 DEF DeliveryInv

\* The other operations leave consumers and retention alone; the journal grows.
LEMMA DeliveryUnchanged ==
    ASSUME TypeOK, DeliveryInv, UNCHANGED deliveryVars,
           current' \in {current, current + 1}
    PROVE  DeliveryInv'
<1>1. /\ current \in Nat /\ current' \in Nat /\ current <= current'
      /\ \A c \in DOMAIN consumers : consumers[c].offered \in Nat
  BY LimitsAssumption DEF TypeOK, ChannelType, ConsumersType, ConsumerRow
<1>2. CursorsOrdered'
  BY <1>1 DEF deliveryVars, DeliveryInv, CursorsOrdered
<1>3. OfferedSeen' /\ ExpiryWaitsForConsumers'
  BY DEF deliveryVars, DeliveryInv, OfferedSeen, ExpiryWaitsForConsumers
<1> QED BY <1>2, <1>3 DEF DeliveryInv

\* Every step keeps the delivery invariant.
LEMMA DeliveryStep ==
    TypeOK /\ RetainedContiguous /\ DeliveryInv /\ [Next]_vars => DeliveryInv'
<1> SUFFICES ASSUME TypeOK, RetainedContiguous, DeliveryInv, [Next]_vars
             PROVE  DeliveryInv'
  OBVIOUS
<1>1. ASSUME UNCHANGED <<deliveryVars, current>> PROVE DeliveryInv'
  BY <1>1, DeliveryUnchanged
<1>2. CASE OwnerNext
  <2>1. UNCHANGED <<deliveryVars, current>>
    BY Zenon, <1>2 DEF OwnerNext, AcquireCollection, RenewCollection,
                ReleaseCollection, deliveryVars
  <2> QED BY <1>1, <2>1
<1>3. CASE RuntimeNext
  <2>1. UNCHANGED <<deliveryVars, current>>
    BY <1>3 DEF RuntimeNext, CollectionHeartbeat, SetCollectionState, deliveryVars
  <2> QED BY <1>1, <2>1
<1>4. CASE AppendNext
  <2>1. UNCHANGED deliveryVars /\ current' = current + 1
    BY <1>4 DEF AppendNext, AppendDonation, deliveryVars
  <2> QED BY <2>1, DeliveryUnchanged
<1>5. CASE ReadNext
  <2>1. 0..current \subseteq Nat
    OBVIOUS
  <2> QED BY <1>5, <2>1, ReadKeepsDelivery, AckKeepsDelivery DEF ReadNext
<1>6. CASE RecoveryNext
  BY <1>6, RecoveryKeepsDelivery DEF RecoveryNext
<1>7. CASE SubscriptionNext
  <2>1. UNCHANGED <<deliveryVars, current>>
    BY Zenon, <1>7 DEF SubscriptionNext, SetSubscription, SetOptOut, deliveryVars
  <2> QED BY <1>1, <2>1
<1>8. CASE MaintenanceNext
  <2>1. ASSUME NEW e, DispatchDonationOutbox(e)
        PROVE  UNCHANGED <<deliveryVars, current>>
    BY <2>1 DEF DispatchDonationOutbox, deliveryVars
  <2>2. ASSUME PruneCollection PROVE UNCHANGED <<deliveryVars, current>>
    BY <2>2 DEF PruneCollection, deliveryVars
  <2>3. ASSUME NEW gen, RotateJournal(gen)
        PROVE  UNCHANGED <<deliveryVars, current>>
    BY <2>3 DEF RotateJournal, deliveryVars
  <2> QED BY <1>1, <1>8, <2>1, <2>2, <2>3, ExpireKeepsDelivery
          DEF MaintenanceNext
<1>9. CASE EnvironmentNext
  <2>1. UNCHANGED <<deliveryVars, current>>
    BY <1>9 DEF EnvironmentNext, Tick, SetAssignment, deliveryVars
  <2> QED BY <1>1, <2>1
<1>10. CASE UNCHANGED vars
  BY <1>1, <1>10 DEF deliveryVars
<1> QED BY <1>2, <1>3, <1>4, <1>5, <1>6, <1>7, <1>8, <1>9, <1>10 DEF Next

\* The delivery invariant holds of every behaviour.
LEMMA DeliveryInvariant == Spec => []DeliveryInv
<1>1. Init => DeliveryInv
  BY DEF Init, DeliveryInv, CursorsOrdered, OfferedSeen, ExpiryWaitsForConsumers
<1> QED BY <1>1, DeliveryStep, TypeCorrect, RetainedWindow, PTL DEF Spec

\* Every consumer's baseline, position and offered end are in order, and
\* ReadDonations never offers beyond the end of the journal.
THEOREM CursorsStayOrdered == Spec => []CursorsOrdered
BY DeliveryInvariant, PTL DEF DeliveryInv

\* No acknowledgement, read or recovery decision carries a consumer past a
\* donation that it was not given and that nobody declared lost.
THEOREM NothingSkippedSilently == Spec => []NoSilentLoss
<1>1. TypeOK /\ DeliveryInv => NoSilentLoss
  <2> SUFFICES ASSUME TypeOK, DeliveryInv, NEW c \in DOMAIN consumers
               PROVE  1..Position(consumers[c]) \subseteq seen[c] \cup waived[c]
    BY DEF NoSilentLoss
  <2>1. /\ consumers[c].offered \in Nat /\ Position(consumers[c]) \in Nat
        /\ Position(consumers[c]) <= consumers[c].offered
    BY DEF TypeOK, ConsumersType, ConsumerRow, Position, DeliveryInv,
           CursorsOrdered
  <2>2. 1..Position(consumers[c]) \subseteq 1..consumers[c].offered
    BY <2>1
  <2> QED BY <2>2 DEF DeliveryInv, OfferedSeen
<1> QED BY <1>1, TypeCorrect, DeliveryInvariant, PTL

\* ExpireDonations drops a payload that some consumer has yet to pass only
\* when the age or the size limit forces it.
THEOREM RetentionWaits == Spec => []ExpiryWaitsForConsumers
BY DeliveryInvariant, PTL DEF DeliveryInv

\* ResolveRecovery always admits the decision that writes the rest of the
\* journal off, so that no consumer is stuck for good.
THEOREM RecoveryAlwaysPossible == Spec => []RecoveryPossible
<1>1. TypeOK /\ RetainedContiguous /\ DeliveryInv => RecoveryPossible
  <2> SUFFICES ASSUME TypeOK, RetainedContiguous, DeliveryInv,
                      NEW c \in Consumers, Revision(c) # MaxUint64
               PROVE  RecoveryAllowed(c,
                        IF c \in DOMAIN consumers THEN consumers[c].generation
                        ELSE generation,
                        generation, current, Revision(c),
                        <<[start |-> OldPosition(c) + 1, end |-> current]>>)
    BY DEF RecoveryPossible
  <2> DEFINE rest == <<[start |-> OldPosition(c) + 1, end |-> current]>>
  <2>1. /\ current \in Nat /\ current <= MaxUint64 /\ expired \in Nat
        /\ expired <= current
    BY LimitsAssumption DEF TypeOK, ChannelType, RetainedContiguous
  <2>2. OldPosition(c) \in Nat /\ OldPosition(c) <= current
    <3>1. CASE c \in DOMAIN consumers
      BY <2>1, <3>1 DEF TypeOK, ConsumersType, ConsumerRow, Position,
                        OldPosition, DeliveryInv, CursorsOrdered
    <3>2. CASE c \notin DOMAIN consumers
      BY <2>1, <3>2 DEF OldPosition
    <3> QED BY <3>1, <3>2
  <2>3. ASSUME OldPosition(c) < current
        PROVE  RangesCover(rest, OldPosition(c), current)
    <3>1. /\ DOMAIN rest = {1} /\ rest[1].start = OldPosition(c) + 1
          /\ rest[1].end = current
      BY SMTT(20)
    <3>2. 1..(1 - 1) = {} /\ MaxUint64 # OldPosition(c)
      BY <2>1, <2>2, <2>3, LimitsAssumption
    <3> HIDE DEF rest
    <3> QED BY <2>1, <2>2, <2>3, <3>1, <3>2 DEF RangesCover
  <2> QED BY <2>1, <2>2, <2>3 DEF RecoveryAllowed
<1> QED BY <1>1, TypeCorrect, RetainedWindow, DeliveryInvariant, PTL

\* Under one revision a consumer's position only moves forward; only a
\* recovery decision does anything else, and it takes the next revision.
THEOREM RevisionsFence == Spec => RevisionFences
<1> DEFINE Fenced(c) ==
      /\ c \in DOMAIN consumers'
      /\ \/ /\ consumers'[c].revision = consumers[c].revision
            /\ consumers'[c].generation = consumers[c].generation
            /\ consumers'[c].baseline = consumers[c].baseline
            /\ Position(consumers'[c]) >= Position(consumers[c])
            /\ consumers'[c].offered >= consumers[c].offered
         \/ /\ consumers'[c].revision = consumers[c].revision + 1
            /\ consumers'[c].generation = generation
<1>1. TypeOK /\ [Next]_vars => [\A c \in DOMAIN consumers : Fenced(c)]_vars
  <2> SUFFICES ASSUME TypeOK, Next, NEW c \in DOMAIN consumers PROVE Fenced(c)
    OBVIOUS
  <2>1. /\ c \in Consumers /\ consumers[c] \in ConsumerRow
        /\ Position(consumers[c]) \in Nat /\ consumers[c].offered \in Nat
    BY DEF TypeOK, ConsumersType, ConsumerRow, Position
  <2>2. ASSUME consumers' = consumers PROVE Fenced(c)
    BY <2>1, <2>2
  <2>3. ASSUME NEW d, NEW gen, NEW after \in 0..current, NEW revision, NEW limit,
               ReadDonations(d, gen, after, revision, limit)
        PROVE  Fenced(c)
    <3> DEFINE next == after + Cardinality(Page(Readable(gen, after), limit))
               p == Progress(d)
               row == [p EXCEPT !.offered = IF next > @ THEN next ELSE @]
    <3>1. consumers' = With(consumers, d, row)
      BY <2>3 DEF ReadDonations
    <3>2. CASE d = c
      <4>1. p = consumers[c] /\ next \in Nat
        BY <3>2, PageType DEF Progress, TypeOK
      <4> HIDE DEF next, p
      <4>2. /\ row.revision = p.revision /\ row.generation = p.generation
            /\ row.baseline = p.baseline /\ row.ack = p.ack
            /\ row.offered >= p.offered
        BY <2>1, <4>1 DEF ConsumerRow
      <4>3. Position(row) = Position(p)
        BY <4>2 DEF Position
      <4> HIDE DEF row
      <4>4. c \in DOMAIN consumers' /\ consumers'[c] = row
        BY <3>1, <3>2 DEF With
      <4> QED BY <2>1, <4>1, <4>2, <4>3, <4>4
    <3>3. CASE d # c
      BY <2>1, <3>1, <3>3 DEF With
    <3> QED BY <3>2, <3>3
  <2>4. ASSUME NEW d, NEW gen, NEW offset \in 0..current, NEW revision,
               AckDonations(d, gen, offset, revision)
        PROVE  Fenced(c)
    <3>1. consumers' = [consumers EXCEPT ![d].ack = offset]
      BY <2>4 DEF AckDonations
    <3>2. CASE d = c
      <4>1. AckCursor(consumers[c], offset)
        BY <2>4, <3>2 DEF AckDonations
      <4> QED BY <2>1, <3>1, <3>2, <4>1 DEF ConsumerRow, Position, AckCursor, Null
    <3>3. CASE d # c
      BY <2>1, <3>1, <3>3
    <3> QED BY <3>2, <3>3
  <2>5. ASSUME NEW d, NEW key, NEW previous, NEW next, NEW resume, NEW expected,
               NEW ranges,
               ResolveRecovery(d, key, previous, next, resume, expected, ranges)
        PROVE  Fenced(c)
    <3>1. /\ consumers' = With(consumers, d,
               [generation |-> next, baseline |-> resume, offered |-> resume,
                ack |-> Null, revision |-> expected + 1])
          /\ next = generation /\ expected = Revision(d)
      BY <2>5 DEF ResolveRecovery, RecoveryAllowed
    <3>2. CASE d = c
      BY SMTT(20), <3>1, <3>2 DEF With, Revision
    <3>3. CASE d # c
      BY <2>1, <3>1, <3>3 DEF With
    <3> QED BY <3>2, <3>3
  <2> HIDE DEF Fenced
  <2>6. CASE OwnerNext
    <3>1. consumers' = consumers
      BY Zenon, <2>6 DEF OwnerNext, AcquireCollection, RenewCollection, ReleaseCollection
    <3> QED BY <2>2, <3>1
  <2>7. CASE RuntimeNext
    BY <2>2, <2>7 DEF RuntimeNext, CollectionHeartbeat, SetCollectionState
  <2>8. CASE AppendNext
    <3>1. consumers' = consumers
      BY <2>8 DEF AppendNext, AppendDonation
    <3> QED BY <2>2, <3>1
  <2>9. CASE ReadNext
    BY <2>3, <2>4, <2>9 DEF ReadNext
  <2>10. CASE RecoveryNext
    BY <2>5, <2>10 DEF RecoveryNext
  <2>11. CASE SubscriptionNext
    <3>1. consumers' = consumers
      BY Zenon, <2>11 DEF SubscriptionNext, SetSubscription, SetOptOut
    <3> QED BY <2>2, <3>1
  <2>12. CASE MaintenanceNext
    <3>1. ASSUME NEW host, ExpireDonations(host) PROVE consumers' = consumers
      BY <3>1 DEF ExpireDonations
    <3>2. consumers' = consumers
      BY <2>12, <3>1 DEF MaintenanceNext, DispatchDonationOutbox,
         PruneCollection, RotateJournal
    <3> QED BY <2>2, <3>2
  <2>13. CASE EnvironmentNext
    BY <2>2, <2>13 DEF EnvironmentNext, Tick, SetAssignment
  <2> QED BY <2>6, <2>7, <2>8, <2>9, <2>10, <2>11, <2>12, <2>13 DEF Next
<1> QED BY <1>1, TypeCorrect, PTL DEF Spec, RevisionFences

=============================================================================
