----------------------- MODULE CollectorJournalProofs -----------------------
(***************************************************************************)
(* Proofs about CollectorJournal, for every value of its constants: every  *)
(* table keeps its types, grant windows never overlap, the owner's grant   *)
(* is never deleted, and an unsubscribed channel has no grant left open.   *)
(***************************************************************************)
EXTENDS CollectorJournal, FiniteSetTheorems, TLAPS

USE DEF vars, envVars, channelVars, grantVars, journalVars, historyVars

-----------------------------------------------------------------------------
(* Facts about the operators the actions are built from. *)

\* Offsets of journal rows are finitely many naturals, and so is a page.
LEMMA PageType ==
    ASSUME DonationsType, NEW gen, NEW after, NEW limit
    PROVE  /\ Readable(gen, after) \subseteq Nat
           /\ IsFiniteSet(Readable(gen, after))
           /\ Page(Readable(gen, after), limit) \subseteq Readable(gen, after)
           /\ IsFiniteSet(Page(Readable(gen, after), limit))
           /\ Cardinality(Page(Readable(gen, after), limit)) \in Nat
<1> DEFINE rows == {f \in Retained :
                      donations[f].generation = gen /\ donations[f].offset > after}
           off == [e \in rows |-> donations[e].offset]
<1>1. rows \subseteq Events
  BY DEF DonationsType, Retained
<1>2. IsFiniteSet(rows)
  BY <1>1, SetsAssumption, FS_Subset
<1>3. off \in Surjection(rows, Readable(gen, after))
  BY DEF Readable, Surjection
<1>4. IsFiniteSet(Readable(gen, after))
  BY <1>2, <1>3, FS_Surjection
<1>5. Readable(gen, after) \subseteq Nat
  BY DEF Readable, Retained, DonationsType, DonationRow
<1>6. Page(Readable(gen, after), limit) \subseteq Readable(gen, after)
  BY DEF Page
<1> QED BY <1>4, <1>5, <1>6, FS_Subset, FS_CardinalityType

-----------------------------------------------------------------------------
(* Type correctness. *)

\* Every step of every operation keeps the tables well typed.
LEMMA TypeStep == TypeOK /\ [Next]_vars => TypeOK'
<1> SUFFICES ASSUME TypeOK, [Next]_vars PROVE TypeOK'
  OBVIOUS
<1> USE DEF TypeOK
<1>1. ASSUME NEW w \in Workers, AcquireCollection(w) PROVE TypeOK'
  <2> DEFINE row == [worker |-> w, generation |-> generation, granted |-> now,
                     until |-> now + GrantTTL, closed |-> Null]
  <2>1. row \in GrantRow
    BY TimesAssumption DEF ChannelType, GrantRow, Null
  <2>2. /\ grants' = With(grants, issued + 1, row)
        /\ issued' = issued + 1 /\ ownerToken' = issued + 1
    BY <1>1 DEF AcquireCollection
  <2> HIDE DEF row
  <2>3. GrantsType'
    BY <2>1, <2>2 DEF GrantsType, With
  <2>4. ChannelType'
    BY <1>1 DEF ChannelType, AcquireCollection
  <2>5. DonationsType' /\ ConsumersType' /\ RequestsType' /\ LogType' /\ HistoryType'
    BY <1>1 DEF AcquireCollection, DonationsType, ConsumersType, RequestsType,
                LogType, HistoryType
  <2> QED BY <2>3, <2>4, <2>5
<1>2. ASSUME NEW t \in 1..issued, RenewCollection(t) PROVE TypeOK'
  <2>1. GrantsType'
    BY <1>2, TimesAssumption DEF ChannelType, GrantsType, RenewCollection, GrantRow
  <2> QED BY <1>2, <2>1 DEF RenewCollection, ChannelType, DonationsType,
             ConsumersType, RequestsType, LogType, HistoryType
<1>3. ASSUME NEW t \in 1..issued, ReleaseCollection(t) PROVE TypeOK'
  <2>1. GrantsType'
    BY <1>3 DEF ChannelType, GrantsType, ReleaseCollection, GrantRow, Close
  <2> QED BY <1>3, <2>1 DEF ReleaseCollection, ChannelType, DonationsType,
             ConsumersType, RequestsType, LogType, HistoryType
<1>4. ASSUME NEW state \in RuntimeStates, SetCollectionState(state)
      PROVE TypeOK'
  BY <1>4 DEF SetCollectionState, ChannelType, GrantsType, DonationsType,
              ConsumersType, RequestsType, LogType, HistoryType
<1>5. ASSUME NEW e \in Events, NEW content \in Contents, NEW t, NEW gen,
             NEW at \in Nat, NEW host,
             AppendDonation(e, content, t, gen, at, host)
      PROVE TypeOK'
  <2> DEFINE row == [offset |-> current + 1, generation |-> generation,
                     content |-> content, stored |-> now, payload |-> TRUE]
  <2>1. current # MaxUint64
    BY <1>5 DEF AppendDonation, AppendOutcome
  <2>2. row \in DonationRow
    BY LimitsAssumption DEF ChannelType, DonationRow
  <2>3. donations' = With(donations, e, row) /\ outbox' = outbox \cup {e}
    BY <1>5 DEF AppendDonation
  <2> HIDE DEF row
  <2>4. DonationsType'
    BY <2>2, <2>3 DEF DonationsType, With
  <2>5. LogType'
    BY <1>5, LimitsAssumption DEF LogType, ChannelType, AppendDonation
  <2>6. ChannelType'
    BY <1>5, <2>1, LimitsAssumption DEF ChannelType, AppendDonation
  <2> QED BY <1>5, <2>4, <2>5, <2>6
          DEF AppendDonation, GrantsType, ConsumersType, RequestsType, HistoryType
<1>6. ASSUME NEW c \in Consumers, NEW gen, NEW after \in Nat, NEW revision,
             NEW limit, ReadDonations(c, gen, after, revision, limit)
      PROVE TypeOK'
  <2> DEFINE page == Page(Readable(gen, after), limit)
             next == after + Cardinality(page)
             p == Progress(c)
             row == [p EXCEPT !.offered = IF next > @ THEN next ELSE @]
  <2>1. page \subseteq Nat /\ next \in Nat
    BY PageType
  <2>2. p \in ConsumerRow
    BY DEF ChannelType, ConsumersType, Progress, NewConsumer, ConsumerRow, Null
  <2>3. row \in ConsumerRow
    <3> HIDE DEF p, next
    <3> QED BY <2>1, <2>2 DEF ConsumerRow
  <2>4. /\ consumers' = With(consumers, c, row)
        /\ seen' = [seen EXCEPT ![c] = @ \cup page]
        /\ waived' = IF c \in DOMAIN consumers THEN waived
                     ELSE [waived EXCEPT ![c] = @ \cup 1..expired]
        /\ forced' = forced
    BY <1>6 DEF ReadDonations
  <2> HIDE DEF row, page
  <2>5. ConsumersType'
    BY <2>3, <2>4 DEF ConsumersType, With
  <2>6. 1..expired \subseteq Nat
    BY DEF ChannelType
  <2>7. HistoryType'
    BY Zenon, <2>1, <2>4, <2>6 DEF HistoryType
  <2> QED BY <1>6, <2>5, <2>7 DEF ReadDonations, ChannelType, GrantsType,
             DonationsType, RequestsType, LogType
<1>7. ASSUME NEW c \in Consumers, NEW gen, NEW offset \in Nat, NEW revision,
             AckDonations(c, gen, offset, revision)
      PROVE TypeOK'
  <2>1. ConsumersType'
    BY <1>7 DEF ConsumersType, AckDonations, ConsumerRow
  <2> QED BY <1>7, <2>1 DEF AckDonations, ChannelType, GrantsType,
             DonationsType, RequestsType, LogType, HistoryType
<1>8. ASSUME NEW c \in Consumers, NEW key \in Keys, NEW previous, NEW next,
             NEW resume \in Nat, NEW expected, NEW ranges \in RangeLists,
             ResolveRecovery(c, key, previous, next, resume, expected, ranges)
      PROVE TypeOK'
  <2> DEFINE row == [generation |-> next, baseline |-> resume,
                     offered |-> resume, ack |-> Null,
                     revision |-> expected + 1]
             excused == IF previous = next
                        THEN UNION {ranges[i].start..ranges[i].end :
                                      i \in DOMAIN ranges}
                        ELSE (OldPosition(c) + 1)..resume
             k == <<c, "recovery", key>>
  <2>1. next \in Nat /\ expected \in Nat
    BY <1>8 DEF ChannelType, ConsumersType, ResolveRecovery, RecoveryAllowed,
                Revision, ConsumerRow
  <2>2. row \in ConsumerRow
    BY <2>1 DEF ConsumerRow, Null
  <2>3. OldPosition(c) \in Nat
    BY DEF ConsumersType, OldPosition, Position, ConsumerRow
  <2>4. excused \subseteq Nat
    <3>1. \A i \in DOMAIN ranges : ranges[i].start \in Nat /\ ranges[i].end \in Nat
      BY LimitsAssumption DEF RangeLists, LossRange
    <3> QED BY <2>3, <3>1
  <2>5. k \in Consumers \X Operations \X Keys
    BY DEF Operations
  <2>6. /\ consumers' = With(consumers, c, row)
        /\ requests' = With(requests, k, now)
        /\ waived' = [waived EXCEPT ![c] = @ \cup excused]
        /\ seen' = seen /\ forced' = forced
    BY <1>8 DEF ResolveRecovery
  <2> HIDE DEF row, excused, k
  <2>7. ConsumersType'
    BY <2>2, <2>6 DEF ConsumersType, With
  <2>8. RequestsType'
    BY <2>5, <2>6 DEF RequestsType, ChannelType, With
  <2>9. HistoryType'
    BY Zenon, <2>4, <2>6 DEF HistoryType
  <2> QED BY <1>8, <2>7, <2>8, <2>9 DEF ResolveRecovery, ChannelType,
             GrantsType, DonationsType, LogType
<1>9. ASSUME NEW c \in Consumers, NEW key \in Keys, NEW enabled \in BOOLEAN,
             SetSubscription(c, key, enabled)
      PROVE TypeOK'
  <2> DEFINE k == <<c, "subscription", key>>
  <2>1. k \in Consumers \X Operations \X Keys
    BY DEF Operations
  <2>2. requests' = With(requests, k, now)
    BY <1>9 DEF SetSubscription
  <2> HIDE DEF k
  <2>3. RequestsType'
    BY <2>1, <2>2 DEF RequestsType, ChannelType, With
  <2>4. GrantsType'
    BY <1>9 DEF GrantsType, ChannelType, SetSubscription, Close, GrantRow
  <2> QED BY <1>9, <2>3, <2>4 DEF SetSubscription, ChannelType, DonationsType,
             ConsumersType, LogType, HistoryType
<1>10. ASSUME NEW active \in BOOLEAN, SetOptOut(active) PROVE TypeOK'
  BY <1>10 DEF SetOptOut, ChannelType, GrantsType, DonationsType, ConsumersType,
               RequestsType, LogType, HistoryType
<1>11. ASSUME NEW e \in Events, DispatchDonationOutbox(e) PROVE TypeOK'
  BY <1>11 DEF DispatchDonationOutbox, ChannelType, GrantsType, DonationsType,
               ConsumersType, RequestsType, LogType, HistoryType
<1>12. ASSUME NEW host, ExpireDonations(host) PROVE TypeOK'
  <2>1. PICK through \in Candidates :
          /\ expired' = through
          /\ donations' = [e \in DOMAIN donations |-> Drop(donations[e], through)]
          /\ outbox' = outbox
    BY <1>12 DEF ExpireDonations, Expirable
  <2>2. Candidates \subseteq Nat
    BY PageType DEF Candidates
  <2>3. \A row \in DonationRow : Drop(row, through) \in DonationRow
    BY Zenon DEF Drop, DonationRow
  <2>4. DonationsType'
    BY <2>1, <2>3 DEF DonationsType
  <2>5. ChannelType'
    BY <1>12, <2>1, <2>2 DEF ChannelType, ExpireDonations
  <2>6. HistoryType'
    BY <1>12, <2>2 DEF ExpireDonations, Expirable, HistoryType
  <2> QED BY <1>12, <2>4, <2>5, <2>6 DEF ExpireDonations, GrantsType,
             ConsumersType, RequestsType, LogType
<1>13. ASSUME PruneCollection PROVE TypeOK'
  <2> DEFINE kept == {e \in outbox : ~Outdated(donations[e].stored)}
             keep == {e \in DOMAIN donations : \/ donations[e].payload
                                               \/ ~Outdated(donations[e].stored)
                                               \/ e \in kept}
  <2>4. outbox' = kept /\ donations' = Only(donations, keep)
    BY <1>13 DEF PruneCollection
  <2>5. kept \subseteq keep /\ keep \subseteq DOMAIN donations
    BY DEF DonationsType
  <2> HIDE DEF kept, keep
  <2>1. DonationsType'
    <3>1. DOMAIN donations' = keep
      BY <2>4, <2>5 DEF Only
    <3>2. donations' \in [DOMAIN donations' -> DonationRow]
      BY <2>4, <2>5, <3>1 DEF DonationsType, Only
    <3> QED BY <2>4, <2>5, <3>1, <3>2 DEF DonationsType
  <2>2. GrantsType'
    BY <1>13 DEF GrantsType, PruneCollection, Only
  <2>3. RequestsType'
    BY <1>13 DEF RequestsType, PruneCollection, Only
  <2> QED BY <1>13, <2>1, <2>2, <2>3 DEF PruneCollection, ChannelType,
             ConsumersType, LogType, HistoryType
<1>14. ASSUME NEW gen, RotateJournal(gen) PROVE TypeOK'
  <2>1. GrantsType'
    BY <1>14 DEF GrantsType, ChannelType, RotateJournal, Close, GrantRow, Null
  <2>2. DonationsType'
    BY <1>14 DEF DonationsType, ChannelType, RotateJournal, Relabel, DonationRow
  <2>3. ChannelType'
    BY <1>14 DEF ChannelType, RotateJournal
  <2> QED BY <1>14, <2>1, <2>2, <2>3 DEF RotateJournal, ConsumersType,
             RequestsType, LogType, HistoryType
<1>15. ASSUME Tick PROVE TypeOK'
  BY <1>15 DEF Tick, ChannelType, GrantsType, DonationsType, ConsumersType,
               RequestsType, LogType, HistoryType
<1>16. ASSUME NEW w \in Workers \cup {NoWorker}, SetAssignment(w) PROVE TypeOK'
  BY <1>16 DEF SetAssignment, ChannelType, GrantsType, DonationsType,
               ConsumersType, RequestsType, LogType, HistoryType
<1>17. ASSUME UNCHANGED vars PROVE TypeOK'
  BY <1>17 DEF ChannelType, GrantsType, DonationsType, ConsumersType,
               RequestsType, LogType, HistoryType
<1>18. 1..(now + HostSkew) \subseteq Nat /\ 0..current \subseteq Nat
  BY TimesAssumption DEF ChannelType
<1> QED
  BY <1>1, <1>2, <1>3, <1>4, <1>5, <1>6, <1>7, <1>8, <1>9, <1>10, <1>11, <1>12,
     <1>13, <1>14, <1>15, <1>16, <1>17, <1>18
  DEF Next, OwnerNext, RuntimeNext, CollectionHeartbeat, AppendNext, ReadNext,
      RecoveryNext, SubscriptionNext, MaintenanceNext, EnvironmentNext

\* The row EnsureCollection inserts is well typed.
LEMMA TypeInit == Init => TypeOK
<1> SUFFICES ASSUME Init PROVE TypeOK
  OBVIOUS
<1>1. ChannelType
  <2>1. now \in Nat /\ generation \in Nat \ {0} /\ current \in 0..MaxUint64
        /\ expired \in Nat
    BY LimitsAssumption DEF Init
  <2>2. optedOut \in BOOLEAN /\ subscribed \in BOOLEAN
    BY Zenon DEF Init
  <2> QED BY <2>1, <2>2 DEF Init, ChannelType
<1>2. GrantsType
  BY DEF Init, GrantsType, Null
<1>3. DonationsType /\ ConsumersType /\ RequestsType
  BY DEF Init, DonationsType, ConsumersType, RequestsType
<1>4. LogType
  BY DEF Init, LogType, Null
<1>5. HistoryType
  BY DEF Init, HistoryType
<1> QED BY <1>1, <1>2, <1>3, <1>4, <1>5 DEF TypeOK

\* Every table of the store keeps to its schema, whatever calls are made.
THEOREM TypeCorrect == Spec => []TypeOK
BY TypeInit, TypeStep, PTL DEF Spec

-----------------------------------------------------------------------------
(* Ownership of the channel. *)

\* A grant starts and is closed at a time that has come.
GrantTimes ==
    \A t \in DOMAIN grants : grants[t].granted <= now /\ grants[t].closed <= now

\* The owner's grant is the newest one, and the window of every other is over.
OwnerNewest ==
    /\ ownerToken # Null => \A t \in DOMAIN grants : t <= ownerToken
    /\ \A t \in DOMAIN grants : t # ownerToken => WindowEnd(grants[t]) <= now

OwnerInv ==
    /\ now # 0 /\ GrantTimes /\ OwnerNewest
    /\ GrantWindowsDisjoint /\ OwnerGrantExists /\ UnsubscribedStopsGrants

\* Closing a grant leaves its start alone, closes it no later than now, never
\* extends its window and ends it by now.
LEMMA CloseGrant ==
    ASSUME NEW g \in GrantRow, now \in Nat, now # 0, g.closed <= now
    PROVE  /\ Close(g) \in GrantRow
           /\ Close(g).granted = g.granted
           /\ Close(g).closed # Null /\ Close(g).closed <= now
           /\ WindowEnd(Close(g)) <= WindowEnd(g)
           /\ WindowEnd(Close(g)) <= now
BY DEF GrantRow, Close, WindowEnd, Null

\* Closing any of the grants keeps the invariant.
LEMMA CloseSome ==
    ASSUME ChannelType, GrantsType, OwnerInv, NEW S \in SUBSET DOMAIN grants,
           now' = now, DOMAIN grants' = DOMAIN grants,
           \A t \in DOMAIN grants :
              grants'[t] = IF t \in S THEN Close(grants[t]) ELSE grants[t]
    PROVE  /\ GrantTimes' /\ GrantWindowsDisjoint'
           /\ \A t \in DOMAIN grants :
                /\ WindowEnd(grants[t]) <= now => WindowEnd(grants'[t]) <= now
                /\ grants[t].closed # Null => grants'[t].closed # Null
           /\ \A t \in S : /\ WindowEnd(grants'[t]) <= now
                           /\ grants'[t].closed # Null
<1>1. ASSUME NEW t \in DOMAIN grants
      PROVE  /\ grants[t] \in GrantRow /\ grants'[t] \in GrantRow
             /\ grants'[t].granted = grants[t].granted
             /\ grants'[t].closed <= now
             /\ grants[t].closed # Null => grants'[t].closed # Null
             /\ WindowEnd(grants'[t]) <= WindowEnd(grants[t])
             /\ t \in S => /\ WindowEnd(grants'[t]) <= now
                           /\ grants'[t].closed # Null
  <2>1. grants[t] \in GrantRow /\ now \in Nat /\ now # 0 /\ grants[t].closed <= now
    BY DEF ChannelType, GrantsType, OwnerInv, GrantTimes
  <2>2. WindowEnd(grants[t]) <= WindowEnd(grants[t])
    BY <2>1 DEF WindowEnd, GrantRow
  <2> QED BY <2>1, <2>2, CloseGrant
<1>2. \A t \in DOMAIN grants : /\ WindowEnd(grants[t]) \in Nat
                               /\ WindowEnd(grants'[t]) \in Nat
                               /\ grants[t].granted \in Nat
  BY <1>1 DEF WindowEnd, GrantRow
<1>3. now \in Nat /\ \A t \in DOMAIN grants : t \in Nat
  BY DEF ChannelType, GrantsType
<1> QED BY <1>1, <1>2, <1>3 DEF OwnerInv, GrantTimes, GrantWindowsDisjoint

\* Every step keeps the ownership invariant.
LEMMA OwnerStep == TypeOK /\ OwnerInv /\ [Next]_vars => OwnerInv'
<1> SUFFICES ASSUME TypeOK, OwnerInv, [Next]_vars PROVE OwnerInv'
  OBVIOUS
<1>0. ChannelType /\ GrantsType
  BY DEF TypeOK
<1> USE <1>0
<1>1. ASSUME NEW w \in Workers, AcquireCollection(w) PROVE OwnerInv'
  <2> DEFINE t == issued + 1
             row == [worker |-> w, generation |-> generation, granted |-> now,
                     until |-> now + GrantTTL, closed |-> Null]
  <2>1. /\ DOMAIN grants' = DOMAIN grants \cup {t}
        /\ grants'[t] = row
        /\ \A s \in DOMAIN grants : s # t => grants'[s] = grants[s]
        /\ ownerToken' = t /\ subscribed' = subscribed /\ subscribed
        /\ now' = now
    BY <1>1 DEF AcquireCollection, With, Enabled
  <2>2. \A s \in DOMAIN grants : s \in Nat /\ s < t
    BY DEF GrantsType
  <2>3. now \in Nat /\ now <= now /\ 0 <= now /\ t \in Nat /\ t <= t /\ t # Null
    BY DEF ChannelType, GrantsType, Null
  <2>4. \A s \in DOMAIN grants : WindowEnd(grants[s]) <= now
    <3>1. ASSUME ownerToken # Null PROVE WindowEnd(grants[ownerToken]) <= now
      <4>1. ownerToken \in DOMAIN grants /\ ~Open(grants[ownerToken])
        BY <1>1, <3>1 DEF AcquireCollection
      <4>2. grants[ownerToken] \in GrantRow /\ grants[ownerToken].closed <= now
        BY <4>1 DEF GrantsType, OwnerInv, GrantTimes
      <4> QED BY <2>3, <4>1, <4>2 DEF Open, WindowEnd, GrantRow
    <3>2. \A s \in DOMAIN grants : s # Null
      BY DEF GrantsType, Null
    <3> QED BY <3>1, <3>2 DEF OwnerInv, OwnerNewest
  <2>5. row.granted = now /\ row.closed = Null
    OBVIOUS
  <2> HIDE DEF t, row
  <2>6. GrantTimes'
    BY <2>1, <2>2, <2>3, <2>5 DEF OwnerInv, GrantTimes, Null
  <2>7. OwnerNewest'
    BY <2>1, <2>2, <2>3, <2>4 DEF OwnerNewest
  <2>8. GrantWindowsDisjoint'
    BY <2>1, <2>2, <2>3, <2>4, <2>5 DEF OwnerInv, GrantWindowsDisjoint
  <2>9. OwnerGrantExists' /\ UnsubscribedStopsGrants'
    BY <2>1 DEF OwnerGrantExists, UnsubscribedStopsGrants
  <2> QED BY <2>1, <2>6, <2>7, <2>8, <2>9 DEF OwnerInv
<1>2. ASSUME NEW t \in 1..issued, RenewCollection(t) PROVE OwnerInv'
  <2>1. /\ DOMAIN grants' = DOMAIN grants /\ t \in DOMAIN grants
        /\ grants'[t].granted = grants[t].granted
        /\ grants'[t].closed = grants[t].closed
        /\ \A s \in DOMAIN grants : s # t => grants'[s] = grants[s]
        /\ ownerToken = t /\ ownerToken' = t /\ now' = now
        /\ subscribed' = subscribed
    BY <1>2 DEF RenewCollection, GrantsType, GrantRow
  <2>2. t # Null /\ \A s \in DOMAIN grants : s \in Nat /\ s <= t
    BY <2>1 DEF OwnerInv, OwnerNewest, GrantsType, Null
  <2>3. GrantTimes'
    BY <2>1 DEF OwnerInv, GrantTimes
  <2>4. OwnerNewest'
    BY <2>1, <2>2 DEF OwnerInv, OwnerNewest
  <2>5. GrantWindowsDisjoint'
    BY <2>1, <2>2 DEF OwnerInv, GrantWindowsDisjoint
  <2>6. OwnerGrantExists' /\ UnsubscribedStopsGrants'
    BY <2>1 DEF OwnerInv, OwnerGrantExists, UnsubscribedStopsGrants
  <2> QED BY <2>1, <2>3, <2>4, <2>5, <2>6 DEF OwnerInv
<1>3. ASSUME NEW S \in SUBSET DOMAIN grants, now' = now,
             DOMAIN grants' = DOMAIN grants,
             \A t \in DOMAIN grants :
               grants'[t] = IF t \in S THEN Close(grants[t]) ELSE grants[t],
             \/ ownerToken' = ownerToken
             \/ ownerToken' = Null /\ S = DOMAIN grants,
             subscribed' = subscribed \/ subscribed' \/ S = DOMAIN grants
      PROVE  OwnerInv'
  <2>1. /\ GrantTimes' /\ GrantWindowsDisjoint'
        /\ \A t \in DOMAIN grants :
             /\ WindowEnd(grants[t]) <= now => WindowEnd(grants'[t]) <= now
             /\ grants[t].closed # Null => grants'[t].closed # Null
        /\ \A t \in S : /\ WindowEnd(grants'[t]) <= now
                        /\ grants'[t].closed # Null
    BY <1>3, CloseSome
  <2>2. OwnerNewest'
    BY <1>3, <2>1 DEF OwnerInv, OwnerNewest
  <2>3. OwnerGrantExists' /\ UnsubscribedStopsGrants'
    BY <1>3, <2>1 DEF OwnerInv, OwnerGrantExists, UnsubscribedStopsGrants
  <2> QED BY <1>3, <2>1, <2>2, <2>3 DEF OwnerInv
<1>4. ASSUME NEW t \in 1..issued, ReleaseCollection(t) PROVE OwnerInv'
  <2>1. /\ {t} \in SUBSET DOMAIN grants /\ now' = now
        /\ DOMAIN grants' = DOMAIN grants
        /\ \A s \in DOMAIN grants :
             grants'[s] = IF s \in {t} THEN Close(grants[s]) ELSE grants[s]
        /\ ownerToken' = ownerToken /\ subscribed' = subscribed
    BY <1>4 DEF ReleaseCollection, GrantsType
  <2> QED BY Zenon, <1>3, <2>1
<1>5. ASSUME NEW c, NEW key, NEW enabled \in BOOLEAN,
             SetSubscription(c, key, enabled)
      PROVE OwnerInv'
  <2> DEFINE S == IF enabled THEN {} ELSE DOMAIN grants
  <2>1. /\ S \in SUBSET DOMAIN grants /\ now' = now
        /\ DOMAIN grants' = DOMAIN grants
        /\ \A s \in DOMAIN grants :
             grants'[s] = IF s \in S THEN Close(grants[s]) ELSE grants[s]
        /\ ownerToken' = ownerToken
        /\ subscribed' \/ S = DOMAIN grants
    BY <1>5 DEF SetSubscription
  <2> QED BY <1>3, <2>1
<1>6. ASSUME NEW gen, RotateJournal(gen) PROVE OwnerInv'
  <2>1. /\ DOMAIN grants \in SUBSET DOMAIN grants /\ now' = now
        /\ DOMAIN grants' = DOMAIN grants
        /\ \A s \in DOMAIN grants :
             grants'[s] = IF s \in DOMAIN grants THEN Close(grants[s]) ELSE grants[s]
        /\ ownerToken' = Null /\ subscribed' = subscribed
    BY <1>6 DEF RotateJournal
  <2> QED BY <1>3, <2>1
<1>7. ASSUME PruneCollection PROVE OwnerInv'
  <2>1. /\ DOMAIN grants' \subseteq DOMAIN grants
        /\ \A t \in DOMAIN grants' : grants'[t] = grants[t]
        /\ ownerToken \in DOMAIN grants => ownerToken \in DOMAIN grants'
        /\ ownerToken' = ownerToken /\ subscribed' = subscribed /\ now' = now
    BY <1>7 DEF PruneCollection, Only, KeepGrant
  <2>2. GrantTimes' /\ OwnerNewest' /\ GrantWindowsDisjoint'
    BY <2>1 DEF OwnerInv, GrantTimes, OwnerNewest, GrantWindowsDisjoint
  <2>3. OwnerGrantExists' /\ UnsubscribedStopsGrants'
    BY <2>1 DEF OwnerInv, OwnerGrantExists, UnsubscribedStopsGrants
  <2> QED BY <2>1, <2>2, <2>3 DEF OwnerInv
<1>8. ASSUME UNCHANGED <<grants, ownerToken, subscribed>>,
             now' \in Nat, now <= now'
      PROVE OwnerInv'
  <2>1. \A t \in DOMAIN grants : /\ grants[t].granted \in Nat
                                 /\ grants[t].closed \in Nat
                                 /\ WindowEnd(grants[t]) \in Nat
    BY DEF GrantsType, GrantRow, WindowEnd
  <2>2. now \in Nat /\ now' # 0
    BY <1>8 DEF ChannelType, OwnerInv
  <2>3. GrantTimes' /\ OwnerNewest'
    BY <1>8, <2>1, <2>2 DEF OwnerInv, GrantTimes, OwnerNewest
  <2>4. GrantWindowsDisjoint' /\ OwnerGrantExists' /\ UnsubscribedStopsGrants'
    BY <1>8 DEF OwnerInv, GrantWindowsDisjoint, OwnerGrantExists,
                UnsubscribedStopsGrants
  <2> QED BY <2>2, <2>3, <2>4 DEF OwnerInv
<1>9. now \in Nat /\ now + 1 \in Nat /\ now <= now + 1 /\ now <= now
  BY DEF ChannelType
<1>10. CASE OwnerNext
  BY <1>1, <1>2, <1>4, <1>10 DEF OwnerNext
<1>11. CASE RuntimeNext
  BY <1>8, <1>9, <1>11 DEF RuntimeNext, CollectionHeartbeat, SetCollectionState
<1>12. CASE AppendNext
  <2>1. UNCHANGED <<now, grants, ownerToken, subscribed>>
    BY <1>12 DEF AppendNext, AppendDonation
  <2> QED BY <1>8, <1>9, <2>1
<1>13. CASE ReadNext
  <2>1. ASSUME NEW c, NEW gen, NEW after, NEW revision, NEW limit,
               ReadDonations(c, gen, after, revision, limit)
        PROVE  UNCHANGED <<now, grants, ownerToken, subscribed>>
    BY <2>1 DEF ReadDonations
  <2>2. ASSUME NEW c, NEW gen, NEW offset, NEW revision,
               AckDonations(c, gen, offset, revision)
        PROVE  UNCHANGED <<now, grants, ownerToken, subscribed>>
    BY <2>2 DEF AckDonations
  <2>3. UNCHANGED <<now, grants, ownerToken, subscribed>>
    BY <1>13, <2>1, <2>2 DEF ReadNext
  <2> QED BY <1>8, <1>9, <2>3
<1>14. CASE RecoveryNext
  BY <1>8, <1>9, <1>14 DEF RecoveryNext, ResolveRecovery
<1>15. CASE SubscriptionNext
  BY <1>5, <1>8, <1>9, <1>15 DEF SubscriptionNext, SetOptOut
<1>16. CASE MaintenanceNext
  BY <1>6, <1>7, <1>8, <1>9, <1>16
  DEF MaintenanceNext, DispatchDonationOutbox, ExpireDonations
<1>17. CASE EnvironmentNext
  BY <1>8, <1>9, <1>17 DEF EnvironmentNext, Tick, SetAssignment
<1>18. CASE UNCHANGED vars
  BY <1>8, <1>9, <1>18
<1> QED BY <1>10, <1>11, <1>12, <1>13, <1>14, <1>15, <1>16, <1>17, <1>18 DEF Next

\* The ownership invariant holds of every behaviour.
LEMMA OwnerInvariant == Spec => []OwnerInv
<1>1. Init => OwnerInv
  BY DEF Init, OwnerInv, GrantTimes, OwnerNewest, GrantWindowsDisjoint,
         OwnerGrantExists, UnsubscribedStopsGrants, Null
<1> QED BY <1>1, OwnerStep, TypeCorrect, PTL DEF Spec

\* No two grants let donations be accepted at the same time, however many
\* workers acquire, renew, release and lose the channel: AcquireCollection
\* waits for the window of the previous owner to be over.
THEOREM OneCollectorAtATime == Spec => []GrantWindowsDisjoint
BY OwnerInvariant, PTL DEF OwnerInv

\* The grant that the channel names is never deleted by MaintainCollection, so
\* the lookup in AcquireCollection never fails for want of a row.
THEOREM OwnerGrantKept == Spec => []OwnerGrantExists
BY OwnerInvariant, PTL DEF OwnerInv

\* After SetSubscription switched the channel off every grant is closed.
THEOREM SubscriptionRevokesGrants == Spec => []UnsubscribedStopsGrants
BY OwnerInvariant, PTL DEF OwnerInv

=============================================================================
