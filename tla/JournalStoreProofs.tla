------------------------- MODULE JournalStoreProofs -------------------------
(***************************************************************************)
(* The journal itself, for every instance of CollectorJournal: what is     *)
(* retained is the contiguous window of offsets after expired_through, and *)
(* no event is ever journaled twice.                                       *)
(***************************************************************************)
EXTENDS CollectorJournal, CollectorJournalProofs, TLAPS

USE DEF vars, envVars, channelVars, grantVars, journalVars, historyVars

\* A row was stored no earlier than its acceptance, up to the accepted skew.
StoredAfterAcceptance ==
    \A e \in DOMAIN donations :
        acceptedAt[e] <= donations[e].stored + AcceptSkew

\* An event that was journaled still has its row, or was accepted so long ago
\* that its record is refused by age.
TombstoneOrOld ==
    \A i \in DOMAIN log :
        /\ acceptedAt[log[i]] # Null
        /\ \/ log[i] \in DOMAIN donations
           \/ acceptedAt[log[i]] + TombAge < now + AcceptSkew

StoreInv ==
    RetainedContiguous /\ EventOnce /\ StoredAfterAcceptance /\ TombstoneOrOld

\* What the store invariant depends on.
storeVars == <<donations, log, acceptedAt, generation, current, expired>>

\* A record that passes the age check of AppendDonation was not journaled
\* before, unless its row is still there.
LEMMA NotJournaled ==
    ASSUME TypeOK, StoreInv, NEW e \in Events, NEW at \in Nat,
           NEW host \in HostClocks, acceptedAt[e] \in {Null, at},
           ~TooOld(at, host), e \notin DOMAIN donations
    PROVE  \A i \in DOMAIN log : log[i] # e
<1> SUFFICES ASSUME NEW i \in DOMAIN log, log[i] = e PROVE FALSE
  OBVIOUS
<1>1. acceptedAt[e] = at /\ at + TombAge < now + AcceptSkew
  BY DEF StoreInv, TombstoneOrOld
<1>2. now \in Nat /\ host \in Int /\ now - HostSkew <= host
  BY TimesAssumption DEF TypeOK, ChannelType, HostClocks
<1>3. at >= host - ReplayAge
  BY <1>2, TimesAssumption DEF TooOld
<1> QED BY <1>1, <1>2, <1>3, TimesAssumption

\* Appending a donation keeps the store invariant.
LEMMA AppendKeepsStore ==
    ASSUME TypeOK, StoreInv, NEW e \in Events, NEW content \in Contents, NEW t,
           NEW gen, NEW at \in Nat \ {0}, NEW host \in HostClocks,
           acceptedAt[e] \in {Null, at},
           AppendDonation(e, content, t, gen, at, host)
    PROVE  StoreInv'
<1> DEFINE row == [offset |-> current + 1, generation |-> generation,
                   content |-> content, stored |-> now, payload |-> TRUE]
<1>1. ~TooOld(at, host) /\ e \notin DOMAIN donations /\ at <= now + AcceptSkew
  BY DEF AppendDonation, AppendOutcome, GrantCovers
<1>2. \A i \in DOMAIN log : log[i] # e
  BY <1>1, NotJournaled
<1>3. /\ DOMAIN donations' = DOMAIN donations \cup {e}
      /\ donations'[e] = row
      /\ \A f \in DOMAIN donations : donations'[f] = donations[f]
      /\ log' = Append(log, e)
      /\ acceptedAt' = [acceptedAt EXCEPT ![e] = at]
      /\ current' = current + 1
      /\ UNCHANGED <<now, generation, expired>>
  BY <1>1 DEF AppendDonation, With
<1>4. /\ row.offset = current + 1 /\ row.generation = generation
      /\ row.stored = now /\ row.payload = TRUE
  OBVIOUS
<1> HIDE DEF row
<1>5. /\ current \in Nat /\ expired \in Nat /\ expired <= current /\ now \in Nat
      /\ log \in Seq(Events) /\ Len(log) = current
      /\ acceptedAt \in [Events -> Nat]
      /\ DOMAIN donations \subseteq Events
      /\ donations \in [DOMAIN donations -> DonationRow]
  <2>1. ChannelType /\ LogType /\ DonationsType /\ RetainedContiguous
    BY DEF TypeOK, StoreInv
  <2>2. current \in Nat /\ expired \in Nat /\ now \in Nat
    BY ONLY <2>1, LimitsAssumption DEF ChannelType
  <2>3. expired <= current
    BY ONLY <2>1 DEF RetainedContiguous
  <2>4. /\ log \in Seq(Events) /\ Len(log) = current
        /\ acceptedAt \in [Events -> Nat]
    BY ONLY <2>1 DEF LogType
  <2>5. /\ DOMAIN donations \subseteq Events
        /\ donations \in [DOMAIN donations -> DonationRow]
    BY ONLY <2>1 DEF DonationsType
  <2> QED BY ONLY <2>2, <2>3, <2>4, <2>5
<1>6. Retained' = Retained \cup {e}
  BY <1>1, <1>3, <1>4 DEF Retained
<1>7. RetainedContiguous'
  <2>1. (expired + 1)..(current + 1) = ((expired + 1)..current) \cup {current + 1}
    BY <1>5
  <2>2. {donations'[f].offset : f \in Retained'} =
          {donations[f].offset : f \in Retained} \cup {current + 1}
    BY <1>1, <1>3, <1>4, <1>6 DEF Retained
  <2>3. \A f \in Retained' : donations'[f].generation = generation
    BY <1>3, <1>4, <1>6 DEF StoreInv, RetainedContiguous, Retained
  <2>4. {donations'[f].offset : f \in Retained'} = (expired' + 1)..current'
    BY Zenon, <1>3, <2>1, <2>2 DEF StoreInv, RetainedContiguous
  <2>5. expired' <= current' /\ generation' = generation
    BY <1>3, <1>5
  <2> QED BY <2>3, <2>4, <2>5 DEF RetainedContiguous
<1>8. /\ DOMAIN log' = DOMAIN log \cup {current + 1}
      /\ log'[current + 1] = e
      /\ current + 1 \notin DOMAIN log
      /\ \A i \in DOMAIN log : log'[i] = log[i] /\ log[i] \in Events
  BY <1>3, <1>5
<1>9. EventOnce'
  BY <1>1, <1>2, <1>3, <1>4, <1>8 DEF StoreInv, EventOnce
<1>10. StoredAfterAcceptance'
  BY <1>1, <1>3, <1>4, <1>5 DEF StoreInv, StoredAfterAcceptance
<1>11. TombstoneOrOld'
  BY <1>2, <1>3, <1>5, <1>8 DEF StoreInv, TombstoneOrOld, Null
<1> QED BY <1>7, <1>9, <1>10, <1>11 DEF StoreInv

\* A retention pass keeps the store invariant.
LEMMA ExpireKeepsStore ==
    ASSUME TypeOK, StoreInv, NEW host, ExpireDonations(host)
    PROVE  StoreInv'
<1>1. PICK through \in Candidates :
        /\ expired' = through
        /\ donations' = [e \in DOMAIN donations |-> Drop(donations[e], through)]
        /\ UNCHANGED <<now, log, acceptedAt, generation, current>>
  BY DEF ExpireDonations, Expirable
<1>2. \A e \in DOMAIN donations : donations[e] \in DonationRow
  BY DEF TypeOK, DonationsType
<1>3. \A row \in DonationRow :
        /\ Drop(row, through).offset = row.offset
        /\ Drop(row, through).generation = row.generation
        /\ Drop(row, through).stored = row.stored
        /\ Drop(row, through).payload <=>
             row.payload /\ ~(row.generation = generation /\ row.offset <= through)
  BY DEF Drop, DonationRow
<1>4. through \in (expired + 1)..current
  BY DEF Candidates, Page, Readable, StoreInv, RetainedContiguous
<1>5. current \in Nat /\ expired \in Nat
  BY LimitsAssumption DEF TypeOK, ChannelType
<1>6. /\ DOMAIN donations' = DOMAIN donations
      /\ \A e \in DOMAIN donations :
           /\ donations'[e].offset = donations[e].offset
           /\ donations'[e].generation = donations[e].generation
           /\ donations'[e].stored = donations[e].stored
           /\ donations[e].offset \in Nat
           /\ donations'[e].payload <=>
                /\ donations[e].payload
                /\ ~(/\ donations[e].generation = generation
                     /\ donations[e].offset <= through)
  <2>1. \A e \in DOMAIN donations : donations'[e] = Drop(donations[e], through)
    BY <1>1
  <2>2. \A e \in DOMAIN donations : donations[e].offset \in Nat
    BY <1>2 DEF DonationRow
  <2> QED BY <1>1, <1>2, <1>3, <2>1, <2>2
<1>7. Retained' = {e \in Retained : donations[e].offset > through}
  BY <1>4, <1>5, <1>6 DEF Retained, StoreInv, RetainedContiguous
<1>8. RetainedContiguous'
  <2>1. {donations'[e].offset : e \in Retained'} = (through + 1)..current
    <3>1. {donations'[e].offset : e \in Retained'} =
            {o \in {donations[e].offset : e \in Retained} : o > through}
      BY <1>6, <1>7 DEF Retained
    <3>2. {o \in (expired + 1)..current : o > through} = (through + 1)..current
      BY <1>4, <1>5
    <3> QED BY <3>1, <3>2 DEF StoreInv, RetainedContiguous
  <2>2. \A e \in Retained' : donations'[e].generation = generation
    BY <1>6, <1>7 DEF Retained, StoreInv, RetainedContiguous
  <2> QED BY <1>1, <1>4, <1>5, <2>1, <2>2 DEF RetainedContiguous
<1>9. EventOnce' /\ StoredAfterAcceptance' /\ TombstoneOrOld'
  BY <1>1, <1>6 DEF StoreInv, EventOnce, StoredAfterAcceptance, TombstoneOrOld
<1> QED BY <1>8, <1>9 DEF StoreInv

\* Deleting tombstones keeps the store invariant.
LEMMA PruneKeepsStore ==
    ASSUME TypeOK, StoreInv, PruneCollection
    PROVE  StoreInv'
<1>1. /\ DOMAIN donations' \subseteq DOMAIN donations
      /\ \A e \in DOMAIN donations' : donations'[e] = donations[e]
      /\ \A e \in DOMAIN donations :
           \/ e \in DOMAIN donations'
           \/ ~donations[e].payload /\ Outdated(donations[e].stored)
      /\ UNCHANGED <<now, log, acceptedAt, generation, current, expired>>
  BY DEF PruneCollection, Only
<1>2. Retained' = Retained
  BY <1>1 DEF Retained
<1>3. RetainedContiguous'
  BY <1>1, <1>2 DEF StoreInv, RetainedContiguous, Retained
<1>4. EventOnce' /\ StoredAfterAcceptance'
  BY <1>1 DEF StoreInv, EventOnce, StoredAfterAcceptance
<1>5. ASSUME NEW e \in DOMAIN donations, e \notin DOMAIN donations'
      PROVE  acceptedAt[e] + TombAge < now + AcceptSkew
  <2>1. donations[e].stored \in Nat /\ acceptedAt[e] \in Nat /\ now \in Nat
    BY DEF TypeOK, ChannelType, DonationsType, LogType, DonationRow
  <2>2. now - donations[e].stored > TombAge
    BY <1>1, <1>5 DEF Outdated
  <2> QED BY <2>1, <2>2, TimesAssumption DEF StoreInv, StoredAfterAcceptance
<1>6. TombstoneOrOld'
  BY <1>1, <1>5 DEF StoreInv, TombstoneOrOld
<1> QED BY <1>3, <1>4, <1>6 DEF StoreInv

\* A rotation of the journal keeps the store invariant.
LEMMA RotateKeepsStore ==
    ASSUME TypeOK, StoreInv, NEW gen, RotateJournal(gen)
    PROVE  StoreInv'
<1>1. /\ donations' = [e \in DOMAIN donations |-> Relabel(donations[e])]
      /\ generation' = generation + 1
      /\ UNCHANGED <<now, log, acceptedAt, current, expired>>
  BY DEF RotateJournal
<1>2. \A e \in DOMAIN donations : donations[e] \in DonationRow
  BY DEF TypeOK, DonationsType
<1>3. \A row \in DonationRow :
        /\ Relabel(row).offset = row.offset
        /\ Relabel(row).stored = row.stored
        /\ Relabel(row).payload = row.payload
        /\ row.generation = generation => Relabel(row).generation = generation + 1
  BY DEF Relabel, DonationRow
<1>4. /\ DOMAIN donations' = DOMAIN donations
      /\ \A e \in DOMAIN donations :
           /\ donations'[e].offset = donations[e].offset
           /\ donations'[e].stored = donations[e].stored
           /\ donations'[e].payload = donations[e].payload
           /\ donations[e].generation = generation =>
                donations'[e].generation = generation + 1
  BY <1>1, <1>2, <1>3
<1>5. Retained' = Retained
  BY <1>4 DEF Retained
<1>6. RetainedContiguous'
  BY <1>1, <1>4, <1>5 DEF StoreInv, RetainedContiguous, Retained
<1>7. EventOnce' /\ StoredAfterAcceptance' /\ TombstoneOrOld'
  BY <1>1, <1>4 DEF StoreInv, EventOnce, StoredAfterAcceptance, TombstoneOrOld
<1> QED BY <1>6, <1>7 DEF StoreInv

\* The other operations leave the journal alone while time goes on.
LEMMA StoreUnchanged ==
    ASSUME TypeOK, StoreInv, UNCHANGED storeVars, now' \in Nat, now <= now'
    PROVE  StoreInv'
<1>1. /\ now \in Nat
      /\ \A i \in DOMAIN log : acceptedAt[log[i]] \in Nat
  BY DEF TypeOK, ChannelType, LogType
<1>2. RetainedContiguous' /\ EventOnce' /\ StoredAfterAcceptance'
  BY DEF storeVars, StoreInv, RetainedContiguous, EventOnce,
         StoredAfterAcceptance, Retained
<1>3. TombstoneOrOld'
  BY <1>1, TimesAssumption DEF storeVars, StoreInv, TombstoneOrOld
<1> QED BY <1>2, <1>3 DEF StoreInv

\* Every step keeps the store invariant.
LEMMA StoreStep == TypeOK /\ StoreInv /\ [Next]_vars => StoreInv'
<1> SUFFICES ASSUME TypeOK, StoreInv, [Next]_vars PROVE StoreInv'
  OBVIOUS
<1>1. now \in Nat /\ now + 1 \in Nat /\ now <= now + 1 /\ now <= now
  BY DEF TypeOK, ChannelType
<1>2. ASSUME UNCHANGED <<storeVars, now>> PROVE StoreInv'
  BY <1>1, <1>2, StoreUnchanged
<1>3. CASE OwnerNext
  <2>1. UNCHANGED <<storeVars, now>>
    BY Zenon, <1>3 DEF OwnerNext, AcquireCollection, RenewCollection,
                ReleaseCollection, storeVars
  <2> QED BY <1>2, <2>1
<1>4. CASE RuntimeNext
  <2>1. UNCHANGED <<storeVars, now>>
    BY <1>4 DEF RuntimeNext, CollectionHeartbeat, SetCollectionState, storeVars
  <2> QED BY <1>2, <2>1
<1>5. CASE AppendNext
  <2>1. PICK e \in Events, content \in Contents, t \in 1..issued,
             gen \in 1..generation, at \in 1..(now + HostSkew),
             host \in HostClocks :
          acceptedAt[e] \in {Null, at} /\ AppendDonation(e, content, t, gen, at, host)
    BY <1>5 DEF AppendNext
  <2>2. at \in Nat \ {0}
    OBVIOUS
  <2> QED BY <2>1, <2>2, AppendKeepsStore
<1>6. CASE ReadNext
  <2>1. ASSUME NEW c, NEW gen, NEW after, NEW revision, NEW limit,
               ReadDonations(c, gen, after, revision, limit)
        PROVE  UNCHANGED <<storeVars, now>>
    BY <2>1 DEF ReadDonations, storeVars
  <2>2. ASSUME NEW c, NEW gen, NEW offset, NEW revision,
               AckDonations(c, gen, offset, revision)
        PROVE  UNCHANGED <<storeVars, now>>
    BY <2>2 DEF AckDonations, storeVars
  <2>3. UNCHANGED <<storeVars, now>>
    BY <1>6, <2>1, <2>2 DEF ReadNext
  <2> QED BY <1>2, <2>3
<1>7. CASE RecoveryNext
  <2>1. UNCHANGED <<storeVars, now>>
    BY <1>7 DEF RecoveryNext, ResolveRecovery, storeVars
  <2> QED BY <1>2, <2>1
<1>8. CASE SubscriptionNext
  <2>1. UNCHANGED <<storeVars, now>>
    BY Zenon, <1>8 DEF SubscriptionNext, SetSubscription, SetOptOut, storeVars
  <2> QED BY <1>2, <2>1
<1>9. CASE MaintenanceNext
  <2>1. ASSUME NEW e, DispatchDonationOutbox(e) PROVE UNCHANGED <<storeVars, now>>
    BY <2>1 DEF DispatchDonationOutbox, storeVars
  <2> QED BY <1>2, <1>9, <2>1, ExpireKeepsStore, PruneKeepsStore,
             RotateKeepsStore DEF MaintenanceNext
<1>10. CASE EnvironmentNext
  <2>1. UNCHANGED storeVars /\ (now' = now \/ now' = now + 1)
    BY <1>10 DEF EnvironmentNext, Tick, SetAssignment, storeVars
  <2> QED BY <1>1, <2>1, StoreUnchanged
<1>11. CASE UNCHANGED vars
  BY <1>2, <1>11 DEF storeVars
<1> QED BY <1>3, <1>4, <1>5, <1>6, <1>7, <1>8, <1>9, <1>10, <1>11 DEF Next

\* The journal EnsureCollection makes is empty.
LEMMA StoreInit == Init => StoreInv
<1> SUFFICES ASSUME Init PROVE StoreInv
  OBVIOUS
<1>1. Retained = {} /\ DOMAIN donations = {} /\ DOMAIN log = {}
      /\ expired = 0 /\ current = 0
  BY DEF Init, Retained
<1>2. RetainedContiguous
  BY <1>1 DEF RetainedContiguous
<1> QED BY <1>1, <1>2 DEF StoreInv, EventOnce, StoredAfterAcceptance,
           TombstoneOrOld

\* The store invariant holds of every behaviour.
LEMMA StoreInvariant == Spec => []StoreInv
BY StoreInit, StoreStep, TypeCorrect, PTL DEF Spec

\* The payloads that exist are always exactly those of the offsets after
\* expired_through up to the last one given out, in the current generation:
\* no hole for ReadDonations to trip over, no payload stranded by a rotation.
THEOREM RetainedWindow == Spec => []RetainedContiguous
BY StoreInvariant, PTL DEF StoreInv

\* No event is journaled at two offsets, however late its spool record is
\* replayed: 90-day tombstones outlive the 30-day replay age by more than the
\* clock skews, which is what TimesAssumption asks.
THEOREM JournaledOnce == Spec => []EventOnce
BY StoreInvariant, PTL DEF StoreInv

=============================================================================
