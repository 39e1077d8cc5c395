------------------------- MODULE SpoolJournalProofs -------------------------
(***************************************************************************)
(* The invariant of DonationSpool, that a step of it is a step of the      *)
(* journal or none, and what steps do to grants and to sessions.           *)
(***************************************************************************)
EXTENDS DonationSpool, JournalStoreProofs, TLAPS

USE DEF vars, envVars, channelVars, grantVars, journalVars, historyVars,
        spoolVars, sessionVars, spoolHistory, svars

\* Session t has an event in hand that no record has yet.
Unsaved(t) == \/ sessions[t].sink = "waiting"
              \/ step = "write" /\ holder = t

\* While a record is written its session holds the mutex.
Mutex ==
    step \in {"write", "rename"} =>
        /\ holder \in DOMAIN sessions /\ sessions[holder].sink = "saving"
        /\ \A r \in pending : r.token = holder

\* An event is in the hands of one session, in one .pending file or in one
\* record.
FreshSessions ==
    \A t \in DOMAIN sessions : Unsaved(t) =>
        /\ sessions[t].event \in observed
        /\ \A i \in DOMAIN saved : saved[i].event # sessions[t].event
        /\ \A r \in pending : r.event # sessions[t].event
        /\ \A s \in DOMAIN sessions :
             Unsaved(s) /\ sessions[s].event = sessions[t].event => s = t
FreshRecords ==
    /\ \A r \in pending : /\ r.event \in observed
                          /\ \A i \in DOMAIN saved : saved[i].event # r.event
    /\ \A i \in DOMAIN saved : saved[i].event \in observed
    /\ \A i, j \in DOMAIN saved : saved[i].event = saved[j].event => i = j
FreshInv == SpoolTypeOK /\ Mutex /\ FreshSessions /\ FreshRecords

\* The files are the last of the records saved.  Those before them are in the
\* journal; of those after the first file none is.
Gone == Len(saved) - Len(files)
InLog(e, events) == \E n \in DOMAIN events : events[n] = e
FilesAreLast ==
    /\ Len(files) <= Len(saved)
    /\ \A k \in DOMAIN files : files[k] = saved[Gone + k]
    /\ \A i \in 1..Gone : InLog(saved[i].event, log)
    /\ \A i \in (Gone + 2)..Len(saved) : ~InLog(saved[i].event, log)
    /\ step = "remove" => files # << >> /\ InLog(files[1].event, log)
\* What the journal has came from the spool, with the time of its record.
FromSpool ==
    /\ \A n \in DOMAIN log : \E i \in DOMAIN saved : saved[i].event = log[n]
    /\ \A e \in Events : acceptedAt[e] # Null =>
         \E i \in DOMAIN saved : /\ saved[i].event = e
                                 /\ saved[i].at = acceptedAt[e]
OrderInv == FilesAreLast /\ FromSpool /\ SpoolOrder

\* Records name a grant and a time that existed.
KnownRecord(r) == /\ r.token \in 1..issued /\ r.generation \in 1..generation
                  /\ r.at \in 1..(now + HostSkew)
Known ==
    /\ now # 0 /\ dialing <= now
    /\ \A i \in DOMAIN saved : KnownRecord(saved[i])
    /\ \A r \in pending : KnownRecord(r)
    /\ \A t \in DOMAIN sessions : /\ sessions[t].generation \in 1..generation
                                  /\ sessions[t].asked <= now
GrantBounds ==
    \A t \in DOMAIN grants : /\ grants[t].granted <= now
                             /\ grants[t].until <= now + GrantTTL
\* What a session believes of its grant, the database has.
SessionAuthority ==
    \A t \in DOMAIN sessions : t \in DOMAIN grants =>
        /\ sessions[t].generation = grants[t].generation
        /\ sessions[t].deadline <= grants[t].until
        /\ sessions[t].until <= grants[t].until
        /\ sessions[t].renew = "granted" =>
             sessions[t].asked + GrantTTL <= grants[t].until
PendingAuthority ==
    \A r \in pending : r.token \in DOMAIN grants =>
        /\ r.generation = grants[r.token].generation
        /\ grants[r.token].granted <= r.at + HostSkew
AuthorityInv == /\ Known /\ GrantBounds /\ SessionAuthority
                /\ PendingAuthority /\ LocalAuthority

SpoolInv == TypeOK /\ StoreInv /\ FreshInv /\ OrderInv /\ AuthorityInv

-----------------------------------------------------------------------------
(* What a step of the journal does to time, generations and grants. *)

GrantStep ==
    \A t \in DOMAIN grants' :
        \/ t = issued + 1 /\ issued' = issued + 1
        \/ /\ t \in DOMAIN grants
           /\ grants'[t].generation = grants[t].generation
           /\ grants'[t].granted = grants[t].granted
           /\ grants[t].until <= grants'[t].until
Forward == issued <= issued' /\ generation <= generation' /\ now <= now'

\* Time, tokens and generations only go forward, and a grant that remains is
\* the same grant with a window that ends no earlier: RenewCollection extends
\* it, closing leaves valid_until alone, and a deleted token never comes back.
LEMMA GrantsEvolve ==
    TypeOK /\ GrantBounds /\ [Next]_vars => Forward /\ GrantStep /\ GrantBounds'
<1> SUFFICES ASSUME TypeOK, GrantBounds, [Next]_vars
             PROVE  Forward /\ GrantStep /\ GrantBounds'
  OBVIOUS
<1>0. ChannelType /\ GrantsType
  BY DEF TypeOK
<1>1. /\ now \in Nat /\ issued \in Nat /\ generation \in Nat /\ GrantTTL \in Nat
      /\ \A t \in DOMAIN grants : grants[t] \in GrantRow
  BY <1>0, TimesAssumption DEF ChannelType, GrantsType
<1>2. \A t \in DOMAIN grants : /\ grants[t].granted \in Nat
                               /\ grants[t].until \in Nat
                               /\ grants[t].granted <= now
                               /\ grants[t].until <= now + GrantTTL
  BY <1>1 DEF GrantRow, GrantBounds
<1>3. ASSUME DOMAIN grants' \subseteq DOMAIN grants,
             \A t \in DOMAIN grants' :
                /\ grants'[t].generation = grants[t].generation
                /\ grants'[t].granted = grants[t].granted
                /\ grants'[t].until = grants[t].until,
             issued' = issued, now' \in {now, now + 1},
             generation' \in {generation, generation + 1}
      PROVE  Forward /\ GrantStep /\ GrantBounds'
  BY <1>1, <1>2, <1>3 DEF Forward, GrantStep, GrantBounds
<1>4. ASSUME NEW w \in Workers, AcquireCollection(w)
      PROVE  Forward /\ GrantStep /\ GrantBounds'
  <2> DEFINE row == [worker |-> w, generation |-> generation, granted |-> now,
                     until |-> now + GrantTTL, closed |-> Null]
  <2>1. /\ DOMAIN grants' = DOMAIN grants \cup {issued + 1}
        /\ grants'[issued + 1] = row
        /\ \A t \in DOMAIN grants : t # issued + 1 => grants'[t] = grants[t]
        /\ issued' = issued + 1 /\ now' = now /\ generation' = generation
    BY <1>4 DEF AcquireCollection, With
  <2>2. row.granted = now /\ row.until = now + GrantTTL
    OBVIOUS
  <2> HIDE DEF row
  <2> QED BY <1>1, <1>2, <2>1, <2>2 DEF Forward, GrantStep, GrantBounds
<1>5. ASSUME NEW t, RenewCollection(t)
      PROVE  Forward /\ GrantStep /\ GrantBounds'
  <2>1. /\ DOMAIN grants' = DOMAIN grants /\ t \in DOMAIN grants
        /\ grants'[t].generation = grants[t].generation
        /\ grants'[t].granted = grants[t].granted
        /\ grants'[t].until = now + GrantTTL
        /\ \A s \in DOMAIN grants : s # t => grants'[s] = grants[s]
        /\ issued' = issued /\ now' = now /\ generation' = generation
    BY <1>1, <1>5 DEF RenewCollection, GrantRow
  <2> QED BY <1>1, <1>2, <2>1 DEF Forward, GrantStep, GrantBounds
<1>6. ASSUME NEW g \in GrantRow
      PROVE  /\ Close(g).generation = g.generation
             /\ Close(g).granted = g.granted /\ Close(g).until = g.until
  BY DEF Close, GrantRow
<1>7. CASE OwnerNext
  <2>1. ASSUME NEW t, ReleaseCollection(t)
        PROVE  Forward /\ GrantStep /\ GrantBounds'
    <3>1. /\ DOMAIN grants' = DOMAIN grants
          /\ \A s \in DOMAIN grants :
               grants'[s] = grants[s] \/ grants'[s] = Close(grants[s])
          /\ issued' = issued /\ now' = now /\ generation' = generation
      BY <2>1 DEF ReleaseCollection
    <3> QED BY <1>1, <1>3, <1>6, <3>1
  <2> QED BY <1>4, <1>5, <1>7, <2>1 DEF OwnerNext
<1>8. CASE SubscriptionNext
  <2>1. ASSUME NEW c, NEW key, NEW enabled, SetSubscription(c, key, enabled)
        PROVE  Forward /\ GrantStep /\ GrantBounds'
    <3>1. /\ DOMAIN grants' = DOMAIN grants
          /\ \A s \in DOMAIN grants :
               grants'[s] = grants[s] \/ grants'[s] = Close(grants[s])
          /\ issued' = issued /\ now' = now /\ generation' = generation
      BY <2>1 DEF SetSubscription
    <3> QED BY <1>1, <1>3, <1>6, <3>1
  <2>2. ASSUME NEW active, SetOptOut(active)
        PROVE  Forward /\ GrantStep /\ GrantBounds'
    BY <1>3, <2>2 DEF SetOptOut
  <2> QED BY <1>8, <2>1, <2>2 DEF SubscriptionNext
<1>9. CASE MaintenanceNext
  <2>1. ASSUME NEW gen, RotateJournal(gen)
        PROVE  Forward /\ GrantStep /\ GrantBounds'
    <3>1. /\ DOMAIN grants' = DOMAIN grants
          /\ \A s \in DOMAIN grants : grants'[s] = Close(grants[s])
          /\ issued' = issued /\ now' = now /\ generation' = generation + 1
      BY <2>1 DEF RotateJournal
    <3> QED BY <1>1, <1>3, <1>6, <3>1
  <2>2. ASSUME PruneCollection PROVE Forward /\ GrantStep /\ GrantBounds'
    <3>1. /\ DOMAIN grants' \subseteq DOMAIN grants
          /\ \A s \in DOMAIN grants' : grants'[s] = grants[s]
          /\ issued' = issued /\ now' = now /\ generation' = generation
      BY <2>2 DEF PruneCollection, Only
    <3> QED BY <1>3, <3>1
  <2> QED BY <1>3, <1>9, <2>1, <2>2
          DEF MaintenanceNext, DispatchDonationOutbox, ExpireDonations
<1>10. CASE UNCHANGED <<grants, issued, generation, now>>
  BY <1>3, <1>10
<1>11. CASE RuntimeNext
  BY <1>10, <1>11 DEF RuntimeNext, CollectionHeartbeat, SetCollectionState
<1>12. CASE AppendNext
  BY <1>10, <1>12 DEF AppendNext, AppendDonation
<1>13. CASE ReadNext
  <2>1. ASSUME NEW c, NEW gen, NEW after, NEW revision, NEW limit,
               ReadDonations(c, gen, after, revision, limit)
        PROVE  UNCHANGED <<grants, issued, generation, now>>
    BY <2>1 DEF ReadDonations
  <2>2. ASSUME NEW c, NEW gen, NEW offset, NEW revision,
               AckDonations(c, gen, offset, revision)
        PROVE  UNCHANGED <<grants, issued, generation, now>>
    BY <2>2 DEF AckDonations
  <2> QED BY <1>10, <1>13, <2>1, <2>2 DEF ReadNext
<1>14. CASE RecoveryNext
  BY <1>10, <1>14 DEF RecoveryNext, ResolveRecovery
<1>15. CASE EnvironmentNext
  BY <1>3, <1>15 DEF EnvironmentNext, Tick, SetAssignment
<1>16. CASE UNCHANGED vars
  BY <1>10, <1>16
<1> QED BY <1>7, <1>8, <1>9, <1>11, <1>12, <1>13, <1>14, <1>15, <1>16 DEF Next

-----------------------------------------------------------------------------
(* The spool uses the journal as CollectorJournal says it is used. *)

\* Whoever else uses the journal takes one of its steps and adds no donation.
LEMMA OthersStep ==
    ASSUME GrantsType, OthersNext
    PROVE  Next /\ UNCHANGED <<log, acceptedAt>>
<1>1. CASE \E w \in Workers \ {Self} : AcquireCollection(w)
  BY <1>1 DEF Next, OwnerNext, AcquireCollection
<1>2. CASE \E t \in DOMAIN grants : RenewCollection(t) \/ ReleaseCollection(t)
  BY <1>2 DEF Next, OwnerNext, GrantsType, RenewCollection, ReleaseCollection
<1>3. CASE RuntimeNext
  BY <1>3 DEF Next, RuntimeNext, CollectionHeartbeat, SetCollectionState
<1>4. CASE ReadNext
  <2>1. ASSUME NEW c, NEW gen, NEW after, NEW revision, NEW limit,
               ReadDonations(c, gen, after, revision, limit)
        PROVE  UNCHANGED <<log, acceptedAt>>
    BY <2>1 DEF ReadDonations
  <2>2. ASSUME NEW c, NEW gen, NEW offset, NEW revision,
               AckDonations(c, gen, offset, revision)
        PROVE  UNCHANGED <<log, acceptedAt>>
    BY <2>2 DEF AckDonations
  <2> QED BY <1>4, <2>1, <2>2 DEF Next, ReadNext
<1>5. CASE RecoveryNext
  <2>1. UNCHANGED <<log, acceptedAt>>
    BY <1>5 DEF RecoveryNext, ResolveRecovery
  <2> QED BY <1>5, <2>1 DEF Next
<1>6. CASE SubscriptionNext
  BY Zenon, <1>6 DEF Next, SubscriptionNext, SetSubscription, SetOptOut
<1>7. CASE MaintenanceNext
  BY <1>7 DEF Next, MaintenanceNext, DispatchDonationOutbox, ExpireDonations,
              PruneCollection, RotateJournal
<1>8. CASE EnvironmentNext
  BY <1>8 DEF Next, EnvironmentNext, Tick, SetAssignment
<1> QED BY <1>1, <1>2, <1>3, <1>4, <1>5, <1>6, <1>7, <1>8 DEF OthersNext

\* A session, a sink, the drain loop and a crash call only operations of the
\* journal, with tokens that were issued, and add no donation.
LEMMA CallStep ==
    ASSUME SpoolTypeOK, SessionNext \/ SaveNext \/ LoopNext \/ Crash
    PROVE  [Next]_vars /\ UNCHANGED <<log, acceptedAt>>
<1>1. Self \in Workers /\ \A t \in DOMAIN sessions : t \in 1..issued
  BY SpoolAssumption DEF SpoolTypeOK
<1>2. \A state \in {"storage_stopped", "storage_delayed", "connected",
                    "connecting"} : state \in RuntimeStates
  BY SpoolAssumption
<1>3. ASSUME AcquireCollection(Self)
      PROVE  [Next]_vars /\ UNCHANGED <<log, acceptedAt>>
  <2>1. UNCHANGED <<log, acceptedAt>>
    BY <1>3 DEF AcquireCollection
  <2> QED BY <1>1, <1>3, <2>1 DEF Next, OwnerNext
<1>4. ASSUME NEW t \in DOMAIN sessions, RenewCollection(t) \/ ReleaseCollection(t)
      PROVE  [Next]_vars /\ UNCHANGED <<log, acceptedAt>>
  <2>1. UNCHANGED <<log, acceptedAt>>
    BY <1>4 DEF RenewCollection, ReleaseCollection
  <2> QED BY <1>1, <1>4, <2>1 DEF Next, OwnerNext
<1>5. ASSUME NEW state \in RuntimeStates, SetCollectionState(state)
      PROVE  [Next]_vars /\ UNCHANGED <<log, acceptedAt>>
  <2>1. UNCHANGED <<log, acceptedAt>>
    BY <1>5 DEF SetCollectionState
  <2> QED BY <1>5, <2>1 DEF Next, RuntimeNext
<1>6. ASSUME UNCHANGED vars PROVE [Next]_vars /\ UNCHANGED <<log, acceptedAt>>
  BY <1>6
<1>7. CASE SessionNext
  <2>1. CASE BeginAcquire \/ Acquired \/ AcquireFailed
    BY <1>3, <1>6, <2>1 DEF BeginAcquire, Acquired, AcquireFailed, Try
  <2>2. ASSUME NEW t \in DOMAIN sessions,
               Renewed(t) \/ RenewFailed(t) \/ Release(t)
        PROVE  [Next]_vars /\ UNCHANGED <<log, acceptedAt>>
    BY <1>4, <1>6, <2>2 DEF Renewed, RenewFailed, Release, Try
  <2>3. ASSUME NEW t \in DOMAIN sessions, ReportBacklog(t)
        PROVE  [Next]_vars /\ UNCHANGED <<log, acceptedAt>>
    <3>1. BacklogState(t) \in RuntimeStates
      BY <1>2 DEF BacklogState
    <3> QED BY <1>5, <1>6, <2>3, <3>1
            DEF ReportBacklog, Try, CollectionHeartbeat
  <2>4. ASSUME NEW t \in DOMAIN sessions,
               \/ BeginRenew(t) \/ ExtendDeadline(t) \/ Disconnect(t)
               \/ CloseConnection(t) \/ ReadLoopEnds(t)
        PROVE  UNCHANGED vars
    BY <2>4 DEF BeginRenew, ExtendDeadline, Disconnect, CloseConnection,
                ReadLoopEnds
  <2> QED BY <1>6, <1>7, <2>1, <2>2, <2>3, <2>4 DEF SessionNext
<1>8. CASE SaveNext
  <2>1. ASSUME NEW t \in DOMAIN sessions, SinkFails(t)
        PROVE  [Next]_vars /\ UNCHANGED <<log, acceptedAt>>
    BY <1>2, <1>5, <1>6, <2>1 DEF SinkFails, Try
  <2>2. ASSUME NEW t \in DOMAIN sessions, NEW e \in Events,
               Observe(t, e) \/ SaveStart(t)
        PROVE  UNCHANGED vars
    BY <2>2 DEF Observe, SaveStart
  <2>3. ASSUME NEW t \in DOMAIN sessions, SaveStart(t) PROVE UNCHANGED vars
    BY <2>3 DEF SaveStart
  <2>4. ASSUME SaveWrite \/ SaveRename \/ SaveBreaks PROVE UNCHANGED vars
    BY Zenon, <2>4 DEF SaveWrite, SaveRename, SaveBreaks
  <2> QED BY <1>6, <1>8, <2>1, <2>2, <2>3, <2>4 DEF SaveNext
<1>9. CASE LoopNext
  <2>1. ASSUME NEW e \in Events, LoopDispatch(e)
        PROVE  [Next]_vars /\ UNCHANGED <<log, acceptedAt>>
    <3>1. DispatchDonationOutbox(e)
      BY <2>1 DEF LoopDispatch
    <3>2. UNCHANGED <<log, acceptedAt>>
      BY Zenon, <3>1 DEF DispatchDonationOutbox
    <3> QED BY <3>1, <3>2 DEF Next, MaintenanceNext
  <2>2. CASE LoopStart
    BY <1>6, <2>2 DEF LoopStart
  <2>3. CASE LoopEnd
    BY <1>2, <1>5, <1>6, <2>3 DEF LoopEnd, Try
  <2> QED BY <1>9, <2>1, <2>2, <2>3 DEF LoopNext
<1>10. CASE Crash
  BY <1>6, <1>10 DEF Crash
<1> QED BY <1>7, <1>8, <1>9, <1>10

\* The first file of the spool is a record the journal may be given: it names
\* a token, a generation and a time that existed, and the time the event was
\* journaled with, if it was.
LEMMA HeadRecord ==
    ASSUME SpoolInv, files # << >>
    PROVE  /\ Oldest \in Record /\ KnownRecord(Oldest)
           /\ Oldest = files[1] /\ Gone + 1 \in DOMAIN saved
           /\ Oldest = saved[Gone + 1]
           /\ acceptedAt[Oldest.event] \in {Null, Oldest.at}
<1>1. /\ files \in Seq(Record) /\ saved \in Seq(Record)
      /\ Len(files) <= Len(saved)
      /\ \A k \in DOMAIN files : files[k] = saved[Gone + k]
  BY DEF SpoolInv, FreshInv, SpoolTypeOK, OrderInv, FilesAreLast
<1>2. 1 \in DOMAIN files /\ Gone + 1 \in DOMAIN saved /\ Oldest = files[1]
      /\ files[1] \in Record
  BY <1>1 DEF Gone, Oldest
<1>3. Oldest = saved[Gone + 1]
  BY <1>1, <1>2
<1>4. KnownRecord(Oldest)
  BY <1>2, <1>3 DEF SpoolInv, AuthorityInv, Known
<1>5. acceptedAt[Oldest.event] \in {Null, Oldest.at}
  <2>1. Oldest.event \in Events
    BY <1>2 DEF Record
  <2>2. CASE acceptedAt[Oldest.event] # Null
    <3>1. PICK i \in DOMAIN saved : /\ saved[i].event = Oldest.event
                                   /\ saved[i].at = acceptedAt[Oldest.event]
      BY <2>1, <2>2 DEF SpoolInv, OrderInv, FromSpool
    <3>2. i = Gone + 1
      BY <1>2, <1>3, <3>1 DEF SpoolInv, FreshInv, FreshRecords
    <3> QED BY <1>3, <3>1, <3>2
  <2> QED BY <2>2
<1> QED BY <1>2, <1>3, <1>4, <1>5

\* Draining gives the journal the first record or nothing.
LEMMA DrainStep ==
    ASSUME SpoolInv, DrainNext
    PROVE  \/ UNCHANGED vars
           \/ /\ Next /\ files # << >> /\ step = "drain"
              /\ log' = Append(log, Oldest.event)
              /\ acceptedAt' = [acceptedAt EXCEPT ![Oldest.event] = Oldest.at]
<1>1. ASSUME files # << >>, step = "drain",
             NEW host \in HostClocks, AppendRecord(Oldest, host)
      PROVE  /\ Next /\ log' = Append(log, Oldest.event)
             /\ acceptedAt' = [acceptedAt EXCEPT ![Oldest.event] = Oldest.at]
  <2>1. /\ Oldest \in Record /\ KnownRecord(Oldest)
        /\ acceptedAt[Oldest.event] \in {Null, Oldest.at}
    BY <1>1, HeadRecord
  <2>2. Content \in Contents
    BY SpoolAssumption DEF Content
  <2>3. /\ Oldest.event \in Events /\ Oldest.token \in 1..issued
        /\ Oldest.generation \in 1..generation
        /\ Oldest.at \in 1..(now + HostSkew)
    BY <2>1 DEF Record, KnownRecord
  <2>4. AppendNext
    BY <1>1, <2>1, <2>2, <2>3 DEF AppendNext, AppendRecord
  <2> QED BY <1>1, <2>4 DEF Next, AppendRecord, AppendDonation
<1>2. CASE DrainAppend
  BY <1>1, <1>2 DEF DrainAppend
<1>3. CASE DrainUnavailable
  BY <1>1, <1>3 DEF DrainUnavailable, Try
<1>4. CASE DrainRefused \/ DrainTimedOut \/ DrainRemove \/ DrainBreaks \/ DrainDone
  BY Zenon, <1>4 DEF DrainRefused, DrainTimedOut, DrainRemove, DrainBreaks, DrainDone
<1> QED BY <1>2, <1>3, <1>4 DEF DrainNext

\* Every step of the worker is a step of the journal or leaves it alone.
LEMMA JournalStep == SpoolInv /\ [SpoolNext]_svars => [Next]_vars
<1> SUFFICES ASSUME SpoolInv, [SpoolNext]_svars PROVE [Next]_vars
  OBVIOUS
<1>1. SpoolTypeOK /\ GrantsType
  BY DEF SpoolInv, FreshInv, TypeOK
<1>2. CASE UNCHANGED svars
  BY <1>2
<1> QED BY <1>1, <1>2, CallStep, DrainStep, OthersStep DEF SpoolNext

-----------------------------------------------------------------------------
(* What a step does to the sessions. *)

\* A session gains no authority but by a renewal that was granted.
RowKeeps(old, new) ==
    /\ new \in SessionRow /\ new.generation = old.generation
    /\ new.asked \in {old.asked, now}
    /\ new.until \in {old.until, old.deadline}
    /\ \/ new.deadline = old.deadline
       \/ old.renew = "granted" /\ new.deadline = old.asked + GrantTTL
GrantedKeeps(old, new) ==
    new.renew = "granted" => old.renew = "granted" /\ new.asked = old.asked
\* A session gets no event in hand.
SinkKeeps(old, new) ==
    new.event = old.event /\ (new.sink = "waiting" => old.sink = "waiting")
SavingKeeps(old, new) == old.sink = "saving" <=> new.sink = "saving"

\* The steps of a session that are not about a record.
Session(t) ==
    \/ BeginRenew(t) \/ RenewFailed(t) \/ ExtendDeadline(t) \/ ReportBacklog(t)
    \/ Disconnect(t) \/ Release(t) \/ CloseConnection(t) \/ ReadLoopEnds(t)
    \/ SinkFails(t)

\* An unchanged session keeps everything.
LEMMA SameRow ==
    ASSUME NEW row \in SessionRow
    PROVE  /\ RowKeeps(row, row) /\ GrantedKeeps(row, row)
           /\ SinkKeeps(row, row) /\ SavingKeeps(row, row)
BY DEF RowKeeps, GrantedKeeps, SinkKeeps, SavingKeeps

\* Steps of a session leave every session as it is in these respects.
LEMMA SessionRows ==
    ASSUME TypeOK, SpoolTypeOK, NEW t \in DOMAIN sessions,
           Session(t) \/ Renewed(t)
    PROVE  /\ DOMAIN sessions' = DOMAIN sessions
           /\ \A s \in DOMAIN sessions :
                /\ RowKeeps(sessions[s], sessions'[s])
                /\ SinkKeeps(sessions[s], sessions'[s])
                /\ SavingKeeps(sessions[s], sessions'[s])
                /\ GrantedKeeps(sessions[s], sessions'[s]) \/ Renewed(s)
           /\ sessions' \in [DOMAIN sessions -> SessionRow]
           /\ UNCHANGED <<spoolVars, dialing, spoolHistory>>
<1> DEFINE row == sessions[t]
<1>1. /\ sessions \in [DOMAIN sessions -> SessionRow] /\ row \in SessionRow
      /\ now \in Nat /\ GrantTTL \in Nat
  BY TimesAssumption DEF SpoolTypeOK, TypeOK, ChannelType
<1>2. ASSUME DOMAIN sessions' = DOMAIN sessions,
             \A s \in DOMAIN sessions : s # t => sessions'[s] = sessions[s],
             RowKeeps(row, sessions'[t]), SinkKeeps(row, sessions'[t]),
             SavingKeeps(row, sessions'[t]),
             GrantedKeeps(row, sessions'[t]) \/ Renewed(t)
      PROVE  /\ DOMAIN sessions' = DOMAIN sessions
             /\ \A s \in DOMAIN sessions :
                  /\ RowKeeps(sessions[s], sessions'[s])
                  /\ SinkKeeps(sessions[s], sessions'[s])
                  /\ SavingKeeps(sessions[s], sessions'[s])
                  /\ GrantedKeeps(sessions[s], sessions'[s]) \/ Renewed(s)
  BY <1>1, <1>2, SameRow
<1>3. /\ DOMAIN sessions' = DOMAIN sessions
      /\ \A s \in DOMAIN sessions : s # t => sessions'[s] = sessions[s]
      /\ UNCHANGED <<spoolVars, dialing, spoolHistory>>
  BY <1>1 DEF Session, BeginRenew, Renewed, RenewFailed, ExtendDeadline,
              ReportBacklog, Disconnect, Release, CloseConnection,
              ReadLoopEnds, SinkFails
<1>4. ASSUME BeginRenew(t) \/ ReportBacklog(t) \/ Disconnect(t) \/ Release(t)
      PROVE  /\ RowKeeps(row, sessions'[t]) /\ GrantedKeeps(row, sessions'[t])
             /\ SinkKeeps(row, sessions'[t]) /\ SavingKeeps(row, sessions'[t])
  BY <1>1, <1>4
  DEF BeginRenew, ReportBacklog, Disconnect, Release, RowKeeps, GrantedKeeps,
      SinkKeeps, SavingKeeps, SessionRow
<1>5. ASSUME CloseConnection(t) \/ ReadLoopEnds(t) \/ RenewFailed(t) \/ SinkFails(t)
      PROVE  /\ RowKeeps(row, sessions'[t]) /\ GrantedKeeps(row, sessions'[t])
             /\ SinkKeeps(row, sessions'[t]) /\ SavingKeeps(row, sessions'[t])
  BY <1>1, <1>5
  DEF CloseConnection, ReadLoopEnds, RenewFailed, SinkFails, RowKeeps,
      GrantedKeeps, SinkKeeps, SavingKeeps, SessionRow
<1>6. ASSUME ExtendDeadline(t)
      PROVE  /\ RowKeeps(row, sessions'[t]) /\ GrantedKeeps(row, sessions'[t])
             /\ SinkKeeps(row, sessions'[t]) /\ SavingKeeps(row, sessions'[t])
  BY <1>1, <1>6
  DEF ExtendDeadline, Deadline, RowKeeps, GrantedKeeps, SinkKeeps, SavingKeeps,
      SessionRow
<1>7. ASSUME Renewed(t)
      PROVE  /\ RowKeeps(row, sessions'[t])
             /\ SinkKeeps(row, sessions'[t]) /\ SavingKeeps(row, sessions'[t])
  BY <1>1, <1>7 DEF Renewed, RowKeeps, SinkKeeps, SavingKeeps, SessionRow
<1>8. \A s \in DOMAIN sessions : RowKeeps(sessions[s], sessions'[s])
  BY Zenon, <1>2, <1>3, <1>4, <1>5, <1>6, <1>7 DEF Session
<1>9. sessions' = [s \in DOMAIN sessions |-> sessions'[s]]
  BY <1>1 DEF Session, BeginRenew, Renewed, RenewFailed, ExtendDeadline,
              ReportBacklog, Disconnect, Release, CloseConnection,
              ReadLoopEnds, SinkFails
<1>10. sessions' \in [DOMAIN sessions -> SessionRow]
  BY <1>8, <1>9 DEF RowKeeps
<1> QED BY <1>2, <1>3, <1>4, <1>5, <1>6, <1>7, <1>10 DEF Session

\* Save and Drain return to their caller: the session that held the mutex,
\* if one did, has no event in hand.
LEMMA ReturnRows ==
    ASSUME SpoolTypeOK, NEW failed \in BOOLEAN, Return(failed)
    PROVE  /\ DOMAIN sessions' = DOMAIN sessions
           /\ \A s \in DOMAIN sessions :
                /\ RowKeeps(sessions[s], sessions'[s])
                /\ SinkKeeps(sessions[s], sessions'[s])
                /\ GrantedKeeps(sessions[s], sessions'[s])
           /\ sessions' \in [DOMAIN sessions -> SessionRow]
           /\ holder' = Null /\ step' = "idle" /\ MutexHeld'
           /\ loop' \in {loop, "dispatch", "failed"}
<1>1. sessions \in [DOMAIN sessions -> SessionRow]
  BY DEF SpoolTypeOK
<1>2. \A s \in DOMAIN sessions : sessions[s] \in SessionRow
  BY <1>1
<1>3. /\ DOMAIN sessions' = DOMAIN sessions
      /\ \A s \in DOMAIN sessions : s # holder => sessions'[s] = sessions[s]
      /\ holder' = Null /\ step' = "idle"
      /\ loop' \in {loop, "dispatch", "failed"}
  BY <1>1 DEF Return
<1>4. ASSUME holder \in DOMAIN sessions, sessions' # sessions
      PROVE  /\ RowKeeps(sessions[holder], sessions'[holder])
             /\ SinkKeeps(sessions[holder], sessions'[holder])
             /\ GrantedKeeps(sessions[holder], sessions'[holder])
  BY <1>1, <1>4 DEF Return, RowKeeps, SinkKeeps, GrantedKeeps, SessionRow
<1>5. \A s \in DOMAIN sessions : RowKeeps(sessions[s], sessions'[s])
  BY <1>2, <1>3, <1>4, SameRow
<1>6. sessions' = [s \in DOMAIN sessions |-> sessions'[s]]
  BY <1>1 DEF Return
<1>7. sessions' \in [DOMAIN sessions -> SessionRow]
  BY <1>5, <1>6 DEF RowKeeps
<1>8. \A s \in DOMAIN sessions : sessions'[s].sink # "saving" /\ s # 0 /\ s # -1
  <2>1. \A s \in DOMAIN sessions : s # 0 /\ s # -1
    BY DEF SpoolTypeOK
  <2>2. \A s \in DOMAIN sessions : s # holder => sessions'[s].sink # "saving"
    BY <1>3 DEF SpoolTypeOK, MutexHeld
  <2>3. ASSUME holder \in DOMAIN sessions
        PROVE  sessions'[holder].sink # "saving"
    BY <1>1, <2>1, <2>3 DEF Return, DrainLoop, SessionRow
  <2> QED BY <2>1, <2>2, <2>3
<1>9. MutexHeld'
  BY <1>3, <1>8 DEF MutexHeld, Null
<1> QED BY <1>2, <1>3, <1>4, <1>7, <1>9, SameRow

=============================================================================
