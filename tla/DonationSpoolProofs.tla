------------------------ MODULE DonationSpoolProofs -------------------------
(***************************************************************************)
(* The worker's spool, for every instance of DonationSpool: it drives the  *)
(* journal only as CollectorJournal allows, loses no durable donation,     *)
(* keeps their order, and accepts within the grant the database has.       *)
(***************************************************************************)
EXTENDS SpoolOrderProofs

USE DEF vars, envVars, channelVars, grantVars, journalVars, historyVars,
        spoolVars, sessionVars, spoolHistory, svars

-----------------------------------------------------------------------------
(* The local deadline stays within the grant. *)

\* A record that names an existing token and time keeps naming one.
LEMMA KnownStays ==
    ASSUME TypeOK, Forward, TypeOK', NEW r \in Record, KnownRecord(r)
    PROVE  KnownRecord(r)'
<1>1. /\ now \in Nat /\ issued \in Nat /\ generation \in Nat
      /\ now' \in Nat /\ issued' \in Nat /\ generation' \in Nat
      /\ HostSkew \in Nat
  BY TimesAssumption DEF TypeOK, ChannelType, GrantsType
<1> QED BY <1>1 DEF Forward, KnownRecord, Record

\* What is said of an existing token keeps holding when the journal moves on:
\* the grant is the same and ends no earlier, or it is deleted.
LEMMA GrantStays ==
    ASSUME GrantsType, GrantsType', GrantStep, NEW t \in 1..issued,
           t \in DOMAIN grants'
    PROVE  /\ t \in DOMAIN grants
           /\ grants'[t].generation = grants[t].generation
           /\ grants'[t].granted = grants[t].granted
           /\ grants[t].until <= grants'[t].until
           /\ grants[t].until \in Nat /\ grants'[t].until \in Nat
           /\ grants[t].granted \in Nat
<1>1. t # issued + 1
  BY DEF GrantsType
<1>2. t \in DOMAIN grants
  BY <1>1 DEF GrantStep
<1>3. grants[t] \in GrantRow /\ grants'[t] \in GrantRow
  BY <1>2 DEF GrantsType
<1> QED BY <1>1, <1>2, <1>3 DEF GrantStep, GrantRow

\* The records saved stay within their grants.
LEMMA SavedStays ==
    ASSUME SpoolInv, TypeOK', Forward, GrantStep,
           saved' = saved, moments' = moments
    PROVE  /\ LocalAuthority'
           /\ (\A i \in DOMAIN saved : KnownRecord(saved[i]))'
<1>1. /\ TypeOK /\ GrantsType /\ GrantsType' /\ saved \in Seq(Record)
      /\ moments \in Seq(Nat) /\ Len(moments) = Len(saved) /\ HostSkew \in Nat
  BY TimesAssumption DEF SpoolInv, TypeOK, FreshInv, SpoolTypeOK
<1>2. \A i \in DOMAIN saved : saved[i] \in Record /\ KnownRecord(saved[i])
  BY <1>1 DEF SpoolInv, AuthorityInv, Known
<1>3. LocalAuthority'
  <2> SUFFICES ASSUME NEW i \in DOMAIN saved, saved[i].token \in DOMAIN grants'
               PROVE  LET r == saved[i] IN
                      /\ r.generation = grants'[r.token].generation
                      /\ grants'[r.token].granted <= moments[i]
                      /\ moments[i] < grants'[r.token].until
                      /\ grants'[r.token].granted <= r.at + HostSkew
                      /\ r.at < grants'[r.token].until + HostSkew
    BY DEF LocalAuthority
  <2> DEFINE r == saved[i]
  <2>1. r.token \in 1..issued /\ r.at \in Nat /\ moments[i] \in Nat
    <3>1. r \in Record /\ r.token \in 1..issued
      BY <1>2 DEF KnownRecord
    <3>2. moments[i] \in Nat
      BY ONLY <1>1, i \in DOMAIN saved
    <3> QED BY ONLY <3>1, <3>2 DEF Record
  <2>2. /\ r.token \in DOMAIN grants
        /\ grants'[r.token].generation = grants[r.token].generation
        /\ grants'[r.token].granted = grants[r.token].granted
        /\ grants[r.token].until <= grants'[r.token].until
        /\ grants[r.token].until \in Nat /\ grants'[r.token].until \in Nat
    BY <1>1, <2>1, GrantStays
  <2>3. /\ r.generation = grants[r.token].generation
        /\ grants[r.token].granted <= moments[i]
        /\ moments[i] < grants[r.token].until
        /\ grants[r.token].granted <= r.at + HostSkew
        /\ r.at < grants[r.token].until + HostSkew
    BY <2>2 DEF SpoolInv, AuthorityInv, LocalAuthority
  <2> HIDE DEF r
  <2>4. /\ r.generation = grants'[r.token].generation
        /\ grants'[r.token].granted <= moments[i]
        /\ moments[i] < grants'[r.token].until
        /\ grants'[r.token].granted <= r.at + HostSkew
        /\ r.at < grants'[r.token].until + HostSkew
    <3>1. HostSkew \in Nat
      BY TimesAssumption
    <3> QED BY ONLY <2>1, <2>2, <2>3, <3>1
  <2> QED BY <2>4 DEF r
<1>4. \A i \in DOMAIN saved : KnownRecord(saved[i])'
  BY <1>1, <1>2, KnownStays
<1> QED BY <1>3, <1>4

\* So do the incomplete ones.
LEMMA PendingStays ==
    ASSUME SpoolInv, TypeOK', Forward, GrantStep, pending' \subseteq pending
    PROVE  PendingAuthority' /\ (\A r \in pending : KnownRecord(r))'
<1>1. TypeOK /\ GrantsType /\ GrantsType' /\ pending \subseteq Record
  BY DEF SpoolInv, TypeOK, FreshInv, SpoolTypeOK
<1>2. \A r \in pending : r \in Record /\ KnownRecord(r)
  BY <1>1 DEF SpoolInv, AuthorityInv, Known
<1>3. ASSUME NEW r \in pending', r.token \in DOMAIN grants'
      PROVE  /\ r.generation = grants'[r.token].generation
             /\ grants'[r.token].granted <= r.at + HostSkew
  <2>1. r \in pending /\ r.token \in 1..issued /\ r.at \in Nat
    BY <1>2, <1>3 DEF KnownRecord, Record
  <2>2. /\ r.token \in DOMAIN grants
        /\ grants'[r.token].generation = grants[r.token].generation
        /\ grants'[r.token].granted = grants[r.token].granted
    BY <1>1, <1>3, <2>1, GrantStays
  <2> QED BY <2>1, <2>2 DEF SpoolInv, AuthorityInv, PendingAuthority
<1>4. ASSUME NEW r \in pending' PROVE KnownRecord(r)'
  BY <1>1, <1>2, <1>4, KnownStays
<1> QED BY <1>3, <1>4 DEF PendingAuthority

\* A session that keeps its grant stays within it.
LEMMA SessionsStay ==
    ASSUME SpoolInv, TypeOK', Forward, GrantStep,
           NEW s \in DOMAIN sessions,
           RowKeeps(sessions[s], sessions'[s]),
           GrantedKeeps(sessions[s], sessions'[s]) \/ Renewed(s)
    PROVE  /\ sessions'[s].generation \in 1..generation'
           /\ sessions'[s].asked <= now'
           /\ s \in DOMAIN grants' =>
                /\ sessions'[s].generation = grants'[s].generation
                /\ sessions'[s].deadline <= grants'[s].until
                /\ sessions'[s].until <= grants'[s].until
                /\ sessions'[s].renew = "granted" =>
                     sessions'[s].asked + GrantTTL <= grants'[s].until
<1>1. /\ GrantsType /\ GrantsType' /\ now \in Nat /\ now' \in Nat
      /\ generation \in Nat /\ generation' \in Nat /\ GrantTTL \in Nat
      /\ sessions[s] \in SessionRow /\ s \in 1..issued
  BY TimesAssumption
  DEF SpoolInv, TypeOK, ChannelType, FreshInv, SpoolTypeOK
<1>2. sessions'[s] \in SessionRow
  BY DEF RowKeeps
<1>3. /\ sessions[s].generation \in 1..generation /\ sessions[s].asked <= now
  BY DEF SpoolInv, AuthorityInv, Known
<1> DEFINE old == sessions[s]
           new == sessions'[s]
<1>4. /\ old.deadline \in Nat /\ old.until \in Nat /\ old.asked \in Nat
      /\ new.deadline \in Nat /\ new.until \in Nat /\ new.asked \in Nat
  BY <1>1, <1>2 DEF SessionRow
<1>5. /\ new.generation = old.generation /\ new.asked \in {old.asked, now}
      /\ new.until \in {old.until, old.deadline}
      /\ \/ new.deadline = old.deadline
         \/ old.renew = "granted" /\ new.deadline = old.asked + GrantTTL
  BY DEF RowKeeps
<1>6. new.generation \in 1..generation' /\ new.asked <= now' /\ new.asked <= now
  BY <1>1, <1>3, <1>4, <1>5 DEF Forward
<1>7. ASSUME s \in DOMAIN grants'
      PROVE  /\ new.generation = grants'[s].generation
             /\ new.deadline <= grants'[s].until
             /\ new.until <= grants'[s].until
             /\ new.renew = "granted" => new.asked + GrantTTL <= grants'[s].until
  <2>1. /\ s \in DOMAIN grants
        /\ grants'[s].generation = grants[s].generation
        /\ grants[s].until <= grants'[s].until
        /\ grants[s].until \in Nat /\ grants'[s].until \in Nat
    BY <1>1, <1>7, GrantStays
  <2>2. /\ old.generation = grants[s].generation
        /\ old.deadline <= grants[s].until /\ old.until <= grants[s].until
        /\ old.renew = "granted" => old.asked + GrantTTL <= grants[s].until
    BY <2>1 DEF SpoolInv, AuthorityInv, SessionAuthority
  <2>3. GrantedKeeps(old, new) \/ grants'[s].until = now + GrantTTL
    <3>1. ASSUME Renewed(s) PROVE grants'[s].until = now + GrantTTL
      <4>1. grants[s] \in GrantRow
        BY <1>1, <2>1 DEF GrantsType
      <4> QED BY <2>1, <3>1, <4>1 DEF Renewed, RenewCollection, GrantRow
    <3> QED BY <3>1
  <2> HIDE DEF old, new
  <2>4. /\ new.generation = grants'[s].generation
        /\ new.deadline <= grants'[s].until /\ new.until <= grants'[s].until
    BY <1>1, <1>4, <1>5, <2>1, <2>2
  <2>5. ASSUME new.renew = "granted"
        PROVE  new.asked + GrantTTL <= grants'[s].until
    BY <1>1, <1>4, <1>6, <2>1, <2>2, <2>3, <2>5 DEF GrantedKeeps
  <2> QED BY <2>4, <2>5
<1> QED BY <1>6, <1>7

\* A record becomes durable: the deadline of the session that wrote it has
\* not passed, and the grant ends no earlier.
LEMMA SavedGrows ==
    ASSUME SpoolInv, step \in {"write", "rename"}, NEW r \in pending,
           Authorized(holder), saved' = Append(saved, r),
           moments' = Append(moments, now), UNCHANGED vars
    PROVE  LocalAuthority' /\ (\A i \in DOMAIN saved : KnownRecord(saved[i]))'
<1>1. /\ saved \in Seq(Record) /\ r \in Record /\ r.token = holder
      /\ holder \in DOMAIN sessions /\ sessions[holder] \in SessionRow
      /\ GrantsType /\ now \in Nat /\ HostSkew \in Nat
      /\ moments \in Seq(Nat) /\ Len(moments) = Len(saved)
  BY TimesAssumption
  DEF SpoolInv, TypeOK, ChannelType, FreshInv, SpoolTypeOK, Mutex
<1>2. /\ DOMAIN saved' = 1..(Len(saved) + 1) /\ DOMAIN saved = 1..Len(saved)
      /\ Len(saved) \in Nat /\ saved'[Len(saved) + 1] = r
      /\ moments'[Len(saved) + 1] = now
      /\ \A i \in DOMAIN saved : /\ saved'[i] = saved[i]
                                 /\ moments'[i] = moments[i]
  BY <1>1
<1>3. \A i \in DOMAIN saved' :
        \/ saved'[i] = r /\ moments'[i] = now
        \/ /\ i \in DOMAIN saved /\ saved'[i] = saved[i]
           /\ moments'[i] = moments[i]
  <2>1. \A i \in DOMAIN saved' : i \in DOMAIN saved \/ i = Len(saved) + 1
    BY ONLY <1>2
  <2> QED BY ONLY Zenon, <1>2, <2>1
<1>4. /\ KnownRecord(r) /\ r.at <= now + HostSkew /\ r.at \in Nat
      /\ \A i \in DOMAIN saved : KnownRecord(saved[i])
  <2>1. KnownRecord(r) /\ \A i \in DOMAIN saved : KnownRecord(saved[i])
    BY DEF SpoolInv, AuthorityInv, Known
  <2> QED BY <1>1, <2>1 DEF KnownRecord, Record
<1>5. ASSUME r.token \in DOMAIN grants
      PROVE  /\ r.generation = grants[r.token].generation
             /\ grants[r.token].granted <= now /\ now < grants[r.token].until
             /\ grants[r.token].granted <= r.at + HostSkew
             /\ r.at < grants[r.token].until + HostSkew
  <2>1. /\ r.generation = grants[r.token].generation
        /\ grants[r.token].granted <= r.at + HostSkew
        /\ grants[r.token].granted <= now
    BY <1>5 DEF SpoolInv, AuthorityInv, PendingAuthority, GrantBounds
  <2>2. sessions[holder].until <= grants[holder].until /\ now < sessions[holder].until
    BY <1>1, <1>5 DEF SpoolInv, AuthorityInv, SessionAuthority, Authorized
  <2>3. grants[holder].until \in Nat /\ sessions[holder].until \in Nat
    BY <1>1, <1>5 DEF GrantsType, GrantRow, SessionRow
  <2> QED BY <1>1, <1>4, <2>1, <2>2, <2>3
<1>6. LocalAuthority'
  <2>1. LocalAuthority
    BY DEF SpoolInv, AuthorityInv
  <2> DEFINE Within(x, m) == x.token \in DOMAIN grants' =>
                 /\ x.generation = grants'[x.token].generation
                 /\ grants'[x.token].granted <= m
                 /\ m < grants'[x.token].until
                 /\ grants'[x.token].granted <= x.at + HostSkew
                 /\ x.at < grants'[x.token].until + HostSkew
  <2>2. grants' = grants
    OBVIOUS
  <2>3. Within(r, now)
    BY ONLY <1>5, <2>2
  <2>4. \A i \in DOMAIN saved : Within(saved[i], moments[i])
    BY ONLY <2>1, <2>2 DEF LocalAuthority
  <2>5. \A i \in DOMAIN saved' : Within(saved'[i], moments'[i])
    <3> HIDE DEF Within
    <3> QED BY ONLY <1>3, <2>3, <2>4
  <2> QED BY ONLY <2>5 DEF LocalAuthority
<1>7. (\A i \in DOMAIN saved : KnownRecord(saved[i]))'
  BY <1>3, <1>4 DEF KnownRecord
<1> QED BY <1>6, <1>7

\* Steps that make no record and leave the other sessions as they are.
LEMMA AuthorityFrame ==
    ASSUME SpoolInv, TypeOK', Forward, GrantStep, GrantBounds',
           dialing' \in {dialing, now, Null},
           DOMAIN sessions' \subseteq DOMAIN sessions,
           \A s \in DOMAIN sessions' :
               /\ RowKeeps(sessions[s], sessions'[s])
               /\ GrantedKeeps(sessions[s], sessions'[s]) \/ Renewed(s),
           PendingAuthority' /\ (\A r \in pending : KnownRecord(r))',
           LocalAuthority' /\ (\A i \in DOMAIN saved : KnownRecord(saved[i]))'
    PROVE  AuthorityInv'
<1>1. /\ now \in Nat /\ now' \in Nat /\ dialing \in Nat
      /\ now # 0 /\ dialing <= now
  BY DEF SpoolInv, TypeOK, ChannelType, FreshInv, SpoolTypeOK, AuthorityInv, Known
<1>2. now' # 0 /\ dialing' <= now'
  BY <1>1 DEF Forward, Null
<1>3. ASSUME NEW s \in DOMAIN sessions'
      PROVE  /\ sessions'[s].generation \in 1..generation'
             /\ sessions'[s].asked <= now'
             /\ s \in DOMAIN grants' =>
                  /\ sessions'[s].generation = grants'[s].generation
                  /\ sessions'[s].deadline <= grants'[s].until
                  /\ sessions'[s].until <= grants'[s].until
                  /\ sessions'[s].renew = "granted" =>
                       sessions'[s].asked + GrantTTL <= grants'[s].until
  BY Zenon, <1>3, SessionsStay
<1>4. SessionAuthority'
  BY <1>3 DEF SessionAuthority
<1>5. Known'
  BY <1>2, <1>3 DEF Known
<1> QED BY <1>4, <1>5 DEF AuthorityInv

\* Every step keeps the sessions and the records within their grants.
LEMMA AuthorityStep ==
    SpoolInv /\ TypeOK' /\ Forward /\ GrantStep /\ GrantBounds'
        /\ [SpoolNext]_svars => AuthorityInv'
<1> SUFFICES ASSUME SpoolInv, TypeOK', Forward, GrantStep, GrantBounds',
                    [SpoolNext]_svars
             PROVE  AuthorityInv'
  OBVIOUS
<1>1. /\ TypeOK /\ SpoolTypeOK /\ Mutex
      /\ sessions \in [DOMAIN sessions -> SessionRow]
      /\ \A s \in DOMAIN sessions : sessions[s] \in SessionRow
      /\ DOMAIN sessions \subseteq 1..issued
  BY DEF SpoolInv, FreshInv, SpoolTypeOK
<1>2. /\ now \in Nat /\ issued \in Nat /\ generation \in Nat /\ GrantTTL \in Nat
      /\ GrantsType /\ GrantsType' /\ dialing \in Nat /\ dialing <= now /\ now # 0
  BY Zenon, TimesAssumption DEF SpoolInv, TypeOK, ChannelType, GrantsType, FreshInv,
                         SpoolTypeOK, AuthorityInv, Known
<1>3. ASSUME saved' = saved, moments' = moments, pending' \subseteq pending,
             dialing' \in {dialing, now, Null},
             DOMAIN sessions' \subseteq DOMAIN sessions,
             \A s \in DOMAIN sessions' :
                 /\ RowKeeps(sessions[s], sessions'[s])
                 /\ GrantedKeeps(sessions[s], sessions'[s]) \/ Renewed(s)
      PROVE  AuthorityInv'
  <2>1. PendingAuthority' /\ (\A r \in pending : KnownRecord(r))'
    BY <1>3, PendingStays
  <2>2. LocalAuthority' /\ (\A i \in DOMAIN saved : KnownRecord(saved[i]))'
    BY <1>3, SavedStays
  <2> QED BY <1>3, <2>1, <2>2, AuthorityFrame
<1>4. ASSUME UNCHANGED <<pending, sessions, saved, moments>>,
             dialing' \in {dialing, now, Null}
      PROVE  AuthorityInv'
  BY <1>1, <1>3, <1>4, SameRow
<1>5. CASE BeginAcquire \/ AcquireFailed \/ UNCHANGED svars \/ OthersNext
  <2>1. /\ UNCHANGED <<pending, sessions, saved, moments>>
        /\ dialing' \in {dialing, now, Null}
    BY <1>5 DEF BeginAcquire, AcquireFailed, OthersNext
  <2> QED BY <1>4, <2>1
<1>6. CASE LoopNext
  <2>1. UNCHANGED <<pending, sessions, saved, moments, dialing>>
    BY <1>6 DEF LoopNext, LoopDispatch, LoopStart, LoopEnd
  <2> QED BY <1>4, <2>1
<1>7. CASE Acquired
  <2>0. PICK t \in Nat : t = issued + 1
    BY <1>2
  <2> DEFINE row == [generation |-> generation, deadline |-> Deadline(dialing),
                     asked |-> Null, renew |-> "idle", conn |-> "open",
                     end |-> "no", sink |-> "idle", event |-> Null,
                     until |-> Null]
             grant == [worker |-> Self, generation |-> generation, granted |-> now,
                       until |-> now + GrantTTL, closed |-> Null]
  <2>1. /\ row.generation = generation /\ row.deadline = dialing + GrantTTL
        /\ row.asked = 0 /\ row.until = 0 /\ row.renew # "granted"
        /\ grant.generation = generation /\ grant.until = now + GrantTTL
    BY DEF Deadline, Null
  <2>2. /\ sessions' = With(sessions, t, row) /\ dialing' = Null
        /\ grants' = With(grants, t, grant)
        /\ UNCHANGED <<pending, saved, moments, now, generation>>
    BY <1>7, <2>0 DEF Acquired, AcquireCollection
  <2> HIDE DEF row, grant
  <2>3. /\ DOMAIN sessions' = DOMAIN sessions \cup {t} /\ sessions'[t] = row
        /\ \A s \in DOMAIN sessions : s # t => sessions'[s] = sessions[s]
        /\ t \notin DOMAIN sessions /\ grants'[t] = grant
    BY <1>1, <1>2, <2>0, <2>2 DEF With
  <2>4. PendingAuthority' /\ (\A r \in pending : KnownRecord(r))'
    BY <2>2, PendingStays
  <2>5. LocalAuthority' /\ (\A i \in DOMAIN saved : KnownRecord(saved[i]))'
    BY <2>2, SavedStays
  <2>6. ASSUME NEW s \in DOMAIN sessions'
        PROVE  /\ sessions'[s].generation \in 1..generation'
               /\ sessions'[s].asked <= now'
               /\ s \in DOMAIN grants' =>
                    /\ sessions'[s].generation = grants'[s].generation
                    /\ sessions'[s].deadline <= grants'[s].until
                    /\ sessions'[s].until <= grants'[s].until
                    /\ sessions'[s].renew = "granted" =>
                         sessions'[s].asked + GrantTTL <= grants'[s].until
    <3>1. CASE s = t
      <4>1. generation # 0
        BY DEF SpoolInv, TypeOK, ChannelType
      <4>2. now' = now /\ generation' = generation
        BY <2>2
      <4> QED BY ONLY <1>2, <2>1, <2>3, <3>1, <4>1, <4>2
    <3>2. CASE s # t
      <4>1. s \in DOMAIN sessions /\ sessions'[s] = sessions[s]
        BY <2>3, <3>2
      <4>2. RowKeeps(sessions[s], sessions'[s]) /\ GrantedKeeps(sessions[s], sessions'[s])
        BY <1>1, <4>1, SameRow
      <4> QED BY <4>1, <4>2, SessionsStay
    <3> QED BY <3>1, <3>2
  <2>7. SessionAuthority'
    BY <2>6 DEF SessionAuthority
  <2>8. now' # 0 /\ dialing' <= now'
    BY <1>2, <2>2 DEF Null
  <2>9. Known'
    BY <2>4, <2>5, <2>6, <2>8 DEF Known
  <2> QED BY <2>4, <2>5, <2>7, <2>9 DEF AuthorityInv
<1>8. ASSUME NEW t \in DOMAIN sessions, Session(t) \/ Renewed(t)
      PROVE  AuthorityInv'
  <2>1. /\ DOMAIN sessions' = DOMAIN sessions
        /\ \A s \in DOMAIN sessions :
             /\ RowKeeps(sessions[s], sessions'[s])
             /\ GrantedKeeps(sessions[s], sessions'[s]) \/ Renewed(s)
        /\ UNCHANGED <<spoolVars, dialing, spoolHistory>>
    BY <1>1, <1>8, SessionRows
  <2> QED BY <1>3, <2>1
<1>9. ASSUME NEW t \in DOMAIN sessions, DOMAIN sessions' = DOMAIN sessions,
             \A s \in DOMAIN sessions : s # t => sessions'[s] = sessions[s],
             RowKeeps(sessions[t], sessions'[t]),
             GrantedKeeps(sessions[t], sessions'[t]),
             UNCHANGED <<pending, saved, moments, dialing>>
      PROVE  AuthorityInv'
  <2>1. \A s \in DOMAIN sessions' :
          /\ RowKeeps(sessions[s], sessions'[s])
          /\ GrantedKeeps(sessions[s], sessions'[s])
    BY <1>1, <1>9, SameRow
  <2> QED BY <1>3, <1>9, <2>1
<1>10. ASSUME NEW t \in DOMAIN sessions, NEW e \in Events, Observe(t, e)
       PROVE  AuthorityInv'
  <2>1. UNCHANGED <<pending, saved, moments, dialing>>
    BY <1>10 DEF Observe
  <2>2. CASE sessions' = [sessions EXCEPT ![t].sink = "waiting", ![t].event = e,
                                          ![t].until = sessions[t].deadline]
    <3>1. sessions'[t] = [sessions[t] EXCEPT !.sink = "waiting", !.event = e,
                                             !.until = sessions[t].deadline]
      BY <1>1, <2>2
    <3>2. sessions[t] \in SessionRow /\ e \in Events
      BY <1>1
    <3>3. /\ sessions'[t] \in SessionRow
          /\ sessions'[t].generation = sessions[t].generation
          /\ sessions'[t].asked = sessions[t].asked
          /\ sessions'[t].until = sessions[t].deadline
          /\ sessions'[t].deadline = sessions[t].deadline
          /\ sessions'[t].renew = sessions[t].renew
      BY ONLY Zenon, <3>1, <3>2 DEF SessionRow
    <3>4. /\ RowKeeps(sessions[t], sessions'[t])
          /\ GrantedKeeps(sessions[t], sessions'[t])
      BY ONLY <3>3 DEF RowKeeps, GrantedKeeps
    <3> QED BY <1>1, <1>9, <2>1, <2>2, <3>4
  <2>3. CASE sessions' = [sessions EXCEPT ![t].conn = "closing"]
    <3>1. /\ RowKeeps(sessions[t], sessions'[t])
          /\ GrantedKeeps(sessions[t], sessions'[t])
      BY <1>1, <2>3 DEF RowKeeps, GrantedKeeps, SessionRow
    <3> QED BY <1>1, <1>9, <2>1, <2>3, <3>1
  <2> QED BY <1>10, <2>2, <2>3 DEF Observe
<1>11. ASSUME NEW t \in DOMAIN sessions, SaveStart(t) PROVE AuthorityInv'
  <2>1. UNCHANGED <<pending, saved, moments, dialing>>
    BY <1>11 DEF SaveStart
  <2>2. PICK to \in {"saving", "failed"} :
          sessions' = [sessions EXCEPT ![t].sink = to]
    BY <1>11 DEF SaveStart
  <2>3. /\ RowKeeps(sessions[t], sessions'[t])
        /\ GrantedKeeps(sessions[t], sessions'[t])
    BY <1>1, <2>2 DEF RowKeeps, GrantedKeeps, SessionRow
  <2> QED BY <1>1, <1>9, <2>1, <2>2, <2>3
<1>12. CASE SaveWrite
  <2>0. PICK at \in WallClock :
          pending' = {[event |-> sessions[holder].event, token |-> holder,
                       generation |-> sessions[holder].generation, at |-> at]}
    BY <1>12 DEF SaveWrite
  <2> DEFINE r == [event |-> sessions[holder].event, token |-> holder,
                   generation |-> sessions[holder].generation, at |-> at]
  <2>1. /\ holder \in DOMAIN sessions /\ pending' = {r}
        /\ UNCHANGED <<vars, sessionVars, spoolHistory>>
    BY <1>1, <1>12, <2>0 DEF SaveWrite, Mutex
  <2>2. /\ r.token = holder /\ r.generation = sessions[holder].generation
        /\ r.at \in 1..(now + HostSkew) /\ now <= r.at + HostSkew
    <3>1. at \in (now - HostSkew)..(now + HostSkew) /\ at > 0
      BY Zenon DEF WallClock, HostClocks
    <3>2. now \in Nat /\ HostSkew \in Nat
      BY <1>2, TimesAssumption
    <3>3. at \in 1..(now + HostSkew) /\ now <= at + HostSkew
      BY ONLY <3>1, <3>2
    <3>4. /\ r.token = holder /\ r.generation = sessions[holder].generation
          /\ r.at = at
      OBVIOUS
    <3> HIDE DEF r
    <3> QED BY ONLY <3>3, <3>4
  <2> HIDE DEF r
  <2>3. sessions[holder].generation \in 1..generation
    BY <2>1 DEF SpoolInv, AuthorityInv, Known
  <2>4. KnownRecord(r)
    BY <1>1, <1>2, <2>1, <2>2, <2>3 DEF KnownRecord
  <2>5. (\A x \in pending : KnownRecord(x))'
    BY <2>1, <2>4 DEF KnownRecord
  <2>6. holder \in DOMAIN grants =>
          /\ sessions[holder].generation = grants[holder].generation
          /\ grants[holder].granted <= r.at + HostSkew
    <3>1. holder \in DOMAIN grants =>
            /\ sessions[holder].generation = grants[holder].generation
            /\ grants[holder].granted <= now /\ grants[holder].granted \in Nat
      BY <1>2, <2>1 DEF SpoolInv, AuthorityInv, SessionAuthority, GrantBounds,
                        GrantsType, GrantRow
    <3> QED BY <1>2, <2>2, <3>1, TimesAssumption
  <2>7. PendingAuthority'
    BY Zenon, <2>1, <2>2, <2>6 DEF PendingAuthority
  <2>8. LocalAuthority' /\ (\A i \in DOMAIN saved : KnownRecord(saved[i]))'
    BY <2>1, SavedStays
  <2>9. \A s \in DOMAIN sessions' : /\ RowKeeps(sessions[s], sessions'[s])
                                    /\ GrantedKeeps(sessions[s], sessions'[s])
    BY <1>1, <2>1, SameRow
  <2> QED BY <2>1, <2>5, <2>7, <2>8, <2>9, AuthorityFrame
<1>13. ASSUME NEW failed \in BOOLEAN, Return(failed)
       PROVE  /\ DOMAIN sessions' = DOMAIN sessions
              /\ \A s \in DOMAIN sessions' :
                   /\ RowKeeps(sessions[s], sessions'[s])
                   /\ GrantedKeeps(sessions[s], sessions'[s])
  BY <1>1, <1>13, ReturnRows
<1>14. ASSUME step \in {"write", "rename"}, NEW r \in pending, Authorized(holder),
              saved' = Append(saved, r), pending' = {},
              moments' = Append(moments, now),
              UNCHANGED <<vars, dialing>>,
              UNCHANGED sessions \/ Return(TRUE)
       PROVE  AuthorityInv'
  <2>1. LocalAuthority' /\ (\A i \in DOMAIN saved : KnownRecord(saved[i]))'
    BY <1>14, SavedGrows
  <2>2. PendingAuthority' /\ (\A x \in pending : KnownRecord(x))'
    BY <1>14, PendingStays
  <2>3. /\ DOMAIN sessions' = DOMAIN sessions
        /\ \A s \in DOMAIN sessions' :
             /\ RowKeeps(sessions[s], sessions'[s])
             /\ GrantedKeeps(sessions[s], sessions'[s])
    BY Zenon, <1>1, <1>13, <1>14, SameRow
  <2> QED BY <1>14, <2>1, <2>2, <2>3, AuthorityFrame
<1>15. ASSUME NEW failed \in BOOLEAN, Return(failed),
              UNCHANGED <<pending, saved, moments, dialing>>
       PROVE  AuthorityInv'
  BY <1>3, <1>13, <1>15
<1>16. CASE SaveRename
  <2>1. CASE Authorized(holder)
    BY Zenon, <1>14, <1>16, <2>1 DEF SaveRename, Rename
  <2>2. CASE ~Authorized(holder)
    BY Zenon, <1>15, <1>16, <2>2 DEF SaveRename
  <2> QED BY <2>1, <2>2
<1>17. CASE SaveBreaks
  BY Zenon, <1>14, <1>15, <1>17 DEF SaveBreaks, Rename
<1>18. CASE DrainNext
  <2>1. CASE DrainAppend \/ DrainRemove
    BY <1>4, <2>1 DEF DrainAppend, DrainRemove
  <2>2. CASE DrainBreaks \/ DrainRefused \/ DrainTimedOut \/ DrainDone
    BY Zenon, <1>15, <2>2 DEF DrainBreaks, DrainRefused, DrainTimedOut, DrainDone
  <2>3. CASE DrainUnavailable
    <3>1. (holder = DrainLoop) \in BOOLEAN
      OBVIOUS
    <3> QED BY Zenon, <1>15, <2>3, <3>1 DEF DrainUnavailable
  <2> QED BY <1>18, <2>1, <2>2, <2>3 DEF DrainNext
<1>19. CASE Crash
  <2>1. /\ DOMAIN sessions' = {} /\ dialing' = Null
        /\ UNCHANGED <<pending, saved, moments>>
    <3>1. /\ sessions' = << >> /\ dialing' = Null
          /\ UNCHANGED <<pending, saved, moments>>
      BY <1>19 DEF Crash, spoolHistory
    <3> QED BY ONLY <3>1
  <2> QED BY <1>3, <2>1
<1>20. CASE SessionNext
  BY <1>5, <1>7, <1>8, <1>20 DEF SessionNext, Session
<1>21. CASE SaveNext
  BY <1>8, <1>10, <1>11, <1>12, <1>16, <1>17, <1>21 DEF SaveNext, Session
<1> QED BY <1>5, <1>6, <1>18, <1>19, <1>20, <1>21 DEF SpoolNext

-----------------------------------------------------------------------------
(* The theorems. *)

\* An empty spool satisfies the invariant.
LEMMA SpoolInvInit == SpoolInit => SpoolInv
<1> SUFFICES ASSUME SpoolInit PROVE SpoolInv
  OBVIOUS
<1>1. /\ Init /\ files = << >> /\ pending = {} /\ holder = Null /\ step = "idle"
      /\ loop = "idle" /\ dialing = Null /\ sessions = << >>
      /\ observed = {} /\ saved = << >> /\ moments = << >>
  BY DEF SpoolInit
<1>2. TypeOK /\ StoreInv
  BY <1>1, TypeInit, StoreInit
<1>3. DOMAIN sessions = {} /\ DOMAIN saved = {} /\ DOMAIN files = {}
      /\ Len(saved) = 0 /\ Len(files) = 0 /\ DOMAIN log = {} /\ DOMAIN grants = {}
      /\ now = 1 /\ \A e \in Events : acceptedAt[e] = Null
  BY <1>1 DEF Init
<1>4. FreshInv
  <2>1. SpoolTypeOK
    BY <1>1, <1>3 DEF SpoolTypeOK, MutexHeld, Null
  <2> QED BY <1>1, <1>3, <2>1
          DEF FreshInv, Mutex, FreshSessions, FreshRecords
<1>5. OrderInv
  <2>1. Gone = 0
    BY <1>3 DEF Gone
  <2>2. FilesAreLast
    BY ONLY <1>1, <1>3, <2>1 DEF FilesAreLast
  <2>3. FromSpool /\ SpoolOrder
    BY ONLY <1>3 DEF FromSpool, SpoolOrder
  <2> QED BY <2>2, <2>3 DEF OrderInv
<1>6. AuthorityInv
  <2>1. Known
    BY ONLY <1>1, <1>3 DEF Known, Null
  <2>2. GrantBounds /\ SessionAuthority
    BY ONLY <1>3 DEF GrantBounds, SessionAuthority
  <2>3. PendingAuthority /\ LocalAuthority
    BY ONLY <1>1, <1>3 DEF PendingAuthority, LocalAuthority
  <2> QED BY <2>1, <2>2, <2>3 DEF AuthorityInv
<1> QED BY <1>2, <1>4, <1>5, <1>6 DEF SpoolInv

\* Every step keeps it.
LEMMA SpoolInvStep == SpoolInv /\ [SpoolNext]_svars => SpoolInv'
<1> SUFFICES ASSUME SpoolInv, [SpoolNext]_svars PROVE SpoolInv'
  OBVIOUS
<1>1. TypeOK /\ StoreInv /\ GrantBounds /\ [Next]_vars
  BY JournalStep DEF SpoolInv, AuthorityInv
<1>2. TypeOK' /\ StoreInv'
  BY <1>1, TypeStep, StoreStep
<1>3. Forward /\ GrantStep /\ GrantBounds'
  BY <1>1, GrantsEvolve
<1>4. FreshInv' /\ OrderInv' /\ AuthorityInv'
  BY <1>2, <1>3, FreshStep, OrderStep, AuthorityStep
<1> QED BY <1>2, <1>4 DEF SpoolInv

\* So it holds in every reachable state.
LEMMA SpoolInvariant == SpoolSpec => []SpoolInv
BY SpoolInvInit, SpoolInvStep, PTL DEF SpoolSpec

\* The worker is one of the users CollectorJournal allows for: whatever its
\* sessions, Save and the drain loop do, with crashes and lost replies, is a
\* behaviour of the journal.  So the journal's theorems hold for it: it names
\* only tokens that were issued, and replays a record only with its own time.
THEOREM SpoolImplementsJournal == SpoolSpec => Spec
<1>1. SpoolInit => Init
  BY DEF SpoolInit
<1> QED BY <1>1, SpoolInvariant, JournalStep, PTL DEF SpoolSpec, Spec

\* The spool's state always has its types, and the mutex of DonationSpool is
\* held exactly by the sink that is in Save, or by the drain loop: it is given
\* back on every return, and by nobody else.
THEOREM SpoolTypeCorrect == SpoolSpec => []SpoolTypeOK
<1>1. SpoolInv => SpoolTypeOK
  BY DEF SpoolInv, FreshInv
<1> QED BY <1>1, SpoolInvariant, PTL

\* drain removes a file only after AppendDonation has its event: a durable
\* donation is in the journal or on disk, in every state.
THEOREM NothingIsLost == SpoolSpec => []NothingLost
<1>1. SpoolInv => NothingLost
  <2> SUFFICES ASSUME SpoolInv, NEW i \in DOMAIN saved
               PROVE  \/ Journaled(saved[i].event)
                      \/ \E k \in DOMAIN files : files[k] = saved[i]
    BY DEF NothingLost
  <2>1. /\ FilesAreLast /\ files \in Seq(Record) /\ saved \in Seq(Record)
    BY DEF SpoolInv, FreshInv, SpoolTypeOK, OrderInv
  <2>2. /\ Len(saved) \in Nat /\ Len(files) \in Nat /\ Len(files) <= Len(saved)
        /\ DOMAIN saved = 1..Len(saved) /\ DOMAIN files = 1..Len(files)
    BY <2>1 DEF FilesAreLast
  <2>3. Gone \in Nat /\ Gone + Len(files) = Len(saved)
    BY <2>2 DEF Gone
  <2>4. CASE i <= Gone
    <3>1. i \in 1..Gone
      BY <2>2, <2>4
    <3> QED BY <2>1, <3>1 DEF FilesAreLast, InLog, Journaled
  <2>5. CASE i > Gone
    <3>1. i - Gone \in DOMAIN files /\ Gone + (i - Gone) = i
      BY <2>2, <2>3, <2>5
    <3>2. files[i - Gone] = saved[i]
      BY <2>1, <3>1 DEF FilesAreLast
    <3> QED BY <3>1, <3>2
  <2>6. i <= Gone \/ i > Gone
    BY ONLY <2>2, <2>3, i \in DOMAIN saved
  <2> QED BY <2>4, <2>5, <2>6
<1> QED BY <1>1, SpoolInvariant, PTL

\* Save and the drain loop both drain from the first name under one mutex: the
\* journal takes a worker's donations in the order of their acceptance.
THEOREM SpoolKeepsOrder == SpoolSpec => []SpoolOrder
<1>1. SpoolInv => SpoolOrder
  BY DEF SpoolInv, OrderInv
<1> QED BY <1>1, SpoolInvariant, PTL

\* The deadline of a session counts from before its call and Save checks it
\* again before the rename: a worker makes a record durable within the grant the
\* database has, and the time in the record, which is the host's wall clock,
\* lies within that grant up to the skew of the two clocks, whatever it is.
THEOREM AuthorityIsLocal == SpoolSpec => []LocalAuthority
<1>1. SpoolInv => LocalAuthority
  BY DEF SpoolInv, AuthorityInv
<1> QED BY <1>1, SpoolInvariant, PTL

=============================================================================
