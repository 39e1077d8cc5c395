-------------------------- MODULE SpoolOrderProofs --------------------------
(***************************************************************************)
(* Every step of DonationSpool keeps each event in one place, and the      *)
(* files and the journal in the order of acceptance.                       *)
(***************************************************************************)
EXTENDS SpoolJournalProofs

USE DEF vars, envVars, channelVars, grantVars, journalVars, historyVars,
        spoolVars, sessionVars, spoolHistory, svars

-----------------------------------------------------------------------------
(* An event is in one place. *)

\* Where no event comes into hand and no record is made, none gets a second
\* place.
LEMMA FreshFrame ==
    ASSUME FreshSessions, FreshRecords,
           saved' = saved, pending' \subseteq pending, observed' = observed,
           \A s \in DOMAIN sessions' : Unsaved(s)' =>
               /\ s \in DOMAIN sessions /\ Unsaved(s)
               /\ sessions'[s].event = sessions[s].event
    PROVE  FreshSessions' /\ FreshRecords'
<1>1. FreshRecords'
  BY DEF FreshRecords
<1>2. FreshSessions'
  <2> SUFFICES ASSUME NEW t \in DOMAIN sessions', Unsaved(t)'
               PROVE  /\ sessions'[t].event \in observed
                      /\ \A i \in DOMAIN saved : saved[i].event # sessions'[t].event
                      /\ \A r \in pending' : r.event # sessions'[t].event
                      /\ \A s \in DOMAIN sessions' :
                           Unsaved(s)' /\ sessions'[s].event = sessions'[t].event
                             => s = t
    BY DEF FreshSessions
  <2> HIDE DEF Unsaved
  <2>1. /\ t \in DOMAIN sessions /\ Unsaved(t)
        /\ sessions'[t].event = sessions[t].event
    OBVIOUS
  <2> QED BY <2>1 DEF FreshSessions
<1> QED BY <1>1, <1>2

\* A .pending file becomes a record.
LEMMA FreshRename ==
    ASSUME FreshInv,
           NEW r \in pending, files' = Append(files, r), saved' = Append(saved, r),
           pending' = {}, observed' = observed,
           moments' = Append(moments, now), now \in Nat,
           \A s \in DOMAIN sessions' : Unsaved(s)' =>
               /\ s \in DOMAIN sessions /\ Unsaved(s)
               /\ sessions'[s].event = sessions[s].event
    PROVE  /\ files' \in Seq(Record) /\ saved' \in Seq(Record)
           /\ moments' \in Seq(Nat) /\ Len(moments') = Len(saved')
           /\ FreshSessions' /\ FreshRecords'
<1>1. /\ files \in Seq(Record) /\ saved \in Seq(Record) /\ r \in Record
      /\ moments \in Seq(Nat) /\ Len(moments) = Len(saved)
      /\ FreshSessions /\ FreshRecords
  BY DEF FreshInv, SpoolTypeOK
<1>2. /\ DOMAIN saved' = 1..(Len(saved) + 1) /\ DOMAIN saved = 1..Len(saved)
      /\ Len(saved) \in Nat
      /\ saved'[Len(saved) + 1] = r
      /\ \A i \in DOMAIN saved : saved'[i] = saved[i]
  BY <1>1
<1>3. \A i \in DOMAIN saved' :
        i \in DOMAIN saved \/ (saved'[i] = r /\ i = Len(saved) + 1)
  BY <1>2
<1>4. FreshRecords'
  BY <1>1, <1>2, <1>3 DEF FreshRecords
<1>5. FreshSessions'
  <2> SUFFICES ASSUME NEW t \in DOMAIN sessions', Unsaved(t)'
               PROVE  /\ sessions'[t].event \in observed
                      /\ \A i \in DOMAIN saved' :
                           saved'[i].event # sessions'[t].event
                      /\ \A s \in DOMAIN sessions' :
                           Unsaved(s)' /\ sessions'[s].event = sessions'[t].event
                             => s = t
    BY DEF FreshSessions
  <2> HIDE DEF Unsaved
  <2>1. /\ t \in DOMAIN sessions /\ Unsaved(t)
        /\ sessions'[t].event = sessions[t].event
    OBVIOUS
  <2> QED BY <1>1, <1>2, <1>3, <2>1 DEF FreshSessions
<1> QED BY <1>1, <1>4, <1>5

\* Every step keeps the types, the mutex and each event in one place.
LEMMA FreshStep ==
    SpoolInv /\ TypeOK' /\ Forward /\ [SpoolNext]_svars => FreshInv'
<1> SUFFICES ASSUME SpoolInv, TypeOK', Forward, [SpoolNext]_svars
             PROVE  FreshInv'
  OBVIOUS
<1>1. TypeOK /\ SpoolTypeOK /\ Mutex /\ FreshSessions /\ FreshRecords /\ FreshInv
  BY DEF SpoolInv, FreshInv
<1>2. /\ now \in Nat /\ issued \in Nat /\ issued' \in Nat /\ GrantTTL \in Nat
      /\ issued <= issued' /\ 1..issued \subseteq 1..issued'
  BY <1>1, TimesAssumption DEF TypeOK, ChannelType, GrantsType, Forward
<1>3. /\ files \in Seq(Record) /\ saved \in Seq(Record) /\ pending \subseteq Record
      /\ holder \in {Null, DrainLoop} \cup DOMAIN sessions
      /\ step \in {"idle", "write", "rename", "drain", "remove"}
      /\ loop \in {"idle", "dispatch", "failed"} /\ dialing \in Nat
      /\ DOMAIN sessions \subseteq 1..issued
      /\ sessions \in [DOMAIN sessions -> SessionRow] /\ observed \subseteq Events
      /\ moments \in Seq(Nat) /\ Len(moments) = Len(saved) /\ MutexHeld
      /\ \A t \in DOMAIN sessions : t # 0 /\ t # -1
  BY <1>1 DEF SpoolTypeOK
<1>4. ASSUME UNCHANGED <<files, pending, sessions, spoolHistory>>,
             \/ UNCHANGED <<holder, step>>
             \/ holder = Null /\ holder' = DrainLoop /\ step' = "drain",
             loop' \in {"idle", "dispatch", "failed"}, dialing' \in Nat
      PROVE  FreshInv'
  <2>0. MutexHeld'
    BY <1>3, <1>4 DEF MutexHeld, Null, DrainLoop
  <2>1. SpoolTypeOK'
    BY <1>2, <1>3, <1>4, <2>0 DEF SpoolTypeOK
  <2>2. Mutex'
    BY <1>1, <1>4 DEF Mutex
  <2>3. FreshSessions' /\ FreshRecords'
    BY <1>1, <1>4, FreshFrame DEF Unsaved
  <2> QED BY <2>1, <2>2, <2>3 DEF FreshInv
<1>5. CASE BeginAcquire \/ AcquireFailed \/ UNCHANGED svars \/ OthersNext
  <2>1. /\ UNCHANGED <<spoolVars, sessions, spoolHistory>>
        /\ dialing' \in {dialing, now, Null}
    BY <1>5 DEF BeginAcquire, AcquireFailed, OthersNext
  <2> QED BY <1>2, <1>3, <1>4, <2>1 DEF Null
<1>6. CASE LoopNext
  <2>1. CASE \E e \in Events : LoopDispatch(e)
    BY <1>3, <1>4, <2>1 DEF LoopDispatch
  <2>2. CASE LoopStart
    BY <1>3, <1>4, <2>2 DEF LoopStart
  <2>3. CASE LoopEnd
    BY <1>3, <1>4, <2>3 DEF LoopEnd
  <2> QED BY <1>6, <2>1, <2>2, <2>3 DEF LoopNext
<1>7. CASE Acquired
  <2>0. PICK t \in Nat : t = issued + 1
    BY <1>2
  <2> DEFINE row == [generation |-> generation, deadline |-> Deadline(dialing),
                     asked |-> Null, renew |-> "idle", conn |-> "open",
                     end |-> "no", sink |-> "idle", event |-> Null,
                     until |-> Null]
  <2>1. row \in SessionRow /\ row.sink = "idle"
    <3>1. generation \in Nat /\ Deadline(dialing) \in Nat /\ Null \in Nat
      <4>1. generation \in Nat /\ dialing \in Nat /\ GrantTTL \in Nat
        BY <1>1, <1>2, <1>3, TimesAssumption DEF TypeOK, ChannelType
      <4> QED BY ONLY <4>1 DEF Deadline, Null
    <3> QED BY <3>1 DEF SessionRow
  <2>2. /\ sessions' = With(sessions, t, row) /\ dialing' = Null
        /\ issued' = t /\ UNCHANGED <<spoolVars, spoolHistory>>
    BY <1>7, <2>0 DEF Acquired, AcquireCollection
  <2> HIDE DEF row
  <2>3. /\ DOMAIN sessions' = DOMAIN sessions \cup {t} /\ sessions'[t] = row
        /\ \A s \in DOMAIN sessions : s # t => sessions'[s] = sessions[s]
        /\ sessions' \in [DOMAIN sessions' -> SessionRow]
        /\ t \notin DOMAIN sessions
    <3>1. t \notin DOMAIN sessions
      BY <1>2, <1>3, <2>0
    <3>2. sessions' = [s \in DOMAIN sessions \cup {t} |->
                         IF s = t THEN row ELSE sessions[s]]
      BY <2>2 DEF With
    <3> QED BY <1>3, <2>1, <3>1, <3>2
  <2>4. SpoolTypeOK'
    <3>1. DOMAIN sessions' \subseteq 1..issued'
      BY <1>2, <1>3, <2>0, <2>2, <2>3
    <3>2. dialing' \in Nat /\ holder' \in {Null, DrainLoop} \cup DOMAIN sessions'
      BY <1>3, <2>2, <2>3 DEF Null
    <3>3. MutexHeld'
      <4>1. t # 0 /\ holder # t
        BY <1>2, <1>3, <2>0, <2>3 DEF Null, DrainLoop
      <4> QED BY <1>3, <2>1, <2>2, <2>3, <4>1 DEF MutexHeld
    <3> QED BY <1>3, <2>2, <2>3, <3>1, <3>2, <3>3 DEF SpoolTypeOK
  <2>5. Mutex'
    BY <1>1, <2>2, <2>3 DEF Mutex
  <2>6. ~Unsaved(t)'
    <3>1. step # "write" \/ holder # t
      BY <1>1, <2>3 DEF Mutex
    <3> QED BY <2>1, <2>2, <2>3, <3>1 DEF Unsaved
  <2>7. FreshSessions' /\ FreshRecords'
    BY <1>1, <2>2, <2>3, <2>6, FreshFrame DEF Unsaved
  <2> QED BY <2>4, <2>5, <2>7 DEF FreshInv
<1>8. ASSUME NEW t \in DOMAIN sessions, Session(t) \/ Renewed(t)
      PROVE  FreshInv'
  <2>1. /\ DOMAIN sessions' = DOMAIN sessions
        /\ \A s \in DOMAIN sessions : /\ SinkKeeps(sessions[s], sessions'[s])
                                       /\ SavingKeeps(sessions[s], sessions'[s])
        /\ sessions' \in [DOMAIN sessions -> SessionRow]
        /\ UNCHANGED <<spoolVars, dialing, spoolHistory>>
    BY <1>1, <1>8, SessionRows
  <2>2. SpoolTypeOK'
    <3>1. MutexHeld'
      BY <1>3, <2>1 DEF MutexHeld, SavingKeeps
    <3> QED BY <1>2, <1>3, <2>1, <3>1 DEF SpoolTypeOK
  <2>3. Mutex'
    BY <1>1, <2>1 DEF Mutex, SavingKeeps
  <2>4. FreshSessions' /\ FreshRecords'
    BY <1>1, <2>1, FreshFrame DEF Unsaved, SinkKeeps
  <2> QED BY <2>2, <2>3, <2>4 DEF FreshInv
<1>9. ASSUME NEW t \in DOMAIN sessions, NEW e \in Events, Observe(t, e)
      PROVE  FreshInv'
  <2>1. /\ DOMAIN sessions' = DOMAIN sessions
        /\ \A s \in DOMAIN sessions : s # t => sessions'[s] = sessions[s]
        /\ sessions' \in [DOMAIN sessions -> SessionRow]
        /\ sessions[t].sink = "idle"
        /\ \/ sessions'[t].sink = "waiting" /\ sessions'[t].event = e
           \/ sessions'[t].sink = "idle"
        /\ e \notin observed /\ observed' = observed \cup {e}
        /\ UNCHANGED <<spoolVars, dialing, saved, moments>>
    <3>1. /\ sessions[t].sink = "idle"
          /\ e \notin observed /\ observed' = observed \cup {e}
          /\ UNCHANGED <<spoolVars, dialing, saved, moments>>
      BY <1>9 DEF Observe
    <3>2. \/ sessions' = [sessions EXCEPT ![t].sink = "waiting", ![t].event = e,
                                         ![t].until = sessions[t].deadline]
          \/ sessions' = [sessions EXCEPT ![t].conn = "closing"]
      BY <1>9 DEF Observe
    <3>3. sessions[t] \in SessionRow
      BY <1>3
    <3>4. /\ DOMAIN sessions' = DOMAIN sessions
          /\ \A s \in DOMAIN sessions : s # t => sessions'[s] = sessions[s]
          /\ sessions' = [s \in DOMAIN sessions |-> sessions'[s]]
      BY <1>3, <3>2
    <3>5. /\ sessions'[t] \in SessionRow
          /\ \/ sessions'[t].sink = "waiting" /\ sessions'[t].event = e
             \/ sessions'[t].sink = "idle"
      <4>1. CASE sessions' = [sessions EXCEPT
                                ![t].sink = "waiting", ![t].event = e,
                                ![t].until = sessions[t].deadline]
        BY Zenon, <1>3, <3>3, <4>1 DEF SessionRow
      <4>2. CASE sessions' = [sessions EXCEPT ![t].conn = "closing"]
        BY Zenon, <1>3, <3>1, <3>3, <4>2 DEF SessionRow
      <4> QED BY <3>2, <4>1, <4>2
    <3>6. sessions' \in [DOMAIN sessions -> SessionRow]
      BY Zenon, <1>3, <3>4, <3>5
    <3> QED BY <3>1, <3>4, <3>5, <3>6
  <2>2. SpoolTypeOK'
    <3>1. MutexHeld'
      BY Zenon, <1>3, <2>1 DEF MutexHeld
    <3> QED BY <1>2, <1>3, <2>1, <3>1 DEF SpoolTypeOK
  <2>3. Mutex' /\ (step = "write" => holder # t)
    BY <1>1, <2>1 DEF Mutex
  <2>4. FreshRecords'
    BY <1>1, <2>1 DEF FreshRecords
  <2>5. /\ \A s \in DOMAIN sessions : s # t /\ Unsaved(s)' => Unsaved(s)
        /\ Unsaved(t)' => sessions'[t].event = e
    BY <2>1, <2>3 DEF Unsaved
  <2>6. FreshSessions'
    BY <1>1, <2>1, <2>5 DEF FreshSessions, FreshRecords
  <2> QED BY <2>2, <2>3, <2>4, <2>6 DEF FreshInv
<1>10. ASSUME NEW t \in DOMAIN sessions, SaveStart(t) PROVE FreshInv'
  <2>1. /\ DOMAIN sessions' = DOMAIN sessions
        /\ \A s \in DOMAIN sessions :
             /\ s # t => sessions'[s] = sessions[s]
             /\ sessions'[s].event = sessions[s].event
        /\ sessions' \in [DOMAIN sessions -> SessionRow]
        /\ sessions[t].sink = "waiting" /\ holder = Null
        /\ \/ /\ sessions'[t].sink = "saving" /\ holder' = t /\ step' = "write"
              /\ pending = {}
           \/ sessions'[t].sink = "failed" /\ UNCHANGED <<holder, step>>
        /\ UNCHANGED <<files, pending, loop, dialing, spoolHistory>>
    <3>1. /\ sessions[t].sink = "waiting" /\ holder = Null
          /\ UNCHANGED <<files, pending, loop, dialing, spoolHistory>>
      BY <1>10 DEF SaveStart
    <3>2. \/ /\ sessions' = [sessions EXCEPT ![t].sink = "saving"]
             /\ holder' = t /\ step' = "write" /\ pending = {}
          \/ /\ sessions' = [sessions EXCEPT ![t].sink = "failed"]
             /\ UNCHANGED <<holder, step>>
      BY <1>10 DEF SaveStart
    <3>3. sessions[t] \in SessionRow
      BY <1>3
    <3>4. /\ DOMAIN sessions' = DOMAIN sessions
          /\ \A s \in DOMAIN sessions :
               /\ s # t => sessions'[s] = sessions[s]
               /\ sessions'[s].event = sessions[s].event
          /\ \/ /\ sessions'[t].sink = "saving" /\ holder' = t /\ step' = "write"
                /\ pending = {}
             \/ sessions'[t].sink = "failed" /\ UNCHANGED <<holder, step>>
      <4>1. CASE sessions' = [sessions EXCEPT ![t].sink = "saving"]
                 /\ holder' = t /\ step' = "write" /\ pending = {}
        BY <1>3, <3>3, <4>1 DEF SessionRow
      <4>2. CASE sessions' = [sessions EXCEPT ![t].sink = "failed"]
                 /\ UNCHANGED <<holder, step>>
        BY <1>3, <3>3, <4>2 DEF SessionRow
      <4> QED BY <3>2, <4>1, <4>2
    <3>5. sessions'[t] \in SessionRow
      <4>1. CASE sessions' = [sessions EXCEPT ![t].sink = "saving"]
        BY Zenon, <1>3, <3>3, <4>1 DEF SessionRow
      <4>2. CASE sessions' = [sessions EXCEPT ![t].sink = "failed"]
        BY Zenon, <1>3, <3>3, <4>2 DEF SessionRow
      <4> QED BY <3>2, <4>1, <4>2
    <3>6. sessions' = [s \in DOMAIN sessions |-> sessions'[s]]
      BY <1>3, <3>2
    <3>7. sessions' \in [DOMAIN sessions -> SessionRow]
      BY Zenon, <1>3, <3>4, <3>5, <3>6
    <3> QED BY <3>1, <3>4, <3>7
  <2>2. SpoolTypeOK'
    <3>1. step = "idle" /\ \A s \in DOMAIN sessions : sessions[s].sink # "saving"
      BY <1>3, <2>1 DEF MutexHeld, Null
    <3>2. /\ DOMAIN sessions' = DOMAIN sessions /\ t \in DOMAIN sessions
          /\ \A s \in DOMAIN sessions : s # t => sessions'[s] = sessions[s]
          /\ \A s \in DOMAIN sessions : s # Null
          /\ holder = Null
      BY Zenon, <1>3, <2>1 DEF Null
    <3>3. \A s \in DOMAIN sessions' : s # t => sessions'[s].sink # "saving"
      BY Zenon, <3>1, <3>2
    <3>4. ASSUME sessions'[t].sink = "saving", holder' = t, step' = "write"
          PROVE  MutexHeld'
      <4>1. (holder = Null <=> step = "idle")'
        BY Zenon, <3>2, <3>4
      <4>2. (\A s \in DOMAIN sessions : sessions[s].sink = "saving" <=> holder = s)'
        BY Zenon, <3>3, <3>4
      <4> QED BY <4>1, <4>2 DEF MutexHeld
    <3>5. ASSUME sessions'[t].sink = "failed", UNCHANGED <<holder, step>>
          PROVE  MutexHeld'
      <4>1. (holder = Null <=> step = "idle")'
        BY Zenon, <3>1, <3>2, <3>5
      <4>2. \A s \in DOMAIN sessions' : sessions'[s].sink # "saving"
        BY Zenon, <3>3, <3>5
      <4>3. \A s \in DOMAIN sessions' : holder' # s
        BY Zenon, <3>2, <3>5
      <4> QED BY <4>1, <4>2, <4>3 DEF MutexHeld
    <3>6. MutexHeld'
      BY <2>1, <3>4, <3>5
    <3> QED BY <1>2, <1>3, <2>1, <3>6 DEF SpoolTypeOK
  <2>3. Mutex'
    BY <1>1, <2>1 DEF Mutex
  <2>4. FreshSessions' /\ FreshRecords'
    BY <1>1, <2>1, FreshFrame DEF Unsaved
  <2> QED BY <2>2, <2>3, <2>4 DEF FreshInv
<1>11. CASE SaveWrite
  <2>0. PICK at \in WallClock :
          pending' = {[event |-> sessions[holder].event, token |-> holder,
                       generation |-> sessions[holder].generation, at |-> at]}
    BY <1>11 DEF SaveWrite
  <2> DEFINE r == [event |-> sessions[holder].event, token |-> holder,
                   generation |-> sessions[holder].generation, at |-> at]
  <2>1. /\ holder \in DOMAIN sessions /\ sessions[holder].sink = "saving"
        /\ step = "write" /\ step' = "rename" /\ pending' = {r}
        /\ UNCHANGED <<files, holder, loop, sessionVars, spoolHistory>>
    BY <1>1, <1>11, <2>0 DEF SaveWrite, Mutex
  <2>2. Unsaved(holder)
    BY <2>1 DEF Unsaved
  <2>3. sessions[holder].event \in Events
    BY <1>1, <1>3, <2>1, <2>2 DEF FreshSessions
  <2>4. /\ r \in Record /\ r.token = holder
        /\ r.event = sessions[holder].event
    <3>1. at \in Nat
      BY <1>2, TimesAssumption DEF WallClock, HostClocks
    <3> QED BY <1>3, <2>1, <2>3, <3>1 DEF Record, SessionRow
  <2> HIDE DEF r
  <2>5. SpoolTypeOK'
    <3>1. MutexHeld'
      BY <1>3, <2>1 DEF MutexHeld
    <3> QED BY <1>2, <1>3, <2>1, <2>4, <3>1 DEF SpoolTypeOK
  <2>6. Mutex'
    BY <2>1, <2>4 DEF Mutex
  <2>7. \A s \in DOMAIN sessions : Unsaved(s)' => Unsaved(s) /\ s # holder
    BY <2>1 DEF Unsaved
  <2>8. FreshSessions'
    BY <1>1, <2>1, <2>2, <2>4, <2>7 DEF FreshSessions
  <2>9. FreshRecords'
    BY <1>1, <2>1, <2>2, <2>4 DEF FreshSessions, FreshRecords
  <2> QED BY <2>5, <2>6, <2>8, <2>9 DEF FreshInv
<1>12. ASSUME NEW failed \in BOOLEAN, Return(failed), files' \in Seq(Record),
              UNCHANGED <<pending, saved, moments>> \/ Rename,
              UNCHANGED <<dialing, observed>>
       PROVE  FreshInv'
  <2>1. /\ DOMAIN sessions' = DOMAIN sessions
        /\ \A s \in DOMAIN sessions : SinkKeeps(sessions[s], sessions'[s])
        /\ sessions' \in [DOMAIN sessions -> SessionRow]
        /\ holder' = Null /\ step' = "idle" /\ MutexHeld'
        /\ loop' \in {loop, "dispatch", "failed"}
    BY <1>1, <1>12, ReturnRows
  <2>2. \A s \in DOMAIN sessions' : Unsaved(s)' =>
               /\ s \in DOMAIN sessions /\ Unsaved(s)
               /\ sessions'[s].event = sessions[s].event
    BY <2>1 DEF Unsaved, SinkKeeps
  <2>3. /\ FreshSessions' /\ FreshRecords'
        /\ saved' \in Seq(Record) /\ pending' \subseteq Record
        /\ moments' \in Seq(Nat) /\ Len(moments') = Len(saved')
    <3>1. CASE UNCHANGED <<pending, saved, moments>>
      BY <1>1, <1>3, <1>12, <2>2, <3>1, FreshFrame
    <3>2. CASE Rename
      <4>1. PICK r \in pending : files' = Append(files, r) /\ saved' = Append(saved, r)
        BY <3>2 DEF Rename
      <4>2. pending' = {} /\ moments' = Append(moments, now)
        BY <3>2 DEF Rename
      <4> QED BY <1>1, <1>2, <1>12, <2>2, <4>1, <4>2, FreshRename
    <3> QED BY <1>12, <3>1, <3>2
  <2>4. SpoolTypeOK'
    BY <1>2, <1>3, <1>12, <2>1, <2>3 DEF SpoolTypeOK
  <2>5. Mutex'
    BY <2>1 DEF Mutex
  <2> QED BY <2>3, <2>4, <2>5 DEF FreshInv
<1>13. CASE SaveRename
  <2>1. CASE Authorized(holder)
    <3>1. PICK r \in pending : /\ files' = Append(files, r)
                              /\ saved' = Append(saved, r)
      BY <1>13, <2>1 DEF SaveRename, Rename
    <3>2. /\ pending' = {} /\ moments' = Append(moments, now)
          /\ step = "rename" /\ step' = "drain"
          /\ UNCHANGED <<holder, loop, sessions, dialing, observed>>
      BY <1>13, <2>1 DEF SaveRename, Rename
    <3>3. /\ files' \in Seq(Record) /\ saved' \in Seq(Record)
          /\ moments' \in Seq(Nat) /\ Len(moments') = Len(saved')
          /\ FreshSessions' /\ FreshRecords'
      BY <1>1, <1>2, <3>1, <3>2, FreshRename DEF Unsaved
    <3>4. SpoolTypeOK'
      <4>1. MutexHeld'
        BY <1>3, <3>2 DEF MutexHeld
      <4> QED BY <1>2, <1>3, <3>2, <3>3, <4>1 DEF SpoolTypeOK
    <3>5. Mutex'
      BY <3>2 DEF Mutex
    <3> QED BY <3>3, <3>4, <3>5 DEF FreshInv
  <2>2. CASE ~Authorized(holder)
    BY Zenon, <1>3, <1>12, <1>13, <2>2 DEF SaveRename
  <2> QED BY <2>1, <2>2
<1>14. CASE SaveBreaks
  <2>1. files' \in Seq(Record)
    <3>1. \A r \in pending : Append(files, r) \in Seq(Record)
      BY <1>3
    <3> QED BY Zenon, <1>3, <1>14, <3>1 DEF SaveBreaks, Rename
  <2> QED BY Zenon, <1>12, <1>14, <2>1 DEF SaveBreaks
<1>15. CASE DrainNext
  <2>1. CASE DrainAppend \/ DrainRemove
    <3>1. /\ UNCHANGED <<pending, holder, loop, sessionVars, spoolHistory>>
          /\ step # "idle" /\ step' \in {"drain", "remove"}
          /\ files' \in Seq(Record)
      <4>1. CASE DrainAppend
        BY <1>3, <4>1 DEF DrainAppend
      <4>2. CASE DrainRemove
        <5>1. files # << >>
          BY <4>2 DEF DrainRemove, SpoolInv, OrderInv, FilesAreLast
        <5> QED BY <1>3, <4>2, <5>1 DEF DrainRemove
      <4> QED BY <2>1, <4>1, <4>2
    <3>2. SpoolTypeOK'
      <4>1. MutexHeld'
        BY <1>3, <3>1 DEF MutexHeld
      <4> QED BY <1>2, <1>3, <3>1, <4>1 DEF SpoolTypeOK
    <3>3. Mutex'
      BY <3>1 DEF Mutex
    <3>4. FreshSessions' /\ FreshRecords'
      BY <1>1, <3>1, FreshFrame DEF Unsaved
    <3> QED BY <3>2, <3>3, <3>4 DEF FreshInv
  <2>2. CASE DrainBreaks
    <3>1. files # << >>
      BY <2>2 DEF DrainBreaks, SpoolInv, OrderInv, FilesAreLast
    <3>2. Tail(files) \in Seq(Record)
      BY <1>3, <3>1
    <3>3. files' \in Seq(Record)
      BY Zenon, <1>3, <2>2, <3>2 DEF DrainBreaks
    <3> QED BY Zenon, <1>12, <2>2, <3>3 DEF DrainBreaks
  <2>3. CASE DrainUnavailable
    <3>1. (holder = DrainLoop) \in BOOLEAN
      OBVIOUS
    <3> QED BY Zenon, <1>3, <1>12, <2>3, <3>1 DEF DrainUnavailable
  <2>4. CASE DrainRefused \/ DrainTimedOut \/ DrainDone
    BY Zenon, <1>3, <1>12, <2>4 DEF DrainRefused, DrainTimedOut, DrainDone
  <2> QED BY <1>15, <2>1, <2>2, <2>3, <2>4 DEF DrainNext
<1>16. CASE Crash
  <2>1. /\ holder' = Null /\ step' = "idle" /\ loop' = "idle" /\ dialing' = Null
        /\ sessions' = << >> /\ UNCHANGED <<files, pending, spoolHistory>>
    BY <1>16 DEF Crash
  <2>2. DOMAIN sessions' = {} /\ sessions' \in [{} -> SessionRow]
    BY <2>1
  <2>3. SpoolTypeOK'
    BY <1>3, <2>1, <2>2 DEF SpoolTypeOK, MutexHeld, Null
  <2>4. Mutex' /\ FreshSessions'
    BY <2>1, <2>2 DEF Mutex, FreshSessions
  <2>5. FreshRecords'
    BY <1>1, <2>1 DEF FreshRecords
  <2> QED BY <2>3, <2>4, <2>5 DEF FreshInv
<1>17. CASE SessionNext
  BY <1>5, <1>7, <1>8, <1>17 DEF SessionNext, Session
<1>18. CASE SaveNext
  BY <1>8, <1>9, <1>10, <1>11, <1>13, <1>14, <1>18 DEF SaveNext, Session
<1> QED BY <1>5, <1>6, <1>15, <1>16, <1>17, <1>18 DEF SpoolNext

-----------------------------------------------------------------------------
(* Nothing is lost, and the order is kept. *)

\* A step that leaves the records and the journal's log alone, and removes the
\* first file next only if the journal has its event.
LEMMA OrderFrame ==
    ASSUME OrderInv, UNCHANGED <<files, saved, log, acceptedAt>>,
           step' = "remove" =>
               \/ step = "remove"
               \/ files # << >> /\ InLog(files[1].event, log)
    PROVE  OrderInv'
BY DEF OrderInv, FilesAreLast, FromSpool, SpoolOrder, Gone

\* A record is added at the end, and the journal does not have its event.
LEMMA OrderRename ==
    ASSUME SpoolInv, NEW r \in pending,
           files' = Append(files, r), saved' = Append(saved, r),
           UNCHANGED <<log, acceptedAt>>, step' # "remove"
    PROVE  OrderInv'
<1>1. /\ files \in Seq(Record) /\ saved \in Seq(Record) /\ r \in Record
      /\ FilesAreLast /\ FromSpool /\ SpoolOrder
      /\ \A i \in DOMAIN saved : saved[i].event # r.event
  BY DEF SpoolInv, FreshInv, SpoolTypeOK, FreshRecords, OrderInv
<1>2. /\ Len(saved) \in Nat /\ Len(files) \in Nat
      /\ DOMAIN saved = 1..Len(saved) /\ DOMAIN files = 1..Len(files)
      /\ Len(saved') = Len(saved) + 1 /\ Len(files') = Len(files) + 1
      /\ DOMAIN saved' = 1..(Len(saved) + 1) /\ DOMAIN files' = 1..(Len(files) + 1)
      /\ saved'[Len(saved) + 1] = r /\ files'[Len(files) + 1] = r
      /\ \A i \in DOMAIN saved : saved'[i] = saved[i]
      /\ \A k \in DOMAIN files : files'[k] = files[k]
      /\ Len(files) <= Len(saved)
  BY <1>1 DEF FilesAreLast
<1>3. Gone' = Gone /\ Gone \in Nat /\ Gone + Len(files) = Len(saved)
  BY <1>2 DEF Gone
<1>4. ~InLog(r.event, log) /\ log' = log
  BY <1>1 DEF FromSpool, InLog
<1>5. FilesAreLast'
  <2>1. \A k \in DOMAIN files' : files'[k] = saved'[Gone + k]
    <3>1. \A k \in DOMAIN files : files[k] = saved[Gone + k]
      BY <1>1 DEF FilesAreLast
    <3> QED BY ONLY <1>2, <1>3, <3>1
  <2>2. \A i \in 1..Gone : InLog(saved'[i].event, log')
    BY <1>1, <1>2, <1>3, <1>4 DEF FilesAreLast
  <2>3. \A i \in (Gone + 2)..Len(saved') : ~InLog(saved'[i].event, log')
    <3>1. \A i \in (Gone + 2)..Len(saved) : ~InLog(saved[i].event, log)
      BY <1>1 DEF FilesAreLast
    <3>2. \A i \in (Gone + 2)..Len(saved') :
            \/ i \in (Gone + 2)..Len(saved) /\ saved'[i] = saved[i]
            \/ saved'[i] = r
      BY ONLY <1>2, <1>3
    <3> QED BY ONLY <1>4, <3>1, <3>2
  <2>4. Len(files') <= Len(saved')
    BY <1>2
  <2> QED BY <1>3, <2>1, <2>2, <2>3, <2>4 DEF FilesAreLast
<1>6. FromSpool'
  <2>1. /\ log' = log /\ acceptedAt' = acceptedAt
        /\ \A i \in DOMAIN saved : i \in DOMAIN saved' /\ saved'[i] = saved[i]
    BY <1>2
  <2> QED BY ONLY <1>1, <2>1 DEF FromSpool
<1>7. SpoolOrder'
  <2> SUFFICES ASSUME NEW i \in DOMAIN saved', NEW j \in DOMAIN saved',
                      NEW n \in DOMAIN log, i < j, log[n] = saved'[j].event
               PROVE  \E m \in 1..(n - 1) : log[m] = saved'[i].event
    BY DEF SpoolOrder
  <2>1. j # Len(saved) + 1
    BY <1>2, <1>4 DEF InLog
  <2>2. i \in DOMAIN saved /\ j \in DOMAIN saved
    BY <1>2, <2>1
  <2> QED BY <1>1, <1>2, <2>2 DEF SpoolOrder
<1> QED BY <1>5, <1>6, <1>7 DEF OrderInv

\* The first record enters the journal: those before it are there already.
LEMMA OrderAppend ==
    ASSUME SpoolInv, files # << >>, UNCHANGED <<files, saved>>,
           log' = Append(log, Oldest.event),
           acceptedAt' = [acceptedAt EXCEPT ![Oldest.event] = Oldest.at],
           step = "drain"
    PROVE  OrderInv'
<1>1. /\ Oldest \in Record /\ Oldest = files[1] /\ Gone + 1 \in DOMAIN saved
      /\ Oldest = saved[Gone + 1]
  BY HeadRecord
<1>2. PICK e \in Events : e = Oldest.event
  BY <1>1 DEF Record
<1>3. /\ log \in Seq(Events) /\ acceptedAt \in [Events -> Nat]
      /\ files \in Seq(Record) /\ saved \in Seq(Record)
      /\ FilesAreLast /\ FromSpool /\ SpoolOrder
      /\ \A i, j \in DOMAIN saved : saved[i].event = saved[j].event => i = j
  BY DEF SpoolInv, TypeOK, LogType, FreshInv, SpoolTypeOK, FreshRecords, OrderInv
<1>4. /\ Len(log) \in Nat /\ DOMAIN log = 1..Len(log)
      /\ DOMAIN log' = 1..(Len(log) + 1) /\ log'[Len(log) + 1] = e
      /\ \A n \in DOMAIN log : log'[n] = log[n]
      /\ Len(saved) \in Nat /\ Len(files) \in Nat
      /\ DOMAIN saved = 1..Len(saved) /\ DOMAIN files = 1..Len(files)
      /\ Len(files) <= Len(saved)
  BY <1>2, <1>3 DEF FilesAreLast
<1>5. Gone' = Gone /\ Gone \in Nat
  BY <1>4 DEF Gone
<1>6. /\ InLog(e, log')
      /\ \A x : InLog(x, log) => InLog(x, log')
      /\ \A x : InLog(x, log') => InLog(x, log) \/ x = e
  <2>1. Len(log) + 1 \in DOMAIN log' /\ \A n \in DOMAIN log : n \in DOMAIN log'
    BY <1>4
  <2>2. \A n \in DOMAIN log' : n \in DOMAIN log \/ n = Len(log) + 1
    BY <1>4
  <2>3. /\ log'[Len(log) + 1] = e
        /\ \A n \in DOMAIN log : log'[n] = log[n]
    BY <1>4
  <2> QED BY <2>1, <2>2, <2>3 DEF InLog
<1>7. \A i \in DOMAIN saved : saved[i].event \in Events
  <2>1. \A i \in DOMAIN saved : saved[i] \in Record
    BY <1>3
  <2> QED BY <2>1 DEF Record
<1>8. FilesAreLast'
  <2>1. \A i \in 1..Gone : InLog(saved[i].event, log')
    BY <1>3, <1>4, <1>5, <1>6, <1>7 DEF FilesAreLast, Gone
  <2>2. \A i \in (Gone + 2)..Len(saved) :
          /\ i \in DOMAIN saved /\ i # Gone + 1
          /\ saved[i].event # e /\ ~InLog(saved[i].event, log)
    <3>1. \A i \in (Gone + 2)..Len(saved) : i \in DOMAIN saved /\ i # Gone + 1
      BY <1>4, <1>5
    <3>2. \A i \in (Gone + 2)..Len(saved) : saved[i].event # e
      BY <1>1, <1>2, <1>3, <3>1
    <3>3. \A i \in (Gone + 2)..Len(saved) : ~InLog(saved[i].event, log)
      BY <1>3 DEF FilesAreLast
    <3> QED BY <3>1, <3>2, <3>3
  <2>3. \A i \in (Gone + 2)..Len(saved) : ~InLog(saved[i].event, log')
    BY <1>6, <1>7, <2>2
  <2>4. InLog(files[1].event, log')
    BY <1>1, <1>2, <1>6
  <2> QED BY <1>3, <1>5, <2>1, <2>3, <2>4 DEF FilesAreLast
<1>9. FromSpool'
  <2>1. saved[Gone + 1].event = e /\ saved[Gone + 1].at = Oldest.at
    BY <1>1, <1>2
  <2>2. \A n \in DOMAIN log' : \E i \in DOMAIN saved : saved[i].event = log'[n]
    <3>1. ASSUME NEW n \in DOMAIN log'
          PROVE  \E i \in DOMAIN saved : saved[i].event = log'[n]
      <4>1. CASE n \in DOMAIN log
        BY <1>3, <1>4, <4>1 DEF FromSpool
      <4>2. CASE n = Len(log) + 1
        BY <1>1, <1>4, <2>1, <4>2
      <4> QED BY <1>4, <4>1, <4>2
    <3> QED BY <3>1
  <2>3. /\ acceptedAt'[e] = Oldest.at
        /\ \A x \in Events : x # e => acceptedAt'[x] = acceptedAt[x]
    BY <1>2, <1>3
  <2>4. \A x \in Events : acceptedAt'[x] # Null =>
          \E i \in DOMAIN saved : /\ saved[i].event = x
                                  /\ saved[i].at = acceptedAt'[x]
    <3>1. \A x \in Events : acceptedAt[x] # Null =>
            \E i \in DOMAIN saved : /\ saved[i].event = x
                                    /\ saved[i].at = acceptedAt[x]
      BY <1>3 DEF FromSpool
    <3>2. Gone + 1 \in DOMAIN saved
      BY <1>1
    <3> QED BY ONLY <2>1, <2>3, <3>1, <3>2
  <2> QED BY <2>2, <2>4 DEF FromSpool
<1>10. SpoolOrder'
  <2> SUFFICES ASSUME NEW i \in DOMAIN saved, NEW j \in DOMAIN saved,
                      NEW n \in DOMAIN log', i < j, log'[n] = saved[j].event
               PROVE  \E m \in 1..(n - 1) : log'[m] = saved[i].event
    BY DEF SpoolOrder
  <2>1. CASE n \in DOMAIN log
    <3>1. PICK m \in 1..(n - 1) : log[m] = saved[i].event
      BY <1>3, <1>4, <2>1 DEF SpoolOrder
    <3> QED BY <1>4, <2>1, <3>1
  <2>2. CASE n = Len(log) + 1
    <3>1. j = Gone + 1
      BY <1>1, <1>2, <1>3, <1>4, <2>2
    <3>2. InLog(saved[i].event, log)
      <4>1. \A k \in 1..Gone : InLog(saved[k].event, log)
        BY <1>3 DEF FilesAreLast
      <4>2. i \in 1..Len(saved) /\ i < j
        BY <1>4
      <4>3. i \in 1..Gone
        BY ONLY <1>4, <1>5, <3>1, <4>2
      <4> QED BY ONLY <4>1, <4>3
    <3>3. PICK m \in DOMAIN log : log[m] = saved[i].event
      BY <3>2 DEF InLog
    <3> QED BY <1>4, <2>2, <3>3
  <2> QED BY <1>4, <2>1, <2>2
<1> QED BY <1>8, <1>9, <1>10 DEF OrderInv

\* The first file is removed once the journal has its record.
LEMMA OrderRemove ==
    ASSUME SpoolInv, step = "remove", files' = Tail(files),
           UNCHANGED <<saved, log, acceptedAt>>, step' # "remove"
    PROVE  OrderInv'
<1>1. /\ files # << >> /\ InLog(files[1].event, log)
      /\ FilesAreLast /\ FromSpool /\ SpoolOrder
      /\ files \in Seq(Record) /\ saved \in Seq(Record)
  BY DEF SpoolInv, FreshInv, SpoolTypeOK, OrderInv, FilesAreLast
<1>2. /\ Len(saved) \in Nat /\ Len(files) \in Nat /\ Len(files) >= 1
      /\ DOMAIN saved = 1..Len(saved) /\ DOMAIN files = 1..Len(files)
      /\ Len(files') = Len(files) - 1 /\ DOMAIN files' = 1..(Len(files) - 1)
      /\ \A k \in 1..(Len(files) - 1) : files'[k] = files[k + 1]
      /\ Len(files) <= Len(saved)
  <2>1. /\ Tail(files) \in Seq(Record) /\ Len(Tail(files)) = Len(files) - 1
        /\ \A k \in 1..Len(Tail(files)) : Tail(files)[k] = files[k + 1]
    BY <1>1
  <2>2. Len(files) <= Len(saved)
    BY <1>1 DEF FilesAreLast
  <2> QED BY <1>1, <2>1, <2>2
<1>3. Gone' = Gone + 1 /\ Gone \in Nat
  <2>1. Gone' = Len(saved) - Len(files')
    BY DEF Gone
  <2> QED BY ONLY <1>2, <2>1 DEF Gone
<1>4. files[1] = saved[Gone + 1]
  BY <1>1, <1>2 DEF FilesAreLast
<1>5. log' = log
  OBVIOUS
<1>6. FilesAreLast'
  <2>1. \A k \in DOMAIN files' : files'[k] = saved[Gone + 1 + k]
    <3>1. ASSUME NEW k \in DOMAIN files' PROVE files'[k] = saved[Gone + 1 + k]
      <4>1. k + 1 \in DOMAIN files /\ files'[k] = files[k + 1]
            /\ Gone + (k + 1) = Gone + 1 + k
        BY <1>2, <1>3
      <4> QED BY <1>1, <4>1 DEF FilesAreLast
    <3> QED BY <3>1
  <2>2. \A i \in 1..(Gone + 1) : InLog(saved[i].event, log')
    BY <1>1, <1>3, <1>4, <1>5 DEF FilesAreLast
  <2>3. \A i \in (Gone + 3)..Len(saved) : ~InLog(saved[i].event, log')
    BY <1>1, <1>2, <1>3, <1>5 DEF FilesAreLast
  <2>4. Len(files') <= Len(saved)
    BY <1>2
  <2>5. Gone' + 2 = Gone + 3
    BY <1>3
  <2> QED BY <1>3, <2>1, <2>2, <2>3, <2>4, <2>5 DEF FilesAreLast
<1>7. FromSpool' /\ SpoolOrder'
  <2>1. saved' = saved /\ log' = log /\ acceptedAt' = acceptedAt
    OBVIOUS
  <2>2. FromSpool'
    BY ONLY <1>1, <2>1 DEF FromSpool
  <2>3. SpoolOrder'
    BY ONLY <1>1, <2>1 DEF SpoolOrder
  <2> QED BY <2>2, <2>3
<1> QED BY <1>6, <1>7 DEF OrderInv

\* Every step keeps the order.
LEMMA OrderStep == SpoolInv /\ [SpoolNext]_svars => OrderInv'
<1> SUFFICES ASSUME SpoolInv, [SpoolNext]_svars PROVE OrderInv'
  OBVIOUS
<1>1. OrderInv /\ SpoolTypeOK /\ GrantsType
  BY DEF SpoolInv, FreshInv, TypeOK
<1>2. ASSUME OthersNext \/ UNCHANGED svars PROVE OrderInv'
  <2>1. UNCHANGED <<log, acceptedAt, files, saved, step>>
    BY <1>1, <1>2, OthersStep DEF OthersNext
  <2> QED BY <1>1, <2>1, OrderFrame
<1>3. ASSUME SessionNext \/ SaveNext \/ LoopNext \/ Crash PROVE OrderInv'
  <2>1. UNCHANGED <<log, acceptedAt>>
    BY <1>1, <1>3, CallStep
  <2>2. CASE SaveRename \/ SaveBreaks
    <3>1. \/ UNCHANGED <<files, saved>>
          \/ \E r \in pending : files' = Append(files, r) /\ saved' = Append(saved, r)
      BY Zenon, <2>2 DEF SaveRename, SaveBreaks, Rename
    <3>2. step' \in {"idle", "drain"}
      BY <2>2 DEF SaveRename, SaveBreaks, Return
    <3> QED BY <1>1, <2>1, <3>1, <3>2, OrderFrame, OrderRename
  <2>3. CASE SessionNext
    <3>1. UNCHANGED <<files, saved, step>>
      BY Zenon, <2>3 DEF SessionNext, BeginAcquire, Acquired, AcquireFailed,
                  BeginRenew, Renewed, RenewFailed, ExtendDeadline,
                  ReportBacklog, Disconnect, Release, CloseConnection,
                  ReadLoopEnds
    <3> QED BY <1>1, <2>1, <3>1, OrderFrame
  <2>4. CASE LoopNext \/ Crash
    <3>1. UNCHANGED <<files, saved>> /\ (step' \in {"idle", "drain"} \/ step' = step)
      BY <2>4 DEF LoopNext, LoopStart, LoopEnd, LoopDispatch, Crash
    <3> QED BY <1>1, <2>1, <3>1, OrderFrame
  <2>5. CASE SaveNext /\ ~(SaveRename \/ SaveBreaks)
    <3>1. UNCHANGED <<files, saved>> /\ (step' \in {"write", "rename"} \/ step' = step)
      BY Zenon, <2>5 DEF SaveNext, Observe, SaveStart, SinkFails, SaveWrite
    <3> QED BY <1>1, <2>1, <3>1, OrderFrame
  <2> QED BY <1>3, <2>2, <2>3, <2>4, <2>5
<1>4. CASE DrainNext
  <2>1. CASE DrainRemove \/ DrainBreaks
    <3>1. /\ step = "remove" /\ UNCHANGED <<saved, log, acceptedAt>>
          /\ files' = files \/ files' = Tail(files)
      BY Zenon, <2>1 DEF DrainRemove, DrainBreaks
    <3>2. step' # "remove"
      BY <2>1 DEF DrainRemove, DrainBreaks, Return
    <3> QED BY <1>1, <3>1, <3>2, OrderFrame, OrderRemove
  <2>2. CASE DrainAppend
    <3>1. UNCHANGED <<files, saved>> /\ files # << >> /\ step = "drain"
      BY <2>2 DEF DrainAppend
    <3>2. ASSUME NEW host \in HostClocks, Outcome(Oldest, host) = "replayed",
                 UNCHANGED vars
          PROVE  OrderInv'
      <4>1. Oldest.event \in DOMAIN donations
        BY Zenon, <3>2 DEF Outcome, AppendOutcome
      <4>2. InLog(Oldest.event, log)
        BY <4>1 DEF InLog, SpoolInv, StoreInv, EventOnce
      <4>3. Oldest = files[1]
        BY <3>1, HeadRecord
      <4>4. UNCHANGED <<files, saved, log, acceptedAt>>
        BY <3>1, <3>2
      <4> QED BY <1>1, <3>1, <4>2, <4>3, <4>4, OrderFrame
    <3>3. ASSUME NEW host \in HostClocks, AppendRecord(Oldest, host)
          PROVE  OrderInv'
      BY <3>1, <3>3, OrderAppend DEF AppendRecord, AppendDonation
    <3> QED BY <2>2, <3>2, <3>3 DEF DrainAppend
  <2>3. CASE DrainUnavailable \/ DrainRefused \/ DrainTimedOut \/ DrainDone
    <3>1. UNCHANGED <<files, saved>> /\ step' = "idle"
      BY <2>3 DEF DrainUnavailable, DrainRefused, DrainTimedOut, DrainDone, Return
    <3> QED BY <1>1, <1>4, <3>1, DrainStep, OrderFrame, OrderAppend
  <2> QED BY <1>4, <2>1, <2>2, <2>3 DEF DrainNext
<1> QED BY <1>2, <1>3, <1>4 DEF SpoolNext

=============================================================================
