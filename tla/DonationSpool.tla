--------------------------- MODULE DonationSpool ---------------------------
(***************************************************************************)
(* Durable acceptance of donations by one worker, on top of the journal:   *)
(* the disk spool (worker/internal/pipeline/spool.go), the collection      *)
(* session that holds a grant (worker/internal/collection.go), the         *)
(* donation path of the SOOP connector and the worker's drain loop.        *)
(*                                                                         *)
(* Every call to the database may fail without effect, or take effect and  *)
(* lose its reply.  The process may crash between any two steps; files     *)
(* survive.  The spool's mutex is the variable holder, and each step under *)
(* it that touches the disk or the database is an action.                  *)
(*                                                                         *)
(* The manager's table of connections is left out: a session may end and a *)
(* new one begin at any time, which is more than the manager does.         *)
(* Checksums and sizes of single records are left out: no step of the      *)
(* program corrupts a file.  Donations of other workers go through spools  *)
(* of their own and do not touch this one.                                 *)
(*                                                                         *)
(* Three clocks meet here.  Grants are windows of the database's clock,    *)
(* now.  Records carry the host's wall clock, which is off by HostSkew at  *)
(* most and does not go back from one record to the next: names sort by    *)
(* it, so the .json files are a sequence in the order of acceptance.  Local*)
(* deadlines are the host's monotonic clock: only durations are measured on*)
(* it, and they are taken to be durations of the database's clock.         *)
(***************************************************************************)
EXTENDS CollectorJournal

CONSTANTS
    Self,           \* the worker this spool belongs to
    MaxFiles        \* 10000 files (1 GiB): the spool is full

ASSUME SpoolAssumption ==
    /\ Self \in Workers /\ MaxFiles \in Nat /\ Contents # {}
    /\ {"storage_stopped", "storage_delayed", "connected", "connecting"}
         \subseteq RuntimeStates

VARIABLES
    files,      \* the .json files in name order
    pending,    \* the .pending files
    holder,     \* who holds the spool's mutex: Null, DrainLoop or a session
    step,       \* what the holder does next
    loop,       \* the drain loop of the worker process
    dialing,    \* when the outstanding AcquireCollection was sent, or Null
    sessions,   \* collection sessions by their grant token
    observed,   \* history: the events the connectors made so far
    saved,      \* history: every record that became a .json file, in order
    moments     \* history: when, by the database's clock, each of them did

spoolVars == <<files, pending, holder, step, loop>>
sessionVars == <<dialing, sessions>>
spoolHistory == <<observed, saved, moments>>
svars == <<vars, spoolVars, sessionVars, spoolHistory>>

DrainLoop == -1
Content == CHOOSE x \in Contents : TRUE

\* A record keeps the grant and the time under which it was accepted.
Record == [event: Events, token: Nat, generation: Nat, at: Nat]

\* renew and sink are the states of the renewal goroutine and of the donation
\* sink, which runs in the connector's read loop; until is the deadline the
\* sink read before it called Save.
SessionRow == [generation: Nat, deadline: Nat, asked: Nat,
               renew: {"idle", "asked", "granted", "report"},
               conn: {"open", "closing", "closed"},
               end: {"no", "cancelled", "released"},
               sink: {"idle", "waiting", "saving", "failed"},
               event: Events \cup {Null}, until: Nat]

SpoolInit ==
    /\ Init
    /\ files = << >> /\ pending = {} /\ holder = Null /\ step = "idle"
    /\ loop = "idle" /\ dialing = Null /\ sessions = << >>
    /\ observed = {} /\ saved = << >> /\ moments = << >>

\* A call to the database that takes effect, or fails.
Try(A) == A \/ UNCHANGED vars

-----------------------------------------------------------------------------
(* The collection session: acquire, renew, end. *)

BeginAcquire ==
    /\ dialing = Null
    /\ dialing' = now
    /\ UNCHANGED <<vars, spoolVars, sessions, spoolHistory>>

\* The local deadline counts from before the call, so that it cannot outlast
\* the grant, whose time starts inside the call.
Deadline_AfterReply(started) == now + GrantTTL   \* faulty: counts from the reply
Deadline(started) == started + GrantTTL

Acquired ==
    /\ dialing # Null
    /\ AcquireCollection(Self)
    /\ sessions' = With(sessions, issued + 1,
           [generation |-> generation, deadline |-> Deadline(dialing),
            asked |-> Null, renew |-> "idle", conn |-> "open", end |-> "no",
            sink |-> "idle", event |-> Null, until |-> Null])
    /\ dialing' = Null
    /\ UNCHANGED <<spoolVars, spoolHistory>>

AcquireFailed ==
    /\ dialing # Null
    /\ Try(AcquireCollection(Self))
    /\ dialing' = Null
    /\ UNCHANGED <<spoolVars, sessions, spoolHistory>>

BeginRenew(t) ==
    /\ sessions[t].renew = "idle" /\ sessions[t].end = "no"
    /\ sessions' = [sessions EXCEPT ![t].renew = "asked", ![t].asked = now]
    /\ UNCHANGED <<vars, spoolVars, dialing, spoolHistory>>

Renewed(t) ==
    /\ sessions[t].renew = "asked"
    /\ RenewCollection(t)
    /\ sessions' = [sessions EXCEPT ![t].renew = "granted"]
    /\ UNCHANGED <<spoolVars, dialing, spoolHistory>>

\* Refused, failed or cancelled: the session's connection is closed.
RenewFailed(t) ==
    /\ sessions[t].renew = "asked"
    /\ Try(RenewCollection(t))
    /\ sessions' = [sessions EXCEPT
           ![t].renew = "idle",
           ![t].conn = IF @ = "open" THEN "closing" ELSE @,
           ![t].end = IF @ = "no" THEN "cancelled" ELSE @]
    /\ UNCHANGED <<spoolVars, dialing, spoolHistory>>

ExtendDeadline(t) ==
    /\ sessions[t].renew = "granted"
    /\ sessions' = [sessions EXCEPT ![t].renew = "report",
                                    ![t].deadline = Deadline(sessions[t].asked)]
    /\ UNCHANGED <<vars, spoolVars, dialing, spoolHistory>>

\* The backlog is read under the spool's mutex.
BacklogState(t) ==
    IF pending # {} THEN "storage_stopped"
    ELSE IF files # << >> THEN "storage_delayed"
    ELSE IF sessions[t].conn = "open" THEN "connected" ELSE "connecting"

ReportBacklog(t) ==
    /\ sessions[t].renew = "report"
    /\ holder = Null
    /\ Try(CollectionHeartbeat(t, BacklogState(t)))
    /\ sessions' = [sessions EXCEPT ![t].renew = "idle"]
    /\ UNCHANGED <<spoolVars, dialing, spoolHistory>>

\* The manager ends a session: on a command, an error of the connection, a
\* failed dial or shutdown.  It cancels it, gives the grant back, and only
\* then closes the connection.
Disconnect(t) ==
    /\ sessions[t].end = "no"
    /\ sessions' = [sessions EXCEPT ![t].end = "cancelled"]
    /\ UNCHANGED <<vars, spoolVars, dialing, spoolHistory>>

Release(t) ==
    /\ sessions[t].end = "cancelled"
    /\ Try(ReleaseCollection(t))
    /\ sessions' = [sessions EXCEPT ![t].end = "released"]
    /\ UNCHANGED <<spoolVars, dialing, spoolHistory>>

CloseConnection(t) ==
    /\ sessions[t].end = "released" /\ sessions[t].conn = "open"
    /\ sessions' = [sessions EXCEPT ![t].conn = "closing"]
    /\ UNCHANGED <<vars, spoolVars, dialing, spoolHistory>>

\* The read loop ends once the packets of the frame in hand are handled.
ReadLoopEnds(t) ==
    /\ sessions[t].conn = "closing" /\ sessions[t].sink = "idle"
    /\ sessions' = [sessions EXCEPT ![t].conn = "closed"]
    /\ UNCHANGED <<vars, spoolVars, dialing, spoolHistory>>

-----------------------------------------------------------------------------
(* The donation sink and Save. *)

\* A donation arrives; the sink reads the session's deadline and calls Save,
\* or refuses at once when the deadline has passed.
Observe(t, e) ==
    /\ sessions[t].conn # "closed" /\ sessions[t].sink = "idle"
    /\ e \notin observed
    /\ observed' = observed \cup {e}
    /\ IF now < sessions[t].deadline
       THEN sessions' = [sessions EXCEPT ![t].sink = "waiting", ![t].event = e,
                                         ![t].until = sessions[t].deadline]
       ELSE sessions' = [sessions EXCEPT ![t].conn = "closing"]
    /\ UNCHANGED <<vars, spoolVars, dialing, saved, moments>>

Authorized(t) == now < sessions[t].until
Full == Len(files) >= MaxFiles

\* Save takes the mutex, or returns early.
SaveStart(t) ==
    /\ sessions[t].sink = "waiting" /\ holder = Null
    /\ IF Authorized(t) /\ pending = {} /\ ~Full
       THEN /\ holder' = t /\ step' = "write"
            /\ sessions' = [sessions EXCEPT ![t].sink = "saving"]
       ELSE /\ sessions' = [sessions EXCEPT ![t].sink = "failed"]
            /\ UNCHANGED <<holder, step>>
    /\ UNCHANGED <<vars, files, pending, loop, dialing, spoolHistory>>

\* What the host's wall clock may show when a record is accepted.
WallClock == {h \in HostClocks : /\ h > 0
                                 /\ \A i \in DOMAIN saved : saved[i].at <= h}

\* The acceptance time is taken and the .pending file written and fsynced.
SaveWrite ==
    /\ step = "write"
    /\ \E at \in WallClock :
         pending' = {[event |-> sessions[holder].event, token |-> holder,
                      generation |-> sessions[holder].generation, at |-> at]}
    /\ step' = "rename"
    /\ UNCHANGED <<vars, files, holder, loop, sessionVars, spoolHistory>>

\* Returning from Save or Drain gives the mutex back.
Return_ErrorKeepsMutex(failed) ==   \* faulty: unlocks on success, not by defer
    /\ holder' = (IF failed THEN holder ELSE Null)
    /\ step' = (IF failed THEN step ELSE "idle")
    /\ IF holder = DrainLoop
       THEN /\ loop' = IF failed THEN "failed" ELSE "dispatch"
            /\ UNCHANGED sessions
       ELSE /\ sessions' = [sessions EXCEPT
                   ![holder].sink = IF failed THEN "failed" ELSE "idle"]
            /\ UNCHANGED loop
Return(failed) ==
    /\ holder' = Null /\ step' = "idle"
    /\ IF holder = DrainLoop
       THEN /\ loop' = IF failed THEN "failed" ELSE "dispatch"
            /\ UNCHANGED sessions
       ELSE /\ sessions' = [sessions EXCEPT
                   ![holder].sink = IF failed THEN "failed" ELSE "idle"]
            /\ UNCHANGED loop

\* The record counts once its file has its final name.
Rename ==
    /\ \E r \in pending : files' = Append(files, r) /\ saved' = Append(saved, r)
    /\ pending' = {}
    /\ moments' = Append(moments, now)

\* The deadline is checked again before the rename.  The fsync of the
\* directory matters to a power failure only, and a crash is the process's.
SaveRename ==
    /\ step = "rename"
    /\ IF Authorized(holder)
       THEN /\ Rename
            /\ step' = "drain"
            /\ UNCHANGED <<holder, loop, sessions>>
       ELSE Return(TRUE) /\ UNCHANGED <<files, pending, saved, moments>>
    /\ UNCHANGED <<vars, dialing, observed>>

\* The .pending file cannot be made, or a write, fsync or rename fails and
\* leaves it, or the record is renamed and the fsync of the directory fails.
SaveBreaks ==
    /\ step \in {"write", "rename"}
    /\ Return(TRUE)
    /\ \/ UNCHANGED <<files, pending, saved, moments>>
       \/ Authorized(holder) /\ Rename
    /\ UNCHANGED <<vars, dialing, observed>>

\* The sink reports the failure, then the connector closes its connection.
SinkFails(t) ==
    /\ sessions[t].sink = "failed"
    /\ Try(SetCollectionState("storage_stopped"))
    /\ sessions' = [sessions EXCEPT
           ![t].sink = "idle", ![t].conn = IF @ = "open" THEN "closing" ELSE @]
    /\ UNCHANGED <<spoolVars, dialing, spoolHistory>>

-----------------------------------------------------------------------------
(* Draining the files into the journal, in Save and in the drain loop. *)

\* Files are taken in the order of their names.
Oldest_Last == files[Len(files)]   \* faulty: the newest record goes first
Oldest == Head(files)

\* What the journal answers while the host's clock shows host.
Outcome(r, host) ==
    AppendOutcome(r.event, Content, r.token, r.generation, r.at, host)
AppendRecord(r, host) ==
    AppendDonation(r.event, Content, r.token, r.generation, r.at, host)
Refused(r, answers) == \E host \in HostClocks : Outcome(r, host) \in answers
Refusals == {"cursor expired", "generation", "conflict", "disabled", "owner"}

\* The journal has the head record, and says so.
DrainAppend ==
    /\ step = "drain" /\ files # << >>
    /\ \E host \in HostClocks :
         \/ AppendRecord(Oldest, host)
         \/ Outcome(Oldest, host) = "replayed" /\ UNCHANGED vars
    /\ step' = "remove"
    /\ UNCHANGED <<files, pending, holder, loop, sessionVars, spoolHistory>>

\* The journal is down or full, or its reply was lost: the file stays.  For
\* Save that is a success, the donation being on disk.
DrainUnavailable ==
    /\ step = "drain" /\ files # << >>
    /\ \E host \in HostClocks : Try(AppendRecord(Oldest, host))
    /\ Return(holder = DrainLoop)
    /\ UNCHANGED <<files, pending, dialing, spoolHistory>>

\* The journal refuses the head record: draining stops there.
DrainRefused_Skips ==   \* faulty: the record is dropped, the next one is tried
    /\ step = "drain" /\ files # << >>
    /\ Refused(Oldest, Refusals)
    /\ files' = Tail(files)
    /\ UNCHANGED <<vars, pending, holder, step, loop, sessionVars, spoolHistory>>
DrainRefused ==
    /\ step = "drain" /\ files # << >>
    /\ Refused(Oldest, Refusals)
    /\ Return(TRUE)
    /\ UNCHANGED <<vars, files, pending, dialing, spoolHistory>>

\* The caller's 3 seconds are over, or the file cannot be read.
DrainTimedOut ==
    /\ step = "drain" /\ files # << >>
    /\ Return(TRUE)
    /\ UNCHANGED <<vars, files, pending, dialing, spoolHistory>>

DrainRemove ==
    /\ step = "remove"
    /\ files' = Tail(files) /\ step' = "drain"
    /\ UNCHANGED <<vars, pending, holder, loop, sessionVars, spoolHistory>>

\* The file cannot be removed, or the directory not be synced.
DrainBreaks ==
    /\ step = "remove"
    /\ files' \in {files, Tail(files)}
    /\ Return(TRUE)
    /\ UNCHANGED <<vars, pending, dialing, spoolHistory>>

DrainDone ==
    /\ step = "drain" /\ files = << >>
    /\ Return(FALSE)
    /\ UNCHANGED <<vars, files, pending, dialing, spoolHistory>>

\* The drain loop, every 2 seconds.
LoopStart ==
    /\ loop = "idle" /\ holder = Null
    /\ IF pending = {}
       THEN holder' = DrainLoop /\ step' = "drain" /\ UNCHANGED loop
       ELSE loop' = "failed" /\ UNCHANGED <<holder, step>>
    /\ UNCHANGED <<vars, files, pending, sessionVars, spoolHistory>>

LoopDispatch(e) ==
    /\ loop \in {"dispatch", "failed"}
    /\ DispatchDonationOutbox(e)
    /\ UNCHANGED <<spoolVars, sessionVars, spoolHistory>>

LoopEnd_Once ==   \* faulty: a pass that failed is the loop's last
    /\ loop = "dispatch" /\ loop' = "idle"
    /\ UNCHANGED <<vars, files, pending, holder, step, sessionVars, spoolHistory>>
LoopEnd ==
    /\ loop \in {"dispatch", "failed"}
    /\ IF loop = "failed" THEN Try(SetCollectionState("storage_delayed"))
                          ELSE UNCHANGED vars
    /\ loop' = "idle"
    /\ UNCHANGED <<files, pending, holder, step, sessionVars, spoolHistory>>

\* The process dies and is started again; what is on disk stays.
Crash ==
    /\ holder' = Null /\ step' = "idle" /\ loop' = "idle"
    /\ dialing' = Null /\ sessions' = << >>
    /\ UNCHANGED <<vars, files, pending, spoolHistory>>

-----------------------------------------------------------------------------
SessionNext ==
    \/ BeginAcquire \/ Acquired \/ AcquireFailed
    \/ \E t \in DOMAIN sessions :
         \/ BeginRenew(t) \/ Renewed(t) \/ RenewFailed(t) \/ ExtendDeadline(t)
         \/ ReportBacklog(t) \/ Disconnect(t) \/ Release(t)
         \/ CloseConnection(t) \/ ReadLoopEnds(t)

SaveNext ==
    \/ \E t \in DOMAIN sessions :
         \/ \E e \in Events : Observe(t, e)
         \/ SaveStart(t) \/ SinkFails(t)
    \/ SaveWrite \/ SaveRename \/ SaveBreaks

DrainNext ==
    \/ DrainAppend \/ DrainUnavailable \/ DrainRefused \/ DrainTimedOut
    \/ DrainRemove \/ DrainBreaks \/ DrainDone

LoopNext ==
    \/ LoopStart \/ LoopEnd \/ \E e \in Events : LoopDispatch(e)

\* Everybody else who uses the journal: other workers, consumers, operators,
\* the coordinator, maintenance.
OthersNext ==
    /\ \/ \E w \in Workers \ {Self} : AcquireCollection(w)
       \/ \E t \in DOMAIN grants :
            /\ grants[t].worker # Self
            /\ RenewCollection(t) \/ ReleaseCollection(t)
       \/ RuntimeNext \/ ReadNext \/ RecoveryNext \/ SubscriptionNext
       \/ MaintenanceNext \/ EnvironmentNext
    /\ UNCHANGED <<spoolVars, sessionVars, spoolHistory>>

SpoolNext == SessionNext \/ SaveNext \/ DrainNext \/ LoopNext \/ Crash
             \/ OthersNext

SpoolSpec == SpoolInit /\ [][SpoolNext]_svars

\* The drain loop runs every 2 seconds, whoever holds the mutex goes on, and
\* the database answers again and again.
SpoolFairness ==
    /\ SF_svars(LoopStart) /\ WF_svars(LoopEnd)
    /\ WF_svars(SaveWrite \/ SaveRename \/ DrainNext)
    /\ SF_svars(DrainAppend) /\ SF_svars(DrainRemove)

-----------------------------------------------------------------------------
(* Properties. *)

Journaled(e) == \E i \in DOMAIN log : log[i] = e

\* A sink that is saving holds the mutex, no other session does, and nothing is
\* in progress while it is free.
MutexHeld ==
    /\ holder = Null <=> step = "idle"
    /\ \A t \in DOMAIN sessions : sessions[t].sink = "saving" <=> holder = t

\* The spool's state has its types, and its mutex is held exactly by the sink
\* that is saving or by the drain loop: every return of Save and Drain gives it
\* back, and nobody works on the files without it.
SpoolTypeOK ==
    /\ files \in Seq(Record) /\ saved \in Seq(Record)
    /\ pending \subseteq Record
    /\ holder \in {Null, DrainLoop} \cup DOMAIN sessions
    /\ step \in {"idle", "write", "rename", "drain", "remove"}
    /\ loop \in {"idle", "dispatch", "failed"}
    /\ dialing \in Nat
    /\ DOMAIN sessions \subseteq 1..issued
    /\ sessions \in [DOMAIN sessions -> SessionRow]
    /\ observed \subseteq Events
    /\ moments \in Seq(Nat) /\ Len(moments) = Len(saved)
    /\ MutexHeld

\* A donation that became durable is in the journal or still on disk, through
\* crashes, lost replies and journal refusals: nothing is removed unjournaled.
NothingLost ==
    \A i \in DOMAIN saved :
        \/ Journaled(saved[i].event)
        \/ \E k \in DOMAIN files : files[k] = saved[i]

\* The journal takes a worker's donations in the order of acceptance: none
\* overtakes an earlier one, whichever of Save and the drain loop moves it.
SpoolOrder ==
    \A i, j \in DOMAIN saved : \A n \in DOMAIN log :
        i < j /\ log[n] = saved[j].event =>
            \E m \in 1..(n - 1) : log[m] = saved[i].event

\* What a worker accepts on its own authority it accepts within its grant as
\* the database has it: the local deadline never outlasts the lease, not even
\* when a write, a call or its reply is slow.  The time written into the record
\* is the host's, so it is in the grant's window up to the skew of the clocks.
LocalAuthority ==
    \A i \in DOMAIN saved : LET r == saved[i] IN
        r.token \in DOMAIN grants =>
            /\ r.generation = grants[r.token].generation
            /\ grants[r.token].granted <= moments[i]
            /\ moments[i] < grants[r.token].until
            /\ grants[r.token].granted <= r.at + HostSkew
            /\ r.at < grants[r.token].until + HostSkew

\* The spool cannot move on its own: an incomplete record was left behind, or
\* the journal refuses the first one.
Blocked == \/ pending # {}
           \/ /\ files # << >>
              /\ Refused(Oldest, Refusals \cup {"full", "exhausted"})

\* Unless it is blocked, the spool delivers: a durable donation is eventually
\* journaled once the database answers, across crashes.
SpoolDelivers ==
    \A e \in Events :
        (\E i \in DOMAIN saved : saved[i].event = e) ~> (Journaled(e) \/ Blocked)

\* "The current owner is checked where a donation is accepted": every record
\* accepted into the spool lies in the window of a grant that was not closed.
AcceptedByOwner ==
    \A i \in DOMAIN saved : LET r == saved[i] IN
        r.token \in DOMAIN grants => GrantCovers(r.token, r.generation, r.at)

=============================================================================
