-------------------------- MODULE CollectorJournal --------------------------
(***************************************************************************)
(* The PostgreSQL side of donation delivery for the one product channel:   *)
(* ownership grants, the donation journal and its outbox, consumer         *)
(* cursors, recovery decisions, retention and journal rotation             *)
(* (shared/store/collector.go, collector_consumer.go,                      *)
(* collector_maintenance.go).                                              *)
(*                                                                         *)
(* Every operation of the store is one transaction that locks the channel  *)
(* row (or one statement), so it is one atomic action here.  A call that   *)
(* returns an error rolls back and changes nothing: it is a stutter.       *)
(*                                                                         *)
(* A table is a partial function from its primary key to its rows.         *)
(* Tokens, times and ACK offsets start at 1, so that 0 is SQL's NULL.      *)
(* UUIDs (grant tokens, generations) are fresh, hence counters.            *)
(* Every payload has size 1.  state_at, last_received_at and the contents  *)
(* that are only displayed are left out.                                   *)
(***************************************************************************)
EXTENDS Integers, Sequences, FiniteSets

CONSTANTS
    Events,         \* event ids of observed donations
    Contents,       \* what a replayed observation is compared on
    Workers,        \* worker ids that may own the channel
    Consumers,      \* consumer ids
    Keys,           \* idempotency keys
    RuntimeStates,  \* the states written by heartbeats and other processes
    GrantTTL,       \* 30 seconds
    AcceptSkew,     \* 1 second: an acceptance this far in the future is valid
    HostSkew,       \* how far a host's clock is off the database's
    MinAge,         \* 7 days: payloads younger than this are kept
    MaxAge,         \* 30 days: payloads older than this are dropped
    ReplayAge,      \* 30 days: spool records older than this are refused
    TombAge,        \* 90 days: age at which bookkeeping rows are deleted
    PayloadLimit,   \* 1 GiB of payloads: the journal is full
    SoftLimit,      \* 1 GiB - 1 MiB: retention drops payloads regardless of ACKs
    ExpireBatch,    \* 500: rows one retention pass looks at
    ReadLimit,      \* 500: the largest page of a read
    MaxRanges,      \* 100: loss ranges one recovery decision may carry
    MaxUint64,      \* the last offset and the last revision
    MaxTime, MaxGrants, MaxGeneration   \* bounds of the model

NoWorker == "none"

ASSUME SetsAssumption == NoWorker \notin Workers /\ IsFiniteSet(Events)
ASSUME TimesAssumption ==
    /\ GrantTTL \in Nat \ {0} /\ AcceptSkew \in Nat /\ HostSkew \in Nat
    /\ MinAge \in Nat /\ MaxAge \in Nat /\ MinAge <= MaxAge
    /\ ReplayAge \in Nat /\ TombAge \in Nat
    \* tombstones outlive the maximum spool replay age
    /\ ReplayAge + AcceptSkew + HostSkew <= TombAge
ASSUME LimitsAssumption ==
    /\ PayloadLimit \in Nat /\ SoftLimit \in Nat /\ SoftLimit <= PayloadLimit
    /\ ExpireBatch \in Nat /\ ReadLimit \in Nat /\ MaxRanges \in Nat
    /\ MaxUint64 \in Nat /\ MaxTime \in Nat /\ MaxGrants \in Nat
    /\ MaxGeneration \in Nat

VARIABLES
    now,            \* the database clock
    assigned,       \* live_channels: the worker the live channel is assigned to
    optedOut,       \* collection_opt_outs: an active row for the channel
    generation, current, expired, subscribed, ownerToken, runtime,
                    \* collector_channels: the channel's row
    issued,         \* number of grant tokens handed out so far
    grants,         \* collector_owner_grants
    donations,      \* collector_donations
    outbox,         \* collector_outbox
    consumers,      \* collector_consumers
    requests,       \* collector_requests: creation time by (consumer, op, key)
    log,            \* history: the events journaled, in offset order
    acceptedAt,     \* history: the acceptance time of each journaled event
    seen,           \* history: offsets returned to each consumer
    waived,         \* history: offsets each consumer was excused from
    forced          \* history: offsets whose payload was dropped by a hard limit

channelVars == <<generation, current, expired, subscribed, ownerToken, runtime>>
grantVars   == <<issued, grants>>
journalVars == <<donations, outbox>>
historyVars == <<log, acceptedAt, seen, waived, forced>>
envVars     == <<now, assigned, optedOut>>
vars == <<envVars, channelVars, grantVars, journalVars, consumers, requests,
          historyVars>>

Null == 0

GrantRow == [worker: Workers, generation: Nat, granted: Nat, until: Nat,
             closed: Nat]
DonationRow == [offset: Nat, generation: Nat, content: Contents, stored: Nat,
                payload: BOOLEAN]
ConsumerRow == [generation: Nat, baseline: Nat, offered: Nat, ack: Nat,
                revision: Nat]
LossRange == {r \in [start: 0..MaxUint64, end: 0..MaxUint64] : r.start <= r.end}
Operations == {"subscription", "recovery"}

\* A table with one row inserted or replaced, and without the rows outside keep.
With(table, key, row) ==
    [k \in DOMAIN table \cup {key} |-> IF k = key THEN row ELSE table[k]]
Only(table, keep) == [k \in DOMAIN table \cap keep |-> table[k]]

\* The channel as EnsureCollection inserts it.
Init ==
    /\ now = 1 /\ assigned = NoWorker /\ optedOut = FALSE
    /\ generation = 1 /\ current = 0 /\ expired = 0
    /\ subscribed = TRUE /\ ownerToken = Null /\ runtime = "waiting"
    /\ issued = 0 /\ grants = << >>
    /\ donations = << >> /\ outbox = {}
    /\ consumers = << >> /\ requests = << >>
    /\ log = << >>
    /\ acceptedAt = [e \in Events |-> Null]
    /\ seen = [c \in Consumers |-> {}]
    /\ waived = [c \in Consumers |-> {}]
    /\ forced = {}

-----------------------------------------------------------------------------
(* The environment: time, the coordinator's assignment, operator opt-outs. *)

Tick ==
    /\ now < MaxTime
    /\ now' = now + 1
    /\ UNCHANGED <<assigned, optedOut, channelVars, grantVars, journalVars,
                   consumers, requests, historyVars>>

\* The coordinator assigns the live channel, moves it or takes it away.
SetAssignment(w) ==
    /\ assigned # w
    /\ assigned' = w
    /\ UNCHANGED <<now, optedOut, channelVars, grantVars, journalVars,
                   consumers, requests, historyVars>>

SetOptOut(active) ==
    /\ optedOut # active
    /\ optedOut' = active
    /\ UNCHANGED <<now, assigned, channelVars, grantVars, journalVars,
                   consumers, requests, historyVars>>

HostClocks == (now - HostSkew)..(now + HostSkew)

-----------------------------------------------------------------------------
(* Ownership of the channel. *)

Enabled_Subscription == ~optedOut   \* faulty: the subscription is not looked at
Enabled == subscribed /\ ~optedOut

Open(g) == g.closed = Null /\ g.until > now

\* Closing keeps the first closing time: COALESCE(closed_at, clock_timestamp()).
Close_Again(g) == [g EXCEPT !.closed = now]   \* faulty: no COALESCE
Close(g) == IF g.closed = Null THEN [g EXCEPT !.closed = now] ELSE g

\* The lookup of the owner's grant fails when that row is missing.
AcquireCollection(w) ==
    /\ Enabled
    /\ assigned = w
    /\ ownerToken # Null =>
         ownerToken \in DOMAIN grants /\ ~Open(grants[ownerToken])
    /\ issued < MaxGrants
    /\ issued' = issued + 1
    /\ grants' = With(grants, issued + 1,
                      [worker |-> w, generation |-> generation, granted |-> now,
                       until |-> now + GrantTTL, closed |-> Null])
    /\ ownerToken' = issued + 1
    /\ runtime' = "connecting"
    /\ UNCHANGED <<envVars, generation, current, expired, subscribed,
                   journalVars, consumers, requests, historyVars>>

RenewCollection(t) ==
    /\ ownerToken = t
    /\ Enabled
    /\ t \in DOMAIN grants
    /\ grants[t].generation = generation
    /\ Open(grants[t])
    /\ assigned = grants[t].worker
    /\ grants' = [grants EXCEPT ![t].until = now + GrantTTL]
    /\ UNCHANGED <<envVars, channelVars, issued, journalVars, consumers,
                   requests, historyVars>>

ReleaseCollection(t) ==
    /\ t \in DOMAIN grants
    /\ grants' = [grants EXCEPT ![t] = Close(@)]
    /\ UNCHANGED <<envVars, channelVars, issued, journalVars, consumers,
                   requests, historyVars>>

SetCollectionState(state) ==
    /\ runtime' = state
    /\ UNCHANGED <<envVars, generation, current, expired, subscribed,
                   ownerToken, grantVars, journalVars, consumers, requests,
                   historyVars>>

CollectionHeartbeat(t, state) ==
    /\ ownerToken = t
    /\ SetCollectionState(state)

\* What readers of the channel row see in place of runtime_state.
ReportedState ==
    IF runtime = "connected" /\ ~(/\ ownerToken \in DOMAIN grants
                                  /\ Open(grants[ownerToken]))
    THEN "reconnecting" ELSE runtime

-----------------------------------------------------------------------------
(* The journal. *)

\* A spool record this old is no longer taken over.
TooOld_Never(at, host) == FALSE   \* faulty: no age check
TooOld(at, host) == at < host - ReplayAge

Retained == {e \in DOMAIN donations : donations[e].payload}

\* acceptedAt lies in the grant's recorded window and not in the future.
GrantCovers(t, gen, at) ==
    /\ t \in DOMAIN grants
    /\ grants[t].generation = gen
    /\ grants[t].granted <= at /\ at <= grants[t].until
    /\ grants[t].closed = Null \/ at <= grants[t].closed
    /\ at <= now + AcceptSkew

\* The answer of AppendDonation for an observation of event e accepted at
\* time at under token t of generation gen, on a host whose clock shows host.
AppendOutcome(e, content, t, gen, at, host) ==
    IF TooOld(at, host) THEN "cursor expired"
    ELSE IF gen # generation THEN "generation"
    ELSE IF e \in DOMAIN donations THEN
        IF ~donations[e].payload THEN "cursor expired"
        ELSE IF donations[e].content # content THEN "conflict"
        ELSE "replayed"
    ELSE IF ~Enabled THEN "disabled"
    ELSE IF ~GrantCovers(t, gen, at) THEN "owner"
    ELSE IF current = MaxUint64 THEN "exhausted"
    ELSE IF Cardinality(Retained) + 1 > PayloadLimit THEN "full"
    ELSE "appended"

\* Every other outcome leaves the database as it is.
AppendDonation(e, content, t, gen, at, host) ==
    /\ AppendOutcome(e, content, t, gen, at, host) = "appended"
    /\ donations' = With(donations, e,
                         [offset |-> current + 1, generation |-> generation,
                          content |-> content, stored |-> now,
                          payload |-> TRUE])
    /\ outbox' = outbox \cup {e}
    /\ current' = current + 1
    /\ log' = Append(log, e)
    /\ acceptedAt' = [acceptedAt EXCEPT ![e] = at]
    /\ UNCHANGED <<envVars, generation, expired, subscribed, ownerToken,
                   runtime, grantVars, consumers, requests, seen, waived,
                   forced>>

\* The outbox row is deleted after the channel's notification went out; a
\* failure in between leaves it for the next pass, which takes the oldest first.
DispatchDonationOutbox(e) ==
    /\ e \in outbox
    /\ \A f \in outbox : donations[e].stored <= donations[f].stored
    /\ outbox' = outbox \ {e}
    /\ UNCHANGED <<envVars, channelVars, grantVars, donations, consumers,
                   requests, historyVars>>

-----------------------------------------------------------------------------
(* Consumers. *)

\* COALESCE(ack_offset, baseline): where a consumer has got to.
Position(p) == IF p.ack = Null THEN p.baseline ELSE p.ack

\* The rows a read returns: retained, of the generation, after the cursor.
Readable(gen, after) ==
    {donations[e].offset : e \in {f \in Retained :
        donations[f].generation = gen /\ donations[f].offset > after}}

\* The first limit elements of a set of offsets.
Page(offsets, limit) ==
    {o \in offsets : Cardinality({p \in offsets : p < o}) < limit}

\* A new consumer starts at the beginning of what is retained.
NewConsumer_Before == [generation |-> generation, baseline |-> expired - 1,
                       offered |-> expired, ack |-> Null, revision |-> 0]
NewConsumer == [generation |-> generation, baseline |-> expired,
                offered |-> expired, ack |-> Null, revision |-> 0]
Progress(c) == IF c \in DOMAIN consumers THEN consumers[c] ELSE NewConsumer

\* A read may start anywhere from the baseline to the end of what was offered.
ReadCursor_Ahead(p, after) == p.baseline <= after   \* faulty: may jump ahead
ReadCursor(p, after) == p.baseline <= after /\ after <= p.offered

\* A page with a hole in it is refused like an expired cursor.
ReadDonations(c, gen, after, revision, limit) ==
    LET p == Progress(c)
        page == Page(Readable(gen, after), limit)
        next == after + Cardinality(page)
    IN  /\ gen = generation
        /\ expired <= after /\ after <= current
        /\ p.generation = gen
        /\ p.revision = revision
        /\ ReadCursor(p, after)
        /\ page = (after + 1)..next
        /\ consumers' = With(consumers, c,
               [p EXCEPT !.offered = IF next > @ THEN next ELSE @])
        /\ seen' = [seen EXCEPT ![c] = @ \cup page]
        /\ waived' = IF c \in DOMAIN consumers THEN waived
                     ELSE [waived EXCEPT ![c] = @ \cup 1..expired]
        /\ UNCHANGED <<envVars, channelVars, grantVars, journalVars, requests,
                       log, acceptedAt, forced>>

\* An ACK stays within what was offered and never goes back.
AckCursor_Unoffered(p, offset) ==   \* faulty: not bounded by what was offered
    p.baseline < offset /\ (p.ack = Null \/ p.ack <= offset)
AckCursor_Back(p, offset) ==        \* faulty: a late ACK moves the cursor back
    p.baseline < offset /\ offset <= p.offered
AckCursor(p, offset) ==
    /\ p.baseline < offset /\ offset <= p.offered
    /\ p.ack = Null \/ p.ack <= offset

AckDonations(c, gen, offset, revision) ==
    /\ gen = generation
    /\ expired <= offset
    /\ c \in DOMAIN consumers
    /\ LET p == consumers[c]
       IN  /\ p.generation = gen
           /\ p.revision = revision
           /\ AckCursor(p, offset)
    /\ consumers' = [consumers EXCEPT ![c].ack = offset]
    /\ UNCHANGED <<envVars, channelVars, grantVars, journalVars, requests,
                   historyVars>>

RangesCover_Ends(ranges, old, resume) ==   \* faulty: only the ends are looked at
    /\ \E i \in DOMAIN ranges : ranges[i].end = resume
    /\ \A i \in DOMAIN ranges : ranges[i].end <= resume
\* Faulty: a range must start at the covered end, not right after it.
RangesCover_OffByOne(ranges, old, resume) ==
    /\ \A i \in DOMAIN ranges :
         \E k \in {old} \cup {ranges[j].end : j \in 1..(i - 1)} :
             ranges[i].start <= k
    /\ \E i \in DOMAIN ranges : ranges[i].end = resume

\* The loss ranges, taken in order, cover old+1..resume without a hole and
\* end exactly at resume.  covered+1 wraps to 0 in 64 bits.
RangesCover(ranges, old, resume) ==
    /\ \A i \in DOMAIN ranges :
         LET covered == {old} \cup {ranges[j].end : j \in 1..(i - 1)}
         IN  /\ ranges[i].start <= ranges[i].end
             /\ IF MaxUint64 \in covered THEN ranges[i].start = 0
                ELSE \E k \in covered : ranges[i].start <= k + 1
    /\ \E i \in DOMAIN ranges : ranges[i].end = resume
    /\ \A i \in DOMAIN ranges : ranges[i].end <= resume

\* Where consumer c stands; one without a row is taken to be at offset 0.
OldPosition(c) == IF c \in DOMAIN consumers THEN Position(consumers[c]) ELSE 0
Revision(c) == IF c \in DOMAIN consumers THEN consumers[c].revision ELSE 0

\* Skipping donations within a generation takes explicit loss ranges.
RecoveryAllowed(c, previous, next, resume, expected, ranges) ==
    /\ next = generation
    /\ expired <= resume /\ resume <= current
    /\ c \in DOMAIN consumers => consumers[c].generation = previous
    /\ expected # MaxUint64
    /\ expected = Revision(c)
    /\ previous = next =>
         /\ OldPosition(c) <= resume
         /\ OldPosition(c) < resume =>
              RangesCover(ranges, OldPosition(c), resume)

\* The operator moves consumer c from generation previous to offset resume of
\* generation next.  Within a generation what is skipped is declared lost by
\* the ranges; a move to another generation skips it without declaring any.
ResolveRecovery(c, key, previous, next, resume, expected, ranges) ==
    /\ <<c, "recovery", key>> \notin DOMAIN requests
    /\ RecoveryAllowed(c, previous, next, resume, expected, ranges)
    /\ consumers' = With(consumers, c,
           [generation |-> next, baseline |-> resume, offered |-> resume,
            ack |-> Null, revision |-> expected + 1])
    /\ requests' = With(requests, <<c, "recovery", key>>, now)
    /\ waived' = [waived EXCEPT ![c] = @ \cup
           IF previous = next
           THEN UNION {ranges[i].start..ranges[i].end : i \in DOMAIN ranges}
           ELSE (OldPosition(c) + 1)..resume]
    /\ UNCHANGED <<envVars, channelVars, grantVars, journalVars, log,
                   acceptedAt, seen, forced>>

\* A repeated key returns the stored answer, or a conflict, and does nothing.
SetSubscription(c, key, enabled) ==
    /\ <<c, "subscription", key>> \notin DOMAIN requests
    /\ enabled => ~optedOut
    /\ subscribed' = enabled
    /\ grants' = IF enabled THEN grants
                 ELSE [t \in DOMAIN grants |-> Close(grants[t])]
    /\ requests' = With(requests, <<c, "subscription", key>>, now)
    /\ UNCHANGED <<envVars, generation, current, expired, ownerToken, runtime,
                   issued, journalVars, consumers, historyVars>>

-----------------------------------------------------------------------------
(* Retention, and the restore procedure. *)

\* Offsets a retention pass looks at, and whether it may drop each of them.
Candidates == Page(Readable(generation, -1), ExpireBatch)
StoredAt(o) ==
    donations[CHOOSE e \in Retained :
        donations[e].generation = generation /\ donations[e].offset = o].stored
Forced(o, host) ==
    \/ host - StoredAt(o) > MaxAge
    \/ Cardinality(Retained) - Cardinality({p \in Candidates : p < o})
         > SoftLimit
Acked_BySome(o) ==   \* faulty: one consumer's ACK is enough
    \E c \in DOMAIN consumers : /\ consumers[c].generation = generation
                                /\ o <= Position(consumers[c])
Acked(o) ==
    /\ DOMAIN consumers # {}
    /\ \A c \in DOMAIN consumers : /\ consumers[c].generation = generation
                                   /\ o <= Position(consumers[c])
Droppable(o, host) ==
    Forced(o, host) \/ (host - StoredAt(o) >= MinAge /\ Acked(o))

\* The longest prefix of the candidates that may be dropped.
Expirable(host) == {o \in Candidates :
                      \A p \in Candidates : p <= o => Droppable(p, host)}
Drop(row, through) ==
    IF row.generation = generation /\ row.offset <= through
    THEN [row EXCEPT !.payload = FALSE] ELSE row

ExpireDonations(host) ==
    \E through \in Expirable(host) :
        /\ \A o \in Expirable(host) : o <= through
        /\ through > expired
        /\ expired' = through
        /\ donations' = [e \in DOMAIN donations |-> Drop(donations[e], through)]
        /\ forced' = forced \cup {o \in Expirable(host) : Forced(o, host)}
        /\ UNCHANGED <<envVars, generation, current, subscribed, ownerToken,
                       runtime, grantVars, outbox, consumers, requests, log,
                       acceptedAt, seen, waived>>

Outdated(at) == now - at > TombAge

\* Old grants are deleted, but never the one the channel names.
KeepGrant_Recent(t) == ~Outdated(grants[t].until)   \* faulty: deletes the owner's
KeepGrant(t) == ~Outdated(grants[t].until) \/ t = ownerToken

\* The second transaction of MaintainCollection: bookkeeping older than 90 days.
PruneCollection ==
    LET kept == {e \in outbox : ~Outdated(donations[e].stored)}
    IN  /\ outbox' = kept
        /\ donations' = Only(donations,
             {e \in DOMAIN donations : \/ donations[e].payload
                                       \/ ~Outdated(donations[e].stored)
                                       \/ e \in kept})
        /\ grants' = Only(grants,
             {t \in DOMAIN grants : KeepGrant(t)})
        /\ requests' = Only(requests,
             {r \in DOMAIN requests : ~Outdated(requests[r])})
        /\ UNCHANGED <<envVars, channelVars, issued, consumers, historyVars>>

\* A rotation carries the rows of the current generation over to the next.
Relabel_None(row) == row   \* faulty: rows stay in the generation that ended
Relabel(row) == IF row.generation = generation
                THEN [row EXCEPT !.generation = generation + 1] ELSE row

\* Run by hand after a database restore.
RotateJournal(expectedGeneration) ==
    /\ generation = expectedGeneration
    /\ generation < MaxGeneration
    /\ generation' = generation + 1
    /\ ownerToken' = Null
    /\ runtime' = "recovery_required"
    /\ grants' = [t \in DOMAIN grants |-> Close(grants[t])]
    /\ donations' = [e \in DOMAIN donations |-> Relabel(donations[e])]
    /\ UNCHANGED <<envVars, current, expired, subscribed, issued, outbox,
                   consumers, requests, historyVars>>

-----------------------------------------------------------------------------
RangeLists == UNION {[1..n -> LossRange] : n \in 0..MaxRanges}

OwnerNext ==
    \/ \E w \in Workers : AcquireCollection(w)
    \/ \E t \in 1..issued : RenewCollection(t) \/ ReleaseCollection(t)

RuntimeNext ==
    \E state \in RuntimeStates :
       \/ SetCollectionState(state)
       \/ \E t \in 1..issued : CollectionHeartbeat(t, state)

\* A spool record keeps its acceptance time however often it is replayed.
AppendNext ==
    \E e \in Events, content \in Contents, t \in 1..issued,
       gen \in 1..generation, at \in 1..(now + HostSkew), host \in HostClocks :
         /\ acceptedAt[e] \in {Null, at}
         /\ AppendDonation(e, content, t, gen, at, host)

ReadNext ==
    \E c \in Consumers, gen \in 1..generation, revision \in 0..MaxUint64 :
      \/ \E after \in 0..current, limit \in 1..ReadLimit :
           ReadDonations(c, gen, after, revision, limit)
      \/ \E offset \in 0..current : AckDonations(c, gen, offset, revision)

RecoveryNext ==
    \E c \in Consumers, key \in Keys, previous \in 1..generation,
       next \in 1..generation, resume \in 0..current,
       expected \in 0..MaxUint64, ranges \in RangeLists :
         ResolveRecovery(c, key, previous, next, resume, expected, ranges)

SubscriptionNext ==
    \/ \E c \in Consumers, key \in Keys, enabled \in BOOLEAN :
         SetSubscription(c, key, enabled)
    \/ \E active \in BOOLEAN : SetOptOut(active)

MaintenanceNext ==
    \/ \E e \in Events : DispatchDonationOutbox(e)
    \/ \E host \in HostClocks : ExpireDonations(host)
    \/ PruneCollection
    \/ \E gen \in 1..generation : RotateJournal(gen)

EnvironmentNext ==
    \/ Tick
    \/ \E w \in Workers \cup {NoWorker} : SetAssignment(w)

Next ==
    \/ OwnerNext \/ RuntimeNext \/ AppendNext \/ ReadNext \/ RecoveryNext
    \/ SubscriptionNext \/ MaintenanceNext \/ EnvironmentNext

Spec == Init /\ [][Next]_vars

-----------------------------------------------------------------------------
(* Properties. *)

ChannelType ==
    /\ now \in Nat /\ assigned \in Workers \cup {NoWorker}
    /\ optedOut \in BOOLEAN /\ subscribed \in BOOLEAN
    /\ generation \in Nat \ {0} /\ current \in 0..MaxUint64 /\ expired \in Nat
    /\ runtime \in RuntimeStates \cup {"waiting", "connecting",
                                       "recovery_required"}
GrantsType ==
    /\ issued \in Nat /\ ownerToken \in 0..issued
    /\ DOMAIN grants \subseteq 1..issued
    /\ grants \in [DOMAIN grants -> GrantRow]
DonationsType ==
    /\ DOMAIN donations \subseteq Events
    /\ donations \in [DOMAIN donations -> DonationRow]
    /\ outbox \subseteq DOMAIN donations
ConsumersType ==
    /\ DOMAIN consumers \subseteq Consumers
    /\ consumers \in [DOMAIN consumers -> ConsumerRow]
RequestsType ==
    /\ DOMAIN requests \subseteq Consumers \X Operations \X Keys
    /\ requests \in [DOMAIN requests -> Nat]
LogType ==
    /\ log \in Seq(Events) /\ Len(log) = current
    /\ acceptedAt \in [Events -> Nat]
HistoryType ==
    /\ seen \in [Consumers -> SUBSET Nat]
    /\ waived \in [Consumers -> SUBSET Nat]
    /\ forced \subseteq Nat

\* Every table holds rows of its schema, the owner token is one that was
\* issued, and outbox rows refer to donations (the foreign key).
TypeOK ==
    /\ ChannelType /\ GrantsType /\ DonationsType /\ ConsumersType
    /\ RequestsType /\ LogType /\ HistoryType

\* The payloads that exist are exactly those of the offsets after
\* expired_through up to next_offset, all of the current generation.  So the
\* hole check of ReadDonations never fires on an admissible cursor, and
\* neither retention nor a rotation strands a payload outside the window.
RetainedContiguous ==
    /\ expired <= current
    /\ {donations[e].offset : e \in Retained} = (expired + 1)..current
    /\ \A e \in Retained : donations[e].generation = generation

\* A spool replay never gives an event a second offset, not even after its
\* tombstone was deleted: AppendDonation refuses the record by age by then.
EventOnce ==
    /\ \A i, j \in DOMAIN log : log[i] = log[j] => i = j
    /\ \A e \in DOMAIN donations : /\ donations[e].offset \in DOMAIN log
                                   /\ log[donations[e].offset] = e

\* A consumer's position never passes a donation that was neither returned to
\* it by a read, nor excused: by the loss ranges of an audited recovery
\* decision, by a decision that moves it to another generation, or by having
\* expired before the consumer first appeared.
NoSilentLoss ==
    \A c \in DOMAIN consumers :
        1..Position(consumers[c]) \subseteq seen[c] \cup waived[c]

\* Consumer cursors are ordered, and everything offered was journaled.
CursorsOrdered ==
    \A c \in DOMAIN consumers : LET p == consumers[c] IN
        /\ p.baseline <= Position(p)
        /\ Position(p) <= p.offered
        /\ p.offered <= current

\* Short of a hard limit (30 days, 1 GiB) a payload is kept until every
\* consumer has passed it: what expired beyond a consumer's position was forced.
ExpiryWaitsForConsumers ==
    \A c \in DOMAIN consumers :
        (Position(consumers[c]) + 1)..expired \subseteq forced

\* An operator can always move a consumer on, whatever state it is in: the
\* decision to go on at the end of the journal, with the rest of it as the loss
\* range, is admissible.
RecoveryPossible ==
    \A c \in Consumers :
        LET previous == IF c \in DOMAIN consumers THEN consumers[c].generation
                        ELSE generation
            rest == <<[start |-> OldPosition(c) + 1, end |-> current]>>
        IN  Revision(c) # MaxUint64 =>
              RecoveryAllowed(c, previous, generation, current, Revision(c), rest)

\* The last instant at which a grant lets a donation be accepted.
WindowEnd(g) == IF g.closed # Null /\ g.closed < g.until THEN g.closed
                ELSE g.until

\* No two grants let donations be accepted at the same time, except where one
\* ends as the next begins: there is one collecting worker at any moment.
GrantWindowsDisjoint ==
    \A s, t \in DOMAIN grants : s < t =>
        WindowEnd(grants[s]) <= grants[t].granted

\* The channel never names a grant that was deleted: AcquireCollection fails
\* for ever when the lookup of its owner's grant finds no row.
OwnerGrantExists == ownerToken # Null => ownerToken \in DOMAIN grants

\* While the channel is unsubscribed every grant is closed, so no donation
\* observed after the consumer switched collection off can enter the journal.
UnsubscribedStopsGrants ==
    ~subscribed => \A t \in DOMAIN grants : grants[t].closed # Null

\* Recovery fences consumers.  Under one revision the position never moves
\* back and the baseline stays; a revision moves by one recovery at a time.
RevisionFences ==
    [][\A c \in DOMAIN consumers :
         /\ c \in DOMAIN consumers'
         /\ \/ /\ consumers'[c].revision = consumers[c].revision
               /\ consumers'[c].generation = consumers[c].generation
               /\ consumers'[c].baseline = consumers[c].baseline
               /\ Position(consumers'[c]) >= Position(consumers[c])
               /\ consumers'[c].offered >= consumers[c].offered
            \/ /\ consumers'[c].revision = consumers[c].revision + 1
               /\ consumers'[c].generation = generation]_vars

=============================================================================
