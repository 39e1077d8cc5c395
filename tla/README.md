# Verification of the collector

The repository collects the chat and the donations of live broadcasts and
delivers them.  Donations are the part where a lost, duplicated or reordered
item is money, so the verification starts there.

    SOOP websocket -> worker -> donation spool (disk) -> PostgreSQL journal + outbox
                                                       -> private gRPC -> consumer
                            \-> recent chat (Redis)    -> public data API
                             \-> chat archive spool (disk) -> PostgreSQL -> object storage
    discover -> live_channels -> coordinator -> worker (assignment, drain, handoff)

## Inventory

For each part: its state, its operations, who it talks to, what is hard about
it and what makes it correct.  Paths are relative to the repository's root.

**Donation journal** (`shared/store/collector*.go`, `migrations/006_*`).
State: the channel row (generation, next and expired offset, subscription,
owner token, runtime state), owner grants, donations and their tombstones,
outbox, consumers, idempotent requests.  Operations: acquire, renew, release a
grant; append a donation; dispatch the outbox; read, acknowledge, resolve a
recovery; subscribe; expire, prune, rotate.  Callers: workers (several at a
time), consumers, operators, a maintenance loop.  Hard: grants that expire while
their holder is slow, replayed spool records, retention against slow consumers,
rotation, operator decisions racing acknowledgements.  Correct when: one worker
may accept at a time; an event gets one offset; the retained window has no
holes; nobody's position passes a donation silently; recovery is always
possible.

**Donation spool and collection session** (`worker/internal/pipeline/spool.go`,
`worker/internal/collection.go`, the donation path of
`worker/internal/connector/soop.go`, the drain loop of `worker/cmd/main.go`).
State: `.pending` and `.json` files, the spool's lock, the grant and its local
deadline, the renewal goroutine.  Operations: save, drain, acquire, renew,
release, disconnect.  Hard: crash between any two file operations, lost replies
of the database, a deadline that passes during a write, a session that ends
while a save waits for the lock.  Correct when: a donation reported as accepted
is on disk or in the journal, in order, once, and was accepted under authority.

**Consumer side** (`query/internal/collector.go`, `shared/cmd/collector-check`).
State: watch streams; the consumer's durable inbox and cursor.  Hard: lost
replies, crash between event, cursor and acknowledgement, recovery.  Correct
when: every donation ends in the inbox exactly once or is declared lost.

**Worker manager and process** (`worker/internal/manager.go`,
`worker/cmd/main.go`).  State: connections by key, dialling set, backoff,
draining flag, command queue.  Hard: connect against disconnect of the same key,
reconnect callbacks of replaced connections, drain and handoff with polling.
Correct when: an assigned channel is eventually connected on exactly its worker,
and nothing is left connected after a drain.

**Coordinator** (`coordinator/internal`).  State: the leader lease, worker
health, cooldowns and debounce times, assignments in `live_channels`.  Hard: two
leaders, stale health, dead workers, handoff.  Correct when: a pending channel
is eventually assigned to a live worker, a live worker's channel is not taken
away, a handoff ends.

**Discover and history** (`discover/internal`, `shared/store/history_store.go`).
State: a fenced lease, per-channel session state, missed polls.  Hard: a stale
leader writing, partial results, crash between session and metadata rows.
Correct when: a live channel is not ended, sessions do not overlap.

**Recent chat** (`worker/internal/pipeline/publisher.go`,
`shared/store/collector_chat.go`, `query/internal/collector_chat.go`).  State: a
trimmed Redis stream with a generation.  Correct when: a reader that missed
entries is told so.

**Chat archive** (`worker/internal/pipeline/chat_archive.go`,
`shared/store/postgres_chat_archive.go`, `query/archive`).  State: spool, archive
rows, manifests, objects.  Hard: replay into another session, export against
late rows, crash between upload and commit.  Correct when: each chat is readable
exactly once in its session.

**ClickHouse batch writer**, **opt-out cache**, **public data API**, **cleanup
job**: small concurrent components (bounded buffer with retry; periodically
refreshed cache; shared in-flight checks and connection limits; list-then-delete).

Not to be modelled: platform wire protocols and discovery clients, cookie
acquisition, the admin query API and the coordinator's gRPC (stateless), the
chat exporter (an I/O pipeline), metrics, probes and migrations.  PROJECT.json
lists every component with its status, and every hazard with its line.

## Modules

| Module | What it is |
| --- | --- |
| `CollectorJournal` | the donation journal: all operations of `shared/store/collector.go`, `collector_consumer.go`, `collector_maintenance.go` on one channel |
| `MCCollectorJournal` | its four sub-specifications for TLC |
| `CollectorJournalProofs` | type correctness and the theorems on grants |
| `JournalStoreProofs`, `JournalDeliveryProofs` | the theorems on stored payloads, on consumers |
| `DonationSpool` | extends the journal by one worker: collection sessions, donation sink, disk spool, drain loop, crashes |
| `MCDonationSpool` | its sub-specifications for TLC |
| `SpoolJournalProofs` | the spool's invariant; its steps are steps of the journal |
| `SpoolOrderProofs` | its steps keep each event in one place, and the order |
| `DonationSpoolProofs` | its steps keep the authority; the theorems: the spool implements the journal's specification; durability, order, authority |

### The journal

One variable per table or per column of the channel row: `generation`,
`current` (`next_offset`, the last offset given), `expired` (`expired_through`), `subscribed`,
`ownerToken` and `runtime` are `collector_channels`; `grants`, `donations`,
`outbox`, `consumers`, `requests` are tables keyed as in the migration;
`assigned` and `optedOut` are what the journal reads from `live_channels` and
`collection_opt_outs`.  A donation row with `payload = FALSE` is a tombstone.
`log`, `acceptedAt`, `seen`, `waived`, `forced` are history: they are written,
and read only by properties and by `AppendNext`, whose callers replay a record
with its original acceptance time.

Every operation is one statement, or one transaction that locks the channel row
first, so every operation is one action; a transaction that returns an error is rolled back and
is a stutter.  `AppendOutcome` lists the early returns of `AppendDonation` in
their order; the spool uses its value.  PostgreSQL's clock is `now`.  The
application's clock, used by `AppendDonation` for the age of a record and by
`ExpireDonations`, is within `HostSkew` of it.  Donation contents are model
values; only equality matters (`ErrConflict`).

`waived` holds the offsets a consumer is excused from.  A recovery decision
within a generation excuses exactly what its loss ranges name.  One that moves
the consumer to another generation excuses all it skips: the code asks for no
ranges there, so `NoSilentLoss` says less about such a move.

`LimitsAssumption` and `TimesAssumption` state what the code's constants
satisfy, most importantly `ReplayAge + AcceptSkew + HostSkew <= TombAge`:
records are refused after 30 days, an acceptance time may lie one second ahead,
and tombstones live 90 days.

### The spool

`files` are the `.json` files in name order, `pending` the `.pending` ones.
The mutex is `holder`, and `step` says which disk or database operation the
holder does next, so that a crash or a step of somebody else fits between any
two.  `Save` is `SaveStart` (checks under the mutex), `SaveWrite` (acceptance
time, write, fsync), `SaveRename` (second deadline check, rename and the fsync
of the directory) and then the steps of `drain`; `SaveBreaks` is each of its I/O
errors.  `drain` is
`DrainAppend`, `DrainRemove` per file, left by `DrainUnavailable`,
`DrainRefused`, `DrainTimedOut`, `DrainBreaks` or `DrainDone`.  A session is a
row: its local deadline, the renewal goroutine (`renew`), the connection, the
sink.  `Try(A)` is a call to the database that may fail; with the actions that
report failure it also covers a call that took effect and whose reply was lost.
`SetCollectionState` and `CollectionHeartbeat` are the journal's actions.

The manager's table of connections is not part of this module: sessions begin
and end at any time, more freely than the manager lets them.

`Crash` is the death of the process, followed by a restart: files are as they
were.  A power failure, which may also undo a rename whose directory was not yet
synced, is not modelled; this is why rename and directory fsync are one step.

Three clocks meet in the spool.

- Grants are windows of the database's clock, `now`.
- A record carries the host's wall clock (`spool.go:122`).  `WallClock` lets it
  be off `now` by `HostSkew` either way, as `docs/collector-code-handoff.md:92`
  asks for synchronised clocks and does not say how closely.  A record whose time
  falls before its grant is refused by the journal for ever, and the model has
  that case.  `WallClock` does not go back from one record to the next: names
  carry the time in nanoseconds, and replay is in the order of names.
- Local deadlines are measured on the host's monotonic clock
  (`collection.go:35`).  Only durations are read from it, and they are taken to
  be durations of the database's clock.

`observed`, `saved` and `moments` are history: the donations that arrived, the
records that got their final name, and the value of `now` when each did.

## What is checked

TLC exhausts each instance.  All runs check for deadlock except where the cfg
says otherwise; none does.

| Run | Question | Instance |
| --- | --- | --- |
| `journal_delivery` | Does a consumer's position pass a donation silently, does retention wait for consumers? | 3 events, 2 consumers, payload limit 2, so that soft, hard and age limits all bite |
| `journal_recovery` | Do cursors, window and revisions survive recovery decisions and rotation; does a decision skip only what it excuses, and is one always possible? | 2 events, 1 consumer, 2 keys, 2 generations |
| `journal_replay` | Does a replay give an event a second offset, even after its tombstone is gone? | 2 events with 2 contents, `TombAge` exactly at its bound, time past it |
| `journal_ownership` | Do the windows of grants overlap; is the owner's grant deleted; does unsubscribing stop grants? | 2 workers, 3 grants, time past two lease lengths |
| `spool_durability` | Is an accepted donation lost or overtaken, across crashes, lost replies and refusals; is the mutex always given back? | 3 events, 2 sessions, 2 files: the spool gets full |
| `spool_delivery` | Does an unblocked spool eventually deliver? | 2 events, 2 sessions |
| `spool_authority` | Does a local deadline outlast the grant when calls and writes are slow and the host's clock is off? | 1 session with renewals, time past two lease lengths |
| `spool_owner` | Is every record accepted under a grant that is not closed? Violated, see below | as `spool_authority` |

Time is counted in units of which a lease lasts 2 or 3 and a retention age 1 to
5; only the order of the deadlines matters, and every instance lets time pass
the deadlines its question depends on.  `MaxTime`, `MaxGrants` and
`MaxGeneration` bound the run, in the guards of `Tick`, `AcquireCollection` and
`RotateJournal`; the other constants are limits of the code, made small.  In
`spool_durability` and `spool_delivery` the clock stands still, because neither
question is about it: an expired deadline is a failed save, which `SaveBreaks`
covers.  The three passing spool runs have `HostSkew = AcceptSkew = 1`, so that
a record can lie before its grant, and ahead of the journal's clock by just what
the journal tolerates.  `spool_owner` has no skew: its violation is not the
clock's.  Symmetry is used only for safety, over events or workers.

Each property has a mutant in PROJECT.json: a plausible mistake in one mapped
definition that makes TLC find the property violated.

**Fairness** (`SpoolFairness`, used by `spool_delivery` only).  The drain loop
is a ticker: it starts a pass again and again although others also take the
mutex (strong fairness of `LoopStart`), and finishes it (weak fairness of
`LoopEnd`).  Whoever holds the mutex goes on: every disk and database operation
under it has a timeout or returns.  The database answers, and files can be
removed, again and again (strong fairness of `DrainAppend`, `DrainRemove`);
without that assumption nothing can be delivered.  Crashes are not restricted:
there may be infinitely many.

**A divergence.**  `docs/implementation-plan.md:199` says that the current owner
is checked at the point where a donation is accepted.  `Manager.Disconnect`,
`DisconnectAll` and `handleErrors` release the grant before they close the
connection, and `Save` checks only the local deadline, which the release leaves
alone.  The shortest trace of `spool_owner`: acquire, disconnect, release, a
donation arrives on the open connection, time passes, it is saved.  The journal refuses such
a record for ever with `ErrOwner`, so it and all records behind it stay in the
spool: `NothingLost` holds, delivery does not, which is why `SpoolDelivers`
excludes a spool whose first record is refused.

## What is proved

TLAPS checks the proofs for every value of the constants that satisfies the
named assumptions (`SetsAssumption`, `TimesAssumption`, `LimitsAssumption`,
`SpoolAssumption`).

- **Types** (`TypeCorrect`).  `TypeOK` is inductive by itself.
- **Grants** (`OneCollectorAtATime`, `OwnerGrantKept`,
  `SubscriptionRevokesGrants`).  Two windows could overlap if an open grant were
  not the newest.  `OwnerInv` adds that grant times lie in the past and in token
  order (`GrantTimes`) and that only the owner's grant, the newest, is open
  (`OwnerNewest`).
- **Store** (`RetainedWindow`, `JournaledOnce`).  `StoreInv` adds that an event
  in the log has a tombstone or is too old to be appended (`TombstoneOrOld`),
  which needs that it was stored no earlier than it was accepted, up to skew
  (`StoredAfterAcceptance`), and the assumption on `TombAge`.
- **Consumers** (`CursorsStayOrdered`, `NothingSkippedSilently`,
  `RetentionWaits`, `RecoveryAlwaysPossible`, `RevisionsFence`).  An
  acknowledgement moves a position up to `offered`, so `DeliveryInv` adds that
  everything offered was seen or waived (`OfferedSeen`).
- **Spool** (`SpoolImplementsJournal`, `SpoolTypeCorrect`, `NothingIsLost`,
  `SpoolKeepsOrder`, `AuthorityIsLocal`).  All five rest on one invariant,
  `SpoolInv`:
  the mutex is held exactly by the sink that is saving or by the drain loop
  (`MutexHeld`, part of `SpoolTypeOK`);
  an event is in the hands of one session, in one `.pending` file or in one
  record (`FreshInv`), so a record is never an event the journal already has;
  the files are the last records saved, those before them are in the journal and
  of those after the first none is (`FilesAreLast`), so removing the first and
  appending the first keep the order; and what a session believes of its grant,
  the database has (`SessionAuthority`), because a grant only ever gets longer
  and a deadline counts from before the call.  `AuthorityIsLocal` speaks of two
  times: the moment a record becomes durable is in the grant's window by the
  database's clock, and the time written into it is in that window up to
  `HostSkew`, whatever `HostSkew` is.  That the spool is an
  implementation of the journal's specification needs this invariant: the
  journal expects its callers to name tokens and times that existed and to
  replay an event with its first acceptance time.  It follows that the journal's
  theorems hold of the worker's behaviours.

Only model-checked: `SpoolDelivers` (liveness under fairness is beyond the
prover).  `AcceptedByOwner` is refuted.

## Plan

Done: the journal, the spool, their theorems.  Next, the most important first:

1. `ConsumerDelivery`: the gRPC handlers and the reference consumer's durable
   inbox on top of the journal's reads and acknowledgements, with lost replies
   and crashes between event, cursor and acknowledgement.  An abstract
   specification, `ReliableDelivery` (each journaled donation ends in the inbox
   once and in order, or is declared lost), and the refinement of it.  Theorem:
   the inbox is a prefix of the log up to declared losses.
2. `LeaderLease`: the lease scripts of Redis and the leader loops of coordinator
   and discover; two candidates, slow renewals, fencing.  Theorem: at most one
   holder of a token; a fenced write is by the latest leader.
3. `ChannelAssignment`: coordinator, worker registry and `live_channels`:
   assignment, dead workers, drain and handoff; liveness of assignment and
   handoff.  `WorkerManager`: connect, disconnect, reconnect callbacks, command
   queue, reconciliation; composed with the assignment.
4. `ChatArchive`: spool, session matching, export to object storage and reading
   across database and objects.  Theorem: each archived chat is readable from
   one place at any time.
5. `DiscoverCycle` and `BroadcastHistory`: discovery cycle, missed polls, session
   and metadata rows, recovery of the emitter's state.
6. Small components, one module each: `BatchWriter`, `OptOutCache`,
   `RecentChat`, `PublicApi`, `StreamCleanup`.

Runs will keep to two or three actors and two or three items each, with time
past the deadlines involved; each module gets one type invariant, and the
hazards of PROJECT.json that now say "planned" are what its properties are for.

## Limits

Checksums, malformed or foreign files and the 30-day refusal of `drain` itself
are left out of the spool: no step of the program damages a file, and
`AppendDonation` has the same age limit.  One channel is modelled; channels
share no rows.  Transactions are atomic, as the row lock makes them.  Out of the
prover's reach are liveness, `ENABLED` and induction over data.
