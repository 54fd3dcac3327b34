# Open Chronicle: TLA+ models and proofs

Open Chronicle records what is on a Mac's screen into a local evidence store and
lets agents query it. The store promises that acknowledged evidence survives
crashes, that identities stay unique whichever process writes, that projections and
aggregates can be rebuilt from canonical files, that a destructive operation is
all or nothing, and that the record says honestly when nothing was recorded. These
modules state those promises and check them against the code, translated from the
Rust and Swift sources.

Contents: [the system](#the-system), [modules](#modules) and their runs, [proofs](#proofs),
[what the code does otherwise](#what-the-code-does-otherwise), [plan](#plan),
[not modelled](#not-modelled-and-why). Paths are relative to `src/`.

## The system

| Component | Sources | State it keeps | Operations | Modelled in |
|---|---|---|---|---|
| Canonical journals | `chronicle-store/src/journal.rs` | daily JSONL shards of two families (events, chunks), pending-mutation marker, index manifest, an in-memory index per process | append, exact retry, full scan with or without repair, unprojected tail | `CanonicalJournal` |
| Journal repair | `journal.rs`, `recovery.rs` | archived originals, repair receipts, successor shards | explicit repair of a corrupt shard | `JournalRepair` |
| SQLite projection | `projection.rs`, `sqlite.rs` | rows per record, cursor per shard, current pointers, pending buckets, watermark | open and migrate, project a record, verify an already projected one | parts in `Aggregation`, `EvidenceDeletion`, `Screenshots`, `Disclosure`, `TimelineSnapshots` |
| Recovery | `recovery.rs` | none of its own | startup recovery, rebuild of the index, screenshot reconciliation | with the state it recovers |
| Screenshots and retention | `artifacts.rs`, `retention.rs`, `storage.rs` | staged and promoted images, lifecycle records | prepare / commit, delete, retention preview and apply, quota | `Screenshots` |
| Derived artifacts, grants | `artifacts.rs`, `receipts.rs`, `chronicle-engine/src/service.rs` | revision chains, grants, cursors, write receipts | write revision, query under a grant, install and revoke | `Disclosure` |
| Evidence deletion | `maintenance.rs`, `generation.rs` | receipt, completion proof, store generation | prepare, finalize, resume; the fence every other operation meets | `EvidenceDeletion` |
| Locks | `locks.rs` | flock files, process-wide named locks | bounded waits; capture lease without waiting | where they are contended |
| Ingest | `chronicle-engine/src/ingest.rs` | cadence guard, lagging flag | ingest, recover projection | `Aggregation` |
| Aggregation | `reconcile.rs`, `chunker.rs`, `coverage.rs`, `duration.rs` | pending buckets, watermark, chunk chains | reconcile at startup, finalize due buckets, recompute | `Aggregation` |
| Recording session, study | `runtime.rs`, `study.rs`, `layout.rs` | the configuration document: preference, mode, session, heartbeat intent, pending gap, pending startup | startup, heartbeat, prepare / commit gap, terminate; start, extend and leave a study | `RuntimeSession` |
| Queries, search, statistics | `queries.rs`, `search.rs`, `statistics.rs`, `policy.rs`, `service.rs`, `chronicle-ffi/src/lib.rs` | snapshot tokens and cursors, held by the reader | paged reads under a snapshot or a grant | `TimelineSnapshots` |
| Capture coordinator | `macos/OpenChronicle/Capture`, `App/AppCaptureRuntime.swift` | coordinator state, execution generation, permit, in-flight attempt | start, stop, suspend, resume, preference, clock change, loop | `CaptureCoordinator` |
| C ABI, MCP server, admin tool | `chronicle-ffi`, `chronicle-mcp`, `chronicle-admin` | a handle; a stdio loop; none | calls into the engine | the handle in `TimelineSnapshots` |
| Export, health, contracts | `export.rs`, `health.rs`, `chronicle-domain` | none | read-only walks, validation | no |
| User interface | `macos/OpenChronicle/Features`, `Onboarding`, `Services` | view models, registration receipts | none on the store that the engine does not do | no |

How they interact. One application process holds the capture lease and hosts capture,
ingest and aggregation through the C ABI; MCP processes open the same store for
queries and derived writes. Everything meets in the file system: requests take
`locks/store.lock` shared, rebuild, repair and deletion take it exclusive, each journal
family has a writer lock, and each handle compares the store generation it was
opened with. A record goes canonical journal first, then projection, then (when its
bucket is due) into a chunk, which is itself a canonical record. The capture actors of the
app decide when an attempt may be written; the engine has the last word (preference, study,
open session) and keeps the heartbeat from which absences are derived.

What is hard. Durability across three failure modes (a killed process, a failed or
half-done write, a power loss) at every step of an append; two processes whose
indexes followed the same manifest to different points; recovery that has to get
past whatever an earlier failure left; operations of many durable writes (deletion, repair,
retention, a derived write, a session gap) interrupted between any two of them; a clock that
moves back; reconciliation loops that must end; readers whose pages come from a
projection that changes in between; actors that are notified while they await.

What makes each component correct:

- journals: acknowledged records stay readable, synced and linked; one record per
  identity over all shards and processes; startup recovery is never blocked by what
  a crash left; damage is never overwritten; no committed tail escapes a process;
- repair: nothing is discarded, the loss is recorded, and the same command repeated opens the store;
- projection: equals the replay of the journals whatever the interruption, and a
  rebuild accepts every journal that projection accepted;
- screenshots: file, records and projection agree after recovery; no image is deleted
  that was not asked for, none is kept that was;
- deletion: only confirmed content is removed, clients never see a half-deleted
  store, a resume always gets to the end, no old handle writes into a new generation;
- aggregation: every due bucket gets exactly one current chunk over exactly its
  evidence, and startup ends;
- recording session: the heartbeat never runs ahead of the journal; every interval without a
  session is recorded as missing, once;
- grants: nothing is disclosed uncharged, no write applied twice, a revocation is final;
- readers: the pages of a snapshot are one snapshot, and a walk misses nothing;
- coordinator: evidence of before an outage precedes the gap; a recorder that is shown as
  running can record.

## Modules

| Module | What it is |
|---|---|
| `CanonicalJournal` | one journal family: shards, marker, manifest, indexes, several processes, crashes, power loss, failed writes |
| `EvidenceLog` | abstract: a log that accepts one record per identity and keeps what it acknowledged; `CanonicalJournal` implements it |
| `CanonicalJournalProofs` | TLAPS proofs: what was acknowledged stays synced and readable; marker, restart, damage, several processes; the refinement of `EvidenceLog` |
| `JournalRepair` | the explicit repair of corrupt shards, dying and repeated, with the app between the calls |
| `JournalRepairProofs` | TLAPS proofs about `JournalRepair` |
| `EvidenceDeletion` | the deletion protocol, the generation and the fence, with clients that open, lock, read and write |
| `AtomicDeletion` | abstract: clients see the store as it was, closed, or empty; `EvidenceDeletion` implements it |
| `EvidenceDeletionProofs` | TLAPS proofs about `EvidenceDeletion`, with the refinement of `AtomicDeletion` |
| `Aggregation` | ingest, startup replay and drain, `finalize_due`, revision chains over chunk journal and projection |
| `AggregationProofs` | TLAPS proofs about `Aggregation` |
| `Screenshots` | image transactions, expiry and retention batches, reconciliation, the lifecycle replay |
| `ScreenshotsProofs` | TLAPS proofs about `Screenshots` |
| `Disclosure` | grants, cursors and receipts; the revision files of an artifact; sessions of several processes |
| `DisclosureProofs` | TLAPS proofs about `Disclosure` |
| `RuntimeSession` | the session document, gaps and heartbeats over several launches, and the study window |
| `RuntimeSessionProofs` | TLAPS proofs about `RuntimeSession` |
| `CaptureCoordinator` | the recording actors of the app, from await to await |
| `CaptureCoordinatorProofs` | TLAPS proofs about `CaptureCoordinator` |
| `TimelineSnapshots` | pages and details read from a projection that changes under the reader |

Each component has an `MC` module with the values of its constants for TLC. How they fit together: the
modules cut the system at the promise one part makes another. `CanonicalJournal` shows that a
family is an `EvidenceLog`; every other module uses a journal as one (an append is a step
that leaves its record or does not). `RuntimeSession` takes attempts and gaps as the
coordinator offers them, and `GapAfterEvidence` of `CaptureCoordinator` is the order it
counts on. `TimelineSnapshots` takes chunk and artifact revisions from the rules of
`Aggregation` and `Disclosure`; the fence and the lock of `EvidenceDeletion` are why a deletion
is one step for a reader.

`CHECK_DEADLOCK FALSE` is in the configurations where the bounded system comes to
rest: when clock, events and failures are used up, nothing is left to do. The
journal and deletion instances never rest, and there deadlock is checked.

### CanonicalJournal

State. `lines[d]` is what a reader of shard `d` finds, `stable[d]` how much of it has
been synced, `exists` / `linked` the shards with a file and with a synced directory
entry. `pending` is the marker (`PendingJournalMutation`), `manifest` the index
manifest. Each process has the in-memory index of `JournalIndex`: `known` (records),
`current` (shards whose cached size is the file's), `manifested`, and the manifest
identity it remembers as `fresh` (same inode) and `seen` (up to which entries).
History variables: `acked`, the records whose append returned `Ok`; `orphans`, the shards that were created
and whose creator ended before it wrote the marker; `lost`, the acknowledged records that a power loss took with an orphan.

Actions. `append` is cut at each write that another process, a crash or a power loss can
see: `Request` (takes the writer lock), `IntegrateManifest` / `Rescan` / `RescanFails`
(`refresh_index`), `SettlePending` and `FinishSettling` (the marker of an earlier
append), `RefreshTarget` (`refresh_changed_shard` of the record's shard), `Reject` /
`Resync` / `Create` (conflict, exact retry, new line in a shard that is created when it is new), `Prepare` (the
marker), `Write`, `Sync`, `Link`, `Publish`. `Recover` is the journal part of startup recovery, `Inventory` the full scan of
the retention inventory, `Open` a process that uses the journal without recovery (the
stdio server). `Crash` and `PowerLoss` end things at any step; the other failures are
alternatives inside the step they belong to. The constant `Faults` says which failures a
run allows and `MaxFaults` how many happen.

| Run | Properties | What it shows |
|---|---|---|
| `journal_one_process` | `AckedDurable`, `Restartable`, `TypeOK` | Through kills at every step, power losses, torn writes, failed syncs and failed manifest or marker writes (any four) every unsynced byte is covered by the marker, recovery always gets past the journal, and what was acknowledged survives; the one exception is an orphan (3), with which a power loss may take it. |
| `journal_two_processes` | `TailsNoticed`, `ImplementsEvidenceLog` | With two processes, one of which never recovers but scans, and three failures (no torn writes), no tail is missed and the family is an `EvidenceLog`: one record per identity over all shards and processes, and what is acknowledged stays. |
| `journal_damaged` | `CorruptUntouched` | With non-repairing scans, torn writes, failed marker and manifest writes damage can arise; its bytes are kept. |

Bounds. Three records, two dates, two IDs and one image are enough for every kind of conflict
(same ID in two shards, same image under two IDs) and for a shard with two lines;
three or four failures are enough for a failure, a failing repair of it, and a crash
in the operation after that. The record set bounds the shards, no other bound is needed.

What the promises leave out. An orphan has neither a marker nor a synced directory entry, and the appends that follow
do not sync the directory for it. `AckedDurable` is about `Kept`, all that was acknowledged but `lost`, and the mapping to
`EvidenceLog` counts a record as acknowledged when its shard is no orphan (any more): a retry, or a marker settled later, syncs the
directory. Nothing else is excused, in particular no kill and no failed write by itself.

Fairness. None: all properties are safety properties, of an append log whose operations are
calls that return. Liveness is a matter of the startup loop (`Aggregation`), of repair
(`JournalRepair`) and of screenshot recovery (`Screenshots`).

### JournalRepair

State. `files` are the active shards with their lines, each line a record with the damage that
keeps it from verifying; `archive` the originals sealed in `diagnostics/corrupt-shards`,
`receipts` the repair receipts, `losses` the loss events of the chunk journal, `marker` the
shard the marker names, `app` the recorder with its index, `step` and `job` the repair that runs.

Actions. `Begin` is the call with the checks of its early returns, `Seal` the archive, `Promise`
the receipt, `Succeed` the successor shard (whose name is the digest of the damaged bytes),
`Unlink`, `RecordLoss`, `Rescan`, `Complete` the writes after it, in order; `Die` can come after
each. `Start`, `Close`, `Record` are the app, `Damage` the medium.

| Run | Properties | What it shows |
|---|---|---|
| `journal_repair` | `RepairHonest`, `Reopens`, `TypeOK` | In either family, with damage to two lines and any two deaths, no acknowledged byte is discarded, the successor begins with what had verified and with the record of the loss, a chunk repair is only complete when the event journal has the loss; and repeating the commands always leads back to a store that opens. |

Abstractions. Appends are whole, their failures being those of `CanonicalJournal`. Repair holds
the exclusive store lock throughout, so that only its death comes between its steps; but the
lock is per request and the app may stay open between the calls. The medium does not damage
a shard that an unfinished receipt names, since the checksums in the receipt then refuse on
purpose. The manifest rewrite of the repair's scan is assumed to succeed (what follows if it does not is
in [the last section](#what-the-code-does-otherwise)).

Bounds. Three records on two days, two damages and two deaths: a repaired shard damaged again, both days
damaged at once, a repair that dies in the repair of a repair. Records of one day are interchangeable and recorded in
one order (`Before`). Two device IDs, because the loss
event carries the one that was passed.

Fairness. `WF` of a repair that runs (a command runs to its end or dies), `SF` of a needed
`Begin` with each device ID: the user who finds the store closed repeats what the diagnosis
asks for, and does not for ever use another ID than before.

### EvidenceDeletion

State. `content[f]` of each file (the generation of its evidence, the store_generation row
of the projection, a revision), the `generation`, the `receipt` with its preview and deleted
paths, the completion `proof`, the store lock (`excl`, `shared`), the capture lease
(`owner`), the steps of the one maintenance operation (`mpc`) and of each client (`pc`,
`handle`).

Actions. `Prepare`, `Finalize` and `Resume` are the entry points; `Reinventory`, `Commit`,
`Increment`, `BeginDeleting`, `Compare`, `Unlink`, `Record`, `Recreate`, `Complete`, `Prove`
are the durable writes of `drive_evidence_deletion` and `completed_result` in order, and
`Abort` (a crash, a failed write, an injected fault) can follow each of them. A client opens the
projection in the four steps of `SqliteStore::open`, without the store lock as in the code,
then makes requests in the steps of `shared_request`: wait for the lock, look at fence and
generation under it, work, release. Error branches that no reachable state takes (a generation that
is neither of the two, evidence that remains after every listed file is gone) are guards here.

| Run | Properties | What it shows |
|---|---|---|
| `deletion_interrupted` | `GenerationsHold`, `DeletedAsConfirmed`, `ImplementsAtomicDeletion`, `TypeOK` | Whatever is interrupted, clients only see the store before, closed or emptied, in one generation; only confirmed content is removed and nothing else changes until the proof; a deletion moves the generation by one however often it is resumed (two deletions, two writes, two clients, any number of interruptions). |

Bounds. A shard, the projection and an image give the path order shard < projection < image, so that the
projection can stop a deletion that has already removed evidence and has evidence left. Two
operations cover a confirmation of an older preview, a second preview over a completed deletion and a
proof left by an earlier one.

### Aggregation

State. `now` is the clock and `peak` the latest it has been; `version` the installed
aggregator version; `recorded` / `open` the events that were made and those whose ingest has
not returned; `logged` and `shards` the two journals, the chunk journal with one sequence of
revisions per date; `index` the projection (indexed events, cursor per chunk shard, current
revisions, `aggregation_pending_buckets` with `generation_at`, `aggregation_build_state`).
`pc`, `call`, `batch` are the engine in the middle of a startup or an ingest, `lagging` is
`projection_lagging`.

Actions. `Start` is `IngestEngine::open_at`: recovery replays the journals into the projection
there is or, if that fails, into a new one, then the drain begins. `Record` makes an event,
`Ingest` and `Retain` are the two ways it gets into the journal, `IndexEvent` projects it. `Begin`
(`prepare_aggregation_build` and the batch query), `Skip`, `AlreadyCurrent`, `AppendChunk`,
`ProjectChunk`, `EndBatch` are the steps of `finalize_due`; `IndexEventFails`, `AppendRejected`
and `ProjectRejected` its errors. `Tick`, `Rollback`, `Close`, `Crash`, `Upgrade` and `LoseIndex`
are the world.

| Run | Properties | What it shows |
|---|---|---|
| `aggregation_rebuild` | `RebuildAgrees`, `StartupDrains`, `TypeOK` | With late evidence over two shards, crashes, failed projections, lost indexes and clock corrections (any three), projection and rebuild agree, and a startup finalizes everything that can be. |
| `aggregation_upgrades` | `RevisedWhenStale` | With upgrades, downgrades and image-bearing observations every stale bucket is pending and every revision has a reason (three failures). |

Abstractions. One device and one store generation. An append to a journal is one step, since
`CanonicalJournal` is about its inside, and so is the replay of a recovery, since a replay that is
interrupted leaves a prefix that the next one completes. A digest is the set of its events. The
watermark is written and never read, so it is left out, as is what a chunk says about its events
(coverage, durations). `AppendRejected` is taken when a downgrade
reproduces a revision ID with another prior.

Bounds. Two buckets with `BatchSize = 1` are the smallest instance where a drain has more than one batch;
two events, of which a gap belongs to both buckets, give late evidence before and after a
revision; a clock of four instants (`MaxTime = 3`) has one after both due times, and with
`DayLength = 2` the second bucket falls due in the second shard.

Fairness. `WF_vars(Step)`: a call into the engine that was made runs to its end, as a thread
that nobody blocks does (the locks it waits for are bounded waits, see `locks.rs`). Nothing is
assumed of events, crashes, clock or callers.

### Screenshots

State. `journal` has the lifecycle records of each day, `file` and `settled` say where an image's
bytes are and where a power loss would leave them, `rows` and `cursor` are the projection. `step`,
`image`, `at`, `batch` are the operation under way (all of them hold the store lock and the
screenshot lock to the end), `preview` what the user was shown. `confirmed` and `lost` are history.

Actions. A write is `Provision`, `Observe`, `Promote`, `Settle`, `CompleteWrite`, `ProjectWrite`,
`ProjectWriteCompletion`; a retention batch is `Preview`, `Apply`, and for each image `Ask`,
`ProjectRequest`, `Unlink`, `SettleUnlink`, `CompleteDelete`, `ProjectDelete`; recovery is `Recover`, one
action for each state it may find an image in (`RecoverPromotion`, `RecoverWrite`,
`RecoverMissing`, `RecoverStray`, `RecoverUnlink`, `RecoverDelete`), then `RecoverProjection` or
`Rebuild`, and `Recovered`. A failing append has left its record or not; a failing other step, a
death, a power loss, a file removed by hand, a lost index and a clock correction can come at any point; `Quit` closes the
app between two operations.

| Run | Properties | What it shows |
|---|---|---|
| `screenshots` | `FilesAgree`, `RecordsReplayable`, `OnlyConfirmedUnlinked`, `PendingSettles`, `TypeOK` | After any two failures at any step, records and files agree, startup is never refused, the index can be rebuilt from the records, only expired images of a confirmed preview are removed, and the start after an end of the app, planned or not, completes every write and deletion that was begun. |

Abstractions. Image IDs are taken in order of use (unused ones are interchangeable); all images have one size and one
lifetime, and the quota counts images; an instant is half a day.

Bounds. Two images, since a batch must be able to stop between two; three instants are two days with two
instants on the first, so that a write, its expiry and its deletion fall on the same day or not;
two failures are a failure and a failing recovery. `AcrossDays = FALSE` leaves out a clock correction that
crosses midnight, for which `RecordsReplayable` is false
([last section](#what-the-code-does-otherwise)).

Fairness (`LiveSpec`). Time passes, an operation that is under way goes on (it is one thread
with bounded waits), and an app that is closed is started again. Nothing is assumed of recovery in a live engine: it may
happen, as before the next ingest when the projection lags (`ingest.rs:156`), but after an unlink that failed nothing lags and
nobody asks for it (11). So `PendingSettles` promises an outcome after a restart and not before.

### Disclosure

State. `doc` is `receipts/disclosure-grants.json` (grants with charged bytes, cursors, write
receipts), `disk` what a power loss may leave of it; `files`, `synced` and `index` are the revision files of
one artifact, their directory entries and their rows. `session` is the process that holds the grant
lock. `told`, `answered`, `tokens`, `silenced`, `orphaned` are history.

Actions. `Install`, `Revoke`, `Expire` change grants. `Query` and `Export` are a read (charge and
cursor), `BeginWrite`, `Place`, `Settle`, `Project`, `Conflict`, `Commit`, `Answer` the steps of `write_derived`
through `revise_artifact` and the session's commit, `Retry` the answer to a request whose receipt is
there. `Startup` is the artifact part of recovery. `Fail` ends a session at any step.

| Run | Properties | What it shows |
|---|---|---|
| `disclosure` | `DisclosedIsCharged`, `AnsweredIsKept`, `OneChain`, `SilencedIsSilent`, `TypeOK` | With two grants, whatever fails twice: no response is returned uncharged and none charged twice, what a client was told stays true, the files stay one chain within the scopes they were written under, and an acknowledged revocation ends all disclosure and writing. |

Abstractions. One artifact and one store generation; an instant is its bucket; a response is one
unit of the allowance; scopes are absolute (rolling ones are in `TimelineSnapshots`). A power loss
takes the newest unsynced entries of a directory first. The instant of a request is read before it
waits for its locks, at most `MaxWait` earlier, and not before the machine was started (`boot`).

Bounds. Four revisions (a first one, two competing successors, one that may not come first), five
writes (a request under two grants, a request ID used for another revision), allowances 2 and 1, one cursor, two
receipts: every limit of the document is reached. `Tick` only between sessions, since a session reads the clock once.

Fairness. None; all four are safety properties.

### RuntimeSession

State. `config` is the configuration document: preference, mode with its expiry latch,
session (start, heartbeat, end), heartbeat `intent`, pending runtime `gap`, the `last` gap, pending `startup`. `journal` is the set of
durable events, `op` the call under way, `app` whether the engine is off, up, or failed to start.

Actions. A call is `Startup`, `ReconcileRuntimeGap`, `Record` (ingest or retain) or `Terminate`; it first
finishes what an earlier call has left (`ReconcileIntent`, `RecordGap`, `CommitGap`), then goes through
its own durable writes (`PrepareStartup`, `RecordStartup`, `CommitStartup`; `PrepareGap`; `Announce`,
`RecordAttempt`, `RecordCompletion`, `Acknowledge`; `PrepareTermination`). `SetRecordingPreference`,
`SetMode`, `Extend`, `Admission` are the controls of the study. `Crash` comes at any point and an error at
every step; `Tick` and `Correct` move the clock between calls.

| Run | Properties | What it shows |
|---|---|---|
| `session` | `SessionProved`, `GapsHonest`, `ExpiryHolds`, `TypeOK` | Over three launches with one failure or death anywhere, the heartbeat only moves to what the journal has, the time between two sessions is recorded missing whole and (without clock corrections) once, no evidence lies in a gap, and an expired study takes no evidence. |

Abstractions. One attempt and one gap of a reason per instant, in line with the ID digests. A configuration write
replaces the file atomically; one that fails may have replaced it. An append that fails, or whose process dies,
has left its record or not. `AppModel` makes a new session ID for each launch and each retry of one. An attempt is
observed after the previous attempt or gap, and none is under way when a gap is reconciled:
that is `GapAfterEvidence` of `CaptureCoordinator`. A clock set forward looks like a sleep; gaps for a clock correction
are only asked for after one.

Bounds. Three instants, three launches (a startup on top of one that was left unfinished), two attempts, one setting, one
correction, one failure; with more the run no longer ends within minutes.

Fairness. None: the promises are about what is recorded, not when.

### CaptureCoordinator

State. `coordinator` and `epoch` are the two actors (`CaptureCoordinator`, `CaptureExecutionEpoch`): state,
generation, whether the loop is armed, which task owns the lifecycle operation, a clock change that
waits; the current generation and the permit. `task` is where each of the four tasks is (main: start and
shutdown; ui: the one call of the user interface; notices: the chain of notifications; attempt: the capture
loop), `queue` who of those waiting for an actor has waited longer than whom (an order, as a set of pairs), `env` the flags
the preflight reads, `core` the engine.

Actions. One action per stretch between two awaits. An engine call is two: its effect, then its
return to a caller that may have lost its operation in between. `Invalidate` waits for the permit,
`Release` re-queues those who wait, and a preference that finds an operation in progress yields (`Task.yield`): it goes behind
everybody else. `Due`, `Admitted`, `Look`, `Capture`, `Claim`, `Ingest`, `Release`, `Outcome`
are an attempt; `Transition`, `Activate`, `Checked`, `Recorded` the lifecycle operations. A preference whose recovery from a
clock change has begun is reported as persisted whatever that recovery ends with, and the environment is told (`saved`, `Pause`); a
storage retry tells it nothing.

| Run | Properties | What it shows |
|---|---|---|
| `capture` | `GapAfterEvidence`, `NothingSeenRefused`, `RunningIsArmed`, `TypeOK` | In every order of notifications (sleep and wake, lock and unlock, clock change), a wish of the user, the shutdown, the loop, and a failing call or a change of the world: no attempt is being written while a gap is recorded; no screen and no denial for a lock or a sleep is offered to an engine that must refuse it (a late "user-paused" notice may be, 16); and a recorder shown as running can record. |

Abstractions. Window lookup, privacy evaluation, OCR, encoding, deduplication and cadence decide what a record says,
not whether it may be written. The tasks have one priority, so an actor takes them in the order they
came (`queue`); entry steps (`Stop`, `Due`, a retry) are taken when nobody waits for the coordinator.

Bounds. Three notifications with a wish or a fault, or two with both (the constraint `Budget`): a preemption needs two
operations and its recovery one more, and an operation only asks whether it is still the current one.

Fairness. None.

### TimelineSnapshots

State. `journal` and `rows` are the canonical records and the rows of the projection in rowid order, for
events, chunks and artifacts; `instance` is the identity of the index file, `generation` that of the
store, `handle` the generation the app opened with. `reader` is the reader in progress: side, kind, filter,
token or cursor, the pages it has been given and (history) what it would have got at once.

Actions. `Ingest`, `Finalize`, `Derive` write a record and project it, or not ("lag"); `Recover`, `Rebuild`,
`Delete`, `Tick`, `RollBack`, `Open`, `Close` change the world under the reader. `FirstPage` and `NextPage` are the app (timeline,
search, analysis), `SharedPage` and `SharedNextPage` the shared service under a grant (chunks, activity,
supporting evidence, derived artifacts). The selections (`Visible`, `Latest`, `ChunksAtCutoff`,
`Accepts`, `Effective`, ...) are operators, one for each query.

| Run | Properties | What it shows |
|---|---|---|
| `timeline` | `OneSnapshot`, `DetailsOpen`, `TimelineShowsReport`, `WalkMissesNothing`, `TypeOK` | Whatever comes between two pages, the pages of one token are pages of one snapshot and their details open; the timeline shows what the factual report counts; a walk of the shared service shows nothing twice and misses nothing that was there when it began. |

Abstractions. One device, one reader at a time (readers share nothing but the projection). An instant is a whole second and stands
for its bucket. A reader sends the filter it began with, so the scope digest of its token always
fits; a refused call is not a step. A deletion takes everything. Sessions and charges of grants are in `Disclosure`; the filters of
the shared service join observations only.

Bounds. Two buckets, the first with a late gap, two artifacts, up to three revisions, two failures, pages of one item. The
constraints bound the exploration, not the behaviour of a reader: `StillReading` stops when the reader has its last page
(its pages no longer change), `OneKind` does not mix revisions of artifacts with those of chunks, since
no reader reads both, `Regrown` follows the store after a deletion until the projection is as high as a token saw it.

Fairness. None.

## Proofs

Eight of the nine modelled components have a module of proofs. Every theorem holds for all values of the constants that meet
the module's assumptions: any number of processes, files, images, grants, events, failures, and no bound on
anything but the ones the constants name. Where a theorem has a hypothesis beyond that, it is on a constant and leaves
out exactly a case in which the property is false of the code ("What the code does otherwise", the number is given). Where the code
falls short without any such constant, the property itself says what remains: an orphan shard in those of the journal (3), a late
"user-paused" notice in `NothingSeenRefused` (16).

| Module | Theorem | Property | Hypothesis |
|---|---|---|---|
| `CanonicalJournalProofs` | `TypeCorrect` | `TypeOK` | |
| | `AckedStaysSynced` | `AckedSynced`, `AckedLinked` | |
| | `AckedStaysDurable` | `AckedDurable` | no write stops half way (1) |
| | `MarkerAlwaysCovers` | `MarkerCoversUnsynced` | |
| | `OneProcessRestarts` | `Restartable` | one process that recovers first, and (2) |
| | `WholeShardsRestart` | `Restartable` | no write stops half way (1) |
| | `OneProcessKeepsAcked` | `AckedDurable` | as `OneProcessRestarts` |
| | `DamageIsKept` | `CorruptUntouched` | no power loss, which may drop what was not synced |
| | `NoTailOverlooked` | `TailsNoticed` | a scan can rewrite the manifest (2) |
| | `JournalIsEvidenceLog` | `ImplementsEvidenceLog` | no write stops half way (1), a scan can rewrite the manifest (2) |
| `JournalRepairProofs` | `TypeCorrect` | `TypeOK` | |
| | `RepairIsHonest` | `RepairHonest` | |
| `EvidenceDeletionProofs` | `TypeCorrect` | `TypeOK` | |
| | `GenerationsAlwaysHold` | `GenerationsHold` | |
| | `DeletedOnlyAsConfirmed` | `DeletedAsConfirmed` | |
| | `DeletionIsAtomic` | `ImplementsAtomicDeletion` | |
| `AggregationProofs` | `TypeCorrect` | `TypeOK` | |
| | `StaleIsRevised` | `RevisedWhenStale` | |
| | `StartupFinishes` | `StartupDrains` | |
| | `RebuildAlwaysAgrees` | `RebuildAgrees` | `Steady`: no upgrade (8); no failing write, or no image (7) |
| `ScreenshotsProofs` | `TypeCorrect` | `TypeOK` | |
| | `FilesAlwaysAgree` | `FilesAgree` | |
| | `OnlyConfirmedRemoved` | `OnlyConfirmedUnlinked` | |
| | `RecordsStayReplayable` | `RecordsReplayable` | no clock correction to another day (10) |
| `DisclosureProofs` | `TypeCorrect` | `TypeOK` | |
| | `DisclosureIsCharged` | `DisclosedIsCharged` | |
| | `AnswersAreKept` | `AnsweredIsKept` | |
| | `FilesAreOneChain` | `OneChain` | |
| | `RevocationSilences` | `SilencedIsSilent` | |
| `RuntimeSessionProofs` | `TypeCorrect` | `TypeOK` | |
| | `ExpiryIsKept` | `ExpiryHolds` | |
| | `SessionIsProved` | `SessionProved` | |
| | `GapsAreHonest` | `GapsHonest` | |
| `CaptureCoordinatorProofs` | `CaptureTyped` | `TypeOK` | |
| | `CaptureGapAfterEvidence` | `GapAfterEvidence` | |
| | `CaptureSeesAllowed` | `NothingSeenRefused` | |
| | `CaptureArmed` | `RunningIsArmed` | |

Assumptions on constants. Each module names its own, next to the constants, and TLC evaluates them in every run:
`ConstantsAssumption` (journal), `ClosedAssumption` (a shut store is none of its contents) with `Paths` a sequence of files
(deletion), `NoDevice \notin Devices` (repair), `"none" \notin Grants` (grants), finitely many images (screenshots),
`AggregationAssumption` (every event is of some bucket, buckets fall due in their order), `CoordinatorAssumption` (which notifications and
wishes there are; the bounds are any natural numbers). None excludes anything the code does.

### How the invariants were strengthened

None of the properties is inductive as it stands: a retry acknowledges what it finds, a resume goes on with what a
dead process began, a replay reads what an earlier version wrote. What each proof had to add says why the property holds.
TLC checks each of these invariants on the module's instances (`TornInv` on the one that meets its hypotheses).

Journal, `SyncedInv`: `Resync` acknowledges a record because it is in the index, and `Publish` because its
line was written two steps earlier. So: the holder of the writer lock is the only process in the middle of an
operation (`LockHeld`); a record is only ever in the shard of its date (`Filed`); every record an index knows is a line
on disk (`KnownOnDisk`, so a retry syncs the bytes it acknowledges); an append at `sync`, `link` or `publish` has its record
in the shard, synced and linked as far as it has come (`AppendProgress`); a shard that is not linked is named by the marker,
or just being created (`Creating`), or an orphan (`MarkerNamesUnlinked`), and in one that is being created nothing is acknowledged
yet (`UnmarkedUnacked`), so that a power loss takes acknowledged records with orphans only. It otherwise
keeps synced prefixes, and every other step keeps lines (`Keeps`).

Journal, the rest. `CoversInv` adds what a process has established about the marker at each of its steps. `TornInv`: a
fragment is the last line of its shard and not synced, and no process is past the check that finds it (`TornMarked`), which
needs that the process is the only one and has scanned. `TailsInv`: what can be read is in the manifest or in the shard that
the marker names (`Published`), and the manifest holds no record of a shard before those in front of it (`Ordered`), so that a
process which knows the tail of a shard knows all of it. `RefineInv` joins them: an append maps to `Accept` when
its line is written and to `Acknowledge` when it is published, or for the records of an orphan when the directory is synced; a
power loss maps to the loss of what was not acknowledged.

Repair, `RepairInv`: a receipt names an original that is archived (`Promised`), and how far the running repair has
come (`Working`): the original is unlinked only when the successor has exactly the lines that verified.

Deletion, `DeletionInv`: the receipt's state goes with the generation (`ReceiptGeneration`; the increment falls into
`CommitIntent`), what each maintenance step has established under its lock (`MaintenanceSteps`), what the receipt says of the
files on disk (`ReceiptHonest`), and that a request past the lock works in the current generation (`ActiveCurrent`).
`GenerationsHold` counts: each increment uses up a confirmation of its own (`IncrementsConfirmed`). The refinement maps the fence to
`Closed`; the clients see nothing of the steps behind it.

Aggregation, `AggregationInv`. The projection is `Sound`: it covers no more than its events, a bucket that does not
cover them is marked, and every revision behind the cursors has the version the projection was prepared for; a replay keeps
that for whatever part of the journals it has still to take (`ReplayIsSound`). Why no replay ever ends
unmarked and stale: a revision that covers all journaled events of its bucket is only followed by others that do
(`CoverageStays`), since each has a reason to follow the one before. `ChainInv` is for `RebuildAgrees`: the revisions of a bucket,
in the order of the shards, follow one another and gain evidence (`Chain`, `Growing`), the projection shows a first
part of them, and everything is projected whenever an append begins (`KeptUp`). A clock correction cannot break the order, although
shards are dated: the instant of a revision is not before those of its evidence (`Dated`, `NotBefore`), which is what a version-only
revision (8) does not keep and what an unprojected one (7) makes useless.

Screenshots, `ScreenshotsInv`: what each step of a write or deletion has established (`Writing`, `Deleting`), where a power loss
finds the bytes (`Settled`), and that whoever is on the way to be removed was confirmed, recorded and expired (`Requested`,
`Doomed`). `OrderedInv` is for the replay: without a correction to another day the records are in the order in which they were made
(`InDayOrder`), each image has them in the order of its lifecycle, and its row is the state of the last one taken.

Grants, `DisclosureInv` says the same of the document that is read and of the one a power loss may leave: what was
charged covers what was told, the synced revisions have their receipts, cursors and revocations that were returned are there (`Sound`).
A session in the middle of a write has staged a document in which its charge is made (`Writing`); the files have a last one
in any part of them (`HasTips`).

Session, `SessionInv`: which documents can wait in `config.json` together (`Document`), what a pending startup accounts for
(`PendingStartup`: its gaps cover the time from the end of the old session), and which of them the step of a
call goes with (`StepOf`). `AheadInv`, while the clock is not set back: every gap in the journal ends by the end of the session's time
or waits to be committed (`Filed`), and evidence is behind the heartbeat or announced by an intent.

Coordinator, `CoordinatorInv`. An operation can lose its place at every await, so the invariant says what whoever goes on may rely
on. Who recovers, or waits in order to recover, owns the operation unless a shutdown took it, and capture is then not running
(`Operations`). An attempt that may still be written is of the coordinator's generation, and whoever has the operation is still
waiting for it (`AttemptKnown`): that is why a gap comes after the evidence. What was seen was seen with session and recording open
(`SeenAllowed`); the case that is hard is a preference which a suspension preempts after it has waited for the attempts: it still
sets the engine, and must have done so before capture resumes. It has, because it is ahead of the notifications at every actor
both need (`PreferenceFirst`, from the one question whether `<<"notices", "ui">>` is in `queue`). A generation just
begun is the current one when it is used, and nobody else is about to invalidate it (`Generations`, `Lasting`), so that what is
shown as running is armed.

### What proofs and reading changed in the models

- `Disclosure`: the assumption that revisions are ordered allowed cycles of priors; it now excludes them.
- `RuntimeSession`: `PreparedStartup` chose among overlapping cases by a `CASE`, so that any of them could apply; the code's
  `if` comes first, and it is a nested `IF` now.
- `Aggregation`: the assumption on `In` bound more loosely than it read and admitted events of no bucket.
- `Screenshots`, `Aggregation`: a replay was a fold over the concatenated shards. Both now say what is current after
  it by the order of the records: the last one before a place decides what is accepted there. TLC found both forms of `Aggregation` equal in every state of its
  instances.
- `CanonicalJournal`: the creation of a shard and its marker were one step, which no kill came between. They are two, and what
  a power loss takes because of it is history (`orphans`, `lost`). A scan that fails on the marker leaves its new index behind.
- `Screenshots`: a live engine was assumed to recover. It is not, and the promise begins with the end of the app.
- `CaptureCoordinator`: a storage retry that succeeded paused the environment, and a preference whose recovery failed was not
  passed on to it; both follow the code now. `queue` was a sequence of all tasks, of which only the order of those that wait matters; it is that order now. A preference that waited for an operation to end stayed in front of the coordinator's queue
  and held up the very operation; the code yields (`CaptureCoordinator.swift`, `Task.yield`), and the model does so now.

### What is only model-checked

`TimelineSnapshots`, all properties. Its reader is sequential; what its invariants need is what the selections of the queries
return, and those are filters, folds and sorted sets (`SelectSeq`, `FoldLeft`, `SetToSortSeq`) whose lemmas are inductions over
the journal, which the provers here cannot do.

Liveness (`Reopens`, `PendingSettles`) and `ENABLED` are out of the prover's reach. So are recursive operators: no module with a theorem uses one. The library's induction theorems
cannot be instantiated; where a proof needs a least or a last element it takes one by well-foundedness (`LeastNumber`, `LeastInstant`,
`WFMin`).

## What the code does otherwise

Statements the models refute. Each is excluded from the runs by the constant or the premise named,
and reproduced by changing it.

Journals.

1. Torn tail (`journal.rs:512`). A scan that does not repair caches the size of a shard including its
   partial tail; the next append is merged with the tail, synced and acknowledged, and no reader can
   read it. `AckedReadable` is violated with `Scanners = {a}`, `Faults = {"torn"}`. For the same reason a
   marker written in that state remembers a size that recovery undercuts by truncating the tail
   (`journal.rs:530`), and every startup fails: `StartupNotBlocked` with `"crash"` added.
2. Manifest rewrite (`journal.rs:519`). A scan whose manifest rewrite failed still clears the marker, so the
   record is announced nowhere: `TailsNoticed` with two processes, `Scanners = {b}`, `Faults = {"manifest", "rewrite"}`.
   In a repair the same leaves an open app with an index that recreates the repaired original, so that the date has two active shards.
3. Orphan shard (`journal.rs:822-825`). When the process is killed between the creation of a shard and its marker, or the marker
   cannot be written, recovery finds no marker and syncs no directory, and the next append finds the shard existing
   (`existed`, 822) and skips the directory sync (865). A power loss can then take a shard with acknowledged records: `acked \subseteq Visible`
   is violated with `Faults = {"crash", "power"}`. The properties leave out exactly these records (`orphans`, `lost`).

Repair.

4. `docs/recovery.md:24-30` says that a repair resumes at every boundary. After a death between the unlink
   (`journal.rs:761`) and the completion the app starts and appends to the successor, and every retry then ends with
   "successor shard bytes changed" (`journal.rs:746`): the receipt never completes and a chunk repair never
   records the loss. That is why `SuccessorHonest` speaks of completed repairs only and `Reopens` of a store that opens.
   If that successor is damaged and repaired in its turn, a retry of the old repair recreates the first successor, and
   the date has two active shards for good. A retry with another device ID is refused too.
5. A repair refused because the shard is healthy leaves a marker whose size the truncation of a partial tail
   undercuts; startup is then blocked until repair is called again.

Deletion.

6. Opening the projection is not under the store lock (`sqlite.rs:39`): between its fence check and its write a
   deletion can commit, and every resume fails on the changed file. With `Clients = {mcp}`, "each file a committed
   deletion has left is absent or as previewed" fails for the projection, which is why `CommittedEvidenceFrozen` is about evidence.

Aggregation.

7. `retain_screenshot` does not look at `projection_lagging` (`study.rs:582`); after a failed chunk projection
   it appends a second revision with the same prior, and the store no longer opens: `RebuildAgrees` with
   `Events = {obs, image}`, `Faults = {"busy"}`, `DayLength = 4`.
8. A version-only revision goes to the shard of the upgrade (`chunker.rs:147`); a pending gap ingested later puts
   the next revision into an earlier shard, and no rebuild succeeds any more: `RebuildAgrees` with
   `Events = {obs, gap}`, `Faults = {"upgrade", "crash"}`, `DayLength = 2`.
9. After the clock was set back, a batch full of buckets whose chunks lie in the future is repeated for ever and
   startup never returns (`reconcile.rs:41`): with `Faults = {"rollback"}`, `call.startup ~> pc = "up"` fails under `Spec`.

Screenshots.

10. A clock correction across midnight puts the deletion records of an image into a shard before the one with its
    write completion; in date order it is retained again, a second request can follow, and
    `validate_lifecycle_chains` refuses every startup (`retention.rs:234-249`): `RecordsReplayable` with `AcrossDays = TRUE`.
11. `docs/data-contract.md:88` and `study.rs:647` say that the app reconciles pending images; no Swift code calls that command. A live
    engine recovers only before an ingest, when its projection lags (`ingest.rs:156`); a deletion whose request was projected and
    whose unlink then failed leaves nothing lagging, so that the image stays until the app is started again: with
    `Undeleted # {} ~> Undeleted = {}` in place of `PendingSettles` TLC finds an image whose recorded
    request is never carried out.

Grants and artifacts.

12. Recovery projects a revision whose directory entry was never synced (`recovery.rs:110-112`), and
    `write_derived` compares tip IDs only (`service.rs:286-289`): after a power loss took the file, the scope of
    a new parent is judged by the old row. `OneChain` promises the scope until then (`orphaned`).
13. A write answered with "artifact-conflict" because its projection failed has placed its file and becomes
    current at the next recovery (`artifacts.rs:95`, `projection.rs:90`).
14. A rolling grant can never write derived artifacts (`policy.rs:114-125`, `service.rs:455`), although the app can issue one
    (`DisclosureGrantService.swift:127`).

Session.

15. The ID of a runtime gap digests session, start, end and reason, its content also has `recorded_at`
    (`runtime.rs:953-991`): a correction forward over a..b and then back from b to a is a stable-ID conflict.
    A correction at the same instant and of the same reason as the last gap is skipped (`runtime.rs:404-413`).

Capture.

16. Resuming updates the engine's preference before the paused flag the preflight reads
    (`AppCaptureRuntime.swift:193-206`): an attempt in between writes a "user-paused" event that the engine refuses
    (`study.rs:735-778`), and the coordinator stays at `repairRequired` until restart. `NothingSeenRefused` allows exactly this refusal.
17. After `stop()` a late failure is still handled; a recovery from a clock discontinuity holds the suspended state and
    `willSleep` / `didWake` are ignored, so a sleep in it is never recorded; and a clock change noticed in `privacyBoundaryChanged`
    stays undrained.

Readers.

18. An event recorded in the very second of the cutoff is neither found nor opened although its chunk is shown
    (`search.rs:67-68`, `queries.rs:296`: "…Z" is compared with "…+00:00"). `DetailsOpen` speaks of events before the cutoff.
19. Two revisions of a chunk with one `generated_at` are ordered by their digest (`queries.rs:448`, `721-724`): the
    timeline may keep the superseded one while the factual report has the current. `TimelineShowsReport` allows it.

## Plan

Done: the modules and proofs above. What is left, in this order.

Proofs: `OneSnapshot` of `TimelineSnapshots`, once its selections are stated without folds. `StartupNotBlocked` for several processes of which only one recovers is open:
the hypothesis of `OneProcessRestarts` may be stronger than it has to be.

Modelling: the lock order over all named locks (`locks.rs`); `assign_coverage` (`coverage.rs`) as operators against a
per-second reference; several artifacts under one grant document.

## Not modelled, and why

Health and export are read-only walks and keep no state. The contract
types are validation functions. The MCP server and the admin tool are envelopes that add no
state of their own beyond what is named above; of the C ABI the handle and the reading controls are in `TimelineSnapshots`, and
buffers, JSON and error codes are left out. The user interface holds view state. Within the modelled components are left out: the
contents of chunks and artifacts, full-text search, the cadence guard, the free-space limits, factory-reset inventories,
the second quarantine copy of a repair. Quarantining a record that later shards depend on, which makes the
projection refuse startup, needs a journal and its projection together and is in neither module. SQLite, flock and the
file system are assumed to do what their interfaces say: a committed transaction is atomic and
durable, a lock excludes, `sync_all` makes bytes durable and a directory sync its entries.
