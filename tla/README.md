# Verification of the Polymarket 1h x 7 canonical data backend

The repository builds 805 partitions (seven assets, 115 UTC days) of one-hour
market data and publishes each of them, as six content-addressed assets, to
draft GitHub releases.  The releases are the only durable state: plans,
recoveries and the final certification are derived from them.  This directory
holds TLA+ modules that model the program, TLC configurations that check them
on small instances, and proofs of the main results for every instance, checked
by TLAPS.

`PROJECT.json` lists the components, the runs with their properties, the
definitions with the source lines they model (`map`), the hazards of the code
with the properties that cover them, the findings and the theorems.  Paths in
this file are relative to the repository.

## 1. The system

| Part | Code | State | Operations | Hard behaviour |
|---|---|---|---|---|
| Publication | `release.py`, `scripts/actions_backend.py` (plan, publish, recover, certify), the workflows | the assets of each release, the release concurrency group, the bundle and the listing a job works from | plan a day, take the lock, read the inventory, check, upload, reconcile, redownload, recheck, certify | jobs planned outside the lock, stale listings, kills between files, lost and late uploads, competing dispatches, certification reading while jobs write |
| Partition build | `pipeline.py`, `state.py`, `manifest.py`, `parquetio.py`, `scripts/run_backfill.py` (`run_staged_partition`) | the checkpoint, the output files, the ledger | open, write, checkpoint, publish, record, rerun after a crash | a crash between two files, or between a file and its checkpoint; sources that differ between two runs |
| Staged day | `scripts/run_backfill.py` (`prepare_staged_day`), fragments | the fragments of the current object and the ones that wait, the staged markets | scan an hour, split it, stage, defer, evict | a market spans two objects; a kill within an object; sparse days |
| Segments | `scripts/run_backfill.py` (`compute_day_segment`, `assemble_day_segments`), the accelerated-day workflow | four segment checkpoints, the bundle | compute, store, authenticate, assemble | duplicates, gaps and mixed retrievals between segments that read at different times |
| Order book | `pmxt.py`, `resample.py`, `quality.py`, `pipeline.py` (`transform_market`) | the book of each token, the grid, the gaps | order, deduplicate, snapshot, change, prune, sample, classify | rows of one millisecond, contradictory and repeated rows, a token without a snapshot |
| Draft creation | `release.py` (`ensure_draft`, `_single_draft_id`, `_releases_by_tag`) | the releases of a tag | look up, post, confirm, reconcile | a creation whose answer is lost, a listing that lags, a job killed between the two, a draft somebody publishes |
| Acquisition | `acquire.py`, `scripts/run_backfill.py` (`_probe_source_identity`, `_acquire_with_retry`) | the temporary file, the object, its identity record | pin, verify what is there, download, check, replace, record | a crash between the object and its record; an object revised between the pin and an attempt, or revised back; the end of the retries |
| Day spool | `spool.py`, `scripts/run_backfill.py` (`prepare_shared_day`) | the SQLite spool, the completed objects | append, record, discard what is uncommitted | a crash between the append and the record (no command uses this path at this commit) |
| Canary | `scripts/actions_backend.py` (`command_canary`, `qualify_canary_candidates`, `_execute_canary_round`, `minimum_canary_cover`, `_require_canary_receipt`), the canary job | the locals of the search, draft releases of the run, the branch with the receipt | search a round, build and publish its partitions, verify them, select the cover, commit and push the receipt; validate it in every production command | several rounds that search different assets, a killed run and its re-run, drafts it left behind, a branch that moves while it runs, the passed deadline |
| Discovery, sources | `discovery.py`, `sources.py`, `binance.py`, `inventory.py` | none | parse and validate | none: parsing and network reads |
| PMXT scan | `pmxt.py` (row groups, decoding) | none | filter and decode | one scan for seven assets must equal seven scans |
| Audit, CLI, helpers | `audit.py`, `cli.py`, `models.py`, `timeutil.py`, `planner.py` | none | conversions and reports | none |

How they interact.  A dispatch plans a day from the remote inventory.  Segment
jobs discover the markets of their starts, acquire the hourly objects they
need, and stage the markets (staged day); the assembly joins their checkpoints
into one bundle (segments).  The publish job takes the concurrency group of the
half-month release, builds each partition from the bundle (partition build,
which turns events into samples and dispositions: order book) and publishes it
(publication).  A `recover-day` job does all of that under the release lock.
The only state these jobs share is the release itself; bundles and checkpoints
move between them as workflow artifacts, kept for one day.  The first job of a
release creates its draft (draft creation).  Every production command first
validates the receipt that a canary run has committed to the branch; the canary
runs the same child process over a few starts and publishes to draft releases
of its own.

What makes each part correct:

* Publication: a durable partition is one retrieval, never changes, and
  whatever is reported published or certified is durable.
* Partition build: what checkpoint, ledger and release say of a partition is
  one complete build, whatever was interrupted.
* Staged day: each market gets exactly its events, as soon as its hour is over,
  and nothing is retained; the provenance names the objects.
* Segments: the bundle is what one job would have staged from one version of
  each object; a day whose segments have markets gets one.
* Order book: a sample is the book as of its grid point, and a market is
  admitted only without gaps and contradictions.
* Draft creation: the tag has no more drafts than a lost creation stays hidden
  for delays, one at least, and in the end some job gets it.
* Acquisition: the object handed to the scan is in whole the version that was
  pinned before any attempt, and nothing left in the directory prevents that.
* Canary: a receipt that is written is one its consumers accept, its cover is
  minimal, its evidence is the run's own, it unlocks the tree it was proven
  with, and production is unlocked in the end.
* Day spool: each event of a completed object once.

## 2. Modules

| Module | Kind | Extends |
|---|---|---|
| `Dataset` | abstract specification: partitions become durable once and for all, then the data set is certified | |
| `Publication` | component | |
| `PublicationProperties` | properties, refinement mapping to `Dataset`, inductive invariant | `Publication`, instance of `Dataset` |
| `PublicationProofs` | proofs | `PublicationProperties`, `TLAPS` |
| `PartitionBuild`, `PartitionBuildProperties`, `PartitionBuildProofs` | component, properties, proofs | each the one before |
| `StagedDay`, `StagedDayProperties`, `StagedDayProofs` | component, properties, proofs | each the one before |
| `Segments`, `SegmentsProperties`, `SegmentsProofs` | component, properties, proofs | each the one before |
| `OrderBook`, `OrderBookProperties`, `OrderBookProofs` | component, properties, proofs | each the one before |
| `Acquisition`, `AcquisitionProperties`, `AcquisitionProofs` | component, properties, proofs | each the one before |
| `DraftRelease`, `DraftReleaseProperties`, `DraftReleaseProofs` | component, properties, proofs | each the one before |
| `Cover` | the minimum cover: the dynamic programme of the code and its reference definition | |
| `Canary`, `CanaryProperties`, `CanaryProofs` | component, properties, proofs | `Cover`, then each the one before |
| `MCPublication`, `MCPartitionBuild`, `MCStagedDay`, `MCSegments`, `MCOrderBook`, `MCAcquisition`, `MCDraftRelease`, `MCCanary` | values of the constants for TLC | the properties |

Definitions whose comment begins with "Mutant:" are wrong on purpose.  Each is
a plausible bug of the definition that follows it, is used by no
specification, and shows that a property can fail: with the mutant in place of
the definition, TLC finds the property violated.

### Publication

An asset is identified by partition, file and digest, because its name is
content addressed (`release.py` `content_addressed_name`).  A file that holds
the retrieval time (the manifest) has a digest per version of the bundle; the
others have one digest.  `remote` gives each asset the state the API reports:
absent, `starter` (a half-finished upload) or `uploaded`.

A job is a publish job of an accelerated day or a whole `recover-day` job.  Its
`pc` follows the code: `Plan` outside the lock (`command_plan`,
`validate-accelerated-matrix`), `Start` (the workflow's concurrency group),
`ReadInventory` (the inventory under the lock, `_require_complete_staged_coverage`),
`NextPartition` (the single `list_assets` of `publish_partition`), then for each
file `CheckFile` (conflict, `delete_incomplete`), `Upload`, `Reconcile`
(`_reconcile_upload`), `VerifyFile` (the redownload), and at the end `Recheck`.
The environment is `LoseUpload` (a lost, delayed or half-finished upload),
`LandUpload` (a request that takes effect after its client gave up), `Abort`
(a kill or a lasting error), `Retry` (a relaunch) and `Expire` (the retention of
the artifact ends).  `CertifyRead` and `Certify` are `command_certify`.

Abstractions.  A release is read in one step (its pages are not told apart, see
the hazard at `actions_backend.py:931`).  An upload in flight dies with its job:
what a request of a killed job can still do after the next job took the group
is a hazard without a property (`release.py:303`).  Bytes are intact, so the
redownload compares equal.

### PartitionBuild

One partition in a work root that survives the process.  A build is an identity
(markets and source digests) and a retrieval time; a table is a function of the
identity, the manifest also of the time.  `Begin` is a new run with a new
retrieval time and possibly other sources; `Open` is the identity check and the
shortcut of a verified build; `AdvanceIfNeeded`/`AdvanceTo` are
`StateStore.advance`; `WriteTable` and `WriteManifest` replace equal bytes and
refuse others; then `ListDirectory`, `PublishFile`, `Redownload`,
`MarkPublished`, `DropStage`, `Record`, `Clean`.  `Kill` stops the process
before any step, and in a redownload may leave its copy in the output
directory, which the next run lists and publishes (`PublishLeftover`).

### StagedDay

The markets of a day and the objects their events lie in.  For each object:
`OpenObject` (an object no market needs fails the run; a known gap has no
events), `WriteFragment` (one numbered fragment per market under
`shared/current`), `EndScan`, then per market `StageMarket` or `DeferMarket`,
`EndMarkets`, `EndObject` (nothing may be left under `current`), and `Finish`.
Fragments on disk survive a kill; what the process knew of them does not, and
`discard` removes only what it knows and then the directory, which must be
empty.

### Segments

Starts are numbered 1 to N, and object o covers hour o, so that a market needs
objects `start - 1` and `start`.  A segment takes a slice of the starts
(`day_segment_starts`), discovers (`Discover`), reads each object at the version
it has at that moment (`Read`), and stores its checkpoint (`Checkpoint`).
A segment that found no market reads nothing, and its job fails in reporting the
receipt (section 4).
`Assemble` requires all checkpoints, their exact cover, one version of each
object and one disposition of each slot; a run that fails is followed by
another one without checkpoints (`NewRun`).  The surroundings are `Lose`,
`Revise` (the archive publishes an hour again) and `Resolve` (a market is
resolved between two jobs).

### OrderBook

One market: `Events` orders and deduplicates the rows of a token,
`AfterRow`/`Replayed` is `_token_states` with pruning and checks at the last row
of each receive time, `Sample` and `EndGrid` are `resample_200ms` with its index
and its open gap, `Reconstruct` and `Classify` are `transform_market` and
`classify`.  Prices are ticks from 0 to One, a time unit is one grid interval; a
best quote of 0 or One claims an empty side.  `WellFormed` is what decoding
leaves of a row (`_levels`, `_validate_event_shape`); every row of an input has
it.  A snapshot may be crossed and claims may be any prices.  A level outside
these prices or with a negative size (`Level.__post_init__`) ends the run with
an error and is not modelled.

### Acquisition

One object of the archive and one work directory, with processes that follow
each other in it.  A version is one content with one ETag; a file holds a
version in whole, cut short or garbled; `partial`, `final` and `record` are the
three files.  `Start` takes the identity the canary pinned, or `Probe` pins one
(`_probe_source_identity` with its retries).  An attempt is `VerifyExisting`
(`_verify_existing`; a copy that fails it is removed, then its record,
`DiscardRecord`), `Get` (the headers; another identity than the pinned one is
not retried), `Receive` (the body and its checks), `Replace` and `Record` (the
two `os.replace`).  `Retry` and `Raise` are the two ends of an attempt that
fails, `Consume` is the scan, after which the object is removed and the record
stays.  The environment is `Revise` (another version under the URL, or an
earlier one again) and `Kill`; requests and bodies fail at any step.

### DraftRelease

The releases of one tag and the jobs that call `ensure_draft` one after the
other.  `Look` is a listing and what follows from it (`_single_draft_id` when it
shows the tag), at each of the four places the code lists; `Post` sends one
request, answered or not, with a release or without; `SleepBeforeRetry` and
`SleepLonger` are the delays.  A release has a lag: the number of sleeps until
listings show it.  `Kill`, `LookFails` and `Promote` (somebody publishes the
draft) are the environment.

### Canary and Cover

`Cover` holds `minimum_canary_cover` (`Extend` is one pass of the programme over
the starts, `Better` its comparison) as a recursive function, and
`IsMinimumCover`, which says what a minimum cover is without it.

A run of the canary is `Dispatch` (the checkout), then for each round `Qualify`
(`qualify_canary_candidates`: the walk down the starts, the rejections, the
reuse of identities, the HEAD requests), `Prepare` and `BuildPartition` (the
child run), `RecordRound` (the remote partitions become proofs), and `Finish`
(the receipt) and `Push` (commit, fast-forward push).  `Authorizes` is
`_require_canary_receipt` with `_validate_receipt_coverage`.  `Kill` and
`TimeOut` end a run, `Rerun` runs it again with the same id on the same commit,
`OtherPush` moves the branch, `Produce` is a production job that publishes while
the canary runs.

Abstractions.  A market is unresolved, excluded or sound; its market and
condition ids are one identity.  A partition of a canary draft is one
step, there once its manifest is (how its files arrive is `Publication`).  The
source-truth audit, which runs before, is a precondition.  The check that the
candidates of a round lie in one UTC day (`actions_backend.py:2100`) is left out:
the rounds of the authority were checked for it when they were read
(`actions_backend.py:535`).

## 3. Runs

Run a configuration with `tlc -config <cfg> <module>`.  Deadlock is checked
where a process or a job can always be started (`acquisition`, `draft`).  In the
other runs it is not, because every part really ends: a day is published,
recorded, staged, assembled or classified, production is unlocked, and then
nothing is left to do.

| Run (module, cfg) | Checks | Bounds |
|---|---|---|
| `one_day` (`MCPublication`, `PublicationOneDay.cfg`) | `IInv`, `OneRetrieval`, `DoneIsDurable`, `CertifiedIsDurable`, `UploadedStays`, `ImplementsDataset` | one release, a day of two partitions of three files (one stamped), a staged dispatch and a recover job, 2 attempts per upload, 3 faults, 1 expired bundle |
| `retry` (`PublicationRetry.cfg`) | `StagedDayCompletes` | two dispatches of the same day, 2 faults, fair |
| `relaunch` (`PublicationRelaunch.cfg`) | `InterruptionIsSafe`, violated | one recover job, one fault, fair |
| `build_killed` (`MCPartitionBuild`, `PartitionBuildKilled.cfg`) | `IInv`, `PublishedIsComplete`, `VerifiedIntact`, `CheckpointForward`, `PartitionRecorded` | two tables and the manifest, two identities, two retrieval times, 3 kills anywhere, fair |
| `staged_killed` (`MCStagedDay`, `StagedDayKilled.cfg`) | `TypeOK`, `StagedExactly`, `EvictedInTime`, `SourcesNamed`, `NothingRetained`, `DayStaged` | four slots of two assets in four hours, any subset of them a market, any events, one known gap, 2 kills anywhere, fair |
| `staged_sparse` (`StagedDaySparse.cfg`) | `ExclusionsAreDurable`, violated | two markets three hours apart, no kill |
| `segments` (`MCSegments`, `Segments.cfg`) | `IInv`, `AssembledIsWhole`, `EverySlotOnce`, `SegmentsHaveMarkets`, `DayAssembled` | seven starts, two assets, two segments, 24 inventories, a gap, a late market, two revisable objects, one lost job, fair |
| `order_book` (`MCOrderBook`, `OrderBook.cfg`) | `TypeOK`, `SamplesAreAsOf`, `GridDivided`, `AdmittedIsSound` | five prices, two grid points, up to four rows of eleven kinds in one token and six streams in the other, 34 854 markets |
| `order_book_trade` (`OrderBookTrade.cfg`) | `ContradictionIsConflict`, violated | the same markets |
| `acquisition` (`MCAcquisition`, `Acquisition.cfg`) | `TypeOK`, `AcquiredIsPinned`, `EventuallyAcquired` | two versions, 2 delays, 3 revisions, 5 faults, fair |
| `draft` (`MCDraftRelease`, `DraftRelease.cfg`) | `TypeOK`, `DraftsBounded`, `EventuallyDraft` | 2 delays, an answered POST appears after up to 3 sleeps, a lost one after up to 2, 4 releases, 6 faults, fair |
| `canary` (`MCCanary`, `Canary.cfg`) | `TypeOK`, `ReceiptAuthorizes`, `CoverIsMinimum`, `EvidenceIsOwn`, `ProvenOnce`, `CommittedOnOwnTree`, `EventuallyUnlocked` | two assets, two rounds of four starts (three computed), one missing object, 96 worlds of markets, 3 attempts, 2 faults, fair |

Why the bounds are enough.  *Publication*: three files give one before, at and
after the stamped one in sorted order, so a kill meets every relation between
what is uploaded and what a version decides; two partitions make a job skip one
and publish the other; two jobs on one lock are enough for every order in which
an inventory can go stale, and the certification reads between any two of their
writes.  Two attempts show the first,
the last and the one in between reconciled; three faults allow a kill on top of
a lost upload of each job.  *PartitionBuild*: the manifest sorts between two
tables, two identities and two times distinguish every kind of conflict, three
kills interrupt a run, its repetition and the repetition of that.  *StagedDay*:
four hours hold a market whose objects are both in the day, one at each end, two
markets that share an hour, and empty hours between; the second kill meets the
leftovers of the first.  *Segments*: seven is not a multiple of two, so the
slices have different lengths and a boundary object both segments read; a
revision can fall between the two reads; some inventories leave a segment
without a market, for good or until the late market is resolved.  *OrderBook*: five prices are 0 and
One, which as claims mean an empty side, and three between that make a price
better, worse or equal to a claim; two grid points and rows before, at and after
them exercise carry-over and gaps, and three rows after an anchor form every
split into receive times.
*Acquisition*: two versions and three revisions let the archive go to another
version and back to the pinned one between any two steps, twice; five faults
exhaust the retries of one process and kill two.  *DraftRelease*: with two
delays there is a first and a last one; an answered creation that appears after
three sleeps outlasts all delays of its job; a lost one that appears after two
is missed by the look before the next POST; six faults lose the answers of
several jobs in a row.  Four releases are more than any behaviour creates, so
that the bound hides nothing.  *Canary*: with two assets a round proves none,
one of each or both, and two rounds are a first and a last one; four starts of
which three are computed make the search stop early or not; in 32 worlds of the
second round two markets share an identity.  Three attempts are one that fails,
one that meets its drafts, and one more; two faults are a kill and another
attempt's push, or the re-run of a killed run.

Symmetry is used only for the retrieval times of a dispatch (`VersionSymmetry`),
which the code compares for equality alone, and only in runs without liveness.

Fairness.  `Publication`: a started job runs on (weak fairness of its steps);
`Start` has strong fairness because the concurrency groups of the workflows say
`queue: max` and `cancel-in-progress: false`, so that each queued job gets the
group in the end, although others take it again and again; failed jobs are
relaunched (`Retry`) and days dispatched (`Plan`), which is the operator's
procedure of `docs/pipeline-operations.md`.  Faults have a bound and are not
fair.  `PartitionBuild` and `StagedDay`: the executor runs and is started again
after a kill; kills are bounded and never fair.  `Segments`: jobs run and a
failed run is followed by another; neither a revision nor a resolution is fair.
`OrderBook` has no liveness property: it is a loop over finite data.
`Acquisition`: a process goes on, and a failed one is started again by the run
that follows (weak fairness of `Process`).  `DraftRelease`: a job goes on and
there is always another one, because an unpublished partition is dispatched
again.  `Canary`: a run goes on, and production that is locked makes somebody
dispatch a canary (`WF(Job)`, `WF(Dispatch)`); neither re-runs nor pushes of
others are fair.

Conditions of the liveness properties.  `PartitionRecorded` asks for sources
that stay the same and for kills outside two boundaries (section 4, the
manifest and its checkpoint, and the leftover copy of a redownload);
`DayStaged` asks for days without two consecutive empty hours between markets
(`staged_sparse`) and for no fragment left within an object (section 4);
`DayAssembled` asks that in the end each segment has a market and needs all
objects it reads (section 4);
`EventuallyAcquired` asks that the archive stops to change, at the qualified
version if the canary pinned one; `EventuallyDraft` that nobody publishes the
draft and that a creation without an answer is listed after the delay; `EventuallyUnlocked` that the first round's starts are `Reconstructable`
and that there are more attempts than faults.  Without these conditions the
properties are false.

`DraftsBounded` assumes nothing about the lag of a lost creation (`LostLag`): the
tag may get as many drafts as there are delays before the first of them is
listed, up to the POSTs of one call.  With two, every later lookup fails, which
is why `EventuallyDraft` has its condition; the code has no defence, because
GitHub accepts a second draft of a tag.  Releases are listed while the next job
starts, which takes it longer than a listing lags.

## 4. Findings

* **A killed recovery cannot be relaunched** (`relaunch`).  `docs/pipeline-operations.md`
  says interruption is safe at file-upload boundaries.  A recover job killed
  after `manifest.json` and before the last file leaves an asset with its
  retrieval time; the relaunch retrieves at another time and conflicts with it,
  then and for ever.  Staged bundles do not have the problem: a retry publishes
  the same bytes (`StagedDayCompletes`).
* **A sparse day has no outcome** (`staged_sparse`): two consecutive hours
  without a market make an object nobody needs, which fails the run.
* **A trade hides a contradiction** (`order_book_trade`): the check and the
  pruning at the end of a receive time are skipped when its last row is a
  trade, and an admitted market is sampled with a crossed book.

Five behaviours have no run of their own:

* A segment without a market fails.  `prepare_staged_day` returns early
  (`run_backfill.py:731`) with metrics that have no `source_objects`, and `main`
  reads that key for its report (`run_backfill.py:1807`) once the receipt is
  written: the job ends with a `KeyError`, its checkpoint is not stored and the
  day is not assembled, on no attempt.  `docs/pipeline-operations.md:11` says
  "each day fans out to four compute segments, assembles, then publishes", and
  `docs/dataset-contract.md:7` "Partial boundary days are canonical partitions":
  the last day of the frozen interval has one start, so three of its four
  segments have none.  `SegmentsHaveMarkets` states it, and
  `FewStartsNeverAssembled` proves it of every such day.  A day that one job
  computes (`run_day`) does not read the key.
* A kill between `manifest.json` and its checkpoint (`manifest.py:36`) leaves an
  immutable file that every later run in that work root, which has another
  retrieval time, contradicts.
* A fragment left under `shared/current` by a kill within an object
  (`run_backfill.py:458`) makes the removal of its directory fail and stops the
  day in that work root.  Actions runners start with an empty one.
* A kill within a redownload leaves `.NAME.verify` in the output directory, and
  the next run publishes it as one more asset (`PublishLeftover`); the inventory
  then reports an anomaly (`release.py:108`).
* `docs/pipeline-operations.md:4` bounds a canary round by six adjacent
  candidates and seven PMXT objects.  The candidates need not be adjacent: each
  rejected start between two of them adds an object, up to the
  `CANARY_MAX_SOURCE_OBJECTS` the code allows.

## 5. Proofs

Check them with `tlapm <module>`.  All of them hold for every value of the
constants that satisfies the named assumptions (`PlanAssumption`,
`BoundAssumption`, `MissingAssumption`, `BuildAssumption`, `SegmentsAssumption`,
`DayAssumption`, `MarketAssumption`, `AcquisitionAssumption`, `DraftAssumption`,
`CanaryAssumption`); TLC evaluates the same assumptions on its instances.

*PublicationProofs*: `TypeCorrect`, `InvariantHolds`, `OneRetrievalHolds`,
`DoneIsDurableHolds`, `CertifiedIsDurableHolds`, `UploadedStaysHolds` and
`PublicationImplementsDataset`.  The properties are not inductive: that an
upload is consistent with what is already there depends on a listing read
earlier.  `IInv` adds that a running job holds its group (`LockHeld`), so that
only its own steps touch its release; that the listing it holds is exact for
the files ahead and its own files are uploaded behind (`ListingExact`); that
files become durable in sorted order (`SortedUploads`), so that a partial
partition holds a prefix of one retrieval; and that partitions skipped because
they were durable remain so (`SkippedDurable`).  `JobRemoteStep` reduces every
job step to what it does to the release: nothing, delete an asset that is not
uploaded, or store one no other digest competes with.  The other lemmas follow
each part through these three cases.  The refinement maps a partition to its
digests when all six files are durable: at most one partition becomes durable in
a step (`OtherContent`), its content is the bundle of one version
(`OneRetrieval`) and stays (`ContentKept`).

*PartitionBuildProofs*: `InvariantHolds`, `TypeCorrect`, `VerifiedIntactHolds`,
`PublishedIsCompleteHolds`, `OneBuildHolds`, `CheckpointForwardHolds`, for any
kill points and any number of kills.  `IInv` relates the four places that
survive: what is on disk was written for the identity of the checkpoint
(`DiskIsCheckpoints`), a run that is at a step has reached its phase
(`PhaseReached`), what is in the release is what the verified checkpoint binds
(`RemoteIsDisk`), and what is not left to do is uploaded (`LoopProgress`).
There is one lemma for each action (`StopKeeps` and its like); what they share is
that a step that leaves the disk or the release alone keeps what is said of it
(`Undisturbed`, `BetweenRuns`).

*SegmentsProofs*: `SlicesCoverTheDay`, `InvariantHolds`, `TypeCorrect`,
`AssembledIsWholeHolds`, `EverySlotOnceHolds`, `ProvenanceIsNeededHolds`,
`SegmentsHaveMarketsHolds`, `FewStartsNeverAssembled`.  The runs check
`ProvenanceIsNeeded` as a part of `IInv`.
`SlicesCoverTheDay` is arithmetic: `N * k \div K` is monotone and runs from 0 to
N, so the slices are disjoint and together the day for any N and K; TLC sees
one pair.  The invariant says what a job or a checkpoint may hold (its own
starts, one version of each object, complete and with a market when done) and
`AssembledSound` derives the properties of the joined bundle.  With fewer starts
than segments the first slice is empty (`FirstSliceEmpty`), so that no bundle can
have a market in each.

*StagedDayProofs*: `TypeCorrect`, `StagedExactlyHolds`, `EvictedInTimeHolds`,
`SourcesNamedHolds` and `NothingRetainedHolds`, for any slots, hours,
inventories, gaps and kills.  `IInv` says for each phase of an object what the
run knows exactly: which markets are staged, which events wait and which objects
are in the provenance (`BeforeMarkets`, `AtMarkets`, `AfterMarkets`, `AtRest`).
What killed runs left is not known and not bounded; `NoneBehind` says that a
market that was staged has none of it, because its directory could only be
removed when it held nothing else.  That a day has a first and a last hour
(`FirstAndLast`) follows from the well-foundedness of finite sets (`Earliest`).

*OrderBookProofs*: `InvariantHolds`, `GridDividedHolds`, `TypeCorrect`,
`SamplesAreAsOfHolds` and `AdmittedIsSoundHolds`, for any rows and window.  Every grid point has a sample, a closed gap, the open gap, or none of
them (`HasOne`, `HasNone`), and the invariant `Divided` says that exactly the
points that were passed have one.  That samples are the books as of their time
compares two definitions that have nothing in common: the code replays rows one
by one, in receive order, and prunes at the end of a batch; `BookAsOf` asks of
each price for the last row that says something of it.  `EventsListed` says
that the events are the kept rows in their order, each once.  `RightAt` is what
is true of the replay after i events: the book has at every price the size that
the last word on it (`StandsAt`) quotes, and the states tell for every time what
was received by then.  One row keeps it (`RowRight` and its lemmas, by the type
of the row), so it holds at the end, and `Reproduced` carries it through the
sampling.

*AcquisitionProofs*: `TypeCorrect` and `AcquiredPinned`, for any versions,
revisions, retries and faults.  `DownloadIsPinned` says what the files hold
while the steps of a download follow each other: the temporary file and then
the object are the pinned version in whole, and a result exists only at the
end.  What killed processes left is not part of it: `VerifiedIsPinned` derives
from the verification alone that a copy that is reused is the pinned one.

*DraftReleaseProofs*: `TypeCorrect` and `DraftsBoundedHolds`, for any number of
jobs, faults and delays and any lags.  `Bounded` follows the first release of a
job that was told of none: between its creation and the next POST there is one
delay, and the job posts only if the release is still hidden, so what is left of
its lag and the number of releases stay within `LostLag` together
(`FirstWithin`).

*CanaryProofs*: `InvariantHolds`, `EvidenceIsOwnHolds`, `ProvenOnceHolds`,
`CommittedOnOwnTreeHolds`, `SearchHolds`, `TypeCorrect`, `CoverIsMinimumHolds`
and `ReceiptAuthorizesHolds`, for any assets, rounds, worlds, attempts and
faults.  There are two invariants.  `IInv` is about evidence: as long as the
branch has the head of the checkout it has its tree (`BranchMovesOn`), a receipt
is what the search has left (`ReceiptIsTheSearch`), drafts hold one partition of
an asset, none of a round the attempt has not come to, and of what it has built
its own (`DraftsAreOwn`), and an asset is uncovered or has a proof of this
attempt (`ProofsAreOwn`).  `Search` is about what the rounds add up to: the
budgets (`Counted`), where the usable starts, proofs and tags come from
(`Found`), and that no two markets in use share an id (`Distinguished`), which
holds because a later round knows the ids of the earlier ones.  From `Search`
and `CoverageIsValid` it follows that the consumers, which compute bindings and
cover again, come to what the receipt says (`ReceiptIsAccepted`).
`MinimumCoverIsMinimum` shows that the dynamic programme of `Cover`, which keeps
one selection for each mask, finds the best of all covers: `Better` is a strict
total order that adding the same start to both sides respects, and so the best
selection of a mask extends a best one of the starts before (`ExtendIsBest`,
`SelectionsAreBest`).

Recursion.  `Replayed` and `BestSelections` are recursive functions.  The
library's induction theorems take an operator as a parameter and cannot be used
here, so what these functions compute is proved by a least counterexample: if
some number (`UpTo`) or some subset of a finite set (`EverySubset`) had none of
the property, a minimal one would exist, and the step refutes it.  This needs
the set of the exceptions written out in each proof, and is the reason for their
length.

Model-checked only: every liveness property, because fairness and ENABLED are
out of the prover's reach, and the violations, which are counterexamples.  Each
safety invariant and action property of the passing runs is a theorem.

## 6. Not modelled

The day spool (`spool.py`, `prepare_shared_day`) has no caller at this commit
and is not modelled. The scan of Parquet objects (row groups, filters,
decoding) and the range reader with its HTTP client are not modelled: they are
a function of the object, whose acquisition is. The source-truth audit compares
what Gamma and the archive list now with what was frozen, without state; the
canary starts after it. A listing is one step everywhere: its pages, which can
shift while another job writes, are not told apart (hazards at
`actions_backend.py:931` and `release.py:256`). Discovery, slugs, the Binance
and Gamma parsers, row decoding, the audit, the command line, the schemas, the
ledger report and the verification of a downloaded partition keep no state and
follow no protocol: what they decide enters the models as an input (the markets
of a start, the rows of a token, whether bytes are intact). Disk, memory and
row limits end a run and are covered by its kills. SHA-256 is injective.

## 7. Plan

1. `EventsOfDay`: an abstract specification of "each event of the day once, in
   its market", which `StagedDay` implements, and the day spool beside it should
   it get a caller.
2. `PmxtScan`: the shared scan of one object for seven assets, with its limits,
   against seven single scans.
3. `Acquisition` under `StagedDay`: the revision of an object between two runs of
   a day, which today is an input of `Segments` only.

Runs will be shared where modules compose, so that each remains one question.
