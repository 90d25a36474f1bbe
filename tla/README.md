# A TLA+ verification of nzbdav-rs

nzbdav-rs turns NZB files into a WebDAV tree and streams the articles behind
it from Usenet on demand. This directory holds TLA+ models of the parts of it
that are hard to test, the TLC configurations that check them on small
instances, and TLAPS proofs for every value of their constants.

`tlc -config <Run>.cfg <MCModule>` runs a check, `tlapm <Module>Proofs.tla`
checks the proofs. `PROJECT.json` maps every definition to the lines it
models, and lists the runs, one mutant per property, the hazards and the
theorems.

## 1. The system

All paths are below `src/crates/`.

| Component | State | Operations | Hard behaviour |
|---|---|---|---|
| Prioritized semaphore (`nzbdav-stream/src/prioritized_semaphore.rs`) | permits held per tier, three queues of oneshot senders | `acquire_high`, `acquire_readahead`, `acquire_low`, `acquire_repair`, drop of a permit or of an acquire future | waiters leave without the lock while `dispatch` grants; three tiers with different rules for one pool |
| Hole ledger (`nzbdav-stream/src/holes.rs`) | a bounded LRU map of article records with evidence per server; its persisted copy in the patch store | `note`, `consult`, `holes`, `restore` | confirmation over several calls, expiry and re-probe by one claimant, eviction, restart |
| Article provider (`nzbdav-stream/src/provider.rs`) | pools, semaphore, ledger, confirms in flight | `fetch_decoded_*`, `confirm`, `replace_pools`, `restore_holes` | dropped futures, joined confirms, deadlines, pools replaced under a fetch |
| Segment streams (`multi_segment_stream.rs`, `seekable_segment_stream.rs`, `multipart_file_stream.rs`) | a window of fetches, a bounded channel, the read position, the head | `poll_read`, `start_seek`, the prefetch task, `promote` | fetches that move only while the task waits for them; ranges cut by parts, segments and cipher blocks |
| Damage census (`census.rs`, `census_service.rs`, `recovery_set.rs`) | running set, cooldowns, cache, slots per pool | `hole_read`, `survey_item`, `run`, `settle`, `assess` | several censuses on one pool; failures that must not count as misses; answers older than the ledger they are noted in; callers who hang up |
| Repair service (`repair.rs`) | queue, jobs, running slot, worker flag, cooldowns, verdicts; the passes of an attempt | `schedule`, `work`, `run_job`, `attempt` | check, unlock, check again; damage found while a job runs; articles that come, go and are patched while a pass reads them |
| Patch store (`patches.rs`) | spans on disk and their index, budget, stored holes and verdicts | `insert`, `record_*`, `drop_release`, `open` | read, stage, commit; crash between renames; eviction |
| Queue manager (`nzbdav-app/src/queue_manager.rs`) | active tasks and their ids | `run` (pick, spawn, reap), `process_single_item`, `move_to_history` | tasks on connections of their own, panics, a shutdown that does not join them |
| Import pipeline (`nzbdav-pipeline`) | what is known of an import's files; rows below `/content` | `process`: first segments, PAR2 descriptors, RAR processors, aggregators, `persist`, `put_par2_sets` | tasks that end in any order and fail; two imports under one path; an import that stops half way |
| NZB parser (`src/vendor-nzb-core`), RAR reading (`nzbdav-rar`) | none | `parse_nzb`; `parse` of the headers of a volume that is only partly there | odd documents; headers that are cut, encrypted or wrong |
| SABnzbd API (`nzbdav-app/src/sab_api`) | none of its own | add, delete, retry, clear | changes the tables under a running task |
| WebDAV tree (`nzbdav-dav`) | none of its own (`dav_items`) | GET, PUT, MKCOL, MOVE, COPY, DELETE, PROPFIND | several statements per request; path, name and parent stored in one row |
| Persistence, seeding, config (`nzbdav-core`) | SQLite tables, blobs, a config cache | one statement each | keys and cascades |
| Server settings (`server_api.rs`, `settings_api.rs`) | the server list in a config row, the pools, one backup file | load, change, save, rebuild pools; back up | requests that overlap; a failed write; the start of the process |
| Health check (`nzbdav-arr/src/health_check.rs`) | next check times, results | a cycle, its batch, one check | a batch limit without an order; outcomes that date the next check |
| Cipher stream (`aes_decoder_stream.rs`) | the last ciphertext block, a buffer | `poll_read` | reads that end within a block |
| Front end, broadcasting, arr clients, auth | | | I/O |

How they interact:

- A queue task runs the pipeline, which fetches first segments through the
  provider at the ingest tier and writes the tree. WebDAV reads stream
  through the provider at the demand and read-ahead tiers; a read-ahead fetch
  is promoted to demand when its reader comes to it.
- Every fetch through `fetch_ledgered` consults the ledger first and notes
  what the servers answer. A skip turns into bytes of the patch store if a
  repair has put them there, and into a trigger for a census.
- A census STATs the articles of a release, tells the ledger, and reports
  damage to `RepairService::schedule`; its worker reads articles at the repair
  tier and writes patches, holes and verdicts into the patch store. A new
  process hands the stored holes to the ledger (`restore_holes`).
- The health check surveys items by a census or a plain STAT.
- The settings API replaces the pools of the provider while all this runs.
- A shutdown does not join the queue manager's thread: for its tasks it is a
  crash.

What makes each correct, in short: the semaphore counts exactly, keeps its
reserves and strands nobody; the ledger never hides an article that was not
refused by everyone recently; a confirm is one, and nobody waits for a dead
one; a reader gets the bytes of its file in order, and its end only at the end;
an article is missing only if every pool said so, and a release beyond repair
only if that is proven; damage has one job and a worker, and reported damage is
looked at; a repair solves what one pass read; an upload is never lost, never
run twice at once, and a completed one has its files, whatever order its
volumes were read in; an item is found where it is listed.

## 2. The modules

| Module | Models | State and code |
|---|---|---|
| `PrioritizedSemaphore` | the semaphore | `held` and `queue` are `State`; `mutex` is a dispatch in progress. `Grant` and `SendFails` are turns of the loop in `Inner::dispatch`, `Cancel` is a dropped receiver, which needs no lock |
| `PermitPool` | its promises (the module header): who may be granted, as a function of who holds and who waits | abstract; `PrioritizedSemaphore` implements it (`GrantsAsPromised`) |
| `HoleLedger` | the ledger, its stored copy, restart | one action per operation, all under one lock; `age` and `claim` count time instead of `Instant`s; `older` is the LRU order |
| `ArticleFetch` | `fetch_ledgered`, `fetch_once`, `confirm`, composed with `HoleLedger` (EXTENDS; its actions are conjuncts) | a fetcher's stage is the await or lock it is at |
| `SegmentStream` | `MultiSegmentStream`: the prefetch task, its window of fetches, the channel, the reader, several streams on one semaphore | `fetch` is the future of each segment, polled by `RunTask` only when the task waits in `next().await`; `channel` holds what is sent and not received; `result` is what the last poll returned |
| `ByteReader` | an ordered reader of a file | abstract; each stream of `SegmentStream` implements it (`ReadsInOrder`) |
| `FileStreams` | from a Range header to the bytes of the body: `parse_range`, `get`, `serve_streaming`, `DavMultipartFileStream`, `AesDecoderStream`, `SeekableSegmentStream` | pure operators of the streams' states (`PollMultipart`, `PollCipher`, `FindSegment`, ...), polled one at a time by `Poll`; a byte is the place it is stored at |
| `DavTree` | the methods of `store.rs` and `handler.rs` on `dav_items`, seeding, imports and history deletions that change rows | `rows` is the table; a request is as many steps as others can come between (`Look`, then the write) |
| `ServerSettings` | the server list and settings, the config cache, the pools they rebuild, the backup, the start of the process | `stored`, `cached`, `pools`; a request under way is in `request` |
| `HealthCheck` | the cycles of the health check | `due` counts cycles to `next_health_check`; `batch` is what the query returned |
| `DamageCensus` | the census and its service | `survey[c]` is the task of a caller, from "next" (the guards) over "stat" (the passes over the pools) and "judge" (the ledger's say) to "report" |
| `RepairSchedule` | `schedule`, `work`, `run_job` | a call is a process with four steps (two under the lock, the cooldown and the verdict between); the worker's steps are pop, attempt, look for folded damage, finish |
| `RepairAttempt` | `attempt`: planning, loading rows, reading and verifying, giving up, solving, patching, in up to three passes | `scan` is what the pass read, `known` what it expected, `loaded` its rows; the servers, the ledger and the patches change at any step |
| `PatchStore` | `insert`, `record_holes`, `record_verdict`, drops, `open`, reads | `index`, `bytes` and `lru` are `Inner`, `disk` the release directories; a call is a process that checks, stages, commits and, under the write lock ("evict" to "index"), renames one file per step |
| `QueueManager` | the loop, its tasks, the pipeline's writes and the requests on the same tables | one action per database statement; tables survive `Crash`, tasks do not |
| `NzbDocument` | `parse_nzb` as a fold over the events of the XML reader, and the names taken from subjects | pure |
| `RarHeaders` | reading the headers of a RAR 4 or 5 volume from its first bytes | pure; `Walked` is the walk over the blocks, in closed form |
| `ImportPipeline` | one import from the NZB to the items and PAR2 set records, over the two modules above | `infos` and `results` are in the order the tasks ended; `stage` is where `process` is |
| `MCProgress`, `MCImports`, `MCServing`, `MCRecovery` | sums: components that share no state, side by side | a behaviour has a `part` and takes only its steps; the variables of the others stay as they were initially |
| the other `MC*` | constants for TLC | |
| `PrioritizedSemaphoreProofs`, `ArticleFetchProofs` (with the ledger's), `PatchStoreProofs`, `QueueManagerProofs` (with the import's), `DamageCensusProofs` (with the repair attempt's), `SegmentStreamProofs`, `ServicesProofs` (health check, settings, repair scheduler, tree, bodies) | the theorems (section 4) | |
| `FiniteSums` | sums over finite sets, which the proofs of the patch store, the census and the settings count with; lists in order; the least number principle for the tree | pure |
| `Lists` | `filter`, `retain` and the stable `sort_by_key` of the server list and the import | pure |

A sum run checks each of its parts exactly as a run of its own would, action by
action; it saves nothing but the number of configurations.

Variables that are no state of the program record history for properties, and
no guard reads one except to name a fresh id: `heard` and `restored`
(`HoleLedger`), `owed` (`RepairSchedule`), `denied` (`ArticleFetch`,
`DamageCensus`), `accepted`, `withdrawn`, `unrecorded`, `replaced`, `shut`
(`QueueManager`), `whole`, `last` and `sent` (`FileStreams`), `disturbed`
(`ServerSettings`), `overdue` and `lost` (`HealthCheck`), `wasLost` (`RepairAttempt`),
`parsed` (`ImportPipeline`). The one exception is `denied` in `DamageCensus`,
which stands for the servers' refusals the external ledger has on record.
Operators that say "Mutant of" in their comment are variants of the definition
after them, with a plausible bug; no specification uses them.

Abstractions that matter:

- Articles, servers, sets, releases and items are model values or small
  numbers. In the ledger, the fetch and the schedule, what an article or an
  attempt contains is not modelled, only which outcome it has; all outcomes are
  possible at any time. `RepairAttempt` opens the attempt, `DamageCensus` the
  census, `ImportPipeline` the import.
- In `RepairSchedule` an attempt is one step: what it reads and writes
  outside the schedule has no effect there but its outcome and the verdict. A
  job's deadline may pass at any moment.
- In `HoleLedger` a tick adds one to every age; ages stop where nothing
  tells them apart. One clock serves the monotonic and the wall clock, so a
  wall clock that is set back is not modelled.
- In `ArticleFetch` the semaphore is a number of permits, and the notes of one
  round follow each other in no time (there is no await between them).
  `yenc_headers`, which asks the pools without the ledger, is left out. In
  `SegmentStream` the fetch is one answer under a permit of a semaphore with
  two tiers (demand first): what matters there is who waits at which tier.
- A lookahead of zero panics in `mpsc::channel` and is excluded by
  `StreamAssumption`; the code takes the configured value as it is.
- `FileStreams` counts in small units: a block is two bytes, a skip three, the
  average of segments an integer quotient, as in the code. The size of a plain
  file (`PlainSize`) is an estimate from its NZB, which may be above or below
  the real size; the proofs assume nothing of it but that it is a number. The
  volumes of an archive are taken as its item lists them: whether that is the
  order the file was cut in is the import's question (`SplitFilesInOrder`).
- In `DamageCensus` the ledger is what `note` and `state` may answer, with
  lapses and evictions at any time; the STAT permit is always granted in the
  end. The cache keeps the entries that expire last, as `enforce_capacity`.
- `ImportPipeline` lists the items of an archive in any order; the code sorts
  them by their leaf names, so it allows more than the code does.
- In `RepairAttempt` articles are read one after another. The code reads a few
  ahead; since articles change independently, no other outcome is missed. The
  assembler's loop over a slice's units is written in closed form.
- `RarHeaders` counts in units of 16 bytes, whole cipher blocks; a header is
  sound or not. Members behind encrypted headers are placed at their offsets in
  the decrypted buffer, as in the code, so `ItemsAreTheArchive` speaks of the
  volumes with headers in clear.
- In `PatchStore` the bytes of a span are known by the NZB blob they were
  rebuilt for; costs are constants per file and per record. `open` is one step
  and orders the releases arbitrarily: their newest file was written when it
  was staged, which says little about when it was put into place. Left out: the
  server fingerprint of a stamp, leftovers of dropped stagings (`open` removes
  them), and a directory that can be neither moved nor deleted. `clear` and
  `drop_if_stale` are `drop_release` of what they saw before.
- In `QueueManager` the directories above the category are there (seeding),
  the files of a job are numbered, and the name of a job is fixed per item.
- In `DavTree` request paths come as the handler sees them: the router strips
  a trailing slash, so a MKCOL over HTTP stores a path without one, while the
  Destination header keeps it; the model's requests name collections with a
  slash, as `seed.rs`, the imports and the tests do.

## 3. What the runs check

Six passing runs, most of them with liveness, action or refinement properties,
and six counterexamples.

**Progress**, three parts. *Semaphore* (4 calls of any kind, 3 permits, one reserved, one
the repair floor). Every state between two turns of a dispatch is a state of
the run, so waiters leave at every possible moment. `HeldIsExact`: the counters
are the permits that are out. `ReserveHeadroom`: ingest and repair stay out of
the reserve whatever read-ahead borrows. `NoLostWakeUp`: when nobody
dispatches, a waiter waits for a permit that is out. `FirstComeFirstServed`
within a kind of ask. `GrantsAsPromised`: the refinement of `PermitPool`.
`TiersServed`: a demand ask is answered, and a repair below its floor too once
demand keeps within its reserve (demand beyond it may starve repair, by the
header's own words); it is stated of one call, the calls are alike. Four calls
fill the pool and leave one waiting of each kind. *Queue* (2 items, 1 slot, one
mishap): `QueueDrains`: every queued item leaves the queue, or its task
panicked in this process (`Reap` cannot tell a panicked task's id, which stays
in `active_ids`; `shut` names these items).

*Jobs* (one caller of `schedule`, 2 sets of one release, 2 worker tasks).
`JobsEnd`: every job ends, however often damage is folded into it; stated of
one set, the two are alike. One caller is enough to fold damage into a job again
and again, and a second set to keep its job waiting for the worker.

**ArticleFetch** (2 fetchers, 1 article, servers `a` and `b`, which are removed
and added again at any time, 1 permit, confirm delay 1, one dropped fetch, no
grace). `ConfirmIsLive`: one confirm per article, registered exactly as long as
a task is at it, and who joined waits for that one. `SkipIsJustified` under the
concurrency of real fetches, with two servers and a delay. `FetchEnds`: a fetch
ends, by an answer, a skip or an error; stated of one fetcher, the two are
alike. One permit makes the confirm compete with the fetches it serves.

**SegmentStream** (a stream of one segment beside one of five, lookahead 2, 1
permit; readers poll with any room, may leave, and are steady for the liveness
property). Five segments are more than the window, the channel and the task's
hand hold together. `ReadsInOrder`: the refinement of `ByteReader`.
`OnlyHeadIsDemand`: what waits as demand is the segment its reader needs next.
`SteadyReadersServed`: a reader that goes on reading comes to the end or an
error.

**Imports**, two parts. *Queue* (2 uploads of the same name and category, 2 slots, one file, one
failed statement, panic or crash at any point). `OneTaskPerItem`;
`NothingLost`: an accepted item is queued or in the history unless the user
took it out, or the statement that writes its history failed (the item is then
deleted from the queue all the same, `queue_manager.rs:300`; the property
names that exception, `unrecorded`); `CompletedIsImported`: the directory of a
completed item holds its files unless another import's insert replaced it
(`replaced`, a finding); `HistoryIsFinal`. One mishap is one crash between any
two statements, and the second run of an item after it.
*Import* (11 submissions: an archive of three volumes in two RAR versions with
a directory, a split member and a blocked name, once with its volumes listed out
of order; PAR2 files of two sets under
misleading names with an index that is too big; encrypted headers with the
right, a wrong and no password; an obfuscated release of single articles; odd
documents). First articles and volumes are read concurrently, found, missing
or failing. `ItemsAreTheArchive`: a member becomes one item, without a gap, with
a part for each place it takes in the volumes that were read and no other, in
the order of the posted volumes' numbers as far as the NZB lists the member's
volumes in that order (`ListedByNumber`; for other listings see **ImportOrder**),
and in the order of the wire within a volume; and the articles of a part are in
posting order, as far as the NZB numbers them so (`NumbersTellParts`, which the submissions keep; an NZB may
number its articles at will, and the code trusts the numbers). `RecordsAreTrue`: a set is
recorded once; a PAR2 file is a volume of one set, that of its packets if its
index was read and PAR2 files of one name are of one set (`NamesTellSets`, which
the submissions keep: the code reads one index a name); a protected file is
carried by one that begins with its hash.

**Serving**, five parts.
*Bodies* (an archive of two volumes, whose data starts within an article and
whose second volume has a segment that ends within a
cipher block; a plain file of four segments, the last one shorter, whose
size of 15 is estimated as 16; some headers unreadable; 20 Range headers and
pairs of them; buffers of 1, 3 and 20 bytes). `BodyIsExact`: every byte sent is
the byte of the file it stands for, and the body is as long as promised, over
parts, skips, seeks and small buffers. The file is what the item lists, part by
part; that the parts are listed in order is not said here. It is stated of volumes that hold the
data their headers list (`VolumesHoldData`), of seeks that end at a header
rather than at a guess (`Located`: the headers can be read, and the byte is in
the file), and of a cipher stream that is handed whole blocks (`whole`): what
happens otherwise is the fifth finding and two notes of section 5. An archive
read in full or by any range needs the first condition alone.
*Tree* (2 clients, six requests on one directory and its file, an import and an
upload; 4 fresh ids). `FoundWhereListed`: an item is found at its path, listed
by the collection its path names, and alone there, for requests that move files
(`OnlyFilesMove`, which the run evaluates).
*Patches* (2 releases, of which one is patched under two NZBs, 2 calls at once,
spans of 1 or 2 bytes in a file of 2, budgets 4 and 5, costs 1). One release
alone fills the budget, so that an insert evicts the other; two calls are
enough for one to commit between the check and the commit of the other. Drops,
I/O errors and crashes are unbounded. `WithinBudget`, `SpansDisjoint`,
`OneNzb` (a release does not mix patches or a verdict of two NZBs; holes are
exempt, as they are keyed by message id and true of their articles),
`IndexIsOnDisk` (a restart at any moment finds what the index holds, and no
patch that was dropped or evicted).
*Settings* (2 clients, three server entries, lists of at most 2, one failed
write or restart). `PoolsFollowList`: the cache is the table whatever happens;
once no rebuild is pending, the pools are the table's enabled servers, best
first, after a restart and also when changes that were loaded together overwrite
each other. A save that fails, or that comes between the save and the rebuild of
another, really leaves them apart (`disturbed`), until the next save that does
neither, from which the property holds again. `BackupIsOwn`: a
backup is the database as its own request found it.
*Health* (3 items, one without a file, batches of 1, days of 4 cycles, at most
one place of a batch lost while an item waits). `NoItemStarves`: a due item is
checked within a day however the others end, where the day's batches have room
for the library and for the places that failed statements cost (`lost`: a whole
batch if the query fails, one if the next check of an item could not be dated
and the item is due again).

**Recovery**, four parts.
*Ledger* (2 articles, capacity 1, 1 server; times 1 and 2; the holes of one
article are stored). Two articles on one place make the eviction happen; a TTL
of 2 tells a hole restored at its age from one restored anew. `Bounded`,
`SkipIsJustified`, `SkipIsFresh`: a confirmation is believed for `Ttl`, and for
`Grace` more while another caller re-probes, across restarts and restores.
*Census* (2 callers, a set of one data article and a volume, an item outside
of it that shares the article; two pools of
4 connections, which leave the censuses one slot of each; a pool is given up
after one failure; the cache holds one entry, for one unit of time; neither
cooldown nor debounce, which only keep surveys from starting). `MissIsWitnessed`: an
article is missing only if every pool answered 430. `BeyondRepairIsProven`: the
verdict, and a repair, follow from such articles only. `ShareKept`: all
censuses together keep within their share of a pool.
*Repair attempt* (3 files, one of them not carried and one shorter than its
size, articles that do not line up with slices, volumes of 2 and 3 rows, 2
passes, one change of the world). `GivenUpIsHopeless`: a release is given up
only if its losses, as confirmed, exceed all rows of all volumes.
`SolvesWholeSystem`: each slice of what is solved was read and verified, or is
damaged and has a row, in one pass.
*Jobs* (2 callers of `schedule` at once, 2 sets of one release, 2 worker
tasks). Two sets are enough for a queued job next to a running one, two calls
for both to miss the job of one set, two worker tasks for a second worker to
appear if it could. `OneJobPerSet`: queue, jobs map and running slot agree, so
`jobs[&key]` never panics. `JobHasItsWorker`: the flag and the queue change
together. `EarlyFoldRepaired`: damage folded in before the job last looked is
attempted again before it reports success.

**RepairFold**, **ArticleFetchPools**, **QueueReplace**, **ImportOrder**,
**Cipher**, **SettingsSized** (violations): see the findings.

Runs of finite environments (queue, streams, imports, tree) do not check
deadlock: when all requests are answered, the model stops.

### Bounds

`MaxDrops`, `MaxMishaps`, `MaxFaults`, `MaxChanges`, `MaxLost` and the sets of calls,
fetchers, requests and items bound what the environment does, not what the
program does. `Node` and `NewId` bound fresh ids; `Node` is larger than the
number of directories two items can create with the mishaps allowed, and a
`DavTree` behaviour that is out of ids takes no more inserts. The times are
small because only their order matters (the ledger compares an age with four
limits); the confirm delay is below the provisional TTL, as in the code's
defaults. `SYMMETRY` is over calls and clients no property names, and only in
runs without liveness.

### Fairness

- Semaphore: `dispatch` has no await, so it goes on (weak); a holder releases
  (strong, since it needs a mutex that others also take): its fetch ends by an
  answer or by the connection's timeout, and futures are dropped in the end.
- Repair: the runtime polls the worker (weak), and time passes (weak on the
  deadline). None for callers, cooldowns or verdicts.
- Fetch: tasks are polled and pools answer or time out (weak on every step of
  a fetcher), the semaphore does not starve a waiter for ever (strong), time
  passes (strong, because it waits for notes, which are instantaneous). None
  for drops, replacements or new calls. The semaphore's promise is stronger
  than what `PrioritizedSemaphore` shows for the lower tiers: fetches at the
  demand tier have it unconditionally, others only while demand leaves room.
- Streams: tasks and steady readers are polled, servers answer, the semaphore
  grants. None for leaving. A reader that stalls without leaving keeps the
  permits of its window (the futures hold them while the task waits for room),
  so the property is stated of runs whose readers are steady.
- Queue: the loop polls (weak on picking for some slot, and on reaping) and
  tasks run. None for requests, faults or crashes.


## 4. What is proved

`tlapm` checks every theorem to its last leaf, from the named ASSUMEs of the
module it is about and nothing else, but for the two theorems of the tree,
which say that they assume `OnlyFilesMove`; a run evaluates each ASSUME, and
that one. They hold for any number of callers, articles, releases, pools and slots, and any sizes
that satisfy the assumptions. Every safety proof has the same shape: an
invariant that each action preserves (one lemma per action or per kind of
action), and the property as its consequence.

| Module | Invariant | Theorems |
|---|---|---|
| `PrioritizedSemaphoreProofs` | `SemInv`: types, calls queue at their tier, the counters equal the permits out, and the headroom. The headroom alone is not inductive: a grant looks at the counters, and says something of the permits only if those agree | `DefaultSizesFit` (the sizes `provider.rs` computes meet the constructor's assertions), `SemaphoreTypes`, `CountersExact`, `ReserveKept` |
| | `LineInv`: `SemInv`; a call that waits is in the queue of its tier; `ahead` is an order of each queue; outside of a dispatch nobody could be granted | `ServedInOrder`, `WakeUpsAreKept`, `SemaphoreRefinesPool` (the semaphore implements `PermitPool`) |
| `ArticleFetchProofs` | `LedgerInv`: types, the bound, and for each hole in memory or stored, who refused its article and when it was last confirmed | `LedgerBounded`, `SkipsJustified`, `SkipsFresh`, `LedgerTypes` |
| | `FetchInv`: calls are well formed; an article's registration names the task at its confirm, and who joined waits for that one | `FetchesUseLedger` (the fetches implement the ledger's specification), `FetchesSkipJustly`, `ConfirmsAreLive` |
| `PatchStoreProofs` | `StoreInv`: index, disk and the holder of the write lock at every step of a commit: what each file it has renamed means for what a restart would find | `SpansNeverOverlap`, `ReleasesAreOfOneNzb`, `PatchesSurvive` |
| | `BudgetInv`: every entry of the index carries its own cost and the total is theirs; what a writer is about to store fits the budget alone, and once it has evicted, with the others | `CountersAreTrue` |
| `QueueManagerProofs` | `QueueInv`: an item has one task, what is about to be deleted from the queue is recorded elsewhere, nothing is lost | `TasksAreApart`, `UploadsAreKept`, `RecordsAreFinal` |
| | `ImportInv`: the directory of a task at step k has its first k files or was replaced, and so has the directory of a completed row | `CompletedAreImported` |
| | `RecordsInv`, of `ImportPipeline`: each file is told by its name, its articles in order and what was found at its first one; the groups still to read and the sets that were read have files of their own; a set that was read has the files of its packets | `ImportRecordsInvariant`, `RecordsAreKept` |
| | `ArchiveInv`, beside it: no file is told twice; the members told so far are those of the volumes that were read, each in its place and each place once; the volumes still to read are others; after the sort they are volume by volume | `ImportArchiveInvariant`, `ItemsAreKept` |
| `DamageCensusProofs` | `CensusInv`: of every article in a pass, the pools asked so far and the refusals counted; what is settled or cached as missing was refused by all; a release is marked as running iff one census is at it | `CensusesAreSingle`, `MissesAreWitnessed` |
| | `VerdictInv`: what a survey takes for certain, and what the ledger holds, was refused by every pool, and a verdict follows from that alone; beside it, that a slot is taken only while one is free | `VerdictsAreProven`, `SharesAreKept` |
| | `AttemptInv`, of `RepairAttempt`: the slices told apart so far are exactly those before the assembler's, each once; what is missing, the open slice if it is marked a hole, and what the pass knew before, lie in articles seen lost; the slices of every hole are damaged or still open; the rows are those of the volumes read, unless one was cut short | `AttemptInvariant`, `GiveUpsAreHopeless`, `SolvedIsWhole` |
| `SegmentStreamProofs` | `StreamInv`: what was sent has left the window, in order; the channel holds the segments from the reader's next one on; position and buffer end where the segments received end; only the fetch of the reader's next segment may ask as demand | `DemandIsTheHead`, `StreamsRefineReader` (each stream implements `ByteReader`) |
| `ServicesProofs` | `HealthInv`: an item that has waited k cycles saw k full batches of items before it, no item twice, but for the places failed statements cost | `ItemsAreChecked` |
| | `SettingsInv`: the cache is the table; the temporary file is of the request that holds the lock; the pools are those of the list, unless a rebuild is pending, or the last save failed or crossed another | `BackupsAreOwn`, `PoolsAreTheServers` |
| | `TreeInv`: each row but the root is below the row its path names, under its last name, and no two have one path; what a request has looked up is still so, if the row is still there | `TreeInvariant`, `ItemsAreFoundWhereListed` |
| | `BodyInv`, of `FileStreams`: an archive's stream stands in the part of its position, with what is left of it, or has not been set up since the seek; the cipher stream is whole blocks behind it, the block it kept is the last one it read, and its buffer lies before its position; a plain stream stands where its range began plus what was sent | `SegmentsAreFound`, `BodyInvariant`, `BodiesAreExact` |
| | `RepairInv`: types, a job per set, a worker iff the flag, no job without one, and the damage folded early is seen | `JobsAreSingle`, `JobsHaveTheirWorker`, `EarlyFoldsRepaired`, `ScheduleTypes` |

Where the arguments are not routine:

- *Wake-ups and the refinement.* `PermitPool` lets a call be granted only if
  nobody it must wait for could be. `dispatch` grants the head of a queue that
  its rule admits, and drops who left on the way. That a head exists among the
  waiters of a kind needs the order of the queue to be well founded: the
  foremost waiter is the one with the fewest ahead of it (least number
  principle). That nobody is left asleep is `Settled`: a dispatch ends only
  when no queue has a grantable head, and between dispatches no counter falls.
- *Fetches.* Each step of a fetch is a step of the ledger or leaves it alone,
  and each note names a server of the call's own list; so the ledger's theorems
  carry over to concurrent fetches without another invariant of the ledger.
- *Misses.* The code counts refusals and compares the count with the number of
  pools at the end. The invariant relates the count to the pools passed: it
  equals their number only if each answered 430, and a failure or a skipped
  pool leaves it below for good. A cancelled census settles nothing.
- *Patches.* A crash may come between any two renames, so the invariant says
  what a restart would find at each of them; an index that is right only at the
  end of a commit is not enough.

- *Sums.* The counters of the patch store, the connections of the censuses and
  the blocks of a release are sums over sets, which the models write as folds.
  `FiniteSums` shows, by the least counterexample, that a sum over a finite set
  exists, and that it can be split and changed at one element; each fold is
  then shown to be that sum. A verdict needs that damage grows with the set of
  missing articles, and blocks shrink with it.
- *Batches.* That no item starves is a counting argument: as long as an item is
  due and passed over, each batch is full of smaller items, a checked item is
  not due again for a day, so after `Day` batches there would be more items
  than the library has. A failed query is a batch without items, and an item
  that could not be dated fills a place twice; both are counted in `lost`, which
  the property adds to the size of the library.
- *Repairs.* What a scan promises is about slices, what it reads are articles,
  which straddle them. The assembler is written in closed form (which slices
  have ended at a position, which units an article adds to one), so that one
  push can be described without induction: the slices it ends are consecutive,
  each once, and a slice is a hole if it was, or if the article is one and lies
  in it. The number of a file's first slice is a sum, so files have different
  slices. `SpanAssumption` says how `census_file` lays articles out, one after
  the other within the file.
- *Imports.* The NZB lists files and articles in any order and the tasks end in
  any, so what is said of a file must survive two sorts, a filter that numbers
  the files anew, and renaming. `Lists` writes a stable sort in closed form (an
  element's place is the number of those before it), and `FiniteSums` shows
  that it has the elements of the list, each once. A group joins a set that was
  read before if its index begins with the packets of that set, and makes one
  otherwise; either way its other files are of that set by their names alone,
  hence `NamesTellSets` in the property. `ImportAssumption` says that ids and
  hashes are told from their absence, that no protected file begins like the
  middle of one, and that the parser yields files.
- *Archives.* The walk over a volume's headers ends at the first block with a
  reason to stop, and a block begins where the data of those before it ends, a
  sum: so the walk is written with a least number and a sum instead of a
  recursion, and what it finds is a filter of the blocks. It follows that it
  finds exactly the files that lie within what was read, before the end block
  (`WalkFinds`), and that their places grow (`BlockAtGrows`). From there on the
  proof is about lists: a filter and a stable sort keep each element once and
  the order among equals, so parts of one member stay in the order the NZB
  lists the volumes and, within one, of the wire; where the NZB lists them by
  number, that is the order of the numbers. The volumes are different files of
  the NZB, so none is told twice, however the tasks end.
- *Tree.* A method looks rows up in one statement and writes in another, and
  between them others delete, move and insert. The invariant says of a
  remembered id that, if it is still a row, it is the row it was: ids that are
  remembered are not given again, and only files, which nobody's parent is,
  change their path. That a deletion takes all below a row, although the model
  iterates as often as there are rows, is a least counterexample: each round
  that is not the last adds a row. The two theorems assume `OnlyFilesMove`:
  with a MOVE of a directory the property is false, as section 5 says.
- *Bodies.* What a poll returns is said first of each stream by itself: the
  parts lie one after the other in the file, so a position has one part
  (`PartsAt`), and reading `k` bytes in place leads to a state that is in place
  at the position `k` further. The cipher stream is right relative to the one
  below it: it is handed whole blocks in step with its chaining block, or
  `whole` is over. The search of a seek narrows a bracket that holds the byte:
  each probe drops at least the guessed segment, so with as many probes as
  segments it ends at the byte's segment; an induction over the probes, done as
  a least counterexample.
- *Streams.* The reader's promise is about bytes, the prefetch about segments:
  the invariant ties them by the offset at which a segment begins.

Only model-checked is liveness, which this prover cannot do: `TiersServed`,
`QueueDrains`, `JobsEnd`, `FetchEnds`, `SteadyReadersServed`. Every safety
property of a run that passes is a theorem.

## 5. Findings

Each is a run that TLC refutes; `PROJECT.json` quotes the lines.

1. `FoldRepaired` (run RepairFold, `repair.rs:303`): damage that `schedule`
   finds folded at its second look, or reports after the job last looked, is
   not attempted again, though the header says it is.
2. `EveryServerDenied` (ArticleFetchPools, `provider.rs:304`): a fetch takes
   the servers' names once and the pools one by one; a replacement in between
   confirms a hole in the name of a server that was never asked.
3. `EnsureOnlyCreates` (QueueReplace, `queue_item_processor.rs:543`): of two
   imports that find their directory missing, the second `INSERT OR REPLACE`
   deletes the first one's directory with everything below it.
4. `SplitFilesInOrder` (ImportOrder, `rar_aggregator.rs:40`): the parts of a
   split file are not put in the order of the volumes' numbers, as its header
   says. No header carries a number (`rar4.rs:222`, `rar5.rs:554`), so the sort
   leaves the order in which the NZB lists the volumes (`rar_processor.rs:156`);
   an NZB that lists them otherwise gives a file with its parts out of order.
5. `BodyIsPlaintext` (Cipher, `aes_decoder_stream.rs:145`): when what a read
   returns ends within a cipher block, the rest is dropped, or the body ends
   there, though a comment says it is buffered.
6. `SizedToPools` (SettingsSized, `provider.rs:202`): the semaphore keeps the
   size it had at its first use, which may come before the pools are there.

Noticed while modelling, in the models as the code has them, without a run of
their own:

- a seek that cannot read a header falls back to an estimate
  (`seekable_segment_stream.rs:59-64`), although "aligned" promises the byte;
- so does one that asks for a byte past the end of a plain file, whose size
  `handler.rs:83-88` estimates as 0.97 of the NZB's bytes: where the estimate is
  too large, the range is satisfiable, no segment holds its first byte, and the
  206 carries bytes of another place (four segments of 10, estimated as 44:
  byte 41 is answered with byte 39), although `seekable_segment_stream.rs:54-59`
  calls this the byte-exact path of the Range handler; and so may a seek in a
  file of thousands of segments that runs out of its 20 probes;
- a volume that holds less data than its headers list makes the multi-part
  stream set the same volume up again, and its first bytes are sent in place of
  the missing ones;
- a file uploaded to `/nzbs/` is stored and not queued (`seed.rs:27`);
- a comment bounds the health check's backoff by 384 h (`health_check.rs:157`);
  it never passes 48 h, since the count it doubles with is 0 or 1;
- two saves of the server list that cross each other's rebuild may leave the
  pools of the older list, and a save that fails leaves its pools installed
  (`server_api.rs:84-106`), until the next save;
- a stalled reader's window keeps its permits, so the reserve does not ensure
  that a new reader is served;
- a MKCOL over HTTP stores a path without the trailing slash other
  collections have;
- a MOVE of a directory leaves the paths of its children as they were, and a
  MOVE of an item onto its own path deletes it.

## 6. What is not modelled

- Persistence: a crash between the inserts of the seeding (`seed.rs:71`), the
  log and the journal of SQLite. A statement is atomic, a foreign key cascades.
- The ledger: the time between the notes of one round (`holes.rs:441`), which
  lets two refusals of one moment pass for two of different moments.
- The fetch: `yenc_headers`, and the connections below a pool (`nzb-nntp`).
- The patch store ends at the lookup of a span: what a reader does with it is
  the streams' answer "patched".
- The health check: a row of its query that does not parse is warned of and left
  out of the batch (`health_check.rs:321-326`).
- Clearing the history deletes the PAR2 sets of imports that are not in the
  history yet (`history_items.rs:103`). The model has it; no property speaks of
  it, since nothing in the repository says otherwise.
- Bytes: yEnc, the derivation of keys, the layout of RAR headers, PAR2 packets
  and the solver (`rust-par2`), XML. Each is a unit that is sound or not.
- Formatting, authentication, broadcasting, logs, the front end, the clients of
  Sonarr and Radarr: no state that anything here depends on.
- The modules of `nzb-core` that nzbdav does not use (its database, config and
  import from SABnzbd), and the test backends.

## 7. Plan

Done: the semaphore, ledger, fetch, schedule and patch store, the queue, the
census, the attempt, the streams, the bodies, the settings, the health check
and the tree, each with its proofs; the fetch as an implementation of the
ledger, the semaphore of its promises and the streams of an ordered reader as
theorems; the import, with proofs about its items and its PAR2 sets.

Next, in this order:

1. Models: time between the notes of a round; `yenc_headers`; MOVE of a
   directory as an input of the tree, once its intended meaning is settled;
   seeding with a crash.
2. Compositions: the census with the schedule and the attempt on one release,
   which today meet in the outcomes each may have for the other.
