# chunked-wal: TLA+ models, model checking and proofs

`chunked-wal` is a write-ahead log library. A caller appends records, hands them
to a flush worker thread to be written and synced, learns through callbacks what
is durable, and gets its state machine back from the files the next time the log
is opened. This directory models the parts of it that are hard to test: the two
threads and what they share, the order in which bytes, syncs and directory
changes reach the disk, and recovery after a crash at any point.

Paths below are relative to the repository root (`src/wal/...` is the Rust
source tree). `PROJECT.json` maps every definition to the lines it models.

## 1. The system

| Component | State | Operations |
|---|---|---|
| `ChunkedWal` (`src/wal/chunked_wal.rs`) | open chunk, closed chunks, `FlushClient`, worker handle, directory lock | `open`, `append`, `send_pending`, `try_close_full_chunk`, `drain_closed_chunks_while`, `send_remove_chunks`, `load_record`, `wait_worker_idle`, `get_stat`, `shutdown`/`Drop` |
| `OpenChunk`, `Chunk` (`src/chunk/`) | file, record offsets, pending buffer | create, append, take pending data, open with truncation, scan, positional read |
| `FlushClient` (`src/wal/flush_client.rs`) | `sent_seq`, sender | `send`, `close`, `wait_idle` |
| `WorkerState`, `QueuedBytes` | `done_seq`, status, bytes reserved; a mutex and a condvar each | `complete`, `fail`, `wait_for`; `acquire`, `release`, `release_all` |
| `FlushWorker` (`src/wal/flush_worker.rs`) | receiver, files to sync, current batch | collect a batch, vectored write, sync, callbacks, `AppendFile`, `RemoveChunks`, `GetFlushStat`, failure and exit |
| Record format and scanning (`wal_record.rs`, `record_iterator.rs`) | - | encode, decode, detect a short record or a zero tail |
| `Config` (`src/config.rs`) | settings | validate, chunk file names, `sync_dir` |
| `WalLock` (`src/file_lock.rs`) | lock file | one opener at a time |
| `ClosedChunkReader` (`closed_chunk_reader.rs`) | a copy of the closed chunks with their open files | read a record by segment |
| `AtomicFlushMetrics` (`atomic_flush_metrics.rs`) | two dozen relaxed atomics | `record_batch` by the worker, `snapshot` by the owner |

**Interaction.** Every method of the owner that sends takes `&mut self`: the
owner is one sequential process. It talks to the worker through a bounded FIFO
channel, throttled by `QueuedBytes`; the worker answers through user callbacks,
`done_seq`, and the `on_chunk_persisted` callback. Both sides reach the
directory: the owner creates chunk files and syncs the directory, the worker
writes, syncs and unlinks. Other processes are kept out by the `LOCK` file,
which is released only after the worker is joined; a `ClosedChunkReader` is
bound by neither.

**What is hard.** The worker's failure racing a sender; counters returned twice
or never; a rotation spread over three requests and two threads; a crash between
any two system calls, with directory entries and file contents reaching stable
storage at different times; partial failures of rotation after which the caller
goes on; recovery that itself is interrupted; telling a torn tail from a record
by its bytes; a second process or a reader that meets files while their owner
changes them. `PROJECT.json` lists each hazard
at its line, with the properties that would catch it.

**What makes each part correct.**
- Flow control: memory is bounded, the byte count is exact, nobody waits
  forever, an Ok or an idle worker means the work is done, outcomes are final.
- Worker and owner: records land at the offsets handed out, persisted reports
  are true, chunks are removed only when their replacement is durable.
- Recovery: it succeeds on every directory the WAL can leave behind, gives back
  a prefix of what was appended and all that was vouched for, and refuses only
  what is really damaged.
- Scanning: exactly the records written whole are read, at their offsets.
- Directory: one owner at a time, worker included; no chunk is known twice or
  missed, but those a failed rotation leaves out; a reader never gets another
  owner's records.
- Metrics: exact when the worker is idle, whatever order the loads have.

## 2. Modules

| Module | Models | How |
|---|---|---|
| `FlushControl` | `FlushClient`, `WorkerState`, `QueuedBytes`, the channel, the worker's life | client and worker threads, one action per critical section, channel operation or call into files or user code |
| `FlushMetrics` | `BatchMetrics`, `AtomicFlushMetrics`, `flush_metrics` | extends `FlushControl` with counters updated and read one by one |
| `MCFlushControl` | - | TLC instance; compares the byte count with a plain sum |
| `FlushControlProofs` | - | theorems on `FlushControl`: types, byte accounting, what becomes of the requests |
| `FlushMetricsProofs` | - | theorems on `FlushMetrics`, and on the plain sum of `MCFlushControl` |
| `WalDisk` | directory and files (external: the operating system) | what each system call does, what a power loss may leave |
| `WalState` | - | variables, records, requests and constants shared by the next three |
| `FlushWorkerIO` | `FlushWorker::run_inner` on files | batch, write, sync, callbacks, file list, removal |
| `WalOpen` | `ChunkedWal::open_locked` | one action per step that changes the directory |
| `ChunkedWal` | the owner's operations, crashes; composes the two above | safety and liveness properties, refinement |
| `ChunkedWalTypeProofs` | - | the rule recovery rests on, operation by operation of the disk; types of `ChunkedWal` |
| `ChunkedWalProofs` | - | files, offsets and the predecessor rule |
| `WalRecoveryProofs` | - | the chunk map, what `open` accepts, persisted reports and removals |
| `WalRefinementProofs` | - | `ChunkedWal` implements `DurableLog` |
| `DurableLog` | - | the abstract contract that `ChunkedWal` implements |
| `MCChunkedWal` | - | TLC instance |
| `RecordScan` | record format, `RecordIterator`, `open_with_truncate`, the zero check | one chunk file byte by byte, on what a crash leaves of it |
| `RecordScanProofs` | - | theorems on `RecordScan` |
| `ChunkNames` | chunk file names | formatting and parsing as operators |
| `WalDirectory` | `WalLock`, open, dump, drop, `ClosedChunkReader`, several processes | uses `ChunkNames`; a coarse WAL, a worker and a reader per process |
| `WalDirectoryProofs` | - | theorems on `WalDirectory` |
| `MCFlushMetrics`, `MCRecordScan`, `MCWalDirectory` | - | TLC instances |

`FlushControl` and `ChunkedWal` look at the same worker from two sides. The
first keeps sequence numbers, byte counts, condvars and panics and reduces file
I/O to its outcome. The second keeps files and reduces `send` to a bounded FIFO
that blocks when full and fails when the worker is gone. For safety that is all
of `FlushControl` the owner sees: where a send waits for the byte limit, the
step is not taken. Whether it is ever taken is another matter, and the fairness
of `ChunkedWal` assumes it only while the worker has not failed (finding 1).
`ChunkedWal` knows four kinds of
file tails (`none`, `short`, `zero`, `mixed`); `RecordScan` shows at byte level
that the code tells them apart. `WalDirectory` takes what `ChunkedWal` shows of
one process for granted and looks at several.

### State and actions

`FlushControl`: `cpc` and `wpc` are where the client and the worker are.
`Send`, `Acquire`, `AcquireWait`, `Push`, `PushFail`, `ReleaseErr` are
`FlushClient::send`, split at the mutex and at the channel. `Recv`, `Collect`,
`Io`, `Callback`, `Release`, `HandleNonFlush`, `Complete` are one round of
`run_inner`; `Unwind`, `ReleaseAll`, `Fail`, `Exit` are the end of `run`.
A condvar wait is a program counter that only the matching notification moves.
`outcome` is a history variable: what became of each request. Byte arithmetic
wraps at `UsizeMax`.

`ChunkedWal`: `fs` is the disk, `pc` the owner (opening or up), `open` and
`closed` the chunks, `queue`, `files`, `batch`, `wpc` the worker. A batch is one
vectored write; it is modelled one write after the other (`wrote` counts them),
so a crash or an error may leave any front part of it. Rotation is
`RotateFlush` (`send_pending(true)`), `RotateCreate`, `RotateSync`
(`create_file`), `RotateAppend` (`AppendFile`, the new chunk takes over) and
`RotateCheckpoint`; each can fail and then the call returns where the code
returns. `RotateEncodeErr` is the other end of `RotateAppend`: the new chunk has
taken over, and the application's codec cannot encode the checkpoint; the new
chunk is left open without a record and the full one is in no map. Shutdown is
`Shutdown` (the call), `ShutdownSend` (its send, which may have to wait) and
`Join`. `acked` and `written` are histories of what callbacks and `shutdown`
promised, `reported` of what `on_chunk_persisted` was told. Each request carries
its place as a history, `id` and `upto`: the file the worker is in, and its end,
once the request is carried out. `OffsetsAgree` says that each place follows
from the one before, from the worker's file to the owner's next offset.
`ReplayRecord` is one round of the replay loop, `LoadChunkIds` starts an open, also after one that failed, and picks
`truncate_incomplete_record` anew each time. `ReplayPanic` is the unwinding of
`open` when `last_segment` meets a chunk without records.

`FlushMetrics`: `MIo`, `MCallback`, `MWorker` and `MClient` are the actions of
`FlushControl` with the counters added; `RecordBatch` and `LoadCounter` update
and read one counter each, in any order, which is what relaxed atomics allow.
The worker's next mutex section or channel operation publishes them.

`RecordScan`: `Init` chooses a codec, up to three records, and an image of the
file; `FirstRecord` is `has_complete_initial_record`, `EndOfFile`, `NextRecord`,
`IncompleteRecord`, `InvalidRecord` are one round of the record loop,
`ZeroBlock` and `ZerosEnd` the loop of `verify_trailing_zeros`, `Reopen` the
next open of the same file.

`WalDirectory`: per process `pc` (out, locked, opening, dumping, up, closing,
shut), the listed ids, the chunk map, a worker with its queue, and a reader that
survives `Leave`. A rotation succeeds (`Rotate`), fails in `sync_dir` after it
created the file (`RotateSyncErr`), or fails after the new chunk took over
(`RotateEncodeErr`); `left` is the history of the chunks that the failed ones
left out of the owner's map. A process or a worker may die at any step, and files of other
origin may be put into the directory while no WAL uses it.

### The disk

- A process crash keeps the page cache: every completed write survives, and a
  write in progress may have stopped inside a record.
- A power loss keeps synced records, any number of the unsynced ones after them
  in the same file, and then possibly a damaged rest: the front of a record
  (`short`), a length without data (`zero`, which the code names as a case it
  handles), or a part of a record followed by zeros (`mixed`, which it
  refuses).
- A directory entry is durable after `sync_dir`. Without it a power loss leaves
  any directory that existed since the last sync (changes reach the journal in
  order).
- `set_len` without `sync_all`: a power loss that undoes it leaves one of the
  images that a power loss before it could leave, so the model lets it take
  effect.
- A failed `sync_data` leaves the file as it was. It is not modelled that some
  systems drop dirty pages then; the worker stops at the first failure and
  never syncs again.

### Abstractions

- A record has size 1, so a chunk's id plus its record count is its end offset,
  and `chunk_max_size` coincides with `chunk_max_records`.
- An action is a number, a checkpoint the whole list of actions so far.
  `StateMachine::apply` is append or replace.
- In `SendPending` the caller always passes a callback; without one there is
  only less that is vouched for.
- An I/O error of the system during `open` is not an action of its own: `open`
  returns it, and the directory is as after a process crash at that step.
- `SyncBeforeRemove` states what a caller has to do before it removes chunks:
  queue a sync of the open chunk. The runs that check recovery assume it;
  `wal_purge` shows what happens without.
- An action that does not encode is refused by `append` with the buffer as it
  was (`append_record` truncates it), so it is no step. A checkpoint that does
  not encode is one (`RotateEncodeErr`), because rotation has changed the open
  chunk by then.
- In `WalDirectory` a rotation, complete or failed, is one step and its requests
  are queued together; opening the lock file and trying the lock is one step, because the
  file has no contents and is never removed; a crash of the system is left to
  `ChunkedWal`. Names have three ternary digits in groups of two instead of
  twenty decimal ones in groups of three, with a largest number below the
  largest three digits, so that a padded, a too large and a misspelt name all
  exist. The WAL creates every chunk under the one name `chunk_file_name` gives.
- In `RecordScan` a `u32` is two bytes of base 8 and the checksum is ideal (it
  tells all strings apart and is never zero).
- Actions are encoded by the application, and the WAL does not checksum them
  (`tests/corruption.rs` says so). `Recognisable` states what recovery then has
  to assume of the codec: it has a checksum of its own, or the damage starts at
  a record boundary and type id 0 is not one of its ids (zeros would otherwise
  decode as actions; `wal_record.rs` leaves 0 to 4 to the application), or the
  damage is in the checkpoint, which the WAL does checksum. `ScanExact` and
  `TornTailAccepted` hold under this condition; the instance has codecs on both
  sides of it.
- The caller rotates, drains and shuts down whenever it likes; drains take any
  leading part of the closed chunks.

## 3. Runs

| Run | Expect | What it checks |
|---|---|---|
| `flush_safety` | pass | byte accounting, memory bound, `done_seq`, order and finality of outcomes, shutdown, metrics; with I/O errors and panicking callbacks |
| `flush_progress` | pass | `wait_worker_idle` returns and every accepted request is resolved, with faults; a send or a shutdown returns unless the worker failed (then see finding 1) |
| `flush_stuck` | violation | finding 1 |
| `flush_underflow` | violation | finding 2 |
| `wal_power` | pass | offsets, persisted reports, the predecessor rule, the chunk map, purging, every open succeeds, the next replay, `DurableLog` is implemented; `open` returns; `shutdown` returns unless the worker failed and its send waits for room (finding 1), and once it closed the channel in any case; two crashes or power losses, one failing call |
| `wal_damage` | pass | the same promises for the opens that succeed, with batches of two, truncation on or off at each open, `mixed` damage that `open` must refuse, failing `sync_dir` and repeated opens; an open fails for one of three reasons only |
| `wal_encode` | pass | what survives a checkpoint that does not encode, with more rotations, failing writes and syncs, and a crash: offsets, closed chunks are readable when the worker is idle, files are reported before they are superseded, the next replay |
| `wal_report` | violation | finding 3 |
| `wal_purge` | violation | finding 4 |
| `wal_orphan` | violation | finding 5 |
| `record_scan` | pass | exactly the whole records are read, at their offsets; `short` and `zero` tails are cut off and stay so; reading ends |
| `directory` | pass | one owner, listed chunks are found, no chunk is known twice and only those a failed rotation left out are missed, readers read their own WAL's records |

**Bounds.** `FlushControl`: limit 2 with sizes 0, 1 and 3 has requests that fit,
that fill, and that exceed the limit alone; channel and batch of 2 make both
become full; 3 to 5 requests allow one being sent, two queued and a batch at
once. `UsizeMax` 15 is far above any correct count and small enough that a
wrapped one shows. `FlushMetrics` keeps one counter of each kind (two sums, a
maximum, a latest value). `ChunkedWal`: chunks of 2 records (a checkpoint and
one action), so two actions go through two rotations and three chunks;
two crashes allow a crash during the recovery from the first. Global offsets
stay within 0..8: at most two actions, one initial checkpoint, two of
rotations and two of truncating recoveries (or three actions, three rotations
and one recovery), so `MaxId` 8 keeps no chunk from being created. A queue of 1
with two actions, two crashes and every fault of the system but `sync_dir`
(`wal_power`) is complemented by a queue of 2, hence batches of 2,
with one crash, failing writes and `sync_dir`, all kinds of tails and truncation
on or off (`wal_damage`). `wal_encode` has three actions and two faults, so that
a rotation can follow one that failed, both can fail, or a write or a sync fails
in between; a crash may come on top. `RecordScan`: a checkpoint and two actions,
payloads empty, zero and nonzero, blocks of 3 bytes, so the zero check ends
inside, at and after a block. `WalDirectory`: two processes (symmetric), three
files, two records after the first ones, two deaths, and three stray files that
may appear: enough for a rotation, complete or failed, a purge, a second owner
that reuses the offsets, and a reader of the first one. The fault runs of
`FlushControl` do not check deadlock: there the system may stop because of
finding 1.

**Fairness.** Weak fairness of the steps inside a call that has begun (client
steps, open steps, join, the steps of reading a chunk) and of the worker: both
are threads the scheduler runs, and each step waits only for what its guard
says. The guard of a send in `ChunkedWal` does not show the byte limit, so the
send of shutdown is fair only while the worker has not failed: until then the
worker makes room (`SendReturnsOrFailed` of `flush_progress`), after that the
send may wait for ever (`flush_stuck`). No fairness is assumed of rotations, of
the caller making a call, of crashes, or of faults.

**Mutants.** Each property of each passing run is paired with a change of one
definition that a plausible bug would make, under which the property fails.

## 4. Proofs

All theorems hold for every value of the constants that the named assumptions
allow: any limit, capacity, batch size, chunk size, number of requests, of
actions, crashes, faults, processes and stray files. Extra hypotheses are part
of a theorem's statement and are listed with it.

### Flow control

Assumptions: positive limits, as `Config::validate` demands; sums of two buffer
sizes, or of a buffer and the limit, do not overflow `usize`.

`FlushControlProofs`:
- `TypeCorrect`: types, and the channel within its capacity;
- `BytesAlwaysAccounted`: until the worker gives up, `QueuedBytes.used` is
  exactly the bytes of the request in the client's hand, of the queue and of
  the batch;
- `WorkerNeverUnderflows`: the worker's `release` never underflows;
- `QueueMemoryBounded`: `used` stays within the limit or one request.

The argument is one inductive invariant, `IInv`. `BytesAccounted` sums a queue;
a sum over a sequence is recursive and out of the prover's reach, so each
request carries a running total `cum` as a history field, and the bytes of the
queue are the difference of two totals. This makes the invariant need
`QueueChain` (the totals of neighbours differ by a size, and grow), `LastCum`
(the newest total is the client's), `NonWriteFree` (other requests carry no
bytes), `IdleBatch` (nothing is held between two batches) and `RxInv` (the
channel lives as long as the worker; the error path of `send` starts only after
its end). `SeqRoom` and `ResultInv` carry the types.

In the second part of the module:
- `DoneNeverAhead`: `done_seq` never passes a request that was not carried out;
- `SuccessInOrder`: a request is Ok only after every earlier one;
- `DisconnectIsFailure`: who finds the channel closed finds the failure recorded;
- `ShutdownSettles`: after `shutdown` every request has its outcome;
- `OutcomesAreFinal` (an action property): no step changes an outcome.

None of these is inductive: they speak of a history, and say nothing of where
the unsettled requests are. `OInv` cuts the sequence numbers into zones:
settled, in the worker's batch, queued, not yet accepted. The borders are
computed from the lengths of batch and queue; `SeqInv` says that the requests
found there carry just the numbers after the border, `ZoneInv` what the history
says of each zone, `LifeInv` in which order the two threads end.

`FlushMetricsProofs`:
- `CallbacksAreCounted`: who was called back finds the write counted, and no
  write is counted that was not accepted;
- `IdleSnapshotsExact`: a snapshot taken after waiting for the idle worker is
  exact, although its loads are Relaxed and one by one;
- `ResidentMemoryBounded`: the bytes in the request path, summed request by
  request, are what `QueuedBytes` counts, and within the limit or one request;
- `MetricsOnlyObserve`: `FlushMetrics` implements `FlushControl`, so what is
  proved of the one holds of the other.

The first two follow from an account of the accepted writes (`WriteCount`: those
counted, those of the batch that `record_batch` has yet to count, those queued)
and of their bytes (`ByteCount`). The account is exact until `run_inner` fails;
`Behind` says that a failure leaves `done_seq` behind `sent_seq` for good, so
nobody finds a failed worker idle. The third compares the totals `cum` with a
recursive sum: that the sum exists and equals the difference of two totals is
shown for the least length at which it might fail, by the well-foundedness of
the naturals. `OneBig` says that above the limit one request is everything.

### The directory and its owners

`WalDirectoryProofs`, for any number of processes and any set of stray names:
- `SingleOwner`: whoever lists, opens, dumps or writes holds the lock;
- `ListedAreFound`: a listed chunk is there when it is opened;
- `ChunksAreKnown`: a WAL that is up knows each chunk file, once, but for those
  its rotations left out when they returned an error; these are neither in its
  map nor unlinked;
- `ReadersReadTheirRecords`: a reader reads the records of its own WAL or none.

From `NamesRoundTrip`: the name of an id reads as that id. This is an
assumption on the constants of `ChunkNames`, because digits are defined by
recursion over the number; TLC evaluates it for every number of the instance.
`DInv` says of each process how the names still to be looked at relate to the
directory and to the chunks replayed already. Two names that read as one id
cannot both be taken, because ids grow strictly during replay; the invariant
needs to know that a misspelt name that was passed has left the proper name on
the list, where it stops the open.

What a reader reads depends on the future: a chunk's file may still lack records
that wait in the queue, and the worker changes files in between. `RInv` therefore
follows the queue to its end (`Leads`: the files and the current file after all
queued requests): there the open chunk's file holds just its records, and the
file of every chunk that is closed, or was given to a reader, begins with that
chunk's (`Complete`). What a file holds now and what the chunk holds are two
beginnings of one sequence, hence one is a prefix of the other. When the worker
has quit its queue is empty, and from then on files only grow (`Grows`), whoever
owns the directory.

### Record scanning

Assumptions: payloads are strings of bytes, an application type id is less than
the checkpoint's, blocks are not empty.

`RecordScanProofs`:
- `ScansExactly`: a chunk that is opened gives back exactly the records written
  whole, at the offsets that are the sums of their sizes;
- `TornTailsAreCut`: what recovery removes held nothing whole, and it refuses a
  file only where the code may.

Both hold for any number of records of any length, for each place where the
file may end and each place before it where the zeros may begin. Three groups of
lemmas come first. *What the folds compute*: `Checksum` and `EncodeAll` are
recursive functions of the community modules; that such a function exists takes
an induction each, and then a checksum has no zero byte (`ChecksumFacts`), and
one more record adds its bytes at the end (`FrontStep`, `FrontsArePrefixes`).
*What `decode` answers* (`DecodeCases`): a whole record is read back whatever
follows it (`DecodeWhole`), a front part of one is an unexpected end
(`DecodeShort`), and a torn one is never a record (`DecodeTorn`): a checksum
that was read had to be nonzero in its last byte, so this byte lies before the
zeros; then so do the type and the length, which are the written ones, and the
record was whole. *What the image holds* (`TailFacts`): after the whole records
comes a part of the next one, then zeros.

The invariant `ScanInv` says, of images that `Recognisable` admits, that the file
is the image or its whole records (`Kept`), that the records read are the first
ones written and the offsets the ends of their bytes (`Progress`), and at each
point of `open_with_truncate` what the answers so far allow (`Where`): an error
is met only at the end of the last whole record, where `Remainder` begins.

### ChunkedWal

`ChunkedWalTypeProofs` begins with what the operations of the disk do, and
`DiskInv`: the rule recovery rests on, for **every directory a power loss may
leave** (`images`) and not only for the present one. Which operations keep it is
shown of the disk alone. Then `WalTypes`: the types need `Control`, `Requests`
and `Locals`: which variables mean something at which point of the two threads.

The theorems of `ChunkedWalProofs`, `WalRecoveryProofs` and
`WalRefinementProofs` are about codecs that encode every checkpoint
(`"encode" \notin Faults`; every other call may fail, unless a theorem says
otherwise). A rotation that ends with an encoding error breaks what their
invariant rests on: the chunks the owner knows of are then not all the chunks
there are (end of section 5). `WalTypes` needs no such hypothesis.

`ChunkedWalProofs`:
- `PredecessorAlwaysDurable`: a chunk has a record only if every earlier one is
  whole, synced, and ends where the next starts;
- `RecordsLandWhereTold`: the offsets of `append` are where the worker, which
  only appends, puts the records;
- `ClosedAreReadable`: when the worker has caught up, `load_record` finds every
  closed chunk at its full length.

The invariant is `WInv`. `DiskInv`, `OpeningInv` (what the steps of `open` have
established so far) and `UpInv` (owner and directory) hold at any time. `PipeInv`
holds until the worker fails or dies, and ties the requests still to be done to
both sides: the file being written lies after whole chunks and before empty
ones in every image (`FileInv`); a chunk the worker will move on to is durable
in the directory and unused (`FreshInv`); an `AppendFile` comes directly after a
sync write (`SyncInv`), which is the reason why the predecessor rule survives a
rotation spread over three requests; removals take chunks from the front
(`RemInv`); the places of the requests follow each other (`BatchChain`,
`TodoChain`). When the worker stops in the middle, `PipeInv` is given up, and
what is left is `DiskInv` and `UpInv`, which is enough for the next open.

`WalRecoveryProofs`:
- `RefusesOnlyDamage`: `open` refuses a directory only for a tail it may not cut
  off, a record overwritten in part, or a file left by a failed rotation;
- `MapHasNoHole`: while the worker lives, the chunks the owner knows of leave no
  hole (`MapInv`), also after rotations that fail before the new chunk takes
  over;
- `LastSegmentAlwaysDefined`, if `sync_dir` never fails: recovery never asks
  `last_segment` of a chunk without records. `OrphanInv` says that in no image an unused
  chunk lies before a used one; it holds because the empty files after the
  worker's are the one a rotation is creating or those it is about to move to;
- `OpenAlwaysSucceeds`, if besides truncation is allowed and no record is
  overwritten in part: every `open` of what the WAL left behind succeeds,
  whatever crashes interrupted the opens before (`RepairInv`).

In the second part of `WalRecoveryProofs`, for a caller that syncs before it
removes (`SyncBeforeRemove`):
- `ReportsAreDurable`: what the worker told `on_chunk_persisted` is synced, and
  no later power loss makes that untrue;
- `SupersededAreReported`: a file the worker has left was reported to its end;
- `PurgesAfterFlush`, if `sync_dir` never fails: the removal of chunks becomes
  final only when the oldest chunk left has synced records.

`ReportedIsDurable` is not inductive for two reasons. A power loss may put back a
directory of the past, so `Covered` bounds the reports in every image. And an
offset that was reported must not be used again by a new, unsynced chunk, so
`Anchored` says that each image holds the reported chunk or a later one with
synced records. Keeping `Anchored` across a removal needs `PurgeInv`: on the way
to each `RemoveChunks` the chunk the worker is in gets synced records.

`WalRefinementProofs`, with `SyncBeforeRemove`: `WalImplementsDurableLog`, the
refinement of `DurableLog`. The mapping reads `log` from `sm`, and `up` from the
owner's `pc`. Steps correspond so:

| `ChunkedWal` | `DurableLog` |
|---|---|
| `AppendAction` | `Append1` |
| a callback, panicking or not | `Acknowledge`, or none |
| `Join` | `CleanShutdown` if the worker had no error, else `Stop` |
| `ProcessCrash` | `Stop` |
| `PowerLoss` | `PowerLoss` |
| `ReopenLastClosed`, `CreateWrite`: `open` returns | `Recover` |
| any other step | none |

The invariants above say where records are; the refinement needs to know which
ones. `LogInv` says that there is a *base* for each chunk, the number of actions
its checkpoint stands for: record `q` of chunk `i` then is action
`base[i] + q - 1` of the log, whether it is in a file, in a request on its way,
in the batch, in the open chunk's buffer or already replayed. How much of the
log a directory holds reduces to how many records its files have: in every image
later chunks hold later parts (`Rising`), some chunk's synced records reach
`acked` (`Survives`), and some chunk's records reach `written` (`Found`). A base
is fixed when the chunk is created and may be chosen anew once its file is in no
image, so `LogInv` is an existential statement and each step names the new
bases.

The hypotheses are needed: with a failing `sync_dir`, `wal_orphan` violates
`LastSegmentDefined` (finding 5), with a checkpoint that does not encode,
`ChunkMapContiguous` and `ImplementsDurableLog` fail (end of section 5), without `SyncBeforeRemove`, `wal_purge`
violates `PurgeAfterFlush` (finding 4), and a tail that may not be cut off or a
record overwritten in part are reasons to refuse that `OpenRefusesOnlyDamage`
names.

Facts about chains of any length go through one lemma on sets,
`NatSetInduction`, since the library's induction theorem takes an operator as
parameter.

### Only model-checked

- What holds of `ChunkedWal` after a checkpoint that did not encode: the four
  properties of `wal_encode`.
- All liveness, and whatever rests on ENABLED: outside this prover.
- `NamesRoundTrip` of `ChunkNames`: it is about powers of `Base`, and the provers
  have no rule for exponents. It is an assumption that TLC evaluates for every
  number of the instance.

## 5. Findings

1. `flush_stuck`. After a worker failure, `release_all` runs before the failure
   is recorded and before the receiver is dropped. A `send` in between is
   accepted and keeps its reservation for good; a later `send` or `shutdown`
   that does not fit waits for a notification that never comes.
2. `flush_underflow`. A `send` that reserved before `release_all` and fails
   after it releases its bytes a second time: a panic in debug builds, a huge
   count in release builds.
3. `wal_report`. `open` reports every chunk it read as persisted up to its end.
   After a process crash the records of the last chunk may be in the page cache
   only, and `open` does not sync them.
4. `wal_purge`. `RemoveChunks` follows the checkpoint of the next chunk in the
   queue, but not a sync of it; the unlink can reach the disk first. Callers
   have to sync before they remove.
5. `wal_orphan`. If `sync_dir` fails in a rotation, the new, empty file stays.
   The caller may append more and rotate at a later offset; the orphan then lies
   inside the chunk list, and the next `open` refuses it as a gap. If the chunks
   before it have been purged, `open` replays the empty file first and panics in
    `last_segment` instead of returning an error.

**Rotation and a codec that fails.** One more weakness shows as a hypothesis
rather than a run. Rotation lets the new chunk take over
(`src/wal/chunked_wal.rs:685`) and only then appends the checkpoint (`:687`),
which runs the application's codec (`wal_record.rs:97`). If that returns an
error, the full chunk has left `open` and never joins `closed` (`:693`), while
the worker goes on:
- `load_record` answers "Chunk not found" for its segments, and a drain does not
  remove it before the next open. With `ChunkMapContiguous` as an invariant in
  `WalEncode.cfg`, TLC finds this hole.
- Until the next record, `WAL::last_segment` (`:756`) panics.
- The caller's next action becomes the first record of the new chunk, although
  `api/state_machine.rs:44` says of the checkpoint that the WAL "stores this
  value at the beginning of each new chunk". After the next open the chunks
  before it can be removed, and then an open gives back a log without its
  beginning. With `ImplementsDurableLog` as a property in `WalEncode.cfg`, TLC
  finds such a behaviour.
- If a chunk after the one left out is removed first, the next open refuses the
  directory as having a gap.

Encoding the checkpoint before the new chunk takes over would avoid all four.
`wal_encode` shows what holds all the same.

## 6. Not modelled

- Latency histograms and times of the metrics, `ChunkStat`, `on_disk_size`,
  `dump_loaded_records`, formatting: they only read or only count.
- Checksum collisions and bit rot: a crash leaves a front part of what was
  written, then zeros.
- An action that provides no type id, or the checkpoint's, or does not encode:
  `append` rejects it and leaves everything as it was.
- I/O errors of single reads; `open` returns them where it stands.
- `flush_batch_wait`: a batch may end at any time, which covers every timeout.
- A `LOCK` file removed by hand, and file systems without working locks.
- Values and defaults of `Config` beyond the assumptions on the constants.

## 7. Plan

Done: flow control, metrics, disk, worker, recovery, owner and the abstract
log, record scanning, file names, the directory lock and readers; the runs
above; the theorems of section 4, among them every safety invariant that a
passing run checks.

What could follow: the invariant of `ChunkedWal` for rotations that end with an
encoding error, whose chunk map has holes; liveness, with another prover.

## 8. Running it

    tlc -config WalPower.cfg MCChunkedWal      # any run of PROJECT.json
    tlc -config RecordScan.cfg MCRecordScan
    tlc -config WalDirectory.cfg MCWalDirectory
    tlapm FlushControlProofs.tla      # and the other modules named ...Proofs

The proofs of one module take up to a few minutes on four cores.
