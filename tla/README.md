# TLA+ models of the atomic blob store

This directory models `atomic-blob-store`, a Rust library that keeps opaque
blobs in files, one file per key, and promises per-key order, ordered barriers,
an ordered shutdown and atomic replacement of each file. The models are written
from the source under `src/src`; paths below are relative to the repository root
(`src/README.md`, `src/src/engine/mod.rs`, ...).

| file | what it is |
|---|---|
| `Coordinator.tla` | handles, admission, coordinator thread, worker pool, shutdown, panics |
| `BlobEngine.tla` | `Coordinator` with jobs that save, load and clean up |
| `OrderedStore.tla` | abstract: what the engine promises its callers; `BlobEngine` implements it |
| `BlobFiles.tla` | the system calls of one operation on one key, on Unix and Windows, with kills and power losses |
| `AtomicBlob.tla` | abstract: a register with one change per operation; `BlobFiles` implements it |
| `SaveStream.tla`, `LoadStream.tla` | one streaming save or load between a caller's endpoint and a worker |
| `Opening.tla` | opening stores in one namespace: validation, directories, initialization thread |
| `Envelope.tla` | the bytes of a blob file: streamed and whole encoding, both decoders |
| `FileNames.tla` | the file names of stores that share a namespace |
| `ByteRuns.tla` | the bytes of a stream by position, shared by the two streams |
| `CoordinatorProofs.tla` | theorems about `Coordinator`: types, exclusion, quiescence, order, barriers, shutdown, answers, workers |
| `BlobEngineProofs.tla` | theorems about `BlobEngine`, with its refinement of `OrderedStore` |
| `BlobFilesProofs.tla` | theorems about `BlobFiles`, with its refinement of `AtomicBlob` |
| `SaveStreamProofs.tla`, `LoadStreamProofs.tla` | theorems about the two streams |
| `OpeningProofs.tla` | theorem about `Opening` |
| `EnvelopeProofs.tla` | theorems about `Envelope`, with lemmas about folds, fields and chunks |
| `FileNamesProofs.tla` | theorem about `FileNames`, with lemmas about the parse of a name |
| `MC*.tla`, `MC*.cfg` | the TLC instances: three of `Coordinator`, three of `BlobFiles`, one of each other module |
| `PROJECT.json` | components, runs, mutants, source map, findings, hazards, theorems |

To repeat a check: `tlc -workers 4 -config MCCoordinatorShutdown.cfg MCCoordinator`
and `tlapm CoordinatorProofs.tla` (likewise for every other `*Proofs.tla`).

## 1. The system

### Components, their state and operations

| component | source | state | operations |
|---|---|---|---|
| Facades | `blocking.rs`, `tokio.rs` | a cloneable `EngineHandle` | load, save, clear, inspect, quarantine, load_into, save_from, flush, cleanup, close |
| Engine handles, admission, lifecycle | `engine/mod.rs`, `lifecycle.rs`, `event.rs` | `Mutex<Lifecycle>`, sender of the unbounded coordinator channel, `CoordinatorJoin` | `submit`, `flush`, `cleanup`, `close`, drop |
| Coordinator | `engine/scheduler.rs` | per-key queues, active keys, pending barriers, `maintenance_active` | one event at a time: submission, completion, barrier, close; dispatch; final drains |
| Worker pool | `engine/workers.rs` | worker threads and their job channel | `prepare` (grow), run a job, `shutdown` (join) |
| Operation dispatch | `engine/operation.rs` | the operation and its reply sender | execute, deliver, fail |
| Streaming endpoints | `engine/stream.rs` and both facades | bounded chunk channel, acknowledgement, result channel | feed chunks, cancel, acknowledge |
| Filesystem backend | `filesystem/mod.rs` | namespace directory and its files | initialize, save, clear, quarantine, cleanup, directory sync |
| Envelope codec | `format.rs` | none | header, payload, checksum; reading and validation |
| Paths, configuration, errors | `path.rs`, `config.rs`, `error.rs`, `lib.rs` | none | hashing a key to a file name, validation, error kinds |

| component | modules |
|---|---|
| Engine handles, coordinator, worker pool | `Coordinator`, `BlobEngine`, `OrderedStore`, `Opening` |
| Operation dispatch | `BlobEngine`, `BlobFiles` |
| Streaming endpoints, facades | `SaveStream`, `LoadStream`, `Opening` |
| Filesystem backend | `BlobFiles`, `AtomicBlob`, `Opening`, `FileNames` |
| Envelope codec | `Envelope` |
| Paths, configuration | `FileNames`, `Opening`, `Envelope` |

### How they interact

A facade call builds an operation with a one-slot reply channel, reads the
lifecycle and sends an event to the coordinator under the lifecycle mutex. The
coordinator alone owns the queues: it dispatches at most one operation per key
and at most `max_concurrent_operations` in total to worker threads it starts on
demand. A worker runs the operation against the filesystem and sends a completion
event over the same channel; the coordinator first dispatches what can run now
and then delivers the result to the caller. Flush, cleanup and close are barriers
in a second queue, `pending`, in which later submissions wait too. After the last
close barrier is reached the coordinator joins its workers, sets the lifecycle,
answers the pending closes, drains the channel and returns; close callers then
join its thread. A panic of the coordinator is caught at the top of its thread:
unwinding drops everything it holds, joins the workers, and the channel is
failed.

### Where it is hard

* Barriers, per-key queues, the concurrency limit and failing thread spawns
  interact in one event loop with several `continue`s; the order in which
  operations run must still be the order of admission.
* Callers race the coordinator's exit: a request sent at the wrong moment would
  never be answered.
* Three places answer close callers, and a job panic, a worker-thread panic and a
  coordinator panic each lose a different part of the state.
* A save or clear consists of several system calls; an error, a kill or a power
  loss between any two of them must leave a complete blob, and the error has to
  tell the caller what is known.
* Streaming operations couple a caller's progress with a worker's: each waits for
  the other on bounded channels, either may vanish at any await, and only dropped
  channel ends tell the other side.
* `open` of the Tokio facade runs on a thread that outlives a dropped future.
* The two decoders are written separately and must agree; a file cut at any byte
  must be recognized.

`PROJECT.json` lists these hazards one by one, each at its line, with the
properties that guard against it. What makes each component correct: per-key exclusion
and order, barrier order, no stall (coordinator); a thread for every job (pool);
exactly one answer, agreement between close callers, nothing left at exit
(lifecycle); atomic visibility and honest durability of each outcome, no damage
to other files, age-respecting cleanup (filesystem); no commit of a prefix
(streams); decoding inverts encoding and rejects everything else (codec).

## 2. The models

### `Coordinator`

A request is an identifier in `Ops`, `Maintenances`, `Flushes` or `Closes`; each
is used once. The payload and the file effects are left out: an operation's own
result, success or error, is the reply `"Ok"`.

| variable | code |
|---|---|
| `lifecycle` | `Mutex<Lifecycle>` shared by handles and coordinator |
| `handles` | some `EngineHandle` (and so a channel sender) is alive |
| `events` | the unbounded coordinator channel; an element is a request (stage `channel`) or its completion (`completed`, or `lost` when the job panicked) |
| `pending`, `queues`, `registry`, `active`, `maintenanceActive` | the locals of `run_scheduler` (`registry` is the key set of the queues map) |
| `workers` | threads in `WorkerPool` |
| `pc`, `completing` | where in the handling of an event the coordinator is |
| `stage`, `reply` | where each request is, and what its caller receives |
| `sent`, `ticket` | history: admission order |

Callers, workers and coordinator interleave freely. The coordinator's handler of
one event contains loops (dispatch of all idle keys, promotion of pending
events, drains); these are unrolled into steps that nothing but the coordinator's
own panic can leave, so callers and workers act between two turns of a loop as
they can in the program. Admission is one step because the lifecycle is tested
again and the event sent under one acquisition of the mutex; the unlocked
`ensure_open` before it can only refuse calls that the locked test refuses too. A cleanup
with a minimum age of zero is refused between the two tests, with `InvalidCleanupAge`
(`MayBeInvalid`).

Faults are switched on by two constants. `WorkerFaults`: a thread spawn fails (with
any number of threads started before it), a job panics, a worker thread is found
panicked at the join. `CoordinatorFaults`: the coordinator panics while it has an event in hand, while
dispatching, promoting or answering.

Branches no execution can take are left out: `WorkerPool::execute` fails only
without a sender or a receiver and the pool holds both until it is shut down, and `prepare_dispatch` fails
only under a test hook.

Three consequences of the code are kept visible:

* The channel-send failure in `close` (`src/src/engine/mod.rs:711-728`) locks the
  lifecycle mutex a second time on the same thread. In the model this is a close
  without a step; `ExitLeavesNothing` shows that it cannot be reached, because the
  channel is only disconnected in a terminal lifecycle.
* A close whose reply sender is dropped by an unwinding coordinator reads the
  lifecycle itself. Depending on whether the workers have been joined by then
  it reports `EngineFailed` or `ShutdownFailure`, so `CloseAgreement` excludes a
  panicking coordinator.
* A completed key is dispatched before other keys are. At capacity a key whose
  callers never pause can keep others waiting; no fairness between keys is claimed.

### `BlobFiles`

One key, one operation at a time (`Coordinator` shows why this suffices: operations
of one key and cleanups exclude each other, and names of distinct keys are
distinct as long as BLAKE3 does not collide). Every system call is one action with
a success and a failure branch.

| variable | code |
|---|---|
| `dir` | the namespace directory as processes see it: canonical, staging and quarantine names |
| `disks` | every directory that a power loss may leave: the last synchronized one and all later ones |
| `namespace` | the directory exists |
| `op`, `pc`, `result` | the operation, its next system call, what it returned |
| `clock` | wall clock, for time stamps and the cleanup's age test |
| `durable` | ghost: what the results so far let a caller conclude about the canonical path after a power loss |

A file has a value, the number of envelope sections written (header, payload,
checksum), whether its content was flushed, its time stamp and, as history, when
the operation began that made it a staging file. A power loss picks any directory
of `disks` and truncates unflushed files at any section.

Assumptions about code outside the repository: `AtomicWriteFile::commit` (Unix)
flushes and renames; whether it has synchronized the directory when it returns is
left open, and an error of it may come before or after the rename. On Windows an
error of the replacing move is equally ambiguous, as its documentation says
nothing; errors of the non-replacing renames of clear and quarantine (`RemoveBlob`, `QuarantineCommit`) are taken to
have no effect. Name collisions are redrawn until a free name is found, so a
collision is a stuttering step (`NameFree`). The wall clock may be set back (`SetBack`),
between operations only: within one it would falsify the instant at which the operation
began (`began`, `staged`), which `CleanupRespectsAge` measures ages from. The
namespace disappears only between operations.

A cleanup visits every entry it found: it removes an owned file that is old enough, skips
any other, or notes a failure (`failures`) when the entry, its metadata or the deletion
failed. So `CleanupRespectsAge` has two halves: nothing young is taken, and a
report without failures (`"Ok"`, against `"Failures"`) leaves nothing old.

`AtomicBlob` says what this amounts to: a register which an operation changes at
most once, in one step, to its target; whose answer says `done`, `refused` or
`unknown`; and of which a power loss brings back a value held since the last
synchronization. The mapping: `value` is the value at the canonical path,
`recoverable` the values there in `disks`, `effect` is `pending` until the rename or
unlink and `done` while only the directory sync and the deletion of a Windows
staging file are left, and `told` classifies the status returned: `Ok` and the
late errors, the failed opening of the directory for its sync among them, are `done`, `AtomicCommit` is `unknown`, every other error is `refused`.

### `BlobEngine` and `OrderedStore`

`BlobEngine` extends `Coordinator` with what the jobs do. Between its start and its
completion a job has one effect or none: a save replaces the blob of its
key, a load reads it. That this is one step (`Perform`) is what `BlobFiles` shows of
the files; that a panic may come before or after it is kept.

`OrderedStore` is the promise to callers without threads and queues: a request
gets a position at admission; a job happens once, at an instant between
admission and answer, after everything earlier on its key and after the
barriers before it; a flush or close succeeds when what precedes it is over; a close
returns when nothing admitted is left; a request that was turned away never
happens. The mapping reads positions off `ticket`, answers off `reply`, and the
status of a request off `stage`, `reply` and the job's outcome (`StatusOf`).

### `SaveStream` and `LoadStream`

One streaming operation each, for a caller of either facade (`facade`). `pc` is the
next step of the endpoint (`save_from`, `load_into`), `stage` that of the operation and
its worker. They share the chunk channel `chunks` (capacity 2), the one-slot
`result`, for a load the acknowledgement `ack`, and booleans that say which channel ends
are alive; dropping an end is a step of its own where the code drops several in
turn. A byte is its position in the source or payload, so what was written shows
order and completeness. `declared` and the true length of the source are
independent.

`Abandon` is a Tokio future dropped before its first poll or at any await, or a
blocking call left because the caller's reader or writer panicked. `Reject` is an
operation answered with an error before it ran, because it was not admitted or because no
thread could be spawned for it (`Rejections`); `Lose` one dropped unanswered by a
panic of its job or of the coordinator. The Tokio endpoint of a save prefers a
result that is there to its source (`TakeResultFirst`); the blocking one sees it only
at its next send. Admission and dispatch are `Coordinator`'s and are here one
step each; the system calls of the commit are `BlobFiles`'.

### `Opening`

Callers open stores in one namespace, concurrently and repeatedly: validation of
the namespace name and of the maximum size, inspection of the root, `create_dir`
with its three outcomes, the sync of the root on Unix, the start of the
coordinator thread. A Tokio open runs on its own thread, sends the handle through a
channel and may find its future dropped on either side of the send. `handle`
says who holds the handle; an engine without one ends (`LastHandleStops`). A caller
opens again only after its earlier engine ended. `durable` says whether the entry of
the namespace in the root survives a power loss.

### `Envelope`

Tag, version, length, payload and checksum as sequences of bytes below `Base`, with
narrow fields. A streaming save writes chunk by chunk and may fail within any
write; later the file may be damaged at its end, byte by byte, so that every file
of up to `MaxFile` bytes is visited. The decoders are the lists of their checks in
the order of the code; the answer is the first that fails. A read error at any
offset is a parameter (`fault`). `usize` and `maximum` vary: `load` refuses what does not fit
in memory, `load_into` does not. CRC32C is some fold that can be continued, which is
all the code uses.

### `FileNames`

Names are sequences of tokens: letters, a capital, the dot, and the words `tmp-v1`,
`save`, `clear`, `quarantine-v1`, which suffixes may spell too. Stores with any valid
suffix share a namespace on a file system that ignores case, commit blobs, leave
staging and quarantine files with names derived from the file stem, and clean up by
parsing names as `is_owned_temporary_filename` does.

## 3. What is checked

| run | instance | shows |
|---|---|---|
| `barriers` | 3 operations on 2 keys, a cleanup, a flush, 2 workers, worker faults | order per key and around barriers, exclusion of cleanups, a worker for every job, no stall: `PerKeyFIFO`, `WorkerForEveryJob`, `MaintenanceExclusive`, `BarrierOrder`, `NoStall`, `TypeOK` |
| `shutdown` | 3 operations, a flush, 2 close callers, 2 workers, all faults | `PerKeyExclusion`, `CloseOrder`, `TerminalIsQuiescent`, `ExitLeavesNothing`, `CloseAgreement`, `ReplyOnce` |
| `liveness` | 2 operations on 2 keys, a cleanup, a close, 1 worker, all faults | `EveryRequestAnswered`, `EveryCloseReturns`, `LastHandleStops` |
| `store` | a save and a load of one key, a cleanup, a close, 2 workers, all faults | `Implements`: the engine refines `OrderedStore`; `LoadsSeeLastSave` |
| `files_unix` | 3 operations, 2 values, 2 identifiers | `IsAtomic`: the files refine `AtomicBlob`; `DurableOutcome`, `QuarantineHolds`, `AbsentIsGenuine` |
| `files_windows` | 3 operations, a value and an oversized value, 2 identifiers, 2 times | `IsAtomic`, `DurableOutcome`, `CanonicalComplete`, `DerivedFilesKept`, `CleanupRespectsAge` |
| `clear_sync` | 3 operations, 1 value | `ClearIsSynchronized` is violated (section 5) |
| `save` | both facades, declared lengths up to and past the maximum, sources shorter, equal and longer | only the whole input is committed (`CommittedIsWholeInput`), the answer tells what happened (`AnswerTellsOutcome`) and names the cause (`ErrorsNameTheCause`), neither side waits for one that is gone (`NeitherSideWaits`) |
| `load` | both facades, payloads of up to 4 chunks, absent and corrupt files | `OutputIsValidated`, `SuccessMeansWholeOutput`, `NeitherSideWaits` |
| `opening` | a blocking and a Tokio caller, 3 calls, Unix, kills and power losses | engines run only on a directory and the creator's namespace is durable (`EngineOnNamespace`); no engine is left behind (`NoOrphanEngine`) |
| `envelope` | all files of up to 8 bytes over 3 byte values, 3 maximums, 2 word sizes | `DecodersAgree`, `AcceptsExactly`, `LoadableWhenFinished`, `FaultNeverMisleads` |
| `file_names` | 9 suffixes, of which 4 are valid, one hash, 3 files | `StoresKeepApart` |

All runs but `liveness`, `store` and `opening` check for deadlock. In `Coordinator` the only
state without a further step is the stopped engine with every call returned, in
the streams the call that returned with its operation released; both have a
stuttering step (`Terminated`), so any other stop is an error. `liveness` and `store` turn
the check off because a stopped engine stutters, `opening` because callers may stop
opening stores.

**Bounds.** Three operations with two on one key are the least in which a key has
one operation at a worker and one queued while another key competes for the
slot; one cleanup and one flush give every order of two barriers with
submissions before, between and behind them; two workers make the pool grow in two
steps and fail half way, one worker brings the capacity limit to bear on
distinct keys; two close callers can be answered from two different places. Three
file operations allow a failure, its retry and an observer; two identifiers let a
leftover staging file coexist with a new one; two times and a minimum age of 1 give a file
younger than the minimum, one of exactly that age (which must go) and, when the clock has
been set back, one dated ahead of the clock (which must stay). Setting the clock back counts
as one of the three operations. Four chunks do not fit in a channel of
two, so both sides block on it, and chunks of two bytes give a shorter last one;
a declared length may be above the maximum and equal to the largest word. Three
calls of `open` let one fail, one race it and one follow. Eight bytes hold an
envelope with a payload of two chunks, or a shorter one and trailing data. Symmetry is used over
operations of the same key, close callers, values and identifiers, in safety runs only.

**Fairness.** `liveness`: weak fairness of the scheduler as a whole: it is one
thread that blocks only on `recv` and on joining the workers. Weak fairness of
each job's start, which needs a worker and has one (`WorkerForEveryJob`), and of
its end: filesystem calls return, and a streaming job ends because its caller
continues or drops its endpoint, which cancels it (`NeitherSideWaits`). Weak fairness of a close
caller that has been woken. No fairness for callers to submit, to close or
to drop a handle, nor for any fault. `save` and `load`: weak fairness of the engine
(admitted operations are served, by `liveness`), and of an endpoint, which is polled or
blocked. A Tokio source gets none: it may stall for ever and `save_from` still
returns when the operation is over. A blocking source, and the writer of a load in
either facade, are assumed to answer, since the code has no other way out of the
call. `opening`: weak fairness of each caller's thread; none for callers, dropped
futures or faults.

**Mutants.** Every property of a passing run has a mutant: a definition replaced by
the form a plausible bug would give it (defined just before it and marked
`Mutant`), with which TLC finds the property violated.

## 4. What is proved

Every safety property and both refinements that the passing runs check are also theorems,
checked by TLAPS. A run shows the property on its instance; the theorem holds for every value of the
constants that satisfies the module's named assumptions: any finite set of keys,
any sets of requests, values, identifiers and callers, any positive capacity and chunk
size, either platform, with and without faults; any byte base, tag, version, width of the
length field, word sizes and maximums; any set of suffixes and any length of a hash. The
bounds of an instance (`MaxOps`, `MaxClock`, `MaxInput`, ...) are arbitrary numbers there.

| module | theorem | property |
|---|---|---|
| `CoordinatorProofs` | `TypeCorrect` | `TypeOK` |
| | `KeysExclusive` | `PerKeyExclusion` |
| | `CleanupExclusive` | `MaintenanceExclusive` |
| | `TerminalQuiescent` | `TerminalIsQuiescent` |
| | `KeysInOrder` | `PerKeyFIFO` |
| | `BarriersInOrder` | `BarrierOrder` |
| | `ClosesInOrder` | `CloseOrder` |
| | `OneReply` | `ReplyOnce` (action property) |
| | `NeverStalls` | `NoStall` |
| | `WorkersSuffice` | `WorkerForEveryJob` |
| | `ExitIsClean` | `ExitLeavesNothing` |
| | `ClosesAgree` | `CloseAgreement` |
| `BlobEngineProofs` | `EngineIsOrderedStore` | `Implements` (refinement of `OrderedStore`) |
| | `LoadsReadTheLastSave` | `LoadsSeeLastSave` |
| `BlobFilesProofs` | `FilesAreAtomic` | `IsAtomic` (refinement of `AtomicBlob`) |
| | `AnswersBoundPowerLoss` | `DurableOutcome` |
| | `OnlyCompleteBlobs` | `CanonicalComplete` |
| | `QuarantineKeepsTheBlob` | `QuarantineHolds` |
| | `MissingMeansMissing` | `AbsentIsGenuine` |
| | `CleanupGoesByAge` | `CleanupRespectsAge` (action property) |
| | `OthersFilesKept` | `DerivedFilesKept` (action property) |
| `SaveStreamProofs` | `SaveIsAllOrNothing` | `CommittedIsWholeInput` |
| | `SaveAnswersAreTrue` | `AnswerTellsOutcome` |
| | `SaveErrorsNameTheCause` | `ErrorsNameTheCause` |
| `LoadStreamProofs` | `LoadWritesValidatedBytes` | `OutputIsValidated` |
| | `LoadSuccessIsWhole` | `SuccessMeansWholeOutput` |
| `OpeningProofs` | `EnginesRunOnNamespaces` | `EngineOnNamespace` |
| `EnvelopeProofs` | `LoadsAgree` | `DecodersAgree` |
| | `FormatAccepted` | `AcceptsExactly` |
| | `SavesLoad` | `LoadableWhenFinished` |
| | `FaultsReported` | `FaultNeverMisleads` |
| `FileNamesProofs` | `FormatsKeepApart` | `StoresKeepApart` (action property) |

**Assumptions.** They are the `ASSUME`s of the modules proved about, which TLC evaluates
in every run. `Coordinator`: the kinds of requests are disjoint, every operation has
a key, keys are finitely many (for cardinalities), the capacity is positive.
`BlobEngine`: saves are operations, and the tokens for outcomes and for "no blob" are
not requests.
`BlobFiles`: the platform is one of the two, oversized payloads are payloads, the
minimum age is positive, and the token for "nothing here" is neither a payload nor
a file. `SaveStream`, `LoadStream`: positive channel capacity and chunk size, a
maximum within the word, an old blob that is no sequence of source bytes.
`Opening`: the arguments are of the kinds `open` takes.
`Envelope`: at least two byte values, a length field and a chunk of at least one byte, tag and version
made of bytes, maximums and `usize`s within the word, the word itself among the `usize`s.
`FileNames`: suffixes are sequences of tokens; hashes and identifiers are hexadecimal, all
of one positive length.

None of the properties is inductive as it stands. The strengthened invariants
below were model-checked on the instances of section 3 before they were proved.

### `Coordinator`: exclusion and quiescence

That a key is in `active` is what
keeps a second operation from being dispatched, but `active` loses the key when
the completion is received, and all keys when the coordinator unwinds, while jobs
are still running. `ExclusionInv` therefore speaks of operations that *hold* their
key, from dispatch until their completion is received, and says: a queue holds
operations of its own key only (`Keyed`); a key has at most one holder (`Single`),
whose key a serving coordinator has in `active` (`Covered`); a cleanup that holds
does so alone (`Alone`), and a serving coordinator then has
`maintenanceActive` set (`Flagged`), which it only ever has with empty queues
and no active key; flushes and closes hold nothing. An unwinding coordinator has
lost `active`, but it dispatches nothing either, so `Single` and `Alone` survive.
Lemmas about `DispatchIfIdle`, the only place that hands an operation to a worker,
are shared by the actions that call it. `QuiescenceInv` says that a terminal
lifecycle implies that the coordinator is past its serving loop; there
`WorkersJoined` has held and nothing starts a job.

### `Coordinator`: order

`PerKeyFIFO` compares an operation that has started with an earlier one that may be
anywhere. `Places` says that the channel, `pending` and the queues hold each request
once, exactly where its stage says; `StageOrder` that tickets fall from place to place: what is in the
channel came after everything else, what is pending after everything queued or begun,
what is queued after what its key has begun; `ChannelOrder` and `Rising` that
each sequence is sorted. Together (`Line`) they are inductive with `ExclusionInv`, `KindInv` (which
kind of request can be at which stage), `ReplyInv` (which stages have no reply yet) and
`TicketInv` (tickets are distinct and handed out in order): this is `OrderInv`.
`Line` is stated about given sequences and stages, not about the variables, so that a
step that receives an event, queues it and dispatches another is proved as a chain of
three.

`Moves` lists the changes of stage and reply that a step can make to one request. It is
proved once for all actions, and the properties that follow a request over time, `ReplyOnce` among them, are
read off it. `BarrierOrder` follows from `Line` and the guards of
`advance_pending_if_ready`: what precedes the front of `pending` is over when the coordinator is idle.

### `Coordinator`: shutdown, progress and workers

* `LifeInv` ties the lifecycle to the coordinator's position (`PhaseInv`), to whether a
  close has been received (`ClosingInv`) and to the replies of closes (`AgreeInv`), and puts closes last in
  `pending` (`LastInv`). `CloseAgreement` follows, and so does the part of `CloseOrder`
  that work admitted behind a close never runs.
* `LoopInv` says what holds between turns of the loop: no key could be dispatched
  (`Served`), and the front of `pending` is a barrier that has to wait (`Blocked`);
  `BusyInv` says that each active key, and a set `maintenanceActive`, has a job behind it.
  So a waiting coordinator with anything left to do has a completion to
  come: `NoStall`.
* `DrainInv` says what each way out of the loop leaves at which stage; with `Places`
  this gives `ExitLeavesNothing` and the other part of `CloseOrder`.
* `PoolInv` bounds the active keys by the worker threads, which
  `WorkerPool::prepare` guarantees before each dispatch, also if it fails half way. By
  `Single` the holders map one-to-one to active keys, so the jobs in the pool are at most as many
  (`JobInv`). An unwinding coordinator has no `active` to count by; there `JobInv` is kept
  because jobs only become fewer.

`EngineInv` is the conjunction of all of these but the pool's.

### `BlobEngine`

A step of `BlobEngine` is a step of `Coordinator` or leaves its variables alone, so
`StoreSpec` implies `Spec` and every theorem above holds of it.

`LoadsSeeLastSave` needs to know what the blob of a key is: the last save, in the order of
admission, that took effect (`BlobInv`). A save that takes effect is that one because
everything on its key that had an effect came before it. `PerKeyFIFO` does not say so, as
it is silent about operations that are over; `PassedInv` keeps what it says at the
instant of the effect: the operations before it on its key have left the workers.

For the refinement, `AnsweredInv` says that a request that is over has its answer and that a
close returns from a stopped coordinator, `FinishedInv` that a completed job
had its effect. A step other than a panic changes at most one request as far as the ordered
store can see (`SchedulerInside`, `ClientsChangeOne`); `Moves` says how, and each way is an
action of `OrderedStore` (`AdmitRefines`, `RefuseRefines`, `AnswerRefines`, `ReturnRefines`). A panic
is `Fail` of everything the coordinator held. The step that carries the promise is a job's
effect: that the job is then due (`DueWhenRunning`) is where order per key, barriers,
close order and clean exit come together.

### `BlobFiles`

The invariant says which operation is at which system call (`StepInv`); that the
staging file of a save is written, then flushed, then renamed (`StagingInv`); that
every directory a power loss may leave has a complete file at the canonical
path or none (`DiskInv`); what the operation has done to the blob and what the results
so far allow (`EffectInv`): before the rename or unlink the possible values are those at
the start of the operation, all within `durable`, and after it the target is in place;
that a staging file is not dated before the operation that made it one
(`AgeInv`), a comparison of two instants that no later change of the clock disturbs; and that
a cleanup without failures has left no old staging file among those it visited (`SweepInv`).
`AgeInv` is what makes the first half of `CleanupRespectsAge` true of a clear on Windows, which turns an
arbitrarily old blob into a staging file: it refreshes the time stamp first. `SweepInv` gives
the second half.

For the refinement each action is first summed up by what it does to the possible
directories, keep the blob (`KeepsBlob`) or set it (`SetsBlob`), and to the operation, which
goes on (`Continues`) or answers (`Returns`); these are the actions of `AtomicBlob`
or stuttering. There is one step per action, kills and power losses included.

### Streams and opening

In `SaveStream` a message's place in the source is read off its first byte. `DataInv` says
that the staging file, the messages in the channel and the next one to be sent
follow one another without gap or overlap (`Joined`, `Contiguous`), and that the marker
comes last; `SourceInv` what each step of the endpoint knows about the source; `OutcomeInv` that each
result and answer tells the truth about the blob. At the commit the marker has
been received, hence everything before it. `LoadStream` is the mirror
image: the caller's output, the channel and what the worker has read (`WorkerInv`) join up,
and an acknowledgement is given once, when the channel is empty and closed. Each of the two
proof modules begins with the facts about runs of bytes that it uses.

In `Opening` everything the invariant says of one caller must survive the steps of the
others, which create directories, lose power and open engines: `Checked` (what has been found
about root, namespace and arguments still holds), `Safe` (a namespace this call
created is durable before anybody is told) and `Held` (a running engine has its handle with
the thread, in the channel or with the caller).

### `Envelope`

What the codec computes is defined by recursion over bytes and digits, so the proofs need
induction. The library's induction theorems take a predicate as a parameter, which the
provers cannot instantiate; the existence of a least element of a non-empty set of numbers
(`WFMin`) takes a set instead. From it come induction over the numbers and sequences of a
given set (`LeastNumber`, `SetInduction`, `SeqInduction`), that a recursive function exists and follows
its equation (`Recursion`, `FoldRun`), and the facts about the operators of the model:

* a fold over a concatenation continues the fold over its first part (`FoldConcat`), so a
  checksum continued chunk by chunk is the checksum of the whole (`CrcStep`, `CrcAllStep`);
* a field and the number it spells determine each other (`NumberOfField`, `FieldOfNumber`);
* the chunks the streaming decoder reads are the payload, without gap or overlap
  (`ChunksHold`), also with a shorter last chunk or none at all;
* the answer of a list of checks is the first failure (`FirstErrorProperties`,
  `FirstErrorConcat`); a chunked read fails exactly when one read of the payload does, and with
  the same error (`ChunkReads`).

With them each decoder is written as the same chain of answers (`DecodeAnswer`,
`ValidateAnswer`), but for the test of memory that only `decode` makes. `DecodersAgree` follows
because both compare the same checksum (`SameChecksum`, `Agreement`). A read error replaces an
answer by `Io` or leaves it as it is at every link of the chain (`Spoiled`), which is `FaultNeverMisleads`.
`Acceptance` says that an accepted file is the encoding of its payload, and conversely.

The stand-in for CRC32C has one byte; the proofs use that it is a fold with values in a
byte, not which one. These facts hold of every sequence of bytes. Only `LoadableWhenFinished` is about how a file came
to be, and the inductive invariant (`Typed`, `Written`) is for it: while the payload is written the file is the header
and the payload so far, and `crc` the checksum of both; when done the declared length has
been written, and the checksum follows; after a failure the file is the start of an
envelope for the declared length, short of its checksum (`Begins`), which the decoders
report as truncated (`Truncation`).

### `FileNames`

`StoresKeepApart` speaks of one step, and is true because of names that earlier steps made.
The invariant says that open stores have suffixes that validation accepted
(`FormatsAccepted`) and that every file has a hash, the suffix of its format and what belongs to
its kind for its name (`FilesNamed`). The rest is about tokens at positions (`Composed`): in the
name of a blob the only dot is the first token of the suffix, so the stem is the hash
(`StemOfBlob`); the marker of a suffix occurs in a name only if that is the suffix of the file
and a staging file's remainder follows (`MarkerInName`, `OwnedOnly`), and the parse accepts
every remainder a save or a clear makes (`OwnedStaging`). So a cleanup takes the staging files
of its own format and nothing else (`CleanupExact`). Accepted suffixes are lower case, so
two names that a file system that ignores case takes for one are equal; a blob's name determines its suffix
(`OneSuffix`), hence a commit replaces only a file of its own format (`CommitReplacesOwn`).

### What the proofs changed

Four `CASE`s of the models had arms that overlapped (`Told` in `BlobFiles`, `DrainReply` and
`DrainReplyOk` in `Coordinator`, `StatusOf` in `BlobEngine`). TLC takes the first true
arm; TLA+ leaves the choice open, and the proofs could not. They are now deterministic, with the
meaning TLC gave them. Two assumptions were implicit in the use of model values and are now
stated: `AbsentAssumption` in `BlobFiles` and `OutcomesAssumption` in `BlobEngine`.
`Envelope` folds with a recursive function of its own (`Fold`, `Power`) in place of the library's
operators, about which nothing can be proved; its states are the same.

### Only model-checked

Liveness under fairness, which the prover does not support: `EveryRequestAnswered`,
`EveryCloseReturns`, `LastHandleStops`, `NeitherSideWaits`, `NoOrphanEngine`.

## 5. Finding

On Unix `clear_blob` synchronizes the namespace directory only when its own
`remove_file` succeeded. If that sync fails, the clear reports
`SyncNamespaceDirectory`; the retry finds no file, checks only that the namespace
exists (`src/src/filesystem/mod.rs:304`) and returns `Ok` with the removal never
synchronized, so a power loss can bring the blob back after a successful clear.
`src/README.md:131` says that Unix "synchronizes directories after namespace
creation and clear". The run `clear_sync` shows the sequence.

Opening follows the same pattern: an open that finds the namespace
(`src/src/filesystem/mod.rs:68`) skips the sync of the root, also when an earlier open
created it and failed to synchronize, or a racing one has not done so yet. `Opening`
models this; `EngineOnNamespace` therefore claims durability of the namespace only
for the store whose own call created it, and no property covers the second opening.

## 6. Not modelled

Not modelled: texts and sources of errors, `Debug` and `Display`; builder methods
that store a value; normalization of the root path, file-type checks of the
canonical path, permissions, the encoding of Windows paths; BLAKE3 and CRC32C
themselves (distinct keys are taken to have distinct names, the checksum to be
some continuable function); `atomic-write-file` beyond what its use in
`filesystem/mod.rs` shows; test hooks; benchmarks, examples, consumer tests and scripts (no
logic of the store).

Nothing of the plan is left to model. Liveness is only model-checked (end of section 4).
