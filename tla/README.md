# A TLA+ development of enclaveSilo

enclaveSilo is an in-memory transaction engine inside an SGX enclave: worker
threads run YCSB-like transactions under Silo's optimistic concurrency control,
find their records through a Masstree, hand the log records of what they commit
to logger threads, and an epoch scheme tells what is durable. This directory
models the engine in TLA+, checks it with TLC on small instances, and proves
part of it with TLAPS for all instances.

Everything is translated from the code under `src/`; a definition's lines are
listed in `PROJECT.json`, "map".

## 1. The system

| Part | Source | State | Operations | What is hard | What makes it correct |
|---|---|---|---|---|---|
| Worker loop | `Enclave/Enclave.cpp` | `quit`, per-worker counters | make a procedure, run it, validate, commit or abort and RETRY | quit can be seen anywhere in the loop | quit ends every worker |
| Concurrency control | `silo_cc/silo_transaction.cpp` | a `TIDword` and a body per record; read set, write set, `mrctid_` per worker | `read`, `write`, `insert`, `lockWriteSet`, `validationPhase`, `writePhase`, `unlockWriteSet`, `abort` | interleavings of loads and stores of the words | serializability; locks have one owner and are given back; TIDs grow |
| Epochs | `silo_cc/silo_util.cpp`, `silo_util.h` | `GlobalEpoch`, `ThLocalEpoch[]`, `CTIDW[]` | `siloLeaderWork`, `epochWork`, `durableEpochWork` | load and store are two steps; the leader must wait | a commit's epoch is at most one behind the global one; epochs end |
| Log buffers | `silo_cc/silo_log_buffer.cpp` | `current_buffer_`, `pool_`, `log_set_`, `nid_set_`, epoch range | `push`, `publish`, `is_ready`, `return_buffer`, `terminate` | pool at its limit; ownership passes between threads | a buffer is in one place and of one epoch |
| Log queue | `silo_cc/silo_log_queue.cpp` | map from epochs to buffers, `quit_` | `enq`, `wait_deq`, `deq`, `quit`, `terminate` | order across epochs and workers | each worker's order survives |
| Logger | `silo_cc/silo_logger.cpp` | `thid_set_`, `joined_`, the log file | `worker`, `logging`, `find_min_epoch`, `worker_end`, `logger_end` | what is committed but not yet queued; the last worker leaving | nothing lost at shutdown; the file is a prefix of the commits at any time |
| Notifier | `silo_cc/silo_notifier.cpp` | `DurableEpoch`, `ThLocalDurableEpoch[]`, `pepoch.seal` | `check_durable`, `make_durable`, `PepochFile::write` | loggers race for a compare-and-swap | `DurableEpoch` never passes an epoch that is not on disk, and never goes back |
| Masstree | `Enclave/masstree` | border and interior nodes, versions with locks, the root | `insert_value`, `get_value` (`remove_value` has no caller) | readers without locks during splits; lock hand-over up the tree | inserted keys are found; a key is inserted once; every call returns |
| OptCuckoo | `Enclave/optcuckoo` (the index of the other build) | two buckets of slots per key; a lock and a version per slot | `get`, `put` with its search for a path of moves | entries move between buckets while others read, put and move | a key that has been put stays; a get answers what the key holds or held; locks are given back |
| Start-up and shutdown | `App/App.cpp`, `Enclave.cpp` | threads, `logs[]`, `readys[]`, `start`, `thid_vec_` | create threads, register with a logger, wait for ready, start, quit, join | lifetime of the `Logger` objects; ecalls that find no thread control structure; loggers without workers | every worker is registered before one runs; every thread returns |
| Logger affinity | `App/logger_affinity` | groups of workers per logger | `init` | numbers that do not divide; fewer CPUs than threads | each worker has one logger |

How they interact. A worker's `wal()` pushes its write set into its own pool;
`publish` puts the full buffer into its logger's queue; the logger writes it
through an ocall and returns it to the pool. `wal()` also stores `CTIDW`, from
which the logger computes its durable epoch, and `ThLocalEpoch`, on which the
epoch leader (worker 0) waits. Workers find records through the index. The main
thread sets `quit` and joins the loggers, then the workers; each worker waits in
its logger's `worker_end` until the logger has finished.

The hazards this leaves for tests are listed at their lines in `PROJECT.json`,
"hazards"; each property below is aimed at some of them.

## 2. The modules

| Module | Models | Composition |
|---|---|---|
| `TidWord` | `TIDword`: epoch, TID, lock and absent bits, their order, `TID++` in a field of limited width | used by `SiloCC` |
| `SiloCC` | worker loop, concurrency control, epochs; records, index and log as the worker sees them | takes "the pool is not ready" as an input |
| `SiloCCProofs` | the theorems about `SiloCC`: types, locks, log, epochs | extends `SiloCC`, `TLAPS` |
| `SiloSerialProofs` | the theorems about `SiloCC`: versions, serializability, replay | extends `SiloCCProofs`, `Induction` |
| `LogPipeline` | pools, queues, loggers, durable epoch, shutdown | a transaction is its size and epoch |
| `LogPipelineProofs` | the theorems about `LogPipeline` | extends `LogPipeline`, `Induction` |
| `RedoLog` | what the log promises to a reader of the files | abstract specification; `LogPipeline` implements it |
| `Masstree` | layer 0 of the index | keys only; what a record holds is `SiloCC`'s |
| `OptCuckoo` | the cuckoo hash table | `get`, `put` of any number of threads |
| `Dictionary` | what an index promises to concurrent callers | abstract specification; `OptCuckoo` implements it |
| `Startup` | `main`, affinity, thread entry, registration, handshake, end | leads to the initial states of `SiloCC` and `LogPipeline` |
| `StartupProofs` | the theorems about `Startup` | extends `Startup`, `TLAPS` |
| `OptCuckooProofs` | the theorems about `OptCuckoo` | extends `OptCuckoo`, `Induction`; proves that it implements `Dictionary` |
| `MasstreeProofs` | the theorems about `Masstree`: types, locks, the shape of the tree | extends `Masstree`, `Induction` |
| `MasstreeRangeProofs` | the theorems about `Masstree`: what inserts and gets return | extends `MasstreeProofs` |
| `Induction` | the least-number principle, which the proofs use in place of induction, and what follows for sequences and their concatenations | |
| `MCSiloCC`, `MCLogPipeline`, `MCMasstree`, `MCOptCuckoo`, `MCStartup` | instances for TLC | |

### SiloCC

One action is one access to shared memory with the local computation after it.
`LockRecord` and `LockConflict` are the two outcomes of one round of
`lockWriteSet`; `UnlockLoad`/`UnlockStore` are the load and the store of
`unlockWriteSet`, `UnlockPrefix` of its other overload; `LoadGE` and
`StoreThLocalEpoch` the two halves of the epoch publication between the locks
and the read-set test; `ValidateRead` and `ValidationFails` one element of the
read set; `Commit` computes the TID and calls `wal()`; `InstallBody` and
`InstallWord` are the two stores per record of `writePhase`. The order in which
the read set is validated is left open.

Reductions: the load/compare-and-swap loop of `lockWriteSet` and the double load
of `read_internal` take effect at their last access and are one step; waiting
for a lock bit is a disabled action. A record's body is a value without
structure; the `latest` bit, which every word has, is left out.

`INSERT` is part of `TxExecutor` but the shipped worker loop only issues reads
and writes (it asserts otherwise); `silo_inserts` checks what the API does.

The pool being "not ready" lets `EpochLoad` run at any transaction start. In the
program it never is (section 4, `find_epoch`), so `SiloCC` has more behaviours
than the program, and is what the code intends.

History variables: `log` holds each transaction that called `wal()` with its
read set, `faults` the assumptions of the protocol that have failed so far:
`lockMissed` (a transaction went on past a locked record), `absentWrite` (a blind
write to an absent record), `tidWrapped` (the TID field overflowed). The properties
that depend on them are stated for histories without. TLC finds every one of them
violated when one of its exclusions is dropped, with one exception:
`Serializable` has no counterexample with `absentWrite` alone in `silo_inserts`,
where the same write breaks `LogExplainsDatabase`.

### LogPipeline

Workers go `retry -> wal -> push -> retry`, and after quit
`ending -> joining -> done`. `Publish` is the first half of
`LogBufferPool::push`, `TakeBuffer` the polling of the pool, `Push` the rest
together with the store to `CTIDW`. A logger goes through `wait_deq`,
`find_min_epoch` (two steps: the workers' `CTIDW`, then the queue), `deq`, one
`WriteBuffer` per buffer, and `check_durable` in two steps: the loads, and the
compare-and-swap; then the append to `pepoch.seal` and the store to
`ThLocalDurableEpoch`, each its own step. `Tick` moves `GlobalEpoch` whenever
`SiloCC` would allow it; `EpochWork` is the only way the program has.
`Next` uses the first, `ProgramNext` the second.

`CTIDW` only grows, so the loads of `find_min_epoch` are taken together at the
last one; `check_durable`'s loads likewise at the load of `DurableEpoch`.
`skipped` remembers that a logger has computed a minimum past the first epoch
without one of its workers, because that worker's `CTIDW` was still 0.

`RedoLog` is the abstract specification: per worker, the records on file are a
prefix of the commits, in order, and complete once the log is closed.
There is no recovery code in the program; the refinement says that whatever
reads the files after a stop at any point finds that.

### Masstree

A border node is the set of its keys (the permutation's single store publishes
them), an interior node its separators and children. Nodes that a writer is
rewriting are `torn`: a reader may find in an interior one any child, the new one
that is on its way in (`Arriving`), or none, and in a border one any key or the new
one (`Entering`), or not. `findBorder`
is `FindRoot`, `Descend`, `ChildVersion`, `Check`, `Revalidate`; `masstree_insert`
is `LockBorder` and then one of `AlreadyExists`, `InsertToBorder`, `Split`, and
the climb with `LockParent`, `ShiftParent`/`IntoParent`,
`SplitParent`/`TearParent`/`FillParent` and every unlock a step; `masstree_get` is
`Search`, `Verify`, `Forward`, `Walk`.

`Same` is `Version::operator^`: it compares the 32-bit `body`, and the 8-bit
`v_split` lies above it (the bit-fields before it do not leave room for it, and
`v_insert` may not straddle its unit), so it is left out of the comparison, as
the compiler has it. Assertions are active in the build; a failed one, or a null
child that is dereferenced, stops the process (`crashed`).

`faults` remembers lost races: `missedSplit`, `staleDescent`, `unseenSplit`,
`tornNext`, `lostRoot`, `nullChild`. `InsertsStay`, `InsertedOnce` and `GetsSee`
are stated for histories without the ones they depend on; each exclusion is
needed (without it TLC finds the property violated). The shipped program inserts
only in `ecall_initDB`, on one thread before the workers start, so these races
concern the index's own interface, not the shipped workload.

Left out: lower layers and suffixes (keys are one slice of 8 bytes), removal,
the order of slots within a node.

### OptCuckoo and Dictionary

A slot points to a node or is null; it has a lock and a version, odd while the
slot is written to. `get` is `GetNode` (scan to the first slot that matches),
`GetVersion`, `GetVal`, `GetCheck`, and goes on at the next slot when the version
was odd or has changed. `put` is a scan (`PutScan`) that ends in `Fill` (a null
slot, looked at again under its lock), `Update` (the key is there), or `Search`,
the breadth-first search for a path to a null slot; the path is worked off from
its end by `LockLower`, `LockHigher`, `Copy`, `Copied`, and its first slot is
taken by `Take`. `MoveFails` and `TakeFails` are the two tests of the versions; what has
been moved by then stays moved, and put begins again, at most `MaxAttempts` times.

One action is one access to shared memory, with these reductions: a test under a
lock belongs to the locking, an unlock to the count of the version before it, and
a round of `add_next_node` is one step (the module's head says why). A node's
`tag` and `hash` are functions of its key and are left out. `hash2` is `n` and
`n * 109`, which is what the code computes: its call of the vendored hash is
commented out.

`Dictionary` is what the callers get: each put takes effect at one moment between
its call and its return, and a get answers something its key has held during the
get. Two weaknesses are the code's own and are part of the abstract
specification: a put may give up, and tells nobody; and a get may find nothing
while a put of the same key runs (it passes over a slot whose value is being
written). `faults` records the two races of puts that break even this, and the
refinement is stated up to the first of them:

- `twins`: two puts of one absent key have each found a null slot of their own and
  stored a node; then the two nodes answer differently;
- `stray`: a put has read the node it updates, the node has been moved away and
  another key's node stored in its place, and the put now locks that slot. The
  value it writes is the right one, but the version it makes odd is the other
  key's: a get of that key finds nothing though nobody puts it.

TLC finds the refinement violated when either is left out. In the program only
`ecall_initDB` puts, on one thread, so neither happens to its workload.

### Startup

`Main` is `main` from the end of `ecall_initDB` on; `Worker(i)` and `Logger(j)` are
`ecall_worker_th` and `ecall_logger_th`, down to the busy waits and the mutex of
`add_tx_executor`, `worker_end` and `logger_end`. `worker_cpu_` is what
`LoggerAffinity::init` computes, and `gid` the loop of `main` that numbers the
workers through. `config` is the build and the machine: numbers of workers,
loggers and CPUs, and `TCSNum`. An ecall that finds no free thread control
structure returns an error that nobody looks at (`FreeTCS`). With more loggers
than workers `init` either takes `back()` of an empty vector (`NoBack`, the
process ends) or makes loggers whose queue nobody terminates; `ProgramEnds` says
what is left.

`RegisteredBeforeRun` is what `SiloCC` and `LogPipeline` assume: when the first
transaction runs, each logger's `thid_set_` and `thid_vec_` hold exactly its workers.
What happens between is theirs, and `Run`, `LeaveLoop`, `ScanBegin`, `ScanEnd`
stand for it here.

## 3. The passing runs

| Run | Instance | Question |
|---|---|---|
| `silo_skew` | 2 workers, 2 transactions each, 2 records, write skew among the procedures, a TID field that wraps at 3 | isolation, locks, write-ahead, TIDs |
| `silo_inserts` | 2 workers, 1 transaction each, 1 record present and 1 to insert, epochs 1 to 3, TIDs that wrap at 2, fair | inserts and their aborts, epochs of commits, quit |
| `log_flow` | 2 workers with 2 buffers each, 1 logger, write sets of 0 and 1, 2 transactions, fair | records from `wal()` to the file, empty pools, shutdown, `RedoLog` |
| `log_durable` | 2 loggers with a worker each, 1 buffer each, 3 epochs | durable epoch |
| `mass` | ORDER 3, keys 1 to 6, pairs of calls on 4 trees, plus three instances of 3 workers, fair | the index |
| `cuckoo` | 16 buckets of 2 slots; pairs of 7 calls on 4 tables; longer and three-thread plans; one thread on all arrangements of six keys, fair | the other index, `Dictionary` |
| `startup` | 6 pairs of numbers of workers and loggers, on 1 and on 8 CPUs; 2 workers with too few TCS, fair | start, registration, end |

What the properties say:

- `Serializable`: the commits have no cycle of precedence. `LogExplainsDatabase`:
  replaying the log by TID gives the records' contents. `VersionsGrow`,
  `CommitTidAbove`: the TID rules.
- `LockHasOwner`, `SingleHolder`: no lock leaks or is shared. `WriteAhead`: what is
  installed or read has been logged. `CommitEpoch`: see section 5.
- `BufferInOnePlace`, `OneEpochPerBuffer`, `LogInOrder`, `BufferBounded`,
  `ImplementsRedoLog`: buffers and records on their way to the file.
- `DurableIsPersisted`: no record of an epoch up to `DurableEpoch` is still in a
  buffer or to come. `DurableGrows`, `PepochBehind`: the race for it.
- `PoolReady`: between two transactions a worker always has a buffer.
  `PushReturns`, `ShutdownTerminates`, `QuitTerminates`: waiting ends.
- Of Masstree: `LocksHeld`, `TornIsMarked`: node locks and marks in splits.
  `InsertsStay`, `InsertedOnce`, `GetsSee`, `CallsReturn`: what the index promises.
- Of OptCuckoo: `LocksHeld`: locks and odd versions belong to the thread that is
  writing, also after a put that failed half-way. `EntriesStay`: moves lose nothing.
  `SearchIsExact`: an undisturbed search finds a path iff there is one, and a
  shortest one. `ImplementsDictionary`, `CallsReturn`.
- Of Startup: `RegisteredBeforeRun`, `QueueOpen` (no worker publishes into a queue
  that has been terminated), `ProgramEnds`.

Bounds and why they are enough to show something. Two workers suffice for every
race of the concurrency control that involves one conflict; two transactions
each let a worker read what it and the other have committed, and retry. Two
records are the least with write skew and with lock order. `TIDLimit` 3 makes
the third TID of an epoch the last one, `TIDLimit` 2 the second. One buffer per pool makes
every publication an empty pool, and so does a `MAX_BUFFERED_LOG_ENTRIES` of 0 with two.
Three epochs let one logger be an epoch ahead of the other. ORDER 3 makes every
third insert split, and four trees cover a new root, a split into a parent with
room, and a split of the full root; the `Neighbours` instance is the least in
which a get walks to a node that is being split, `Twins` the one in which two
inserts of a key race through a split, and `Moved` the one in which a split moves
the place of a key being inserted. In `cuckoo` the buckets of keys 1, 13 and 9
overlap in a chain, so that a full bucket needs paths of one or two moves; the
calls are puts of new keys that have to make room, updates and gets of the keys
that move, and two puts of one key; `MaxAttempts` 2 (100000 in the code) lets a
put fail once and succeed or give up. `startup` has loggers without a worker, one
worker per logger, and groups that do not divide. `MaxTx`, `MaxEpoch` and the
`Plans` bound otherwise endless histories; they appear in guards only. Three
workers on long histories of the concurrency control and deeper trees are not
explored.

Fairness is weak fairness of each thread: the operating system runs every thread
again and again. A thread that waits (for a lock bit, a pool, a queue, a flag) is a
disabled action, so weak fairness grants no lock to anyone. In `Startup`
`Main` includes the step that sets `quit`, since `main` sleeps a fixed time; in
`SiloCC` and `LogPipeline` nothing is assumed of `SendQuit`, of the timer, or of
which transaction wins a conflict. That commits happen is not claimed: two
transactions may abort each other for ever. Deadlock is checked in every run; the
states where the program has ended are `Finished` (`Spin` in `Startup`, with the
busy waits).

## 4. Where the code and its comments part

| Run | Property | What it shows |
|---|---|---|
| `find_conflict` | `ConflictAborts` | a transaction that met a locked record is not aborted: `validationPhase` ignores `status_` |
| `find_epoch` | `EpochEnds` | epochs never end in the program as it is: `epochWork` is only called while a worker has no buffer, and `leaderWork` is commented out |
| `find_logger` | `LoggerOutlivesWorkers` | the `Logger`, a local variable of its thread, dies while workers are inside its `worker_end` |
| `find_version` | `ChangesAreSeen` | the XOR of two versions does not see a completed split |
| `find_split` | `SplitsAreNoticed` | an insert does not notice a split between `findBorder` and the lock |

Each is stated from the comment quoted in `PROJECT.json`, "findings". The passing
properties hold in spite of these, or name the history they exclude. A consequence
of `find_epoch` worth noting: since `GlobalEpoch` stays 1, `DurableEpoch` stays 0.

Smaller things met while modelling, for which no comment says otherwise:
`logging(true)` swaps `DurableEpoch` without having stored the logger's own last
epoch, so the last epochs on disk are never declared durable; and a logger skips
workers whose `CTIDW` is 0, so `DurableEpoch` may pass a worker's first commit.
The repository's README asks for a `TCSNum` of `THREAD_NUM + 1`, which counts the
workers and the main thread but no logger; with it, a program whose last ecall
finds no structure waits for ever or runs without that thread (the shipped
configuration has 128). OptCuckoo's `get` can miss a key that is there during a
concurrent put of it (or of a key whose node has just been moved from its slot, see
`stray` above), and returns an uninitialized value for a key it does not find.
With more loggers than workers `LoggerAffinity` makes loggers that no worker ends.

## 5. What is proved

`SiloCCProofs` proves, for every number of workers, set of keys and procedures and
every bound, from `SiloCCAssumption` and the assumption of `TidWord` only:

| Theorem | Statement |
|---|---|
| `TypeCorrect` | `Spec => []TypeOK` |
| `LocksNeverLeak` | `Spec => []LockHasOwner` |
| `LocksAreExclusive` | `Spec => []SingleHolder` |
| `LogIsAhead` | `Spec => []WriteAhead` |
| `CommitsInEpoch` | `Spec => []CommitEpoch` |

The argument. `TypeOK` is inductive. `PhaseInv` says what a worker's local state
looks like in each part of its code (sets are empty between transactions, what is
still to be visited is part of the write set, used keys are in the index); it
is inductive with `TypeOK`. On it rests `LockHasOwner`: each action is either one
that takes a lock, releases one, creates a record, or leaves the lock bits and
the keys a worker holds as they were (`TakesStep`, `ReleasesStep`, `CreatesStep`,
`KeepsStep`).

`SingleHolder` is not inductive: a worker that installs an inserted record stores a
word without having locked it. `InsertInv` says that such a record is absent,
unlocked and in nobody else's write set while the locking is trusted; the two
are inductive together with `LockHasOwner`.

`WriteAhead` needs `WalInv`: the words that `unlockWriteSet` has loaded and
`writePhase` is about to store are versions in the log.

`CommitEpoch` needs `EpochInv`, which relates what a worker has loaded (`ge`),
published (`ThLocalEpoch`) and computed (`mrctid`, the maxima over the read and
write sets) to `GlobalEpoch`. The reason that a commit's TID is in the published
epoch, although it is made from versions of other workers too, is that no
record's epoch is above `GlobalEpoch` and that the worker loads `GlobalEpoch`
after it has read and locked those records; and the leader cannot move on twice
while a worker has published only the earlier epoch.

`StartupProofs` proves, for every set of configurations with
`StartupAssumption`:

| Theorem | Statement |
|---|---|
| `RegistersFirst` | `Spec => []RegisteredBeforeRun` |
| `QueueStaysOpen` | `Spec => []QueueOpen` |

Neither is inductive: both hold because `main` waits for `readys` before it stores
`start`, and a worker sets its entry after it has registered. The invariant `IInv`
has a part per actor. `LaunchInv`: threads that `main` has still to create do
nothing. `WorkerInv`: what a worker's place in its code says about `readys` and
`logs`. `LoggerInv`: a logger that has stored its pointer is at work until its queue
has been terminated. `GroupInv`: `mutex`, `thid_vec` and `thid_set` of a logger, in
terms of where its workers are. `MainInv`: once `main` has waited, all workers are
ready, and none runs before `start`; this needs `RoomForMain`, which counts the
threads inside the enclave: with a structure for each, `main` does enter
`ecall_waitForReady`. `QueueInv`: a queue that has been terminated has no worker
left that publishes. Each is shown to be kept by every step from the others
(`TypeStep`, `LaunchStep`, `WorkerStep`, `LoggerStep`, `GroupStep`, `MainStep`,
`QueueStep`).

`LogPipelineProofs` proves, for every number of workers, loggers and buffers of a
pool, every assignment of workers to loggers, every limit of a buffer and every
bound, from `LogPipelineAssumption`:

| Theorem | Statement |
|---|---|
| `LogTypes` | `Spec => []TypeOK` |
| `BuffersAreNotShared` | `Spec => []BufferInOnePlace` |
| `BuffersHoldOneEpoch` | `Spec => []OneEpochPerBuffer` |
| `BuffersStaySmall` | `Spec => []BufferBounded` |
| `PoolIsReady` | `Spec => []PoolReady` |
| `PepochIsBehind` | `Spec => []PepochBehind` |
| `DurableEpochIsDurable` | `Spec => []DurableIsPersisted` |
| `DurableEpochGrows` | `Spec => DurableGrows` |
| `LogKeepsOrder` | `Spec => []LogInOrder` |
| `LogIsRedoLog` | `Spec => ImplementsRedoLog` |
| `EpochStands` | `ProgramSpec => [](GlobalEpoch = 1) /\ Spec` |

Even `TypeOK` is not inductive: `LoggerInv` (what a logger's place in its code says
about `min_epoch`, `min_dl` and its batch) keeps the epochs in their range, and
`QueueInv` (a queue is ordered by epoch) is what `enq` relies on. The other parts of
`IInv`: `PlaceInv`, a buffer is in exactly one place, and in one of its owner's
(`PublishMoves`, `TakeMoves`, `DeqMoves`, `WriteMoves` are the four ways a buffer
moves, and `PlaceCases` says there is no other). `ContentInv`, a pooled buffer is
empty, and a current one is empty or of the epoch in its worker's `CTIDW`; this needs
`PlaceInv`, since a buffer must not change under its worker, and the test of
`new_epoch_begins` in `Publish`. `LengthInv` is the same with lengths. `DurableInv`
is about what a logger has computed and not yet stored: from the second half of
`find_min_epoch` on, no record of its workers below `min_epoch` is in a buffer, and
none will come (`Above`). That it is established there is `MinEpochIsAbove`: a record
is in a current buffer, whose epoch is its worker's `CTIDW`; or queued, behind the
head; or in the batch, which is empty. That it stays is `AboveStays`. `EpochStands`
is the theorem behind the run `find_epoch`, for every instance: a worker in its loop
always has a current buffer, so nothing enters `epochWork`; it also shows that what is
proved of `Spec` holds of the program.

`LogKeepsOrder` splits a worker's log into four parts: `Filed` (in its logger's file),
`Taken` (in the batch), `Waiting` (in the queue), `Open` (in the current buffer).
`InOrder` says that put together they are `Committed`, the records of its commits, and
`RecordCases` that a step leaves a worker's parts alone, or appends to the last part and
to `Committed` (`Push`), or moves the records at the front of one part to the end of the
one before it (`Publish`, `Deq`, `WriteBuffer`). The hard one is `Publish`: `enq` inserts
by epoch, among other workers' buffers, and the worker's own order must come out right.
It does because of `RecordInv`: a buffer with records is not of a later epoch than its
worker's `CTIDW`, so the new buffer goes behind all of its worker's others (`EnqRecords`).

`LogIsRedoLog` maps `Committed` and `Filed` to the variables of `RedoLog`: `Push` is
`Commit`, `WriteBuffer` is `Flush`, the join of the logger is `Close`, and the rest is
stuttering. That the file is complete when the log is closed is `QuitInv`: a worker that
has ended has no current buffer left with records, a queue is told to quit by the last of
its workers only, and a logger past its main loop has found it empty after that.

Concatenation is defined by recursion in the library, inside a definition. What the proof
needs of it (`FlattenAppend`, `FlattenConcat`, `MappedConcat`) is proved in `Induction`
by the least counterexample: a set of numbers instead of the induction theorems'
operators.

`SiloSerialProofs` proves, from the same assumptions as `SiloCCProofs`:

| Theorem | Statement |
|---|---|
| `VersionsOnlyGrow` | `Spec => VersionsGrow` |
| `CommitTidIsAbove` | `Spec => CommitTidAbove` |
| `CommitsAreSerializable` | `Spec => []Serializable` |
| `LogGivesDatabase` | `Spec => []LogExplainsDatabase` |

A transaction's place in the serial order is its `LoadGE`: it has locked its write
set and validated nothing yet. Three invariants, one on top of the other, all of
them for histories without faults. `Versions`: what a worker has read, locked,
computed or logged is bounded by the versions the records have, and those only
grow; the reason is `SingleHolder` (nobody stores over a record that another has
claimed) and rules [a] to [c], by which a commit's TID is above all it has seen.
`Ordered`: there are ranks of the logged transactions, and places of those
between `LoadGE` and commit, that respect every precedence (write-read,
read-write, write-write). The ranks are not a history variable: `Order(rank, at, n)`
is asserted to hold of some, and a commit extends them by the place it had. That a
place stays right until the commit is what the read-set test is for: an element
found unlocked and unchanged after `LoadGE` is read by nobody's successor. From the
ranks the theorem takes, in a set of transactions, the one with the least
(`LeastNumber`). `Contents`: a record that has the version of a logged write holds
its value, except between the two stores of `writePhase`.

`OptCuckooProofs` proves, for every number of threads, size of the table, limit of
attempts and plans, from `KeysAssumption` and `OptCuckooAssumption`:

| Theorem | Statement |
|---|---|
| `TypeCorrect` | `Spec => []TypeOK` |
| `LocksAreHeld` | `Spec => []LocksHeld` |
| `NothingIsLost` | `Spec => []EntriesStay` |
| `AnswersAsDictionary` | `Spec => ImplementsDictionary` |
| `SearchExact` | `Spec => []SearchIsExact` |
| `LoadedTableIsDictionary` | `WorkersGet => (Spec => Dict!Spec)` |

`EntriesStay` (a key once put stays) is far from inductive: a `Copy` overwrites a
slot, and what was in it must be elsewhere. `Dooms(t, s)` says that `t` is about to
overwrite slot `s` as things stand, and `Kept` that every node in such a slot is
also in one that nobody is about to overwrite. It rests on `Found`: along a path
that a search has found, a slot whose version is unchanged and even still holds a
node that may move to the next slot (`Link`), the last slot is still null, and the
path visits no slot twice; on `Placed`, every node is in a bucket of its key; and on
`LocksHeld`, by which a version is odd exactly while its slot is written to. So the
comparison of versions in `LockLower` and `LockHigher`, and the one in `Take`, are
what the proof needs, and all it needs.

`AnswersAsDictionary` adds `Upward` and `Answers`. A get reads the slots of a key's
buckets once, in order, without locks, while entries move. It misses none because a
node only ever moves from the first bucket of its key to the second (`Upward`): what
has left a slot behind the reader is ahead of it. Nothing in the code says so: a move
takes a node to its other bucket, whichever that is. It follows from the search. Keys
with the same first hash have the same second one, since `hash2` multiplies the first;
a put searches when the buckets of its key are full, and full they stay (`Packed`), so a
free slot is only met in a second bucket (`Queues`, `Covers`); and in a path that has
been found every node is in its first bucket as long as the versions stand, or a shorter
path would have been found (`Straight`, `Tight`). Hence what is about to
be overwritten is in its first bucket (`Leaves`), and no node is in two slots of that
(`Once`). `Answers`: a thread's node is nowhere before it stores it (`Fresh`), and what
a get has read it may answer (`Holds`). While `faults` is empty each key has one node
(`OneNode`, `Alone`, `Lone`), and a get that has come to slot n without finding its key
has it ahead, or may answer NULL, as it has overlapped a put of the key (`Finds`).
Then `Store` and `SetVal` are `Effect`, `Begin` is an invocation, `Return` an answer,
and every other step is a stutter: a move changes no key's value, because the node it
overwrites is in its other slot by then (`ShownKept`).

`LoadedTableIsDictionary` is the case of the program: only `ecall_initDB` puts, before
the workers run (`WorkersGet`). Then `faults` stays empty (`Undisturbed`), and the
refinement has no exception.

`SearchExact` compares the breadth-first search with `Reach`, what could be reached at
all. `Single`: while `main` loads nobody else runs, so nothing changes under its search.
`Complete`: every walk from a bucket of the key to a free slot that meets no slot twice
begins with a path that is still queued. `Shortest`: no walk to a free slot is
shorter than the path found, as paths are queued by length. `Reach` is recursive, by
levels; `LevelWalk` and `WalkLevel` show that level n is where the walks of n moves
end, a shortest walk meets no slot twice (`CutShort`, `SimpleWalk`), and a walk that
does not is no longer than there are slots (`SimpleIsShort`), which is where
`Reach` stops looking.

`MasstreeProofs` proves, for every number of threads, set of keys, plans and ORDER
from 3 on, from `MasstreeAssumption`:

| Theorem | Statement |
|---|---|
| `Invariance` | `Spec => []Inductive` |
| `NodesHaveShape` | `Spec => []TypeOK` |
| `NodeLocksHeld` | `Spec => []LocksHeld` |
| `TornNodesMarked` | `Spec => []TornIsMarked` |
| `TreeIsLinked` | `Spec => [](Family /\ Rooted)` |
| `TreeIsBalanced` | `Spec => []Balanced` |
| `NoCircularWait` | `Spec => []LocksGoUp` |

No part of `Inductive` is inductive alone. `LocksHeld` has to know which nodes a thread's
variables are about (`Places`) and that they differ (`Apart`): the parent that `LockParent`
takes is not one of the pair below it because it was not locked. `Marked` says by whose
split a node is marked or torn; a new sibling is born with its neighbour's version,
marks and lock. `Shape` has the sizes: that the separator and the child which `split()`
passes up fit into the parent needs the parent's length to be what it was when
`LockParent` looked (`Splits`), which holds because it is locked (`Touched`: a node keeps
its keys, separators and parent unless a thread holds it, or holds its parent). `Family`:
parents and children know each other and no child is there twice; `FillParent` moves half
the children to a node that has no parent yet, so a node without one is a root or the
right half of a pair (`Rooted`), and a reader that climbs from a stable node never comes
to a null parent (`StableIs`). `Balanced` gives every node a level such that border nodes
are at 0, a parent is one above its children, and the two nodes of a pair are level: the
tree is always even. As a thread that waits for a parent's lock holds only nodes below
it, waits for node locks cannot form a ring.

`MasstreeRangeProofs` proves, from the same assumption:

| Theorem | Statement |
|---|---|
| `SearchesAreGuided` | `Spec => [](Trusted => \E g : Ranges(g) /\ Guided(g))` |
| `KeysInsertedOnce` | `Spec => []InsertedOnce` |
| `GetsSeeInserts` | `Spec => []GetsSee` |
| `InsertedKeysStay` | `Spec => []InsertsStay` |

`Trusted` is the condition of `InsertedOnce`: neither `missedSplit` nor `staleDescent` is
in `faults`. `Ranges(g)` gives each node a range of keys: `from`, `to`, and `end`, up to
where its parent counts it. The ranges are no history variable: they are asserted to
exist, and each step narrows them or gives a new node one (`RangesStep`). A border node
keeps its keys in its range and the next one begins where it ends (`Filled`,
`Chained`), no two border nodes share a key (`Disjoint`), a root covers every key
(`Topmost`), and an interior node's separators divide its range among its children
(`Divided`). In the middle of a split `to` and `end` differ: `SplitKeys` cuts the left
node's `to`, and the pair's upper `end` stays until `IntoParent` or `FillParent` has made
the parent know both (`Joined`, `Known`); the sibling has its range before it has its keys
(`Born`), and a parent that is being emptied is divided as it is going to be (`Moving`).

`Guided(g)`: the key a thread looks for is not below its node's `from`, which never
changes, and it is below `to` if the node has not been split since the thread read its
version (`SameSplit`). Readers take no lock, so this rests on `Onward`: a version's
counters only grow, and no mark disappears without its count, so an unchanged and
unmarked version means that nothing has happened between. With the ranges disjoint, a
key that is not in the one border node whose range it is in is in none (`NotStored`):
therefore an insert that goes ahead adds a new key, no two inserts of one key are both
adding it (`Counted`), and a get that returns null looked where the key would have been
(`Answered`). The proof says where the four faults enter: `missedSplit` in
`LockBorderGuided`, `staleDescent` in `CheckGuided`, `tornNext` in `WalkGuided`,
`unseenSplit` in `AnsweredStep`.

`InsertsStay` is about `Lookup`, whose three functions (up, down, right) are recursive.
`FollowsExists` of `Induction` shows that functions like these exist when some number
falls with every step, and `FollowsEnds` where they end: the levels of `Balanced` fall on
the way down and rise to a bound on the way up, and `k - from` falls on the way right.
`Leading`: the node in `root`, and one that a thread is about to store there, has the
lowest keys (`from = 0`), however often it has been split; so has its parent
(`ParentLeads`), and the climb ends at the root of the left edge. The descent and the
walk then never go to a node that begins above the key, and the walk stops at the one
that has it. For this proof `Lookup` stops its climb at a node without parent too,
where `nodes[n].parent` would be no node; no search of the program comes to one.

Every safety invariant and action property of the passing runs, and both refinements, are
theorems. Only model-checked: the liveness properties `QuitTerminates`, `PushReturns`,
`ShutdownTerminates`, `ProgramEnds` and the two `CallsReturn`, since fairness and ENABLED
are beyond the prover.

## 6. What is not modelled

- Masstree's lower layers, suffixes, removal and the garbage collector: the program
  makes only 8-byte keys and never removes. `Permutation`'s 64-bit encoding.
- `hash.cpp`, vendored, which nobody calls.
- The data races on `LogQueue`'s map (`empty`, `min_epoch` without the mutex), and on
  the seed generator: each such call is one step. That `thid_vec_` is not read while
  it changes once transactions run is `RegisteredBeforeRun`; a logger's scans before
  that do race, and are kept apart as `ScanBegin` and `ScanEnd`.
- The wrap of Masstree's counters: `v_split` has 8 bits and `v_insert` 16, and they
  are numbers here. A thread that holds a version while its node is split 256 times,
  or gets 65536 separators, would see the same count again; the proofs of the ranges
  use that counters grow (`Onward`).
- Memory ordering weaker than sequential consistency.
- Failing ocalls: `write_sealData` aborts the process, which is a stop.
- Random generators, time stamps, result counters, printing, enclave stubs.

## 7. Plan

1. (done) `TidWord`, `SiloCC` with its runs; its proofs up to `CommitEpoch`.
2. (done) `LogPipeline`, `RedoLog`; `Masstree` layer 0.
3. (done) `OptCuckoo` and `Dictionary`; `Startup` with `LoggerAffinity`, and its proofs;
   the proofs about `LogPipeline`.
4. (done) Serializability, versions and replay of `SiloCC`; types, locks and
   `EntriesStay` of `OptCuckoo`; types, locks, marks and levels of `Masstree`, and from
   the range of keys each node covers `InsertedOnce`, `GetsSee` and `InsertsStay`;
   `LogInOrder` and the refinement of `RedoLog`; the refinement of `Dictionary` and
   `SearchIsExact`.
5. `Permutation` and `split_point` as functions, checked against sequences over
   bounded inputs, with slices that several lengths share; then layers and
   suffixes in `Masstree`. Last, because no caller in the program reaches them.

## 8. Running it

    tlc -workers 2 -config silo_skew.cfg MCSiloCC.tla
    tlapm SiloCCProofs.tla
    tlapm StartupProofs.tla
    tlapm LogPipelineProofs.tla
    tlapm SiloSerialProofs.tla
    tlapm OptCuckooProofs.tla
    tlapm MasstreeProofs.tla
    tlapm MasstreeRangeProofs.tla

`PROJECT.json` lists every run with its module, and for every property of a passing
run a mutant of the code's model (the operators marked "Mutant") that breaks it.
The passing runs take from seconds to about two minutes.
