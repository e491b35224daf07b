# A verification project for the DeepSeek V4.1 Flash serving stack

The repository serves one large model on four GPUs.  Most of the work is done
by code that is not in it (SGLang, FlashInfer, CUDA); what is in it is the glue
that has to be right under concurrency: a row store that serves 264-byte table
rows from NVMe or locked memory, the adapter that puts the store behind a CUDA
stream, a page converter in front of the attention kernel, and a launcher that
downloads, verifies, starts, tests and stops the whole.  This directory holds
TLA+ models of these parts, TLC runs on small instances of them, and proofs
checked by TLAPS.  Line numbers refer to the files under `src/`.

    tlc -workers 2 -config MCRowStore.cfg MCRowStore.tla      # any run below
    tlapm RowStoreProofs.tla                                  # any *Proofs module

## 1. The system: components, state, interactions

**Row store** (`adapter/row_store.cpp`).  One instance for each Engram layer
on each rank.
State: two file extents (weights, scales) or a locked mapping of them; an
owned range of rows; a direct-mapped cache (row, key) of `slots` entries; 256
striped mutexes; three atomic counters.
Operations: open, range, lookup, stats, close.  Lookups run on CUDA host
callback threads, any number at once; stats is called by whoever wants to see
the counters.  Each error aborts the process.
Correct when: a lookup returns the exact rows of its ids and zeroes for rows of
other ranks, whatever runs beside it; the counters add up; nobody waits for
ever; reads are legal for O_DIRECT and never ask for bytes that do not exist.

**Engram adapter** (`adapter/engram_backend.py`).  Replaces construction and
row gather of the model's Engram layers.
State: the store, `_staging` (capacity → pinned and device buffers), `_works`
((device, count) → the structure the callback reads), and the operations it has
enqueued on the stream.
Operations: `init` (partition of the table over the ranks, cache budget,
range), `owned` (copy ids out, callback, copy rows in, gather), the same under
graph capture, and replay by the runtime.
It calls the row store through ctypes from a host callback; the runtime sums
the ranks' answers in an all-reduce.
Correct when: each call's output is the rows of its own ids although buffers
are reused before earlier calls have run; each row is owned by one rank; the
caches together keep to the host's budget.

**Worker import hook** (`adapter/sitecustomize.py`).  A meta-path finder, put in
front of Python's own in each process whose environment names the source.
State: `sys.meta_path` and the classes it patches, per process.
Operations: the finder, and the loader that executes a module and then patches
it: `install` for the Engram module, another `__post_init__` for the indexer's
metadata.  The launcher sets the variable for the server it starts, so the
launcher itself runs without the hook.
Correct when: no thread of a worker can build an unpatched layer, however often
an import failed before, and no other process is touched.

**Sparse attention runtime** (`runtime/flash_mla_sm120.py`).  Chooses one of
three paths for a call and reads paged caches in a data-then-scales layout.
State: a page buffer and a mask for each tag, in the runtime's buffer table,
persistent and shared by all layers.
Correct when: the kernel reads, for each token it is told of, the bytes the
cache holds now, though pages are converted, only the touched ones are, and the
rest of the buffer is full of old bytes.

**Launcher** (`boot.py serve`, `smoke`, `save`).  Starts the inference server in
a session of its own, polls `/health` for at most 1800 s, runs the acceptance
checks (each writes a receipt), prints Ready, waits.  SIGTERM and SIGINT are
forwarded; a thread of its own reads the server's output from a pipe.
It shares the state directory with the container's health check and with smoke
commands started by hand, each in a process of its own.

**API key** (`boot.py key`).  One file, created by whichever process comes
first, read by all, rewritten at each call when `API_KEY` is set.

**Checkpoint verification** (`boot.py prepare`).  Downloads, then verifies each
file in a pool of four threads; `verification.json` remembers digest, size, time
and inode, and spares unchanged files the hash.

**Benchmarks** (`benchmarks/*.py`).  A wave starts a thread for each stream; the
threads record when how many tokens had arrived; the summary says how many
streams overlapped and what they delivered in the window all of them share.
Correct when: the numbers are those of the waves that were measured, whatever
arrives at the same time or in one burst.

**Test** (`tests/test_row_store.py`), **container and CI files**, **documents and
results**.  Text.

The hard behaviours, and where they bite, are the `hazards` of `PROJECT.json`:
striped locks under a direct-mapped cache, two-block rows, counters read one by
one, unsigned wrap-around, work enqueued now and executed later, graphs that
keep the addresses of buffers, scratch memory shared across layers, a file that
is checked and then created, a file hashed while it is written to, receipts that
outlive what they vouch for, and a launcher that must come to an end from every
step.

## 2. Modules

| Module | Models | State corresponds to |
|---|---|---|
| `ExactLookup` | what a row store promises its callers (abstract) | request and reply of each caller, owned range |
| `RowStore` | `row_store.cpp`: lookup step by step, open, range, stats, close | `cache`, `keys`, `locks`, `hits`/`misses`/`reads`; per thread `pc`, `next`, `row` are the C++ locals |
| `DirectRead` | extent check of `row_store_open`, `read_bytes` | file size, offsets, one read's window and its answer |
| `TensorParallel` | `init` on all ranks, composed with the store's ownership test and the all-reduce | `store`: rank and layer → range and slots |
| `ExactGather` | what the adapter promises the model (abstract): outputs exact, once, in the order of the calls | ids and output of each call, owned range |
| `EngramAdapter` | `owned`, capture, replay, the stream; composed with `ExactLookup` by INSTANCE | `pinnedIds`/`pinnedRows`/`deviceRows` = `_staging`, `works` = `_works`, `stream` |
| `PageSplit` | `_split_kv_pages_to_64`, both kernels, `_gather_and_dequant` addressing, choice of path | `buffers`, `masks` by tag, programs of the copy kernel in `left` |
| `ApiKey` | `key`, system call by system call, in several processes | `file` = `state/api-key`, `got` = what `key()` returned |
| `Checkpoint` | `prepare` and its threads | `disk`, `receipt` = `verification.json`, `before`/`hashed` = locals of `verify` |
| `Launcher` | `serve`, `smoke`, `save`, the log thread, a smoke command beside them | `pc` per process, `server`, `full` (the pipe), the files and their `.tmp` |
| `ImportHook` | `sitecustomize.py` and the import of `engram_backend` | `metaPath`, per module `state` of its import, `patched`; `objects` built |
| `BenchWave` | `matrix.py`: `one` and the wave loop; the window of `common_window.py` | `streams` = the records, `summary` |

`RowStore` implements `ExactLookup`; `EngramAdapter` uses `ExactLookup` in its
place, so the adapter is checked against what the store promises and not against
its locks, and it implements `ExactGather`.  Both refinements are checked and
proved.  `MC*` modules give constants their values.  `DirectRead` and `ImportHook`
share proof modules with `RowStore` and `TensorParallel`, so their names that
would clash carry a prefix (`DirectSpec`, `HookSpec`).
Operators marked "mutation" are variants of the operator below them with a
plausible mistake; no specification uses them.  For each property
`PROJECT.json` names one that breaks it.

Abstractions, module by module:

- `RowStore`: a row is two blocks, because they are read by two reads and copied
  with no common atomic step.  EINTR retries are stuttering.  Reads of a
  resident table cannot fail.  `SetRange` comes before the first lookup, because
  the adapter's `init` is its only caller (engram_backend.py:58); the C function
  has no check of that, and a range changed between or during lookups is left out.
- `DirectRead`: `Word` is the width of the unsigned arithmetic; everything that
  can wrap is taken modulo `Word`.  A direct read may return any prefix of what
  the file has.
- `TensorParallel`: the checks of the checkpoint's header and the weight loader's
  check of shapes are one step, `Fails`, that can happen at any time until all
  ranks serve.
- `EngramAdapter`: one device and one stream.  Buffers are keyed by device and
  capacity, not by stream (engram_backend.py:79); with two streams on one layer
  two calls would share pinned buffers with no order between them.  The runtime
  uses one, and nothing in the repository enforces it.  An output that is not there
  yet, and that of a call that raised, are two marks that no rows are equal to
  (`MarksAssumption`).  Outputs are a history, one for each call.  Each replay of
  a graph writes the one output buffer the graph was captured with; for a replay
  the history records what that buffer held when the replay was through, and the
  part of `ExactGather` that an output never changes says something of eager
  calls only.
- `PageSplit`: a byte is a tuple (cache, token, place in the token, version), so
  any wrong address, stale page or mixed-up cache is visible.  The floating-point
  part is left out.  A buffer that grows while a captured graph refers to the old
  one is left out: graphs are the runtime's, and whether it warms up with its
  largest cache first is decided there.
- `ApiKey`: a generated key is identified by process and container, as the code
  relies on 32 random bytes being new.  The content of a file appears when it is
  closed, because the key is shorter than the file buffer.
- `Checkpoint`: a digest is the sequence it is a digest of (no collisions), and
  no write leaves size, time and inode all unchanged.  The code relies on both.
  What the network, the directory or the receipt file can do to the download and
  to one `verify` is a step that fails (`MetadataFails`, `VerifyFails`).  Of the
  weight index only one thing matters, whether it names files of the checkpoint
  only (`Indexes`); it is read again after verification (boot.py:64), when somebody
  may have replaced it.  `save` is one step here; `Launcher` has it in three.
- `Launcher`: `smoke` is a number of checks, each passes or raises and may take
  until its timeout; a check can pass only while the server is healthy.  A server
  that has filled the pipe of its output stands still until the log thread reads.
  The log thread decodes what it reads and would end at a byte that is not text;
  the model takes the output to be text (without `Drain`, TLC finds `SignalEnds`
  violated).  Each step of `save`, `key()` and `Popen` can raise; until `Popen`
  has returned that ends the launcher at once, later it leaves the `try`.  From the
  return of `Popen` to the `try` is one step that does not fail: signals that arrive
  before the handlers are installed are left out, and so is a log thread that
  cannot be started (boot.py:182), after which the launcher would end without
  `stop()`.
- `ImportHook`: the import system is external: it lets one thread execute a module
  while others wait, and forgets a module whose import raised.  Modules that
  import each other in a circle are left out.  An object records by which
  constructor it was built.
- `BenchWave`: a clock of a few ticks that can stand still between events.  Ids of
  tokens are left out: an event that does not continue the earlier ones makes the
  stream fail.  Medians and rates are arithmetic on the counts that are modelled.
  `sorted` is any list of the starts and ends in the order of its key, and a loop
  that adds up is a function of the number of its rounds (`Totals`).  Prompts are
  taken to fit: the assertions before the `try` of `one` (matrix.py:41-47), which
  would end the program without a summary, are left out.  So are the comparison
  of the last count with the ids (common_window.py:26), which are one length saved
  twice, and `if all(timelines)` (matrix.py:125), which a wave of complete records
  always passes.

## 3. Runs

All bounds are CONSTANTS of the specification and named in the `.cfg`.

| Run | Instance | Shows | Distinct states |
|---|---|---|---|
| `row_store` | 2 threads, 4 rows, 2 locks, 0/1/3 slots, 3 lookups, 1 snapshot | rows exact, locks protect slots, counters balance and are ordered, refinement of `ExactLookup` | 549,124 |
| `row_store_liveness` | the same, ids that collide | every lookup returns | 16,022 |
| `direct_read` | pages of 8 bytes, 7-bit words, offsets beyond the end | windows aligned and in bounds, slices exact, accepted tables readable | 4,752 |
| `tensor_parallel` | 1 to 4 ranks, 2 layers, tables no rank count divides | one owner per row, sum exact, range accepted, budget kept | 70,624 |
| `engram_adapter` | 3 calls or replays, requests of 0 to 4 ids | outputs exact, operations fit their buffers, calls complete, refinement of `ExactGather` | 71,410 |
| `page_split` | 2 calls, 1 token write, pages of 2, 4 and 6 tokens | tokens exact, programs fit | 814,917 |
| `api_key` | 3 processes, 4 calls of `key`, 2 containers | nobody gets another key than the server's, no key is replaced | 11,874 |
| `api_key_in_file` | the same | the finding below (TLC reports a violation) | – |
| `checkpoint` | 2 files of 2 blocks, 2 revisions, 2 foreign writes, 2 containers | acceptance and receipts are true | 1,482,239 |
| `launcher` | 2 checks, 1 smoke command, 2 containers | receipts whole and this run's, server stopped whatever raises, launcher decides and ends | 48,820 |
| `import_hook` | a worker and the launcher, 3 imports each, ratios 1 and 4 | hooks applied exactly where asked | 12,744 |
| `bench_wave` | waves of 1 and 2 streams, 3 events, 3 times, 2 tokens | shared counts and peak exact | 535,054 |

Why these bounds are enough for the cases that matter:

- two locks for three slots make two slots share a lock, and four rows make two
  ids share a slot; a third lookup lets a caller meet what two others have left
  behind.  The hazards are between two threads at one slot or one stripe;
- rows of 5 and 2 bytes on pages of 8 fall inside a page, across a boundary and
  at the partial last page, and 7-bit words make `size - offset` wrap;
- counts 3 and 4 share a capacity, 1 does not, 0 returns early; three calls allow
  one to be enqueued while an earlier one of the same count, and one of the same
  capacity, have not run;
- two calls with a write in between are the shortest history with a stale page;
  pages of 6 tokens need a buffer longer than the first call allocated;
- key, receipt and launcher hazards need one other process and one restart;
- three imports are both modules and one again after it failed;
- two streams of three bursts at three times have bursts before, at both ends of,
  inside and after the window, and two at one time.

### Fairness

- `row_store_liveness`: weak fairness of each thread's step inside a lookup: the
  system schedules the thread and a read it waits for comes back.  Taking a lock is
  enabled only while the lock is free, and weak fairness asks nothing of a mutex
  that is free from time to time; it is enough here because the number of calls
  is finite.  With endless calls of others a fair mutex would be needed, which
  `std::mutex` does not promise.
- `engram_adapter`: weak fairness of the stream, which executes what it was given.
- `launcher`: weak fairness of the launcher's steps (each request has a timeout,
  boot.py:80-86, and `time.sleep` returns), of its log thread, and of the clock;
  strong fairness of the exit of a server that was sent SIGTERM and does not stand
  still: it goes on writing while it ends, so the pipe fills and empties.  The last
  is needed: `process.wait` has no timeout, so a server that ignores SIGTERM keeps
  the launcher until the container runtime kills it.  The launcher's ready state is not made to end
  without a signal; serving is what it is for.  The timeout of `urlopen` is one
  of each socket operation; a server that sends a byte at a time is assumed away.

Deadlock is checked in every run but `import_hook`, whose processes may end when
imports have failed too often.  The steps named `Stopped` say where a
behaviour may end: at its bounds, or after an abort.

### Finding

`GeneratedKeyInFile` (run `api_key_in_file`).  README.md:46 says that the
generated key is in `state/api-key`.  `key()` creates the file and writes to it
in a second step (boot.py:76-77), and takes any file that exists for the key
(boot.py:75, 78).  The container's health check runs `key()` too.  TLC shows the
launcher reading the file between the two steps of the health check: the server
is started with an empty key and the file then holds another.  The same window
lets a health check that is killed leave an empty file that all later calls take
for the key; file and server then agree, on nothing, and no property here objects.
With `API_KEY` set, boot.py:73 truncates the file at each call, and a reader may find
it empty for a moment.  (With an empty key the log thread of boot.py:181 also replaces the
empty string, that is, puts its mark between all characters.)  `KeysAgree` and
`KeyKept` say what does hold: O_EXCL keeps two
processes from generating two keys, and a key that was written stays.

Noticed on the way, promised nowhere: two processes saving the same receipt use
one temporary name, so the second rename raises and, in the launcher, ends the
container, after stopping the server (`ServerStopped`); a torn receipt is also
possible then.  `ReceiptsWhole` and
`ReadyReceipts` therefore exclude behaviours in which that has happened
(`contended`).  A comment gives 37888 for a page of 37376 bytes plus padding that
the code computes as 37440 (flash_mla_sm120.py:367-370); the layout only needs
the pages not to overlap, which `LayoutAssumption` states.

## 4. Proofs

TLC checks the instances above; the theorems hold for every value of the
constants that satisfies the named assumptions of the modules.  TLC has checked
each inductive invariant on the run's instance before it was proved.

| Module | Theorems | Inductive invariant |
|---|---|---|
| `RowStoreProofs` | `TypeCorrect`, `SlotExclusion`, `CacheCorrect`, `OutputCorrect`, `Refinement`, `SlotsUnderLock` | `IInv` |
| | `CountersAccount`, `SnapshotsOrdered` | `IInv` and `CountInv` |
| | `NoCircularWait` | `IInv` and `HeldInv` |
| | `ReadTypes`, `Windows`, `Slices`, `Satisfiable` (of `DirectRead`) | `ReadInv` |
| `ConstructionProofs` | `ParallelTypes`, `NoRangeRejected`, `Ownership` (of `TensorParallel`) | `RangeInv` |
| | `RowsAddUp`, `BudgetHolds` | `GroupInv` |
| | `HookTypes`, `HooksAreApplied` (of `ImportHook`) | `HookInv` |
| `EngramAdapterProofs` | `AdapterTypes`, `OperationsAlwaysFit`, `OutputsAreExact`, `StoreUsed` | `AInv` |
| | `GatherRefinement` | `AInv`, `OrderInv` and `TableInv` |
| `PageSplitProofs` | `PagesTypes`, `ProgramsStay`, `TokensAgree` | `PInv` |
| `ApiKeyProofs` | `ApiKeyTypes`, `CallersAgree`, `GeneratedKeyKept` | `KInv` |
| `CheckpointProofs` | `CheckpointTypes`, `ReceiptsTrue`, `Acceptance` | `CInv` |
| `LauncherProofs` | `LauncherTypes`, `ReceiptsAreWhole`, `ReadyIsEarned`, `ServerIsStopped` | `LInv` |
| `BenchWaveProofs` | `SharedCounts`, `PeakIsOverlap` | `WaveInv` |

*Row store.*  `SlotExclusive` is not inductive: it says nothing of who holds a
lock.  `IInv` adds that a thread between lock and unlock is recorded as owner of
the stripe of its id; two threads on one slot would both own its stripe.  Given
exclusion, only the holder changes a slot, so a local row is what the slot or the
file held (`RowInv`), the slot is whole except between its holder's writes
(`CacheExact`), and each position passed holds the exact row (`OutputExact`).
The refinement maps a lookup to one abstract step, its return, and needs
`OutputExact` there.  The counters are compared with the number of threads at
certain steps: a step moves one thread, so it changes that number by at most one
(`Moves`), and the counter it changes makes up for it (`BalanceStep`).  That an
observer reads `misses` before `reads` enters as `SnapshotInv`: the misses it has
loaded are not more than there are when it loads the reads.  `HeldInv` says who
holds a lock and why: a thread between taking and releasing it, at an id of that
stripe.  Such a thread waits for nobody, so waiting threads form no circle
(`NoCircularWait`), which is what liveness takes from safety; and a slot of an open
store is changed by nobody else (`SlotsUnderLock`, an action property).
Assumptions: a finite set of threads, a table of
rows over a set of blocks that contains the zero block, at least one lock, ranges
of naturals.

*Direct read.*  Division lemmas show that the window is aligned, covers the block
and has at most two pages; the extent check bounds `offset + rows * length` by
the size of the file without wrap-around, in the order the code tests it.
Assumptions: a block is not longer than a page; file sizes, offsets and row counts
fit a word.

*Tensor parallelism.*  `RowStart` is monotone in the rank and reaches 0 and the
table's size at its ends; the owner of a row is found by division.  The
all-reduce and the budget are sums over sets of any size.  `SumsExist` shows that
the recursive function under `SumFunction` is there for each finite set, and two
lemmas say what it gives: the one value that is not zero (`SumOfOne`), at most as
many times the bound as there are values (`SumBound`).  With one owner for each
row the first gives `SumExact`; with at most two stores for each rank the second
gives `WithinBudget`.  Assumption beyond the types: at most two Engram layers,
the number the code divides by (engram_backend.py:53; the layers are named in
boot.py:152).

*Import hook.*  `HookInv` names the finder that an import under way has found:
`EngramFinder` is the first of the path exactly in the processes that the variable
enables, from the start of the interpreter on, so a module cannot be loaded there
by anything else, and it is patched in the step that lets others see it.  A failed
import leaves nothing behind, and the next one is in the same position.
Assumption: the enabled processes are some of the processes.

*Engram adapter.*  Nothing in `OutputsExact` says why a buffer that other calls
share still holds the rows of this one.  `StreamInv` does: the stream is a
sequence of whole calls, less what has been executed, so an operation is preceded
by the one of its own call that it depends on, with the same buffers and counts.
`HeadInv` says what the buffer an operation reads must hold, and only for the head
of the stream: each step proves it for the next operation and nothing is claimed
of the others, which will find their buffers overwritten.  `BuffersInv` and `WorksInv`
carry the shapes; that a buffer holds the count rests on `CapacityBound`, a proof
that the rounding to a power of two never rounds down.  That outputs arrive in the
order of the calls, each once, rests on the order on the stream: `OrderInv` says
that gathers wait in the order of their calls, that nothing waits behind the gather
of its own call, and that exactly the calls without an output have a gather
waiting; `TableInv` that the ids of rows on their way are in the table, or the
store would have aborted.  A gather is then the step `Answer` of `ExactGather`, and
all other operations are stutters.  `StoreUsed` shows the adapter to be a caller
`ExactLookup` allows: each of its steps is one of that specification.  With
`Refinement` of the row store the two meet at their common contract.
Assumptions: counts that are captured are positive, as the early return of
engram_backend.py:76 makes them; the marks of missing outputs are no rows.

*Page split.*  The buffers are never cleared, so no invariant can say that they
are right.  `PInv` follows one call: `MarkedInv` says that the pages of its tokens
are flagged, `CopiedInv` that a part of a page is exact once its program has run,
`FinishedInv` that the first cache stays so while the second is split.  The address
lemmas are about any page size and layout: `SourceOfToken` and `PartOfToken` say
where a token's bytes lie before and after, `PartsApart` that two programs never
write the same place, for which the quotients and remainders of the kernel's index
arithmetic have to be unique (`Division`, `Quotient`).  Assumptions: page sizes are
multiples of the kernel's pages, which the source asserts, and the stride of a
page of the buffer is not less than its contents.

*API key.*  `KInv` tells the two ways to use the file apart.  Without `API_KEY` at
most one process is ever between creating the file and writing it, and it is the
only one that writes (`StepInv`); with it, whatever a caller can read is that
setting or nothing (`CurrentInv`).  Assumption, here and for the launcher: at least
one container runs.

*Checkpoint.*  An identity names one content.  `PastInv` says that no identity on
record lies in the future, so a write can never restore one; `HashInv` that what
was hashed is a prefix of the file unless the file has changed since the first
stat, which the second stat would show.  Threads, crashes and revisions then need
no argument of their own.

*Launcher.*  Receipts are whole unless two processes were saving the same one at
once, which the model records as `contended`.  `OwnerInv` says that whoever saves
a receipt alone owns its temporary file up to the rename; `PassedInv` that the
receipts of the checks already passed are of this container; `ServerInv` that there
is no server until the launcher is through with `launch.json` and `Popen`, when what
raises ends it at once, and that the exit path has stopped what was started.

*Benchmark.*  `WaveInv` says of the records what both programs rely on: counts and
times never fall, a complete record has a token, its first token is that of its
events and it ends after them.  The events by a time are then a prefix
(`PrefixIs`) and what a stream holds is the count of its last event (`HeldIs`).
What a burst adds is the difference to the event before, and nothing for an event
without tokens, so the sum over the window telescopes to the difference of two
prefixes (`SharedIs`); the first and the last burst are where a stream begins to
hold tokens and stops lacking them (`FirstBurst`, `LastBurst`).  For the peak, a
finite set can be listed in the order of any rank (`SortedExists`), and the
running total is the number of streams begun less those ended (`Balance`).  It
passes the number active at every time (`Reached`), and it never exceeds that of
some time (`Bounded`): where it first reaches a value a stream starts, and because
ends sort first, all that end by then have ended.  Assumption: `None` is not a
number.

Induction over a data type is not available to these provers as a rule, because
the library states it with an operator for the hypothesis.  Where a fact needs
it (powers of two, bit lengths, sums over sets and sequences, sorting) the proofs take the least
counterexample instead: the natural numbers are well-founded (`LeastElement`).

Only model-checked is liveness (`LookupsReturn`, `CallsComplete`, `ServeDecides`,
`SignalEnds`), because the provers do not reason about fairness and ENABLED here.
Every invariant, action property and refinement of the passing runs is a theorem.
`OperationsFit` has the adapter's type invariant as a part; `WaveInv` and `StoreUsed`
and the other theorems without a property in a run were checked by TLC on the same
instances.

## 5. Not modelled

- Attention arithmetic (flash_mla_sm120.py:177-203, 257-274, 619-655): floating
  point and calls into FlashInfer.  The end of that file (658-730) serves another
  model family.
- Graphs over a page buffer that grows later (flash_mla_sm120.py:486): the order of
  warm-up and capture is the runtime's; a model would check an assumption of ours.
- `sweep.py`, which records its streams as `matrix.py` does and computes nothing
  across them; prompts, HTTP, medians and tables of all benchmark clients.
- The weights of the table, the model, HTTP and the container runtime: outside
  the repository; they appear as nondeterministic environment actions.
- The test and the configuration files: read as documentation.

## 6. Plan

Order of work, the most important first: the row store and its contract; the
read arithmetic under it; the adapter and the ranks above it; then page split,
key, checkpoint and launcher; then the import hook and the benchmark's window.
All of these are on disk, and every safety property the runs check is a theorem.
Left is what the provers cannot reach (liveness), and what would need the rest of
the system: a second stream on one layer, graphs over a buffer that grows, and a
server whose output is not text, each named above and among the hazards.
