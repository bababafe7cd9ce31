# rust-shed in TLA+

`rust-shed` is a workspace of some fifty independent Rust crates, with the
`getdeps` build driver beside them. Many crates are wrappers, macros, formatters
or stubs of internal services. The ones with logic of their own are small
concurrent or polled machines: bounded traversals, buffered streams, adaptors
of futures and streams, a store of self-refreshing configurations, a connection
pool, once-cells, retries, statistics kept per thread, and a few data structures
and encodings. `getdeps` is a sequential program whose state is on disk and which
may be killed at any point. This directory models them, checks the models with
TLC on small instances and proves the most important facts with TLAPS for every
instance.

Contents: inventory, modules and their code, runs, findings, other observations,
proofs, what is only model-checked, what is not modelled, plan.

## Inventory

Crates are independent unless the table says otherwise; their paths are below
`src/shed/`.

| component | state | operations | what is hard | what makes it correct |
|---|---|---|---|---|
| `bounded_traversal` tree (`tree.rs`) | queue, pool of running futures, execution tree of half-filled nodes | one `poll`; user futures complete in any order | results delivered out of order to slots of nodes that come and go | each result delivered once to a slot that waits; folds get all children in order; asserts at the root; ends |
| ... streams (`stream.rs`) | queue, pool, maps of inputs parked by key and by shard | one closure polled as a stream | parked inputs outlive the entry they were parked behind | every input unfolded exactly once, at most `scheduled_max` at once, none stranded |
| ... graph (`dag.rs`) | queue, pool, one node per value with its waiting parents | `poll` | shared children, cycles, limits | one unfold per value, every parent told, `None` iff there is a cycle |
| ... ordered stream (`ordered_stream.rs`) | queue, pool, execution tree with weights and a budget moved between nodes | `poll_next` = schedule, yield, wait | budget lost or gained; estimates that are wrong; limits | books balance, output in tree order, bounds kept, ends |
| `buffered_weighted` | peeked future, ordered queue, current weight, wakers | `poll_next`; source and futures wake it | weights above the maximum, memory bound, sleeping with no waker | weight bound and balance, order, always woken |
| `cached_config` | entities, per-path clients behind a mutex and condition variable, watch channels | open, register, drop, refresh (thread and forced), watch | file changes between two reads, registration against refresh, two threads on one condition variable | never back to older contents, eventually fresh, no client lost |
| `sql` on Sqlite | process-wide flag, one connection per database, open transactions | acquire, query, begin, statement, commit, rollback, drop | two mutexes and condition variables taken in turn; failures half-way | no deadlock or lost wake-up, one guard, no connection handed on inside a transaction |
| `justknobs_stub` | process-wide knobs with their worker; a thread-local override | init, watch loop (a consumer of `cached_config` watchers), scopes of closures and polls, override | update between init and watch; scopes that nest, change threads or end by a panic | knobs follow the store; scopes do not leak |
| `async_once_cell`, `futures_lazy_shared` | cell, async mutex or `OnceLock` | get, set, get_or_(try_)init | failure or cancellation while the mutex is held across an await | one value, seen by all; failure leaves the cell empty and unlocked |
| `perthread`, `stats` | map of pointers to per-thread values; factory; stats made on first use | register, unregister, for_each/aggregate, schedule | threads end while the aggregator walks; first use races the factory's registration | only live values visited; one factory for all managers, whichever thread or kind of stat asks first |
| `futures_retry` | attempt counter, future, sleep, backoff | `poll` | order of limit, predicate, backoff; durations that overflow | exactly the attempts allowed, last error returned, sleeps within the ceiling |
| `futures_ext`, `futures_01_ext`, `futures_stats` | adaptor state between polls | `poll` and drop of each adaptor | back-pressure, cancellation, wakers, being polled after the end | nothing lost, repeated or reordered; whoever waits is woken; callbacks once and true |
| `tokio-detectors` | flag, set of workers, monitoring threads | start, stop, probe | stop and start again; two timeouts | monitors stop; only late probes reported |
| `sorted_vector_map` | sorted vector | the calls of `BTreeMap` and `BTreeSet` | fast paths, merges, equal keys, empty ranges | an ordered map, call by call |
| `netstring` | decoder state, buffer | decode, encode | input cut anywhere, rollback, a spoilt byte | decode inverts encode for every cut |
| `hash_memo` | memoised hash | hash, eagerly and lazily | hashers that get several writes; two threads fill the memo | agrees with plain hashing |
| `scuba_sample` | values of a sample; a log file shared by clones of the builder | conversions, add, sample, log | integer casts, absent values, JSON in between, lines torn apart | values and structs come back; the log has what was logged |
| `facet` | at compile time a list of futures with depths; at run time the facets built | the factory's and the container's macros | facets that share dependencies, are optional, or form a cycle | each built once, after what it needs |
| `getdeps` | source trees, hash files, build directories, installed trees with their markers, the cache | fetch, build, test, clean | a kill between any two changes to the disk, changes between commands, contexts that select other dependencies | a build that succeeds is the build of the present sources |
| ... `fixup-dyn-deps` (`dyndeps.py`) | the directory of copies, the libraries processed, the recursion | process_deps | libraries that are shared, need each other or clash with an object | everything copied refers only to what was copied or to the system |
| `fbthrift_ext` adapters | none | to_thrift, from_thrift | borders of integers and times, several spellings of a value | values survive both ways |
| `sql` queries (`queries!` in `sql/src/lib.rs`) | arguments and rows in the representation of each connection; the tables | read and write queries, plain or in a transaction, on Sqlite and two MySQL clients | lists, several rows of which one fails, integers beyond a column's, values absent | the three connections answer alike, or the difference is known |
| `chrome_trace` | the event being built, the trace, the file | constructors and setters, save in three formats, load | times cut to microseconds; failing or dying inside a save | what was saved is what is loaded, a broken file is refused |
| `thrift_compiler` | the output directory of a build script, which outlives a run | `Config::run` | any operation fails; what an earlier run left; several input files with one name | a run that succeeds leaves the files of its own inputs |
| the rest | none, or formatting, macros, stubs, sockets | | | see `PROJECT.json`, components with status `not_modelled` |

`PROJECT.json` lists every component with its sources and, under `hazards`, the
places where these difficulties bite, each with the properties aimed at it or
the reason why there is none yet.

## Modules and code

Every module names its state after the fields it models. A user's future is a
member of a set that may complete at any time; data is reduced to identities
(paths, numbers, model values). `map` in `PROJECT.json` gives the lines of
every definition. Definitions called `Mutant...` are deliberate faults, each
next to the definition it would replace; they are used by no specification.

- **`BoundedTraversal`** (`tree.rs`). `Schedule` is the top of `poll`'s loop,
  `UnfoldDone`, `FoldDone`, `RootDone` and `JobFailed` are what the pool may
  yield, each with all of `process_unfold`/`process_fold`. A value is named by
  its path, so the arguments of a fold show which results it got and in which
  order. The shape of the tree is chosen by the unfolds as they finish.
- **`UnfoldStream`** is the abstract promise of the two unordered streams: every
  input handed over is unfolded once, at most `ScheduledMax` at a time, and the
  end comes when none is left. **`BoundedTraversalStream`** and
  **`LimitedByKey`** (`stream.rs`) implement it (`IsUnfoldStream`). In
  `LimitedByKey` the refinement maps the queue and both maps of parked inputs to
  `pending`.
- **`BoundedTraversalDag`** (`dag.rs`). Parameters (limit, pool size) are chosen
  initially. `CycleFound` is the early `None`.
- **`OrderedStream`** (`ordered_stream.rs`, the largest machine of the
  repository): `schedule_next`, `yield_next` (with `take_expired` and the
  hand-back of budget) and `process_unfold` are operators on the execution tree;
  `poll_next` is the program counter.
- **`BufferedWeighted`** (`buffered_weighted/src`). Peeking, admission by weight
  and by the memory bound (which may answer anything while futures are queued),
  the ordered queue, and the two wakers.
- **`ConfigStore`** (`cached_config/src`). Files change at any time, also
  between the two reads of `config_for_path`; the modification time may stay the
  same. Each file version has a `stamp` (history) to compare ages. The updater
  and callers of `force_update_configs` are threads with program counters; the
  mutex, the condition variable (with spurious wake-ups) and the watch channel
  are explicit.
- **`SqliteTransactions`** (`sql/common/sqlite.rs`, `transaction.rs`,
  `sql/src/lib.rs`). A guard is acquired in two steps and released in two; a
  statement succeeds or fails, and Sqlite may or may not roll back by itself.
- The asynchronous small crates, composed by `MCAsync` (one is chosen at the
  start): **`StreamAdaptors`** has the wrappers around one stream. A poll of the
  wrapper is one step that takes any answer of the stream inside; items are
  numbered so that loss, repetition and order show. **`FutureAdaptors`** has the
  wrappers around one future, **`StreamJunctions`** those of several streams or
  sinks (`streamfork`, `select_all`, `futures_ordered`; a poll is split where a
  sink or a source may stop it), **`WeightLimited`** the three weight-limited
  buffers (with the order in which `FuturesOrdered` of futures 0.1 hands out
  failures), **`Retry`** the retry loop with the backoff iterators over bounded
  durations, **`SharedCells`** `AsyncOnceCell` and `LazyShared` with tasks that
  can be dropped where they await, **`Stats`** the factory, the thread map,
  the aggregator and the three ways to a stat (a thread's manager, the process's
  `STATS_MANAGER` for quantile stats, none for singleton counters), **`Detectors`** the monitors, **`JustKnobs`** the worker and
  the overrides.
- The data structures and encodings, composed by `MCStructures`: **`OrderedMap`**
  is the abstract map that **`SortedVectorMap`** and **`SortedVectorSet`**
  implement call by call, results included. **`Netstring`** has the encoder, a
  wire cut anywhere and the decoder's state; **`HashMemo`** the hasher and the
  two memoizers; **`ScubaValue`** every conversion with the width of the integer
  types kept (scaled down), **`ScubaSample`** the builder, its sampling, the
  shared file and the derived structs; **`FacetFactory`** the macro's ordering of
  futures followed by the code it generates; **`WireTypes`** the thrift adapters
  of `fbthrift_ext` in both directions; **`DynDeps`** the recursion of
  `dyndeps.py` that copies libraries and rewrites references (its calls are a
  stack). **`SqlQueries`** runs one query of the `queries!` macro on three kinds of
  connection at once, each with a table of its own: arguments, values, rows,
  transactions and errors. **`ChromeTrace`** builds events and saves a trace in
  steps that fail or are the last of the process. **`ThriftCompiler`** is
  `Config::run` as a list of operations on a directory that the next run finds.
- `getdeps`: **`Manifest`** reads manifests (their sections, fields and
  conditions, which may be refused) and evaluates them in a context
  (`manifest.py`, `expr.py`), and **`Getdeps`** runs command lines over
  the disk (`getdeps.py`, `fetcher.py`, `load.py`, and the commands each builder
  runs, `builder.py`, `cargo.py`, `py_wheel_builder.py`) as one process that can
  be killed between any two changes to the disk. A clean removes its four
  directories file by file, in any order of the files. A build directory is the
  set of what decides about it: CMake's cache, the rules of the build tool,
  whether these are of an earlier configuration, a copy of the sources.
  What `Getdeps` needs of the manifests is a constant (`Loads`, assumed
  `Consistent`); `MCGetdeps` computes it with `Manifest`. A tree is the version of each of its two files; what is
  installed records the versions it was made from.
- **`...Proofs`** modules hold theorems, **`SequenceLemmas`** the facts about
  numbers and queues that several of them use; `.cfg` files hold the instances,
  with an **`MC...`** module where constants are more than plain values.
  `MCAsync` and `MCStructures` are the compositions; the bounds of `MCAsync` are
  constants, so that the theorem about it is for all of them.

The crates do not call each other, with three exceptions: `justknobs` consumes
`cached_config`'s watchers (a version that grows in `JustKnobs`; that it does
reach the watcher is `ConfigStore`'s business), `stats` keeps its managers in a
`perthread` map (one module), and `futures_stats` wraps `OnCancelWithData` around
its timed future (one module).

## Runs

Passing runs:

| run | instance | shows |
|---|---|---|
| `bounded_traversal` | trees of depth 2, width 2, two jobs at once | no `expect`, `assert` or `debug_assert` of `tree.rs` fails (`SlotsOwned`, `RootFoldLast`), folds get all children in order, it terminates |
| `limited_by_key` | seven inputs, keys shared by 3 and 2 of them, shards with limits 0 and 1, three at once; or the plain stream over the same inputs | no parked input is stranded, no shard is taken for busy when it is idle, both refine `UnfoldStream`, the streams end |
| `traversal_dag` | all graphs on four values with out-degree up to 2 (cycles, shared and doubled children), limits none, 0, 3, pools of 1 and 2 | no panic, one job per value, folds get all children, `None` iff cyclic, limit kept, it terminates |
| `ordered_stream` | depth 3, two roots, estimates too low (0) and too high (3), budgets 1 and 3, limits none, 0, 1, 3 | books balance, output is a prefix of the tree's order and complete at the end, started unfolds bounded, unlimited streams end |
| `buffered_weighted` | four futures, weights 0, 1, 3 under a maximum of 2 | weight bound and balance, order, no sleep without a waker, the stream ends |
| `async` | streams of four items, three sinks or sources, three callers of a cell, two threads with statistics, two starts of a monitor, three versions of the knobs and nested scopes of overrides | `ItemsDelivered`, `PendingIsWoken`, `OutcomesTruthful`, `InterleavingsSound`, each the conjunction of what the chosen component has to say on it |
| `structures` | any number of calls over three keys; times and integers around the borders of their types; two packages with three libraries; queries of two rows on three connections; a trace saved and loaded; a build script run again on its output directory; three messages of 0 to 11 bytes cut anywhere; integers of a few bits; two loggers; four facets | `ImplementsOrderedMap`, `EncodingsFaithful`, `SharedUseSound` |
| `getdeps` | sixteen sets of manifests, one of which is refused (local, mirrored, git, archive and preinstalled projects; every kind of builder, `nop` with and without `install.files`), three commands out of build with cache and upload, build --clean, fetch and test, one change, one kill | `SoundBuild`, `HashFileTruth`, `DepsReady`, `ConfiguredBuild`, every command ends |
| `config_store` | two handles on one path, one of them watched, updater and one forced refresh, two file changes | types, `StoreConsistent`, `NeverGoesBack`, `StaysFresh` |
| `sqlite_transactions` | three threads, two databases, a call each | `GuardsSound`, `TransactionsClosed`, every request is served |

Why the bounds are enough. The traversals treat nodes alike, so a tree needs a
node with two children one of which has children of its own (depth 2), and a
pool smaller than the jobs; keys and shards need a queue that is emptied and
refilled while its first member runs (three inputs of a key), and an input that
waits for both; a graph needs a shared child, a doubled child, cycles of
length 1 to 4 and a limit below the number of values. The ordered stream needs a
grandchild and a second root for budget to be on the wrong side. Two file
changes are the least for a refresh that read early to meet a later one, and for
the time to stay while contents change. Three threads are the least for a waiter
and a newcomer to compete for a released guard. A wrapper's state depends on
its last few answers only, so four items reach every state with an item before
and after an error, a full batch and a short one. Three keys have a lowest, a
middle and a highest one, hence every position of an insertion or a border of a
range. For `getdeps` a kill matters with a command before it (something is
there) and one after it (something is decided from it): three commands, one
change of a source in between. The properties that are proved
do not depend on the bounds at all.

Fairness. The executor polls a task that was woken; a consumer polls its stream
to the end; the user's futures finish (otherwise nothing can end). Nothing is
assumed of the environment beyond that: no file has to change, no caller has to
call, no memory has to become free (a memory bound is only consulted while
something is queued), no spurious wake-up is relied on. In `ConfigStore` the threads
and a waiting watcher are weakly fair: a thread that waits for the mutex gets
it since every holder releases it, and only the updater asks repeatedly. In
`SqliteTransactions` each thread's own steps are weakly fair and a holder
finishes with its guard. In `OrderedStream` fairness is on the program
counter; only outputs leave it unchanged and they are finite in number. A
`getdeps` command goes on unless it is killed: weak fairness of its own steps.
The compositions `async` and `structures` check safety only; that a waiting task
is woken is stated as an invariant on the wakers.

Deadlock is checked in the runs of the larger components, whose specifications
have an explicit final stuttering step; the small components of `async` and
`structures`, and `getdeps`, really stop when their bound on calls is reached.

Every property has at least one mutant: a fault like a dropped check or a
missing reset in a definition of the model, under which TLC finds the property
violated.

## Findings

- `rolled_back_when_dropped` (code): a statement that fails inside a Sqlite
  transaction drops the bare guard, not the `Transaction`; the connection is put
  back with the transaction open and the next user runs inside it.
- `ordered_stream_livelock` (code): near the limit the budget left can sit in a
  later subtree that may not yield yet; the earlier input is never scheduled and
  `poll_next` loops over an empty pool. `StreamEnds` shows that streams without
  a limit do not have this.

## Other observations

Claims of documentation or comments that the code does not meet. Each of the
definitions named here can be added to the run's cfg to see it:

- `AlwaysFresh` (`ConfigStore`): with no clients, the updater and a caller of
  `force_update_configs` wait on the same condition variable; `notify_one` may
  wake the caller only, and the handle just registered is not refreshed until
  another one is (`store.rs:177`, "updated once in `poll_interval`", line 149).
  `StaysFresh` shows that this is the only way.
- `DuplicateKeysExcluded` (`LimitedByKey`): a key's entry is dropped when its
  last parked input starts, so two inputs of a key may run together
  (`stream.rs:146` against the doc at line 81).
- `SubsetAsDocumented` (`SortedVectorSet`): `is_subset` and `is_superset` answer
  each other's question (`set.rs:196-204`). `ImplementsOrderedMap` checks them with
  the names exchanged.
- `RangeAsDocumented` (`SortedVectorMap`): a range that starts after its end is
  said to panic (`map.rs:251-253`, `:270-272`, `set.rs:137-139`) but does so only
  if the indices of its ends cross (`map.rs:262`, `set.rs:148`): `4..2` on the keys
  1 and 5 is empty.
- `RetriesUntilSuccess` (`Retry`): with no limit on attempts the backoff's
  duration overflows and panics (`backoff.rs:59` and `:85`) unless it is capped
  before; `max_interval` clamps only what is returned (`lib.rs:292`).
- `BuildInvalidated` (`Getdeps`): what later commands trust although it is wrong
  (`hurt`). After a kill: files mirrored by `simple_shipit` before the marker is
  removed, although the fetcher's comment relies on `update` "to correctly
  invalidate the build" (`fetcher.py:595-597`); a cached build extracted in part,
  whose marker may come first; `NopBuilder`'s copy cut short; a clean cut short,
  which leaves a marker or a hash file beside a tree that has lost files, or
  mirrored files without the list that would remove them. And without any kill:
  `NopBuilder` keeps a directory that is there (`builder.py:1378-1380`,
  `:1390-1392`; `manifests/fatal` is such a project of this repository), and
  `Iproute2Builder` two of them (`builder.py:487-491`), so a changed source is
  marked as built and stays as it was. Outside of `hurt`, `SoundBuild` finds no
  other way within the bounds of the run.
- `TestsRetried` (`Getdeps`): `CMakeBuilder.run_tests` does not retry failing
  tests and repeats passing ones, the reverse of `--retry`'s help.

Without a definition of their own:

- Traversals and buffers: a shard runs one key more than its limit
  (`stream.rs:126` compares with `>`), and keys started from a queue are not
  counted. The doc of `buffered_weighted` (`lib.rs:126`) says outputs come in the
  order of completion but they come in the order of the source, as `lib.rs:26`
  says. When a future of futures 0.1's `WeightLimitedBufferedStream` fails
  (`futures_01_ext/src/lib.rs:466-471`), `FuturesOrdered` hands the failure out at
  once, before earlier results, and never gets past its place: results behind it
  stay in the queue for good (`gap` in `WeightLimited`) and the weight of the
  failed future is never given back (`leaked`). A consumer that polls on after the
  error can so be put to sleep without a waker; `PendingIsWoken` shows these to be
  the only ways. A limit of 0 lets nothing in either.
- Adaptors: `streamfork` does not flush one sink while the other refuses an item;
  `split_err`, polled again after an error, polls the stream again.
- `stats`: a second or late `register_stats_manager_factory` panics with the
  write lock held and poisons it, so that every thread that uses a stat for the
  first time afterwards panics too (`lib.rs:63-68`). A quantile stat is made by a
  manager that no thread map knows, so no aggregation visits it
  (`macros.rs:375-390`); a singleton counter asks no factory (`lib.rs:106-117`).
- `tokio-detectors`: `stop()` and `start()` before the monitor has looked leave
  two monitors; the panic of a late probe ends only the monitor's own thread; an
  interval below 10 microseconds panics in `gen_range`.
- `justknobs`: a second `init_just_knobs` racing the worker can put an older
  version back until the next update; a scope left by a panic is not restored;
  a scope on a thread without overrides hides all shared knobs, though its doc
  says that values not present "are not modified"; overrides made inside an async
  scope are gone at the end of the poll.
- `cached_config`: `wait_for_next` may return the same configuration twice, since
  it reads the value after it was told of the change (`handle.rs:46-55`).
- `scuba_sample`: map keys with a colon, `i128`, NaN and sets do not come back
  through their encodings (`Lossy` in `ScubaValue`); a product of sampling rates
  that overflows to 0 panics; the sequence numbers of clones and the order in the
  file may differ.
- `fbthrift_ext`: the docs of the IPv6 and socket address adapters claim a round
  trip "without transforming data" (`ipv6.rs:29-30`), but an address not written in
  the shortest form comes back in that form; a duration that the wrapping adapters
  send may come out negative, which every receiver refuses.
- `dyndeps.py`: an ELF library that needs nothing is read as needing the empty
  name, which resolves to a directory, and the command fails (`dyndeps.py:371-372`);
  libraries of one name in two packages become one, as its TODO says. On macOS an
  object that is not Mach-O has no list of dependencies, and iterating over it is
  a `TypeError` (`dyndeps.py:419-420`).
- `hash_memo`: a value whose `Hash` writes nothing gets the hash 0.
- `getdeps`: a kill between `git apply` and the sentinel makes the next patch
  fail; one between the removal and the rewriting of `.shipit_shipped` makes
  every later mirror fail; files copied by an interrupted mirror stay; a
  dependency cycle loops for ever; a prepare builder makes the build directory,
  so that the main builder is not told to reconfigure. What iproute2's configure
  has written is removed by the `rmtree` before `make` (`builder.py:482-485`).
  After a kill between CMake's cache and a new `build.ninja`, an old one is used
  unless something asks for a new configuration (`builder.py:719-724`); that it is
  not used when something does is part of `ConfiguredBuild`. `fetcher.clean()`
  finds the trees of archives and mirrors already removed by the same command's
  `clean_dirs()`.

## Proofs

All theorems are for every value of the constants that satisfies the module's
named assumption, which TLC evaluates in every run.

**`BoundedTraversalProofs`** (any tree, any pool size of at least one):
`TypeCorrect`, `BoundKept`, `SlotsCorrect`, `RootCorrect`, `NoBusyLoop`,
`FoldsCorrect`, `VisitCorrect`. None of the properties is inductive: that a
fold gets all its children needs to know what each slot of each node holds, and
that the root comes last needs a reason why nothing else can be left. `IInv`
adds: slots and jobs are in one-to-one correspondence and carry the right paths
(`Slots`, `Paths`), node indices are fresh and parents older than children
(`Fresh`), a node's count is that of its empty slots (`Folds`), every empty slot
has a job or a node below it (`Live`), and every unfolded value's children are
known (`Visited`). These are stated over a set of jobs, a tree and a history, so
that one lemma per kind of step (`LeafPreserves`, `InnerPreserves`,
`FillPreserves`, `FinishPreserves`) serves every action. That some job exists
while the tree is not empty (`SomeJob`) follows from the smallest node index.

**`StoreProofs`** holds the theorems of two modules, whose names are distinct so
that both can be extended. About `ConfigStore` (any handles, paths, forcers and
number of changes): `TypeCorrect`, `StoreCorrect`, `GoesForward`. `IInv` adds that entities are
blank and unwatched until opened (`Blank`), that a thread that has read has a
registered client (`Upgraded`, `Registered`), and `Stamps`: nothing read is
newer than its file, and what a thread has read is no older than the entity it
is about to replace. The last needs mutual exclusion: no other thread refreshes
the entity between the read and the write, and that is why `GoesForward` holds.

About `SqliteTransactions` (any threads and databases): `SqliteTypeCorrect`,
`GuardsCorrect`, `TransactionsCorrect`. `GuardsSound` is nearly inductive: a
thread that waits for a connection holds `CONN_LOCK`, hence is the only one with
the flag, hence the holder of the connection is past its use of `CONN_LOCK`.

**`BufferedWeightedProofs`** (any weights, any maximum, any number of
futures): `TypeCorrect`, `WeightCorrect`, `OutputCorrect`,
`NoLostWakeup`. `IInv` adds to the properties the order of everything on its way
(`OrderKept`: what was output, then the queue, then the peeked future, then the
source), that an end once seen is final (`EndSeen`), and that a poll which finds
nothing queued has left its waker with the source (`SourceAsked`); without the
last, `WillBeWoken` is not inductive, since the waker is left in one step and
needed in a later one. The sum of weights is a recursive function of the queue's
length; `AddUpTo...` lemmas say what appending and taking the head does to it.

**`StreamProofs`** (any inputs, keys, shards, limits, pool size of at least one):
`TypeCorrect`, `NoneStranded`, `LimitedByKeyRefines`, `PlainStreamRefines`.
`IInv` says that every input is in one place only (`OnePlace`), that the pool is
within its size (`SlotsKept`), and `WaitersServed`. The refinements map the
queue and both maps of parked inputs to `pending`; an `UnfoldDone` is one step of
the abstract stream, whatever it moves between the maps, and `Schedule` is a
start of the same input or, when the input is parked, a stuttering step.
`WaitersServed` is where the reasoning is: the entry of a key is there as long as
its first input runs, so whoever is parked behind it has something that will end.

**`BoundedTraversalDagProofs`** (any graph, any limit and pool size of at least
one): `Invariance`, `TypeCorrect`, `NoPanicCorrect`, `FoldsCorrect`,
`CyclesCorrect`, `LimitCorrect`. The parts of `IInv` are stated over the
execution tree, the jobs, the history of edges and the set of parents that have
still to be told: what each node holds is determined by its children (`Shaped`),
every slot that waits for a value is registered with it, once (`Registered`), a
node that waits for nothing has exactly its job (`Justified`, `Present`), any
set of values without the root is entered from outside of it (`Reached`), and
there is no cycle among the values whose children are done (`Acyclic`). `process_fold`'s loop over the parents and
`process_unfold`'s over the children are recursive functions: their lemmas
(`TellAll`, `EnqueueAll`) assume a least round after which the invariant fails
and contradict it. `NoneIffCycle` follows: when nothing runs and the root is not
done, the nodes that wait have a child that waits, for ever.

**`AsyncProofs`** (any number of callers, threads, monitors, versions and
scopes): `InterleavingsCorrect`, about the components of `async` that several
threads or tasks share. Each has an invariant of its own, and a step of one
leaves the variables of the others alone (`AtRest`). The cells (`CellInv`): a
caller between its lock and its unlock is the holder, those who wait are in the
queue once, the flag is set only after the slot and the slot is written once; a
dropped caller hands the mutex on. The statistics (`StatsInv`): the map holds the box
of a thread only while the thread is live, the aggregator's walk has before
it handles of the map only, and every owner of a manager, thread or process, got
it from the factory that is installed. The detector (`DetectorInv`): once the flag is set, a
monitor probes at most once more, and only late probes are reported. The knobs
(`ConfigInv`, `LocalInv`): what the worker installs is no older than what it has
seen, and the overrides saved by nested scopes are those that were there when
each began.

`PendingCorrect` and `OutcomesCorrect`, about the components of `async` that one
consumer polls, for any lengths, limits, weights, attempts and numbers of sources
(the buffer size of a weight-limited queue at least one, which the constructors
do not check: with 0 the queue never asks its stream, see above). One part
is active in a behaviour, and `AdaptorInv` is the invariant of the active one.
`StreamInv` says what the fields of each wrapper tell of what the stream has
given: how much of a batch or a budget is left, that a timeout is recorded only
where it happened, that an end was seen before it is passed on. `FutureInv`: the
closure of a future is there until the first result it is for, so that it is
called once. `RetryInv`: each failed attempt was inspected and slept for before
the next one. `WeightInv`: the weight counted is the sum over the queue plus what
errors have leaked (`Books`, which states that partial sums exist and so needs no
recursive function; `RemoveSums` keeps them when a failed future leaves from the
middle of the queue). A queue waits for nothing in two ways only: it is empty and
the leaked weight fills the limit, or all it has is complete and stuck behind a
failure. `JunctionInv` has the wakers of forks and selections.

`DeliveryCorrect`, that what goes in comes out, rests on these and on an
invariant of each part that says where every item is. `StreamHeld`: what was
given is what was handed over followed by what the wrapper holds; the first error
of a split stream is known to be its first only because none was seen while the
sender was there, and a collection that fails had no error before. `QueueHeld`:
the numbers of the queue continue those that came out (`InOrder`); where futures
0.1 lets an error of the stream or of a future overtake, results are still below
everything queued and below the first failure (`Overtaken`, `Behind`), and the sum of the weights as a function of the queue
(`SumsWeight`) follows from the partial sums. `JunctionHeld`: the items sent to a
sink and the one it would not take are, in order, those chosen for it; at most
one sink holds one back, and none once the input is over, which is why a fork
that is done has sent everything it flushed. Sequences are filtered by their
members and their order, which says the same as filtering positions since items
are numbered.

**`SequenceLemmas`** has what the provers do not find about `Head`, `Tail`,
`Append`, `RemoveAt`, `ToSet` and injective sequences, and that a non-empty set of
numbers has a least member, which stands for induction in these proofs.

**`GetdepsProofs`** (any projects and dependencies between them, any manifests
that `GetdepsConstants` allows, any command lines, and any number of commands,
upstream changes, edits and kills): `HashFileCorrect`, `BuildsConfigured`,
`DepsBuiltFirst`. Of each loaded set of manifests
`Consistent` assumes that it has the root project and every dependency, that how
a project is fetched does not depend on the context, that a project which is not
preinstalled has a builder, and that a project's closure is the least set with the
project and what its members depend on; of command lines, that `build` covers the
dependencies (without that option the user answers for them) and that only `build`
and `clean` clean.

`ProcOK` says that the registers of a command have their types and its loop is at
a project of its order. `HashInv`, for `HashFileCorrect`: only archives have hash
files, `update()` works while there is none, unpacks only what was verified, and
writes the file when the tree is what upstream says (`FilesTell`); a tree beside a
hash file has lost files only to a clean, which is then still running or was
killed (`OnlyCleaned`). `ConfInv` and `PlanInv`, for `BuildsConfigured`: in what is
left of the plan, a step that needs files in the build directory has before it
the step that makes them with no removal in between, or they are there; the same
for the rules of an earlier configuration. `DepsBuiltFirst` is the long one. `CmdInv` has which
commands are where; `OrderInv`, that the order repeats no project, stays within
the root's closure and puts each project after what it needs; `InstOK`, the shape
of what is installed; `DoneInv`, that every project a build has passed is
installed with the marker of the present configuration; and `HereInv`, that a
build which may still do nothing found no marker or the right one, and one that
does something leaves a directory for the marker it writes last.

Only model-checked: liveness (`Terminates`, `StreamEnds`, `StaysFresh`,
`Served`, `CommandEnds`), which the prover does not do; `OrderedStream`, whose
nested walks of the execution tree are `RECURSIVE` operators; `SoundBuild` of
`getdeps`, which compares what is installed with the files of a whole history of
fetches and builds; and `ImplementsOrderedMap`, `EncodingsFaithful` and
`SharedUseSound`, which are about what recursive definitions compute on data.

## Not modelled

The text of statements; pools and statistics of the MySQL clients, whose state is
in a library and a server; `TestSource` and fixed configurations; what a consumer may do
after an error of the ordered stream; the panic of a failing `ROLLBACK` (the
guard is released by unwinding as in the model); the times `futures_stats`
measures; what a stat does with its values (a backend's matter, a no-op here);
`try_shared`, boxing and `Either`, which only combine library types. Of
`getdeps`: `show-*`, `generate-github-actions`, the platform's properties, the
environment of commands and the run script of Windows; the Python test program of
the CMake files; floating point durations. `slog_glog_fmt` and the like format text; `cachelib_stub`,
`memcache_stub`, `scuba_stub` and `ods` do nothing; `lock_ext`, `shared_error`
and `failure_ext` wrap values; sockets and process traits are I/O.

## Plan

Two safety properties remain that a proof could reach. `SoundBuild` of `getdeps`
needs an invariant that carries, for each installed project, which versions of
its files and of its dependencies' installations it was made from, through the
windows in which a kill leaves a wrong installation without a sign (`hurt`) and through the
cache. The invariants of `OrderedStream` need its walks of the execution tree as
recursive functions over the nodes in place of `RECURSIVE` operators, and then an
induction over the depth of the tree. Liveness and what recursive definitions
compute on data stay with TLC.

Small components share a run through a module that composes them, so that each
run remains a question about a part of the system.
