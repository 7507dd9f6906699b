# pyamplicol: a TLA+ verification project

pyamplicol generates evaluators for tree-level amplitudes (Python, with a Rust
core called rusticol), publishes them as artifact directories, and evaluates
them through a native runtime. Around it the repository keeps the tooling of a
performance campaign. Most of the code is sequential algebra over physics
data. This project models the parts that keep state between calls, share it
between processes or threads, or must survive a failure.

## Inventory

| component | state it keeps | operations | what is hard |
|---|---|---|---|
| **Artifact store** (`artifacts/transaction.py`, `writer.py`, `process_groups.py`) | the public directory, private staging directories, one flock per directory | generate with mode error, append or replace; rewrite the group map in place | reads made before the lock, failure after the exchange, death between two renames |
| **On-the-fly runtime** (`native_runtime.rs`, `on_the_fly_lane.rs`, `recurrence/on_the_fly/family.rs`, `on_the_fly_cache.rs`) | three nested caches of the last successful query family, one candidate each, semantic bindings, row tables inside kernels, parameter versions, a snapshot file | evaluate, warm up, set parameters, clear, save, load | every step of a call may fail or be cancelled; tiles commit before the call does; stale pointers, handles and parameters |
| **Per-point selectors** (`engine/point_selectors.rs`) | plan, gathered batch, totals and a bounded set cache, all reused | plan, gather, evaluate by group, scatter, clear | boundary cases of the grouping, what a failed call leaves in the buffers of the next |
| **Parameter tree** (`engine/model_parameters.rs`, `evaluation.rs`) | the parameters of a runtime and its companions and what is computed from them | override with rollback, evaluate with a sector selector | a companion refuses what others have taken; a value stored for the time of one evaluation |
| **Helicity companion** (`recurrence_lane.rs`, `recurrence/on_the_fly/persisted.rs`, `symjit_direct.rs`) | one retained family, a workspace, tables of pointers looked up by address | evaluate one helicity in tiles, set parameters, clear | an address that is allocated again finds the table of dropped rows |
| **Direct arena** (`direct_arena/layout.rs`, `recurrence/arena.rs`, `direct_lowering.rs`, `direct_runtime.rs`, `direct_backend.rs`) | free list, plane of each current, an arena never cleared between tiles | allocate, lower, run a whole, sector or destination tile | planes change owner between stages; rows name planes, not currents; what a restricted tile leaves stale |
| **Generation phases** (`generation/service.py`, `recurrence_schedule_sharing.py`) | futures of a worker pool, single-flight cache, a temporary directory | map a phase over processes, lower once | failure of one task while others run or wait for it |
| **Compiler gate** (`evaluators/native_direct_cpp.py`) | flock slots, a compiler's process group, a temporary library | take, compile, terminate, release, publish | processes that die or are interrupted with a slot |
| **Campaign scheduler** (`tools/performance_report/scheduler.py`) | ready heap, prerequisites, deferred cells, worker pool, named locks | plan, run, cancel | several campaigns over one store, waves, retries, cancellation races |
| **Result store** (`tools/performance_report/artifacts.py`) | attempts, current pointers, history, use locks | measure, reuse, seal, publish, archive | reads without the lock of their cell, an artifact archived under its reader |
| **Worker supervision** (`tools/performance_report/resources.py`) | known process tree, captured identities, pending probe | sample, classify, terminate | a worker that ends, forks or changes its group while it is sampled or killed |
| **Memory watchdog** (`tools/ci/memory_watchdog.py`) | samples, pending probe failure, signals | guard a command | the order in which exit, limit, signal and probe failure are seen |
| **Campaign reset** (`tools/performance_report/campaign_reset.py`, `tools/developer/reset_performance_campaign.py`) | journals, archive, staged and live roots, gate, marker | prepare, commit, recover, verify | a death between any two renames, journals that compete, calls repeated |
| **Report publisher** (`tools/performance_report/publisher.py`, `service.py`) | report files, snapshot manifest, lease, writer lock | capture, copy, build, install with rollback; render, reset | pointers that move while they are read, a failure in the middle of the installation |
| Other lanes of the native runtime | numerical scratch | evaluate | numerical equivalence |
| Artifact loading, PACBIN | none after a load | load, validate | parsing |
| Recurrence construction, DAG, stages, colour, models | none | pure functions | physics algebra |
| C ABI, PyO3, SDK templates | last error, handles | thin calls | panics, ownership |
| CLI, configuration, licensing, reporting, benchmarking | display state | option resolution, formatting | wording |
| Build backend, release tooling | a build cache under one flock | build, pack | file copying |

Components in bold have modules; the others are under "Not modelled".

The hazards of each modelled part, with the line where each one bites and the
property that covers it, are listed in `PROJECT.json` under `hazards`.

### How the parts interact

- `generation/service.py` compiles processes and hands them to
  `write_schema_v3_artifact`, which opens an `ArtifactTransaction` through
  `ArtifactBuilder`. `group-processes` reads and rewrites the same directory in
  place. All of them exclude each other only by `flock` on `.<name>.lock`.
- A Rust `NativeRuntime` loads an artifact once. An on-the-fly runtime then
  keeps a wrapper (selection), a lane (query family) and an executor (rows,
  workspace, row tables in the kernels) that call each other synchronously; the
  resolver of the recurrence backend keeps the semantic bindings of the family.
- The performance campaign starts worker threads, each of which supervises a
  child process that generates and measures one cell. Several campaign
  processes may run over one result store: the manual runner holds only a
  shared lock on the store (`manual_campaign.py`), so cells are excluded one by
  one.
- A cell that is measured may reuse the artifact of another cell: the result
  store keeps it alive by use locks against the cleanup that follows every run.
  The publisher reads the current pointers of all cells without any lock, and a
  reset replaces the whole store by renames when nobody should be running.
- The rows of a recurrence evaluator name planes of one arena. The allocator
  decides which current owns which plane at which stage, the lowering sorts the
  rows and marks the one that overwrites, and a tile runs the rows it selected
  on whatever the last tile left.
- An evaluation with per-point selectors runs once per group on the runtime below
  it, and a summed evaluation stores a sector selector among the parameters of
  that runtime.

## Modules

| module | what it is | uses |
|---|---|---|
| `ArtifactCatalogue` | abstract: what readers of an artifact directory see | |
| `ArtifactStore` | the directory, its lock, generation and grouping processes | implements `ArtifactCatalogue` |
| `ArtifactStore_proofs` | its inductive invariant and theorems | `ArtifactStore` |
| `OtfPromise` | abstract: what the caller of an on-the-fly runtime sees | |
| `FamilyExecutor` | the query-family executor as operators on a record | |
| `OtfRuntime` | wrapper, lane and executor during calls and updates | extends `FamilyExecutor`, implements `OtfPromise` |
| `OtfRuntime_proofs` | its inductive invariant and theorems | `OtfRuntime` |
| `PointPromise` | abstract: what the caller of an evaluation with per-point selectors sees | |
| `PointSelectors` | planner, gathered batch, totals and the selection cache | implements `PointPromise` |
| `ParameterTree` | the override walk and the sector selector | |
| `HelicityCompanion` | tiles on one retained family, and the kernels' row tables | |
| `NativeRuntime` | the three parts of a native runtime that calls go through | `PointSelectors`, `ParameterTree`, `HelicityCompanion` |
| `NativeRuntime_proofs` | the inductive invariants of the three and the theorems | `NativeRuntime` |
| `ArenaLayout` | the plane allocator, one iteration per action | |
| `ArenaExecution` | lifetimes, lowering, selection and execution of one tile | extends `ArenaLayout` |
| `ArenaExecution_proofs` | the inductive invariants of both and the theorems | `ArenaExecution` |
| `GenerationPhases` | a pool of workers, the phases and the single-flight cache | |
| `CompilerGate` | calls at the slot gate and their compilers | |
| `CampaignScheduler` | campaign loops, worker threads, named locks, results | |
| `CampaignScheduler_proofs` | its inductive invariant and theorems | `CampaignScheduler` |
| `AttemptHistory` | attempts, pointers, reuse and cleanup | |
| `AttemptHistory_proofs` | its inductive invariant and theorems | `AttemptHistory` |
| `WorkerSupervisor` | one supervised worker and its process tree | |
| `MemoryWatchdog` | one guarded command and its process tree | |
| `GuardedWork` | the four parts that start work and answer for it | `GenerationPhases`, `CompilerGate`, `WorkerSupervisor`, `MemoryWatchdog` |
| `GuardedWork_proofs` | the inductive invariants of the four and the theorems | `GuardedWork` |
| `CampaignReset` | journals, guards and renames of a reset, and its verification | |
| `ReportPublisher` | publishers and report commands over one set of files | |
| `CampaignFiles` | the two parts that move a campaign's files | `CampaignReset`, `ReportPublisher` |
| `CampaignFiles_proofs` | the inductive invariants of the two and the theorems | `CampaignFiles` |
| `MCOtfRuntime`, `MCCampaignScheduler`, `MCAttemptHistory`, `MCArenaExecution`, `MCGuardedWork`, `MCNativeRuntime`, `MCCampaignFiles` | constants and symmetry of one module's instances | the module |

`GuardedWork`, `NativeRuntime` and `CampaignFiles` join components whose
correctness has the same shape, so that one statement is made of all of them. The
parts share no state in the code: a variable `part` chooses one in the initial
state, its actions alone are enabled, and the variables of the others keep their
initial values. No interleaving between parts is lost, because there is none to
see. In `CampaignFiles` a variable `cast` also chooses who takes part, so that a
small instance has resets that compete, a reset beside a verification, and so on,
without their product; in `NativeRuntime` a variable `scene` chooses the lane of the
artifact with the requests its caller makes, and the companion's variable `packed`
whether its executors take a point stride of one.

Each module also holds, in front of the definition it alters, the operators
marked `Mutant:` that `PROJECT.json` lists. Each is a plausible bug of that
definition, with which the named property fails; no specification uses it.

### ArtifactStore

A directory is a record: the processes on disk, the group map, and the manifest
with the processes and the group map it declares. Generation run `w` produces
process `w`; grouping run `g` discovers relation `g`. The `artifact_id` is the
set of processes of the manifest, since the group map is the one payload whose
role is not part of the identity.

| actions | code |
|---|---|
| `Start`, `StartGrouping` | what is read before the lock: `write_schema_v3_artifact`, `update_artifact_process_groups` |
| `Acquire`, `Stage` | `ArtifactTransaction.__enter__` |
| `CheckStaged`, `AddPayloads`, `Finalize` | `ArtifactBuilder.__enter__`, the payload methods and `_write_process_groups`, `finalize` |
| `Install`, `Commit` | `commit`: the rename or exchange, then the fsync of the parent |
| `Fail`, `RemoveStaging`, `Unlock`, `Leak` | `__exit__`, `_release` and the ways the lock outlives them |
| `ReplaceGroups`, `ReplaceManifest`, `FailGrouping` | `write_process_groups`: two `os.replace` calls |
| `Die` | the process is killed at any point; the kernel drops its lock |

The commit is three actions because each boundary is a place where the code can
fail or be killed with a different result.

### FamilyExecutor and OtfRuntime

`FamilyExecutor` translates `recurrence/on_the_fly/family.rs` and the bindings
of `recurrence_backend.rs`, one operator per method, on a record with the
retained family, the candidate, the parameter version and the set of slots
whose rows are pointed to by row tables in kernels. `dangling` becomes true when
rows are dropped that such a table points into.

`OtfRuntime` adds the lane and the wrapper and splits a call into the steps
`Begin`, selection (`ReuseSelection`, `ReuseQueries`, `PrepareCandidate`),
one `ExecuteTile` per tile, and `Commit`; `SelectFails`, `WarmUpCancelled`,
`InputFails` and `KernelFails` end it at every place it can fail. Each failing
step includes the whole unwinding through executor, lane and wrapper.
`SetModelParameters`, `Clear`, `Save`, `Load` and `LoadFails` are the other
operations of a runtime. A runtime is used through `&mut`, so calls do not
overlap.

Selections, query lists and families are three sets with maps between them:
two public selections may ask for the same queries (an omitted axis and the
complete one), and two query lists may execute the same rows. These
coincidences are where the layers could confuse each other's identities.

### CampaignScheduler

Each campaign has the locals of `CampaignScheduler.run` (`queued`, `backoff`,
`prerequisites`, `outcomes`), one worker per submitted cell with its phase in
`_run_cell`, and the memo of the prepared model. The named locks and the current
results are shared by all campaigns.

| actions | code |
|---|---|
| `Submit`, `RetryDue` | the submission loop and `pop_lockable_candidate` |
| `CollectDeferred`, `CollectRaised`, `CollectOutcome` | the collection of a finished future, with its dependents and the cycle test |
| `Return`, `Drained` | the end of `run`, and an exception that first waits for the pool |
| `StartCancelled`, `LockCell`, `CellBusy`, `Inspect`, `Measured`, `Raises`, `Leave` | `_run_cell` and `_run_cell_in_lane` |
| `ModelKnown`, `ModelUnknown`, `ModelCancelled`, `ModelBusy`, `LockModel`, `Prepared` | `_prepare_model_for` with its double-checked memo |
| `Cancel`, `Kill` | the operator's latch and the death of a campaign process |

### AttemptHistory

An attempt is a number with its cell, its place (live or history), its seal, its
artifact and the attempt whose artifact its result names. A cell has a pointer.
A worker runs a cell under its lock and cleans up after it.

| actions | code |
|---|---|
| `StartCell`, `Reconcile` | a run of a cell, and the cleanup at the start of a campaign |
| `Keep`, `Retime`, `ReadPointer`, `ReadRecord`, `Generate` | what `_run_cell_in_lane` decides: keep, time again, reuse, generate |
| `LockUse`, `UseBusy` | the use lock of the attempt whose result is reused, only tried |
| `NewAttempt`, `Load`, `Fail`, `Discard`, `Seal`, `Point`, `Leave` | the attempt from its directory to the pointer |
| `Prune`, `LockTarget`, `TargetBusy`, `Consult`, `Follow`, `Obsolete`, `KeepTarget`, `Move`, `Remove`, `Cleaned` | `archive_obsolete_attempts`: consumers are read one by one before one attempt moves |
| `Kill` | death of a worker, which drops its locks |

### GenerationPhases

The caller (`main`), the futures it knows, and one `task` per process, over several
phases. `Submit`, `SubmitFails`, `Collect`, `Failed`, `NextPhase`, `Close`, `Join`
and `Write` are the caller in `_map_process_phase` and `generate`; `PickUp`,
`LookUp`, `Lower`, `Share`, `Bind` and `Operate` are a thread of the pool, with the
single-flight cache of `lower_process`. `Interrupt` is a KeyboardInterrupt in the
caller. `SubmitFails` is the thread pool that cannot start a thread: the work item
is already queued.

### CompilerGate

One call per process: `Enter`, `Take`, `Blocked`, `Sleep` poll the slots; `Launch`,
`Communicate`, `Finish`, `Timeout` run the compiler; `Terminate`, `GraceEnds`,
`KillGroup`, `Reap`, `GiveUp` end its group; `Release`, `Publish`, `Unlink` finish
the call. The driver and its tool are processes of their own (`StartTool`,
`EndTool`, `EndDriver`, `Obey`) and may hang or ignore SIGTERM.

### WorkerSupervisor and MemoryWatchdog

Both models have a process tree whose members fork, leave the group, exit, are
orphaned and survive SIGTERM between any two steps of the one who watches, and a
watcher translated step by step. The supervisor's loop is `Top`, `CheckCancel`,
`Sample`, `Poll`, `Judge`, `CheckPhase`, `LastPoll`, `ClassifyAtBoundary`, `Finally`;
its teardown is `SigTerm`, `Refresh`, `GraceEnds`, `SigKill`, `Wait`; its storage
thread is `Record`. The watchdog's is `Loop`, `Sample` or `ProbeFails`, `Judge`,
`Poll`, and `Terminate`, `Grace`, `GraceEnds`, `Kill`, `Finish`. What the metered
sizes and times are is a choice of the step that compares them.

Some variables only remember what a property needs: `disturbed` that the last
sample before SIGKILL failed or that the tree changed after it, `missed` that a
snapshot of the watchdog failed after SIGTERM, and in `GenerationPhases` `refused`,
the malformed classes whose entry was left without an owner.

### PointSelectors, ParameterTree and HelicityCompanion

`PointSelectors` is one evaluation call with its buffers: `Resolve` (the selection
cache), `Build` with `RunStep`, `CountStep`, `LayoutStep` and `PlaceStep` (the
plan), `ExecuteWhole`, `ExecuteContiguous` and `ExecuteGathered` (each may fail
after any number of rows), `Finish`, and `Clear`. It implements `PointPromise`:
a call that succeeds writes for each row the value of its own point and selector,
and one that fails leaves the caller's output alone, except that a batch whose rows
select alike may hold some of its rows.

`ParameterTree` walks the tree in the order of the code: `Update`, `Take` or
`Reject` with `Restore`, `Accept`; `SumSector` and `EndSum` are the sector selector
that a summed evaluation stores for its own time.

`HelicityCompanion` is a call in tiles: `Start`, `PrepareRetained`,
`PrepareLarger`, `PrepareNew`, `PrepareFails`, `Execute`, `ExecuteFails`,
`Contract`, `Advance`, with the updates between calls. Rows and workspaces have
addresses that are allocated again, and the kernels find their tables by address.

### ArenaLayout and ArenaExecution

`ArenaLayout` is `assign_direct_arena`: `Release` and `Place` or `Extend` are the
iterations of its two loops, on a free list with coalescing and best fit.
`ArenaExecution` derives the lifetimes from a program, takes the layout, lowers
the program to rows that name planes (`Lower`), selects the rows of a whole tile, of
one sector or of some destinations from the addresses in the rows (`TileOfAll`,
`TileOfSector`, `TileOfDestinations`) and runs them (`FillSource`, `Contribute`,
`CopyCertified`, `Finalize`, `Close`) on an arena that holds stale values. A plane
holds the set of terms summed into it, so an amplitude can be compared with what
the program says it is. `Precedes` is the order of the lowered rows. Within one
executor the code sorts by operands and the model by ids; ids are arbitrary, so the
programs have every order of two contributions. Certified copies run in the order of
their currents, and a copy reads only its representative.

### CampaignReset and ReportPublisher

`CampaignReset`: `PrepareBegins`, `PrepareEnds`; a process takes the guard
(`Call`, `Acquire`) and does the renames one by one (`RenameForward`, `Replace`,
`Renamed`), installs the publication (`Install`), and writes the two journals
(`WriteArchiveJournal`, `WriteCommitted`). `VerifyBegins`, `Publish`, `WriteGate`,
`MarkReady` are verify-baseline; `Crash`, `VerifierDies` and `StrayWorker` the
environment. A directory is known by the path where it was made, so what was lost
or is there twice can be seen.

`ReportPublisher`: `Start`, `ReadFirst`, `ReadAgain`, `Copy`, `Build`,
`TakeWriter`, `Replace`, `Snapshot`, `WriteManifest`, `RollBack`, `NextCycle` are a
publisher; `Command`, `CommandReplace`, `CommandRollBack` are `render` and `reset`
on the same files. `ReplaceUnsynced` and `ManifestUnsynced` are replacements whose
directory sync fails: done, but unknown to the rollback.

## Runs

Distinct states are those TLC finds; every passing run ends within three minutes
on two workers.

| run | instance | states | shows |
|---|---|---|---|
| `store_races` | 3 writers, 1 grouper, each started once | 127 229 | whole public artifact, repaired digests, no lost append, mode error never replaces, refinement of `ArtifactCatalogue`, and who waits for the lock gets on, also behind a failure, a death or a leaked lock |
| `store_commit` | 1 writer | violation | see Findings |
| `store_merge` | 1 writer, 2 groupers | violation | see Findings |
| `otf_calls` | leading and contracted colour (tiles of 2); 5 selections, 4 query lists, 2 families, 3 parameters; 3 calls of up to 3 points, 3 updates | 1 603 654 | coherence of the layers, no dangling row tables, a selected call can execute, saved snapshots load, refinement of `OtfPromise`, a failing leading-colour call keeps the last family |
| `otf_eviction` | contracted, one tile, 2 calls | violation | see Findings |
| `campaign_peers` | 2 campaigns that keep results, 3 cells, `c3` needs `a2` and compares with `b2` | 970 551 | nothing lost or reordered; mutual exclusion; blocked only by a failure; `run` returns complete; results kept |
| `campaign_waves` | wave barrier; a campaign of 3 cells and a peer that reruns one of them | 108 322 | waves in order; every campaign ends |
| `arena_tiles` | 7 currents over 3 stages: 1 548 programs, with every whole, sector and destination tile; and the allocator alone on every combination of lifetimes and widths of 5 values | 482 203 | living currents share no plane, the free list is sound, amplitudes are those of the program on an arena full of stale values, a destination tile runs exactly what its amplitudes depend on |
| `history_owner` | 2 workers, 2 cells, 4 attempts, 1 kill, symmetry | 2 075 922 | what a current result needs exists; an artifact measured on under its use lock stays; the history is light after a cleanup; only obsolete attempts move |
| `guarded_work` | 4 parts: 4 processes in 2 pairs over 3 phases; 2 calls on 1 slot; a worker with 1 descendant; a command with 2 descendants, limit 2 | 666 758 | nothing outlives its owner, a reported success is one, others are unharmed, everything ends |
| `runtime_calls` | 3 parts: 3 scenes (5 points by 3 colours; both axes, 2 calls; global selections with a cache of one); 4 runtimes, a massive and a massless particle; 3 helicities, packed or not; symmetry | 430 050 | nothing kept or computed for one call reaches another; every call answers its own request |
| `campaign_files` | 2 parts in 4 casts: 3 journals over 2 guards; 1 journal, a verifier and 2 late workers; 2 publishers; a publisher and a command | 383 578 | files stay whole, nothing published goes back, everything settles |

The type invariants of `OtfRuntime` and `AttemptHistory` are conjuncts of
`Coherent` and `NeededStand`; those of `ArtifactStore`, `CampaignScheduler`,
`ArenaLayout`, `GuardedWork`, `NativeRuntime` and `CampaignFiles` are proved.
Every invariant that a passing run checks is also a theorem, some under the
hypotheses that Proofs names.

Why the bounds are enough to be interesting:

- Store: three writers are the least that let two appends race over an artifact
  that a third created, and a replacement or a grouping run come between the
  unlocked read and the lock. A second start of an actor adds only sequences of
  finished runs. The proofs remove the bound for what they cover.
- On-the-fly: three calls are a first family, a second one that replaces it, and
  a third that finds stale state if any was left; updates between them change
  parameters to equal and different projections, clear, save and load. Two
  points are a growth of capacity for leading colour; three points with tiles of
  two are a full tile followed by a short one.
- Campaigns: a chain over two multiplicities, a comparison, and a peer that
  shares cells. Every lock can be taken by the peer at any time, and retries are
  unbounded.
- History: four attempts are an artifact, its reuse, and a second generation of
  both, so that every obsolete attempt has had a reader; a kill may leave any step
  undone for the other worker.
- Generation: four processes on up to three threads, so that one can be done, one
  running and others queued when a failure arrives; two pairs of twins, one of which
  leaves an entry without an owner.
- Gate: two controllers on one slot are the least that compete. Supervisor: a root
  and a descendant, which may leave the group, be orphaned, outlive its parent and
  have its identifier given to a stranger. Watchdog: two descendants, so that one is
  orphaned by the other; a limit of two is exceeded by the third process. Probes may
  fail any number of times.
- Selectors: five points by three components are the least in which a run, a
  repeated key and a gathered partition of several rows occur together; the two
  calls over both axes show what the first leaves behind; the cache holds one
  entry, so it is full after one resolution.
- Parameters: four runtimes are a root with three companions, one of which lacks a
  slot in the middle of the walk. Helicities: two with different live destinations
  and a structural zero, three points in tiles of two, four addresses for the rows
  and the workspace of a retained family and of its successor.
- Arena: three stages are the least in which a plane is released and handed on
  twice; the maximum of planes is reached by the widest lists.
- Files: three journals over two guards, two of them with one archive id, can compete
  for one destination; two deaths let a recovery die as well; two cells and one fault put a failure before, between
  and after the replacements.

`CHECK_DEADLOCK` is off in every run because every instance may stop: actors use
up their starts, a runtime its calls, a campaign its cells, a tile its rows, and
a guarded command its supervisor.

### Fairness

- `ArtifactStore`: weak fairness of the steps of each started process. It is the
  scheduling of an operating system; nothing else is waited for, since the lock
  is the only thing a process blocks on. A leaked lock is released when the
  stream is collected or the process exits, hence weak fairness of that `Die`.
  Starting and being killed are not fair. `flock` makes no promise of order, so
  the property relies on the finite number of runs and says nothing about
  starvation by an endless stream of new processes.
- `CampaignScheduler`: weak fairness of each loop, each worker and each retry
  time. Threads are scheduled, timers expire, and a supervised worker process
  ends because the supervisor enforces limits. `Cancel` and `Kill` are not
  fair. Weak fairness is enough although locks are only tried: a worker that
  finds a lock taken gives the cell back, and its campaign gets the cell again
  once the holder, which needs no other lock of the peer, is done.
- `GenerationPhases`: weak fairness of the caller and of each thread of the pool.
  Interrupts and failing submissions are not fair.
- `CompilerGate`: weak fairness of the calls only. The compiler may hang for ever;
  the timeout of `communicate` is what ends it. That a call gets its slot behind
  others holds because the other calls are finitely many.
- `WorkerSupervisor`, `MemoryWatchdog`: weak fairness of the watcher and of the end
  of its grace period, and in the supervisor, which waits for it, of the delivery of
  SIGKILL to somebody. Nothing the tree does is fair: the command may run for ever,
  and the property asks for an end only after it ended, was cancelled or signalled, or
  crossed a limit, and excludes a tree that escaped the last sample (`disturbed`).
- `CampaignReset`: weak fairness of a process that commits, and of calling again,
  which is what the documentation tells the operator to do; the property excludes a
  rival journal and a late worker that made a root again (`NoStray`).
  `ReportPublisher`: weak fairness of a publisher, of starting one, and of a command.
  Deaths, faults and measurements are not fair, and are finitely many.

### Findings

- `store_commit`: `commit` fsyncs the parent directory inside the `try` after the
  exchange. When that fails, the transaction reports an error although the new
  artifact is public and `_release` removes the previous one. The comment of the
  handler says that the exchange leaves both names untouched on failure.
- `store_merge`: a grouping update reads the stored map before it takes the lock,
  and under the lock checks only the process ids. Two updates that overlap lose
  the relations of the first, where the docstring says that relations are merged
  into the stored map.
- `otf_eviction`: a contracted call that fails before any tile ran clears the
  last successful family, where the architecture document says a failed
  candidate is discarded without evicting it. The code does so on purpose for a
  call whose earlier tile committed, but applies it to every failure after the
  selection.

Seen while modelling, and kept out of the checked statements by the conditions
named here, without a run of their own:

- `scheduler.py:2985`: the use lock is that of the attempt whose result is reused.
  If that result was itself timed on the artifact of an older attempt, the older
  attempt is not locked and its artifact can be archived under the worker
  (`OwnReuseUndisturbed` speaks of artifacts an attempt made itself, and
  `BorrowedStand` of histories without such attempts).
- `scheduler.py:3005`: after the use lock only the artifact is looked for again; the
  reused result file itself may have been archived.
- `native_direct_cpp.py:372`: an interrupt during the termination of a compiler
  releases the slot with the compiler alive (`Interruptible` leaves those places
  out).
- `memory_watchdog.py:663`: in the grace period a failed probe is taken for an empty
  tree, and a descendant that ignored SIGTERM is not killed (`SeenEnd` excludes
  terminations with such a probe, `missed`).
- `resources.py:1814`: a worker that exits while the probe is being retried, rather
  than in the wait before it, is reported as completed (`RetryFailsClosed` speaks of
  the wait).
- `resources.py:1140`: a descendant that leaves the group after the last refresh
  before SIGKILL is waited for without another signal (`EverythingEnds` excludes
  it, `disturbed`).
- `resources.py:581`: a known identifier that was given to an unrelated process
  stays selected, and that process's children are taken for descendants
  (`ReuseKnown` is FALSE in the instance, and assumed so by the theorems).
- `campaign_reset.py:1148`: a late worker of the old campaign that makes a root again
  lets the recovery of its journal refuse, and a rival journal archive the new root
  as the old one (`CommittedIsWhole` asks that there is none, `NoStray`).
- `campaign_reset.py:1287`: a death between the two COMMITTED journals makes the
  next recovery install the staged publication over a newer one
  (`RepeatIsIdempotent` speaks of behaviours without a death).
- `reset_performance_campaign.py:605`: verify-baseline repeated on a READY campaign
  without a pinned marker replaces the gate before it is refused (`PinMarker` is
  TRUE in the instances).

## Proofs

TLAPS checks the eight `_proofs` modules. The theorems hold for every value of the
constants that satisfies the named assumptions of the modules; what a theorem
assumes beyond them stands in its own `ASSUME`. The modules that are joined have
their assumptions as definitions; the joint modules collect them
(`PartsAssumption`), the instances check them and the theorems assume them.

`GuardedWork_proofs`, `NativeRuntime_proofs` and `CampaignFiles_proofs` are about the
specification of the joint module that their run checks. Each part has an inductive invariant of its own
under the name of its instance (`Generation`, `Gate`, `Worker`, `Guarded`; `Points`,
`Params`, `Companion`; `Reset`, `Pub`); since a step of the joint module is a step of one part and leaves the
others alone, the joint invariant is their conjunction, and the theorems state the
properties of the run (`TypeCorrect`, `OwnersOutlive`, `SuccessesAreReal`,
`NobodyIsHarmed`; `TypeCorrect`, `NothingIsStale`, `CallsAreAnswered`; `TypeCorrect`,
`FilesAreWhole`, `PublishedGoesForward`). `GuardedWork_proofs`, `NativeRuntime_proofs`
and `CampaignFiles_proofs` assume `PartsAssumption`.

Each proof has the shape of the others: an inductive invariant `IInv` made of named
parts, one lemma per action, or per group of like actions, that keeps it, and short
theorems that follow from it. Every strengthening was first checked by TLC on the
instances of the runs.

**ArtifactStore** (`ActorAssumption`: writers and groupers are different and
`Nobody` is neither; `SentinelAssumption`: `Absent` is no directory and no set of
processes, `NoManifest` no manifest; `BoundAssumption`). No invariant of the store is
inductive alone. `IInv` adds

- `LockHeld`: the lock is held by exactly the actor past its acquisition;
- `StagedFor`: at each label of a writer, what its staging directory holds. For an
  append it also says that the public processes are still those the writer
  expected and that the relations are still those it copied: the flock has
  kept the destination unchanged since `__enter__`, and `CheckStaged` has
  compared the copy with the manifest read before the lock;
- `GroupsReplaced`: between the two renames the destination holds the draft.

One lemma per action shows that it keeps `IInv`. `TypeCorrect`,
`PublishedIsWhole`, `DigestMismatchIsRepaired`, `StagingOnlyUnderLock` and
`AppendIsNeverLost` follow. A second invariant, `Admitted`, carries what the
preconditions of the modes established under the lock until the rename; from it
follow `ErrorModeKeeps` and the refinement `StoreRefinesCatalogue`, whose one
visible step is `Install` and where every other step stutters.

**CampaignScheduler** (`PlanAssumption`: a plan is ranked, so it is acyclic, no
cell depends on one of a higher multiplicity, and priorities are distinct;
`SettingsAssumption`: the cells are finite and the pool is not empty). `IInv`
adds

- `Ledger`: a cell waits exactly for its planned prerequisites without outcome;
- `Startable`: the cells that wait for nothing are queued or run, and no others;
- `Reports`: what was reported and what the future holds at each phase of a
  worker;
- `LocksHeld` and `StillMissing`: a worker holds the lock of its cell, so what it
  found missing under the lock is still missing when it publishes.

`ReturnIsComplete` and `NoFalseCycle` need one more idea: if cells without
outcome remained, one of least rank would exist (well-foundedness of the natural
numbers), and all its prerequisites would have outcomes, so by `Startable` it
would be queued or running. `CompletionIsReportedOnce`, `NoFalseCycle` and
`ModelIsPreparedOnce` state properties that no run repeats.

**ArenaLayout** (in `ArenaExecution_proofs`; `ValuesAssumption`, `StagesAssumption`, `WidthsAssumption`,
`RequestsAssumption`, `MaxPlanesAssumption`: finitely many values, lifetimes that do
not end before they start, and positive widths; nothing bounds their number).
`IInv` adds to the properties

- `ReleasedIsPast`: a value that was released lived before every value that is
  still to be placed, because both lists are sorted and a release needs a last use
  before the first use of the value to be placed;
- `HeldApart`: ranges of values that are placed and not released do not meet, and
  none meets a free range;
- `NoPlaneLost`: below `arena_stop` every plane is free or held.

The lemmas about the free list (`MergedIs`, `InsertedDisjoint`, `InsertedPlanes`,
`InsertedUnmet`, `InsertedInside`) say what coalescing does to the set of free
planes: nothing. Then `NoLivePlaneIsShared`, `FreeListStaysSound`, `IntegrityHolds`
(the integrity errors of the allocator cannot occur) and `EveryPlaneAccounted`
follow for every list of lifetimes, which is the property the numeric code relies
on when it lets rows name planes.

**ArenaExecution** (in `ArenaExecution_proofs`; the assumptions above,
`NoExecutorAssumption`, and `ProgramsAssumption`: every program is `WellFormed`).
`WellFormed` is what the code ensures before it lowers a program, for any number of
currents, contributions, closures, destinations and relations: ids are distinct, each
current but the sources has contributions and each destination closures
(`program.rs:2404-2513`, `1936`), a term has parents (`program.rs:1783`, `2065`), the
parents of a contribution belong to earlier stages (`construct.rs:7046`), and a
certified current and its representative, which does not come after it, agree in
stage, width and selector domain (`relation.rs:391`, `direct_lowering.rs:2255-2298`).
The instance's programs satisfy it. The invariant is `ArenaInv`:

- `Laying`: the allocator works for the lifetimes of this program and keeps its own
  `IInv`, so planes of two living currents never meet;
- `Waiting`: no tile runs; a plan, if there is one, is that of the program (`IsPlan`:
  rows in order, none missing, the flag on the first row of each current);
- `Executing`: the tile (`IsTile`) has all rows of a current or none, those of the
  parents of each of its rows, and all closures of what it was asked for; the clears
  of a stage touch its own currents only. `Keeps` is the heart: at every row, each
  current that is alive at the stage of that row and has executed rows holds, in
  every plane, exactly what these rows sum to (`Expected`), finished or not. `Sums`
  says the same of the amplitudes.

`Keeps` says nothing of planes whose owner is dead or has not begun; that is why a
stale arena does no harm. A row is right because its parents are alive at its stage
(`ParentsAlive`), all their rows precede it (`FinishedBefore`), and whoever else is
alive has no plane of its destination (`AliveApart`, `OverwriteApart`).
`AmplitudesHold` follows at the last row.

For `SelectionHolds`, an address resolves to one current at each stage (`AtIs`,
`LivingIs`), so following addresses and following the program have the same steps.
The recursions of the model (domains, terms of a copy, the worklist, the
dependencies) are finite but as long as the program. What they compute is proved
without the induction theorems of the library: `NatSet` obtains induction for a *set*
of naturals from well-foundedness; with it `RecursionIs` gives the existence of a
function defined by descending rank, and `IterationIs` and `FixedPoint` show that
adding what a step finds, as often as there are currents, ends in the least closed
set. Both the worklist and the dependencies are the least set closed under the same
step (`MarkedIs`, `DependsOnIs`), so they are equal (`MarkedIsDependency`).

**AttemptHistory** (`CellAssumption`, `SizeAssumption`, and `PairAssumption`: the
equivalents of an equivalent cell can only be the cell itself, as `catalog.py`
builds them). `IInv` adds

- `Named` and `Lineage`: a result names an artifact whose maker names it too, of an
  equivalent cell, so there are no chains of reuse to follow but one link;
- `HoldsCell`, `HoldsUse`, `MakesOwn`, `Publishes`, `Reuses`: which locks a worker
  holds at each step and what it has under them. In particular, who measures on a
  borrowed artifact has held the use lock of its attempt since it saw it standing;
- `Protects`: of the consumers that a cleanup has read, whichever still needs the
  target was seen to need it. This is the part that lets the cleanup read the other
  cells one by one without their locks: a consumer that publishes after it was read
  could only need the target if it held the use lock, which the cleanup holds.

`WhatIsNeededStands`, `OwnReuseIsUndisturbed`, `HistoryStaysLight` and
`OnlyObsoleteIsMoved` follow. The conditions that the properties themselves name
(attempts that were not retimed) are those of the findings above.

**OtfRuntime** (`SentinelAssumption`, `RecordAssumption`: `None` is no family of the
lane and no snapshot). The operators of `FamilyExecutor` get a lemma each, about
what they do to a `Sound` executor: one whose row tables belong to families marked
as exposed (`Marked`), and whose workspaces hold current parameters when they carry
the current version (`UpToDate`). On top of it `LaneAgrees` says at every step that
the lane's last family is the one the executor retains, with room and a valid
handle, and `InPhase` what a call knows when it selects, executes and commits. From
these follow `LayersStayCoherent`, `RowTablesStayValid`, `SelectedCanExecute`,
`SavedCanBeLoaded`, `FailureKeepsLeadingFamily`, and the refinement
`RuntimeKeepsPromise`: the visible steps are the committing call and the update of
parameters, every other step stutters.

**CampaignScheduler, blocked cells.** `BlockedCellsHaveAFailure` assumes `AllKeep`:
every campaign runs only what is missing. Then no result that a campaign relied on is
replaced, and `Visible` (what a loop recorded is what is current) with
`BlockedRightly` is inductive. A peer that measures again can replace a success
between two reads, and then the statement is not one the code makes.

**GenerationPhases** (in `GuardedWork_proofs`; `SizeAssumption`; `ShapeAssumption`,
with the cached phase the last one, as `generate` calls `lower_process`).
`GenerationIInv` consists of `Sharing`, what an operation knows of the entry it lowers
or waits for, `Mapped`, where each process is while the caller maps a phase, and
`Ending`, what the caller knows once it has left the loop. One lowering for a class,
a future for whoever waits, no operation without the temporary directory, outputs in
order and failures that are raised follow for any number of processes, phases and
workers, whoever fails and whenever an interrupt comes.

**CompilerGate** (in `GuardedWork_proofs`; `GateAssumption`; `GuardedPlaces`: interrupts
come while a call polls, holds its slot without a compiler yet, or communicates).
`Holding` says at which places a call has a slot, `Tidy` where a compiler may live and
what a call has left, `Success` what an exit code says of the library.
`CompilersHaveSlots` then maps the running compilers one to one into the slots. An
interrupt between `Popen` and `communicate`, or during the termination, escapes the
bound (see Findings), hence the hypothesis.

**WorkerSupervisor** (in `GuardedWork_proofs`; `SupervisorAssumption`). That nobody of
the known tree lives when the supervisor returns rests on

- `Captures`: whoever is alive in the last sample has been captured before anything
  is decided from it, so the teardown waits for all of them, whatever forks, leaves
  the group or is orphaned in the meantime;
- `WorkerEnding`: the supervisor has passed its loop only when its worker ended;
- `Closing` and `Retrying`: what a reported completion says of the limits, and where a
  sampler that failed and a worker that ended can have met.

`Strangers` carries that no signal reaches a process that never was the worker's. It
needs that the parents of foreign processes are foreign, so that no closure over
parents takes one in, and is inductive only if an identifier of the last sample is
not given away before the next one (`~ReuseKnown`, see Findings): the supervisor
compares start times of captured processes, and a known one keeps its place.

**MemoryWatchdog** (in `GuardedWork_proofs`; `WatchdogAssumption`). `Watched` says that
whoever is alive of those ever sampled is known to the sampler, `NoneLeft` that nobody
of them or of the group lives once a termination stopped without a failed probe, and
`Enforcing` what each outcome says of the limit, the failures and the exit.

**CampaignReset** (in `CampaignFiles_proofs`; `ResetAssumption`). Four ideas, with
different hypotheses, all of them parts of `IInv`:

- `ResetIInv` has none: for any number of journals, archives, processes, deaths
  and late workers, each directory that was made is at exactly one path
  (`Directories`), because whoever renames holds the guard of its destination
  (`Alone`) and works on a COMMITTING journal (`CallInv`). From it follows
  `NothingIsLost`.
- `Progress` holds while no late worker of the old campaign has made one of
  its roots again (`NoStray`; `StraysStay` shows that such a root never goes away).
  The idea is `InPlace`: a directory is where it was made or where one of the six
  renames takes it, so a rename whose source is gone and whose destination is taken
  was done for this very journal, and a successor may pass over it. From it follows
  `CommittedIsComplete`. With a root made again the recovery of the same journal
  finds both paths taken and refuses, and a rival journal archives the new root as
  the old one: nothing is lost then, but its archive is not that of the old campaign.
- `Finishing` speaks, like its property, of behaviours without a death. From it
  follows `RepeatsInstallNothing`.
- `Loadable` assumes one verification at a time with the pinned marker
  (`OneVerifier`, a hypothesis of `FilesAreWhole`). Nothing in `verify-baseline`
  excludes a second one; the statement is about the single operator that the
  documentation has in mind.

**ReportPublisher** (in `CampaignFiles_proofs`; `PublisherAssumption`: the
cells are distinct and none is called like the tables or the PDF, and `None` is no
process and no manifest). `ReportIInv` adds

- `Owners`: who has the lease and who the writer lock at each phase;
- `Reads`: while the first reading proceeds, what it saw is at most what is current;
  at the moment between the readings the pointers (`between`, a history variable)
  are at least what the first saw, and the second sees at least those. Two equal
  readings leave no room, and this is `CapturesExisted`;
- `Newer`, a part of `Reads`: what a publisher saw of a cell is not older than what
  is published. The lease makes it inductive: who reads is the only one who can
  publish in between. From it follows `ManifestGoesForward`;
- `Installs`: `Undoable` says that the report with everything put back that an
  installer has kept has tables of its caches. A replacement and an undone
  replacement keep it, from before the first one to after the last one undone.
  That the tables show the caches follows for rollbacks of any length, and for a
  publisher that dies with everything installed but the manifest;
- `Captured`: the manifest is of pointers that were current, and the files that it
  identifies hold them, from which follows `ValidReportsAreWhole`.

An installer that dies or fails between a replacement and its note is excepted
(`torn`), as it is in the property; `ValidReportsAreWhole` has no exception.

**PointSelectors** (in `NativeRuntime_proofs`, as `Points`; `SizeAssumption`,
`ListAssumption`, and that the requests of a scene are requests). The planner has four
loops, so `PointsIInv` has a part for each, of what the loop knows of the rows it has
passed. `Keys` is the key of every row and `With(keys, key, n)` the rows with a key
among the first n; each loop is a lemma about one more row.

- `Running`: while no key came back, the runs are apart, of different keys, and cover
  the rows. `RunsAreStable` makes the ranges of `Stable` of it;
- `Counting`: once a key came back, there is one group for each key seen so far, in the
  order of the first rows, and its count is the number of its rows;
- `LayingOut`: the next range begins where as many rows are placed as the groups before
  have together (`Before`), so the ranges are disjoint and end inside the batch;
- `Placing`: the places of each group up to its cursor hold its rows among those
  passed, each once and in order. At the last row every cursor is at its end:
  `GroupsAreStable`;
- `Executing`: the groups before `index` have their values at their own rows, whatever
  the scratch held before (`ContiguousIs`, `GatheredIs`); at the end all rows have;
- `Admitted`, `Planned`: what passed the two looks at the request, and the plan that
  stands only where its rows allow it. From them follows that an answer is given to
  acceptable requests alone, and that only a batch whose rows select alike may leave
  rows written by a failure.

`PromiseStep` maps each action to `Start`, `Succeed`, `Fail` or a stutter of
`PointPromise`. The sorting that is proved (each group in the order of the points,
the groups in that of their first points) is what `point_selectors.rs:52` promises.

**HelicityCompanion** (in `NativeRuntime_proofs`; `CompanionAssumption`). `CallInv`
says that the points of the tiles before the present one have the amplitudes of the
call's helicity and the runtime's parameters, and the others nothing; `Bound` that the
family is of that helicity and has room for the tile, whatever tile lengths the batch
is cut into, packed executors or not; `Computed` that the workspace holds the amplitudes of the tile before it
is contracted; `Older` that applied parameters are of no version to come. The
companion's part of `CallsAreAnswered` follows. `TablesAreOfRetained` is a part of the invariant, because a
kernel runs only with tables that were made for the retained family.

**ParameterTree** (in `NativeRuntime_proofs`, as `Params`; `TreeAssumption`,
`NameAssumption`). The walk of an update visits the runtimes in their order, so its
idea is a prefix (`Walking`): the runtimes before `at` hold the new values, the others
the old ones, and the snapshot is the tree as it was before, with what it had computed.
The lemmas `TreeIsCurrent` and `MassClassIsKept` follow for trees of any number of
runtimes and any set of masses; with `StablePartitions` and the kernels' tables they
are `NothingIsStale`. The mass classes are kept at every moment of an update, not only
between two (`InClass` of the values an update asks for at the runtimes it has passed).

**What is only model-checked.**

- All liveness, and what needs ENABLED: out of the prover's reach.
- The properties of the three runs that end in a violation: they do not hold.

No invariant of a passing run is among them.

## What the models leave out

- **Artifact store.** Readers are not actors: the promise to them is the
  refinement. Staging directories of killed processes stay on disk but have
  names that are never used again, so they are not tracked. A group map is
  always present (older artifacts without one are not). The read-back after the
  lock is released, and bundles written by other commands through the same
  transaction class, are not modelled.
- **On-the-fly runtime.** Rows, momenta and amplitudes are replaced by the name of
  the family they belong to, so a wrong sum is out of reach while a sum over
  the wrong family or with old parameters is not. Invalidation cannot fail:
  every operation has exclusive access to the executor. Branches for a matching
  candidate at the start of a call, and `resize_active_family`, are
  unreachable, because every call commits or discards (`Coherent`). Resolved,
  by-ordinal and profiled evaluations take the same path as a total and are not
  repeated. One snapshot file, saved and loaded by the same runtime, stands for
  all; `LoadFails` stands for every file that is refused.
- **Campaign scheduler.** The strict policy with manual terminal results; no
  resource lanes or frontier. Reading the dependencies and publishing a result
  are atomic: each is one read or one rename of a small file. One prepared model
  is shared by the cells that need it. Reuse and archive are in `AttemptHistory`,
  the child process in `WorkerSupervisor`; the three are not composed.
- **Result store.** Digests and schemas are whether the files are there. Export and
  import of bundles are left out. A worker that reads the result file of a baseline
  or peer by path (`scheduler.py:3130`) is left out: nothing protects that read or
  promises to.
- **Generation.** What an operation computes; `lower_once`, which only tests call.
- **Gate, supervisor, watchdog.** Rendering, the parsers of the platform probes, the
  fields of reports. A watchdog that is signalled between `Popen` and the
  installation of its handlers (`memory_watchdog.py:906`) is left out.
- **Native runtime.** Profiles and the ledger of warnings. Compiled and eager lanes
  overwrite scratch memory with a fixed sequence of kernels.
- **Arena.** The native interaction rewrite, the fan-out of one kernel call to several
  rows, the union sources of all-flow plans, and profiling.
- **Reset, publisher.** The pins of the seed manifest and the inventory of the archive;
  eligibility of measurements; rendering and LaTeX are one step.
- **The rest** is in `PROJECT.json` with its reason: physics algebra and numerics
  that TLC cannot evaluate, parsing and formatting without state, packaging. By
  far most of the repository's lines are of this kind, or are benchmark and
  profiling drivers under `tools/developer` and `tools/fft_profiling`.

## Plan

The safety statements the runs check are proved. What is left is in the models: the
composition of `CampaignScheduler` with `AttemptHistory` (a cell's worker with its
cleanup), and the union sources of `ArenaExecution`.
